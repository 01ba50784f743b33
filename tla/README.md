# A verification of bitprim-core

bitprim-core is the C++ library beneath the bitprim node: the asynchronous
utilities the node is written with, the chain types with the consensus rules that
need no database, the script machine, the peer-to-peer messages, and the wallet
types. This directory holds TLA+ modules translated from its source, the TLC
configurations that check them on small instances, and proofs that TLAPS checks
for every value of the constants.

`PROJECT.json` is the index: the parts of the library and what is modelled of
each, the runs, the lines of source behind every definition, what could go wrong
where, and the theorems.

## The system

| Part | State it keeps | What makes it hard | Modules |
| --- | --- | --- | --- |
| `sequencer` | `executing_`, the queue `actions_` | decides under a mutex, posts after releasing it | `Sequencer`, `SerialExecutor` |
| `threadpool`, `work`, `dispatcher` | threads, the work that keeps the service alive, a strand | spawn, shutdown and join race with posts; restart after a join | `Threadpool` |
| `subscriber`, `resubscriber` | `stopped_`, `subscriptions_` | handlers run outside one mutex and inside another; stop races invoke | `Subscriber` |
| `pending` | `stopped_`, `elements_` | elements are stopped from a copy, outside the lock | `Pending` |
| `synchronizer` | a counter shared by copies | the handler must run once whatever the order of results | `Synchronizer` |
| `deadline` | a timer and its handler | an expiry already queued when `stop` runs | `Deadline` |
| `prioritized_mutex`, `sequential_lock` | three mutexes; a sequence number | overtaking and starvation; torn reads | `PrioritizedMutex`, `SequentialLock` |
| `flush_lock`, `interprocess_lock` | a file | crashes; other processes | `FlushLock`, `InterprocessLock` |
| `chain_state`, `compact` | windows of past headers; a target | promoted windows must be the ones population would read | `ChainState`, `Compact` |
| `block`, `header`, `transaction` rules | a chain, its unspent outputs | check, accept and connect must together exclude double spends and inflation | `Validation`, `Ledger` |
| value classes of `chain`, `message`, `keoken`, `machine`, `wallet`, `config` | members and lazily computed values | cached values outlive what they were computed from | `Classes`, `Objects` |
| serialization | bytes, the bits of a stream | read back what was written at every protocol level; truncated input | `Stream`, `Wire`, `Messages`, `Codec` |
| scripts | two stacks, the condition stack | limits, numbers of 4 and 5 bytes, branches, soft forks | `Operation`, `Machine`, `Script`, `Spend`, `Mnemonic` |
| `formats`, `config`, `binary`, `uri` | texts, bits | text that is read back as it was | `Text`, `Config`, `Binary`, `Uri` |
| wallet | keys, payments | both parties must derive the same; what an endorsement protects | `Keys`, `EncryptedKeys`, `Payment` |

The parts meet in few places. `dispatcher` posts to the threadpool's service
directly, through its strand, through a sequencer (`lock`, `unlock`) or by a
deadline (`delayed`); `Threadpool`, `Sequencer` and `Deadline` each take the
service as the code uses it: a posted handler runs later, once, on some thread.
`relay` of the subscribers goes through such a strand. `block::accept` reads a
chain state; `Ledger` populates one at each height, as the organizer that calls
the library does, and `Validation` is the code it then calls. The script machine
decides `connect`; in `Ledger` whether an input is satisfied is an attribute of
the transaction, and `Spend` and `Machine` are about that decision itself. `Payment`
is the other side of it: which edits of a transaction an endorsement survives.

## From the code to the modules

A module has the members of a class as variables (or, for values, as fields of a
record), one action for each method or for each part of a method between two
points at which another thread, process or callback can act, and constants for
the sizes. Names are those of the source where TLA+ allows it.

- **Where a method is split.** `Sequencer` splits `lock` and `unlock` at the
  release of the mutex, since they post afterwards. `Subscriber` splits
  `do_invoke` at every acquisition and at every call and return of a handler.
  `Pending` splits the loops of `stop` (on a copy, without the lock) and of `close`
  (under it). `Synchronizer` separates counting from invoking the handler.
  `InterprocessLock` splits `lock` into creating, opening and locking the file and
  `unlock` into closing and removing it. `PrioritizedMutex` is a script of single
  mutex operations for each client. Everything that the code does under one
  mutex, without a call out, is one step.
- **What is external.** The asio service, its timer, POSIX file locks, digests,
  scrypt, AES and the curve are not in the repository. They are modelled by what
  the code relies on: a service stops when it has no work left and keeps its
  queue; a wait that expired can no longer be cancelled although its handler has
  not run; a lock belongs to the pair of process and file and is lost on close; a
  digest is injective, the curve is a group of small prime order.
- **What is scaled.** Integers keep their wrap-around, on small widths:
  `Compact` has digits of two bits in place of bytes, `ChainState` 4 bits for
  `uint32_t` and 8 for `size_t`, `Validation` a `MaxUint` of 7, `SequentialLock`
  a counter modulo 4, `Binary` blocks of three bits. Proofs do not fix these.
- **History.** Variables that the code does not have only record what happened, so
  that properties can speak of it: `order` and `started` (`Sequencer`), `owed`,
  `received` and `closing` (`Subscriber`), `calls` (`Synchronizer`), `taken` and
  `halted` (`Pending`), `inPlace` (`Payment`), `meant` (`Objects`, `Uri`) and `bits`
  (`Binary`). No action but theirs reads them, except
  the bounds on the number of events and restarts.
- **Builds.** `ChainState` and `Validation` take the currency as a constant and
  cover the BTC and BCH builds; Litecoin's proof of work is left out.

The map of `PROJECT.json` gives the lines of each definition that models code. A
helper whose lines are all within those of the definition that uses it, an action
that only applies a mapped operator to the state, and a constant of one line have no
row of their own.

The operators commented "Fault:" are the code with a plausible mistake in it (a
dropped guard, an off-by-one, a missing reset). Nothing uses them; they are kept
to see that each property notices such a mistake.

## What the runs check

Each run asks a question that takes several steps, often of several actors, to
answer wrongly. The runs that pass:

| Run | Instance | What it shows |
| --- | --- | --- |
| `primitives` | four operations on a sequencer; four starts of a timer; two writers and a counter modulo 4; three processes and their files with crashes; two clients of each priority; ends of a process at any point of a write | `SerialSpec`: a sequencer runs one operation at a time in the order of `lock`. `CalledOnceUnlessCanceled`: the guarantee that `deadline.cpp` gives, a call exactly once unless cancelled (what follows a cancellation is left open, see the observations). `NothingTornIsRead`: a read that `is_read_valid` accepts is whole unless a writer was told of an overlap or the counter came all the way round, and a store whose writing was interrupted is not opened. `LockDecidesRightly`: an interprocess lock excludes while no file is removed under its owner, and a file left behind never makes it fail. `LowNeverOvertakes`, `EveryoneIsServed`: high priority goes first and nobody starves |
| `subscriber` | two handlers, two invoking threads and the strand, two events, a restart | `NobodyMissesAnEvent`, `ClearedAfterStop` (what the destructor asserts), `EveryEventCompletes` |
| `pending` | four elements, two of them of one address, one stored without a finder and so possibly twice, two threads | `NoneEscapesStop`: whatever the order of `store` and `stop`; `MatchesAreUnique`; `AllAreStopped` |
| `synchronizer` | four calls, two errors, counts from 0 to 3, all modes | `HandledOnce`; `ResultIsRight`: success or failure as the mode says, and the first error where errors end the wait; `HandlerIsInvoked`, for counts above zero |
| `threadpool` | four jobs of all kinds, two threads, a restart | `NothingIsLost`: no job twice or out of order, none lost by shutdown and join; `PoolProgresses` |
| `chain_bitcoin` | a testnet of seven blocks with retargets every 3, votes on versions, a checkpoint, reorganizations | `PromotionAgrees`: a promoted state is as good as a populated one; `EasySearchEnds`: an assertion that no block reaches; `RulesNeverLoosen`: medians never go back and enforced versions stay enforced |
| `chain_cash` | thirteen blocks through the uahf and daa heights | `CashAgrees`: the same for the cash windows, and no unsigned difference of medians wraps |
| `ledger` | chains of three blocks with up to two spends, tried with claims, overflowing values, double spends, forward references, repeated coinbases, locks; and, each by itself, pairs of objects, payments, keys | see below |
| `encodings` | see below | see below |

`ledger` (module `MCValues`) has one variable, `subject`, that says which of its
parts a behaviour exercises; the others stand still.

- `Ledger`: `NoDoubleSpend`, `SpendsExistAndAreMature`, `NoInflation`,
  `UnspentIsNotReplaced` are what check, accept and connect promise together.
  `MineableBeforeSegwit` and `PoolIsCacheSafe` relate the pool's verdict on a
  transaction to the block's. Before bip141 what the pool accepts can be mined at
  once in a block with a coinbase, if the two fit. Sizes are real here: a block
  has its header, its count and its transactions, and some submitted transactions
  just fit, some fit only without a coinbase and some have too many signature
  operations. And what the pool accepts stays valid as the chain grows, as a comment
  in `transaction.cpp` argues. The active forks are fixed along a chain; the
  activations themselves are in `ChainState`.
- `Objects`: `ActsAsItsValue`. Two objects of a class are built, copied, moved,
  assigned, changed by setters and references and asked for what they cache. The
  classes do not bear every sequence of these; `Bears` states the contract under
  which the property holds, and the observations below say where it is narrower
  than a caller would think.
- `Payment`: `EndorsementCovers` (an endorsement checks out exactly while what its
  hash type protects is as it was signed, in the original and the version 0
  algorithm) and `PaymentsBalance`. The version 0 hash reads the hashes of outpoints,
  sequences and outputs that a transaction keeps, so the model keeps them too:
  the copying setters drop them, the moving ones and edits by reference do not. The
  property is claimed for whoever has the transaction from its bytes, and for the
  edited object itself while no edit went past a hash it keeps.
- `Keys` and `EncryptedKeys`: `KeysAreFollowed` (a watcher derives the same public
  keys; a stealth payment is found and can be spent by its receiver; a signed
  message leads to the signer's address) and `EncryptedKeysOpen`.

`encodings` (module `MCEncodings`) is the same for what is computed from bytes and
text.

- `CompactIsFaithful`: every compact value and every big number of a format with
  digits of two bits.
- `RoundTrip`, `PartialIsRefused`: every chain and message class is written to a
  stream or to memory at every protocol level that some class tests, on both sides
  of each, is possibly cut short, and is read; headers and transactions also as
  options of the command line.
- `ProgramIsSound`: every operation on stacks of every size within limits scaled to
  7 items, 5 counted operations and 80 bytes, in and out of branches.
- `SoftForksOnlyRestrict`: the standard spends under growing sets of rules.
- `EncodingInverts`: scripts, numbers, their texts and `find_and_delete`, with
  pushes that resemble one another and endorsements above the push limit.
- `BinaryIsBits`: bit fields of up to seven bits, in blocks of three, under every
  operation.
- `TextReadsBack`: words of up to four tokens, bytes in every base, settings, URIs
  whose parts are set in every order. A part of a URI is read back as it was set
  when its characters are below 128.

Three runs end in a violation, each of something that the repository says of
itself:

- `interprocess_exclusive`: `interprocess_lock::lock` sets `lock_` also when
  `try_lock` fails, and `unlock` then removes the file that another process has
  locked, so that a third lock creates a new file and succeeds.
- `pool_sigops`: with bip141 `transaction::accept` compares a count of signature
  operations in which legacy ones weigh fourfold with a limit that grows fourfold;
  `block::accept` computes that limit but compares with another one, without the
  factor, so that the pool accepts what cannot be mined.
- `version_size`: `version::to_data` leaves out `relay` by the smaller of two
  versions and `serialized_size` counts it by one of them, so that the assertion
  between them fails.

### Why the bounds are enough

Bounds are constants of the `.cfg` files. The concurrent classes treat all threads,
handlers, operations and elements alike; two threads and two of each other kind
suffice for every pair to race, one more for a third to come between, and the
theorems below remove these bounds for safety. Chain lengths are chosen to pass two
retargets (interval 3), the whole sample of versions (3), the largest window, and
each activation height, with a reorganization anywhere. Three blocks of the ledger
hold a coinbase, its maturity, its spend and the next spend, and repetitions of each.
Exponents, scripts and texts end one or two past the last limit that the code
tests. `CHECK_DEADLOCK FALSE` is everywhere since all systems may stop: clients
make finitely many calls.

### Fairness

Only what a scheduler owes is assumed, as weak fairness.

- `Sequencer`: a posted handler runs, a thread that left the mutex reaches its post,
  and an operation that runs ends with `unlock`. The last is an assumption on the
  clients: the code states it only by calling `dispatcher::unlock` "Complete
  sequential execution" (`dispatcher.hpp:106`), and an operation that never unlocks
  does hold up all that follow. No fairness is assumed of calls of `lock`.
- `Subscriber`: a thread inside `do_invoke` takes its next step, handlers return,
  and the strand runs what was relayed to it. Nobody need call `stop`.
- `Pending`: the loops of `stop` and `close` go on.
- `Synchronizer`: the operations complete, each once, and a thread that cleared the
  count invokes the handler.
- `Threadpool`: a thread of the pool takes work and finishes it; `join`, which waits
  for the threads, returns when they have ended.
- `Deadline`: a timer expires and a queued handler runs.
- `PrioritizedMutex`: every client takes its next step if it can. Weak fairness on a
  step that needs a mutex is enough as each client makes finitely many rounds; with
  endless clients of high priority the low ones could starve, as is their lot.

## What is proved

TLAPS checks these theorems for every value of the constants that satisfies the
named assumptions: any number of threads, operations, handlers, processes, blocks.
Modules that hold theorems extend the module of a run, so a theorem is about the
definition that TLC checks.

| Module | Theorems | Inductive invariant and argument |
| --- | --- | --- |
| `PrimitivesProofs`, the sequencer | `Invariance`, `OneOwner`, `Owned`, `LockOrder`, `ImplementsSerial` | `IInv` of `Sequencer`. One owner and lock order are not inductive alone: `QueueInv` says which operations are queued and that the queue has no repetitions, `OrderInv` that `order` is what began, then the one operation between admission and its start, then the queue. `ImplementsSerial` maps each step to a step or a stutter of `SerialExecutor` under `ended <- NumEnded` |
| `SubscriberProofs` | `Invariance`, `OneHandler`, `Conserved`, `NobodyMisses`, `Cleared` | `IInv` of `Subscriber` follows one handler to which an event is owed: in the member list (`Pending`), in the temporary list (`Served`), called. `LockInv` says that who is inside `do_invoke` has the mutex and the only temporary list; `SubscriptionsAreConserved` that a handler is in one list, once; `ClosingInv` that after `stop` the list only shrinks |
| `Pending` | `Invariance`, `NoneEscapes`, `Unique`, `Once` | `IInv`: only the thread whose `stop` set `stopped_` has a copy, taken once, and for each element what it has not reached and what was stopped make up what was taken (`CopiedOnce`). The collections are bags, as the code may store a pointer twice |
| `Synchronizer` | `Invariance`, `AtMostOnce`, `RightResult` | `IInv`: below the count nobody is about to invoke. `ResultInv`: below the count no call ended the wait, and the code of the call that clears it is among `Decided`, the results that no later call changes |
| `ThreadpoolProofs` | `Invariance`, `PoolLosesNothing` | `OnePlace`: a posted job is in exactly one place; `OrderInv`: of two ordered jobs the later one is behind the earlier wherever both are; `ServiceInv`: the service stops only with nothing left to do, or by `abort` |
| `PrimitivesProofs`, the rest | `NothingTorn`, `LockDecides`, `CalledAtMostOnce`, `HighGoesFirst` | one invariant for each class: `SequentialInv` (unless told of an overlap, the number is odd exactly while one writer writes, and a reader's number has not come back), `FlushInv`, `InterprocessInv`, `TimerInv`, `PrioritizedInv` (a client owns `next_mutex_` exactly while its remaining script is one that gives it back) |
| `ChainStateProofs` | `Invariance`, `ExactWindows`, `BitsReachBack`, `EasySearch`, `LatestRetarget`, `PromotedAsPopulated` | `IInv` of `ChainState`: `WindowsAreExact` (versions and times are those of the heights just below), `BitsWindowReachesBack` (the bits window is contiguous and reaches a retarget height where the search needs one) and the retarget time. `SlideWindow` is the step of every window; the arithmetic of retarget heights is proved from division with remainder. `PromotedAsPopulated` (`PromotionAgrees`) adds `StandInv`, the rest of a state: its own values, the hashes of the checkpoints that it passed, and enough bits for the cash window. From both, field by field, `Alike` says what the promoted and the populated state share; the bits windows may differ in length, so the easy search and the cash entries are shown to end at the same height in each, by the least height at which they could stop |
| `AcceptProofs` | `AcceptedAgainstPast`, `RulesStay`, `MediansAreOrdered`, `CashStatesAgree` | `RulesInv`: `IInv`, `HeadersInv` (fields have their width) and `AcceptedInv`: each block above the checkpoints is later than the median of its past and of a version that its past enforces. `MedianRises`: a median cannot fall when the oldest time leaves and one above the median comes, by an injection between the times below it. `CountStays`: the count of a version cannot fall when one that counts enters. `RulesStay` (`RulesNeverLoosen`) takes these from the past of a height to that of the next; `MediansAreOrdered` applies the first once for each block between the two medians of the emergency adjustment |
| `LedgerProofs` | `LedgerHasNoDoubleSpend`, `LedgerSpendsExist`, `LedgerReplacesNothing`, `PoolStaysValid` | `LedgerInv`: the two properties and that the chain is a sequence of blocks. `ValidSpends` derives from a successful `check`, `accept` and `connect` what the rules say together; `SpendOKAgrees` that a claim is as good in a longer chain. `LedgerReplacesNothing` adds `BlocksOK`, that a block has one coinbase, which with bip34 has its height: two transactions of one hash share an input, which the rules on double spends exclude, unless both are coinbases. `PoolStaysValid` (`PoolIsCacheSafe`) compares two verdicts: with `HistoryInv` (an outpoint names one output of the chain) every prevout that the pool saw is the same in the longer chain, locks and maturity only ripen with height and median time, and the sums are of the same values |

The assumptions are `ASSUME`s of the modules (intervals are positive, identifiers
of nobody are not threads, the modulus is even) and, for the ledger, that the lists
of transactions tried are sequences and that the maturity is a natural number.
`LedgerReplacesNothing` assumes more: that what is tried are transactions with their
fields, that bip30 is in every set of active forks, and that `allow_collisions` is in
one only with bip34 ("allow_collisions is active above the bip34 checkpoint only",
`chain_state.cpp:303`). The rules of a ledger do not change along its chain, so the
theorem says nothing of a chain whose first blocks precede bip34. `PoolStaysValid`
assumes this as well, and that what is submitted to the pool are transactions whose
locktimes, sequences and points are numbers, as are times and depths.

The assumptions of `ChainState` are what `constants.hpp` and the settings give. Times
and versions have 32 bits. The cash window (147 heights) has room for two ends of three
blocks and for the times of both medians (11 and 6), is no longer than a retargeting
interval, and is full when the uahf activates (`CashAssumption`). The checkpoint of bip9
bit 1 is the genesis block on regtest only (`RegtestAssumption`), and of the configured
checkpoints there is a highest, if there are any (`HeaderAssumption`). Under a
checkpoint `accept` tests nothing, so `RulesNeverLoosen` and the order of the cash
medians are claimed above them; the latter where the work is retargeted, as the code
computes it only there.

Model-checked only:

- liveness (`EveryEventCompletes`, `AllAreStopped`, `HandlerIsInvoked`,
  `PoolProgresses`, `EveryoneIsServed`, and that a `deadline` calls its handler at
  all): the prover has no rules for fairness. `CalledAtMostOnce` is the safety half
  of `CalledOnceUnlessCanceled`;
- what recursive definitions and folds compute (`CompactIsFaithful`, all of
  `encodings`, `KeysAreFollowed`, `EncryptedKeysOpen`, `EndorsementCovers`,
  `PaymentsBalance`): there is no induction over data. `NoInflation` is of this kind
  too, a statement on sums;
- `MineableBeforeSegwit`, which compares the verdict on a transaction with that on a block
  through sums of values, sizes and sigops, and `ActsAsItsValue`, whose classes and
  members are finite tables that the run covers in full.

## What is not modelled

`PROJECT.json` lists every part of the library. Left out are: logging, Unicode
conversion, sockets, parsing of command lines and settings files, property trees
and images, which are input and output or the work of other libraries; the tables
of error messages and words; the random generator, which the modules replace by a
choice of any value; the digests and the curve themselves, which the modules
replace by functions with the properties used; the thin text wrappers of encrypted
keys; guards that lock by scope. The heading of a message and the choice of the
message class by it are left out of the messages, Litecoin's proof of work out of
the chain state, and thread priorities out of the pool.

The organizer, the store and the network are other libraries. `Ledger` takes the
organizer as calling `check`, `accept` and `connect` in that order with what it
populates from its chain, `Pending` its elements as objects with a `stop`.

## Observations

Reading the code for the models showed places where it does something else than
one would expect. The models do what the code does.

Concurrency

- `threadpool::empty` returns `size() != 0` (`threadpool.cpp:43`), the opposite of
  its description.
- `threadpool::abort` is described as abandoning outstanding operations; those left
  in the service run after the next `spawn`. `join` "is safe to call from any thread
  in the threadpool", and asserts that it is not.
- `deadline::stop` is described with "The handler will be invoked"
  (`deadline.hpp:80`); `deadline.cpp` says and does the contrary.
  `CalledOnceUnlessCanceled` takes no side.
- `synchronizer` in mode `on_success` is described as ending in `operation_failed`
  (`synchronizer.hpp:42`); it passes on the last code (`synchronizer.hpp:89`).
  `ResultIsRight` asks only that it be an error. With a count of zero the handler
  never runs.
- `pending::store` without a finder takes a pointer that it holds already
  (`pending.ipp:93`); `stop` then stops the element twice.
- `interprocess_lock::lock` "returns false if already locked"
  (`interprocess_lock.cpp:53`); a POSIX lock of the same process is granted again.

Chain

- A promoted state activates `allow_collisions` in the checkpoint block itself
  (`chain_state.cpp:1050`), a populated one above it only.
- Versions are compared as `size_t` after a cast to `int32_t`
  (`chain_state.cpp:233`), so that negative ones pass as large.
- `block::subsidy` shifts by 0 after 64 halvings (`block.cpp:616`): the subsidy is
  then the initial one.
- The pool's limits on size leave no room for the header, the count and a coinbase
  ("TODO: reduce by header, txcount and smallest coinbase size for height",
  `transaction.cpp:1142` and `1227`), so that it accepts transactions that no block
  can hold. `MineableBeforeSegwit` sets these aside.
- `find_and_delete_` is described as comparing and erasing bytes beyond one operation
  ("can erase arbitrary upstream data from the script", `script.cpp:1291`). In this
  code it compares at the starts of operations only and erases whole pushes:
  `EncodingInverts` shows that it removes those operations whose bytes are the
  nominal push of the endorsement, and nothing else.
- `op_check_multisig` turns some refusals, that of bip147 included, into a false on
  the stack. `SoftForksOnlyRestrict` excludes spends in which that happened.

Objects and their caches

- `header::from_data` has its `reset` commented out (`header.cpp:190`), and a header
  that is read anew keeps a hash computed before. Assignment of headers,
  transactions and blocks does not drop cached values, `block::reset` drops some, and
  the moving `set_inputs` and `set_outputs` keep the hashes of their parts
  (`transaction.cpp:551` and `577`). An endorsement of version 0 that is checked on an
  object edited in that way is checked against the parts as they were.
- `ec_public` compares a `version_` that no constructor sets (`ec_public.cpp:229`); it
  is the one wallet class left out of `Classes`.
- Assignment of a `point_value` does not take over `valid_`.
- `total_inputs(with_coinbase)` and `output::addresses(versions)` cache one answer
  whatever their argument.
- The move assignment and the comparison of `merkle_block` leave out
  `total_transactions_` (`merkle_block.cpp:273`).

Encodings

- `network_address::from_data` copies the address after a failed read has reset the
  object (`network_address.cpp:129`).
- `serializer::read_size_big_endian` and its twin fall through from eight bytes to
  four (`serializer.ipp:271`).
- A transaction with no inputs and one output is written in a form that reads as a
  segregated one.
- A checkpoint without a height is refused, although its height is documented as
  optional (`checkpoint.hpp:82`).
- `create_token` joins lot and sequence by `||` in place of `|`
  (`encrypted_keys.cpp:335`).
- `base85` decoding admits an index one past its table (`base_85.cpp:136`): character
  128 decodes to whatever byte follows the table, which `Text` leaves open.
- `escape` of `uri.cpp:136` prints a `char`, which is signed on the usual targets, as a
  number: a byte of 128 or more becomes eight hexadecimal digits and is not read back
  as it was. A label in UTF-8 is read when it comes escaped from elsewhere
  (`test/wallet/uri_reader.cpp:232`), but does not survive being written.
- The numbers of settings accept a sign; a minus wraps around from zero.
- Some lexicons of mnemonics share words; the model's do not, so a phrase is read
  in the lexicon that it was made in.
