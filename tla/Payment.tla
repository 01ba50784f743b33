------------------------------ MODULE Payment ------------------------------
(***************************************************************************)
(* Paying, as a wallet does it with this library: unspent outputs are      *)
(* selected (select_outputs.cpp), a transaction is drawn up over them      *)
(* (transaction_functions.cpp, or keoken's create_transanction.cpp), its   *)
(* inputs are endorsed one by one (script.cpp) and the endorsements put in *)
(* place, while other parties to the transaction go on editing it.         *)
(*                                                                         *)
(* A coin is a number and Worth gives its value; a hash is the value that  *)
(* is hashed, since double SHA256 is taken to be injective; a signature is *)
(* the pair of the key and the hash that it signs.  Inputs and outputs     *)
(* count from 1.                                                           *)
(***************************************************************************)
EXTENDS Integers, Sequences, FiniteSets, SequencesExt

CONSTANTS
    Worth,          \* the value of each coin, a sequence
    Minimums,       \* the amounts that a spend may ask for
    SignTypes,      \* the sighash bytes that a signer passes
    Dusts,          \* the amounts sent along with a token
    MaxInputs,      \* bound on the inputs of a transaction
    MaxOutputs,     \* bound on its outputs
    MaxEdits        \* bound on the edits after an endorsement

VARIABLES
    purse,          \* the unspent coins, a sequence
    asked,          \* the amount asked for
    option,         \* the selection algorithm
    picked,         \* the coins selected
    draft,          \* the transaction as it now stands
    kept,           \* the hashes that the transaction keeps for version 0
    inPlace,        \* history: an edit in place went past a hash that was kept
    held,           \* the endorsement made: of which input, over which transaction
    edits,          \* the edits made since
    phase           \* how far the payment has come

vars == <<purse, asked, option, picked, draft, kept, inPlace, held, edits, phase>>

Coins == DOMAIN Worth

SumOf(coins) == FoldSet(LAMBDA coin, sum : sum + Worth[coin], 0, coins)

Total(coins) == FoldLeft(LAMBDA sum, coin : sum + Worth[coin], 0, coins)

-----------------------------------------------------------------------------
(***************************************************************************)
(* Selection.  std::sort and std::partition are not stable, so coins of    *)
(* equal value may come in any order: each algorithm gives the set of its  *)
(* possible results.                                                       *)
(***************************************************************************)
\* direction is 1 for ascending values, -1 for descending ones.
Sorted(coins, direction) ==
    {order \in SetToSeqs(ToSet(coins)) :
        \A i, j \in DOMAIN order :
            direction * Worth[order[i]] < direction * Worth[order[j]] => i < j}

\* The coins in order until they reach the minimum; over no coins the loop ends
\* where an assertion calls the code unreachable, with nothing picked.
Reaching(order, minimum) ==
    SubSeq(order, 1, CHOOSE n \in 0..Len(order) :
        /\ n = Len(order) \/ (n > 0 /\ Total(SubSeq(order, 1, n)) >= minimum)
        /\ \A m \in 1..(n - 1) : Total(SubSeq(order, 1, m)) < minimum)

\* Fault: the accumulation starts from the smallest coins.
GreedyAscending(unspent, minimum) ==
    LET enough == {coin \in ToSet(unspent) : Worth[coin] >= minimum} IN
    IF Total(unspent) < minimum THEN {<<>>}
    ELSE IF Len(unspent) = 1 THEN {unspent}
    ELSE IF enough # {}
    THEN {<<coin>> : coin \in {c \in enough : \A d \in enough : Worth[c] <= Worth[d]}}
    ELSE {Reaching(order, minimum) : order \in Sorted(unspent, 1)}

greedy(unspent, minimum) ==
    LET enough == {coin \in ToSet(unspent) : Worth[coin] >= minimum} IN
    IF Total(unspent) < minimum THEN {<<>>}
    ELSE IF Len(unspent) = 1 THEN {unspent}
    ELSE IF enough # {}
    THEN {<<coin>> : coin \in {c \in enough : \A d \in enough : Worth[c] <= Worth[d]}}
    ELSE {Reaching(order, minimum) : order \in Sorted(unspent, -1)}

individual(unspent, minimum) ==
    Sorted(SelectSeq(unspent, LAMBDA coin : Worth[coin] >= minimum), 1)

select(unspent, minimum, algorithm) ==
    IF algorithm = "individual" THEN individual(unspent, minimum) ELSE greedy(unspent, minimum)

-----------------------------------------------------------------------------
(***************************************************************************)
(* Drawing up.  Amounts are words of Word values; a destination is the     *)
(* kind of its address and an amount.                                      *)
(***************************************************************************)
Word      == 64
max_money == 15
fees      == 2

max_input_sequence == 1     \* sequences are 0 and 1: only the last is final

BlankTransaction == [version |-> 0, locktime |-> 0, inputs |-> <<>>, outputs |-> <<>>]

\* config::input of a point: no script yet, and final.
input(point) == [previous |-> point, script |-> <<>>, sequence |-> max_input_sequence]

\* config::output of an encoded address and an amount: no amount above the
\* money there is passes, whatever the subtraction before it gave.
ParsedUnchecked(destination) == TRUE

Parsed(destination) == destination.amount <= max_money

\* Neither a null hash nor a default address has a script to pay to.
push_scripts(outputs, destination) ==
    Append(outputs, [pay |-> destination.kind, amount |-> destination.amount])

Payable(destination) == destination.kind # "null"

is_locktime_conflict(tx) ==
    /\ tx.locktime # 0
    /\ \A i \in DOMAIN tx.inputs : tx.inputs[i].sequence = max_input_sequence

Drawn(points, destinations, extra, locktime, version) ==
    [version  |-> version,
     locktime |-> locktime,
     inputs   |-> [i \in DOMAIN points |-> input(points[i])],
     outputs  |-> FoldLeft(push_scripts, <<>>, destinations) \o extra]

tx_encode(points, destinations, extra, locktime, version) ==
    LET bad == {i \in DOMAIN destinations : ~(Parsed(destinations[i]) /\ Payable(destinations[i]))} IN
    IF bad # {}
    THEN [error |-> IF Parsed(destinations[Min(bad)]) THEN "invalid_output" ELSE "thrown", tx |-> BlankTransaction]
    ELSE IF is_locktime_conflict(Drawn(points, destinations, extra, locktime, version))
    THEN [error |-> "lock_time_conflict", tx |-> BlankTransaction]
    ELSE [error |-> "success", tx |-> Drawn(points, destinations, extra, locktime, version)]

create_keoken_output == [pay |-> "keoken", amount |-> 0]

tx_encode_create_asset(point, amount) ==
    tx_encode(<<point>>, <<[kind |-> "key", amount |-> (amount - fees) % Word]>>,
              <<create_keoken_output>>, 0, 1)

tx_encode_send_token(point, amount, dust) ==
    tx_encode(<<point>>,
              <<[kind |-> "key", amount |-> dust],
                [kind |-> "key", amount |-> (amount - dust - fees) % Word]>>,
              <<create_keoken_output>>, 0, 1)

-----------------------------------------------------------------------------
(***************************************************************************)
(* Signature hashes.  A sighash byte is a number below 256.                *)
(***************************************************************************)
sighash_mask == 32      \* the values of the low five bits

to_sighash_enum(type) ==
    CASE type % sighash_mask = 3 -> "single"
      [] type % sighash_mask = 2 -> "none"
      [] OTHER -> "all"

AnyoneCanPay(type) == (type \div 128) % 2 = 1

\* The inputs that are signed: self alone, or all of them without scripts, those
\* of the others with their sequences or with 0.
SignedInputs(tx, index, code, type, keep) ==
    LET self == [tx.inputs[index] EXCEPT !.script = code] IN
    IF AnyoneCanPay(type) THEN <<self>>
    ELSE [i \in DOMAIN tx.inputs |->
            IF i = index THEN self
            ELSE [tx.inputs[i] EXCEPT !.script = <<>>, !.sequence = IF keep THEN @ ELSE 0]]

signature_hash(tx, type) == [tx |-> tx, type |-> type]

sign_none(tx, index, code, type) ==
    signature_hash([tx EXCEPT !.inputs = SignedInputs(tx, index, code, type, FALSE),
                              !.outputs = <<>>], type)

\* output::list outs(n) holds n default outputs, the last then replaced.
Cleared == [pay |-> "nothing", amount |-> -1]

sign_single(tx, index, code, type) ==
    signature_hash([tx EXCEPT !.inputs = SignedInputs(tx, index, code, type, FALSE),
                              !.outputs = [i \in 1..index |-> IF i = index THEN @[i] ELSE Cleared]], type)

sign_all(tx, index, code, type) ==
    signature_hash([tx EXCEPT !.inputs = SignedInputs(tx, index, code, type, TRUE)], type)

strip_code_seperators(code) == SelectSeq(code, LAMBDA op : op # "codeseparator")

one_hash == [one |-> TRUE]

generate_unversioned_signature_hash(tx, index, code, type) ==
    LET sighash == to_sighash_enum(type) IN
    IF index > Len(tx.inputs) \/ (index > Len(tx.outputs) /\ sighash = "single") THEN one_hash
    ELSE CASE sighash = "none"   -> sign_none(tx, index, strip_code_seperators(code), type)
           [] sighash = "single" -> sign_single(tx, index, strip_code_seperators(code), type)
           [] sighash = "all"    -> sign_all(tx, index, strip_code_seperators(code), type)

null_hash == <<"null">>

to_outputs(tx)   == <<"outputs", tx.outputs>>
to_inpoints(tx)  == <<"inpoints", [i \in DOMAIN tx.inputs |-> tx.inputs[i].previous]>>
to_sequences(tx) == <<"sequences", [i \in DOMAIN tx.inputs |-> tx.inputs[i].sequence]>>

\* inpoints_hash, sequences_hash and outputs_hash: computed once for a
\* transaction and kept until a setter resets them.  A copy keeps none.
Unkept   == <<>>
NoHashes == [inpoints |-> Unkept, sequences |-> Unkept, outputs |-> Unkept]

inpoints_hash(tx, hashes)  == IF hashes.inpoints # Unkept THEN hashes.inpoints ELSE to_inpoints(tx)
sequences_hash(tx, hashes) == IF hashes.sequences # Unkept THEN hashes.sequences ELSE to_sequences(tx)
outputs_hash(tx, hashes)   == IF hashes.outputs # Unkept THEN hashes.outputs ELSE to_outputs(tx)

generate_version_0_signature_hash(tx, hashes, index, code, value, type) ==
    LET sighash == to_sighash_enum(type)
        self    == tx.inputs[index] IN
    [version   |-> tx.version,
     inpoints  |-> IF AnyoneCanPay(type) THEN null_hash ELSE inpoints_hash(tx, hashes),
     sequences |-> IF sighash = "all" /\ ~AnyoneCanPay(type) THEN sequences_hash(tx, hashes)
                   ELSE null_hash,
     previous  |-> self.previous,
     code      |-> code,
     value     |-> value,
     sequence  |-> self.sequence,
     outputs   |-> CASE sighash = "all" -> outputs_hash(tx, hashes)
                     [] sighash = "single" /\ index <= Len(tx.outputs) -> <<"output", tx.outputs[index]>>
                     [] OTHER -> null_hash,
     locktime  |-> tx.locktime,
     type      |-> type]

\* The hashes that are kept once it was generated.
HashesAfter(tx, hashes, type, version) ==
    LET all == to_sighash_enum(type) = "all" /\ version = "zero"
        any == AnyoneCanPay(type) \/ version # "zero" IN
    [inpoints  |-> IF any THEN hashes.inpoints ELSE inpoints_hash(tx, hashes),
     sequences |-> IF all /\ ~any THEN sequences_hash(tx, hashes) ELSE hashes.sequences,
     outputs   |-> IF all THEN outputs_hash(tx, hashes) ELSE hashes.outputs]

generate_signature_hash(tx, hashes, index, code, type, version, value) ==
    IF version = "zero" THEN generate_version_0_signature_hash(tx, hashes, index, code, value, type)
    ELSE generate_unversioned_signature_hash(tx, index, code, type)

sign(secret, hash) == [key |-> secret, hash |-> hash]

check_signature(signature, type, key, code, tx, hashes, index, version, value) ==
    signature =
        [key |-> key, hash |-> generate_signature_hash(tx, hashes, index, code, type, version, value)]

\* A transaction is endorsed when it keeps no hashes yet.
create_endorsement(secret, code, tx, index, type, version, value) ==
    [signature |-> sign(secret, generate_signature_hash(tx, NoHashes, index, code, type, version, value)),
     type      |-> type]

-----------------------------------------------------------------------------
(***************************************************************************)
(* The wallet's three ways to endorse an input.  The bits set with |= are  *)
(* added where they are clear.                                             *)
(***************************************************************************)
WithBit(type, bit) == IF (type \div bit) % 2 = 1 THEN type ELSE type + bit

WithAnyone(type, anyone_can_pay) == IF anyone_can_pay THEN WithBit(type, 128) ELSE type

input_signature_old(secret, code, tx, index, type, anyone_can_pay) ==
    create_endorsement(secret, code, tx, index, WithAnyone(type, anyone_can_pay), "unversioned", 0)

input_signature_btc(secret, code, tx, amount, index, type, anyone_can_pay) ==
    create_endorsement(secret, code, tx, index, WithAnyone(type, anyone_can_pay), "zero", amount)

input_signature_bch(secret, code, tx, amount, index, type, anyone_can_pay) ==
    input_signature_btc(secret, code, tx, amount, index, WithBit(type, 64), anyone_can_pay)

input_set(script, tx, index) == [tx EXCEPT !.inputs[index].script = script]

-----------------------------------------------------------------------------
(***************************************************************************)
(* The steps of a payment.                                                 *)
(***************************************************************************)
secret == "secret"

\* The program runs the script from its last separator on.
Subscript == <<"checksig">>

\* What the signer passes: the script and the value as they are, the script with
\* its separator, or a wrong value.
Slips ==
    {[code |-> Subscript, error |-> 0], [code |-> Subscript, error |-> 1],
     [code |-> <<"codeseparator", "checksig">>, error |-> 0]}

NoEndorsement == [index |-> 0]

Destinations ==
    {<<[kind |-> k, amount |-> 1]>> : k \in {"key", "null"}}
        \cup {<<[kind |-> "key", amount |-> 1], [kind |-> "script", amount |-> a]>> : a \in {2, max_money + 1}}

Init ==
    /\ purse \in UNION {SetToSeqs(coins) : coins \in SUBSET Coins}
    /\ asked \in Minimums
    /\ option \in {"greedy", "individual"}
    /\ picked = <<>>
    /\ draft = BlankTransaction
    /\ kept = NoHashes
    /\ inPlace = FALSE
    /\ held = NoEndorsement
    /\ edits = 0
    /\ phase = "asking"

Select ==
    /\ phase = "asking"
    /\ picked' \in select(purse, asked, option)
    /\ phase' = "selected"
    /\ UNCHANGED <<purse, asked, option, draft, kept, inPlace, held, edits>>

\* What was selected, and why, is forgotten once a transaction spends it.
Forget == purse' = <<>> /\ asked' = 0 /\ option' = "greedy" /\ picked' = <<>>

Encode(destinations, locktime) ==
    /\ phase = "selected"
    /\ Len(picked) \in 1..MaxInputs
    /\ LET result == tx_encode(picked, destinations, <<>>, locktime, 1) IN
        /\ draft' = result.tx
        /\ phase' = IF result.error = "success" THEN "drawn" ELSE "refused"
    /\ Forget
    /\ UNCHANGED <<kept, inPlace, held, edits>>

Holding(index, endorsement, version, code, value, tx) ==
    [index |-> index, at |-> index, endorsement |-> endorsement, version |-> version,
     code |-> code, value |-> value, tx |-> tx]

\* input_signature_old, _btc and _bch: the index is that of an input here, the
\* early return for any other changes nothing.
Endorse(scheme, code, amount, index, type, anyone_can_pay) ==
    /\ phase = "drawn"
    /\ held' = CASE scheme = "old" ->
                        Holding(index, input_signature_old(secret, code, draft, index, type, anyone_can_pay),
                                "unversioned", code, 0, draft)
                 [] scheme = "btc" ->
                        Holding(index, input_signature_btc(secret, code, draft, amount, index, type, anyone_can_pay),
                                "zero", code, amount, draft)
                 [] scheme = "bch" ->
                        Holding(index, input_signature_bch(secret, code, draft, amount, index, type, anyone_can_pay),
                                "zero", code, amount, draft)
    /\ kept' = HashesAfter(draft, kept, held'.endorsement.type, held'.version)
    /\ phase' = "endorsed"
    /\ UNCHANGED <<purse, asked, option, picked, draft, inPlace, edits>>

sign_and_set(result, amount) ==
    LET endorsement == input_signature_bch(secret, Subscript, result.tx, amount, 1, 1, FALSE) IN
    /\ held' = Holding(1, endorsement, "zero", Subscript, amount, result.tx)
    /\ draft' = input_set(<<endorsement>>, result.tx, 1)

\* create_asset_tx_complete and send_token_tx_complete: encode, sign, set.
Complete(result, amount) ==
    /\ phase = "selected"
    /\ IF result.error = "success"
       THEN sign_and_set(result, amount) /\ phase' = "complete"
       ELSE phase' = "refused" /\ UNCHANGED <<draft, held>>
    /\ Forget
    /\ UNCHANGED <<kept, inPlace, edits>>

create_asset_tx_complete(coin) ==
    Complete(tx_encode_create_asset(coin, Worth[coin]), Worth[coin])

send_token_tx_complete(coin, dust) ==
    Complete(tx_encode_send_token(coin, Worth[coin], dust), Worth[coin])

-----------------------------------------------------------------------------
(***************************************************************************)
(* The edits of the other parties, who hold the transaction and not the    *)
(* key.  No coin is spent twice in one transaction.                        *)
(***************************************************************************)
Edited(tx, index) ==
    /\ phase \in {"endorsed", "complete"}
    /\ edits < MaxEdits
    /\ edits' = edits + 1
    /\ draft' = tx
    /\ held' = [held EXCEPT !.index = index]
    /\ UNCHANGED <<purse, asked, option, picked, phase>>

\* Fault: the hash of the sequences is not reset.
SetInputsKeepsSequences(hashes) == [hashes EXCEPT !.inpoints = Unkept]

set_inputs(hashes) == [hashes EXCEPT !.inpoints = Unkept, !.sequences = Unkept]

set_outputs(hashes) == [hashes EXCEPT !.outputs = Unkept]

\* Through set_inputs of a copy; or through the set_inputs that moves or the
\* reference that inputs() returns, past the hashes that are kept.
EditInputs(inputs, index) ==
    /\ Edited([draft EXCEPT !.inputs = inputs], index)
    /\ \/ kept' = set_inputs(kept) /\ UNCHANGED inPlace
       \/ /\ inPlace' = (inPlace \/ kept.inpoints # Unkept \/ kept.sequences # Unkept)
          /\ UNCHANGED kept

EditOutputs(outputs) ==
    /\ Edited([draft EXCEPT !.outputs = outputs], held.index)
    /\ \/ kept' = set_outputs(kept) /\ UNCHANGED inPlace
       \/ inPlace' = (inPlace \/ kept.outputs # Unkept) /\ UNCHANGED kept

Unused == Coins \ {draft.inputs[i].previous : i \in DOMAIN draft.inputs}

InsertInput(at, coin) ==
    /\ Len(draft.inputs) < MaxInputs
    /\ EditInputs(InsertAt(draft.inputs, at, input(coin)),
                  IF at <= held.index THEN held.index + 1 ELSE held.index)

RemoveInput(at) ==
    /\ at # held.index
    /\ EditInputs(RemoveAt(draft.inputs, at), IF at < held.index THEN held.index - 1 ELSE held.index)

SetPrevious(at, coin) == EditInputs([draft.inputs EXCEPT ![at].previous = coin], held.index)

SetSequence(at) == EditInputs([draft.inputs EXCEPT ![at].sequence = 1 - @], held.index)

\* Any input is given a script: its own endorsement, or another party's.  The
\* transaction is copied for it, and the copy keeps no hashes.
SetScript(at) ==
    /\ Edited(input_set(<<held.endorsement>>, draft, at), held.index)
    /\ kept' = NoHashes /\ inPlace' = FALSE

InsertOutput(at) ==
    /\ Len(draft.outputs) < MaxOutputs
    /\ EditOutputs(InsertAt(draft.outputs, at, [pay |-> "key", amount |-> 1]))

RemoveOutput(at) == EditOutputs(RemoveAt(draft.outputs, at))

SetAmount(at) == EditOutputs([draft.outputs EXCEPT ![at].amount = (@ + 1) % Word])

SetLocktime ==
    Edited([draft EXCEPT !.locktime = 1 - @], held.index) /\ UNCHANGED <<kept, inPlace>>

SetVersion ==
    Edited([draft EXCEPT !.version = 3 - @], held.index) /\ UNCHANGED <<kept, inPlace>>

\* The endorsement is checked, which leaves the hashes it took (they matter to the
\* edits that follow).
Check ==
    /\ phase \in {"endorsed", "complete"}
    /\ edits < MaxEdits
    /\ kept' = HashesAfter(draft, kept, held.endorsement.type, held.version)
    /\ kept' # kept
    /\ UNCHANGED <<purse, asked, option, picked, draft, inPlace, held, edits, phase>>

Next ==
    \/ Select
    \/ \E destinations \in Destinations, locktime \in {0, 1} : Encode(destinations, locktime)
    \/ \E coin \in ToSet(picked) :
        \/ create_asset_tx_complete(coin)
        \/ \E dust \in Dusts : send_token_tx_complete(coin, dust)
    \/ \E index \in DOMAIN draft.inputs, scheme \in {"old", "btc", "bch"}, slip \in Slips,
          type \in SignTypes, anyone \in BOOLEAN :
        Endorse(scheme, slip.code, Worth[draft.inputs[index].previous] + slip.error, index, type,
                anyone)
    \/ \E at \in 1..(Len(draft.inputs) + 1), coin \in Unused : InsertInput(at, coin)
    \/ \E at \in DOMAIN draft.inputs :
        RemoveInput(at) \/ SetSequence(at) \/ SetScript(at) \/ \E coin \in Unused : SetPrevious(at, coin)
    \/ \E at \in 1..(Len(draft.outputs) + 1) : InsertOutput(at)
    \/ \E at \in DOMAIN draft.outputs : RemoveOutput(at) \/ SetAmount(at)
    \/ SetLocktime
    \/ SetVersion
    \/ Check

Spec == Init /\ [][Next]_vars

-----------------------------------------------------------------------------
(***************************************************************************)
(* What the comments of sighash_algorithm.hpp say a sighash type protects. *)
(***************************************************************************)
Kind(type) == LET low == type % 32 IN IF low = 2 THEN "none" ELSE IF low = 3 THEN "single" ELSE "all"

Unpaired(type, tx, index) == Kind(type) = "single" /\ index > Len(tx.outputs)

Protected(h, tx, index) ==
    LET kind   == Kind(h.endorsement.type)
        anyone == h.endorsement.type >= 128 IN
    [version   |-> tx.version,
     locktime  |-> tx.locktime,
     self      |-> <<tx.inputs[index].previous, tx.inputs[index].sequence>>,
     coins     |-> IF anyone THEN <<>> ELSE [i \in DOMAIN tx.inputs |-> tx.inputs[i].previous],
     sequences |-> IF anyone \/ kind # "all" THEN <<>>
                   ELSE [i \in DOMAIN tx.inputs |-> tx.inputs[i].sequence],
     outputs   |-> CASE kind = "all" -> tx.outputs
                     [] kind = "none" \/ index > Len(tx.outputs) -> <<>>
                     [] OTHER -> <<tx.outputs[index]>>,
     place     |-> IF kind = "single" /\ h.version = "unversioned" THEN index ELSE 0]

Intact(h) ==
    LET same == Protected(h, h.tx, h.at) = Protected(h, draft, h.index)
        lost == {Unpaired(h.endorsement.type, h.tx, h.at), Unpaired(h.endorsement.type, draft, h.index)} IN
    IF h.version = "zero"
    THEN same /\ h.code = Subscript /\ h.value = Worth[draft.inputs[h.index].previous]
    ELSE lost = {TRUE} \/ (lost = {FALSE} /\ same)

\* However the transaction is edited after an input is endorsed, the endorsement
\* checks out exactly while what its sighash type protects is as it was signed:
\* the documented parts, for the unversioned hash and for that of version 0, and
\* nothing at all where a single sighash has no output to go with its input.  So
\* it is judged by whoever has the transaction from its bytes or in a copy; on
\* the object that was edited the same is claimed only when no edit in place (by
\* reference, or through a setter that moves) went past a hash it keeps.
EndorsementCovers ==
    LET Checks(hashes) ==
            check_signature(held.endorsement.signature, held.endorsement.type, secret, Subscript,
                            draft, hashes, held.index, held.version,
                            Worth[draft.inputs[held.index].previous]) IN
    held # NoEndorsement =>
        /\ Checks(NoHashes) <=> Intact(held)
        /\ ~inPlace => (Checks(kept) <=> Intact(held))

\* The greedy selection finds the amount whenever the coins hold it, in as few
\* coins as possible, and in the smallest coin that will do when one will; the
\* individual selection lists every sufficient coin by ascending value.
SelectionIsFewest ==
    phase = "selected" /\ asked > 0 =>
        LET all == ToSet(purse) IN
        IF option = "individual"
        THEN /\ ToSet(picked) = {coin \in all : Worth[coin] >= asked}
             /\ \A i, j \in DOMAIN picked : i < j => Worth[picked[i]] <= Worth[picked[j]]
        ELSE /\ (picked = <<>>) = (Total(purse) < asked)
             /\ picked # <<>> => Total(picked) >= asked
             /\ \A coins \in SUBSET all :
                    SumOf(coins) >= asked =>
                        /\ Len(picked) <= Cardinality(coins)
                        /\ Cardinality(coins) = 1 => Total(picked) <= SumOf(coins)

\* A token payment spends its coin to the last unit: what it pays out and the
\* fee are the coin's worth, although the change is subtracted unchecked in
\* unsigned words, because no amount above the money there is can be an output.
TokenPaymentBalances ==
    phase = "complete" /\ edits = 0 =>
        FoldLeft(LAMBDA sum, output : sum + output.amount, 0, draft.outputs) + fees
            = Worth[draft.inputs[1].previous]
=============================================================================
