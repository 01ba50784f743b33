----------------------------- MODULE Validation -----------------------------
(***************************************************************************)
(* The validation rules of chain::transaction, chain::block and            *)
(* chain::header: check (context free), accept (against the chain state    *)
(* and the populated previous outputs) and connect (scripts).              *)
(*                                                                         *)
(* A transaction is a record; its hash is its own content without the      *)
(* witnesses.  Scripts, sizes and signature operations are attributes.     *)
(* What output_point::validation holds for a point is view[point].         *)
(***************************************************************************)
EXTENDS Integers, Sequences, FiniteSets, FiniteSetsExt, Functions

CONSTANTS
  Currency,                 \* "BTC" or "BCH": the build
  NullHash,                 \* not a transaction: the hash in the point of a coinbase
  MaxUint,                  \* max_uint64: the sentinel of sums and of missing outputs
  MaxMoney,                 \* max_money()
  InitialSubsidy, SubsidyInterval, SubsidyBits,   \* 50 coins, 210000, 64
  CoinbaseMaturity,         \* 100
  LocktimeThreshold,        \* 500000000
  RelativeLocktimeMask,     \* 0xffff
  SecondsShift,             \* 2^9 seconds in a unit of relative time
  MinCoinbaseSize, MaxCoinbaseSize,               \* 2, 100
  HeaderSize,               \* 80 bytes
  MaxBlockSize, MaxBlockSizeOld, MinTransactionSize,
  SigopsPerMillion, MillionBytes,                 \* 20000, 1000000
  MaxBlockSigops,           \* max_block_size / 50
  FutureSeconds             \* timestamp_future_seconds, two hours

FastSigopsFactor == 4
LightWeightFactor == 4
not_found == MaxUint

Points(tx) == {tx.inputs[i].prev : i \in DOMAIN tx.inputs}

(* Fault: sums wrap around.                                                *)
WrappingAdd(x, y) == (x + y) % (MaxUint + 1)

ceiling_add(x, y) == IF x > MaxUint - y THEN MaxUint ELSE x + y
floor_subtract(x, y) == IF y >= x THEN 0 ELSE x - y
Total(Value(_), s) == FoldFunction(ceiling_add, 0, [i \in DOMAIN s |-> Value(s[i])])

-----------------------------------------------------------------------------
(* Points, inputs and outputs                                              *)

NullPoint == [hash |-> NullHash, index |-> 0]

(* A sequence number, as the fields its bits encode; max_input_sequence.   *)
FinalSequence == [disabled |-> TRUE, time |-> TRUE, value |-> RelativeLocktimeMask]

input_is_final(input) == input.sequence = FinalSequence

(* Fault: the depth counts the spending block.                             *)
MatureEarly(point, view, height) ==
  \/ ~view[point].coinbase \/ point = NullPoint
  \/ floor_subtract(height + 1, view[point].height) >= CoinbaseMaturity

(* output_point::is_mature: a coinbase output is spent late enough.        *)
is_mature_point(point, view, height) ==
  \/ ~view[point].coinbase \/ point = NullPoint
  \/ floor_subtract(height, view[point].height) >= CoinbaseMaturity

(* Fault: the relative lock is a maximal age.                              *)
LockedWhenOld(input, view, height, mtp) ==
  /\ ~input.sequence.disabled
  /\ IF input.sequence.time
     THEN mtp - view[input.prev].median_time_past > input.sequence.value * SecondsShift
     ELSE height - view[input.prev].height > input.sequence.value

input_is_locked(input, view, height, mtp) ==
  /\ ~input.sequence.disabled
  /\ IF input.sequence.time
     THEN mtp - view[input.prev].median_time_past < input.sequence.value * SecondsShift
     ELSE height - view[input.prev].height < input.sequence.value

(* input::signature_operations: of the input script, and of the witness or *)
(* the embedded script that the previous output calls for.                 *)
input_sigops(input, bip16, bip141) ==
  LET factor == IF bip141 THEN FastSigopsFactor ELSE 1
      sigops == input.sigops * factor
  IN IF bip141 /\ input.kind = "witness" THEN sigops + input.extra
     ELSE IF bip16 /\ bip141 /\ input.kind = "p2sh witness" THEN sigops + input.extra
     ELSE IF bip16 /\ input.kind = "p2sh" THEN sigops + input.extra * factor
     ELSE sigops

output_sigops(output, bip141) == output.sigops * (IF bip141 THEN FastSigopsFactor ELSE 1)

-----------------------------------------------------------------------------
(* Transactions                                                            *)

hash(tx) == [tx EXCEPT !.inputs = [i \in DOMAIN tx.inputs |-> [tx.inputs[i] EXCEPT !.witness = FALSE]]]

is_coinbase(tx) == Len(tx.inputs) = 1 /\ tx.inputs[1].prev = NullPoint

is_oversized_coinbase(tx) ==
  is_coinbase(tx) /\ tx.inputs[1].size \notin MinCoinbaseSize..MaxCoinbaseSize

is_null_non_coinbase(tx) == ~is_coinbase(tx) /\ NullPoint \in Points(tx)

all_inputs_final(tx) == \A i \in DOMAIN tx.inputs : input_is_final(tx.inputs[i])

is_final(tx, height, time) ==
  \/ tx.locktime = 0
  \/ tx.locktime < (IF tx.locktime < LocktimeThreshold THEN height ELSE time)
  \/ all_inputs_final(tx)

is_locked(tx, view, height, mtp) ==
  /\ tx.version >= 2 /\ ~is_coinbase(tx)
  /\ \E i \in DOMAIN tx.inputs : input_is_locked(tx.inputs[i], view, height, mtp)

total_input_value(tx, view) ==
  LET Value(input) == IF view[input.prev].cache = not_found THEN 0 ELSE view[input.prev].cache
  IN Total(Value, tx.inputs)

total_output_value(tx) == LET Value(output) == output.value IN Total(Value, tx.outputs)

fees(tx, view) == floor_subtract(total_input_value(tx, view), total_output_value(tx))

is_overspent(tx, view) == ~is_coinbase(tx) /\ total_output_value(tx) > total_input_value(tx, view)

signature_operations(tx, bip16, bip141) ==
  LET In(input) == input_sigops(input, bip16, bip141)
      Out(output) == output_sigops(output, bip141)
  IN Total(In, tx.inputs) + Total(Out, tx.outputs)

is_segregated(tx) == Currency # "BCH" /\ \E i \in DOMAIN tx.inputs : tx.inputs[i].witness

is_missing_previous_outputs(tx, view) ==
  \E p \in Points(tx) : p # NullPoint /\ view[p].cache = not_found

is_internal_double_spend(tx) ==
  \E i, j \in DOMAIN tx.inputs : i # j /\ tx.inputs[i].prev = tx.inputs[j].prev

is_double_spend(tx, view, include_unconfirmed) ==
  \E p \in Points(tx) : view[p].spent /\ (include_unconfirmed \/ view[p].confirmed)

is_mature(tx, view, height) == \A p \in Points(tx) : is_mature_point(p, view, height)

tx_check(tx, transaction_pool) ==
  IF tx.inputs = <<>> \/ tx.outputs = <<>> THEN "empty_transaction"
  ELSE IF is_null_non_coinbase(tx) THEN "previous_output_null"
  ELSE IF total_output_value(tx) > MaxMoney THEN "spend_overflow"
  ELSE IF ~transaction_pool /\ is_oversized_coinbase(tx) THEN "invalid_coinbase_script_size"
  ELSE IF transaction_pool /\ is_coinbase(tx) THEN "coinbase_transaction"
  ELSE IF transaction_pool /\ is_internal_double_spend(tx) THEN "transaction_internal_double_spend"
  ELSE IF transaction_pool /\ tx.size >= MaxBlockSize THEN "transaction_size_limit"
  ELSE "success"

Enabled(state, fork) == fork \in state.forks
Bip141(state) == Currency # "BCH" /\ Enabled(state, "bip141_rule")

weight(base, total) == 3 * base + total

(* The result of accept, in the order of the code's tests.                 *)
tx_accept(tx, view, duplicate, state, transaction_pool) ==
  LET bip141 == Bip141(state)
      max_sigops == IF bip141 THEN FastSigopsFactor * MaxBlockSigops ELSE MaxBlockSigops
  IN IF transaction_pool /\ state.under_checkpoint THEN "premature_validation"
     ELSE IF Currency = "BCH" /\ Enabled(state, "magnetic_anomaly") /\ tx.size < MinTransactionSize
       THEN "transaction_size_limit"
     ELSE IF ~bip141 /\ is_segregated(tx) THEN "empty_transaction"
     ELSE IF transaction_pool /\ ~is_final(tx, state.height, state.median_time_past)
       THEN "transaction_non_final"
     ELSE IF Enabled(state, "bip30_rule") /\ ~Enabled(state, "allow_collisions") /\ duplicate
       THEN "unspent_duplicate"
     ELSE IF is_missing_previous_outputs(tx, view) THEN "missing_previous_output"
     ELSE IF is_double_spend(tx, view, transaction_pool) THEN "double_spend"
     ELSE IF ~is_mature(tx, view, state.height) THEN "coinbase_maturity"
     ELSE IF is_overspent(tx, view) THEN "spend_exceeds_value"
     ELSE IF Enabled(state, "bip68_rule") /\ is_locked(tx, view, state.height, state.median_time_past)
       THEN "sequence_locked"
     ELSE IF transaction_pool
              /\ signature_operations(tx, Enabled(state, "bip16_rule"), bip141) > max_sigops
       THEN "transaction_embedded_sigop_limit"
     ELSE IF transaction_pool /\ bip141
              /\ weight(tx.size, tx.total_size) > LightWeightFactor * MaxBlockSize
       THEN "transaction_weight_limit"
     ELSE "success"

(* The scripts of all inputs; coinbases have none to run.                  *)
tx_connect(tx, view) ==
  IF is_coinbase(tx) THEN "success"
  ELSE IF \E p \in Points(tx) : view[p].cache = not_found THEN "missing_previous_output"
  ELSE IF \E i \in DOMAIN tx.inputs : ~tx.inputs[i].verifies THEN "stack_false"
  ELSE "success"

-----------------------------------------------------------------------------
(* Headers                                                                 *)

(* is_valid_proof_of_work is an attribute of the header here; the compact  *)
(* targets are modelled in Compact and ChainState.                         *)
header_check(header, now) ==
  IF ~header.worked THEN "invalid_proof_of_work"
  ELSE IF header.timestamp > now + FutureSeconds THEN "futuristic_timestamp"
  ELSE "success"

header_accept(header, state) ==
  IF header.bits # state.work_required THEN "incorrect_proof_of_work"
  ELSE IF state.checkpoint_conflict THEN "checkpoints_failed"
  ELSE IF state.under_checkpoint THEN "success"
  ELSE IF header.version < state.minimum_version THEN "old_version_block"
  ELSE IF header.timestamp <= state.median_time_past THEN "timestamp_too_early"
  ELSE "success"

-----------------------------------------------------------------------------
(* Blocks                                                                  *)

(* The first error of a list of results.                                   *)
FirstError(codes) ==
  LET failed == {i \in DOMAIN codes : codes[i] # "success"}
  IN IF failed = {} THEN "success" ELSE codes[Min(failed)]

is_extra_coinbases(block) == \E t \in 2..Len(block.txs) : is_coinbase(block.txs[t])

is_forward_reference(block) ==
  \E t, u \in DOMAIN block.txs :
    t <= u /\ \E p \in Points(block.txs[t]) : p.hash = hash(block.txs[u])

(* Fault: only different transactions are compared.                        *)
DoubleSpendAcross(block) ==
  \E t, u \in 2..Len(block.txs) :
    t # u /\ Points(block.txs[t]) \cap Points(block.txs[u]) # {}

block_internal_double_spend(block) ==
  \E t, u \in 2..Len(block.txs) :
    \E i \in DOMAIN block.txs[t].inputs, j \in DOMAIN block.txs[u].inputs :
      <<t, i>> # <<u, j>> /\ block.txs[t].inputs[i].prev = block.txs[u].inputs[j].prev

to_hashes(block) == [t \in DOMAIN block.txs |-> hash(block.txs[t])]
is_valid_merkle_root(block) == block.header.merkle = to_hashes(block)

(* Of a count below 2^32.                                                  *)
variable_uint_size(count) ==
  IF count < 253 THEN 1 ELSE IF count <= 65535 THEN 3 ELSE 5

(* serialized_size: header, number of transactions, and transactions.      *)
SizeWith(block, Size(_)) ==
  HeaderSize + variable_uint_size(Len(block.txs))
    + FoldFunction(LAMBDA x, y : x + y, 0, [t \in DOMAIN block.txs |-> Size(block.txs[t])])

block_size(block) == LET Size(tx) == tx.size IN SizeWith(block, Size)
block_total_size(block) == LET Size(tx) == tx.total_size IN SizeWith(block, Size)

block_segregated(block) == \E t \in DOMAIN block.txs : is_segregated(block.txs[t])

(* The witness hash of a coinbase is null_hash.                            *)
witness_hashes(block) ==
  [t \in DOMAIN block.txs |-> IF is_coinbase(block.txs[t]) THEN NullHash ELSE block.txs[t]]

is_valid_witness_commitment(block) ==
  IF block.txs[1].commitment # <<>>
  THEN block.txs[1].commitment = witness_hashes(block)
  ELSE ~block_segregated(block)

block_check(block, now) ==
  IF header_check(block.header, now) # "success" THEN header_check(block.header, now)
  ELSE IF block_size(block) > MaxBlockSize THEN "block_size_limit"
  ELSE IF block.txs = <<>> THEN "empty_block"
  ELSE IF ~is_coinbase(block.txs[1]) THEN "first_not_coinbase"
  ELSE IF is_extra_coinbases(block) THEN "extra_coinbases"
  ELSE IF Currency # "BCH" /\ is_forward_reference(block) THEN "forward_reference"
  ELSE IF block_internal_double_spend(block) THEN "block_internal_double_spend"
  ELSE IF ~is_valid_merkle_root(block) THEN "merkle_mismatch"
  ELSE FirstError([t \in DOMAIN block.txs |-> tx_check(block.txs[t], FALSE)])

(* Halvings; the shift is by 0 when it would shift all the bits out.       *)
subsidy(height) ==
  LET halvings == height \div SubsidyInterval
  IN InitialSubsidy \div 2^(IF halvings >= SubsidyBits THEN 0 ELSE halvings)

block_fees(block, view) == LET Fees(tx) == fees(tx, view) IN Total(Fees, block.txs)

claim(block) == total_output_value(block.txs[1])

is_valid_coinbase_claim(block, view, height) ==
  claim(block) <= ceiling_add(block_fees(block, view), subsidy(height))

(* Fault: a coinbase script without height is valid.                       *)
HeightOptional(block, height) == block.txs[1].inputs[1].height \in {0, height}

is_valid_coinbase_script(block, height) == block.txs[1].inputs[1].height = height

block_final(block, height, time) ==
  \A t \in DOMAIN block.txs : is_final(block.txs[t], height, time)

block_sigops(block, bip16, bip141) ==
  LET Sigops(tx) == signature_operations(tx, bip16, bip141) IN Total(Sigops, block.txs)

(* Fault: a begun million of bytes allows nothing.                         *)
SigopsOfWholeMillions(size) == ((size - 1) \div MillionBytes) * SigopsPerMillion

get_allowed_sigops(size) == (1 + (size - 1) \div MillionBytes) * SigopsPerMillion

(* accept(state, true), which includes the transactions.                   *)
(* Whether the block is canonically ordered is decided by a comparison of  *)
(* iterators into different temporaries, whose result is undefined; the    *)
(* caller passes any value when two transactions are compared.             *)
block_accept(block, view, duplicate, canonical, state) ==
  LET bip141 == Bip141(state)
      time == IF Enabled(state, "bip113_rule") THEN state.median_time_past ELSE block.header.timestamp
      accepted == header_accept(block.header, state)
  IN IF accepted # "success" THEN accepted
     ELSE IF Currency = "BCH" /\ ~Enabled(state, "monolith") /\ block_size(block) > MaxBlockSizeOld
       THEN "block_size_limit"
     ELSE IF state.under_checkpoint THEN "success"
     ELSE IF Currency = "BCH" /\ Enabled(state, "magnetic_anomaly") /\ ~canonical THEN "non_canonical_ordered"
     ELSE IF Currency = "BCH" /\ ~Enabled(state, "magnetic_anomaly") /\ is_forward_reference(block)
       THEN "forward_reference"
     ELSE IF bip141 /\ weight(block_size(block), block_total_size(block)) > LightWeightFactor * MaxBlockSize
       THEN "block_weight_limit"
     ELSE IF Enabled(state, "bip34_rule") /\ ~is_valid_coinbase_script(block, state.height)
       THEN "coinbase_height_mismatch"
     ELSE IF ~is_valid_coinbase_claim(block, view, state.height) THEN "coinbase_value_limit"
     ELSE IF ~block_final(block, state.height, time) THEN "block_non_final"
     ELSE IF bip141 /\ ~is_valid_witness_commitment(block) THEN "invalid_witness_commitment"
     ELSE IF block_sigops(block, Enabled(state, "bip16_rule"), bip141)
              > get_allowed_sigops(block_size(block))
       THEN "block_embedded_sigop_limit"
     ELSE FirstError([t \in DOMAIN block.txs |->
            tx_accept(block.txs[t], view, duplicate[t], state, FALSE)])

block_connect(block, view, state) ==
  IF state.under_checkpoint THEN "success"
  ELSE FirstError([t \in DOMAIN block.txs |-> tx_connect(block.txs[t], view)])

=============================================================================
