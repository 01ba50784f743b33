------------------------------- MODULE Script -------------------------------
(***************************************************************************)
(* chain::script as a sequence of bytes that parses to operations: the     *)
(* patterns of output and input scripts, the scripts built for them, and   *)
(* find_and_delete.                                                        *)
(***************************************************************************)
EXTENDS Operation

CONSTANT
  MaxScriptSize         \* max_script_size

ReadAt(bytes, i) == OpRead(Source(SubSeq(bytes, i, Len(bytes)))).v

(* operations(): an operation that cannot be read is invalid and the last. *)
Continued(op, i, rest) == IF op.valid THEN <<op>> \o rest[i + OpSize(op)] ELSE <<op>>

operations(bytes) ==
  LET Rest[i \in 1..(Len(bytes) + 1)] ==
        IF i > Len(bytes) THEN <<>> ELSE Continued(ReadAt(bytes, i), i, Rest)
  IN  Rest[1]

operations_to_data(ops) == FlattenSeq([i \in 1..Len(ops) |-> OpData(ops[i])])

(* serialized_size(ops), asserted to be the size of operations_to_data.    *)
ops_serialized_size(ops) == FoldLeft(LAMBDA total, op : total + OpSize(op), 0, ops)

is_valid_operations(ops) == ops = <<>> \/ ops[Len(ops)].valid

is_unspendable(ops, bytes) ==
  (ops # <<>> /\ ops[1].code = Code("return_")) \/ bytes > MaxScriptSize

All(ops, Test(_)) == \A i \in 1..Len(ops) : Test(ops[i])

is_push_only(ops) == All(ops, LAMBDA op : is_push(op.code))
is_relaxed_push_only(ops) == All(ops, LAMBDA op : is_relaxed_push(op.code))

-----------------------------------------------------------------------------
(* Keys and endorsements, by their size and first byte.                    *)
is_public_key(data) ==
  \/ Len(data) = 33 /\ data[1] \in {2, 3}
  \/ Len(data) = 65 /\ data[1] = 4

is_endorsement(data) == Len(data) \in 9..73

max_null_data_size == 80

(* Output patterns.                                                        *)
is_witness_program_pattern(ops) ==
  Len(ops) = 2 /\ is_version(ops[1].code) /\ Len(ops[2].data) \in 2..40

is_null_data_pattern(ops) ==
  /\ Len(ops) = 2 /\ ops[1].code = Code("return_")
  /\ is_minimal_push(ops[2]) /\ Len(ops[2].data) <= max_null_data_size

is_pay_multisig_pattern(ops) ==
  LET count == Len(ops)
  IN  /\ count >= 4 /\ ops[count].code = Code("checkmultisig")
      /\ push_positive_1 <= ops[1].code /\ ops[1].code <= ops[count - 1].code
      /\ is_positive(ops[count - 1].code)
      /\ ops[count - 1].code - push_positive_1 + 1 = count - 3
      /\ \A i \in 2..(count - 2) : is_public_key(ops[i].data)

is_pay_public_key_pattern(ops) ==
  Len(ops) = 2 /\ is_public_key(ops[1].data) /\ ops[2].code = Code("checksig")

is_pay_key_hash_pattern(ops) ==
  /\ Len(ops) = 5 /\ Len(ops[3].data) = 20
  /\ ops[1].code = Code("dup") /\ ops[2].code = Code("hash160")
  /\ ops[4].code = Code("equalverify") /\ ops[5].code = Code("checksig")

is_pay_script_hash_pattern(ops) ==
  /\ Len(ops) = 3
  /\ ops[1].code = Code("hash160") /\ ops[2].code = 20 /\ ops[3].code = Code("equal")

(* Input patterns.                                                         *)
is_sign_multisig_pattern(ops) ==
  /\ Len(ops) >= 2 /\ ops[1].code = 0
  /\ \A i \in 2..Len(ops) : is_endorsement(ops[i].data)

is_sign_public_key_pattern(ops) == Len(ops) = 1 /\ is_endorsement(ops[1].data)

is_sign_key_hash_pattern(ops) ==
  Len(ops) = 2 /\ is_endorsement(ops[1].data) /\ is_public_key(ops[2].data)

is_sign_script_hash_pattern(ops) ==
  ops # <<>> /\ is_push_only(ops) /\ ops[Len(ops)].data # <<>>

(* output_pattern() and input_pattern(): the first test that holds.        *)
output_pattern(ops) ==
  IF is_pay_key_hash_pattern(ops) THEN "pay_key_hash"
  ELSE IF is_pay_script_hash_pattern(ops) THEN "pay_script_hash"
  ELSE IF is_null_data_pattern(ops) THEN "null_data"
  ELSE IF is_pay_public_key_pattern(ops) THEN "pay_public_key"
  ELSE IF is_pay_multisig_pattern(ops) THEN "pay_multisig" ELSE "non_standard"

input_pattern(ops) ==
  IF is_sign_key_hash_pattern(ops) THEN "sign_key_hash"
  ELSE IF is_sign_script_hash_pattern(ops) THEN "sign_script_hash"
  ELSE IF is_sign_public_key_pattern(ops) THEN "sign_public_key"
  ELSE IF is_sign_multisig_pattern(ops) THEN "sign_multisig" ELSE "non_standard"

pattern(ops) ==
  IF output_pattern(ops) = "non_standard" THEN input_pattern(ops) ELSE output_pattern(ops)

-----------------------------------------------------------------------------
(* Scripts built for a pattern; an unsuitable argument gives none.         *)
to_null_data_pattern(data) ==
  IF Len(data) > max_null_data_size THEN <<>> ELSE <<Op("return_"), Push(data, TRUE)>>

to_pay_public_key_pattern(point) ==
  IF ~is_public_key(point) THEN <<>> ELSE <<Push(point, TRUE), Op("checksig")>>

to_pay_key_hash_pattern(hash) ==
  <<Op("dup"), Op("hash160"), Push(hash, TRUE), Op("equalverify"), Op("checksig")>>

to_pay_script_hash_pattern(hash) == <<Op("hash160"), Push(hash, TRUE), Op("equal")>>

to_pay_multisig_pattern(signatures, points) ==
  LET n == Len(points)
  IN  IF signatures < 1 \/ signatures > n \/ n > 16 \/ ~All(points, is_public_key) THEN <<>>
      ELSE <<OpNumber(signatures)>> \o [i \in 1..n |-> Push(points[i], TRUE)]
           \o <<OpNumber(n), Op("checkmultisig")>>

-----------------------------------------------------------------------------
(* find_and_delete: one walk over the bytes for each endorsement.  Where   *)
(* an operation begins, and after every match, the value is looked for;    *)
(* what does not match is stepped over one operation at a time.  Found     *)
(* values are erased after the walk.                                       *)

StartsWith(bytes, i, value) ==
  i + Len(value) - 1 <= Len(bytes) /\ SubSeq(bytes, i, i + Len(value) - 1) = value

(* The walk from position i on, where value is not and op begins.          *)
SteppedOver(bytes, op, i, walk) ==
  IF op.valid THEN SubSeq(bytes, i, i + OpSize(op) - 1) \o walk[i + OpSize(op)]
  ELSE SubSeq(bytes, i, Len(bytes))

(* Fault: the operation after a found value is not looked at.              *)
WalkSkips(bytes, value) ==
  LET Walk[i \in 1..(Len(bytes) + 1)] ==
        IF i > Len(bytes) THEN <<>>
        ELSE IF StartsWith(bytes, i, value)
             THEN SteppedOver(bytes, ReadAt(bytes, i + Len(value)), i + Len(value), Walk)
        ELSE SteppedOver(bytes, ReadAt(bytes, i), i, Walk)
  IN  Walk[1]

WalkAndErase(bytes, value) ==
  LET Walk[i \in 1..(Len(bytes) + 1)] ==
        IF StartsWith(bytes, i, value) THEN Walk[i + Len(value)]
        ELSE IF i > Len(bytes) THEN <<>>
        ELSE SteppedOver(bytes, ReadAt(bytes, i), i, Walk)
  IN  Walk[1]

FindAndDelete(bytes, endorsement) ==
  IF endorsement = <<>> THEN bytes ELSE WalkAndErase(bytes, OpData(Push(endorsement, FALSE)))

find_and_delete(bytes, endorsements) == FoldLeft(FindAndDelete, bytes, endorsements)

=============================================================================
