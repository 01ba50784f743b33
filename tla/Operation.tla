----------------------------- MODULE Operation ------------------------------
(***************************************************************************)
(* machine::number and machine::operation: the numbers of a script and the *)
(* operations it is a sequence of, with their encodings as bytes.          *)
(*                                                                         *)
(* An operation is its opcode, a number as in the enumeration, the data it *)
(* pushes and its valid_ flag.                                             *)
(***************************************************************************)
EXTENDS Stream

CONSTANTS
  MaxPushSize,          \* max_push_data_size
  MaxBlockSize          \* get_max_block_size()

-----------------------------------------------------------------------------
(* Numbers.  The arithmetic of a script takes operands of four bytes, so   *)
(* it stays within int64_t.                                                *)

number == 0             \* as it is constructed

IsNegative(data) == data # <<>> /\ data[Len(data)] >= 128

(* set_data, on data of the size it accepts: the magnitude is              *)
(* little-endian below the sign bit of the last byte.                      *)
NumberOf(data) ==
  IF data = <<>> THEN 0
  ELSE LET magnitude == FromLittleEndian([data EXCEPT ![Len(data)] = @ % 128])
       IN  IF IsNegative(data) THEN -magnitude ELSE magnitude

(* data(): minimal, with a byte of its own for the sign when the magnitude *)
(* leaves no room for it.  Larger magnitudes than 2^31 - 1 do not occur.   *)
DataOf(value) ==
  IF value = 0 THEN <<>>
  ELSE LET absolute == IF value < 0 THEN -value ELSE value
           size == CHOOSE n \in 1..4 : absolute \div 256^(n - 1) \in 1..255
           bytes == LittleEndian(size, absolute)
       IN  IF IsNegative(bytes) THEN Append(bytes, IF value < 0 THEN 128 ELSE 0)
           ELSE IF value < 0 THEN [bytes EXCEPT ![size] = @ + 128] ELSE bytes

-----------------------------------------------------------------------------
(* Opcodes.  From 97 on they have names.                                   *)

push_size_75 == 75
push_one_size == 76
push_two_size == 77
push_four_size == 78
push_negative_1 == 79
reserved_80 == 80
push_positive_1 == 81
push_positive_16 == 96

OpcodeNames ==
  <<"nop", "reserved_98", "if_", "notif", "disabled_verif", "disabled_vernotif", "else_",
    "endif", "verify", "return_", "toaltstack", "fromaltstack", "drop2", "dup2", "dup3",
    "over2", "rot2", "swap2", "ifdup", "depth", "drop", "dup", "nip", "over", "pick", "roll",
    "rot", "swap", "tuck", "disabled_cat", "disabled_substr", "disabled_left",
    "disabled_right", "size", "disabled_invert", "disabled_and", "disabled_or",
    "disabled_xor", "equal", "equalverify", "reserved_137", "reserved_138", "add1", "sub1",
    "disabled_mul2", "disabled_div2", "negate", "abs", "not_", "nonzero", "add", "sub",
    "disabled_mul", "disabled_div", "disabled_mod", "disabled_lshift", "disabled_rshift",
    "booland", "boolor", "numequal", "numequalverify", "numnotequal", "lessthan",
    "greaterthan", "lessthanorequal", "greaterthanorequal", "min", "max", "within",
    "ripemd160", "sha1", "sha256", "hash160", "hash256", "codeseparator", "checksig",
    "checksigverify", "checkmultisig", "checkmultisigverify", "nop1", "checklocktimeverify",
    "checksequenceverify", "nop4", "nop5", "nop6", "nop7", "nop8", "nop9", "nop10">>

Name(code) ==
  IF code <= push_positive_16 THEN "push"
  ELSE IF code - 96 <= Len(OpcodeNames) THEN OpcodeNames[code - 96] ELSE "reserved"

Code(name) == 96 + SelectInSeq(OpcodeNames, LAMBDA other : other = name)

is_push(code) == code <= push_positive_16 /\ code # reserved_80
is_payload(code) == code \in 1..push_four_size
is_counted(code) == code >= 97
is_positive(code) == code \in push_positive_1..push_positive_16
is_version(code) == code = 0 \/ is_positive(code)
is_relaxed_push(code) == code <= push_positive_16

is_disabled(code) ==
  Name(code) \in {"disabled_cat", "disabled_substr", "disabled_left", "disabled_right",
                  "disabled_invert", "disabled_and", "disabled_or", "disabled_xor",
                  "disabled_mul2", "disabled_div2", "disabled_mul", "disabled_div",
                  "disabled_mod", "disabled_lshift", "disabled_rshift", "disabled_verif",
                  "disabled_vernotif"}

is_conditional(code) == Name(code) \in {"if_", "notif", "else_", "endif"}

-----------------------------------------------------------------------------
(* Operations.                                                             *)

(* reset(): "The failed-state code must be disabled so it will never pass  *)
(* evaluation."                                                            *)
InvalidOp == [code |-> Code("disabled_xor"), data |-> <<>>, valid |-> FALSE]

(* operation(opcode).                                                      *)
Op(name) == [code |-> Code(name), data |-> <<>>, valid |-> TRUE]
OpNumber(n) == [code |-> push_positive_1 + n - 1, data |-> <<>>, valid |-> TRUE]

is_oversized(op) == Len(op.data) > MaxPushSize

opcode_from_size(size) ==
  IF size <= push_size_75 THEN size
  ELSE IF size <= 255 THEN push_one_size
  ELSE IF size <= 65535 THEN push_two_size ELSE push_four_size

(* minimal_opcode_from_data: -1 and 1..16 have opcodes, and the byte 0 has *)
(* that of no data.                                                        *)
minimal_opcode_from_data(data) ==
  IF Len(data) # 1 THEN opcode_from_size(Len(data))
  ELSE IF data[1] = 129 THEN push_negative_1
  ELSE IF data[1] = 0 THEN 0
  ELSE IF data[1] \in 1..16 THEN push_positive_1 + data[1] - 1
  ELSE opcode_from_size(1)

is_minimal_push(op) == op.code = minimal_opcode_from_data(op.data)
is_nominal_push(op) == op.code = opcode_from_size(Len(op.data))

(* operation(uncoded, minimal): the data of a numeric opcode is dropped.   *)
Push(data, minimal) ==
  LET code == IF minimal THEN minimal_opcode_from_data(data)
              ELSE opcode_from_size(Len(data))
  IN  IF Len(data) > MaxPushSize THEN InvalidOp
      ELSE [code |-> code, valid |-> TRUE,
            data |-> IF minimal /\ ~is_payload(code) THEN <<>> ELSE data]

(* Bytes of the size that follows an opcode.                               *)
SizeBytes(code) ==
  CASE code = push_one_size -> 1
    [] code = push_two_size -> 2
    [] code = push_four_size -> 4
    [] OTHER -> 0

(* read_data_size and the data, unless they are more than a block has.     *)
ReadPayload(code, size) ==
  LET length == IF code <= push_size_75 THEN code
                ELSE IF SizeBytes(code) = 0 THEN 0 ELSE size.v
  IN  IF length \notin 0..MaxBlockSize THEN [r |-> invalidate(size.r), v |-> <<>>]
      ELSE read_bytes(size.r, length)

OpOf(code, payload) ==
  [r |-> payload.r,
   v |-> IF payload.r.fail THEN InvalidOp
         ELSE [code |-> code, data |-> payload.v, valid |-> TRUE]]

OpAfter(code, r) ==
  OpOf(code, ReadPayload(code, read_little_endian(r, SizeBytes(code))))

OpOfFirst(first) == OpAfter(first.v[1], first.r)

(* from_data.                                                              *)
OpRead(r) == OpOfFirst(read_bytes(r, 1))

(* to_data, and serialized_size, which predicts its length.                *)
OpData(op) ==
  <<op.code>> \o write_little_endian(SizeBytes(op.code), Len(op.data)) \o op.data

OpSize(op) == 1 + SizeBytes(op.code) + Len(op.data)

=============================================================================
