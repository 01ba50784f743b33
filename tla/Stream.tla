------------------------------- MODULE Stream -------------------------------
(***************************************************************************)
(* reader and writer: the little-endian, length-prefixed primitives of     *)
(* every from_data and to_data, over a stream (istream_reader and          *)
(* ostream_writer) or over memory (deserializer, with its bounds checked,  *)
(* and serializer).                                                        *)
(*                                                                         *)
(* A sink is the sequence of the bytes written.  A source is the bytes     *)
(* left and the two bits of the std::istream that decide a parse: reading  *)
(* past the end sets both, looking past the end sets eof only, and looking *)
(* or reading once more sets fail.  A deserializer has its valid_ flag,    *)
(* the negation of fail.  A read yields [r |-> the source after, v |-> the *)
(* value]; the value of a read that failed is discarded by every caller,   *)
(* and is the zero of its kind here.                                       *)
(***************************************************************************)
EXTENDS Integers, Sequences, SequencesExt

Source(bytes) == [in |-> bytes, eof |-> FALSE, fail |-> FALSE, memory |-> FALSE]

(* make_safe_deserializer(begin, end).                                     *)
Memory(bytes) == [Source(bytes) EXCEPT !.memory = TRUE]

Good(r) == ~r.eof /\ ~r.fail

Zeros(n) == [i \in 1..n |-> 0]

-----------------------------------------------------------------------------
(* Writing.                                                                *)

(* The n low bytes of value, least significant first.                      *)
LittleEndian(n, value) ==
  LET Rest[i \in 1..n] == IF i = 1 THEN value ELSE Rest[i - 1] \div 256
  IN  [i \in 1..n |-> Rest[i] % 256]

write_little_endian(n, value) == LittleEndian(n, value)

write_big_endian(n, value) == Reverse(LittleEndian(n, value))

varint_two_bytes == 253
varint_four_bytes == 254
varint_eight_bytes == 255

(* Values of more than four bytes do not occur here.                       *)
write_variable_little_endian(value) ==
  IF value < varint_two_bytes THEN <<value>>
  ELSE IF value < 65536
       THEN <<varint_two_bytes>> \o write_little_endian(2, value)
       ELSE <<varint_four_bytes>> \o write_little_endian(4, value)

(* variable_uint_size, which predicts the previous one.                    *)
variable_uint_size(value) ==
  IF value < 253 THEN 1 ELSE IF value < 65536 THEN 3 ELSE 5

(* write_string: prefixed, or padded with terminators to a fixed size.     *)
write_string(value) == write_variable_little_endian(Len(value)) \o value

write_fixed_string(value, size) ==
  LET length == IF size < Len(value) THEN size ELSE Len(value)
  IN  SubSeq(value, 1, length) \o Zeros(size - length)

(* serializer writes to memory that its caller has reserved.               *)
Buffered(size, bytes) ==
  IF size <= Len(bytes) THEN bytes ELSE bytes \o Zeros(size - Len(bytes))

-----------------------------------------------------------------------------
(* Reading.                                                                *)

invalidate(r) == [r EXCEPT !.fail = TRUE]

(* A read past the end: the stream has no more bytes, the iterator stays.  *)
Exhaust(r) ==
  IF r.memory THEN invalidate(r) ELSE [r EXCEPT !.in = <<>>, !.eof = TRUE, !.fail = TRUE]

(* deserializer::safe.                                                     *)
safe(r, size) == size <= Len(r.in)

read_bytes(r, n) ==
  IF n = 0 THEN [r |-> r, v |-> <<>>]
  ELSE IF Good(r) /\ safe(r, n)
       THEN [r |-> [r EXCEPT !.in = SubSeq(@, n + 1, Len(@))], v |-> SubSeq(r.in, 1, n)]
       ELSE [r |-> Exhaust(r), v |-> Zeros(n)]

(* peek_byte() and empty().                                                *)
peek(r) ==
  IF ~Good(r) \/ (r.memory /\ ~safe(r, 1)) THEN invalidate(r)
  ELSE IF r.in = <<>> THEN [r EXCEPT !.eof = TRUE] ELSE r

empty(r) == ~Good(r) \/ r.in = <<>>

is_exhausted(r) == r.fail \/ empty(r)

(* What that test leaves: a stream is looked at.                           *)
Tested(r) == IF r.memory THEN r ELSE peek(r)

(* read_bytes(): whatever is left.                                         *)
read_all_bytes(r) ==
  [r |-> Tested([r EXCEPT !.in = <<>>]), v |-> IF Good(r) THEN r.in ELSE <<>>]

FromLittleEndian(bytes) ==
  IF Len(bytes) >= 4 /\ \A i \in 1..Len(bytes) : bytes[i] = 255 THEN -1
  ELSE FoldRight(LAMBDA b, acc : acc * 256 + b, bytes, 0)

With(Value(_), read) == [r |-> read.r, v |-> Value(read.v)]

read_little_endian(r, n) == With(FromLittleEndian, read_bytes(r, n))

read_big_endian(r, n) == With(LAMBDA v : FromLittleEndian(Reverse(v)), read_bytes(r, n))

(* What follows the first byte of a variable integer.                      *)
AfterPrefix(first) ==
  LET prefix == first.v[1]
      Wide == (varint_two_bytes :> 2) @@ (varint_four_bytes :> 4) @@ (varint_eight_bytes :> 8)
  IN  IF prefix \in DOMAIN Wide THEN read_little_endian(first.r, Wide[prefix])
      ELSE [r |-> first.r, v |-> prefix]

read_variable_little_endian(r) == AfterPrefix(read_bytes(r, 1))

(* read_string(size) drops what follows the first terminator.  It stops at *)
(* the end of a stream without failing; in memory all of it must be there. *)
read_stream_string(r, size) ==
  LET left == IF Good(r) THEN Len(r.in) ELSE 0
      count == IF size < left THEN size ELSE left
      taken == SubSeq(r.in, 1, count)
      end == SelectInSeq(taken, LAMBDA c : c = 0)
      rest == [r EXCEPT !.in = SubSeq(@, count + 1, Len(@))]
  IN  [r |-> IF count < size THEN peek(rest) ELSE rest,
       v |-> IF end = 0 THEN taken ELSE SubSeq(taken, 1, end - 1)]

read_fixed_string(r, size) ==
  IF r.memory /\ ~(Good(r) /\ safe(r, size)) THEN [r |-> invalidate(r), v |-> <<>>]
  ELSE read_stream_string(r, size)

(* keoken's read_null_terminated_string(source, max): nothing if the       *)
(* string has max characters or no terminator; its caller then invalidates *)
(* the source.                                                             *)
read_null_terminated_string(r, max) ==
  LET end == SelectInSeq(r.in, LAMBDA c : c = 0)
  IN  IF Good(r) /\ end \in 1..max
      THEN [r |-> [r EXCEPT !.in = SubSeq(@, end + 1, Len(@))], v |-> SubSeq(r.in, 1, end - 1)]
      ELSE [r |-> invalidate(r), v |-> <<>>]

(* Reads of a size that was itself read.                                   *)
StringOf(size) == read_fixed_string(size.r, size.v)
BytesOf(size) == read_bytes(size.r, size.v)

read_string(r) == StringOf(read_variable_little_endian(r))

=============================================================================
