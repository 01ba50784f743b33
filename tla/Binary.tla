------------------------------- MODULE Binary -------------------------------
(***************************************************************************)
(* libbitcoin::binary: a sequence of bits, first bit first, packed into    *)
(* blocks from their high ends; final_block_excess_ bits of the last block *)
(* are not part of it.  bits is what an object stands for, kept beside it. *)
(***************************************************************************)
EXTENDS Integers, Sequences, SequencesExt

CONSTANTS
  bits_per_block,
  MaxBits,              \* bound on the size of an object
  Operands              \* bit sequences that are appended, prepended and assigned

VARIABLES packed, bits

binaryVars == <<packed, bits>>

Range2 == 2^bits_per_block

blocks_size(size) == IF size = 0 THEN 0 ELSE (size - 1) \div bits_per_block + 1

Left(block, n) == (block * 2^n) % Range2
Right(block, n) == block \div 2^n

(* Of blocks with no bit in common, all that is done here.                 *)
Or(x, y) == x + y

BlockOr(x, y) ==
  [i \in DOMAIN x |-> IF i \in DOMAIN y THEN Or(x[i], y[i]) ELSE x[i]]

-----------------------------------------------------------------------------
Size(b) == Len(b.blocks) * bits_per_block - b.excess

resize(b, size) ==
  LET count == blocks_size(size)
      offset == size % bits_per_block
      excess == IF offset > 0 THEN bits_per_block - offset ELSE 0
      kept == [i \in 1..count |-> IF i <= Len(b.blocks) THEN b.blocks[i] ELSE 0]
  IN  [blocks |-> [i \in 1..count |-> IF i = count THEN kept[i] - (kept[i] % 2^excess) ELSE kept[i]],
       excess |-> excess]

Empty == [blocks |-> <<>>, excess |-> 0]

(* binary(size, blocks): without any block there is nothing to resize.     *)
binary(size, blocks) ==
  IF blocks = <<>> THEN Empty ELSE resize([blocks |-> blocks, excess |-> 0], size)

(* operator>>, for a text of bits.                                         *)
from_text(text) ==
  resize([blocks |-> [i \in 1..blocks_size(Len(text)) |->
                        FoldLeft(LAMBDA value, k :
                                   2 * value + (IF (i - 1) * bits_per_block + k <= Len(text)
                                                THEN text[(i - 1) * bits_per_block + k] ELSE 0),
                                 0, [k \in 1..bits_per_block |-> k])],
          excess |-> 0], Len(text))

is_base2(text) == \A i \in DOMAIN text : text[i] \in {0, 1}

(* config::base2, the option type: a set with what is read, empty when the *)
(* text is refused by an exception.                                        *)
config_base2 == Empty

read_base2(text) == IF is_base2(text) THEN {from_text(text)} ELSE {}

(* operator[] and operator<<.                                              *)
at(b, index) ==
  Right(b.blocks[index \div bits_per_block + 1], bits_per_block - (index % bits_per_block) - 1) % 2

encoded(b) == [i \in 1..Size(b) |-> at(b, i - 1)]

shift_left(b, distance) ==
  LET count == Len(b.blocks)
      first == distance \div bits_per_block
      offset == distance % bits_per_block
      Leading(i) == IF first + i <= count THEN Left(b.blocks[first + i], offset) ELSE 0
      Trailing(i) == IF offset # 0 /\ first + i + 1 <= count
                     THEN Right(b.blocks[first + i + 1], bits_per_block - offset) ELSE 0
  IN  resize([blocks |-> [i \in 1..count |-> Or(Leading(i), Trailing(i))], excess |-> b.excess],
             IF distance < Size(b) THEN Size(b) - distance ELSE 0)

(* Fault: what is carried past the last block is dropped.                  *)
ShiftRightDrops(b, distance) ==
  LET count == Len(b.blocks)
      first == distance \div bits_per_block
      offset == distance % bits_per_block
      Leading(i) == IF i = 1 THEN 0 ELSE Left(b.blocks[i - 1], bits_per_block - offset)
      moved == [i \in 1..first |-> 0]
                 \o [i \in 1..count |-> Or(Leading(i), Right(b.blocks[i], offset))]
  IN  resize([blocks |-> moved, excess |-> b.excess], Size(b) + distance)

(* What is carried past the last block goes to the one that resize adds.   *)
shift_right(b, distance) ==
  LET count == Len(b.blocks)
      first == distance \div bits_per_block
      offset == distance % bits_per_block
      Leading(i) == IF i = 1 THEN 0 ELSE Left(b.blocks[i - 1], bits_per_block - offset)
      moved == [i \in 1..first |-> 0]
                 \o [i \in 1..count |-> Or(Leading(i), Right(b.blocks[i], offset))]
      resized == resize([blocks |-> moved, excess |-> b.excess], Size(b) + distance)
      previous == IF count = 0 THEN 0 ELSE b.blocks[count]
  IN  IF first + count < Len(resized.blocks)
      THEN [resized EXCEPT !.blocks[Len(resized.blocks)] = Left(previous, bits_per_block - offset)]
      ELSE resized

append(b, post) ==
  LET duplicate == shift_right(binary(Size(post), post.blocks), Size(b) % bits_per_block)
      resized == resize(b, Size(b) + Size(post))
      before == [i \in 1..(Size(b) \div bits_per_block) |-> 0]
  IN  [resized EXCEPT !.blocks = BlockOr(@, before \o duplicate.blocks)]

prepend(b, prior) ==
  LET shifted == shift_right(b, Size(prior))
  IN  [shifted EXCEPT !.blocks = BlockOr(@, prior.blocks)]

substring(b, start, length) ==
  LET size == Size(b)
      from == IF start > size THEN size ELSE start
  IN  resize(shift_left(binary(size, b.blocks), from),
             IF from + length > size THEN size - from ELSE length)

is_prefix_of(b, field) ==
  LET truncated == binary(Size(b), field.blocks)
  IN  Size(truncated) = Size(b) /\ \A i \in 0..(Size(b) - 1) : at(b, i) = at(truncated, i)

-----------------------------------------------------------------------------
Pad(s, n) == s \o [i \in 1..n |-> 0]
Lower(x, y) == IF x < y THEN x ELSE y
Take(s, n) == SubSeq(s, 1, Lower(n, Len(s)))
Drop(s, n) == SubSeq(s, Lower(n, Len(s)) + 1, Len(s))

BinaryInit == packed = Empty /\ bits = <<>>

Become(object, sequence) == packed' = object /\ bits' = sequence

Assign(s) == bits = <<>> /\ \E object \in read_base2(s) : Become(object, s)

Resize(n) == Become(resize(packed, n), Take(Pad(bits, n), n))

Append2(s) == Become(append(packed, from_text(s)), bits \o s)

Prepend2(s) == Become(prepend(packed, from_text(s)), s \o bits)

ShiftLeft(n) == Become(shift_left(packed, n), Drop(bits, n))

ShiftRight(n) == Become(shift_right(packed, n), [i \in 1..n |-> 0] \o bits)

Substring(start, n) == Become(substring(packed, start, n), Take(Drop(bits, start), n))

BinaryNext ==
  \/ \E s \in Operands : Assign(s) \/ (Len(bits \o s) <= MaxBits /\ (Append2(s) \/ Prepend2(s)))
  \/ \E n \in 0..MaxBits :
       Resize(n) \/ ShiftLeft(n) \/ (Len(bits) + n <= MaxBits /\ ShiftRight(n))
  \/ \E start, n \in 0..(MaxBits + 1) : Substring(start, n)

-----------------------------------------------------------------------------
(* Packing loses nothing: after any sequence of operations the object has  *)
(* the bits that the same operations give on the plain sequence, none set  *)
(* outside of them, so that its text reads back, and it is a prefix of     *)
(* exactly the fields whose bits, with zeros after them, begin with its    *)
(* own; of the field without a bit, which gets no zeros, only if it has    *)
(* none itself.                                                            *)
BinaryIsBits ==
  /\ encoded(packed) = bits
  /\ \A object \in {packed, config_base2} : read_base2(encoded(object)) = {object}
  /\ \A s \in Operands :
       is_prefix_of(packed, from_text(s))
         <=> IsPrefix(bits, IF s = <<>> THEN <<>> ELSE Pad(s, MaxBits))

=============================================================================
