-------------------------------- MODULE Text --------------------------------
(***************************************************************************)
(* The text forms of bytes and amounts (formats/base_10, 16, 58, 64, 85).  *)
(* A text is a sequence of characters, a character its ASCII code; a byte  *)
(* is a number below 256.  Refused stands for the decoders' false.         *)
(***************************************************************************)
EXTENDS Integers, Sequences, SequencesExt, Bitwise

Refused == <<-1>>

Span(first, last) == [i \in 1..(last - first + 1) |-> first + i - 1]

Digits   == Span(48, 57)
Uppers   == Span(65, 90)
Lowers   == Span(97, 122)
Point    == 46
Zeros(n) == [i \in 1..n |-> 0]

\* Where a character stands in a table, from 0; -1 where it does not.
Index(table, char) ==
    IF char \in ToSet(table) THEN (CHOOSE i \in DOMAIN table : table[i] = char) - 1 ELSE -1

-----------------------------------------------------------------------------
(***************************************************************************)
(* Base 16, upper case accepted and lower case written.                    *)
(***************************************************************************)
HexDigits == Digits \o SubSeq(Lowers, 1, 6)

encode_base16(data) ==
    [i \in 1..(2 * Len(data)) |->
        HexDigits[1 + (IF i % 2 = 1 THEN data[(i + 1) \div 2] \div 16 ELSE data[i \div 2] % 16)]]

is_base16(char) == char \in 48..57 \cup 65..70 \cup 97..102

from_hex(char) ==
    IF char \in 65..70 THEN 10 + char - 65 ELSE IF char \in 97..102 THEN 10 + char - 97 ELSE char - 48

decode_base16(text) ==
    IF Len(text) % 2 = 0 /\ \A i \in DOMAIN text : is_base16(text[i])
    THEN [i \in 1..(Len(text) \div 2) |-> from_hex(text[2 * i - 1]) * 16 + from_hex(text[2 * i])]
    ELSE Refused

\* decode_base16 into an array of a fixed size.
decode_base16_array(size, text) == IF Len(text) = 2 * size THEN decode_base16(text) ELSE Refused

encode_hash(hash) == encode_base16(Reverse(hash))

decode_hash(size, text) ==
    LET result == decode_base16_array(size, text) IN
    IF result = Refused THEN Refused ELSE Reverse(result)

-----------------------------------------------------------------------------
(***************************************************************************)
(* Base 58: the bytes are a big-endian number, multiplied up digit by      *)
(* digit in a buffer whose size is estimated beforehand.                   *)
(***************************************************************************)
base58_chars ==
    SubSeq(Digits, 2, 10) \o SelectSeq(Uppers, LAMBDA c : c \notin {73, 79})
                          \o SelectSeq(Lowers, LAMBDA c : c # 108)

\* How many characters come before the first of a kind.
LeadingBefore(s, value) == (CHOOSE i \in DOMAIN s : s[i] = value /\ \A j \in 1..(i - 1) : s[j] # value) - 1

LeadingOf(s, value) ==
    LET others == {i \in DOMAIN s : s[i] # value} IN IF others = {} THEN Len(s) ELSE Min(others) - 1

Rest(s, n) == SubSeq(s, n + 1, Len(s))

\* digits * factor + carry in the base, a carry out of the first digit lost
\* (the code asserts there is none).
Multiplied(digits, factor, carry, base) ==
    FoldRight(LAMBDA digit, sum :
                [digits |-> <<(sum.carry + factor * digit) % base>> \o sum.digits,
                 carry  |-> (sum.carry + factor * digit) \div base],
              digits, [digits |-> <<>>, carry |-> carry]).digits

pack_value(indexes, byte) == Multiplied(indexes, 256, byte, 58)

unpack_char(data, digit) == Multiplied(data, 58, digit, 256)

EstimateBase58(bytes) == (bytes * 138) \div 100 + 1

encode_base58(data) ==
    LET zeros   == LeadingOf(data, 0)
        indexes == FoldLeft(pack_value, Zeros(EstimateBase58(Len(data) - zeros)), Rest(data, zeros)) IN
    [i \in 1..zeros |-> base58_chars[1]]
        \o [i \in 1..(Len(indexes) - LeadingOf(indexes, 0)) |->
                base58_chars[indexes[LeadingOf(indexes, 0) + i] + 1]]

is_base58(text) == ToSet(text) \subseteq ToSet(base58_chars)

decode_base58(text) ==
    LET ones == LeadingOf(text, base58_chars[1])
        rest == Rest(text, ones)
        data == FoldLeft(unpack_char, Zeros((Len(text) * 733) \div 1000 + 1),
                         [i \in DOMAIN rest |-> Index(base58_chars, rest[i])]) IN
    IF is_base58(rest) THEN Zeros(ones) \o Rest(data, LeadingOf(data, 0)) ELSE Refused

-----------------------------------------------------------------------------
(***************************************************************************)
(* Base 64: three bytes to four characters, the last padded.               *)
(***************************************************************************)
Base64Table == Uppers \o Lowers \o Digits \o <<43, 47>>
Pad == 61

ByteOf(data, i) == IF i <= Len(data) THEN data[i] ELSE 0

Group64(data, at) == ByteOf(data, at) * 65536 + ByteOf(data, at + 1) * 256 + ByteOf(data, at + 2)

Sextets(value) ==
    <<Base64Table[((value \div 262144) % 64) + 1], Base64Table[((value \div 4096) % 64) + 1],
      Base64Table[((value \div 64) % 64) + 1], Base64Table[(value % 64) + 1]>>

encode_base64(data) ==
    LET groups == (Len(data) + 2) \div 3
        padded == 3 * groups - Len(data)
        full   == FlattenSeq([g \in 1..groups |-> Sextets(Group64(data, 3 * g - 2))]) IN
    SubSeq(full, 1, Len(full) - padded) \o [i \in 1..padded |-> Pad]

\* Of the accumulated value only the low 24 bits are ever read.
Accumulate64(value, char) == (value * 64 + Index(Base64Table, char)) % 16777216

Octets(value) == <<(value \div 65536) % 256, (value \div 256) % 256, value % 256>>

\* Decoding stops at the first pad, which must be the last character or the one
\* before it; what then follows the pad is not looked at.
decode_base64(text) ==
    LET end    == IF Pad \in ToSet(text) THEN LeadingBefore(text, Pad) + 1 ELSE Len(text) + 1
        body   == SubSeq(text, 1, end - 1)
        whole  == Len(body) \div 4
        bytes  == FlattenSeq([g \in 1..whole |->
                        Octets(FoldLeft(Accumulate64, 0, SubSeq(body, 4 * g - 3, 4 * g)))])
        last   == FoldLeft(Accumulate64, 0, Rest(body, 4 * whole)) IN
    IF Len(text) % 4 # 0 \/ ~(ToSet(body) \subseteq ToSet(Base64Table)) THEN Refused
    ELSE CASE end = Len(text) + 1 -> bytes
           [] end = Len(text)     -> bytes \o <<(last \div 1024) % 256, (last \div 4) % 256>>
           [] end = Len(text) - 1 -> bytes \o <<(last \div 16) % 256>>
           [] OTHER               -> Refused

-----------------------------------------------------------------------------
(***************************************************************************)
(* Base 85 (Z85): four bytes to five characters, and only whole groups.    *)
(***************************************************************************)
Base85Table == Digits \o Lowers \o Uppers
    \o <<46, 45, 58, 43, 61, 94, 33, 47, 42, 63, 38, 60, 62, 40, 41, 91, 93, 123, 125, 64, 37, 36, 35>>

FromDigits(digits, base) == FoldLeft(LAMBDA value, digit : value * base + digit, 0, digits)

ToDigits(value, base, count) == [i \in 1..count |-> (value \div base^(count - i)) % base]

encode_base85(data) ==
    IF Len(data) % 4 # 0 THEN Refused
    ELSE FlattenSeq([g \in 1..(Len(data) \div 4) |->
            LET digits == ToDigits(FromDigits(SubSeq(data, 4 * g - 3, 4 * g), 256), 85, 5)
            IN  [i \in 1..5 |-> Base85Table[digits[i] + 1]]])

\* A printable character that is not of the table counts as the digit 0.  The
\* character 128 passes the test of the range too and reads past the table,
\* where any byte may be.
Decoder85(char, past) ==
    IF char = 128 THEN past ELSE IF Index(Base85Table, char) < 0 THEN 0 ELSE Index(Base85Table, char)

decode_base85(text, past) ==
    IF Len(text) % 5 # 0 \/ \E i \in DOMAIN text : text[i] \notin 32..128 THEN Refused
    ELSE FlattenSeq([g \in 1..(Len(text) \div 5) |->
            ToDigits(FromDigits([i \in 1..5 |-> Decoder85(text[5 * (g - 1) + i], past)], 85), 256, 4)])

-----------------------------------------------------------------------------
(***************************************************************************)
(* Base 10 with a decimal point.  Amounts are at most max_uint.            *)
(***************************************************************************)
RefusedAmount == -1

is_digit(char) == char \in 48..57

RECURSIVE Decimal(_)
Decimal(n) == IF n < 10 THEN <<48 + n>> ELSE Append(Decimal(n \div 10), 48 + (n % 10))

Number(digits) == FromDigits([i \in DOMAIN digits |-> digits[i] - 48], 10)

\* Digits are dropped past the places and added up to them; a dropped digit
\* other than zero rounds up, or refuses when strict.
decode_base10(text, places, strict, max_uint) ==
    LET at     == IF Point \in ToSet(text) THEN LeadingBefore(text, Point) ELSE Len(text)
        digits == SubSeq(text, 1, at) \o Rest(text, at + 1)
        kept   == SubSeq(digits \o [i \in 1..places |-> 48], 1, at + places)
        round  == \E i \in (at + places + 1)..Len(digits) : digits[i] # 48
        number == Number(kept) IN
    IF \/ \E i \in DOMAIN digits : ~is_digit(digits[i])
       \/ strict /\ round
       \/ number > max_uint
       \/ round /\ number = max_uint
    THEN RefusedAmount
    ELSE IF round THEN number + 1 ELSE number

TrimRight(text, char) ==
    LET kept == {i \in DOMAIN text : text[i] # char} IN SubSeq(text, 1, IF kept = {} THEN 0 ELSE Max(kept))

encode_base10(amount, places) ==
    LET digits == Decimal(amount)
        padded == [i \in 1..(1 + places - Len(digits)) |-> 48] \o digits
        split  == Len(padded) - places IN
    TrimRight(TrimRight(SubSeq(padded, 1, split) \o <<Point>> \o Rest(padded, split), 48), Point)

-----------------------------------------------------------------------------
(***************************************************************************)
(* Cashaddr: five-bit values under a checksum, the remainder of a division *)
(* of polynomials over GF(32).                                             *)
(***************************************************************************)
CHARSET ==
    <<113, 112, 122, 114, 121, 57, 120, 56, 103, 102, 50, 116, 118, 100, 119, 48, 115,
      51, 106, 110, 53, 52, 107, 104, 99, 101, 54, 109, 117, 97, 55, 108>>

\* The generator of the code, times 1, 2, 4, 8 and 16.
Multiples ==
    <<<<19, 3, 25, 11, 25, 3, 19, 1>>, <<15, 6, 27, 22, 27, 6, 15, 2>>,
      <<30, 12, 31, 5, 31, 12, 30, 4>>, <<21, 24, 23, 10, 23, 24, 21, 8>>,
      <<3, 25, 7, 20, 7, 25, 3, 16>>>>

Xor32 == [x \in 0..31 |-> [y \in 0..31 |-> x ^^ y]]

\* What each value of the first coefficient adds to the others.
Reduction ==
    [c0 \in 0..31 |-> [i \in 1..8 |->
        FoldSet(LAMBDA n, x : Xor32[x][Multiples[n][i]], 0,
                {n \in 1..5 : (c0 \div 2^(n - 1)) % 2 = 1})]]

\* The remainder times x plus the next value, reduced again.
NextRemainder(c, d) ==
    LET Sum(i, x) == Xor32[x][Reduction[c[1]][i]] IN
    <<Sum(1, c[2]), Sum(2, c[3]), Sum(3, c[4]), Sum(4, c[5]), Sum(5, c[6]), Sum(6, c[7]),
      Sum(7, c[8]), Sum(8, d)>>

poly_mod(values) ==
    LET c == FoldLeft(NextRemainder, Append(Zeros(7), 1), values) IN [c EXCEPT ![8] = Xor32[@][1]]

expand_prefix(prefix) == Append([i \in DOMAIN prefix |-> prefix[i] % 32], 0)

create_checksum(prefix, payload) == poly_mod(expand_prefix(prefix) \o payload \o Zeros(8))

verify_checksum(prefix, values) == poly_mod(expand_prefix(prefix) \o values) = Zeros(8)

encode_cashaddr(prefix, payload) ==
    LET combined == payload \o create_checksum(prefix, payload) IN
    prefix \o <<58>> \o [i \in DOMAIN combined |-> CHARSET[combined[i] + 1]]

lower_case(char) == IF char \in 65..90 THEN char + 32 ELSE char

NoCashaddr == [prefix |-> <<>>, payload |-> <<>>]

\* One case, and at most one separator, neither first nor after a digit.
decode_cashaddr(text, default_prefix) ==
    LET Has(set) == \E i \in DOMAIN text : text[i] \in set
        colons == {i \in DOMAIN text : text[i] = 58}
        at     == IF colons = {} THEN 0 ELSE Min(colons)
        prefix == IF at = 0 THEN default_prefix ELSE [i \in 1..(at - 1) |-> lower_case(text[i])]
        rest   == Rest(text, at)
        values == [i \in DOMAIN rest |-> Index(CHARSET, lower_case(rest[i]))] IN
    IF \/ \E i \in DOMAIN text : text[i] \notin (48..58) \cup (65..90) \cup (97..122)
       \/ Cardinality(colons) > 1 \/ at = 1
       \/ \E i \in 1..(at - 1) : is_digit(text[i])
       \/ Has(65..90) /\ Has(97..122)
       \/ -1 \in ToSet(values)
    THEN NoCashaddr
    ELSE IF ~verify_checksum(prefix, values) THEN NoCashaddr
    ELSE [prefix |-> prefix, payload |-> SubSeq(values, 1, Len(values) - 8)]

Bits(values, width) == FlattenSeq([i \in DOMAIN values |-> ToDigits(values[i], 2, width)])

\* ConvertBits: without padding what is left of the last value is dropped.
ConvertBits(values, from, to, pad) ==
    LET bits  == Bits(values, from)
        whole == IF pad THEN bits \o Zeros((to - (Len(bits) % to)) % to) ELSE bits IN
    [i \in 1..(Len(whole) \div to) |-> FromDigits(SubSeq(whole, to * (i - 1) + 1, to * i), 2)]

PUBKEY_TYPE == 0
SCRIPT_TYPE == 1

\* The hash is a short_hash, so the size in the version byte is 0.
pack_addr_data(hash, type) == ConvertBits(<<type * 8>> \o hash, 8, 5, TRUE)

NoAddress == [type |-> -1, hash |-> <<>>]

\* A hash of another size than short_hash_size is not considered.
from_string_cashaddr(text, own_prefix, short_hash_size) ==
    LET decoded   == decode_cashaddr(text, own_prefix)
        payload   == decoded.payload
        extrabits == (Len(payload) * 5) % 8
        bytes     == ConvertBits(payload, 5, 8, FALSE) IN
    IF decoded.prefix # own_prefix \/ payload = <<>> THEN NoAddress
    ELSE IF extrabits >= 5 \/ Last(payload) % 2^extrabits # 0 THEN NoAddress
    ELSE IF bytes[1] >= 128 \/ bytes[1] % 8 # 0 \/ Len(bytes) # short_hash_size + 1 THEN NoAddress
    ELSE [type |-> IF bytes[1] \div 8 = PUBKEY_TYPE THEN PUBKEY_TYPE ELSE SCRIPT_TYPE,
          hash |-> Tail(bytes)]

=============================================================================
