------------------------------- MODULE Config -------------------------------
(***************************************************************************)
(* The values of the command line and of settings files (config/): each    *)
(* class reads itself from a word of text, or throws, and writes itself as *)
(* one.  As in Text, a word is a sequence of ASCII codes; Refused stands   *)
(* for the exception.                                                      *)
(*                                                                         *)
(* Sizes and widths are scaled: a hash has HashSize bytes, an elliptic     *)
(* curve secret is valid below Order, and numbers end at their Max.        *)
(***************************************************************************)
EXTENDS Text

CONSTANTS
    HashSize,               \* hash_size, and the size of a secret
    SodiumSize,             \* hash_size again, a multiple of four here
    MaxEndorsement,         \* max_endorsement_size
    MaxUint,                \* max_uint32, and the limit of size_t
    Order,                  \* of the elliptic curve
    Tokens,                 \* what is typed at once
    MaxTyped,               \* bound on the tokens of a word
    ByteValues,
    MaxBytes,               \* bound on the bytes that are encoded
    sha256_byte(_)

VARIABLES
    typed, typing,          \* a word, and the number of its tokens
    blob                    \* bytes

textVars == <<typed, typing, blob>>

Colon == 58

\* split: at the delimiters, runs of them counting as one.
RECURSIVE split(_)
split(text) ==
    IF Colon \notin ToSet(text) THEN <<text>>
    ELSE LET at   == LeadingBefore(text, Colon)
             rest == Rest(text, at)
         IN  <<SubSeq(text, 1, at)>> \o split(Rest(rest, LeadingOf(rest, Colon)))

RefusedNumber == -1

\* lexical_cast of the digits of an unsigned number.
lexical_cast(text, max) ==
    IF text = <<>> \/ \E i \in DOMAIN text : ~is_digit(text[i]) THEN RefusedNumber
    ELSE IF Number(text) > max THEN RefusedNumber ELSE Number(text)

\* The cast takes a sign before the digits, and a minus counts down from zero.
\* What deserialize would trim, the stream that a word is read from left out.
deserialize(text) ==
    LET minus == text # <<>> /\ text[1] = 45
        plus  == text # <<>> /\ text[1] = 43
        value == lexical_cast(IF minus \/ plus THEN Tail(text) ELSE text, MaxUint) IN
    IF minus /\ value > 0 THEN MaxUint + 1 - value ELSE value

-----------------------------------------------------------------------------
(***************************************************************************)
(* Bytes.                                                                  *)
(***************************************************************************)
read_base16(text)  == decode_base16(text)
read_base58(text)  == decode_base58(text)
read_base64(text)  == decode_base64(text)
read_hash160(text) == decode_base16_array(HashSize, text)
read_hash256(text) == decode_hash(HashSize, text)

read_sodium(text, past) ==
    LET bytes == decode_base85(text, past) IN IF Len(bytes) = SodiumSize THEN bytes ELSE Refused

\* A secret is a number that is neither zero nor too large.
verify(secret) == FromDigits(secret, 256) \in 1..(Order - 1)

read_ec_private(text) ==
    LET secret == decode_base16_array(HashSize, text) IN
    IF secret # Refused /\ verify(secret) THEN secret ELSE Refused

read_endorsement(text) ==
    LET bytes == decode_base16(text) IN IF Len(bytes) <= MaxEndorsement THEN bytes ELSE Refused

-----------------------------------------------------------------------------
(***************************************************************************)
(* Tuples.                                                                 *)
(***************************************************************************)
NoPoint == [hash |-> Refused, index |-> RefusedNumber]

decode_point(text) ==
    LET tokens == split(text) IN
    IF Len(tokens) # 2 THEN NoPoint
    ELSE LET hash  == read_hash256(tokens[1])
             index == deserialize(tokens[2])
         IN  IF hash = Refused \/ index = RefusedNumber THEN NoPoint
             ELSE [hash |-> hash, index |-> index]

encode_point(point) == encode_hash(point.hash) \o <<Colon>> \o Decimal(point.index)

NoInput == [point |-> NoPoint, sequence |-> RefusedNumber]

\* The sequence is optional and then the last.
decode_input(text) ==
    LET tokens == split(text) IN
    IF Len(tokens) \notin {2, 3} THEN NoInput
    ELSE LET point    == decode_point(tokens[1] \o <<Colon>> \o tokens[2])
             sequence == IF Len(tokens) = 3 THEN deserialize(tokens[3]) ELSE MaxUint
         IN  IF point = NoPoint \/ sequence = RefusedNumber THEN NoInput
             ELSE [point |-> point, sequence |-> sequence]

encode_input(tuple) == encode_point(tuple.point) \o <<Colon>> \o Decimal(tuple.sequence)

\* Two tokens around the first colon, the second empty where there is none.
Halves(text) ==
    IF Colon \in ToSet(text)
    THEN LET at == LeadingBefore(text, Colon) IN <<SubSeq(text, 1, at), Rest(text, at + 1)>>
    ELSE <<text, <<>>>>

NoCheckpoint == [hash |-> Refused, height |-> RefusedNumber]

\* The hash in lower case, and a height: the expression would do without one,
\* the conversion that follows does not.
read_checkpoint(text) ==
    LET parts  == Halves(text)
        hash   == decode_hash(HashSize, parts[1])
        height == lexical_cast(parts[2], MaxUint) IN
    IF \/ ToSet(parts[1]) \cap (65..70) # {}
       \/ hash = Refused \/ height = RefusedNumber
    THEN NoCheckpoint
    ELSE [hash |-> hash, height |-> height]

write_checkpoint(checkpoint) == encode_hash(checkpoint.hash) \o <<Colon>> \o Decimal(checkpoint.height)

sort(checks) == SortSeq(checks, LAMBDA left, right : left.height < right.height)

covered(height, checks) == checks # <<>> /\ height <= Last(checks).height

validate(hash, height, checks) ==
    ~\E i \in DOMAIN checks : checks[i].height = height /\ checks[i].hash # hash

-----------------------------------------------------------------------------
(***************************************************************************)
(* Hosts.  The text of a host is its form ("v4" dotted, "bare" or          *)
(* "bracketed" with colons, "name") and which it is; an address is IPv6,   *)
(* and may map an IPv4 one.  A text has no port where port is <<>>.        *)
(***************************************************************************)
Ports == 0..65535

PortText(port) == IF port > 0 THEN Decimal(port) ELSE <<>>

\* One to five digits, and at most 65535 of them.
PortOf(text) ==
    IF text = <<>> THEN 0 ELSE IF Len(text) <= 5 THEN lexical_cast(text, 65535) ELSE RefusedNumber

to_host_name(host) == IF host.form = "bare" THEN [host EXCEPT !.form = "bracketed"] ELSE host

to_authority(host, port) == [scheme |-> "", host |-> to_host_name(host), port |-> PortText(port)]

to_ipv6(host) == [mapped |-> host.form = "v4", id |-> host.id]

NoAuthority == [ip |-> [mapped |-> FALSE, id |-> 0], port |-> RefusedNumber]

read_authority(text) ==
    IF text.scheme # "" \/ text.host.form \notin {"v4", "bracketed"} \/ PortOf(text.port) = RefusedNumber
    THEN NoAuthority
    ELSE [ip |-> to_ipv6(text.host), port |-> PortOf(text.port)]

to_hostname(ip) == [form |-> IF ip.mapped THEN "v4" ELSE "bracketed", id |-> ip.id]

write_authority(authority) == to_authority(to_hostname(authority.ip), authority.port)

NoEndpoint == [scheme |-> "", host |-> [form |-> "name", id |-> 0], port |-> RefusedNumber]

read_endpoint(text) ==
    IF text.host.form = "bare" \/ PortOf(text.port) = RefusedNumber THEN NoEndpoint
    ELSE [scheme |-> text.scheme, host |-> text.host, port |-> PortOf(text.port)]

write_endpoint(endpoint) ==
    [scheme |-> endpoint.scheme, host |-> endpoint.host, port |-> PortText(endpoint.port)]

\* endpoint(const authority&).
endpoint_of(authority) == read_endpoint(write_authority(authority))

-----------------------------------------------------------------------------
(***************************************************************************)
(* The values of settings that are not given: the default constructors.    *)
(***************************************************************************)
base16_default      == <<>>
base58_default      == <<>>
base64_default      == <<>>
endorsement_default == <<>>
hash160_default     == Zeros(HashSize)
hash256_default     == Zeros(HashSize)
sodium_default      == Zeros(SodiumSize)
checkpoint_default  == [hash |-> Zeros(HashSize), height |-> 0]
point_default       == [hash |-> Zeros(HashSize), index |-> 0]
input_default       == [point |-> point_default, sequence |-> 0]
authority_default   == [ip |-> [mapped |-> FALSE, id |-> 0], port |-> 0]
endpoint_default    == [scheme |-> "", host |-> [form |-> "name", id |-> 0], port |-> 0]

-----------------------------------------------------------------------------
(***************************************************************************)
(* A word is typed token by token, or bytes come one by one.               *)
(***************************************************************************)
TextInit == typed = <<>> /\ typing = 0 /\ blob = <<>>

Type(token) ==
    /\ blob = <<>> /\ typing < MaxTyped
    /\ typed' = typed \o token
    /\ typing' = typing + 1
    /\ UNCHANGED blob

Receive(byte) ==
    /\ typed = <<>> /\ Len(blob) < MaxBytes
    /\ blob' = Append(blob, byte)
    /\ UNCHANGED <<typed, typing>>

TextNext == (\E token \in Tokens : Type(token)) \/ (\E byte \in ByteValues : Receive(byte))

-----------------------------------------------------------------------------
(***************************************************************************)
(* Mnemonic words (BIP39).  A word of a lexicon is its place in it.  The   *)
(* lexicons here have no word in common, as most have none (en and fr, ru  *)
(* and uk, and the two zh share some).  sha256_byte is the first byte of   *)
(* the hash, which is all that is used for entropy of up to 32 bytes.      *)
(***************************************************************************)
bits_per_word == 11
entropy_bit_divisor == 32
dictionary_size == 2048

lexicon_word(lexicon, position) == dictionary_size * lexicon + position

find_position(lexicon, word) ==
    IF word \div dictionary_size = lexicon THEN word % dictionary_size ELSE -1

create_mnemonic(entropy, lexicon) ==
    LET total_bits == Len(entropy) * 8 + (Len(entropy) * 8) \div entropy_bit_divisor
        bits       == Bits(Append(entropy, sha256_byte(entropy)), 8) IN
    IF Len(entropy) % 4 # 0 THEN <<>>
    ELSE [w \in 1..(total_bits \div bits_per_word) |->
            lexicon_word(lexicon, FromDigits(
                SubSeq(bits, bits_per_word * (w - 1) + 1, bits_per_word * w), 2))]

\* The words are read as entropy, and must be what is made of it.
validate_mnemonic(words, lexicon) ==
    LET positions    == [w \in DOMAIN words |-> find_position(lexicon, words[w])]
        total_bits   == bits_per_word * Len(words)
        entropy_bits == total_bits - total_bits \div (entropy_bit_divisor + 1) IN
    IF Len(words) % 3 # 0 \/ -1 \in ToSet(positions) THEN FALSE
    ELSE words = create_mnemonic(
            ConvertBits(SubSeq(Bits(positions, bits_per_word), 1, entropy_bits), 1, 8, FALSE),
            lexicon)

validate_mnemonic_any(words, lexicons) ==
    \E lexicon \in lexicons : validate_mnemonic(words, lexicon)

-----------------------------------------------------------------------------
BytesReadBack ==
    /\ decode_base16(encode_base16(blob)) = blob
    /\ decode_base58(encode_base58(blob)) = blob
    /\ decode_base64(encode_base64(blob)) = blob
    /\ Len(blob) = 4 => LET low == [blob EXCEPT ![1] = @ % 128]
                        IN  \A past \in {0, 255} : read_sodium(encode_base85(low), past) = low
    /\ decode_hash(Len(blob), encode_hash(blob)) = blob

AmountReadsBack ==
    LET amount == FromDigits(SubSeq(blob, 1, Min({3, Len(blob)})), 256) % MaxUint IN
    \A places \in {0, 2} :
        decode_base10(encode_base10(amount, places), places, TRUE, MaxUint) = amount

\* A cashaddr is read as what it was made of, and not once a character is another.
CashaddrReadsBack ==
    LET hash    == [i \in 1..4 |-> blob[((i - 1) % Len(blob)) + 1]]
        address == encode_cashaddr(<<98, 99, 104>>, pack_addr_data(hash, Len(blob) % 2))
        Other(i) == [address EXCEPT ![i] = CHARSET[((Index(CHARSET, @) + 1) % 32) + 1]] IN
    /\ from_string_cashaddr(address, <<98, 99, 104>>, 4) = [type |-> Len(blob) % 2, hash |-> hash]
    /\ Len(blob) = 1 => \A i \in 5..Len(address) :
            from_string_cashaddr(Other(i), <<98, 99, 104>>, 4) = NoAddress

\* Words are valid among the lexicons, and not with the check bit inverted.
MnemonicReadsBack ==
    \A lexicon \in {1, 2} :
        LET words == create_mnemonic(blob, lexicon)
            last  == Last(words)
            other == [words EXCEPT ![Len(words)] = IF last % 2 = 0 THEN last + 1 ELSE last - 1] IN
        /\ validate_mnemonic_any(words, {1, 2})
        /\ ~validate_mnemonic_any(other, {1, 2})

\* A text that base 58 accepts is the one that it writes, and of base 16 but for the case.
TextIsCanonical ==
    /\ decode_base58(typed) # Refused => encode_base58(decode_base58(typed)) = typed
    /\ decode_base16(typed) # Refused =>
            encode_base16(decode_base16(typed)) = [i \in DOMAIN typed |-> lower_case(typed[i])]

Rereads(read(_), write(_)) ==
    LET value == read(typed) IN value = Refused \/ read(write(value)) = value

WordReadsBack ==
    /\ Rereads(read_base16, encode_base16) /\ Rereads(read_base58, encode_base58)
    /\ Rereads(read_base64, encode_base64) /\ Rereads(read_hash160, encode_base16)
    /\ Rereads(read_hash256, encode_hash) /\ Rereads(read_ec_private, encode_base16)
    /\ Rereads(read_endorsement, encode_base16)

TupleReadsBack ==
    LET input == decode_input(typed)
        point == decode_point(typed)
        check == read_checkpoint(typed) IN
    /\ point # NoPoint => decode_point(encode_point(point)) = point
    /\ input # NoInput => decode_input(encode_input(input)) = input
    /\ check # NoCheckpoint => read_checkpoint(write_checkpoint(check)) = check

HostReadsBack ==
    \A form \in {"v4", "bare", "bracketed", "name"}, scheme \in {"", "tcp"} :
        LET text      == [scheme |-> scheme, host |-> [form |-> form, id |-> 7], port |-> typed]
            authority == read_authority(text)
            endpoint  == read_endpoint(text) IN
        /\ authority # NoAuthority =>
               /\ read_authority(write_authority(authority)) = authority
               /\ read_authority(write_endpoint(endpoint_of(authority))) = authority
        /\ endpoint # NoEndpoint => read_endpoint(write_endpoint(endpoint)) = endpoint

\* Of checkpoints that are sorted the last covers the most.
CheckpointsCover ==
    LET checks == [i \in DOMAIN blob |-> [hash |-> <<i>>, height |-> blob[i]]] IN
    \A height \in ByteValues :
        covered(height, sort(checks)) <=> \E i \in DOMAIN blob : height <= blob[i]

\* A setting that was not given is written as a text that gives it.
DefaultsReadBack ==
    /\ read_base16(encode_base16(base16_default)) = base16_default
    /\ read_base58(encode_base58(base58_default)) = base58_default
    /\ read_base64(encode_base64(base64_default)) = base64_default
    /\ read_endorsement(encode_base16(endorsement_default)) = endorsement_default
    /\ read_hash160(encode_base16(hash160_default)) = hash160_default
    /\ read_hash256(encode_hash(hash256_default)) = hash256_default
    /\ \A past \in {0, 255} : read_sodium(encode_base85(sodium_default), past) = sodium_default
    /\ read_checkpoint(write_checkpoint(checkpoint_default)) = checkpoint_default
    /\ decode_point(encode_point(point_default)) = point_default
    /\ decode_input(encode_input(input_default)) = input_default
    /\ read_authority(write_authority(authority_default)) = authority_default
    /\ read_endpoint(write_endpoint(endpoint_default)) = endpoint_default

(* What is written as text is read back as it was: bytes in every base,    *)
(* amounts with a decimal point, addresses and mnemonic words (whose       *)
(* checksums notice a changed character), and every value of the settings, *)
(* a default or one that was read from a word; and base 58 and base 16     *)
(* give bytes one text.                                                    *)
TextReadsBack ==
    /\ DefaultsReadBack
    /\ BytesReadBack /\ AmountReadsBack /\ CheckpointsCover
    /\ blob # <<>> => CashaddrReadsBack
    /\ Len(blob) = 4 => MnemonicReadsBack
    /\ TextIsCanonical /\ WordReadsBack /\ TupleReadsBack /\ HostReadsBack

=============================================================================
