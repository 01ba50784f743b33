--------------------------- MODULE EncryptedKeys ---------------------------
(***************************************************************************)
(* Keys under a passphrase, of BIP38: wallet/encrypted_keys and its        *)
(* parsers.                                                                *)
(*                                                                         *)
(* A quarter of a digest is one bit, so a half is an AES block of two and  *)
(* a digest four, in order as the code slices them.  The address salt is   *)
(* the address itself: salts are taken to tell addresses apart.  Entropy   *)
(* is an owner salt and what follows it, one field of the encrypted key.   *)
(***************************************************************************)
EXTENDS Keys

CONSTANTS
    Passphrases,
    Salts, Lots,                        \* of owners, the latter lot_sequence values
    KeySeeds,                           \* of three quarters
    Hash(_),                            \* bitcoin_hash, as a secret
    ScryptToken(_, _),                  \* of passphrase and owner salt, a secret
    ScryptPair(_, _, _),                \* of point, salt and entropy, 8 bits
    ScryptPrivate(_, _),                \* of passphrase and salt, 8 bits
    aes256_encrypt(_, _), aes256_decrypt(_, _)

half == 2
quarter == 1
hash_size == 4

Bits(n) == [i \in 1..hash_size |-> (n \div 2^(hash_size - i)) % 2]

Value(bits) == 8 * bits[1] + 4 * bits[2] + 2 * bits[3] + bits[4]

\* From the offsets, the first after which each is read.
xor_data(left, right, at, other) ==
    [i \in 1..half |-> (left[at + i] + right[other + i]) % 2]

Left4(bits)  == SubSeq(bits, 1, hash_size)
Right4(bits) == SubSeq(bits, hash_size + 1, 2 * hash_size)

Failed == <<>>

-----------------------------------------------------------------------------
(***************************************************************************)
(* Of addresses and points.                                                *)
(***************************************************************************)
address_salt(point, version, compressed) == from_public(ec_public(point, compressed), version)

address_validate(salt, point, version, compressed) ==
    point # NoPoint /\ salt = address_salt(point, version, compressed)

point_hash(point) == Bits(Unsigned(point))

sign_even == 2
sign_odd  == 3

front(point) == IF is_even_key(point) THEN sign_even ELSE sign_odd

point_sign(byte, bits) ==
    IF bits[hash_size] = 0 THEN byte ELSE IF byte % 2 = 0 THEN byte + 1 ELSE byte - 1

\* The point of a sign and an unsigned portion, if there is one.
Splice(sign, bits) ==
    CASE ~is_even_key(Value(bits)) \/ Value(bits) = 0 -> NoPoint
      [] sign = sign_even -> Value(bits)
      [] sign = sign_odd  -> Order - Value(bits)
      [] OTHER -> NoPoint

-----------------------------------------------------------------------------
(***************************************************************************)
(* The encrypted forms and their parsers.  The prefix is a magic and a     *)
(* context that says the version of the address.                           *)
(***************************************************************************)
private_default_context    == 66
private_multiplied_context == 67
public_default_context     == 154
token_lot_context          == 81
token_default_context      == 83

set_flags(compressed, lot_sequence, multiplied) ==
    [compressed |-> compressed, lot_sequence |-> lot_sequence, multiplied |-> multiplied]

private_prefix_factory(address, multiplied) ==
    (address + (IF multiplied THEN private_multiplied_context ELSE private_default_context)) % 256

public_prefix_factory(address) == (address + public_default_context) % 256

token_prefix_factory(lot_sequence) ==
    IF lot_sequence THEN token_lot_context ELSE token_default_context

\* The parsers read the same fields wherever the writers put them.
parse_encrypted_private(key) ==
    LET base == IF key.flags.multiplied THEN private_multiplied_context ELSE private_default_context IN
    [valid |-> key.magic = "private" /\ key.checked, version |-> (key.context - base) % 256,
     flags |-> key.flags, salt |-> key.salt, entropy |-> key.data[1],
     data1 |-> key.data[2], data2 |-> SubSeq(key.data, 3, 4)]

parse_encrypted_public(key) ==
    [valid |-> key.magic = "public" /\ key.checked,
     version |-> (key.context - public_default_context) % 256,
     flags |-> key.flags, salt |-> key.salt, entropy |-> key.entropy,
     sign |-> key.sign, data |-> key.data]

parse_encrypted_token(token) ==
    [valid |-> /\ token.magic = "token" /\ token.checked
               /\ token.context \in {token_default_context, token_lot_context},
     lot_sequence |-> token.context = token_lot_context,
     entropy |-> token.entropy, point |-> Splice(token.sign, token.data)]

\* Fault: the lot and sequence count as salt.
OwnerSaltWhole(parse) == <<parse.entropy[1], parse.entropy[2]>>

owner_salt(parse) ==
    IF parse.flags.lot_sequence THEN <<parse.entropy[1]>> ELSE parse.entropy

-----------------------------------------------------------------------------
(***************************************************************************)
(* The writers.                                                            *)
(***************************************************************************)
create_private_key(flags, salt, entropy, derived1, derived2, seed, version) ==
    LET encrypt1 == aes256_encrypt(derived2, xor_data(seed, derived1, 0, 0))
        combined == <<encrypt1[2], seed[3]>>
        encrypt2 == aes256_encrypt(derived2, xor_data(combined, derived1, 0, half)) IN
    [magic |-> "private", checked |-> TRUE, context |-> private_prefix_factory(version, TRUE),
     flags |-> flags, salt |-> salt, data |-> <<entropy, encrypt1[1]>> \o encrypt2]

create_public_key(flags, salt, entropy, derived1, derived2, secret, version) ==
    LET point == secret_to_public(secret)
        bits  == point_hash(point) IN
    IF point = NoPoint THEN Failed
    ELSE [magic |-> "public", checked |-> TRUE, context |-> public_prefix_factory(version),
          flags |-> flags, salt |-> salt, entropy |-> entropy,
          sign |-> point_sign(front(point), derived2),
          data |-> aes256_encrypt(derived2, xor_data(bits, derived1, 0, 0))
                   \o aes256_encrypt(derived2, xor_data(bits, derived1, half, half))]

create_key_pair(token, seed, version, compressed) ==
    LET parse   == parse_encrypted_token(token)
        factor  == Hash(seed)
        product == ec_multiply(parse.point, factor)
        salt    == address_salt(product, version, compressed)
        derived == ScryptPair(parse.point, salt, parse.entropy)
        flags   == set_flags(compressed, parse.lot_sequence, TRUE)
        public  == create_public_key(flags, salt, parse.entropy, Left4(derived), Right4(derived),
                                     factor, version) IN
    IF ~parse.valid THEN Failed
    ELSE IF product = NoPoint THEN Failed
    ELSE IF public = Failed THEN Failed
    ELSE [public |-> public, point |-> product,
          private |-> create_private_key(flags, salt, parse.entropy, Left4(derived), Right4(derived),
                                         seed, version)]

TokenOf(factor, entropy, context) ==
    LET point == secret_to_public(factor) IN
    IF point = NoPoint THEN Failed
    ELSE [magic |-> "token", checked |-> TRUE, context |-> context, entropy |-> entropy,
          sign |-> front(point), data |-> point_hash(point)]

create_token_entropy(passphrase, entropy) ==
    TokenOf(ScryptToken(passphrase, entropy), entropy, token_prefix_factory(FALSE))

\* Returns true even if there is no point of the factor; the token then stays
\* blank, which does not parse.
create_token_lot(passphrase, salt, lot_sequence) ==
    LET entropy == <<salt, lot_sequence>> IN
    TokenOf(Hash(<<ScryptToken(passphrase, <<salt>>)>> \o entropy), entropy,
            token_prefix_factory(TRUE))

\* The entropy and first data of a key that is not multiplied are ciphertext.
encrypt(secret, passphrase, version, compressed) ==
    LET salt    == address_salt(secret_to_public(secret), version, compressed)
        derived == ScryptPrivate(passphrase, salt)
        bits    == Bits(secret) IN
    IF ~verify(secret) THEN Failed
    ELSE [magic |-> "private", checked |-> TRUE, context |-> private_prefix_factory(version, FALSE),
          flags |-> set_flags(compressed, FALSE, FALSE), salt |-> salt,
          data |-> aes256_encrypt(Right4(derived), xor_data(bits, Left4(derived), 0, 0))
                   \o aes256_encrypt(Right4(derived), xor_data(bits, Left4(derived), half, half))]

-----------------------------------------------------------------------------
(***************************************************************************)
(* The readers.                                                            *)
(***************************************************************************)
\* Of the owner's passphrase, as create_token made it.
OwnerFactor(parse, passphrase) ==
    LET factor == ScryptToken(passphrase, owner_salt(parse)) IN
    IF parse.flags.lot_sequence THEN Hash(<<factor>> \o parse.entropy) ELSE factor

decrypt_multiplied(parse, passphrase) ==
    LET owner   == OwnerFactor(parse, passphrase)
        derived == ScryptPair(secret_to_public(owner), parse.salt, parse.entropy)
        part    == xor_data(aes256_decrypt(Right4(derived), parse.data2), Left4(derived), 0, half)
        first   == xor_data(aes256_decrypt(Right4(derived), <<parse.data1, part[1]>>),
                            Left4(derived), 0, 0)
        secret  == ec_multiply(owner, Hash(first \o <<part[2]>>)) IN
    IF ~verify(owner) THEN NoSecret
    ELSE IF address_validate(parse.salt, secret_to_public(secret), parse.version,
                             parse.flags.compressed)
    THEN secret ELSE NoSecret

decrypt_secret(parse, passphrase) ==
    LET derived == ScryptPrivate(passphrase, parse.salt)
        joined  == aes256_decrypt(Right4(derived), <<parse.entropy, parse.data1>>)
                   \o aes256_decrypt(Right4(derived), parse.data2)
        secret  == Value(xor_data(joined, Left4(derived), 0, 0)
                         \o xor_data(joined, Left4(derived), half, half)) IN
    IF address_validate(parse.salt, secret_to_public(secret), parse.version, parse.flags.compressed)
    THEN secret ELSE NoSecret

decrypt_private(key, passphrase) ==
    LET parse  == parse_encrypted_private(key)
        secret == IF parse.flags.multiplied THEN decrypt_multiplied(parse, passphrase)
                  ELSE decrypt_secret(parse, passphrase) IN
    IF ~parse.valid \/ secret = NoSecret THEN Failed
    ELSE <<secret, parse.version, parse.flags.compressed>>

decrypt_public(key, passphrase) ==
    LET parse   == parse_encrypted_public(key)
        owner   == OwnerFactor(parse, passphrase)
        derived == ScryptPair(secret_to_public(owner), parse.salt, parse.entropy)
        first   == xor_data(aes256_decrypt(Right4(derived), SubSeq(parse.data, 1, half)),
                            Left4(derived), 0, 0)
        second  == xor_data(aes256_decrypt(Right4(derived), SubSeq(parse.data, half + 1, hash_size)),
                            Left4(derived), 0, half)
        product == ec_multiply(Splice(point_sign(parse.sign, Right4(derived)), first \o second), owner) IN
    IF ~parse.valid \/ ~verify(owner) THEN Failed
    ELSE IF address_validate(parse.salt, product, parse.version, parse.flags.compressed)
    THEN <<product, parse.version, parse.flags.compressed>> ELSE Failed

-----------------------------------------------------------------------------
(***************************************************************************)
(* A key is encrypted, or made for an owner who gave a token away.         *)
(***************************************************************************)
Encrypt(secret, passphrase, version, compressed) ==
    /\ Fresh
    /\ \E key \in {encrypt(secret, passphrase, version, compressed)} \ {Failed} :
          deal' = <<"encrypted", passphrase, key, <<secret, version, compressed>> >>
    /\ UNCHANGED <<wallet, watch, path, followed>>

MakePair(token, passphrase, seed, version, compressed) ==
    /\ Fresh
    /\ token # Failed
    /\ \E pair \in {create_key_pair(token, seed, version, compressed)} \ {Failed} :
          deal' = <<"pair", passphrase, pair, <<version, compressed>> >>
    /\ UNCHANGED <<wallet, watch, path, followed>>

EncryptedNext ==
    \/ \E secret \in Secrets, passphrase \in Passphrases, version \in Versions, compressed \in BOOLEAN :
          Encrypt(secret, passphrase, version, compressed)
    \/ \E passphrase \in Passphrases, salt \in Salts, lot \in Lots, seed \in KeySeeds,
          version \in Versions, compressed \in BOOLEAN :
          \/ MakePair(create_token_entropy(passphrase, <<salt, lot>>), passphrase, seed, version,
                      compressed)
          \/ MakePair(create_token_lot(passphrase, salt, lot), passphrase, seed, version, compressed)

-----------------------------------------------------------------------------
\* What encrypt and create_key_pair make opens with the passphrase, to the very
\* secret, version and compression it was made of; the private and the public
\* form of a pair open to one key, that of the point handed out; and no other
\* passphrase opens any of them to something else.
EncryptedKeysOpen ==
    /\ deal # <<>> /\ deal[1] = "encrypted" =>
        /\ decrypt_private(deal[3], deal[2]) = deal[4]
        /\ \A other \in Passphrases : decrypt_private(deal[3], other) \in {Failed, deal[4]}
    /\ deal # <<>> /\ deal[1] = "pair" =>
        LET point == deal[3].point
            Private(passphrase) == decrypt_private(deal[3].private, passphrase)
            Public(passphrase)  == decrypt_public(deal[3].public, passphrase) IN
        /\ Private(deal[2]) = <<point, deal[4][1], deal[4][2]>>
        /\ Public(deal[2]) = <<point, deal[4][1], deal[4][2]>>
        /\ \A other \in Passphrases :
             /\ Private(other) \in {Failed, Private(deal[2])}
             /\ Public(other) \in {Failed, Public(deal[2])}
=============================================================================
