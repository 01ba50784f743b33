-------------------------------- MODULE Keys --------------------------------
(***************************************************************************)
(* The keys of a wallet: secrets and points of the curve, WIF and payment  *)
(* addresses, the hd keys of BIP32, stealth payments, signed messages.     *)
(*                                                                         *)
(* The curve is a cyclic group of prime Order and a point the multiple of  *)
(* the generator that it is, so 0 is none.  A secret is any number that    *)
(* fits, also one that is no key.  Hashes that name something are free of  *)
(* collisions (Short); those that yield numbers are the constants.  A text *)
(* is the body below its base58 and whether its checksum is right.         *)
(***************************************************************************)
EXTENDS Integers, Sequences, SequencesExt

CONSTANTS
    Order,              \* of the curve, prime
    SecretMax,          \* secrets are 0..SecretMax
    Left(_, _),         \* the halves of hmac_sha512_hash of data and key:
    Right(_, _),        \* a secret and a chain code
    Sha256(_),          \* of a point, as a secret
    SeedSecret(_, _),   \* hmac_sha256_hash of nonce and seed, as a secret
    ScriptPrefix(_, _), \* the first bits of the hash of a stealth script
    Hardened,           \* hd_first_hardened_key
    MaxDepth,           \* max_uint8, of lineage depths
    MaxNonce            \* max_uint32, of mined nonces

ASSUME KeysAssumption == Order \in Nat /\ Order > 3 /\ SecretMax \in Nat /\ SecretMax >= Order

Secrets == 0..SecretMax
Multiples == 1..(Order - 1)
NoSecret == 0
NoPoint  == 0

Short(data) == [short |-> data]
Text(body)  == [body |-> body, checked |-> TRUE]

-----------------------------------------------------------------------------
(***************************************************************************)
(* math/elliptic_curve.  What fails returns NoSecret or NoPoint.           *)
(***************************************************************************)
verify(secret) == secret \in Multiples

secret_to_public(secret) == IF verify(secret) THEN secret ELSE NoPoint

ec_add(value, secret) ==
    IF secret < Order THEN (value + secret) % Order ELSE 0

ec_add_point(point, secret) == IF point = NoPoint THEN NoPoint ELSE ec_add(point, secret)

ec_multiply(value, secret) == IF verify(secret) THEN (value * secret) % Order ELSE 0

\* One of a point and its negative is even.
is_even_key(point) == point <= Order \div 2

Unsigned(point) == IF is_even_key(point) THEN point ELSE Order - point

-----------------------------------------------------------------------------
(***************************************************************************)
(* ec_private and ec_public.                                               *)
(***************************************************************************)
compressed_sentinel == 1

NoPrivate == [valid |-> FALSE, compress |-> TRUE, address |-> 0, wif |-> 0, secret |-> NoSecret]
NoPublic  == [valid |-> FALSE, compress |-> TRUE, point |-> NoPoint]

ec_private(secret, address, wif, compress) ==
    [valid |-> TRUE, compress |-> compress, address |-> address, wif |-> wif, secret |-> secret]

ec_public(point, compress) == [valid |-> TRUE, compress |-> compress, point |-> point]

encode_wif(key) ==
    Text(IF key.compress THEN <<key.wif, key.secret, compressed_sentinel>> ELSE <<key.wif, key.secret>>)

is_wif(text) ==
    /\ text.checked
    /\ \/ Len(text.body) = 2
       \/ Len(text.body) = 3 /\ text.body[3] = compressed_sentinel

\* The payment version is not in the text.
decode_wif(text, address) ==
    IF is_wif(text) THEN ec_private(text.body[2], address, text.body[1], Len(text.body) = 3)
    ELSE NoPrivate

to_public(key) ==
    IF key.valid /\ secret_to_public(key.secret) # NoPoint
    THEN ec_public(secret_to_public(key.secret), key.compress)
    ELSE NoPublic

\* to_data, also the bytes that encoded() writes in base16.
public_to_data(key) == [point |-> key.point, compress |-> key.compress]

public_from_data(data) == ec_public(data.point, data.compress)

-----------------------------------------------------------------------------
(***************************************************************************)
(* payment_address.                                                        *)
(***************************************************************************)
NoAddress == [valid |-> FALSE, version |-> 0, hash |-> Short(<<>>)]

payment_address(hash, version) == [valid |-> TRUE, version |-> version, hash |-> hash]

from_public(key, version) ==
    IF key.valid THEN payment_address(Short(public_to_data(key)), version) ELSE NoAddress

from_private(key) == IF key.valid THEN from_public(to_public(key), key.address) ELSE NoAddress

from_script(script, version) == payment_address(Short(script), version)

encode_address(address) == Text(<<address.version, address.hash>>)

is_address(text) == Len(text.body) = 2 /\ text.checked

decode_address(text) ==
    IF is_address(text) THEN payment_address(text.body[2], text.body[1]) ELSE NoAddress

\* A script here is its pattern and the data its operations push.  Without the
\* output it spends, an input that signs for a key hash may sign for a script.
extract_input(script, p2kh_version, p2sh_version) ==
    CASE script.pattern = "sign_key_hash" ->
            <<from_public(public_from_data(script.data[2]), p2kh_version),
              from_script(Last(script.data), p2sh_version)>>
      [] script.pattern = "sign_script_hash" -> <<from_script(Last(script.data), p2sh_version)>>
      [] OTHER -> <<>>

extract_output(script, p2kh_version, p2sh_version) ==
    CASE script.pattern = "pay_key_hash"    -> <<payment_address(script.data[1], p2kh_version)>>
      [] script.pattern = "pay_script_hash" -> <<payment_address(script.data[1], p2sh_version)>>
      [] script.pattern = "pay_public_key"  ->
            <<from_public(public_from_data(script.data[1]), p2kh_version)>>
      [] OTHER -> <<>>

extract(script, p2kh_version, p2sh_version) ==
    LET input == extract_input(script, p2kh_version, p2sh_version) IN
    IF input = <<>> THEN extract_output(script, p2kh_version, p2sh_version) ELSE input

-----------------------------------------------------------------------------
(***************************************************************************)
(* Signed messages.  A recoverable signature says of which secret and      *)
(* message it is; recovery with another id or message gives another point. *)
(***************************************************************************)
max_recovery_id    == 3
magic_compressed   == 31
magic_uncompressed == 27

RecoveryId(secret, message) == (secret + message) % (max_recovery_id + 1)

sign_recoverable(secret, message) ==
    [secret |-> secret, message |-> message]

recover_public(signature, id, message) ==
    IF id = RecoveryId(signature.secret, signature.message) /\ message = signature.message
    THEN secret_to_public(signature.secret)
    ELSE (secret_to_public(signature.secret) % (Order - 1)) + 1

recovery_id_to_magic(id, compressed) ==
    id + (IF compressed THEN magic_compressed ELSE magic_uncompressed)

magic_to_recovery_id(magic) ==
    LET offset == magic - magic_uncompressed
        compressed == offset >= magic_compressed - magic_uncompressed IN
    [id |-> IF compressed THEN offset - (magic_compressed - magic_uncompressed) ELSE offset,
     compressed |-> compressed]

sign_message(message, key) ==
    [magic |-> recovery_id_to_magic(RecoveryId(key.secret, message), key.compress),
     signature |-> sign_recoverable(key.secret, message)]

verify_message(message, address, signed) ==
    /\ signed.magic \in magic_uncompressed..(magic_compressed + max_recovery_id)
    /\ LET parsed == magic_to_recovery_id(signed.magic)
           point  == recover_public(signed.signature, parsed.id, message) IN
       /\ point # NoPoint
       /\ address.hash = Short([point |-> point, compress |-> parsed.compressed])

-----------------------------------------------------------------------------
(***************************************************************************)
(* hd_public and hd_private.  A lineage's prefixes are the private and the *)
(* public one; a public key knows only its own.                            *)
(***************************************************************************)
NoLineage == [prefixes |-> <<0, 0>>, depth |-> 0, parent |-> 0, child |-> 0]

NoHdPublic  == [valid |-> FALSE, point |-> NoPoint, chain |-> 0, lineage |-> NoLineage]
NoHdPrivate == [valid |-> FALSE, point |-> NoPoint, chain |-> 0, lineage |-> NoLineage,
                secret |-> NoSecret]

private_prefix(prefixes) == prefixes[1]
public_prefix(prefixes)  == prefixes[2]

hd_public(point, chain, lineage) ==
    [valid |-> TRUE, point |-> point, chain |-> chain, lineage |-> lineage]

\* hd_public is its base, made by from_secret; the secret is kept whatever that gives.
hd_private(secret, chain, lineage) ==
    LET point == secret_to_public(secret) IN
    IF point = NoPoint THEN [NoHdPrivate EXCEPT !.secret = secret]
    ELSE [valid |-> TRUE, point |-> point, chain |-> chain, lineage |-> lineage, secret |-> secret]

bitcoin_seed == 0

hd_from_seed(seed, prefixes) ==
    LET left == Left(<<seed>>, bitcoin_seed) IN
    IF verify(left)
    THEN hd_private(left, Right(<<seed>>, bitcoin_seed), [NoLineage EXCEPT !.prefixes = prefixes])
    ELSE NoHdPrivate

HdKey(prefix, key, data) ==
    [prefix |-> prefix, depth |-> key.lineage.depth, parent |-> key.lineage.parent,
     child |-> key.lineage.child, chain |-> key.chain, data |-> data]

hd_public_to_hd_key(key) == HdKey(public_prefix(key.lineage.prefixes), key, key.point)

hd_private_to_hd_key(key) == HdKey(private_prefix(key.lineage.prefixes), key, key.secret)

LineageOf(hd_key, prefixes) ==
    [prefixes |-> prefixes, depth |-> hd_key.depth, parent |-> hd_key.parent, child |-> hd_key.child]

\* Neither reader looks at the checksum.
hd_public_from_key(hd_key, prefix) ==
    IF hd_key.prefix = prefix
    THEN hd_public(hd_key.data, hd_key.chain, LineageOf(hd_key, <<0, prefix>>))
    ELSE NoHdPublic

hd_private_from_key(hd_key, prefixes) ==
    IF hd_key.prefix = private_prefix(prefixes)
    THEN hd_private(hd_key.data, hd_key.chain, LineageOf(hd_key, prefixes))
    ELSE NoHdPrivate

\* Of the readers that are given no private prefix.
hd_private_from_key_any(hd_key, prefix) == hd_private_from_key(hd_key, <<hd_key.prefix, prefix>>)

hd_private_to_public(key) ==
    hd_public_from_key(hd_public_to_hd_key(key), public_prefix(key.lineage.prefixes))

fingerprint(key) == key.point

ChildLineage(key, index) ==
    [key.lineage EXCEPT !.depth = @ + 1, !.parent = fingerprint(key), !.child = index]

\* Fault: the child is made from the secret, as a hardened one.
DeriveAlwaysHardened(key, index) ==
    LET data  == <<0, key.secret, index>>
        child == ec_add(key.secret, Left(data, key.chain)) IN
    IF child = NoSecret \/ key.lineage.depth = MaxDepth THEN NoHdPrivate
    ELSE hd_private(child, Right(data, key.chain), ChildLineage(key, index))

\* The validity of the parent is not looked at.
derive_private(key, index) ==
    LET data  == IF index >= Hardened THEN <<0, key.secret, index>> ELSE <<key.point, index>>
        child == ec_add(key.secret, Left(data, key.chain)) IN
    IF child = NoSecret \/ key.lineage.depth = MaxDepth THEN NoHdPrivate
    ELSE hd_private(child, Right(data, key.chain), ChildLineage(key, index))

derive_public(key, index) ==
    LET data  == <<key.point, index>>
        child == ec_add_point(key.point, Left(data, key.chain)) IN
    IF index >= Hardened \/ child = NoPoint \/ key.lineage.depth = MaxDepth THEN NoHdPublic
    ELSE hd_public(child, Right(data, key.chain), ChildLineage(key, index))

-----------------------------------------------------------------------------
(***************************************************************************)
(* Stealth payments: math/stealth, the address and both of its parties.    *)
(* A filter is a sequence of bits, a prefix of the prefix of a script.     *)
(***************************************************************************)
max_spend_key_count == 2
max_filter_bits     == 2
reuse_key_flag      == 1
stealth_mainnet     == 42

NoStealth == [valid |-> FALSE, version |-> 0, filter |-> <<>>, scan_key |-> NoPoint,
              spend_keys |-> <<>>, signatures |-> 0]

stealth_address(filter, scan_key, spend_keys, signatures, version) ==
    LET spenders == IF spend_keys = <<>> THEN <<scan_key>> ELSE spend_keys IN
    IF Len(spenders) > max_spend_key_count \/ Len(filter) > max_filter_bits THEN NoStealth
    ELSE [valid |-> TRUE, version |-> version, filter |-> filter, scan_key |-> scan_key,
          spend_keys |-> spenders,
          signatures |-> IF signatures \in 1..Len(spenders) THEN signatures ELSE Len(spenders)]

reuse_key(address) == \E i \in DOMAIN address.spend_keys : address.spend_keys[i] = address.scan_key

\* The body: version, options, scan key, number of keys, keys, signatures,
\* number of bits, filter.
stealth_to_chunk(address) ==
    LET reused == IF reuse_key(address) THEN 1 ELSE 0 IN
    Text(<<address.version, reused * reuse_key_flag, address.scan_key,
           Len(address.spend_keys) - reused>>
         \o SelectSeq(address.spend_keys, LAMBDA key : key # address.scan_key)
         \o <<address.signatures, Len(address.filter)>> \o address.filter)

from_stealth(text) ==
    LET body == text.body
        keys == body[4]
        bits == body[6 + keys] IN
    IF ~text.checked \/ Len(body) < 6 THEN NoStealth
    ELSE IF body[2] > reuse_key_flag \/ Len(body) < 6 + keys THEN NoStealth
    ELSE IF bits > max_filter_bits \/ Len(body) # 6 + keys + bits THEN NoStealth
    ELSE stealth_address(
            SubSeq(body, 7 + keys, Len(body)), body[3],
            (IF body[2] = reuse_key_flag THEN <<body[3]>> ELSE <<>>) \o SubSeq(body, 5, 4 + keys),
            body[5 + keys], body[1])

max_ephemeral_nonce == 3

create_ephemeral_key(seed) ==
    LET good == {nonce \in 0..(max_ephemeral_nonce - 1) :
                    /\ verify(SeedSecret(nonce, seed))
                    /\ is_even_key(secret_to_public(SeedSecret(nonce, seed)))} IN
    IF good = {} THEN NoSecret
    ELSE SeedSecret(CHOOSE nonce \in good : \A other \in good : nonce <= other, seed)

NoScript == [pattern |-> "non_standard", data |-> <<>>]

StealthScript(point, nonce) == [pattern |-> "null_data", data |-> <<Unsigned(point), nonce>>]

to_stealth_prefix(script) == ScriptPrefix(script.data[1], script.data[2])

\* The nonces are tried in turn, from the one after the start round to it.
create_stealth_script(secret, filter, start) ==
    LET point == secret_to_public(secret)
        Nonce(i) == (start + i) % (MaxNonce + 1)
        good == {i \in 1..MaxNonce :
                    IsPrefix(filter, to_stealth_prefix(StealthScript(point, Nonce(i))))} IN
    IF point = NoPoint \/ ~is_even_key(point) \/ good = {} THEN NoScript
    ELSE StealthScript(point, Nonce(CHOOSE i \in good : \A j \in good : i <= j))

\* The sign is even by convention.
extract_ephemeral_key(script) == script.data[1]

shared_secret(secret, point) ==
    LET product == ec_multiply(point, secret) IN
    IF product = NoPoint THEN NoSecret ELSE Sha256(product)

\* Fails where the shared secret does: an ec_add of no secret is not reached.
uncover_stealth(point, secret, spend) ==
    IF verify(secret) /\ point # NoPoint THEN ec_add(spend, shared_secret(secret, point)) ELSE 0

stealth_receiver(scan, spend, filter) ==
    IF verify(scan) /\ verify(spend)
    THEN stealth_address(filter, secret_to_public(scan), <<secret_to_public(spend)>>, 0,
                         stealth_mainnet)
    ELSE NoStealth

stealth_sender(address, ephemeral, filter, start, version) ==
    LET point  == secret_to_public(ephemeral)
        public == uncover_stealth(address.scan_key, ephemeral, address.spend_keys[1])
        script == create_stealth_script(ephemeral, filter, start) IN
    IF point = NoPoint \/ Len(address.spend_keys) # 1 THEN [script |-> NoScript, address |-> NoAddress]
    ELSE IF public = NoPoint THEN [script |-> NoScript, address |-> NoAddress]
    ELSE [script  |-> script,
          address |-> IF script = NoScript THEN NoAddress
                      ELSE from_public(ec_public(public, TRUE), version)]

derive_address(scan, spend, point, version) ==
    LET public == uncover_stealth(point, scan, secret_to_public(spend)) IN
    IF public = NoPoint THEN NoAddress ELSE from_public(ec_public(public, TRUE), version)

derive_stealth_private(scan, spend, point) == uncover_stealth(point, scan, spend)

-----------------------------------------------------------------------------
(***************************************************************************)
(* A wallet, and a watcher that was given its public key and the indexes   *)
(* derived since; a payment, or a signature, that one party makes and the  *)
(* other recognises.                                                       *)
(***************************************************************************)
CONSTANTS Chosen, Seeds, Networks, Indexes, Versions, Filters, Messages, MaxPath

VARIABLES
    wallet,     \* hd_private
    watch,      \* hd_public
    path,       \* the indexes derived since the watcher was given its key
    followed,   \* of which it derived so many
    deal        \* what was made for another to recognise

keysVars == <<wallet, watch, path, followed, deal>>

KeysInit ==
    /\ wallet = NoHdPrivate
    /\ watch = NoHdPublic
    /\ path = <<>>
    /\ followed = 0
    /\ deal = <<>>

\* Nothing was made yet: each behaviour follows one wallet, payment or message.
Fresh == ~wallet.valid /\ ~watch.valid /\ path = <<>> /\ deal = <<>>

Create(seed, prefixes) ==
    /\ Fresh
    /\ wallet' = hd_from_seed(seed, prefixes)
    /\ wallet'.valid
    /\ UNCHANGED <<watch, path, followed, deal>>

\* A user derives from a key that tests true.
Derive(index) ==
    /\ wallet.valid /\ Len(path) < MaxPath
    /\ wallet' = derive_private(wallet, index)
    /\ path' = IF watch = NoHdPublic /\ path = <<>> THEN path ELSE Append(path, index)
    /\ UNCHANGED <<watch, followed, deal>>

Export ==
    /\ wallet.valid /\ watch = NoHdPublic /\ path = <<>>
    /\ watch' = hd_private_to_public(wallet)
    /\ UNCHANGED <<wallet, path, followed, deal>>

Follow ==
    /\ watch.valid /\ followed < Len(path)
    /\ watch' = derive_public(watch, path[followed + 1])
    /\ followed' = followed + 1
    /\ UNCHANGED <<wallet, path, deal>>

\* Saved as text and read back, for a network or as it says.
ReloadWallet(prefixes) ==
    /\ wallet.valid
    /\ wallet' = hd_private_from_key(hd_private_to_hd_key(wallet), prefixes)
    /\ wallet'.valid
    /\ UNCHANGED <<watch, path, followed, deal>>

ReadWallet(mainnet) ==
    /\ wallet.valid
    /\ wallet' = hd_private_from_key_any(hd_private_to_hd_key(wallet), mainnet)
    /\ UNCHANGED <<watch, path, followed, deal>>

ReloadWatch ==
    /\ watch.valid
    /\ LET hd_key == hd_public_to_hd_key(watch) IN
       watch' = hd_public_from_key(hd_key, hd_key.prefix)
    /\ UNCHANGED <<wallet, path, followed, deal>>

Send(scan, spend, filter, ephemeral, start, version) ==
    /\ Fresh
    /\ LET address == from_stealth(stealth_to_chunk(stealth_receiver(scan, spend, filter))) IN
       /\ address.valid
       /\ deal' = <<"stealth", scan, spend, version, filter,
                    stealth_sender(address, ephemeral, address.filter, start, version)>>
    /\ UNCHANGED <<wallet, watch, path, followed>>

Sign(secret, address, compress, message) ==
    /\ Fresh /\ verify(secret)
    /\ LET key == decode_wif(encode_wif(ec_private(secret, address, 128, compress)), address) IN
       deal' = <<"message", decode_address(encode_address(from_private(key))), message,
                 sign_message(message, key), public_to_data(to_public(key))>>
    /\ UNCHANGED <<wallet, watch, path, followed>>

KeysNext ==
    \/ \E seed \in Seeds, prefixes \in Networks : Create(seed, prefixes)
    \/ \E index \in Indexes : Derive(index)
    \/ Export
    \/ Follow
    \/ \E prefixes \in Networks : ReloadWallet(prefixes) \/ ReadWallet(public_prefix(prefixes))
    \/ ReloadWatch
    \/ \E scan, spend, ephemeral \in Chosen, filter \in Filters, start \in 0..MaxNonce,
          version \in Versions : Send(scan, spend, filter, ephemeral, start, version)
    \/ \E scan, spend \in Chosen, filter \in Filters, seed \in Seeds, version \in Versions :
          Send(scan, spend, filter, create_ephemeral_key(seed), seed % (MaxNonce + 1), version)
    \/ \E secret \in Secrets, address \in Versions, compress \in BOOLEAN, message \in Messages :
          Sign(secret, address, compress, message)

-----------------------------------------------------------------------------
\* derive_private and derive_public walk the same tree: a watcher that has
\* derived the same indexes holds the wallet's own public key, chain code and
\* lineage, across any saving and reading of either; it fails only with the
\* wallet or where an index is hardened, and never gets past such an index.
WatcherAgrees ==
    /\ watch.valid /\ followed = Len(path) =>
        /\ wallet.valid
        /\ watch.point = secret_to_public(wallet.secret)
        /\ watch.chain = wallet.chain
        /\ [watch.lineage EXCEPT !.prefixes = <<>>] = [wallet.lineage EXCEPT !.prefixes = <<>>]
    /\ watch.valid => \A i \in 1..followed : path[i] < Hardened
    /\ ~watch.valid /\ followed > 0 =>
        \/ path[followed] >= Hardened
        \/ followed = Len(path) /\ ~wallet.valid

\* The receiver of a stealth payment recognises it: the script matches the
\* filter of the address, the key it carries leads derive_address to the
\* address that was paid, and derive_private to a secret of that address.
StealthIsReceived ==
    deal # <<>> /\ deal[1] = "stealth" =>
        LET scan == deal[2]  spend == deal[3]  version == deal[4]  sent == deal[6] IN
        sent.address.valid =>
            LET point == extract_ephemeral_key(sent.script)
                secret == derive_stealth_private(scan, spend, point) IN
            /\ IsPrefix(deal[5], to_stealth_prefix(sent.script))
            /\ derive_address(scan, spend, point, version) = sent.address
            /\ from_private(ec_private(secret, version, 128, TRUE)) = sent.address

\* A message signed with a key that was kept as WIF verifies against the
\* address of the key, as read from its text, and against no other message; an
\* output that pays the key or its hash has that address and no other, and it
\* is among those of the input that spends it.
SignerIsRecognised ==
    deal # <<>> /\ deal[1] = "message" =>
        LET address == deal[2]
            Found(pattern, data) ==
                extract([pattern |-> pattern, data |-> data], address.version, address.version + 1) IN
        /\ \A message \in Messages : verify_message(message, address, deal[4]) <=> message = deal[3]
        /\ Found("pay_key_hash", <<Short(deal[5])>>) = <<address>>
        /\ Found("pay_public_key", <<deal[5]>>) = <<address>>
        /\ Found("sign_key_hash", <<deal[4], deal[5]>>)[1] = address
        /\ Found("pay_script_hash", <<Short(deal[5])>>)
             = Found("sign_script_hash", <<deal[4], deal[5]>>)
=============================================================================
