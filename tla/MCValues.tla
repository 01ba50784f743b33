------------------------------ MODULE MCValues ------------------------------
(***************************************************************************)
(* The value of the coins and of the objects, side by side: a chain and    *)
(* its pool (Ledger), a wallet's payment (Payment), its keys (Keys and     *)
(* EncryptedKeys), and objects of the value classes in the hands of a      *)
(* caller (Objects).  A behaviour exercises the one that subject names;    *)
(* the others stay as they were.                                           *)
(***************************************************************************)
EXTENDS MCLedger, EncryptedKeys

CONSTANTS Names, Values, Blank, MaxCalls, MaxPlainCalls     \* of Objects

VARIABLES class, object, meant, careful, calls

objectVars == <<class, object, meant, careful, calls>>

Thing == INSTANCE Objects

CONSTANTS Minimums, SignTypes, Dusts, MaxInputs, MaxOutputs, MaxEdits     \* of Payment

VARIABLES purse, asked, option, picked, draft, kept, inPlace, held, edits, phase

paymentVars == <<purse, asked, option, picked, draft, kept, inPlace, held, edits, phase>>

Pay == INSTANCE Payment WITH Worth <- <<1, 2, 4>>

-----------------------------------------------------------------------------
(* Stand-ins for the hash functions, which mix what they are given, and    *)
(* for AES: for each key a permutation of the blocks.                      *)
MCLeft(data, key) == (data[1] * 3 + data[Len(data)] * 2 + key + Len(data)) % (SecretMax + 1)
MCRight(data, key) == (data[1] + data[Len(data)] + 2 * key) % 3
MCSha256(point) == (point * 5 + 1) % (SecretMax + 1)
MCSeedSecret(nonce, seed) == (nonce * 4 + seed * 3) % (SecretMax + 1)
MCScriptPrefix(data, nonce) == <<(data + nonce) % 2, (data * nonce) % 2>>

Mix(seq) == (FoldLeft(LAMBDA acc, x : (acc * 5 + x + 3) % 4093, 7, seq) \div 3) % 256
SaltMix(salt) ==
  salt.hash.short.point * 2 + salt.version + (IF salt.hash.short.compress THEN 1 ELSE 0)
Eight(n) == [i \in 1..8 |-> (n \div 2^(8 - i)) % 2]
MCHash(seq) == Mix(seq) % 16
MCScryptToken(passphrase, salt) == Mix(<<passphrase>> \o salt) % 16
MCScryptPair(point, salt, entropy) == Eight(Mix(<<point, SaltMix(salt)>> \o entropy))
MCScryptPrivate(passphrase, salt) == Eight(Mix(<<passphrase, SaltMix(salt)>>))

CipherBlock(n) == <<(n \div 2) % 2, n % 2>>
MCEncrypt(key, block) == CipherBlock((3 * (2 * block[1] + block[2]) + Value(key)) % 4)
MCDecrypt(key, block) == CipherBlock((3 * (2 * block[1] + block[2] + 16 - Value(key))) % 4)

MCNetworks == {<<1, 2>>, <<3, 4>>}
MCFilters == {<<>>, <<1>>, <<0, 1>>}
MCKeySeeds == {<<a, b, c>> : a, b, c \in 0..1}

-----------------------------------------------------------------------------
(* Names and values of objects are interchangeable.                        *)
MCSymmetry == Permutations(Names) \cup Permutations(Values)

VARIABLE subject

allVars == <<subject, vars, keysVars, objectVars, paymentVars>>

ObjectsIdle ==
  /\ class = "ping" /\ object = [x \in Names |-> 0] /\ meant = object
  /\ careful = [x \in Names |-> FALSE] /\ calls = 0

PaymentIdle ==
  /\ purse = <<>> /\ asked = 0 /\ option = "greedy" /\ picked = <<>>
  /\ draft = Pay!BlankTransaction /\ kept = Pay!NoHashes /\ inPlace = FALSE
  /\ held = Pay!NoEndorsement /\ edits = 0 /\ phase = "idle"

ValuesInit ==
  /\ subject \in {"chain", "keys", "object", "payment"}
  /\ IF subject = "chain" THEN Init ELSE chain = <<>> /\ forks = {}
  /\ KeysInit
  /\ IF subject = "object" THEN Thing!ObjectsInit ELSE ObjectsIdle
  /\ IF subject = "payment" THEN Pay!Init ELSE PaymentIdle

ChainStep ==
  subject = "chain" /\ Next /\ UNCHANGED <<subject, keysVars, objectVars, paymentVars>>

KeysStep ==
  /\ subject = "keys" /\ (KeysNext \/ EncryptedNext)
  /\ UNCHANGED <<subject, vars, objectVars, paymentVars>>

ObjectStep ==
  subject = "object" /\ Thing!ObjectsNext /\ UNCHANGED <<subject, vars, keysVars, paymentVars>>

PaymentStep ==
  subject = "payment" /\ Pay!Next /\ UNCHANGED <<subject, vars, keysVars, objectVars>>

ValuesNext == ChainStep \/ KeysStep \/ ObjectStep \/ PaymentStep

ValuesSpec == ValuesInit /\ [][ValuesNext]_allVars

-----------------------------------------------------------------------------
(* A wallet's counterparts follow its keys: a watcher derives the same     *)
(* public keys, the receiver of a stealth payment finds it and can spend   *)
(* it, and a signed message or a script leads to the address of the key    *)
(* (WatcherAgrees, StealthIsReceived and SignerIsRecognised of Keys).      *)
KeysAreFollowed == WatcherAgrees /\ StealthIsReceived /\ SignerIsRecognised

(* In the hands of a careful caller an object of every class is what its   *)
(* value is, by whatever mix of copies, moves, assignments and setters;    *)
(* what it keeps is what it would compute (ActsAsItsValue of Objects).     *)
ActsAsItsValue == subject = "object" => Thing!ActsAsItsValue

(* An endorsement checks out exactly while what its sighash type protects  *)
(* is as it was signed, for whoever has the transaction from its bytes, or *)
(* as an object that was not edited in place past the hashes it keeps      *)
(* (EndorsementCovers of Payment).                                         *)
EndorsementCovers == Pay!EndorsementCovers

(* The selected outputs are the fewest that hold the amount, and a token   *)
(* payment over them pays out the coin's worth less the fee                *)
(* (SelectionIsFewest and TokenPaymentBalances of Payment).                *)
PaymentsBalance == Pay!SelectionIsFewest /\ Pay!TokenPaymentBalances

=============================================================================
