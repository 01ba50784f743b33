---------------------------- MODULE MCEncodings -----------------------------
(***************************************************************************)
(* What the library computes from bytes, numbers and text, side by side:   *)
(* the compact form of a proof of work target, the wire and store forms of *)
(* the chain and message classes, scripts, bit sequences, the text of      *)
(* bytes and settings, and URIs.  A behaviour exercises the one that       *)
(* subject names; the others stay as they were.                            *)
(***************************************************************************)
EXTENDS Compact, Spend, Mnemonic

CONSTANT MaxExponent            \* bound on the exponent digit of the bits tried

VARIABLES source, overflowed, big, normal

compactVars == <<source, overflowed, big, normal>>

AllBits == 0..((MaxExponent + 1) * MantissaRange - 1)

ConstructBits(bits) ==
  /\ source' = bits
  /\ overflowed' = ~FromCompact(bits).ok
  /\ big' = FromCompact(bits).big
  /\ normal' = FromBig(FromCompact(bits).big)

ConstructBig(value) ==
  /\ source' = -1
  /\ overflowed' = FALSE
  /\ big' = value
  /\ normal' = FromBig(value)

CompactInit == source = 0 /\ overflowed = FALSE /\ big = 0 /\ normal = 0

CompactNext ==
  \/ \E bits \in AllBits : source = 0 /\ ConstructBits(bits)
  \/ \E value \in 0..(BigRange - 1) : source = 0 /\ ConstructBig(value)
  \/ source = -1 /\ ConstructBits(normal)

-----------------------------------------------------------------------------
(* The script machine.  A behaviour does one of four tasks: it runs the    *)
(* operations of a script one by one, verifies a spend while the rules of  *)
(* soft forks activate, composes a script, or encodes a number.            *)
CONSTANTS
  WideRun,              \* operations of a run that are any of all
  MaxRun,               \* operations of a run
  MaxComposed           \* operations of a composed script

VARIABLES
  task,
  machine, outcome, counter,    \* run: the program, its last error code
  spend, active, verdict,       \* spend: the rules in force, the last result
  scriptBytes, made,            \* script: its bytes, and the operations they came from
  operand                       \* number

machineVars ==
  <<task, machine, outcome, counter, spend, active, verdict, scriptBytes, made, operand>>

Tx == [version |-> 2, locktime |-> <<100, 0, 0, 0, 0>>, sequence |-> <<10, 0, 0, 0, 0>>]

-----------------------------------------------------------------------------
(* Running.  The script is whatever operations are chosen.  No endorsement *)
(* here is valid, so the script code of a signature does not matter.       *)

Sig == <<48, 1, 1, 1, 1, 1, 1, 1, 1>>
LaxSig == <<49, 1, 1, 1, 1, 1, 1, 1, 1>>

Pushes == {Push(data, TRUE) : data \in {<<>>, <<1>>, <<2>>, <<129>>, <<0, 128>>, Sig}}

AnyOp ==
  Pushes \cup {[code |-> code, data |-> <<>>, valid |-> TRUE] : code \in 80..187}
         \cup {Push(Zeros(MaxPushSize), FALSE),
               [code |-> push_one_size, data |-> Zeros(MaxPushSize + 1), valid |-> TRUE]}

FlowOp ==
  {Op(name) : name \in {"if_", "notif", "else_", "endif", "toaltstack", "fromaltstack", "dup3",
                        "checkmultisig"}}
  \cup {Push(<<>>, TRUE), Push(<<1>>, TRUE)}

InitialStacks ==
  {<<>>, <<<<1>>>>, <<<<>>, <<0, 128>>>>, <<<<5>>, Sig, <<2>>>>, <<<<>>, <<>>, <<2>>, <<1>>>>,
   <<LaxSig, <<129>>, <<1>>, <<0, 1>>, <<3>>>>,
   <<<<>>, Sig, <<1>>, <<2, 7>>, <<3, 7>>, <<2>>>>}

Execute(op) ==
  /\ task = "run" /\ outcome = "success" /\ counter <= MaxRun
  /\ \E result \in {Iterate(machine, op, counter)} :
       machine' = result.p /\ outcome' = result.ec
  /\ counter' = counter + 1
  /\ UNCHANGED <<task, spend, active, verdict, scriptBytes, made, operand>>

Run == \E op \in (IF counter <= WideRun THEN AnyOp ELSE FlowOp) : Execute(op)

-----------------------------------------------------------------------------
(* Spending.                                                               *)

Key(n) == <<2>> \o Zeros(31) \o <<n>>
Bytes(ops) == operations_to_data(ops)
PushAll(stack) == [i \in 1..Len(stack) |-> Push(stack[i], TRUE)]

(* The endorsement of a script code by a key, in strict or lax DER.        *)
Endorse(der, n, code, version) ==
  <<der>> \o SignatureBody(Key(n), signature_hash(version, 1, code)) \o <<1>>

KeyHash(n) == HashOf("hash160", Key(n))
PayKey == Bytes(to_pay_public_key_pattern(Key(1)))
PayKeyHash == Bytes(to_pay_key_hash_pattern(KeyHash(1)))
PayMultisig == Bytes(to_pay_multisig_pattern(1, <<Key(1), Key(2)>>))
Timed == Bytes(<<Push(<<100>>, TRUE), Op("checklocktimeverify"), Push(<<7>>, TRUE),
                 Op("checksequenceverify"), Op("drop")>>)
Late == Bytes(<<Push(<<101>>, TRUE), Op("checklocktimeverify")>>)
Unlocked == Bytes(<<Push(<<>>, TRUE), Op("checklocktimeverify")>>)
Sequenced == Bytes(<<Push(<<11>>, TRUE), Op("checksequenceverify")>>)
Separated == Bytes(<<Push(Key(2), TRUE), Op("checksig"), Op("verify"), Op("codeseparator"),
                     Push(Key(1), TRUE), Op("checksig")>>)
NotSigned == Bytes(<<Push(Key(1), TRUE), Op("checksig"), Op("not_")>>)
NotMultisig == Bytes(<<OpNumber(1), Push(Key(1), TRUE), OpNumber(1), Op("checkmultisig"),
                       Op("not_")>>)

ScriptHash(script) == Bytes(to_pay_script_hash_pattern(HashOf("hash160", script)))
WitnessKeyHash == Bytes(<<Push(<<>>, TRUE), Push(KeyHash(1), TRUE)>>)
WitnessScriptHash(script) == Bytes(<<Push(<<>>, TRUE), Push(sha256_hash(script), TRUE)>>)
Reserved == Bytes(<<OpNumber(1), Push(<<7, 7>>, TRUE)>>)

Prevouts ==
  {PayKey, PayKeyHash, PayMultisig, Timed, Late, Unlocked, Sequenced, NotSigned, NotMultisig,
   Separated, ScriptHash(PayMultisig), ScriptHash(Late), ScriptHash(WitnessKeyHash), WitnessKeyHash,
   WitnessScriptHash(PayMultisig), WitnessScriptHash(Late), Reserved}

Tail2 == Bytes(<<Push(Key(1), TRUE), Op("checksig")>>)

(* What is pushed before the output script runs.                           *)
Stacks ==
  {<<>>, <<<<1>>>>, <<<<100>>>>,
   <<Endorse(48, 1, PayKey, "unversioned")>>, <<Endorse(49, 1, PayKey, "unversioned")>>,
   <<Endorse(48, 1, PayKeyHash, "unversioned"), Key(1)>>,
   <<Endorse(48, 1, PayKeyHash, "zero"), Key(1)>>,
   <<<<>>, Endorse(48, 2, PayMultisig, "unversioned")>>,
   <<<<1>>, Endorse(48, 1, PayMultisig, "unversioned")>>,
   <<<<>>, Endorse(48, 1, PayMultisig, "zero")>>,
   <<<<>>, Endorse(49, 2, PayMultisig, "unversioned")>>,
   <<Endorse(48, 1, Tail2, "unversioned"), Endorse(48, 2, Separated, "unversioned")>>,
   <<<<>>, Endorse(49, 1, PayKey, "unversioned")>>,
   <<<<1>>, <<>>>>}

(* What is pushed before an embedded script.                               *)
RedeemStacks ==
  {<<>>, <<<<1>>>>, <<<<>>, Endorse(48, 2, PayMultisig, "unversioned")>>,
   <<<<1>>, Endorse(48, 1, PayMultisig, "unversioned")>>,
   <<<<>>, Endorse(49, 2, PayMultisig, "unversioned")>>}

Inputs ==
  {Bytes(PushAll(stack)) : stack \in Stacks}
  \cup {Bytes(PushAll(stack \o <<redeem>>)) :
          stack \in RedeemStacks, redeem \in {PayMultisig, Late, WitnessKeyHash}}
  \cup {Bytes(<<OpNumber(1), Op("nop"), Push(Late, TRUE)>>)}

Witnesses ==
  {<<>>, <<<<>>, Endorse(48, 1, PayMultisig, "zero"), PayMultisig>>,
   <<Endorse(48, 1, PayKeyHash, "zero"), Key(1)>>, <<<<1>>, Late>>}

(* Outputs whose spends come with a witness, wanted or not.                *)
Witnessed ==
  {PayKey, ScriptHash(PayMultisig), ScriptHash(WitnessKeyHash), WitnessKeyHash,
   WitnessScriptHash(PayMultisig), WitnessScriptHash(Late), Reserved}

Spends ==
  {s \in [input : Inputs, witness : Witnesses, prevout : Prevouts] :
     s.witness = <<>> \/ s.prevout \in Witnessed}

Groups == {{"bip16"}, {"bip65"}, {"bip66"}, {"bip112"}, {"bip141", "bip143", "bip147"}}

(* Without bip141 transactions have no witness.                            *)
Outcome(result) ==
  [ec |-> result.ec, breach |-> result.p.breach, refused |-> result.p.refused]

Verdict(s, forks) ==
  Outcome(verify(Tx, forks, s.input, IF "bip141" \in forks THEN s.witness ELSE <<>>, s.prevout))

(* The spend is verified without any of the rules, and again whenever some *)
(* activate.  bip141 presupposes bip16, for programs that are embedded in  *)
(* a script.                                                               *)
Activate(group) ==
  /\ task = "spend"
  /\ IF verdict.ec = "pending" THEN group = {} ELSE ~(group \subseteq active)
  /\ "bip141" \in group => "bip16" \in active
  /\ active' = active \cup group
  /\ verdict' = Verdict(spend, active')
  /\ UNCHANGED <<task, machine, outcome, counter, spend, scriptBytes, made, operand>>

-----------------------------------------------------------------------------
(* Composing scripts, and cutting one short; numbers.                      *)

Coded(code, data) == [code |-> code, data |-> data, valid |-> TRUE]

(* Pushes of the same data by different opcodes, a push whose data has the *)
(* bytes of another push, and operations without data.                     *)
Composable ==
  {Push(Sig, FALSE), Coded(push_one_size, Sig), Coded(push_two_size, <<5>>),
   Push(<<5>>, FALSE), Push(<<5>>, TRUE), Push(OpData(Push(Sig, FALSE)), FALSE),
   Push(Zeros(76), FALSE), Push(Key(1), FALSE), Push(<<>>, FALSE), Op("dup"),
   Op("checksig"), Coded(push_four_size, <<>>), Coded(push_negative_1, <<>>)}

(* The scripts built for each output pattern, with the pattern.            *)
Built ==
  {<<"null_data", to_null_data_pattern(data)>> : data \in {<<>>, <<17>>, <<5, 5>>, Zeros(80)}}
  \cup {<<"pay_public_key", to_pay_public_key_pattern(Key(1))>>,
        <<"pay_key_hash", to_pay_key_hash_pattern(KeyHash(1))>>,
        <<"pay_script_hash", to_pay_script_hash_pattern(KeyHash(2))>>}
  \cup {<<"pay_multisig", to_pay_multisig_pattern(m, <<Key(1), Key(2)>>)>> : m \in 1..2}

(* Endorsements: none, short, one with a push of its own in a push, one    *)
(* pushed by push_one_size, and one above the push limit.                  *)
Targets == {<<>>, <<5>>, Sig, Zeros(76), Zeros(MaxPushSize + 1)}

Whole == [pattern |-> "any", ops |-> <<>>, cut |-> FALSE]

(* The first operation is of any code.                                     *)
ComposableFirst == Composable \cup {Coded(code, <<>>) : code \in push_one_size..187}

Compose(op) ==
  /\ task = "script" /\ ~made.cut /\ made.pattern = "any" /\ Len(made.ops) < MaxComposed
  /\ made' = [made EXCEPT !.ops = Append(@, op)]
  /\ scriptBytes' = Bytes(made'.ops)
  /\ UNCHANGED <<task, machine, outcome, counter, spend, active, verdict, operand>>

Build(pattern_ops) ==
  /\ task = "script" /\ made = Whole
  /\ made' = [pattern |-> pattern_ops[1], ops |-> pattern_ops[2], cut |-> FALSE]
  /\ scriptBytes' = Bytes(made'.ops)
  /\ UNCHANGED <<task, machine, outcome, counter, spend, active, verdict, operand>>

Cut ==
  /\ task = "script" /\ scriptBytes # <<>> /\ ~made.cut
  /\ made' = [made EXCEPT !.cut = TRUE]
  /\ scriptBytes' = Front(scriptBytes)
  /\ UNCHANGED <<task, machine, outcome, counter, spend, active, verdict, operand>>

Powers == {0, 1, 127, 128, 255, 256, 32767, 32768, 65535, 65536, 8388607, 8388608, 16777215,
           16777216, 2147483647}
Numbers == Powers \cup {-n : n \in Powers}

Count(n) ==
  /\ task = "number" /\ n # operand
  /\ operand' = n
  /\ UNCHANGED <<task, machine, outcome, counter, spend, active, verdict, scriptBytes, made>>

-----------------------------------------------------------------------------
AllRules == UNION Groups

Pending == [ec |-> "pending", breach |-> FALSE, refused |-> FALSE]

NoSpend == [input |-> <<>>, witness |-> <<>>, prevout |-> <<>>]

Start(t, p, s) ==
  /\ task = t /\ machine = p /\ spend = s
  /\ outcome = "success" /\ counter = 1
  /\ active = {} /\ verdict = Pending
  /\ scriptBytes = <<>> /\ made = Whole
  /\ operand = 0

Fresh(forks, stack) == Program(<<>>, Tx, forks, stack, "unversioned")

MachineInit ==
  \/ \E forks \in {{}, AllRules}, stack \in InitialStacks : Start("run", Fresh(forks, stack), NoSpend)
  \/ \E s \in Spends : Start("spend", Fresh({}, <<>>), s)
  \/ \E t \in {"script", "number"} : Start(t, Fresh({}, <<>>), NoSpend)

MachineNext ==
  \/ Run
  \/ \E group \in Groups \cup {{}} : Activate(group)
  \/ \E op \in (IF made.ops = <<>> THEN ComposableFirst ELSE Composable) : Compose(op)
  \/ \E pattern_ops \in Built : Build(pattern_ops)
  \/ Cut
  \/ \E n \in Numbers : Count(n)

MachineSpec == MachineInit /\ [][MachineNext]_machineVars

-----------------------------------------------------------------------------
(* program: no BITCOIN_ASSERT of a stack fails (the guard of every         *)
(* operation covers what it takes, and the embedded script of a p2sh input *)
(* is there to be popped); negative_count_, on which it depends whether an *)
(* operation is executed, is the number of failed enclosing branches; and  *)
(* the stacks are within max_stack_size after every operation.             *)
ProgramIsSound ==
  /\ ~machine.breach /\ ~verdict.breach
  /\ machine.negative_count =
       Cardinality({i \in 1..Len(machine.condition) : ~machine.condition[i]})
  /\ outcome = "success" => Size(machine) + Len(machine.alternate) <= MaxStackSize

(* rule_fork calls bip16, bip65, bip66, bip112 and the bip9 bit one group  *)
(* soft forks: a spend that is valid with more of the rules is valid with  *)
(* fewer.  Left out are spends in which op_check_multisig turned a refusal *)
(* by bip147 into a false, which the script may go on to negate.           *)
SoftForksOnlyRestrict ==
  [][verdict'.ec = "success" /\ ~verdict'.refused => verdict.ec \in {"success", "pending"}]_machineVars

ScriptsReadBack ==
  LET ops == operations(scriptBytes)
  IN  /\ ~made.cut => /\ ops = made.ops
                      /\ ops_serialized_size(ops) = Len(scriptBytes)
                      /\ made.pattern # "any" => pattern(ops) = made.pattern
      /\ is_valid_operations(ops) => operations_to_data(ops) = scriptBytes

TextInverts ==
  made.cut \/ /\ script_from_string(script_to_string(made.ops, {})) = made.ops
              /\ \A ops \in {made.ops, config_script} : read_script(write_script(ops)) = {ops}

NumberInverts ==
  LET data == DataOf(operand)
  IN  /\ NumberOf(data) = operand
      /\ operand # 0 => Last(data) % 128 # 0 \/ (Len(data) > 1 /\ data[Len(data) - 1] >= 128)

FindAndDeleteFilters ==
  \A target \in Targets \ {<<>>} :
    LET ops == operations(scriptBytes)
        parsed == SelectSeq(ops, LAMBDA op : op.valid)
        kept == SelectSeq(parsed, LAMBDA op : OpData(op) # OpData(Push(target, FALSE)))
    IN  /\ find_and_delete(scriptBytes, <<target>>) =
             operations_to_data(kept)
               \o SubSeq(scriptBytes, ops_serialized_size(parsed) + 1, Len(scriptBytes))
        /\ find_and_delete(scriptBytes, <<<<>>, target>>) = find_and_delete(scriptBytes, <<target>>)

(* operations() reads back what operations_to_data wrote, of the size that *)
(* serialized_size gives; bytes that parse are written back as they were;  *)
(* a script built for an output pattern has that pattern when it is read;  *)
(* from_string reads back what to_string wrote under any rules; and        *)
(* number.data() is the shortest data that set_data reads as the number.   *)
(* find_and_delete removes the operations that are encoded as the nominal  *)
(* push of the endorsement, all of them and whole: neither data of another *)
(* push nor another encoding of the same data.  For an endorsement above   *)
(* the push limit the encoding is that of an operation that was reset, so  *)
(* that it is the disabled_xor of the script that go.  The comment above   *)
(* find_and_delete_ in script.cpp says more can go: "The comparison and    *)
(* erase are not limited to a single operation and so can erase arbitrary  *)
(* upstream data from the script."  On these scripts it cannot: a match    *)
(* begins where an operation does, and is then that operation.             *)
EncodingInverts ==
  /\ task = "script" => ScriptsReadBack /\ TextInverts /\ FindAndDeleteFilters
  /\ task = "number" => NumberInverts

-----------------------------------------------------------------------------
CONSTANTS Bch, Limit, Versions, CutVersions     \* of MCCodec

VARIABLES className, medium, protocol, sent, written, progress, readProtocol, received,
  leftover

messageVars ==
  <<className, medium, protocol, sent, written, progress, readProtocol, received, leftover>>

Message == INSTANCE MCCodec

CONSTANTS bits_per_block, MaxBits               \* of Binary

VARIABLES packed, bits

Bit == INSTANCE Binary WITH Operands <- UNION {[1..n -> {0, 1}] : n \in 0..4}

CONSTANTS HashSize, SodiumSize, MaxEndorsement, MaxUint, Order, MaxTyped, ByteValues, MaxBytes

VARIABLES typed, typing, blob

(* "a1", "F", "0", "2", ":", "=" and "11".                                 *)
MCTokens == {<<97, 49>>, <<70>>, <<48>>, <<50>>, <<58>>, <<45>>, <<61>>, <<49, 49>>}

MCsha256_byte(data) == (7 * FoldLeft(LAMBDA sum, byte : (3 * sum + byte) % 256, 5, data) + 11) % 256

Word == INSTANCE Config WITH Tokens <- MCTokens, sha256_byte <- MCsha256_byte

CONSTANTS Amounts, Places, MaxAmount            \* of Uri

VARIABLES uri, meant, request, wanted

(* Parts with characters that end a part or begin an escape; requests with *)
(* an address or none, labels, fractions, required parameters, an          *)
(* authority, broken escapes, and characters above 127 as they are and     *)
(* escaped.                                                                *)
MCParts == {<<>>, <<97>>, <<47, 63>>, <<37, 52>>, <<35, 38>>, <<227, 97>>}
MCPaths == {<<>>, <<47>>, <<47, 37, 52, 49>>, <<63, 35>>, <<47, 47>>, <<97>>}
MCAddresses == {<<49, 97>>, <<50, 97>>}
MCLabels == {<<>>, <<97>>, <<38, 61, 97>>, <<37, 52, 49, 32>>, <<227, 131>>}
MCamount == <<58, 63, 97, 109, 111, 117, 110, 116, 61>>
MCTails ==
  {<<>>, <<58>>, <<58, 49, 97>>, <<58, 47, 47, 49, 97>>, <<58, 49, 97, 63, 114, 61, 49>>,
   <<58, 49, 97, 35>>, MCamount \o <<49, 46, 53>>, MCamount \o <<49, 46, 53, 53, 53>>,
   <<58, 63, 114, 101, 113, 45, 97>>, <<58, 63, 114, 38, 114, 61, 50, 38>>, <<58, 63, 37>>,
   <<58, 63, 114, 61, 37, 69, 51>>, <<58, 63, 114, 61, 227>>}

Link == INSTANCE Uri WITH Parts <- MCParts, Paths <- MCPaths, Addresses <- MCAddresses,
                          Labels <- MCLabels, Tails <- MCTails

-----------------------------------------------------------------------------
VARIABLE subject

allVars ==
  <<subject, compactVars, messageVars, machineVars, packed, bits, typed, typing, blob,
    uri, meant, request, wanted>>

MessageIdle == Message!Start("verack", CHOOSE v \in Versions : TRUE, "stream")
ScriptIdle == Start("number", Fresh({}, <<>>), NoSpend)

EncodingsInit ==
  /\ subject \in {"compact", "message", "script", "binary", "text", "uri"}
  /\ CompactInit /\ Bit!BinaryInit /\ Word!TextInit /\ Link!UriInit
  /\ IF subject = "message" THEN Message!Init ELSE MessageIdle
  /\ IF subject = "script" THEN MachineInit ELSE ScriptIdle

CompactStep ==
  /\ subject = "compact" /\ CompactNext
  /\ UNCHANGED <<subject, messageVars, machineVars, packed, bits, typed, typing, blob,
                 uri, meant, request, wanted>>

MessageStep ==
  /\ subject = "message" /\ Message!Next
  /\ UNCHANGED <<subject, compactVars, machineVars, packed, bits, typed, typing, blob,
                 uri, meant, request, wanted>>

ScriptStep ==
  /\ subject = "script" /\ MachineNext
  /\ UNCHANGED <<subject, compactVars, messageVars, packed, bits, typed, typing, blob,
                 uri, meant, request, wanted>>

BinaryStep ==
  /\ subject = "binary" /\ Bit!BinaryNext
  /\ UNCHANGED <<subject, compactVars, messageVars, machineVars, typed, typing, blob,
                 uri, meant, request, wanted>>

TextStep ==
  /\ subject = "text" /\ Word!TextNext
  /\ UNCHANGED <<subject, compactVars, messageVars, machineVars, packed, bits,
                 uri, meant, request, wanted>>

UriStep ==
  /\ subject = "uri" /\ Link!UriNext
  /\ UNCHANGED <<subject, compactVars, messageVars, machineVars, packed, bits, typed, typing, blob>>

EncodingsNext == CompactStep \/ MessageStep \/ ScriptStep \/ BinaryStep \/ TextStep \/ UriStep

EncodingsSpec == EncodingsInit /\ [][EncodingsNext]_allVars

-----------------------------------------------------------------------------
OverflowIsExact ==
  source >= 0 =>
    (overflowed <=> /\ ~IsNegated(source)
                    /\ source \div MantissaRange > 3
                    /\ (source % SignBit) * Radix^(source \div MantissaRange - 3) >= BigRange)

Canonical ==
  /\ ~IsNegated(normal)
  /\ FromCompact(normal).ok
  /\ FromBig(FromCompact(normal).big) = normal

LosesLittle ==
  LET back == FromCompact(normal).big
  IN  /\ source >= 0 => back = big
      /\ back <= big
      /\ (big - back) * Radix < big \/ back = big

Monotone == big + 1 < BigRange => normal <= FromBig(big + 1)

(* More work never comes from a larger target (header::proof).             *)
Antitone == big + 1 < BigRange => Proof(FromBig(big + 1)) <= Proof(normal)

(* compact: is_overflowed is set for the bits whose mantissa, shifted by   *)
(* the exponent, does not fit a uint256_t, and for no others.  normal() is *)
(* canonical: never negative nor overflowed, and read back it has the same *)
(* normal form.  A target that came from bits survives it; any other loses *)
(* less than one unit of its third digit and never grows, so that          *)
(* work_required never demands less than was computed.  Normal forms       *)
(* compare as their targets do, and the proofs of header::proof the other  *)
(* way round.                                                              *)
CompactIsFaithful ==
  subject = "compact" => OverflowIsExact /\ Canonical /\ LosesLittle /\ Monotone /\ Antitone

(* to_data, serialized_size and from_data: what is written has the size    *)
(* announced and is read back, every member, with nothing left over.       *)
RoundTrip == subject = "message" => Message!RoundTrip

(* from_data: what is cut short, too large or too new for the version is   *)
(* refused, and nothing of it stays in the object that read it.            *)
PartialIsRefused == subject = "message" => Message!PartialIsRefused

(* binary: packing into blocks loses nothing.  After any sequence of calls *)
(* an object has the bits that the same calls give on a plain sequence,    *)
(* none set outside of them, and is a prefix of exactly the fields whose   *)
(* bits, with zeros after them unless there are none, begin with its own.  *)
BinaryIsBits == subject = "binary" => Bit!BinaryIsBits

(* The formats, config classes, mnemonic words, cashaddr, uri and          *)
(* bitcoin_uri: what is written as text is read back as it was, in a uri   *)
(* the parts of characters below 128; a value that was read from text is   *)
(* written as text that reads the same; and the checksums notice a changed *)
(* character.                                                              *)
TextReadsBack ==
  /\ subject = "text" => Word!TextReadsBack
  /\ subject = "uri" => Link!UriSaysWhatIsMeant

=============================================================================
