------------------------------- MODULE Machine -------------------------------
(***************************************************************************)
(* machine::program and machine::interpreter: the evaluation of a script.  *)
(*                                                                         *)
(* A program is a record of its registers.  Stacks grow at the end of the  *)
(* sequence.  An operation yields the program after it and its error code. *)
(* What a failed operation leaves of the program is not used again, except *)
(* by op_check_sig and op_check_multisig, which go on after a failed       *)
(* verification: there the partial effects are kept.                       *)
(*                                                                         *)
(* breach records that a BITCOIN_ASSERT of program failed: an item taken   *)
(* from a stack that does not have it.  refused is a history variable: the *)
(* bip147 rule was applied and its failure became a false on the stack.    *)
(***************************************************************************)
EXTENDS Script, FiniteSets

CONSTANTS
  MaxStackSize,         \* max_stack_size
  MaxCountedOps,        \* max_counted_ops
  MaxKeys               \* max_script_public_keys

(* program(): its registers, without a transaction.                        *)
Registers ==
  [script |-> <<>>, tx |-> <<>>, forks |-> {}, version |-> "unversioned",
   primary |-> <<>>, alternate |-> <<>>, condition |-> <<>>, negative_count |-> 0,
   operation_count |-> 0, jump |-> 1, breach |-> FALSE, refused |-> FALSE]

(* program(script, tx, input_index, forks), which starts with no items,    *)
(* and the constructors that take over a stack: "Condition, alternate,     *)
(* jump and operation_count are not copied".  tx has the members that      *)
(* evaluation reads.                                                       *)
Program(script, tx, forks, stack, version) ==
  [Registers EXCEPT !.script = script, !.tx = tx, !.forks = forks, !.version = version,
                    !.primary = stack]

Continue(p, script, stack, version) ==
  [Program(script, p.tx, p.forks, stack, version)
   EXCEPT !.breach = p.breach, !.refused = p.refused]

-----------------------------------------------------------------------------
(* Registers.                                                              *)

Size(p) == Len(p.primary)

Item(p, index) == p.primary[Size(p) - index]

PushItem(p, item) == [p EXCEPT !.primary = Append(@, item)]

PushBool(p, value) == PushItem(p, IF value THEN <<1>> ELSE <<>>)

(* pop(), count times: "This must be guarded".                             *)
Pop(p, count) ==
  IF Size(p) < count THEN [p EXCEPT !.breach = TRUE]
  ELSE [p EXCEPT !.primary = SubSeq(@, 1, Size(p) - count)]

(* pop(number&, size): the item is gone even if it is no number.           *)
PopNumber(p) ==
  IF Size(p) = 0 THEN [p |-> p, ok |-> FALSE, v |-> number]
  ELSE [p |-> Pop(p, 1), ok |-> Len(Item(p, 0)) <= 4,
        v |-> IF Len(Item(p, 0)) <= 4 THEN NumberOf(Item(p, 0)) ELSE number]

(* stack_to_bool: some byte is not zero, other than a final sign.          *)
ToBool(item) ==
  \E i \in 1..Len(item) : item[i] # 0 /\ ~(i = Len(item) /\ item[i] = 128)

stack_result(p, clean) == Size(p) > 0 /\ (clean => Size(p) = 1) /\ ToBool(Item(p, 0))

succeeded(p) == p.negative_count = 0

(* Fault: the count is left as it was when a failed branch is opened.      *)
OpenUncounted(p, value) ==
  [p EXCEPT !.negative_count = @ + (IF value \/ @ > 0 THEN 0 ELSE 1),
            !.condition = Append(@, value)]

open(p, value) ==
  [p EXCEPT !.negative_count = @ + (IF value THEN 0 ELSE 1),
            !.condition = Append(@, value)]

negate(p) ==
  IF p.condition = <<>> THEN [p EXCEPT !.breach = TRUE]
  ELSE LET top == Len(p.condition)
       IN  [p EXCEPT !.negative_count = @ + (IF p.condition[top] THEN 1 ELSE -1),
                     !.condition[top] = ~@]

close(p) ==
  IF p.condition = <<>> THEN [p EXCEPT !.breach = TRUE]
  ELSE LET top == Len(p.condition)
       IN  [p EXCEPT !.negative_count = @ + (IF p.condition[top] THEN 0 ELSE -1),
                     !.condition = SubSeq(@, 1, top - 1)]

Ok(p) == [p |-> p, ec |-> "success"]
Fail(p, ec) == [p |-> p, ec |-> ec]

-----------------------------------------------------------------------------
(* Operations on the stacks and conditions.                                *)

(* Operations that only rearrange: the size tested, the number of items on *)
(* top that are taken, and where the items put in their place come from.   *)
Shuffles ==
  [drop2 |-> <<2, 2, <<>>>>,                 dup2 |-> <<2, 2, <<1, 2, 1, 2>>>>,
   dup3 |-> <<3, 3, <<1, 2, 3, 1, 2, 3>>>>,  over2 |-> <<4, 4, <<1, 2, 3, 4, 1, 2>>>>,
   rot2 |-> <<6, 6, <<3, 4, 5, 6, 1, 2>>>>,  swap2 |-> <<4, 4, <<3, 4, 1, 2>>>>,
   drop |-> <<1, 1, <<>>>>,                  dup |-> <<1, 1, <<1, 1>>>>,
   nip |-> <<2, 2, <<2>>>>,                  over |-> <<2, 2, <<1, 2, 1>>>>,
   rot |-> <<3, 3, <<2, 3, 1>>>>,            swap |-> <<2, 2, <<2, 1>>>>,
   tuck |-> <<2, 2, <<2, 1, 2>>>>]

op_shuffle(p, name) ==
  LET tested == Shuffles[name][1]
      taken == Shuffles[name][2]
      moves == Shuffles[name][3]
      below == Size(p) - taken
  IN  IF Size(p) < tested THEN Fail(p, name)
      ELSE IF below < 0 THEN Ok(Pop(p, taken))
      ELSE Ok([p EXCEPT !.primary = SubSeq(@, 1, below)
                          \o [i \in 1..Len(moves) |-> @[below + moves[i]]]])

(* op_if and op_notif: in a failed branch the condition is not taken.      *)
op_if(p, name) ==
  IF ~succeeded(p) THEN Ok(open(p, FALSE))
  ELSE IF Size(p) = 0 THEN Fail(p, name)
  ELSE Ok(open(Pop(p, 1), ToBool(Item(p, 0)) = (name = "if_")))

op_else(p) == IF p.condition = <<>> THEN Fail(p, "op_else") ELSE Ok(negate(p))
op_endif(p) == IF p.condition = <<>> THEN Fail(p, "op_endif") ELSE Ok(close(p))

op_verify(p) ==
  IF Size(p) = 0 THEN Fail(p, "op_verify1")
  ELSE IF ~ToBool(Item(p, 0)) THEN Fail(p, "op_verify2") ELSE Ok(Pop(p, 1))

op_to_alt_stack(p) ==
  IF Size(p) = 0 THEN Fail(p, "op_to_alt_stack")
  ELSE Ok([Pop(p, 1) EXCEPT !.alternate = Append(@, Item(p, 0))])

op_from_alt_stack(p) ==
  LET top == Len(p.alternate)
  IN  IF top = 0 THEN Fail(p, "op_from_alt_stack")
      ELSE Ok([PushItem(p, p.alternate[top]) EXCEPT !.alternate = SubSeq(@, 1, top - 1)])

op_if_dup(p) ==
  IF Size(p) = 0 THEN Fail(p, "op_if_dup")
  ELSE Ok(IF ToBool(Item(p, 0)) THEN PushItem(p, Item(p, 0)) ELSE p)

op_depth(p) == Ok(PushItem(p, DataOf(Size(p))))

op_size(p) ==
  IF Size(p) = 0 THEN Fail(p, "op_size") ELSE Ok(PushItem(p, DataOf(Len(Item(p, 0)))))

(* op_pick and op_roll, with pop_position: the index counts from the item  *)
(* below the popped one.                                                   *)
PickAt(p, index, roll) ==
  LET item == Item(p, index)
      below == IF roll THEN [p EXCEPT !.primary = RemoveAt(@, Size(p) - index)] ELSE p
  IN  Ok(PushItem(below, item))

PickPopped(n, roll) ==
  IF ~n.ok \/ n.v < 0 \/ n.v >= Size(n.p) THEN Fail(n.p, "op_pick")
  ELSE PickAt(n.p, n.v, roll)

op_pick(p, roll) == PickPopped(PopNumber(p), roll)

op_equal(p) ==
  IF Size(p) < 2 THEN Fail(p, "op_equal")
  ELSE Ok(PushBool(Pop(p, 2), Item(p, 0) = Item(p, 1)))

op_equal_verify(p) ==
  IF Size(p) < 2 THEN Fail(p, "op_equal_verify1")
  ELSE IF Item(p, 0) = Item(p, 1) THEN Ok(Pop(p, 2)) ELSE Fail(p, "op_equal_verify2")

-----------------------------------------------------------------------------
(* Arithmetic.  first is the popped top, second what was below it.         *)

Truth(value) == IF value THEN <<1>> ELSE <<>>

Unary(name, n) ==
  CASE name = "add1" -> DataOf(n + 1)
    [] name = "sub1" -> DataOf(n - 1)
    [] name = "negate" -> DataOf(-n)
    [] name = "abs" -> DataOf(IF n < 0 THEN -n ELSE n)
    [] name = "not_" -> Truth(n = 0)
    [] name = "nonzero" -> Truth(n # 0)

(* The comparisons of number.                                              *)
Compared(name, left, right) ==
  CASE name \in {"numequal", "numequalverify"} -> left = right
    [] name = "numnotequal" -> left # right
    [] name = "lessthan" -> left < right
    [] name = "greaterthan" -> left > right
    [] name = "lessthanorequal" -> left <= right
    [] name = "greaterthanorequal" -> left >= right

Binary(name, first, second) ==
  CASE name = "add" -> DataOf(first + second)
    [] name = "sub" -> DataOf(second - first)
    [] name = "booland" -> Truth(first # 0 /\ second # 0)
    [] name = "boolor" -> Truth(first # 0 \/ second # 0)
    [] name = "min" -> DataOf(IF second < first THEN second ELSE first)
    [] name = "max" -> DataOf(IF second > first THEN second ELSE first)
    [] OTHER -> Truth(Compared(name, second, first))

UnaryNames == {"add1", "sub1", "negate", "abs", "not_", "nonzero"}

BinaryNames ==
  {"add", "sub", "booland", "boolor", "numequal", "numequalverify", "numnotequal", "lessthan",
   "greaterthan", "lessthanorequal", "greaterthanorequal", "min", "max"}

UnaryOf(n, name) == IF ~n.ok THEN Fail(n.p, name) ELSE Ok(PushItem(n.p, Unary(name, n.v)))

op_unary(p, name) == UnaryOf(PopNumber(p), name)

BinaryOf(first, second, name) ==
  IF ~first.ok \/ ~second.ok THEN Fail(second.p, name)
  ELSE IF name # "numequalverify"
       THEN Ok(PushItem(second.p, Binary(name, first.v, second.v)))
  ELSE IF first.v = second.v THEN Ok(second.p) ELSE Fail(second.p, "op_num_equal_verify2")

SecondOf(first, name) == BinaryOf(first, PopNumber(first.p), name)

op_binary(p, name) == SecondOf(PopNumber(p), name)

Within(upper, lower, value) ==
  IF ~upper.ok \/ ~lower.ok \/ ~value.ok THEN Fail(value.p, "op_within")
  ELSE Ok(PushBool(value.p, lower.v <= value.v /\ value.v < upper.v))

WithinLower(upper, lower) == Within(upper, lower, PopNumber(lower.p))

WithinUpper(upper) == WithinLower(upper, PopNumber(upper.p))

op_within(p) == WithinUpper(PopNumber(p))

-----------------------------------------------------------------------------
(* Digests (hash.cpp) and signatures (elliptic_curve.cpp), their           *)
(* arithmetic left out.  A digest is a function of the algorithm and the   *)
(* data; distinct data of the models have distinct ones.                   *)
(* A signature in strict DER begins with 48, one that only the lax parser  *)
(* takes with 49, and nothing else parses.                                 *)

Digest(algorithm, size, data) ==
  LET Mix[from, to \in 1..Len(data)] ==
        LET middle == (from + to) \div 2
        IN  IF from = to THEN data[from] + 1
            ELSE (Mix[from, middle] * 31 + Mix[middle + 1, to] * 257 + algorithm) % 65521
      sum == IF data = <<>> THEN algorithm ELSE Mix[1, Len(data)]
  IN  [i \in 1..size |-> (sum * i + sum \div 256 + algorithm) % 256]

sha256_hash(data) == Digest(3, 32, data)

HashOf(name, data) ==
  CASE name = "ripemd160" -> Digest(1, 20, data)
    [] name = "sha1" -> Digest(2, 20, data)
    [] name = "sha256" -> sha256_hash(data)
    [] name = "hash160" -> Digest(1, 20, sha256_hash(data))
    [] name = "hash256" -> sha256_hash(sha256_hash(data))

HashNames == {"ripemd160", "sha1", "sha256", "hash160", "hash256"}

op_hash(p, name) ==
  IF Size(p) = 0 THEN Fail(p, name) ELSE Ok(PushItem(Pop(p, 1), HashOf(name, Item(p, 0))))

parse_signature(der, strict) == der # <<>> /\ (der[1] = 48 \/ (~strict /\ der[1] = 49))

SignatureBody(key, hash) == Digest(5, 7, key \o hash)

verify_signature(key, hash, der) == Tail(der) = SignatureBody(key, hash)

(* generate_signature_hash, of the one transaction of the models: what it  *)
(* covers of the transaction is left out, the input index is valid.        *)
(* Unversioned scripts are hashed without their code separators.           *)
signature_hash(version, sighash, code) ==
  LET stripped ==
        SelectSeq(operations(code), LAMBDA op : op.code # Code("codeseparator"))
  IN  Digest(7, 32, <<sighash>> \o IF version = "unversioned"
                                   THEN <<0>> \o operations_to_data(stripped)
                                   ELSE <<1>> \o code)

check_signature(der, sighash, key, code, version) ==
  key # <<>> /\ verify_signature(key, signature_hash(version, sighash, code), der)

(* subscript(), stripped of the endorsements unless bip143 applies.        *)
ScriptCode(p, endorsements) ==
  LET code == operations_to_data(SubSeq(p.script, p.jump, Len(p.script)))
  IN  IF "bip143" \in p.forks /\ p.version = "zero" THEN code
      ELSE find_and_delete(code, endorsements)

SignedVersion(p) == IF "bip143" \in p.forks THEN p.version ELSE "unversioned"

(* parse_endorsement and parse_signature; "success" if both succeed.       *)
ParseError(p, endorsement) ==
  IF endorsement = <<>> THEN "invalid_signature_encoding"
  ELSE IF parse_signature(Front(endorsement), "bip66" \in p.forks) THEN "success"
  ELSE IF "bip66" \in p.forks THEN "invalid_signature_lax_encoding"
  ELSE "invalid_signature_encoding"

(* Does key sign code, with the sighash type at the end of endorsement?    *)
Signs(p, endorsement, key, code) ==
  check_signature(Front(endorsement), Last(endorsement), key, code, SignedVersion(p))

SignatureError(p, endorsement, key) ==
  IF ParseError(p, endorsement) # "success" THEN ParseError(p, endorsement)
  ELSE IF Signs(p, endorsement, key, ScriptCode(p, <<endorsement>>)) THEN "success"
  ELSE "incorrect_signature"

op_check_sig_verify(p) ==
  IF Size(p) < 2 THEN Fail(p, "op_check_sig_verify1")
  ELSE [p |-> Pop(p, 2), ec |-> SignatureError(p, Item(p, 1), Item(p, 0))]

(* op_check_sig and op_check_multisig: "only lax encoding fails the        *)
(* operation", any other failure of the verification is a false.           *)
PushVerified(result, error) ==
  IF result.ec = "invalid_signature_lax_encoding" THEN Fail(result.p, error)
  ELSE Ok([PushBool(result.p, result.ec = "success")
           EXCEPT !.refused = @ \/ result.ec = "op_check_multisig_verify8"])

Checked(name, result) ==
  CASE name = "checksig" -> PushVerified(result, "op_check_sig")
    [] name = "checkmultisig" -> PushVerified(result, "op_check_multisig")
    [] OTHER -> result

(* The keys in order: each endorsement is tried with the key that matched  *)
(* the one before it, then with the later ones.                            *)
Matched(acc, error, signers) ==
  IF error # "success" THEN [acc EXCEPT !.ec = error]
  ELSE IF signers = {} THEN [acc EXCEPT !.ec = "incorrect_signature"]
  ELSE [acc EXCEPT !.key = Min(signers)]

MatchSignatures(p, endorsements, keys, code) ==
  LET Signers(key, endorsement) ==
        {k \in key..Len(keys) : Signs(p, endorsement, keys[k], code)}
      Match(acc, endorsement) ==
        IF acc.ec # "success" THEN acc
        ELSE Matched(acc, ParseError(p, endorsement), Signers(acc.key, endorsement))
  IN  FoldLeft(Match, [key |-> 1, ec |-> "success"], endorsements).ec

(* The count topmost items, the top first.                                 *)
TopItems(p, count) == [i \in 1..count |-> Item(p, i - 1)]

(* op_check_multisig_verify, in the order in which it takes the stack      *)
(* apart: the number of keys n and the keys, the number of endorsements m  *)
(* and the endorsements, and one item more.                                *)
MultisigCode(p, endorsements, keys) ==
  [p |-> p, ec |-> MatchSignatures(p, endorsements, keys, ScriptCode(p, endorsements))]

MultisigExtra(p, endorsements, keys) ==
  IF Size(p) = 0 THEN Fail(p, "op_check_multisig_verify7")
  ELSE IF Item(p, 0) # <<>> /\ "bip147" \in p.forks
       THEN Fail(Pop(p, 1), "op_check_multisig_verify8")
  ELSE MultisigCode(Pop(p, 1), endorsements, keys)

MultisigEndorsements(m, keys) ==
  IF ~m.ok THEN Fail(m.p, "op_check_multisig_verify4")
  ELSE IF m.v \notin 0..Len(keys) THEN Fail(m.p, "op_check_multisig_verify5")
  ELSE IF Size(m.p) < m.v THEN Fail(m.p, "op_check_multisig_verify6")
  ELSE MultisigExtra(Pop(m.p, m.v), TopItems(m.p, m.v), keys)

MultisigKeys(n) ==
  LET counted == [n.p EXCEPT !.operation_count = @ + n.v]
  IN  IF ~n.ok THEN Fail(n.p, "op_check_multisig_verify1")
      ELSE IF n.v \notin 0..MaxKeys THEN Fail(n.p, "op_check_multisig_verify2")
      ELSE IF counted.operation_count > MaxCountedOps
           THEN Fail(counted, "op_check_multisig_verify2")
      ELSE IF Size(counted) < n.v THEN Fail(counted, "op_check_multisig_verify3")
      ELSE MultisigEndorsements(PopNumber(Pop(counted, n.v)), TopItems(counted, n.v))

op_check_multisig_verify(p) == MultisigKeys(PopNumber(p))

-----------------------------------------------------------------------------
(* Lock times.  Numbers of five bytes, and the locktime and sequence of    *)
(* the transaction, are sequences of five bytes, the least significant     *)
(* first.                                                                  *)

Magnitude(data) ==
  [i \in 1..5 |-> IF i > Len(data) THEN 0 ELSE IF i = Len(data) THEN data[i] % 128 ELSE data[i]]

Below(a, b) == \E i \in 1..5 : a[i] < b[i] /\ \A j \in (i + 1)..5 : a[j] = b[j]

locktime_threshold == <<0, 101, 205, 29, 0>>        \* 500000000
max_input_sequence == <<255, 255, 255, 255, 0>>

Bit31(a) == a[4] >= 128                             \* relative_locktime_disabled
Bit22(a) == (a[3] \div 64) % 2 = 1                  \* relative_locktime_time_locked
Masked(a) == a[1] + 256 * a[2]                      \* relative_locktime_mask

(* Fault: the lock time is taken from the stack.                           *)
LocktimePops(p) ==
  IF "bip65" \notin p.forks THEN Ok(p)
  ELSE IF Size(p) = 0 \/ Len(Item(p, 0)) > 5 \/ Below(p.tx.locktime, Magnitude(Item(p, 0)))
       THEN Fail(p, "op_check_locktime_verify3")
  ELSE Ok(Pop(p, 1))

op_check_locktime_verify(p) ==
  LET top == Item(p, 0)
      locktime == Magnitude(top)
  IN  IF "bip65" \notin p.forks THEN Ok(p)
      ELSE IF p.tx.sequence = max_input_sequence THEN Fail(p, "op_check_locktime_verify2")
      ELSE IF Size(p) = 0 \/ Len(top) > 5 THEN Fail(p, "op_check_locktime_verify3")
      ELSE IF IsNegative(top) /\ locktime # Zeros(5)
           THEN Fail(p, "op_check_locktime_verify4")
      ELSE IF Below(locktime, locktime_threshold) # Below(p.tx.locktime, locktime_threshold)
           THEN Fail(p, "op_check_locktime_verify5")
      ELSE IF Below(p.tx.locktime, locktime) THEN Fail(p, "op_check_locktime_verify6")
      ELSE Ok(p)

op_check_sequence_verify(p) ==
  LET top == Item(p, 0)
      sequence == Magnitude(top)
  IN  IF "bip112" \notin p.forks THEN Ok(p)
      ELSE IF Size(p) = 0 \/ Len(top) > 5 THEN Fail(p, "op_check_sequence_verify2")
      ELSE IF IsNegative(top) /\ sequence # Zeros(5)
           THEN Fail(p, "op_check_sequence_verify3")
      ELSE IF Bit31(sequence) THEN Ok(p)
      ELSE IF p.tx.version < 2 THEN Fail(p, "op_check_sequence_verify4")
      ELSE IF Bit31(p.tx.sequence) THEN Fail(p, "op_check_sequence_verify5")
      ELSE IF Bit22(sequence) # Bit22(p.tx.sequence)
           THEN Fail(p, "op_check_sequence_verify6")
      ELSE IF Masked(sequence) > Masked(p.tx.sequence)
           THEN Fail(p, "op_check_sequence_verify7")
      ELSE Ok(p)

-----------------------------------------------------------------------------
(* run_op.                                                                 *)

PushLimit(code) ==
  CASE code <= push_size_75 -> push_size_75
    [] code = push_one_size -> 255
    [] code = push_two_size -> 65535
    [] code = push_four_size -> 2147483647          \* max_uint32

op_push(p, op) ==
  CASE op.code = reserved_80 -> Fail(p, "op_reserved")
    [] op.code = push_negative_1 -> Ok(PushItem(p, <<129>>))
    [] is_positive(op.code) -> Ok(PushItem(p, <<op.code - push_positive_1 + 1>>))
    [] OTHER -> IF Len(op.data) > PushLimit(op.code) THEN Fail(p, "op_push_data")
                ELSE Ok(PushItem(p, op.data))

(* The operation at position i of the script.  First those that compute.   *)
run_computation(p, op, i) ==
  LET name == Name(op.code)
  IN  CASE name \in UnaryNames -> op_unary(p, name)
        [] name \in BinaryNames -> op_binary(p, name)
        [] name = "within" -> op_within(p)
        [] name \in HashNames -> op_hash(p, name)
        [] name = "codeseparator" -> Ok([p EXCEPT !.jump = i + 1])
        [] name \in {"checksig", "checksigverify"} -> Checked(name, op_check_sig_verify(p))
        [] name \in {"checkmultisig", "checkmultisigverify"} ->
             Checked(name, op_check_multisig_verify(p))
        [] name = "checklocktimeverify" -> op_check_locktime_verify(p)
        [] name = "checksequenceverify" -> op_check_sequence_verify(p)
        [] name \in {"nop", "nop1", "nop4", "nop5", "nop6", "nop7", "nop8", "nop9", "nop10"} ->
             Ok(p)
        [] is_disabled(op.code) -> Fail(p, "op_disabled")
        [] OTHER -> Fail(p, "op_reserved")

run_op(p, op, i) ==
  LET name == Name(op.code)
  IN  CASE name = "push" -> op_push(p, op)
        [] name \in {"if_", "notif"} -> op_if(p, name)
        [] name = "else_" -> op_else(p)
        [] name = "endif" -> op_endif(p)
        [] name = "verify" -> op_verify(p)
        [] name = "return_" -> Fail(p, "op_return")
        [] name = "toaltstack" -> op_to_alt_stack(p)
        [] name = "fromaltstack" -> op_from_alt_stack(p)
        [] name \in DOMAIN Shuffles -> op_shuffle(p, name)
        [] name = "ifdup" -> op_if_dup(p)
        [] name = "depth" -> op_depth(p)
        [] name \in {"pick", "roll"} -> op_pick(p, name = "roll")
        [] name = "size" -> op_size(p)
        [] name = "equal" -> op_equal(p)
        [] name = "equalverify" -> op_equal_verify(p)
        [] OTHER -> run_computation(p, op, i)

is_stack_overflow(p) == Size(p) + Len(p.alternate) > MaxStackSize

(* The end of the body: the stacks have grown too much.                    *)
Limited(result) ==
  IF result.ec = "success" /\ is_stack_overflow(result.p)
  THEN Fail(result.p, "invalid_stack_size") ELSE result

(* The body of the loop of interpreter::run.                               *)
Iterate(p, op, i) ==
  LET q == [p EXCEPT !.operation_count = @ + (IF is_counted(op.code) THEN 1 ELSE 0)]
  IN  IF is_oversized(op) THEN Fail(p, "invalid_push_data_size")
      ELSE IF is_disabled(op.code) THEN Fail(p, "op_disabled")
      ELSE IF q.operation_count > MaxCountedOps THEN Fail(q, "invalid_operation_count")
      ELSE IF ~is_conditional(op.code) /\ ~succeeded(q) THEN Ok(q)
      ELSE Limited(run_op(q, op, i))

Closed(result) ==
  IF result.ec = "success" /\ result.p.condition # <<>>
  THEN Fail(result.p, "invalid_stack_scope") ELSE result

(* evaluate(), of a program whose script has so many bytes: operations run *)
(* until one fails.                                                        *)
After(result, op, i) == IF result.ec # "success" THEN result ELSE Iterate(result.p, op, i)

evaluate(p, bytes) ==
  LET Ran[i \in 0..Len(p.script)] ==
        IF i = 0 THEN Ok(p) ELSE After(Ran[i - 1], p.script[i], i)
  IN  IF ~is_valid_operations(p.script) \/ is_unspendable(p.script, bytes)
      THEN Fail(p, "invalid_script")
      ELSE Closed(Ran[Len(p.script)])

=============================================================================
