------------------------------- MODULE Spend --------------------------------
(***************************************************************************)
(* script::verify and witness::verify: whether the input script and        *)
(* witness of an input satisfy the script of the output it spends.         *)
(*                                                                         *)
(* Scripts are bytes, a witness is a stack of items.  Every result is the  *)
(* error code with the last program evaluated.                             *)
(***************************************************************************)
EXTENDS Machine

(* script::version and script::witness_program.                            *)
script_version(ops) ==
  IF ~is_witness_program_pattern(ops) THEN "unversioned"
  ELSE IF ops[1].code = 0 THEN "zero" ELSE "reserved"

witness_program(ops) == ops[2].data

is_push_size(stack) == \A i \in 1..Len(stack) : Len(stack[i]) <= MaxPushSize

(* extract_embedded_script, of a program of version zero.                  *)
extract_embedded_script(witness, program_ops) ==
  LET program == witness_program(program_ops)
      key_hash == operations_to_data(to_pay_key_hash_pattern(program))
      none == [ok |-> FALSE, script |-> <<>>, stack |-> <<>>]
  IN  IF Len(program) = 20
      THEN IF Len(witness) # 2 \/ ~is_push_size(witness) THEN none
           ELSE [ok |-> TRUE, script |-> key_hash, stack |-> witness]
      ELSE IF Len(program) # 32 \/ witness = <<>> THEN none
      ELSE [ok |-> is_push_size(Front(witness)) /\ sha256_hash(Last(witness)) = program,
            script |-> Last(witness), stack |-> Front(witness)]

is_pay_to_witness(ops, forks) == "bip141" \in forks /\ is_witness_program_pattern(ops)
is_pay_to_script_hash(ops, forks) == "bip16" \in forks /\ is_pay_script_hash_pattern(ops)

-----------------------------------------------------------------------------
(* A verification evaluates up to four scripts, one after the other.  It   *)
(* is a record of the script under evaluation, its program and size, of    *)
(* what the later ones depend on, and in the end of the result.            *)

Done(s, result) == [s EXCEPT !.phase = "done", !.result = result]

(* script is next, in a program that takes over from p.                    *)
Enter(s, phase, p, script, stack, version) ==
  [s EXCEPT !.phase = phase, !.size = Len(script),
            !.program = Continue(p, operations(script), stack, version)]

(* witness::verify, up to the evaluation.                                  *)
witness_verify(s, p, program_ops) ==
  LET version == script_version(program_ops)
      extracted == extract_embedded_script(s.witness, program_ops)
  IN  IF version = "reserved" THEN Done(s, Ok(p))
      ELSE IF version = "unversioned" THEN Done(s, Fail(p, "operation_failed"))
      ELSE IF ~extracted.ok THEN Done(s, Fail(p, "invalid_witness"))
      ELSE Enter(s, "witness", p, extracted.script, extracted.stack, version)

(* The embedded script of p2sh is the top item that the input script left. *)
VerifyEmbedded(s) ==
  LET popped == Pop(s.input, 1)
  IN  IF ~is_relaxed_push_only(s.input.script)
      THEN Done(s, Fail(s.input, "invalid_script_embed"))
      ELSE IF popped.breach THEN Done(s, Fail(popped, "assertion"))
      ELSE Enter(s, "embedded", popped, Item(s.input, 0), popped.primary, "unversioned")

(* p2sh and p2w are mutually exclusive.                                    *)
AfterPrevout(s, p) ==
  LET ops == s.program.script
  IN  IF is_pay_to_witness(ops, p.forks)
      THEN IF s.input.script # <<>> THEN Done(s, Fail(p, "dirty_witness"))
           ELSE witness_verify(s, p, ops)
      ELSE IF is_pay_to_script_hash(ops, p.forks) THEN VerifyEmbedded(s)
      ELSE IF s.witness # <<>> THEN Done(s, Fail(p, "unexpected_witness"))
      ELSE Done(s, Ok(p))

AfterEmbedded(s, p) ==
  LET ops == s.program.script
  IN  IF is_pay_to_witness(ops, p.forks)
      THEN IF Len(s.input.script) # 1 THEN Done(s, Fail(p, "dirty_witness"))
           ELSE witness_verify(s, p, ops)
      ELSE IF s.witness # <<>> THEN Done(s, Fail(p, "unexpected_witness"))
      ELSE Done(s, Ok(p))

(* Every script but the input's must leave a true, and the witness script  *)
(* nothing else.                                                           *)
AfterEvaluate(s, result) ==
  IF result.ec # "success" THEN Done(s, result)
  ELSE IF s.phase # "input" /\ ~stack_result(result.p, s.phase = "witness")
       THEN Done(s, Fail(result.p, "stack_false"))
  ELSE CASE s.phase = "input" ->
              Enter([s EXCEPT !.input = result.p], "prevout", result.p, s.prevout,
                    result.p.primary, "unversioned")
         [] s.phase = "prevout" -> AfterPrevout(s, result.p)
         [] s.phase = "embedded" -> AfterEmbedded(s, result.p)
         [] s.phase = "witness" -> Done(s, result)

Advance(s) == IF s.phase = "done" THEN s ELSE AfterEvaluate(s, evaluate(s.program, s.size))

(* script::verify.                                                         *)
verify(tx, forks, input_script, witness, prevout_script) ==
  LET input == Program(operations(input_script), tx, forks, <<>>, "unversioned")
      Stage[i \in 0..4] ==
        IF i > 0 THEN Advance(Stage[i - 1])
        ELSE [phase |-> "input", program |-> input, size |-> Len(input_script),
              input |-> input, witness |-> witness, prevout |-> prevout_script,
              result |-> Ok(input)]
  IN  Stage[4].result

=============================================================================
