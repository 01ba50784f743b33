--------------------------- MODULE SerialExecutor ---------------------------
(***************************************************************************)
(* What a sequencer promises its clients: submitted operations run one at  *)
(* a time, each to completion, in the order in which they were submitted.  *)
(* The state is only the submission order, what began, and how much ended. *)
(***************************************************************************)
EXTENDS Naturals, Sequences

CONSTANT Ops    \* the operations clients may submit

VARIABLES
  order,        \* the operations submitted so far, in submission order
  begun,        \* the operations that began, in the order they began
  ended         \* how many of them have ended

vars == <<order, begun, ended>>

Init ==
  /\ order = <<>>
  /\ begun = <<>>
  /\ ended = 0

Submit(op) ==
  /\ \A i \in DOMAIN order : order[i] # op
  /\ order' = Append(order, op)
  /\ UNCHANGED <<begun, ended>>

Begin ==
  /\ Len(begun) = ended
  /\ Len(begun) < Len(order)
  /\ begun' = Append(begun, order[Len(begun) + 1])
  /\ UNCHANGED <<order, ended>>

End ==
  /\ ended < Len(begun)
  /\ ended' = ended + 1
  /\ UNCHANGED <<order, begun>>

Next == (\E op \in Ops : Submit(op)) \/ Begin \/ End

Spec == Init /\ [][Next]_vars

=============================================================================
