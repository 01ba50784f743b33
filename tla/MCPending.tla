----------------------------- MODULE MCPending ------------------------------
(* Pending with elements 1 and 2 of the same address.                      *)
EXTENDS Pending

MCKeyOf == [e \in Elements |-> IF e = 2 THEN 1 ELSE e]

=============================================================================
