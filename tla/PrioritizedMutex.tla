-------------------------- MODULE PrioritizedMutex --------------------------
(***************************************************************************)
(* libbitcoin::prioritized_mutex: one resource (data_mutex_) that clients  *)
(* of high priority reach past the queue of clients of low priority, by    *)
(* two further mutexes.  A client runs the script of lock_..., its         *)
(* critical section and the script of unlock_...; every lock and unlock is *)
(* one step, so the scripts of all clients interleave.                     *)
(***************************************************************************)
EXTENDS Naturals, Sequences, FiniteSets

CONSTANTS
  Low, High,      \* clients of each priority
  Nobody,         \* not a client: the mutex is free
  MaxRounds       \* bound on the rounds of each client

Clients == Low \cup High

VARIABLES
  prioritize,     \* prioritize_, fixed by the constructor
  owner,          \* of the three mutexes
  script,         \* what each client has still to do in this round
  rounds          \* rounds each client has begun

vars == <<prioritize, owner, script, rounds>>

lock(m) == <<[op |-> "lock", on |-> m]>>
unlock(m) == <<[op |-> "unlock", on |-> m]>>
critical == <<[op |-> "run", on |-> "data"]>>
If(condition, instructions) == IF condition THEN instructions ELSE <<>>

(* Fault: the data is taken before its turn.                               *)
lock_low_reversed ==
  If(prioritize, lock("wait")) \o lock("data") \o If(prioritize, lock("next"))

lock_low_priority ==
  If(prioritize, lock("wait") \o lock("next")) \o lock("data")

unlock_low_priority ==
  If(prioritize, unlock("next")) \o unlock("data") \o If(prioritize, unlock("wait"))

lock_high_priority ==
  If(prioritize, lock("next")) \o lock("data") \o If(prioritize, unlock("next"))

unlock_high_priority == unlock("data")

Init ==
  /\ prioritize \in BOOLEAN
  /\ owner = [m \in {"data", "next", "wait"} |-> Nobody]
  /\ script = [c \in Clients |-> <<>>]
  /\ rounds = [c \in Clients |-> 0]

Begin(c) ==
  /\ script[c] = <<>>
  /\ rounds[c] < MaxRounds
  /\ rounds' = [rounds EXCEPT ![c] = @ + 1]
  /\ script' = [script EXCEPT ![c] =
       IF c \in Low THEN lock_low_priority \o critical \o unlock_low_priority
                    ELSE lock_high_priority \o critical \o unlock_high_priority]
  /\ UNCHANGED <<prioritize, owner>>

At(c, op) == script[c] # <<>> /\ Head(script[c]).op = op

Lock(c) ==
  /\ At(c, "lock")
  /\ owner[Head(script[c]).on] = Nobody
  /\ owner' = [owner EXCEPT ![Head(script[c]).on] = c]
  /\ script' = [script EXCEPT ![c] = Tail(@)]
  /\ UNCHANGED <<prioritize, rounds>>

Unlock(c) ==
  /\ At(c, "unlock")
  /\ owner' = [owner EXCEPT ![Head(script[c]).on] = Nobody]
  /\ script' = [script EXCEPT ![c] = Tail(@)]
  /\ UNCHANGED <<prioritize, rounds>>

Run(c) ==
  /\ At(c, "run")
  /\ script' = [script EXCEPT ![c] = Tail(@)]
  /\ UNCHANGED <<prioritize, owner, rounds>>

Step(c) == Lock(c) \/ Unlock(c) \/ Run(c)

Next == \E c \in Clients : Begin(c) \/ Step(c)

(* Every client runs; the mutexes are not assumed to be fair.              *)
FairSpec == Init /\ [][Next]_vars /\ \A c \in Clients : WF_vars(Step(c))

-----------------------------------------------------------------------------
(* Once a client of high priority has next_mutex_, no client of low        *)
(* priority takes the data before it.                                      *)
LowNeverOvertakes ==
  [][\A h \in High, l \in Low :
       owner["next"] = h /\ owner'["data"] = l => owner["data"] = l]_vars

(* Every client gets through: the three mutexes are never taken in a       *)
(* circle.                                                                 *)
EveryRoundEnds == \A c \in Clients : script[c] # <<>> ~> script[c] = <<>>

=============================================================================
