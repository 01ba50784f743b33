------------------------------ MODULE Deadline ------------------------------
(***************************************************************************)
(* libbitcoin::deadline: a timer that calls a handler when it expires,     *)
(* unless it is stopped or started again.  start and stop hold mutex_ and  *)
(* are one step each.  The asio timer is external: cancelling or expiring  *)
(* completes the wait, which queues handle_timer on the pool; an expired   *)
(* wait can no longer be cancelled, although its handler has not run.      *)
(***************************************************************************)
EXTENDS Naturals, FiniteSets

CONSTANT MaxStarts     \* bound on the calls of start; start n passes handler n

VARIABLES
  waiting,        \* the wait of the timer: handler number, 0 if none
  queued,         \* completed waits, with their codes, queued on the pool
  starts,         \* number of calls of start
  canceled,       \* history: handlers whose wait was cancelled
  fired           \* history: calls of each handler

vars == <<waiting, queued, starts, canceled, fired>>

Handlers == 1..MaxStarts

Init ==
  /\ waiting = 0
  /\ queued = {}
  /\ starts = 0
  /\ canceled = {}
  /\ fired = [h \in Handlers |-> 0]

(* timer_.cancel(): the wait completes with operation_aborted.             *)
Cancel ==
  IF waiting = 0
  THEN UNCHANGED <<queued, canceled>>
  ELSE /\ queued' = queued \cup {<<waiting, "operation_aborted">>}
       /\ canceled' = canceled \cup {waiting}

(* Fault: the pending wait is left alone.                                  *)
StartKeepsWait ==
  /\ starts < MaxStarts
  /\ starts' = starts + 1
  /\ waiting' = starts'
  /\ UNCHANGED <<queued, canceled, fired>>

Start ==
  /\ starts < MaxStarts
  /\ starts' = starts + 1
  /\ Cancel
  /\ waiting' = starts'
  /\ UNCHANGED fired

Stop ==
  /\ Cancel
  /\ waiting' = 0
  /\ UNCHANGED <<starts, fired>>

(* The time has come, or the timer fails.                                  *)
Expire ==
  /\ waiting # 0
  /\ \E ec \in {"success", "failure"} : queued' = queued \cup {<<waiting, ec>>}
  /\ waiting' = 0
  /\ UNCHANGED <<starts, canceled, fired>>

(* handle_timer(), on a thread of the pool.                                *)
HandleTimer(q) ==
  /\ q \in queued
  /\ queued' = queued \ {q}
  /\ fired' = IF q[2] = "operation_aborted" THEN fired ELSE [fired EXCEPT ![q[1]] = @ + 1]
  /\ UNCHANGED <<waiting, starts, canceled>>

Handle == \E q \in queued : HandleTimer(q)

Next == Start \/ Stop \/ Expire \/ Handle

(* Timers expire and the pool runs what is queued.                         *)
FairSpec == Init /\ [][Next]_vars /\ WF_vars(Expire) /\ WF_vars(Handle)

-----------------------------------------------------------------------------
CalledOnce == \A h \in Handlers : fired[h] <= 1

(* "Deadline is guaranteed to call handler exactly once unless             *)
(* canceled/reset" (deadline.cpp): the handler of a start is called, or    *)
(* its wait is cancelled by a stop or by the next start, and never is it   *)
(* called twice, however starts, stops and expiries follow each other.     *)
(* What becomes of the handler of a cancelled wait is left open, for the   *)
(* sources disagree: "If the timer is canceled no call is made"            *)
(* (deadline.cpp, and so handle_timer does), but "Cancel the timer. The    *)
(* handler will be invoked." (deadline.hpp).                               *)
CalledOnceUnlessCanceled ==
  /\ []CalledOnce
  /\ \A h \in Handlers : starts >= h ~> (fired[h] = 1 \/ h \in canceled)

=============================================================================
