----------------------------- MODULE Sequencer ------------------------------
(***************************************************************************)
(* libbitcoin::sequencer: serialises asynchronous operations.  lock()      *)
(* either posts the operation's handler to the io_service or queues it     *)
(* behind the operation that executes; the completion of an operation      *)
(* calls unlock(), which posts the next queued handler.                    *)
(*                                                                         *)
(* Both methods decide under mutex_ and post after releasing it, so each   *)
(* is two steps here: between them other threads lock, unlock and run.     *)
(* The handler a thread carries from its critical section to its post is   *)
(* in phase "posting" (lock) or "handoff" (unlock).                        *)
(***************************************************************************)
EXTENDS Naturals, Sequences

CONSTANT Ops      \* asynchronous operations, each locked once by its client

VARIABLES
  executing,      \* executing_
  actions,        \* actions_, the FIFO of handlers waiting for unlock
  phase,          \* where the handler of each operation is
  order,          \* history: operations in the order lock() admitted them
  started         \* history: operations in the order they began to run

vars == <<executing, actions, phase, order, started>>

Phases == {"new", "posting", "queued", "handoff", "posted", "running", "done"}

Init ==
  /\ executing = FALSE
  /\ actions = <<>>
  /\ phase = [op \in Ops |-> "new"]
  /\ order = <<>>
  /\ started = <<>>

(* Fault: the sequence is taken without testing executing_.                *)
LockUntested(op) ==
  /\ phase[op] = "new"
  /\ order' = Append(order, op)
  /\ executing' = TRUE
  /\ phase' = [phase EXCEPT ![op] = "posting"]
  /\ UNCHANGED <<actions, started>>

(* lock(), under mutex_: queue the handler or take the sequence.           *)
Lock(op) ==
  /\ phase[op] = "new"
  /\ order' = Append(order, op)
  /\ \/ /\ executing
        /\ actions' = Append(actions, op)
        /\ phase' = [phase EXCEPT ![op] = "queued"]
        /\ UNCHANGED executing
     \/ /\ ~executing
        /\ executing' = TRUE
        /\ phase' = [phase EXCEPT ![op] = "posting"]
        /\ UNCHANGED actions
  /\ UNCHANGED started

(* The post that ends lock() or unlock(), outside mutex_.                  *)
Post(op) ==
  /\ phase[op] \in {"posting", "handoff"}
  /\ phase' = [phase EXCEPT ![op] = "posted"]
  /\ UNCHANGED <<executing, actions, order, started>>

(* A thread of the pool takes the handler from the io_service.  What it    *)
(* starts is asynchronous: it runs until its completion calls unlock().    *)
Run(op) ==
  /\ phase[op] = "posted"
  /\ phase' = [phase EXCEPT ![op] = "running"]
  /\ started' = Append(started, op)
  /\ UNCHANGED <<executing, actions, order>>

(* Fault: executing_ is cleared although a handler is waiting.             *)
UnlockForgetsQueue(op) ==
  /\ phase[op] = "running"
  /\ executing' = FALSE
  /\ phase' = [phase EXCEPT ![op] = "done"]
  /\ UNCHANGED <<actions, order, started>>

(* unlock(), under mutex_, called once by the completion of op.            *)
Unlock(op) ==
  /\ phase[op] = "running"
  /\ \/ /\ actions = <<>>
        /\ executing' = FALSE
        /\ phase' = [phase EXCEPT ![op] = "done"]
        /\ UNCHANGED actions
     \/ /\ actions # <<>>
        /\ executing' = TRUE
        /\ actions' = Tail(actions)
        /\ phase' = [phase EXCEPT ![op] = "done", ![Head(actions)] = "handoff"]
  /\ UNCHANGED <<order, started>>

Next == \E op \in Ops : Lock(op) \/ Post(op) \/ Run(op) \/ Unlock(op)

Spec == Init /\ [][Next]_vars

(* A thread that entered lock() or unlock() leaves it, the pool runs what  *)
(* is posted and every operation completes; nobody has to call lock().     *)
Fairness == \A op \in Ops : WF_vars(Post(op) \/ Run(op) \/ Unlock(op))

FairSpec == Spec /\ Fairness

-----------------------------------------------------------------------------
TypeOK ==
  /\ executing \in BOOLEAN
  /\ actions \in Seq(Ops)
  /\ phase \in [Ops -> Phases]
  /\ order \in Seq(Ops)
  /\ started \in Seq(Ops)

(* Admitted by mutex_ and on its way to a thread of the pool.              *)
Pending(op) == phase[op] \in {"posting", "handoff", "posted"}

(* The operation that owns the sequence: admitted, not queued, not done.   *)
Owns(op) == Pending(op) \/ phase[op] = "running"

(* Two operations never own the sequence at once, although the flag that   *)
(* admits them is tested under mutex_ and the post happens outside it.     *)
SingleOwner == \A p, q \in Ops : Owns(p) /\ Owns(q) => p = q

(* executing_ is set exactly while some operation owns the sequence, so    *)
(* a handler is never queued with nobody left to unlock it.                *)
ExecutingIsOwned ==
  /\ executing <=> \E op \in Ops : Owns(op)
  /\ actions # <<>> => executing

(* Operations begin in the order in which lock() admitted them, whatever   *)
(* the order in which the threads reach their posts.                       *)
StartsInLockOrder ==
  /\ Len(started) <= Len(order)
  /\ \A i \in 1..Len(started) : started[i] = order[i]

(* Every operation that was locked completes: none is stranded in actions_.   *)
EveryLockedOpRuns ==
  \A op \in Ops : phase[op] # "new" ~> phase[op] = "done"

-----------------------------------------------------------------------------
(* What lock() and unlock() preserve: TypeOK, the facts above, and *)
(* that the queue holds exactly the operations in phase "queued", each     *)
(* once, and order is started, then the pending operation if there is one, *)
(* then the queue.                                                         *)
QueueInv ==
  /\ \A op \in Ops : phase[op] = "queued" <=> \E i \in 1..Len(actions) : actions[i] = op
  /\ \A i, j \in 1..Len(actions) : actions[i] = actions[j] => i = j

NumPending == IF \E op \in Ops : Pending(op) THEN 1 ELSE 0

OrderInv ==
  /\ Len(order) = Len(started) + NumPending + Len(actions)
  /\ \A op \in Ops : Pending(op) => order[Len(started) + 1] = op
  /\ \A i \in 1..Len(actions) :
        actions[i] = order[Len(started) + NumPending + i]
  /\ \A i \in 1..Len(order) : phase[order[i]] # "new"
  /\ \A op \in Ops : phase[op] = "running" => Len(started) > 0

IInv ==
  /\ TypeOK
  /\ SingleOwner
  /\ ExecutingIsOwned
  /\ StartsInLockOrder
  /\ QueueInv
  /\ OrderInv

-----------------------------------------------------------------------------
(* The sequencer implements serial execution in submission order.          *)
NumEnded == IF \E op \in Ops : phase[op] = "running"
            THEN Len(started) - 1 ELSE Len(started)

Serial == INSTANCE SerialExecutor
            WITH begun <- started, ended <- NumEnded

(* sequencer implements SerialExecutor: whatever threads lock, unlock and  *)
(* run, its operations run one at a time and in the order of their lock(). *)
SerialSpec == Serial!Spec

=============================================================================
