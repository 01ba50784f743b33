----------------------------- MODULE Subscriber -----------------------------
(***************************************************************************)
(* libbitcoin::subscriber and libbitcoin::resubscriber: lists of handlers  *)
(* that invoke() or relay() notify of events.  The two differ in that the  *)
(* handlers of a resubscriber may ask to stay subscribed.                  *)
(*                                                                         *)
(* subscribe_mutex_ guards short sections, each one step here.  The list   *)
(* is swapped out under it and its handlers run without it, so start, stop *)
(* and subscribe interleave with the loop; invoke_mutex_ is held for the   *)
(* whole of do_invoke.                                                     *)
(***************************************************************************)
EXTENDS Naturals, Sequences, FiniteSets

CONSTANTS
  Handlers,       \* handlers, each subscribed once by its owner
  Threads,        \* threads that call invoke
  Nobody,         \* not an invoker: invoke_mutex_ is free
  Strand,         \* the strand of dispatch_, on which relayed events run
  Resubscribes,   \* TRUE: resubscriber
  MaxEvents,      \* bound on the events of a behaviour
  MaxRestarts     \* bound on the calls of start

Invokers == Threads \cup {Strand}

ASSUME SubscriberAssumption ==
  /\ Strand \notin Threads
  /\ Nobody \notin Invokers
  /\ Resubscribes \in BOOLEAN
  /\ MaxEvents \in Nat /\ MaxRestarts \in Nat

VARIABLES
  stopped,        \* stopped_
  subscriptions,  \* subscriptions_
  invoking,       \* holder of invoke_mutex_
  pc,             \* where each invoker is in do_invoke
  list,           \* its temporary list; the head is the handler it calls
  event,          \* the event it notifies
  relayed,        \* events queued on the strand
  issued,         \* number of events so far; events are 1..issued
  status,         \* what has become of each handler
  received,       \* history: the events each handler was called with
  owed,           \* history: who was subscribed when the event was issued
  completed,      \* history: events whose do_invoke has returned
  restarts,       \* number of calls of start
  closing         \* history: events issued since stop; 0: start came later

lists == <<subscriptions, invoking, pc, list, event, relayed>>
histories == <<issued, received, owed, completed>>
vars == <<stopped, lists, status, histories, restarts, closing>>

(* Subscribed: in the member list, or in a temporary one with its fate     *)
(* undecided.                                                              *)
InFlight == {h \in Handlers : status[h] \in {"listed", "taken"}}

Init ==
  /\ stopped = TRUE
  /\ subscriptions = <<>>
  /\ invoking = Nobody
  /\ pc = [i \in Invokers |-> "idle"]
  /\ list = [i \in Invokers |-> <<>>]
  /\ event = [i \in Invokers |-> 0]
  /\ relayed = <<>>
  /\ issued = 0
  /\ status = [h \in Handlers |-> "new"]
  /\ received = [h \in Handlers |-> <<>>]
  /\ owed = [e \in 1..MaxEvents |-> {}]
  /\ completed = {}
  /\ restarts = 0
  /\ closing = {}

Start ==
  /\ restarts < MaxRestarts
  /\ restarts' = restarts + 1
  /\ stopped' = FALSE
  /\ closing' = {}
  /\ UNCHANGED <<lists, status, histories>>

Stop ==
  /\ ~stopped
  /\ stopped' = TRUE
  /\ UNCHANGED <<lists, status, histories, restarts, closing>>

(* A handler that comes too late is told so at once, outside the lock.     *)
Subscribe(h) ==
  /\ status[h] = "new"
  /\ \/ /\ ~stopped
        /\ subscriptions' = Append(subscriptions, h)
        /\ status' = [status EXCEPT ![h] = "listed"]
     \/ /\ stopped
        /\ status' = [status EXCEPT ![h] = "refused"]
        /\ UNCHANGED subscriptions
  /\ UNCHANGED <<stopped, invoking, pc, list, event, relayed, histories, restarts, closing>>

Issue ==
  /\ issued < MaxEvents
  /\ issued' = issued + 1
  /\ owed' = [owed EXCEPT ![issued + 1] = InFlight]
  /\ closing' = IF stopped THEN closing \cup {issued + 1} ELSE closing

(* invoke(): the caller goes on to wait for invoke_mutex_.                 *)
Invoke(t) ==
  /\ pc[t] = "idle"
  /\ Issue
  /\ event' = [event EXCEPT ![t] = issued + 1]
  /\ pc' = [pc EXCEPT ![t] = "enter"]
  /\ UNCHANGED <<stopped, subscriptions, invoking, list, relayed, status, received,
                 completed, restarts>>

(* relay(): do_invoke is queued on the strand.                             *)
Relay ==
  /\ Issue
  /\ relayed' = Append(relayed, issued + 1)
  /\ UNCHANGED <<stopped, subscriptions, invoking, pc, list, event, status, received,
                 completed, restarts>>

(* The strand runs one relayed do_invoke at a time, in order.              *)
RunRelayed ==
  /\ pc[Strand] = "idle"
  /\ relayed # <<>>
  /\ event' = [event EXCEPT ![Strand] = Head(relayed)]
  /\ relayed' = Tail(relayed)
  /\ pc' = [pc EXCEPT ![Strand] = "enter"]
  /\ UNCHANGED <<stopped, subscriptions, invoking, list, status, histories, restarts, closing>>

(* Fault: do_invoke does not wait for the one that is running.             *)
EnterUnlocked(i) ==
  /\ pc[i] = "enter"
  /\ invoking' = i
  /\ pc' = [pc EXCEPT ![i] = "loop"]
  /\ list' = [list EXCEPT ![i] = subscriptions]
  /\ status' = [h \in Handlers |-> IF status[h] = "listed" THEN "taken" ELSE status[h]]
  /\ subscriptions' = <<>>
  /\ UNCHANGED <<stopped, event, relayed, histories, restarts, closing>>

(* do_invoke: take invoke_mutex_ and swap the list out.  The two locks are *)
(* taken in one step: nothing is read in between.                          *)
Enter(i) ==
  /\ pc[i] = "enter"
  /\ invoking = Nobody
  /\ invoking' = i
  /\ pc' = [pc EXCEPT ![i] = "loop"]
  /\ list' = [list EXCEPT ![i] = subscriptions]
  /\ status' = [h \in Handlers |-> IF status[h] = "listed" THEN "taken" ELSE status[h]]
  /\ subscriptions' = <<>>
  /\ UNCHANGED <<stopped, event, relayed, histories, restarts, closing>>

Call(i) ==
  /\ pc[i] = "loop"
  /\ list[i] # <<>>
  /\ received' = [received EXCEPT ![Head(list[i])] = Append(@, event[i])]
  /\ pc' = [pc EXCEPT ![i] = "calling"]
  /\ UNCHANGED <<stopped, subscriptions, invoking, list, event, relayed, status, issued,
                 owed, completed, restarts, closing>>

(* The handler returns; only a resubscriber looks at what it returns.      *)
Return(i, renew) ==
  /\ pc[i] = "calling"
  /\ renew => Resubscribes
  /\ IF renew
     THEN /\ pc' = [pc EXCEPT ![i] = "renew"]
          /\ UNCHANGED <<list, status>>
     ELSE /\ pc' = [pc EXCEPT ![i] = "loop"]
          /\ list' = [list EXCEPT ![i] = Tail(@)]
          /\ status' = [status EXCEPT ![Head(list[i])] = "finished"]
  /\ UNCHANGED <<stopped, subscriptions, invoking, event, relayed, histories, restarts, closing>>

(* Fault: the handler is put back without another look at stopped_.        *)
RenewAlways(i) ==
  /\ pc[i] = "renew"
  /\ pc' = [pc EXCEPT ![i] = "loop"]
  /\ list' = [list EXCEPT ![i] = Tail(@)]
  /\ subscriptions' = Append(subscriptions, Head(list[i]))
  /\ status' = [status EXCEPT ![Head(list[i])] = "listed"]
  /\ UNCHANGED <<stopped, invoking, event, relayed, histories, restarts, closing>>

(* Resubscription, under subscribe_mutex_: a stop since the call drops it. *)
Renew(i) ==
  /\ pc[i] = "renew"
  /\ pc' = [pc EXCEPT ![i] = "loop"]
  /\ list' = [list EXCEPT ![i] = Tail(@)]
  /\ \/ /\ stopped
        /\ status' = [status EXCEPT ![Head(list[i])] = "dropped"]
        /\ UNCHANGED subscriptions
     \/ /\ ~stopped
        /\ subscriptions' = Append(subscriptions, Head(list[i]))
        /\ status' = [status EXCEPT ![Head(list[i])] = "listed"]
  /\ UNCHANGED <<stopped, invoking, event, relayed, histories, restarts, closing>>

(* Fault: do_invoke returns without releasing invoke_mutex_.               *)
LeaveLocked(i) ==
  /\ pc[i] = "loop"
  /\ list[i] = <<>>
  /\ pc' = [pc EXCEPT ![i] = "idle"]
  /\ completed' = completed \cup {event[i]}
  /\ UNCHANGED <<stopped, subscriptions, invoking, list, event, relayed, status, issued, received,
                 owed, restarts, closing>>

Leave(i) ==
  /\ pc[i] = "loop"
  /\ list[i] = <<>>
  /\ pc' = [pc EXCEPT ![i] = "idle"]
  /\ invoking' = Nobody
  /\ completed' = completed \cup {event[i]}
  /\ UNCHANGED <<stopped, subscriptions, list, event, relayed, status, issued, received,
                 owed, restarts, closing>>

Step(i) ==
  Enter(i) \/ Call(i) \/ (\E renew \in BOOLEAN : Return(i, renew)) \/ Renew(i) \/ Leave(i)

Next ==
  \/ Start
  \/ Stop
  \/ \E h \in Handlers : Subscribe(h)
  \/ \E t \in Threads : Invoke(t)
  \/ Relay
  \/ RunRelayed
  \/ \E i \in Invokers : Step(i)

Spec == Init /\ [][Next]_vars

(* Handlers return, and the pool runs its threads and the strand.          *)
Fairness == WF_vars(RunRelayed) /\ \A i \in Invokers : WF_vars(Step(i))

FairSpec == Spec /\ Fairness

-----------------------------------------------------------------------------
(* Handlers of one list never run at the same time ("prevent concurrent    *)
(* handler execution" in do_invoke), whoever invokes or relays.            *)
OneHandlerAtATime ==
  \A i, j \in Invokers : pc[i] = "calling" /\ pc[j] = "calling" => i = j

OnceEach(handlers, where) ==
  /\ \A k \in 1..Len(handlers) : status[handlers[k]] = where
  /\ \A j, k \in 1..Len(handlers) : handlers[j] = handlers[k] => j = k

(* A subscription is in exactly one list until its fate is decided: the    *)
(* swap and the resubscription neither lose nor duplicate a handler.       *)
SubscriptionsAreConserved ==
  /\ OnceEach(subscriptions, "listed")
  /\ \A i \in Invokers : OnceEach(list[i], "taken")
  /\ \A h \in Handlers : status[h] = "listed" =>
       \E k \in 1..Len(subscriptions) : subscriptions[k] = h
  /\ \A h \in Handlers : status[h] = "taken" =>
       \E i \in Invokers : \E k \in 1..Len(list[i]) : list[i][k] = h

Got(h, e) == \E k \in DOMAIN received[h] : received[h][k] = e

Left(h) == status[h] \in {"finished", "dropped"}

(* Nobody who was subscribed when an event was issued misses it, not even  *)
(* a handler that was busy with an earlier event, unless it had asked to   *)
(* leave or was dropped by stop.                                           *)
NobodyMissesAnEvent ==
  \A e \in completed : \A h \in owed[e] : Got(h, e) \/ Left(h)

(* stop() followed by a completed invoke() leaves the list empty, as the   *)
(* destructor asserts ("subscriber not cleared").                          *)
ClearedAfterStop ==
  closing \cap completed # {} => subscriptions = <<>>

(* Every event is delivered: do_invoke returns for each of them.           *)
EveryEventCompletes ==
  \A e \in 1..MaxEvents : issued >= e ~> e \in completed

-----------------------------------------------------------------------------
TypeOK ==
  /\ stopped \in BOOLEAN
  /\ subscriptions \in Seq(Handlers)
  /\ invoking \in Invokers \cup {Nobody}
  /\ pc \in [Invokers -> {"idle", "enter", "loop", "calling", "renew"}]
  /\ list \in [Invokers -> Seq(Handlers)]
  /\ event \in [Invokers -> 0..issued]
  /\ relayed \in Seq(1..issued)
  /\ issued \in 0..MaxEvents
  /\ status \in [Handlers -> {"new", "listed", "refused", "taken", "finished", "dropped"}]
  /\ received \in [Handlers -> Seq(0..issued)]
  /\ owed \in [1..MaxEvents -> SUBSET Handlers]
  /\ completed \in SUBSET (1..issued)
  /\ closing \in SUBSET (1..issued)
  /\ restarts \in 0..MaxRestarts

Inside(i) == pc[i] \in {"loop", "calling", "renew"}

(* Who is inside do_invoke holds invoke_mutex_ and has the only temporary *)
(* list; a handler that is being called has got the event.                 *)
LockInv ==
  /\ \A i \in Invokers : Inside(i) => invoking = i
  /\ \A i \in Invokers : ~Inside(i) => list[i] = <<>>
  /\ \A i \in Invokers : pc[i] # "idle" => event[i] # 0
  /\ \A i \in Invokers : pc[i] \in {"calling", "renew"} =>
       list[i] # <<>> /\ Got(Head(list[i]), event[i])

(* What is owed at each stage of an event: before do_invoke takes the list *)
(* those it is owed to are subscribed, or have left; then each of them was *)
(* called, has left, or is still in the temporary list.                    *)
Pending(e) == \A h \in owed[e] : h \in InFlight \/ Left(h)

Served(i) == \A h \in owed[event[i]] : Got(h, event[i]) \/ Left(h) \/ status[h] = "taken"

OwedInv ==
  /\ \A k \in 1..Len(relayed) : Pending(relayed[k])
  /\ \A i \in Invokers : pc[i] = "enter" => Pending(event[i])
  /\ \A i \in Invokers : Inside(i) => Served(i)
  /\ NobodyMissesAnEvent

(* After stop the list can only shrink.                                    *)
ClosingInv ==
  /\ closing # {} => stopped
  /\ \A i \in Invokers : Inside(i) /\ event[i] \in closing => subscriptions = <<>>
  /\ ClearedAfterStop

IInv == TypeOK /\ LockInv /\ SubscriptionsAreConserved /\ OwedInv /\ ClosingInv

=============================================================================
