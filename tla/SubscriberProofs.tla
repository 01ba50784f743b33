-------------------------- MODULE SubscriberProofs --------------------------
(***************************************************************************)
(* Proofs that the invariants of Subscriber hold for any number of         *)
(* handlers, threads and events.  Handlers come and go while an event is   *)
(* delivered; the argument follows one owed handler from the member list   *)
(* (Pending) through the temporary list (Served) to its call.              *)
(***************************************************************************)
EXTENDS Subscriber, TLAPS

LEMMA SequenceFacts ==
  ASSUME NEW S, NEW s \in Seq(S), NEW x \in S
  PROVE  /\ Append(s, x) \in Seq(S) /\ Len(s) \in Nat
         /\ Len(Append(s, x)) = Len(s) + 1
         /\ \A k \in 1..Len(s) : Append(s, x)[k] = s[k]
         /\ Append(s, x)[Len(s) + 1] = x
OBVIOUS

LEMMA ElementFacts ==
  ASSUME NEW S, NEW s \in Seq(S)
  PROVE  \A k \in 1..Len(s) : s[k] \in S
OBVIOUS

LEMMA TailFacts ==
  ASSUME NEW S, NEW s \in Seq(S), s # <<>>
  PROVE  /\ Head(s) \in S /\ Tail(s) \in Seq(S) /\ Len(s) \in Nat \ {0}
         /\ Head(s) = s[1] /\ Len(Tail(s)) = Len(s) - 1
         /\ \A k \in 1..(Len(s) - 1) : Tail(s)[k] = s[k + 1]
OBVIOUS

(* What no step of the list ever undoes.                                   *)
Monotone ==
  /\ \A h \in Handlers : Left(h) => Left(h)'
  /\ \A h \in Handlers : h \in InFlight \/ Left(h) => (h \in InFlight \/ Left(h))'
  /\ \A h \in Handlers : \A e \in 0..issued : Got(h, e) => Got(h, e)'
  /\ \A e \in 1..issued : owed'[e] = owed[e]

LEMMA ConservedKept ==
  ASSUME SubscriptionsAreConserved,
         subscriptions' = subscriptions, list' = list, status' = status
  PROVE  SubscriptionsAreConserved'
<1>1. OnceEach(subscriptions, "listed")'
  BY DEF SubscriptionsAreConserved, OnceEach
<1>2. \A i \in Invokers : OnceEach(list[i], "taken")'
  BY DEF SubscriptionsAreConserved, OnceEach
<1> QED
  BY <1>1, <1>2 DEF SubscriptionsAreConserved

LEMMA StartInv ==
  ASSUME IInv, Start
  PROVE  IInv'
<1>1. stopped' = FALSE /\ closing' = {} /\ restarts' = restarts + 1 /\ restarts < MaxRestarts
  BY DEF Start
<1>2. /\ subscriptions' = subscriptions /\ invoking' = invoking /\ pc' = pc /\ list' = list
      /\ event' = event /\ relayed' = relayed /\ status' = status /\ issued' = issued
      /\ received' = received /\ owed' = owed /\ completed' = completed
  BY DEF Start, lists, histories
<1>3. TypeOK'
  <2>1. restarts' \in 0..MaxRestarts
    BY <1>1, SubscriberAssumption DEF IInv, TypeOK
  <2>2. stopped' \in BOOLEAN
    BY <1>1, Zenon
  <2>3. closing' \in SUBSET (1..issued')
    BY <1>1
  <2> QED
    BY <1>2, <2>1, <2>2, <2>3 DEF IInv, TypeOK
<1>4. LockInv'
  BY <1>2 DEF IInv, LockInv, Inside, Got
<1>5. OwedInv'
  BY <1>2 DEF IInv, OwedInv, Pending, Served, NobodyMissesAnEvent, Inside, Got, Left, InFlight
<1>6. ClosingInv'
  BY <1>1 DEF ClosingInv, ClearedAfterStop
<1>20. SubscriptionsAreConserved'
  BY <1>2, ConservedKept DEF IInv
<1> QED
  BY <1>20, <1>3, <1>4, <1>5, <1>6 DEF IInv

LEMMA StopInv ==
  ASSUME IInv, Stop
  PROVE  IInv'
<1>1. stopped' = TRUE
  BY DEF Stop
<1>2. /\ subscriptions' = subscriptions /\ invoking' = invoking /\ pc' = pc /\ list' = list
      /\ event' = event /\ relayed' = relayed /\ status' = status /\ issued' = issued
      /\ received' = received /\ owed' = owed /\ completed' = completed
      /\ restarts' = restarts /\ closing' = closing
  BY DEF Stop, lists, histories
<1>3. TypeOK'
  <2>1. stopped' \in BOOLEAN
    BY <1>1
  <2> QED
    BY <1>2, <2>1 DEF IInv, TypeOK
<1>4. LockInv'
  BY <1>2 DEF IInv, LockInv, Inside, Got
<1>5. OwedInv'
  BY <1>2 DEF IInv, OwedInv, Pending, Served, NobodyMissesAnEvent, Inside, Got, Left, InFlight
<1>6. ClosingInv'
  BY <1>1, <1>2 DEF IInv, ClosingInv, ClearedAfterStop, Inside
<1>20. SubscriptionsAreConserved'
  BY <1>2, ConservedKept DEF IInv
<1> QED
  BY <1>20, <1>3, <1>4, <1>5, <1>6 DEF IInv

LEMMA MissesStep ==
  ASSUME TypeOK, NobodyMissesAnEvent, Monotone, completed' = completed
  PROVE  NobodyMissesAnEvent'
<1> SUFFICES ASSUME NEW e \in completed, NEW h \in owed'[e]
             PROVE  Got(h, e)' \/ Left(h)'
  BY DEF NobodyMissesAnEvent
<1>1. e \in 1..issued /\ e \in 0..issued /\ e \in 1..MaxEvents
  BY SubscriberAssumption DEF TypeOK
<1>2. h \in owed[e] /\ h \in Handlers
  BY <1>1, Zenon DEF Monotone, TypeOK
<1> QED
  BY <1>1, <1>2 DEF NobodyMissesAnEvent, Monotone

LEMMA PendingStep ==
  ASSUME TypeOK, Monotone, NEW e \in 1..issued, Pending(e)
  PROVE  Pending(e)'
<1> SUFFICES ASSUME NEW h \in owed'[e]
             PROVE  (h \in InFlight \/ Left(h))'
  BY DEF Pending
<1>1. e \in 1..MaxEvents /\ owed'[e] = owed[e]
  BY SubscriberAssumption DEF TypeOK, Monotone
<1>2. h \in owed[e] /\ h \in Handlers
  BY <1>1, Zenon DEF TypeOK
<1> QED
  BY <1>2 DEF Monotone, Pending

LEMMA ServedStep ==
  ASSUME TypeOK, Monotone, NEW i \in Invokers, event[i] # 0, event'[i] = event[i], Served(i),
         \A h \in Handlers : status[h] = "taken" =>
            status'[h] = "taken" \/ Left(h)' \/ Got(h, event[i])'
  PROVE  Served(i)'
<1> SUFFICES ASSUME NEW h \in owed'[event'[i]]
             PROVE  (Got(h, event[i]) \/ Left(h) \/ status[h] = "taken")'
  BY DEF Served
<1>1. event[i] \in 1..MaxEvents /\ event[i] \in 1..issued /\ event[i] \in 0..issued
  BY SubscriberAssumption DEF TypeOK
<1>2. h \in owed[event[i]] /\ h \in Handlers
  BY <1>1 DEF TypeOK, Monotone
<1>3. Got(h, event[i])' \/ Left(h)' \/ status'[h] = "taken"
  BY <1>1, <1>2 DEF Monotone, Served
<1> QED
  BY <1>3 DEF Got

(* The events an invoker or the strand holds have been issued.             *)
LEMMA EventFacts ==
  ASSUME IInv
  PROVE  /\ \A i \in Invokers : pc[i] # "idle" => event[i] \in 1..issued /\ event[i] # 0
         /\ \A k \in 1..Len(relayed) : relayed[k] \in 1..issued
<1>1. relayed \in Seq(1..issued)
  BY DEF IInv, TypeOK
<1>2. \A k \in 1..Len(relayed) : relayed[k] \in 1..issued
  BY <1>1, ElementFacts, Zenon
<1> QED
  BY <1>2 DEF IInv, LockInv, TypeOK

(* Steps that leave every invoker and the strand where they are.           *)
LEMMA OwedKept ==
  ASSUME IInv, Monotone, pc' = pc, event' = event, relayed' = relayed, completed' = completed,
         \A h \in Handlers : status[h] = "taken" => status'[h] = "taken"
  PROVE  OwedInv'
<1>1. TypeOK /\ OwedInv
  BY DEF IInv
<1>2. NobodyMissesAnEvent'
  BY <1>1, MissesStep DEF OwedInv
<1>3. ASSUME NEW k \in 1..Len(relayed')
      PROVE  Pending(relayed[k])'
  <2>1. Pending(relayed[k]) /\ relayed[k] \in 1..issued
    BY <1>1, EventFacts DEF OwedInv
  <2> QED
    BY <1>1, <2>1, PendingStep DEF Pending
<1>4. ASSUME NEW i \in Invokers, pc'[i] = "enter"
      PROVE  Pending(event[i])'
  <2>1. Pending(event[i]) /\ event[i] \in 1..issued
    BY <1>1, <1>4, EventFacts DEF OwedInv
  <2> QED
    BY <1>1, <2>1, PendingStep DEF Pending
<1>5. ASSUME NEW i \in Invokers, Inside(i)'
      PROVE  Served(i)'
  <2>1. Served(i) /\ event[i] # 0
    BY <1>1, <1>5, EventFacts DEF OwedInv, Inside
  <2> QED
    BY <1>1, <2>1, ServedStep
<1> QED
  BY <1>2, <1>3, <1>4, <1>5 DEF OwedInv

LEMMA SubscribeInv ==
  ASSUME IInv, NEW h0 \in Handlers, Subscribe(h0)
  PROVE  IInv'
<1>1. /\ stopped' = stopped /\ invoking' = invoking /\ pc' = pc /\ list' = list
      /\ event' = event /\ relayed' = relayed /\ issued' = issued
      /\ received' = received /\ owed' = owed /\ completed' = completed
      /\ restarts' = restarts /\ closing' = closing
  BY DEF Subscribe, histories
<1>2. /\ status[h0] = "new"
      /\ \A h \in Handlers : h # h0 => status'[h] = status[h]
      /\ \/ /\ ~stopped /\ subscriptions' = Append(subscriptions, h0) /\ status'[h0] = "listed"
            /\ status' = [status EXCEPT ![h0] = "listed"]
         \/ /\ stopped /\ subscriptions' = subscriptions /\ status'[h0] = "refused"
            /\ status' = [status EXCEPT ![h0] = "refused"]
  BY DEF Subscribe, IInv, TypeOK
<1>3. subscriptions \in Seq(Handlers) /\ Len(subscriptions) \in Nat
  BY DEF IInv, TypeOK
<1>4. TypeOK'
  <2>1. subscriptions' \in Seq(Handlers)
    BY <1>2, <1>3
  <2>2. status' \in [Handlers -> {"new", "listed", "refused", "taken", "finished", "dropped"}]
    BY <1>2, Zenon DEF IInv, TypeOK
  <2> QED
    BY <1>1, <2>1, <2>2 DEF IInv, TypeOK
<1>5. Monotone
  BY <1>1, <1>2 DEF Monotone, Left, InFlight, Got
<1>6. LockInv'
  BY <1>1 DEF IInv, LockInv, Inside, Got
<1>20. SubscriptionsAreConserved'
  <2>1. CASE subscriptions' = subscriptions
    <3>1. \A h \in Handlers :
            /\ status'[h] = "listed" <=> status[h] = "listed"
            /\ status'[h] = "taken" <=> status[h] = "taken"
      <4>1. Append(subscriptions, h0) # subscriptions
        BY <1>3
      <4> QED
        BY <1>2, <2>1, <4>1
    <3>2. /\ \A k \in 1..Len(subscriptions) : subscriptions[k] \in Handlers
          /\ \A i \in Invokers : \A k \in 1..Len(list[i]) : list[i][k] \in Handlers
      BY ElementFacts DEF IInv, TypeOK
    <3>3. OnceEach(subscriptions, "listed")'
      BY <2>1, <3>1, <3>2 DEF IInv, SubscriptionsAreConserved, OnceEach
    <3>4. \A i \in Invokers : OnceEach(list[i], "taken")'
      BY <1>1, <3>1, <3>2 DEF IInv, SubscriptionsAreConserved, OnceEach
    <3>5. \A h \in Handlers : status'[h] = "listed" =>
            \E k \in 1..Len(subscriptions') : subscriptions'[k] = h
      BY <2>1, <3>1 DEF IInv, SubscriptionsAreConserved
    <3>6. \A h \in Handlers : status'[h] = "taken" =>
            \E i \in Invokers : \E k \in 1..Len(list'[i]) : list'[i][k] = h
      BY <1>1, <3>1 DEF IInv, SubscriptionsAreConserved
    <3> QED
      BY <3>3, <3>4, <3>5, <3>6 DEF SubscriptionsAreConserved
  <2>2. CASE subscriptions' = Append(subscriptions, h0) /\ status'[h0] = "listed"
    <3>1. /\ \A k \in 1..Len(subscriptions) : subscriptions[k] \in Handlers /\ subscriptions[k] # h0
          /\ \A i \in Invokers : \A k \in 1..Len(list[i]) : list[i][k] \in Handlers /\ list[i][k] # h0
      BY <1>2, ElementFacts, Zenon DEF IInv, TypeOK, SubscriptionsAreConserved, OnceEach
    <3>2. /\ Len(subscriptions') = Len(subscriptions) + 1
          /\ \A k \in 1..Len(subscriptions) : subscriptions'[k] = subscriptions[k]
          /\ subscriptions'[Len(subscriptions) + 1] = h0
      BY <1>3, <2>2
    <3>3. OnceEach(subscriptions, "listed")'
      BY <1>2, <1>3, <2>2, <3>1, <3>2 DEF IInv, SubscriptionsAreConserved, OnceEach
    <3>4. \A i \in Invokers : OnceEach(list[i], "taken")'
      BY <1>1, <1>2, <3>1 DEF IInv, SubscriptionsAreConserved, OnceEach
    <3>5. ASSUME NEW h \in Handlers, status'[h] = "listed"
          PROVE  \E k \in 1..Len(subscriptions') : subscriptions'[k] = h
      <4>1. CASE h = h0
        BY <1>3, <3>2, <4>1
      <4>2. CASE h # h0
        <5>1. PICK k \in 1..Len(subscriptions) : subscriptions[k] = h
          BY <1>2, <3>5, <4>2 DEF IInv, SubscriptionsAreConserved
        <5> QED
          BY <1>3, <3>2, <5>1
      <4> QED
        BY <4>1, <4>2
    <3>6. \A h \in Handlers : status'[h] = "taken" =>
            \E i \in Invokers : \E k \in 1..Len(list'[i]) : list'[i][k] = h
      BY <1>1, <1>2, <2>2 DEF IInv, SubscriptionsAreConserved
    <3> QED
      BY <3>3, <3>4, <3>5, <3>6 DEF SubscriptionsAreConserved
  <2> QED
    BY <1>2, <2>1, <2>2
<1>7. OwedInv'
  BY <1>1, <1>2, <1>5, OwedKept
<1>8. ClosingInv'
  BY <1>1, <1>2 DEF IInv, ClosingInv, ClearedAfterStop, Inside
<1> QED
  BY <1>20, <1>4, <1>6, <1>7, <1>8 DEF IInv

(* What invoke and relay share: the event they issue is owed to those who  *)
(* are subscribed, and nothing that was issued before changes.             *)
LEMMA IssueFacts ==
  ASSUME IInv, Issue, status' = status, received' = received
  PROVE  /\ issued' = issued + 1 /\ issued \in Nat /\ issued' \in 0..MaxEvents
         /\ owed' \in [1..MaxEvents -> SUBSET Handlers]
         /\ closing' \in SUBSET (1..issued')
         /\ closing \subseteq closing' /\ closing' \subseteq closing \cup {issued + 1}
         /\ closing' # {} => closing # {} \/ stopped
         /\ Monotone
         /\ Pending(issued)'
<1>1. /\ issued < MaxEvents /\ issued' = issued + 1 /\ issued \in Nat
      /\ owed' = [owed EXCEPT ![issued + 1] = InFlight]
      /\ closing' = IF stopped THEN closing \cup {issued + 1} ELSE closing
      /\ issued + 1 \in 1..MaxEvents
  BY SubscriberAssumption DEF Issue, IInv, TypeOK
<1>2. owed' \in [1..MaxEvents -> SUBSET Handlers]
  BY <1>1 DEF IInv, TypeOK, InFlight
<1>3. closing' \in SUBSET (1..issued')
  <2>1. closing \in SUBSET (1..issued)
    BY DEF IInv, TypeOK
  <2>2. 1..issued \subseteq 1..issued' /\ issued + 1 \in 1..issued'
    BY <1>1
  <2> QED
    BY <1>1, <2>1, <2>2
<1>4. \A e \in 1..issued : owed'[e] = owed[e]
  BY <1>1 DEF IInv, TypeOK
<1>5. Monotone
  BY <1>4 DEF Monotone, Left, InFlight, Got
<1>6. Pending(issued)'
  <2>1. owed'[issued'] = InFlight /\ InFlight' = InFlight
    BY <1>1 DEF IInv, TypeOK, InFlight
  <2> QED
    BY <1>1, <2>1 DEF Pending
<1> QED
  BY <1>1, <1>2, <1>3, <1>5, <1>6

(* The parts of TypeOK that only grow with issued.                         *)
LEMMA IssueTypes ==
  ASSUME IInv, issued' = issued + 1, issued \in Nat
  PROVE  /\ 0..issued \subseteq 0..issued' /\ 1..issued \subseteq 1..issued'
         /\ event \in [Invokers -> 0..issued']
         /\ received \in [Handlers -> Seq(0..issued')]
         /\ relayed \in Seq(1..issued')
         /\ completed \in SUBSET (1..issued')
<1>1. 0..issued \subseteq 0..issued' /\ 1..issued \subseteq 1..issued'
  OBVIOUS
<1>2. event \in [Invokers -> 0..issued'] /\ completed \in SUBSET (1..issued')
  BY <1>1 DEF IInv, TypeOK
<1>3. \A S, T : S \subseteq T => Seq(S) \subseteq Seq(T)
  OBVIOUS
<1>4. received \in [Handlers -> Seq(0..issued')]
  BY <1>1, <1>3 DEF IInv, TypeOK
<1>5. relayed \in Seq(1..issued')
  BY <1>1, <1>3 DEF IInv, TypeOK
<1> QED
  BY <1>1, <1>2, <1>4, <1>5

LEMMA InvokeInv ==
  ASSUME IInv, NEW t \in Threads, Invoke(t)
  PROVE  IInv'
<1>1. /\ stopped' = stopped /\ subscriptions' = subscriptions /\ invoking' = invoking
      /\ list' = list /\ relayed' = relayed /\ status' = status /\ received' = received
      /\ completed' = completed /\ restarts' = restarts
      /\ pc[t] = "idle" /\ pc' = [pc EXCEPT ![t] = "enter"]
      /\ event' = [event EXCEPT ![t] = issued + 1] /\ Issue
  BY DEF Invoke
<1>2. t \in Invokers
  BY DEF Invokers
<1>3. /\ issued' = issued + 1 /\ issued \in Nat /\ issued' \in 0..MaxEvents
      /\ owed' \in [1..MaxEvents -> SUBSET Handlers]
      /\ closing' \in SUBSET (1..issued')
      /\ closing \subseteq closing' /\ closing' \subseteq closing \cup {issued + 1}
      /\ closing' # {} => closing # {} \/ stopped
      /\ Monotone /\ Pending(issued)'
  BY <1>1, IssueFacts
<1>4. /\ event \in [Invokers -> 0..issued'] /\ received \in [Handlers -> Seq(0..issued')]
      /\ relayed \in Seq(1..issued') /\ completed \in SUBSET (1..issued')
      /\ 1..issued \subseteq 1..issued'
  BY <1>3, IssueTypes
<1>5. /\ pc'[t] = "enter" /\ event'[t] = issued + 1
      /\ \A i \in Invokers : i # t => pc'[i] = pc[i] /\ event'[i] = event[i]
  BY <1>1, <1>2 DEF IInv, TypeOK
<1>6. TypeOK'
  <2>1. pc' \in [Invokers -> {"idle", "enter", "loop", "calling", "renew"}]
    BY <1>1, Zenon DEF IInv, TypeOK
  <2>2. event' \in [Invokers -> 0..issued']
    <3>1. issued + 1 \in 0..issued'
      BY <1>3
    <3> QED
      BY <1>1, <1>4, <3>1, Zenon
  <2> QED
    BY <1>1, <1>3, <1>4, <2>1, <2>2, SMTT(30) DEF IInv, TypeOK
<1>7. \A i \in Invokers : Inside(i)' => i # t /\ Inside(i) /\ event'[i] = event[i]
  BY <1>5 DEF Inside
<1>8. LockInv'
  <2>1. \A i \in Invokers : Inside(i) => Inside(i)'
    BY <1>1, <1>5 DEF Inside
  <2>2. \A i \in Invokers : pc'[i] \in {"calling", "renew"} =>
          list'[i] # <<>> /\ Got(Head(list[i]), event[i])'
    BY <1>1, <1>5 DEF IInv, LockInv, Got
  <2>3. \A i \in Invokers : pc'[i] # "idle" => event'[i] # 0
    BY <1>3, <1>5 DEF IInv, LockInv
  <2> QED
    BY <1>1, <1>7, <2>1, <2>2, <2>3 DEF IInv, LockInv
<1>9. OwedInv'
  <2>0. TypeOK /\ OwedInv
    BY DEF IInv
  <2>1. NobodyMissesAnEvent'
    BY <1>1, <1>3, <2>0, MissesStep DEF OwedInv
  <2>2. ASSUME NEW k \in 1..Len(relayed')
        PROVE  Pending(relayed[k])'
    <3>1. Pending(relayed[k]) /\ relayed[k] \in 1..issued
      BY <1>1, <2>0, EventFacts DEF OwedInv
    <3> QED
      BY <1>1, <1>3, <2>0, <3>1, PendingStep DEF Pending
  <2>3. ASSUME NEW i \in Invokers, pc'[i] = "enter"
        PROVE  Pending(event[i])'
    <3>1. CASE i = t
      <4>1. event'[i] = issued'
        BY <1>3, <1>5, <3>1
      <4> QED
        BY <1>3, <4>1 DEF Pending
    <3>2. CASE i # t
      <4>1. Pending(event[i]) /\ event[i] \in 1..issued /\ event'[i] = event[i]
        BY <1>5, <2>0, <2>3, <3>2, EventFacts DEF OwedInv
      <4> QED
        BY <1>3, <2>0, <4>1, PendingStep DEF Pending
    <3> QED
      BY <3>1, <3>2
  <2>4. ASSUME NEW i \in Invokers, Inside(i)'
        PROVE  Served(i)'
    <3>1. Served(i) /\ event[i] # 0 /\ event'[i] = event[i]
      BY <1>7, <2>0, <2>4, EventFacts DEF OwedInv, Inside
    <3> QED
      BY <1>1, <1>3, <2>0, <3>1, ServedStep
  <2> QED
    BY <2>1, <2>2, <2>3, <2>4 DEF OwedInv
<1>10. ClosingInv'
  <2>1. closing' # {} => stopped'
    BY <1>1, <1>3 DEF IInv, ClosingInv
  <2>2. ASSUME NEW i \in Invokers, Inside(i)', event'[i] \in closing'
        PROVE  subscriptions' = <<>>
    <3>1. Inside(i) /\ event[i] \in 1..issued /\ event[i] \in closing'
      BY <1>7, <2>2, EventFacts DEF Inside
    <3>2. event[i] \in closing
      BY <1>3, <3>1
    <3> QED
      BY <1>1, <3>1, <3>2 DEF IInv, ClosingInv
  <2>3. ClearedAfterStop'
    <3>0. issued + 1 \notin completed
      BY <1>3 DEF IInv, TypeOK
    <3>1. closing' \cap completed' = closing \cap completed
      BY <1>1, <1>3, <3>0, Zenon
    <3> QED
      BY <1>1, <3>1 DEF IInv, ClosingInv, ClearedAfterStop
  <2> QED
    BY <2>1, <2>2, <2>3 DEF ClosingInv
<1>20. SubscriptionsAreConserved'
  BY <1>1, ConservedKept DEF IInv
<1> QED
  BY <1>20, <1>6, <1>8, <1>9, <1>10 DEF IInv

LEMMA RelayInv ==
  ASSUME IInv, Relay
  PROVE  IInv'
<1>1. /\ stopped' = stopped /\ subscriptions' = subscriptions /\ invoking' = invoking
      /\ pc' = pc /\ list' = list /\ event' = event /\ status' = status /\ received' = received
      /\ completed' = completed /\ restarts' = restarts
      /\ relayed' = Append(relayed, issued + 1) /\ Issue
  BY DEF Relay
<1>2. /\ issued' = issued + 1 /\ issued \in Nat /\ issued' \in 0..MaxEvents
      /\ owed' \in [1..MaxEvents -> SUBSET Handlers]
      /\ closing' \in SUBSET (1..issued')
      /\ closing \subseteq closing' /\ closing' \subseteq closing \cup {issued + 1}
      /\ closing' # {} => closing # {} \/ stopped
      /\ Monotone /\ Pending(issued)'
  BY <1>1, IssueFacts
<1>3. /\ event \in [Invokers -> 0..issued'] /\ received \in [Handlers -> Seq(0..issued')]
      /\ relayed \in Seq(1..issued') /\ completed \in SUBSET (1..issued')
  BY <1>2, IssueTypes
<1>4. issued + 1 \in 1..issued'
  BY <1>2
<1>5. /\ relayed' \in Seq(1..issued') /\ Len(relayed) \in Nat
      /\ Len(relayed') = Len(relayed) + 1
      /\ \A k \in 1..Len(relayed) : relayed'[k] = relayed[k]
      /\ relayed'[Len(relayed) + 1] = issued + 1
  BY <1>1, <1>3, <1>4, SequenceFacts
<1>6. TypeOK'
  BY <1>1, <1>2, <1>3, <1>5, Zenon DEF IInv, TypeOK
<1>7. LockInv'
  BY <1>1, Zenon DEF IInv, LockInv, Inside, Got
<1>8. OwedInv'
  <2>0. TypeOK /\ OwedInv
    BY DEF IInv
  <2>1. NobodyMissesAnEvent'
    BY <1>1, <1>2, <2>0, MissesStep DEF OwedInv
  <2>2. ASSUME NEW k \in 1..Len(relayed')
        PROVE  Pending(relayed[k])'
    <3>1. CASE k = Len(relayed) + 1
      <4>1. relayed'[k] = issued'
        BY <1>2, <1>5, <3>1
      <4> QED
        BY <1>2, <4>1 DEF Pending
    <3>2. CASE k # Len(relayed) + 1
      <4>1. k \in 1..Len(relayed)
        BY <1>5, <3>2
      <4>2. Pending(relayed[k]) /\ relayed[k] \in 1..issued /\ relayed'[k] = relayed[k]
        BY <1>5, <2>0, <4>1, EventFacts DEF OwedInv
      <4> QED
        BY <1>2, <2>0, <4>2, PendingStep DEF Pending
    <3> QED
      BY <3>1, <3>2
  <2>3. ASSUME NEW i \in Invokers, pc'[i] = "enter"
        PROVE  Pending(event[i])'
    <3>1. Pending(event[i]) /\ event[i] \in 1..issued
      BY <1>1, <2>0, <2>3, EventFacts DEF OwedInv
    <3> QED
      BY <1>1, <1>2, <2>0, <3>1, PendingStep, Zenon DEF Pending
  <2>4. ASSUME NEW i \in Invokers, Inside(i)'
        PROVE  Served(i)'
    <3>1. Served(i) /\ event[i] # 0
      BY <1>1, <2>0, <2>4, EventFacts DEF OwedInv, Inside
    <3> QED
      BY <1>1, <1>2, <2>0, <3>1, ServedStep, Zenon
  <2> QED
    BY <2>1, <2>2, <2>3, <2>4 DEF OwedInv
<1>9. ClosingInv'
  <2>1. closing' # {} => stopped'
    BY <1>1, <1>2 DEF IInv, ClosingInv
  <2>2. ASSUME NEW i \in Invokers, Inside(i)', event'[i] \in closing'
        PROVE  subscriptions' = <<>>
    <3>1. Inside(i) /\ event[i] \in 1..issued
      BY <1>1, <2>2, EventFacts DEF Inside
    <3>2. event[i] \in closing
      BY <1>1, <1>2, <2>2, <3>1
    <3> QED
      BY <1>1, <3>1, <3>2 DEF IInv, ClosingInv
  <2>3. ClearedAfterStop'
    <3>1. issued + 1 \notin completed
      BY <1>2 DEF IInv, TypeOK
    <3>2. closing' \cap completed' = closing \cap completed
      BY <1>1, <1>2, <3>1, Zenon
    <3> QED
      BY <1>1, <3>2 DEF IInv, ClosingInv, ClearedAfterStop
  <2> QED
    BY <2>1, <2>2, <2>3 DEF ClosingInv
<1>20. SubscriptionsAreConserved'
  BY <1>1, ConservedKept DEF IInv
<1> QED
  BY <1>20, <1>6, <1>7, <1>8, <1>9 DEF IInv

LEMMA RunRelayedInv ==
  ASSUME IInv, RunRelayed
  PROVE  IInv'
<1>1. /\ stopped' = stopped /\ subscriptions' = subscriptions /\ invoking' = invoking
      /\ list' = list /\ status' = status /\ received' = received /\ completed' = completed
      /\ restarts' = restarts /\ issued' = issued /\ owed' = owed /\ closing' = closing
      /\ pc[Strand] = "idle" /\ relayed # <<>>
      /\ event' = [event EXCEPT ![Strand] = Head(relayed)] /\ relayed' = Tail(relayed)
      /\ pc' = [pc EXCEPT ![Strand] = "enter"]
  BY DEF RunRelayed, histories
<1>2. Strand \in Invokers /\ relayed \in Seq(1..issued) /\ issued \in Nat
  BY SubscriberAssumption DEF Invokers, IInv, TypeOK
<1>3. /\ Head(relayed) \in 1..issued /\ Tail(relayed) \in Seq(1..issued)
      /\ Len(relayed) \in Nat \ {0} /\ Head(relayed) = relayed[1]
      /\ Len(Tail(relayed)) = Len(relayed) - 1
      /\ \A k \in 1..(Len(relayed) - 1) : Tail(relayed)[k] = relayed[k + 1]
  BY <1>1, <1>2, TailFacts
<1>4. /\ pc'[Strand] = "enter" /\ event'[Strand] = relayed[1]
      /\ \A i \in Invokers : i # Strand => pc'[i] = pc[i] /\ event'[i] = event[i]
  BY <1>1, <1>2, <1>3 DEF IInv, TypeOK
<1>5. TypeOK'
  <2>1. pc' \in [Invokers -> {"idle", "enter", "loop", "calling", "renew"}]
    BY <1>1, Zenon DEF IInv, TypeOK
  <2>2. event' \in [Invokers -> 0..issued']
    <3>1. Head(relayed) \in 0..issued
      BY <1>2, <1>3
    <3> QED
      BY <1>1, <3>1, Zenon DEF IInv, TypeOK
  <2> QED
    BY <1>1, <1>3, <2>1, <2>2, Zenon DEF IInv, TypeOK
<1>6. \A i \in Invokers : Inside(i)' => i # Strand /\ Inside(i) /\ event'[i] = event[i]
  BY <1>4 DEF Inside
<1>7. Monotone
  BY <1>1, Zenon DEF Monotone, Left, InFlight, Got
<1>8. LockInv'
  <2>1. \A i \in Invokers : Inside(i) => Inside(i)'
    BY <1>1, <1>4, Zenon DEF Inside
  <2>2. \A i \in Invokers : pc'[i] \in {"calling", "renew"} =>
          list'[i] # <<>> /\ Got(Head(list[i]), event[i])'
    BY <1>1, <1>4 DEF IInv, LockInv, Got
  <2>3. \A i \in Invokers : pc'[i] # "idle" => event'[i] # 0
    BY <1>2, <1>3, <1>4 DEF IInv, LockInv
  <2> QED
    BY <1>1, <1>6, <2>1, <2>2, <2>3 DEF IInv, LockInv
<1>9. OwedInv'
  <2>0. TypeOK /\ OwedInv
    BY DEF IInv
  <2>1. NobodyMissesAnEvent'
    BY <1>1, <1>7, <2>0, MissesStep DEF OwedInv
  <2>2. ASSUME NEW k \in 1..Len(relayed')
        PROVE  Pending(relayed[k])'
    <3>1. k + 1 \in 1..Len(relayed) /\ relayed'[k] = relayed[k + 1]
      BY <1>1, <1>3
    <3>2. Pending(relayed[k + 1]) /\ relayed[k + 1] \in 1..issued
      BY <2>0, <3>1, EventFacts DEF OwedInv
    <3> QED
      BY <1>7, <2>0, <3>1, <3>2, PendingStep DEF Pending
  <2>3. ASSUME NEW i \in Invokers, pc'[i] = "enter"
        PROVE  Pending(event[i])'
    <3>1. Pending(event'[i]) /\ event'[i] \in 1..issued
      <4>1. CASE i = Strand
        <5>1. 1 \in 1..Len(relayed)
          BY <1>3
        <5> QED
          BY <1>4, <2>0, <4>1, <5>1, EventFacts DEF OwedInv
      <4>2. CASE i # Strand
        BY <1>4, <2>0, <2>3, <4>2, EventFacts DEF OwedInv
      <4> QED
        BY <4>1, <4>2
    <3>2. PICK e \in 1..issued : e = event'[i]
      BY <3>1
    <3>3. Pending(e)'
      BY <1>7, <2>0, <3>1, <3>2, PendingStep
    <3> QED
      BY <3>2, <3>3 DEF Pending
  <2>4. ASSUME NEW i \in Invokers, Inside(i)'
        PROVE  Served(i)'
    <3>1. Served(i) /\ event[i] # 0 /\ event'[i] = event[i]
      BY <1>6, <2>0, <2>4, EventFacts DEF OwedInv, Inside
    <3> QED
      BY <1>1, <1>7, <2>0, <3>1, ServedStep, Zenon
  <2> QED
    BY <2>1, <2>2, <2>3, <2>4 DEF OwedInv
<1>10. ClosingInv'
  BY <1>1, <1>6 DEF IInv, ClosingInv, ClearedAfterStop
<1>20. SubscriptionsAreConserved'
  BY <1>1, ConservedKept DEF IInv
<1> QED
  BY <1>20, <1>5, <1>8, <1>9, <1>10 DEF IInv

(* The mutex excludes: only its holder is inside and has a list.           *)
LEMMA InsideAlone ==
  ASSUME IInv, NEW i \in Invokers, NEW j \in Invokers, Inside(i), j # i
  PROVE  ~Inside(j) /\ list[j] = <<>>
BY DEF IInv, LockInv

(* do_invoke drops the head of its list with its fate decided.             *)
LEMMA HeadLeaves ==
  ASSUME IInv, NEW i0 \in Invokers, Inside(i0), list[i0] # <<>>,
         list' = [list EXCEPT ![i0] = Tail(@)],
         \A h \in Handlers : h # Head(list[i0]) => status'[h] = status[h],
         status'[Head(list[i0])] # "taken"
  PROVE  /\ Head(list[i0]) \in Handlers /\ status[Head(list[i0])] = "taken"
         /\ list' \in [Invokers -> Seq(Handlers)]
         /\ \A i \in Invokers : i # i0 => list'[i] = <<>>
         /\ \A i \in Invokers : OnceEach(list[i], "taken")'
         /\ \A h \in Handlers : status'[h] = "taken" =>
              \E i \in Invokers : \E k \in 1..Len(list'[i]) : list'[i][k] = h
<1> DEFINE hd == Head(list[i0])
           l == list[i0]
<1>1. l \in Seq(Handlers)
  BY DEF IInv, TypeOK
<1>2. /\ hd \in Handlers /\ Tail(l) \in Seq(Handlers) /\ Len(l) \in Nat \ {0}
      /\ hd = l[1] /\ Len(Tail(l)) = Len(l) - 1
      /\ \A k \in 1..(Len(l) - 1) : Tail(l)[k] = l[k + 1]
  BY <1>1, TailFacts
<1>3. OnceEach(l, "taken")
  BY DEF IInv, SubscriptionsAreConserved
<1>4. 1 \in 1..Len(l) /\ \A k \in 1..(Len(l) - 1) : k + 1 \in 1..Len(l) /\ k + 1 # 1
  BY <1>2
<1>5. status[hd] = "taken"
  BY <1>2, <1>3, <1>4 DEF OnceEach
<1>6. list' \in [Invokers -> Seq(Handlers)] /\ list'[i0] = Tail(l)
  BY <1>2 DEF IInv, TypeOK
<1>7. \A i \in Invokers : i # i0 => list'[i] = <<>> /\ list[i] = <<>>
  BY InsideAlone, Zenon DEF IInv, TypeOK
<1>8. \A k \in 1..(Len(l) - 1) : l[k + 1] \in Handlers /\ l[k + 1] # hd
  BY <1>1, <1>2, <1>3, <1>4, ElementFacts DEF OnceEach
<1>9. ASSUME NEW i \in Invokers
      PROVE  OnceEach(list[i], "taken")'
  <2>1. CASE i = i0
    <3>1. \A k \in 1..Len(list'[i]) : status'[list'[i][k]] = "taken"
      BY <1>2, <1>3, <1>4, <1>6, <1>8, <2>1 DEF OnceEach
    <3>2. ASSUME NEW j \in 1..Len(list'[i]), NEW k \in 1..Len(list'[i]), list'[i][j] = list'[i][k]
          PROVE  j = k
      <4>1. j + 1 \in 1..Len(l) /\ k + 1 \in 1..Len(l) /\ l[j + 1] = l[k + 1]
        BY <1>2, <1>4, <1>6, <2>1, <3>2, Zenon
      <4>2. j + 1 = k + 1
        BY <1>3, <4>1, Zenon DEF OnceEach
      <4> QED
        BY <4>2
    <3> QED
      BY <3>1, <3>2, Zenon DEF OnceEach
  <2>2. CASE i # i0
    BY <1>7, <2>2 DEF OnceEach
  <2> QED
    BY <2>1, <2>2
<1>10. ASSUME NEW h \in Handlers, status'[h] = "taken"
       PROVE  \E i \in Invokers : \E k \in 1..Len(list'[i]) : list'[i][k] = h
  <2>1. h # hd /\ status[h] = "taken"
    BY <1>10
  <2>2. PICK i \in Invokers : \E k \in 1..Len(list[i]) : list[i][k] = h
    BY <2>1 DEF IInv, SubscriptionsAreConserved
  <2>3. i = i0
    BY <1>7, <2>2
  <2>4. PICK k \in 1..Len(l) : l[k] = h
    BY <2>2, <2>3
  <2>5. k # 1 /\ k - 1 \in 1..(Len(l) - 1) /\ (k - 1) + 1 = k
    BY <1>2, <2>1, <2>4
  <2>6. k - 1 \in 1..Len(list'[i0]) /\ list'[i0][k - 1] = h
    BY <1>2, <1>6, <2>4, <2>5, Zenon
  <2> QED
    BY <2>6, Zenon
<1> QED
  BY <1>2, <1>5, <1>6, <1>7, <1>9, <1>10


(* Steps inside do_invoke: what is still to be served is given.            *)
LEMMA OwedStep ==
  ASSUME IInv, Monotone, event' = event, relayed' = relayed, completed' = completed,
         \A i \in Invokers : pc'[i] = "enter" => pc[i] = "enter",
         \A i \in Invokers : Inside(i)' => Served(i)'
  PROVE  OwedInv'
<1>1. TypeOK /\ OwedInv
  BY Zenon DEF IInv
<1>2. NobodyMissesAnEvent'
  BY <1>1, MissesStep, Zenon DEF OwedInv
<1>3. ASSUME NEW k \in 1..Len(relayed')
      PROVE  Pending(relayed[k])'
  <2>1. Pending(relayed[k]) /\ relayed[k] \in 1..issued
    BY <1>1, EventFacts DEF OwedInv
  <2> QED
    BY <1>1, <2>1, PendingStep, Zenon DEF Pending
<1>4. ASSUME NEW i \in Invokers, pc'[i] = "enter"
      PROVE  Pending(event[i])'
  <2>1. Pending(event[i]) /\ event[i] \in 1..issued
    BY <1>1, <1>4, EventFacts DEF OwedInv
  <2> QED
    BY <1>1, <2>1, PendingStep, Zenon DEF Pending
<1> QED
  BY <1>2, <1>3, <1>4, Zenon DEF OwedInv

LEMMA EnterInv ==
  ASSUME IInv, NEW i0 \in Invokers, Enter(i0)
  PROVE  IInv'
<1>1. /\ stopped' = stopped /\ event' = event /\ relayed' = relayed /\ issued' = issued
      /\ received' = received /\ owed' = owed /\ completed' = completed
      /\ restarts' = restarts /\ closing' = closing
      /\ pc[i0] = "enter" /\ invoking = Nobody /\ invoking' = i0 /\ subscriptions' = <<>>
      /\ pc' = [pc EXCEPT ![i0] = "loop"] /\ list' = [list EXCEPT ![i0] = subscriptions]
      /\ status' = [h \in Handlers |-> IF status[h] = "listed" THEN "taken" ELSE status[h]]
  BY DEF Enter, histories
<1>2. \A i \in Invokers : ~Inside(i) /\ list[i] = <<>>
  BY <1>1, SubscriberAssumption DEF IInv, LockInv
<1>3. \A h \in Handlers : status[h] # "taken"
  BY <1>2 DEF IInv, SubscriptionsAreConserved
<1>4. /\ pc'[i0] = "loop" /\ list'[i0] = subscriptions
      /\ \A i \in Invokers : i # i0 => pc'[i] = pc[i] /\ list'[i] = list[i]
  BY <1>1 DEF IInv, TypeOK
<1>5. \A h \in Handlers : /\ status'[h] # "listed"
                          /\ status'[h] = "taken" <=> status[h] = "listed"
                          /\ status[h] # "listed" => status'[h] = status[h]
  BY <1>1, <1>3, Zenon DEF IInv, TypeOK
<1>6. TypeOK'
  <2>1. subscriptions' \in Seq(Handlers)
    BY <1>1
  <2>2. invoking' \in Invokers \cup {Nobody}
    BY <1>1
  <2>3. pc' \in [Invokers -> {"idle", "enter", "loop", "calling", "renew"}]
    BY <1>1 DEF IInv, TypeOK
  <2>4. list' \in [Invokers -> Seq(Handlers)]
    BY <1>1 DEF IInv, TypeOK
  <2>5. status' \in [Handlers -> {"new", "listed", "refused", "taken", "finished", "dropped"}]
    BY <1>1 DEF IInv, TypeOK
  <2> QED
    BY <1>1, <2>1, <2>2, <2>3, <2>4, <2>5 DEF IInv, TypeOK
<1>7. LockInv'
  <2>1. \A i \in Invokers : Inside(i)' => i = i0
    BY <1>2, <1>4 DEF Inside
  <2>2. \A i \in Invokers : i # i0 => list'[i] = <<>>
    BY <1>2, <1>4
  <2>3. \A i \in Invokers : pc'[i] \notin {"calling", "renew"}
    BY <1>4, <2>1, Zenon DEF Inside
  <2>4. \A i \in Invokers : pc'[i] # "idle" => event'[i] # 0
    BY <1>1, <1>4 DEF IInv, LockInv
  <2>5. Inside(i0)'
    BY <1>4, Zenon DEF Inside
  <2> QED
    BY <1>1, <2>1, <2>2, <2>3, <2>4, <2>5 DEF LockInv
<1>8. SubscriptionsAreConserved'
  <2>1. \A k \in 1..Len(subscriptions) : subscriptions[k] \in Handlers
    BY ElementFacts DEF IInv, TypeOK
  <2>2. OnceEach(subscriptions, "listed")'
    BY <1>1 DEF OnceEach
  <2>3. ASSUME NEW i \in Invokers
        PROVE  OnceEach(list[i], "taken")'
    <3>1. CASE i = i0
      BY <1>4, <1>5, <2>1, <3>1 DEF OnceEach, IInv, SubscriptionsAreConserved
    <3>2. CASE i # i0
      BY <1>2, <1>4, <3>2 DEF OnceEach
    <3> QED
      BY <3>1, <3>2, Zenon
  <2>4. ASSUME NEW h \in Handlers, status'[h] = "taken"
        PROVE  \E i \in Invokers : \E k \in 1..Len(list'[i]) : list'[i][k] = h
    <3>1. \E k \in 1..Len(subscriptions) : subscriptions[k] = h
      BY <1>5, <2>4, Zenon DEF IInv, SubscriptionsAreConserved
    <3> QED
      BY <1>4, <3>1, Zenon
  <2> QED
    BY <1>5, <2>2, <2>3, <2>4 DEF SubscriptionsAreConserved
<1>9. Monotone
  BY <1>1, <1>3, <1>5, Zenon DEF Monotone, Left, InFlight, Got
<1>10. ASSUME NEW i \in Invokers, Inside(i)'
       PROVE  Served(i)'
  <2>1. i = i0 /\ event'[i] = event[i]
    BY <1>1, <1>2, <1>4, <1>10, Zenon DEF Inside
  <2>2. event[i] \in 1..MaxEvents
    BY <1>1, <2>1, EventFacts, SubscriberAssumption DEF IInv, TypeOK
  <2>3. owed[event[i]] \subseteq Handlers
    BY <2>2, Zenon DEF IInv, TypeOK
  <2>4. \A h \in owed[event[i]] : Left(h)' \/ status'[h] = "taken"
    BY <1>1, <1>3, <1>5, <2>1, <2>3 DEF IInv, OwedInv, Pending, InFlight, Left
  <2> QED
    BY <1>1, <2>4, Zenon DEF Served
<1>11. OwedInv'
  <2>1. \A i \in Invokers : pc'[i] = "enter" => pc[i] = "enter"
    BY <1>4
  <2> QED
    BY <1>1, <1>9, <1>10, <2>1, OwedStep
<1>12. ClosingInv'
  BY <1>1, Zenon DEF IInv, ClosingInv, ClearedAfterStop
<1> QED
  BY <1>6, <1>7, <1>8, <1>11, <1>12 DEF IInv

LEMMA CallInv ==
  ASSUME IInv, NEW i0 \in Invokers, Call(i0)
  PROVE  IInv'
<1>1. /\ stopped' = stopped /\ subscriptions' = subscriptions /\ invoking' = invoking
      /\ list' = list /\ event' = event /\ relayed' = relayed /\ status' = status
      /\ issued' = issued /\ owed' = owed /\ completed' = completed
      /\ restarts' = restarts /\ closing' = closing
      /\ pc[i0] = "loop" /\ list[i0] # <<>> /\ pc' = [pc EXCEPT ![i0] = "calling"]
      /\ received' = [received EXCEPT ![Head(list[i0])] = Append(@, event[i0])]
  BY DEF Call
<1> DEFINE hd == Head(list[i0])
<1>2. hd \in Handlers /\ event[i0] \in 0..issued /\ received[hd] \in Seq(0..issued)
  BY <1>1, TailFacts DEF IInv, TypeOK
<1>3. /\ Append(received[hd], event[i0]) \in Seq(0..issued) /\ Len(received[hd]) \in Nat
      /\ Len(Append(received[hd], event[i0])) = Len(received[hd]) + 1
      /\ \A k \in 1..Len(received[hd]) : Append(received[hd], event[i0])[k] = received[hd][k]
      /\ Append(received[hd], event[i0])[Len(received[hd]) + 1] = event[i0]
  BY <1>2, SequenceFacts, SMTT(30)
<1>4. /\ received' \in [Handlers -> Seq(0..issued)]
      /\ received'[hd] = Append(received[hd], event[i0])
      /\ \A h \in Handlers : h # hd => received'[h] = received[h]
  <2>1. received \in [Handlers -> Seq(0..issued)]
    BY Zenon DEF IInv, TypeOK
  <2>2. received' = [received EXCEPT ![hd] = Append(received[hd], event[i0])]
    BY <1>1
  <2> QED
    BY <1>2, <1>3, <2>1, <2>2
<1>5. /\ pc'[i0] = "calling" /\ \A i \in Invokers : i # i0 => pc'[i] = pc[i]
      /\ \A i \in Invokers : Inside(i)' <=> Inside(i)
  BY <1>1 DEF IInv, TypeOK, Inside
<1>6. Got(hd, event[i0])'
  <2>1. Len(received[hd]) + 1 \in DOMAIN received'[hd]
    BY <1>3, <1>4, SMTT(60)
  <2>2. received'[hd][Len(received[hd]) + 1] = event[i0]
    BY <1>3, <1>4
  <2>3. event' = event /\ hd' = hd
    BY <1>1
  <2> QED
    BY <2>1, <2>2, <2>3, Zenon DEF Got
<1>7. ASSUME NEW h \in Handlers, NEW e \in 0..issued, Got(h, e)
      PROVE  Got(h, e)'
  <2>1. CASE h = hd
    <3>1. PICK k \in 1..Len(received[hd]) : received[hd][k] = e
      BY <1>2, <1>7, <2>1, SMTT(30) DEF Got
    <3>2. k \in DOMAIN received'[hd] /\ received'[hd][k] = e
      BY <1>3, <1>4, <3>1, SMTT(60)
    <3> QED
      BY <2>1, <3>2 DEF Got
  <2>2. CASE h # hd
    BY <1>4, <1>7, <2>2, Zenon DEF Got
  <2> QED
    BY <2>1, <2>2
<1>8. Monotone
  BY <1>1, <1>7, SMTT(30) DEF Monotone, Left, InFlight
<1>9. TypeOK'
  <2>1. pc' \in [Invokers -> {"idle", "enter", "loop", "calling", "renew"}]
    BY <1>1, Zenon DEF IInv, TypeOK
  <2> QED
    BY <1>1, <1>4, <2>1, Zenon DEF IInv, TypeOK
<1>10. LockInv'
  <2>1. ASSUME NEW i \in Invokers, pc'[i] \in {"calling", "renew"}
        PROVE  list'[i] # <<>> /\ Got(Head(list[i]), event[i])'
    <3>1. i = i0
      <4>1. Inside(i) /\ Inside(i0)
        BY <1>1, <1>5, <2>1, Zenon DEF Inside
      <4> QED
        BY <4>1, InsideAlone
    <3> QED
      BY <1>1, <1>6, <3>1, SMTT(30) DEF Got
  <2>2. \A i \in Invokers : pc'[i] # "idle" => event'[i] # 0
    BY <1>1, <1>5 DEF IInv, LockInv
  <2> QED
    BY <1>1, <1>5, <2>1, <2>2, Zenon DEF IInv, LockInv
<1>11. SubscriptionsAreConserved'
  BY <1>1, ConservedKept DEF IInv
<1>12. OwedInv'
  <2>1. ASSUME NEW i \in Invokers, Inside(i)'
        PROVE  Served(i)'
    <3>1. TypeOK /\ Served(i) /\ event[i] # 0
      BY <1>5, <2>1, EventFacts DEF IInv, OwedInv, Inside
    <3> QED
      BY <1>1, <1>8, <3>1, ServedStep, Zenon
  <2>2. \A i \in Invokers : pc'[i] = "enter" => pc[i] = "enter"
    BY <1>5, Zenon
  <2> QED
    BY <1>1, <1>8, <2>1, <2>2, OwedStep, Zenon
<1>13. ClosingInv'
  BY <1>1, <1>5 DEF IInv, ClosingInv, ClearedAfterStop
<1> QED
  BY <1>9, <1>10, <1>11, <1>12, <1>13 DEF IInv


LEMMA ReturnInv ==
  ASSUME IInv, NEW i0 \in Invokers, NEW renew \in BOOLEAN, Return(i0, renew)
  PROVE  IInv'
<1>1. /\ stopped' = stopped /\ subscriptions' = subscriptions /\ invoking' = invoking
      /\ event' = event /\ relayed' = relayed /\ issued' = issued /\ received' = received
      /\ owed' = owed /\ completed' = completed /\ restarts' = restarts /\ closing' = closing
      /\ pc[i0] = "calling"
  BY DEF Return, histories
<1>2. Inside(i0) /\ list[i0] # <<>> /\ Got(Head(list[i0]), event[i0])
  BY <1>1 DEF IInv, LockInv, Inside
<1>3. \A i \in Invokers : i # i0 => ~Inside(i) /\ list[i] = <<>>
  BY <1>2, InsideAlone
<1>4. CASE renew
  <2>1. list' = list /\ status' = status /\ pc' = [pc EXCEPT ![i0] = "renew"]
    BY <1>4, SMTT(30) DEF Return
  <2>2. /\ pc'[i0] = "renew" /\ \A i \in Invokers : i # i0 => pc'[i] = pc[i]
        /\ \A i \in Invokers : Inside(i)' <=> Inside(i)
    BY <1>1, <2>1, Zenon DEF IInv, TypeOK, Inside
  <2>3. Monotone
    BY <1>1, <2>1 DEF Monotone, Left, InFlight, Got
  <2>4. TypeOK'
    <3>1. pc' \in [Invokers -> {"idle", "enter", "loop", "calling", "renew"}]
      BY <2>1, SMTT(30) DEF IInv, TypeOK
    <3> QED
      BY <1>1, <2>1, <3>1, Zenon DEF IInv, TypeOK
  <2>5. LockInv'
    <3>1. \A i \in Invokers : pc'[i] \in {"calling", "renew"} =>
            list'[i] # <<>> /\ Got(Head(list[i]), event[i])'
      BY <1>1, <1>2, <2>1, <2>2, Zenon DEF IInv, LockInv, Got
    <3>2. \A i \in Invokers : pc'[i] # "idle" => event'[i] # 0
      BY <1>1, <2>2 DEF IInv, LockInv
    <3> QED
      BY <1>1, <2>1, <2>2, <3>1, <3>2, Zenon DEF IInv, LockInv
  <2>6. SubscriptionsAreConserved'
    BY <1>1, <2>1, ConservedKept DEF IInv
  <2>7. OwedInv'
    <3>1. ASSUME NEW i \in Invokers, Inside(i)'
          PROVE  Served(i)'
      BY <1>1, <2>1, <2>2, <3>1, SMTT(30) DEF IInv, OwedInv, Served, Got, Left
    <3>2. \A i \in Invokers : pc'[i] = "enter" => pc[i] = "enter"
      BY <2>2, Zenon
    <3> QED
      BY <1>1, <2>3, <3>1, <3>2, OwedStep, Zenon
  <2>8. ClosingInv'
    BY <1>1, <2>2 DEF IInv, ClosingInv, ClearedAfterStop
  <2> QED
    BY <2>4, <2>5, <2>6, <2>7, <2>8 DEF IInv
<1>5. CASE ~renew
  <2> DEFINE hd == Head(list[i0])
  <2>1. /\ list' = [list EXCEPT ![i0] = Tail(@)] /\ pc' = [pc EXCEPT ![i0] = "loop"]
        /\ status' = [status EXCEPT ![hd] = "finished"]
    BY <1>5, Zenon DEF Return
  <2>2. /\ pc'[i0] = "loop" /\ \A i \in Invokers : i # i0 => pc'[i] = pc[i]
        /\ \A i \in Invokers : Inside(i)' <=> Inside(i)
    BY <1>1, <2>1 DEF IInv, TypeOK, Inside
  <2>3. hd \in Handlers
    BY <1>2, TailFacts DEF IInv, TypeOK
  <2>4. /\ status'[hd] = "finished" /\ \A h \in Handlers : h # hd => status'[h] = status[h]
        /\ status' \in [Handlers -> {"new", "listed", "refused", "taken", "finished", "dropped"}]
    BY <2>1, <2>3, Zenon DEF IInv, TypeOK
  <2>5. /\ status[hd] = "taken"
        /\ list' \in [Invokers -> Seq(Handlers)]
        /\ \A i \in Invokers : i # i0 => list'[i] = <<>>
        /\ \A i \in Invokers : OnceEach(list[i], "taken")'
        /\ \A h \in Handlers : status'[h] = "taken" =>
             \E i \in Invokers : \E k \in 1..Len(list'[i]) : list'[i][k] = h
    BY <1>2, <2>1, <2>4, HeadLeaves, Zenon
  <2>6. Monotone
    BY <1>1, <2>4, <2>5, Zenon DEF Monotone, Left, InFlight, Got
  <2>7. TypeOK'
    <3>1. pc' \in [Invokers -> {"idle", "enter", "loop", "calling", "renew"}]
      BY <2>1 DEF IInv, TypeOK
    <3> QED
      BY <1>1, <2>4, <2>5, <3>1, Zenon DEF IInv, TypeOK
  <2>8. LockInv'
    <3>1. \A i \in Invokers : pc'[i] \notin {"calling", "renew"}
      BY <1>3, <2>2, SMTT(30) DEF Inside
    <3>2. \A i \in Invokers : pc'[i] # "idle" => event'[i] # 0
      BY <1>1, <2>2, Zenon DEF IInv, LockInv
    <3> QED
      BY <1>1, <1>2, <2>2, <2>5, <3>1, <3>2, Zenon DEF IInv, LockInv
  <2>9. SubscriptionsAreConserved'
    <3>1. \A h \in Handlers : status'[h] = "listed" <=> status[h] = "listed"
      BY <2>4, <2>5
    <3>2. \A k \in 1..Len(subscriptions) : subscriptions[k] \in Handlers
      BY ElementFacts, Zenon DEF IInv, TypeOK
    <3>3. OnceEach(subscriptions, "listed")'
      BY <1>1, <3>1, <3>2, SMTT(30) DEF IInv, SubscriptionsAreConserved, OnceEach
    <3>4. \A h \in Handlers : status'[h] = "listed" =>
            \E k \in 1..Len(subscriptions') : subscriptions'[k] = h
      BY <1>1, <3>1, Zenon DEF IInv, SubscriptionsAreConserved
    <3> QED
      BY <2>5, <3>3, <3>4 DEF SubscriptionsAreConserved
  <2>10. OwedInv'
    <3>1. ASSUME NEW i \in Invokers, Inside(i)'
          PROVE  Served(i)'
      <4>1. TypeOK /\ Served(i) /\ event[i] # 0
        BY <2>2, <3>1, EventFacts DEF IInv, OwedInv, Inside
      <4>2. \A h \in Handlers : status[h] = "taken" => status'[h] = "taken" \/ Left(h)'
        BY <2>4 DEF Left
      <4> QED
        BY <1>1, <2>6, <4>1, <4>2, ServedStep, Zenon
    <3>2. \A i \in Invokers : pc'[i] = "enter" => pc[i] = "enter"
      BY <2>2, Zenon
    <3> QED
      BY <1>1, <2>6, <3>1, <3>2, OwedStep
  <2>11. ClosingInv'
    BY <1>1, <2>2 DEF IInv, ClosingInv, ClearedAfterStop
  <2> QED
    BY <2>7, <2>8, <2>9, <2>10, <2>11 DEF IInv
<1> QED
  BY <1>4, <1>5

LEMMA RenewInv ==
  ASSUME IInv, NEW i0 \in Invokers, Renew(i0)
  PROVE  IInv'
<1> DEFINE hd == Head(list[i0])
<1>1. /\ stopped' = stopped /\ invoking' = invoking
      /\ event' = event /\ relayed' = relayed /\ issued' = issued /\ received' = received
      /\ owed' = owed /\ completed' = completed /\ restarts' = restarts /\ closing' = closing
      /\ pc[i0] = "renew" /\ pc' = [pc EXCEPT ![i0] = "loop"]
      /\ list' = [list EXCEPT ![i0] = Tail(@)]
      /\ \/ stopped /\ status' = [status EXCEPT ![hd] = "dropped"] /\ subscriptions' = subscriptions
         \/ /\ ~stopped /\ subscriptions' = Append(subscriptions, hd)
            /\ status' = [status EXCEPT ![hd] = "listed"]
  BY SMTT(30) DEF Renew, histories
<1>2. Inside(i0) /\ list[i0] # <<>> /\ Got(hd, event[i0])
  BY <1>1 DEF IInv, LockInv, Inside
<1>3. \A i \in Invokers : i # i0 => ~Inside(i)
  BY <1>2, InsideAlone
<1>4. /\ pc'[i0] = "loop" /\ \A i \in Invokers : i # i0 => pc'[i] = pc[i]
      /\ \A i \in Invokers : Inside(i)' <=> Inside(i)
  BY <1>1 DEF IInv, TypeOK, Inside
<1>5. hd \in Handlers /\ subscriptions \in Seq(Handlers)
  BY <1>2, TailFacts DEF IInv, TypeOK
<1>6. /\ \A h \in Handlers : h # hd => status'[h] = status[h]
      /\ status' \in [Handlers -> {"new", "listed", "refused", "taken", "finished", "dropped"}]
      /\ \/ stopped /\ status'[hd] = "dropped" /\ subscriptions' = subscriptions
         \/ ~stopped /\ status'[hd] = "listed" /\ subscriptions' = Append(subscriptions, hd)
  BY <1>1, <1>5, Zenon DEF IInv, TypeOK
<1>7. /\ status[hd] = "taken"
      /\ list' \in [Invokers -> Seq(Handlers)]
      /\ \A i \in Invokers : i # i0 => list'[i] = <<>>
      /\ \A i \in Invokers : OnceEach(list[i], "taken")'
      /\ \A h \in Handlers : status'[h] = "taken" =>
           \E i \in Invokers : \E k \in 1..Len(list'[i]) : list'[i][k] = h
  BY <1>1, <1>2, <1>6, HeadLeaves, ZenonT(30)
<1>8. Monotone
  BY <1>1, <1>6, <1>7 DEF Monotone, Left, InFlight, Got
<1>9. TypeOK'
  <2>1. pc' \in [Invokers -> {"idle", "enter", "loop", "calling", "renew"}]
    BY <1>1 DEF IInv, TypeOK
  <2>2. subscriptions' \in Seq(Handlers)
    BY <1>5, <1>6, SMTT(30)
  <2> QED
    BY <1>1, <1>6, <1>7, <2>1, <2>2, Zenon DEF IInv, TypeOK
<1>10. LockInv'
  <2>1. \A i \in Invokers : pc'[i] \notin {"calling", "renew"}
    BY <1>3, <1>4, Zenon DEF Inside
  <2>2. \A i \in Invokers : pc'[i] # "idle" => event'[i] # 0
    BY <1>1, <1>4 DEF IInv, LockInv
  <2> QED
    BY <1>1, <1>2, <1>4, <1>7, <2>1, <2>2 DEF IInv, LockInv
<1>11. SubscriptionsAreConserved'
  <2>1. \A k \in 1..Len(subscriptions) : subscriptions[k] \in Handlers /\ subscriptions[k] # hd
    BY <1>5, <1>7, ElementFacts, Zenon DEF IInv, SubscriptionsAreConserved, OnceEach
  <2>2. CASE subscriptions' = subscriptions /\ status'[hd] = "dropped"
    <3>1. OnceEach(subscriptions, "listed")'
      BY <1>6, <2>1, <2>2, SMTT(60) DEF IInv, SubscriptionsAreConserved, OnceEach
    <3>2. \A h \in Handlers : status'[h] = "listed" =>
            \E k \in 1..Len(subscriptions') : subscriptions'[k] = h
      BY <1>6, <2>2 DEF IInv, SubscriptionsAreConserved
    <3> QED
      BY <1>7, <3>1, <3>2, Zenon DEF SubscriptionsAreConserved
  <2>3. CASE subscriptions' = Append(subscriptions, hd) /\ status'[hd] = "listed"
    <3>1. /\ Len(subscriptions') = Len(subscriptions) + 1 /\ Len(subscriptions) \in Nat
          /\ \A k \in 1..Len(subscriptions) : subscriptions'[k] = subscriptions[k]
          /\ subscriptions'[Len(subscriptions) + 1] = hd
      BY <1>5, <2>3, SequenceFacts, SMTT(30)
    <3>2. OnceEach(subscriptions, "listed")'
      BY <1>6, <2>1, <2>3, <3>1 DEF IInv, SubscriptionsAreConserved, OnceEach
    <3>3. ASSUME NEW h \in Handlers, status'[h] = "listed"
          PROVE  \E k \in 1..Len(subscriptions') : subscriptions'[k] = h
      <4>1. CASE h = hd
        BY <3>1, <4>1
      <4>2. CASE h # hd
        <5>1. PICK k \in 1..Len(subscriptions) : subscriptions[k] = h
          BY <1>6, <3>3, <4>2 DEF IInv, SubscriptionsAreConserved
        <5> QED
          BY <3>1, <5>1, SMTT(30)
      <4> QED
        BY <4>1, <4>2
    <3> QED
      BY <1>7, <3>2, <3>3, SMTT(30) DEF SubscriptionsAreConserved
  <2> QED
    BY <1>6, <2>2, <2>3, Zenon
<1>12. OwedInv'
  <2>1. ASSUME NEW i \in Invokers, Inside(i)'
        PROVE  Served(i)'
    <3>1. i = i0
      BY <1>3, <1>4, <2>1, SMTT(30)
    <3>2. TypeOK /\ Served(i) /\ event[i] # 0 /\ event[i] \in 0..issued
      BY <1>4, <2>1, EventFacts, ZenonT(30) DEF IInv, OwedInv, Inside, TypeOK
    <3>3. \A h \in Handlers : h = hd => Got(h, event[i])'
      BY <1>1, <1>2, <3>1 DEF Got
    <3>4. \A h \in Handlers : status[h] = "taken" => status'[h] = "taken" \/ Got(h, event[i])'
      BY <1>6, <3>3, Zenon
    <3> QED
      BY <1>1, <1>8, <3>2, <3>4, ServedStep, Zenon
  <2>2. \A i \in Invokers : pc'[i] = "enter" => pc[i] = "enter"
    BY <1>4
  <2> QED
    BY <1>1, <1>8, <2>1, <2>2, OwedStep, Zenon
<1>13. ClosingInv'
  <2>1. CASE stopped
    BY <1>1, <1>4, <1>6, <2>1, Zenon DEF IInv, ClosingInv, ClearedAfterStop
  <2>2. CASE ~stopped
    BY <1>1, <2>2, Zenon DEF IInv, ClosingInv, ClearedAfterStop
  <2> QED
    BY <2>1, <2>2, Zenon
<1> QED
  BY <1>9, <1>10, <1>11, <1>12, <1>13 DEF IInv


LEMMA LeaveInv ==
  ASSUME IInv, NEW i0 \in Invokers, Leave(i0)
  PROVE  IInv'
<1>1. /\ stopped' = stopped /\ subscriptions' = subscriptions /\ list' = list
      /\ event' = event /\ relayed' = relayed /\ status' = status /\ issued' = issued
      /\ received' = received /\ owed' = owed /\ restarts' = restarts /\ closing' = closing
      /\ pc[i0] = "loop" /\ list[i0] = <<>> /\ pc' = [pc EXCEPT ![i0] = "idle"]
      /\ invoking' = Nobody /\ completed' = completed \cup {event[i0]}
  BY Zenon DEF Leave
<1>2. Inside(i0) /\ event[i0] \in 1..issued
  BY <1>1, EventFacts, SMTT(30) DEF Inside
<1>3. \A i \in Invokers : ~Inside(i)' /\ list[i] = <<>>
  BY <1>1, <1>2, InsideAlone, Zenon DEF Inside, IInv, TypeOK
<1>4. /\ pc'[i0] = "idle" /\ \A i \in Invokers : i # i0 => pc'[i] = pc[i]
  BY <1>1, Zenon DEF IInv, TypeOK
<1>5. TypeOK'
  <2>1. pc' \in [Invokers -> {"idle", "enter", "loop", "calling", "renew"}]
    BY <1>1 DEF IInv, TypeOK
  <2>2. completed' \in SUBSET (1..issued')
    BY <1>1, <1>2, Zenon DEF IInv, TypeOK
  <2>3. invoking' \in Invokers \cup {Nobody}
    BY <1>1, Zenon
  <2> QED
    BY <1>1, <2>1, <2>2, <2>3, Zenon DEF IInv, TypeOK
<1>6. LockInv'
  <2>1. \A i \in Invokers : pc'[i] \notin {"calling", "renew"}
    BY <1>3, Zenon DEF Inside
  <2>2. \A i \in Invokers : pc'[i] # "idle" => event'[i] # 0
    BY <1>1, <1>4, Zenon DEF IInv, LockInv
  <2> QED
    BY <1>1, <1>3, <2>1, <2>2 DEF LockInv
<1>7. SubscriptionsAreConserved'
  BY <1>1, ConservedKept, Zenon DEF IInv
<1>8. OwedInv'
  <2>1. \A h \in Handlers : status[h] # "taken"
    BY <1>3 DEF IInv, SubscriptionsAreConserved
  <2>2. event[i0] \in 1..MaxEvents /\ owed[event[i0]] \subseteq Handlers
    <3>1. event[i0] \in 1..MaxEvents
      BY <1>2, SubscriberAssumption, SMTT(30) DEF IInv, TypeOK
    <3> QED
      BY <3>1 DEF IInv, TypeOK
  <2>3. \A h \in owed[event[i0]] : Got(h, event[i0]) \/ Left(h)
    BY <1>2, <2>1, <2>2, ZenonT(30) DEF IInv, OwedInv, Served
  <2>4. NobodyMissesAnEvent'
    <3>1. \A e \in completed : \A h \in owed[e] : Got(h, e) \/ Left(h)
      BY Zenon DEF IInv, OwedInv, NobodyMissesAnEvent
    <3>2. \A e \in completed' : e \in completed \/ e = event[i0]
      BY <1>1, Zenon
    <3>3. ASSUME NEW e \in completed', NEW h \in owed'[e]
          PROVE  Got(h, e)' \/ Left(h)'
      <4>1. Got(h, e) \/ Left(h)
        BY <1>1, <2>3, <3>1, <3>2, Zenon
      <4> QED
        BY <1>1, <4>1, Zenon DEF Got, Left
    <3> QED
      BY <3>3, Zenon DEF NobodyMissesAnEvent
  <2>5. \A k \in 1..Len(relayed') : Pending(relayed[k])'
    BY <1>1, Zenon DEF IInv, OwedInv, Pending, InFlight, Left
  <2>6. \A i \in Invokers : pc'[i] = "enter" => Pending(event[i])'
    BY <1>1, <1>4, Zenon DEF IInv, OwedInv, Pending, InFlight, Left
  <2> QED
    BY <1>3, <2>4, <2>5, <2>6, SMTT(30) DEF OwedInv
<1>9. ClosingInv'
  <2>1. event[i0] \in closing => subscriptions = <<>>
    BY <1>2, Zenon DEF IInv, ClosingInv
  <2>2. ClearedAfterStop'
    BY <1>1, <2>1, Zenon DEF IInv, ClosingInv, ClearedAfterStop
  <2>3. closing' # {} => stopped'
    BY <1>1 DEF IInv, ClosingInv
  <2> QED
    BY <1>3, <2>2, <2>3 DEF ClosingInv
<1> QED
  BY <1>5, <1>6, <1>7, <1>8, <1>9 DEF IInv

LEMMA InitInv ==
  ASSUME Init
  PROVE  IInv
<1>1. TypeOK
  BY SubscriberAssumption DEF Init, TypeOK
<1>2. \A i \in Invokers : ~Inside(i) /\ list[i] = <<>> /\ pc[i] = "idle"
  BY DEF Init, Inside
<1>3. \A h \in Handlers : status[h] = "new"
  BY Zenon DEF Init
<1>4. LockInv
  BY <1>2, Zenon DEF LockInv
<1>5. SubscriptionsAreConserved
  BY <1>2, <1>3 DEF Init, SubscriptionsAreConserved, OnceEach
<1>6. OwedInv
  BY <1>2 DEF Init, OwedInv, NobodyMissesAnEvent
<1>7. ClosingInv
  BY <1>2 DEF Init, ClosingInv, ClearedAfterStop
<1> QED
  BY <1>1, <1>4, <1>5, <1>6, <1>7 DEF IInv

LEMMA StutterInv ==
  ASSUME IInv, UNCHANGED vars
  PROVE  IInv'
<1>1. /\ stopped' = stopped /\ subscriptions' = subscriptions /\ invoking' = invoking
      /\ pc' = pc /\ list' = list /\ event' = event /\ relayed' = relayed /\ status' = status
      /\ issued' = issued /\ received' = received /\ owed' = owed /\ completed' = completed
      /\ restarts' = restarts /\ closing' = closing
  BY Zenon DEF vars, lists, histories
<1>2. TypeOK'
  BY <1>1, Zenon DEF IInv, TypeOK
<1>3. LockInv'
  BY <1>1 DEF IInv, LockInv, Inside, Got
<1>4. SubscriptionsAreConserved'
  BY <1>1, ConservedKept, Zenon DEF IInv
<1>5. OwedInv'
  BY <1>1, SMTT(60) DEF IInv, OwedInv, Pending, Served, NobodyMissesAnEvent, Inside, Got, Left, InFlight
<1>6. ClosingInv'
  BY <1>1 DEF IInv, ClosingInv, ClearedAfterStop, Inside
<1> QED
  BY <1>2, <1>3, <1>4, <1>5, <1>6 DEF IInv

(* The inductive invariant holds for any number of handlers, invoking      *)
(* threads and events, of a subscriber and of a resubscriber: types, the   *)
(* mutex discipline of do_invoke and what every event is still owed.       *)
THEOREM Invariance == Spec => []IInv
<1>1. IInv /\ [Next]_vars => IInv'
  <2> SUFFICES ASSUME IInv, [Next]_vars
               PROVE  IInv'
    OBVIOUS
  <2>1. ASSUME NEW i \in Invokers, Step(i)
        PROVE  IInv'
    BY <2>1, EnterInv, CallInv, ReturnInv, RenewInv, LeaveInv DEF Step
  <2> QED
    BY <2>1, StartInv, StopInv, SubscribeInv, InvokeInv, RelayInv, RunRelayedInv, StutterInv
       DEF Next
<1> QED
  BY <1>1, InitInv, PTL DEF Spec

(* Handlers of one list never run at the same time.                        *)
THEOREM OneHandler == Spec => []OneHandlerAtATime
<1>1. IInv => OneHandlerAtATime
  BY DEF IInv, LockInv, OneHandlerAtATime, Inside
<1> QED
  BY <1>1, Invariance, PTL

(* The swap and the resubscription neither lose nor duplicate a handler.   *)
THEOREM Conserved == Spec => []SubscriptionsAreConserved
<1>1. IInv => SubscriptionsAreConserved
  BY Zenon DEF IInv
<1> QED
  BY <1>1, Invariance, PTL

(* Who was subscribed when an event was issued gets it or has left.        *)
THEOREM NobodyMisses == Spec => []NobodyMissesAnEvent
<1>1. IInv => NobodyMissesAnEvent
  BY DEF IInv, OwedInv
<1> QED
  BY <1>1, Invariance, PTL

(* stop() and then a completed invoke() leave the list empty, which is     *)
(* what the destructor asserts.                                            *)
THEOREM Cleared == Spec => []ClearedAfterStop
<1>1. IInv => ClearedAfterStop
  BY DEF IInv, ClosingInv
<1> QED
  BY <1>1, Invariance, PTL

=============================================================================
