------------------------------ MODULE Pending -------------------------------
(***************************************************************************)
(* libbitcoin::pending: a collection of pointers to elements (channels,    *)
(* connectors) that can all be stopped, and closed, together.  Every       *)
(* method holds mutex_, an upgrade mutex, so each is one step, but for     *)
(* the loop of stop(), which runs on a copy outside the lock, and the loop *)
(* of close(), which holds the lock while the elements free resources.     *)
(***************************************************************************)
EXTENDS FiniteSets, Naturals, TLAPS

CONSTANTS
  Elements,       \* elements, each with an owner that stores and removes it
  Matched,        \* those stored with a finder, which refuses duplicates
  KeyOf,          \* what the finder compares, say the address
  Threads,        \* threads that call stop and close
  Nobody,         \* not a thread: mutex_ is free
  MaxStored       \* bound on how often an element is in the collection

ASSUME PendingAssumption ==
  /\ Matched \subseteq Elements
  /\ KeyOf \in [Elements -> Nat]
  /\ Nobody \notin Threads
  /\ MaxStored \in Nat

VARIABLES
  stopped,        \* stopped_
  elements,       \* elements_: how often each element is in it
  closing,        \* the thread inside close(), which holds mutex_
  toClose,        \* elements its loop has not reached
  copy,           \* of each thread inside stop(): elements not reached yet
  taken,          \* history: the elements when stop() took effect
  halted          \* history: how often stop was called on each element

vars == <<stopped, elements, closing, toClose, copy, taken, halted>>

None == [e \in Elements |-> 0]

Init ==
  /\ stopped = FALSE
  /\ elements = None
  /\ closing = Nobody
  /\ toClose = None
  /\ copy = [t \in Threads |-> None]
  /\ taken = None
  /\ halted = None

(* elements_.push_back(element).                                           *)
PushBack(e) ==
  /\ elements[e] < MaxStored
  /\ elements' = [elements EXCEPT ![e] = @ + 1]
  /\ UNCHANGED <<stopped, closing, toClose, copy, taken, halted>>

(* Fault: stopped_ is not tested.                                          *)
StoreAlways(e) ==
  /\ closing = Nobody
  /\ e \in Elements \ Matched
  /\ PushBack(e)

(* store(element): appended, also when it is there already, or             *)
(* service_stopped and nothing changes.                                    *)
Store(e) ==
  /\ closing = Nobody
  /\ e \in Elements \ Matched
  /\ ~stopped
  /\ PushBack(e)

Found(e) == \E f \in Elements : elements[f] > 0 /\ KeyOf[f] = KeyOf[e]

(* Fault: the elements are not searched for a match.                       *)
StoreUnmatched(e) ==
  /\ closing = Nobody
  /\ e \in Matched
  /\ ~stopped
  /\ PushBack(e)

(* store(element, match): appended, or service_stopped or address_in_use.  *)
StoreUnique(e) ==
  /\ closing = Nobody
  /\ e \in Matched
  /\ ~stopped /\ ~Found(e)
  /\ PushBack(e)

(* The first of the pointers to the element is erased.                     *)
Remove(e) ==
  /\ closing = Nobody
  /\ elements[e] > 0
  /\ elements' = [elements EXCEPT ![e] = @ - 1]
  /\ UNCHANGED <<stopped, closing, toClose, copy, taken, halted>>

(* Fault: stop() sets the flag and leaves the elements alone.              *)
StopNobody(t) ==
  /\ closing = Nobody
  /\ copy[t] = None
  /\ ~stopped
  /\ stopped' = TRUE
  /\ taken' = elements
  /\ UNCHANGED <<elements, closing, toClose, copy, halted>>

(* stop(), under mutex_: only the first call copies the elements.          *)
Stop(t) ==
  /\ closing = Nobody
  /\ copy[t] = None
  /\ ~stopped
  /\ stopped' = TRUE
  /\ copy' = [copy EXCEPT ![t] = elements]
  /\ taken' = elements
  /\ UNCHANGED <<elements, closing, toClose, halted>>

(* stop(), outside mutex_: the next element of the copy.                   *)
StopOne(t, e) ==
  /\ copy[t][e] > 0
  /\ copy' = [copy EXCEPT ![t][e] = @ - 1]
  /\ halted' = [halted EXCEPT ![e] = @ + 1]
  /\ UNCHANGED <<stopped, elements, closing, toClose, taken>>

(* close(): takes mutex_, which it keeps until the last element is closed. *)
Close(t) ==
  /\ closing = Nobody
  /\ copy[t] = None
  /\ closing' = t
  /\ toClose' = elements
  /\ UNCHANGED <<stopped, elements, copy, taken, halted>>

CloseOne(t, e) ==
  /\ closing = t
  /\ toClose[e] > 0
  /\ toClose' = [toClose EXCEPT ![e] = @ - 1]
  /\ UNCHANGED <<stopped, elements, closing, copy, taken, halted>>

CloseEnd(t) ==
  /\ closing = t
  /\ toClose = None
  /\ elements' = None
  /\ closing' = Nobody
  /\ UNCHANGED <<stopped, toClose, copy, taken, halted>>

Loop(t) ==
  \/ \E e \in Elements : StopOne(t, e) \/ CloseOne(t, e)
  \/ CloseEnd(t)

Next ==
  \/ \E e \in Elements : Store(e) \/ StoreUnique(e) \/ Remove(e)
  \/ \E t \in Threads : Stop(t) \/ Close(t) \/ Loop(t)

Spec == Init /\ [][Next]_vars

(* The loops go on: stop and close of an element return.                   *)
FairSpec == Spec /\ \A t \in Threads : WF_vars(Loop(t))

-----------------------------------------------------------------------------
TypeOK ==
  /\ stopped \in BOOLEAN
  /\ elements \in [Elements -> Nat]
  /\ closing \in Threads \cup {Nobody}
  /\ toClose \in [Elements -> Nat]
  /\ copy \in [Threads -> [Elements -> Nat]]
  /\ taken \in [Elements -> Nat]
  /\ halted \in [Elements -> Nat]

(* An element that store() accepted does not escape stop(), whatever the   *)
(* order of the two: it was stopped, or a thread still has it in its copy. *)
NoneEscapesStop ==
  stopped => \A e \in Elements :
    elements[e] > 0 => halted[e] > 0 \/ \E t \in Threads : copy[t][e] > 0

(* At most one element of a key is stored with a finder at any time, and   *)
(* that once.                                                              *)
MatchesAreUnique ==
  \A e, f \in Matched :
    elements[e] > 0 /\ elements[f] > 0 /\ KeyOf[e] = KeyOf[f] => e = f /\ elements[e] = 1

(* "This is idempotent": however often stop() is called, and with a loop   *)
(* of an earlier call still under way, an element is stopped at most as    *)
(* often as it was in the collection when the first call took effect.      *)
StoppedAsStored == \A e \in Elements : halted[e] <= taken[e]

(* Every element that is stored when stop() takes effect is stopped.       *)
AllAreStopped ==
  \A e \in Elements : (stopped /\ elements[e] > 0 /\ halted[e] = 0) ~> (halted[e] > 0)

(* Only the thread whose stop() set stopped_ has a copy, taken once: what  *)
(* it has not reached and what was stopped make up what was taken, and     *)
(* nothing was stored since.                                               *)
CopiedOnce ==
  /\ ~stopped => taken = None /\ halted = None /\ \A t \in Threads : copy[t] = None
  /\ stopped => \E t \in Threads :
       /\ \A u \in Threads \ {t} : copy[u] = None
       /\ \A e \in Elements : taken[e] = copy[t][e] + halted[e] /\ elements[e] <= taken[e]

IInv ==
  /\ TypeOK
  /\ CopiedOnce
  /\ MatchesAreUnique

-----------------------------------------------------------------------------
(* A store keeps the invariant when it keeps the matches unique.           *)
LEMMA PushBackInv ==
  ASSUME IInv, ~stopped, NEW e \in Elements, PushBack(e), e \in Matched => ~Found(e)
  PROVE  IInv'
<1>1. /\ elements' = [elements EXCEPT ![e] = @ + 1] /\ elements \in [Elements -> Nat]
      /\ stopped' = stopped /\ closing' = closing /\ toClose' = toClose /\ copy' = copy
      /\ taken' = taken /\ halted' = halted
  BY DEF PushBack, IInv, TypeOK
<1>2. elements' \in [Elements -> Nat] /\ \A f \in Elements \ {e} : elements'[f] = elements[f]
  BY <1>1
<1>3. TypeOK'
  BY <1>1, <1>2 DEF IInv, TypeOK
<1>4. CopiedOnce'
  BY <1>1 DEF IInv, CopiedOnce
<1>5. MatchesAreUnique'
  <2> SUFFICES ASSUME NEW f \in Matched, NEW g \in Matched,
                      elements'[f] > 0, elements'[g] > 0, KeyOf[f] = KeyOf[g]
               PROVE  f = g /\ elements'[f] = 1
    BY DEF MatchesAreUnique
  <2>1. f \in Elements /\ g \in Elements
    BY PendingAssumption
  <2>2. e \in Matched => elements[e] = 0 /\ \A h \in Elements : KeyOf[h] = KeyOf[e] => elements[h] = 0
    BY <1>1 DEF Found
  <2>3. CASE e \notin {f, g}
    BY <1>2, <2>1, <2>3 DEF IInv, MatchesAreUnique
  <2>4. CASE e \in {f, g}
    <3>1. elements[f] = 0 /\ elements[g] = 0
      BY <2>1, <2>2, <2>4
    <3> QED
      BY <1>1, <1>2, <2>1, <2>4, <3>1
  <2> QED
    BY <2>3, <2>4
<1> QED
  BY <1>3, <1>4, <1>5 DEF IInv

(* The inductive invariant holds for any elements, keys and threads.       *)
THEOREM Invariance == Spec => []IInv
<1>1. Init => IInv
  <2> SUFFICES ASSUME Init PROVE IInv
    OBVIOUS
  <2>1. None \in [Elements -> Nat] /\ \A e \in Elements : ~(None[e] > 0)
    BY DEF None
  <2>2. TypeOK
    BY <2>1 DEF Init, TypeOK
  <2>3. CopiedOnce
    BY DEF Init, CopiedOnce
  <2>4. MatchesAreUnique
    BY <2>1, PendingAssumption DEF Init, MatchesAreUnique
  <2> QED
    BY <2>2, <2>3, <2>4 DEF IInv
<1>2. IInv /\ [Next]_vars => IInv'
  <2> SUFFICES ASSUME IInv, [Next]_vars
               PROVE  IInv'
    OBVIOUS
  <2> USE DEF IInv, TypeOK, MatchesAreUnique, CopiedOnce
  <2>1. ASSUME NEW e \in Elements, Store(e)
        PROVE  IInv'
    BY <2>1, PushBackInv, Zenon DEF Store
  <2>2. ASSUME NEW e \in Elements, StoreUnique(e)
        PROVE  IInv'
    BY <2>2, PushBackInv, Zenon DEF StoreUnique
  <2>3. ASSUME NEW e \in Elements, Remove(e)
        PROVE  IInv'
    <3>1. /\ elements' \in [Elements -> Nat]
          /\ \A f \in Elements : elements'[f] <= elements[f]
      BY <2>3 DEF Remove
    <3>2. MatchesAreUnique'
      BY <2>3, <3>1, PendingAssumption DEF Remove
    <3> QED
      BY <2>3, <3>1, <3>2 DEF Remove
  <2>4. ASSUME NEW t \in Threads, Stop(t)
        PROVE  IInv'
    BY <2>4 DEF Stop, None
  <2>5. ASSUME NEW t \in Threads, Close(t)
        PROVE  IInv'
    BY <2>5 DEF Close
  <2>6. ASSUME NEW t \in Threads, NEW e \in Elements, StopOne(t, e)
        PROVE  IInv'
    <3>1. /\ copy' \in [Threads -> [Elements -> Nat]] /\ halted' \in [Elements -> Nat]
          /\ copy'[t][e] + halted'[e] = copy[t][e] + halted[e]
          /\ \A f \in Elements \ {e} : copy'[t][f] = copy[t][f] /\ halted'[f] = halted[f]
          /\ \A u \in Threads \ {t} : copy'[u] = copy[u]
      <4>1. /\ copy \in [Threads -> [Elements -> Nat]] /\ halted \in [Elements -> Nat]
            /\ copy[t] \in [Elements -> Nat] /\ copy[t][e] > 0
            /\ copy' = [copy EXCEPT ![t][e] = @ - 1] /\ halted' = [halted EXCEPT ![e] = @ + 1]
        BY <2>6 DEF StopOne
      <4>2. copy[t][e] \in Nat /\ halted[e] \in Nat
        BY <4>1
      <4>3. /\ copy'[t] = [copy[t] EXCEPT ![e] = @ - 1]
            /\ \A u \in Threads \ {t} : copy'[u] = copy[u]
            /\ DOMAIN copy' = Threads
        BY <4>1
      <4>4. copy'[t] \in [Elements -> Nat] /\ copy'[t][e] = copy[t][e] - 1
        BY <4>1, <4>2, <4>3
      <4>5. halted' \in [Elements -> Nat] /\ halted'[e] = halted[e] + 1
        BY <4>1, <4>2
      <4>6. copy' \in [Threads -> [Elements -> Nat]]
        BY <4>1, <4>3, <4>4
      <4> QED
        BY <4>1, <4>2, <4>3, <4>4, <4>5, <4>6
    <3>2. copy[t] # None
      BY <2>6 DEF StopOne, None
    <3>3. stopped /\ stopped' = stopped /\ elements' = elements /\ taken' = taken
          /\ closing' = closing /\ toClose' = toClose
      BY <2>6, <3>2 DEF StopOne
    <3>4. CopiedOnce'
      <4>1. /\ \A u \in Threads \ {t} : copy[u] = None
            /\ \A f \in Elements : taken[f] = copy[t][f] + halted[f] /\ elements[f] <= taken[f]
        BY <3>2, <3>3
      <4>2. \A f \in Elements : copy'[t][f] + halted'[f] = copy[t][f] + halted[f]
        BY <3>1
      <4> QED
        BY <3>1, <3>3, <4>1, <4>2
    <3> QED
      BY <3>1, <3>3, <3>4
  <2>7. ASSUME NEW t \in Threads, NEW e \in Elements, CloseOne(t, e)
        PROVE  IInv'
    BY <2>7 DEF CloseOne
  <2>8. ASSUME NEW t \in Threads, CloseEnd(t)
        PROVE  IInv'
    BY <2>8, PendingAssumption DEF CloseEnd, None
  <2>9. CASE UNCHANGED vars
    BY <2>9 DEF vars
  <2> QED
    BY <2>1, <2>2, <2>3, <2>4, <2>5, <2>6, <2>7, <2>8, <2>9 DEF Next, Loop
<1> QED
  BY <1>1, <1>2, PTL DEF Spec

(* No element that store() accepted escapes stop().                        *)
THEOREM NoneEscapes == Spec => []NoneEscapesStop
<1>1. IInv => NoneEscapesStop
  BY DEF IInv, TypeOK, CopiedOnce, NoneEscapesStop
<1> QED
  BY <1>1, Invariance, PTL

(* The finder keeps the keys of the elements stored with it unique.        *)
THEOREM Unique == Spec => []MatchesAreUnique
<1>1. IInv => MatchesAreUnique
  BY DEF IInv
<1> QED
  BY <1>1, Invariance, PTL

(* No element is stopped more often than it was in the collection.         *)
THEOREM Once == Spec => []StoppedAsStored
<1>1. IInv => StoppedAsStored
  BY DEF IInv, TypeOK, CopiedOnce, None, StoppedAsStored
<1> QED
  BY <1>1, Invariance, PTL

=============================================================================
