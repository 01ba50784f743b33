-------------------------- MODULE ThreadpoolProofs --------------------------
(***************************************************************************)
(* For any set of jobs, any number of threads and any number of restarts,  *)
(* the pool loses no job, runs none twice and keeps the order of ordered   *)
(* jobs.                                                                   *)
(***************************************************************************)
EXTENDS Threadpool, TLAPS

Injective(s) == \A i, j \in DOMAIN s : s[i] = s[j] => i = j

Running == {running[t] : t \in Busy}

TypeOK ==
  /\ stopped \in BOOLEAN /\ work \in BOOLEAN
  /\ queue \in Seq(Jobs) /\ strand \in Seq(Jobs)
  /\ posted \in Seq(Jobs) /\ done \in Seq(Jobs)
  /\ threads \in [Threads -> {"new", "run", "ended"}]
  /\ running \in [Threads -> Jobs \cup {Nothing}]
  /\ owner \in {"spawn", "up", "down", "aborted", "joined"}
  /\ promised \subseteq Range(posted)

(* A posted job is in exactly one place.                                   *)
OnePlace ==
  /\ Range(posted) = Range(queue) \cup Range(strand) \cup Running \cup Range(done)
  /\ Range(queue) \cap (Range(strand) \cup Running \cup Range(done)) = {}
  /\ Range(strand) \cap (Running \cup Range(done)) = {}
  /\ Running \cap Range(done) = {}
  /\ Injective(posted) /\ Injective(queue) /\ Injective(strand) /\ Injective(done)
  /\ \A t, u \in Busy : running[t] = running[u] => t = u

(* Of two ordered jobs, a posted before b: when b has run a ran before it, *)
(* when b runs a has run, and when b waits on the strand a is before it    *)
(* there, or runs, or has run.                                             *)
InOrder(a, b) ==
  /\ \A l \in DOMAIN done : done[l] = b => \E k \in 1..(l - 1) : done[k] = a
  /\ b \in Running => a \in Range(done)
  /\ \A l \in DOMAIN strand : strand[l] = b =>
       a \in Range(done) \cup Running \/ \E k \in 1..(l - 1) : strand[k] = a

Earlier(a, b) == \E i, j \in DOMAIN posted : i < j /\ posted[i] = a /\ posted[j] = b

OrderInv ==
  /\ Range(queue) \cap OrderedJobs = {}
  /\ \A a, b \in OrderedJobs : Earlier(a, b) => InOrder(a, b)

(* The service is stopped only after shutdown, when nothing is left to do, *)
(* or by abort; threads end only when it is stopped.                       *)
ServiceInv ==
  /\ owner \in {"spawn", "up"} => ~stopped /\ (Spawned # {} => work)
  /\ \A t \in Busy : threads[t] = "run"
  /\ \A t \in Threads : threads[t] = "ended" => stopped
  /\ owner = "joined" => Spawned = {} /\ promised \subseteq Range(done)
  /\ owner = "down" => /\ promised # {} => Spawned # {}
                       /\ stopped => promised \subseteq Range(done)
  /\ owner = "aborted" => promised = {}

IInv == TypeOK /\ OnePlace /\ OrderInv /\ ServiceInv

-----------------------------------------------------------------------------
LEMMA AppendFacts ==
  ASSUME NEW S, NEW s \in Seq(S), NEW e \in S
  PROVE  /\ Append(s, e) \in Seq(S)
         /\ Len(Append(s, e)) = Len(s) + 1
         /\ DOMAIN s = 1..Len(s) /\ Len(s) \in Nat
         /\ DOMAIN Append(s, e) = 1..(Len(s) + 1)
         /\ \A i \in 1..Len(s) : Append(s, e)[i] = s[i]
         /\ Append(s, e)[Len(s) + 1] = e
OBVIOUS

LEMMA AppendPlaces ==
  ASSUME NEW S, NEW s \in Seq(S), NEW e \in S
  PROVE  /\ Range(Append(s, e)) = Range(s) \cup {e}
         /\ Injective(s) /\ e \notin Range(s) => Injective(Append(s, e))
<1> DEFINE t == Append(s, e)
<1>1. /\ DOMAIN s = 1..Len(s) /\ Len(s) \in Nat /\ DOMAIN t = 1..(Len(s) + 1)
      /\ \A i \in 1..Len(s) : t[i] = s[i]
      /\ t[Len(s) + 1] = e
  BY AppendFacts
<1> HIDE DEF t
<1>2. Range(t) = Range(s) \cup {e}
  BY <1>1 DEF Range
<1>3. ASSUME Injective(s), e \notin Range(s) PROVE Injective(t)
  BY <1>1, <1>3 DEF Range, Injective
<1> QED
  BY <1>2, <1>3 DEF t

LEMMA TailFacts ==
  ASSUME NEW S, NEW s \in Seq(S), s # <<>>
  PROVE  /\ Tail(s) \in Seq(S) /\ Head(s) \in S /\ Head(s) = s[1]
         /\ DOMAIN s = 1..Len(s) /\ Len(s) \in Nat \ {0}
         /\ DOMAIN Tail(s) = 1..(Len(s) - 1)
         /\ \A i \in 1..(Len(s) - 1) : Tail(s)[i] = s[i + 1]
OBVIOUS

LEMMA TailPlaces ==
  ASSUME NEW S, NEW s \in Seq(S), s # <<>>, Injective(s)
  PROVE  /\ Range(Tail(s)) = Range(s) \ {Head(s)} /\ Head(s) \in Range(s)
         /\ Injective(Tail(s))
<1> DEFINE t == Tail(s)
<1>1. /\ Head(s) = s[1] /\ DOMAIN s = 1..Len(s) /\ Len(s) \in Nat \ {0}
      /\ DOMAIN t = 1..(Len(s) - 1)
      /\ \A i \in 1..(Len(s) - 1) : t[i] = s[i + 1]
  BY TailFacts
<1> HIDE DEF t
<1>2. Head(s) \in Range(s)
  BY <1>1 DEF Range
<1>3. Injective(t)
  BY <1>1, SMTT(30) DEF Injective
<1>4. Range(t) \subseteq Range(s) \ {Head(s)}
  BY <1>1 DEF Range, Injective
<1>5. ASSUME NEW x \in Range(s), x # Head(s) PROVE x \in Range(t)
  <2>1. PICK i \in 1..Len(s) : x = s[i]
    BY <1>1 DEF Range
  <2>2. i - 1 \in 1..(Len(s) - 1) /\ s[(i - 1) + 1] = x
    BY <1>1, <1>5, <2>1
  <2>3. t[i - 1] = x
    BY <1>1, <2>2
  <2> QED
    BY <1>1, <2>2, <2>3 DEF Range
<1> QED
  BY <1>2, <1>3, <1>4, <1>5 DEF t

(* A thread that is idle takes a job.                                      *)
LEMMA Starting ==
  ASSUME TypeOK, NEW t \in Threads, NEW j \in Jobs, running[t] = Nothing,
         running' = [running EXCEPT ![t] = j]
  PROVE  /\ running' \in [Threads -> Jobs \cup {Nothing}]
         /\ Busy' = Busy \cup {t} /\ Running' = Running \cup {j}
         /\ \A u \in Busy : u # t /\ running'[u] = running[u]
         /\ running'[t] = j
<1>1. /\ running' \in [Threads -> Jobs \cup {Nothing}] /\ j # Nothing
      /\ running'[t] = j /\ \A u \in Threads \ {t} : running'[u] = running[u]
  BY ThreadpoolAssumption DEF TypeOK
<1>2. Busy' = Busy \cup {t} /\ t \notin Busy
  BY <1>1 DEF Busy
<1>3. \A u \in Busy : u # t /\ u \in Threads /\ running'[u] = running[u]
  BY <1>1, <1>2 DEF Busy
<1>4. Running' = Running \cup {j}
  BY <1>1, <1>2, <1>3 DEF Running
<1> QED
  BY <1>1, <1>2, <1>3, <1>4

LEMMA InitInv == Init => IInv
<1> SUFFICES ASSUME Init PROVE IInv
  OBVIOUS
<1> USE DEF Init
<1>1. Range(<<>>) = {} /\ <<>> \in Seq(Jobs) /\ DOMAIN <<>> = {} /\ Busy = {} /\ Spawned = {}
  BY DEF Range, Busy, Spawned
<1>2. TypeOK
  BY <1>1, Zenon DEF TypeOK
<1>3. OnePlace /\ OrderInv /\ ServiceInv
  BY <1>1 DEF OnePlace, OrderInv, ServiceInv, Running, Injective, Earlier
<1> QED
  BY <1>2, <1>3 DEF IInv

(* What the owner does leaves every job where it is.                       *)
LEMMA OwnInv ==
  ASSUME IInv, Own
  PROVE  IInv'
<1>1. /\ queue' = queue /\ strand' = strand /\ running' = running
      /\ done' = done /\ posted' = posted
  BY Zenon DEF Own, Spawn, SpawnOnce, SpawnEnd, Shutdown, Abort, Join, service, histories
<1>2. Busy' = Busy /\ Running' = Running
  BY <1>1 DEF Busy, Running
<1>3. OnePlace' /\ OrderInv'
  <2>1. OnePlace'
    BY <1>1, <1>2 DEF IInv, OnePlace, Injective
  <2>2. OrderInv'
    BY <1>1, <1>2 DEF IInv, OrderInv, Earlier, InOrder
  <2> QED
    BY <2>1, <2>2
<1>4. TypeOK' /\ ServiceInv'
  <2> USE DEF IInv, TypeOK, ServiceInv
  <2>1. CASE Spawn
    <3>1. /\ stopped' = FALSE /\ owner' = "spawn" /\ work' = work /\ threads' = threads
          /\ promised' = promised /\ owner \in {"up", "joined"}
      BY <2>1 DEF Spawn, histories
    <3>2. Spawned' = Spawned /\ (Spawned # {} => work)
      BY <3>1 DEF Spawned
    <3>3. \A t \in Threads : threads[t] # "ended"
      BY <3>1 DEF Spawned
    <3> QED
      BY <1>1, <1>2, <3>1, <3>2, <3>3, Zenon
  <2>2. CASE \E t \in Threads : SpawnOnce(t)
    <3>1. PICK t \in Threads : SpawnOnce(t)
      BY <2>2
    <3>2. /\ owner = "spawn" /\ owner' = owner /\ threads[t] = "new" /\ work' = TRUE
          /\ threads' = [threads EXCEPT ![t] = "run"] /\ stopped' = stopped
          /\ promised' = promised
      BY <3>1 DEF SpawnOnce, histories
    <3>3. \A u \in Threads : threads'[u] = IF u = t THEN "run" ELSE threads[u]
      BY <3>2
    <3>4. threads' \in [Threads -> {"new", "run", "ended"}]
      BY <3>2
    <3>5. t \notin Busy /\ Busy \subseteq Threads
      BY <3>2 DEF Busy
    <3> QED
      BY <1>1, <1>2, <3>2, <3>3, <3>4, <3>5
  <2>3. CASE SpawnEnd
    <3>1. /\ owner = "spawn" /\ owner' = "up" /\ threads' = threads /\ work' = work
          /\ stopped' = stopped /\ promised' = promised
      BY <2>3 DEF SpawnEnd, service, histories
    <3>2. Spawned' = Spawned
      BY <3>1 DEF Spawned
    <3> QED
      BY <1>1, <1>2, <3>1, <3>2
  <2>4. CASE Shutdown
    <3>1. /\ owner = "up" /\ owner' = "down" /\ threads' = threads /\ work' = FALSE
          /\ stopped' = (stopped \/ ~Outstanding(FALSE, queue, strand, Busy))
          /\ promised' = IF Spawned = {} THEN {} ELSE Range(posted)
      BY <2>4 DEF Shutdown
    <3>2. Spawned' = Spawned
      BY <3>1 DEF Spawned
    <3>3. ASSUME stopped' PROVE Range(posted) \subseteq Range(done)
      <4>1. queue = <<>> /\ strand = <<>> /\ Busy = {}
        BY <3>1, <3>3 DEF Outstanding
      <4>2. Range(queue) = {} /\ Range(strand) = {} /\ Running = {}
        BY <4>1 DEF Range, Running
      <4> QED
        BY <4>2 DEF OnePlace
    <3>4. stopped' \in BOOLEAN /\ promised' \subseteq Range(posted)
      BY <3>1 DEF Outstanding
    <3> QED
      BY <1>1, <1>2, <3>1, <3>2, <3>3, <3>4, Zenon
  <2>5. CASE Abort
    <3>1. /\ owner' = "aborted" /\ threads' = threads /\ work' = work /\ stopped' = TRUE
          /\ promised' = {}
      BY <2>5 DEF Abort
    <3> QED
      BY <1>1, <1>2, <3>1
  <2>6. CASE Join
    <3>1. /\ owner \in {"down", "aborted"} /\ owner' = "joined"
          /\ \A t \in Spawned : threads[t] = "ended"
          /\ threads' = [t \in Threads |-> "new"] /\ work' = work /\ stopped' = stopped
          /\ promised' = promised
      BY <2>6 DEF Join, service, histories
    <3>2. Spawned' = {} /\ threads' \in [Threads -> {"new", "run", "ended"}]
      BY <3>1 DEF Spawned
    <3>3. Busy = {}
      BY <3>1 DEF Busy, Spawned
    <3>4. promised \subseteq Range(done)
      <4>1. CASE owner = "aborted"
        BY <4>1
      <4>2. CASE owner = "down" /\ promised # {}
        <5>1. PICK t \in Spawned : threads[t] = "ended"
          BY <3>1, <4>2
        <5>2. stopped
          BY <5>1 DEF Spawned
        <5> QED
          BY <4>2, <5>2
      <4> QED
        BY <3>1, <4>1, <4>2
    <3> QED
      BY <1>1, <1>2, <3>1, <3>2, <3>3, <3>4
  <2> QED
    BY <2>1, <2>2, <2>3, <2>4, <2>5, <2>6, Zenon DEF Own
<1> QED
  BY <1>3, <1>4 DEF IInv

LEMMA PostInv ==
  ASSUME IInv, NEW j \in Jobs, Post(j)
  PROVE  IInv'
<1>1. /\ j \notin Range(posted) /\ posted' = Append(posted, j) /\ stopped' = stopped
      /\ work' = work /\ threads' = threads /\ running' = running /\ owner' = owner
      /\ done' = done /\ promised' = promised
  BY DEF Post
<1>2. \/ j \in OrderedJobs /\ strand' = Append(strand, j) /\ queue' = queue
      \/ j \notin OrderedJobs /\ queue' = Append(queue, j) /\ strand' = strand
  BY DEF Post, KindOf
<1>3. Busy' = Busy /\ Running' = Running /\ Spawned' = Spawned
  BY <1>1 DEF Busy, Running, Spawned
<1>4. /\ Range(posted') = Range(posted) \cup {j}
      /\ posted' \in Seq(Jobs) /\ Injective(posted')
      /\ DOMAIN posted = 1..Len(posted) /\ DOMAIN posted' = 1..(Len(posted) + 1)
      /\ Len(posted) \in Nat /\ posted'[Len(posted) + 1] = j
      /\ \A i \in 1..Len(posted) : posted'[i] = posted[i]
  <2>1. posted \in Seq(Jobs) /\ Injective(posted)
    BY DEF IInv, TypeOK, OnePlace
  <2> QED
    BY <1>1, <2>1, AppendFacts, AppendPlaces
<1>5. /\ j \notin Range(queue) /\ j \notin Range(strand) /\ j \notin Running
      /\ j \notin Range(done)
  BY <1>1 DEF IInv, OnePlace
<1>6. /\ Range(Append(queue, j)) = Range(queue) \cup {j} /\ Append(queue, j) \in Seq(Jobs)
      /\ Range(Append(strand, j)) = Range(strand) \cup {j} /\ Append(strand, j) \in Seq(Jobs)
      /\ Injective(Append(queue, j)) /\ Injective(Append(strand, j))
  <2>1. queue \in Seq(Jobs) /\ strand \in Seq(Jobs) /\ Injective(queue) /\ Injective(strand)
    BY DEF IInv, TypeOK, OnePlace
  <2> QED
    BY <1>5, <2>1, AppendFacts, AppendPlaces
<1>7. TypeOK'
  BY <1>1, <1>2, <1>4, <1>6, Zenon DEF IInv, TypeOK
<1>8. OnePlace'
  <2>1. \A t, u \in Busy' : running'[t] = running'[u] => t = u
    BY <1>1, <1>3 DEF IInv, OnePlace
  <2>2. Injective(queue') /\ Injective(strand') /\ Injective(done')
    BY <1>1, <1>2, <1>6, Zenon DEF IInv, OnePlace
  <2>3. \/ Range(queue') = Range(queue) /\ Range(strand') = Range(strand) \cup {j}
        \/ Range(queue') = Range(queue) \cup {j} /\ Range(strand') = Range(strand)
    BY <1>2, <1>6, Zenon
  <2>4. /\ Range(posted) = Range(queue) \cup Range(strand) \cup Running \cup Range(done)
        /\ Range(queue) \cap (Range(strand) \cup Running \cup Range(done)) = {}
        /\ Range(strand) \cap (Running \cup Range(done)) = {}
        /\ Running \cap Range(done) = {}
    BY DEF IInv, OnePlace
  <2>5. /\ Range(posted') = Range(queue') \cup Range(strand') \cup Running' \cup Range(done')
        /\ Range(queue') \cap (Range(strand') \cup Running' \cup Range(done')) = {}
        /\ Range(strand') \cap (Running' \cup Range(done')) = {}
        /\ Running' \cap Range(done') = {}
    BY <1>1, <1>3, <1>4, <1>5, <2>3, <2>4
  <2> QED
    BY <1>4, <2>1, <2>2, <2>5 DEF OnePlace
<1>9. OrderInv'
  <2>1. Range(queue') \cap OrderedJobs = {}
    BY <1>2, <1>6, Zenon DEF IInv, OrderInv
  <2>2. /\ DOMAIN strand = 1..Len(strand) /\ Len(strand) \in Nat
        /\ \A l \in 1..Len(strand) : strand'[l] = strand[l]
        /\ \/ strand' = strand
           \/ DOMAIN strand' = 1..(Len(strand) + 1) /\ strand'[Len(strand) + 1] = j
    <3>1. strand \in Seq(Jobs)
      BY DEF IInv, TypeOK
    <3>2. CASE strand' = strand
      BY <3>1, <3>2
    <3>3. CASE strand' = Append(strand, j)
      BY <3>1, <3>3, AppendFacts
    <3> QED
      BY <1>2, <3>2, <3>3
  <2>3. SUFFICES ASSUME NEW a \in OrderedJobs, NEW b \in OrderedJobs, Earlier(a, b)'
                 PROVE  InOrder(a, b)'
    BY <2>1 DEF OrderInv
  <2>4. \/ Earlier(a, b)
        \/ b = j /\ a \in Range(posted)
    <3>1. PICK i \in DOMAIN posted', k \in DOMAIN posted' :
            i < k /\ posted'[i] = a /\ posted'[k] = b
      BY <2>3 DEF Earlier
    <3>2. i \in 1..Len(posted)
      BY <1>4, <3>1
    <3> QED
      BY <1>4, <3>1, <3>2 DEF Earlier, Range
  <2>5. CASE Earlier(a, b)
    <3>1. InOrder(a, b) /\ b # j
      BY <1>1, <2>5 DEF IInv, OrderInv, Earlier, Range
    <3>2. \A l \in DOMAIN strand' : strand'[l] = b => l \in DOMAIN strand /\ strand[l] = b
      BY <2>2, <3>1
    <3>3. \A l \in DOMAIN strand : \A k \in 1..(l - 1) : strand'[k] = strand[k]
      BY <2>2
    <3> QED
      BY <1>1, <1>3, <3>1, <3>2, <3>3 DEF InOrder
  <2>6. CASE b = j /\ a \in Range(posted)
    <3>1. a \in Range(strand) \cup Running \cup Range(done)
      BY <2>6 DEF IInv, OnePlace, OrderInv
    <3>2. \A l \in DOMAIN strand' : strand'[l] = b => l = Len(strand) + 1
      BY <1>5, <2>2, <2>6 DEF Range
    <3>3. a \in Range(strand) => \E k \in 1..((Len(strand) + 1) - 1) : strand'[k] = a
      BY <2>2 DEF Range
    <3>4. \A l \in DOMAIN done' : done'[l] # b
      BY <1>1, <1>5, <2>6 DEF Range
    <3> QED
      BY <1>1, <1>3, <1>5, <2>6, <3>1, <3>2, <3>3, <3>4 DEF InOrder
  <2> QED
    BY <2>4, <2>5, <2>6
<1>10. ServiceInv'
  BY <1>1, <1>3, Zenon DEF IInv, ServiceInv
<1> QED
  BY <1>7, <1>8, <1>9, <1>10 DEF IInv

LEMMA TakeInv ==
  ASSUME IInv, NEW t \in Threads, Take(t)
  PROVE  IInv'
<1> DEFINE h == Head(queue)
<1>1. /\ threads[t] = "run" /\ running[t] = Nothing /\ ~stopped /\ queue # <<>>
      /\ queue' = Tail(queue) /\ stopped' = stopped /\ work' = work /\ threads' = threads
      /\ owner' = owner /\ done' = done /\ posted' = posted /\ promised' = promised
  BY DEF Take, Idle, histories
<1>2. \/ running' = [running EXCEPT ![t] = h] /\ strand' = strand
      \/ strand' = Append(strand, h) /\ running' = running
  BY DEF Take
<1>3. /\ h \in Jobs /\ queue' \in Seq(Jobs) /\ h \in Range(queue)
      /\ Range(queue') = Range(queue) \ {h} /\ Injective(queue')
  BY <1>1, TailFacts, TailPlaces DEF IInv, TypeOK, OnePlace
<1>4. /\ h \notin Range(strand) /\ h \notin Running /\ h \notin Range(done)
      /\ h \notin OrderedJobs
  BY <1>3 DEF IInv, OnePlace, OrderInv
<1> HIDE DEF h
<1>5. \/ /\ strand' = strand /\ Running' = Running \cup {h} /\ Busy' = Busy \cup {t}
         /\ running'[t] = h /\ \A u \in Busy : u # t /\ running'[u] = running[u]
         /\ running' \in [Threads -> Jobs \cup {Nothing}]
      \/ /\ Running' = Running /\ Busy' = Busy /\ running' = running
         /\ strand' = Append(strand, h)
  <2>1. CASE running' = [running EXCEPT ![t] = h] /\ strand' = strand
    BY <1>1, <1>3, <2>1, Starting, Zenon DEF IInv
  <2>2. CASE strand' = Append(strand, h) /\ running' = running
    BY <2>2 DEF Running, Busy
  <2> QED
    BY <1>2, <2>1, <2>2
<1>6. /\ Range(Append(strand, h)) = Range(strand) \cup {h} /\ Append(strand, h) \in Seq(Jobs)
      /\ Injective(Append(strand, h))
  <2>1. strand \in Seq(Jobs) /\ Injective(strand)
    BY DEF IInv, TypeOK, OnePlace
  <2> QED
    BY <1>3, <1>4, <2>1, AppendFacts, AppendPlaces
<1>7. TypeOK'
  BY <1>1, <1>3, <1>5, <1>6, Zenon DEF IInv, TypeOK
<1>8. OnePlace'
  <2>1. \A u, v \in Busy' : running'[u] = running'[v] => u = v
    <3>1. \A u \in Busy : running[u] # h
      BY <1>4 DEF Running
    <3> QED
      BY <1>5, <3>1 DEF IInv, OnePlace
  <2>2. Injective(posted') /\ Injective(queue') /\ Injective(strand') /\ Injective(done')
    BY <1>1, <1>3, <1>5, <1>6, Zenon DEF IInv, OnePlace
  <2>3. \/ Range(strand') = Range(strand) /\ Running' = Running \cup {h}
        \/ Range(strand') = Range(strand) \cup {h} /\ Running' = Running
    BY <1>5, <1>6, Zenon
  <2>4. /\ Range(posted) = Range(queue) \cup Range(strand) \cup Running \cup Range(done)
        /\ Range(queue) \cap (Range(strand) \cup Running \cup Range(done)) = {}
        /\ Range(strand) \cap (Running \cup Range(done)) = {}
        /\ Running \cap Range(done) = {}
    BY DEF IInv, OnePlace
  <2>5. /\ Range(posted') = Range(queue') \cup Range(strand') \cup Running' \cup Range(done')
        /\ Range(queue') \cap (Range(strand') \cup Running' \cup Range(done')) = {}
        /\ Range(strand') \cap (Running' \cup Range(done')) = {}
        /\ Running' \cap Range(done') = {}
    BY <1>1, <1>3, <1>4, <2>3, <2>4
  <2> QED
    BY <2>1, <2>2, <2>5 DEF OnePlace
<1>9. OrderInv'
  <2>1. Range(queue') \cap OrderedJobs = {}
    BY <1>3 DEF IInv, OrderInv
  <2>2. /\ DOMAIN strand = 1..Len(strand) /\ Len(strand) \in Nat
        /\ \A l \in 1..Len(strand) : strand'[l] = strand[l]
        /\ \/ strand' = strand
           \/ DOMAIN strand' = 1..(Len(strand) + 1) /\ strand'[Len(strand) + 1] = h
    <3>1. strand \in Seq(Jobs)
      BY DEF IInv, TypeOK
    <3>2. CASE strand' = strand
      BY <3>1, <3>2
    <3>3. CASE strand' = Append(strand, h)
      BY <1>3, <3>1, <3>3, AppendFacts
    <3> QED
      BY <1>5, <3>2, <3>3
  <2>3. SUFFICES ASSUME NEW a \in OrderedJobs, NEW b \in OrderedJobs, Earlier(a, b)'
                 PROVE  InOrder(a, b)'
    BY <2>1 DEF OrderInv
  <2>4. InOrder(a, b) /\ a # h /\ b # h
    BY <1>1, <1>4, <2>3 DEF IInv, OrderInv, Earlier
  <2>5. \A l \in DOMAIN strand' : strand'[l] = b => l \in DOMAIN strand /\ strand[l] = b
    BY <2>2, <2>4
  <2>6. \A l \in DOMAIN strand : \A k \in 1..(l - 1) : strand'[k] = strand[k]
    BY <2>2
  <2>7. Running \subseteq Running' /\ (b \in Running' => b \in Running)
    BY <1>5, <2>4
  <2> QED
    BY <1>1, <2>4, <2>5, <2>6, <2>7 DEF InOrder
<1>10. ServiceInv'
  <2>1. Spawned' = Spawned /\ \A u \in Busy' : threads'[u] = "run"
    BY <1>1, <1>5 DEF Spawned, IInv, ServiceInv
  <2> QED
    BY <1>1, <2>1 DEF IInv, ServiceInv
<1> QED
  BY <1>7, <1>8, <1>9, <1>10 DEF IInv

LEMMA TakeStrandInv ==
  ASSUME IInv, NEW t \in Threads, TakeStrand(t)
  PROVE  IInv'
<1> DEFINE h == Head(strand)
<1>1. /\ threads[t] = "run" /\ running[t] = Nothing /\ ~stopped /\ strand # <<>>
      /\ OnStrand = {} /\ strand' = Tail(strand) /\ running' = [running EXCEPT ![t] = h]
      /\ stopped' = stopped /\ work' = work /\ threads' = threads /\ queue' = queue
      /\ owner' = owner /\ done' = done /\ posted' = posted /\ promised' = promised
  BY DEF TakeStrand, Idle, histories
<1>2. strand \in Seq(Jobs) /\ Injective(strand)
  BY DEF IInv, TypeOK, OnePlace
<1>3. /\ h \in Jobs /\ strand' \in Seq(Jobs) /\ h \in Range(strand)
      /\ Range(strand') = Range(strand) \ {h} /\ Injective(strand')
  BY <1>1, <1>2, TailFacts, TailPlaces
<1>4. /\ h = strand[1] /\ DOMAIN strand = 1..Len(strand) /\ Len(strand) \in Nat \ {0}
      /\ DOMAIN strand' = 1..(Len(strand) - 1)
      /\ \A i \in 1..(Len(strand) - 1) : strand'[i] = strand[i + 1]
  BY <1>1, <1>2, TailFacts
<1>5. h \notin Range(queue) /\ h \notin Running /\ h \notin Range(done)
  BY <1>3 DEF IInv, OnePlace
<1> HIDE DEF h
<1>6. /\ Running' = Running \cup {h} /\ Busy' = Busy \cup {t}
      /\ running'[t] = h /\ \A u \in Busy : u # t /\ running'[u] = running[u]
      /\ running' \in [Threads -> Jobs \cup {Nothing}]
  BY <1>1, <1>3, Starting, Zenon DEF IInv
<1>7. TypeOK'
  BY <1>1, <1>3, <1>6, Zenon DEF IInv, TypeOK
<1>8. OnePlace'
  <2>1. \A u, v \in Busy' : running'[u] = running'[v] => u = v
    <3>1. \A u \in Busy : running[u] # h
      BY <1>5 DEF Running
    <3> QED
      BY <1>6, <3>1 DEF IInv, OnePlace
  <2>2. Injective(posted') /\ Injective(queue') /\ Injective(strand') /\ Injective(done')
    BY <1>1, <1>3 DEF IInv, OnePlace
  <2>3. /\ Range(posted') = Range(queue') \cup Range(strand') \cup Running' \cup Range(done')
        /\ Range(queue') \cap (Range(strand') \cup Running' \cup Range(done')) = {}
        /\ Range(strand') \cap (Running' \cup Range(done')) = {}
        /\ Running' \cap Range(done') = {}
    BY <1>1, <1>3, <1>5, <1>6 DEF IInv, OnePlace
  <2> QED
    BY <2>1, <2>2, <2>3 DEF OnePlace
<1>9. OrderInv'
  <2>1. Range(queue') \cap OrderedJobs = {}
    BY <1>1 DEF IInv, OrderInv
  <2>2. \A u \in Busy : running[u] \notin OrderedJobs
    <3>1. \A u \in Busy : running[u] \in Jobs /\ KindOf[running[u]] = "concurrent"
      BY <1>1 DEF Busy, OnStrand, IInv, TypeOK
    <3> QED
      BY <3>1, Zenon DEF KindOf
  <2>3. SUFFICES ASSUME NEW a \in OrderedJobs, NEW b \in OrderedJobs, Earlier(a, b)'
                 PROVE  InOrder(a, b)'
    BY <2>1 DEF OrderInv
  <2>4. InOrder(a, b) /\ a \notin Running /\ b \notin Running
    BY <1>1, <2>2, <2>3 DEF IInv, OrderInv, Earlier, Running
  <2>5. b \in Running' => a \in Range(done)
    <3>1. b = h => a \in Range(done) \/ \E k \in 1..(1 - 1) : strand[k] = a
      BY <1>4, <2>4 DEF InOrder
    <3> QED
      BY <1>6, <2>4, <3>1
  <2>6. ASSUME NEW l \in DOMAIN strand', strand'[l] = b
        PROVE  a \in Range(done) \cup Running' \/ \E k \in 1..(l - 1) : strand'[k] = a
    <3>1. l + 1 \in DOMAIN strand /\ strand[l + 1] = b
      BY <1>4, <2>6
    <3>2. CASE \E k \in 1..((l + 1) - 1) : strand[k] = a
      <4>1. PICK k \in 1..l : strand[k] = a
        BY <1>4, <3>2
      <4>2. k # 1 => k - 1 \in 1..(l - 1) /\ strand'[k - 1] = strand[(k - 1) + 1]
        BY <1>4, <4>1
      <4>3. k # 1 => k - 1 \in 1..(l - 1) /\ strand'[k - 1] = a
        BY <1>4, <4>1, <4>2
      <4> QED
        BY <1>4, <1>6, <4>1, <4>3
    <3> QED
      BY <1>6, <2>4, <3>1, <3>2 DEF InOrder
  <2> QED
    BY <1>1, <2>4, <2>5, <2>6 DEF InOrder
<1>10. ServiceInv'
  <2>1. Spawned' = Spawned /\ \A u \in Busy' : threads'[u] = "run"
    BY <1>1, <1>6 DEF Spawned, IInv, ServiceInv
  <2> QED
    BY <1>1, <2>1 DEF IInv, ServiceInv
<1> QED
  BY <1>7, <1>8, <1>9, <1>10 DEF IInv

LEMMA FinishInv ==
  ASSUME IInv, NEW t \in Threads, Finish(t)
  PROVE  IInv'
<1> DEFINE x == running[t]
<1>1. /\ t \in Busy /\ running' = [running EXCEPT ![t] = Nothing] /\ done' = Append(done, x)
      /\ stopped' = (stopped \/ ~Outstanding(work, queue, strand, Busy \ {t}))
      /\ work' = work /\ threads' = threads /\ queue' = queue /\ strand' = strand
      /\ owner' = owner /\ posted' = posted /\ promised' = promised
  BY DEF Finish, histories
<1>2. /\ x \in Running /\ x \in Jobs /\ x \notin Range(done) /\ x \notin Range(queue)
      /\ x \notin Range(strand)
  BY <1>1 DEF Running, Busy, IInv, TypeOK, OnePlace
<1>3. /\ running' \in [Threads -> Jobs \cup {Nothing}] /\ Busy' = Busy \ {t}
      /\ \A u \in Busy' : running'[u] = running[u]
  BY <1>1 DEF Busy, IInv, TypeOK
<1>4. Running' = Running \ {x}
  <2>1. \A u \in Busy' : running'[u] # x
    BY <1>1, <1>3, Zenon DEF IInv, OnePlace
  <2> QED
    BY <1>1, <1>3, <2>1 DEF Running
<1> HIDE DEF x
<1>5. /\ done' \in Seq(Jobs) /\ Range(done') = Range(done) \cup {x} /\ Injective(done')
      /\ DOMAIN done = 1..Len(done) /\ Len(done) \in Nat
      /\ DOMAIN done' = 1..(Len(done) + 1) /\ done'[Len(done) + 1] = x
      /\ \A i \in 1..Len(done) : done'[i] = done[i]
  <2>1. done \in Seq(Jobs) /\ Injective(done)
    BY DEF IInv, TypeOK, OnePlace
  <2> QED
    BY <1>1, <1>2, <2>1, AppendFacts, AppendPlaces
<1>6. TypeOK'
  <2>1. stopped' \in BOOLEAN
    BY <1>1 DEF IInv, TypeOK, Outstanding
  <2> QED
    BY <1>1, <1>3, <1>5, <2>1 DEF IInv, TypeOK
<1>7. OnePlace'
  <2>1. \A u, v \in Busy' : running'[u] = running'[v] => u = v
    BY <1>3, Zenon DEF IInv, OnePlace
  <2>2. Injective(posted') /\ Injective(queue') /\ Injective(strand') /\ Injective(done')
    BY <1>1, <1>5, Zenon DEF IInv, OnePlace
  <2>3. /\ Range(posted') = Range(queue') \cup Range(strand') \cup Running' \cup Range(done')
        /\ Range(queue') \cap (Range(strand') \cup Running' \cup Range(done')) = {}
        /\ Range(strand') \cap (Running' \cup Range(done')) = {}
        /\ Running' \cap Range(done') = {}
    BY <1>1, <1>2, <1>4, <1>5, SMTT(30) DEF IInv, OnePlace
  <2> QED
    BY <2>1, <2>2, <2>3 DEF OnePlace
<1>8. OrderInv'
  <2>1. Range(queue') \cap OrderedJobs = {}
    BY <1>1 DEF IInv, OrderInv
  <2>2. SUFFICES ASSUME NEW a \in OrderedJobs, NEW b \in OrderedJobs, Earlier(a, b)'
                 PROVE  InOrder(a, b)'
    BY <2>1 DEF OrderInv
  <2>3. InOrder(a, b)
    BY <1>1, <2>2 DEF IInv, OrderInv, Earlier
  <2>4. ASSUME NEW l \in DOMAIN done', done'[l] = b
        PROVE  \E k \in 1..(l - 1) : done'[k] = a
    <3>1. CASE l \in 1..Len(done)
      <4>1. PICK k \in 1..(l - 1) : done[k] = a
        BY <1>5, <2>3, <2>4, <3>1 DEF InOrder
      <4>2. done'[k] = a
        BY <1>5, <3>1, <4>1
      <4> QED
        BY <4>2
    <3>2. CASE l = Len(done) + 1
      <4>1. a \in Range(done)
        BY <1>2, <1>5, <2>3, <2>4, <3>2 DEF InOrder
      <4>2. PICK k \in 1..Len(done) : done[k] = a
        BY <1>5, <4>1 DEF Range
      <4> QED
        BY <1>5, <3>2, <4>2
    <3> QED
      BY <1>5, <3>1, <3>2
  <2>5. b \in Running' => a \in Range(done')
    BY <1>4, <1>5, <2>3 DEF InOrder
  <2>6. Range(done) \cup Running \subseteq Range(done') \cup Running'
    BY <1>4, <1>5
  <2> QED
    BY <1>1, <2>3, <2>4, <2>5, <2>6 DEF InOrder
<1>9. ServiceInv'
  <2>1. /\ Spawned' = Spawned /\ t \in Spawned
        /\ \A u \in Busy' : threads'[u] = "run"
    BY <1>1, <1>3 DEF Spawned, Busy, IInv, ServiceInv
  <2>2. owner # "joined"
    BY <2>1 DEF IInv, ServiceInv
  <2>3. owner \in {"spawn", "up"} => ~stopped'
    BY <1>1, <2>1, Zenon DEF IInv, ServiceInv, Outstanding
  <2>4. ASSUME stopped', ~stopped PROVE Range(posted) \subseteq Range(done')
    <3>1. queue = <<>> /\ strand = <<>> /\ Busy' = {}
      BY <1>1, <1>3, <2>4, Zenon DEF Outstanding
    <3>2. Range(queue) = {} /\ Range(strand) = {} /\ Running' = {}
      BY <3>1 DEF Range, Running
    <3> QED
      BY <1>1, <1>7, <3>2 DEF OnePlace
  <2>5. owner = "down" /\ stopped' => promised \subseteq Range(done')
    BY <1>1, <1>5, <2>4 DEF IInv, ServiceInv, TypeOK
  <2>6. \A u \in Threads : threads'[u] = "ended" => stopped'
    BY <1>1, Zenon DEF IInv, ServiceInv
  <2> QED
    BY <1>1, <2>1, <2>2, <2>3, <2>5, <2>6 DEF IInv, ServiceInv
<1> QED
  BY <1>6, <1>7, <1>8, <1>9 DEF IInv

LEMMA ExitInv ==
  ASSUME IInv, NEW t \in Threads, Exit(t)
  PROVE  IInv'
<1>1. /\ threads[t] = "run" /\ running[t] = Nothing /\ stopped
      /\ threads' = [threads EXCEPT ![t] = "ended"] /\ stopped' = stopped /\ work' = work
      /\ queue' = queue /\ strand' = strand /\ running' = running /\ owner' = owner
      /\ done' = done /\ posted' = posted /\ promised' = promised
  BY Zenon DEF Exit, Idle, service, histories
<1>2. Busy' = Busy /\ Running' = Running /\ t \notin Busy /\ Busy \subseteq Threads
  BY <1>1 DEF Busy, Running
<1>3. /\ threads' \in [Threads -> {"new", "run", "ended"}]
      /\ \A u \in Threads : threads'[u] = IF u = t THEN "ended" ELSE threads[u]
  BY <1>1 DEF IInv, TypeOK
<1>4. TypeOK'
  BY <1>1, <1>3 DEF IInv, TypeOK
<1>5. OnePlace'
  BY <1>1, <1>2 DEF IInv, OnePlace, Injective
<1>6. OrderInv'
  BY <1>1, <1>2 DEF IInv, OrderInv, Earlier, InOrder
<1>7. ServiceInv'
  <2>1. Spawned' = Spawned
    BY <1>1, <1>3 DEF Spawned
  <2> QED
    BY <1>1, <1>2, <1>3, <2>1 DEF IInv, ServiceInv
<1> QED
  BY <1>4, <1>5, <1>6, <1>7 DEF IInv

(* Every job is in one place, the ordered ones in order, and the service   *)
(* stops only when it may, whatever the owner, the clients and the threads *)
(* do.                                                                     *)
THEOREM Invariance == Spec => []IInv
<1>1. IInv /\ [Next]_vars => IInv'
  <2> SUFFICES ASSUME IInv, [Next]_vars
               PROVE  IInv'
    OBVIOUS
  <2>1. CASE UNCHANGED vars
    <3>1. Busy' = Busy /\ Running' = Running /\ Spawned' = Spawned
      BY <2>1 DEF vars, service, histories, Busy, Running, Spawned
    <3>2. TypeOK' /\ ServiceInv'
      BY <2>1, <3>1, Zenon DEF vars, service, histories, IInv, TypeOK, ServiceInv
    <3>3. OnePlace'
      BY <2>1, <3>1, SMTT(30) DEF vars, service, histories, IInv, OnePlace, Injective
    <3>4. OrderInv'
      BY <2>1, <3>1 DEF vars, service, histories, IInv, OrderInv, Earlier, InOrder
    <3> QED
      BY <3>2, <3>3, <3>4, SMTT(30) DEF IInv
  <2>2. CASE Own
    BY <2>2, OwnInv
  <2>3. CASE \E j \in Jobs : Post(j)
    BY <2>3, PostInv
  <2>4. CASE \E t \in Threads : Serve(t)
    BY <2>4, TakeInv, TakeStrandInv, FinishInv, ExitInv DEF Serve
  <2> QED
    BY <2>1, <2>2, <2>3, <2>4 DEF Next
<1> QED
  BY <1>1, InitInv, PTL DEF Spec

(* No job runs twice or unposted, ordered jobs run in the order they were  *)
(* posted in, and once shutdown is joined everything posted before it has  *)
(* run, for any set of jobs and threads and over any number of restarts.   *)
THEOREM PoolLosesNothing == Spec => []NothingIsLost
<1>1. IInv => NothingIsLost
  <2> SUFFICES ASSUME IInv PROVE NothingIsLost
    OBVIOUS
  <2>1. Range(done) \subseteq Range(posted) /\ \A k, l \in DOMAIN done : done[k] = done[l] => k = l
    BY DEF IInv, OnePlace, Injective
  <2>2. ASSUME NEW i \in DOMAIN posted, NEW j \in DOMAIN posted, NEW l \in DOMAIN done,
               i < j, {posted[i], posted[j]} \subseteq OrderedJobs, done[l] = posted[j]
        PROVE  \E k \in 1..(l - 1) : done[k] = posted[i]
    <3>1. Earlier(posted[i], posted[j])
      BY <2>2 DEF Earlier
    <3>2. InOrder(posted[i], posted[j])
      BY <2>2, <3>1 DEF IInv, OrderInv
    <3> QED
      BY <2>2, <3>2 DEF InOrder
  <2>3. owner = "joined" => promised \subseteq Range(done)
    BY DEF IInv, ServiceInv
  <2> QED
    BY <2>1, <2>2, <2>3 DEF NothingIsLost
<1> QED
  BY <1>1, Invariance, PTL

=============================================================================
