----------------------------- MODULE Threadpool -----------------------------
(***************************************************************************)
(* libbitcoin::threadpool and libbitcoin::work (behind dispatcher and the  *)
(* delegates): threads that run the jobs posted to an asio io_service,     *)
(* directly (concurrent) or through a strand (ordered, unordered).         *)
(*                                                                         *)
(* One owner spawns, shuts down, aborts and joins the pool, in that        *)
(* protocol and possibly again; clients post jobs at any time.  The        *)
(* io_service is external: it stops when it has no outstanding work left,  *)
(* keeps its queue when it is stopped and dispatches again after reset.    *)
(***************************************************************************)
EXTENDS Naturals, Sequences, FiniteSets

CONSTANTS
  Jobs,           \* every job,
  OrderedJobs,    \*   those that are posted in order
  UnorderedJobs,  \*   and those of any order, one at a time
  Threads,        \* thread ids
  Nothing,        \* not a job: the thread waits for one
  MaxSpawns       \* bound on the calls of spawn

ASSUME ThreadpoolAssumption == Nothing \notin Jobs

VARIABLES
  stopped,        \* of the service
  work,           \* work_: the keep-alive is set
  queue,          \* jobs posted to the service
  strand,         \* jobs waiting on the strand
  threads,        \* threads_: new, in run() or ended
  running,        \* the job of each thread
  owner,          \* where the owner is in its protocol
  spawns,         \* number of calls of spawn
  posted, done,   \* history: jobs posted, jobs that have run, in order
  promised        \* history: jobs posted before shutdown

service == <<stopped, work, queue, strand>>
histories == <<posted, promised>>
vars == <<service, threads, running, owner, spawns, done, histories>>

KindOf ==
  [j \in Jobs |-> IF j \in OrderedJobs THEN "ordered"
                 ELSE IF j \in UnorderedJobs THEN "unordered" ELSE "concurrent"]

Range(s) == {s[i] : i \in DOMAIN s}
Spawned == {t \in Threads : threads[t] # "new"}
size == Cardinality(Spawned)
Busy == {t \in Threads : running[t] # Nothing}
OnStrand == {t \in Busy : KindOf[running[t]] # "concurrent"}

(* threadpool(number_threads) begins with spawn().                         *)
Init ==
  /\ stopped = FALSE /\ work = FALSE
  /\ queue = <<>> /\ strand = <<>>
  /\ threads = [t \in Threads |-> "new"]
  /\ running = [t \in Threads |-> Nothing]
  /\ owner = "spawn"
  /\ spawns = 1
  /\ posted = <<>> /\ done = <<>>
  /\ promised = {}

-----------------------------------------------------------------------------
(* Fault: the service is not reset, so a restarted pool has no threads.    *)
SpawnWithoutReset ==
  /\ owner \in {"up", "joined"}
  /\ spawns < MaxSpawns
  /\ spawns' = spawns + 1
  /\ owner' = "spawn"
  /\ UNCHANGED <<service, threads, running, done, histories>>

(* spawn(): the service is reset, then the threads are made one by one.    *)
Spawn ==
  /\ owner \in {"up", "joined"}
  /\ spawns < MaxSpawns
  /\ spawns' = spawns + 1
  /\ stopped' = FALSE
  /\ owner' = "spawn"
  /\ UNCHANGED <<work, queue, strand, threads, running, done, histories>>

(* spawn_once(): the keep-alive is made first if there is none.            *)
SpawnOnce(t) ==
  /\ owner = "spawn"
  /\ threads[t] = "new"
  /\ work' = TRUE
  /\ threads' = [threads EXCEPT ![t] = "run"]
  /\ UNCHANGED <<stopped, queue, strand, running, owner, spawns, done, histories>>

SpawnEnd ==
  /\ owner = "spawn"
  /\ owner' = "up"
  /\ UNCHANGED <<service, threads, running, spawns, done, histories>>

(* The service stops by itself when the last outstanding work is gone.     *)
Outstanding(keepalive, q, s, busy) == keepalive \/ q # <<>> \/ s # <<>> \/ busy # {}

(* Fault: shutdown stops the service.                                      *)
ShutdownStops ==
  /\ owner = "up"
  /\ work' = FALSE
  /\ stopped' = TRUE
  /\ owner' = "down"
  /\ promised' = IF Spawned = {} THEN {} ELSE Range(posted)
  /\ UNCHANGED <<queue, strand, threads, running, spawns, done, posted>>

Shutdown ==
  /\ owner = "up"
  /\ work' = FALSE
  /\ stopped' = (stopped \/ ~Outstanding(FALSE, queue, strand, Busy))
  /\ owner' = "down"
  /\ promised' = IF Spawned = {} THEN {} ELSE Range(posted)
  /\ UNCHANGED <<queue, strand, threads, running, spawns, done, posted>>

Abort ==
  /\ owner \in {"up", "down"}
  /\ stopped' = TRUE
  /\ owner' = "aborted"
  /\ promised' = {}
  /\ UNCHANGED <<work, queue, strand, threads, running, spawns, done, posted>>

(* join() returns when every thread has left run().                        *)
Join ==
  /\ owner \in {"down", "aborted"}
  /\ \A t \in Spawned : threads[t] = "ended"
  /\ threads' = [t \in Threads |-> "new"]
  /\ owner' = "joined"
  /\ UNCHANGED <<service, running, spawns, done, histories>>

-----------------------------------------------------------------------------
(* concurrent() and unordered() post to the service, ordered() to the      *)
(* strand.                                                                 *)
Post(j) ==
  /\ j \notin Range(posted)
  /\ posted' = Append(posted, j)
  /\ IF KindOf[j] = "ordered"
     THEN strand' = Append(strand, j) /\ UNCHANGED queue
     ELSE queue' = Append(queue, j) /\ UNCHANGED strand
  /\ UNCHANGED <<stopped, work, threads, running, owner, spawns, done, promised>>

Idle(t) == threads[t] = "run" /\ running[t] = Nothing

(* run(): the next job of the service.  An unordered job is dispatched on  *)
(* the strand: it runs at once if the strand is free.                      *)
Take(t) ==
  /\ Idle(t) /\ ~stopped /\ queue # <<>>
  /\ queue' = Tail(queue)
  /\ IF KindOf[Head(queue)] = "concurrent" \/ (strand = <<>> /\ OnStrand = {})
     THEN running' = [running EXCEPT ![t] = Head(queue)] /\ UNCHANGED strand
     ELSE strand' = Append(strand, Head(queue)) /\ UNCHANGED running
  /\ UNCHANGED <<stopped, work, threads, owner, spawns, done, histories>>

(* run(): the next job of the strand, one at a time.                       *)
TakeStrand(t) ==
  /\ Idle(t) /\ ~stopped /\ strand # <<>> /\ OnStrand = {}
  /\ strand' = Tail(strand)
  /\ running' = [running EXCEPT ![t] = Head(strand)]
  /\ UNCHANGED <<stopped, work, queue, threads, owner, spawns, done, histories>>

(* The job returns.                                                        *)
Finish(t) ==
  /\ t \in Busy
  /\ running' = [running EXCEPT ![t] = Nothing]
  /\ done' = Append(done, running[t])
  /\ stopped' = (stopped \/ ~Outstanding(work, queue, strand, Busy \ {t}))
  /\ UNCHANGED <<work, queue, strand, threads, owner, spawns, histories>>

(* run() returns.                                                          *)
Exit(t) ==
  /\ Idle(t) /\ stopped
  /\ threads' = [threads EXCEPT ![t] = "ended"]
  /\ UNCHANGED <<service, running, owner, spawns, done, histories>>

Serve(t) == Take(t) \/ TakeStrand(t) \/ Finish(t) \/ Exit(t)

Own == Spawn \/ (\E t \in Threads : SpawnOnce(t)) \/ SpawnEnd \/ Shutdown \/ Abort \/ Join

Next == Own \/ (\E j \in Jobs : Post(j)) \/ (\E t \in Threads : Serve(t))

Spec == Init /\ [][Next]_vars

(* Threads run, jobs return, and a join that can return does.              *)
FairSpec == Spec /\ WF_vars(Join) /\ \A t \in Threads : WF_vars(Serve(t))

-----------------------------------------------------------------------------
(* No job runs twice or unposted; ordered jobs run in the order in which   *)
(* they were posted, over restarts of the pool and aborts too; and once    *)
(* shutdown is joined every job that was posted before it has run, unless  *)
(* the owner aborts: nothing is lost.                                      *)
NothingIsLost ==
  /\ Range(done) \subseteq Range(posted)
  /\ \A k, l \in DOMAIN done : done[k] = done[l] => k = l
  /\ \A i, j \in DOMAIN posted, l \in DOMAIN done :
       i < j /\ {posted[i], posted[j]} \subseteq OrderedJobs /\ done[l] = posted[j]
         => \E k \in 1..(l - 1) : done[k] = posted[i]
  /\ owner = "joined" => promised \subseteq Range(done)

(* A job that is posted to a pool with threads runs while the pool is up,  *)
(* after a restart too; and after shutdown or abort join returns.          *)
PoolProgresses ==
  /\ \A j \in Jobs :
       (j \in Range(posted) /\ owner = "up" /\ size > 0) ~> (j \in Range(done) \/ owner # "up")
  /\ owner \in {"down", "aborted"} ~> owner = "joined"

=============================================================================
