---------------------------- MODULE MCPrimitives ----------------------------
(***************************************************************************)
(* The small synchronisation classes of the utility library side by side.  *)
(* They share nothing, so a behaviour exercises one of them, the one that  *)
(* subject names, and leaves the others in their initial state.            *)
(***************************************************************************)
EXTENDS Sequencer, FiniteSets

CONSTANTS
  MaxStarts,                            \* of Deadline
  Writers, Modulus, MaxWrites,          \* of SequentialLock
  Processes, Nobody, MaxFiles,          \* of InterprocessLock
  MaxCrashes,                           \* of FlushLock
  Low, High, MaxRounds                  \* of PrioritizedMutex

ASSUME PrimitivesAssumption ==
  /\ MaxStarts \in Nat /\ MaxFiles \in Nat
  /\ Modulus \in Nat \ {0} /\ Modulus % 2 = 0
  /\ Nobody \notin Processes \cup Low \cup High
  /\ Low \cap High = {}

VARIABLES
  subject,
  waiting, queued, starts, canceled, fired,
  sequence, words, writer, writes, value, told, reader, ticks,
  path, created, locker, process, handle, granted, removed,
  file, torn, locked, client, crashes,
  prioritize, owner, script, rounds

timerVars == <<waiting, queued, starts, canceled, fired>>
sequentialVars == <<sequence, words, writer, writes, value, told, reader, ticks>>
interprocessVars == <<path, created, locker, process, handle, granted, removed>>
flushVars == <<file, torn, locked, client, crashes>>
prioritizedVars == <<prioritize, owner, script, rounds>>
allVars == <<subject, timerVars, sequentialVars, interprocessVars, flushVars,
             prioritizedVars, vars>>

Timer == INSTANCE Deadline
Sequential == INSTANCE SequentialLock
Interprocess == INSTANCE InterprocessLock
Flush == INSTANCE FlushLock
Prioritized == INSTANCE PrioritizedMutex

PrimitivesInit ==
  /\ subject \in {"deadline", "sequential", "interprocess", "flush", "prioritized",
                "sequencer"}
  /\ Timer!Init /\ Sequential!Init /\ Interprocess!Init /\ Flush!Init /\ Prioritized!Init
  /\ Init
  /\ subject # "prioritized" => prioritize

DeadlineStep ==
  /\ subject = "deadline" /\ Timer!Next
  /\ UNCHANGED <<subject, sequentialVars, interprocessVars, flushVars, prioritizedVars,
                 vars>>

SequentialStep ==
  /\ subject = "sequential" /\ Sequential!Next
  /\ UNCHANGED <<subject, timerVars, interprocessVars, flushVars, prioritizedVars,
                 vars>>

InterprocessStep ==
  /\ subject = "interprocess" /\ Interprocess!Next
  /\ UNCHANGED <<subject, timerVars, sequentialVars, flushVars, prioritizedVars,
                 vars>>

FlushStep ==
  /\ subject = "flush" /\ Flush!Next
  /\ UNCHANGED <<subject, timerVars, sequentialVars, interprocessVars, prioritizedVars,
                 vars>>

PrioritizedStep ==
  /\ subject = "prioritized" /\ Prioritized!Next
  /\ UNCHANGED <<subject, timerVars, sequentialVars, interprocessVars, flushVars,
                 vars>>

SequencerStep ==
  /\ subject = "sequencer" /\ Next
  /\ UNCHANGED <<subject, timerVars, sequentialVars, interprocessVars, flushVars,
                 prioritizedVars>>

PrimitivesNext ==
  \/ DeadlineStep \/ SequentialStep \/ InterprocessStep \/ FlushStep \/ PrioritizedStep
  \/ SequencerStep

(* Timers expire, the pool runs what is queued and every thread runs; the  *)
(* mutexes are not assumed to be fair.                                     *)
PrimitivesFairness ==
  /\ WF_allVars(DeadlineStep /\ Timer!Expire)
  /\ WF_allVars(DeadlineStep /\ Timer!Handle)
  /\ \A c \in Prioritized!Clients : WF_allVars(PrioritizedStep /\ Prioritized!Step(c))
  /\ \A op \in Ops :
       WF_allVars(SequencerStep
               /\ (Post(op) \/ Run(op) \/ Unlock(op)))

PrimitivesSpec == PrimitivesInit /\ [][PrimitivesNext]_allVars /\ PrimitivesFairness

-----------------------------------------------------------------------------
(* deadline: "guaranteed to call handler exactly once unless               *)
(* canceled/reset", and "If the timer is canceled no call is made".        *)
CalledOnceUnlessCanceled == subject = "deadline" => Timer!CalledOnceUnlessCanceled

(* interprocess_lock: lock() excludes the other processes as long as no    *)
(* unlock() removes the file that another process has open, and a file     *)
(* left behind alone never makes it fail.                                  *)
LockDecidesRightly == Interprocess!LockDecidesRightly

(* sequential_lock: a read that is_read_valid accepts is not torn, unless  *)
(* a writer was told of an overlap or the counter came all the way round;  *)
(* flush_lock: a store whose writing was interrupted is never opened.      *)
NothingTornIsRead == Sequential!ValidIsWhole /\ Flush!TornIsGuarded

(* prioritized_mutex: once a client of high priority has next_mutex_, no   *)
(* client of low priority takes the data before it.                        *)
LowNeverOvertakes == Prioritized!LowNeverOvertakes

(* Nobody starves: every client of prioritized_mutex gets through, with no *)
(* circular wait among its three mutexes, and every operation that was     *)
(* locked in a sequencer completes, none stranded in actions_.             *)
EveryoneIsServed ==
  /\ subject = "prioritized" => Prioritized!EveryRoundEnds
  /\ EveryLockedOpRuns

=============================================================================
