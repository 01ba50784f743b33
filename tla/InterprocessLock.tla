-------------------------- MODULE InterprocessLock --------------------------
(***************************************************************************)
(* libbitcoin::interprocess_lock: processes exclude each other with an     *)
(* advisory lock on a file.  The file system is external (POSIX): the path *)
(* names a file or nothing, a removed file lives on while it is open, a    *)
(* lock belongs to the pair of process and file, and a process that closes *)
(* the file loses its lock on it.  Each call of lock() and unlock() is     *)
(* split where another process can come between.                           *)
(***************************************************************************)
EXTENDS Naturals

CONSTANTS
  Processes,
  Nobody,         \* not a process: the file is not locked
  MaxFiles        \* bound on the files that are ever created at the path

Files == 1..MaxFiles

VARIABLES
  path,           \* the file the path names, 0 if none
  created,        \* number of files created so far
  locker,         \* the process that has each file locked
  process,             \* where each process is
  handle,         \* lock_: the file the process has open, 0 if none
  granted,        \* the process has been told that it has the lock
  removed         \* history: a file was removed that another process had open

vars == <<path, created, locker, process, handle, granted, removed>>

Init ==
  /\ path = 0
  /\ created = 0
  /\ locker = [f \in Files |-> Nobody]
  /\ process = [p \in Processes |-> "idle"]
  /\ handle = [p \in Processes |-> 0]
  /\ granted = [p \in Processes |-> FALSE]
  /\ removed = FALSE

(* Closing a file gives up the process's lock on it.                       *)
Closed(p, f) == IF f # 0 /\ locker[f] = p THEN [locker EXCEPT ![f] = Nobody] ELSE locker

(* Fault: a file that is there already makes create fail.                  *)
CreateNew(p) ==
  /\ process[p] = "idle" /\ ~granted[p]
  /\ IF path = 0
     THEN /\ created < MaxFiles /\ created' = created + 1 /\ path' = created'
          /\ process' = [process EXCEPT ![p] = "open"]
     ELSE process' = [process EXCEPT ![p] = "failed"] /\ UNCHANGED <<path, created>>
  /\ UNCHANGED <<locker, handle, granted, removed>>

(* lock(): create() opens the file, making it if there is none, and closes *)
(* it again.  When it fails lock() returns false and nothing has changed.  *)
Create(p) ==
  /\ process[p] = "idle" /\ ~granted[p]
  /\ IF path = 0
     THEN created < MaxFiles /\ created' = created + 1 /\ path' = created'
     ELSE UNCHANGED <<path, created>>
  /\ locker' = Closed(p, path')
  /\ process' = [process EXCEPT ![p] = "open"]
  /\ UNCHANGED <<handle, granted, removed>>

(* lock(): lock_ becomes a lock on the file the path names now, and the    *)
(* one it replaces is closed; the constructor throws if there is no file.  *)
Open(p) ==
  /\ process[p] = "open"
  /\ IF path = 0
     THEN process' = [process EXCEPT ![p] = "failed"] /\ UNCHANGED <<handle, locker>>
     ELSE /\ handle' = [handle EXCEPT ![p] = path]
          /\ locker' = Closed(p, handle[p])
          /\ process' = [process EXCEPT ![p] = "try"]
  /\ UNCHANGED <<path, created, granted, removed>>

(* lock(): try_lock(), its result.                                         *)
TryLock(p) ==
  /\ process[p] = "try"
  /\ IF locker[handle[p]] \in {Nobody, p}
     THEN /\ locker' = [locker EXCEPT ![handle[p]] = p]
          /\ granted' = [granted EXCEPT ![p] = TRUE]
          /\ process' = [process EXCEPT ![p] = "idle"]
     ELSE process' = [process EXCEPT ![p] = "failed"] /\ UNCHANGED <<locker, granted>>
  /\ UNCHANGED <<path, created, handle, removed>>

(* The client of a failed lock() goes on, to try again or to unlock.       *)
Retry(p) ==
  /\ process[p] = "failed"
  /\ process' = [process EXCEPT ![p] = "idle"]
  /\ UNCHANGED <<path, created, locker, handle, granted, removed>>

(* unlock(), also by the destructor: lock_.reset().                        *)
Reset(p) ==
  /\ process[p] = "idle" /\ handle[p] # 0
  /\ locker' = Closed(p, handle[p])
  /\ handle' = [handle EXCEPT ![p] = 0]
  /\ granted' = [granted EXCEPT ![p] = FALSE]
  /\ process' = [process EXCEPT ![p] = "destroy"]
  /\ UNCHANGED <<path, created, removed>>

(* unlock(): destroy() removes whatever file the path names.               *)
Destroy(p) ==
  /\ process[p] = "destroy"
  /\ path' = 0
  /\ removed' = (removed \/ \E q \in Processes \ {p} : path # 0 /\ handle[q] = path)
  /\ process' = [process EXCEPT ![p] = "idle"]
  /\ UNCHANGED <<created, locker, handle, granted>>

(* The process ends without unlock and is started again.                   *)
Crash(p) ==
  /\ process[p] # "idle" \/ handle[p] # 0
  /\ process' = [process EXCEPT ![p] = "idle"]
  /\ locker' = Closed(p, handle[p])
  /\ handle' = [handle EXCEPT ![p] = 0]
  /\ granted' = [granted EXCEPT ![p] = FALSE]
  /\ UNCHANGED <<path, created, removed>>

Next ==
  \E p \in Processes :
    Create(p) \/ Open(p) \/ TryLock(p) \/ Retry(p) \/ Reset(p) \/ Destroy(p) \/ Crash(p)

Spec == Init /\ [][Next]_vars

-----------------------------------------------------------------------------
(* lock() grants rightly: it excludes the other processes for as long as   *)
(* no unlock(), which is also called by a process that failed to lock,     *)
(* removes the file that another one has open.  And it refuses rightly:    *)
(* "This may leave the lock file behind, which is not a problem", it fails *)
(* only if another process is inside lock(), unlock() or has a file open,  *)
(* whatever file a process that crashed has left behind.                   *)
LockDecidesRightly ==
  [][/\ ~removed' => \A p, q \in Processes : granted'[p] /\ granted'[q] => p = q
     /\ \A p \in Processes :
          process[p] # "failed" /\ process'[p] = "failed"
            => \E q \in Processes \ {p} : process[q] # "idle" \/ handle[q] # 0 \/ path = 0]_vars

-----------------------------------------------------------------------------
(* "This succeeds if no other process has exclusive or sharable ownership" *)
(* and guards "a resource againt concurrent use by another instance".      *)
Exclusive == \A p, q \in Processes : granted[p] /\ granted[q] => p = q

=============================================================================
