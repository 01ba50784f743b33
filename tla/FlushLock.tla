----------------------------- MODULE FlushLock ------------------------------
(***************************************************************************)
(* libbitcoin::flush_lock: a file that exists while a store is being       *)
(* written, so that a process that opens the store can tell that an        *)
(* earlier one was interrupted.  The client opens the store only if        *)
(* try_lock() is true and writes only between a successful lock_shared()   *)
(* and unlock_shared(); the process may end at any step, keeping nothing   *)
(* but the files.                                                          *)
(***************************************************************************)
EXTENDS Naturals

CONSTANT MaxCrashes    \* bound on the ends of the process

VARIABLES
  file,           \* the file exists
  torn,           \* a write of the store is incomplete
  locked,         \* locked_
  client,             \* what the client is doing
  crashes         \* number of ends of the process

vars == <<file, torn, locked, client, crashes>>

Init ==
  /\ file = FALSE
  /\ torn = FALSE
  /\ locked = FALSE
  /\ client = "down"
  /\ crashes = 0

(* The process starts: the constructor and try_lock().                     *)
try_lock ==
  /\ client = "down"
  /\ client' = IF file THEN "refused" ELSE "open"
  /\ locked' = FALSE
  /\ UNCHANGED <<file, torn, crashes>>

(* Fault: the file is made only after the lock is reported.                *)
lock_shared_late ==
  /\ client = "open"
  /\ locked' = TRUE
  /\ client' = "locked"
  /\ UNCHANGED <<file, torn, crashes>>

(* lock_shared(): creating the file may fail, and then nothing is written. *)
lock_shared ==
  /\ client = "open"
  /\ \E done \in BOOLEAN :
       /\ file' = (file \/ (~locked /\ done))
       /\ locked' = (locked \/ done)
  /\ client' = IF locked' THEN "locked" ELSE "open"
  /\ UNCHANGED <<torn, crashes>>

WriteBegin ==
  /\ client = "locked"
  /\ torn' = TRUE
  /\ client' = "writing"
  /\ UNCHANGED <<file, locked, crashes>>

WriteEnd ==
  /\ client = "writing"
  /\ torn' = FALSE
  /\ client' = "locked"
  /\ UNCHANGED <<file, locked, crashes>>

(* unlock_shared(): removing the file may fail (by an exception), and then *)
(* the lock is still held.                                                 *)
unlock_shared ==
  /\ client = "locked"
  /\ \E done \in BOOLEAN :
       /\ file' = (file /\ ~(locked /\ done))
       /\ locked' = (locked /\ ~done)
  /\ client' = "open"
  /\ UNCHANGED <<torn, crashes>>

(* The process ends, in order or not.                                      *)
End ==
  /\ client # "down"
  /\ crashes < MaxCrashes
  /\ crashes' = crashes + 1
  /\ client' = "down"
  /\ UNCHANGED <<file, torn, locked>>

Next == try_lock \/ lock_shared \/ WriteBegin \/ WriteEnd \/ unlock_shared \/ End

Spec == Init /\ [][Next]_vars

-----------------------------------------------------------------------------
(* A process never opens a store that an earlier one was interrupted in    *)
(* writing: while the store is torn the file exists, over every crash and  *)
(* every failure to create or remove the file.                             *)
TornIsGuarded == torn => file /\ client \in {"writing", "down", "refused"}

=============================================================================
