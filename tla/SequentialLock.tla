--------------------------- MODULE SequentialLock ---------------------------
(***************************************************************************)
(* libbitcoin::sequential_lock: readers note a sequence number, read, and  *)
(* accept what they read if the number has not changed; writers make the   *)
(* number odd while they write.  The resource is two words that a writer   *)
(* changes one after the other.  A writer pairs begin_write with end_write *)
(* whatever they return; a reader does not read under an odd number.       *)
(***************************************************************************)
EXTENDS Naturals

CONSTANTS
  Writers,        \* threads that write
  Modulus,        \* the counter is a size_t: 2^64 in the code
  MaxWrites       \* bound on the writes of all writers

VARIABLES
  sequence,       \* sequence_
  words,          \* the guarded resource
  writer,             \* where each writer is
  writes,         \* number of writes begun, the value the next one writes
  value,          \* the value each writer writes
  told,           \* history: a begin_write or end_write returned false
  reader,         \* the reader: its step, its handle and the words it got
  ticks           \* history: increments since the reader's begin_read

vars == <<sequence, words, writer, writes, value, told, reader, ticks>>
writing == <<words, writes, value>>

is_write_locked(handle) == handle % 2 = 1

Init ==
  /\ sequence = 0
  /\ words = <<0, 0>>
  /\ writer = [w \in Writers |-> "idle"]
  /\ writes = 0
  /\ value = [w \in Writers |-> 0]
  /\ told = FALSE
  /\ reader = [at |-> "idle", handle |-> 0, got |-> <<0, 0>>]
  /\ ticks = 0

(* ++sequence_ *)
Increment ==
  /\ sequence' = (sequence + 1) % Modulus
  /\ ticks' = ticks + 1

begin_write(w) ==
  /\ writer[w] = "idle" /\ writes < MaxWrites
  /\ Increment
  /\ told' = (told \/ ~is_write_locked(sequence'))
  /\ writes' = writes + 1
  /\ value' = [value EXCEPT ![w] = writes']
  /\ writer' = [writer EXCEPT ![w] = "first"]
  /\ UNCHANGED <<words, reader>>

(* The writer's two assignments.                                           *)
Write(w) ==
  /\ \/ writer[w] = "first" /\ words' = [words EXCEPT ![1] = value[w]] /\ writer' = [writer EXCEPT ![w] = "second"]
     \/ writer[w] = "second" /\ words' = [words EXCEPT ![2] = value[w]] /\ writer' = [writer EXCEPT ![w] = "end"]
  /\ UNCHANGED <<sequence, writes, value, told, reader, ticks>>

end_write(w) ==
  /\ writer[w] = "end"
  /\ Increment
  /\ told' = (told \/ is_write_locked(sequence'))
  /\ writer' = [writer EXCEPT ![w] = "idle"]
  /\ UNCHANGED <<writing, reader>>

begin_read ==
  /\ reader.at \in {"idle", "valid", "invalid"}
  /\ reader' = [at |-> IF is_write_locked(sequence) THEN "idle" ELSE "first",
                handle |-> sequence, got |-> <<0, 0>>]
  /\ ticks' = 0
  /\ UNCHANGED <<sequence, writer, told, writing>>

(* The reader's two reads.                                                 *)
Read ==
  /\ \/ reader.at = "first" /\ reader' = [reader EXCEPT !.got[1] = words[1], !.at = "second"]
     \/ reader.at = "second" /\ reader' = [reader EXCEPT !.got[2] = words[2], !.at = "test"]
  /\ UNCHANGED <<sequence, writer, told, writing, ticks>>

is_read_valid ==
  /\ reader.at = "test"
  /\ reader' = [reader EXCEPT !.at = IF reader.handle = sequence THEN "valid" ELSE "invalid"]
  /\ UNCHANGED <<sequence, writer, told, writing, ticks>>

Next ==
  \/ begin_read \/ Read \/ is_read_valid
  \/ \E w \in Writers : begin_write(w) \/ Write(w) \/ end_write(w)

Spec == Init /\ [][Next]_vars

-----------------------------------------------------------------------------
(* A read that is_read_valid accepts is not torn, unless writers have      *)
(* overlapped, and then one of them has been told by a false result; or    *)
(* the counter has come all the way round since begin_read.                *)
ValidIsWhole ==
  reader.at = "valid" /\ ~told /\ ticks < Modulus => reader.got[1] = reader.got[2]

=============================================================================
