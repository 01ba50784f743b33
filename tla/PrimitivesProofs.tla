-------------------------- MODULE PrimitivesProofs --------------------------
(***************************************************************************)
(* The safety of the small synchronisation classes for any numbers of      *)
(* operations, threads, processes, rounds, starts and crashes: the         *)
(* sequencer runs one operation at a time in order, nothing torn is read,  *)
(* a timer calls its handler once at most, low priority never overtakes,   *)
(* and the interprocess lock grants and refuses rightly.                   *)
(***************************************************************************)
EXTENDS MCPrimitives, TLAPS

-----------------------------------------------------------------------------
(* flush_lock.  While the process holds the lock the file exists.          *)
FlushInv ==
  /\ file \in BOOLEAN /\ locked \in BOOLEAN /\ torn \in BOOLEAN
  /\ client \in {"down", "refused", "open", "locked", "writing"}
  /\ client \in {"open", "locked", "writing"} => (locked => file)
  /\ client \in {"locked", "writing"} => locked
  /\ Flush!TornIsGuarded

LEMMA FlushSafe ==
  ASSUME FlushInv, FlushStep
  PROVE  FlushInv'
<1> USE DEF FlushInv, Flush!TornIsGuarded
<1>1. CASE Flush!try_lock
  BY <1>1, Zenon DEF Flush!try_lock
<1>2. CASE Flush!lock_shared
  BY <1>2 DEF Flush!lock_shared
<1>3. CASE Flush!WriteBegin
  BY <1>3 DEF Flush!WriteBegin
<1>4. CASE Flush!WriteEnd
  BY <1>4, Zenon DEF Flush!WriteEnd
<1>5. CASE Flush!unlock_shared
  BY <1>5 DEF Flush!unlock_shared
<1>6. CASE Flush!End
  BY <1>6 DEF Flush!End
<1> QED
  BY <1>1, <1>2, <1>3, <1>4, <1>5, <1>6 DEF FlushStep, Flush!Next

-----------------------------------------------------------------------------
(* sequential_lock.                                                        *)
Active(w) == writer[w] # "idle"

SequentialType ==
  /\ sequence \in 0..(Modulus - 1) /\ ticks \in Nat /\ told \in BOOLEAN
  /\ words \in [1..2 -> Nat] /\ writes \in Nat /\ value \in [Writers -> Nat]
  /\ writer \in [Writers -> {"idle", "first", "second", "end"}]
  /\ reader \in [at : {"idle", "first", "second", "test", "valid", "invalid"},
                 handle : 0..(Modulus - 1), got : [1..2 -> Nat]]

(* Unless a writer was told, the number is odd while one of them writes,   *)
(* and at most one does; between writes the words agree.                   *)
OneWriter ==
  ~told =>
    /\ sequence % 2 = 1 <=> \E w \in Writers : Active(w)
    /\ \A v, w \in Writers : Active(v) /\ Active(w) => v = w
    /\ \A w \in Writers : /\ writer[w] = "second" => words[1] = value[w]
                          /\ writer[w] = "end" => words[1] = value[w] /\ words[2] = value[w]
    /\ sequence % 2 = 0 => words[1] = words[2]

(* A reader noted an even number, which the increments since have not      *)
(* brought back, and without an increment it has the words as they are.    *)
OneReader ==
  reader.at \in {"first", "second", "test"} =>
    /\ reader.handle % 2 = 0
    /\ ticks < Modulus =>
         sequence = IF reader.handle + ticks < Modulus THEN reader.handle + ticks
                    ELSE reader.handle + ticks - Modulus
    /\ ~told /\ ticks = 0 =>
         /\ reader.at \in {"second", "test"} => reader.got[1] = words[1]
         /\ reader.at = "test" => reader.got[2] = words[2]

SequentialInv == SequentialType /\ OneWriter /\ OneReader /\ Sequential!ValidIsWhole

(* One more modulo an even number changes the parity.                      *)
LEMMA Successor ==
  ASSUME NEW n \in 0..(Modulus - 1)
  PROVE  /\ (n + 1) % Modulus = IF n + 1 = Modulus THEN 0 ELSE n + 1
         /\ (n + 1) % Modulus \in 0..(Modulus - 1)
         /\ ((n + 1) % Modulus) % 2 = 1 <=> n % 2 = 0
         /\ n % 2 \in {0, 1} /\ ((n + 1) % Modulus) % 2 \in {0, 1}
<1>1. Modulus \in Nat \ {0} /\ Modulus % 2 = 0
  BY PrimitivesAssumption
<1>2. (n + 1) % Modulus = IF n + 1 = Modulus THEN 0 ELSE n + 1
  BY <1>1
<1>3. n % 2 = 0 <=> (n + 1) % 2 = 1
  OBVIOUS
<1>4. 0 % 2 = 0 /\ n % 2 \in {0, 1} /\ (n + 1) % 2 \in {0, 1}
  OBVIOUS
<1> QED
  BY <1>1, <1>2, <1>3, <1>4

LEMMA Around ==
  ASSUME NEW M \in Nat \ {0}, NEW h \in 0..(M - 1), NEW t \in Nat, NEW n \in Nat, t + 1 < M,
         n = IF h + t < M THEN h + t ELSE h + t - M
  PROVE  (IF n + 1 = M THEN 0 ELSE n + 1)
           = IF h + (t + 1) < M THEN h + (t + 1) ELSE h + (t + 1) - M
OBVIOUS

LEMMA IncrementInv ==
  ASSUME SequentialInv, Sequential!Increment, reader' = reader, words' = words,
         told' \in BOOLEAN, told => told'
  PROVE  /\ sequence' \in 0..(Modulus - 1) /\ ticks' \in Nat
         /\ sequence' % 2 = 1 <=> sequence % 2 = 0
         /\ sequence % 2 \in {0, 1} /\ sequence' % 2 \in {0, 1}
         /\ OneReader' /\ Sequential!ValidIsWhole'
<1>1. sequence' = (sequence + 1) % Modulus /\ ticks' = ticks + 1
  BY DEF Sequential!Increment
<1>2. /\ sequence \in 0..(Modulus - 1) /\ ticks \in Nat /\ Modulus \in Nat \ {0}
      /\ reader.handle \in 0..(Modulus - 1) /\ told \in BOOLEAN
  BY PrimitivesAssumption DEF SequentialInv, SequentialType
<1>3. /\ sequence' = IF sequence + 1 = Modulus THEN 0 ELSE sequence + 1
      /\ sequence' \in 0..(Modulus - 1)
      /\ sequence' % 2 = 1 <=> sequence % 2 = 0
      /\ sequence % 2 \in {0, 1} /\ sequence' % 2 \in {0, 1}
  BY <1>1, <1>2, Successor
<1>4. ticks' \in Nat \ {0}
  BY <1>1, <1>2
<1>5. ASSUME reader.at \in {"first", "second", "test"}, ticks' < Modulus
      PROVE  sequence' = IF reader.handle + ticks' < Modulus THEN reader.handle + ticks'
                         ELSE reader.handle + ticks' - Modulus
  <2>1. ticks < Modulus
    BY <1>1, <1>2, <1>5
  <2>2. sequence = IF reader.handle + ticks < Modulus THEN reader.handle + ticks
                   ELSE reader.handle + ticks - Modulus
    BY <1>5, <2>1 DEF SequentialInv, OneReader
  <2>3. ticks + 1 < Modulus /\ sequence \in Nat
    BY <1>1, <1>2, <1>5
  <2>4. (IF sequence + 1 = Modulus THEN 0 ELSE sequence + 1)
          = IF reader.handle + (ticks + 1) < Modulus THEN reader.handle + (ticks + 1)
            ELSE reader.handle + (ticks + 1) - Modulus
    BY <1>2, <2>2, <2>3, Around
  <2> QED
    BY <1>1, <1>3, <2>4
<1>6. OneReader'
  BY <1>4, <1>5 DEF SequentialInv, OneReader
<1>7. Sequential!ValidIsWhole'
  BY <1>1, <1>2 DEF SequentialInv, Sequential!ValidIsWhole
<1> QED
  BY <1>3, <1>4, <1>6, <1>7

LEMMA SequentialBeginWrite ==
  ASSUME SequentialInv, NEW w \in Writers, Sequential!begin_write(w)
  PROVE  SequentialInv'
<1>1. /\ writer[w] = "idle" /\ Sequential!Increment
      /\ told' = (told \/ ~(sequence' % 2 = 1)) /\ writes' = writes + 1
      /\ value' = [value EXCEPT ![w] = writes'] /\ writer' = [writer EXCEPT ![w] = "first"]
      /\ words' = words /\ reader' = reader
  BY DEF Sequential!begin_write, Sequential!is_write_locked
<1>2. told' \in BOOLEAN /\ (told => told')
  BY <1>1 DEF SequentialInv, SequentialType
<1>3. /\ sequence' \in 0..(Modulus - 1) /\ ticks' \in Nat
      /\ sequence' % 2 = 1 <=> sequence % 2 = 0
      /\ sequence % 2 \in {0, 1} /\ sequence' % 2 \in {0, 1}
      /\ OneReader' /\ Sequential!ValidIsWhole'
  BY <1>1, <1>2, IncrementInv
<1>4. SequentialType'
  <2>1. writes' \in Nat
    BY <1>1 DEF SequentialInv, SequentialType
  <2> QED
    BY <1>1, <1>2, <1>3, <2>1 DEF SequentialInv, SequentialType
<1>5. OneWriter'
  <2> SUFFICES ASSUME ~told' PROVE OneWriter'
    BY DEF OneWriter
  <2>1. ~told /\ sequence' % 2 = 1 /\ sequence % 2 = 0
    BY <1>1, <1>3, Zenon
  <2>2. \A v \in Writers : writer[v] = "idle"
    BY <2>1 DEF SequentialInv, OneWriter, Active
  <2>3. \A v \in Writers : writer'[v] = IF v = w THEN "first" ELSE "idle"
    BY <1>1, <2>2 DEF SequentialInv, SequentialType
  <2> QED
    BY <2>1, <2>3 DEF OneWriter, Active
<1> QED
  BY <1>3, <1>4, <1>5 DEF SequentialInv

LEMMA SequentialEndWrite ==
  ASSUME SequentialInv, NEW w \in Writers, Sequential!end_write(w)
  PROVE  SequentialInv'
<1>1. /\ writer[w] = "end" /\ Sequential!Increment
      /\ told' = (told \/ sequence' % 2 = 1) /\ writer' = [writer EXCEPT ![w] = "idle"]
      /\ words' = words /\ reader' = reader /\ writes' = writes /\ value' = value
  BY DEF Sequential!end_write, Sequential!is_write_locked, Sequential!writing
<1>2. told' \in BOOLEAN /\ (told => told')
  BY <1>1 DEF SequentialInv, SequentialType
<1>3. /\ sequence' \in 0..(Modulus - 1) /\ ticks' \in Nat
      /\ sequence' % 2 = 1 <=> sequence % 2 = 0
      /\ sequence % 2 \in {0, 1} /\ sequence' % 2 \in {0, 1}
      /\ OneReader' /\ Sequential!ValidIsWhole'
  BY <1>1, <1>2, IncrementInv
<1>4. SequentialType'
  BY <1>1, <1>2, <1>3 DEF SequentialInv, SequentialType
<1>5. OneWriter'
  <2> SUFFICES ASSUME ~told' PROVE OneWriter'
    BY DEF OneWriter
  <2>1. ~told /\ sequence' % 2 = 0
    BY <1>1, <1>3, Zenon
  <2>2. \A v \in Writers : writer[v] # "idle" => v = w
    BY <1>1, <2>1 DEF SequentialInv, OneWriter, Active
  <2>3. \A v \in Writers : writer'[v] = "idle"
    BY <1>1, <2>2 DEF SequentialInv, SequentialType
  <2>4. words[1] = words[2]
    BY <1>1, <2>1 DEF SequentialInv, OneWriter
  <2> QED
    BY <1>1, <2>1, <2>3, <2>4 DEF OneWriter, Active
<1> QED
  BY <1>3, <1>4, <1>5 DEF SequentialInv

LEMMA SequentialWrite ==
  ASSUME SequentialInv, NEW w \in Writers, Sequential!Write(w)
  PROVE  SequentialInv'
<1>1. /\ sequence' = sequence /\ writes' = writes /\ value' = value /\ told' = told
      /\ reader' = reader /\ ticks' = ticks
      /\ \/ /\ writer[w] = "first" /\ words' = [words EXCEPT ![1] = value[w]]
            /\ writer' = [writer EXCEPT ![w] = "second"]
         \/ /\ writer[w] = "second" /\ words' = [words EXCEPT ![2] = value[w]]
            /\ writer' = [writer EXCEPT ![w] = "end"]
  BY DEF Sequential!Write
<1>2. SequentialType'
  BY <1>1 DEF SequentialInv, SequentialType
<1>3. /\ \A v \in Writers : v # w => writer'[v] = writer[v]
      /\ Active(w) /\ \A v \in Writers : Active(v)' <=> Active(v)
  BY <1>1 DEF SequentialInv, SequentialType, Active
<1>4. ~told => sequence % 2 = 1 /\ \A v \in Writers : Active(v) => v = w
  BY <1>3 DEF SequentialInv, OneWriter
<1>5. /\ writer'[w] = "second" => words'[1] = value[w]
      /\ writer'[w] = "end" => words'[2] = value[w] /\ words'[1] = words[1]
      /\ writer'[w] = "second" \/ (writer'[w] = "end" /\ writer[w] = "second")
  BY <1>1 DEF SequentialInv, SequentialType
<1>6. OneWriter'
  <2> SUFFICES ASSUME ~told' PROVE OneWriter'
    BY DEF OneWriter
  <2>1. ~told
    BY <1>1
  <2>2. \A v \in Writers : v # w => writer'[v] = "idle"
    BY <1>3, <1>4, <2>1 DEF Active
  <2>3. writer[w] = "second" => words[1] = value[w]
    BY <2>1 DEF SequentialInv, OneWriter
  <2>4. sequence' % 2 = 1 <=> \E v \in Writers : Active(v)'
    BY <1>1, <1>3, <1>4, <2>1
  <2>5. \A u, v \in Writers : Active(u)' /\ Active(v)' => u = v
    BY <1>3, <1>4, <2>1
  <2>6. \A v \in Writers : /\ writer'[v] = "second" => words'[1] = value'[v]
                           /\ writer'[v] = "end" => words'[1] = value'[v] /\ words'[2] = value'[v]
    BY <1>1, <1>5, <2>2, <2>3
  <2>7. sequence' % 2 # 0
    BY <1>1, <1>4, <2>1
  <2> QED
    BY <2>4, <2>5, <2>6, <2>7 DEF OneWriter
<1>7. OneReader'
  <2>1. ASSUME reader.at \in {"first", "second", "test"}, ~told, ticks = 0 PROVE FALSE
    <3>1. sequence = reader.handle /\ reader.handle % 2 = 0
      <4>1. Modulus \in Nat \ {0} /\ reader.handle \in 0..(Modulus - 1)
        BY PrimitivesAssumption DEF SequentialInv, SequentialType
      <4>2. reader.handle + 0 = reader.handle /\ reader.handle < Modulus /\ 0 < Modulus
        BY <4>1
      <4> QED
        BY <2>1, <4>2 DEF SequentialInv, OneReader
    <3> QED
      BY <1>4, <2>1, <3>1
  <2> QED
    BY <1>1, <2>1 DEF SequentialInv, OneReader
<1>8. Sequential!ValidIsWhole'
  BY <1>1 DEF SequentialInv, Sequential!ValidIsWhole
<1> QED
  BY <1>2, <1>6, <1>7, <1>8 DEF SequentialInv

LEMMA SequentialRead ==
  ASSUME SequentialInv, Sequential!begin_read \/ Sequential!Read \/ Sequential!is_read_valid
  PROVE  SequentialInv'
<1>1. /\ sequence' = sequence /\ writer' = writer /\ told' = told /\ words' = words
      /\ writes' = writes /\ value' = value
  BY DEF Sequential!begin_read, Sequential!Read, Sequential!is_read_valid, Sequential!writing
<1>2. /\ Modulus \in Nat \ {0} /\ sequence \in 0..(Modulus - 1) /\ ticks \in Nat
      /\ sequence % 2 \in {0, 1} /\ reader.handle \in 0..(Modulus - 1)
  BY PrimitivesAssumption DEF SequentialInv, SequentialType
<1>3. OneWriter'
  BY <1>1 DEF SequentialInv, OneWriter, Active
<1>4. CASE Sequential!begin_read
  <2>1. /\ reader' = [at |-> IF sequence % 2 = 1 THEN "idle" ELSE "first",
                      handle |-> sequence, got |-> <<0, 0>>]
        /\ ticks' = 0
    BY <1>4 DEF Sequential!begin_read, Sequential!is_write_locked
  <2>2. <<0, 0>> \in [1..2 -> Nat]
    OBVIOUS
  <2>3. SequentialType'
    BY <1>1, <1>2, <2>1, <2>2 DEF SequentialInv, SequentialType
  <2>4. sequence + 0 = sequence /\ sequence < Modulus
    BY <1>2
  <2>5. OneReader'
    BY <1>1, <1>2, <2>1, <2>4 DEF OneReader
  <2>6. Sequential!ValidIsWhole'
    BY <2>1 DEF Sequential!ValidIsWhole
  <2> QED
    BY <1>3, <2>3, <2>5, <2>6 DEF SequentialInv
<1>5. CASE Sequential!Read
  <2>1. /\ ticks' = ticks
        /\ \/ reader.at = "first" /\ reader' = [reader EXCEPT !.got[1] = words[1], !.at = "second"]
           \/ reader.at = "second" /\ reader' = [reader EXCEPT !.got[2] = words[2], !.at = "test"]
    BY <1>5 DEF Sequential!Read
  <2>2. reader \in [at : {"idle", "first", "second", "test", "valid", "invalid"},
                   handle : 0..(Modulus - 1), got : [1..2 -> Nat]]
        /\ words[1] \in Nat /\ words[2] \in Nat
    BY DEF SequentialInv, SequentialType
  <2>3. /\ reader' \in [at : {"idle", "first", "second", "test", "valid", "invalid"},
                      handle : 0..(Modulus - 1), got : [1..2 -> Nat]]
        /\ reader'.handle = reader.handle /\ reader'.at \in {"second", "test"}
        /\ reader.at \in {"first", "second"}
        /\ reader'.at = "second" => reader'.got[1] = words[1]
        /\ reader'.at = "test" => /\ reader.at = "second" /\ reader'.got[1] = reader.got[1]
                                  /\ reader'.got[2] = words[2]
    <3>1. CASE /\ reader.at = "first"
               /\ reader' = [reader EXCEPT !.got[1] = words[1], !.at = "second"]
      <4>1. /\ reader'.at = "second" /\ reader'.handle = reader.handle
            /\ reader'.got = [reader.got EXCEPT ![1] = words[1]]
            /\ reader' = [at |-> reader'.at, handle |-> reader'.handle, got |-> reader'.got]
        BY <2>2, <3>1, Zenon
      <4> QED
        BY <2>2, <3>1, <4>1
    <3>2. CASE /\ reader.at = "second"
               /\ reader' = [reader EXCEPT !.got[2] = words[2], !.at = "test"]
      <4>1. /\ reader'.at = "test" /\ reader'.handle = reader.handle
            /\ reader'.got = [reader.got EXCEPT ![2] = words[2]]
            /\ reader' = [at |-> reader'.at, handle |-> reader'.handle, got |-> reader'.got]
        BY <2>2, <3>2, Zenon
      <4> QED
        BY <2>2, <3>2, <4>1
    <3> QED
      BY <2>1, <3>1, <3>2
  <2>6. SequentialType'
    BY <1>1, <2>1, <2>3 DEF SequentialInv, SequentialType
  <2>4. OneReader'
    BY <1>1, <2>1, <2>3 DEF SequentialInv, OneReader
  <2>5. Sequential!ValidIsWhole'
    BY <2>3 DEF Sequential!ValidIsWhole
  <2> QED
    BY <1>3, <2>4, <2>5, <2>6 DEF SequentialInv
<1>6. CASE Sequential!is_read_valid
  <2>1. /\ ticks' = ticks /\ reader.at = "test"
        /\ reader' = [reader EXCEPT !.at = IF reader.handle = sequence THEN "valid" ELSE "invalid"]
    BY <1>6 DEF Sequential!is_read_valid
  <2>2. SequentialType'
    BY <1>1, <2>1 DEF SequentialInv, SequentialType
  <2>3. /\ reader'.at = (IF reader.handle = sequence THEN "valid" ELSE "invalid")
        /\ reader'.got = reader.got
    BY <2>1 DEF SequentialInv, SequentialType
  <2>4. OneReader'
    BY <2>3 DEF OneReader
  <2>5. ASSUME reader.handle = sequence, ~told, ticks < Modulus
        PROVE  reader.got[1] = reader.got[2]
    <3>1. sequence = IF reader.handle + ticks < Modulus THEN reader.handle + ticks
                     ELSE reader.handle + ticks - Modulus
      BY <2>1, <2>5 DEF SequentialInv, OneReader
    <3>2. ticks = 0
      BY <1>2, <2>5, <3>1
    <3>3. reader.got[1] = words[1] /\ reader.got[2] = words[2] /\ sequence % 2 = 0
      BY <2>1, <2>5, <3>2 DEF SequentialInv, OneReader
    <3> QED
      BY <2>5, <3>3 DEF SequentialInv, OneWriter
  <2>6. Sequential!ValidIsWhole'
    BY <1>1, <2>1, <2>3, <2>5 DEF Sequential!ValidIsWhole
  <2> QED
    BY <1>3, <2>2, <2>4, <2>6 DEF SequentialInv
<1> QED
  BY <1>4, <1>5, <1>6

LEMMA SequentialSafe ==
  ASSUME SequentialInv, SequentialStep
  PROVE  SequentialInv'
BY SequentialRead, SequentialBeginWrite, SequentialWrite, SequentialEndWrite
   DEF SequentialStep, Sequential!Next

(* A step of another class leaves the variables of one alone.              *)
LEMMA OthersUnchanged ==
  ASSUME [PrimitivesNext]_allVars
  PROVE  /\ FlushStep \/ UNCHANGED flushVars
         /\ SequentialStep \/ UNCHANGED sequentialVars
         /\ InterprocessStep \/ UNCHANGED interprocessVars
         /\ PrioritizedStep \/ UNCHANGED prioritizedVars
         /\ DeadlineStep \/ UNCHANGED timerVars
BY DEF PrimitivesNext, allVars, DeadlineStep, SequentialStep, InterprocessStep, FlushStep,
       PrioritizedStep, SequencerStep

(* sequential_lock and flush_lock: whatever is read under a valid handle   *)
(* is whole, for any number of writers and any even modulus, and a torn    *)
(* store is never opened, over any number of crashes.                      *)
THEOREM NothingTorn == PrimitivesSpec => []NothingTornIsRead
<1>1. PrimitivesInit => FlushInv /\ SequentialInv
  <2> SUFFICES ASSUME PrimitivesInit PROVE FlushInv /\ SequentialInv
    OBVIOUS
  <2>1. FlushInv
    BY Zenon DEF PrimitivesInit, Flush!Init, FlushInv, Flush!TornIsGuarded
  <2>2. Sequential!Init /\ <<0, 0>> \in [1..2 -> Nat] /\ 0 % 2 = 0
    BY DEF PrimitivesInit
  <2>3. SequentialType
    <3>1. 0 \in 0..(Modulus - 1)
      BY PrimitivesAssumption
    <3>2. reader \in [at : {"idle", "first", "second", "test", "valid", "invalid"},
                     handle : 0..(Modulus - 1), got : [1..2 -> Nat]]
      BY <2>2, <3>1 DEF Sequential!Init
    <3> QED
      BY <2>2, <3>1, <3>2, Zenon DEF SequentialType, Sequential!Init
  <2>4. OneWriter /\ OneReader /\ Sequential!ValidIsWhole
    BY <2>2 DEF OneWriter, OneReader, Active, Sequential!ValidIsWhole, Sequential!Init
  <2> QED
    BY <2>1, <2>3, <2>4 DEF SequentialInv
<1>2. FlushInv /\ SequentialInv /\ [PrimitivesNext]_allVars => (FlushInv /\ SequentialInv)'
  <2> SUFFICES ASSUME FlushInv, SequentialInv, [PrimitivesNext]_allVars
               PROVE  FlushInv' /\ SequentialInv'
    OBVIOUS
  <2>1. ASSUME UNCHANGED flushVars PROVE FlushInv'
    <3>1. file' = file /\ torn' = torn /\ locked' = locked /\ client' = client
      BY <2>1 DEF flushVars
    <3> QED
      BY <3>1 DEF FlushInv, Flush!TornIsGuarded
  <2>2. ASSUME UNCHANGED sequentialVars PROVE SequentialInv'
    <3>1. /\ sequence' = sequence /\ words' = words /\ writer' = writer /\ writes' = writes
          /\ value' = value /\ told' = told /\ reader' = reader /\ ticks' = ticks
      BY <2>2 DEF sequentialVars
    <3>2. SequentialType' /\ Sequential!ValidIsWhole'
      BY <3>1, SMTT(30) DEF SequentialInv, SequentialType, Sequential!ValidIsWhole
    <3>3. OneWriter'
      BY <3>1, SMTT(30) DEF SequentialInv, OneWriter, Active
    <3>4. OneReader'
      BY <3>1 DEF SequentialInv, OneReader
    <3> QED
      BY <3>2, <3>3, <3>4 DEF SequentialInv
  <2> QED
    BY <2>1, <2>2, FlushSafe, SequentialSafe, OthersUnchanged
<1>3. FlushInv /\ SequentialInv => NothingTornIsRead
  BY DEF FlushInv, SequentialInv, NothingTornIsRead
<1> QED
  BY <1>1, <1>2, <1>3, PTL DEF PrimitivesSpec

-----------------------------------------------------------------------------
(* interprocess_lock.                                                      *)
InterprocessType ==
  /\ path \in 0..MaxFiles /\ created \in 0..MaxFiles /\ removed \in BOOLEAN
  /\ locker \in [1..MaxFiles -> Processes \cup {Nobody}]
  /\ process \in [Processes -> {"idle", "open", "try", "failed", "destroy"}]
  /\ handle \in [Processes -> 0..MaxFiles] /\ granted \in [Processes -> BOOLEAN]

(* A lock is granted to the process that has the file locked, which has it *)
(* open; until a file is removed under a process everybody has the file of *)
(* the path open; and a process that finds no file is not alone.           *)
InterprocessInv ==
  /\ InterprocessType
  /\ \A p \in Processes :
       /\ process[p] = "try" => handle[p] # 0
       /\ process[p] = "destroy" => handle[p] = 0
       /\ process[p] # "idle" => ~granted[p]
       /\ granted[p] => handle[p] # 0 /\ locker[handle[p]] = p
       /\ \A f \in 1..MaxFiles : locker[f] = p => handle[p] = f
       /\ ~removed => handle[p] \in {0, path}
       /\ process[p] = "open" /\ path = 0 => Processes \ {p} # {}

LEMMA Closing ==
  ASSUME InterprocessInv, NEW p \in Processes, NEW f \in 0..MaxFiles,
         locker' = Interprocess!Closed(p, f)
  PROVE  /\ locker' \in [1..MaxFiles -> Processes \cup {Nobody}]
         /\ \A g \in 1..MaxFiles :
              locker'[g] = IF g = f /\ locker[g] = p THEN Nobody ELSE locker[g]
BY DEF InterprocessInv, InterprocessType, Interprocess!Closed

LEMMA InterprocessOpens ==
  ASSUME InterprocessInv, NEW p \in Processes,
         Interprocess!Create(p) \/ Interprocess!Open(p) \/ Interprocess!Retry(p)
  PROVE  InterprocessInv'
<1>1. Nobody \notin Processes /\ MaxFiles \in Nat
  BY PrimitivesAssumption
<1>2. InterprocessType
  BY Zenon DEF InterprocessInv
<1>3. CASE Interprocess!Create(p)
  <2>1. /\ process[p] = "idle" /\ ~granted[p] /\ process' = [process EXCEPT ![p] = "open"]
        /\ handle' = handle /\ granted' = granted /\ removed' = removed
        /\ locker' = Interprocess!Closed(p, path')
        /\ IF path = 0 THEN created < MaxFiles /\ created' = created + 1 /\ path' = created'
           ELSE path' = path /\ created' = created
    BY <1>3 DEF Interprocess!Create
  <2>2. path' \in 1..MaxFiles /\ created' \in 0..MaxFiles /\ (path # 0 => path' = path)
    BY <1>1, <1>2, <2>1 DEF InterprocessType
  <2>3. /\ locker' \in [1..MaxFiles -> Processes \cup {Nobody}]
        /\ \A g \in 1..MaxFiles :
             locker'[g] = IF g = path' /\ locker[g] = p THEN Nobody ELSE locker[g]
    BY <2>1, <2>2, Closing
  <2>4. InterprocessType'
    BY <1>2, <2>1, <2>2, <2>3, Zenon DEF InterprocessType
  <2>5. ASSUME NEW q \in Processes
        PROVE  /\ granted[q] => q # p /\ handle[q] # 0 /\ locker'[handle[q]] = q
               /\ \A f \in 1..MaxFiles : locker'[f] = q => handle[q] = f
               /\ ~removed => handle[q] \in {0, path'}
    BY <1>1, <1>2, <2>1, <2>2, <2>3 DEF InterprocessInv, InterprocessType
  <2>6. \A q \in Processes : process'[q] = IF q = p THEN "open" ELSE process[q]
    BY <1>2, <2>1, Zenon DEF InterprocessType
  <2> QED
    BY <2>1, <2>2, <2>4, <2>5, <2>6, SMTT(30) DEF InterprocessInv
<1>4. CASE Interprocess!Open(p) /\ path = 0
  <2>1. /\ process[p] = "open" /\ process' = [process EXCEPT ![p] = "failed"]
        /\ handle' = handle /\ granted' = granted /\ removed' = removed /\ locker' = locker
        /\ path' = path /\ created' = created
    BY <1>4 DEF Interprocess!Open
  <2>2. \A q \in Processes : process'[q] = IF q = p THEN "failed" ELSE process[q]
    BY <1>2, <2>1 DEF InterprocessType
  <2>3. InterprocessType'
    BY <1>2, <2>1, Zenon DEF InterprocessType
  <2> QED
    BY <2>1, <2>2, <2>3 DEF InterprocessInv
<1>5. CASE Interprocess!Open(p) /\ path # 0
  <2>1. /\ process[p] = "open" /\ process' = [process EXCEPT ![p] = "try"]
        /\ handle' = [handle EXCEPT ![p] = path] /\ locker' = Interprocess!Closed(p, handle[p])
        /\ granted' = granted /\ removed' = removed /\ path' = path /\ created' = created
    BY <1>5 DEF Interprocess!Open
  <2>2. handle[p] \in 0..MaxFiles
    BY <1>2 DEF InterprocessType
  <2>3. /\ locker' \in [1..MaxFiles -> Processes \cup {Nobody}]
        /\ \A g \in 1..MaxFiles :
             locker'[g] = IF g = handle[p] /\ locker[g] = p THEN Nobody ELSE locker[g]
    BY <2>1, <2>2, Closing
  <2>4. InterprocessType'
    BY <1>2, <2>1, <2>3 DEF InterprocessType
  <2>5. /\ \A q \in Processes : process'[q] = IF q = p THEN "try" ELSE process[q]
        /\ \A q \in Processes : handle'[q] = IF q = p THEN path ELSE handle[q]
    BY <1>2, <2>1, Zenon DEF InterprocessType
  <2>6. \A f \in 1..MaxFiles : locker'[f] # p
    BY <1>1, <2>3, Zenon DEF InterprocessInv
  <2>7. ASSUME NEW q \in Processes
        PROVE  /\ granted[q] => q # p /\ handle'[q] # 0 /\ locker'[handle'[q]] = q
               /\ \A f \in 1..MaxFiles : locker'[f] = q => handle'[q] = f
               /\ ~removed => handle'[q] \in {0, path}
    BY <1>1, <1>2, <2>1, <2>3, <2>5, <2>6, SMTT(30) DEF InterprocessInv, InterprocessType
  <2> QED
    BY <1>5, <2>1, <2>4, <2>5, <2>7 DEF InterprocessInv
<1>6. CASE Interprocess!Retry(p)
  <2>1. /\ process[p] = "failed" /\ process' = [process EXCEPT ![p] = "idle"]
        /\ handle' = handle /\ granted' = granted /\ removed' = removed /\ locker' = locker
        /\ path' = path /\ created' = created
    BY <1>6 DEF Interprocess!Retry
  <2>2. \A q \in Processes : process'[q] = IF q = p THEN "idle" ELSE process[q]
    BY <1>2, <2>1 DEF InterprocessType
  <2>3. InterprocessType'
    BY <1>2, <2>1 DEF InterprocessType
  <2> QED
    BY <2>1, <2>2, <2>3 DEF InterprocessInv
<1> QED
  BY <1>3, <1>4, <1>5, <1>6

LEMMA InterprocessTries ==
  ASSUME InterprocessInv, NEW p \in Processes, Interprocess!TryLock(p)
  PROVE  InterprocessInv'
<1>1. Nobody \notin Processes /\ MaxFiles \in Nat /\ InterprocessType
  BY PrimitivesAssumption DEF InterprocessInv
<1>2. handle[p] \in 1..MaxFiles /\ process[p] = "try" /\ ~granted[p]
  BY <1>1, SMTT(30) DEF InterprocessInv, InterprocessType, Interprocess!TryLock
<1>3. CASE locker[handle[p]] \in {Nobody, p}
  <2>1. /\ locker' = [locker EXCEPT ![handle[p]] = p] /\ granted' = [granted EXCEPT ![p] = TRUE]
        /\ process' = [process EXCEPT ![p] = "idle"] /\ handle' = handle
        /\ removed' = removed /\ path' = path /\ created' = created
    BY <1>3 DEF Interprocess!TryLock
  <2>2. InterprocessType'
    BY <1>1, <2>1, Zenon DEF InterprocessType
  <2>3. /\ \A q \in Processes : process'[q] = IF q = p THEN "idle" ELSE process[q]
        /\ \A q \in Processes : granted'[q] => q = p \/ granted[q]
        /\ \A f \in 1..MaxFiles : locker'[f] = IF f = handle[p] THEN p ELSE locker[f]
    BY <1>1, <1>2, <2>1, Zenon DEF InterprocessType
  <2>4. ASSUME NEW q \in Processes
        PROVE  /\ granted'[q] => handle[q] # 0 /\ locker'[handle[q]] = q
               /\ \A f \in 1..MaxFiles : locker'[f] = q => handle[q] = f
    BY <1>1, <1>2, <1>3, <2>3 DEF InterprocessInv, InterprocessType
  <2> QED
    BY <2>1, <2>2, <2>3, <2>4 DEF InterprocessInv
<1>4. CASE locker[handle[p]] \notin {Nobody, p}
  <2>1. /\ locker' = locker /\ granted' = granted
        /\ process' = [process EXCEPT ![p] = "failed"] /\ handle' = handle
        /\ removed' = removed /\ path' = path /\ created' = created
    BY <1>4 DEF Interprocess!TryLock
  <2>2. \A q \in Processes : process'[q] = IF q = p THEN "failed" ELSE process[q]
    BY <1>1, <2>1 DEF InterprocessType
  <2>3. InterprocessType'
    BY <1>1, <2>1, Zenon DEF InterprocessType
  <2> QED
    BY <1>2, <2>1, <2>2, <2>3 DEF InterprocessInv
<1> QED
  BY <1>3, <1>4

LEMMA InterprocessCloses ==
  ASSUME InterprocessInv, NEW p \in Processes,
         Interprocess!Reset(p) \/ Interprocess!Crash(p)
  PROVE  InterprocessInv'
<1>1. Nobody \notin Processes /\ MaxFiles \in Nat /\ InterprocessType
  BY PrimitivesAssumption DEF InterprocessInv
<1>2. /\ locker' = Interprocess!Closed(p, handle[p]) /\ handle' = [handle EXCEPT ![p] = 0]
      /\ granted' = [granted EXCEPT ![p] = FALSE] /\ path' = path /\ created' = created
      /\ removed' = removed
      /\ \/ process' = [process EXCEPT ![p] = "destroy"]
         \/ process' = [process EXCEPT ![p] = "idle"]
  BY DEF Interprocess!Reset, Interprocess!Crash
<1>3. handle[p] \in 0..MaxFiles
  BY <1>1 DEF InterprocessType
<1>4. /\ locker' \in [1..MaxFiles -> Processes \cup {Nobody}]
      /\ \A g \in 1..MaxFiles :
           locker'[g] = IF g = handle[p] /\ locker[g] = p THEN Nobody ELSE locker[g]
  BY <1>2, <1>3, Closing
<1>5. InterprocessType'
  BY <1>1, <1>2, <1>4 DEF InterprocessType
<1>6. /\ \A q \in Processes :
           \/ process'[q] \in {"destroy", "idle"}
           \/ q # p /\ process'[q] = process[q]
      /\ \A q \in Processes : q # p => process'[q] = process[q]
      /\ \A q \in Processes : handle'[q] = IF q = p THEN 0 ELSE handle[q]
      /\ \A q \in Processes : granted'[q] => q # p /\ granted[q]
  BY <1>1, <1>2, Zenon DEF InterprocessType
<1>7. ASSUME NEW q \in Processes
      PROVE  /\ granted'[q] => handle'[q] # 0 /\ locker'[handle'[q]] = q
             /\ \A f \in 1..MaxFiles : locker'[f] = q => handle'[q] = f
             /\ ~removed => handle'[q] \in {0, path}
  BY <1>1, <1>4, <1>6 DEF InterprocessInv, InterprocessType
<1>8. process'[p] \in {"destroy", "idle"}
  BY <1>1, <1>2, ZenonT(30) DEF InterprocessType
<1> QED
  BY <1>2, <1>5, <1>6, <1>7, <1>8 DEF InterprocessInv

LEMMA InterprocessDestroys ==
  ASSUME InterprocessInv, NEW p \in Processes, Interprocess!Destroy(p)
  PROVE  InterprocessInv'
<1>1. MaxFiles \in Nat /\ InterprocessType
  BY PrimitivesAssumption DEF InterprocessInv
<1>2. /\ process[p] = "destroy" /\ path' = 0
      /\ removed' = (removed \/ \E q \in Processes \ {p} : path # 0 /\ handle[q] = path)
      /\ process' = [process EXCEPT ![p] = "idle"] /\ created' = created /\ locker' = locker
      /\ handle' = handle /\ granted' = granted
  BY DEF Interprocess!Destroy
<1>3. removed' \in BOOLEAN
  BY <1>1, <1>2, SMTT(30) DEF InterprocessType
<1>4. InterprocessType'
  BY <1>1, <1>2, <1>3 DEF InterprocessType
<1>5. \A q \in Processes : process'[q] = IF q = p THEN "idle" ELSE process[q]
  BY <1>1, <1>2, SMTT(30) DEF InterprocessType
<1>6. ASSUME NEW q \in Processes, ~removed' PROVE handle[q] = 0
  <2>1. ~removed /\ (q # p => path = 0 \/ handle[q] # path)
    BY <1>2, <1>6, Zenon
  <2> QED
    BY <1>2, <2>1 DEF InterprocessInv
<1> QED
  BY <1>2, <1>4, <1>5, <1>6 DEF InterprocessInv

LEMMA InterprocessSafe ==
  ASSUME InterprocessInv, InterprocessStep
  PROVE  InterprocessInv'
BY InterprocessOpens, InterprocessTries, InterprocessCloses, InterprocessDestroys, Zenon
   DEF InterprocessStep, Interprocess!Next

(* A lock() that fails finds no file, or one that another process has.     *)
LEMMA RefusesRightly ==
  ASSUME InterprocessInv, InterprocessStep, NEW p \in Processes,
         process[p] # "failed", process'[p] = "failed"
  PROVE  \E q \in Processes \ {p} : process[q] # "idle" \/ handle[q] # 0 \/ path = 0
<1>1. InterprocessType /\ Nobody \notin Processes
  BY PrimitivesAssumption, Zenon DEF InterprocessInv
<1>2. PICK r \in Processes :
        \/ Interprocess!Create(r) \/ Interprocess!Open(r) \/ Interprocess!TryLock(r)
        \/ Interprocess!Retry(r) \/ Interprocess!Reset(r) \/ Interprocess!Destroy(r)
        \/ Interprocess!Crash(r)
  BY DEF InterprocessStep, Interprocess!Next
<1>3. r = p /\ (Interprocess!Open(p) \/ Interprocess!TryLock(p))
  <2>1. \/ process' = [process EXCEPT ![r] = "open"] \/ process' = [process EXCEPT ![r] = "idle"]
        \/ process' = [process EXCEPT ![r] = "destroy"]
        \/ Interprocess!Open(r) \/ Interprocess!TryLock(r)
    BY <1>2 DEF Interprocess!Create, Interprocess!Retry, Interprocess!Reset,
                Interprocess!Destroy, Interprocess!Crash
  <2>2. \E x : process' = [process EXCEPT ![r] = x]
    BY <2>1 DEF Interprocess!Open, Interprocess!TryLock
  <2>3. r = p
    BY <1>1, <2>2, Zenon DEF InterprocessType
  <2> QED
    BY <1>1, <2>1, <2>3, Zenon DEF InterprocessType
<1>4. CASE Interprocess!Open(p)
  <2>1. process[p] = "open" /\ path = 0
    BY <1>1, <1>4, Zenon DEF Interprocess!Open, InterprocessType
  <2> QED
    BY <2>1 DEF InterprocessInv
<1>5. CASE Interprocess!TryLock(p)
  <2>1. process[p] = "try" /\ locker[handle[p]] \notin {Nobody, p}
    BY <1>1, <1>5, Zenon DEF Interprocess!TryLock, InterprocessType
  <2>2. handle[p] \in 1..MaxFiles
    BY <1>1, <2>1 DEF InterprocessInv, InterprocessType
  <2>3. locker[handle[p]] \in Processes \ {p}
    BY <1>1, <2>1, <2>2, SMTT(30) DEF InterprocessType
  <2>4. handle[locker[handle[p]]] = handle[p]
    BY <2>2, <2>3 DEF InterprocessInv
  <2> QED
    BY <2>2, <2>3, <2>4
<1> QED
  BY <1>3, <1>4, <1>5, Zenon

LEMMA InterprocessStart == PrimitivesInit => InterprocessInv
<1> SUFFICES ASSUME PrimitivesInit PROVE InterprocessInv
  OBVIOUS
<1>1. Interprocess!Init /\ Nobody \notin Processes /\ MaxFiles \in Nat
  BY PrimitivesAssumption DEF PrimitivesInit
<1>2. granted \in [Processes -> BOOLEAN] /\ removed \in BOOLEAN
  BY <1>1, Zenon DEF Interprocess!Init
<1>3. /\ path \in 0..MaxFiles /\ created \in 0..MaxFiles
      /\ locker \in [1..MaxFiles -> Processes \cup {Nobody}]
      /\ process \in [Processes -> {"idle", "open", "try", "failed", "destroy"}]
      /\ handle \in [Processes -> 0..MaxFiles]
  BY <1>1 DEF Interprocess!Init, Interprocess!Files
<1>4. InterprocessType
  BY <1>2, <1>3 DEF InterprocessType
<1> QED
  BY <1>1, <1>4 DEF Interprocess!Init, Interprocess!Files, InterprocessInv

LEMMA InterprocessNext == InterprocessInv /\ [PrimitivesNext]_allVars => InterprocessInv'
<1> SUFFICES ASSUME InterprocessInv, [PrimitivesNext]_allVars PROVE InterprocessInv'
  BY Zenon
<1>1. ASSUME UNCHANGED interprocessVars PROVE InterprocessInv'
  <2>1. /\ path' = path /\ created' = created /\ locker' = locker /\ process' = process
        /\ handle' = handle /\ granted' = granted /\ removed' = removed
    BY <1>1 DEF interprocessVars
  <2> QED
    BY <2>1 DEF InterprocessInv, InterprocessType
<1> QED
  BY <1>1, InterprocessSafe, OthersUnchanged

(* interprocess_lock: for any number of processes, crashes and files,      *)
(* lock() excludes the others while no file is removed under a process     *)
(* that has it open, and fails only because of another process.            *)
THEOREM LockDecides == PrimitivesSpec => LockDecidesRightly
<1> DEFINE
  Excludes == ~removed => \A p, q \in Processes : granted[p] /\ granted[q] => p = q
  Decides ==
    /\ ~removed' => \A p, q \in Processes : granted'[p] /\ granted'[q] => p = q
    /\ \A p \in Processes :
         process[p] # "failed" /\ process'[p] = "failed"
           => \E q \in Processes \ {p} : process[q] # "idle" \/ handle[q] # 0 \/ path = 0
<1>1. InterprocessInv => Excludes
  <2> SUFFICES ASSUME InterprocessInv, ~removed, NEW p \in Processes, NEW q \in Processes,
                      granted[p], granted[q]
               PROVE  p = q
    OBVIOUS
  <2>1. handle[p] = path /\ handle[q] = path
    BY DEF InterprocessInv
  <2> QED
    BY <2>1 DEF InterprocessInv
<1>2. InterprocessInv /\ [PrimitivesNext]_allVars => Decides
  <2> SUFFICES ASSUME InterprocessInv, [PrimitivesNext]_allVars
               PROVE  Decides
    OBVIOUS
  <2>1. Excludes'
    BY <1>1, InterprocessNext, PTL
  <2>2. ASSUME NEW p \in Processes, process[p] # "failed", process'[p] = "failed"
        PROVE  \E q \in Processes \ {p} :
                 process[q] # "idle" \/ handle[q] # 0 \/ path = 0
    <3>1. InterprocessStep
      BY <2>2, OthersUnchanged, Zenon DEF interprocessVars
    <3> QED
      BY <2>2, <3>1, RefusesRightly
  <2> QED
    BY <2>1, <2>2, Zenon
<1>3. InterprocessInv /\ [PrimitivesNext]_allVars => [Decides]_(Interprocess!vars)
  BY <1>2
<1>4. [][Decides]_(Interprocess!vars) => LockDecidesRightly
  BY PTL DEF LockDecidesRightly, Interprocess!LockDecidesRightly
<1> HIDE DEF Decides
<1> QED
  BY <1>3, <1>4, InterprocessStart, InterprocessNext, PTL DEF PrimitivesSpec

-----------------------------------------------------------------------------
(* deadline: a wait is in one place, waiting or queued with the one code   *)
(* that says whether it was cancelled, and its handler has not been called *)
(* while it is there.                                                      *)
Codes == {"operation_aborted", "success", "failure"}

TimerType ==
  /\ starts \in Nat /\ starts <= MaxStarts /\ waiting \in Nat /\ waiting <= starts
  /\ queued \subseteq (1..MaxStarts) \X Codes
  /\ canceled \subseteq 1..MaxStarts
  /\ fired \in [1..MaxStarts -> Nat]

TimerInv ==
  /\ TimerType
  /\ \A q \in queued :
       /\ q[1] <= starts /\ q[1] # waiting /\ fired[q[1]] = 0
       /\ q[2] = "operation_aborted" <=> q[1] \in canceled
  /\ \A q, r \in queued : q[1] = r[1] => q = r
  /\ \A h \in 1..MaxStarts :
       /\ h = waiting \/ h > starts \/ h \in canceled => fired[h] = 0
       /\ h \in canceled => h # waiting /\ h <= starts
       /\ fired[h] <= 1

LEMMA TimerCancels ==
  ASSUME TimerInv, Timer!Start \/ Timer!Stop
  PROVE  TimerInv'
<1>1. MaxStarts \in Nat /\ TimerType
  BY PrimitivesAssumption DEF TimerInv
<1>2. /\ fired' = fired /\ Timer!Cancel
      /\ \/ starts < MaxStarts /\ starts' = starts + 1 /\ waiting' = starts + 1
         \/ starts' = starts /\ waiting' = 0
  BY Zenon DEF Timer!Start, Timer!Stop
<1>3. CASE waiting = 0
  <2>1. queued' = queued /\ canceled' = canceled
    BY <1>2, <1>3 DEF Timer!Cancel
  <2>2. TimerType'
    BY <1>1, <1>2, <2>1, SMTT(30) DEF TimerType
  <2>3. \A q \in queued' : q[1] \in 1..MaxStarts
    BY <1>1, <2>1, Zenon DEF TimerType
  <2> QED
    BY <1>1, <1>2, <2>1, <2>2, <2>3, SMTT(30) DEF TimerInv, TimerType
<1>4. CASE waiting # 0
  <2> DEFINE new == <<waiting, "operation_aborted">>
  <2>1. queued' = queued \cup {new} /\ canceled' = canceled \cup {waiting}
    BY <1>2, <1>4, Zenon DEF Timer!Cancel
  <2>2. new \in (1..MaxStarts) \X Codes /\ new[1] = waiting /\ new[2] = "operation_aborted"
    BY <1>1, <1>4 DEF TimerType, Codes
  <2>3. waiting \in 1..MaxStarts /\ waiting <= starts
    BY <1>1, <1>4, SMTT(30) DEF TimerType
  <2> HIDE DEF new
  <2>4. TimerType'
    BY <1>1, <1>2, <2>1, <2>2, <2>3, SMTT(30) DEF TimerType
  <2>5. \A q \in queued : q[1] \in 1..MaxStarts
    BY <1>1 DEF TimerType
  <2>6. \A q \in queued' :
          /\ q[1] <= starts' /\ q[1] # waiting' /\ fired'[q[1]] = 0
          /\ q[2] = "operation_aborted" <=> q[1] \in canceled'
    BY <1>1, <1>2, <2>1, <2>2, <2>3, <2>5, SMTT(30) DEF TimerInv, TimerType
  <2>7. \A q, r \in queued' : q[1] = r[1] => q = r
    BY <2>1, <2>2, Zenon DEF TimerInv
  <2>8. \A h \in 1..MaxStarts :
          /\ h = waiting' \/ h > starts' \/ h \in canceled' => fired'[h] = 0
          /\ h \in canceled' => h # waiting' /\ h <= starts'
          /\ fired'[h] <= 1
    BY <1>1, <1>2, <2>1, <2>3, SMTT(30) DEF TimerInv, TimerType
  <2> QED
    BY <2>4, <2>6, <2>7, <2>8, Zenon DEF TimerInv
<1> QED
  BY <1>3, <1>4, Zenon

LEMMA TimerExpires ==
  ASSUME TimerInv, Timer!Expire
  PROVE  TimerInv'
<1>1. MaxStarts \in Nat /\ TimerType
  BY PrimitivesAssumption DEF TimerInv
<1>2. PICK ec \in {"success", "failure"} : queued' = queued \cup {<<waiting, ec>>}
  BY DEF Timer!Expire
<1>3. /\ waiting # 0 /\ waiting' = 0
      /\ starts' = starts /\ canceled' = canceled /\ fired' = fired
  BY DEF Timer!Expire
<1> DEFINE new == <<waiting, ec>>
<1>4. /\ queued' = queued \cup {new} /\ new \in (1..MaxStarts) \X Codes
      /\ new[1] = waiting /\ new[2] # "operation_aborted"
  BY <1>1, <1>2, <1>3 DEF TimerType, Codes
<1>5. waiting \in 1..MaxStarts /\ waiting <= starts
  BY <1>1, <1>3, SMTT(30) DEF TimerType
<1> HIDE DEF new
<1>6. TimerType'
  BY <1>1, <1>3, <1>4 DEF TimerType
<1>7. \A q \in queued : q[1] \in 1..MaxStarts
  BY <1>1, Zenon DEF TimerType
<1>8. \A q \in queued' :
        /\ q[1] <= starts' /\ q[1] # waiting' /\ fired'[q[1]] = 0
        /\ q[2] = "operation_aborted" <=> q[1] \in canceled'
  BY <1>3, <1>4, <1>5, <1>7, SMTT(30) DEF TimerInv
<1>9. \A q, r \in queued' : q[1] = r[1] => q = r
  BY <1>4, Zenon DEF TimerInv
<1>10. \A h \in 1..MaxStarts :
         /\ h = waiting' \/ h > starts' \/ h \in canceled' => fired'[h] = 0
         /\ h \in canceled' => h # waiting' /\ h <= starts'
         /\ fired'[h] <= 1
  BY <1>3, SMTT(30) DEF TimerInv
<1> QED
  BY <1>6, <1>8, <1>9, <1>10, Zenon DEF TimerInv

LEMMA TimerHandles ==
  ASSUME TimerInv, Timer!Handle
  PROVE  TimerInv'
<1>1. MaxStarts \in Nat /\ TimerType
  BY PrimitivesAssumption DEF TimerInv
<1>2. PICK q \in queued : Timer!HandleTimer(q)
  BY Zenon DEF Timer!Handle
<1>3. /\ queued' = queued \ {q} /\ waiting' = waiting /\ starts' = starts
      /\ canceled' = canceled /\ q[1] \in 1..MaxStarts
      /\ fired' = IF q[2] = "operation_aborted" THEN fired ELSE [fired EXCEPT ![q[1]] = @ + 1]
  BY <1>1, <1>2, Zenon DEF Timer!HandleTimer, TimerType
<1>4. /\ fired' \in [1..MaxStarts -> Nat]
      /\ \A h \in 1..MaxStarts :
           fired'[h] = IF h = q[1] /\ q[2] # "operation_aborted" THEN fired[h] + 1 ELSE fired[h]
  BY <1>1, <1>3, SMTT(30) DEF TimerType
<1>5. TimerType'
  BY <1>1, <1>3, <1>4, Zenon DEF TimerType
<1>6. \A r \in queued' : r \in queued /\ r[1] # q[1] /\ r[1] \in 1..MaxStarts
  BY <1>1, <1>3, Zenon DEF TimerInv, TimerType
<1>7. /\ fired[q[1]] = 0 /\ q[1] <= starts /\ q[1] # waiting
      /\ q[2] = "operation_aborted" <=> q[1] \in canceled
  BY Zenon DEF TimerInv
<1>8. \A r \in queued' :
        /\ r[1] <= starts' /\ r[1] # waiting' /\ fired'[r[1]] = 0
        /\ r[2] = "operation_aborted" <=> r[1] \in canceled'
  BY <1>3, <1>4, <1>6, Zenon DEF TimerInv
<1>9. \A r, s \in queued' : r[1] = s[1] => r = s
  BY <1>6, Zenon DEF TimerInv
<1>10. \A h \in 1..MaxStarts :
         /\ h = waiting' \/ h > starts' \/ h \in canceled' => fired'[h] = 0
         /\ h \in canceled' => h # waiting' /\ h <= starts'
         /\ fired'[h] <= 1
  BY <1>1, <1>3, <1>4, <1>7 DEF TimerInv, TimerType
<1> QED
  BY <1>5, <1>8, <1>9, <1>10, Zenon DEF TimerInv

(* deadline: however often the timer is started and stopped, the handler   *)
(* of a start is called at most once.                                      *)
THEOREM CalledAtMostOnce == PrimitivesSpec => []Timer!CalledOnce
<1>1. PrimitivesInit => TimerInv
  BY PrimitivesAssumption
     DEF PrimitivesInit, Timer!Init, Timer!Handlers, TimerInv, TimerType
<1>2. TimerInv /\ [PrimitivesNext]_allVars => TimerInv'
  <2> SUFFICES ASSUME TimerInv, [PrimitivesNext]_allVars PROVE TimerInv'
    OBVIOUS
  <2>1. CASE UNCHANGED timerVars
    <3>1. /\ waiting' = waiting /\ queued' = queued /\ starts' = starts
          /\ canceled' = canceled /\ fired' = fired
      BY <2>1 DEF timerVars
    <3> QED
      BY <3>1 DEF TimerInv, TimerType
  <2>2. CASE DeadlineStep
    BY <2>2, TimerCancels, TimerExpires, TimerHandles, Zenon DEF DeadlineStep, Timer!Next
  <2> QED
    BY <2>1, <2>2, OthersUnchanged, Zenon
<1>3. TimerInv => Timer!CalledOnce
  BY DEF TimerInv, TimerType, Timer!CalledOnce, Timer!Handlers
<1> QED
  BY <1>1, <1>2, <1>3, PTL DEF PrimitivesSpec

-----------------------------------------------------------------------------
(* prioritized_mutex: what is left of the script of a client of low        *)
(* priority, of one of high priority, and of any client when the mutex     *)
(* does not prioritize.  Held are the scripts between taking next_mutex_   *)
(* and giving it back.                                                     *)
Take(m) == [op |-> "lock", on |-> m]
Give(m) == [op |-> "unlock", on |-> m]
Use == [op |-> "run", on |-> "data"]

L1 == <<Give("wait")>>
L2 == <<Give("data"), Give("wait")>>
L3 == <<Give("next"), Give("data"), Give("wait")>>
L4 == <<Use, Give("next"), Give("data"), Give("wait")>>
L5 == <<Take("data"), Use, Give("next"), Give("data"), Give("wait")>>
L6 == <<Take("next"), Take("data"), Use, Give("next"), Give("data"), Give("wait")>>
L7 == <<Take("wait"), Take("next"), Take("data"), Use, Give("next"), Give("data"),
        Give("wait")>>
H1 == <<Give("data")>>
H2 == <<Use, Give("data")>>
H3 == <<Give("next"), Use, Give("data")>>
H4 == <<Take("data"), Give("next"), Use, Give("data")>>
H5 == <<Take("next"), Take("data"), Give("next"), Use, Give("data")>>
P3 == <<Take("data"), Use, Give("data")>>

LowScripts == {<<>>, L1, L2, L3, L4, L5, L6, L7}
HighScripts == {<<>>, H1, H2, H3, H4, H5}
PlainScripts == {<<>>, H1, H2, P3}
Scripts == LowScripts \cup HighScripts \cup PlainScripts
Held == {L3, L4, L5, H3, H4}

LEMMA Pops ==
  /\ \A a : <<a>> # <<>> /\ Head(<<a>>) = a /\ Tail(<<a>>) = <<>>
  /\ \A a, b : <<a, b>> # <<>> /\ Head(<<a, b>>) = a /\ Tail(<<a, b>>) = <<b>>
  /\ \A a, b, c : /\ <<a, b, c>> # <<>> /\ Head(<<a, b, c>>) = a
                  /\ Tail(<<a, b, c>>) = <<b, c>>
  /\ \A a, b, c, d : /\ <<a, b, c, d>> # <<>> /\ Head(<<a, b, c, d>>) = a
                     /\ Tail(<<a, b, c, d>>) = <<b, c, d>>
  /\ \A a, b, c, d, e : /\ <<a, b, c, d, e>> # <<>> /\ Head(<<a, b, c, d, e>>) = a
                        /\ Tail(<<a, b, c, d, e>>) = <<b, c, d, e>>
  /\ \A a, b, c, d, e, f :
       /\ <<a, b, c, d, e, f>> # <<>> /\ Head(<<a, b, c, d, e, f>>) = a
       /\ Tail(<<a, b, c, d, e, f>>) = <<b, c, d, e, f>>
  /\ \A a, b, c, d, e, f, g :
       /\ <<a, b, c, d, e, f, g>> # <<>> /\ Head(<<a, b, c, d, e, f, g>>) = a
       /\ Tail(<<a, b, c, d, e, f, g>>) = <<b, c, d, e, f, g>>
OBVIOUS

LEMMA Joined ==
  ASSUME NEW S, NEW s \in Seq(S), NEW t \in Seq(S), NEW r \in Seq(S),
         Len(r) = Len(s) + Len(t),
         \A i \in 1..Len(s) : r[i] = s[i],
         \A i \in 1..Len(t) : r[i + Len(s)] = t[i]
  PROVE  s \o t = r
<1>1. s \o t \in Seq(S) /\ Len(s \o t) = Len(r)
  BY SMTT(30)
<1>2. ASSUME NEW i \in 1..Len(r) PROVE (s \o t)[i] = r[i]
  <2>1. Len(s) \in Nat /\ Len(t) \in Nat
    BY SMTT(30)
  <2>2. (s \o t)[i] = IF i <= Len(s) THEN s[i] ELSE t[i - Len(s)]
    BY <2>1, SMTT(30)
  <2>3. CASE i <= Len(s)
    BY <2>1, <2>2, <2>3, SMTT(30)
  <2>4. CASE ~(i <= Len(s))
    <3>1. i - Len(s) \in 1..Len(t) /\ (i - Len(s)) + Len(s) = i
      BY <2>1, <2>4
    <3> QED
      BY <2>1, <2>2, <2>4, <3>1, Zenon
  <2> QED
    BY <2>3, <2>4, Zenon
<1> QED
  BY <1>1, <1>2, SMTT(30)

LEMMA JoinNone ==
  \A a : <<>> \o <<a>> = <<a>> /\ <<a>> \o <<>> = <<a>>
OBVIOUS

LEMMA JoinOne ==
  \A a, b : <<a>> \o <<b>> = <<a, b>>
<1> TAKE a, b
<1> DEFINE s == <<a>>
           t == <<b>>
           r == <<a, b>>
           S == {a, b}
<1>1. s \in Seq(S) /\ t \in Seq(S) /\ r \in Seq(S)
  OBVIOUS
<1>2. /\ Len(s) = 1 /\ s[1] = a /\ Len(t) = 1 /\ t[1] = b
      /\ Len(r) = 2 /\ r[1] = a /\ r[2] = b
  BY Zenon
<1> HIDE DEF s, t, r, S
<1>3. Len(r) = Len(s) + Len(t) /\ \A i \in 1..Len(s) : r[i] = s[i]
  BY <1>2
<1>4. \A i \in 1..Len(t) : r[i + Len(s)] = t[i]
  BY <1>2
<1>5. s \o t = r
  BY <1>1, <1>3, <1>4, Joined, Zenon
<1> QED
  BY <1>5 DEF s, t, r

LEMMA JoinTwo ==
  \A a, b, c : <<a, b>> \o <<c>> = <<a, b, c>>
<1> TAKE a, b, c
<1> DEFINE s == <<a, b>>
           t == <<c>>
           r == <<a, b, c>>
           S == {a, b, c}
<1>1. s \in Seq(S) /\ t \in Seq(S) /\ r \in Seq(S)
  OBVIOUS
<1>2. /\ Len(s) = 2 /\ s[1] = a /\ s[2] = b
      /\ Len(t) = 1 /\ t[1] = c
      /\ Len(r) = 3 /\ r[1] = a /\ r[2] = b /\ r[3] = c
  BY Zenon
<1> HIDE DEF s, t, r, S
<1>3. Len(r) = Len(s) + Len(t) /\ \A i \in 1..Len(s) : r[i] = s[i]
  BY <1>2
<1>4. \A i \in 1..Len(t) : r[i + Len(s)] = t[i]
  BY <1>2, SMTT(30)
<1>5. s \o t = r
  BY <1>1, <1>3, <1>4, Joined, Zenon
<1> QED
  BY <1>5 DEF s, t, r

LEMMA JoinThree ==
  \A a, b, c, d : <<a, b, c>> \o <<d>> = <<a, b, c, d>>
<1> TAKE a, b, c, d
<1> DEFINE s == <<a, b, c>>
           t == <<d>>
           r == <<a, b, c, d>>
           S == {a, b, c, d}
<1>1. s \in Seq(S) /\ t \in Seq(S) /\ r \in Seq(S)
  OBVIOUS
<1>2. /\ Len(s) = 3 /\ s[1] = a /\ s[2] = b /\ s[3] = c
      /\ Len(t) = 1 /\ t[1] = d
      /\ Len(r) = 4 /\ r[1] = a /\ r[2] = b /\ r[3] = c /\ r[4] = d
  BY Zenon
<1> HIDE DEF s, t, r, S
<1>3. Len(r) = Len(s) + Len(t) /\ \A i \in 1..Len(s) : r[i] = s[i]
  BY <1>2
<1>4. \A i \in 1..Len(t) : r[i + Len(s)] = t[i]
  BY <1>2, SMTT(30)
<1>5. s \o t = r
  BY <1>1, <1>3, <1>4, Joined, Zenon
<1> QED
  BY <1>5 DEF s, t, r

LEMMA JoinFour ==
  \A a, b, c, d, e : <<a, b, c, d>> \o <<e>> = <<a, b, c, d, e>>
<1> TAKE a, b, c, d, e
<1> DEFINE s == <<a, b, c, d>>
           t == <<e>>
           r == <<a, b, c, d, e>>
           S == {a, b, c, d, e}
<1>1. s \in Seq(S) /\ t \in Seq(S) /\ r \in Seq(S)
  OBVIOUS
<1>2. /\ Len(s) = 4 /\ s[1] = a /\ s[2] = b /\ s[3] = c /\ s[4] = d
      /\ Len(t) = 1 /\ t[1] = e
      /\ Len(r) = 5 /\ r[1] = a /\ r[2] = b /\ r[3] = c /\ r[4] = d /\ r[5] = e
  BY Zenon
<1> HIDE DEF s, t, r, S
<1>3. Len(r) = Len(s) + Len(t) /\ \A i \in 1..Len(s) : r[i] = s[i]
  BY <1>2
<1>4. \A i \in 1..Len(t) : r[i + Len(s)] = t[i]
  BY <1>2, SMTT(30)
<1>5. s \o t = r
  BY <1>1, <1>3, <1>4, Joined, Zenon
<1> QED
  BY <1>5 DEF s, t, r

LEMMA JoinFourThree ==
  \A a, b, c, d, e, f, g : <<a, b, c, d>> \o <<e, f, g>> = <<a, b, c, d, e, f, g>>
<1> TAKE a, b, c, d, e, f, g
<1> DEFINE s == <<a, b, c, d>>
           t == <<e, f, g>>
           r == <<a, b, c, d, e, f, g>>
           S == {a, b, c, d, e, f, g}
<1>1. s \in Seq(S) /\ t \in Seq(S) /\ r \in Seq(S)
  OBVIOUS
<1>2. /\ Len(s) = 4 /\ s[1] = a /\ s[2] = b /\ s[3] = c /\ s[4] = d
      /\ Len(t) = 3 /\ t[1] = e /\ t[2] = f /\ t[3] = g
      /\ Len(r) = 7 /\ r[1] = a /\ r[2] = b /\ r[3] = c /\ r[4] = d
      /\ r[5] = e /\ r[6] = f /\ r[7] = g
  BY Zenon
<1> HIDE DEF s, t, r, S
<1>3. Len(r) = Len(s) + Len(t) /\ \A i \in 1..Len(s) : r[i] = s[i]
  BY <1>2, SMTT(30)
<1>4. \A i \in 1..Len(t) : r[i + Len(s)] = t[i]
  BY <1>2, SMTT(30)
<1>5. s \o t = r
  BY <1>1, <1>3, <1>4, Joined, Zenon
<1> QED
  BY <1>5 DEF s, t, r

LEMMA BeginsPrioritized ==
  ASSUME prioritize
  PROVE  /\ Prioritized!lock_low_priority \o Prioritized!critical
              \o Prioritized!unlock_low_priority = L7
         /\ Prioritized!lock_high_priority \o Prioritized!critical
              \o Prioritized!unlock_high_priority = H5
<1>1. \A x : Prioritized!If(prioritize, x) = x
  BY DEF Prioritized!If
<1>2. /\ \A m : Prioritized!lock(m) = <<Take(m)>> /\ Prioritized!unlock(m) = <<Give(m)>>
      /\ Prioritized!critical = <<Use>>
  BY DEF Prioritized!lock, Prioritized!unlock, Prioritized!critical, Take, Give, Use
<1>3. Prioritized!lock_low_priority = <<Take("wait"), Take("next"), Take("data")>>
  <2>1. Prioritized!lock("wait") \o Prioritized!lock("next") = <<Take("wait"), Take("next")>>
    BY <1>2, JoinOne, Zenon
  <2>2. <<Take("wait"), Take("next")>> \o Prioritized!lock("data")
          = <<Take("wait"), Take("next"), Take("data")>>
    BY <1>2, JoinTwo, Zenon
  <2> QED
    BY <1>1, <2>1, <2>2, Zenon DEF Prioritized!lock_low_priority
<1>4. Prioritized!unlock_low_priority = <<Give("next"), Give("data"), Give("wait")>>
  <2>1. Prioritized!unlock("next") \o Prioritized!unlock("data")
          = <<Give("next"), Give("data")>>
    BY <1>2, JoinOne, Zenon
  <2>2. <<Give("next"), Give("data")>> \o Prioritized!unlock("wait")
          = <<Give("next"), Give("data"), Give("wait")>>
    BY <1>2, JoinTwo, Zenon
  <2> QED
    BY <1>1, <2>1, <2>2, Zenon DEF Prioritized!unlock_low_priority
<1>5. Prioritized!lock_high_priority = <<Take("next"), Take("data"), Give("next")>>
  <2>1. Prioritized!lock("next") \o Prioritized!lock("data") = <<Take("next"), Take("data")>>
    BY <1>2, JoinOne, Zenon
  <2>2. <<Take("next"), Take("data")>> \o Prioritized!unlock("next")
          = <<Take("next"), Take("data"), Give("next")>>
    BY <1>2, JoinTwo, Zenon
  <2> QED
    BY <1>1, <2>1, <2>2, Zenon DEF Prioritized!lock_high_priority
<1>6. Prioritized!unlock_high_priority = <<Give("data")>>
  BY <1>2, Zenon DEF Prioritized!unlock_high_priority
<1>7. Prioritized!lock_low_priority \o Prioritized!critical
        = <<Take("wait"), Take("next"), Take("data"), Use>>
  BY <1>2, <1>3, JoinThree, Zenon
<1>8. Prioritized!lock_high_priority \o Prioritized!critical
        = <<Take("next"), Take("data"), Give("next"), Use>>
  BY <1>2, <1>5, JoinThree, Zenon
<1>9. <<Take("wait"), Take("next"), Take("data"), Use>> \o Prioritized!unlock_low_priority
        = L7
  <2>1. \A x, y, z : <<Take("wait"), Take("next"), Take("data"), Use>> \o <<x, y, z>>
                      = <<Take("wait"), Take("next"), Take("data"), Use, x, y, z>>
    BY JoinFourThree, Zenon
  <2> QED
    BY <1>4, <2>1, Zenon DEF L7
<1>10. <<Take("next"), Take("data"), Give("next"), Use>> \o Prioritized!unlock_high_priority
         = H5
  BY <1>6, JoinFour, Zenon DEF H5
<1> QED
  BY <1>7, <1>8, <1>9, <1>10, Zenon

LEMMA BeginsPlain ==
  ASSUME ~prioritize
  PROVE  /\ Prioritized!lock_low_priority \o Prioritized!critical
              \o Prioritized!unlock_low_priority = P3
         /\ Prioritized!lock_high_priority \o Prioritized!critical
              \o Prioritized!unlock_high_priority = P3
<1>1. \A x : Prioritized!If(prioritize, x) = <<>>
  BY DEF Prioritized!If
<1>2. /\ \A m : Prioritized!lock(m) = <<Take(m)>> /\ Prioritized!unlock(m) = <<Give(m)>>
      /\ Prioritized!critical = <<Use>>
  BY DEF Prioritized!lock, Prioritized!unlock, Prioritized!critical, Take, Give, Use
<1>3. Prioritized!lock_low_priority = <<Take("data")>>
  BY <1>1, <1>2, JoinNone, Zenon DEF Prioritized!lock_low_priority
<1>4. Prioritized!unlock_low_priority = <<Give("data")>>
  BY <1>1, <1>2, JoinNone, Zenon DEF Prioritized!unlock_low_priority
<1>5. Prioritized!lock_high_priority = <<Take("data")>>
  BY <1>1, <1>2, JoinNone, Zenon DEF Prioritized!lock_high_priority
<1>6. Prioritized!unlock_high_priority = <<Give("data")>>
  BY <1>2, Zenon DEF Prioritized!unlock_high_priority
<1>7. /\ Prioritized!lock_low_priority \o Prioritized!critical = <<Take("data"), Use>>
      /\ Prioritized!lock_high_priority \o Prioritized!critical = <<Take("data"), Use>>
  BY <1>2, <1>3, <1>5, JoinOne, Zenon
<1>8. /\ <<Take("data"), Use>> \o Prioritized!unlock_low_priority = P3
      /\ <<Take("data"), Use>> \o Prioritized!unlock_high_priority = P3
  BY <1>4, <1>6, JoinTwo, Zenon DEF P3
<1> QED
  BY <1>7, <1>8, Zenon

LEMMA LowTable ==
  /\ Head(L1).op = "unlock" /\ Head(L1).on = "wait" /\ Tail(L1) = <<>>
  /\ Head(L2).op = "unlock" /\ Head(L2).on = "data" /\ Tail(L2) = L1
  /\ Head(L3).op = "unlock" /\ Head(L3).on = "next" /\ Tail(L3) = L2
  /\ Head(L4).op = "run" /\ Head(L4).on = "data" /\ Tail(L4) = L3
  /\ Head(L5).op = "lock" /\ Head(L5).on = "data" /\ Tail(L5) = L4
  /\ Head(L6).op = "lock" /\ Head(L6).on = "next" /\ Tail(L6) = L5
  /\ Head(L7).op = "lock" /\ Head(L7).on = "wait" /\ Tail(L7) = L6
BY Pops, SMTT(30) DEF L1, L2, L3, L4, L5, L6, L7, Take, Give, Use

LEMMA HighTable ==
  /\ Head(H1).op = "unlock" /\ Head(H1).on = "data" /\ Tail(H1) = <<>>
  /\ Head(H2).op = "run" /\ Head(H2).on = "data" /\ Tail(H2) = H1
  /\ Head(H3).op = "unlock" /\ Head(H3).on = "next" /\ Tail(H3) = H2
  /\ Head(H4).op = "lock" /\ Head(H4).on = "data" /\ Tail(H4) = H3
  /\ Head(H5).op = "lock" /\ Head(H5).on = "next" /\ Tail(H5) = H4
  /\ Head(P3).op = "lock" /\ Head(P3).on = "data" /\ Tail(P3) = H2
BY Pops DEF H1, H2, H3, H4, H5, P3, Take, Give, Use

LEMMA HeldTable ==
  /\ L3 \in Held /\ L4 \in Held /\ L5 \in Held /\ H3 \in Held /\ H4 \in Held
  /\ <<>> \notin Held /\ L1 \notin Held /\ L2 \notin Held /\ L6 \notin Held
  /\ L7 \notin Held /\ H1 \notin Held /\ H2 \notin Held /\ H5 \notin Held
  /\ P3 \notin Held /\ P3 \notin LowScripts
<1>1. /\ Len(L1) = 1 /\ Len(L2) = 2 /\ Len(L3) = 3 /\ Len(L4) = 4 /\ Len(L5) = 5
      /\ Len(L6) = 6 /\ Len(L7) = 7 /\ Len(H1) = 1 /\ Len(H2) = 2 /\ Len(H3) = 3
      /\ Len(H4) = 4 /\ Len(H5) = 5 /\ Len(P3) = 3 /\ Len(<<>>) = 0
  BY Zenon DEF L1, L2, L3, L4, L5, L6, L7, H1, H2, H3, H4, H5, P3
<1>2. H5 # L5 /\ P3 # L3 /\ P3 # H3
  BY LowTable, HighTable
<1>3. \A s \in Held : Len(s) \in 3..5 /\ s # H5 /\ s # P3
  BY <1>1, <1>2 DEF Held
<1>4. L1 \notin Held /\ L2 \notin Held /\ L6 \notin Held /\ <<>> \notin Held
  <2>1. L1 \notin Held /\ L2 \notin Held /\ L6 \notin Held
    BY <1>1, <1>3
  <2>2. <<>> \notin Held
    BY <1>3
  <2> QED
    BY <2>1, <2>2, Zenon
<1>5. L7 \notin Held /\ H1 \notin Held /\ H2 \notin Held
  BY <1>1, <1>3
<1>6. P3 # L1 /\ P3 # L2 /\ P3 # L4 /\ P3 # L5 /\ P3 # L6 /\ P3 # L7 /\ P3 # <<>>
  <2>1. P3 # L1 /\ P3 # L2 /\ P3 # L4
    BY <1>1
  <2>2. P3 # L5 /\ P3 # L6 /\ P3 # L7
    BY <1>1
  <2>3. P3 # <<>>
    BY Pops, Zenon DEF P3
  <2> QED
    BY <2>1, <2>2, <2>3
<1>7. P3 \notin LowScripts
  BY <1>2, <1>6, Zenon DEF LowScripts
<1>8. L3 \in Held /\ L4 \in Held /\ L5 \in Held /\ H3 \in Held /\ H4 \in Held
  BY DEF Held
<1> QED
  BY <1>3, <1>4, <1>5, <1>7, <1>8, Zenon

(* What one instruction does to a script: only taking next_mutex_ enters   *)
(* Held and only giving it back leaves it, and a client of low priority    *)
(* takes the data only while it holds next_mutex_.                         *)
LEMMA PopOf ==
  ASSUME NEW s \in Scripts, s # <<>>
  PROVE  /\ s \in LowScripts => Tail(s) \in LowScripts
         /\ s \in HighScripts => Tail(s) \in HighScripts
         /\ s \in PlainScripts => Tail(s) \in PlainScripts
         /\ Head(s).on \in {"data", "next", "wait"} /\ (Head(s).op = "run" => Head(s).on = "data")
         /\ Head(s).on = "next" /\ Head(s).op = "lock" => Tail(s) \in Held
         /\ Head(s).on = "next" /\ Head(s).op = "unlock" => s \in Held /\ Tail(s) \notin Held
         /\ Head(s).on # "next" => (s \in Held <=> Tail(s) \in Held)
         /\ s \in LowScripts /\ Head(s).on = "data" /\ Head(s).op = "lock" => s \in Held
<1>1. s \in LowScripts => Tail(s) \in LowScripts
  BY LowTable, Zenon DEF LowScripts
<1>2. s \in HighScripts => Tail(s) \in HighScripts
  BY HighTable, Zenon DEF HighScripts
<1>3. s \in PlainScripts => Tail(s) \in PlainScripts
  BY HighTable, Zenon DEF PlainScripts
<1>4. \/ s = L1 \/ s = L2 \/ s = L3 \/ s = L4 \/ s = L5 \/ s = L6 \/ s = L7
      \/ s = H1 \/ s = H2 \/ s = H3 \/ s = H4 \/ s = H5 \/ s = P3
  BY Zenon DEF Scripts, LowScripts, HighScripts, PlainScripts
<1> DEFINE Goal ==
      /\ Head(s).on \in {"data", "next", "wait"} /\ (Head(s).op = "run" => Head(s).on = "data")
      /\ Head(s).on = "next" /\ Head(s).op = "lock" => Tail(s) \in Held
      /\ Head(s).on = "next" /\ Head(s).op = "unlock" => s \in Held /\ Tail(s) \notin Held
      /\ Head(s).on # "next" => (s \in Held <=> Tail(s) \in Held)
      /\ s \in LowScripts /\ Head(s).on = "data" /\ Head(s).op = "lock" => s \in Held
<1>5. ASSUME s = L1 PROVE Goal
  BY <1>5, LowTable, HeldTable, Zenon
<1>6. ASSUME s = L2 PROVE Goal
  BY <1>6, LowTable, HeldTable, Zenon
<1>7. ASSUME s = L3 PROVE Goal
  BY <1>7, LowTable, HeldTable, Zenon
<1>8. ASSUME s = L4 PROVE Goal
  BY <1>8, LowTable, HeldTable, Zenon
<1>9. ASSUME s = L5 PROVE Goal
  BY <1>9, LowTable, HeldTable, Zenon
<1>10. ASSUME s = L6 PROVE Goal
  BY <1>10, LowTable, HeldTable, Zenon
<1>11. ASSUME s = L7 PROVE Goal
  BY <1>11, LowTable, HeldTable, Zenon
<1>12. ASSUME s = H1 PROVE Goal
  BY <1>12, HighTable, HeldTable, Zenon
<1>13. ASSUME s = H2 PROVE Goal
  BY <1>13, HighTable, HeldTable, Zenon
<1>14. ASSUME s = H3 PROVE Goal
  BY <1>14, HighTable, HeldTable, Zenon
<1>15. ASSUME s = H4 PROVE Goal
  BY <1>15, HighTable, HeldTable, Zenon
<1>16. ASSUME s = H5 PROVE Goal
  BY <1>16, HighTable, HeldTable, Zenon
<1>17. ASSUME s = P3 PROVE Goal
  BY <1>17, HighTable, HeldTable, Zenon
<1> QED
  BY <1>1, <1>2, <1>3, <1>4, <1>5, <1>6, <1>7, <1>8, <1>9, <1>10, <1>11, <1>12, <1>13,
     <1>14, <1>15, <1>16, <1>17, Zenon

(* The script of every client is a rest of its own, and the client whose   *)
(* script is between taking and giving back next_mutex_ owns it.           *)
PrioritizedInv ==
  /\ owner \in [{"data", "next", "wait"} -> Low \cup High \cup {Nobody}]
  /\ script \in [Low \cup High -> Scripts]
  /\ ~prioritize => \A c \in Low \cup High : script[c] \in PlainScripts
  /\ prioritize => /\ \A c \in Low : script[c] \in LowScripts
                   /\ \A c \in High : script[c] \in HighScripts
  /\ \A c \in Low \cup High : script[c] \in Held <=> owner["next"] = c

LEMMA PrioritizedBegins ==
  ASSUME PrioritizedInv, NEW c \in Low \cup High, Prioritized!Begin(c)
  PROVE  PrioritizedInv'
<1> DEFINE new == IF prioritize THEN IF c \in Low THEN L7 ELSE H5 ELSE P3
<1>1. /\ script[c] = <<>> /\ prioritize' = prioritize /\ owner' = owner
      /\ script' = [script EXCEPT ![c] = new]
  BY BeginsPrioritized, BeginsPlain, Zenon DEF Prioritized!Begin
<1>2. /\ prioritize /\ c \in Low => new \in LowScripts
      /\ prioritize /\ c \notin Low => new \in HighScripts
      /\ ~prioritize => new \in PlainScripts
  BY Zenon DEF LowScripts, HighScripts, PlainScripts
<1>3. new \in Scripts
  BY <1>2, Zenon DEF Scripts
<1>4. new \notin Held /\ <<>> \notin Held
  BY HeldTable, Zenon
<1> HIDE DEF new
<1>5. script \in [Low \cup High -> Scripts]
  BY Zenon DEF PrioritizedInv
<1>6. /\ script' \in [Low \cup High -> Scripts] /\ script'[c] = new
      /\ \A d \in (Low \cup High) \ {c} : script'[d] = script[d]
  BY <1>1, <1>3, <1>5, Zenon
<1>7. \A d \in Low \cup High : script'[d] \in Held <=> owner'["next"] = d
  BY <1>1, <1>4, <1>6, Zenon DEF PrioritizedInv
<1>8. ~prioritize' => \A d \in Low \cup High : script'[d] \in PlainScripts
  BY <1>1, <1>2, <1>6, Zenon DEF PrioritizedInv
<1>9. prioritize' => /\ \A d \in Low : script'[d] \in LowScripts
                     /\ \A d \in High : script'[d] \in HighScripts
  BY <1>1, <1>2, <1>6, PrimitivesAssumption, SMTT(30) DEF PrioritizedInv
<1> QED
  BY <1>1, <1>6, <1>7, <1>8, <1>9, Zenon DEF PrioritizedInv

(* One instruction of a script.                                            *)
LEMMA PrioritizedSteps ==
  ASSUME PrioritizedInv, NEW c \in Low \cup High, Prioritized!Step(c)
  PROVE  PrioritizedInv'
<1> DEFINE s == script[c]
           m == Head(s).on
<1>1. /\ s # <<>> /\ prioritize' = prioritize
      /\ script' = [script EXCEPT ![c] = Tail(s)]
  BY Zenon DEF Prioritized!Step, Prioritized!Lock, Prioritized!Unlock, Prioritized!Run,
               Prioritized!At
<1>2. /\ script \in [Low \cup High -> Scripts] /\ s \in Scripts
      /\ owner \in [{"data", "next", "wait"} -> Low \cup High \cup {Nobody}]
  BY Zenon DEF PrioritizedInv
<1>3. /\ s \in LowScripts => Tail(s) \in LowScripts
      /\ s \in HighScripts => Tail(s) \in HighScripts
      /\ s \in PlainScripts => Tail(s) \in PlainScripts
      /\ m \in {"data", "next", "wait"}
      /\ m = "next" /\ Head(s).op = "lock" => Tail(s) \in Held
      /\ m = "next" /\ Head(s).op = "unlock" => s \in Held /\ Tail(s) \notin Held
      /\ m # "next" => (s \in Held <=> Tail(s) \in Held)
  BY <1>1, <1>2, PopOf, Zenon
<1>4. \/ /\ Head(s).op = "lock" /\ owner[m] = Nobody
         /\ owner' = [owner EXCEPT ![m] = c]
      \/ Head(s).op = "unlock" /\ owner' = [owner EXCEPT ![m] = Nobody]
      \/ Head(s).op = "run" /\ owner' = owner
  BY Zenon DEF Prioritized!Step, Prioritized!Lock, Prioritized!Unlock, Prioritized!Run,
                  Prioritized!At
<1>5. Head(s).op = "run" => m # "next"
  BY <1>1, <1>2, PopOf, Zenon
<1>6. Nobody \notin Low \cup High /\ Low \cap High = {}
  BY PrimitivesAssumption, Zenon
<1>7. s \in Held <=> owner["next"] = c
  BY Zenon DEF PrioritizedInv
<1>8. \A d \in Low \cup High : script[d] \in Held <=> owner["next"] = d
  BY Zenon DEF PrioritizedInv
<1>9. Tail(s) \in Scripts
  BY <1>2, <1>3, Zenon DEF Scripts
<1> HIDE DEF s, m
<1>10. /\ script' \in [Low \cup High -> Scripts] /\ script'[c] = Tail(s)
       /\ \A d \in (Low \cup High) \ {c} : script'[d] = script[d]
  BY <1>1, <1>2, <1>9, Zenon
<1>11. owner' \in [{"data", "next", "wait"} -> Low \cup High \cup {Nobody}]
  BY <1>2, <1>3, <1>4, Zenon
<1>12. Tail(s) \in Held <=> owner'["next"] = c
  BY <1>2, <1>3, <1>4, <1>5, <1>6, <1>7, Zenon
<1>13. ASSUME NEW d \in (Low \cup High) \ {c} PROVE owner'["next"] = d <=> owner["next"] = d
  BY <1>2, <1>3, <1>4, <1>5, <1>6, <1>7, Zenon
<1>14. \A d \in Low \cup High : script'[d] \in Held <=> owner'["next"] = d
  BY <1>8, <1>10, <1>12, <1>13, Zenon
<1>15. ~prioritize' => \A d \in Low \cup High : script'[d] \in PlainScripts
  BY <1>1, <1>3, <1>10, Zenon DEF PrioritizedInv, s
<1>16. prioritize' => /\ \A d \in Low : script'[d] \in LowScripts
                      /\ \A d \in High : script'[d] \in HighScripts
  BY <1>1, <1>3, <1>10, Zenon DEF PrioritizedInv, s
<1> QED
  BY <1>10, <1>11, <1>14, <1>15, <1>16, Zenon DEF PrioritizedInv

LEMMA PrioritizedNext == PrioritizedInv /\ [PrimitivesNext]_allVars => PrioritizedInv'
<1> SUFFICES ASSUME PrioritizedInv, [PrimitivesNext]_allVars PROVE PrioritizedInv'
  OBVIOUS
<1>1. ASSUME UNCHANGED prioritizedVars PROVE PrioritizedInv'
  <2>1. prioritize' = prioritize /\ owner' = owner /\ script' = script
    BY <1>1, Zenon DEF prioritizedVars
  <2> QED
    BY <2>1 DEF PrioritizedInv
<1>2. ASSUME PrioritizedStep PROVE PrioritizedInv'
  BY <1>2, PrioritizedBegins, PrioritizedSteps, Zenon
     DEF PrioritizedStep, Prioritized!Next, Prioritized!Clients
<1> QED
  BY <1>1, <1>2, OthersUnchanged, Zenon

LEMMA DataIsLast ==
  ASSUME PrioritizedInv, PrioritizedStep, NEW h \in High, NEW l \in Low,
         owner["next"] = h, owner'["data"] = l, owner["data"] # l
  PROVE  FALSE
<1>1. /\ Nobody \notin Low \cup High /\ h \notin Low
      /\ owner \in [{"data", "next", "wait"} -> Low \cup High \cup {Nobody}]
      /\ script \in [Low \cup High -> Scripts]
  BY PrimitivesAssumption, Zenon DEF PrioritizedInv
<1>2. PICK c \in Low \cup High : Prioritized!Begin(c) \/ Prioritized!Step(c)
  BY Zenon DEF PrioritizedStep, Prioritized!Next, Prioritized!Clients
<1>3. owner' # owner
  BY <1>1, Zenon
<1>4. \/ Prioritized!Lock(c)
      \/ Prioritized!Unlock(c)
  BY <1>2, <1>3, Zenon DEF Prioritized!Begin, Prioritized!Step, Prioritized!Run
<1> DEFINE s == script[c]
<1>5. s # <<>> /\ s \in Scripts
  BY <1>1, <1>4, Zenon DEF Prioritized!Lock, Prioritized!Unlock, Prioritized!At
<1>6. Head(s).on \in {"data", "next", "wait"}
  BY <1>5, PopOf, Zenon
<1>7. Head(s).op = "lock" /\ Head(s).on = "data" /\ c = l
  BY <1>1, <1>4, <1>6, Zenon DEF Prioritized!Lock, Prioritized!Unlock, Prioritized!At
<1>8. CASE prioritize
  <2>1. s \in LowScripts
    BY <1>7, <1>8, Zenon DEF PrioritizedInv
  <2>2. s \in Held
    BY <1>5, <1>7, <2>1, PopOf, SMTT(30)
  <2> QED
    BY <1>1, <1>7, <2>2, Zenon DEF PrioritizedInv
<1>9. CASE ~prioritize
  <2>1. script[h] \in PlainScripts /\ script[h] \in Held
    BY <1>9 DEF PrioritizedInv
  <2> QED
    BY <2>1, HeldTable, Zenon DEF PlainScripts
<1> QED
  BY <1>8, <1>9, Zenon

(* prioritized_mutex: with any number of clients of either priority, once  *)
(* one of high priority has next_mutex_ no client of low priority takes    *)
(* the data before it.                                                     *)
THEOREM HighGoesFirst == PrimitivesSpec => LowNeverOvertakes
<1> DEFINE Ordered ==
      \A h \in High, l \in Low :
        owner["next"] = h /\ owner'["data"] = l => owner["data"] = l
<1>1. PrimitivesInit => PrioritizedInv
  <2> SUFFICES ASSUME PrimitivesInit PROVE PrioritizedInv
    OBVIOUS
  <2>1. /\ owner = [m \in {"data", "next", "wait"} |-> Nobody]
        /\ script = [c \in Low \cup High |-> <<>>]
    BY Zenon DEF PrimitivesInit, Prioritized!Init, Prioritized!Clients
  <2>2. /\ <<>> \in Scripts /\ <<>> \in LowScripts /\ <<>> \in HighScripts
        /\ <<>> \in PlainScripts
    BY Zenon DEF Scripts, LowScripts, HighScripts, PlainScripts
  <2>3. owner["next"] = Nobody /\ Nobody \notin Low \cup High
    BY <2>1, PrimitivesAssumption, Zenon
  <2> QED
    BY <2>1, <2>2, <2>3, HeldTable, Zenon DEF PrioritizedInv
<1>2. PrioritizedInv /\ [PrimitivesNext]_allVars => [Ordered]_(Prioritized!vars)
  <2> SUFFICES ASSUME PrioritizedInv, [PrimitivesNext]_allVars,
                      NEW h \in High, NEW l \in Low, owner["next"] = h, owner'["data"] = l
               PROVE  owner["data"] = l \/ UNCHANGED Prioritized!vars
    BY Zenon
  <2>1. PrioritizedStep \/ UNCHANGED Prioritized!vars
    BY OthersUnchanged DEF prioritizedVars, Prioritized!vars
  <2> QED
    BY <2>1, DataIsLast
<1>3. [][Ordered]_(Prioritized!vars) => LowNeverOvertakes
  BY PTL DEF LowNeverOvertakes, Prioritized!LowNeverOvertakes
<1> HIDE DEF Ordered
<1> QED
  BY <1>1, <1>2, <1>3, PrioritizedNext, PTL DEF PrimitivesSpec

-----------------------------------------------------------------------------
(* sequencer.  For any set of operations, it has at most one owner, starts *)
(* operations in lock order and implements SerialExecutor.                 *)
LEMMA LenFacts ==
  ASSUME NEW S, NEW s \in Seq(S)
  PROVE  Len(s) \in Nat /\ s \in [1..Len(s) -> S] /\ DOMAIN s = 1..Len(s)
OBVIOUS

LEMMA AppendFacts ==
  ASSUME NEW S, NEW s \in Seq(S), NEW e \in S
  PROVE  /\ Append(s, e) \in Seq(S)
         /\ Len(Append(s, e)) = Len(s) + 1
         /\ \A i \in 1..Len(s) : Append(s, e)[i] = s[i]
         /\ Append(s, e)[Len(s) + 1] = e
OBVIOUS

LEMMA InitInv == Init => IInv
<1> SUFFICES ASSUME Init PROVE IInv
  OBVIOUS
<1> USE DEF Init
<1>1. TypeOK
  <2>1. executing \in BOOLEAN /\ phase \in [Ops -> Phases]
    BY Zenon DEF Phases
  <2>2. <<>> \in Seq(Ops)
    OBVIOUS
  <2> QED
    BY <2>1, <2>2 DEF TypeOK
<1>2. QueueInv /\ OrderInv
  BY DEF QueueInv, OrderInv, NumPending, Pending
<1>3. SingleOwner /\ ExecutingIsOwned /\ StartsInLockOrder
  BY DEF SingleOwner, ExecutingIsOwned, StartsInLockOrder, Owns, Pending
<1> QED
  BY <1>1, <1>2, <1>3 DEF IInv

(* What is in the order stays admitted in a step that makes nobody new.    *)
LEMMA OrderIsAdmitted ==
  ASSUME TypeOK, OrderInv, order' = order,
         \A p \in Ops : phase'[p] = "new" => phase[p] = "new"
  PROVE  \A i \in 1..Len(order') : phase'[order'[i]] # "new"
<1>1. \A i \in 1..Len(order) : order[i] \in Ops
  BY SMTT(20) DEF TypeOK
<1>2. \A i \in 1..Len(order) : phase[order[i]] # "new"
  BY Zenon DEF OrderInv
<1> QED
  BY <1>1, <1>2, Zenon

LEMMA LockInv ==
  ASSUME IInv, NEW op \in Ops, Lock(op)
  PROVE  IInv'
<1> USE DEF IInv
<1>1. TypeOK'
  <2>1. executing' \in BOOLEAN
    BY Zenon DEF TypeOK, Lock
  <2>2. order' \in Seq(Ops) /\ actions' \in Seq(Ops) /\ started' \in Seq(Ops)
    <3>1. order' = Append(order, op) /\ started' = started
      BY DEF Lock
    <3>2. actions' = actions \/ actions' = Append(actions, op)
      BY DEF Lock
    <3>3. Append(order, op) \in Seq(Ops) /\ Append(actions, op) \in Seq(Ops)
      BY AppendFacts DEF TypeOK
    <3> QED
      BY <3>1, <3>2, <3>3, Zenon DEF TypeOK
  <2>3. phase' \in [Ops -> Phases]
    BY DEF TypeOK, Phases, Lock
  <2> QED
    BY <2>1, <2>2, <2>3 DEF TypeOK
<1>2. CASE executing
  <2>1. /\ actions' = Append(actions, op)
        /\ phase' = [phase EXCEPT ![op] = "queued"]
        /\ order' = Append(order, op)
        /\ UNCHANGED <<executing, started>>
    BY <1>2 DEF Lock
  <2>2. phase[op] = "new"
    BY DEF Lock
  <2>3. \A p \in Ops : (Pending(p)' <=> Pending(p)) /\ (Owns(p)' <=> Owns(p))
    BY <2>1, <2>2 DEF Pending, Owns, TypeOK
  <2>4. NumPending' = NumPending
    BY <2>3 DEF NumPending
  <2>5. SingleOwner' /\ ExecutingIsOwned'
    BY <1>2, <2>1, <2>3, SMTT(20) DEF SingleOwner, ExecutingIsOwned
  <2>a. /\ Len(order) \in Nat /\ Len(started) \in Nat /\ Len(actions) \in Nat
        /\ Len(order') = Len(order) + 1
        /\ \A i \in 1..Len(order) : order'[i] = order[i]
        /\ order'[Len(order) + 1] = op
    BY <2>1, AppendFacts, LenFacts, SMTT(20) DEF TypeOK
  <2>6. StartsInLockOrder'
    BY <2>1, <2>a, SMTT(20) DEF StartsInLockOrder
  <2>7. QueueInv'
    BY <2>1, <2>2, SMTT(30) DEF QueueInv, TypeOK
  <2>8. OrderInv'
    <3>1. Len(actions') = Len(actions) + 1
      BY <2>1, AppendFacts DEF TypeOK
    <3>2. NumPending \in {0, 1}
      BY SMTT(20) DEF NumPending
    <3>3. Len(order') = Len(started') + NumPending' + Len(actions')
      <4>1. Len(order) = Len(started) + NumPending + Len(actions)
        BY Zenon DEF OrderInv
      <4> QED
        BY <2>1, <2>4, <2>a, <3>1, <3>2, <4>1, SMTT(20)
    <3>4. \A p \in Ops : Pending(p)' => order'[Len(started') + 1] = p
      <4>1. ASSUME NEW p \in Ops, Pending(p)
            PROVE  NumPending = 1
        BY <4>1 DEF NumPending
      <4>2. ASSUME NEW p \in Ops, Pending(p)
            PROVE  order'[Len(started) + 1] = p
        <5>1. /\ order[Len(started) + 1] = p
              /\ Len(order) = Len(started) + NumPending + Len(actions)
          BY <4>2, Zenon DEF OrderInv
        <5>2. Len(started) + 1 \in 1..Len(order)
          BY <2>a, <4>1, <4>2, <5>1, SMTT(20)
        <5> QED
          BY <2>a, <5>1, <5>2, Zenon
      <4> QED
        BY <2>1, <2>3, <4>2, Zenon
    <3>5. \A i \in 1..Len(actions') :
            actions'[i] = order'[Len(started') + NumPending' + i]
      <4>1. /\ \A i \in 1..Len(actions) : actions'[i] = actions[i]
            /\ actions'[Len(actions) + 1] = op
        BY <2>1, AppendFacts, SMTT(20) DEF TypeOK
      <4>2. Len(order) = Len(started) + NumPending + Len(actions)
        BY Zenon DEF OrderInv
      <4>3. ASSUME NEW i \in 1..Len(actions)
            PROVE  actions'[i] = order'[Len(started) + NumPending + i]
        <5>1. Len(started) + NumPending + i \in 1..Len(order)
          BY <2>a, <3>2, <4>2, SMTT(20)
        <5>2. actions[i] = order[Len(started) + NumPending + i]
          BY Zenon DEF OrderInv
        <5> QED
          BY <2>a, <4>1, <5>1, <5>2, SMTT(20)
      <4>4. actions'[Len(actions) + 1]
              = order'[Len(started) + NumPending + (Len(actions) + 1)]
        BY <2>a, <3>2, <4>1, <4>2, SMTT(20)
      <4>5. started' = started /\ NumPending' = NumPending
        BY <2>1, <2>4, SMTT(20)
      <4>6. \A i \in 1..Len(actions') : i \in 1..Len(actions) \/ i = Len(actions) + 1
        BY <2>a, <3>1, SMTT(20)
      <4> QED
        BY <4>3, <4>4, <4>5, <4>6, SMTT(20)
    <3>6. \A i \in 1..Len(order') : phase'[order'[i]] # "new"
      <4>1. \A i \in 1..Len(order) : order[i] \in Ops
        BY SMTT(20) DEF TypeOK
      <4>2. \A i \in 1..Len(order) : phase[order[i]] # "new"
        BY Zenon DEF OrderInv
      <4>3. phase'[op] # "new" /\ \A p \in Ops : phase'[p] = "new" => phase[p] = "new"
        BY <2>1, <2>2, SMTT(20) DEF TypeOK
      <4>4. \A i \in 1..Len(order') : i \in 1..Len(order) \/ i = Len(order) + 1
        BY <2>a, SMTT(20)
      <4> QED
        BY <2>a, <4>1, <4>2, <4>3, <4>4, Zenon
    <3>7. \A p \in Ops : phase'[p] = "running" => Len(started') > 0
      <4>1. \A p \in Ops : phase'[p] = "running" => phase[p] = "running"
        BY <2>1, SMTT(20) DEF TypeOK
      <4> QED
        BY <2>1, <4>1, Zenon DEF OrderInv
    <3> QED
      BY <3>3, <3>4, <3>5, <3>6, <3>7, Zenon DEF OrderInv
  <2> QED
    BY <1>1, <2>5, <2>6, <2>7, <2>8
<1>3. CASE ~executing
  <2>1. /\ executing' = TRUE
        /\ phase' = [phase EXCEPT ![op] = "posting"]
        /\ order' = Append(order, op)
        /\ UNCHANGED <<actions, started>>
    BY <1>3 DEF Lock
  <2>2. phase[op] = "new"
    BY DEF Lock
  <2>3. actions = <<>> /\ \A p \in Ops : ~Owns(p) /\ ~Pending(p)
    BY <1>3, SMTT(20) DEF ExecutingIsOwned, Owns
  <2>4. \A p \in Ops : (Owns(p)' <=> p = op) /\ (Pending(p)' <=> p = op)
    BY <2>1, <2>3 DEF Pending, Owns, TypeOK
  <2>5. NumPending = 0 /\ NumPending' = 1
    BY <2>3, <2>4 DEF NumPending
  <2>6. SingleOwner' /\ ExecutingIsOwned'
    BY <2>1, <2>4, SMTT(20) DEF SingleOwner, ExecutingIsOwned
  <2>a. /\ Len(order) \in Nat /\ Len(started) \in Nat /\ Len(actions) \in Nat
        /\ Len(order') = Len(order) + 1
        /\ \A i \in 1..Len(order) : order'[i] = order[i]
        /\ order'[Len(order) + 1] = op
    BY <2>1, AppendFacts, LenFacts, SMTT(20) DEF TypeOK
  <2>7. StartsInLockOrder'
    BY <2>1, <2>a, SMTT(20) DEF StartsInLockOrder
  <2>8. QueueInv'
    BY <2>1, <2>2, <2>3, SMTT(20) DEF QueueInv, TypeOK
  <2>9. OrderInv'
    <3>1. /\ Len(order) = Len(started) + NumPending + Len(actions)
          /\ \A i \in 1..Len(order) : phase[order[i]] # "new"
          /\ \A p \in Ops : phase[p] = "running" => Len(started) > 0
      BY Zenon DEF OrderInv
    <3>2. Len(actions) = 0 /\ actions' = actions /\ started' = started
      BY <2>1, <2>3, SMTT(20)
    <3>3. /\ Len(order') = Len(started') + NumPending' + Len(actions')
          /\ order'[Len(started') + 1] = op
          /\ ~\E i \in 1..Len(actions') : TRUE
      BY <2>5, <2>a, <3>1, <3>2, SMTT(20)
    <3>4. /\ phase'[op] # "new"
          /\ \A p \in Ops : /\ phase'[p] = "new" => phase[p] = "new"
                            /\ phase'[p] = "running" => phase[p] = "running"
      BY <2>1, <2>2, SMTT(20) DEF TypeOK
    <3>5. \A i \in 1..Len(order') : phase'[order'[i]] # "new"
      <4>1. \A i \in 1..Len(order') : i \in 1..Len(order) \/ i = Len(order) + 1
        BY <2>a, SMTT(20)
      <4>2. \A i \in 1..Len(order) : order[i] \in Ops
        BY SMTT(20) DEF TypeOK
      <4> QED
        BY <2>a, <3>1, <3>4, <4>1, <4>2, Zenon
    <3> QED
      BY <2>4, <3>1, <3>2, <3>3, <3>4, <3>5, Zenon DEF OrderInv
  <2> QED
    BY <1>1, <2>6, <2>7, <2>8, <2>9
<1> QED
  BY <1>2, <1>3

LEMMA PostInv ==
  ASSUME IInv, NEW op \in Ops, Post(op)
  PROVE  IInv'
<1> USE DEF IInv
<1>1. TypeOK'
  BY DEF TypeOK, Phases, Post
<1>2. \A p \in Ops : (Pending(p)' <=> Pending(p)) /\ (Owns(p)' <=> Owns(p))
  BY SMTT(20) DEF Pending, Owns, TypeOK, Post
<1>3. NumPending' = NumPending
  BY <1>2 DEF NumPending
<1>4. SingleOwner' /\ ExecutingIsOwned' /\ StartsInLockOrder'
  BY <1>2, SMTT(20) DEF SingleOwner, ExecutingIsOwned, StartsInLockOrder, Post
<1>5. QueueInv'
  BY SMTT(20) DEF QueueInv, TypeOK, Post
<1>6. OrderInv'
  <2>1. actions' = actions /\ order' = order /\ started' = started
    BY Zenon DEF Post
  <2>2. \A p \in Ops : phase'[p] = "new" => phase[p] = "new"
    BY SMTT(20) DEF Post, TypeOK
  <2>2a. \A p \in Ops : phase'[p] = "running" => phase[p] = "running"
    BY SMTT(20) DEF Post, TypeOK
  <2>3. \A i \in 1..Len(order') : phase'[order'[i]] # "new"
    BY <2>1, <2>2, OrderIsAdmitted, Zenon
  <2> QED
    BY <1>2, <1>3, <2>1, <2>2a, <2>3, Zenon DEF OrderInv
<1> QED
  BY <1>1, <1>4, <1>5, <1>6, SMTT(20)

LEMMA RunInv ==
  ASSUME IInv, NEW op \in Ops, Run(op)
  PROVE  IInv'
<1> USE DEF IInv
<1>1. TypeOK'
  BY DEF TypeOK, Phases, Run
<1>2. \A p \in Ops : Owns(p)' <=> Owns(p)
  BY DEF Pending, Owns, TypeOK, Run
<1>3. Pending(op) /\ \A p \in Ops : ~Pending(p)'
  BY DEF SingleOwner, Owns, Pending, TypeOK, Run
<1>4. NumPending = 1 /\ NumPending' = 0
  BY <1>3 DEF NumPending
<1>5. SingleOwner' /\ ExecutingIsOwned'
  BY <1>2 DEF SingleOwner, ExecutingIsOwned, Run
<1>6. Len(started') = Len(started) + 1 /\ started'[Len(started) + 1] = op
  BY SMTT(20) DEF Run, TypeOK
<1>7. StartsInLockOrder'
  <2>1. /\ Len(order) = Len(started) + NumPending + Len(actions)
        /\ order[Len(started) + 1] = op
    BY <1>3, Zenon DEF OrderInv
  <2>2. Len(started) \in Nat /\ Len(actions) \in Nat /\ order' = order
    BY LenFacts, SMTT(20) DEF TypeOK, Run
  <2>3. \A i \in 1..Len(started) : started'[i] = started[i]
    BY AppendFacts, SMTT(20) DEF TypeOK, Run
  <2>4. \A i \in 1..Len(started) : started[i] = order[i]
    BY Zenon DEF StartsInLockOrder
  <2>5. \A i \in 1..Len(started') : i \in 1..Len(started) \/ i = Len(started) + 1
    BY <1>6, <2>2, SMTT(20)
  <2>6. Len(started') <= Len(order')
    BY <1>4, <1>6, <2>1, <2>2, SMTT(20)
  <2>7. \A i \in 1..Len(started') : started'[i] = order'[i]
    BY <1>6, <2>1, <2>2, <2>3, <2>4, <2>5, Zenon
  <2> QED
    BY <2>6, <2>7, Zenon DEF StartsInLockOrder
<1>8. QueueInv'
  BY SMTT(20) DEF QueueInv, TypeOK, Run
<1>9. OrderInv'
  <2>1. actions' = actions /\ order' = order
    BY DEF Run
  <2>2. phase \in [Ops -> Phases] /\ phase' = [phase EXCEPT ![op] = "running"]
    BY DEF Run, TypeOK
  <2>3. Len(started) \in Nat /\ Len(actions) \in Nat
    BY LenFacts, SMTT(20) DEF TypeOK
  <2>4. /\ Len(order) = Len(started) + NumPending + Len(actions)
        /\ \A i \in 1..Len(actions) :
              actions[i] = order[Len(started) + NumPending + i]
    BY Zenon DEF OrderInv
  <2>5. /\ Len(order') = Len(started') + NumPending' + Len(actions')
        /\ \A i \in 1..Len(actions') :
              actions'[i] = order'[Len(started') + NumPending' + i]
    BY <1>4, <1>6, <2>1, <2>3, <2>4, SMTT(20)
  <2>6. \A i \in 1..Len(order') : phase'[order'[i]] # "new"
    <3>1. \A p \in Ops : phase'[p] = "new" => phase[p] = "new"
      BY <2>2, SMTT(20)
    <3> QED
      BY <2>1, <3>1, OrderIsAdmitted, Zenon
  <2>7. Len(started') > 0
    BY <1>6, <2>3, SMTT(20)
  <2> QED
    BY <1>3, <2>5, <2>6, <2>7, Zenon DEF OrderInv
<1> QED
  BY <1>1, <1>5, <1>7, <1>8, <1>9

LEMMA UnlockInv ==
  ASSUME IInv, NEW op \in Ops, Unlock(op)
  PROVE  IInv'
<1> USE DEF IInv
<1>1. /\ phase[op] = "running"
      /\ UNCHANGED <<order, started>>
  BY DEF Unlock
<1>2. \A p \in Ops : ~Pending(p) /\ (Owns(p) <=> p = op)
  BY <1>1 DEF SingleOwner, Owns, Pending
<1>3. NumPending = 0
  BY <1>2, SMTT(20) DEF NumPending
<1>4. CASE actions = <<>>
  <2>1. /\ executing' = FALSE
        /\ phase' = [phase EXCEPT ![op] = "done"]
        /\ actions' = actions
    BY <1>4 DEF Unlock
  <2>2. TypeOK'
    BY <1>1, <2>1, Zenon DEF TypeOK, Phases
  <2>3. \A p \in Ops : ~Pending(p)' /\ ~Owns(p)'
    BY <1>2, <2>1 DEF Owns, Pending, TypeOK
  <2>4. NumPending' = 0
    BY <2>3, SMTT(20) DEF NumPending
  <2>5. SingleOwner' /\ ExecutingIsOwned' /\ StartsInLockOrder'
    <3>1. SingleOwner'
      BY <2>3, Zenon DEF SingleOwner
    <3>2. ExecutingIsOwned'
      BY <1>4, <2>1, <2>3, Zenon DEF ExecutingIsOwned
    <3>3. StartsInLockOrder'
      BY <1>1, Zenon DEF StartsInLockOrder
    <3> QED
      BY <3>1, <3>2, <3>3
  <2>6. QueueInv'
    BY <1>1, <2>1, SMTT(20) DEF QueueInv, TypeOK
  <2>7. OrderInv'
    <3>1. actions' = actions /\ order' = order /\ started' = started
      BY <1>1, <2>1, Zenon
    <3>2. \A p \in Ops : phase'[p] = "new" => phase[p] = "new"
      BY <1>1, <2>1, SMTT(20) DEF TypeOK
    <3>2a. \A p \in Ops : phase'[p] = "running" => phase[p] = "running"
      BY <1>1, <2>1, SMTT(20) DEF TypeOK
    <3>3. \A i \in 1..Len(order') : phase'[order'[i]] # "new"
      BY <3>1, <3>2, OrderIsAdmitted, Zenon
    <3>4. NumPending' = NumPending
      BY <1>3, <2>4, Zenon
    <3> QED
      BY <2>3, <3>1, <3>2a, <3>3, <3>4, Zenon DEF OrderInv
  <2> QED
    BY <2>2, <2>5, <2>6, <2>7
<1>5. CASE actions # <<>>
  <2> DEFINE next == Head(actions)
  <2>1. /\ executing' = TRUE
        /\ actions' = Tail(actions)
        /\ phase' = [phase EXCEPT ![op] = "done", ![next] = "handoff"]
    BY <1>5 DEF Unlock
  <2>2. /\ Len(actions) > 0 /\ next = actions[1] /\ next \in Ops
        /\ Len(actions') = Len(actions) - 1
        /\ \A i \in 1..Len(actions') : actions'[i] = actions[i + 1]
    BY <1>5, <2>1, SMTT(20) DEF TypeOK
  <2>3. phase[next] = "queued" /\ next # op
    BY <1>1, <2>2, SMTT(20) DEF QueueInv, TypeOK
  <2> HIDE DEF next
  <2>4. TypeOK'
    BY <1>1, <1>5, <2>1, <2>2, SMTT(20) DEF TypeOK, Phases
  <2>5. \A p \in Ops : (Pending(p)' <=> p = next) /\ (Owns(p)' <=> p = next)
    BY <1>2, <2>1, <2>2, <2>3, SMTT(20) DEF Owns, Pending, TypeOK
  <2>6. NumPending' = 1
    BY <2>2, <2>5, SMTT(20) DEF NumPending
  <2>7. SingleOwner' /\ ExecutingIsOwned' /\ StartsInLockOrder'
    BY <1>1, <2>1, <2>2, <2>5, SMTT(20) DEF SingleOwner, ExecutingIsOwned, StartsInLockOrder
  <2>8. QueueInv'
    <3>1. \A i, j \in 1..Len(actions') : actions'[i] = actions'[j] => i = j
      BY <2>2, SMTT(30) DEF QueueInv, TypeOK
    <3>2. ASSUME NEW p \in Ops, phase'[p] = "queued"
          PROVE  \E i \in 1..Len(actions') : actions'[i] = p
      <4>1. phase[p] = "queued" /\ p # next
        BY <3>2, <2>1, <2>2, SMTT(20) DEF TypeOK
      <4>2. PICK i \in 1..Len(actions) : actions[i] = p
        BY <4>1, SMTT(20) DEF QueueInv
      <4>3. i - 1 \in 1..Len(actions')
        BY <4>1, <4>2, <2>2, SMTT(20) DEF TypeOK
      <4> QED
        BY <4>2, <4>3, <2>2, SMTT(20)
    <3>3. ASSUME NEW p \in Ops, NEW i \in 1..Len(actions'), actions'[i] = p
          PROVE  phase'[p] = "queued"
      <4>1. i + 1 \in 1..Len(actions) /\ actions[i + 1] = p
        <5>1. Len(actions) \in Nat
          BY LenFacts, SMTT(20) DEF TypeOK
        <5> QED
          BY <3>3, <5>1, <2>2, SMTT(20)
      <4>2. phase[p] = "queued" /\ p # next
        BY <4>1, <2>2 DEF QueueInv, TypeOK
      <4> QED
        BY <4>2, <1>1, <2>1, <2>2, SMTT(20) DEF TypeOK
    <3> QED
      BY <3>1, <3>2, <3>3, SMTT(20) DEF QueueInv
  <2>9. OrderInv'
    <3> Len(started) \in Nat /\ Len(actions) \in Nat
      BY LenFacts, SMTT(20) DEF TypeOK
    <3>0. Len(order) = Len(started) + NumPending + Len(actions)
      BY Zenon DEF OrderInv
    <3>1. Len(order') = Len(started') + NumPending' + Len(actions')
      BY <1>1, <1>3, <2>2, <2>6, <3>0, SMTT(20)
    <3>2. \A p \in Ops : Pending(p)' => order'[Len(started') + 1] = p
      <4>1. actions[1] = order[Len(started) + NumPending + 1]
        <5>1. 1 \in 1..Len(actions)
          BY <2>2, SMTT(20)
        <5> QED
          BY <5>1, Zenon DEF OrderInv
      <4>2. order'[Len(started') + 1] = next
        BY <1>1, <1>3, <2>2, <4>1, SMTT(20)
      <4> QED
        BY <2>5, <4>2, Zenon
    <3>3. \A i \in 1..Len(actions') :
            actions'[i] = order'[Len(started') + NumPending' + i]
      <4>1. \A i \in 1..Len(actions) :
              actions[i] = order[Len(started) + NumPending + i]
        BY Zenon DEF OrderInv
      <4> QED
        BY <1>1, <1>3, <2>2, <2>6, <4>1, SMTT(30)
    <3>a. \A p \in Ops : phase'[p] = "new" => phase[p] = "new"
      BY <1>1, <2>1, <2>2, SMTT(20) DEF TypeOK
    <3>b. \A p \in Ops : phase'[p] = "running" => phase[p] = "running"
      BY <1>1, <2>1, <2>2, SMTT(20) DEF TypeOK
    <3>c. order' = order
      BY <1>1
    <3>4. \A i \in 1..Len(order') : phase'[order'[i]] # "new"
      BY <3>a, <3>c, OrderIsAdmitted, Zenon
    <3>5. \A p \in Ops : phase'[p] = "running" => Len(started') > 0
      BY <1>1, <3>b, Zenon DEF OrderInv
    <3> QED
      BY <3>1, <3>2, <3>3, <3>4, <3>5, Zenon DEF OrderInv
  <2> QED
    BY <2>4, <2>7, <2>8, <2>9
<1> QED
  BY <1>4, <1>5

LEMMA NextInv == IInv /\ [Next]_vars => IInv'
<1>1. ASSUME IInv, UNCHANGED vars
      PROVE  IInv'
  <2>1. /\ executing' = executing /\ actions' = actions /\ phase' = phase
        /\ order' = order /\ started' = started
    BY <1>1, SMTT(20) DEF vars
  <2> USE <1>1, <2>1 DEF IInv
  <2>2. TypeOK' /\ StartsInLockOrder'
    BY SMTT(20) DEF TypeOK, StartsInLockOrder
  <2>3. SingleOwner' /\ ExecutingIsOwned'
    BY SMTT(20) DEF SingleOwner, ExecutingIsOwned, Owns, Pending
  <2>4. QueueInv'
    BY SMTT(20) DEF QueueInv
  <2>5. OrderInv'
    BY DEF OrderInv, NumPending, Pending
  <2> QED
    BY <2>2, <2>3, <2>4, <2>5, SMTT(20)
<1> QED
  BY <1>1, LockInv, PostInv, RunInv, UnlockInv, SMTT(20) DEF Next

(* The inductive invariant holds in every reachable state.                 *)
THEOREM Invariance == Spec => []IInv
BY InitInv, NextInv, PTL DEF Spec

(* lock() and unlock() keep at most one operation between its admission    *)
(* and its completion, although they post outside mutex_.                  *)
THEOREM OneOwner == Spec => []SingleOwner
<1>1. IInv => SingleOwner
  BY DEF IInv
<1> QED
  BY <1>1, Invariance, PTL

(* Operations begin in the order in which lock() admitted them.            *)
THEOREM LockOrder == Spec => []StartsInLockOrder
<1>1. IInv => StartsInLockOrder
  BY DEF IInv
<1> QED
  BY <1>1, Invariance, PTL

(* executing_ is set exactly while an operation owns the sequence, and     *)
(* nothing is queued otherwise.                                            *)
THEOREM Owned == Spec => []ExecutingIsOwned
<1>1. IInv => ExecutingIsOwned
  BY SMTT(20) DEF IInv
<1> QED
  BY <1>1, Invariance, PTL

LEMMA NotYetOrdered ==
  ASSUME IInv, NEW op \in Ops, phase[op] = "new"
  PROVE  \A i \in DOMAIN order : order[i] # op
<1>1. DOMAIN order = 1..Len(order)
  BY DEF IInv, TypeOK
<1> QED
  BY <1>1 DEF IInv, OrderInv

LEMMA StepSimulation == IInv /\ [Next]_vars => [Serial!Next]_(Serial!vars)
<1> SUFFICES ASSUME IInv, [Next]_vars
             PROVE  Serial!Next \/ UNCHANGED <<order, started, NumEnded>>
  BY SMTT(20) DEF Serial!vars
<1> USE DEF IInv
<1> DEFINE Running == \E p \in Ops : phase[p] = "running"
<1>0. Len(started) \in Nat /\ (Running => Len(started) > 0)
  <2>1. Len(started) \in Nat
    BY LenFacts, SMTT(20) DEF TypeOK
  <2> QED
    BY <2>1, Zenon DEF OrderInv
<1>1. ASSUME NEW op \in Ops, Lock(op)
      PROVE  Serial!Submit(op)
  <2>1. \A p \in Ops : phase'[p] = "running" <=> phase[p] = "running"
    BY <1>1 DEF Lock, TypeOK
  <2>2. NumEnded' = NumEnded
    BY <1>1, <2>1 DEF NumEnded, Lock
  <2> QED
    BY <1>1, <2>2, NotYetOrdered, SMTT(20) DEF Serial!Submit, Lock
<1>2. ASSUME NEW op \in Ops, Post(op)
      PROVE  UNCHANGED <<order, started, NumEnded>>
  <2>1. \A p \in Ops : phase'[p] = "running" <=> phase[p] = "running"
    BY <1>2, SMTT(20) DEF Post, TypeOK
  <2> QED
    BY <1>2, <2>1, SMTT(20) DEF NumEnded, Post
<1>3. ASSUME NEW op \in Ops, Run(op)
      PROVE  Serial!Begin
  <2>1. Pending(op) /\ \A p \in Ops : phase[p] # "running"
    BY <1>3, SMTT(20) DEF Run, SingleOwner, Owns, Pending
  <2>2. phase'[op] = "running" /\ Len(started') = Len(started) + 1
    BY <1>3, AppendFacts, SMTT(20) DEF Run, TypeOK
  <2>3. NumEnded = Len(started) /\ NumEnded' = Len(started)
    BY <1>0, <2>1, <2>2, SMTT(20) DEF NumEnded
  <2>4. NumPending = 1 /\ order[Len(started) + 1] = op
    <3>1. NumPending = 1
      BY <2>1, Zenon DEF NumPending
    <3>2. order[Len(started) + 1] = op
      BY <2>1, Zenon DEF OrderInv
    <3> QED
      BY <3>1, <3>2
  <2>5. Len(started) < Len(order)
    <3>1. Len(order) = Len(started) + NumPending + Len(actions)
      BY Zenon DEF OrderInv
    <3>2. Len(actions) \in Nat
      BY LenFacts, SMTT(20) DEF TypeOK
    <3> QED
      BY <1>0, <2>4, <3>1, <3>2, SMTT(20)
  <2> QED
    BY <1>3, <2>3, <2>4, <2>5, SMTT(20) DEF Serial!Begin, Run
<1>4. ASSUME NEW op \in Ops, Unlock(op)
      PROVE  Serial!End
  <2>1. Running /\ \A p \in Ops : phase[p] = "running" => p = op
    BY <1>4 DEF Unlock, SingleOwner, Owns
  <2>2. \A p \in Ops : phase'[p] # "running"
    <3>1. CASE actions = <<>>
      BY <1>4, <2>1, <3>1, SMTT(20) DEF Unlock, TypeOK
    <3>2. CASE actions # <<>>
      <4>1. Head(actions) \in Ops /\ Head(actions) = actions[1] /\ Len(actions) > 0
        BY <3>2 DEF TypeOK
      <4>2. phase' = [phase EXCEPT ![op] = "done", ![Head(actions)] = "handoff"]
        BY <1>4, <3>2, SMTT(20) DEF Unlock
      <4> QED
        BY <2>1, <4>1, <4>2, SMTT(20) DEF TypeOK
    <3> QED
      BY <3>1, <3>2, SMTT(20)
  <2>3. NumEnded = Len(started) - 1 /\ NumEnded' = Len(started')
    BY <2>1, <2>2 DEF NumEnded
  <2> QED
    BY <1>0, <1>4, <2>3, SMTT(20) DEF Serial!End, Unlock
<1>5. ASSUME UNCHANGED vars
      PROVE  UNCHANGED <<order, started, NumEnded>>
  BY <1>5 DEF vars, NumEnded
<1> QED
  BY <1>1, <1>2, <1>3, <1>4, <1>5, SMTT(20) DEF Next, Serial!Next

(* The sequencer implements SerialExecutor: operations run one at a time,  *)
(* each to completion, in the order lock() admitted them.                  *)
THEOREM ImplementsSerial == Spec => SerialSpec
<1>1. Init => Serial!Init
  BY DEF Init, Serial!Init, NumEnded
<1> QED
  BY <1>1, Invariance, StepSimulation, PTL DEF Spec, SerialSpec, Serial!Spec

=============================================================================
