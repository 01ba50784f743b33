-------------------------- MODULE ChainStateProofs --------------------------
(***************************************************************************)
(* For every retargeting interval, window size and chain: promotion keeps  *)
(* the windows exact and long enough, so that a promoted state is as good  *)
(* as a populated one.                                                     *)
(***************************************************************************)
EXTENDS ChainState, WellFoundedInduction, TLAPS

(* What activation reads of a state.                                       *)
LEMMA ForksRead ==
  ASSUME NEW a, NEW b, MedianTimePast(a) = MedianTimePast(b),
         a.height = b.height, a.hash = b.hash,
         a.version.self = b.version.self, a.version.ordered = b.version.ordered,
         a.timestamp.self = b.timestamp.self,
         a.collisions = b.collisions, a.bit0 = b.bit0,
         (Currency # "BCH" /\ a.bit1 = CheckpointHash(Bit1Checkpoint[Network]))
           = (Currency # "BCH" /\ b.bit1 = CheckpointHash(Bit1Checkpoint[Network]))
  PROVE  EnabledForks(a) = EnabledForks(b)
<1>1. Bit1Active(a.bit1) = Bit1Active(b.bit1)
  BY DEF Bit1Active
<1> QED
  BY <1>1, SMTT(30) DEF EnabledForks, Activated

LEMMA DivisionFacts ==
  ASSUME NEW m \in Nat \ {0}, NEW a \in Nat
  PROVE  \E q \in Nat, r \in 0..(m - 1) : a % m = r /\ a = m * q + r
<1>1. PICK q \in Nat : q = a \div m
  OBVIOUS
<1>2. PICK r \in 0..(m - 1) : r = a % m
  OBVIOUS
<1>3. a % m = a - m * (a \div m)
  OBVIOUS
<1>4. r = a - m * q
  BY <1>1, <1>2, <1>3
<1>5. a = m * q + r
  BY <1>4
<1> QED
  BY <1>2, <1>5, Zenon

LEMMA RemainderIsUnique ==
  ASSUME NEW m \in Nat \ {0}, NEW q \in Nat, NEW r \in 0..(m - 1)
  PROVE  (m * q + r) % m = r
<1>1. m * q + r \in Nat
  OBVIOUS
<1>2. PICK p \in Nat, s \in 0..(m - 1) : (m * q + r) % m = s /\ m * q + r = m * p + s
  BY <1>1, DivisionFacts, Zenon
<1>3. m * (q - p) = s - r
  BY <1>2
<1>4. CASE q - p >= 1
  <2>1. m * (q - p) >= m
    BY <1>4
  <2> QED
    BY <1>3, <2>1
<1>5. CASE q - p <= -1
  <2>1. m * (q - p) <= -m
    BY <1>5
  <2> QED
    BY <1>3, <2>1
<1>6. CASE q - p = 0
  <2>1. s = r
    BY <1>3, <1>6
  <2> QED
    BY <1>2, <2>1, Zenon
<1> QED
  BY <1>4, <1>5, <1>6

(* Any interval of heights as long as the retargeting interval holds a     *)
(* retarget height.                                                        *)
LEMMA RetargetWithin ==
  ASSUME NEW low \in Nat, NEW high \in Nat, high - low + 1 >= RetargetingInterval
  PROVE  \E height \in low..high : IsRetargetHeight(height)
<1> DEFINE m == RetargetingInterval
<1>1. m \in Nat \ {0}
  BY ChainAssumption
<1>2. PICK q \in Nat, r \in 0..(m - 1) : low % m = r /\ low = m * q + r
  BY <1>1, DivisionFacts
<1>3. CASE r = 0
  BY <1>1, <1>2, <1>3 DEF IsRetargetHeight
<1>4. CASE r # 0
  <2>1. m * (q + 1) = low + (m - r)
    BY <1>1, <1>2
  <2>2. m * (q + 1) \in low..high
    BY <1>1, <1>2, <1>4, <2>1
  <2>3. (m * (q + 1) + 0) % m = 0
    BY <1>1, RemainderIsUnique
  <2>4. m * (q + 1) + 0 = m * (q + 1)
    BY <1>1
  <2> QED
    BY <2>2, <2>3, <2>4 DEF IsRetargetHeight
<1> QED
  BY <1>3, <1>4

LEMMA TopFact ==
  ASSUME NEW n \in Nat, DOMAIN chain = 0..n
  PROVE  Top = n
BY DEF Top, Max

HasTop == \E n \in Nat : DOMAIN chain = 0..n

LEMMA GroundedFact == HasTop => Grounded
BY TopFact DEF HasTop, Grounded

(* Sliding a window of the chain gives the window one height up.           *)
LEMMA SlideWindow ==
  ASSUME NEW field, NEW height \in Nat, NEW size \in 0..height, NEW count \in Nat
  PROVE  Slide(Window(field, size, height), chain[height][field], count)
           = Window(field, IF size + 1 > count THEN size ELSE size + 1, height + 1)
<1> DEFINE w == Window(field, size, height)
           v == chain[height][field]
           S == {w[i] : i \in 1..size} \cup {v}
           p == Append(w, v)
<1>1. w \in Seq(S) /\ Len(w) = size /\ v \in S
  <2>1. w = [i \in 1..size |-> chain[height - 1 - size + i][field]]
    BY DEF Window
  <2>2. w \in [1..size -> S]
    BY <2>1
  <2>3. size \in Nat /\ v \in S
    OBVIOUS
  <2> HIDE DEF w, v, S
  <2>4. w \in Seq(S)
    BY <2>2, <2>3
  <2>5. DOMAIN w = 1..size
    BY <2>2
  <2> QED
    BY <2>3, <2>4, <2>5
<1>2. \A i \in 1..size : w[i] = chain[height - 1 - size + i][field]
  BY DEF Window
<1> HIDE DEF w, v, S
<1>3. /\ p \in Seq(S) /\ Len(p) = size + 1
      /\ \A i \in 1..size : p[i] = w[i]
      /\ p[size + 1] = v
  BY <1>1
<1>4. \A i \in 1..(size + 1) : p[i] = chain[height - 1 - size + i][field]
  BY <1>2, <1>3, SMTT(30) DEF v
<1> HIDE DEF p
<1>5. CASE size + 1 > count
  <2>1. Slide(w, v, count) = Tail(p)
    BY <1>3, <1>5 DEF Slide, p
  <2>2. /\ Tail(p) \in Seq(S) /\ Len(Tail(p)) = size
        /\ \A i \in 1..size : Tail(p)[i] = p[i + 1]
    BY <1>3
  <2>3. \A i \in 1..size : Tail(p)[i] = chain[height + 1 - 1 - size + i][field]
    <3> TAKE i \in 1..size
    <3>1. i + 1 \in 1..(size + 1) /\ height - 1 - size + (i + 1) = height + 1 - 1 - size + i
      OBVIOUS
    <3> QED
      BY <1>4, <2>2, <3>1
  <2>4. Tail(p) = [i \in 1..size |-> chain[height + 1 - 1 - size + i][field]]
    <3> DEFINE t == Tail(p)
    <3>1. t \in Seq(S) /\ Len(t) = size
      BY <2>2
    <3> HIDE DEF t
    <3>2. t \in [1..size -> S]
      BY <3>1
    <3> QED
      BY <2>3, <3>2, Zenon DEF t
  <2>5. Tail(p) = Window(field, size, height + 1)
    BY <2>4 DEF Window
  <2> QED
    BY <1>5, <2>1, <2>5 DEF w, v
<1>6. CASE ~(size + 1 > count)
  <2>1. Slide(w, v, count) = p
    BY <1>3, <1>6 DEF Slide, p
  <2>2. \A i \in 1..(size + 1) : p[i] = chain[height + 1 - 1 - (size + 1) + i][field]
    <3> TAKE i \in 1..(size + 1)
    <3>1. height - 1 - size + i = height + 1 - 1 - (size + 1) + i
      OBVIOUS
    <3> QED
      BY <1>4, <3>1
  <2>3. p = [i \in 1..(size + 1) |-> chain[height + 1 - 1 - (size + 1) + i][field]]
    BY <1>3, <2>2
  <2>4. Window(field, size + 1, height + 1)
          = [i \in 1..(size + 1) |-> chain[height + 1 - 1 - (size + 1) + i][field]]
    BY DEF Window
  <2> QED
    BY <1>6, <2>1, <2>3, <2>4 DEF w, v
<1> QED
  BY <1>5, <1>6

Latest(height, last) ==
  /\ last \in 0..(height - 1) /\ IsRetargetHeight(last)
  /\ \A h \in 0..(height - 1) : IsRetargetHeight(h) => h <= last

(* The retarget height of the map is the latest one below the height.      *)
LEMMA RetargetIsLatest ==
  ASSUME Retarget, NEW height \in Nat \ {0}
  PROVE  Latest(height, RetargetHeight(height))
<1> DEFINE m == RetargetingInterval
<1>1. m \in Nat \ {0}
  BY ChainAssumption
<1>2. PICK q \in Nat, r \in 0..(m - 1) : height % m = r /\ height = m * q + r
  BY <1>1, DivisionFacts, Zenon
<1>3. PICK k \in Nat, d \in 1..m : height = m * k + d /\ RetargetHeight(height) = m * k
  <2>1. CASE r # 0
    <3>1. RetargetHeight(height) = height - r
      BY <1>2, <2>1 DEF RetargetHeight, IsRetargetHeight
    <3>2. RetargetHeight(height) = m * q /\ r \in 1..m
      BY <1>1, <1>2, <2>1, <3>1
    <3> QED
      BY <1>2, <3>2
  <2>2. CASE r = 0
    <3>1. RetargetHeight(height) = height - m
      BY <1>2, <2>2 DEF RetargetHeight, IsRetargetHeight
    <3>2. q # 0
      BY <1>1, <1>2, <2>2
    <3>3. q - 1 \in Nat /\ m * (q - 1) = m * q - m
      BY <1>1, <3>2
    <3>4. height = m * (q - 1) + m /\ RetargetHeight(height) = m * (q - 1)
      BY <1>1, <1>2, <2>2, <3>1, <3>3
    <3>5. m \in 1..m
      BY <1>1
    <3> QED
      BY <3>3, <3>4, <3>5
  <2> QED
    BY <2>1, <2>2
<1>4. m * k \in 0..(height - 1)
  BY <1>1, <1>3
<1>5. IsRetargetHeight(m * k)
  <2>1. (m * k + 0) % m = 0
    BY <1>1, RemainderIsUnique
  <2>2. m * k + 0 = m * k
    BY <1>1
  <2> QED
    BY <2>1, <2>2 DEF IsRetargetHeight
<1>6. ASSUME NEW h \in 0..(height - 1), IsRetargetHeight(h), ~(h <= m * k)
      PROVE  FALSE
  <2>1. PICK s \in Nat : s = h - m * k
    BY <1>4, <1>6
  <2>2. s \in 1..(m - 1) /\ h = m * k + s
    BY <1>1, <1>3, <1>4, <1>6, <2>1
  <2>3. h % m = s
    BY <1>1, <2>2, RemainderIsUnique
  <2> QED
    BY <1>6, <2>2, <2>3 DEF IsRetargetHeight
<1> QED
  BY <1>3, <1>4, <1>5, <1>6 DEF Latest

LEMMA LatestIsUnique ==
  ASSUME NEW height \in Nat, NEW a, NEW b, Latest(height, a), Latest(height, b)
  PROVE  a = b
BY DEF Latest

LEMMA LatestIsMax ==
  ASSUME NEW height \in Nat, NEW last, Latest(height, last)
  PROVE  Max({h \in 0..(height - 1) : IsRetargetHeight(h)}) = last
BY DEF Latest, Max

(* Leaving a retarget height makes it the latest one.                      *)
LEMMA RetargetStep ==
  ASSUME Retarget, NEW height \in Nat \ {0}
  PROVE  RetargetHeight(height + 1)
           = IF IsRetargetHeight(height) THEN height ELSE RetargetHeight(height)
<1> DEFINE next == IF IsRetargetHeight(height) THEN height ELSE RetargetHeight(height)
<1>1. Latest(height, RetargetHeight(height))
  BY RetargetIsLatest
<1>2. Latest(height + 1, RetargetHeight(height + 1))
  <2>1. height + 1 \in Nat \ {0}
    OBVIOUS
  <2> QED
    BY <2>1, RetargetIsLatest
<1>3. Latest(height + 1, next)
  BY <1>1 DEF Latest
<1> QED
  BY <1>2, <1>3, LatestIsUnique

-----------------------------------------------------------------------------
LEMMA CountFacts ==
  ASSUME NEW height \in Nat \ {0}
  PROVE  /\ VersionCount(height) \in 0..height
         /\ TimestampCount(height) \in 0..height
         /\ BitsCount(height) \in 1..height
         /\ Testnet /\ Retarget /\ ~IsRetargetHeight(height) =>
              BitsCount(height) = Lesser(height, RetargetingInterval)
<1>1. VersionCount(height) \in 0..height
  BY ChainAssumption DEF VersionCount, Lesser
<1>2. TimestampCount(height) \in 0..height
  BY ChainAssumption DEF TimestampCount, Lesser
<1>3. CASE Testnet /\ Retarget /\ ~IsRetargetHeight(height)
  <2>1. BitsCount(height) = Lesser(height, RetargetingInterval)
    BY <1>3 DEF BitsCount
  <2> QED
    BY <1>1, <1>2, <2>1, ChainAssumption DEF Lesser
<1>4. CASE ~(Testnet /\ Retarget /\ ~IsRetargetHeight(height))
  <2>1. BitsCount(height) = IF Currency = "BCH" THEN Lesser(height, ChainStateTimestampCount)
                                               ELSE 1
    BY <1>4 DEF BitsCount
  <2> QED
    BY <1>1, <1>2, <1>4, <2>1, ChainAssumption DEF Lesser
<1> QED
  BY <1>3, <1>4

StateOfPool == kind = "pool" /\ data = PopulatePool

(* A populated state satisfies the invariant.                              *)
LEMMA PopulatedInv == Grounded /\ StateOfPool => IInv
<1> SUFFICES ASSUME Grounded, StateOfPool
             PROVE  IInv
  OBVIOUS
<1>1. PICK n \in Nat : DOMAIN chain = 0..n
  BY DEF Grounded
<1>2. Top = n
  BY <1>1, TopFact, Zenon
<1> DEFINE h == n + 1
<1>3. /\ data.height = h /\ h \in Nat \ {0}
      /\ data.version.ordered = Window("version", VersionCount(h), h)
      /\ data.timestamp.ordered = Window("time", TimestampCount(h), h)
      /\ data.bits.ordered = Window("bits", BitsCount(h), h)
      /\ data.timestamp.retarget = IF RetargetHeight(h) = Unrequested THEN 0
                                   ELSE chain[RetargetHeight(h)].time
  <2>1. h \in Nat \ {0}
    OBVIOUS
  <2>2. data = Populate(h, NullHash, WorkLimit, SignalVersion, MaxTime)
    BY <1>2, Zenon DEF StateOfPool, PopulatePool
  <2> QED
    BY <2>1, <2>2, ZenonT(30) DEF Populate, GetMap
<1> HIDE DEF h
<1>4. WindowsAreExact
  BY <1>3 DEF WindowsAreExact
<1>5. BitsWindowReachesBack
  <2>1. BitsCount(h) \in 1..h
    BY <1>3, CountFacts
  <2>2. Len(data.bits.ordered) = BitsCount(h)
    BY <1>3, <2>1 DEF Window
  <2>3. ASSUME Testnet, Retarget, ~IsRetargetHeight(h)
        PROVE  \E height \in (h - BitsCount(h))..(h - 1) : IsRetargetHeight(height)
    <3>1. BitsCount(h) = Lesser(h, RetargetingInterval)
      BY <1>3, <2>3, CountFacts
    <3>2. CASE h < RetargetingInterval
      <4>1. 0 \in (h - BitsCount(h))..(h - 1)
        BY <1>3, <3>1, <3>2 DEF Lesser
      <4>2. IsRetargetHeight(0)
        BY ChainAssumption DEF IsRetargetHeight
      <4> QED
        BY <4>1, <4>2
    <3>3. CASE ~(h < RetargetingInterval)
      <4>1. BitsCount(h) = RetargetingInterval
        BY <3>1, <3>3 DEF Lesser
      <4>2. h - BitsCount(h) \in Nat /\ h - 1 \in Nat
        BY <1>3, <2>1
      <4>3. (h - 1) - (h - BitsCount(h)) + 1 >= RetargetingInterval
        BY <1>3, <4>1, ChainAssumption
      <4> QED
        BY <4>2, <4>3, RetargetWithin, Zenon
    <3> QED
      BY <3>2, <3>3
  <2> QED
    BY <1>3, <2>1, <2>2, <2>3 DEF BitsWindowReachesBack
<1>6. Retarget => data.timestamp.retarget = chain[RetargetHeight(data.height)].time
  <2> SUFFICES ASSUME Retarget
               PROVE  data.timestamp.retarget = chain[RetargetHeight(h)].time
    BY <1>3
  <2>1. RetargetHeight(h) # Unrequested
    BY <1>3, RetargetIsLatest DEF Latest, Unrequested
  <2> QED
    BY <1>3, <2>1
<1>7. kind = "pool" /\ data.height = Top + 1 /\ data.height \in Nat \ {0}
  BY <1>2, <1>3, Zenon DEF StateOfPool, h
<1> QED
  BY <1>4, <1>5, <1>6, <1>7 DEF IInv

(* What the invariant says of a pool state, for any record of its shape.   *)
FitsPool(pool) ==
  LET h == Top + 1
      size == Len(pool.bits.ordered)
  IN  /\ pool.height = h
      /\ pool.version.ordered = Window("version", VersionCount(h), h)
      /\ pool.timestamp.ordered = Window("time", TimestampCount(h), h)
      /\ size \in 1..h
      /\ pool.bits.ordered = Window("bits", size, h)
      /\ Testnet /\ Retarget /\ ~IsRetargetHeight(h) =>
           \E height \in (h - size)..(h - 1) : IsRetargetHeight(height)
      /\ Retarget => pool.timestamp.retarget = chain[RetargetHeight(h)].time

LEMMA PoolFits ==
  ASSUME IInv, kind = "pool"
  PROVE  FitsPool(data)
BY DEF IInv, WindowsAreExact, BitsWindowReachesBack, FitsPool

(* to_pool on a block state: each window slides to the next height.        *)
LEMMA ToPoolFits ==
  ASSUME IInv, kind = "block"
  PROVE  FitsPool(ToPool(data))
<1> DEFINE top == Top
           old == Len(data.bits.ordered)
           grown == IF old + 1 > BitsCount(top + 1) THEN old ELSE old + 1
<1>0. PICK promoted : promoted = ToPool(data)
  OBVIOUS
<1>1. /\ top \in Nat \ {0} /\ top + 1 \in Nat \ {0} /\ data.height = top
      /\ data.bits.self = chain[top].bits
      /\ data.version.self = chain[top].version
      /\ data.timestamp.self = chain[top].time
  BY SMTT(30) DEF IInv
<1>2. /\ promoted.height = top + 1
      /\ promoted.version.ordered = Slide(data.version.ordered, data.version.self,
                                      VersionCount(top + 1))
      /\ promoted.timestamp.ordered = Slide(data.timestamp.ordered, data.timestamp.self,
                                        TimestampCount(top + 1))
      /\ promoted.bits.ordered = Slide(data.bits.ordered, data.bits.self, BitsCount(top + 1))
      /\ promoted.timestamp.retarget = PromotedRetarget(data)
  BY <1>0, <1>1, Zenon DEF ToPool
<1>3. /\ data.version.ordered = Window("version", VersionCount(top), top)
      /\ data.timestamp.ordered = Window("time", TimestampCount(top), top)
      /\ old \in 1..top
      /\ data.bits.ordered = Window("bits", old, top)
  BY <1>1, Zenon DEF IInv, WindowsAreExact, BitsWindowReachesBack
<1>4. promoted.version.ordered = Window("version", VersionCount(top + 1), top + 1)
  <2>1. VersionCount(top) \in 0..top /\ VersionCount(top + 1) \in Nat
    BY <1>1, CountFacts
  <2>2. VersionCount(top + 1)
          = IF VersionCount(top) + 1 > VersionCount(top + 1) THEN VersionCount(top)
                                                         ELSE VersionCount(top) + 1
    BY <1>1, ChainAssumption DEF VersionCount, Lesser
  <2>3. promoted.version.ordered
          = Slide(Window("version", VersionCount(top), top), chain[top]["version"], VersionCount(top + 1))
    BY <1>1, <1>2, <1>3
  <2> QED
    BY <1>1, <2>1, <2>2, <2>3, SlideWindow
<1>5. promoted.timestamp.ordered = Window("time", TimestampCount(top + 1), top + 1)
  <2>1. TimestampCount(top) \in 0..top /\ TimestampCount(top + 1) \in Nat
    BY <1>1, CountFacts
  <2>2. TimestampCount(top + 1)
          = IF TimestampCount(top) + 1 > TimestampCount(top + 1) THEN TimestampCount(top)
                                                             ELSE TimestampCount(top) + 1
    BY <1>1, ChainAssumption, SMTT(30) DEF TimestampCount, Lesser
  <2>3. promoted.timestamp.ordered
          = Slide(Window("time", TimestampCount(top), top), chain[top]["time"], TimestampCount(top + 1))
    BY <1>1, <1>2, <1>3
  <2> QED
    BY <1>1, <2>1, <2>2, <2>3, SlideWindow
<1>6. BitsCount(top + 1) \in 1..(top + 1)
  BY <1>1, CountFacts
<1>7. /\ promoted.bits.ordered = Window("bits", grown, top + 1)
      /\ grown \in 1..(top + 1) /\ Len(promoted.bits.ordered) = grown
  <2>1. promoted.bits.ordered = Slide(Window("bits", old, top), chain[top]["bits"], BitsCount(top + 1))
    BY <1>1, <1>2, <1>3
  <2>2. old \in 0..top /\ BitsCount(top + 1) \in Nat
    BY <1>1, <1>3, <1>6
  <2>3. promoted.bits.ordered = Window("bits", grown, top + 1)
    BY <1>1, <2>1, <2>2, SlideWindow
  <2>4. grown \in 1..(top + 1)
    BY <1>1, <1>3, <1>6
  <2> HIDE DEF grown
  <2>5. Len(Window("bits", grown, top + 1)) = grown
    BY <2>4 DEF Window
  <2> QED
    BY <2>3, <2>4, <2>5
<1>8. ASSUME Testnet, Retarget, ~IsRetargetHeight(top + 1)
      PROVE  \E height \in (top + 1 - grown)..top : IsRetargetHeight(height)
  <2>1. BitsCount(top + 1) = Lesser(top + 1, RetargetingInterval)
    BY <1>1, <1>8, CountFacts
  <2>2. CASE old + 1 > BitsCount(top + 1)
    <3>1. grown = old /\ old >= RetargetingInterval
      BY <1>1, <1>3, <2>1, <2>2, ChainAssumption DEF Lesser
    <3>2. top + 1 - old \in Nat /\ top - (top + 1 - old) + 1 >= RetargetingInterval
      BY <1>1, <1>3, <3>1, ChainAssumption
    <3> QED
      BY <1>1, <3>1, <3>2, RetargetWithin, Zenon
  <2>3. CASE ~(old + 1 > BitsCount(top + 1))
    <3>1. grown = old + 1
      BY <2>3
    <3>2. CASE IsRetargetHeight(top)
      BY <1>1, <1>3, <3>1, <3>2
    <3>3. CASE ~IsRetargetHeight(top)
      <4>1. PICK height \in (top - old)..(top - 1) : IsRetargetHeight(height)
        BY <1>1, <1>8, <3>3 DEF IInv, BitsWindowReachesBack
      <4>2. height \in (top + 1 - grown)..top
        BY <1>1, <1>3, <3>1
      <4> QED
        BY <4>1, <4>2
    <3> QED
      BY <3>2, <3>3
  <2> QED
    BY <2>2, <2>3
<1>9. Retarget => promoted.timestamp.retarget = chain[RetargetHeight(top + 1)].time
  <2> SUFFICES ASSUME Retarget
               PROVE  promoted.timestamp.retarget = chain[RetargetHeight(top + 1)].time
    OBVIOUS
  <2>1. data.timestamp.retarget = chain[RetargetHeight(top)].time
    BY <1>1 DEF IInv
  <2>2. CASE IsRetargetHeight(top)
    BY <1>1, <1>2, <2>2, RetargetStep DEF PromotedRetarget
  <2>3. CASE ~IsRetargetHeight(top)
    BY <1>1, <1>2, <2>1, <2>3, RetargetStep DEF PromotedRetarget
  <2> QED
    BY <2>2, <2>3
<1>10. top + 1 - 1 = top
  BY <1>1
<1> HIDE DEF grown
<1>11. Testnet /\ Retarget /\ ~IsRetargetHeight(top + 1) =>
         \E height \in (top + 1 - Len(promoted.bits.ordered))..(top + 1 - 1) : IsRetargetHeight(height)
  BY <1>7, <1>8, <1>10
<1>12. Len(promoted.bits.ordered) \in 1..(top + 1)
       /\ promoted.bits.ordered = Window("bits", Len(promoted.bits.ordered), top + 1)
  BY <1>7
<1>13. FitsPool(promoted)
  <2>1. promoted.height = Top + 1
    BY <1>2
  <2>2. promoted.version.ordered = Window("version", VersionCount(Top + 1), Top + 1)
    BY <1>4
  <2>3. promoted.timestamp.ordered = Window("time", TimestampCount(Top + 1), Top + 1)
    BY <1>5
  <2>4. Len(promoted.bits.ordered) \in 1..(Top + 1)
    BY <1>12
  <2>5. promoted.bits.ordered = Window("bits", Len(promoted.bits.ordered), Top + 1)
    BY <1>12
  <2>6. Testnet /\ Retarget /\ ~IsRetargetHeight(Top + 1) =>
          \E height \in (Top + 1 - Len(promoted.bits.ordered))..(Top + 1 - 1) :
             IsRetargetHeight(height)
    BY <1>11
  <2>7. Retarget => promoted.timestamp.retarget = chain[RetargetHeight(Top + 1)].time
    BY <1>9
  <2> QED
    BY <1>1, <2>1, <2>2, <2>3, <2>4, <2>5, <2>6, <2>7 DEF FitsPool
<1> QED
  BY <1>0, <1>13

(* A block appended to the chain leaves the windows below it alone.        *)
LEMMA ExtendFacts ==
  ASSUME NEW n \in Nat, DOMAIN chain = 0..n, NEW header, Extend(header)
  PROVE  /\ DOMAIN chain' = 0..(n + 1) /\ Top' = n + 1
         /\ chain'[n + 1] = header
         /\ \A h \in 0..n : chain'[h] = chain[h]
         /\ \A field : \A count \in 0..(n + 1) :
               Window(field, count, n + 1)' = Window(field, count, n + 1)
<1>1. Top = n
  BY TopFact
<1>2. chain' = [h \in 0..(n + 1) |-> IF h <= n THEN chain[h] ELSE header]
  BY <1>1 DEF Extend
<1>3. DOMAIN chain' = 0..(n + 1) /\ chain'[n + 1] = header /\ \A h \in 0..n : chain'[h] = chain[h]
  BY <1>2
<1>4. Top' = n + 1
  BY <1>3 DEF Top, Max
<1>5. ASSUME NEW field, NEW count \in 0..(n + 1)
      PROVE  Window(field, count, n + 1)' = Window(field, count, n + 1)
  <2>1. \A i \in 1..count : n + 1 - 1 - count + i \in 0..n
    BY SMTT(30)
  <2> QED
    BY <1>3, <2>1, SMTT(30) DEF Window
<1> QED
  BY <1>3, <1>4, <1>5

(* to_block on a pool state that fits the chain below the block.           *)
LEMMA ToBlockInv ==
  ASSUME Grounded, NEW pool, FitsPool(pool), NEW header,
         Extend(header), kind' = "block", data' = ToBlock(pool, header)
  PROVE  IInv'
<1>1. PICK n \in Nat : DOMAIN chain = 0..n
  BY DEF Grounded
<1>2. Top = n
  BY <1>1, TopFact, Zenon
<1> DEFINE h == n + 1
<1>3. /\ DOMAIN chain' = 0..h /\ Top' = h /\ chain'[h] = header
      /\ \A i \in 0..n : chain'[i] = chain[i]
      /\ \A field : \A count \in 0..h : Window(field, count, h)' = Window(field, count, h)
  BY <1>1, ExtendFacts, Zenon
<1>4. /\ data'.height = pool.height
      /\ data'.version.ordered = pool.version.ordered
      /\ data'.timestamp.ordered = pool.timestamp.ordered
      /\ data'.bits.ordered = pool.bits.ordered
      /\ data'.timestamp.retarget = pool.timestamp.retarget
      /\ data'.bits.self = header.bits
      /\ data'.version.self = header.version
      /\ data'.timestamp.self = header.time
  BY DEF ToBlock
<1>5. h \in Nat \ {0} /\ Top + 1 = h
  BY <1>2, SMTT(30)
<1> HIDE DEF h
<1>6. /\ pool.height = h
      /\ pool.version.ordered = Window("version", VersionCount(h), h)
      /\ pool.timestamp.ordered = Window("time", TimestampCount(h), h)
      /\ Len(pool.bits.ordered) \in 1..h
      /\ pool.bits.ordered = Window("bits", Len(pool.bits.ordered), h)
      /\ Testnet /\ Retarget /\ ~IsRetargetHeight(h) =>
           \E height \in (h - Len(pool.bits.ordered))..(h - 1) : IsRetargetHeight(height)
      /\ Retarget => pool.timestamp.retarget = chain[RetargetHeight(h)].time
  BY <1>5, Zenon DEF FitsPool
<1>7. WindowsAreExact'
  <2>1. VersionCount(h) \in 0..h /\ TimestampCount(h) \in 0..h
    BY <1>5, CountFacts, Zenon
  <2>2. Window("version", VersionCount(h), h)' = pool.version.ordered
    BY <1>3, <1>6, <2>1, Zenon
  <2>3. Window("time", TimestampCount(h), h)' = pool.timestamp.ordered
    BY <1>3, <1>6, <2>1, Zenon
  <2>4. data'.height = h
    BY <1>4, <1>6, Zenon
  <2>5. data'.version.ordered = Window("version", VersionCount(data.height), data.height)'
    BY <1>4, <2>2, <2>4, Zenon DEF Window
  <2>6. data'.timestamp.ordered = Window("time", TimestampCount(data.height), data.height)'
    BY <1>4, <2>3, <2>4 DEF Window
  <2> QED
    BY <2>5, <2>6 DEF WindowsAreExact
<1>8. BitsWindowReachesBack'
  <2> DEFINE size == Len(pool.bits.ordered)
  <2>1. size \in 1..h
    BY <1>6, Zenon
  <2>2. Window("bits", size, h)' = Window("bits", size, h)
    <3> HIDE DEF size
    <3>1. size \in 0..h
      BY <1>5, <2>1, SMTT(30)
    <3> QED
      BY <1>3, <3>1
  <2>3. data'.height = h /\ Len(data'.bits.ordered) = size
    BY <1>4, <1>6, Zenon
  <2>4. data'.bits.ordered = Window("bits", size, h)'
    BY <1>4, <1>6, <2>2, Zenon
  <2>5. data'.bits.ordered = Window("bits", Len(data.bits.ordered), data.height)'
    BY <2>3, <2>4, Zenon DEF Window
  <2>6. Testnet /\ Retarget /\ ~IsRetargetHeight(data'.height) =>
          \E height \in (data'.height - Len(data'.bits.ordered))..(data'.height - 1) :
            IsRetargetHeight(height)
    BY <1>6, <2>3, Zenon
  <2> QED
    BY <2>1, <2>3, <2>5, <2>6, Zenon DEF BitsWindowReachesBack
<1>9. Retarget => data'.timestamp.retarget = chain'[RetargetHeight(h)].time
  <2> SUFFICES ASSUME Retarget
               PROVE  data'.timestamp.retarget = chain'[RetargetHeight(h)].time
    OBVIOUS
  <2>1. RetargetHeight(h) \in 0..n
    BY <1>5, RetargetIsLatest DEF Latest, h
  <2> QED
    BY <1>3, <1>4, <1>6, <2>1, Zenon
<1>10. Grounded'
  BY <1>3, <1>5, Zenon DEF Grounded
<1> QED
  BY <1>3, <1>4, <1>5, <1>6, <1>7, <1>8, <1>9, <1>10 DEF IInv

LEMMA ToPoolInv ==
  ASSUME IInv, PromoteToPool
  PROVE  IInv'
<1>1. FitsPool(data') /\ chain' = chain /\ kind' = "pool"
  BY ToPoolFits, Zenon DEF PromoteToPool
<1>2. Top' = Top /\ Top + 1 \in Nat \ {0} /\ Grounded'
  BY <1>1, SMTT(30) DEF Top, IInv, Grounded, PromoteToPool
<1>3. WindowsAreExact'
  BY <1>1, <1>2, Zenon DEF WindowsAreExact, FitsPool, Window
<1>4. BitsWindowReachesBack'
  BY <1>1, <1>2 DEF BitsWindowReachesBack, FitsPool, Window
<1> QED
  BY <1>1, <1>2, <1>3, <1>4 DEF IInv, FitsPool

LEMMA RepopulateInv ==
  ASSUME IInv, NEW height \in 0..MaxHeight, Repopulate(height)
  PROVE  IInv'
<1>1. HasTop' /\ StateOfPool'
  <2>1. DOMAIN chain' = 0..height
    BY DEF Repopulate
  <2> QED
    BY <2>1 DEF Repopulate, StateOfPool, HasTop
<1> QED
  BY <1>1, GroundedFact, PopulatedInv, PTL

(* Population and every promotion keep the invariant.                      *)
LEMMA NextInv ==
  ASSUME IInv, [Next]_vars
  PROVE  IInv'
<1>1. CASE \E height \in 0..MaxHeight : Repopulate(height)
  BY <1>1, RepopulateInv
<1>2. CASE kind = "pool" /\ \E header \in Candidates(data) : PromoteToBlock(header)
  <2>1. PICK header : PromoteToBlock(header)
    BY <1>2, Zenon
  <2>2. FitsPool(data) /\ Grounded
    BY <1>2, PoolFits DEF IInv
  <2> QED
    BY <2>1, <2>2, ToBlockInv DEF PromoteToBlock
<1>3. CASE PromoteToPool
  BY <1>3, ToPoolInv
<1>4. CASE kind = "block" /\ \E header \in Candidates(ToPool(data)) : PromoteToHeader(header)
  <2>1. PICK header : PromoteToHeader(header)
    BY <1>4, Zenon
  <2>2. FitsPool(ToPool(data)) /\ Grounded
    BY <1>4, ToPoolFits, Zenon DEF IInv
  <2> QED
    BY <2>1, <2>2, ToBlockInv DEF PromoteToHeader, ToHeader
<1>5. CASE UNCHANGED vars
  <2>1. chain' = chain /\ kind' = kind /\ data' = data
    BY <1>5, Zenon DEF vars
  <2>2. Top' = Top /\ Grounded'
    BY <2>1 DEF Top, IInv, Grounded
  <2>3. WindowsAreExact'
    BY <2>1, Zenon DEF IInv, WindowsAreExact, Window
  <2>4. BitsWindowReachesBack'
    BY <2>1, Zenon DEF IInv, BitsWindowReachesBack, Window
  <2> QED
    BY <2>1, <2>2, <2>3, <2>4 DEF IInv
<1> QED
  BY <1>1, <1>2, <1>3, <1>4, <1>5 DEF Next

LEMMA InitInv == Init => IInv
<1> SUFFICES ASSUME Init
             PROVE  IInv
  OBVIOUS
<1>1. DOMAIN chain = 0..0
  BY DEF Init
<1>2. HasTop /\ StateOfPool
  BY <1>1 DEF Init, HasTop, StateOfPool
<1> QED
  BY <1>2, GroundedFact, PopulatedInv

-----------------------------------------------------------------------------
(* Population and promotion (get_map, to_pool, to_block, to_header) keep   *)
(* the inductive invariant on every chain, for all intervals and samples.  *)
THEOREM Invariance == Spec => []IInv
<1> QED
  BY InitInv, NextInv, PTL DEF Spec

(* A promoted chain_state holds exactly the versions and times that        *)
(* get_map would request at its height.                                    *)
THEOREM ExactWindows == Spec => []WindowsAreExact
<1>1. IInv => WindowsAreExact
  BY DEF IInv
<1> QED
  BY <1>1, Invariance, PTL

(* The bits window is contiguous and long enough, although to_pool drops   *)
(* at most one value per step and get_map shrinks at retarget heights.     *)
THEOREM BitsReachBack == Spec => []BitsWindowReachesBack
<1>1. IInv => BitsWindowReachesBack
  BY DEF IInv
<1> QED
  BY <1>1, Invariance, PTL

(* The BITCOIN_ASSERT(false) of easy_work_required is unreachable.         *)
THEOREM EasySearch == Spec => []EasySearchEnds
<1>1. IInv => EasySearchEnds
  <2> SUFFICES ASSUME IInv, Testnet, Retarget, ~IsRetargetHeight(data.height)
               PROVE  EasyStops(data) # {}
    BY Zenon DEF EasySearchEnds
  <2> DEFINE bits == data.bits.ordered
             size == Len(bits)
  <2>1. /\ size \in 1..data.height /\ data.height \in Nat
        /\ bits = Window("bits", size, data.height)
    BY Zenon DEF IInv, BitsWindowReachesBack
  <2>2. PICK height \in (data.height - size)..(data.height - 1) : IsRetargetHeight(height)
    BY DEF IInv, BitsWindowReachesBack
  <2>3. DOMAIN bits = 1..size
    BY <2>1 DEF Window
  <2> HIDE DEF size
  <2>4. PICK i \in 1..size : data.height - 1 - size + i = height
    <3>1. height - (data.height - 1 - size) \in 1..size
      BY <2>1, <2>2
    <3>2. data.height - 1 - size + (height - (data.height - 1 - size)) = height
      BY <2>1, <2>2
    <3> QED
      BY <3>1, <3>2
  <2>5. i \in EasyStops(data)
    BY <2>2, <2>3, <2>4 DEF EasyStops, size
  <2> QED
    BY <2>5
<1> QED
  BY <1>1, Invariance, PTL

(* The retarget time carried by promotion is that of the latest retarget   *)
(* block below the height.                                                 *)
THEOREM LatestRetarget == Spec => []RetargetTimeIsLatest
<1>1. IInv => RetargetTimeIsLatest
  <2> SUFFICES ASSUME IInv, Retarget
               PROVE  data.timestamp.retarget
                        = chain[Max({h \in 0..(data.height - 1) : IsRetargetHeight(h)})].time
    BY DEF RetargetTimeIsLatest
  <2>1. data.height \in Nat \ {0}
        /\ data.timestamp.retarget = chain[RetargetHeight(data.height)].time
    BY DEF IInv
  <2>2. Latest(data.height, RetargetHeight(data.height))
    BY <2>1, RetargetIsLatest
  <2>3. Max({h \in 0..(data.height - 1) : IsRetargetHeight(h)}) = RetargetHeight(data.height)
    BY <2>1, <2>2, LatestIsMax
  <2> QED
    BY <2>1, <2>3
<1> QED
  BY <1>1, Invariance, PTL

-----------------------------------------------------------------------------
(* The network of the configured forks.                                    *)
LEMMA NetworkFact == Network \in Networks /\ (Network = "regtest" <=> ~Testnet /\ ~Retarget)
BY DEF Network, Networks

(* The three checkpoints of a network have heights.                        *)
LEMMA CheckpointsAreHeights ==
  ASSUME NEW network \in Networks
  PROVE  /\ CollisionsCheckpoint[network] \in Nat
         /\ Bit0Checkpoint[network] \in Nat
         /\ Bit1Checkpoint[network] \in Nat
BY ChainAssumption

(* The hash of a requested height below a state.                           *)
LEMMA RequestedHash ==
  ASSUME NEW n \in Nat, NEW height \in Nat, NEW checkpoint \in Nat, DOMAIN chain = 0..n,
         checkpoint < height <=> checkpoint <= n
  PROVE  HashAt(Above(height, checkpoint)) = CarriedHash(checkpoint)
BY DEF HashAt, Above, CarriedHash, Unrequested

(* A block that is appended changes the hash of its own height only.       *)
LEMMA CarriedStep ==
  ASSUME NEW n \in Nat, DOMAIN chain = 0..n, NEW header, Extend(header),
         NEW checkpoint \in Nat
  PROVE  CarriedHash(checkpoint)'
           = IF n + 1 = checkpoint THEN Hash(n + 1, header) ELSE CarriedHash(checkpoint)
<1>1. /\ DOMAIN chain' = 0..(n + 1) /\ chain'[n + 1] = header
      /\ \A h \in 0..n : chain'[h] = chain[h]
  BY ExtendFacts, Zenon
<1> QED
  BY <1>1, SMTT(20) DEF CarriedHash, Hash

(* What StandInv says of a pool state, for any record of its shape.        *)
StandsPool(pool) ==
  /\ pool.collisions = CarriedHash(CollisionsCheckpoint[Network])
  /\ pool.bit0 = CarriedHash(Bit0Checkpoint[Network])
  /\ Currency # "BCH" =>
       IF Network = "regtest" THEN pool.bit1 # CheckpointHash(Bit1Checkpoint[Network])
       ELSE pool.bit1 = CarriedHash(Bit1Checkpoint[Network])
  /\ Currency = "BCH" =>
       Len(pool.bits.ordered) >= Lesser(pool.height, ChainStateTimestampCount)

(* A populated pool state stands where its chain does.                     *)
LEMMA PopulatedStand == Grounded /\ StateOfPool => StandInv
<1> SUFFICES ASSUME Grounded, StateOfPool
             PROVE  StandInv
  OBVIOUS
<1>1. PICK n \in Nat : DOMAIN chain = 0..n
  BY DEF Grounded
<1>2. Top = n
  BY <1>1, TopFact, Zenon
<1>3. PICK h \in Nat \ {0} : h = n + 1
  OBVIOUS
<1>4. /\ data.height = h /\ data.hash = NullHash
      /\ data.bits.self = WorkLimit /\ data.version.self = SignalVersion
      /\ data.timestamp.self = MaxTime
      /\ data.bits.ordered = Window("bits", BitsCount(h), h)
      /\ data.collisions = HashAt(CollisionHeight(h))
      /\ data.bit0 = HashAt(Bit0Height(h))
      /\ data.bit1 = HashAt(Bit1Height(h))
  <2>1. data = Populate(h, NullHash, WorkLimit, SignalVersion, MaxTime)
    BY <1>2, <1>3, Zenon DEF StateOfPool, PopulatePool
  <2> QED
    BY <2>1, ZenonT(30) DEF Populate, GetMap
<1>5. data.collisions = CarriedHash(CollisionsCheckpoint[Network])
  <2>1. PICK c \in Nat : c = CollisionsCheckpoint[Network]
    BY NetworkFact, CheckpointsAreHeights, Zenon
  <2>2. c < h <=> c <= n
    BY <1>3
  <2> QED
    BY <1>1, <1>4, <2>1, <2>2, RequestedHash DEF CollisionHeight
<1>6. data.bit0 = CarriedHash(Bit0Checkpoint[Network])
  <2>1. PICK c \in Nat : c = Bit0Checkpoint[Network]
    BY NetworkFact, CheckpointsAreHeights, Zenon
  <2>2. c < h <=> c <= n
    BY <1>3
  <2> QED
    BY <1>1, <1>4, <2>1, <2>2, RequestedHash DEF Bit0Height
<1>7. ASSUME Currency # "BCH"
      PROVE  IF Network = "regtest" THEN data.bit1 # CheckpointHash(Bit1Checkpoint[Network])
             ELSE data.bit1 = CarriedHash(Bit1Checkpoint[Network])
  <2>1. PICK network \in Networks : network = IF Testnet THEN "testnet" ELSE "mainnet"
    BY DEF Networks
  <2>2. PICK c \in Nat : c = Bit1Checkpoint[network]
    BY CheckpointsAreHeights, Zenon
  <2>3. c < h <=> c <= n
    BY <1>3
  <2>4. data.bit1 = CarriedHash(c)
    BY <1>1, <1>4, <1>7, <2>1, <2>2, <2>3, RequestedHash, SMTT(30) DEF Bit1Height
  <2>5. CASE Network # "regtest"
    BY <2>1, <2>2, <2>4, <2>5 DEF Network
  <2>6. CASE Network = "regtest"
    <3>1. c # 0 /\ Bit1Checkpoint[Network] = 0
      BY <2>1, <2>2, <2>6, NetworkFact, RegtestAssumption
    <3>2. CarriedHash(c) # CheckpointHash(0)
      BY <3>1 DEF CarriedHash, CheckpointHash, Hash, NullHash
    <3> QED
      BY <2>4, <2>6, <3>1, <3>2
  <2> QED
    BY <2>5, <2>6
<1>8. ASSUME Currency = "BCH"
      PROVE  Len(data.bits.ordered) >= Lesser(data.height, ChainStateTimestampCount)
  <2>1. BitsCount(h) \in 1..h
    BY CountFacts
  <2>2. Len(data.bits.ordered) = BitsCount(h)
    BY <1>4, <2>1 DEF Window
  <2>3. BitsCount(h) >= Lesser(h, ChainStateTimestampCount)
    BY <1>8, ChainAssumption, CashAssumption DEF BitsCount, Lesser
  <2> QED
    BY <1>4, <2>2, <2>3
<1> QED
  BY <1>4, <1>5, <1>6, <1>7, <1>8 DEF StandInv, StateOfPool

(* to_pool keeps the hashes, and enough bits.                              *)
LEMMA ToPoolStands ==
  ASSUME IInv, StandInv, kind = "block"
  PROVE  StandsPool(ToPool(data))
<1>1. PICK p : p = ToPool(data)
  OBVIOUS
<1>2. PICK h \in Nat \ {0} : h = data.height
  BY DEF IInv
<1>3. /\ p.collisions = data.collisions /\ p.bit0 = data.bit0 /\ p.bit1 = data.bit1
      /\ p.height = h + 1
      /\ p.bits.ordered = Slide(data.bits.ordered, data.bits.self, BitsCount(h + 1))
  BY <1>1, <1>2, Zenon DEF ToPool
<1>4. ASSUME Currency = "BCH"
      PROVE  Len(p.bits.ordered) >= Lesser(p.height, ChainStateTimestampCount)
  <2>1. PICK size \in 1..h : size = Len(data.bits.ordered)
    BY <1>2 DEF IInv, BitsWindowReachesBack
  <2>2. data.bits.ordered = Window("bits", size, h) /\ data.bits.self = chain[h].bits
    BY <1>2, <2>1 DEF IInv, BitsWindowReachesBack
  <2>3. size >= Lesser(h, ChainStateTimestampCount)
    BY <1>2, <1>4, <2>1 DEF StandInv
  <2>4. PICK count \in Nat : count = BitsCount(h + 1)
    <3>1. h + 1 \in Nat \ {0}
      OBVIOUS
    <3> QED
      BY <3>1, CountFacts
  <2>5. PICK grown \in Nat : grown = IF size + 1 > count THEN size ELSE size + 1
    OBVIOUS
  <2>6. p.bits.ordered = Window("bits", grown, h + 1)
    <3>1. size \in 0..h
      OBVIOUS
    <3> QED
      BY <1>3, <2>2, <2>4, <2>5, <3>1, SlideWindow, SMTT(30)
  <2>7. Len(p.bits.ordered) = grown
    BY <2>6 DEF Window
  <2>8. count >= Lesser(h + 1, ChainStateTimestampCount)
    BY <1>4, <2>4, ChainAssumption, CashAssumption DEF BitsCount, Lesser
  <2>9. grown >= Lesser(h + 1, ChainStateTimestampCount)
    BY <2>3, <2>5, <2>8, ChainAssumption DEF Lesser
  <2> QED
    BY <1>3, <2>7, <2>9
<1> QED
  BY <1>1, <1>3, <1>4, Zenon DEF StandsPool, StandInv

(* StandInv of a pool state, as StandsPool says it of its record.          *)
LEMMA PoolStands ==
  ASSUME StandInv
  PROVE  StandsPool(data)
BY DEF StandInv, StandsPool

(* to_block takes the hash of a checkpoint at its height.                  *)
LEMMA ToBlockStands ==
  ASSUME Grounded, NEW pool, FitsPool(pool), StandsPool(pool), NEW header,
         Extend(header), kind' = "block", data' = ToBlock(pool, header)
  PROVE  StandInv'
<1>1. PICK n \in Nat : DOMAIN chain = 0..n
  BY DEF Grounded
<1>2. Top = n /\ Top' = n + 1 /\ chain'[n + 1] = header
  BY <1>1, TopFact, ExtendFacts, Zenon
<1>3. pool.height = n + 1 /\ n + 1 # 0
  BY <1>2 DEF FitsPool
<1>4. PICK hash : hash = Hash(n + 1, header)
  OBVIOUS
<1>5. /\ data'.height = n + 1 /\ data'.hash = hash /\ data'.bits.ordered = pool.bits.ordered
      /\ data'.collisions = IF n + 1 = CollisionsCheckpoint[Network] THEN hash ELSE pool.collisions
      /\ data'.bit0 = IF n + 1 = Bit0Checkpoint[Network] THEN hash ELSE pool.bit0
      /\ data'.bit1 = IF Currency = "BCH" THEN pool.bit1
                      ELSE IF n + 1 = Bit1Checkpoint[Network] THEN hash ELSE pool.bit1
  <2>1. hash = Hash(pool.height, header)
    BY <1>3, <1>4, Zenon
  <2> QED
    BY <1>3, <2>1, ZenonT(30) DEF ToBlock
<1>6. data'.collisions = CarriedHash(CollisionsCheckpoint[Network])'
  <2>1. PICK c \in Nat : c = CollisionsCheckpoint[Network]
    BY NetworkFact, CheckpointsAreHeights, Zenon
  <2>2. CarriedHash(c)' = IF n + 1 = c THEN hash ELSE CarriedHash(c)
    BY <1>1, <1>4, CarriedStep, SMTT(20)
  <2> QED
    BY <1>5, <2>1, <2>2, ZenonT(30) DEF StandsPool, CarriedHash
<1>7. data'.bit0 = CarriedHash(Bit0Checkpoint[Network])'
  <2>1. PICK c \in Nat : c = Bit0Checkpoint[Network]
    BY NetworkFact, CheckpointsAreHeights, Zenon
  <2>2. CarriedHash(c)' = IF n + 1 = c THEN hash ELSE CarriedHash(c)
    BY <1>1, <1>4, CarriedStep, SMTT(20)
  <2> QED
    BY <1>5, <2>1, <2>2, ZenonT(30) DEF StandsPool, CarriedHash
<1>8. ASSUME Currency # "BCH", Network = "regtest"
      PROVE  data'.bit1 # CheckpointHash(Bit1Checkpoint[Network])
  <2>1. pool.bit1 # CheckpointHash(Bit1Checkpoint[Network])
    BY <1>8, Zenon DEF StandsPool
  <2>2. n + 1 # Bit1Checkpoint[Network]
    BY <1>3, <1>8, RegtestAssumption, SMTT(30)
  <2> QED
    BY <1>5, <1>8, <2>1, <2>2, Zenon
<1>9. ASSUME Currency # "BCH", Network # "regtest"
      PROVE  data'.bit1 = CarriedHash(Bit1Checkpoint[Network])'
  <2>1. PICK c \in Nat : c = Bit1Checkpoint[Network]
    BY NetworkFact, CheckpointsAreHeights, ZenonT(30)
  <2>2. CarriedHash(c)' = IF n + 1 = c THEN hash ELSE CarriedHash(c)
    BY <1>1, <1>4, CarriedStep, SMTT(20)
  <2> QED
    BY <1>5, <1>9, <2>1, <2>2, ZenonT(30) DEF StandsPool, CarriedHash
<1>10. Currency = "BCH" =>
         Len(data'.bits.ordered) >= Lesser(data'.height, ChainStateTimestampCount)
  <2>1. Currency = "BCH" =>
          Len(pool.bits.ordered) >= Lesser(pool.height, ChainStateTimestampCount)
    BY Zenon DEF StandsPool
  <2>2. data'.bits.ordered = pool.bits.ordered /\ data'.height = pool.height
    BY <1>3, <1>5, Zenon
  <2> QED
    BY <2>1, <2>2, Zenon
<1>11. data'.hash = Hash(Top', chain'[Top'])
  BY <1>2, <1>4, <1>5, Zenon
<1> QED
  BY <1>6, <1>7, <1>8, <1>9, <1>10, <1>11, Zenon DEF StandInv, Hash

PromotionInv == IInv /\ StandInv

(* Population and every promotion keep both invariants.                    *)
LEMMA NextStands ==
  ASSUME PromotionInv, [Next]_vars
  PROVE  PromotionInv'
<1>1. IInv /\ StandInv
  BY DEF PromotionInv
<1>2. IInv'
  BY <1>1, NextInv
<1>3. StandInv'
  <2>1. CASE \E height \in 0..MaxHeight : Repopulate(height)
    <3>1. Grounded' /\ StateOfPool'
      BY <1>2, <2>1, Zenon DEF IInv, Repopulate, StateOfPool
    <3> QED
      BY <3>1, PopulatedStand, PTL
  <2>2. CASE kind = "pool" /\ \E header \in Candidates(data) : PromoteToBlock(header)
    <3>1. PICK header : PromoteToBlock(header)
      BY <2>2, Zenon
    <3>2. FitsPool(data) /\ StandsPool(data) /\ Grounded
      BY <1>1, <2>2, PoolFits, PoolStands, Zenon DEF IInv
    <3> QED
      BY <3>1, <3>2, ToBlockStands DEF PromoteToBlock
  <2>3. CASE PromoteToPool
    <3>1. /\ chain' = chain /\ kind' = "pool" /\ kind = "block" /\ data' = ToPool(data)
      BY <2>3, Zenon DEF PromoteToPool
    <3>2. StandsPool(data')
      BY <1>1, <3>1, ToPoolStands, Zenon
    <3>3. /\ data'.hash = NullHash /\ data'.bits.self = WorkLimit
          /\ data'.version.self = SignalVersion /\ data'.timestamp.self = MaxTime
      BY <3>1, Zenon DEF ToPool
    <3> QED
      BY <3>1, <3>2, <3>3, Zenon DEF StandsPool, StandInv, CarriedHash
  <2>4. CASE kind = "block" /\ \E header \in Candidates(ToPool(data)) : PromoteToHeader(header)
    <3>1. PICK header : PromoteToHeader(header)
      BY <2>4, Zenon
    <3>2. FitsPool(ToPool(data)) /\ StandsPool(ToPool(data)) /\ Grounded
      BY <1>1, <2>4, ToPoolFits, ToPoolStands, Zenon DEF IInv
    <3> QED
      BY <3>1, <3>2, ToBlockStands DEF PromoteToHeader, ToHeader
  <2>5. CASE UNCHANGED vars
    <3>1. chain' = chain /\ kind' = kind /\ data' = data
      BY <2>5, Zenon DEF vars
    <3> QED
      BY <1>1, <3>1, Zenon DEF StandInv, CarriedHash, Top
  <2> QED
    BY <2>1, <2>2, <2>3, <2>4, <2>5 DEF Next
<1> QED
  BY <1>2, <1>3 DEF PromotionInv

(* Both invariants hold of every state.                                    *)
LEMMA PromotionInvHolds == Spec => []PromotionInv
<1>1. Init => PromotionInv
  <2> SUFFICES ASSUME Init
               PROVE  PromotionInv
    OBVIOUS
  <2>1. IInv
    BY InitInv
  <2>2. Grounded /\ StateOfPool
    BY <2>1, Zenon DEF IInv, Init, StateOfPool
  <2> QED
    BY <2>1, <2>2, PopulatedStand DEF PromotionInv
<1> QED
  BY <1>1, NextStands, PTL DEF Spec

-----------------------------------------------------------------------------
(* What two states have in common when only their bits and the hashes of   *)
(* the checkpoints may differ.                                             *)
Alike(a, b) ==
  /\ a.height = b.height /\ a.hash = b.hash
  /\ a.version.self = b.version.self /\ a.version.ordered = b.version.ordered
  /\ a.timestamp.self = b.timestamp.self /\ a.timestamp.ordered = b.timestamp.ordered
  /\ Retarget => a.timestamp.retarget = b.timestamp.retarget

(* The state read from the chain, field by field.                          *)
LEMMA ReferenceFields ==
  ASSUME PromotionInv
  PROVE  /\ Alike(data, Reference)
         /\ Reference.bits.ordered = Window("bits", BitsCount(data.height), data.height)
         /\ Reference.collisions = HashAt(CollisionHeight(data.height))
         /\ Reference.bit0 = HashAt(Bit0Height(data.height))
         /\ Reference.bit1 = HashAt(Bit1Height(data.height))
<1>1. PICK h \in Nat \ {0} : h = data.height
  BY SMTT(20) DEF PromotionInv, IInv
<1>2. PICK r : r = Reference
  OBVIOUS
<1>3. r = Populate(h, data.hash, data.bits.self, data.version.self, data.timestamp.self)
  <2>1. CASE kind = "pool"
    BY <1>1, <1>2, <2>1, SMTT(30) DEF Reference, PopulatePool, PromotionInv, IInv, StandInv
  <2>2. CASE kind = "block"
    <3>1. /\ data.bits.self = chain[Top].bits /\ data.version.self = chain[Top].version
          /\ data.timestamp.self = chain[Top].time /\ data.hash = Hash(Top, chain[Top])
          /\ h = Top
      BY <1>1, <2>2, SMTT(30) DEF PromotionInv, IInv, StandInv
    <3> QED
      BY <1>2, <2>2, <3>1, SMTT(30) DEF Reference, PopulateBlock
  <2> QED
    BY <2>1, <2>2, SMTT(20) DEF PromotionInv, IInv
<1>4. /\ r.height = h /\ r.hash = data.hash
      /\ r.version.self = data.version.self
      /\ r.version.ordered = Window("version", VersionCount(h), h)
      /\ r.timestamp.self = data.timestamp.self
      /\ r.timestamp.ordered = Window("time", TimestampCount(h), h)
      /\ r.timestamp.retarget = IF RetargetHeight(h) = Unrequested THEN 0
                                ELSE chain[RetargetHeight(h)].time
      /\ r.bits.ordered = Window("bits", BitsCount(h), h)
      /\ r.collisions = HashAt(CollisionHeight(h))
      /\ r.bit0 = HashAt(Bit0Height(h))
      /\ r.bit1 = HashAt(Bit1Height(h))
  BY <1>3, ZenonT(30) DEF Populate, GetMap
<1>5. /\ data.version.ordered = Window("version", VersionCount(h), h)
      /\ data.timestamp.ordered = Window("time", TimestampCount(h), h)
      /\ Retarget => data.timestamp.retarget = chain[RetargetHeight(h)].time
  BY <1>1, Zenon DEF PromotionInv, IInv, WindowsAreExact
<1>6. Retarget => RetargetHeight(h) # Unrequested
  BY RetargetIsLatest DEF Latest, Unrequested
<1>7. Alike(data, r)
  BY <1>1, <1>4, <1>5, <1>6, Zenon DEF Alike
<1> QED
  BY <1>1, <1>2, <1>4, <1>7, Zenon

(* Alike states have the same median time past, with either tip.           *)
LEMMA AlikeMedian ==
  ASSUME NEW a, NEW b, Alike(a, b), NEW tip
  PROVE  MedianTimePastAt(a, tip) = MedianTimePastAt(b, tip)
BY Zenon DEF Alike, MedianTimePastAt

(* Alike states have the same minimum version.                             *)
LEMMA AlikeVersion ==
  ASSUME NEW a, NEW b, Alike(a, b)
  PROVE  MinimumVersion(a) = MinimumVersion(b)
<1>1. a.height = b.height /\ a.version.ordered = b.version.ordered
  BY Zenon DEF Alike
<1> QED
  BY <1>1, Zenon DEF MinimumVersion, Enforced

(* The hashes of the two states, as far as activation tells them apart.    *)
LEMMA HashesAgree ==
  ASSUME PromotionInv, ~IsCheckpointBlock(data.height)
  PROVE  /\ data.collisions = Reference.collisions
         /\ data.bit0 = Reference.bit0
         /\ Currency # "BCH" =>
              (data.bit1 = CheckpointHash(Bit1Checkpoint[Network])
                 <=> Reference.bit1 = CheckpointHash(Bit1Checkpoint[Network]))
<1>1. PICK h \in Nat \ {0} : h = data.height
  BY SMTT(20) DEF PromotionInv, IInv
<1>2. PICK n \in Nat : DOMAIN chain = 0..n /\ n = Top
  BY DEF PromotionInv, IInv, Grounded
<1>3. h = n \/ h = n + 1
  BY <1>1, <1>2, SMTT(20) DEF PromotionInv, IInv
<1>4. \A c \in Nat : c # h => (c < h <=> c <= n)
  BY <1>3
<1>5. PICK low, mid, high \in Nat : /\ low = CollisionsCheckpoint[Network]
                                  /\ mid = Bit0Checkpoint[Network]
                                  /\ high = Bit1Checkpoint[Network]
  BY NetworkFact, CheckpointsAreHeights
<1>6. low # h /\ mid # h /\ high # h
  BY <1>1, <1>5 DEF IsCheckpointBlock
<1>7. data.collisions = Reference.collisions
  <2>1. HashAt(Above(h, low)) = CarriedHash(low)
    BY <1>2, <1>4, <1>6, RequestedHash
  <2> QED
    BY <1>1, <1>5, <2>1, ReferenceFields, Zenon DEF PromotionInv, StandInv, CollisionHeight
<1>8. data.bit0 = Reference.bit0
  <2>1. HashAt(Above(h, mid)) = CarriedHash(mid)
    BY <1>2, <1>4, <1>6, RequestedHash
  <2> QED
    BY <1>1, <1>5, <2>1, ReferenceFields, Zenon DEF PromotionInv, StandInv, Bit0Height
<1>9. ASSUME Currency # "BCH", Network # "regtest"
      PROVE  data.bit1 = Reference.bit1
  <2>1. HashAt(Above(h, high)) = CarriedHash(high)
    BY <1>2, <1>4, <1>6, RequestedHash
  <2>2. Network = IF Testnet THEN "testnet" ELSE "mainnet"
    BY <1>9 DEF Network
  <2>3. HashAt(Bit1Height(h)) = CarriedHash(high)
    BY <1>5, <1>9, <2>1, <2>2, Zenon DEF Bit1Height
  <2> QED
    BY <1>1, <1>5, <1>9, <2>3, ReferenceFields, Zenon DEF PromotionInv, StandInv
<1>10. ASSUME Currency # "BCH", Network = "regtest"
       PROVE  /\ data.bit1 # CheckpointHash(Bit1Checkpoint[Network])
              /\ Reference.bit1 # CheckpointHash(Bit1Checkpoint[Network])
  <2>1. PICK c \in Nat \ {0} : c = Bit1Checkpoint["mainnet"]
    <3>1. "mainnet" \in Networks
      BY DEF Networks
    <3> QED
      BY <3>1, CheckpointsAreHeights, RegtestAssumption
  <2>2. Bit1Height(h) = Above(h, c) /\ Bit1Checkpoint[Network] = 0
    BY <1>10, <2>1, NetworkFact, RegtestAssumption DEF Bit1Height
  <2>3. HashAt(Above(h, c)) # CheckpointHash(0)
    BY SMTT(30) DEF HashAt, Above, Unrequested, CheckpointHash, Hash, NullHash
  <2> QED
    BY <1>1, <1>10, <2>2, <2>3, ReferenceFields, Zenon DEF PromotionInv, StandInv
<1> QED
  BY <1>7, <1>8, <1>9, <1>10, Zenon

(* Activation reads nothing that the two states do not share.              *)
LEMMA AlikeForks ==
  ASSUME NEW a, NEW b, Alike(a, b), a.collisions = b.collisions, a.bit0 = b.bit0,
         Currency # "BCH" =>
           (a.bit1 = CheckpointHash(Bit1Checkpoint[Network])
              <=> b.bit1 = CheckpointHash(Bit1Checkpoint[Network]))
  PROVE  EnabledForks(a) = EnabledForks(b)
<1>1. MedianTimePast(a) = MedianTimePast(b)
  BY AlikeMedian, Zenon DEF MedianTimePast
<1>2. /\ a.height = b.height /\ a.hash = b.hash
      /\ a.version.self = b.version.self /\ a.version.ordered = b.version.ordered
      /\ a.timestamp.self = b.timestamp.self
  BY Zenon DEF Alike
<1>3. (Currency # "BCH" /\ a.bit1 = CheckpointHash(Bit1Checkpoint[Network]))
        = (Currency # "BCH" /\ b.bit1 = CheckpointHash(Bit1Checkpoint[Network]))
  BY Zenon
<1> QED
  BY <1>1, <1>2, <1>3, ForksRead, Zenon

-----------------------------------------------------------------------------
(* Every nonempty set of naturals has a least element.                     *)
LEMMA LeastNat ==
  ASSUME NEW T, T \subseteq Nat, T # {}
  PROVE  \E x \in T : \A y \in T : x <= y
<1>1. PICK x \in T : \A y \in T : ~(<<y, x>> \in OpToRel(<, Nat))
  BY NatLessThanWellFounded, WFMin, Zenon
<1>2. ASSUME NEW y \in T
      PROVE  x <= y
  <2>1. x \in Nat /\ y \in Nat /\ ~(<<y, x>> \in OpToRel(<, Nat))
    BY <1>1, ZenonT(30)
  <2> QED
    BY <2>1 DEF OpToRel
<1> QED
  BY <1>2

(* A state whose bits are a window of the chain.                           *)
HasBits(values, size) ==
  /\ values.height \in Nat \ {0} /\ size \in 1..values.height
  /\ values.bits.ordered = Window("bits", size, values.height)

(* The bits of a window are those of its heights; the last is the high.    *)
LEMMA BitsFacts ==
  ASSUME NEW a, NEW size, HasBits(a, size)
  PROVE  /\ DOMAIN a.bits.ordered = 1..size /\ Len(a.bits.ordered) = size
         /\ \A i \in 1..size : a.bits.ordered[i] = chain[a.height - 1 - size + i].bits
         /\ High(a.bits.ordered) = chain[a.height - 1].bits
<1>1. PICK h \in Nat \ {0} : h = a.height
  BY DEF HasBits
<1>2. PICK w : w = a.bits.ordered
  BY SMTT(30)
<1>3. size \in 1..h /\ w = [i \in 1..size |-> chain[h - 1 - size + i].bits]
  BY <1>1, <1>2, SMTT(20) DEF HasBits, Window
<1>4. DOMAIN w = 1..size /\ Len(w) = size /\ \A i \in 1..size : w[i] = chain[h - 1 - size + i].bits
  BY <1>3
<1>5. h - 1 - size + size = h - 1 /\ size \in 1..size
  BY <1>3
<1>6. High(w) = chain[h - 1].bits
  BY <1>4, <1>5 DEF High
<1> QED
  BY <1>1, <1>2, <1>4, <1>6, SMTT(20)

(* The heights at which the search of easy_work_required stops.            *)
Stop(height) == chain[height].bits # WorkLimitRetarget \/ IsRetargetHeight(height)

(* The search ends at the latest stop, wherever the window begins.         *)
LEMMA EasyEnds ==
  ASSUME NEW a, NEW size, HasBits(a, size),
         NEW last \in (a.height - size)..(a.height - 1), Stop(last),
         \A h \in 0..(a.height - 1) : Stop(h) => h <= last
  PROVE  EasyStops(a) # {} /\ a.bits.ordered[Max(EasyStops(a))] = chain[last].bits
<1>1. PICK h \in Nat \ {0} : h = a.height
  BY DEF HasBits
<1>2. size \in 1..h
  BY <1>1 DEF HasBits
<1>3. /\ DOMAIN a.bits.ordered = 1..size /\ Len(a.bits.ordered) = size
      /\ \A i \in 1..size : a.bits.ordered[i] = chain[h - 1 - size + i].bits
  BY <1>1, BitsFacts, SMTT(30)
<1>4. EasyStops(a) = {i \in 1..size : Stop(h - 1 - size + i)}
  BY <1>1, <1>3, ZenonT(30) DEF EasyStops, Stop
<1>5. PICK at \in 1..size : h - 1 - size + at = last
  <2>1. last - (h - 1 - size) \in 1..size
    BY <1>1, <1>2
  <2>2. h - 1 - size + (last - (h - 1 - size)) = last
    BY <1>1, <1>2
  <2> QED
    BY <2>1, <2>2
<1>6. at \in EasyStops(a)
  BY <1>4, <1>5
<1>7. ASSUME NEW i \in EasyStops(a)
      PROVE  at >= i
  <2>1. i \in 1..size /\ Stop(h - 1 - size + i)
    BY <1>4, <1>7, Zenon
  <2>2. h - 1 - size + i \in 0..(h - 1)
    BY <1>2, <2>1
  <2>3. h - 1 - size + i <= last
    BY <1>1, <2>1, <2>2, Zenon
  <2> QED
    BY <1>2, <1>5, <2>1, <2>3
<1>8. EasyStops(a) \subseteq Int
  BY <1>4
<1>9. Max(EasyStops(a)) = at
  BY <1>6, <1>7, <1>8 DEF Max
<1> QED
  BY <1>3, <1>5, <1>6, <1>9, Zenon

(* Two windows that reach back to a retarget height end the search alike.  *)
LEMMA EasyAgrees ==
  ASSUME NEW a, NEW m, HasBits(a, m), NEW b, NEW n, HasBits(b, n), a.height = b.height,
         \E h \in (a.height - m)..(a.height - 1) : IsRetargetHeight(h),
         \E h \in (a.height - n)..(a.height - 1) : IsRetargetHeight(h)
  PROVE  /\ EasyStops(a) # {} /\ EasyStops(b) # {}
         /\ a.bits.ordered[Max(EasyStops(a))] = b.bits.ordered[Max(EasyStops(b))]
<1>1. PICK h \in Nat \ {0} : h = a.height /\ h = b.height
  BY DEF HasBits
<1>2. m \in 1..h /\ n \in 1..h
  BY <1>1 DEF HasBits
<1>3. PICK r \in (h - m)..(h - 1) : Stop(r)
  BY <1>1 DEF Stop
<1>4. PICK s \in (h - n)..(h - 1) : Stop(s)
  BY <1>1 DEF Stop
<1> DEFINE T == {d \in 0..(h - 1) : Stop(h - 1 - d)}
<1>5. \A k \in 0..(h - 1) : Stop(k) => h - 1 - k \in T
  <2> TAKE k \in 0..(h - 1)
  <2>1. h - 1 - k \in 0..(h - 1) /\ h - 1 - (h - 1 - k) = k
    OBVIOUS
  <2> QED
    BY <2>1
<1>6. T \subseteq Nat /\ T # {}
  <2>1. r \in 0..(h - 1)
    BY <1>2
  <2>2. h - 1 - r \in T
    BY <1>3, <1>5, <2>1, Zenon
  <2>3. T \subseteq 0..(h - 1)
    BY Zenon
  <2> HIDE DEF T
  <2> QED
    BY <2>2, <2>3
<1>7. PICK d \in T : \A e \in T : d <= e
  <2> HIDE DEF T
  <2> QED
    BY <1>6, LeastNat, Zenon
<1>8. PICK last \in 0..(h - 1) : last = h - 1 - d /\ Stop(last)
  <2>1. d \in 0..(h - 1) /\ Stop(h - 1 - d)
    BY <1>7
  <2>2. h - 1 - d \in 0..(h - 1)
    BY <2>1
  <2> QED
    BY <2>1, <2>2
<1>9. ASSUME NEW k \in 0..(h - 1), Stop(k)
      PROVE  k <= last
  <2>1. d <= h - 1 - k
    BY <1>5, <1>7, <1>9, Zenon
  <2>2. d \in 0..(h - 1)
    BY <1>7
  <2> QED
    BY <1>8, <2>1, <2>2
<1>10. last \in (h - m)..(h - 1) /\ last \in (h - n)..(h - 1)
  <2>1. r <= last /\ s <= last
    BY <1>2, <1>3, <1>4, <1>9
  <2> QED
    BY <1>2, <2>1
<1>11. EasyStops(a) # {} /\ a.bits.ordered[Max(EasyStops(a))] = chain[last].bits
  BY <1>1, <1>8, <1>9, <1>10, EasyEnds, Zenon
<1>12. EasyStops(b) # {} /\ b.bits.ordered[Max(EasyStops(b))] = chain[last].bits
  BY <1>1, <1>8, <1>9, <1>10, EasyEnds, Zenon
<1> QED
  BY <1>11, <1>12, Zenon

(* The same blocks end the averaging window of two states with the same    *)
(* times, as select_1_3 looks at the times only.                           *)
LEMMA CashEnds ==
  ASSUME NEW a, NEW b, a.timestamp.ordered = b.timestamp.ordered,
         ChainStateTimestampCount \in Nat, ChainStateTimestampCount >= 6
  PROVE  /\ \E back \in {1, 2, 3} :
               CashFirst(a) = CashEntry(a, back) /\ CashFirst(b) = CashEntry(b, back)
         /\ \E back \in (ChainStateTimestampCount - 2)..ChainStateTimestampCount :
               CashLast(a) = CashEntry(a, back) /\ CashLast(b) = CashEntry(b, back)
<1>1. \A back : CashEntry(a, back).time = CashEntry(b, back).time
  BY DEF CashEntry
<1>2. \E back \in {1, 2, 3} :
        CashFirst(a) = CashEntry(a, back) /\ CashFirst(b) = CashEntry(b, back)
  <2>1. \/ CashFirst(a) = CashEntry(a, 3) /\ CashFirst(b) = CashEntry(b, 3)
        \/ CashFirst(a) = CashEntry(a, 2) /\ CashFirst(b) = CashEntry(b, 2)
        \/ CashFirst(a) = CashEntry(a, 1) /\ CashFirst(b) = CashEntry(b, 1)
    <3>1. PICK a1, a2, a3, b1, b2, b3 :
            /\ a1 = CashEntry(a, 1) /\ a2 = CashEntry(a, 2) /\ a3 = CashEntry(a, 3)
            /\ b1 = CashEntry(b, 1) /\ b2 = CashEntry(b, 2) /\ b3 = CashEntry(b, 3)
      BY Zenon
    <3>2. a1.time = b1.time /\ a2.time = b2.time /\ a3.time = b3.time
      BY <1>1, <3>1, ZenonT(30)
    <3>3. \/ MedianOfThree(a3, a2, a1) = a3 /\ MedianOfThree(b3, b2, b1) = b3
          \/ MedianOfThree(a3, a2, a1) = a2 /\ MedianOfThree(b3, b2, b1) = b2
          \/ MedianOfThree(a3, a2, a1) = a1 /\ MedianOfThree(b3, b2, b1) = b1
      BY <3>2, SMTT(30) DEF MedianOfThree
    <3> QED
      BY <3>1, <3>3, Zenon DEF CashFirst
  <2> QED
    BY <2>1, Zenon
<1>3. \E back \in (ChainStateTimestampCount - 2)..ChainStateTimestampCount :
        CashLast(a) = CashEntry(a, back) /\ CashLast(b) = CashEntry(b, back)
  <2>1. PICK n, o, p \in (ChainStateTimestampCount - 2)..ChainStateTimestampCount :
          /\ n = ChainStateTimestampCount /\ o = ChainStateTimestampCount - 1
          /\ p = ChainStateTimestampCount - 2
    OBVIOUS
  <2>2. \/ CashLast(a) = CashEntry(a, n) /\ CashLast(b) = CashEntry(b, n)
        \/ CashLast(a) = CashEntry(a, o) /\ CashLast(b) = CashEntry(b, o)
        \/ CashLast(a) = CashEntry(a, p) /\ CashLast(b) = CashEntry(b, p)
    <3>1. PICK a1, a2, a3, b1, b2, b3 :
            /\ a1 = CashEntry(a, n) /\ a2 = CashEntry(a, o) /\ a3 = CashEntry(a, p)
            /\ b1 = CashEntry(b, n) /\ b2 = CashEntry(b, o) /\ b3 = CashEntry(b, p)
      BY Zenon
    <3>2. a1.time = b1.time /\ a2.time = b2.time /\ a3.time = b3.time
      BY <1>1, <3>1, Zenon
    <3>3. \/ MedianOfThree(a1, a2, a3) = a1 /\ MedianOfThree(b1, b2, b3) = b1
          \/ MedianOfThree(a1, a2, a3) = a2 /\ MedianOfThree(b1, b2, b3) = b2
          \/ MedianOfThree(a1, a2, a3) = a3 /\ MedianOfThree(b1, b2, b3) = b3
      BY <3>2, SMTT(30) DEF MedianOfThree
    <3> QED
      BY <2>1, <3>1, <3>3, Zenon DEF CashLast
  <2> QED
    BY <2>2, Zenon
<1> QED
  BY <1>2, <1>3, Zenon

(* What SubSeq does to a function of an interval.                          *)
LEMMA SubSeqFacts ==
  ASSUME NEW S, NEW s, NEW m \in Int, NEW n \in Int, \A i \in m..n : s[i] \in S
  PROVE  /\ SubSeq(s, m, n) \in Seq(S)
         /\ Len(SubSeq(s, m, n)) = IF m <= n THEN n - m + 1 ELSE 0
         /\ \A i \in 1..(n - m + 1) : SubSeq(s, m, n)[i] = s[m + i - 1]
OBVIOUS

(* A run of the bits, counted from the end of the window, is a run of the  *)
(* blocks below the height.                                                *)
BitsRunIs(a, size, f, l) ==
    SubSeq(a.bits.ordered, size - l + 2, size - f + 1)
      = [i \in 1..(l - f) |-> chain[a.height - l + i].bits]

(* Every such run is one of the blocks, once the bits are the window's.    *)
LEMMA BitsRun ==
  ASSUME NEW a, NEW size, HasBits(a, size), NEW f \in Nat \ {0}, NEW l \in f..size
  PROVE  BitsRunIs(a, size, f, l)
<1>1. PICK h \in Nat \ {0} : h = a.height
  BY DEF HasBits
<1>2. size \in 1..h
  BY <1>1 DEF HasBits
<1>3. PICK s : s = a.bits.ordered
  OBVIOUS
<1>4. \A i \in 1..size : s[i] = chain[h - 1 - size + i].bits
  BY <1>1, <1>3, BitsFacts, SMTT(30)
<1>5. PICK from, to \in Int : from = size - l + 2 /\ to = size - f + 1
  BY <1>2
<1>6. from \in 1..(size + 1) /\ to \in 1..size /\ to - from + 1 = l - f
  BY <1>2, <1>5
<1> DEFINE S == {s[i] : i \in from..to}
<1>7. \A i \in from..to : s[i] \in S
  OBVIOUS
<1> HIDE DEF S
<1>8. PICK u : u = SubSeq(s, from, to)
  BY ZenonT(30)
<1>9. /\ u \in Seq(S) /\ Len(u) = IF from <= to THEN to - from + 1 ELSE 0
      /\ \A i \in 1..(to - from + 1) : u[i] = s[from + i - 1]
  BY <1>7, <1>8, SubSeqFacts, SMTT(30)
<1>10. Len(u) = l - f
  BY <1>2, <1>6, <1>9
<1>11. DOMAIN u = 1..(l - f) /\ u = [i \in DOMAIN u |-> u[i]]
  BY <1>9, <1>10
<1>12. ASSUME NEW i \in 1..(l - f)
       PROVE  u[i] = chain[h - l + i].bits
  <2>1. u[i] = s[from + i - 1]
    BY <1>6, <1>9, Zenon
  <2>2. from + i - 1 \in 1..size /\ h - 1 - size + (from + i - 1) = h - l + i
    BY <1>2, <1>5
  <2> QED
    BY <1>4, <2>1, <2>2, Zenon
<1>13. u = [i \in 1..(l - f) |-> chain[h - l + i].bits]
  BY <1>11, <1>12, Zenon
<1> QED
  BY <1>1, <1>3, <1>5, <1>8, <1>13, Zenon DEF BitsRunIs

(* The bits that are averaged are the same blocks', whatever the sizes of  *)
(* the two windows, as long as both hold the averaging window.             *)
LEMMA CashBitsAgree ==
  ASSUME NEW a, NEW m, HasBits(a, m), NEW b, NEW n, HasBits(b, n), a.height = b.height,
         a.timestamp.ordered = b.timestamp.ordered, Currency = "BCH",
         m >= Lesser(a.height, ChainStateTimestampCount),
         n >= Lesser(a.height, ChainStateTimestampCount)
  PROVE  CashBits(a) = CashBits(b)
<1>1. PICK h \in Nat \ {0} : h = a.height /\ h = b.height
  BY DEF HasBits
<1>2. m \in 1..h /\ n \in 1..h
  BY <1>1 DEF HasBits
<1>3. PICK count \in Nat : count = ChainStateTimestampCount /\ count >= 6
  BY ChainAssumption, CashAssumption
<1>4. CASE h < count
  <2>1. m = n
    BY <1>1, <1>2, <1>3, <1>4 DEF Lesser
  <2>2. a.bits.ordered = b.bits.ordered
    BY <2>1, Zenon DEF HasBits
  <2>3. CashFirst(a) = CashFirst(b) /\ CashLast(a) = CashLast(b)
    BY <2>2, Zenon DEF CashFirst, CashLast, CashEntry
  <2> QED
    BY <2>2, <2>3, Zenon DEF CashBits
<1>5. CASE ~(h < count)
  <2>1. m >= count /\ n >= count
    BY <1>1, <1>3, <1>5 DEF Lesser
  <2>2. PICK f \in {1, 2, 3} : CashFirst(a) = CashEntry(a, f) /\ CashFirst(b) = CashEntry(b, f)
    BY <1>3, CashEnds, Zenon
  <2>3. PICK l \in (count - 2)..count : CashLast(a) = CashEntry(a, l) /\ CashLast(b) = CashEntry(b, l)
    BY <1>3, CashEnds, ZenonT(30)
  <2>4. f \in Nat \ {0} /\ l \in f..m /\ l \in f..n
    BY <1>2, <1>3, <2>1
  <2>5. Len(a.bits.ordered) = m /\ Len(b.bits.ordered) = n
    BY BitsFacts, Zenon
  <2>6. CashBits(a) = SubSeq(a.bits.ordered, m - l + 2, m - f + 1)
    <3>1. CashFirst(a).index = m - f /\ CashLast(a).index = m - l
      BY <2>2, <2>3, <2>5 DEF CashEntry
    <3> QED
      BY <3>1, Zenon DEF CashBits
  <2>7. CashBits(b) = SubSeq(b.bits.ordered, n - l + 2, n - f + 1)
    <3>1. CashFirst(b).index = n - f /\ CashLast(b).index = n - l
      BY <2>2, <2>3, <2>5 DEF CashEntry
    <3> QED
      BY <3>1, Zenon DEF CashBits
  <2>8. CashBits(a) = [i \in 1..(l - f) |-> chain[a.height - l + i].bits]
    <3>1. f \in Nat \ {0} /\ l \in f..m
      BY <2>4
    <3>2. BitsRunIs(a, m, f, l)
      BY <3>1, BitsRun, Zenon
    <3> QED
      BY <2>6, <3>2, Zenon DEF BitsRunIs
  <2>9. CashBits(b) = [i \in 1..(l - f) |-> chain[b.height - l + i].bits]
    <3>1. f \in Nat \ {0} /\ l \in f..n
      BY <2>4
    <3>2. BitsRunIs(b, n, f, l)
      BY <3>1, BitsRun, Zenon
    <3> QED
      BY <2>7, <3>2, Zenon DEF BitsRunIs
  <2> QED
    BY <2>8, <2>9, Zenon
<1> QED
  BY <1>4, <1>5

(* The bits that easy_work_required finds.                                 *)
EasyBits(values) ==
  IF EasyStops(values) = {} THEN WorkLimitRetarget
  ELSE values.bits.ordered[Max(EasyStops(values))]

(* work_required reads three things of the bits.                           *)
LEMMA WorkAgrees ==
  ASSUME NEW a, NEW b, Alike(a, b),
         High(a.bits.ordered) = High(b.bits.ordered),
         Testnet /\ Retarget /\ ~IsRetargetHeight(a.height) => EasyBits(a) = EasyBits(b),
         Currency = "BCH" => CashBits(a) = CashBits(b)
  PROVE  WorkRequired(a) = WorkRequired(b)
<1>1. /\ a.height = b.height
      /\ a.timestamp.self = b.timestamp.self /\ a.timestamp.ordered = b.timestamp.ordered
      /\ Retarget => a.timestamp.retarget = b.timestamp.retarget
  BY Zenon DEF Alike
<1>2. /\ MedianTimePastAt(a, TRUE) = MedianTimePastAt(b, TRUE)
      /\ MedianTimePastAt(a, FALSE) = MedianTimePastAt(b, FALSE)
  BY <1>1, Zenon DEF MedianTimePastAt
<1>3. Retarget => WorkRequiredRetarget(a) = WorkRequiredRetarget(b)
  BY <1>1, Zenon DEF WorkRequiredRetarget, RetargetTimespan
<1>4. WorkRequiredAdjustCash(a) = WorkRequiredAdjustCash(b)
  BY Zenon DEF WorkRequiredAdjustCash
<1>5. ASSUME Currency = "BCH"
      PROVE  CashDifficultyAdjustment(a) = CashDifficultyAdjustment(b)
  <2>1. CashFirst(a).time = CashFirst(b).time /\ CashLast(a).time = CashLast(b).time
    <3>1. \A back : CashEntry(a, back).time = CashEntry(b, back).time
      BY <1>1, Zenon DEF CashEntry
    <3>2. ChainStateTimestampCount \in Nat /\ ChainStateTimestampCount >= 6
      BY <1>5, ChainAssumption, CashAssumption
    <3>3. PICK f \in {1, 2, 3} : CashFirst(a) = CashEntry(a, f) /\ CashFirst(b) = CashEntry(b, f)
      BY <1>1, <3>2, CashEnds, Zenon
    <3>4. PICK l : CashLast(a) = CashEntry(a, l) /\ CashLast(b) = CashEntry(b, l)
      BY <1>1, <3>2, CashEnds
    <3> QED
      BY <3>1, <3>3, <3>4, ZenonT(30)
  <2>2. CashTimespan(a) = CashTimespan(b)
    BY <2>1, Zenon DEF CashTimespan
  <2> QED
    BY <1>5, <2>2, Zenon DEF CashDifficultyAdjustment
<1>6. Testnet /\ Retarget /\ (~IsRetargetHeight(a.height) \/ IsDaaEnabled(a.height)) =>
        EasyWorkRequired(a) = EasyWorkRequired(b)
  <2>1. EasyTimeLimit(a) = EasyTimeLimit(b)
    BY <1>1, Zenon DEF EasyTimeLimit
  <2>2. IsDaaEnabled(a.height) => Currency = "BCH"
    BY DEF IsDaaEnabled
  <2> QED
    BY <1>1, <1>5, <2>1, <2>2, SMTT(30) DEF EasyWorkRequired, EasyBits
<1>7. IsDaaEnabled(a.height) => Currency = "BCH"
  BY DEF IsDaaEnabled
<1>8. CASE ~Retarget
  BY <1>8, ZenonT(30) DEF WorkRequired
<1>9. CASE Retarget /\ IsRetargetHeight(a.height) /\ ~IsDaaEnabled(a.height)
  BY <1>1, <1>3, <1>9, ZenonT(30) DEF WorkRequired
<1>10. CASE Retarget /\ (~IsRetargetHeight(a.height) \/ IsDaaEnabled(a.height)) /\ Testnet
  BY <1>1, <1>6, <1>10, ZenonT(30) DEF WorkRequired
<1>11. CASE /\ Retarget /\ IsDaaEnabled(a.height) /\ ~Testnet
            /\ IsUahfEnabled(a.height)
  BY <1>1, <1>5, <1>7, <1>11 DEF WorkRequired
<1>12. CASE /\ Retarget /\ ~Testnet
            /\ ~IsRetargetHeight(a.height) \/ IsDaaEnabled(a.height)
            /\ ~(IsDaaEnabled(a.height) /\ IsUahfEnabled(a.height))
  <2>1. PICK gap : /\ gap = MedianTimePastAt(a, TRUE) - MedianTimePastAt(a, FALSE)
                   /\ gap = MedianTimePastAt(b, TRUE) - MedianTimePastAt(b, FALSE)
    BY <1>2, Zenon
  <2>2. PICK late \in BOOLEAN :
          late = (IsUahfEnabled(a.height) /\ gap % (MaxTime + 1) > CashTimeGap)
    BY Zenon
  <2>3. WorkRequired(a) = IF late THEN WorkRequiredAdjustCash(a) ELSE High(a.bits.ordered)
    BY <1>12, <2>1, <2>2, ZenonT(30) DEF WorkRequired
  <2>4. WorkRequired(b) = IF late THEN WorkRequiredAdjustCash(b) ELSE High(b.bits.ordered)
    BY <1>1, <1>12, <2>1, <2>2, ZenonT(30) DEF WorkRequired
  <2> QED
    BY <1>4, <2>3, <2>4
<1> QED
  BY <1>8, <1>9, <1>10, <1>11, <1>12, Zenon

(* Both bits windows are long enough for what is read of them.             *)
LEMMA SizesFit ==
  ASSUME PromotionInv
  PROVE  \E m, n : /\ HasBits(data, m) /\ HasBits(Reference, n)
                   /\ Testnet /\ Retarget /\ ~IsRetargetHeight(data.height) =>
                        /\ \E h \in (data.height - m)..(data.height - 1) : IsRetargetHeight(h)
                        /\ \E h \in (data.height - n)..(data.height - 1) : IsRetargetHeight(h)
                   /\ Currency = "BCH" =>
                        /\ m >= Lesser(data.height, ChainStateTimestampCount)
                        /\ n >= Lesser(data.height, ChainStateTimestampCount)
<1>1. PICK h \in Nat \ {0} : h = data.height
  BY SMTT(20) DEF PromotionInv, IInv
<1>2. PICK m \in 1..h : m = Len(data.bits.ordered)
  BY <1>1 DEF PromotionInv, IInv, BitsWindowReachesBack
<1>3. PICK n \in 1..h : n = BitsCount(h)
  BY <1>1, CountFacts
<1>4. HasBits(data, m)
  BY <1>1, <1>2, Zenon DEF HasBits, PromotionInv, IInv, BitsWindowReachesBack
<1>5. HasBits(Reference, n)
  <2>1. Reference.height = h /\ Reference.bits.ordered = Window("bits", n, h)
    BY <1>1, <1>3, ReferenceFields, Zenon DEF Alike
  <2> QED
    BY <2>1, Zenon DEF HasBits
<1>6. ASSUME Testnet, Retarget, ~IsRetargetHeight(h)
      PROVE  /\ \E k \in (h - m)..(h - 1) : IsRetargetHeight(k)
             /\ \E k \in (h - n)..(h - 1) : IsRetargetHeight(k)
  <2>1. \E k \in (h - m)..(h - 1) : IsRetargetHeight(k)
    BY <1>1, <1>2, <1>6, Zenon DEF PromotionInv, IInv, BitsWindowReachesBack
  <2>2. n = Lesser(h, RetargetingInterval)
    BY <1>3, <1>6, CountFacts, Zenon
  <2>3. CASE h < RetargetingInterval
    <3>1. 0 \in (h - n)..(h - 1) /\ IsRetargetHeight(0)
      BY <2>2, <2>3, ChainAssumption DEF Lesser, IsRetargetHeight
    <3> QED
      BY <2>1, <3>1, Zenon
  <2>4. CASE ~(h < RetargetingInterval)
    <3>1. h - n \in Nat /\ h - 1 \in Nat /\ (h - 1) - (h - n) + 1 >= RetargetingInterval
      BY <2>2, <2>4, ChainAssumption DEF Lesser
    <3> QED
      BY <2>1, <3>1, RetargetWithin, Zenon
  <2> QED
    BY <2>3, <2>4
<1>7. ASSUME Currency = "BCH"
      PROVE  /\ m >= Lesser(h, ChainStateTimestampCount)
             /\ n >= Lesser(h, ChainStateTimestampCount)
  <2>1. m >= Lesser(h, ChainStateTimestampCount)
    BY <1>1, <1>2, <1>7, Zenon DEF PromotionInv, StandInv
  <2>2. n >= Lesser(h, ChainStateTimestampCount)
    BY <1>3, <1>7, ChainAssumption, CashAssumption, SMTT(30) DEF BitsCount, Lesser
  <2> QED
    BY <2>1, <2>2
<1> QED
  BY <1>1, <1>4, <1>5, <1>6, <1>7, Zenon

(* A promoted chain_state requires the work, has the median time past, the *)
(* forks and the minimum version of the state populated from the chain.    *)
THEOREM PromotedAsPopulated == Spec => []PromotionAgrees
<1>1. ASSUME PromotionInv
      PROVE  PromotionAgrees
  <2>1. PICK r : r = Reference
    OBVIOUS
  <2>2. Alike(data, r)
    BY <1>1, <2>1, ReferenceFields, Zenon
  <2>3. PICK m, n : /\ HasBits(data, m) /\ HasBits(r, n)
                    /\ Testnet /\ Retarget /\ ~IsRetargetHeight(data.height) =>
                         /\ \E h \in (data.height - m)..(data.height - 1) : IsRetargetHeight(h)
                         /\ \E h \in (data.height - n)..(data.height - 1) : IsRetargetHeight(h)
                    /\ Currency = "BCH" =>
                         /\ m >= Lesser(data.height, ChainStateTimestampCount)
                         /\ n >= Lesser(data.height, ChainStateTimestampCount)
    BY <1>1, <2>1, SizesFit, Zenon
  <2>4. data.height = r.height /\ data.timestamp.ordered = r.timestamp.ordered
    BY <2>2, Zenon DEF Alike
  <2>5. High(data.bits.ordered) = High(r.bits.ordered)
    <3>1. HasBits(data, m) /\ HasBits(r, n)
      BY <2>3, Zenon
    <3>2. High(data.bits.ordered) = chain[data.height - 1].bits
      BY <3>1, BitsFacts, Zenon
    <3>3. High(r.bits.ordered) = chain[r.height - 1].bits
      BY <3>1, BitsFacts, Zenon
    <3> QED
      BY <2>4, <3>2, <3>3, Zenon
  <2>6. Testnet /\ Retarget /\ ~IsRetargetHeight(data.height) => EasyBits(data) = EasyBits(r)
    BY <2>3, <2>4, EasyAgrees, Zenon DEF EasyBits
  <2>7. Currency = "BCH" => CashBits(data) = CashBits(r)
    BY <2>3, <2>4, CashBitsAgree, Zenon
  <2>8. WorkRequired(data) = WorkRequired(r)
    BY <2>2, <2>5, <2>6, <2>7, WorkAgrees, ZenonT(30)
  <2>9. MedianTimePast(data) = MedianTimePast(r)
    BY <2>2, AlikeMedian, Zenon DEF MedianTimePast
  <2>10. MinimumVersion(data) = MinimumVersion(r)
    BY <2>2, AlikeVersion, Zenon
  <2>11. EnabledForks(data) = EnabledForks(r) \/ IsCheckpointBlock(data.height)
    <3>1. SUFFICES ASSUME ~IsCheckpointBlock(data.height)
                   PROVE  EnabledForks(data) = EnabledForks(r)
      OBVIOUS
    <3>2. /\ data.collisions = r.collisions /\ data.bit0 = r.bit0
          /\ Currency # "BCH" =>
               (data.bit1 = CheckpointHash(Bit1Checkpoint[Network])
                  <=> r.bit1 = CheckpointHash(Bit1Checkpoint[Network]))
      BY <1>1, <2>1, <3>1, HashesAgree, Zenon
    <3> QED
      BY <2>2, <3>2, AlikeForks, Zenon
  <2> QED
    BY <2>1, <2>8, <2>9, <2>10, <2>11, ZenonT(30) DEF PromotionAgrees
<1> QED
  BY <1>1, PromotionInvHolds, PTL

=============================================================================
