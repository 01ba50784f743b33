---------------------------- MODULE AcceptProofs ----------------------------
(***************************************************************************)
(* What accept tests keeps the median time past and the minimum version    *)
(* from decreasing above the checkpoints, for every chain that it admits;  *)
(* with what the Cash adjustment needs of the times of two states.         *)
(***************************************************************************)
EXTENDS ChainStateProofs, FiniteSetTheorems

-----------------------------------------------------------------------------
(* A run of a window is a window that ends lower.                          *)
LEMMA SubWindow ==
  ASSUME NEW field, NEW height \in Nat, NEW size \in 0..height,
         NEW at \in 0..size, NEW n \in 0..(size - at)
  PROVE  SubSeq(Window(field, size, height), at + 1, at + n)
           = Window(field, n, height - (size - at - n))
<1>1. PICK s : s = Window(field, size, height)
  BY Zenon
<1>2. \A i \in 1..size : s[i] = chain[height - 1 - size + i][field]
  BY <1>1 DEF Window
<1>3. PICK from, to \in Int : from = at + 1 /\ to = at + n
  OBVIOUS
<1> DEFINE S == {s[i] : i \in from..to}
<1>4. \A i \in from..to : s[i] \in S
  OBVIOUS
<1> HIDE DEF S
<1>5. PICK u : u = SubSeq(s, from, to)
  BY Zenon
<1>6. /\ u \in Seq(S) /\ Len(u) = IF from <= to THEN to - from + 1 ELSE 0
      /\ \A i \in 1..(to - from + 1) : u[i] = s[from + i - 1]
  BY <1>4, <1>5, SubSeqFacts, SMTT(30)
<1>7. Len(u) = n /\ to - from + 1 = n
  BY <1>3, <1>6
<1>8. DOMAIN u = 1..n /\ u = [i \in DOMAIN u |-> u[i]]
  BY <1>6, <1>7
<1>9. PICK end \in Int : end = height - (size - at - n)
  OBVIOUS
<1>10. ASSUME NEW i \in 1..n
       PROVE  u[i] = chain[end - 1 - n + i][field]
  <2>1. u[i] = s[from + i - 1]
    BY <1>6, <1>7, Zenon
  <2>2. from + i - 1 \in 1..size /\ height - 1 - size + (from + i - 1) = end - 1 - n + i
    BY <1>3, <1>9
  <2> QED
    BY <1>2, <2>1, <2>2, Zenon
<1>11. u = [i \in 1..n |-> chain[end - 1 - n + i][field]]
  BY <1>8, <1>10, Zenon
<1> QED
  BY <1>1, <1>3, <1>5, <1>9, <1>11, Zenon DEF Window

(* What median_time_past sorts at a height: the last times, as many as     *)
(* there are up to the interval.                                           *)
LastTimes(height) == Window("time", Lesser(height, MedianTimePastInterval), height)

(* The bitcoin window is sorted whole.                                     *)
LEMMA PlainSubset ==
  ASSUME Currency = "BTC", NEW height \in Nat \ {0}
  PROVE  TimestampsSubset(Window("time", TimestampCount(height), height), TRUE)
           = LastTimes(height)
<1>1. PICK size \in 1..height : size = TimestampCount(height) /\ size <= MedianTimePastInterval
                               /\ size = Lesser(height, MedianTimePastInterval)
  BY ChainAssumption DEF TimestampCount, Lesser
<1>2. PICK w : w = Window("time", size, height)
  BY Zenon
<1>3. Len(w) = size
  BY <1>2 DEF Window
<1>4. TimestampsPosition(size, TRUE) = 0
  BY <1>1, ChainAssumption DEF TimestampsPosition
<1>5. Lesser(size - 0, MedianTimePastInterval) = size
  BY <1>1, ChainAssumption DEF Lesser
<1>6. TimestampsSubset(w, TRUE) = SubSeq(w, 0 + 1, 0 + size)
  BY <1>3, <1>4, <1>5, Zenon DEF TimestampsSubset
<1>7. SubSeq(w, 0 + 1, 0 + size) = Window("time", size, height - (size - 0 - size))
  <2>1. size \in 0..height /\ 0 \in 0..size /\ size \in 0..(size - 0)
    OBVIOUS
  <2> QED
    BY <1>2, <2>1, SubWindow, ZenonT(30)
<1>8. height - (size - 0 - size) = height
  OBVIOUS
<1> QED
  BY <1>1, <1>2, <1>6, <1>7, <1>8, Zenon DEF LastTimes

(* The two cash subsets of a full window end at the top and, for the       *)
(* second, as many blocks below as the cash rule looks back.               *)
LEMMA CashSubset ==
  ASSUME Currency = "BCH", NEW height \in Nat \ {0}, height >= ChainStateTimestampCount
  PROVE  /\ TimestampsSubset(Window("time", TimestampCount(height), height), TRUE)
              = Window("time", MedianTimePastInterval, height)
         /\ TimestampsSubset(Window("time", TimestampCount(height), height), FALSE)
              = Window("time", MedianTimePastInterval, height - CashRetargetBlocks)
<1>1. PICK size \in 1..height : size = TimestampCount(height) /\ size = ChainStateTimestampCount
  BY ChainAssumption DEF TimestampCount, Lesser
<1>2. PICK m \in Nat \ {0} : m = MedianTimePastInterval
  BY ChainAssumption
<1>3. PICK back \in Nat : back = CashRetargetBlocks /\ size >= m + back
  BY <1>1, <1>2, CashAssumption
<1>4. PICK w : w = Window("time", size, height)
  BY Zenon
<1>5. Len(w) = size
  BY <1>4 DEF Window
<1>6. ASSUME NEW at \in 0..(size - m)
      PROVE  /\ Lesser(size - at, m) = m
             /\ SubSeq(w, at + 1, at + m) = Window("time", m, height - (size - at - m))
  <2>1. Lesser(size - at, m) = m
    BY DEF Lesser
  <2>2. size \in 0..height /\ at \in 0..size /\ m \in 0..(size - at)
    BY <1>3
  <2>3. SubSeq(w, at + 1, at + m) = Window("time", m, height - (size - at - m))
    BY <1>4, <2>2, SubWindow, ZenonT(30)
  <2> QED
    BY <2>1, <2>3
<1>7. TimestampsSubset(w, TRUE) = Window("time", m, height)
  <2>1. PICK at \in 0..(size - m) : at = size - m
    BY <1>3
  <2>2. TimestampsPosition(size, TRUE) = at
    BY <1>1, <1>2, <2>1 DEF TimestampsPosition, OffsetTip
  <2>3. TimestampsSubset(w, TRUE) = SubSeq(w, at + 1, at + m)
    BY <1>2, <1>5, <1>6, <2>2, Zenon DEF TimestampsSubset
  <2>4. height - (size - at - m) = height
    BY <2>1
  <2> QED
    BY <1>6, <2>3, <2>4, Zenon
<1>8. TimestampsSubset(w, FALSE) = Window("time", m, height - back)
  <2>1. PICK at \in 0..(size - m) : at = size - m - back
    BY <1>3
  <2>2. TimestampsPosition(size, FALSE) = at
    BY <1>1, <1>2, <1>3, <2>1 DEF TimestampsPosition, OffsetTip
  <2>3. TimestampsSubset(w, FALSE) = SubSeq(w, at + 1, at + m)
    BY <1>2, <1>5, <1>6, <2>2, Zenon DEF TimestampsSubset
  <2>4. height - (size - at - m) = height - back
    BY <2>1
  <2> QED
    BY <1>6, <2>3, <2>4, Zenon
<1> QED
  BY <1>1, <1>2, <1>3, <1>4, <1>7, <1>8, Zenon

-----------------------------------------------------------------------------
(* The entries up to a value: how many there are grows with the value.     *)
UpTo(s, n, v) == {i \in 1..n : s[i] <= v}
Below(s, n, v) == {i \in 1..n : s[i] < v}

(* A subset of the indices has a size.                                     *)
LEMMA IndicesCount ==
  ASSUME NEW n \in Nat, NEW T \in SUBSET (1..n)
  PROVE  IsFiniteSet(T) /\ Cardinality(T) \in 0..n
<1>1. IsFiniteSet(1..n) /\ Cardinality(1..n) = n
  BY FS_Interval
<1>2. IsFiniteSet(T) /\ Cardinality(T) <= Cardinality(1..n)
  BY <1>1, FS_Subset, Zenon
<1>3. Cardinality(T) \in Nat
  BY <1>2, FS_CardinalityType, Zenon
<1> QED
  BY <1>1, <1>2, <1>3

(* A value of middle rank exists.                                          *)
LEMMA MiddleExists ==
  ASSUME NEW n \in Nat \ {0}, NEW s \in [1..n -> 0..MaxTime]
  PROVE  \E i \in 1..n : /\ Cardinality(Below(s, n, s[i])) <= n \div 2
                         /\ n \div 2 < Cardinality(UpTo(s, n, s[i]))
<1>1. PICK last \in Nat : last = MaxTime
  BY HeaderAssumption
<1>2. PICK half \in Nat : half = n \div 2 /\ half < n
  OBVIOUS
<1>3. \A v : UpTo(s, n, v) \in SUBSET (1..n) /\ Below(s, n, v) \in SUBSET (1..n)
  BY Zenon DEF UpTo, Below
<1>4. \A v : /\ Cardinality(UpTo(s, n, v)) \in 0..n
             /\ IsFiniteSet(UpTo(s, n, v))
  BY <1>3, IndicesCount, Zenon
<1> DEFINE T == {v \in 0..last : half < Cardinality(UpTo(s, n, v))}
<1>5. T # {} /\ T \subseteq Nat
  <2>1. UpTo(s, n, last) = 1..n
    BY <1>1 DEF UpTo
  <2>2. Cardinality(1..n) = n
    BY FS_Interval
  <2>3. last \in T
    BY <1>2, <2>1, <2>2
  <2> QED
    BY <2>3
<1>6. PICK v \in T : \A y \in T : v <= y
  <2> HIDE DEF T
  <2> QED
    BY <1>5, LeastNat, Zenon
<1>7. v \in 0..last /\ half < Cardinality(UpTo(s, n, v))
  BY <1>6
<1>8. v = 0 \/ (v - 1 \in 0..last /\ Cardinality(UpTo(s, n, v - 1)) <= half)
  <2> SUFFICES ASSUME v # 0
               PROVE  v - 1 \in 0..last /\ Cardinality(UpTo(s, n, v - 1)) <= half
    OBVIOUS
  <2>1. v - 1 \in 0..last /\ ~(v <= v - 1)
    BY <1>7
  <2>2. v - 1 \notin T
    BY <1>6, <2>1, Zenon
  <2>3. Cardinality(UpTo(s, n, v - 1)) \in 0..n
    BY <1>4, Zenon
  <2> QED
    BY <1>2, <2>1, <2>2, <2>3
<1> HIDE DEF T
<1>9. \E i \in 1..n : s[i] = v
  <2> SUFFICES ASSUME \A i \in 1..n : s[i] # v
               PROVE  FALSE
    OBVIOUS
  <2>1. CASE v = 0
    <3>1. UpTo(s, n, v) = {}
      BY <1>1, <2>1 DEF UpTo
    <3>2. Cardinality(UpTo(s, n, v)) = 0
      BY <3>1, FS_EmptySet, Zenon
    <3> QED
      BY <1>2, <1>7, <3>2
  <2>2. CASE v # 0
    <3>1. UpTo(s, n, v) = UpTo(s, n, v - 1)
      BY <1>1, <1>7, <2>2 DEF UpTo
    <3>2. PICK c \in Nat : c = Cardinality(UpTo(s, n, v))
      BY <1>4
    <3>3. c <= half /\ half < c
      BY <1>7, <1>8, <2>2, <3>1, <3>2, Zenon
    <3> QED
      BY <1>2, <3>3
  <2> QED
    BY <2>1, <2>2
<1>10. Cardinality(Below(s, n, v)) <= half
  <2>1. CASE v = 0
    <3>1. Below(s, n, v) = {}
      BY <1>1, <2>1 DEF Below
    <3>2. Cardinality(Below(s, n, v)) = 0
      BY <3>1, FS_EmptySet, Zenon
    <3> QED
      BY <1>2, <3>2
  <2>2. CASE v # 0
    <3>1. Below(s, n, v) = UpTo(s, n, v - 1)
      BY <1>1, <1>7, <2>2 DEF UpTo, Below
    <3> QED
      BY <1>8, <2>2, <3>1, Zenon
  <2> QED
    BY <2>1, <2>2
<1> QED
  BY <1>2, <1>7, <1>9, <1>10, Zenon

(* The median is one of the times, and of middle rank.                     *)
LEMMA MedianFacts ==
  ASSUME NEW n \in Nat \ {0}, NEW s \in [1..n -> 0..MaxTime]
  PROVE  /\ Median(s) \in 0..MaxTime
         /\ Cardinality(Below(s, n, Median(s))) <= n \div 2
         /\ n \div 2 < Cardinality(UpTo(s, n, Median(s)))
<1>1. DOMAIN s = 1..n /\ Len(s) = n /\ s # <<>>
  OBVIOUS
<1> DEFINE R == {s[i] : i \in DOMAIN s}
<1>2. ASSUME NEW v
      PROVE  HasMiddleRank(s, v) <=> /\ Cardinality(Below(s, n, v)) <= n \div 2
                                     /\ n \div 2 < Cardinality(UpTo(s, n, v))
  BY <1>1, Zenon DEF HasMiddleRank, Below, UpTo
<1>3. \E v \in R : HasMiddleRank(s, v)
  BY <1>1, <1>2, MiddleExists, Zenon
<1>4. Median(s) = CHOOSE v \in R : HasMiddleRank(s, v)
  BY <1>1, Zenon DEF Median
<1>5. Median(s) \in R /\ HasMiddleRank(s, Median(s))
  BY <1>3, <1>4, Zenon
<1>6. R \subseteq 0..MaxTime
  BY <1>1
<1> QED
  BY <1>2, <1>5, <1>6, Zenon

(* One more time that is above the median, and the oldest one left out at  *)
(* most: the median does not decrease.                                     *)
LEMMA MedianRises ==
  ASSUME NEW n \in Nat \ {0}, NEW s \in [1..n -> 0..MaxTime],
         NEW k \in {n, n + 1}, NEW r \in [1..k -> 0..MaxTime],
         \A i \in 1..(k - 1) : r[i] = s[i + (n + 1 - k)],
         r[k] > Median(s)
  PROVE  Median(r) >= Median(s)
<1>1. PICK last \in Nat : last = MaxTime
  BY HeaderAssumption
<1>2. k \in Nat \ {0}
  OBVIOUS
<1>3. PICK m \in 0..last : /\ m = Median(s) /\ Cardinality(Below(s, n, m)) <= n \div 2
  BY <1>1, MedianFacts, Zenon
<1>4. PICK q \in 0..last : /\ q = Median(r) /\ k \div 2 < Cardinality(UpTo(r, k, q))
  BY <1>1, <1>2, MedianFacts, Zenon
<1> SUFFICES ASSUME q < m
             PROVE  FALSE
  BY <1>1, <1>3, <1>4
<1>5. PICK A, B : A = UpTo(r, k, q) /\ B = Below(s, n, m)
  OBVIOUS
<1>6. A \in SUBSET (1..k) /\ B \in SUBSET (1..n)
  BY <1>5, Zenon DEF UpTo, Below
<1>7. PICK shift \in {0, 1} : shift = n + 1 - k
  OBVIOUS
<1>8. ASSUME NEW i \in A
      PROVE  i + shift \in B
  <2>1. i \in 1..k /\ r[i] <= q
    BY <1>5 DEF UpTo
  <2>2. i # k
    BY <1>1, <1>2, <1>3, <2>1
  <2>3. i \in 1..(k - 1)
    BY <1>2, <2>1, <2>2
  <2>4. r[i] = s[i + shift] /\ i + shift \in 1..n
    BY <1>7, <2>3
  <2>5. s[i + shift] < m
    BY <1>1, <2>1, <2>4
  <2> QED
    BY <1>5, <2>4, <2>5 DEF Below
<1>9. PICK f : f = [i \in A |-> i + shift]
  BY Zenon
<1>10. f \in Injection(A, B)
  <2>1. f \in [A -> B]
    BY <1>8, <1>9
  <2>2. \A i, j \in A : f[i] = f[j] => i = j
    BY <1>2, <1>6, <1>9
  <2> QED
    BY <2>1, <2>2 DEF Injection, IsInjective
<1>11. IsFiniteSet(B) /\ Cardinality(B) \in 0..n
  BY <1>6, IndicesCount, Zenon
<1>12. Cardinality(A) <= Cardinality(B)
  BY <1>10, <1>11, FS_Injection, Zenon
<1>13. Cardinality(A) \in 0..k
  BY <1>2, <1>6, IndicesCount, Zenon
<1>14. n \div 2 <= k \div 2 /\ n \div 2 \in Nat /\ k \div 2 \in Nat
  OBVIOUS
<1>15. Cardinality(B) <= n \div 2 /\ k \div 2 < Cardinality(A)
  BY <1>3, <1>4, <1>5, Zenon
<1> QED
  BY <1>11, <1>12, <1>13, <1>14, <1>15

-----------------------------------------------------------------------------
(* A version that is no less than an enforced one counts for it: the       *)
(* conversion to size_t makes the versions above 2^31 larger, not smaller. *)
LEMMA CountsFor ==
  ASSUME NEW value \in 0..(UInt32Range - 1), NEW version \in 1..4, value >= version
  PROVE  VersionAtLeast(value, version)
<1>1. PICK width \in Nat : width = UInt32Range /\ width % 2 = 0 /\ width >= 8
  BY HeaderAssumption
<1>2. PICK range \in Nat : range = SizeRange /\ range >= width
  BY <1>1, HeaderAssumption
<1>3. PICK half \in Nat : half = width \div 2 /\ width = 2 * half
  BY <1>1
<1>4. CASE value >= half
  <2>1. ToInt32(value) = value - width
    BY <1>1, <1>3, <1>4 DEF ToInt32
  <2>2. (value - width) % range = value - width + range
    <3>1. value - width + range \in 0..(range - 1)
      BY <1>1, <1>2, <1>3, <1>4
    <3>2. PICK x \in Int : x = value - width
      BY <1>1
    <3>3. x + range \in 0..(range - 1) /\ range > 0
      BY <1>1, <1>2, <3>1, <3>2
    <3>4. x % range = x + range
      BY <1>2, <3>3
    <3> QED
      BY <3>2, <3>4
  <2>3. value - width + range >= version
    BY <1>1, <1>2, <1>3, <1>4
  <2> QED
    BY <1>2, <2>1, <2>2, <2>3 DEF VersionAtLeast
<1>5. CASE ~(value >= half)
  <2>1. ToInt32(value) = value
    BY <1>1, <1>3, <1>5 DEF ToInt32
  <2>2. value % range = value
    BY <1>1, <1>2, <1>3, <1>5
  <2> QED
    BY <1>2, <2>1, <2>2 DEF VersionAtLeast
<1> QED
  BY <1>4, <1>5

(* One more value that counts, and the oldest one left out at most: no     *)
(* fewer values count.                                                     *)
LEMMA CountStays ==
  ASSUME NEW n \in Nat, NEW s, DOMAIN s = 1..n,
         NEW k \in {n, n + 1}, NEW r, DOMAIN r = 1..k,
         \A i \in 1..(k - 1) : r[i] = s[i + (n + 1 - k)],
         NEW version, k # 0 => VersionAtLeast(r[k], version)
  PROVE  /\ CountAtLeast(s, version) \in Nat /\ CountAtLeast(r, version) \in Nat
         /\ CountAtLeast(s, version) <= CountAtLeast(r, version)
<1>1. k \in Nat
  OBVIOUS
<1>2. PICK A, B : /\ A = {i \in 1..n : VersionAtLeast(s[i], version)}
                  /\ B = {i \in 1..k : VersionAtLeast(r[i], version)}
  BY Zenon
<1>3. CountAtLeast(s, version) = Cardinality(A) /\ CountAtLeast(r, version) = Cardinality(B)
  BY <1>2, Zenon DEF CountAtLeast
<1>4. A \in SUBSET (1..n) /\ B \in SUBSET (1..k)
  BY <1>2, Zenon
<1>5. /\ IsFiniteSet(A) /\ Cardinality(A) \in 0..n
      /\ IsFiniteSet(B) /\ Cardinality(B) \in 0..k
  BY <1>1, <1>4, IndicesCount, Zenon
<1>6. PICK place : place = [i \in A |-> IF k = n THEN IF i = 1 THEN n ELSE i - 1 ELSE i]
  BY Zenon
<1>7. ASSUME NEW i \in A
      PROVE  place[i] \in B
  <2>1. i \in 1..n /\ VersionAtLeast(s[i], version)
    BY <1>2, Zenon
  <2>2. CASE k = n /\ i = 1
    <3>1. place[i] = k /\ k \in 1..k /\ k # 0
      BY <1>6, <2>1, <2>2
    <3> QED
      BY <1>2, <3>1, Zenon
  <2>3. CASE k = n /\ i # 1
    <3>1. place[i] = i - 1 /\ i - 1 \in 1..(k - 1) /\ i - 1 \in 1..k
      BY <1>6, <2>1, <2>3
    <3>2. r[i - 1] = s[(i - 1) + (n + 1 - k)] /\ (i - 1) + (n + 1 - k) = i
      BY <2>1, <2>3, <3>1
    <3> QED
      BY <1>2, <2>1, <3>1, <3>2, Zenon
  <2>4. CASE k = n + 1
    <3>1. k # n /\ i \in 1..(k - 1) /\ i \in 1..k /\ i + (n + 1 - k) = i
      BY <2>1, <2>4
    <3>2. place[i] = i
      BY <1>6, <3>1, Zenon
    <3>3. r[i] = s[i]
      BY <3>1, Zenon
    <3> QED
      BY <1>2, <2>1, <3>1, <3>2, <3>3, Zenon
  <2> QED
    BY <2>2, <2>3, <2>4
<1>8. place \in Injection(A, B)
  <2>1. place \in [A -> B]
    BY <1>6, <1>7, Zenon
  <2>2. \A i, j \in A : place[i] = place[j] => i = j
    BY <1>4, <1>6
  <2> QED
    BY <2>1, <2>2 DEF Injection, IsInjective
<1>9. Cardinality(A) <= Cardinality(B)
  BY <1>5, <1>8, FS_Injection, Zenon
<1> QED
  BY <1>3, <1>5, <1>9

-----------------------------------------------------------------------------
(* The minimum version, case by case.                                      *)
LEMMA MinimumCases ==
  ASSUME NEW a
  PROVE  /\ Enforced(a, 4, Bip65Freeze) => MinimumVersion(a) = 4
         /\ ~Enforced(a, 4, Bip65Freeze) /\ Enforced(a, 3, Bip66Freeze) =>
              MinimumVersion(a) = 3
         /\ ~Enforced(a, 4, Bip65Freeze) /\ ~Enforced(a, 3, Bip66Freeze)
              /\ Enforced(a, 2, Bip34Freeze) => MinimumVersion(a) = 2
         /\ ~Enforced(a, 4, Bip65Freeze) /\ ~Enforced(a, 3, Bip66Freeze)
              /\ ~Enforced(a, 2, Bip34Freeze) => MinimumVersion(a) = 1
BY Zenon DEF MinimumVersion

(* If what a state enforces of its minimum version stays enforced, its     *)
(* minimum version does not decrease.                                      *)
LEMMA MinimumStays ==
  ASSUME NEW a, NEW b,
         \A version \in {2, 3, 4} : \A freeze \in {Bip34Freeze, Bip66Freeze, Bip65Freeze} :
           version <= MinimumVersion(a) /\ Enforced(a, version, freeze) =>
             Enforced(b, version, freeze)
  PROVE  MinimumVersion(b) >= MinimumVersion(a)
<1>1. PICK x, y : x = MinimumVersion(a) /\ y = MinimumVersion(b)
  OBVIOUS
<1>2. PICK a4, a3, a2, b4, b3, b2 \in BOOLEAN :
        /\ a4 = Enforced(a, 4, Bip65Freeze) /\ b4 = Enforced(b, 4, Bip65Freeze)
        /\ a3 = Enforced(a, 3, Bip66Freeze) /\ b3 = Enforced(b, 3, Bip66Freeze)
        /\ a2 = Enforced(a, 2, Bip34Freeze) /\ b2 = Enforced(b, 2, Bip34Freeze)
  BY Zenon DEF Enforced
<1>3. /\ a4 => x = 4
      /\ ~a4 /\ a3 => x = 3
      /\ ~a4 /\ ~a3 /\ a2 => x = 2
      /\ ~a4 /\ ~a3 /\ ~a2 => x = 1
  BY <1>1, <1>2, MinimumCases, Zenon
<1>4. /\ b4 => y = 4
      /\ ~b4 /\ b3 => y = 3
      /\ ~b4 /\ ~b3 /\ b2 => y = 2
      /\ ~b4 /\ ~b3 /\ ~b2 => y = 1
  BY <1>1, <1>2, MinimumCases, Zenon
<1>5. /\ 4 <= x /\ a4 => b4
      /\ 3 <= x /\ a3 => b3
      /\ 2 <= x /\ a2 => b2
  BY <1>1, <1>2, Zenon
<1>6. y >= x
  BY <1>3, <1>4, <1>5
<1> QED
  BY <1>1, <1>6

-----------------------------------------------------------------------------
(* accept, over the chain.  A window of blocks that stay is the same.      *)
LEMMA WindowStays ==
  ASSUME NEW field, NEW height \in Nat, NEW count \in 0..height,
         \A g \in 0..(height - 1) : chain'[g] = chain[g]
  PROVE  Window(field, count, height)' = Window(field, count, height)
<1>1. \A i \in 1..count : height - 1 - count + i \in 0..(height - 1)
  OBVIOUS
<1>2. \A i \in 1..count :
        chain'[height - 1 - count + i][field] = chain[height - 1 - count + i][field]
  BY <1>1, Zenon
<1> QED
  BY <1>2, Zenon DEF Window

(* What is read of the past of a height depends on lower blocks only.      *)
LEMMA PastStays ==
  ASSUME NEW height \in Nat \ {0}, \A g \in 0..(height - 1) : chain'[g] = chain[g]
  PROVE  PastOf(height)' = PastOf(height)
<1>1. VersionCount(height) \in 0..height /\ TimestampCount(height) \in 0..height
  BY CountFacts, Zenon
<1>2. height \in Nat
  OBVIOUS
<1>3. Window("version", VersionCount(height), height)'
        = Window("version", VersionCount(height), height)
  BY <1>1, <1>2, WindowStays, Zenon
<1>4. Window("time", TimestampCount(height), height)'
        = Window("time", TimestampCount(height), height)
  BY <1>1, <1>2, WindowStays, Zenon
<1> QED
  BY <1>3, <1>4, Zenon DEF PastOf

(* accept depends on the past of a state only.                             *)
LEMMA PastDecides ==
  ASSUME NEW a, NEW b, a.height = b.height, a.version.ordered = b.version.ordered,
         a.timestamp.ordered = b.timestamp.ordered
  PROVE  /\ MinimumVersion(a) = MinimumVersion(b)
         /\ MedianTimePast(a) = MedianTimePast(b)
BY Zenon DEF MinimumVersion, Enforced, MedianTimePast, MedianTimePastAt

(* The past of its height is what a state carries.                         *)
LEMMA PastOfState ==
  ASSUME IInv
  PROVE  /\ MinimumVersion(data) = MinimumVersion(PastOf(data.height))
         /\ MedianTimePast(data) = MedianTimePast(PastOf(data.height))
<1>1. PICK p : p = PastOf(data.height)
  OBVIOUS
<1>2. /\ p.height = data.height
      /\ p.version.ordered = data.version.ordered
      /\ p.timestamp.ordered = data.timestamp.ordered
  BY <1>1, Zenon DEF PastOf, IInv, WindowsAreExact
<1>3. MinimumVersion(data) = MinimumVersion(p) /\ MedianTimePast(data) = MedianTimePast(p)
  BY <1>2, PastDecides, Zenon
<1> QED
  BY <1>1, <1>3, Zenon

(* The invariants of accept together.                                      *)
RulesInv == IInv /\ HeadersInv /\ AcceptedInv

(* A block that is accepted on top.                                        *)
LEMMA AppendedRules ==
  ASSUME RulesInv, IInv', kind' = "block", NEW header, Extend(header),
         header.time \in 0..MaxTime, header.version \in 0..(UInt32Range - 1),
         NEW state, state = data', Accept(header, state)
  PROVE  HeadersInv' /\ AcceptedInv'
<1>1. PICK n \in Nat : DOMAIN chain = 0..n /\ Top = n
  BY DEF RulesInv, IInv, Grounded
<1>2. /\ DOMAIN chain' = 0..(n + 1) /\ Top' = n + 1 /\ chain'[n + 1] = header
      /\ \A h \in 0..n : chain'[h] = chain[h]
  BY <1>1, ExtendFacts, Zenon
<1>3. HeadersInv'
  <2>1. ASSUME NEW g \in 0..(n + 1)
        PROVE  chain'[g].time \in 0..MaxTime /\ chain'[g].version \in 0..(UInt32Range - 1)
    <3>1. g = n + 1 \/ g \in 0..n
      OBVIOUS
    <3>2. CASE g = n + 1
      BY <1>2, <3>2, Zenon
    <3>3. CASE g \in 0..n
      BY <1>1, <1>2, <3>3, Zenon DEF RulesInv, HeadersInv
    <3> QED
      BY <3>1, <3>2, <3>3
  <2> QED
    BY <1>2, <2>1, Zenon DEF HeadersInv
<1>4. data'.height = n + 1
  BY <1>2, Zenon DEF IInv
<1>5. ASSUME NEW g \in 1..(n + 1), ~IsUnderCheckpoint(g)
      PROVE  /\ chain'[g].version >= MinimumVersion(PastOf(g)')
             /\ chain'[g].time > MedianTimePast(PastOf(g)')
  <2>1. CASE g = n + 1
    <3>1. PICK p : p = PastOf(g)'
      OBVIOUS
    <3>2. MinimumVersion(data') = MinimumVersion(p) /\ MedianTimePast(data') = MedianTimePast(p)
      <4>1. /\ p.height = data'.height
            /\ p.version.ordered = data'.version.ordered
            /\ p.timestamp.ordered = data'.timestamp.ordered
        BY <1>4, <2>1, <3>1, Zenon DEF PastOf, IInv, WindowsAreExact, Window
      <4>2. PICK q : q = data'
        OBVIOUS
      <4> QED
        BY <4>1, <4>2, PastDecides, Zenon
    <3>3. /\ header.version >= MinimumVersion(data')
          /\ header.time > MedianTimePast(data')
      BY <1>4, <1>5, <2>1, Zenon DEF Accept
    <3> QED
      BY <1>2, <2>1, <3>1, <3>2, <3>3, Zenon
  <2>2. CASE g # n + 1
    <3>1. g \in 1..n /\ g \in 0..n /\ g \in Nat \ {0}
      BY <2>2
    <3>2. \A i \in 0..(g - 1) : chain'[i] = chain[i]
      <4>1. \A i \in 0..(g - 1) : i \in 0..n
        BY <3>1
      <4> QED
        BY <1>2, <4>1, Zenon
    <3>3. PastOf(g)' = PastOf(g)
      BY <3>1, <3>2, PastStays, Zenon
    <3>4. /\ chain[g].version >= MinimumVersion(PastOf(g))
          /\ chain[g].time > MedianTimePast(PastOf(g))
      BY <1>1, <1>5, <3>1, Zenon DEF RulesInv, AcceptedInv
    <3> QED
      BY <1>2, <3>1, <3>3, <3>4, Zenon
  <2> QED
    BY <2>1, <2>2
<1>6. AcceptedInv'
  BY <1>2, <1>5, Zenon DEF AcceptedInv
<1> QED
  BY <1>3, <1>6

(* A chain that is kept, or cut.                                           *)
LEMMA CutRules ==
  ASSUME RulesInv, NEW n \in Nat, DOMAIN chain' = 0..n, n <= Top,
         \A h \in 0..n : chain'[h] = chain[h]
  PROVE  HeadersInv' /\ AcceptedInv'
<1>1. PICK top \in Nat : DOMAIN chain = 0..top /\ Top = top /\ n <= top
  BY DEF RulesInv, IInv, Grounded
<1>2. Top' = n
  BY DEF Top, Max
<1>3. HeadersInv'
  <2>1. \A g \in 0..n : g \in DOMAIN chain
    BY <1>1
  <2> QED
    BY <2>1, Zenon DEF HeadersInv, RulesInv
<1>4. ASSUME NEW g \in 1..n, ~IsUnderCheckpoint(g)
      PROVE  /\ chain'[g].version >= MinimumVersion(PastOf(g)')
             /\ chain'[g].time > MedianTimePast(PastOf(g)')
  <2>1. g \in 1..top /\ g \in 0..n /\ g \in Nat \ {0}
    BY <1>1
  <2>2. \A i \in 0..(g - 1) : chain'[i] = chain[i]
    <3>1. \A i \in 0..(g - 1) : i \in 0..n
      BY <2>1
    <3> QED
      BY <3>1, Zenon
  <2>3. PastOf(g)' = PastOf(g)
    BY <2>1, <2>2, PastStays, Zenon
  <2>4. /\ chain[g].version >= MinimumVersion(PastOf(g))
        /\ chain[g].time > MedianTimePast(PastOf(g))
    BY <1>1, <1>4, <2>1, Zenon DEF RulesInv, AcceptedInv
  <2> QED
    BY <2>1, <2>3, <2>4, Zenon
<1>5. AcceptedInv'
  BY <1>2, <1>4, Zenon DEF AcceptedInv
<1> QED
  BY <1>3, <1>5

(* The header of a candidate for a height within the bound.                *)
LEMMA CandidateFits ==
  ASSUME NEW state, state.height \in 0..MaxHeight, NEW header \in Candidates(state)
  PROVE  header.time \in 0..MaxTime /\ header.version \in 0..(UInt32Range - 1)
<1>1. PICK version \in Versions, time \in Times(state.height) :
        header.version = version /\ header.time = time
  BY DEF Candidates
<1> QED
  BY <1>1, HeaderAssumption

(* Every step keeps the widths of the headers and what accept tested.      *)
LEMMA NextRules ==
  ASSUME RulesInv, [Next]_vars
  PROVE  RulesInv'
<1>1. IInv'
  BY NextInv, Zenon DEF RulesInv
<1>2. PICK n \in Nat : DOMAIN chain = 0..n /\ Top = n
  BY DEF RulesInv, IInv, Grounded
<1>3. CASE \E height \in 0..MaxHeight : Repopulate(height)
  <2>1. PICK height \in 0..MaxHeight : Repopulate(height)
    BY <1>3, Zenon
  <2>2. height \in Nat /\ height <= n /\ chain' = [h \in 0..height |-> chain[h]]
    BY <1>2, <2>1, HeaderAssumption DEF Repopulate
  <2>3. /\ DOMAIN chain' = 0..height /\ height <= Top
        /\ \A h \in 0..height : chain'[h] = chain[h]
    BY <1>2, <2>2, Zenon
  <2> QED
    BY <1>1, <2>2, <2>3, CutRules, Zenon DEF RulesInv
<1>4. CASE kind = "pool" /\ \E header \in Candidates(data) : PromoteToBlock(header)
  <2>1. PICK header \in Candidates(data) : PromoteToBlock(header)
    BY <1>4, Zenon
  <2>2. data.height \in 0..MaxHeight
    BY <1>2, <1>4, <2>1, HeaderAssumption, SMTT(30) DEF PromoteToBlock, RulesInv, IInv
  <2>3. header.time \in 0..MaxTime /\ header.version \in 0..(UInt32Range - 1)
    BY <2>2, CandidateFits, Zenon
  <2>4. /\ kind' = "block" /\ Extend(header)
        /\ Accept(header, data')
    BY <2>1, Zenon DEF PromoteToBlock
  <2> QED
    BY <1>1, <2>3, <2>4, AppendedRules, Zenon DEF RulesInv
<1>5. CASE PromoteToPool
  <2>1. chain' = chain
    BY <1>5, Zenon DEF PromoteToPool
  <2>2. DOMAIN chain' = 0..n /\ n <= Top /\ \A h \in 0..n : chain'[h] = chain[h]
    BY <1>2, <2>1
  <2> QED
    BY <1>1, <2>2, CutRules, Zenon DEF RulesInv
<1>6. CASE kind = "block" /\ \E header \in Candidates(ToPool(data)) : PromoteToHeader(header)
  <2>1. PICK header \in Candidates(ToPool(data)) : PromoteToHeader(header)
    BY <1>6, Zenon
  <2>2. ToPool(data).height \in 0..MaxHeight
    <3>1. ToPool(data).height = data.height + 1 /\ Top < MaxHeight
      BY <2>1, Zenon DEF PromoteToHeader, ToPool
    <3>2. data.height = n
      BY <1>2, <1>6, Zenon DEF RulesInv, IInv
    <3> QED
      BY <1>2, <3>1, <3>2, HeaderAssumption
  <2>3. header.time \in 0..MaxTime /\ header.version \in 0..(UInt32Range - 1)
    BY <2>2, CandidateFits, Zenon
  <2>4. /\ kind' = "block" /\ Extend(header)
        /\ Accept(header, data')
    BY <2>1, Zenon DEF PromoteToHeader
  <2> QED
    BY <1>1, <2>3, <2>4, AppendedRules, Zenon DEF RulesInv
<1>7. CASE UNCHANGED vars
  <2>1. chain' = chain
    BY <1>7, Zenon DEF vars
  <2>2. DOMAIN chain' = 0..n /\ n <= Top /\ \A h \in 0..n : chain'[h] = chain[h]
    BY <1>2, <2>1
  <2> QED
    BY <1>1, <2>2, CutRules, Zenon DEF RulesInv
<1> QED
  BY <1>3, <1>4, <1>5, <1>6, <1>7, Zenon DEF Next

(* Every block above the checkpoints was accepted against its own past.    *)
THEOREM AcceptedAgainstPast == Spec => []RulesInv
<1>1. Init => RulesInv
  <2> SUFFICES ASSUME Init
               PROVE  RulesInv
    OBVIOUS
  <2>1. DOMAIN chain = 0..0 /\ chain[0] = Genesis
    BY DEF Init
  <2>2. Top = 0
    BY <2>1, TopFact
  <2>3. HeadersInv
    <3>1. \A g \in 0..0 : g = 0
      OBVIOUS
    <3> QED
      BY <2>1, <3>1, HeaderAssumption, Zenon DEF HeadersInv
  <2>4. AcceptedInv
    <3>1. 1..0 = {}
      OBVIOUS
    <3> QED
      BY <2>2, <3>1, Zenon DEF AcceptedInv
  <2> QED
    BY <2>3, <2>4, InitInv, Zenon DEF RulesInv
<1> QED
  BY <1>1, NextRules, PTL DEF Spec

(* A step to a greater height leaves the blocks below it; one that stays   *)
(* at a height leaves them or cuts the chain.                              *)
LEMMA StepKinds ==
  ASSUME IInv, [Next]_vars
  PROVE  \/ data'.height < data.height
         \/ /\ data'.height = data.height
            /\ Top' < Top \/ \A g \in 0..Top : chain'[g] = chain[g]
         \/ /\ kind = "block" /\ data'.height = data.height + 1
            /\ \A g \in 0..Top : chain'[g] = chain[g]
<1>1. IInv'
  BY NextInv, Zenon
<1>2. PICK n \in Nat : DOMAIN chain = 0..n /\ Top = n
  BY DEF IInv, Grounded
<1>3. data.height = IF kind = "pool" THEN n + 1 ELSE n
  BY <1>2, Zenon DEF IInv
<1>4. kind \in {"pool", "block"}
  BY Zenon DEF IInv
<1>5. CASE \E height \in 0..MaxHeight : Repopulate(height)
  <2>1. PICK height \in 0..MaxHeight : Repopulate(height)
    BY <1>5, Zenon
  <2>2. height \in Nat /\ height <= n /\ chain' = [h \in 0..height |-> chain[h]] /\ kind' = "pool"
    BY <1>2, <2>1, HeaderAssumption DEF Repopulate
  <2>3. Top' = height
    BY <2>2 DEF Top, Max
  <2>4. data'.height = height + 1
    BY <1>1, <2>2, <2>3, Zenon DEF IInv
  <2>5. height = n => \A g \in 0..Top : chain'[g] = chain[g]
    BY <1>2, <2>2, Zenon
  <2> QED
    BY <1>2, <1>3, <1>4, <2>2, <2>3, <2>4, <2>5, SMTT(20)
<1>6. ASSUME NEW header, Extend(header), kind' = "block"
      PROVE  /\ data'.height = n + 1
             /\ \A g \in 0..Top : chain'[g] = chain[g]
  <2>1. Top' = n + 1 /\ \A h \in 0..n : chain'[h] = chain[h]
    BY <1>2, <1>6, ExtendFacts, Zenon
  <2>2. data'.height = n + 1
    BY <1>1, <1>6, <2>1, Zenon DEF IInv
  <2> QED
    BY <1>2, <2>1, <2>2, Zenon
<1>7. CASE kind = "pool" /\ \E header \in Candidates(data) : PromoteToBlock(header)
  <2>1. PICK header : Extend(header) /\ kind' = "block"
    BY <1>7, Zenon DEF PromoteToBlock
  <2>2. data'.height = n + 1 /\ data.height = n + 1
    BY <1>3, <1>6, <1>7, <2>1, Zenon
  <2> QED
    BY <1>6, <2>1, <2>2, Zenon
<1>8. CASE PromoteToPool
  <2>1. kind = "block" /\ kind' = "pool" /\ chain' = chain
    BY <1>8, Zenon DEF PromoteToPool
  <2>2. Top' = n
    BY <1>2, <2>1 DEF Top
  <2>3. data'.height = n + 1 /\ data.height = n
    BY <1>1, <1>3, <2>1, <2>2 DEF IInv
  <2> QED
    BY <2>1, <2>3, Zenon
<1>9. CASE kind = "block" /\ \E header \in Candidates(ToPool(data)) : PromoteToHeader(header)
  <2>1. PICK header : Extend(header) /\ kind' = "block"
    BY <1>9, Zenon DEF PromoteToHeader
  <2>2. data'.height = n + 1 /\ data.height = n
    BY <1>3, <1>6, <1>9, <2>1
  <2> QED
    BY <1>6, <1>9, <2>1, <2>2, Zenon
<1>10. CASE UNCHANGED vars
  BY <1>10, Zenon DEF vars
<1> QED
  BY <1>5, <1>7, <1>8, <1>9, <1>10, Zenon DEF Next

-----------------------------------------------------------------------------
(* The median of a full or a bitcoin window is that of the last times.     *)
LEMMA MedianIsLast ==
  ASSUME NEW height \in Nat \ {0},
         Currency = "BTC" \/ height >= ChainStateTimestampCount
  PROVE  MedianTimePast(PastOf(height)) = Median(LastTimes(height))
<1>1. MedianTimePast(PastOf(height))
        = Median(TimestampsSubset(Window("time", TimestampCount(height), height), TRUE))
  BY Zenon DEF MedianTimePast, MedianTimePastAt, PastOf
<1>2. CASE Currency = "BTC"
  BY <1>1, <1>2, PlainSubset, Zenon
<1>3. CASE Currency = "BCH" /\ height >= ChainStateTimestampCount
  <2>1. Lesser(height, MedianTimePastInterval) = MedianTimePastInterval
    BY <1>3, ChainAssumption, CashAssumption DEF Lesser
  <2> QED
    BY <1>1, <1>3, <2>1, CashSubset, Zenon DEF LastTimes
<1> QED
  BY <1>2, <1>3, ChainAssumption

(* A block above the median of the last times does not lower the next one. *)
LEMMA LastRises ==
  ASSUME NEW height \in Nat \ {0},
         \A g \in 0..height : chain[g].time \in 0..MaxTime,
         chain[height].time > Median(LastTimes(height))
  PROVE  Median(LastTimes(height + 1)) >= Median(LastTimes(height))
<1>1. PICK m \in Nat \ {0} : m = MedianTimePastInterval
  BY ChainAssumption
<1>2. PICK n \in 1..height : n = Lesser(height, m)
  BY DEF Lesser
<1>3. PICK k \in {n, n + 1} : k = Lesser(height + 1, m)
  BY <1>2 DEF Lesser
<1>4. PICK s, r : s = LastTimes(height) /\ r = LastTimes(height + 1)
  OBVIOUS
<1>5. s = [i \in 1..n |-> chain[height - 1 - n + i].time]
  BY <1>1, <1>2, <1>4, Zenon DEF LastTimes, Window
<1>6. r = [i \in 1..k |-> chain[(height + 1) - 1 - k + i].time]
  BY <1>1, <1>3, <1>4, Zenon DEF LastTimes, Window
<1>7. n \in Nat \ {0} /\ k \in 1..(height + 1)
  BY <1>2, <1>3
<1>8. s \in [1..n -> 0..MaxTime]
  <2>1. \A i \in 1..n : height - 1 - n + i \in 0..height
    BY <1>7
  <2> QED
    BY <1>5, <2>1, Zenon
<1>9. r \in [1..k -> 0..MaxTime]
  <2>1. \A i \in 1..k : (height + 1) - 1 - k + i \in 0..height
    BY <1>7
  <2> QED
    BY <1>6, <2>1, Zenon
<1>10. \A i \in 1..(k - 1) : r[i] = s[i + (n + 1 - k)]
  <2> TAKE i \in 1..(k - 1)
  <2>1. i \in 1..k /\ i + (n + 1 - k) \in 1..n
    BY <1>3, <1>7
  <2>2. height - 1 - n + (i + (n + 1 - k)) = (height + 1) - 1 - k + i
    BY <1>3, <1>7
  <2> QED
    BY <1>5, <1>6, <2>1, <2>2, Zenon
<1>11. r[k] > Median(s)
  <2>1. k \in 1..k /\ (height + 1) - 1 - k + k = height
    BY <1>7
  <2> QED
    BY <1>4, <1>6, <2>1, Zenon
<1> QED
  BY <1>4, <1>7, <1>8, <1>9, <1>10, <1>11, MedianRises, Zenon

(* A block of the version its past enforces keeps it enforced.             *)
LEMMA MinimumRises ==
  ASSUME NEW height \in Nat \ {0},
         \A g \in 0..height : chain[g].version \in 0..(UInt32Range - 1),
         chain[height].version >= MinimumVersion(PastOf(height))
  PROVE  MinimumVersion(PastOf(height + 1)) >= MinimumVersion(PastOf(height))
<1>1. PICK n \in 0..height : n = VersionCount(height)
  BY CountFacts, Zenon
<1>2. PICK k \in {n, n + 1} : k = VersionCount(height + 1)
  BY <1>1, ChainAssumption DEF VersionCount, Lesser
<1>3. PICK s, r : s = Window("version", n, height) /\ r = Window("version", k, height + 1)
  OBVIOUS
<1>4. s = [i \in 1..n |-> chain[height - 1 - n + i].version]
  BY <1>3, Zenon DEF Window
<1>5. r = [i \in 1..k |-> chain[(height + 1) - 1 - k + i].version]
  BY <1>3, Zenon DEF Window
<1>6. n \in Nat /\ k \in 0..(height + 1) /\ DOMAIN s = 1..n /\ DOMAIN r = 1..k
  BY <1>1, <1>2, <1>4, <1>5
<1>7. \A i \in 1..(k - 1) : r[i] = s[i + (n + 1 - k)]
  <2> TAKE i \in 1..(k - 1)
  <2>1. i \in 1..k /\ i + (n + 1 - k) \in 1..n
    BY <1>2, <1>6
  <2>2. height - 1 - n + (i + (n + 1 - k)) = (height + 1) - 1 - k + i
    BY <1>2, <1>6, SMTT(20)
  <2> QED
    BY <1>4, <1>5, <2>1, <2>2, Zenon
<1>8. k # 0 => r[k] = chain[height].version
  <2> SUFFICES ASSUME k # 0
               PROVE  r[k] = chain[height].version
    OBVIOUS
  <2>1. k \in 1..k /\ (height + 1) - 1 - k + k = height
    BY <1>6
  <2> QED
    BY <1>5, <2>1, Zenon
<1>9. PICK a, b : a = PastOf(height) /\ b = PastOf(height + 1)
  OBVIOUS
<1>10. /\ a.height = height /\ a.version.ordered = s
       /\ b.height = height + 1 /\ b.version.ordered = r
  BY <1>1, <1>2, <1>3, <1>9, Zenon DEF PastOf
<1>11. ASSUME NEW version \in {2, 3, 4}, NEW freeze \in {Bip34Freeze, Bip66Freeze, Bip65Freeze},
              version <= MinimumVersion(a), Enforced(a, version, freeze)
       PROVE  Enforced(b, version, freeze)
  <2>1. freeze \in Nat /\ Enforce \in Nat
    BY ChainAssumption
  <2>2. CASE Frozen(a.height, freeze)
    <3>1. Frozen(b.height, freeze)
      BY <1>10, <2>1, <2>2 DEF Frozen
    <3> QED
      BY <3>1, Zenon DEF Enforced
  <2>3. CASE CountAtLeast(a.version.ordered, version) >= Enforce
    <3>1. height \in 0..height
      OBVIOUS
    <3>2. PICK value \in 0..(UInt32Range - 1) : value = chain[height].version
      BY <3>1, Zenon
    <3>3. MinimumVersion(a) \in 1..4
      BY MinimumCases
    <3>4. version \in 1..4 /\ value >= version
      <4>1. value \in Int
        BY <3>2, HeaderAssumption
      <4>2. value >= MinimumVersion(a)
        BY <1>9, <3>2, Zenon
      <4> QED
        BY <1>11, <3>3, <4>1, <4>2
    <3>5. VersionAtLeast(value, version)
      BY <3>4, CountsFor, Zenon
    <3>6. k # 0 => VersionAtLeast(r[k], version)
      BY <1>8, <3>2, <3>5, Zenon
    <3>7. /\ CountAtLeast(s, version) \in Nat /\ CountAtLeast(r, version) \in Nat
          /\ CountAtLeast(s, version) <= CountAtLeast(r, version)
      BY <1>6, <1>7, <3>6, CountStays, Zenon
    <3>8. CountAtLeast(s, version) >= Enforce
      BY <1>10, <2>3, Zenon
    <3>9. CountAtLeast(r, version) >= Enforce
      BY <2>1, <3>7, <3>8
    <3> QED
      BY <1>10, <3>9, Zenon DEF Enforced
  <2> QED
    BY <1>11, <2>2, <2>3, Zenon DEF Enforced
<1>12. \A version \in {2, 3, 4} : \A freeze \in {Bip34Freeze, Bip66Freeze, Bip65Freeze} :
         version <= MinimumVersion(a) /\ Enforced(a, version, freeze) =>
           Enforced(b, version, freeze)
  BY <1>11
<1>13. MinimumVersion(b) >= MinimumVersion(a)
  BY <1>12, MinimumStays, Zenon
<1> QED
  BY <1>9, <1>13, Zenon

(* The past of the state after a step.                                     *)
LEMMA PastOfNext ==
  ASSUME IInv', NEW height, data'.height = height
  PROVE  /\ MinimumVersion(data') = MinimumVersion(PastOf(height)')
         /\ MedianTimePast(data') = MedianTimePast(PastOf(height)')
<1>1. PICK p : p = PastOf(height)'
  OBVIOUS
<1>2. /\ p.height = data'.height
      /\ p.version.ordered = data'.version.ordered
      /\ p.timestamp.ordered = data'.timestamp.ordered
  BY <1>1, Zenon DEF PastOf, IInv, WindowsAreExact, Window
<1>3. MinimumVersion(data') = MinimumVersion(p) /\ MedianTimePast(data') = MedianTimePast(p)
  <2>1. PICK q : q = data'
    OBVIOUS
  <2> QED
    BY <1>2, <2>1, PastDecides, Zenon
<1> QED
  BY <1>1, <1>3, Zenon

(* Above the checkpoints the median time past never decreases from one     *)
(* height to the next and a version once enforced stays enforced.          *)
THEOREM RulesStay == Spec => RulesNeverLoosen
<1>1. ASSUME RulesInv, [Next]_vars, ~IsUnderCheckpoint(data.height)
      PROVE  MedianStays /\ VersionStays
  <2>1. IInv /\ IInv'
    BY <1>1, NextInv, Zenon DEF RulesInv
  <2>2. PICK h \in Nat \ {0} : h = data.height
    BY <2>1 DEF IInv
  <2>3. PICK n \in Nat : DOMAIN chain = 0..n /\ Top = n
    BY <2>1 DEF IInv, Grounded
  <2>4. PICK next \in Nat \ {0} : next = data'.height
    BY <2>1 DEF IInv
  <2>5. /\ MinimumVersion(data) = MinimumVersion(PastOf(h))
        /\ MedianTimePast(data) = MedianTimePast(PastOf(h))
    BY <2>1, <2>2, PastOfState, Zenon
  <2>6. /\ MinimumVersion(data') = MinimumVersion(PastOf(next)')
        /\ MedianTimePast(data') = MedianTimePast(PastOf(next)')
    BY <2>1, <2>4, PastOfNext, Zenon
  <2>7. MinimumVersion(data) \in 1..4
    BY MinimumCases
  <2>8. \/ next < h
        \/ next = h /\ (Top' < Top \/ \A g \in 0..Top : chain'[g] = chain[g])
        \/ kind = "block" /\ next = h + 1 /\ \A g \in 0..Top : chain'[g] = chain[g]
    BY <1>1, <2>1, <2>2, <2>4, StepKinds, Zenon
  <2>9. CASE next < h
    BY <2>2, <2>4, <2>9 DEF MedianStays, VersionStays
  <2>10. CASE next = h /\ Top' < Top
    <3>1. Top' \in Nat
      BY <2>1 DEF IInv, Grounded
    <3> QED
      BY <2>2, <2>3, <2>4, <2>10, <3>1, SMTT(20) DEF MedianStays, VersionStays
  <2>11. CASE next = h /\ \A g \in 0..Top : chain'[g] = chain[g]
    <3>1. h <= n + 1
      BY <2>1, <2>2, <2>3 DEF IInv
    <3>2. \A g \in 0..(h - 1) : chain'[g] = chain[g]
      BY <2>3, <2>11, <3>1
    <3>3. PastOf(h)' = PastOf(h)
      BY <3>2, PastStays, Zenon
    <3>4. MinimumVersion(data') = MinimumVersion(data)
      BY <2>5, <2>6, <2>11, <3>3, Zenon
    <3>5. ~(data'.height > data.height)
      BY <2>2, <2>4, <2>11
    <3> QED
      BY <2>7, <3>4, <3>5, SMTT(20) DEF MedianStays, VersionStays
  <2>12. CASE kind = "block" /\ next = h + 1 /\ \A g \in 0..Top : chain'[g] = chain[g]
    <3>1. h = n
      BY <2>1, <2>2, <2>3, <2>12, Zenon DEF IInv
    <3>2. \A g \in 0..((h + 1) - 1) : chain'[g] = chain[g]
      BY <2>3, <2>12, <3>1
    <3>3. h + 1 \in Nat \ {0}
      OBVIOUS
    <3>4. PastOf(h + 1)' = PastOf(h + 1)
      BY <3>2, <3>3, PastStays, Zenon
    <3>5. \A g \in 0..h : /\ chain[g].time \in 0..MaxTime
                           /\ chain[g].version \in 0..(UInt32Range - 1)
      BY <1>1, <2>3, <3>1, Zenon DEF RulesInv, HeadersInv
    <3>6. /\ chain[h].version >= MinimumVersion(PastOf(h))
          /\ chain[h].time > MedianTimePast(PastOf(h))
      <4>1. h \in 1..n
        BY <3>1
      <4> QED
        BY <1>1, <2>2, <2>3, <4>1, Zenon DEF RulesInv, AcceptedInv
    <3>7. MinimumVersion(PastOf(h + 1)) >= MinimumVersion(PastOf(h))
      BY <3>5, <3>6, MinimumRises, Zenon
    <3>8. VersionStays
      BY <2>5, <2>6, <2>12, <3>4, <3>7, Zenon DEF VersionStays
    <3>9. ASSUME Currency = "BTC" \/ data.height >= ChainStateTimestampCount
          PROVE  MedianTimePast(data') >= MedianTimePast(data)
      <4>1. Currency = "BTC" \/ h >= ChainStateTimestampCount
        BY <2>2, <3>9, Zenon
      <4>2. Currency = "BTC" \/ h + 1 >= ChainStateTimestampCount
        BY <4>1, ChainAssumption
      <4>3. MedianTimePast(PastOf(h)) = Median(LastTimes(h))
        BY <4>1, MedianIsLast, Zenon
      <4>4. MedianTimePast(PastOf(h + 1)) = Median(LastTimes(h + 1))
        BY <3>3, <4>2, MedianIsLast, Zenon
      <4>5. Median(LastTimes(h + 1)) >= Median(LastTimes(h))
        BY <3>5, <3>6, <4>3, LastRises, Zenon
      <4> QED
        BY <2>5, <2>6, <2>12, <3>4, <4>3, <4>4, <4>5, Zenon
    <3> QED
      BY <3>8, <3>9, Zenon DEF MedianStays
  <2> QED
    BY <2>8, <2>9, <2>10, <2>11, <2>12, Zenon
<1>2. RulesInv /\ [Next]_vars => [~IsUnderCheckpoint(data.height) => MedianStays /\ VersionStays]_vars
  BY <1>1
<1> QED
  BY <1>2, AcceptedAgainstPast, PTL DEF Spec, RulesNeverLoosen

-----------------------------------------------------------------------------
(* What does not decrease from one height to the next does not over many.  *)
LEMMA Climbs ==
  ASSUME NEW low \in Nat, NEW high \in Nat, low <= high, NEW f,
         \A g \in low..high : f[g] \in Int,
         \A g \in low..(high - 1) : f[g + 1] >= f[g]
  PROVE  f[high] >= f[low]
<1> DEFINE T == {g \in low..high : ~(f[g] >= f[low])}
<1>1. SUFFICES ASSUME T # {}
               PROVE  FALSE
  <2>1. high \in low..high
    OBVIOUS
  <2> QED
    BY <1>1, <2>1
<1>2. T \subseteq Nat
  OBVIOUS
<1>3. PICK x \in T : \A y \in T : x <= y
  <2> HIDE DEF T
  <2> QED
    BY <1>1, <1>2, LeastNat, Zenon
<1>4. x \in low..high /\ ~(f[x] >= f[low])
  BY <1>3
<1>5. f[low] \in Int /\ x # low
  BY <1>4
<1>6. PICK w \in low..(high - 1) : x = w + 1 /\ w \in low..high /\ ~(x <= w)
  <2>1. x - 1 \in low..(high - 1) /\ x = (x - 1) + 1 /\ x - 1 \in low..high /\ ~(x <= x - 1)
    BY <1>4, <1>5
  <2> QED
    BY <2>1, Zenon
<1>7. w \notin T
  BY <1>3, <1>6, Zenon
<1>8. f[w] >= f[low] /\ f[w] \in Int /\ f[x] \in Int /\ f[x] >= f[w]
  BY <1>4, <1>6, <1>7
<1> QED
  BY <1>4, <1>5, <1>8

(* The median of the last times is a time.                                 *)
LEMMA LastMedianIsTime ==
  ASSUME NEW height \in Nat \ {0},
         \A g \in 0..(height - 1) : chain[g].time \in 0..MaxTime
  PROVE  Median(LastTimes(height)) \in Int
<1>1. PICK n \in 1..height : n = Lesser(height, MedianTimePastInterval)
  BY ChainAssumption DEF Lesser
<1>2. PICK s : s = LastTimes(height)
  OBVIOUS
<1>3. s = [i \in 1..n |-> chain[height - 1 - n + i].time]
  BY <1>1, <1>2, Zenon DEF LastTimes, Window
<1>4. \A i \in 1..n : height - 1 - n + i \in 0..(height - 1)
  OBVIOUS
<1>5. s \in [1..n -> 0..MaxTime] /\ n \in Nat \ {0}
  BY <1>1, <1>3, <1>4
<1>6. Median(s) \in 0..MaxTime
  BY <1>5, MedianFacts, Zenon
<1> QED
  BY <1>2, <1>6, HeaderAssumption

(* A height above one that is not under a checkpoint is not either.        *)
LEMMA AboveCheckpoints ==
  ASSUME NEW low \in Nat, ~IsUnderCheckpoint(low), NEW height \in Nat, low <= height
  PROVE  ~IsUnderCheckpoint(height)
<1>1. CASE Checkpoints = {}
  BY <1>1 DEF IsUnderCheckpoint
<1>2. CASE Checkpoints # {}
  <2>1. PICK last \in Checkpoints :
          last \in Nat /\ \A c \in Checkpoints : c \in Nat /\ c <= last
    BY <1>2, HeaderAssumption, Zenon
  <2>2. Max(Checkpoints) = last
    <3>1. \A c \in Checkpoints : last >= c
      BY <2>1
    <3>2. ASSUME NEW x \in Checkpoints, \A c \in Checkpoints : x >= c
          PROVE  x = last
      BY <2>1, <3>2
    <3> QED
      BY <3>1, <3>2, Zenon DEF Max
  <2> QED
    BY <1>2, <2>1, <2>2 DEF IsUnderCheckpoint
<1> QED
  BY <1>1, <1>2

(* The two medians of the emergency adjustment are in order.               *)
LEMMA CashPreconditionHolds ==
  ASSUME RulesInv
  PROVE  CashPrecondition
<1> SUFFICES ASSUME IsUahfEnabled(data.height), Retarget,
                    ~IsUnderCheckpoint(data.height - CashRetargetBlocks)
             PROVE  MedianTimePastAt(data, TRUE) >= MedianTimePastAt(data, FALSE)
  BY Zenon DEF CashPrecondition
<1>1. IInv
  BY Zenon DEF RulesInv
<1>2. PICK h \in Nat \ {0} : h = data.height
  BY <1>1, SMTT(20) DEF IInv
<1>3. PICK n \in Nat : DOMAIN chain = 0..n /\ Top = n /\ h - 1 <= n
  BY <1>1, <1>2 DEF IInv, Grounded
<1>4. PICK m \in Nat \ {0}, size \in Nat : /\ m = MedianTimePastInterval
                                           /\ size = ChainStateTimestampCount
  BY ChainAssumption
<1>5. Currency = "BCH"
  BY Zenon DEF IsUahfEnabled
<1>6. h > UahfHeight
  BY <1>2 DEF IsUahfEnabled, IsRuleEnabled
<1>7. PICK back \in Nat : back = CashRetargetBlocks /\ size >= m + back /\ h >= size + back
  BY <1>4, <1>5, <1>6, CashAssumption, SMTT(20)
<1>8. PICK low \in Nat : /\ low = h - back /\ low >= size /\ low <= h
                         /\ low >= m /\ low >= 1
  BY <1>4, <1>7
<1>9. h >= ChainStateTimestampCount
  BY <1>4, <1>7
<1>10. /\ MedianTimePastAt(data, TRUE) = Median(LastTimes(h))
       /\ MedianTimePastAt(data, FALSE) = Median(LastTimes(low))
  <2>1. data.timestamp.ordered = Window("time", TimestampCount(h), h)
    BY <1>1, <1>2, Zenon DEF IInv, WindowsAreExact
  <2>2. /\ TimestampsSubset(data.timestamp.ordered, TRUE) = Window("time", m, h)
        /\ TimestampsSubset(data.timestamp.ordered, FALSE) = Window("time", m, low)
    BY <1>4, <1>5, <1>7, <1>8, <1>9, <2>1, CashSubset, Zenon
  <2>3. Lesser(h, m) = m /\ Lesser(low, m) = m
    BY <1>8 DEF Lesser
  <2>4. LastTimes(h) = Window("time", m, h) /\ LastTimes(low) = Window("time", m, low)
    BY <1>4, <2>3, Zenon DEF LastTimes
  <2> QED
    BY <2>2, <2>4, Zenon DEF MedianTimePastAt
<1>11. \A g \in 0..n : chain[g].time \in 0..MaxTime
  BY <1>3, Zenon DEF RulesInv, HeadersInv
<1>12. ~IsUnderCheckpoint(low)
  BY <1>2, <1>7, <1>8, Zenon
<1> DEFINE f == [g \in low..h |-> Median(LastTimes(g))]
<1>13. ASSUME NEW g \in low..h
       PROVE  f[g] \in Int
  <2>1. g \in Nat \ {0} /\ \A i \in 0..(g - 1) : i \in 0..n
    BY <1>3, <1>8
  <2>2. \A i \in 0..(g - 1) : chain[i].time \in 0..MaxTime
    BY <1>11, <2>1, Zenon
  <2>3. Median(LastTimes(g)) \in Int
    BY <2>1, <2>2, LastMedianIsTime, Zenon
  <2> QED
    BY <2>3, Zenon
<1>14. ASSUME NEW g \in low..(h - 1)
       PROVE  f[g + 1] >= f[g]
  <2>1. /\ g \in Nat \ {0} /\ g \in 1..n /\ g >= ChainStateTimestampCount /\ low <= g
        /\ g \in Nat /\ \A i \in 0..g : i \in 0..n
    BY <1>3, <1>4, <1>8
  <2>2. ~IsUnderCheckpoint(g)
    BY <1>12, <2>1, AboveCheckpoints, Zenon
  <2>3. chain[g].time > MedianTimePast(PastOf(g))
    BY <1>3, <2>1, <2>2, Zenon DEF RulesInv, AcceptedInv
  <2>4. MedianTimePast(PastOf(g)) = Median(LastTimes(g))
    BY <2>1, MedianIsLast, Zenon
  <2>5. \A i \in 0..g : chain[i].time \in 0..MaxTime
    BY <1>11, <2>1, Zenon
  <2>6. Median(LastTimes(g + 1)) >= Median(LastTimes(g))
    BY <2>1, <2>3, <2>4, <2>5, LastRises, Zenon
  <2>7. g \in low..h /\ g + 1 \in low..h
    BY <1>8
  <2> QED
    BY <2>6, <2>7, Zenon
<1>15. f[h] = Median(LastTimes(h)) /\ f[low] = Median(LastTimes(low))
  <2>1. h \in low..h /\ low \in low..h
    BY <1>8
  <2> QED
    BY <2>1, Zenon
<1>16. f[h] >= f[low]
  <2> HIDE DEF f
  <2>1. h \in Nat /\ low <= h
    BY <1>8
  <2> QED
    BY <1>13, <1>14, <2>1, Climbs, Zenon
<1> QED
  BY <1>10, <1>15, <1>16, Zenon

(* The precondition that work_required comments on: above the checkpoints  *)
(* the median of the tip is never below the one of six blocks before, so   *)
(* that the unsigned difference does not wrap.                             *)
THEOREM MediansAreOrdered == Spec => []CashPrecondition
<1> QED
  BY CashPreconditionHolds, AcceptedAgainstPast, PTL

(* What chain_cash checks: both, for every value of the constants.         *)
THEOREM CashStatesAgree == Spec => []CashAgrees
<1>1. PromotionAgrees /\ CashPrecondition => CashAgrees
  BY Zenon DEF CashAgrees
<1> QED
  BY <1>1, PromotedAsPopulated, MediansAreOrdered, PTL

=============================================================================
