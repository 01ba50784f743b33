\* Each of the small synchronisation classes by itself.
SPECIFICATION PrimitivesSpec
CONSTANTS
  MaxStarts = 4
  Writers = {w1, w2}
  Modulus = 4
  MaxWrites = 4
  Processes = {p1, p2, p3}
  Nobody = nobody
  MaxFiles = 3
  MaxCrashes = 12
  Low = {l1, l2}
  High = {h1, h2}
  MaxRounds = 2
  Ops = {o1, o2, o3, o4}
INVARIANTS NothingTornIsRead
PROPERTIES CalledOnceUnlessCanceled LockDecidesRightly LowNeverOvertakes EveryoneIsServed SerialSpec
CHECK_DEADLOCK FALSE
