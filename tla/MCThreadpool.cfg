\* Jobs of every kind on two threads, and a restart of the pool.
SPECIFICATION FairSpec
CONSTANTS
  Jobs = {1, 2, 3, 4}
  OrderedJobs = {1, 2}
  UnorderedJobs = {3}
  Threads = {t1, t2}
  Nothing = 0
  MaxSpawns = 2
INVARIANTS NothingIsLost
PROPERTIES PoolProgresses
CHECK_DEADLOCK FALSE
