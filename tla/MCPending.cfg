\* Elements 1 and 2 share a key; 3 is stored without a finder, up to twice.
SPECIFICATION FairSpec
CONSTANTS
  Elements = {1, 2, 3, 4}
  Matched = {1, 2, 4}
  KeyOf <- MCKeyOf
  Threads = {t1, t2}
  Nobody = nobody
  MaxStored = 2
INVARIANTS NoneEscapesStop MatchesAreUnique
PROPERTIES AllAreStopped
CHECK_DEADLOCK FALSE
