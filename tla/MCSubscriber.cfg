\* Handlers that may stay subscribed (resubscriber) or leave (subscriber too).
SPECIFICATION FairSpec
CONSTANTS
  Handlers = {h1, h2}
  Threads = {t1, t2}
  Strand = strand
  Nobody = nobody
  Resubscribes = TRUE
  MaxEvents = 2
  MaxRestarts = 1
INVARIANTS NobodyMissesAnEvent ClearedAfterStop
PROPERTIES EveryEventCompletes
CHECK_DEADLOCK FALSE
