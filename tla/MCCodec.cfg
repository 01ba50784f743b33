\* A version on each side of every protocol level the classes test.
SPECIFICATION Spec
CONSTANTS
  Bch = FALSE
  Limit = 3
  MaxPushSize = 80
  MaxBlockSize = 300
  Versions = {31402, 31800, 60001, 60002, 70001, 70002, 70012, 70013, 70014}
  CutVersions = {}
INVARIANTS SizeIsAsserted
CHECK_DEADLOCK FALSE
