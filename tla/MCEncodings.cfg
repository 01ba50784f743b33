\* Compact: digits of two bits, targets of five digits, exponents up to two
\* past the overflow threshold.  Messages: a version on each side of every
\* protocol level the classes test, lists and payloads of at most three.
\* Scripts: one operation of all and three of those that open and close
\* branches or fill the stacks, past the limits on stack, count and push size.
SPECIFICATION EncodingsSpec
CONSTANTS
  Radix = 4
  BigBytes = 5
  MaxExponent = 9
  Bch = FALSE
  Limit = 3
  Versions = {31402, 31800, 60001, 60002, 70001, 70002, 70012, 70013, 70014}
  CutVersions = {70014}
  MaxPushSize = 80
  MaxBlockSize = 300
  MaxScriptSize = 200
  MaxStackSize = 7
  MaxCountedOps = 5
  MaxKeys = 2
  WideRun = 1
  MaxRun = 4
  MaxComposed = 2
  bits_per_block = 3
  MaxBits = 7
  HashSize = 1
  SodiumSize = 4
  MaxEndorsement = 2
  MaxUint = 1000000
  Order = 200
  MaxTyped = 4
  ByteValues = {0, 1, 58, 200, 255}
  MaxBytes = 4
  Amounts = {0, 5, 100, 12345}
  Places = 2
  MaxAmount = 1000000
INVARIANTS CompactIsFaithful RoundTrip PartialIsRefused ProgramIsSound EncodingInverts BinaryIsBits TextReadsBack
PROPERTIES SoftForksOnlyRestrict
CHECK_DEADLOCK FALSE
