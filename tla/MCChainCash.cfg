\* Bitcoin Cash main net, up to and past the fork heights.
SPECIFICATION Spec
CONSTANTS
  Radix = 4
  BigBytes = 5
  Currency = "BCH"
  Forks = {"retarget", "bip113_rule", "bip34_rule", "bip66_rule", "bip65_rule", "bip90_rule", "cash_low_s_rule", "cash_checkdatasig", "cash_replay_protection"}
  RetargetingInterval = 3
  MedianTimePastInterval = 3
  ChainStateTimestampCount = 6
  CashRetargetBlocks = 2
  CashTimeGap = 3
  Sample = 3
  Active = 2
  Enforce = 3
  Bip34Freeze = 2
  Bip66Freeze = 3
  Bip65Freeze = 5
  CollisionsCheckpoint <- CheckpointLow
  Bit0Checkpoint <- CheckpointLow
  Bit1Checkpoint <- CheckpointHigh
  UahfHeight = 7
  DaaHeight = 10
  MtpForkTime <- CashMtpForks
  Bip16Time = 3
  Bip16Exceptions = {}
  Bip30Exceptions = {}
  Checkpoints = {}
  TargetSpacing = 1
  WorkLimitRetarget <- LimitBits
  WorkLimitNoRetarget <- LimitBits
  MaxTime = 63
  Bip9Version = 4
  UInt32Range = 16
  SizeRange = 256
  Genesis <- GenesisHeader
  MaxHeight = 12
  Versions = {4}
  Ids = {"check"}
  Times <- CashTimes
INVARIANTS CashAgrees
CHECK_DEADLOCK FALSE
