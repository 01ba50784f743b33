\* A Bitcoin testnet: easy blocks, past two retargets, versions voted in.
SPECIFICATION Spec
CONSTANTS
  Radix = 4
  BigBytes = 5
  Currency = "BTC"
  Forks = {"retarget", "easy_blocks", "bip16_rule", "bip30_rule", "bip113_rule", "bip141_rule", "bip34_rule", "bip66_rule", "bip65_rule"}
  RetargetingInterval = 3
  MedianTimePastInterval = 3
  ChainStateTimestampCount = 7
  CashRetargetBlocks = 2
  CashTimeGap = 3
  Sample = 3
  Active = 2
  Enforce = 3
  Bip34Freeze = 2
  Bip66Freeze = 3
  Bip65Freeze = 5
  CollisionsCheckpoint <- CheckpointLow
  Bit0Checkpoint <- CheckpointLow
  Bit1Checkpoint <- CheckpointHigh
  UahfHeight = 0
  DaaHeight = 0
  MtpForkTime <- NoMtpForks
  Bip16Time = 3
  Bip16Exceptions = {4}
  Bip30Exceptions = {5}
  Checkpoints = {2}
  TargetSpacing = 1
  WorkLimitRetarget <- LimitBits
  WorkLimitNoRetarget <- LimitBits
  MaxTime = 63
  Bip9Version = 4
  UInt32Range = 16
  SizeRange = 256
  Genesis <- GenesisHeader
  MaxHeight = 6
  Versions = {1, 4}
  Ids = {"check"}
  Times <- NearTimes
INVARIANTS PromotionAgrees EasySearchEnds
PROPERTIES RulesNeverLoosen
CHECK_DEADLOCK FALSE
