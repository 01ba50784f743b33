\* Bitcoin with bip141, at the limit of signature operations.
SPECIFICATION Spec
CONSTANTS
  Currency = "BTC"
  NullHash = NullHash
  MaxUint = 7
  MaxMoney = 5
  InitialSubsidy = 2
  SubsidyInterval = 2
  SubsidyBits = 4
  CoinbaseMaturity = 1
  LocktimeThreshold = 100
  RelativeLocktimeMask = 3
  SecondsShift = 1
  MinCoinbaseSize = 2
  MaxCoinbaseSize = 3
  HeaderSize = 1
  MaxBlockSize = 8
  MaxBlockSizeOld = 5
  MinTransactionSize = 1
  SigopsPerMillion = 2
  MillionBytes = 8
  MaxBlockSigops = 2
  FutureSeconds = 2
  ForkSets <- MCSegwitForks
  MaxHeight = 3
  Spacing = 1
  Header <- MCHeader
  Coinbases <- MCCoinbases
  Spends <- MCSpends
  PoolTxs <- MCPoolTxs
  Claims = {1, 2, 3}
  OutputLists <- MCOne
  Locktimes = {}
  Sequences <- MCNone
  InputCounts = {1, 2}
  InputSigops = 1
  PoolCounts = {1}
  PoolLists <- MCOne
  SecondLists <- MCOne
INVARIANTS PoolIsMineable
CHECK_DEADLOCK FALSE
