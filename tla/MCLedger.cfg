\* Chains of three blocks with spends of every kind, and what the pool makes of them;
\* payments over up to three coins and two edits, keys over a group of order 13, and
\* three calls on two objects of every class with caches.
SPECIFICATION ValuesSpec
CONSTANTS
  Currency = "BTC"
  NullHash = NullHash
  MaxUint = 7
  MaxMoney = 5
  InitialSubsidy = 2
  SubsidyInterval = 2
  SubsidyBits = 4
  CoinbaseMaturity = 1
  LocktimeThreshold = 100
  RelativeLocktimeMask = 3
  SecondsShift = 1
  MinCoinbaseSize = 2
  MaxCoinbaseSize = 3
  HeaderSize = 1
  MaxBlockSize = 8
  MaxBlockSizeOld = 5
  MinTransactionSize = 1
  SigopsPerMillion = 2
  MillionBytes = 8
  MaxBlockSigops = 2
  FutureSeconds = 2
  ForkSets <- MCForkSets
  MaxHeight = 3
  Spacing = 1
  Header <- MCHeader
  Coinbases <- MCCoinbases
  Spends <- MCSpends
  PoolTxs <- MCPoolTxs
  Claims = {0, 2}
  OutputLists <- MCOutputLists
  Locktimes = {2, 102}
  Sequences <- MCLocks
  InputCounts = {1, 2}
  InputSigops = 1
  PoolCounts = {1, 2, 3}
  PoolLists <- MCPoolLists
  SecondLists <- MCOne
  Minimums = {0, 1, 3, 6, 7, 8}
  SignTypes = {1, 2, 35}
  Dusts = {0, 1, 16}
  MaxInputs = 2
  MaxOutputs = 2
  MaxEdits = 2
  Names = {x, y}
  Values = {a, b}
  Blank = blank
  MaxCalls = 3
  MaxPlainCalls = 2
  Order = 13
  SecretMax = 15
  Left <- MCLeft
  Right <- MCRight
  Sha256 <- MCSha256
  SeedSecret <- MCSeedSecret
  ScriptPrefix <- MCScriptPrefix
  Hash <- MCHash
  ScryptToken <- MCScryptToken
  ScryptPair <- MCScryptPair
  ScryptPrivate <- MCScryptPrivate
  aes256_encrypt <- MCEncrypt
  aes256_decrypt <- MCDecrypt
  Passphrases = {1, 2}
  Salts = {1, 2}
  Lots = {0, 1}
  KeySeeds <- MCKeySeeds
  Chosen = {0, 2, 7, 12, 13}
  Hardened = 2
  MaxDepth = 3
  MaxNonce = 2
  Seeds = {1, 2, 3}
  Networks <- MCNetworks
  Indexes = {0, 1, 2}
  Versions = {0, 5}
  Filters <- MCFilters
  Messages = {1, 2, 3, 4}
  MaxPath = 4
INVARIANTS
  NoDoubleSpend SpendsExistAndAreMature NoInflation UnspentIsNotReplaced MineableBeforeSegwit
  ActsAsItsValue EndorsementCovers PaymentsBalance KeysAreFollowed EncryptedKeysOpen
PROPERTIES PoolIsCacheSafe
SYMMETRY MCSymmetry
CHECK_DEADLOCK FALSE
