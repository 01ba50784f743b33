----------------------------- MODULE ChainState -----------------------------
(***************************************************************************)
(* chain::chain_state: the consensus values that depend on past headers,   *)
(* computed from sliding windows of header fields.  A state is populated   *)
(* from the chain by the ranges of get_map, or promoted from the state     *)
(* below it without reading the chain.  The Litecoin build is left out.    *)
(***************************************************************************)
EXTENDS Compact, Sequences, FiniteSetsExt

CONSTANTS
  Currency,                 \* "BTC" or "BCH": the build
  Forks,                    \* the configured forks, names of rule_fork
  RetargetingInterval,      \* 2016
  MedianTimePastInterval,   \* 11
  ChainStateTimestampCount, \* 147 (BCH)
  CashRetargetBlocks,       \* 6 (BCH)
  CashTimeGap,              \* 12 hours (BCH)
  Sample, Active, Enforce,  \* version sample and thresholds of the network
  Bip34Freeze, Bip66Freeze, Bip65Freeze,      \* heights of the network
  CollisionsCheckpoint,     \* network -> height of the bip34 checkpoint
  Bit0Checkpoint,           \* network -> height of the bip9 bit0 checkpoint
  Bit1Checkpoint,           \* network -> height of the bip9 bit1 checkpoint
  UahfHeight, DaaHeight,    \* hard fork heights of the network (BCH)
  MtpForkTime,              \* rule_fork activated by median time -> time (BCH)
  Bip16Time,                \* bip16_activation_time
  Bip16Exceptions, Bip30Exceptions,           \* heights of the excepted blocks
  Checkpoints,              \* heights of the configured checkpoints
  TargetSpacing,            \* target_spacing_seconds
  WorkLimitRetarget,        \* retarget_proof_of_work_limit, in normal form
  WorkLimitNoRetarget,      \* no_retarget_proof_of_work_limit
  MaxTime,                  \* max_uint32 as a time
  Bip9Version,              \* bip9_version_base
  UInt32Range, SizeRange    \* 2^32 and 2^64 for version arithmetic

Networks == {"mainnet", "testnet", "regtest"}

ASSUME ChainAssumption ==
  /\ Currency \in {"BTC", "BCH"}
  /\ RetargetingInterval \in Nat \ {0}
  /\ MedianTimePastInterval \in Nat \ {0}
  /\ ChainStateTimestampCount \in Nat \ {0}
  /\ Sample \in Nat /\ Enforce \in Nat
  /\ {Bip34Freeze, Bip66Freeze, Bip65Freeze} \subseteq Nat
  /\ {CollisionsCheckpoint, Bit0Checkpoint, Bit1Checkpoint} \subseteq [Networks -> Nat]

VARIABLES
  chain,          \* height -> header, the chain the states are about
  kind,           \* "block": the state of the top block; "pool": the next one
  data            \* data_ of that chain_state

vars == <<chain, kind, data>>

-----------------------------------------------------------------------------
(* Configuration.                                                          *)
Testnet == "easy_blocks" \in Forks
Retarget == "retarget" \in Forks
Mainnet == Retarget /\ ~Testnet
Network == IF Testnet THEN "testnet" ELSE IF Retarget THEN "mainnet" ELSE "regtest"

(* As with the values of constants.hpp, the averaging window of the cash   *)
(* rule has two ends of three blocks, holds the times of both medians and, *)
(* where get_map requests the bits of a retargeting interval, is no longer *)
(* than that; and it is full when the first of the cash rules activates.   *)
ASSUME CashAssumption ==
  Currency = "BCH" =>
    /\ CashRetargetBlocks \in Nat /\ UahfHeight \in Nat
    /\ ChainStateTimestampCount >= 6
    /\ ChainStateTimestampCount >= MedianTimePastInterval + CashRetargetBlocks
    /\ Testnet /\ Retarget => ChainStateTimestampCount <= RetargetingInterval
    /\ Retarget => UahfHeight + 1 >= ChainStateTimestampCount + CashRetargetBlocks

(* bip9_bit1_height takes the main net checkpoint for regtest, of which    *)
(* the checkpoint is the genesis block: neither is the other.              *)
ASSUME RegtestAssumption ==
  Bit1Checkpoint["regtest"] = 0 /\ Bit1Checkpoint["mainnet"] # 0

Bip34Activations == {"bip34_rule", "bip65_rule", "bip66_rule"}
Bit0Group == {"bip68_rule", "bip112_rule", "bip113_rule"}
Bit1Group == {"bip141_rule", "bip143_rule", "bip147_rule"}

(* script::is_enabled: any bit of the mask.                                *)
IsEnabled(forks, mask) == forks \cap mask # {}

WorkLimit == IF Retarget THEN WorkLimitRetarget ELSE WorkLimitNoRetarget

(* A block hash is its height and which of the blocks of that height it    *)
(* is; "check" is the one the built-in checkpoints name.                   *)
NullHash == <<0, "null">>
CheckpointHash(height) == <<height, "check">>
Hash(height, header) == <<height, header.id>>

Lesser(a, b) == IF a < b THEN a ELSE b

IsRetargetHeight(height) == height % RetargetingInterval = 0

-----------------------------------------------------------------------------
(* get_map: the ranges a state at a height is populated from.              *)
Unrequested == -1

(* Fault: the range of the easy search is not requested.                   *)
BitsCountPlain(height) ==
  IF Currency = "BCH" THEN Lesser(height, ChainStateTimestampCount) ELSE 1

BitsCount(height) ==
  CASE Testnet /\ Retarget /\ ~IsRetargetHeight(height) ->
         Lesser(height, RetargetingInterval)
    [] OTHER -> IF Currency = "BCH" THEN Lesser(height, ChainStateTimestampCount) ELSE 1

VersionCount(height) ==
  IF "bip90_rule" \in Forks \/ ~IsEnabled(Forks, Bip34Activations)
  THEN 0 ELSE Lesser(height, Sample)

TimestampCount(height) ==
  Lesser(height, IF Currency = "BCH" THEN ChainStateTimestampCount
                                     ELSE MedianTimePastInterval)

RetargetHeight(height) ==
  IF ~Retarget THEN Unrequested
  ELSE height - (IF IsRetargetHeight(height) THEN RetargetingInterval
                                             ELSE height % RetargetingInterval)

Above(height, checkpoint) == IF height > checkpoint THEN checkpoint ELSE Unrequested

CollisionHeight(height) == Above(height, CollisionsCheckpoint[Network])

Bit0Height(height) == Above(height, Bit0Checkpoint[Network])

Bit1Height(height) ==
  IF Currency = "BCH" THEN Unrequested
  ELSE Above(height, Bit1Checkpoint[IF Testnet THEN "testnet" ELSE "mainnet"])

GetMap(height) ==
  [bits |-> BitsCount(height), version |-> VersionCount(height),
   timestamp |-> TimestampCount(height), retarget |-> RetargetHeight(height),
   collisions |-> CollisionHeight(height), bit0 |-> Bit0Height(height),
   bit1 |-> Bit1Height(height)]

(* The values of a field for the count heights that end below height.      *)
Window(field, count, height) ==
  [i \in 1..count |-> chain[height - 1 - count + i][field]]

HashAt(height) ==
  IF height = Unrequested THEN NullHash ELSE Hash(height, chain[height])

(* The node reads the ranges of the map from its store; self is the block  *)
(* at the height, or the values of the pool.                               *)
Populate(height, hash, bits, version, time) ==
  LET map == GetMap(height)
  IN  [height |-> height, hash |-> hash,
       collisions |-> HashAt(map.collisions),
       bit0 |-> HashAt(map.bit0), bit1 |-> HashAt(map.bit1),
       bits |-> [self |-> bits, ordered |-> Window("bits", map.bits, height)],
       version |-> [self |-> version,
                    ordered |-> Window("version", map.version, height)],
       timestamp |-> [self |-> time,
                      retarget |-> IF map.retarget = Unrequested THEN 0
                                   ELSE chain[map.retarget].time,
                      ordered |-> Window("time", map.timestamp, height)]]

-----------------------------------------------------------------------------
(* Promotion.                                                              *)
SignalVersion ==
  CASE "bip65_rule" \in Forks -> 4
    [] "bip65_rule" \notin Forks /\ "bip66_rule" \in Forks -> 3
    [] Forks \cap Bip34Activations = {"bip34_rule"} -> 2
    [] Forks \cap Bip34Activations = {} /\ IsEnabled(Forks, Bit0Group \cup Bit1Group) ->
         Bip9Version + (IF IsEnabled(Forks, Bit0Group) THEN 1 ELSE 2)
    [] OTHER -> 1

(* Fault: the window is allowed one value more than its count.             *)
SlideLate(window, value, count) ==
  LET pushed == Append(window, value)
  IN  IF Len(pushed) > count + 1 THEN Tail(pushed) ELSE pushed

(* Push the value below, then drop the oldest if the window overflows.     *)
Slide(window, value, count) ==
  LET pushed == Append(window, value)
  IN  IF Len(pushed) > count THEN Tail(pushed) ELSE pushed

(* Fault: the time is taken when a retarget height is entered, not left.   *)
PromotedRetargetEarly(top) ==
  IF Retarget /\ IsRetargetHeight(top.height + 1)
  THEN top.timestamp.self ELSE top.timestamp.retarget

(* Leaving a retarget height, its time becomes the retarget time.          *)
PromotedRetarget(top) ==
  IF Retarget /\ IsRetargetHeight(top.height)
  THEN top.timestamp.self ELSE top.timestamp.retarget

(* to_pool: from a block state to the state of the pool above it.          *)
ToPool(top) ==
  LET height == top.height + 1
  IN  [height |-> height, hash |-> NullHash,
       collisions |-> top.collisions, bit0 |-> top.bit0, bit1 |-> top.bit1,
       bits |-> [self |-> WorkLimit,
                 ordered |-> Slide(top.bits.ordered, top.bits.self, BitsCount(height))],
       version |-> [self |-> SignalVersion,
                    ordered |-> Slide(top.version.ordered, top.version.self,
                                      VersionCount(height))],
       timestamp |-> [self |-> MaxTime,
                      retarget |-> PromotedRetarget(top),
                      ordered |-> Slide(top.timestamp.ordered, top.timestamp.self,
                                        TimestampCount(height))]]

(* to_block: from the pool state to the state of a block of its height.    *)
ToBlock(pool, header) ==
  LET hash == Hash(pool.height, header)
      At(checkpoint, previous) == IF pool.height = checkpoint THEN hash ELSE previous
  IN  [height |-> pool.height, hash |-> hash,
       collisions |-> At(CollisionsCheckpoint[Network], pool.collisions),
       bit0 |-> At(Bit0Checkpoint[Network], pool.bit0),
       bit1 |-> IF Currency = "BCH" THEN pool.bit1
                ELSE At(Bit1Checkpoint[Network], pool.bit1),
       bits |-> [self |-> header.bits, ordered |-> pool.bits.ordered],
       version |-> [self |-> header.version, ordered |-> pool.version.ordered],
       timestamp |-> [self |-> header.time, retarget |-> pool.timestamp.retarget,
                      ordered |-> pool.timestamp.ordered]]

(* to_header: from the state of a header to that of the header above it.   *)
ToHeader(parent, header) == ToBlock(ToPool(parent), header)

-----------------------------------------------------------------------------
(* median_time_past: the median of the subset, by rank; the value of index *)
(* size / 2 after sorting.                                                 *)
HasMiddleRank(times, v) ==
  LET half == Len(times) \div 2
  IN  /\ Cardinality({i \in DOMAIN times : times[i] < v}) <= half
      /\ half < Cardinality({i \in DOMAIN times : times[i] <= v})

Median(times) ==
  IF times = <<>> THEN 0
  ELSE CHOOSE v \in {times[i] : i \in DOMAIN times} : HasMiddleRank(times, v)

OffsetTip == ChainStateTimestampCount - MedianTimePastInterval

(* timestamps_position, as the number of values it skips.                  *)
TimestampsPosition(size, tip) ==
  LET offset == IF tip THEN OffsetTip ELSE OffsetTip - CashRetargetBlocks
  IN  CASE Currency = "BCH" /\ size >= offset -> offset
        [] ~(Currency = "BCH" /\ size >= offset) /\ size > MedianTimePastInterval ->
             size - MedianTimePastInterval
        [] OTHER -> 0

TimestampsSubset(times, tip) ==
  LET at == TimestampsPosition(Len(times), tip)
      n == Lesser(Len(times) - at, MedianTimePastInterval)
  IN  SubSeq(times, at + 1, at + n)

MedianTimePastAt(values, tip) == Median(TimestampsSubset(values.timestamp.ordered, tip))

MedianTimePast(values) == MedianTimePastAt(values, TRUE)

-----------------------------------------------------------------------------
(* work_required.                                                          *)
High(window) == window[Len(window)]

TargetTimespan == RetargetingInterval * TargetSpacing

Constrain(value, low, high) == IF value < low THEN low ELSE IF value > high THEN high ELSE value

LimitTarget == FromCompact(WorkLimitRetarget).big

(* A computed target, capped by the limit and brought to normal form.      *)
TargetBits(target) == IF target > LimitTarget THEN WorkLimitRetarget ELSE FromBig(target)

RetargetTimespan(values) ==
  Constrain(High(values.timestamp.ordered) - values.timestamp.retarget,
            TargetTimespan \div 4, TargetTimespan * 4)

WorkRequiredRetarget(values) ==
  LET target == FromCompact(High(values.bits.ordered)).big
  IN  TargetBits(((target * RetargetTimespan(values)) % BigRange) \div TargetTimespan)

WorkRequiredAdjustCash(values) ==
  LET target == FromCompact(High(values.bits.ordered)).big
  IN  TargetBits((target + target \div 4) % BigRange)

(* select_1_3: the median of three by time, not stable.                    *)
MedianOfThree(a, b, c) ==
  LET Inner(x, y, z) == IF y.time < x.time THEN x ELSE IF z.time < y.time THEN z ELSE y
  IN  IF c.time < a.time THEN Inner(c, b, a) ELSE Inner(a, b, c)

(* Ends of the averaging window of cash_difficulty_adjustment.             *)
CashEntry(values, back) ==
  [index |-> Len(values.bits.ordered) - back,
   time |-> values.timestamp.ordered[ChainStateTimestampCount - back + 1]]

CashFirst(values) ==
  MedianOfThree(CashEntry(values, 3), CashEntry(values, 2), CashEntry(values, 1))

CashLast(values) ==
  LET n == ChainStateTimestampCount
  IN  MedianOfThree(CashEntry(values, n), CashEntry(values, n - 1), CashEntry(values, n - 2))

(* nActualTimespan: times are subtracted as uint32_t, then constrained.    *)
CashTimespan(values) ==
  LET blocks == ChainStateTimestampCount - 3
  IN  Constrain((CashFirst(values).time - CashLast(values).time) % (MaxTime + 1),
                (blocks \div 2) * TargetSpacing, 2 * blocks * TargetSpacing)

(* The work of the blocks of a run of bits.                                *)
TotalProof(bits) == MapThenSumSet(LAMBDA i : Proof(bits[i]), DOMAIN bits)

(* The bits after the last entry up to the first; an index counts from 0.  *)
CashBits(values) ==
  SubSeq(values.bits.ordered, CashLast(values).index + 2, CashFirst(values).index + 1)

CashDifficultyAdjustment(values) ==
  LET rate == (TotalProof(CashBits(values)) * TargetSpacing) \div CashTimespan(values)
  IN  TargetBits((BigRange - rate) \div rate)

EasyTimeLimit(values) ==
  Lesser(High(values.timestamp.ordered) + 2 * TargetSpacing, MaxTime)

(* The heights of the bits window that end the easy search.                *)
EasyStops(values) ==
  LET bits == values.bits.ordered
  IN  {i \in DOMAIN bits : \/ bits[i] # WorkLimitRetarget
                           \/ IsRetargetHeight(values.height - 1 - Len(bits) + i)}

IsRuleEnabled(height, activation) == (~Retarget /\ ~Testnet) \/ height > activation
IsUahfEnabled(height) == Currency = "BCH" /\ IsRuleEnabled(height, UahfHeight)
IsDaaEnabled(height) == Currency = "BCH" /\ IsRuleEnabled(height, DaaHeight)

EasyWorkRequired(values) ==
  CASE values.timestamp.self > EasyTimeLimit(values) -> WorkLimitRetarget
    [] OTHER ->
         IF IsDaaEnabled(values.height) THEN CashDifficultyAdjustment(values)
         ELSE IF EasyStops(values) = {} THEN WorkLimitRetarget
         ELSE values.bits.ordered[Max(EasyStops(values))]

WorkRequired(values) ==
  LET daa == IsDaaEnabled(values.height)
      gap == MedianTimePastAt(values, TRUE) - MedianTimePastAt(values, FALSE)
  IN  CASE ~Retarget -> High(values.bits.ordered)
        [] Retarget /\ IsRetargetHeight(values.height) /\ ~daa -> WorkRequiredRetarget(values)
        [] Retarget /\ (~IsRetargetHeight(values.height) \/ daa) /\ Testnet ->
             EasyWorkRequired(values)
        [] Retarget /\ daa /\ ~Testnet /\ IsUahfEnabled(values.height) ->
             CashDifficultyAdjustment(values)
        [] OTHER ->
             IF IsUahfEnabled(values.height) /\ gap % (MaxTime + 1) > CashTimeGap
             THEN WorkRequiredAdjustCash(values) ELSE High(values.bits.ordered)

(* get_next_work_required: the bits to mine at a time.                     *)
GetNextWorkRequired(values, time) == WorkRequired([values EXCEPT !.timestamp.self = time])

-----------------------------------------------------------------------------
(* activation: the forks active in a state and its minimum version.        *)
ToInt32(value) == IF value >= UInt32Range \div 2 THEN value - UInt32Range ELSE value

(* The lambda ge: the signed version is converted to size_t to compare.    *)
VersionAtLeast(value, version) == ToInt32(value) % SizeRange >= version

CountAtLeast(history, version) ==
  Cardinality({i \in DOMAIN history : VersionAtLeast(history[i], version)})

Frozen(height, freeze) == "bip90_rule" \in Forks /\ height >= freeze

Enforced(values, version, freeze) ==
  \/ Frozen(values.height, freeze)
  \/ CountAtLeast(values.version.ordered, version) >= Enforce

MinimumVersion(values) ==
  LET bip65 == Enforced(values, 4, Bip65Freeze)
      bip66 == Enforced(values, 3, Bip66Freeze)
      bip34 == Enforced(values, 2, Bip34Freeze)
  IN  CASE bip65 -> 4
        [] ~bip65 /\ bip66 -> 3
        [] ~bip65 /\ ~bip66 /\ bip34 -> 2
        [] OTHER -> 1

(* The block that an exception or an activation by height is about.        *)
IsException(hash, heights) == Mainnet /\ \E height \in heights : hash = CheckpointHash(height)
AllowCollisions(hash) == hash = CheckpointHash(CollisionsCheckpoint[Network])
Bit0Active(hash) == hash = CheckpointHash(Bit0Checkpoint[Network])
Bit1Active(hash) == Currency # "BCH" /\ hash = CheckpointHash(Bit1Checkpoint[Network])

IsMtpActivated(time, activation) == time >= activation

(* Forks that are switched on, whether or not they are configured.         *)
Activated(values) ==
  LET Voted(version, freeze) ==
        \/ Frozen(values.height, freeze)
        \/ /\ CountAtLeast(values.version.ordered, version) >= Active
           /\ values.version.self >= version
      When(condition, forks) == IF condition THEN forks ELSE {}
  IN  {"retarget", "easy_blocks", "bip90_rule"}
        \cup When(values.timestamp.self >= Bip16Time /\ ~IsException(values.hash, Bip16Exceptions), {"bip16_rule"})
        \cup When(~IsException(values.hash, Bip30Exceptions), {"bip30_rule"})
        \cup When(Voted(2, Bip34Freeze), {"bip34_rule"})
        \cup When(Voted(3, Bip66Freeze), {"bip66_rule"})
        \cup When(Voted(4, Bip65Freeze), {"bip65_rule"})
        \cup When(AllowCollisions(values.collisions), {"allow_collisions"})
        \cup When(Bit0Active(values.bit0), Bit0Group)
        \cup When(Bit1Active(values.bit1), Bit1Group)
        \cup When(IsUahfEnabled(values.height),
                  {"cash_verify_flags_script_enable_sighash_forkid"})
        \cup When(IsDaaEnabled(values.height), {"cash_low_s_rule"})
        \cup When(Currency = "BCH",
                  {fork \in DOMAIN MtpForkTime :
                     IsMtpActivated(MedianTimePast(values), MtpForkTime[fork])})

(* The constructor from raw data always configures allow_collisions.       *)
EnabledForks(values) == Activated(values) \cap (Forks \cup {"allow_collisions"})

-----------------------------------------------------------------------------
(* header::accept, with the checkpoint tests of chain_state.               *)
IsCheckpointConflict(height, header) ==
  height \in Checkpoints /\ Hash(height, header) # CheckpointHash(height)

IsUnderCheckpoint(height) == Checkpoints # {} /\ height <= Max(Checkpoints)

(* Fault: every block is treated as one under a checkpoint.                *)
AcceptUnchecked(header, state) ==
  /\ header.bits = WorkRequired(state)
  /\ ~IsCheckpointConflict(state.height, header)

Accept(header, state) ==
  /\ header.bits = WorkRequired(state)
  /\ ~IsCheckpointConflict(state.height, header)
  /\ \/ IsUnderCheckpoint(state.height)
     \/ /\ header.version >= MinimumVersion(state)
        /\ header.time > MedianTimePast(state)

-----------------------------------------------------------------------------
CONSTANTS
  Genesis,        \* the header at height 0
  MaxHeight,      \* bound on the heights explored
  Versions, Ids, Times(_)     \* header fields; Times gives the times by height

(* The times and versions of headers are 32 bits wide, size_t is no less,  *)
(* and the checkpoints are finitely many heights.                          *)
ASSUME HeaderAssumption ==
  /\ MaxTime \in Nat /\ MaxHeight \in Nat
  /\ UInt32Range \in Nat /\ UInt32Range % 2 = 0 /\ UInt32Range >= 8
  /\ SizeRange \in Nat /\ SizeRange >= UInt32Range
  /\ Genesis.time \in 0..MaxTime /\ Genesis.version \in 0..(UInt32Range - 1)
  /\ \A height \in 0..MaxHeight : Times(height) \subseteq 0..MaxTime
  /\ Versions \subseteq 0..(UInt32Range - 1)
  /\ Checkpoints = {} \/ \E last \in Checkpoints :
       last \in Nat /\ \A height \in Checkpoints : height \in Nat /\ height <= last

Top == Max(DOMAIN chain)

(* A header for the next height, with the bits the miner was told.         *)
Candidates(state) ==
  {[version |-> version, time |-> time, id |-> id,
    bits |-> GetNextWorkRequired(state, time)] :
      version \in Versions, time \in Times(state.height), id \in Ids}

Extend(header) ==
  chain' = [height \in 0..(Top + 1) |-> IF height <= Top THEN chain[height] ELSE header]

PopulatePool == Populate(Top + 1, NullHash, WorkLimit, SignalVersion, MaxTime)

PopulateBlock ==
  LET header == chain[Top]
  IN  Populate(Top, Hash(Top, header), header.bits, header.version, header.time)

(* A node starts on a stored chain of which it knows the genesis block.    *)
Init ==
  /\ chain = [height \in {0} |-> Genesis]
  /\ kind = "pool"
  /\ data = PopulatePool

(* A start or a reorganisation: the state is read from the chain again.    *)
Repopulate(height) ==
  /\ height <= Top
  /\ chain' = [h \in 0..height |-> chain[h]]
  /\ kind' = "pool"
  /\ data' = PopulatePool'

(* chain_state(pool, block), accepted.                                     *)
PromoteToBlock(header) ==
  /\ Top < MaxHeight
  /\ Accept(header, ToBlock(data, header))
  /\ Extend(header)
  /\ kind' = "block"
  /\ data' = ToBlock(data, header)

(* chain_state(top).                                                       *)
PromoteToPool ==
  /\ kind = "block"
  /\ kind' = "pool"
  /\ data' = ToPool(data)
  /\ UNCHANGED chain

(* chain_state(parent, header), accepted.                                  *)
PromoteToHeader(header) ==
  /\ Top < MaxHeight
  /\ Accept(header, ToHeader(data, header))
  /\ Extend(header)
  /\ kind' = "block"
  /\ data' = ToHeader(data, header)

Next ==
  \/ \E height \in 0..MaxHeight : Repopulate(height)
  \/ kind = "pool" /\ \E header \in Candidates(data) : PromoteToBlock(header)
  \/ PromoteToPool
  \/ kind = "block" /\ \E header \in Candidates(ToPool(data)) : PromoteToHeader(header)

Spec == Init /\ [][Next]_vars

-----------------------------------------------------------------------------
(* What a node that reads the chain again would have at this height.       *)
Reference == IF kind = "pool" THEN PopulatePool ELSE PopulateBlock

IsCheckpointBlock(height) ==
  height \in {CollisionsCheckpoint[Network], Bit0Checkpoint[Network], Bit1Checkpoint[Network]}

(* A promoted state is as good as a populated one: the work it requires,   *)
(* the median time past, the active forks and the minimum version are      *)
(* those of the state populated from the map, although to_pool drops at    *)
(* most one value per window and never reads the chain.  In the checkpoint *)
(* block itself the forks differ: that is what ForksAreAboveCheckpoint is  *)
(* about.                                                                  *)
PromotionAgrees ==
  /\ WorkRequired(data) = WorkRequired(Reference)
  /\ MedianTimePast(data) = MedianTimePast(Reference)
  /\ EnabledForks(data) = EnabledForks(Reference) \/ IsCheckpointBlock(data.height)
  /\ MinimumVersion(data) = MinimumVersion(Reference)

(* easy_work_required never reaches its BITCOIN_ASSERT(false): the bits    *)
(* window always holds a retarget height or bits that are not the limit.   *)
EasySearchEnds ==
  Testnet /\ Retarget /\ ~IsRetargetHeight(data.height) => EasyStops(data) # {}

(* timestamp.retarget is the time of the latest retarget block below the   *)
(* height, also across the promotion from a retarget height.               *)
RetargetTimeIsLatest ==
  Retarget =>
    data.timestamp.retarget
      = chain[Max({h \in 0..(data.height - 1) : IsRetargetHeight(h)})].time

(* The version and time windows of a promoted state are exactly those that *)
(* get_map requests: to_pool slides them without loss or excess.           *)
WindowsAreExact ==
  /\ data.version.ordered = Window("version", VersionCount(data.height), data.height)
  /\ data.timestamp.ordered = Window("time", TimestampCount(data.height), data.height)

(* The bits window may be longer than requested, but it ends at the block  *)
(* below and, for easy blocks off a retarget height, reaches back to one.  *)
BitsWindowReachesBack ==
  LET size == Len(data.bits.ordered)
  IN  /\ size \in 1..data.height
      /\ data.bits.ordered = Window("bits", size, data.height)
      /\ Testnet /\ Retarget /\ ~IsRetargetHeight(data.height) =>
           \E height \in (data.height - size)..(data.height - 1) : IsRetargetHeight(height)

(* The chain has every height from the genesis block to its top.           *)
Grounded == Top \in Nat /\ DOMAIN chain = 0..Top

(* What population and promotion preserve: where the state stands on the   *)
(* chain, the values of its own block, and the facts above.                *)
IInv ==
  /\ Grounded
  /\ kind \in {"pool", "block"}
  /\ data.height = IF kind = "pool" THEN Top + 1 ELSE Top
  /\ data.height \in Nat \ {0}
  /\ kind = "block" => /\ data.bits.self = chain[Top].bits
                       /\ data.version.self = chain[Top].version
                       /\ data.timestamp.self = chain[Top].time
  /\ WindowsAreExact
  /\ BitsWindowReachesBack
  /\ Retarget => data.timestamp.retarget = chain[RetargetHeight(data.height)].time

(* The hash a state carries for a checkpoint: that of its block, once the  *)
(* chain has one of that height.                                           *)
CarriedHash(checkpoint) ==
  IF checkpoint \in DOMAIN chain THEN Hash(checkpoint, chain[checkpoint]) ELSE NullHash

(* What promotion preserves of the rest of the state: the values of its    *)
(* own block or of the pool, the hashes of the checkpoints it has passed,  *)
(* and, for the averaging window of the cash rule, enough bits.            *)
StandInv ==
  /\ data.hash = IF kind = "pool" THEN NullHash ELSE Hash(Top, chain[Top])
  /\ kind = "pool" => /\ data.bits.self = WorkLimit
                      /\ data.version.self = SignalVersion
                      /\ data.timestamp.self = MaxTime
  /\ data.collisions = CarriedHash(CollisionsCheckpoint[Network])
  /\ data.bit0 = CarriedHash(Bit0Checkpoint[Network])
  /\ Currency # "BCH" =>
       IF Network = "regtest" THEN data.bit1 # CheckpointHash(Bit1Checkpoint[Network])
       ELSE data.bit1 = CarriedHash(Bit1Checkpoint[Network])
  /\ Currency = "BCH" =>
       Len(data.bits.ordered) >= Lesser(data.height, ChainStateTimestampCount)

(* The fields of headers have their width.                                 *)
HeadersInv ==
  \A height \in DOMAIN chain : /\ chain[height].time \in 0..MaxTime
                               /\ chain[height].version \in 0..(UInt32Range - 1)

(* What accept reads of the past of a height.                              *)
PastOf(height) ==
  [height |-> height,
   version |-> [ordered |-> Window("version", VersionCount(height), height)],
   timestamp |-> [ordered |-> Window("time", TimestampCount(height), height)]]

(* Every block above the checkpoints is later than the median time of its  *)
(* past, and of a version that its past enforces.                          *)
AcceptedInv ==
  \A height \in 1..Top :
    ~IsUnderCheckpoint(height) =>
      /\ chain[height].version >= MinimumVersion(PastOf(height))
      /\ chain[height].time > MedianTimePast(PastOf(height))

(* "precondition: last_time_span >= six_time_span" of work_required: the   *)
(* unsigned difference of the two medians does not wrap.  It is reached    *)
(* where the work is retargeted; under a checkpoint accept does not test   *)
(* the times that it rests on.                                             *)
CashPrecondition ==
  IsUahfEnabled(data.height) /\ Retarget
    /\ ~IsUnderCheckpoint(data.height - CashRetargetBlocks) =>
      MedianTimePastAt(data, TRUE) >= MedianTimePastAt(data, FALSE)

(* A promoted state of the cash build is as good as a populated one, and   *)
(* its medians never give the unsigned difference of work_required a       *)
(* negative value.                                                         *)
CashAgrees == PromotionAgrees /\ CashPrecondition

(* The median time past does not decrease from a height to the next.       *)
MedianStays ==
  /\ data'.height > data.height
  /\ Currency = "BTC" \/ data.height >= ChainStateTimestampCount
  => MedianTimePast(data') >= MedianTimePast(data)

(* An enforced version stays enforced while the chain grows.               *)
VersionStays ==
  data'.height >= data.height /\ Top' >= Top =>
    MinimumVersion(data') >= MinimumVersion(data)

(* What accept tests against the past keeps the rules from loosening on a  *)
(* growing chain, above the checkpoints, where accept tests at all.  The   *)
(* median time past never decreases, as every time is above it; with the   *)
(* cash offsets that is so only once the window is full: until then        *)
(* timestamps_position leaves fewer than the last 11 times.  And a version *)
(* once enforced stays enforced: old versions are kept out, so the sample  *)
(* that is counted again at every height cannot fall below the threshold.  *)
RulesNeverLoosen ==
  [][~IsUnderCheckpoint(data.height) => MedianStays /\ VersionStays]_vars

=============================================================================
