---------------------------- MODULE MCChainState ----------------------------
(***************************************************************************)
(* Values of the constants of ChainState that a .cfg cannot write.         *)
(***************************************************************************)
EXTENDS ChainState

CheckpointLow == [network \in Networks |-> IF network = "regtest" THEN 0 ELSE 3]
CheckpointHigh == [network \in Networks |-> IF network = "regtest" THEN 0 ELSE 5]

LimitBits == FromBig(Radix^(BigBytes - 1) - 1)
GenesisHeader == [version |-> 1, bits |-> LimitBits, time |-> 0, id |-> "check"]

NoMtpForks == [fork \in {} |-> 0]
CashMtpForks == [cash_checkdatasig |-> 2, cash_replay_protection |-> 4]

(* Block times: some near the previous ones, one beyond the easy limit.    *)
SteadyTimes(height) == {height}
NearTimes(height) == {height, height + 4}
LooseTimes(height) == 0..5

(* Steady until the cash time window is full: those times have left every  *)
(* window when the cash rules activate.                                    *)
CashTimes(height) ==
  IF height < ChainStateTimestampCount THEN {height} ELSE {height, height + 6}
AheadTimes(height) == IF height \in {12, 14} THEN {height, 30} ELSE {height}

=============================================================================
