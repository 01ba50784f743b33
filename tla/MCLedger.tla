------------------------------ MODULE MCLedger ------------------------------
(* Small blocks for Ledger: a coinbase and up to two spends.               *)
EXTENDS Ledger, SequencesExt

CONSTANTS
  Claims,           \* values of the coinbase output
  OutputLists,      \* values of the outputs of a spend
  Locktimes, Sequences,   \* of the spends that may be locked
  InputCounts,      \* numbers of inputs of a single spend
  InputSigops,      \* signature operations of the input script of a spend
  PoolCounts, PoolLists,  \* the same of the pool's transactions
  SecondLists       \* values of the outputs of the spends of a block with two

Input(point, sequence, height, sigops) ==
  [prev |-> point, sequence |-> sequence, witness |-> FALSE, kind |-> "plain",
   sigops |-> sigops, extra |-> 0, verifies |-> TRUE, size |-> MinCoinbaseSize, height |-> height]

(* An input and an output have a size of one each.                         *)
Tx(version, locktime, inputs, values) ==
  [version |-> version, locktime |-> locktime, inputs |-> inputs,
   outputs |-> [i \in DOMAIN values |-> [value |-> values[i], sigops |-> 0]],
   size |-> Len(inputs) + Len(values), total_size |-> Len(inputs) + Len(values),
   commitment |-> <<>>]

MCCoinbases(c) ==
  {Tx(1, 0, <<Input(NullPoint, FinalSequence, height, 0)>>, <<value>>) :
     height \in {0, Len(c) + 1}, value \in Claims}

Known(c) == UNION {UNION {Outputs(tx) : tx \in Range(c[h].txs)} : h \in DOMAIN c}

Spend(version, locktime, points, sequence, values) ==
  Tx(version, locktime, [i \in DOMAIN points |-> Input(points[i], sequence, 0, InputSigops)], values)

(* Spends without a lock, of any of the points, a point twice included.    *)
Plain(points, counts, lists) ==
  {Spend(1, 0, ps, FinalSequence, values) :
     ps \in UNION {[1..n -> points] : n \in counts}, values \in lists}

(* Spends of one point with every lock.                                    *)
Locked(points) ==
  {Spend(2, locktime, <<p>>, sequence, <<1>>) :
     p \in points, locktime \in Locktimes, sequence \in Sequences}

MCHeader(c, txs) ==
  [version |-> 1, bits |-> 1, worked |-> TRUE, timestamp |-> Mtp(Len(c)) + 1,
   merkle |-> [t \in DOMAIN txs |-> hash(txs[t])]]

MCSpends(c, coinbase) ==
  LET known == Known(c) \cup Outputs(coinbase)
      one == Plain(known, {1}, SecondLists)
      second(tx) == Plain(known \cup Outputs(tx), {1}, SecondLists)
  IN {<<>>} \cup {<<tx>> : tx \in Plain(known, InputCounts, OutputLists) \cup Locked(Known(c))}
       \cup UNION {{<<tx, ux>> : ux \in second(tx)} : tx \in one}
       \cup UNION {{<<ux, tx>> : ux \in second(tx) \ one} : tx \in one}

(* Of the pool's transactions some just fit a block with a coinbase, some  *)
(* fit only without one, and some have too many signature operations.  No  *)
(* rule of the pool depends on the order of the inputs.                    *)
MCPoolTxs(c) ==
  LET known == Known(c)
      twice == {<<p, p>> : p \in known}
      sets == UNION {{SetToSeq(points) : points \in kSubset(n, known)} : n \in PoolCounts}
  IN {Spend(1, 0, ps, FinalSequence, values) : ps \in twice \cup sets, values \in PoolLists}
       \cup Locked(known)

Final == FinalSequence
RelativeHeight(n) == [disabled |-> FALSE, time |-> FALSE, value |-> n]
RelativeTime(n) == [disabled |-> FALSE, time |-> TRUE, value |-> n]

MCForkSets ==
  {{"bip30_rule", "bip68_rule", "bip113_rule"}, {"bip30_rule", "bip34_rule", "allow_collisions"}}
MCOutputLists == {<<1>>, <<1, 1>>, <<4, 4>>}
MCNone == {}
MCSegwitForks == {{"bip141_rule"}}
MCLocks == {Final, RelativeHeight(2), RelativeTime(1)}
MCOne == {<<1>>}
MCPoolLists == {<<1>>, <<1, 1>>, <<1, 0, 1>>}

=============================================================================
