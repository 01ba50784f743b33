---------------------------- MODULE LedgerProofs ----------------------------
(***************************************************************************)
(* The safety of the chains that validation accepts, for every value of    *)
(* the constants: whatever blocks are tried, of any number of transactions *)
(* and inputs.                                                             *)
(***************************************************************************)
EXTENDS Ledger, SequenceTheorems, WellFoundedInduction, TLAPS

(* A nonempty set of naturals has a least element.                         *)
LEMMA LeastExists ==
  ASSUME NEW S, S \subseteq Nat, S # {}
  PROVE  \E x \in S : \A y \in S : x <= y
<1>1. \E x \in S : \A y \in S : ~(<<y, x>> \in OpToRel(<, Nat))
  BY NatLessThanWellFounded, WFMin
<1>2. \A x, y \in Nat : y < x => <<y, x>> \in OpToRel(<, Nat)
  BY Zenon DEF OpToRel
<1>3. PICK x \in S : \A y \in S : ~(<<y, x>> \in OpToRel(<, Nat))
  BY <1>1
<1>4. \A y \in S : ~(y < x)
  BY <1>2, <1>3, Zenon
<1>5. QED
  BY <1>4

(* A nonempty set of naturals up to n has a greatest element.              *)
LEMMA GreatestExists ==
  ASSUME NEW n \in Nat, NEW S, S \subseteq 1..n, S # {}
  PROVE  \E x \in S : \A y \in S : x >= y
<1> DEFINE D == {n - x : x \in S}
<1>1. \A y \in S : y \in 1..n
  OBVIOUS
<1>2. D \subseteq Nat
  BY <1>1
<1>3. D # {}
  OBVIOUS
<1>4. PICK d \in D : \A e \in D : d <= e
  BY <1>2, <1>3, LeastExists, Zenon
<1>5. PICK x \in S : d = n - x
  OBVIOUS
<1>6. \A y \in S : n - y \in D
  OBVIOUS
<1>7. \A y \in S : n - x <= n - y
  BY <1>4, <1>5, <1>6, Zenon
<1> HIDE DEF D
<1>8. QED
  BY <1>1, <1>5, <1>7

(* Validation of the list of transactions succeeds only when that of each  *)
(* one does: the loops of check_transactions and accept_transactions.      *)
LEMMA FirstErrorSucceeds ==
  ASSUME NEW codes, NEW n \in Nat, DOMAIN codes = 1..n, FirstError(codes) = "success"
  PROVE  \A i \in 1..n : codes[i] = "success"
<1> DEFINE failed == {i \in DOMAIN codes : codes[i] # "success"}
<1>1. SUFFICES ASSUME failed # {} PROVE FALSE
  OBVIOUS
<1>2. \E x \in failed : \A y \in failed : x <= y
  <2>1. failed \subseteq Nat
    OBVIOUS
  <2>2. QED
    BY <1>1, <2>1, LeastExists, Zenon
<1>3. Min(failed) \in failed
  BY <1>2 DEF Min
<1>4. codes[Min(failed)] = "success"
  BY <1>1 DEF FirstError
<1>5. QED
  BY <1>3, <1>4

-----------------------------------------------------------------------------
(* What success of the steps of validation implies.                        *)

LEMMA AcceptedTransaction ==
  ASSUME NEW tx, NEW view, NEW duplicate, NEW state,
         tx_accept(tx, view, duplicate, state, FALSE) = "success"
  PROVE  /\ ~is_missing_previous_outputs(tx, view)
         /\ ~is_double_spend(tx, view, FALSE)
         /\ is_mature(tx, view, state.height)
BY Zenon DEF tx_accept

LEMMA CheckedTransaction ==
  ASSUME NEW tx, tx_check(tx, FALSE) = "success"
  PROVE  ~is_null_non_coinbase(tx)
BY DEF tx_check

LEMMA CheckedBlock ==
  ASSUME NEW block, NEW now, NEW n \in Nat, DOMAIN block.txs = 1..n,
         block_check(block, now) = "success"
  PROVE  /\ ~block_internal_double_spend(block)
         /\ ~is_extra_coinbases(block)
         /\ Currency # "BCH" => ~is_forward_reference(block)
         /\ \A t \in 1..n : ~is_null_non_coinbase(block.txs[t])
<1> DEFINE codes == [t \in DOMAIN block.txs |-> tx_check(block.txs[t], FALSE)]
<1>1. FirstError(codes) = "success"
  BY DEF block_check
<1>2. \A t \in 1..n : codes[t] = "success"
  <2>1. DOMAIN codes = 1..n
    OBVIOUS
  <2>2. QED
    BY <1>1, <2>1, FirstErrorSucceeds, Zenon
<1>3. \A t \in 1..n : tx_check(block.txs[t], FALSE) = "success"
  BY <1>2, Zenon
<1>4. \A t \in 1..n : ~is_null_non_coinbase(block.txs[t])
  BY <1>3, CheckedTransaction, Zenon
<1>5. QED
  BY <1>4 DEF block_check

LEMMA AcceptedBlock ==
  ASSUME NEW block, NEW view, NEW duplicate, NEW canonical, NEW state,
         NEW n \in Nat, DOMAIN block.txs = 1..n, ~state.under_checkpoint,
         block_accept(block, view, duplicate, canonical, state) = "success"
  PROVE  \A t \in 1..n :
           /\ ~is_missing_previous_outputs(block.txs[t], view)
           /\ ~is_double_spend(block.txs[t], view, FALSE)
           /\ is_mature(block.txs[t], view, state.height)
<1> DEFINE codes == [t \in DOMAIN block.txs |->
                       tx_accept(block.txs[t], view, duplicate[t], state, FALSE)]
<1>1. FirstError(codes) = "success"
  BY DEF block_accept
<1>2. \A t \in 1..n : codes[t] = "success"
  <2>1. DOMAIN codes = 1..n
    OBVIOUS
  <2>2. QED
    BY <1>1, <2>1, FirstErrorSucceeds, Zenon
<1>3. \A t \in 1..n : tx_accept(block.txs[t], view, duplicate[t], state, FALSE) = "success"
  BY <1>2, Zenon
<1>4. QED
  BY <1>3, AcceptedTransaction, Zenon

-----------------------------------------------------------------------------
IsSequence(s) == \E S : s \in Seq(S)

LEMMA SequenceDomain ==
  ASSUME NEW s, IsSequence(s)
  PROVE  Len(s) \in Nat /\ DOMAIN s = 1..Len(s)
BY DEF IsSequence

LEMMA AppendFacts ==
  ASSUME NEW s, IsSequence(s), NEW e
  PROVE  /\ IsSequence(Append(s, e))
         /\ Len(Append(s, e)) = Len(s) + 1
         /\ \A i \in 1..Len(s) : Append(s, e)[i] = s[i]
         /\ Append(s, e)[Len(s) + 1] = e
<1>1. PICK S : s \in Seq(S)
  BY DEF IsSequence
<1> DEFINE T == S \cup {e}
<1>2. s \in Seq(T)
  BY <1>1, SeqMonotonic
<1>3. e \in T
  OBVIOUS
<1> HIDE DEF T
<1>4. Append(s, e) \in Seq(T)
  BY <1>2, <1>3
<1>5. QED
  BY <1>2, <1>3, <1>4 DEF IsSequence

LEMMA AppendDomain ==
  ASSUME NEW s, IsSequence(s), NEW e
  PROVE  DOMAIN Append(s, e) = 1..(Len(s) + 1)
BY AppendFacts, SequenceDomain, Zenon

LEMMA FrontFacts ==
  ASSUME NEW s, IsSequence(s), s # <<>>
  PROVE  LET front == SubSeq(s, 1, Len(s) - 1)
         IN /\ IsSequence(front)
            /\ Len(front) = Len(s) - 1
            /\ Len(s) >= 1
            /\ \A i \in 1..Len(front) : front[i] = s[i]
<1>1. PICK S : s \in Seq(S)
  BY DEF IsSequence
<1>2. Len(s) \in Nat /\ Len(s) >= 1
  BY <1>1
<1>3. SubSeq(s, 1, Len(s) - 1) \in Seq(S)
  BY <1>1, <1>2
<1>4. Len(SubSeq(s, 1, Len(s) - 1)) = Len(s) - 1
  <2> DEFINE l == Len(SubSeq(s, 1, Len(s) - 1))
  <2>1. 1 \in Int /\ Len(s) - 1 \in Int /\ \A i \in 1..(Len(s) - 1) : s[i] \in S
    BY <1>1, <1>2
  <2>2. l = IF 1 <= Len(s) - 1 THEN Len(s) - 1 - 1 + 1 ELSE 0
    BY <2>1, SubSeqProperties
  <2>3. l \in Nat
    BY <1>3
  <2> HIDE DEF l
  <2>4. CASE Len(s) = 1
    BY <2>2, <2>4 DEF l
  <2>5. CASE Len(s) > 1
    <3>1. 1 <= Len(s) - 1
      BY <1>2, <2>5
    <3>2. l = Len(s) - 1 - 1 + 1
      BY <2>2, <3>1
    <3>3. QED
      BY <1>2, <2>3, <3>2 DEF l
  <2>6. \A n \in Nat : n >= 1 => n = 1 \/ n > 1
    OBVIOUS
  <2>7. QED
    BY <1>2, <2>4, <2>5, <2>6, Zenon
<1>5. \A i \in 1..(Len(s) - 1) : SubSeq(s, 1, Len(s) - 1)[i] = s[i]
  BY <1>1, <1>2
<1>6. QED
  BY <1>2, <1>3, <1>4, <1>5, Zenon DEF IsSequence

LEMMA ConcatFacts ==
  ASSUME NEW e, NEW s, IsSequence(s)
  PROVE  IsSequence(<<e>> \o s)
<1>1. PICK S : s \in Seq(S)
  BY DEF IsSequence
<1> DEFINE T == S \cup {e}
<1>2. s \in Seq(T)
  BY <1>1, SeqMonotonic
<1>3. e \in T
  OBVIOUS
<1> HIDE DEF T
<1>4. <<e>> \in Seq(T)
  BY <1>3
<1>5. <<e>> \o s \in Seq(T)
  BY <1>2, <1>4
<1>6. QED
  BY <1>5 DEF IsSequence

-----------------------------------------------------------------------------
(* In a block that is valid on a chain, an input that is not the coinbase's *)
(* claims an output that exists, that the chain has not spent and that is   *)
(* mature.                                                                  *)
LEMMA ValidSpends ==
  ASSUME NEW c, IsSequence(c), NEW block, IsSequence(block.txs),
         NEW canonical, Valid(c, block, canonical), CoinbaseMaturity \in Nat,
         NEW t \in 2..Len(block.txs), NEW p \in Points(block.txs[t])
  PROVE  /\ ~Spent(c, p)
         /\ \E g \in Created(Append(c, block), p) :
              is_coinbase(p.hash) => Len(c) + 1 - g >= CoinbaseMaturity
<1> DEFINE n == Len(block.txs)
           view == View(c, block)
           at == Created(Append(c, block), p)
<1>1. n \in Nat /\ DOMAIN block.txs = 1..n /\ t \in 1..n
  BY SequenceDomain
<1>2. /\ State(c).under_checkpoint = FALSE
      /\ State(c).height = Len(c) + 1
  BY DEF State
<1>3. /\ block_check(block, block.header.timestamp) = "success"
      /\ block_accept(block, view, [u \in DOMAIN block.txs |-> Duplicate(c, block.txs[u])],
                      canonical, State(c)) = "success"
  BY DEF Valid
<1>4. ~is_extra_coinbases(block) /\ ~is_null_non_coinbase(block.txs[t])
  BY <1>1, <1>3, CheckedBlock
<1>5. p # NullPoint
  BY <1>1, <1>4 DEF is_extra_coinbases, is_null_non_coinbase
<1>6. /\ ~is_missing_previous_outputs(block.txs[t], view)
      /\ ~is_double_spend(block.txs[t], view, FALSE)
      /\ is_mature(block.txs[t], view, Len(c) + 1)
  <2> HIDE DEF view
  <2>1. QED
    BY <1>1, <1>2, <1>3, AcceptedBlock, Zenon
<1>7. view[p] = Prevout(c, block, p)
  <2>1. p \in AllPoints(block)
    BY <1>1 DEF AllPoints
  <2>2. QED
    BY <2>1 DEF View
<1>8. view[p].cache # not_found
  BY <1>5, <1>6 DEF is_missing_previous_outputs
<1>9. at # {}
  BY <1>7, <1>8 DEF Prevout
<1>10. /\ view[p].spent <=> Spent(c, p)
       /\ view[p].confirmed <=> Spent(c, p)
       /\ view[p].coinbase <=> is_coinbase(p.hash)
       /\ view[p].height = Max(at)
  <2>1. view[p] = [cache |-> p.hash.outputs[p.index].value,
                   spent |-> Spent(c, p), confirmed |-> Spent(c, p),
                   coinbase |-> is_coinbase(p.hash),
                   height |-> Max(at), median_time_past |-> Mtp(Max(at))]
    BY <1>5, <1>7, <1>9, Zenon DEF Prevout
  <2> HIDE DEF view, at
  <2>2. view[p].spent <=> Spent(c, p)
    BY <2>1
  <2>3. view[p].confirmed <=> Spent(c, p)
    BY <2>1
  <2>4. view[p].coinbase <=> is_coinbase(p.hash)
    BY <2>1
  <2>5. view[p].height = Max(at)
    BY <2>1
  <2>6. QED
    BY <2>2, <2>3, <2>4, <2>5
<1>11. ~Spent(c, p)
  BY <1>6, <1>10 DEF is_double_spend
<1>12. Max(at) \in at /\ Max(at) \in 1..(Len(c) + 1)
  <2>1. Len(c) + 1 \in Nat /\ at \subseteq 1..(Len(c) + 1)
    <3>1. Len(c) \in Nat /\ DOMAIN Append(c, block) = 1..(Len(c) + 1)
      BY AppendFacts, SequenceDomain
    <3>2. QED
      BY <3>1 DEF Created
  <2>2. \E x \in at : \A y \in at : x >= y
    <3> HIDE DEF at
    <3>1. QED
      BY <1>9, <2>1, GreatestExists, Zenon
  <2>3. Max(at) \in at
    BY <2>2 DEF Max
  <2>4. QED
    BY <2>1, <2>3
<1>13. is_coinbase(p.hash) => floor_subtract(Len(c) + 1, Max(at)) >= CoinbaseMaturity
  BY <1>5, <1>6, <1>10 DEF is_mature, is_mature_point
<1>14. is_coinbase(p.hash) => Len(c) + 1 - Max(at) >= CoinbaseMaturity
  <2>1. Len(c) \in Nat
    BY SequenceDomain
  <2> HIDE DEF at
  <2>2. QED
    BY <2>1, <1>12, <1>13 DEF floor_subtract
<1>15. QED
  BY <1>11, <1>12, <1>14

-----------------------------------------------------------------------------
(* What the miners' lists of transactions have to be.                      *)
SpendsAreSequences == \A c, coinbase : \A spends \in Spends(c, coinbase) : IsSequence(spends)

ChainOK ==
  /\ IsSequence(chain)
  /\ \A h \in 1..Len(chain) : IsSequence(chain[h].txs)

(* The step that appends a block, as the invariants see it.                *)
LEMMA OrganizeFacts ==
  ASSUME SpendsAreSequences, ChainOK, NEW coinbase, NEW spends \in Spends(chain, coinbase),
         NEW block, block = Block(chain, <<coinbase>> \o spends), Organize(block)
  PROVE  /\ IsSequence(block.txs)
         /\ \E canonical : Valid(chain, block, canonical)
         /\ chain' = Append(chain, block)
         /\ Len(chain) \in Nat
         /\ Len(chain') = Len(chain) + 1
         /\ \A h \in 1..Len(chain) : chain'[h] = chain[h]
         /\ chain'[Len(chain) + 1] = block
         /\ ChainOK'
<1>1. IsSequence(block.txs)
  <2>1. block.txs = <<coinbase>> \o spends
    BY DEF Block
  <2>2. IsSequence(spends)
    BY DEF SpendsAreSequences
  <2>3. QED
    BY <2>1, <2>2, ConcatFacts, Zenon
<1>2. chain' = Append(chain, block) /\ \E canonical : Valid(chain, block, canonical)
  BY DEF Organize
<1>3. /\ IsSequence(chain')
      /\ Len(chain) \in Nat
      /\ Len(chain') = Len(chain) + 1
      /\ \A h \in 1..Len(chain) : chain'[h] = chain[h]
      /\ chain'[Len(chain) + 1] = block
  BY <1>2, AppendFacts, SequenceDomain DEF ChainOK
<1>4. ChainOK'
  <2>1. ASSUME NEW h \in 1..Len(chain') PROVE IsSequence(chain'[h].txs)
    BY <1>1, <1>3 DEF ChainOK
  <2>2. QED
    BY <1>3, <2>1 DEF ChainOK
<1>5. QED
  BY <1>1, <1>2, <1>3, <1>4

LEMMA PopFacts ==
  ASSUME ChainOK, Pop
  PROVE  /\ Len(chain) \in Nat /\ Len(chain') \in Nat
         /\ Len(chain') <= Len(chain)
         /\ \A h \in 1..Len(chain') : chain'[h] = chain[h]
         /\ ChainOK'
<1>1. /\ chain' = SubSeq(chain, 1, Len(chain) - 1) /\ chain # <<>>
      /\ IsSequence(chain)
  BY DEF Pop, ChainOK
<1>2. /\ IsSequence(chain')
      /\ Len(chain') = Len(chain) - 1
      /\ Len(chain) >= 1
      /\ \A i \in 1..Len(chain') : chain'[i] = chain[i]
  BY <1>1, FrontFacts
<1>3. Len(chain) \in Nat /\ Len(chain') \in Nat
  BY <1>1, <1>2, SequenceDomain
<1>4. \A h \in 1..Len(chain') : IsSequence(chain'[h].txs)
  BY <1>2, <1>3 DEF ChainOK
<1>5. QED
  BY <1>2, <1>3, <1>4 DEF ChainOK

-----------------------------------------------------------------------------
(* A popped block takes no claim of an output that another one has made:   *)
(* both invariants speak of the blocks of the chain one by one or in pairs. *)
LEMMA InitOK ==
  ASSUME Init
  PROVE  ChainOK /\ NoDoubleSpend /\ SpendsExistAndAreMature
<1>1. chain = <<>> /\ Len(chain) = 0 /\ DOMAIN chain = {}
  BY DEF Init
<1>2. IsSequence(chain)
  BY <1>1 DEF IsSequence
<1>3. QED
  BY <1>1, <1>2 DEF ChainOK, NoDoubleSpend, SpendsExistAndAreMature

(* The invariant's core, on one chain: two claims of the same output are   *)
(* the same claim.                                                         *)
LEMMA OrganizeNoDoubleSpend ==
  ASSUME SpendsAreSequences, CoinbaseMaturity \in Nat, ChainOK, NoDoubleSpend,
         NEW coinbase, NEW spends \in Spends(chain, coinbase),
         NEW block, block = Block(chain, <<coinbase>> \o spends), Organize(block)
  PROVE  NoDoubleSpend'
<1> DEFINE n == Len(chain) + 1
<1>1. /\ IsSequence(block.txs)
      /\ \E canonical : Valid(chain, block, canonical)
      /\ Len(chain) \in Nat /\ Len(chain') = n
      /\ \A h \in 1..Len(chain) : chain'[h] = chain[h]
      /\ chain'[n] = block
      /\ ChainOK'
  BY OrganizeFacts
<1>2. IsSequence(chain) /\ DOMAIN chain = 1..Len(chain) /\ DOMAIN chain' = 1..n
  BY <1>1, SequenceDomain DEF ChainOK
<1>3. PICK canonical : Valid(chain, block, canonical)
  BY <1>1, Zenon
<1>4. ~block_internal_double_spend(block)
  <2>1. block_check(block, block.header.timestamp) = "success"
    BY <1>3, Zenon DEF Valid
  <2>2. QED
    BY <1>1, <2>1, CheckedBlock, SequenceDomain
<1>5. \A t \in 2..Len(block.txs) : \A p \in Points(block.txs[t]) : ~Spent(chain, p)
  BY <1>1, <1>2, <1>3, ValidSpends
<1>6. ASSUME NEW g \in 1..n, NEW h \in 1..n,
             NEW t \in 2..Len(chain'[g].txs), NEW u \in 2..Len(chain'[h].txs),
             NEW i \in DOMAIN chain'[g].txs[t].inputs, NEW j \in DOMAIN chain'[h].txs[u].inputs,
             chain'[g].txs[t].inputs[i].prev = chain'[h].txs[u].inputs[j].prev
      PROVE  g = h /\ t = u /\ i = j
  <2>1. CASE g = n /\ h = n
    <3>1. chain'[g] = block /\ chain'[h] = block
      BY <1>1, <2>1, SMTT(30)
    <3>2. /\ t \in 2..Len(block.txs) /\ u \in 2..Len(block.txs)
          /\ i \in DOMAIN block.txs[t].inputs /\ j \in DOMAIN block.txs[u].inputs
          /\ block.txs[t].inputs[i].prev = block.txs[u].inputs[j].prev
      BY <1>6, <3>1
    <3>3. <<t, i>> = <<u, j>>
      BY <1>4, <3>2, ZenonT(60) DEF block_internal_double_spend
    <3>4. QED
      BY <2>1, <3>3
  <2>2. CASE g = n /\ h # n
    <3>1. h \in DOMAIN chain /\ chain'[h] = chain[h]
      BY <1>1, <1>2, <2>2
    <3>2. u \in DOMAIN chain[h].txs
      BY <3>1, <1>2, SequenceDomain DEF ChainOK
    <3>3. Spent(chain, chain[h].txs[u].inputs[j].prev)
      BY <3>1, <3>2, Zenon DEF Spent, Points
    <3>4. block.txs[t].inputs[i].prev \in Points(block.txs[t])
      BY <1>1, <2>2, ZenonT(30) DEF Points
    <3>5. /\ t \in 2..Len(block.txs)
          /\ block.txs[t].inputs[i].prev = chain[h].txs[u].inputs[j].prev
      BY <1>1, <1>6, <2>2, <3>1, SMTT(30)
    <3>6. QED
      BY <1>5, <3>3, <3>4, <3>5, Zenon
  <2>3. CASE g # n /\ h = n
    <3>1. g \in DOMAIN chain /\ chain'[g] = chain[g]
      BY <1>1, <1>2, <2>3
    <3>2. t \in DOMAIN chain[g].txs
      BY <3>1, <1>2, SequenceDomain DEF ChainOK
    <3>3. Spent(chain, chain[g].txs[t].inputs[i].prev)
      BY <3>1, <3>2, Zenon DEF Spent, Points
    <3>4. block.txs[u].inputs[j].prev \in Points(block.txs[u])
      BY <1>1, <2>3, ZenonT(30) DEF Points
    <3>5. /\ u \in 2..Len(block.txs)
          /\ block.txs[u].inputs[j].prev = chain[g].txs[t].inputs[i].prev
      BY <1>1, <1>6, <2>3, <3>1, SMTT(30)
    <3>6. QED
      BY <1>5, <3>3, <3>4, <3>5, Zenon
  <2>4. CASE g # n /\ h # n
    <3>1. /\ g \in DOMAIN chain /\ chain'[g] = chain[g]
          /\ h \in DOMAIN chain /\ chain'[h] = chain[h]
      BY <1>1, <1>2, <2>4, SMTT(30)
    <3>2. /\ t \in 2..Len(chain[g].txs) /\ i \in DOMAIN chain[g].txs[t].inputs
          /\ u \in 2..Len(chain[h].txs) /\ j \in DOMAIN chain[h].txs[u].inputs
          /\ chain[g].txs[t].inputs[i].prev = chain[h].txs[u].inputs[j].prev
      BY <1>6, <3>1
    <3>3. \A tt \in 2..Len(chain[g].txs), uu \in 2..Len(chain[h].txs) :
            \A ii \in DOMAIN chain[g].txs[tt].inputs, jj \in DOMAIN chain[h].txs[uu].inputs :
              chain[g].txs[tt].inputs[ii].prev = chain[h].txs[uu].inputs[jj].prev
                => g = h /\ tt = uu /\ ii = jj
      BY <3>1, Zenon DEF NoDoubleSpend
    <3>4. \A ii \in DOMAIN chain[g].txs[t].inputs, jj \in DOMAIN chain[h].txs[u].inputs :
              chain[g].txs[t].inputs[ii].prev = chain[h].txs[u].inputs[jj].prev
                => g = h /\ t = u /\ ii = jj
      BY <3>2, <3>3, ZenonT(60)
    <3>5. QED
      BY <3>2, <3>4, Zenon
  <2>5. QED
    BY <2>1, <2>2, <2>3, <2>4, SMTT(30)
<1>7. \A g, h \in DOMAIN chain' :
        \A t \in 2..Len(chain'[g].txs), u \in 2..Len(chain'[h].txs) :
          \A i \in DOMAIN chain'[g].txs[t].inputs, j \in DOMAIN chain'[h].txs[u].inputs :
            chain'[g].txs[t].inputs[i].prev = chain'[h].txs[u].inputs[j].prev
              => g = h /\ t = u /\ i = j
  BY <1>2, <1>6, ZenonT(30)
<1>8. QED
  BY <1>7, Zenon DEF NoDoubleSpend

LEMMA PopNoDoubleSpend ==
  ASSUME ChainOK, NoDoubleSpend, Pop
  PROVE  NoDoubleSpend'
<1>1. /\ Len(chain) \in Nat /\ Len(chain') \in Nat
      /\ Len(chain') <= Len(chain)
      /\ \A h \in 1..Len(chain') : chain'[h] = chain[h]
      /\ ChainOK'
  BY PopFacts
<1>2. DOMAIN chain = 1..Len(chain) /\ DOMAIN chain' = 1..Len(chain')
  BY <1>1, SequenceDomain DEF ChainOK
<1>3. \A h \in DOMAIN chain' : h \in DOMAIN chain /\ chain'[h] = chain[h]
  BY <1>1, <1>2, SMTT(30)
<1>4. ASSUME NEW g \in DOMAIN chain', NEW h \in DOMAIN chain',
             NEW t \in 2..Len(chain'[g].txs), NEW u \in 2..Len(chain'[h].txs)
      PROVE  \A i \in DOMAIN chain'[g].txs[t].inputs, j \in DOMAIN chain'[h].txs[u].inputs :
               chain'[g].txs[t].inputs[i].prev = chain'[h].txs[u].inputs[j].prev
                 => g = h /\ t = u /\ i = j
  <2>1. /\ g \in DOMAIN chain /\ chain'[g] = chain[g]
        /\ h \in DOMAIN chain /\ chain'[h] = chain[h]
    BY <1>3
  <2>2. \A tt \in 2..Len(chain[g].txs), uu \in 2..Len(chain[h].txs) :
          \A i \in DOMAIN chain[g].txs[tt].inputs, j \in DOMAIN chain[h].txs[uu].inputs :
            chain[g].txs[tt].inputs[i].prev = chain[h].txs[uu].inputs[j].prev
              => g = h /\ tt = uu /\ i = j
    BY <2>1, Zenon DEF NoDoubleSpend
  <2>3. t \in 2..Len(chain[g].txs) /\ u \in 2..Len(chain[h].txs)
    BY <2>1, SMTT(30)
  <2>4. \A i \in DOMAIN chain[g].txs[t].inputs, j \in DOMAIN chain[h].txs[u].inputs :
          chain[g].txs[t].inputs[i].prev = chain[h].txs[u].inputs[j].prev
            => g = h /\ t = u /\ i = j
    BY <2>2, <2>3, ZenonT(40)
  <2>5. QED
    BY <2>1, <2>4, SMTT(30)
<1>5. QED
  BY <1>4, Zenon DEF NoDoubleSpend

-----------------------------------------------------------------------------
(* Every claimed output exists and, of a coinbase, is mature, in one block. *)
SpendOK(c, h, t, p) ==
  \E g \in 1..h :
    /\ g \in Created(c, p)
    /\ Currency # "BCH" /\ g = h => \E u \in 1..(t - 1) : hash(c[h].txs[u]) = p.hash
    /\ is_coinbase(p.hash) => h - g >= CoinbaseMaturity

LEMMA SpendsExistIsSpendOK ==
  SpendsExistAndAreMature
    <=> \A h \in DOMAIN chain : \A t \in 2..Len(chain[h].txs) :
          \A p \in Points(chain[h].txs[t]) : SpendOK(chain, h, t, p)
BY Zenon DEF SpendsExistAndAreMature, SpendOK

(* A claim is as good in a chain that agrees up to its height.             *)
LEMMA SpendOKAgrees ==
  ASSUME NEW c, NEW d, NEW h \in Nat, NEW t, NEW p,
         \A g \in 1..h : g \in DOMAIN c /\ g \in DOMAIN d /\ c[g] = d[g],
         SpendOK(c, h, t, p)
  PROVE  SpendOK(d, h, t, p)
<1>1. PICK g \in 1..h :
        /\ g \in Created(c, p)
        /\ Currency # "BCH" /\ g = h => \E u \in 1..(t - 1) : hash(c[h].txs[u]) = p.hash
        /\ is_coinbase(p.hash) => h - g >= CoinbaseMaturity
  BY Zenon DEF SpendOK
<1>2. c[g] = d[g] /\ g \in DOMAIN d
  OBVIOUS
<1>3. g \in Created(d, p)
  BY <1>1, <1>2 DEF Created
<1>4. g = h => c[h] = d[h]
  BY <1>2
<1>5. QED
  BY <1>1, <1>3, <1>4 DEF SpendOK

LEMMA OrganizeSpendsExist ==
  ASSUME SpendsAreSequences, CoinbaseMaturity \in Nat, ChainOK, SpendsExistAndAreMature,
         NEW coinbase, NEW spends \in Spends(chain, coinbase),
         NEW block, block = Block(chain, <<coinbase>> \o spends), Organize(block)
  PROVE  SpendsExistAndAreMature'
<1> DEFINE n == Len(chain) + 1
<1>1. /\ IsSequence(block.txs)
      /\ \E canonical : Valid(chain, block, canonical)
      /\ chain' = Append(chain, block)
      /\ Len(chain) \in Nat /\ Len(chain') = n
      /\ \A h \in 1..Len(chain) : chain'[h] = chain[h]
      /\ chain'[n] = block
      /\ ChainOK'
  BY OrganizeFacts, SMTT(30)
<1>2. IsSequence(chain) /\ DOMAIN chain = 1..Len(chain) /\ DOMAIN chain' = 1..n
  BY <1>1, SequenceDomain, Zenon DEF ChainOK
<1>3. PICK canonical : Valid(chain, block, canonical)
  BY <1>1, Zenon
<1>4. Currency # "BCH" => ~is_forward_reference(block)
  <2>1. block_check(block, block.header.timestamp) = "success"
    BY <1>3 DEF Valid
  <2>2. Len(block.txs) \in Nat /\ DOMAIN block.txs = 1..Len(block.txs)
    BY <1>1, SequenceDomain, Zenon
  <2>3. QED
    BY <2>1, <2>2, CheckedBlock, Zenon
<1>5. ASSUME NEW h \in DOMAIN chain', NEW t \in 2..Len(chain'[h].txs),
             NEW p \in Points(chain'[h].txs[t])
      PROVE  SpendOK(chain', h, t, p)
  <2>1. CASE h # n
    <3>1. h \in Nat /\ h \in DOMAIN chain /\ chain'[h] = chain[h]
      BY <1>1, <1>2, <2>1, SMTT(30)
    <3>2. SpendOK(chain, h, t, p)
      BY <3>1, SpendsExistIsSpendOK, Zenon
    <3>3. \A g \in 1..h : g \in DOMAIN chain /\ g \in DOMAIN chain' /\ chain[g] = chain'[g]
      BY <1>1, <1>2, <3>1, SMTT(30)
    <3>4. QED
      BY <3>1, <3>2, <3>3, SpendOKAgrees, Zenon
  <2>2. CASE h = n
    <3>1. t \in 2..Len(block.txs) /\ p \in Points(block.txs[t])
      BY <1>1, <2>2
    <3>2. PICK g \in Created(chain', p) : is_coinbase(p.hash) => n - g >= CoinbaseMaturity
      <4>1. IsSequence(block.txs) /\ IsSequence(chain)
        BY <1>1, <1>2, Zenon
      <4>2. \E g \in Created(Append(chain, block), p) :
              is_coinbase(p.hash) => Len(chain) + 1 - g >= CoinbaseMaturity
        BY <1>3, <3>1, <4>1, ValidSpends, Zenon
      <4>3. chain' = Append(chain, block)
        BY <1>1
      <4>4. Created(chain', p) = Created(Append(chain, block), p)
        BY <4>3
      <4>5. PICK g \in Created(Append(chain, block), p) :
              is_coinbase(p.hash) => Len(chain) + 1 - g >= CoinbaseMaturity
        BY <4>2, Zenon
      <4>6. g \in Created(chain', p) /\ g \in 1..n
        BY <1>2, <4>4, Zenon DEF Created
      <4>7. is_coinbase(p.hash) => n - g >= CoinbaseMaturity
        BY <1>1, <4>5, <4>6
      <4>8. QED
        BY <4>6, <4>7, Zenon
    <3>3. g \in 1..n
      BY <1>2, Zenon DEF Created
    <3>4. ASSUME Currency # "BCH", g = n
          PROVE  \E u \in 1..(t - 1) : hash(block.txs[u]) = p.hash
      <4>1. PICK u \in DOMAIN block.txs : hash(block.txs[u]) = p.hash
        BY <1>1, <3>4, Zenon DEF Created
      <4>2. /\ Len(block.txs) \in Nat /\ DOMAIN block.txs = 1..Len(block.txs)
            /\ t \in DOMAIN block.txs
        BY <1>1, <3>1, SequenceDomain, SMTT(60)
      <4>3. ~(t <= u)
        BY <1>4, <3>1, <3>4, <4>1, <4>2, Zenon DEF is_forward_reference
      <4>4. u \in 1..(t - 1)
        BY <3>1, <4>2, <4>3
      <4>5. QED
        BY <4>1, <4>4, Zenon
    <3>5. QED
      BY <1>1, <2>2, <3>2, <3>3, <3>4, Zenon DEF SpendOK
  <2>3. QED
    BY <2>1, <2>2, Zenon
<1>6. QED
  BY <1>5, Zenon DEF SpendsExistAndAreMature, SpendOK

LEMMA PopSpendsExist ==
  ASSUME ChainOK, SpendsExistAndAreMature, Pop
  PROVE  SpendsExistAndAreMature'
<1>1. /\ Len(chain) \in Nat /\ Len(chain') \in Nat
      /\ Len(chain') <= Len(chain)
      /\ \A h \in 1..Len(chain') : chain'[h] = chain[h]
      /\ ChainOK'
  BY PopFacts
<1>2. DOMAIN chain = 1..Len(chain) /\ DOMAIN chain' = 1..Len(chain')
  BY <1>1, SequenceDomain DEF ChainOK
<1>3. ASSUME NEW h \in DOMAIN chain', NEW t \in 2..Len(chain'[h].txs),
             NEW p \in Points(chain'[h].txs[t])
      PROVE  SpendOK(chain', h, t, p)
  <2>1. h \in Nat /\ h \in DOMAIN chain /\ chain'[h] = chain[h]
    BY <1>1, <1>2
  <2>2. SpendOK(chain, h, t, p)
    BY <2>1, SpendsExistIsSpendOK
  <2>3. \A g \in 1..h : g \in DOMAIN chain /\ g \in DOMAIN chain' /\ chain[g] = chain'[g]
    BY <1>1, <1>2, <2>1
  <2>4. QED
    BY <2>1, <2>2, <2>3, SpendOKAgrees, Zenon
<1>4. QED
  BY <1>3, Zenon DEF SpendsExistAndAreMature, SpendOK

-----------------------------------------------------------------------------
LedgerInv == ChainOK /\ NoDoubleSpend /\ SpendsExistAndAreMature

LEMMA LedgerStep ==
  ASSUME SpendsAreSequences, CoinbaseMaturity \in Nat, LedgerInv, [Next]_vars
  PROVE  LedgerInv'
<1> USE DEF LedgerInv
<1>1. CASE Pop
  BY <1>1, PopFacts, PopNoDoubleSpend, PopSpendsExist, Zenon
<1>2. ASSUME NEW coinbase \in Coinbases(chain), NEW spends \in Spends(chain, coinbase),
             Organize(Block(chain, <<coinbase>> \o spends))
      PROVE  LedgerInv'
  <2>1. PICK block : block = Block(chain, <<coinbase>> \o spends)
    OBVIOUS
  <2>2. Organize(block)
    BY <1>2, <2>1, Zenon
  <2>3. ChainOK'
    BY <2>1, <2>2, OrganizeFacts
  <2>4. NoDoubleSpend'
    BY <2>1, <2>2, OrganizeNoDoubleSpend
  <2>5. SpendsExistAndAreMature'
    BY <2>1, <2>2, OrganizeSpendsExist
  <2>6. QED
    BY <2>3, <2>4, <2>5
<1>3. CASE UNCHANGED vars
  <2>1. chain' = chain
    BY <1>3 DEF vars
  <2>2. ChainOK'
    BY <2>1, Zenon DEF ChainOK
  <2>3. NoDoubleSpend'
    BY <2>1, SMTT(30) DEF NoDoubleSpend
  <2>4. SpendsExistAndAreMature'
    <3>1. \A h \in DOMAIN chain : \A t \in 2..Len(chain[h].txs) :
            \A p \in Points(chain[h].txs[t]) : SpendOK(chain, h, t, p)
      BY SpendsExistIsSpendOK, Zenon
    <3>2. \A h \in DOMAIN chain' : \A t \in 2..Len(chain'[h].txs) :
            \A p \in Points(chain'[h].txs[t]) : SpendOK(chain', h, t, p)
      BY <2>1, <3>1, Zenon
    <3>3. QED
      BY <3>2, Zenon DEF SpendsExistAndAreMature, SpendOK
  <2>5. QED
    BY <2>2, <2>3, <2>4
<1>4. QED
  BY <1>1, <1>2, <1>3, Zenon DEF Next

(* block::check and block::accept let no output be spent twice, whatever   *)
(* blocks are tried and however often the chain is reorganized.            *)
THEOREM LedgerHasNoDoubleSpend ==
  ASSUME SpendsAreSequences, CoinbaseMaturity \in Nat
  PROVE  Spec => []NoDoubleSpend
<1>1. Init => LedgerInv
  BY InitOK DEF LedgerInv
<1>2. LedgerInv /\ [Next]_vars => LedgerInv'
  BY LedgerStep
<1>3. LedgerInv => NoDoubleSpend
  BY Zenon DEF LedgerInv
<1>4. QED
  BY <1>1, <1>2, <1>3, PTL DEF Spec

(* block::check and block::accept let only outputs be spent that exist, in *)
(* the order of the block where there is one, and coinbases when mature.   *)
THEOREM LedgerSpendsExist ==
  ASSUME SpendsAreSequences, CoinbaseMaturity \in Nat
  PROVE  Spec => []SpendsExistAndAreMature
<1>1. Init => LedgerInv
  BY InitOK DEF LedgerInv
<1>2. LedgerInv /\ [Next]_vars => LedgerInv'
  BY LedgerStep
<1>3. LedgerInv => SpendsExistAndAreMature
  BY DEF LedgerInv
<1>4. QED
  BY <1>1, <1>2, <1>3, PTL DEF Spec

-----------------------------------------------------------------------------
(* A transaction has inputs and outputs, and an input a previous point and *)
(* what its script says of the height.                                     *)
IsTransaction(tx) ==
  /\ {"inputs", "outputs"} \subseteq DOMAIN tx
  /\ IsSequence(tx.inputs)
  /\ \A i \in DOMAIN tx.inputs : {"prev", "height"} \subseteq DOMAIN tx.inputs[i]

(* What is tried on top of a chain consists of transactions.               *)
TransactionsAreTried ==
  \A c : \A coinbase \in Coinbases(c) :
    /\ IsTransaction(coinbase)
    /\ \A spends \in Spends(c, coinbase) : \A t \in DOMAIN spends : IsTransaction(spends[t])

(* "allow_collisions is active above the bip34 checkpoint only", where the *)
(* height is in every coinbase; without it bip30 is enforced.              *)
CollisionsNeedHeights ==
  \A active \in ForkSets :
    /\ "bip30_rule" \in active
    /\ "allow_collisions" \in active => "bip34_rule" \in active

(* What the hash of a transaction tells of it.                             *)
LEMMA HashTells ==
  ASSUME NEW a, IsTransaction(a), NEW b, IsTransaction(b), hash(a) = hash(b)
  PROVE  /\ DOMAIN a.inputs = DOMAIN b.inputs /\ Len(a.inputs) = Len(b.inputs)
         /\ a.outputs = b.outputs
         /\ \A i \in DOMAIN a.inputs : /\ a.inputs[i].prev = b.inputs[i].prev
                                       /\ a.inputs[i].height = b.inputs[i].height
<1> DEFINE bare(tx) == [i \in DOMAIN tx.inputs |-> [tx.inputs[i] EXCEPT !.witness = FALSE]]
<1>1. ASSUME NEW tx, IsTransaction(tx)
      PROVE  hash(tx).inputs = bare(tx) /\ hash(tx).outputs = tx.outputs
  <2>1. "inputs" \in DOMAIN tx /\ "outputs" \in DOMAIN tx
    BY <1>1 DEF IsTransaction
  <2> HIDE DEF bare
  <2>2. hash(tx) = [tx EXCEPT !.inputs = bare(tx)]
    BY DEF hash, bare
  <2>3. QED
    BY <2>1, <2>2
<1>2. bare(a) = bare(b) /\ a.outputs = b.outputs
  <2> HIDE DEF bare
  <2>1. QED
    BY <1>1
<1>3. DOMAIN a.inputs = DOMAIN b.inputs
  BY <1>2
<1>4. Len(a.inputs) = Len(b.inputs)
  <2>1. /\ Len(a.inputs) \in Nat /\ DOMAIN a.inputs = 1..Len(a.inputs)
        /\ Len(b.inputs) \in Nat /\ DOMAIN b.inputs = 1..Len(b.inputs)
    BY SequenceDomain DEF IsTransaction
  <2>2. \A m, n \in Nat : (\A i \in Int : i \in 1..m <=> i \in 1..n) => m = n
    OBVIOUS
  <2>3. QED
    BY <1>3, <2>1, <2>2, Zenon
<1>5. ASSUME NEW i \in DOMAIN a.inputs
      PROVE  a.inputs[i].prev = b.inputs[i].prev /\ a.inputs[i].height = b.inputs[i].height
  <2>1. [a.inputs[i] EXCEPT !.witness = FALSE] = [b.inputs[i] EXCEPT !.witness = FALSE]
    <3>1. bare(a)[i] = [a.inputs[i] EXCEPT !.witness = FALSE]
      OBVIOUS
    <3>2. bare(b)[i] = [b.inputs[i] EXCEPT !.witness = FALSE]
      BY <1>3
    <3> HIDE DEF bare
    <3>3. QED
      BY <1>2, <3>1, <3>2
  <2>2. /\ "prev" \in DOMAIN a.inputs[i] /\ "height" \in DOMAIN a.inputs[i]
        /\ "prev" \in DOMAIN b.inputs[i] /\ "height" \in DOMAIN b.inputs[i]
    BY <1>3 DEF IsTransaction
  <2>3. ASSUME NEW r, "prev" \in DOMAIN r, "height" \in DOMAIN r
        PROVE  /\ [r EXCEPT !.witness = FALSE].prev = r.prev
               /\ [r EXCEPT !.witness = FALSE].height = r.height
    BY <2>3
  <2>4. QED
    BY <2>1, <2>2, <2>3
<1>6. QED
  BY <1>2, <1>3, <1>4, <1>5

(* What the blocks below a height have spent.                              *)
LEMMA SpentBelow ==
  ASSUME NEW c, IsSequence(c), NEW h \in 1..(Len(c) + 1), NEW p
  PROVE  Spent(SubSeq(c, 1, h - 1), p)
           <=> \E k \in 1..(h - 1) : \E t \in DOMAIN c[k].txs : p \in Points(c[k].txs[t])
<1> DEFINE below == SubSeq(c, 1, h - 1)
<1>1. PICK S : c \in Seq(S)
  BY DEF IsSequence
<1>2. Len(c) \in Nat /\ h \in Nat /\ h >= 1 /\ h - 1 <= Len(c)
  BY <1>1
<1>3. below = [i \in 1..(h - 1) |-> c[i]]
  BY <1>1, <1>2
<1>4. DOMAIN below = 1..(h - 1) /\ \A k \in 1..(h - 1) : below[k] = c[k]
  BY <1>3
<1> HIDE DEF below
<1>5. Spent(below, p)
        <=> \E k \in 1..(h - 1) : \E t \in DOMAIN c[k].txs : p \in Points(c[k].txs[t])
  BY <1>4, Zenon DEF Spent
<1>6. QED
  BY <1>5 DEF below

(* What block::check and block::accept say of a block by itself: there is  *)
(* a coinbase, only as its first transaction, and every transaction has an *)
(* input; with bip34 the coinbase has the height.                          *)
BlockOK(block, height) ==
  /\ \A t \in 1..Len(block.txs) : IsTransaction(block.txs[t]) /\ 1 \in DOMAIN block.txs[t].inputs
  /\ is_coinbase(block.txs[1])
  /\ \A t \in 2..Len(block.txs) : ~is_coinbase(block.txs[t])
  /\ "bip34_rule" \in forks => block.txs[1].inputs[1].height = height

BlocksOK ==
  /\ forks \in ForkSets
  /\ \A h \in 1..Len(chain) : BlockOK(chain[h], h)

LEMMA ValidIsOK ==
  ASSUME NEW c, NEW block, IsSequence(block.txs), NEW canonical, Valid(c, block, canonical),
         \A t \in 1..Len(block.txs) : IsTransaction(block.txs[t])
  PROVE  /\ BlockOK(block, Len(c) + 1)
         /\ "bip30_rule" \in forks /\ "allow_collisions" \notin forks
              => \A t \in 1..Len(block.txs) : ~Duplicate(c, block.txs[t])
<1> DEFINE n == Len(block.txs)
           view == View(c, block)
           duplicate == [u \in DOMAIN block.txs |-> Duplicate(c, block.txs[u])]
<1>1. n \in Nat /\ DOMAIN block.txs = 1..n
  BY SequenceDomain
<1>2. /\ block_check(block, block.header.timestamp) = "success"
      /\ block_accept(block, view, duplicate, canonical, State(c)) = "success"
  BY Zenon DEF Valid
<1>3. /\ State(c).under_checkpoint = FALSE /\ State(c).height = Len(c) + 1
      /\ State(c).forks = forks
  BY DEF State
<1> HIDE DEF view, duplicate
<1>4. is_coinbase(block.txs[1]) /\ ~is_extra_coinbases(block)
  BY <1>2, Zenon DEF block_check
<1>5. \A t \in 1..n : tx_check(block.txs[t], FALSE) = "success"
  <2> DEFINE codes == [t \in DOMAIN block.txs |-> tx_check(block.txs[t], FALSE)]
  <2>1. FirstError(codes) = "success"
    BY <1>2, Zenon DEF block_check
  <2>2. DOMAIN codes = 1..n
    BY <1>1
  <2>3. \A t \in 1..n : codes[t] = "success"
    BY <1>1, <2>1, <2>2, FirstErrorSucceeds, Zenon
  <2>4. QED
    BY <1>1, <2>3, Zenon
<1>6. \A t \in 1..n : 1 \in DOMAIN block.txs[t].inputs
  <2>1. ASSUME NEW t \in 1..n PROVE 1 \in DOMAIN block.txs[t].inputs
    <3>1. block.txs[t].inputs # <<>> /\ IsSequence(block.txs[t].inputs)
      BY <1>5, <2>1, Zenon DEF tx_check, IsTransaction
    <3>2. ASSUME NEW s, IsSequence(s), s # <<>> PROVE 1 \in DOMAIN s
      <4>1. PICK S : s \in Seq(S)
        BY <3>2 DEF IsSequence
      <4>2. QED
        BY <3>2, <4>1
    <3>3. QED
      BY <3>1, <3>2, Zenon
  <2>2. QED
    BY <2>1
<1>7. "bip34_rule" \in forks => block.txs[1].inputs[1].height = Len(c) + 1
  BY <1>2, <1>3, Zenon DEF block_accept, Enabled, is_valid_coinbase_script
<1>8. ASSUME "bip30_rule" \in forks, "allow_collisions" \notin forks, NEW t \in 1..n
      PROVE  ~Duplicate(c, block.txs[t])
  <2> DEFINE codes == [u \in DOMAIN block.txs |->
                         tx_accept(block.txs[u], view, duplicate[u], State(c), FALSE)]
  <2>1. FirstError(codes) = "success"
    BY <1>2, <1>3, Zenon DEF block_accept
  <2>2. DOMAIN codes = 1..n
    BY <1>1
  <2>3. \A u \in 1..n : codes[u] = "success"
    BY <1>1, <2>1, <2>2, FirstErrorSucceeds, Zenon
  <2>4. tx_accept(block.txs[t], view, duplicate[t], State(c), FALSE) = "success"
    BY <1>1, <1>8, <2>3, Zenon
  <2>5. ~duplicate[t]
    BY <1>3, <1>8, <2>4, Zenon DEF tx_accept, Enabled
  <2>6. QED
    BY <1>1, <1>8, <2>5, Zenon DEF duplicate
<1>9. QED
  BY <1>4, <1>6, <1>7, <1>8, Zenon DEF BlockOK, is_extra_coinbases

(* A block at a height and the position of one of its transactions.        *)
InBlock(b, g, t) == BlockOK(b, g) /\ Len(b.txs) \in Nat /\ t \in 1..Len(b.txs)

(* Two blocks of the chain that have a transaction in common.              *)
LEMMA SameHash ==
  ASSUME NEW b, NEW g, NEW t, InBlock(b, g, t), NEW d, NEW h, NEW u, InBlock(d, h, u),
         hash(b.txs[t]) = hash(d.txs[u])
  PROVE  /\ t = 1 <=> u = 1
         /\ b.txs[t].outputs = d.txs[u].outputs
         /\ 1 \in DOMAIN b.txs[t].inputs /\ 1 \in DOMAIN d.txs[u].inputs
         /\ b.txs[t].inputs[1].prev = d.txs[u].inputs[1].prev
         /\ "bip34_rule" \in forks /\ t = 1 => g = h
<1>1. /\ IsTransaction(b.txs[t]) /\ 1 \in DOMAIN b.txs[t].inputs
      /\ IsTransaction(d.txs[u]) /\ 1 \in DOMAIN d.txs[u].inputs
  BY Zenon DEF InBlock, BlockOK
<1>2. /\ Len(b.txs[t].inputs) = Len(d.txs[u].inputs)
      /\ b.txs[t].outputs = d.txs[u].outputs
      /\ b.txs[t].inputs[1].prev = d.txs[u].inputs[1].prev
      /\ b.txs[t].inputs[1].height = d.txs[u].inputs[1].height
  <2>1. /\ Len(b.txs[t].inputs) = Len(d.txs[u].inputs)
        /\ b.txs[t].outputs = d.txs[u].outputs
        /\ \A i \in DOMAIN b.txs[t].inputs :
             /\ b.txs[t].inputs[i].prev = d.txs[u].inputs[i].prev
             /\ b.txs[t].inputs[i].height = d.txs[u].inputs[i].height
    <3>1. PICK x, y : x = b.txs[t] /\ y = d.txs[u]
      BY Zenon
    <3>2. IsTransaction(x) /\ IsTransaction(y) /\ hash(x) = hash(y)
      BY <1>1, <3>1, Zenon
    <3>3. /\ Len(x.inputs) = Len(y.inputs) /\ x.outputs = y.outputs
          /\ \A i \in DOMAIN x.inputs : /\ x.inputs[i].prev = y.inputs[i].prev
                                        /\ x.inputs[i].height = y.inputs[i].height
      BY <3>2, HashTells, SMTT(30)
    <3>4. QED
      BY <3>1, <3>3, Zenon
  <2>2. QED
    BY <1>1, <2>1, Zenon
<1>3. is_coinbase(b.txs[t]) <=> is_coinbase(d.txs[u])
  BY <1>2, Zenon DEF is_coinbase
<1>4. (t = 1 \/ t \in 2..Len(b.txs)) /\ (u = 1 \/ u \in 2..Len(d.txs)) /\ 1 \notin 2..Len(b.txs)
  BY DEF InBlock
<1>5. t = 1 <=> u = 1
  <2>1. (t = 1 <=> is_coinbase(b.txs[t])) /\ (u = 1 <=> is_coinbase(d.txs[u]))
    BY <1>4, Zenon DEF InBlock, BlockOK
  <2>2. QED
    BY <1>3, <2>1, Zenon
<1>6. "bip34_rule" \in forks /\ t = 1 => g = h
  BY <1>2, <1>5, Zenon DEF InBlock, BlockOK
<1>7. QED
  BY <1>1, <1>2, <1>5, <1>6, Zenon

(* UnspentIsNotReplaced of any chain, and of what its blocks spend.        *)
OutputsSpent(c, h, tx) ==
  \A p \in Outputs(tx) :
    \E k \in 1..(h - 1) : \E v \in DOMAIN c[k].txs : p \in Points(c[k].txs[v])

NotReplaced(c, g, h) ==
  \A t \in DOMAIN c[g].txs, u \in DOMAIN c[h].txs :
    /\ hash(c[g].txs[t]) = hash(c[h].txs[u])
    /\ g < h \/ (g = h /\ t < u)
    => OutputsSpent(c, h, c[g].txs[t])

LEMMA ReplacedBelow ==
  ASSUME NEW c, IsSequence(c)
  PROVE  (\A g, h \in DOMAIN c : \A t \in DOMAIN c[g].txs, u \in DOMAIN c[h].txs :
            /\ hash(c[g].txs[t]) = hash(c[h].txs[u])
            /\ g < h \/ (g = h /\ t < u)
            => \A p \in Outputs(c[g].txs[t]) : Spent(SubSeq(c, 1, h - 1), p))
         <=> \A g, h \in DOMAIN c : NotReplaced(c, g, h)
<1>1. \A h \in DOMAIN c : h \in 1..(Len(c) + 1)
  BY SequenceDomain
<1>2. \A h \in DOMAIN c : \A tx :
        (\A p \in Outputs(tx) : Spent(SubSeq(c, 1, h - 1), p)) <=> OutputsSpent(c, h, tx)
  BY <1>1, SpentBelow, Zenon DEF OutputsSpent
<1>3. QED
  BY <1>2, Zenon DEF NotReplaced

(* Blocks that agree up to the higher of the two repeat nothing new.       *)
LEMMA NotReplacedAgrees ==
  ASSUME NEW c, NEW d, NEW h \in Nat, NEW g \in 1..h,
         \A k \in 1..h : d[k] = c[k], NotReplaced(c, g, h)
  PROVE  NotReplaced(d, g, h)
<1>1. h \in 1..h /\ d[h] = c[h] /\ d[g] = c[g] /\ \A k \in 1..(h - 1) : d[k] = c[k]
  OBVIOUS
<1>2. \A tx : OutputsSpent(c, h, tx) => OutputsSpent(d, h, tx)
  BY <1>1, Zenon DEF OutputsSpent
<1>3. QED
  BY <1>1, <1>2, Zenon DEF NotReplaced

(* A block that is valid on a chain repeats no transaction of its own, and *)
(* of the chain only those whose outputs are spent.                        *)
LEMMA OrganizeNotReplaced ==
  ASSUME TransactionsAreTried, SpendsAreSequences, CollisionsNeedHeights,
         CoinbaseMaturity \in Nat, ChainOK, BlocksOK, UnspentIsNotReplaced,
         NEW coinbase \in Coinbases(chain), NEW spends \in Spends(chain, coinbase),
         NEW block, block = Block(chain, <<coinbase>> \o spends), Organize(block)
  PROVE  BlocksOK' /\ UnspentIsNotReplaced'
<1> DEFINE n == Len(chain) + 1
<1>1. /\ IsSequence(block.txs)
      /\ \E canonical : Valid(chain, block, canonical)
      /\ Len(chain) \in Nat /\ Len(chain') = n
      /\ \A h \in 1..Len(chain) : chain'[h] = chain[h]
      /\ chain'[n] = block
      /\ ChainOK'
  BY OrganizeFacts
<1>2. /\ IsSequence(chain) /\ DOMAIN chain = 1..Len(chain)
      /\ IsSequence(chain') /\ DOMAIN chain' = 1..n
      /\ Len(block.txs) \in Nat /\ DOMAIN block.txs = 1..Len(block.txs)
  BY <1>1, SequenceDomain DEF ChainOK
<1>3. PICK canonical : Valid(chain, block, canonical)
  BY <1>1, Zenon
<1>4. \A t \in 1..Len(block.txs) : IsTransaction(block.txs[t])
  <2>1. block.txs = <<coinbase>> \o spends
    BY DEF Block
  <2>2. /\ IsTransaction(coinbase) /\ IsSequence(spends)
        /\ \A t \in DOMAIN spends : IsTransaction(spends[t])
    BY Zenon DEF TransactionsAreTried, SpendsAreSequences
  <2>3. PICK S : spends \in Seq(S)
    BY <2>2 DEF IsSequence
  <2>4. /\ Len(block.txs) = Len(spends) + 1 /\ block.txs[1] = coinbase
        /\ Len(spends) \in Nat /\ DOMAIN spends = 1..Len(spends)
        /\ \A t \in 2..(Len(spends) + 1) : block.txs[t] = spends[t - 1]
    <3> DEFINE T == S \cup {coinbase}
    <3>1. spends \in Seq(T) /\ coinbase \in T
      BY <2>3, SeqMonotonic
    <3> HIDE DEF T
    <3>2. <<coinbase>> \in Seq(T) /\ Len(<<coinbase>>) = 1 /\ <<coinbase>>[1] = coinbase
      BY <3>1
    <3>3. QED
      BY <2>1, <3>1, <3>2
  <2>5. ASSUME NEW t \in 1..Len(block.txs), t # 1 PROVE IsTransaction(block.txs[t])
    <3>1. t \in 2..(Len(spends) + 1) /\ t - 1 \in DOMAIN spends
      BY <2>4, <2>5
    <3>2. QED
      BY <2>2, <2>4, <3>1, Zenon
  <2>6. QED
    BY <2>2, <2>4, <2>5, Zenon
<1>5. /\ BlockOK(block, n)
      /\ "bip30_rule" \in forks /\ "allow_collisions" \notin forks
           => \A t \in 1..Len(block.txs) : ~Duplicate(chain, block.txs[t])
  BY <1>1, <1>3, <1>4, ValidIsOK, Zenon
<1>6. forks' = forks /\ forks \in ForkSets
  BY Zenon DEF Organize, BlocksOK
<1>7. \A h \in 1..n : BlockOK(chain'[h], h)
  <2>1. ASSUME NEW h \in 1..n, h # n PROVE BlockOK(chain'[h], h)
    <3>1. h \in 1..Len(chain)
      BY <1>1, <2>1
    <3>2. QED
      BY <1>1, <3>1, Zenon DEF BlocksOK
  <2>2. QED
    BY <1>1, <1>5, <2>1, Zenon
<1>8. BlocksOK'
  <2>1. \A b, h : BlockOK(b, h)' <=> BlockOK(b, h)
    BY <1>6, Zenon DEF BlockOK
  <2>2. QED
    BY <1>1, <1>6, <1>7, <2>1, Zenon DEF BlocksOK
<1>9. \A g, h \in DOMAIN chain : NotReplaced(chain, g, h)
  BY <1>2, ReplacedBelow, Zenon DEF UnspentIsNotReplaced
<1>10. ASSUME NEW g \in 1..n, NEW h \in 1..n, NEW t \in DOMAIN chain'[g].txs,
              NEW u \in DOMAIN chain'[h].txs,
              hash(chain'[g].txs[t]) = hash(chain'[h].txs[u]),
              g < h \/ (g = h /\ t < u)
       PROVE  OutputsSpent(chain', h, chain'[g].txs[t])
  <2>1. /\ Len(chain'[g].txs) \in Nat /\ t \in 1..Len(chain'[g].txs)
        /\ Len(chain'[h].txs) \in Nat /\ u \in 1..Len(chain'[h].txs)
    <3>1. IsSequence(chain'[g].txs) /\ IsSequence(chain'[h].txs)
      BY <1>1, <1>2, Zenon DEF ChainOK
    <3>2. QED
      BY <3>1, SequenceDomain, Zenon
  <2>2. /\ t = 1 <=> u = 1
        /\ chain'[g].txs[t].outputs = chain'[h].txs[u].outputs
        /\ 1 \in DOMAIN chain'[g].txs[t].inputs /\ 1 \in DOMAIN chain'[h].txs[u].inputs
        /\ chain'[g].txs[t].inputs[1].prev = chain'[h].txs[u].inputs[1].prev
        /\ "bip34_rule" \in forks /\ t = 1 => g = h
    <3>1. BlockOK(chain'[g], g) /\ BlockOK(chain'[h], h)
      BY <1>7
    <3>2. PICK b, d : b = chain'[g] /\ d = chain'[h]
      OBVIOUS
    <3>3. InBlock(b, g, t) /\ InBlock(d, h, u) /\ hash(b.txs[t]) = hash(d.txs[u])
      BY <1>10, <2>1, <3>1, <3>2, ZenonT(40) DEF InBlock
    <3>4. /\ t = 1 <=> u = 1
          /\ b.txs[t].outputs = d.txs[u].outputs
          /\ 1 \in DOMAIN b.txs[t].inputs /\ 1 \in DOMAIN d.txs[u].inputs
          /\ b.txs[t].inputs[1].prev = d.txs[u].inputs[1].prev
          /\ "bip34_rule" \in forks /\ t = 1 => g = h
      BY <3>3, SameHash, SMTT(30)
    <3>5. QED
      BY <3>2, <3>4, Zenon
  <2>3. CASE h # n
    <3>1. h \in DOMAIN chain /\ g \in DOMAIN chain /\ h \in Nat /\ g \in 1..h
      BY <1>1, <1>2, <1>10, <2>3, SMTT(30)
    <3>2. \A k \in 1..h : chain'[k] = chain[k]
      BY <1>1, <1>2, <3>1
    <3>3. NotReplaced(chain', g, h)
      BY <1>9, <3>1, <3>2, NotReplacedAgrees, Zenon
    <3>4. QED
      BY <1>10, <3>3, Zenon DEF NotReplaced
  <2>4. CASE h = n /\ g = n
    <3>1. chain'[g] = block /\ chain'[h] = block /\ t < u
      BY <1>1, <1>10, <2>4
    <3>2. t \in 2..Len(block.txs) /\ u \in 2..Len(block.txs)
      <4>1. t # 1 /\ u # 1
        BY <2>1, <2>2, <3>1
      <4>2. t \in 1..Len(block.txs) /\ u \in 1..Len(block.txs)
        BY <2>1, <3>1, Zenon
      <4>3. \A m \in Nat : \A k \in 1..m : k # 1 => k \in 2..m
        OBVIOUS
      <4>4. QED
        BY <1>2, <4>1, <4>2, <4>3, Zenon
    <3>3. ~block_internal_double_spend(block)
      <4>1. block_check(block, block.header.timestamp) = "success"
        BY <1>3, Zenon DEF Valid
      <4>2. QED
        BY <1>2, <4>1, CheckedBlock, Zenon
    <3>4. <<t, 1>> = <<u, 1>>
      BY <2>2, <3>1, <3>2, <3>3, ZenonT(60) DEF block_internal_double_spend
    <3>5. QED
      BY <2>1, <3>1, <3>4, SMTT(30)
  <2>5. CASE h = n /\ g # n
    <3>1. /\ g \in DOMAIN chain /\ chain'[g] = chain[g] /\ chain'[h] = block
          /\ t \in DOMAIN chain[g].txs /\ u \in 1..Len(block.txs)
      BY <1>1, <1>2, <2>1, <2>5
    <3>2. \A p \in Outputs(chain[g].txs[t]) : Spent(chain, p)
      <4>1. CASE "allow_collisions" \notin forks
        <5>1. ~Duplicate(chain, block.txs[u])
          BY <1>5, <1>6, <3>1, <4>1, Zenon DEF CollisionsNeedHeights
        <5>2. /\ hash(chain[g].txs[t]) = hash(block.txs[u])
              /\ chain[g].txs[t].outputs = block.txs[u].outputs
          BY <1>10, <2>2, <3>1, Zenon
        <5>3. HeightsOf(chain, hash(block.txs[u])) # {}
          BY <3>1, <5>2, Zenon DEF HeightsOf
        <5>4. \A i \in DOMAIN block.txs[u].outputs :
                Spent(chain, [hash |-> hash(block.txs[u]), index |-> i])
          BY <5>1, <5>3, Zenon DEF Duplicate
        <5>5. QED
          BY <5>2, <5>4 DEF Outputs
      <4>2. CASE "allow_collisions" \in forks
        <5>1. "bip34_rule" \in forks
          BY <1>6, <4>2, Zenon DEF CollisionsNeedHeights
        <5>2. t # 1 /\ u # 1
          BY <2>2, <2>5, <5>1, Zenon
        <5>3. u \in 2..Len(block.txs)
          BY <1>2, <3>1, <5>2
        <5>4. block.txs[u].inputs[1].prev \in Points(block.txs[u])
          BY <2>2, <3>1, ZenonT(30) DEF Points
        <5>5. ~Spent(chain, block.txs[u].inputs[1].prev)
          BY <1>1, <1>2, <1>3, <5>3, <5>4, ValidSpends, SMTT(30)
        <5>6. Spent(chain, chain[g].txs[t].inputs[1].prev)
          BY <2>2, <3>1, Zenon DEF Spent, Points
        <5>7. QED
          BY <2>2, <3>1, <5>5, <5>6, Zenon
      <4>3. QED
        BY <4>1, <4>2, Zenon
    <3>3. ASSUME NEW p \in Outputs(chain[g].txs[t])
          PROVE  \E k \in 1..(h - 1) :
                   \E v \in DOMAIN chain'[k].txs : p \in Points(chain'[k].txs[v])
      <4>1. PICK k \in DOMAIN chain : \E v \in DOMAIN chain[k].txs : p \in Points(chain[k].txs[v])
        BY <3>2, <3>3, Zenon DEF Spent
      <4>2. k \in 1..(h - 1) /\ chain'[k] = chain[k]
        BY <1>1, <1>2, <2>5
      <4>3. QED
        BY <4>1, <4>2, Zenon
    <3>4. QED
      BY <3>1, <3>3, Zenon DEF OutputsSpent
  <2>6. QED
    BY <2>3, <2>4, <2>5, Zenon
<1>11. \A g, h \in DOMAIN chain' : NotReplaced(chain', g, h)
  BY <1>2, <1>10, Zenon DEF NotReplaced
<1>12. UnspentIsNotReplaced'
  BY <1>2, <1>11, ReplacedBelow, Zenon DEF UnspentIsNotReplaced
<1>13. QED
  BY <1>8, <1>12, Zenon

LEMMA PopNotReplaced ==
  ASSUME ChainOK, BlocksOK, UnspentIsNotReplaced, Pop
  PROVE  BlocksOK' /\ UnspentIsNotReplaced'
<1>1. /\ Len(chain) \in Nat /\ Len(chain') \in Nat
      /\ Len(chain') <= Len(chain)
      /\ \A h \in 1..Len(chain') : chain'[h] = chain[h]
      /\ ChainOK'
  BY PopFacts
<1>2. /\ IsSequence(chain) /\ DOMAIN chain = 1..Len(chain)
      /\ IsSequence(chain') /\ DOMAIN chain' = 1..Len(chain')
  BY <1>1, SequenceDomain DEF ChainOK
<1>3. forks' = forks /\ forks \in ForkSets
  BY Zenon DEF Pop, BlocksOK
<1>4. \A h \in 1..Len(chain') : h \in 1..Len(chain)
  BY <1>1
<1>5. BlocksOK'
  <2>1. \A b, h : BlockOK(b, h)' <=> BlockOK(b, h)
    BY <1>3, Zenon DEF BlockOK
  <2>2. QED
    BY <1>1, <1>3, <1>4, <2>1, Zenon DEF BlocksOK
<1>6. \A g, h \in DOMAIN chain : NotReplaced(chain, g, h)
  BY <1>2, ReplacedBelow, Zenon DEF UnspentIsNotReplaced
<1>7. ASSUME NEW g \in DOMAIN chain', NEW h \in DOMAIN chain'
      PROVE  NotReplaced(chain', g, h)
  <2>1. CASE g \in 1..h
    <3>1. h \in Nat /\ \A k \in 1..h : chain'[k] = chain[k]
      BY <1>1, <1>2
    <3>2. NotReplaced(chain, g, h)
      BY <1>2, <1>4, <1>6, <1>7, Zenon
    <3>3. QED
      BY <2>1, <3>1, <3>2, NotReplacedAgrees, Zenon
  <2>2. CASE g \notin 1..h
    <3>1. ~(g < h) /\ g # h
      BY <1>1, <1>2, <2>2
    <3>2. QED
      BY <3>1, Zenon DEF NotReplaced
  <2>3. QED
    BY <2>1, <2>2
<1>8. UnspentIsNotReplaced'
  BY <1>2, <1>7, ReplacedBelow, Zenon DEF UnspentIsNotReplaced
<1>9. QED
  BY <1>5, <1>8

HistoryInv == ChainOK /\ BlocksOK /\ UnspentIsNotReplaced

LEMMA HistoryInit ==
  ASSUME Init
  PROVE  HistoryInv
<1>1. chain = <<>> /\ Len(chain) = 0 /\ DOMAIN chain = {} /\ forks \in ForkSets
  BY DEF Init
<1>2. ChainOK
  BY InitOK
<1>3. BlocksOK /\ UnspentIsNotReplaced
  BY <1>1 DEF BlocksOK, UnspentIsNotReplaced
<1>4. QED
  BY <1>2, <1>3 DEF HistoryInv

LEMMA HistoryStep ==
  ASSUME TransactionsAreTried, SpendsAreSequences, CollisionsNeedHeights,
         CoinbaseMaturity \in Nat, HistoryInv, [Next]_vars
  PROVE  HistoryInv'
<1> USE DEF HistoryInv
<1>1. CASE Pop
  BY <1>1, PopFacts, PopNotReplaced, Zenon
<1>2. ASSUME NEW coinbase \in Coinbases(chain), NEW spends \in Spends(chain, coinbase),
             Organize(Block(chain, <<coinbase>> \o spends))
      PROVE  HistoryInv'
  <2>1. PICK block : block = Block(chain, <<coinbase>> \o spends)
    OBVIOUS
  <2>2. Organize(block)
    BY <1>2, <2>1, Zenon
  <2>3. ChainOK'
    BY <2>1, <2>2, OrganizeFacts
  <2>4. BlocksOK' /\ UnspentIsNotReplaced'
    BY <2>1, <2>2, OrganizeNotReplaced, Zenon
  <2>5. QED
    BY <2>3, <2>4
<1>3. CASE UNCHANGED vars
  <2>1. chain' = chain /\ forks' = forks
    BY <1>3 DEF vars
  <2>2. ChainOK'
    BY <2>1, Zenon DEF ChainOK
  <2>3. BlocksOK'
    BY <2>1, Zenon DEF BlocksOK, BlockOK
  <2>4. UnspentIsNotReplaced'
    BY <2>1, SMTT(30) DEF UnspentIsNotReplaced
  <2>5. QED
    BY <2>2, <2>3, <2>4
<1>4. QED
  BY <1>1, <1>2, <1>3, Zenon DEF Next

(* With bip30, or with bip34 where collisions are allowed, block::check    *)
(* and block::accept let no transaction take the place of an earlier one   *)
(* that has unspent outputs, through any reorganizations.                  *)
THEOREM LedgerReplacesNothing ==
  ASSUME TransactionsAreTried, SpendsAreSequences, CollisionsNeedHeights,
         CoinbaseMaturity \in Nat
  PROVE  Spec => []UnspentIsNotReplaced
<1>1. Init => HistoryInv
  BY HistoryInit
<1>2. HistoryInv /\ [Next]_vars => HistoryInv'
  BY HistoryStep
<1>3. HistoryInv => UnspentIsNotReplaced
  BY DEF HistoryInv
<1> QED
  BY <1>1, <1>2, <1>3, PTL DEF Spec

-----------------------------------------------------------------------------
(* The pool, when the chain has grown by a block.                          *)

(* Equal previous outputs have equal sums.                                 *)
LEMMA SameInputValue ==
  ASSUME NEW tx, NEW v, NEW w,
         \A i \in DOMAIN tx.inputs : v[tx.inputs[i].prev].cache = w[tx.inputs[i].prev].cache
  PROVE  total_input_value(tx, v) = total_input_value(tx, w)
<1> DEFINE Value(view, input) ==
             IF view[input.prev].cache = not_found THEN 0 ELSE view[input.prev].cache
           Values(view) == [i \in DOMAIN tx.inputs |-> Value(view, tx.inputs[i])]
<1>1. Values(v) = Values(w)
  OBVIOUS
<1>2. /\ total_input_value(tx, v) = FoldFunction(ceiling_add, 0, Values(v))
      /\ total_input_value(tx, w) = FoldFunction(ceiling_add, 0, Values(w))
  BY Zenon DEF total_input_value, Total
<1> HIDE DEF Values
<1> QED
  BY <1>1, <1>2, Zenon

(* What transaction::accept tests in the pool besides the chain: sizes,    *)
(* witnesses and signature operations under the active forks.              *)
FitsForks(tx, state) ==
  /\ ~(Currency = "BCH" /\ Enabled(state, "magnetic_anomaly") /\ tx.size < MinTransactionSize)
  /\ ~(~Bip141(state) /\ is_segregated(tx))
  /\ ~(signature_operations(tx, Enabled(state, "bip16_rule"), Bip141(state))
         > (IF Bip141(state) THEN FastSigopsFactor * MaxBlockSigops ELSE MaxBlockSigops))
  /\ ~(Bip141(state) /\ weight(tx.size, tx.total_size) > LightWeightFactor * MaxBlockSize)

(* And what it tests against the chain.                                    *)
FitsChain(tx, view, state) ==
  /\ is_final(tx, state.height, state.median_time_past)
  /\ ~is_missing_previous_outputs(tx, view)
  /\ ~is_double_spend(tx, view, TRUE)
  /\ is_mature(tx, view, state.height)
  /\ ~is_overspent(tx, view)
  /\ ~(Enabled(state, "bip68_rule") /\ is_locked(tx, view, state.height, state.median_time_past))

(* The rules of transaction::accept in the pool, from and to its result.   *)
LEMMA AcceptedByPool ==
  ASSUME NEW tx, NEW view, NEW duplicate, NEW state,
         tx_accept(tx, view, duplicate, state, TRUE) = "success"
  PROVE  FitsForks(tx, state) /\ FitsChain(tx, view, state)
BY Zenon DEF tx_accept, FitsForks, FitsChain

LEMMA AcceptedIfItFits ==
  ASSUME NEW tx, NEW view, NEW duplicate, NEW state, ~duplicate, ~state.under_checkpoint,
         FitsForks(tx, state), FitsChain(tx, view, state)
  PROVE  tx_accept(tx, view, duplicate, state, TRUE) = "success"
BY Zenon DEF tx_accept, FitsForks, FitsChain

(* The active forks are the same at the next height.                      *)
LEMMA SameForks ==
  ASSUME NEW tx, NEW s, NEW t, t.forks = s.forks
  PROVE  /\ FitsForks(tx, s) => FitsForks(tx, t)
         /\ Enabled(t, "bip68_rule") <=> Enabled(s, "bip68_rule")
<1>1. Bip141(t) = Bip141(s) /\ \A fork : Enabled(t, fork) = Enabled(s, fork)
  BY Zenon DEF Bip141, Enabled
<1> QED
  BY <1>1, Zenon DEF FitsForks

(* An output is no younger at the next height, whether it is counted from  *)
(* a block of the chain or from the transaction that claims it.            *)
LEMMA NoYounger ==
  ASSUME Spacing \in Nat, NEW n \in Nat, NEW m \in 1..(n + 1), NEW k \in Nat,
         k = m \/ (m = n + 1 /\ k = n + 2)
  PROVE  /\ n + 2 - k >= n + 1 - m
         /\ floor_subtract(n + 2, k) >= floor_subtract(n + 1, m)
         /\ Mtp(n + 1) - Mtp(k) >= Mtp(n) - Mtp(m)
         /\ Mtp(n + 1) >= Mtp(n) /\ Mtp(n) \in Nat /\ Mtp(n + 1) \in Nat
         /\ Mtp(k) \in Nat /\ Mtp(m) \in Nat
<1>1. n + 2 - k >= n + 1 - m
  OBVIOUS
<1>2. floor_subtract(n + 2, k) >= floor_subtract(n + 1, m)
  BY DEF floor_subtract
<1>3. /\ (n + 1) * Spacing = n * Spacing + Spacing
      /\ (n + 2) * Spacing = n * Spacing + Spacing + Spacing
      /\ n * Spacing \in Nat /\ k * Spacing \in Nat /\ m * Spacing \in Nat
  OBVIOUS
<1>4. Mtp(n + 1) - Mtp(k) >= Mtp(n) - Mtp(m)
  BY <1>3 DEF Mtp
<1> QED
  BY <1>1, <1>2, <1>3, <1>4 DEF Mtp

-----------------------------------------------------------------------------
(* The heights that have the output of a point, when the transaction that  *)
(* claims it is put on the chain by itself.                                *)
Creators(c, tx, point) == Created(Append(c, Alone(tx)), point)

(* What the pool sees of an output that exists, the latest created at m.   *)
SeenAt(seen, c, point, m) ==
  /\ seen.cache = point.hash.outputs[point.index].value
  /\ seen.spent <=> Spent(c, point)
  /\ seen.coinbase <=> is_coinbase(point.hash)
  /\ seen.height = m /\ seen.median_time_past = Mtp(m)

LEMMA PoolView ==
  ASSUME NEW c, IsSequence(c), NEW tx, NEW p \in Points(tx), p # NullPoint
  PROVE  /\ Creators(c, tx, p) \subseteq 1..(Len(c) + 1)
         /\ Creators(c, tx, p) = {} => View(c, Alone(tx))[p].cache = not_found
         /\ Creators(c, tx, p) # {}
              => /\ SeenAt(View(c, Alone(tx))[p], c, p, Max(Creators(c, tx, p)))
                 /\ Max(Creators(c, tx, p)) \in Creators(c, tx, p)
                 /\ \A y \in Creators(c, tx, p) : Max(Creators(c, tx, p)) >= y
<1> DEFINE block == Alone(tx)
<1>at. PICK at : at = Creators(c, tx, p) /\ at = Created(Append(c, block), p)
  BY DEF Creators
<1>seen. PICK seen : seen = View(c, Alone(tx))[p]
  OBVIOUS
<1>1. seen = Prevout(c, block, p)
  <2>1. block.txs = <<tx>> /\ 1 \in DOMAIN block.txs /\ block.txs[1] = tx
    BY DEF Alone
  <2>2. p \in AllPoints(block)
    BY <2>1, Zenon DEF AllPoints
  <2> QED
    BY <1>seen, <2>2, Zenon DEF View
<1>2. at \subseteq 1..(Len(c) + 1)
  <2>1. DOMAIN Append(c, block) = 1..(Len(c) + 1)
    BY AppendFacts, SequenceDomain
  <2> QED
    BY <1>at, <2>1, Zenon DEF Created
<1>3. at = {} => seen.cache = not_found
  <2>1. ASSUME at = {}
        PROVE  seen = [cache |-> not_found, spent |-> FALSE, confirmed |-> FALSE,
                       coinbase |-> FALSE, height |-> 0, median_time_past |-> 0]
    BY <1>1, <1>at, <2>1, Zenon DEF Prevout
  <2> QED
    BY <2>1
<1>4. ASSUME at # {}
      PROVE  SeenAt(seen, c, p, Max(at))
  <2>1. seen = [cache |-> p.hash.outputs[p.index].value,
                spent |-> Spent(c, p), confirmed |-> Spent(c, p),
                coinbase |-> is_coinbase(p.hash),
                height |-> Max(at), median_time_past |-> Mtp(Max(at))]
    BY <1>1, <1>4, <1>at, Zenon DEF Prevout
  <2>2. seen.cache = p.hash.outputs[p.index].value
    BY <2>1, Zenon
  <2>3. seen.spent <=> Spent(c, p)
    BY <2>1, Zenon
  <2>4. seen.coinbase <=> is_coinbase(p.hash)
    BY <2>1, SMTT(30)
  <2>5. seen.height = Max(at) /\ seen.median_time_past = Mtp(Max(at))
    BY <2>1
  <2> QED
    BY <2>2, <2>3, <2>4, <2>5, Zenon DEF SeenAt
<1>5. ASSUME at # {}
      PROVE  Max(at) \in at /\ \A y \in at : Max(at) >= y
  <2>1. Len(c) + 1 \in Nat
    BY SequenceDomain
  <2>2. \E x \in at : \A y \in at : x >= y
    BY <1>2, <1>5, <2>1, GreatestExists, Zenon
  <2> QED
    BY <2>2 DEF Max
<1> QED
  BY <1>2, <1>3, <1>4, <1>5, <1>at, <1>seen, Zenon

(* What a client submits: transactions, of points, locktimes and sequence  *)
(* numbers.                                                                *)
IsPoint(p) == \E txhash, index : p = [hash |-> txhash, index |-> index]

IsSubmitted(tx) ==
  /\ IsTransaction(tx) /\ tx.locktime \in Nat
  /\ \A i \in DOMAIN tx.inputs :
       /\ tx.inputs[i].sequence.value \in Nat
       /\ IsPoint(tx.inputs[i].prev)

TransactionsAreSubmitted == \A c : \A tx \in PoolTxs(c) : IsSubmitted(tx)

(* Times and depths are numbers.                                           *)
TimesAreNumbers ==
  Spacing \in Nat /\ SecondsShift \in Nat /\ LocktimeThreshold \in Nat /\ CoinbaseMaturity \in Nat

(* A chain of transactions and the same chain with one more block.         *)
Grown(c, d) ==
  /\ IsSequence(c) /\ IsSequence(d) /\ Len(d) = Len(c) + 1
  /\ \A h \in 1..Len(c) : d[h] = c[h]
  /\ \A h \in DOMAIN d : \A t \in DOMAIN d[h].txs : IsTransaction(d[h].txs[t])
  /\ \A g, h \in DOMAIN d : NotReplaced(d, g, h)

(* The points of a transaction that the pool accepted, when the chain has  *)
(* grown by a block and none of them is spent in it: each is created where *)
(* it was, or by the transaction itself.                                   *)
LEMMA CreatedBefore ==
  ASSUME NEW c, NEW d, Grown(c, d),
         NEW tx, NEW p, IsPoint(p),
         ~Spent(d, p),
         Max(Creators(c, tx, p)) \in Creators(c, tx, p),
         \A y \in Creators(c, tx, p) : Max(Creators(c, tx, p)) >= y
  PROVE  \/ /\ Creators(d, tx, p) = Creators(c, tx, p)
            /\ Max(Creators(c, tx, p)) \in 1..Len(c)
         \/ /\ Max(Creators(c, tx, p)) = Len(c) + 1
            /\ Len(c) + 2 \in Creators(d, tx, p)
<1>at. PICK at : at = Created(Append(c, Alone(tx)), p) /\ at = Creators(c, tx, p)
  BY DEF Creators
<1>now. PICK now : now = Created(Append(d, Alone(tx)), p) /\ now = Creators(d, tx, p)
  BY DEF Creators
<1>max. Max(at) \in at /\ \A y \in at : Max(at) >= y
  BY <1>at, Zenon
<1> DEFINE n == Len(c)
           Makes(b) == \E t \in DOMAIN b.txs :
                         hash(b.txs[t]) = p.hash /\ p.index \in DOMAIN b.txs[t].outputs
<1>1. /\ n \in Nat /\ DOMAIN c = 1..n /\ DOMAIN d = 1..(n + 1)
      /\ DOMAIN Append(c, Alone(tx)) = 1..(n + 1)
      /\ DOMAIN Append(d, Alone(tx)) = 1..(n + 2)
      /\ \A h \in 1..n : Append(c, Alone(tx))[h] = c[h] /\ Append(d, Alone(tx))[h] = c[h]
      /\ Append(c, Alone(tx))[n + 1] = Alone(tx)
      /\ Append(d, Alone(tx))[n + 1] = d[n + 1]
      /\ Append(d, Alone(tx))[n + 2] = Alone(tx)
  <2>0. IsSequence(c) /\ IsSequence(d)
    BY Zenon DEF Grown
  <2>1. n \in Nat /\ DOMAIN c = 1..n /\ DOMAIN d = 1..(n + 1)
    <3>1. Len(c) \in Nat /\ DOMAIN c = 1..Len(c) /\ DOMAIN d = 1..Len(d)
      BY SequenceDomain, ZenonT(30) DEF Grown
    <3> QED
      BY <3>1, Zenon DEF Grown
  <2>2. /\ DOMAIN Append(c, Alone(tx)) = 1..(n + 1)
        /\ \A h \in 1..n : Append(c, Alone(tx))[h] = c[h]
        /\ Append(c, Alone(tx))[n + 1] = Alone(tx)
    BY <2>0, AppendFacts, AppendDomain, SMTT(30)
  <2>3. /\ DOMAIN Append(d, Alone(tx)) = 1..(Len(d) + 1)
        /\ \A h \in 1..Len(d) : Append(d, Alone(tx))[h] = d[h]
        /\ Append(d, Alone(tx))[Len(d) + 1] = Alone(tx)
    BY <2>0, AppendFacts, AppendDomain, SMTT(30)
  <2>4. Len(d) = n + 1 /\ Len(d) + 1 = n + 2 /\ \A h \in 1..n : h \in 1..Len(d) /\ d[h] = c[h]
    <3>1. Len(d) = n + 1 /\ \A h \in 1..n : d[h] = c[h]
      BY Zenon DEF Grown
    <3> QED
      BY <2>1, <3>1
  <2> HIDE DEF n
  <2> QED
    BY <2>1, <2>2, <2>3, <2>4
<1>2. \A s, h : h \in Created(s, p) <=> h \in DOMAIN s /\ Makes(s[h])
  BY Zenon DEF Created
<1> HIDE DEF n, Makes
<1>n. n \in Nat
  BY <1>1, Zenon
<1>3. /\ \A h : h \in at <=> h \in 1..(n + 1) /\ Makes(Append(c, Alone(tx))[h])
      /\ \A h : h \in now <=> h \in 1..(n + 2) /\ Makes(Append(d, Alone(tx))[h])
  BY <1>1, <1>2, <1>at, <1>now, Zenon
<1>4. /\ n + 1 \in 1..(n + 1) /\ n + 1 \in 1..(n + 2) /\ n + 2 \in 1..(n + 2)
      /\ \A h \in 1..n : h \in 1..(n + 1) /\ h \in 1..(n + 2)
      /\ \A h \in 1..(n + 1) : h \in 1..n \/ h = n + 1
      /\ \A h \in 1..(n + 2) : h \in 1..n \/ h = n + 1 \/ h = n + 2
  BY <1>n
<1>5. /\ \A h \in 1..n : (h \in at <=> Makes(c[h])) /\ (h \in now <=> Makes(c[h]))
      /\ n + 1 \in at <=> Makes(Alone(tx))
      /\ n + 1 \in now <=> Makes(d[n + 1])
      /\ n + 2 \in now <=> Makes(Alone(tx))
  BY <1>1, <1>3, <1>4, Zenon
<1>6. CASE Makes(Alone(tx))
  <2>1. n + 1 \in at /\ n + 2 \in now
    BY <1>5, <1>6, Zenon
  <2>2. Max(at) >= n + 1 /\ Max(at) \in 1..(n + 1)
    BY <1>3, <1>max, <2>1, Zenon
  <2>3. Max(at) = n + 1
    BY <1>n, <2>2
  <2> QED
    BY <1>at, <1>now, <2>1, <2>3, Zenon DEF n
<1>7. CASE ~Makes(Alone(tx))
  <2>0. Max(at) \in 1..n
    BY <1>3, <1>4, <1>5, <1>7, <1>max, Zenon
  <2>1. PICK g \in 1..n : Makes(c[g])
    BY <1>5, <1>max, <2>0, Zenon
  <2>2. ~Makes(d[n + 1])
    <3>1. SUFFICES ASSUME Makes(d[n + 1]) PROVE FALSE
      OBVIOUS
    <3>2. Makes(d[g]) /\ g \in DOMAIN d /\ n + 1 \in DOMAIN d /\ g < n + 1
      <4>1. d[g] = c[g]
        BY Zenon DEF n, Grown
      <4>2. g < n + 1
        BY <1>n
      <4> QED
        BY <1>1, <1>4, <2>1, <4>1, <4>2, Zenon
    <3>3. PICK t \in DOMAIN d[g].txs :
            hash(d[g].txs[t]) = p.hash /\ p.index \in DOMAIN d[g].txs[t].outputs
      BY <3>2, Zenon DEF Makes
    <3>4. PICK u \in DOMAIN d[n + 1].txs : hash(d[n + 1].txs[u]) = p.hash
      BY <3>1, Zenon DEF Makes
    <3>5. OutputsSpent(d, n + 1, d[g].txs[t])
      BY <3>2, <3>3, <3>4, Zenon DEF Grown, NotReplaced
    <3>6. p \in Outputs(d[g].txs[t])
      <4>1. p = [hash |-> p.hash, index |-> p.index]
        BY DEF IsPoint
      <4> QED
        BY <3>3, <4>1, Zenon DEF Outputs
    <3>7. PICK k \in 1..n : \E v \in DOMAIN d[k].txs : p \in Points(d[k].txs[v])
      <4>1. (n + 1) - 1 = n
        BY <1>n
      <4>2. \E k \in 1..((n + 1) - 1) : \E v \in DOMAIN d[k].txs : p \in Points(d[k].txs[v])
        BY <3>5, <3>6, Zenon DEF OutputsSpent
      <4> QED
        BY <4>1, <4>2, Zenon
    <3>8. k \in DOMAIN d
      BY <1>1, <1>4, Zenon
    <3> QED
      BY <3>7, <3>8, Zenon DEF Spent
  <2>3. \A h : h \in now <=> h \in at
    <3>1. n + 1 \notin at /\ n + 1 \notin now /\ n + 2 \notin now
      BY <1>5, <1>7, <2>2, Zenon
    <3>2. \A h : h \in at => h \in 1..n
      BY <1>3, <1>4, <3>1, Zenon
    <3>3. \A h : h \in now => h \in 1..n
      BY <1>3, <1>4, <3>1, Zenon
    <3> QED
      BY <1>5, <3>2, <3>3, Zenon
  <2>4. now = at
    BY <1>3, <2>3, SetExtensionality, Zenon
  <2> QED
    BY <1>at, <1>now, <2>0, <2>4, Zenon DEF n
<1> QED
  BY <1>6, <1>7

-----------------------------------------------------------------------------
(* What is seen of a point at height n + 1, and one block later: the same, *)
(* and the output is no younger.                                           *)
SeenLater(seen, later, n) ==
  /\ later.cache = seen.cache /\ later.cache # not_found /\ ~later.spent
  /\ later.coinbase <=> seen.coinbase
  /\ \E m \in 1..(n + 1), k \in 1..(n + 2) :
       /\ k = m \/ (m = n + 1 /\ k = n + 2)
       /\ seen.height = m /\ seen.median_time_past = Mtp(m)
       /\ later.height = k /\ later.median_time_past = Mtp(k)

(* A point that no block has spent is seen as before when a block is added. *)
LEMMA PointLater ==
  ASSUME NEW c, NEW d, Grown(c, d),
         NEW tx, NEW p \in Points(tx), p # NullPoint, ~Spent(d, p),
         IsPoint(p),
         NEW seen, seen = View(c, Alone(tx))[p], seen.cache # not_found,
         NEW later, later = View(d, Alone(tx))[p]
  PROVE  SeenLater(seen, later, Len(c))
<1>0. PICK n \in Nat : n = Len(c)
  BY SequenceDomain, Zenon DEF Grown
<1>1. PICK at : at = Creators(c, tx, p)
  BY Zenon
<1>2. PICK now : now = Creators(d, tx, p)
  OBVIOUS
<1>3. Len(d) + 1 = n + 2
  <2>1. Len(d) = n + 1
    BY <1>0, Zenon DEF Grown
  <2> QED
    BY <2>1
<1>4. /\ at \subseteq 1..(n + 1) /\ at # {} /\ SeenAt(seen, c, p, Max(at))
      /\ Max(at) \in at /\ \A y \in at : Max(at) >= y
  BY <1>0, <1>1, PoolView, Zenon DEF Grown
<1>5. /\ now \subseteq 1..(n + 2)
      /\ now # {} => /\ SeenAt(later, d, p, Max(now))
                     /\ Max(now) \in now /\ \A y \in now : Max(now) >= y
  BY <1>2, <1>3, PoolView, Zenon DEF Grown
<1>6. \/ /\ Creators(d, tx, p) = Creators(c, tx, p)
         /\ Max(Creators(c, tx, p)) \in 1..Len(c)
      \/ /\ Max(Creators(c, tx, p)) = Len(c) + 1
         /\ Len(c) + 2 \in Creators(d, tx, p)
  <2>1. /\ Max(Creators(c, tx, p)) \in Creators(c, tx, p)
        /\ \A y \in Creators(c, tx, p) : Max(Creators(c, tx, p)) >= y
    BY <1>1, <1>4, Zenon
  <2> QED
    BY <2>1, CreatedBefore, Zenon
<1>7. \/ now = at /\ Max(at) \in 1..n
      \/ Max(at) = n + 1 /\ n + 2 \in now
  BY <1>0, <1>1, <1>2, <1>6, Zenon
<1>8. now # {}
  BY <1>4, <1>7, Zenon
<1>9. Max(now) = Max(at) \/ (Max(at) = n + 1 /\ Max(now) = n + 2)
  <2>1. CASE now = at
    BY <2>1
  <2>2. CASE Max(at) = n + 1 /\ n + 2 \in now
    <3>1. Max(now) >= n + 2 /\ Max(now) \in 1..(n + 2)
      BY <1>5, <1>8, <2>2, Zenon
    <3> QED
      BY <2>2, <3>1
  <2> QED
    BY <1>7, <2>1, <2>2, Zenon
<1>10. Max(at) \in 1..(n + 1) /\ Max(now) \in 1..(n + 2)
  BY <1>4, <1>5, <1>8, Zenon
<1>11. SeenLater(seen, later, n)
  BY <1>4, <1>5, <1>8, <1>9, <1>10, Zenon DEF SeenLater, SeenAt
<1> QED
  BY <1>0, <1>11, Zenon

(* What was mature, or not locked, is so one block later.                  *)
LEMMA PointAges ==
  ASSUME TimesAreNumbers, NEW n \in Nat, NEW seen, NEW later, SeenLater(seen, later, n)
  PROVE  /\ seen.height \in Nat /\ later.height \in Nat
         /\ seen.median_time_past \in Nat /\ later.median_time_past \in Nat
         /\ n + 2 - later.height >= n + 1 - seen.height
         /\ floor_subtract(n + 2, later.height) >= floor_subtract(n + 1, seen.height)
         /\ Mtp(n + 1) - later.median_time_past >= Mtp(n) - seen.median_time_past
<1>1. PICK m \in 1..(n + 1), k \in 1..(n + 2) :
        /\ k = m \/ (m = n + 1 /\ k = n + 2)
        /\ seen.height = m /\ seen.median_time_past = Mtp(m)
        /\ later.height = k /\ later.median_time_past = Mtp(k)
  BY Zenon DEF SeenLater
<1>2. m \in Nat /\ k \in Nat /\ Spacing \in Nat
  BY DEF TimesAreNumbers
<1>3. /\ n + 2 - k >= n + 1 - m
      /\ floor_subtract(n + 2, k) >= floor_subtract(n + 1, m)
      /\ Mtp(n + 1) - Mtp(k) >= Mtp(n) - Mtp(m)
      /\ Mtp(k) \in Nat /\ Mtp(m) \in Nat
  BY <1>1, <1>2, NoYounger, Zenon
<1> QED
  BY <1>1, <1>2, <1>3, Zenon

(* A transaction that is in the chain has spent its points.                *)
LEMMA NoDuplicate ==
  ASSUME NEW d, NEW tx, IsTransaction(tx), tx.inputs # <<>>,
         \A h \in DOMAIN d : \A t \in DOMAIN d[h].txs : IsTransaction(d[h].txs[t]),
         \A p \in Points(tx) : ~Spent(d, p)
  PROVE  ~Duplicate(d, tx)
<1>1. SUFFICES ASSUME Duplicate(d, tx) PROVE FALSE
  OBVIOUS
<1>2. PICK h \in DOMAIN d : \E t \in DOMAIN d[h].txs : hash(d[h].txs[t]) = hash(tx)
  BY <1>1, Zenon DEF Duplicate, HeightsOf
<1>3. PICK t \in DOMAIN d[h].txs : hash(d[h].txs[t]) = hash(tx)
  BY <1>2, Zenon
<1>4. 1 \in DOMAIN tx.inputs
  <2>1. IsSequence(tx.inputs)
    BY Zenon DEF IsTransaction
  <2> QED
    BY <2>1 DEF IsSequence
<1>5. PICK u : u = d[h].txs[t]
  OBVIOUS
<1>6. IsTransaction(u) /\ hash(tx) = hash(u)
  BY <1>3, <1>5, Zenon
<1>7. /\ DOMAIN tx.inputs = DOMAIN u.inputs
      /\ \A i \in DOMAIN tx.inputs : tx.inputs[i].prev = u.inputs[i].prev
  BY <1>6, HashTells, SMTT(30)
<1>8. tx.inputs[1].prev \in Points(tx) /\ tx.inputs[1].prev \in Points(u)
  BY <1>4, <1>7, Zenon DEF Points
<1> QED
  BY <1>5, <1>8, Zenon DEF Spent

(* What tx_accept tests of the previous outputs, one block later.          *)
LEMMA RulesLater ==
  ASSUME TimesAreNumbers, NEW n \in Nat, NEW tx, NEW v, NEW w,
         tx.locktime \in Nat, \A i \in DOMAIN tx.inputs : tx.inputs[i].sequence.value \in Nat,
         \A p \in Points(tx) : SeenLater(v[p], w[p], n)
  PROVE  /\ is_final(tx, n + 1, Mtp(n)) => is_final(tx, n + 2, Mtp(n + 1))
         /\ ~is_missing_previous_outputs(tx, w) /\ ~is_double_spend(tx, w, TRUE)
         /\ is_mature(tx, v, n + 1) => is_mature(tx, w, n + 2)
         /\ ~is_overspent(tx, v) => ~is_overspent(tx, w)
         /\ is_locked(tx, w, n + 2, Mtp(n + 1)) => is_locked(tx, v, n + 1, Mtp(n))
         /\ tx_connect(tx, v) = "success" => tx_connect(tx, w) = "success"
<1>1. \A p \in Points(tx) :
        /\ w[p].cache = v[p].cache /\ w[p].cache # not_found /\ ~w[p].spent
        /\ w[p].coinbase <=> v[p].coinbase
  BY Zenon DEF SeenLater
<1>2. Mtp(n) \in Nat /\ Mtp(n + 1) \in Nat /\ Mtp(n + 1) >= Mtp(n)
  <2>1. 1 \in 1..(n + 1) /\ 1 \in Nat /\ Spacing \in Nat
    BY DEF TimesAreNumbers
  <2> QED
    BY <2>1, NoYounger, Zenon
<1>3. is_final(tx, n + 1, Mtp(n)) => is_final(tx, n + 2, Mtp(n + 1))
  <2>1. tx.locktime < (IF tx.locktime < LocktimeThreshold THEN n + 1 ELSE Mtp(n))
          => tx.locktime < (IF tx.locktime < LocktimeThreshold THEN n + 2 ELSE Mtp(n + 1))
    BY <1>2 DEF TimesAreNumbers
  <2> QED
    BY <2>1, Zenon DEF is_final
<1>4. ~is_missing_previous_outputs(tx, w) /\ ~is_double_spend(tx, w, TRUE)
  BY <1>1, Zenon DEF is_missing_previous_outputs, is_double_spend
<1>5. ASSUME is_mature(tx, v, n + 1), NEW p \in Points(tx)
      PROVE  is_mature_point(p, w, n + 2)
  <2>1. is_mature_point(p, v, n + 1)
    BY <1>5, Zenon DEF is_mature
  <2>2. CASE floor_subtract(n + 1, v[p].height) >= CoinbaseMaturity
    <3>1. PICK seen : seen = v[p]
      OBVIOUS
    <3>2. PICK later : later = w[p]
      OBVIOUS
    <3>3. SeenLater(seen, later, n)
      BY <3>1, <3>2, Zenon
    <3>4. /\ seen.height \in Nat /\ later.height \in Nat
          /\ floor_subtract(n + 2, later.height) >= floor_subtract(n + 1, seen.height)
      BY <3>3, PointAges, Zenon
    <3>5. floor_subtract(n + 2, later.height) >= CoinbaseMaturity
      BY <2>2, <3>1, <3>4 DEF floor_subtract, TimesAreNumbers
    <3> QED
      BY <3>2, <3>5, Zenon DEF is_mature_point
  <2>3. CASE ~v[p].coinbase \/ p = NullPoint
    BY <1>1, <2>3, Zenon DEF is_mature_point
  <2> QED
    BY <2>1, <2>2, <2>3, Zenon DEF is_mature_point
<1>6. ~is_overspent(tx, v) => ~is_overspent(tx, w)
  <2>1. \A i \in DOMAIN tx.inputs : v[tx.inputs[i].prev].cache = w[tx.inputs[i].prev].cache
    BY <1>1, Zenon DEF Points
  <2>2. total_input_value(tx, v) = total_input_value(tx, w)
    BY <2>1, SameInputValue, Zenon
  <2> QED
    BY <2>2, Zenon DEF is_overspent
<1>7. ASSUME NEW i \in DOMAIN tx.inputs, input_is_locked(tx.inputs[i], w, n + 2, Mtp(n + 1))
      PROVE  input_is_locked(tx.inputs[i], v, n + 1, Mtp(n))
  <2>1. PICK seen : seen = v[tx.inputs[i].prev]
    OBVIOUS
  <2>2. PICK later : later = w[tx.inputs[i].prev]
    OBVIOUS
  <2>3. PICK value \in Nat : value = tx.inputs[i].sequence.value
    BY Zenon
  <2>4. SeenLater(seen, later, n)
    BY <2>1, <2>2, Zenon DEF Points
  <2>5. /\ seen.height \in Nat /\ later.height \in Nat
        /\ seen.median_time_past \in Nat /\ later.median_time_past \in Nat
        /\ n + 2 - later.height >= n + 1 - seen.height
        /\ Mtp(n + 1) - later.median_time_past >= Mtp(n) - seen.median_time_past
    BY <2>4, PointAges, Zenon
  <2>6. (n + 2) - later.height < value => (n + 1) - seen.height < value
    BY <2>5
  <2>7. PICK span \in Nat : span = value * SecondsShift
    BY DEF TimesAreNumbers
  <2>8. Mtp(n + 1) - later.median_time_past < span => Mtp(n) - seen.median_time_past < span
    BY <1>2, <2>5
  <2> QED
    BY <1>7, <2>1, <2>2, <2>3, <2>6, <2>7, <2>8, ZenonT(30) DEF input_is_locked
<1>8. tx_connect(tx, v) = "success" => tx_connect(tx, w) = "success"
  BY <1>1, Zenon DEF tx_connect
<1> QED
  BY <1>3, <1>4, <1>5, <1>6, <1>7, <1>8, Zenon DEF is_mature, is_locked

(* A transaction that the pool accepted is accepted one block later.       *)
LEMMA AcceptedAgain ==
  ASSUME TimesAreNumbers,
         NEW c, NEW d, Grown(c, d),
         NEW tx, IsSubmitted(tx), PoolAccepts(c, tx), \A p \in Points(tx) : ~Spent(d, p)
  PROVE  PoolAccepts(d, tx)
<1>1. PICK v : v = View(c, Alone(tx))
  OBVIOUS
<1>2. PICK w : w = View(d, Alone(tx))
  OBVIOUS
<1>3. PICK s : s = State(c)
  OBVIOUS
<1>4. PICK t : t = State(d)
  OBVIOUS
<1>5. PICK n \in Nat : n = Len(c)
  BY SequenceDomain, Zenon DEF Grown
<1>6. /\ s.height = n + 1 /\ s.median_time_past = Mtp(n)
      /\ t.height = n + 2 /\ t.median_time_past = Mtp(n + 1)
      /\ t.forks = s.forks /\ t.under_checkpoint = FALSE
  <2>1. Len(d) + 1 = n + 2 /\ Len(d) = n + 1
    <3>1. Len(d) = n + 1
      BY <1>5, Zenon DEF Grown
    <3> QED
      BY <3>1
  <2> QED
    BY <1>3, <1>4, <1>5, <2>1, SMTT(30) DEF State
<1>7. PICK duplicate : duplicate = Duplicate(c, tx)
  OBVIOUS
<1>8. /\ tx_check(tx, TRUE) = "success"
      /\ tx_accept(tx, v, duplicate, s, TRUE) = "success"
      /\ tx_connect(tx, v) = "success"
  BY <1>1, <1>3, <1>7, Zenon DEF PoolAccepts
<1>9. tx.inputs # <<>> /\ NullPoint \notin Points(tx)
  BY <1>8, Zenon DEF tx_check, is_null_non_coinbase
<1>10. /\ FitsForks(tx, s)
       /\ is_final(tx, n + 1, Mtp(n)) /\ ~is_missing_previous_outputs(tx, v)
       /\ is_mature(tx, v, n + 1) /\ ~is_overspent(tx, v)
       /\ ~(Enabled(s, "bip68_rule") /\ is_locked(tx, v, n + 1, Mtp(n)))
  <2>1. FitsForks(tx, s) /\ FitsChain(tx, v, s)
    BY <1>8, AcceptedByPool, Zenon
  <2> QED
    BY <1>6, <2>1, Zenon DEF FitsChain
<1>11. \A p \in Points(tx) : SeenLater(v[p], w[p], n)
  <2>1. SUFFICES ASSUME NEW p \in Points(tx) PROVE SeenLater(v[p], w[p], n)
    OBVIOUS
  <2>2. /\ p # NullPoint /\ v[p].cache # not_found
        /\ IsPoint(p)
    BY <1>9, <1>10, Zenon DEF is_missing_previous_outputs, Points, IsSubmitted
  <2>3. PICK seen : seen = v[p]
    OBVIOUS
  <2>4. PICK later : later = w[p]
    OBVIOUS
  <2>5. SeenLater(seen, later, Len(c))
    <3>1. seen = View(c, Alone(tx))[p] /\ later = View(d, Alone(tx))[p]
      BY <1>1, <1>2, <2>3, <2>4, Zenon
    <3>2. seen.cache # not_found /\ ~Spent(d, p)
      BY <2>2, <2>3, Zenon
    <3> QED
      BY <2>2, <3>1, <3>2, PointLater, Zenon
  <2> QED
    BY <1>5, <2>3, <2>4, <2>5, ZenonT(30)
<1>12. /\ is_final(tx, n + 2, Mtp(n + 1))
       /\ ~is_missing_previous_outputs(tx, w) /\ ~is_double_spend(tx, w, TRUE)
       /\ is_mature(tx, w, n + 2) /\ ~is_overspent(tx, w)
       /\ is_locked(tx, w, n + 2, Mtp(n + 1)) => is_locked(tx, v, n + 1, Mtp(n))
       /\ tx_connect(tx, w) = "success"
  <2>1. tx.locktime \in Nat /\ \A i \in DOMAIN tx.inputs : tx.inputs[i].sequence.value \in Nat
    BY Zenon DEF IsSubmitted
  <2>2. /\ is_final(tx, n + 1, Mtp(n)) => is_final(tx, n + 2, Mtp(n + 1))
        /\ ~is_missing_previous_outputs(tx, w) /\ ~is_double_spend(tx, w, TRUE)
        /\ is_mature(tx, v, n + 1) => is_mature(tx, w, n + 2)
        /\ ~is_overspent(tx, v) => ~is_overspent(tx, w)
        /\ is_locked(tx, w, n + 2, Mtp(n + 1)) => is_locked(tx, v, n + 1, Mtp(n))
        /\ tx_connect(tx, v) = "success" => tx_connect(tx, w) = "success"
    BY <1>11, <2>1, RulesLater, Zenon
  <2> QED
    BY <1>8, <1>10, <2>2, Zenon
<1>13. ~Duplicate(d, tx)
  BY <1>9, NoDuplicate, Zenon DEF IsSubmitted, Grown
<1>14. FitsForks(tx, t) /\ FitsChain(tx, w, t)
  <2>1. FitsForks(tx, t) /\ (Enabled(t, "bip68_rule") <=> Enabled(s, "bip68_rule"))
    BY <1>6, <1>10, SameForks, Zenon
  <2> QED
    BY <1>6, <1>10, <1>12, <2>1, Zenon DEF FitsChain
<1>15. tx_accept(tx, w, Duplicate(d, tx), t, TRUE) = "success"
  <2>1. PICK again : again = Duplicate(d, tx)
    OBVIOUS
  <2>2. ~again /\ ~t.under_checkpoint
    BY <1>6, <1>13, <2>1, Zenon
  <2>3. tx_accept(tx, w, again, t, TRUE) = "success"
    BY <1>14, <2>2, AcceptedIfItFits, Zenon
  <2> QED
    BY <2>1, <2>3, Zenon
<1> QED
  BY <1>2, <1>4, <1>8, <1>12, <1>15, Zenon DEF PoolAccepts

(* What the pool accepted needs no second look when a block comes, unless  *)
(* the block spends its outputs: every rule of transaction::accept and     *)
(* connect, not only the maturity of which the code says that it "is cache *)
(* safe", gives the same answer at the next height.                        *)
THEOREM PoolStaysValid ==
  ASSUME TransactionsAreTried, SpendsAreSequences, CollisionsNeedHeights,
         TransactionsAreSubmitted, TimesAreNumbers
  PROVE  Spec => PoolIsCacheSafe
<1> DEFINE Safe == \A tx \in PoolTxs(chain) :
                     /\ Len(chain') > Len(chain)
                     /\ PoolAccepts(chain, tx)
                     /\ \A p \in Points(tx) : ~Spent(chain', p)
                     => PoolAccepts(chain', tx)
<1>1. Init => HistoryInv
  BY HistoryInit
<1>2. HistoryInv /\ [Next]_vars => HistoryInv'
  BY HistoryStep DEF TimesAreNumbers
<1>3. ASSUME HistoryInv, HistoryInv', Next PROVE Safe
  <2>1. CASE Pop
    <3>1. Len(chain) \in Nat /\ Len(chain') \in Nat /\ Len(chain') <= Len(chain)
      BY <1>3, <2>1, PopFacts, Zenon DEF HistoryInv
    <3>2. ~(Len(chain') > Len(chain))
      BY <3>1
    <3> QED
      BY <3>2, Zenon
  <2>2. ASSUME NEW coinbase \in Coinbases(chain), NEW spends \in Spends(chain, coinbase),
               Organize(Block(chain, <<coinbase>> \o spends)),
               NEW tx \in PoolTxs(chain), PoolAccepts(chain, tx),
               \A p \in Points(tx) : ~Spent(chain', p)
        PROVE  PoolAccepts(chain', tx)
    <3>1. PICK block : block = Block(chain, <<coinbase>> \o spends)
      OBVIOUS
    <3>2. Organize(block)
      BY <2>2, <3>1, Zenon
    <3>3. PICK c : c = chain
      OBVIOUS
    <3>4. PICK d : d = chain'
      BY ZenonT(30)
    <3>5. /\ Len(d) = Len(c) + 1 /\ \A h \in 1..Len(c) : d[h] = c[h]
      BY <1>3, <3>1, <3>2, <3>3, <3>4, OrganizeFacts, SMTT(30) DEF HistoryInv
    <3>6. IsSequence(c) /\ IsSequence(d) /\ \A h \in 1..Len(d) : IsSequence(d[h].txs)
      BY <1>3, <3>3, <3>4, Zenon DEF HistoryInv, ChainOK
    <3>7. \A h \in DOMAIN d : \A t \in DOMAIN d[h].txs : IsTransaction(d[h].txs[t])
      <4>1. \A h \in 1..Len(d) : \A t \in 1..Len(d[h].txs) : IsTransaction(d[h].txs[t])
        BY <1>3, <3>4, Zenon DEF HistoryInv, BlocksOK, BlockOK
      <4> QED
        BY <3>6, <4>1, SequenceDomain, Zenon
    <3>8. \A g, h \in DOMAIN d : NotReplaced(d, g, h)
      BY <1>3, <3>4, <3>6, ReplacedBelow, Zenon DEF HistoryInv, UnspentIsNotReplaced
    <3>9. IsSubmitted(tx) /\ PoolAccepts(c, tx) /\ \A p \in Points(tx) : ~Spent(d, p)
      BY <2>2, <3>3, <3>4, Zenon DEF TransactionsAreSubmitted
    <3>10. Grown(c, d)
      BY <3>5, <3>6, <3>7, <3>8, Zenon DEF Grown
    <3>11. PoolAccepts(d, tx)
      BY <3>9, <3>10, AcceptedAgain, Zenon
    <3> QED
      BY <3>4, <3>11, Zenon
  <2> QED
    BY <1>3, <2>1, <2>2, Zenon DEF Next
<1>4. HistoryInv /\ HistoryInv' /\ [Next]_vars => [Safe]_vars
  BY <1>3, Zenon
<1> HIDE DEF Safe
<1>5. Spec => [][Safe]_vars
  BY <1>1, <1>2, <1>4, PTL DEF Spec
<1> QED
  BY <1>5 DEF PoolIsCacheSafe, Safe

=============================================================================
