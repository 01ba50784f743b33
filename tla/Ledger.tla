------------------------------- MODULE Ledger -------------------------------
(***************************************************************************)
(* A chain of blocks that the validation rules of this library accepted.   *)
(* The organizer, which is not part of the library, calls block::check,    *)
(* populates chain state and previous outputs from the chain, and calls    *)
(* block::accept and block::connect; a block that passes is appended and   *)
(* the top block may be popped again by a reorganization.                  *)
(***************************************************************************)
EXTENDS Validation

CONSTANTS
  ForkSets,       \* the sets of active forks to explore, of names of rule_fork
  MaxHeight,      \* bound on the height of the chain
  Spacing,        \* the growth of the median time past with each block
  Header(_, _),   \* the header of a block with these transactions
  Coinbases(_),   \* the coinbases a miner may try on top of a chain
  Spends(_, _),   \* the lists of transactions that may follow a coinbase
  PoolTxs(_)      \* the transactions a client may submit to the pool

VARIABLES
  chain,          \* the blocks by height, from 1
  forks           \* the active forks, fixed by the settings

vars == <<chain, forks>>

Init ==
  /\ chain = <<>>
  /\ forks \in ForkSets

-----------------------------------------------------------------------------
(* What the organizer populates.                                           *)

(* The median time past, as of the block at this height.                   *)
Mtp(height) == height * Spacing

(* The heights whose block has the transaction with this hash.             *)
HeightsOf(c, txhash) ==
  {h \in DOMAIN c : \E t \in DOMAIN c[h].txs : hash(c[h].txs[t]) = txhash}

Created(c, point) ==
  {h \in DOMAIN c : \E t \in DOMAIN c[h].txs :
     hash(c[h].txs[t]) = point.hash /\ point.index \in DOMAIN c[h].txs[t].outputs}

Spent(c, point) ==
  \E h \in DOMAIN c : \E t \in DOMAIN c[h].txs : point \in Points(c[h].txs[t])

(* The latest transaction with the hash of the point is at its height.     *)
Prevout(c, block, point) ==
  LET at == Created(Append(c, block), point)
  IN IF point = NullPoint \/ at = {}
     THEN [cache |-> not_found, spent |-> FALSE, confirmed |-> FALSE,
           coinbase |-> FALSE, height |-> 0, median_time_past |-> 0]
     ELSE [cache |-> point.hash.outputs[point.index].value,
           spent |-> Spent(c, point), confirmed |-> Spent(c, point),
           coinbase |-> is_coinbase(point.hash),
           height |-> Max(at), median_time_past |-> Mtp(Max(at))]

AllPoints(block) == UNION {Points(block.txs[t]) : t \in DOMAIN block.txs}

View(c, block) == [p \in AllPoints(block) |-> Prevout(c, block, p)]

(* validation.duplicate: the transaction is in the chain and has unspent   *)
(* outputs.                                                                *)
Duplicate(c, tx) ==
  /\ HeightsOf(c, hash(tx)) # {}
  /\ \E i \in DOMAIN tx.outputs : ~Spent(c, [hash |-> hash(tx), index |-> i])

State(c) ==
  [height |-> Len(c) + 1, median_time_past |-> Mtp(Len(c)), forks |-> forks,
   under_checkpoint |-> FALSE, checkpoint_conflict |-> FALSE,
   work_required |-> 1, minimum_version |-> 1]

-----------------------------------------------------------------------------
(* The block passes check, accept and connect on top of the chain.         *)
Valid(c, block, canonical) ==
  LET view == View(c, block)
      duplicate == [t \in DOMAIN block.txs |-> Duplicate(c, block.txs[t])]
  IN /\ block_check(block, block.header.timestamp) = "success"
     /\ block_accept(block, view, duplicate, canonical, State(c)) = "success"
     /\ block_connect(block, view, State(c)) = "success"

(* What is_canonical_ordered may return: see block_accept.                 *)
CanonicalOrder(block) ==
  IF Currency = "BCH" /\ Len(block.txs) > 2 THEN BOOLEAN ELSE {TRUE}

Organize(block) ==
  /\ Len(chain) < MaxHeight
  /\ \E canonical \in CanonicalOrder(block) : Valid(chain, block, canonical)
  /\ chain' = Append(chain, block)
  /\ UNCHANGED forks

Pop ==
  /\ chain # <<>>
  /\ chain' = SubSeq(chain, 1, Len(chain) - 1)
  /\ UNCHANGED forks

Block(c, txs) == [header |-> Header(c, txs), txs |-> txs]

Next ==
  \/ Pop
  \/ \E coinbase \in Coinbases(chain) : \E spends \in Spends(chain, coinbase) :
       Organize(Block(chain, <<coinbase>> \o spends))

Spec == Init /\ [][Next]_vars

-----------------------------------------------------------------------------
(* No output is claimed by two inputs of the chain, in one transaction, in *)
(* one block or in two (block_internal_double_spend and is_double_spend).  *)
NoDoubleSpend ==
  \A g, h \in DOMAIN chain : \A t \in 2..Len(chain[g].txs), u \in 2..Len(chain[h].txs) :
    \A i \in DOMAIN chain[g].txs[t].inputs, j \in DOMAIN chain[h].txs[u].inputs :
      chain[g].txs[t].inputs[i].prev = chain[h].txs[u].inputs[j].prev
        => g = h /\ t = u /\ i = j

(* Every input claims an output that a transaction of the same or of an    *)
(* earlier block made (a preceding one, without canonical order), and that *)
(* of a coinbase only when it is mature.                                   *)
SpendsExistAndAreMature ==
  \A h \in DOMAIN chain : \A t \in 2..Len(chain[h].txs) :
    \A p \in Points(chain[h].txs[t]) :
      \E g \in 1..h :
        /\ g \in Created(chain, p)
        /\ Currency # "BCH" /\ g = h => \E u \in 1..(t - 1) : hash(chain[h].txs[u]) = p.hash
        /\ is_coinbase(p.hash) => h - g >= CoinbaseMaturity

Transactions == UNION {Range(chain[h].txs) : h \in DOMAIN chain}

Outputs(tx) == {[hash |-> hash(tx), index |-> i] : i \in DOMAIN tx.outputs}

Unspent == {p \in UNION {Outputs(tx) : tx \in Transactions} : ~Spent(chain, p)}

Supply == MapThenSumSet(LAMBDA p : p.hash.outputs[p.index].value, Unspent)

(* The unspent outputs are worth no more than the subsidies of the blocks: *)
(* sums that reach the ceiling, fees and claims never create money.        *)
NoInflation == Supply <= MapThenSumSet(subsidy, DOMAIN chain)

(* A transaction appears again only when all its outputs have been spent,  *)
(* by the rule of bip30 or, when collisions are allowed, because bip34     *)
(* makes the hashes of coinbases distinct.                                 *)
UnspentIsNotReplaced ==
  \A g, h \in DOMAIN chain : \A t \in DOMAIN chain[g].txs, u \in DOMAIN chain[h].txs :
    /\ hash(chain[g].txs[t]) = hash(chain[h].txs[u])
    /\ g < h \/ (g = h /\ t < u)
    => \A p \in Outputs(chain[g].txs[t]) : Spent(SubSeq(chain, 1, h - 1), p)

-----------------------------------------------------------------------------
(* The pool validates a transaction by itself, against the next height.    *)
Alone(tx) == [txs |-> <<tx>>]

PoolAccepts(c, tx) ==
  /\ tx_check(tx, TRUE) = "success"
  /\ tx_accept(tx, View(c, Alone(tx)), Duplicate(c, tx), State(c), TRUE) = "success"
  /\ tx_connect(tx, View(c, Alone(tx))) = "success"

(* "Since reorg is the only way to decrease height and reorg invalidates,  *)
(* this is cache safe": a transaction the pool accepted is still valid     *)
(* when the chain has grown, unless a block spent its outputs or has it.   *)
PoolIsCacheSafe ==
  [][\A tx \in PoolTxs(chain) :
       /\ Len(chain') > Len(chain)
       /\ PoolAccepts(chain, tx)
       /\ \A p \in Points(tx) : ~Spent(chain', p)
       => PoolAccepts(chain', tx)]_vars

(* What the pool accepted may be mined: the next block may consist of a    *)
(* coinbase and the transaction, provided they fit.  The pool leaves no    *)
(* room for the rest of the block ("TODO: reduce by header, txcount and    *)
(* smallest coinbase size for height", transaction.cpp).                   *)
PoolIsMineable ==
  \A tx \in PoolTxs(chain) :
    LET blocks == {Block(chain, <<coinbase, tx>>) : coinbase \in Coinbases(chain)}
    IN  /\ PoolAccepts(chain, tx)
        /\ \E block \in blocks : block_size(block) <= MaxBlockSize
        => \E block \in blocks : Valid(chain, block, TRUE)

(* Before bip141 activates, what the pool accepted may be mined, up to the *)
(* limits on size and signature operations: pool and block judge height,   *)
(* time, maturity, values and operations alike, although they compute them *)
(* differently.  With bip141 the limits on signature operations disagree.  *)
MineableBeforeSegwit == "bip141_rule" \notin forks => PoolIsMineable

=============================================================================
