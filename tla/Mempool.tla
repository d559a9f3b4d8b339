------------------------------- MODULE Mempool -------------------------------
(***************************************************************************)
(* The transaction pool of a node (class Mempool).                         *)
(*                                                                         *)
(* A pool is a record of the key sets of its two dictionaries; a           *)
(* transaction is its txid.  The list tx_order is appended to and never    *)
(* read, and is left out.  The methods the code calls once per txid of a   *)
(* block body take the set of txids here: the effects on different txids   *)
(* are independent, and a second call for the same txid does nothing.      *)
(***************************************************************************)
EXTENDS Integers, FiniteSets

CONSTANT Tx    \* the transactions that may ever be submitted

MempoolType == [free_txs : SUBSET Tx, chain_txs : SUBSET Tx]

EmptyMempool == [free_txs |-> {}, chain_txs |-> {}]

IsKnownTx(m, t) == t \in m.free_txs \cup m.chain_txs

\* Mempool.add: a transaction the pool knows as confirmed does not become free.
Add(m, t) == [m EXCEPT !.free_txs = @ \cup ({t} \ m.chain_txs)]

\* Mutated: the popped transaction is not added again.
MoveFromChain_drops(m, T) == [m EXCEPT !.chain_txs = @ \ T]

\* Mempool.move_from_chain for every txid of T: what was confirmed leaves
\* chain_txs and goes through add.
MoveFromChain(m, T) ==
    [free_txs  |-> m.free_txs \cup (T \cap m.chain_txs),
     chain_txs |-> m.chain_txs \ T]

\* Mutated: a confirmed transaction is only dropped.
RemoveConfirmed_forgets(m, T) == [m EXCEPT !.free_txs = @ \ T]

\* Mempool.remove_confirmed: only a free transaction is recorded as confirmed.
RemoveConfirmed(m, T) ==
    [free_txs  |-> m.free_txs \ T,
     chain_txs |-> m.chain_txs \cup (T \cap m.free_txs)]
=============================================================================
