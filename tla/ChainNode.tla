----------------------------- MODULE ChainNode ------------------------------
(***************************************************************************)
(* One node fed by the network: blocks reach BlockchainCommunity.add_block *)
(* in any order, any number of times, or never (the node's own miner calls *)
(* the same method), and transactions reach its pool.  What the network    *)
(* can deliver is fixed by world, chosen at the start among Worlds.        *)
(***************************************************************************)
EXTENDS Blockchain

CONSTANT Worlds    \* sets of blocks that some network may hold

\* A hash identifies its header, and no block has the hash of genesis.
ASSUME WorldsAssumption ==
    \A w \in Worlds :
        /\ w \subseteq BlockType
        /\ \A b \in w : b.hash # GenesisHash
        /\ \A b, c \in w : b.hash = c.hash =>
             /\ b.prev_hash = c.prev_hash
             /\ b.txs_hash = c.txs_hash
             /\ b.difficulty = c.difficulty
             /\ b.zeros = c.zeros

VARIABLES world,       \* the blocks there are
          node,        \* the node
          received     \* history: the blocks add_block was called with

vars == <<world, node, received>>

Init ==
    /\ world \in Worlds
    /\ node = InitNode
    /\ received = {}

\* on_block_response, after its header check, and the end of _mine_loop.
ReceiveBlock(b) ==
    /\ node' = IntegrateBlock(node, b)
    /\ received' = received \cup {b}
    /\ UNCHANGED world

\* on_submit_transaction and on_transaction_gossip, for a valid transaction.
AcceptTx(t) ==
    /\ node' = [node EXCEPT !.mempool = Add(@, t)]
    /\ UNCHANGED <<world, received>>

Next ==
    \/ \E b \in world : ReceiveBlock(b)
    \/ \E t \in Tx : AcceptTx(t)

Spec == Init /\ [][Next]_vars

-----------------------------------------------------------------------------
(***************************************************************************)
(* Invariants.                                                             *)
(***************************************************************************)

\* The txids on the canonical chain.
OnChain(n) == Bodies(n.blocks, {n.chain[i] : i \in 1 .. Len(n.chain)})

\* Every field has its type, and what is stored or buffered came from the network.
TypeOK ==
    /\ received \subseteq world
    /\ GenesisHash \in DOMAIN node.blocks
    /\ DOMAIN node.height_by_hash = DOMAIN node.blocks
    /\ \A h \in DOMAIN node.blocks :
        /\ node.blocks[h] \in received \cup {Genesis}
        /\ node.blocks[h].hash = h
        /\ node.height_by_hash[h] \in Nat
    /\ node.tip \in DOMAIN node.blocks
    /\ node.chain_height \in Nat
    /\ node.chain \in Seq(DOMAIN node.blocks)
    /\ node.mempool \in MempoolType
    /\ node.pending_blocks \in Seq(received)
    /\ Len(node.pending_blocks) <= PendingCap

\* The chain on_get_block indexes is the parent walk from the tip to genesis and
\* has chain_height + 1 entries, each at the height height_by_hash records for
\* it: extending the tip in place and rebuilding it in reorganize agree.
ChainIsPathToTip ==
    LET n == node IN
    /\ Len(n.chain) = n.chain_height + 1
    /\ n.chain[1] = GenesisHash
    /\ n.chain[Len(n.chain)] = n.tip
    /\ \A i \in 1 .. Len(n.chain) :
        /\ n.chain[i] \in DOMAIN n.blocks
        /\ n.height_by_hash[n.chain[i]] = i - 1
        /\ i > 1 => n.blocks[n.chain[i]].prev_hash = n.chain[i - 1]

\* No stored block beats the tip: the incremental fork choice of add_block, run
\* block by block and also inside _connect_orphans, never misses a better one.
TipIsBest ==
    \A h \in DOMAIN node.blocks :
        \/ node.height_by_hash[h] < node.chain_height
        \/ node.height_by_hash[h] = node.chain_height /\ node.tip <= h

\* No buffered orphan waits for a parent that is stored: _connect_orphans
\* connects transitively and its worklist ends with nothing left to connect.
NoOrphanWithKnownParent ==
    \A i \in 1 .. Len(node.pending_blocks) :
        node.pending_blocks[i].prev_hash \notin DOMAIN node.blocks

\* No block is both stored and buffered, although add_block looks only for the
\* parent of what it buffers and the same block comes again and again: the buffer
\* never holds a place for a block that needs none.  (Genesis, which has no parent
\* and comes from nobody here, would be the exception.)
BufferedIsNotStored ==
    \A i \in 1 .. Len(node.pending_blocks) :
        node.pending_blocks[i].hash \notin DOMAIN node.blocks

\* A transaction the pool calls confirmed is on the canonical chain and is not
\* free as well: a reorganisation gives back every transaction it drops.
ConfirmedIsOnChain ==
    /\ node.mempool.chain_txs \subseteq OnChain(node)
    /\ node.mempool.free_txs \cap node.mempool.chain_txs = {}

\* A transaction once accepted is never forgotten: after any block it is still
\* free or confirmed.
AcceptedTxKept ==
    [][\A t \in Tx : IsKnownTx(node.mempool, t) => IsKnownTx(node'.mempool, t)]_vars

\* What the network can deliver and validate_block takes.
ValidBlocks == {b \in UNION Worlds : ValidateBlock(b)}

\* Worlds in which the parent links run in no circle, as a hash covers that of the
\* parent, and no block has the header of another with a body of its own: such a
\* block would take the place of the other in the orphan buffer.
HonestWorlds ==
    \A w \in Worlds :
        /\ \A S \in SUBSET w : S # {} => \E b \in S : \A c \in S : b.prev_hash # c.hash
        /\ \A b, c \in w : b.hash = c.hash => b = c

\* The orphan buffer is not full.
Room == Len(node.pending_blocks) < PendingCap

\* The node implements Ledger: its tree and tip depend on which valid blocks it
\* was given and not on their order, on orphans or on how it reorganised.  True
\* in HonestWorlds while there is Room.
L == INSTANCE Ledger WITH Root <- GenesisHash,
                          Block <- ValidBlocks,
                          received <- {b \in received : ValidateBlock(b)},
                          tree <- DOMAIN node.blocks,
                          tip <- node.tip

ImplementsLedger == L!Spec

-----------------------------------------------------------------------------
(***************************************************************************)
(* What a test of the code says, and the code does not do.                 *)
(***************************************************************************)

\* A transaction that is in a block of the canonical chain is not free to be
\* mined again (tests/consensus_tests.py:121 checks it after a block that extends the
\* chain).
FreeTxNotOnChain == node.mempool.free_txs \cap OnChain(node) = {}
=============================================================================
