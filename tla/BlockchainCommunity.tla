------------------------- MODULE BlockchainCommunity -------------------------
(***************************************************************************)
(* A group of nodes (class BlockchainCommunity) that mine, gossip          *)
(* transactions and pull each other's chains, and the grading server that  *)
(* submits transactions to them.                                           *)
(*                                                                         *)
(* IPv8 runs each handler and each stretch of a task between two awaits to *)
(* completion on one event loop, so each of them is one action.  Messages  *)
(* are UDP datagrams: msgs holds those that may yet be delivered, in no    *)
(* order.  The network is one of two:                                      *)
(*   ~ Reliable  a datagram is delivered any number of times or never: it  *)
(*               stays in msgs, and Next may or may not pick it again      *)
(*   Reliable    every datagram is lost until the step Link, and delivered *)
(*               exactly once, sooner or later, if it is sent afterwards   *)
(* All peers have been discovered and approved, and payloads are well      *)
(* formed and signed; the early returns for those that are not are left    *)
(* out with the payloads.                                                  *)
(* The dictionary peer_heights and last_tx_response are written and never  *)
(* read, and are left out.                                                 *)
(***************************************************************************)
EXTENDS Blockchain

CONSTANTS Node,          \* the teammates
          Server,        \* the grading server
          Window,        \* config.SYNC_DOWN_WINDOW
          Batch,         \* config.FETCH_BATCH
          Reliable,      \* which network, see above
          Settings       \* what the outside world may have in store, see below

ASSUME CommunityAssumption ==
    /\ Server \notin Node
    /\ {Window, Batch} \subseteq Nat
    /\ Reliable \in BOOLEAN

\* up is who runs a node, finds the hashes each miner may hit upon, txs what the
\* server submits, late whether blocks are found after the step Link, and
\* crashes how many crashes there are at most.  They bound the behaviours.
ASSUME SettingsAssumption ==
    Settings \subseteq [up : SUBSET Node,
                       finds : [Node -> SUBSET (Int \ {GenesisHash, ZeroHash})],
                       txs : SUBSET Tx, late : BOOLEAN, crashes : Nat]

VARIABLES setting,    \* which of Settings this is: chosen at the start
          node,       \* node[n]: block tree, chain, pool and orphans of n
          miner,      \* miner[n]: where _mine_loop of n is, and its snapshot
          msgs,       \* the datagrams in flight
          linked,     \* whether a datagram sent now can arrive
          mined,      \* history: the blocks ever mined
          relays,     \* history: how often n has gossiped t
          restarts    \* how many crashes there have been

vars == <<setting, node, miner, msgs, linked, mined, relays, restarts>>

Idle == [pc |-> "top"]

Init ==
    /\ setting \in Settings
    /\ node = [n \in Node |-> InitNode]
    /\ miner = [n \in Node |-> Idle]
    /\ msgs = {}
    /\ linked = ~ Reliable
    /\ mined = {}
    /\ relays = [n \in Node |-> [t \in Tx |-> 0]]
    /\ restarts = 0

-----------------------------------------------------------------------------
(***************************************************************************)
(* Datagrams                                                               *)
(***************************************************************************)

Teammates(n) == setting.up \ {n}

\* The answer of n to a question for its height, and its announcement of it.
HeightOf(s, n, peer) ==
    [type |-> "height", src |-> n, dst |-> peer, height |-> s.chain_height, tip |-> s.tip]

\* _gossip_transaction sends to every approved peer but the one it came from;
\* the server is approved.
Gossip(n, t, exclude) ==
    {[type |-> "gossip", src |-> n, dst |-> p, tx |-> t] :
        p \in (setting.up \cup {Server}) \ {n, exclude}}

\* Mutated: a fetch asks for what lies above the own chain only.
FetchFrom_noDown(s, n, peer, their_h) ==
    {[type |-> "get_block", src |-> n, dst |-> peer, height |-> h] :
        h \in s.chain_height + 1 .. their_h}

\* Mutated: the last height the peer has is not asked for.
FetchFrom_shortRange(s, n, peer, their_h) ==
    {[type |-> "get_block", src |-> n, dst |-> peer, height |-> h] :
        h \in {k \in 0 .. their_h - 1 :
                 s.chain_height - Window <= k /\ k <= s.chain_height + Batch}}

\* _fetch_from: one question per height, from Window below the own height.
FetchFrom(s, n, peer, their_h) ==
    {[type |-> "get_block", src |-> n, dst |-> peer, height |-> h] :
        h \in {k \in 0 .. their_h :
                 s.chain_height - Window <= k /\ k <= s.chain_height + Batch}}

\* What stays in flight when m is delivered.
Rest(m) == IF Reliable THEN msgs \ {m} ELSE msgs

\* The datagrams some node is still to receive.
InFlight == {m \in msgs : m.dst # Server}

Send(left, sent) == msgs' = left \cup (IF linked THEN sent ELSE {})

-----------------------------------------------------------------------------
(***************************************************************************)
(* _mine_loop                                                              *)
(***************************************************************************)

\* The snapshot at the top of an iteration: it lasts until the loop comes back.
Snapshot(n) == [pc |-> "hash", parent |-> node[n].tip, body |-> node[n].mempool.free_txs]

Work(n) == IF miner[n].pc = "top" THEN Snapshot(n) ELSE miner[n]

\* The first chunk of nonces holds no solution, and the loop yields.
MineStart(n) ==
    /\ miner[n].pc = "top"
    /\ miner' = [miner EXCEPT ![n] = Snapshot(n)]
    /\ UNCHANGED <<setting, node, msgs, linked, mined, relays, restarts>>

\* The tip moved while the loop was suspended: the work is thrown away.
MineAbort(n) ==
    /\ miner[n].pc = "hash"
    /\ node[n].tip # miner[n].parent
    /\ miner' = [miner EXCEPT ![n] = Idle]
    /\ UNCHANGED <<setting, node, msgs, linked, mined, relays, restarts>>

MinedBlock(h, w) ==
    [hash |-> h, prev_hash |-> w.parent, difficulty |-> Difficulty,
     zeros |-> Difficulty, txs_hash |-> w.body, tx_hashes |-> w.body]

\* A chunk holds a solution: in the same stretch the block is added and, if
\* add_block took it, announced.  The header names no miner, so that another
\* node may have found the very same block.
MineBlock(n, h) ==
    LET w == Work(n)
        b == MinedBlock(h, w)
    IN  /\ Reliable /\ linked => setting.late
        /\ node[n].tip = w.parent
        /\ b \in mined \/ h \notin {c.hash : c \in mined}
        /\ mined' = mined \cup {b}
        /\ node' = [node EXCEPT ![n] = IntegrateBlock(@, b)]
        /\ miner' = [miner EXCEPT ![n] = Idle]
        /\ Send(msgs, IF Accepts(node[n], b)
                      THEN {HeightOf(node'[n], n, p) : p \in Teammates(n)} ELSE {})
        /\ UNCHANGED <<setting, linked, relays, restarts>>

-----------------------------------------------------------------------------
(***************************************************************************)
(* _sync_step and the message handlers                                     *)
(***************************************************************************)

\* Bound: on the reliable network a poll waits until nothing is in flight.
SyncStep(n) ==
    /\ Reliable => InFlight = {}
    /\ Send(msgs, {[type |-> "get_height", src |-> n, dst |-> p] : p \in Teammates(n)})
    /\ UNCHANGED <<setting, node, miner, linked, mined, relays, restarts>>

OnGetChainHeight(m) ==
    /\ m.type = "get_height"
    /\ Send(Rest(m), {HeightOf(node[m.dst], m.dst, m.src)})
    /\ UNCHANGED <<setting, node, miner, linked, mined, relays, restarts>>

OnChainHeightResponse(m) ==
    /\ m.type = "height"
    /\ Send(Rest(m), IF Preferred(m.height, m.tip, node[m.dst])
                     THEN FetchFrom(node[m.dst], m.dst, m.src, m.height) ELSE {})
    /\ UNCHANGED <<setting, node, miner, linked, mined, relays, restarts>>

OnGetBlock(m) ==
    LET s == node[m.dst] IN
    /\ m.type = "get_block"
    /\ Send(Rest(m), IF m.height <= s.chain_height
                     THEN {[type |-> "block", src |-> m.dst, dst |-> m.src,
                            block |-> s.blocks[s.chain[m.height + 1]]]} ELSE {})
    /\ UNCHANGED <<setting, node, miner, linked, mined, relays, restarts>>

OnBlockResponse(m) ==
    /\ m.type = "block"
    /\ node' = [node EXCEPT ![m.dst] = IntegrateBlock(@, m.block)]
    /\ msgs' = Rest(m)
    /\ UNCHANGED <<setting, miner, linked, mined, relays, restarts>>

\* What both transaction handlers do with a valid transaction.
TakeTx(n, t, from) ==
    /\ node' = [node EXCEPT ![n].mempool = Add(@, t)]
    /\ relays' = [relays EXCEPT ![n][t] = @ + (IF IsKnownTx(node[n].mempool, t) THEN 0 ELSE 1)]

\* Mutated: whether the transaction is new is looked up after it was added.
RelayOf_afterAdd(n, t, from) == {}

RelayOf(n, t, from) ==
    IF IsKnownTx(node[n].mempool, t) THEN {} ELSE Gossip(n, t, from)

OnTransactionGossip(m) ==
    /\ m.type = "gossip" /\ m.dst # Server
    /\ TakeTx(m.dst, m.tx, m.src)
    /\ Send(Rest(m), RelayOf(m.dst, m.tx, m.src))
    /\ UNCHANGED <<setting, miner, linked, mined, restarts>>

\* A submission comes from the server, which is told that it was accepted.
OnSubmitTransaction(n, t) ==
    /\ TakeTx(n, t, Server)
    /\ Send(msgs, RelayOf(n, t, Server)
                    \cup {[type |-> "accepted", src |-> n, dst |-> Server, tx |-> t]})
    /\ UNCHANGED <<setting, miner, linked, mined, restarts>>

-----------------------------------------------------------------------------
(***************************************************************************)
(* The environment                                                         *)
(***************************************************************************)

\* A node stops and is started again: nothing was written to disk.
Restart(n) ==
    /\ restarts < setting.crashes
    /\ restarts' = restarts + 1
    /\ node' = [node EXCEPT ![n] = InitNode]
    /\ miner' = [miner EXCEPT ![n] = Idle]
    /\ relays' = [relays EXCEPT ![n] = [t \in Tx |-> 0]]
    /\ UNCHANGED <<setting, msgs, linked, mined>>

Link ==
    /\ ~ linked
    /\ linked' = TRUE
    /\ UNCHANGED <<setting, node, miner, msgs, mined, relays, restarts>>

Receive(m) ==
    \/ OnGetChainHeight(m)
    \/ OnChainHeightResponse(m)
    \/ OnGetBlock(m)
    \/ OnBlockResponse(m)
    \/ OnTransactionGossip(m)

Next ==
    \/ \E n \in setting.up : MineStart(n)
    \/ \E n \in setting.up : MineAbort(n)
    \/ \E n \in setting.up : \E h \in setting.finds[n] : MineBlock(n, h)
    \/ \E n \in setting.up : SyncStep(n)
    \/ \E m \in msgs : Receive(m)
    \/ \E n \in setting.up, t \in setting.txs : OnSubmitTransaction(n, t)
    \/ \E n \in setting.up : Restart(n)
    \/ Link

Spec == Init /\ [][Next]_vars

\* The network is linked from some moment on; the poll runs every SYNC_INTERVAL,
\* and its fairness is strong because the bound in SyncStep, not the code,
\* disables it now and then; and every datagram that arrives gets to its handler,
\* which is WF_vars(Delivery) with its enabling condition written out.  Nothing
\* is assumed of the miners.
Delivery == \E m \in InFlight : Receive(m)

Fairness ==
    /\ WF_vars(Link)
    /\ \A n \in Node : SF_vars(n \in setting.up /\ SyncStep(n))
    /\ []<>(InFlight = {}) \/ []<><<Delivery>>_vars

FairSpec == Spec /\ Fairness

-----------------------------------------------------------------------------
(***************************************************************************)
(* Properties.                                                             *)
(***************************************************************************)

\* The fields the other properties rest on have their types, and nobody buffers
\* more orphans than PendingCap.
NetworkTypeOK ==
    /\ \A n \in Node :
        /\ node[n].tip \in DOMAIN node[n].blocks
        /\ node[n].mempool \in MempoolType
        /\ Len(node[n].pending_blocks) <= PendingCap
        /\ \A h \in DOMAIN node[n].blocks : node[n].blocks[h] \in mined \cup {Genesis}
        /\ miner[n].pc = "hash" =>
             miner[n].parent \in DOMAIN node[n].blocks /\ miner[n].body \subseteq Tx
    /\ \A m \in msgs : m.src \in Node /\ m.dst \in Node \cup {Server}
    /\ linked \in BOOLEAN /\ restarts \in 0 .. setting.crashes

\* The work in progress never goes stale unnoticed: while the tip is the one a
\* miner started from, every transaction of its body is still free, though both
\* were read before the loop yielded.
MinedBodyStillFree ==
    \A n \in Node :
        miner[n].pc = "hash" /\ miner[n].parent = node[n].tip
            => miner[n].body \subseteq node[n].mempool.free_txs

\* Gossip dies out: a node relays a transaction at most once in its life,
\* whatever copies arrive and whatever reorganisations do to the transaction.
RelayOnce == \A n \in Node, t \in Tx : relays[n][t] <= 1

\* Whoever was told a height can ask for every block up to it, however late: the
\* chain a node answers on_get_block from never becomes shorter than it said,
\* as long as no node has been restarted.
ToldHeightIsServed ==
    restarts = 0 =>
        \A m \in msgs : m.type = "height" => m.height < Len(node[m.src].chain)

\* Once no more blocks are found, all nodes come to the same tip and stay there,
\* out of every fork no deeper than Window + 1, with reordered answers and
\* orphan buffers that overflow.
Convergence == <>[](\A n, p \in setting.up : node[n].tip = node[p].tip)

Known(n, t) == IsKnownTx(node[n].mempool, t)

\* A transaction that is new to the whole group while the network is linked gets
\* to the pool of every node once it is in the pool of one, also when its block
\* overtakes it.
TxSpreads ==
    \A t \in Tx :
        [](linked /\ (\A n \in Node : ~ Known(n, t)) =>
            []((\E n \in Node : Known(n, t)) => <>(\A n \in setting.up : Known(n, t))))

-----------------------------------------------------------------------------
(***************************************************************************)
(* What a comment of the code says, and the code does not do.              *)
(***************************************************************************)

\* "Handles dedup": add_block does not take a block that is in the tree into the
\* orphan buffer.
KnownNotPending ==
    \A n \in Node : \A i \in 1 .. Len(node[n].pending_blocks) :
        node[n].pending_blocks[i].hash \notin DOMAIN node[n].blocks
=============================================================================
