--------------------------- MODULE CommunityProofs ---------------------------
(***************************************************************************)
(* The invariants of BlockchainCommunity, proved for any group of nodes,   *)
(* any finds, submissions and crashes, and both kinds of network.          *)
(***************************************************************************)
EXTENDS BlockchainCommunity, NodeProofs

\* The blocks a node can be given: a peer may also serve the genesis block.
Around == mined \cup {Genesis}

SettingOK ==
    /\ setting \in Settings
    /\ restarts \in 0 .. setting.crashes
    /\ linked \in BOOLEAN
    /\ mined \subseteq BlockType

NodesOK ==
    /\ node = [n \in Node |-> node[n]]
    /\ \A n \in Node : NodeInv(node[n], Around) /\ Settled(node[n])

\* A miner's snapshot is of some block of its node, and is up to date if that
\* block is still the tip.
WorkOK(w, s) ==
    \/ w = Idle
    \/ /\ w = [pc |-> "hash", parent |-> w.parent, body |-> w.body]
       /\ w.parent \in DOMAIN s.blocks
       /\ w.body \subseteq Tx
       /\ w.parent = s.tip => w.body \subseteq s.mempool.free_txs

MinersOK ==
    /\ miner = [n \in Node |-> miner[n]]
    /\ \A n \in Node : WorkOK(miner[n], node[n])

MsgOK(m) ==
    /\ m.src \in Node /\ m.dst \in Node \cup {Server}
    /\ m.dst = Server => m.type \in {"gossip", "accepted"}
    /\ m.type \in {"height", "get_block"} => m.height \in Nat
    /\ m.type = "block" => m.block \in Around
    /\ m.type = "gossip" => m.tx \in Tx
    /\ m.type = "height" /\ restarts = 0 => m.height < Len(node[m.src].chain)

MsgsOK == \A m \in msgs : MsgOK(m)

\* What a node has relayed, it knows.
RelaysOK ==
    /\ relays \in [Node -> [Tx -> {0, 1}]]
    /\ \A n \in Node, t \in Tx : relays[n][t] = 1 => IsKnownTx(node[n].mempool, t)

\* The inductive invariant.
NetInv == SettingOK /\ NodesOK /\ MinersOK /\ MsgsOK /\ RelaysOK

-----------------------------------------------------------------------------
(***************************************************************************)
(* What a handler may do to a node                                         *)
(***************************************************************************)

\* k is n after a handler: nothing stored or accepted is lost, the chain is no
\* shorter, and a tip once left does not come back.
Conserves(n, k) ==
    /\ DOMAIN n.blocks \subseteq DOMAIN k.blocks
    /\ Keeps(n.mempool, k.mempool)
    /\ Len(n.chain) <= Len(k.chain)
    /\ k.tip \in DOMAIN n.blocks
         => k.tip = n.tip /\ n.mempool.free_txs \subseteq k.mempool.free_txs

\* Genesis is a block.
LEMMA GenesisTyped == Genesis \in BlockType
BY BlockchainAssumption DEF Genesis, BlockType

\* The length of the chain is the height of the tip and one more.
LEMMA ChainLength ==
    ASSUME NEW n, NEW R, NodeInv(n, R)
    PROVE  /\ n.chain_height \in Nat /\ Len(n.chain) = n.chain_height + 1
           /\ \A i \in 1 .. Len(n.chain) : n.chain[i] \in DOMAIN n.blocks
           /\ n.tip \in DOMAIN n.blocks /\ n.mempool \in MempoolType
           /\ Len(n.pending_blocks) <= PendingCap
BY DEF NodeInv, Core, ChainOK, TreeInv, Rooted, PoolOK, PendingOK

\* A node that grows conserves.
LEMMA GrowsConserves ==
    ASSUME NEW R, R \subseteq BlockType, NEW n, NEW k, NodeInv(n, R), NodeInv(k, R), Grows(n, k)
    PROVE  Conserves(n, k)
<1>1. n.chain_height <= k.chain_height
  <2>1. n.tip \in DOMAIN n.blocks /\ n.chain_height = n.height_by_hash[n.tip]
    BY DEF NodeInv, Core, ChainOK
  <2>2. n.tip \in DOMAIN k.blocks /\ k.height_by_hash[n.tip] = n.chain_height
    BY <2>1 DEF Grows
  <2>3. n.chain_height \in Nat /\ k.chain_height \in Nat
    BY ChainLength
  <2> QED BY <2>2, <2>3 DEF NodeInv, Best
<1>2. Len(n.chain) <= Len(k.chain)
  BY <1>1, ChainLength
<1>3. k.tip \in DOMAIN n.blocks => k.tip = n.tip
  BY TipNotResumed
<1> QED BY <1>2, <1>3 DEF Grows, Conserves

\* BlockchainCommunity.add_block, with any block there is.
LEMMA IntegrateConserves ==
    ASSUME NEW R, R \subseteq BlockType, NEW n, NodeInv(n, R), Settled(n), NEW b \in R,
           NEW k, k = IntegrateBlock(n, b)
    PROVE  NodeInv(k, R) /\ Settled(k) /\ Conserves(n, k)
<1>1. Fit(R, {}) /\ Complete(n, R \ {b}, {})
  BY DEF Fit, Complete
<1>2. NodeInv(k, R) /\ Settled(k) /\ Grows(n, k)
  BY <1>1, IntegrateBlockInv
<1> QED BY <1>2, GrowsConserves

\* Mempool.add of a valid transaction.
LEMMA TakeTxConserves ==
    ASSUME NEW R, NEW n, NodeInv(n, R), Settled(n), NEW t \in Tx,
           NEW k, k = [n EXCEPT !.mempool = Add(n.mempool, t)]
    PROVE  NodeInv(k, R) /\ Settled(k) /\ Conserves(n, k) /\ IsKnownTx(k.mempool, t)
<1>1. NodeInv(k, R) /\ Settled(k)
  BY AcceptTxInv
<1>2. /\ Keeps(n.mempool, k.mempool)
      /\ k.blocks = n.blocks /\ k.tip = n.tip /\ k.chain_height = n.chain_height
  BY AcceptTxInv
<1>3. k.mempool = Add(n.mempool, t) /\ n.mempool \in MempoolType
  BY AcceptTxInv, ChainLength
<1>4. n.mempool.free_txs \subseteq k.mempool.free_txs /\ IsKnownTx(k.mempool, t)
  BY <1>3 DEF Add, MempoolType, IsKnownTx
<1>5. Len(n.chain) <= Len(k.chain)
  BY <1>1, <1>2, ChainLength
<1> QED BY <1>1, <1>2, <1>4, <1>5 DEF Conserves

\* A step in which node n becomes k by its handlers, its miner going on or back
\* to the top, leaves every part of the invariant to do with nodes true.
LEMMA NodeStep ==
    ASSUME NetInv, NEW n \in Node, NEW k, node' = [node EXCEPT ![n] = k],
           NodeInv(k, Around'), Settled(k), Conserves(node[n], k),
           mined \subseteq mined', restarts' = restarts,
           miner' = miner \/ miner' = [miner EXCEPT ![n] = Idle]
    PROVE  /\ NodesOK' /\ MinersOK' /\ \A m \in msgs : MsgOK(m)'
           /\ \A p \in Node : \A t : IsKnownTx(node[p].mempool, t) => IsKnownTx(node'[p].mempool, t)
<1>1. /\ node'[n] = k
      /\ \A p \in Node : p # n => node'[p] = node[p]
      /\ node' = [p \in Node |-> node'[p]]
  BY DEF NetInv, NodesOK
<1>2. Around \subseteq Around'
  BY DEF Around
<1>3. NodesOK'
  <2> SUFFICES ASSUME NEW p \in Node PROVE NodeInv(node'[p], Around') /\ Settled(node'[p])
    BY <1>1 DEF NodesOK, Settled
  <2>1. CASE p # n
    BY <1>1, <1>2, <2>1, NodeInvMonotone DEF NetInv, NodesOK
  <2> QED BY <1>1, <2>1
<1>4. MinersOK'
  <2>1. /\ miner' = [p \in Node |-> miner'[p]]
        /\ \A p \in Node : miner'[p] = miner[p] \/ (p = n /\ miner'[p] = Idle)
    <3>1. miner = [p \in Node |-> miner[p]]
      BY DEF NetInv, MinersOK
    <3>2. CASE miner' = miner
      BY <3>1, <3>2
    <3>3. CASE miner' = [miner EXCEPT ![n] = Idle]
      BY <3>1, <3>3
    <3> QED BY <3>2, <3>3
  <2>2. ASSUME NEW p \in Node PROVE WorkOK(miner'[p], node'[p])
    <3>1. WorkOK(miner[p], node[p])
      BY DEF NetInv, MinersOK
    <3>2. WorkOK(miner[n], k)
      <4>1. WorkOK(miner[n], node[n])
        BY DEF NetInv, MinersOK
      <4> QED BY <4>1 DEF WorkOK, Conserves
    <3> QED BY <1>1, <2>1, <3>1, <3>2 DEF WorkOK
  <2> QED BY <2>1, <2>2 DEF MinersOK, WorkOK
<1>5. ASSUME NEW m \in msgs PROVE MsgOK(m)'
  <2>1. MsgOK(m)
    BY DEF NetInv, MsgsOK
  <2>2. Len(node[m.src].chain) <= Len(node'[m.src].chain)
    BY <1>1, <2>1 DEF Conserves, MsgOK
  <2>3. m.height \in Nat /\ m.height < Len(node[m.src].chain)
          => m.height < Len(node'[m.src].chain)
    <3>1. m.src \in Node
      BY <2>1 DEF MsgOK
    <3>2. NodeInv(node[m.src], Around) /\ NodeInv(node'[m.src], Around')
      BY <1>3, <3>1 DEF NetInv, NodesOK
    <3>3. Len(node[m.src].chain) \in Nat /\ Len(node'[m.src].chain) \in Nat
      BY <3>2, ChainLength
    <3> QED BY <2>2, <3>3
  <2> QED BY <1>2, <2>1, <2>3 DEF MsgOK
<1>6. ASSUME NEW p \in Node, NEW t, IsKnownTx(node[p].mempool, t)
      PROVE  IsKnownTx(node'[p].mempool, t)
  BY <1>1, <1>6 DEF Conserves, Keeps
<1> QED BY <1>3, <1>4, <1>5, <1>6

-----------------------------------------------------------------------------
(***************************************************************************)
(* The steps                                                               *)
(***************************************************************************)

\* What is in flight afterwards was so before or has just been sent.
LEMMA SendAdds ==
    ASSUME NEW left \in SUBSET msgs, NEW sent, Send(left, sent)
    PROVE  \A m \in msgs' : m \in msgs \/ m \in sent
BY DEF Send

\* Taking a message out of the network adds none.
LEMMA RestLeft == \A m : Rest(m) \in SUBSET msgs
BY DEF Rest

\* A step that only sends.
LEMMA SendStep ==
    ASSUME NetInv, UNCHANGED <<setting, node, miner, linked, mined, relays, restarts>>,
           \A m \in msgs' : m \in msgs \/ MsgOK(m)
    PROVE  NetInv'
<1>1. SettingOK' /\ RelaysOK'
  BY DEF NetInv, SettingOK, RelaysOK
<1>2. NodesOK'
  BY DEF NetInv, NodesOK, Settled, Around
<1>3. MinersOK'
  BY DEF NetInv, MinersOK, WorkOK
<1>4. MsgsOK'
  BY DEF NetInv, MsgsOK, MsgOK, Around
<1> QED BY <1>1, <1>2, <1>3, <1>4 DEF NetInv

\* The nodes that run are nodes, and what they announce they have.
LEMMA Announced ==
    ASSUME NEW n \in Node, NEW p \in Node, NEW s, NEW R, NodeInv(s, R), s = node[n]
    PROVE  MsgOK(HeightOf(s, n, p))
<1>1. s.chain_height \in Nat /\ s.chain_height < Len(s.chain)
  BY ChainLength
<1>2. p # Server
  BY CommunityAssumption
<1> QED BY <1>1, <1>2 DEF MsgOK, HeightOf

LEMMA RunningNodes ==
    ASSUME NetInv
    PROVE  setting.up \subseteq Node /\ setting.txs \subseteq Tx /\ Server \notin Node
           /\ \A n \in Node : setting.finds[n] \subseteq Int
BY SettingsAssumption, CommunityAssumption DEF NetInv, SettingOK

LEMMA MineStartInv ==
    ASSUME NetInv, NEW n \in setting.up, MineStart(n)
    PROVE  NetInv'
<1>1. n \in Node
  BY RunningNodes
<1>2. WorkOK(Snapshot(n), node[n])
  <2>1. NodeInv(node[n], Around)
    BY <1>1 DEF NetInv, NodesOK
  <2>2. node[n].tip \in DOMAIN node[n].blocks /\ node[n].mempool \in MempoolType
    BY <2>1, ChainLength
  <2>3. node[n].mempool.free_txs \subseteq Tx
    BY <2>2 DEF MempoolType
  <2> QED BY <2>2, <2>3 DEF WorkOK, Snapshot
<1>3. SettingOK' /\ RelaysOK'
  BY DEF NetInv, SettingOK, RelaysOK, MineStart
<1>4. NodesOK'
  BY DEF NetInv, NodesOK, Settled, Around, MineStart
<1>5. MinersOK'
  <2>1. /\ miner' = [p \in Node |-> miner'[p]]
        /\ \A p \in Node : miner'[p] = IF p = n THEN Snapshot(n) ELSE miner[p]
    BY <1>1 DEF NetInv, MinersOK, MineStart
  <2>2. \A p \in Node : WorkOK(miner'[p], node[p])
    BY <1>2, <2>1 DEF NetInv, MinersOK
  <2> QED BY <2>1, <2>2 DEF MinersOK, WorkOK, MineStart
<1>6. MsgsOK'
  BY DEF NetInv, MsgsOK, MsgOK, Around, MineStart
<1> QED BY <1>3, <1>4, <1>5, <1>6 DEF NetInv

LEMMA MineAbortInv ==
    ASSUME NetInv, NEW n \in setting.up, MineAbort(n)
    PROVE  NetInv'
<1>1. n \in Node
  BY RunningNodes
<1>2. SettingOK' /\ RelaysOK'
  BY DEF NetInv, SettingOK, RelaysOK, MineAbort
<1>3. NodesOK'
  BY DEF NetInv, NodesOK, Settled, Around, MineAbort
<1>4. MinersOK'
  <2>1. /\ miner' = [p \in Node |-> miner'[p]]
        /\ \A p \in Node : miner'[p] = IF p = n THEN Idle ELSE miner[p]
    BY <1>1 DEF NetInv, MinersOK, MineAbort
  <2>2. \A p \in Node : WorkOK(miner'[p], node[p])
    BY <2>1 DEF NetInv, MinersOK, WorkOK
  <2> QED BY <2>1, <2>2 DEF MinersOK, WorkOK, MineAbort
<1>5. MsgsOK'
  BY DEF NetInv, MsgsOK, MsgOK, Around, MineAbort
<1> QED BY <1>2, <1>3, <1>4, <1>5 DEF NetInv

LEMMA MineBlockInv ==
    ASSUME NetInv, NEW n \in setting.up, NEW h \in setting.finds[n], MineBlock(n, h)
    PROVE  NetInv'
<1> DEFINE w == Work(n)
           b == MinedBlock(h, w)
           k == IntegrateBlock(node[n], b)
<1>1. n \in Node /\ h \in Int /\ setting.up \subseteq Node
  BY RunningNodes
<1>2. /\ mined' = mined \cup {b} /\ node' = [node EXCEPT ![n] = k]
      /\ miner' = [miner EXCEPT ![n] = Idle]
      /\ Send(msgs, IF Accepts(node[n], b)
                    THEN {HeightOf(node'[n], n, p) : p \in Teammates(n)} ELSE {})
      /\ UNCHANGED <<setting, linked, relays, restarts>>
  BY DEF MineBlock
<1>3. NodeInv(node[n], Around) /\ Settled(node[n]) /\ Around \subseteq BlockType
  BY <1>1, GenesisTyped DEF NetInv, NodesOK, SettingOK, Around
<1>4. b \in BlockType
  <2>1. /\ node[n].tip \in DOMAIN node[n].blocks /\ node[n].mempool.free_txs \subseteq Tx
        /\ DOMAIN node[n].blocks \subseteq Int
    BY <1>3, ChainLength, StoredHashes DEF NodeInv, Core, MempoolType
  <2>2. WorkOK(miner[n], node[n])
    BY <1>1 DEF NetInv, MinersOK
  <2>3. w.parent \in DOMAIN node[n].blocks /\ w.body \subseteq Tx
    BY <2>1, <2>2 DEF Work, Snapshot, WorkOK, Idle
  <2>4. w.parent \in Int /\ w.body \in SUBSET Tx /\ Difficulty \in Nat
    BY <2>1, <2>3, BlockchainAssumption
  <2> HIDE DEF w
  <2> QED BY <1>1, <2>4 DEF MinedBlock, BlockType
<1> HIDE DEF b
<1>5. /\ Around' = Around \cup {b} /\ b \in Around' /\ Around' \subseteq BlockType
  BY <1>2, <1>3, <1>4 DEF Around
<1>6. NodeInv(k, Around') /\ Settled(k) /\ Conserves(node[n], k)
  <2>1. NodeInv(node[n], Around')
    BY <1>3, <1>5, NodeInvMonotone
  <2> QED BY <1>3, <1>5, <2>1, IntegrateConserves
<1> HIDE DEF k
<1>7. /\ NodesOK' /\ MinersOK' /\ \A m \in msgs : MsgOK(m)'
      /\ \A p \in Node : \A t : IsKnownTx(node[p].mempool, t) => IsKnownTx(node'[p].mempool, t)
  <2>1. mined \subseteq mined' /\ restarts' = restarts
    BY <1>2
  <2> QED BY <1>1, <1>2, <1>6, <2>1, NodeStep
<1>8. MsgsOK'
  <2>1. ASSUME NEW m \in msgs', m \notin msgs PROVE MsgOK(m)'
    <3>1. PICK p \in Teammates(n) : m = HeightOf(node'[n], n, p)
      BY <1>2, <2>1, SendAdds
    <3>2. p \in Node
      BY <1>1 DEF Teammates
    <3>3. NodeInv(node'[n], Around') /\ Server \notin Node
      BY <1>1, <1>7, CommunityAssumption DEF NodesOK
    <3>4. node'[n].chain_height \in Nat /\ node'[n].chain_height < Len(node'[n].chain)
      BY <3>3, ChainLength
    <3> QED BY <1>1, <3>1, <3>2, <3>3, <3>4 DEF MsgOK, HeightOf
  <2> QED BY <1>7, <2>1 DEF MsgsOK
<1>9. SettingOK'
  BY <1>2, <1>4 DEF NetInv, SettingOK
<1>10. RelaysOK'
  BY <1>2, <1>7 DEF NetInv, RelaysOK
<1> QED BY <1>7, <1>8, <1>9, <1>10 DEF NetInv

LEMMA SyncStepInv ==
    ASSUME NetInv, NEW n \in setting.up, SyncStep(n)
    PROVE  NetInv'
<1>1. \A p \in Teammates(n) : p \in Node /\ n \in Node /\ p # Server
  BY RunningNodes DEF Teammates
<1>2. \A p \in Teammates(n) : MsgOK([type |-> "get_height", src |-> n, dst |-> p])
  BY <1>1 DEF MsgOK
<1>3. \A m \in msgs' : m \in msgs \/ MsgOK(m)
  BY <1>2, SendAdds DEF SyncStep
<1> QED BY <1>3, SendStep DEF SyncStep

\* The receiver of any datagram but gossip and receipts is a node.
LEMMA Receiver ==
    ASSUME NetInv, NEW m \in msgs
    PROVE  /\ MsgOK(m) /\ m.src \in Node
           /\ m.type \notin {"gossip", "accepted"} \/ m.dst # Server => m.dst \in Node
BY DEF NetInv, MsgsOK, MsgOK

LEMMA OnGetChainHeightInv ==
    ASSUME NetInv, NEW m \in msgs, OnGetChainHeight(m)
    PROVE  NetInv'
<1>1. m.dst \in Node /\ m.src \in Node
  BY Receiver DEF OnGetChainHeight
<1>2. NodeInv(node[m.dst], Around)
  BY <1>1 DEF NetInv, NodesOK
<1>3. MsgOK(HeightOf(node[m.dst], m.dst, m.src))
  BY <1>1, <1>2, Announced
<1>4. \A d \in msgs' : d \in msgs \/ MsgOK(d)
  BY <1>3, RestLeft, SendAdds DEF OnGetChainHeight
<1> QED BY <1>4, SendStep DEF OnGetChainHeight

LEMMA OnChainHeightResponseInv ==
    ASSUME NetInv, NEW m \in msgs, OnChainHeightResponse(m)
    PROVE  NetInv'
<1>1. m.dst \in Node /\ m.src \in Node /\ m.src # Server
  BY Receiver, CommunityAssumption DEF OnChainHeightResponse
<1>2. m.height \in Nat
  BY Receiver DEF MsgOK, OnChainHeightResponse
<1>3. \A h \in 0 .. m.height :
        MsgOK([type |-> "get_block", src |-> m.dst, dst |-> m.src, height |-> h])
  BY <1>1, <1>2 DEF MsgOK
<1>4. \A d \in FetchFrom(node[m.dst], m.dst, m.src, m.height) : MsgOK(d)
  BY <1>3 DEF FetchFrom
<1>5. \A d \in msgs' : d \in msgs \/ MsgOK(d)
  BY <1>4, RestLeft, SendAdds DEF OnChainHeightResponse
<1> QED BY <1>5, SendStep DEF OnChainHeightResponse

LEMMA OnGetBlockInv ==
    ASSUME NetInv, NEW m \in msgs, OnGetBlock(m)
    PROVE  NetInv'
<1> DEFINE s == node[m.dst]
           b == s.blocks[s.chain[m.height + 1]]
           reply == [type |-> "block", src |-> m.dst, dst |-> m.src, block |-> b]
<1>1. m.dst \in Node /\ m.src \in Node /\ m.src # Server
  BY Receiver, CommunityAssumption DEF OnGetBlock
<1>2. m.height \in Nat
  BY Receiver DEF MsgOK, OnGetBlock
<1>3. NodeInv(s, Around)
  BY <1>1 DEF NetInv, NodesOK
<1> HIDE DEF s
<1>4. m.height <= s.chain_height => b \in Around
  <2>1. SUFFICES ASSUME m.height <= s.chain_height PROVE b \in Around
    OBVIOUS
  <2>2. m.height + 1 \in 1 .. Len(s.chain)
    BY <1>2, <1>3, <2>1, ChainLength
  <2>3. s.chain[m.height + 1] \in DOMAIN s.blocks
    BY <1>3, <2>2, ChainLength
  <2> QED BY <1>3, <2>3 DEF NodeInv, Core, Filed, Around
<1> HIDE DEF b
<1>5. m.height <= s.chain_height => MsgOK(reply)
  BY <1>1, <1>4 DEF MsgOK
<1>6. Send(Rest(m), IF m.height <= s.chain_height THEN {reply} ELSE {})
  BY DEF OnGetBlock, b, s
<1> HIDE DEF reply
<1>7. \A d \in msgs' : d \in msgs \/ MsgOK(d)
  BY <1>5, <1>6, RestLeft, SendAdds
<1> QED BY <1>7, SendStep DEF OnGetBlock

LEMMA OnBlockResponseInv ==
    ASSUME NetInv, NEW m \in msgs, OnBlockResponse(m)
    PROVE  NetInv'
<1> DEFINE n == m.dst
           k == IntegrateBlock(node[n], m.block)
<1>1. n \in Node /\ m.block \in Around
  BY Receiver DEF OnBlockResponse, MsgOK
<1>2. /\ node' = [node EXCEPT ![n] = k] /\ msgs' = Rest(m)
      /\ UNCHANGED <<setting, miner, linked, mined, relays, restarts>>
  BY DEF OnBlockResponse
<1>3. NodeInv(node[n], Around) /\ Settled(node[n]) /\ Around \subseteq BlockType
  BY <1>1, GenesisTyped DEF NetInv, NodesOK, SettingOK, Around
<1>4. NodeInv(k, Around) /\ Settled(k) /\ Conserves(node[n], k)
  BY <1>1, <1>3, IntegrateConserves
<1> HIDE DEF n, k
<1>5. /\ NodesOK' /\ MinersOK' /\ \A d \in msgs : MsgOK(d)'
      /\ \A p \in Node : \A t : IsKnownTx(node[p].mempool, t) => IsKnownTx(node'[p].mempool, t)
  <2>1. NodeInv(k, Around') /\ mined \subseteq mined' /\ restarts' = restarts /\ miner' = miner
    BY <1>2, <1>4 DEF Around
  <2> QED BY <1>1, <1>2, <1>4, <2>1, NodeStep
<1>6. MsgsOK'
  BY <1>2, <1>5, RestLeft DEF MsgsOK
<1>7. SettingOK' /\ RelaysOK'
  BY <1>2, <1>5 DEF NetInv, SettingOK, RelaysOK
<1> QED BY <1>5, <1>6, <1>7 DEF NetInv

\* Both handlers of a transaction: n knows it afterwards, and relays it only if
\* it did not before.
LEMMA TakeTxInv ==
    ASSUME NetInv, NEW n \in Node, NEW t \in Tx, NEW from, TakeTx(n, t, from),
           UNCHANGED <<setting, miner, linked, mined, restarts>>,
           \A m \in msgs' : m \in msgs \/ m \in RelayOf(n, t, from)
                              \/ m = [type |-> "accepted", src |-> n, dst |-> Server, tx |-> t]
    PROVE  NetInv'
<1> DEFINE k == [node[n] EXCEPT !.mempool = Add(node[n].mempool, t)]
<1>1. /\ node' = [node EXCEPT ![n] = k]
      /\ relays' = [relays EXCEPT ![n][t] = @ + (IF IsKnownTx(node[n].mempool, t) THEN 0 ELSE 1)]
  BY DEF TakeTx
<1>2. NodeInv(node[n], Around) /\ Settled(node[n])
  BY DEF NetInv, NodesOK
<1>3. NodeInv(k, Around) /\ Settled(k) /\ Conserves(node[n], k) /\ IsKnownTx(k.mempool, t)
  BY <1>2, TakeTxConserves
<1> HIDE DEF k
<1>4. /\ NodesOK' /\ MinersOK' /\ \A d \in msgs : MsgOK(d)'
      /\ \A p \in Node : \A u : IsKnownTx(node[p].mempool, u) => IsKnownTx(node'[p].mempool, u)
  <2>1. NodeInv(k, Around') /\ mined \subseteq mined' /\ restarts' = restarts /\ miner' = miner
    BY <1>3 DEF Around
  <2> QED BY <1>1, <1>3, <2>1, NodeStep
<1>5. MsgsOK'
  <2>1. ASSUME NEW m \in RelayOf(n, t, from) PROVE MsgOK(m)'
    <3>1. PICK p \in setting.up \cup {Server} :
            m = [type |-> "gossip", src |-> n, dst |-> p, tx |-> t]
      BY <2>1 DEF RelayOf, Gossip
    <3>2. p \in Node \cup {Server}
      BY RunningNodes
    <3> QED BY <3>1, <3>2 DEF MsgOK
  <2>2. MsgOK([type |-> "accepted", src |-> n, dst |-> Server, tx |-> t])'
    BY DEF MsgOK
  <2> QED BY <1>4, <2>1, <2>2 DEF MsgsOK
<1>6. SettingOK'
  BY DEF NetInv, SettingOK
<1>7. RelaysOK'
  <2>1. /\ relays \in [Node -> [Tx -> {0, 1}]]
        /\ \A p \in Node, u \in Tx : relays[p][u] = 1 => IsKnownTx(node[p].mempool, u)
    BY DEF NetInv, RelaysOK
  <2> DEFINE new == relays[n][t] + (IF IsKnownTx(node[n].mempool, t) THEN 0 ELSE 1)
  <2>2. new \in {0, 1}
    BY <2>1
  <2>3. relays' = [relays EXCEPT ![n][t] = new]
    BY <1>1
  <2> HIDE DEF new
  <2>4. relays' \in [Node -> [Tx -> {0, 1}]]
    BY <2>1, <2>2, <2>3
  <2>5. \A p \in Node, u \in Tx : p # n \/ u # t => relays'[p][u] = relays[p][u]
    BY <2>1, <2>3
  <2>6. IsKnownTx(node'[n].mempool, t)
    BY <1>1, <1>3 DEF NetInv, NodesOK
  <2> QED BY <1>4, <2>1, <2>4, <2>5, <2>6 DEF RelaysOK
<1> QED BY <1>4, <1>5, <1>6, <1>7 DEF NetInv

LEMMA OnTransactionGossipInv ==
    ASSUME NetInv, NEW m \in msgs, OnTransactionGossip(m)
    PROVE  NetInv'
<1>1. m.dst \in Node /\ m.tx \in Tx
  BY Receiver DEF OnTransactionGossip, MsgOK
<1>2. \A d \in msgs' : d \in msgs \/ d \in RelayOf(m.dst, m.tx, m.src)
  BY RestLeft, SendAdds DEF OnTransactionGossip
<1> QED BY <1>1, <1>2, TakeTxInv DEF OnTransactionGossip

LEMMA OnSubmitTransactionInv ==
    ASSUME NetInv, NEW n \in setting.up, NEW t \in setting.txs, OnSubmitTransaction(n, t)
    PROVE  NetInv'
<1>1. n \in Node /\ t \in Tx
  BY RunningNodes
<1>2. \A d \in msgs' : d \in msgs \/ d \in RelayOf(n, t, Server)
                         \/ d = [type |-> "accepted", src |-> n, dst |-> Server, tx |-> t]
  BY SendAdds DEF OnSubmitTransaction
<1> QED BY <1>1, <1>2, TakeTxInv DEF OnSubmitTransaction

LEMMA RestartInv ==
    ASSUME NetInv, NEW n \in setting.up, Restart(n)
    PROVE  NetInv'
<1>1. n \in Node
  BY RunningNodes
<1>2. /\ node' = [p \in Node |-> node'[p]]
      /\ \A p \in Node : node'[p] = IF p = n THEN InitNode ELSE node[p]
  BY <1>1 DEF Restart, NetInv, NodesOK
<1>3. /\ miner' = [p \in Node |-> miner'[p]]
      /\ \A p \in Node : miner'[p] = IF p = n THEN Idle ELSE miner[p]
  BY <1>1 DEF Restart, NetInv, MinersOK
<1>4. NodesOK'
  <2>1. NodeInv(InitNode, Around) /\ Settled(InitNode)
    BY InitNodeInv, NodeInvMonotone
  <2>2. Around' = Around
    BY DEF Restart, Around
  <2>3. \A p \in Node : NodeInv(node'[p], Around) /\ Settled(node'[p])
    BY <1>2, <2>1 DEF NetInv, NodesOK
  <2> QED BY <1>2, <2>2, <2>3 DEF NodesOK, Settled
<1>5. MinersOK'
  <2>1. \A p \in Node : WorkOK(miner'[p], node'[p])
    BY <1>2, <1>3 DEF NetInv, MinersOK, WorkOK
  <2> QED BY <1>3, <2>1 DEF MinersOK, WorkOK
<1>6. restarts' \in 0 .. setting'.crashes /\ restarts' # 0
  BY SettingsAssumption DEF Restart, NetInv, SettingOK
<1>7. SettingOK'
  BY <1>6 DEF Restart, NetInv, SettingOK
<1>8. MsgsOK'
  BY <1>6 DEF Restart, NetInv, MsgsOK, MsgOK, Around
<1>9. RelaysOK'
  <2>1. relays' \in [Node -> [Tx -> {0, 1}]]
    BY <1>1 DEF Restart, NetInv, RelaysOK
  <2>2. \A p \in Node, t \in Tx : relays'[p][t] = IF p = n THEN 0 ELSE relays[p][t]
    BY <1>1 DEF Restart, NetInv, RelaysOK
  <2> QED BY <1>2, <2>1, <2>2 DEF NetInv, RelaysOK
<1> QED BY <1>4, <1>5, <1>7, <1>8, <1>9 DEF NetInv

LEMMA LinkInv ==
    ASSUME NetInv, Link \/ UNCHANGED vars
    PROVE  NetInv'
<1>1. /\ UNCHANGED <<setting, node, miner, msgs, mined, relays, restarts>>
      /\ linked' = TRUE \/ linked' = linked
  BY DEF Link, vars
<1>2. SettingOK' /\ RelaysOK' /\ NodesOK' /\ MinersOK' /\ MsgsOK'
  BY <1>1 DEF NetInv, SettingOK, RelaysOK, NodesOK, Settled, MinersOK, WorkOK, MsgsOK, MsgOK, Around
<1> QED BY <1>2 DEF NetInv

-----------------------------------------------------------------------------
(***************************************************************************)
(* The theorems                                                            *)
(***************************************************************************)

\* Every node of a group keeps the invariant of one node, every miner's snapshot the
\* consistency it was taken with, and no message asks for or tells what no honest node
\* has, after any handlers, polls and crashes (on_*, _mine_loop, _sync_step).
THEOREM NetInvariance == Spec => []NetInv
<1>1. Init => NetInv
  <2> SUFFICES ASSUME Init PROVE NetInv
    OBVIOUS
  <2>1. SettingOK
    BY SettingsAssumption, CommunityAssumption DEF Init, SettingOK
  <2>2. NodeInv(InitNode, Around) /\ Settled(InitNode)
    BY InitNodeInv, NodeInvMonotone
  <2>3. NodesOK /\ MinersOK /\ MsgsOK /\ RelaysOK
    BY <2>2 DEF Init, NodesOK, MinersOK, WorkOK, MsgsOK, RelaysOK
  <2> QED BY <2>1, <2>3 DEF NetInv
<1>2. NetInv /\ [Next]_vars => NetInv'
  <2> SUFFICES ASSUME NetInv, [Next]_vars PROVE NetInv'
    OBVIOUS
  <2>1. ASSUME NEW n \in setting.up, MineStart(n) PROVE NetInv'
    BY <2>1, MineStartInv
  <2>2. ASSUME NEW n \in setting.up, MineAbort(n) PROVE NetInv'
    BY <2>2, MineAbortInv
  <2>3. ASSUME NEW n \in setting.up, NEW h \in setting.finds[n], MineBlock(n, h) PROVE NetInv'
    BY <2>3, MineBlockInv
  <2>4. ASSUME NEW n \in setting.up, SyncStep(n) PROVE NetInv'
    BY <2>4, SyncStepInv
  <2>5. ASSUME NEW m \in msgs, Receive(m) PROVE NetInv'
    BY <2>5, OnGetChainHeightInv, OnChainHeightResponseInv, OnGetBlockInv, OnBlockResponseInv,
       OnTransactionGossipInv DEF Receive
  <2>6. ASSUME NEW n \in setting.up, NEW t \in setting.txs, OnSubmitTransaction(n, t)
        PROVE NetInv'
    BY <2>6, OnSubmitTransactionInv
  <2>7. ASSUME NEW n \in setting.up, Restart(n) PROVE NetInv'
    BY <2>7, RestartInv
  <2>8. ASSUME Link \/ UNCHANGED vars PROVE NetInv'
    BY <2>8, LinkInv
  <2> QED BY <2>1, <2>2, <2>3, <2>4, <2>5, <2>6, <2>7, <2>8 DEF Next
<1> QED BY <1>1, <1>2, PTL DEF Spec

\* The fields keep their types: what a node stores was mined by somebody, no
\* buffer outgrows its capacity, and datagrams run between nodes and the server
\* (add_block and the handlers of BlockchainCommunity).
THEOREM NetworkTyped == Spec => []NetworkTypeOK
<1>1. NetInv => NetworkTypeOK
  <2> SUFFICES ASSUME NetInv PROVE NetworkTypeOK
    OBVIOUS
  <2>1. ASSUME NEW n \in Node
        PROVE  /\ node[n].tip \in DOMAIN node[n].blocks
               /\ node[n].mempool \in MempoolType
               /\ Len(node[n].pending_blocks) <= PendingCap
               /\ \A h \in DOMAIN node[n].blocks : node[n].blocks[h] \in mined \cup {Genesis}
               /\ miner[n].pc = "hash" =>
                    miner[n].parent \in DOMAIN node[n].blocks /\ miner[n].body \subseteq Tx
    <3>1. NodeInv(node[n], Around)
      BY DEF NetInv, NodesOK
    <3>2. /\ node[n].tip \in DOMAIN node[n].blocks
          /\ node[n].mempool \in MempoolType
          /\ Len(node[n].pending_blocks) <= PendingCap
      BY <3>1, ChainLength
    <3>3. \A h \in DOMAIN node[n].blocks : node[n].blocks[h] \in mined \cup {Genesis}
      BY <3>1 DEF NodeInv, Core, Filed, Around
    <3>4. WorkOK(miner[n], node[n])
      BY DEF NetInv, MinersOK
    <3> QED BY <3>2, <3>3, <3>4 DEF WorkOK, Idle
  <2>2. \A m \in msgs : m.src \in Node /\ m.dst \in Node \cup {Server}
    BY DEF NetInv, MsgsOK, MsgOK
  <2> QED BY <2>1, <2>2 DEF NetworkTypeOK, NetInv, SettingOK
<1> QED BY <1>1, NetInvariance, PTL

\* What a miner works on is free to be mined as long as its parent is the tip:
\* the reads _mine_loop makes before it yields stay consistent with the comparison of
\* tips it makes after, whatever the handlers do in between.
THEOREM MinedBodyFree == Spec => []MinedBodyStillFree
<1>1. NetInv => MinedBodyStillFree
  BY DEF NetInv, MinersOK, WorkOK, Idle, MinedBodyStillFree
<1> QED BY <1>1, NetInvariance, PTL

\* A node relays a transaction at most once in its life, so that gossip dies out
\* (on_transaction_gossip, on_submit_transaction, whose is_known_tx no reorganisation
\* makes forget).
THEOREM RelayedOnce == Spec => []RelayOnce
<1>1. NetInv => RelayOnce
  <2> SUFFICES ASSUME NetInv, NEW n \in Node, NEW t \in Tx PROVE relays[n][t] <= 1
    BY DEF RelayOnce
  <2>1. relays[n][t] \in {0, 1}
    BY DEF NetInv, RelaysOK
  <2> QED BY <2>1
<1> QED BY <1>1, NetInvariance, PTL

\* While nobody was restarted, a node can serve every height it ever announced: no
\* reorganisation shortens a chain (reorganize, on_get_chain_height, on_get_block).
THEOREM ToldHeightServed == Spec => []ToldHeightIsServed
<1>1. NetInv => ToldHeightIsServed
  BY DEF NetInv, MsgsOK, MsgOK, ToldHeightIsServed
<1> QED BY <1>1, NetInvariance, PTL
=============================================================================
