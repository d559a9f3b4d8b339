--------------------------- MODULE ChainNodeProofs ---------------------------
(***************************************************************************)
(* The invariants of ChainNode, proved for every world, every set of       *)
(* transactions and every capacity of the orphan buffer; and that it       *)
(* implements Ledger.                                                      *)
(***************************************************************************)
EXTENDS ChainNode, NodeProofs, FunctionTheorems

\* The inductive invariant.
Inv ==
    /\ world \in Worlds
    /\ received \subseteq world
    /\ NodeInv(node, received)
    /\ Settled(node)

\* A step keeps the invariant and forgets no transaction.
LEMMA StepInv ==
    Inv /\ [Next]_vars => Inv' /\ Keeps(node.mempool, node'.mempool)
<1> SUFFICES ASSUME Inv, [Next]_vars
             PROVE  Inv' /\ Keeps(node.mempool, node'.mempool)
  OBVIOUS
<1>1. ASSUME NEW b \in world, ReceiveBlock(b)
      PROVE  Inv' /\ Keeps(node.mempool, node'.mempool)
  <2> DEFINE R == received \cup {b}
  <2>1. /\ node' = IntegrateBlock(node, b) /\ received' = R /\ world' = world
    BY <1>1 DEF ReceiveBlock
  <2>2. R \in SUBSET world /\ world \in Worlds /\ b \in R
    BY <1>1 DEF Inv
  <2>3. R \subseteq BlockType /\ Fit(R, {}) /\ Complete(node, R \ {b}, {})
    BY <2>2, WorldsAssumption DEF Fit, Complete
  <2>4. NodeInv(node, R) /\ Settled(node)
    BY NodeInvMonotone DEF Inv
  <2> HIDE DEF R
  <2>5. /\ NodeInv(node', R) /\ Settled(node')
        /\ Keeps(node.mempool, node'.mempool)
    BY <2>1, <2>2, <2>3, <2>4, IntegrateBlockInv DEF Grows
  <2> QED BY <2>1, <2>2, <2>5 DEF Inv, Settled
<1>2. ASSUME NEW t \in Tx, AcceptTx(t)
      PROVE  Inv' /\ Keeps(node.mempool, node'.mempool)
  <2>1. /\ node' = [node EXCEPT !.mempool = Add(node.mempool, t)]
        /\ world' = world /\ received' = received
    BY <1>2 DEF AcceptTx
  <2>2. NodeInv(node, received) /\ Settled(node)
    BY DEF Inv
  <2>3. NodeInv(node', received) /\ Settled(node') /\ Keeps(node.mempool, node'.mempool)
    BY <2>1, <2>2, AcceptTxInv
  <2> QED BY <2>1, <2>3 DEF Inv, Settled
<1>3. CASE UNCHANGED vars
  BY <1>3 DEF Inv, vars, Keeps, Settled
<1> QED BY <1>1, <1>2, <1>3 DEF Next

\* The invariant holds in every reachable state.
THEOREM Invariance == Spec => []Inv
<1>1. Init => Inv
  BY InitNodeInv DEF Init, Inv
<1>2. Inv /\ [Next]_vars => Inv'
  BY StepInv
<1> QED BY <1>1, <1>2, PTL DEF Spec

\* Every field keeps its type, and blocks come from the network only.
THEOREM TypeCorrect == Spec => []TypeOK
<1>1. Inv => TypeOK
  <2> SUFFICES ASSUME Inv PROVE TypeOK
    OBVIOUS
  <2>1. /\ received \subseteq world /\ TreeInv(node.blocks, node.height_by_hash)
        /\ Filed(node, received) /\ ChainOK(node) /\ PoolOK(node) /\ PendingOK(node, received)
    BY DEF Inv, NodeInv, Core
  <2> QED BY <2>1 DEF TypeOK, TreeInv, Rooted, Filed, ChainOK, PoolOK, PendingOK
<1> QED BY <1>1, Invariance, PTL

\* No stored block beats the tip.
THEOREM BestTip == Spec => []TipIsBest
<1>1. Inv => TipIsBest
  BY DEF Inv, NodeInv, Best, TipIsBest
<1> QED BY <1>1, Invariance, PTL

\* _connect_orphans leaves no orphan whose parent is stored.
THEOREM OrphansConnected == Spec => []NoOrphanWithKnownParent
<1>1. Inv => NoOrphanWithKnownParent
  BY DEF Inv, Settled, NoOrphanWithKnownParent
<1> QED BY <1>1, Invariance, PTL

\* A block that is stored is in no buffer, whether it came before its parent or after
\* (add_block, _connect_orphans): a stored block has a stored parent, its hash names it,
\* and no orphan has one.
THEOREM BufferedAreNews == Spec => []BufferedIsNotStored
<1>1. Inv => BufferedIsNotStored
  <2> SUFFICES ASSUME Inv, NEW i \in 1 .. Len(node.pending_blocks),
                      node.pending_blocks[i].hash \in DOMAIN node.blocks
               PROVE  FALSE
    BY DEF BufferedIsNotStored
  <2> DEFINE b == node.pending_blocks[i]
             h == b.hash
  <2>1. /\ Filed(node, received) /\ Rooted(node.blocks, node.height_by_hash)
        /\ node.pending_blocks \in Seq(received) /\ received \subseteq world
        /\ world \in Worlds
    BY DEF Inv, NodeInv, Core, TreeInv, PendingOK
  <2>2. b \in world /\ h # GenesisHash
    BY <2>1, WorldsAssumption
  <2>3. node.blocks[h] \in world /\ node.blocks[h].hash = h
    BY <2>1, <2>2 DEF Filed, Genesis
  <2>4. node.blocks[h].prev_hash = b.prev_hash
    BY <2>1, <2>2, <2>3, WorldsAssumption
  <2>5. b.prev_hash \in DOMAIN node.blocks
    BY <2>1, <2>2, <2>4 DEF Rooted
  <2> QED BY <2>5 DEF Inv, Settled
<1> QED BY <1>1, Invariance, PTL

\* The chain a node serves is the path from genesis to its tip, at the recorded
\* heights, so that on_get_block never indexes past its end.
THEOREM ChainIsPath == Spec => []ChainIsPathToTip
<1>1. Inv => ChainIsPathToTip
  <2> SUFFICES ASSUME Inv PROVE ChainIsPathToTip
    OBVIOUS
  <2>1. NodeInv(node, received)
    BY DEF Inv
  <2>2. /\ node.chain[1] = GenesisHash
        /\ node.chain[Len(node.chain)] = node.tip
        /\ \A i \in 1 .. Len(node.chain) :
             i > 1 => node.blocks[node.chain[i]].prev_hash = node.chain[i - 1]
    BY <2>1, ChainIsWalk
  <2>3. /\ node.chain \in Seq(DOMAIN node.blocks)
        /\ Len(node.chain) = node.chain_height + 1
        /\ \A i \in 1 .. Len(node.chain) : node.height_by_hash[node.chain[i]] = i - 1
    BY <2>1 DEF NodeInv, Core, ChainOK
  <2> QED BY <2>2, <2>3 DEF ChainIsPathToTip
<1> QED BY <1>1, Invariance, PTL

\* What the pool calls confirmed is on the canonical chain, and nothing is both
\* free and confirmed.
THEOREM ConfirmedOnChain == Spec => []ConfirmedIsOnChain
<1>1. Inv => ConfirmedIsOnChain
  <2> SUFFICES ASSUME Inv PROVE ConfirmedIsOnChain
    OBVIOUS
  <2>1. NodeInv(node, received)
    BY DEF Inv
  <2>2. Ancestors(node.blocks, node.tip) = {node.chain[i] : i \in 1 .. Len(node.chain)}
    BY <2>1, ChainIsWalk
  <2> QED BY <2>1, <2>2 DEF NodeInv, Core, PoolOK, ConfirmedIsOnChain, OnChain
<1> QED BY <1>1, Invariance, PTL

\* No accepted transaction is ever forgotten, whatever reorganisations do.
THEOREM TxKept == Spec => AcceptedTxKept
<1>1. Inv /\ [Next]_vars =>
        [\A t \in Tx : IsKnownTx(node.mempool, t) => IsKnownTx(node'.mempool, t)]_vars
  BY StepInv DEF Keeps
<1> QED BY <1>1, Invariance, PTL DEF Spec, AcceptedTxKept

-----------------------------------------------------------------------------
(***************************************************************************)
(* ChainNode implements Ledger, for every set of worlds in which a hash    *)
(* identifies a block, as long as the orphan buffer does not fill up.      *)
(***************************************************************************)

Valid(R) == {b \in R : ValidateBlock(b)}

\* The blocks of S link to each other and to genesis.
Linked(S) == \A b \in S : b.prev_hash \in {GenesisHash} \cup L!Hashes(S)

\* The valid blocks of R that are linked to genesis by others.
Reachable(R) == UNION {S \in SUBSET Valid(R) : Linked(S)}

\* The inductive invariant: no such block is lost once received.
LedgerInv == Inv /\ Complete(node, received, Reachable(world))

-----------------------------------------------------------------------------
(***************************************************************************)
(* The invariant.                                                          *)
(***************************************************************************)

\* The blocks linked to genesis are themselves linked.
LEMMA ReachableLinked ==
    ASSUME NEW R
    PROVE  Reachable(R) \subseteq Valid(R) /\ Linked(Reachable(R))
<1>1. ASSUME NEW b \in Reachable(R)
      PROVE  b \in Valid(R) /\ b.prev_hash \in {GenesisHash} \cup L!Hashes(Reachable(R))
  <2>1. PICK S \in SUBSET Valid(R) : Linked(S) /\ b \in S
    BY DEF Reachable
  <2>2. S \subseteq Reachable(R)
    BY <2>1 DEF Reachable
  <2>3. b.prev_hash \in {GenesisHash} \cup L!Hashes(S)
    BY <2>1 DEF Linked
  <2> QED BY <2>1, <2>2, <2>3 DEF L!Hashes
<1> QED BY <1>1 DEF Linked

\* The blocks of a world fit those of it that are linked to genesis.
LEMMA ReachableFits ==
    ASSUME HonestWorlds, NEW w \in Worlds, NEW R \in SUBSET w
    PROVE  Fit(R, Reachable(w))
<1>1. ASSUME NEW b \in Reachable(w)
      PROVE  /\ ValidateBlock(b)
             /\ b.prev_hash = GenesisHash \/ \E c \in Reachable(w) : c.hash = b.prev_hash
  BY ReachableLinked DEF Valid, Linked, L!Hashes
<1>2. \A b \in R, c \in Reachable(w) : b.hash = c.hash => b = c
  BY ReachableLinked DEF Valid, HonestWorlds
<1> QED BY <1>1, <1>2 DEF Fit

\* Nothing has been received at first.
LEMMA InitLedgerInv == Init => LedgerInv
BY InitNodeInv DEF Init, LedgerInv, Inv, Complete

\* While there is room, no step loses a block that was received.
LEMMA LedgerStepInv ==
    ASSUME HonestWorlds, LedgerInv, Room, [Next]_vars
    PROVE  LedgerInv'
<1>1. Inv'
  BY StepInv DEF LedgerInv
<1>2. ASSUME NEW b \in world, ReceiveBlock(b)
      PROVE  Complete(node', received', Reachable(world'))
  <2> DEFINE R == received \cup {b}
             V == Reachable(world)
  <2>1. /\ node' = IntegrateBlock(node, b) /\ received' = R /\ world' = world
        /\ Len(node.pending_blocks) < PendingCap
    BY <1>2 DEF ReceiveBlock, Room
  <2>2. R \in SUBSET world /\ world \in Worlds /\ b \in R
    BY DEF LedgerInv, Inv
  <2>3. R \subseteq BlockType /\ Fit(R, V)
    BY <2>2, ReachableFits, WorldsAssumption
  <2>4. NodeInv(node, R) /\ Settled(node)
    BY NodeInvMonotone DEF LedgerInv, Inv
  <2>5. Complete(node, R \ {b}, V)
    BY DEF LedgerInv, Complete
  <2> HIDE DEF R, V
  <2>6. Complete(node', R, V)
    BY <2>1, <2>2, <2>3, <2>4, <2>5, IntegrateBlockInv
  <2> QED BY <2>1, <2>6 DEF V
<1>3. ASSUME NEW t \in Tx, AcceptTx(t)
      PROVE  Complete(node', received', Reachable(world'))
  <2>1. /\ node' = [node EXCEPT !.mempool = Add(node.mempool, t)]
        /\ world' = world /\ received' = received
    BY <1>3 DEF AcceptTx
  <2>2. NodeInv(node, received) /\ Settled(node)
    BY DEF LedgerInv, Inv
  <2>3. node'.blocks = node.blocks /\ node'.pending_blocks = node.pending_blocks
    BY <2>1, <2>2, AcceptTxInv
  <2> QED BY <2>1, <2>3 DEF LedgerInv, Complete
<1>4. ASSUME UNCHANGED vars PROVE Complete(node', received', Reachable(world'))
  BY <1>4 DEF LedgerInv, vars
<1>5. Complete(node', received', Reachable(world'))
  BY <1>2, <1>3, <1>4 DEF Next, LedgerInv
<1> QED BY <1>1, <1>5 DEF LedgerInv

-----------------------------------------------------------------------------
(***************************************************************************)
(* The tree holds what is connected to genesis.                            *)
(***************************************************************************)

\* The stored blocks are received, valid, and found under their hashes.
LEMMA StoredBlocks ==
    ASSUME LedgerInv
    PROVE  LET B == node.blocks
           IN  /\ GenesisHash \in DOMAIN B /\ node.tip \in DOMAIN B
               /\ \A h \in DOMAIN B \ {GenesisHash} :
                    /\ B[h] \in Valid(received) /\ B[h].hash = h
                    /\ B[h].prev_hash \in DOMAIN B
<1>1. /\ Filed(node, received) /\ Rooted(node.blocks, node.height_by_hash)
      /\ node.tip \in DOMAIN node.blocks
  BY DEF LedgerInv, Inv, NodeInv, Core, TreeInv, ChainOK
<1>2. Genesis.hash = GenesisHash
  BY DEF Genesis
<1> QED BY <1>1, <1>2 DEF Filed, Rooted, Valid

\* A received block that is linked to genesis is stored.
LEMMA LinkedIsStored ==
    ASSUME HonestWorlds, LedgerInv, NEW S \in SUBSET Valid(received), Linked(S), NEW b \in S
    PROVE  b.hash \in DOMAIN node.blocks
<1> DEFINE T == {c \in S : c.hash \notin DOMAIN node.blocks}
<1>1. received \subseteq world /\ world \in Worlds /\ S \subseteq received
  BY DEF LedgerInv, Inv, Valid
<1> SUFFICES ASSUME T # {} PROVE FALSE
  OBVIOUS
<1>2. PICK c \in T : \A d \in T : c.prev_hash # d.hash
  <2>1. T \in SUBSET world
    BY <1>1
  <2> HIDE DEF T
  <2> QED BY <1>1, <2>1 DEF HonestWorlds
<1>3. c.prev_hash \in DOMAIN node.blocks
  <2>1. CASE c.prev_hash = GenesisHash
    BY <2>1, StoredBlocks
  <2>2. CASE c.prev_hash # GenesisHash
    BY <2>2, <1>2 DEF Linked, L!Hashes
  <2> QED BY <2>1, <2>2
<1>4. c \in received \cap Reachable(world) /\ c.hash \notin DOMAIN node.blocks
  BY <1>1 DEF Reachable, Valid
<1>5. PICK i \in 1 .. Len(node.pending_blocks) : node.pending_blocks[i] = c
  BY <1>4 DEF LedgerInv, Complete
<1> QED BY <1>3, <1>5 DEF LedgerInv, Inv, Settled

\* The tree is what is connected of the valid blocks received.
LEMMA TreeIsConnected ==
    ASSUME HonestWorlds, LedgerInv
    PROVE  DOMAIN node.blocks = L!Connected(Valid(received))
<1> DEFINE B == node.blocks
           S == {B[h] : h \in DOMAIN B \ {GenesisHash}}
<1>1. ASSUME NEW h \in DOMAIN B, h # GenesisHash
      PROVE  h \in L!Hashes(UNION {Q \in SUBSET Valid(received) : Linked(Q)})
  <2>1. S \in SUBSET Valid(received) /\ Linked(S)
    BY StoredBlocks DEF Linked, L!Hashes
  <2>2. B[h] \in S /\ B[h].hash = h
    BY <1>1, StoredBlocks
  <2> HIDE DEF S
  <2>3. B[h] \in UNION {Q \in SUBSET Valid(received) : Linked(Q)}
    BY <2>1, <2>2
  <2> QED BY <2>2, <2>3 DEF L!Hashes
<1>2. ASSUME NEW h \in L!Hashes(UNION {Q \in SUBSET Valid(received) : Linked(Q)})
      PROVE  h \in DOMAIN B
  BY LinkedIsStored DEF L!Hashes
<1>3. GenesisHash \in DOMAIN B
  BY StoredBlocks
<1>4. L!Connected(Valid(received)) =
        {GenesisHash} \cup L!Hashes(UNION {Q \in SUBSET Valid(received) : Linked(Q)})
  BY DEF L!Connected, Linked
<1> QED BY <1>1, <1>2, <1>3, <1>4

-----------------------------------------------------------------------------
(***************************************************************************)
(* A block's height is the length of its path.                             *)
(***************************************************************************)

\* The blocks on the walk from h, genesis apart.
Path(h) == {node.blocks[a] : a \in Ancestors(node.blocks, h) \ {GenesisHash}}

\* The path is linked, and part of every linked set of received blocks with h.
LEMMA PathIsLeast ==
    ASSUME HonestWorlds, LedgerInv, NEW h \in DOMAIN node.blocks, h # GenesisHash
    PROVE  /\ Path(h) \in SUBSET Valid(received) /\ Linked(Path(h)) /\ h \in L!Hashes(Path(h))
           /\ \A q \in SUBSET Valid(received) :
                Linked(q) /\ h \in L!Hashes(q) => Path(h) \subseteq q
<1> DEFINE B == node.blocks
           A == Ancestors(B, h)
<1>1. A \subseteq DOMAIN B /\ ParentClosed(B, A) /\ h \in A
  BY AncestorsClosed, AncestorsReflexive
<1>2. \A a \in A \ {GenesisHash} :
        /\ B[a] \in Valid(received) /\ B[a].hash = a
        /\ B[a].prev_hash \in A
  BY <1>1, StoredBlocks DEF ParentClosed
<1>3. Path(h) \in SUBSET Valid(received) /\ h \in L!Hashes(Path(h))
  BY <1>1, <1>2 DEF Path, L!Hashes
<1>4. Linked(Path(h))
  <2> SUFFICES ASSUME NEW a \in A \ {GenesisHash}, B[a].prev_hash # GenesisHash
               PROVE  B[a].prev_hash \in L!Hashes(Path(h))
    BY DEF Linked, Path
  <2> DEFINE par == B[a].prev_hash
  <2>1. par \in A \ {GenesisHash} /\ B[par].hash = par
    BY <1>2
  <2>2. B[par] \in Path(h)
    BY <2>1 DEF Path
  <2> QED BY <2>1, <2>2 DEF L!Hashes
<1>5. ASSUME NEW q \in SUBSET Valid(received), Linked(q), h \in L!Hashes(q)
      PROVE  Path(h) \subseteq q
  <2> DEFINE Q == {a \in DOMAIN B : a = GenesisHash \/ a \in L!Hashes(q)}
  <2>1. ASSUME NEW a \in Q, a # GenesisHash PROVE B[a] \in q
    <3>1. PICK c \in q : c.hash = a
      BY <2>1 DEF L!Hashes
    <3>2. B[a] \in Valid(received) /\ B[a].hash = a
      BY <2>1, StoredBlocks
    <3>3. world \in Worlds /\ c \in world /\ B[a] \in world
      BY <3>2 DEF LedgerInv, Inv, Valid
    <3> QED BY <3>1, <3>2, <3>3 DEF HonestWorlds
  <2>2. ParentClosed(B, Q)
    <3> SUFFICES ASSUME NEW a \in Q, a # GenesisHash, B[a].prev_hash \in DOMAIN B
                 PROVE  B[a].prev_hash \in Q
      BY DEF ParentClosed
    <3>1. B[a].prev_hash \in {GenesisHash} \cup L!Hashes(q)
      BY <1>5, <2>1 DEF Linked
    <3> QED BY <3>1
  <2>3. h \in Q /\ Q \in SUBSET DOMAIN B
    BY <1>5
  <2> HIDE DEF Q
  <2>4. A \subseteq Q
    BY <2>2, <2>3, AncestorsLeast
  <2> QED BY <2>1, <2>4 DEF Path
<1> QED BY <1>3, <1>4, <1>5

\* The path has as many blocks as the height says.
LEMMA PathLength ==
    ASSUME LedgerInv, NEW h \in DOMAIN node.blocks
    PROVE  Cardinality(Path(h)) = node.height_by_hash[h]
<1> DEFINE B == node.blocks
           A == Ancestors(B, h)
           D == A \ {GenesisHash}
           f == [a \in D |-> B[a]]
<1>1. /\ GenesisHash \in A /\ IsFiniteSet(A)
      /\ Cardinality(A) = node.height_by_hash[h] + 1
      /\ node.height_by_hash[h] \in Nat
  BY DEF LedgerInv, Inv, NodeInv, Core, TreeInv, Rooted, Levelled
<1>2. \A a \in D : B[a].hash = a
  BY AncestorsClosed, StoredBlocks
<1>3. f \in Bijection(D, Path(h))
  <2>1. f \in [D -> Path(h)]
    BY DEF Path
  <2>2. \A a, c \in D : f[a] = f[c] => a = c
    BY <1>2
  <2>3. \A p \in Path(h) : \E a \in D : f[a] = p
    BY DEF Path
  <2> HIDE DEF f, D
  <2> QED BY <2>1, <2>2, <2>3, Fun_IsBij
<1>4. IsFiniteSet(D) /\ Cardinality(D) = node.height_by_hash[h]
  <2>1. IsFiniteSet(A \ {GenesisHash}) /\ Cardinality(A \ {GenesisHash}) = Cardinality(A) - 1
    BY <1>1, FS_RemoveElement
  <2> QED BY <1>1, <2>1
<1> HIDE DEF f, D
<1>5. ExistsBijection(D, Path(h))
  BY <1>3 DEF ExistsBijection
<1> QED BY <1>4, <1>5, FS_Bijection

\* A block's recorded height is its depth in the ledger.
LEMMA HeightIsDepth ==
    ASSUME HonestWorlds, LedgerInv, NEW h \in DOMAIN node.blocks
    PROVE  L!Depth(Valid(received), h) = node.height_by_hash[h]
<1> DEFINE R == Valid(received)
           Sets == {S \in SUBSET R : IF h = GenesisHash THEN S = {}
                                     ELSE h \in L!Hashes(S) /\ Linked(S)}
           Least(p) == \A q \in SUBSET p : h \in L!Hashes(q) => q = p \/ ~ Linked(q)
<1>1. L!Depth(R, h) = Cardinality(CHOOSE p \in Sets : Least(p))
  <2>1. \A p : L!Cardinality(p) = Cardinality(p)
    BY DEF L!Cardinality, Cardinality
  <2>2. L!Depth(R, h) = L!Cardinality(CHOOSE p \in Sets : Least(p))
    BY DEF L!Depth, Linked
  <2> QED BY <2>1, <2>2
<1>2. Path(h) \in Sets /\ Least(Path(h))
  <2>1. CASE h = GenesisHash
    <3>1. Path(h) = {}
      <4>1. ParentClosed(node.blocks, {GenesisHash})
        BY DEF ParentClosed
      <4>2. Ancestors(node.blocks, h) \subseteq {GenesisHash}
        BY <2>1, <4>1, AncestorsLeast
      <4> QED BY <4>2 DEF Path
    <3> QED BY <2>1, <3>1 DEF L!Hashes
  <2>2. CASE h # GenesisHash
    BY <2>2, PathIsLeast
  <2> QED BY <2>1, <2>2
<1>3. ASSUME NEW p \in Sets, Least(p) PROVE p = Path(h)
  <2>1. CASE h = GenesisHash
    BY <1>2, <1>3, <2>1
  <2>2. CASE h # GenesisHash
    BY <1>3, <2>2, PathIsLeast
  <2> QED BY <2>1, <2>2
<1> HIDE DEF Sets, Least
<1>4. (CHOOSE p \in Sets : Least(p)) = Path(h)
  BY <1>2, <1>3
<1> QED BY <1>1, <1>4, PathLength

\* The tip is the best block connected to genesis, and no other is.
LEMMA TipIsBestOfAll ==
    ASSUME HonestWorlds, LedgerInv
    PROVE  /\ L!IsBest(Valid(received), node.tip)
           /\ \A h : L!IsBest(Valid(received), h) => h = node.tip
<1> DEFINE R == Valid(received)
           B == node.blocks
           H == node.height_by_hash
<1>1. /\ L!Connected(R) = DOMAIN B
      /\ \A h \in DOMAIN B : L!Depth(R, h) = H[h]
  BY TreeIsConnected, HeightIsDepth
<1>2. /\ node.tip \in DOMAIN B /\ node.chain_height = H[node.tip]
      /\ \A h \in DOMAIN B : H[h] \in Nat
      /\ \A h \in DOMAIN B : \/ H[h] < H[node.tip]
                             \/ H[h] = H[node.tip] /\ node.tip <= h
  BY DEF LedgerInv, Inv, NodeInv, Core, ChainOK, TreeInv, Rooted, Best
<1>3. \A h \in DOMAIN B : h \in Int
  <2>1. received \subseteq BlockType
    BY WorldsAssumption DEF LedgerInv, Inv
  <2> QED BY <2>1, StoredHashes DEF LedgerInv, Inv, NodeInv, Core
<1> HIDE DEF R, B, H
<1>4. L!IsBest(R, node.tip)
  BY <1>1, <1>2 DEF L!IsBest
<1>5. ASSUME NEW h, L!IsBest(R, h) PROVE h = node.tip
  <2>1. h \in DOMAIN B /\ node.tip \in DOMAIN B
    BY <1>1, <1>2, <1>5 DEF L!IsBest
  <2>2. H[node.tip] < H[h] \/ (H[node.tip] = H[h] /\ h <= node.tip)
    BY <1>1, <1>5, <2>1 DEF L!IsBest
  <2> QED BY <1>2, <1>3, <2>1, <2>2
<1> QED BY <1>4, <1>5 DEF R

-----------------------------------------------------------------------------
(***************************************************************************)
(* The refinement.                                                         *)
(***************************************************************************)

\* The tree and the tip are those of the ledger, and could be no other.
Tracks ==
    /\ DOMAIN node.blocks = L!Connected(Valid(received))
    /\ node.tip \in DOMAIN node.blocks
    /\ L!IsBest(Valid(received), node.tip)
    /\ \A h : L!IsBest(Valid(received), h) => h = node.tip

\* The node starts as the ledger does.
LEMMA LedgerInit == Init => L!Init
BY DEF Init, InitNode, L!Init

\* A valid block is received by the ledger; anything else leaves it as it is.
LEMMA LedgerStep ==
    ASSUME LedgerInv, Tracks, Tracks', [Next]_vars
    PROVE  [L!Next]_(L!vars)
<1>1. /\ DOMAIN node'.blocks = L!Connected(Valid(received'))
      /\ node'.tip \in DOMAIN node'.blocks
      /\ L!IsBest(Valid(received'), node'.tip)
      /\ \A h : L!IsBest(Valid(received'), h) => h = node'.tip
  BY DEF Tracks
<1>2. ASSUME NEW b \in world, ReceiveBlock(b) PROVE [L!Next]_(L!vars)
  <2>1. received' = received \cup {b} /\ world \in Worlds
    BY <1>2 DEF ReceiveBlock, LedgerInv, Inv
  <2>2. CASE ValidateBlock(b)
    <3>1. b \in ValidBlocks
      BY <2>1, <2>2 DEF ValidBlocks
    <3>2. Valid(received') = Valid(received) \cup {b}
      BY <2>1, <2>2 DEF Valid
    <3>3. L!Receive(b)
      BY <1>1, <3>2 DEF L!Receive, Valid
    <3> QED BY <3>1, <3>3 DEF L!Next
  <2>3. CASE ~ ValidateBlock(b)
    <3>1. Valid(received') = Valid(received)
      BY <2>1, <2>3 DEF Valid
    <3>2. DOMAIN node'.blocks = DOMAIN node.blocks /\ node'.tip = node.tip
      BY <1>1, <3>1 DEF Tracks
    <3> QED BY <3>1, <3>2 DEF L!vars, Valid
  <2> QED BY <2>2, <2>3
<1>3. ASSUME NEW t \in Tx, AcceptTx(t) PROVE UNCHANGED L!vars
  <2>1. /\ node' = [node EXCEPT !.mempool = Add(node.mempool, t)]
        /\ received' = received
    BY <1>3 DEF AcceptTx
  <2>2. node'.blocks = node.blocks /\ node'.tip = node.tip
    BY <2>1, AcceptTxInv DEF LedgerInv, Inv
  <2> QED BY <2>1, <2>2 DEF L!vars
<1>4. CASE UNCHANGED vars
  BY <1>4 DEF vars, L!vars
<1> QED BY <1>2, <1>3, <1>4 DEF Next

\* While there is room for orphans, the tree and the tip are those of the ledger:
\* the received blocks that connect to genesis and the best of them, whatever the
\* order they came in, the time they spent as orphans and the reorganisations
\* (add_block of BlockchainCommunity and of Blockchain, _connect_orphans, reorganize).
THEOREM LedgerImplemented ==
    ASSUME HonestWorlds
    PROVE  Spec /\ []Room => ImplementsLedger
<1>1. Init => LedgerInv
  BY InitLedgerInv
<1>2. LedgerInv /\ Room /\ [Next]_vars => LedgerInv'
  BY LedgerStepInv
<1>3. Init => L!Init
  BY LedgerInit
<1>4. LedgerInv => Tracks
  BY TreeIsConnected, TipIsBestOfAll, StoredBlocks DEF Tracks
<1>5. LedgerInv /\ Tracks /\ Tracks' /\ [Next]_vars => [L!Next]_(L!vars)
  BY LedgerStep
<1> QED BY <1>1, <1>2, <1>3, <1>4, <1>5, PTL DEF Spec, ImplementsLedger, L!Spec
=============================================================================
