------------------------------ MODULE NodeProofs -----------------------------
(***************************************************************************)
(* What the operations of a node (module Blockchain) preserve, for every   *)
(* node that is in order and every block: the lemmas that the proofs about *)
(* one node and about the network share.                                   *)
(*                                                                         *)
(* First the block tree: what the parent walk visits, and what of it is    *)
(* kept when a block is stored.  The walk is a least closed set, so that   *)
(* none of these lemmas needs an induction: each fact about walks is an    *)
(* invariant that storing one more leaf preserves.                         *)
(***************************************************************************)
EXTENDS Blockchain, FiniteSetTheorems, SequenceTheorems, WellFoundedInduction, TLAPS

\* The tree is rooted at genesis: every other block links to a stored parent
\* one level below.
Rooted(B, H) ==
    /\ GenesisHash \in DOMAIN B
    /\ DOMAIN H = DOMAIN B
    /\ H[GenesisHash] = 0
    /\ \A h \in DOMAIN B :
        /\ H[h] \in Nat
        /\ h # GenesisHash => /\ B[h].prev_hash \in DOMAIN B
                              /\ H[h] = H[B[h].prev_hash] + 1

\* The walk from h ends at genesis and has one block at each level up to h's.
Levelled(B, H) ==
    \A h \in DOMAIN B :
        /\ GenesisHash \in Ancestors(B, h)
        /\ IsFiniteSet(Ancestors(B, h))
        /\ Cardinality(Ancestors(B, h)) = H[h] + 1
        /\ \A a \in Ancestors(B, h) : H[a] <= H[h]
        /\ \A i \in 0 .. H[h] : \E a \in Ancestors(B, h) : H[a] = i
        /\ \A a, b \in Ancestors(B, h) : H[a] = H[b] => a = b

\* Two walks share exactly the walk from one of their blocks: a fork point.
Meet(B) ==
    \A g, h \in DOMAIN B :
        \E c \in Ancestors(B, g) \cap Ancestors(B, h) :
            Ancestors(B, g) \cap Ancestors(B, h) \subseteq Ancestors(B, c)

TreeInv(B, H) == Rooted(B, H) /\ Levelled(B, H) /\ Meet(B)

-----------------------------------------------------------------------------

\* A walk starts at its own block.
LEMMA AncestorsReflexive ==
    ASSUME NEW B, NEW h \in DOMAIN B
    PROVE  h \in Ancestors(B, h)
BY DEF Ancestors

\* What a walk visits is in the tree and closed under the parent link.
LEMMA AncestorsClosed ==
    ASSUME NEW B, NEW h
    PROVE  Ancestors(B, h) \subseteq DOMAIN B /\ ParentClosed(B, Ancestors(B, h))
BY DEF Ancestors, ParentClosed

\* A walk visits nothing a closed set with its start would not hold.
LEMMA AncestorsLeast ==
    ASSUME NEW B, NEW h, NEW S \in SUBSET DOMAIN B, h \in S, ParentClosed(B, S)
    PROVE  Ancestors(B, h) \subseteq S
BY DEF Ancestors

\* A walk from a visited block stays on the walk.
LEMMA AncestorsTransitive ==
    ASSUME NEW B, NEW h, NEW a \in Ancestors(B, h)
    PROVE  Ancestors(B, a) \subseteq Ancestors(B, h)
BY AncestorsClosed, AncestorsLeast

\* A walk is its block followed by the walk from the parent.
LEMMA AncestorsStep ==
    ASSUME NEW B, NEW h \in DOMAIN B, h # GenesisHash, B[h].prev_hash \in DOMAIN B
    PROVE  Ancestors(B, h) = {h} \cup Ancestors(B, B[h].prev_hash)
<1> DEFINE par == B[h].prev_hash
<1>1. par \in Ancestors(B, par) /\ h \in Ancestors(B, h)
  BY AncestorsReflexive
<1>2. ParentClosed(B, {h} \cup Ancestors(B, par)) /\ Ancestors(B, par) \subseteq DOMAIN B
  BY <1>1, AncestorsClosed DEF ParentClosed
<1>3. Ancestors(B, h) \subseteq {h} \cup Ancestors(B, par)
  BY <1>2, AncestorsLeast
<1>4. par \in Ancestors(B, h)
  BY <1>1, AncestorsClosed DEF ParentClosed
<1>5. Ancestors(B, par) \subseteq Ancestors(B, h)
  BY <1>4, AncestorsTransitive
<1> QED BY <1>1, <1>3, <1>5

\* Storing a leaf changes no earlier walk, and the walk from the leaf is the
\* leaf followed by the walk from its parent.
LEMMA AncestorsPut ==
    ASSUME NEW B, NEW H, Rooted(B, H),
           NEW b, b.hash \notin DOMAIN B, b.prev_hash \in DOMAIN B,
           NEW C, C = Put(B, b.hash, b)
    PROVE  /\ \A a \in DOMAIN B : Ancestors(C, a) = Ancestors(B, a)
           /\ Ancestors(C, b.hash) = {b.hash} \cup Ancestors(B, b.prev_hash)
<1> DEFINE new == b.hash
           par == b.prev_hash
<1>1. /\ DOMAIN C = DOMAIN B \cup {new}
      /\ C[new] = b
      /\ \A a \in DOMAIN B : C[a] = B[a]
  BY DEF Put
<1>2. new # GenesisHash
  BY DEF Rooted
<1>3. ASSUME NEW a \in DOMAIN B
      PROVE  Ancestors(C, a) = Ancestors(B, a)
  <2>1. ParentClosed(B, DOMAIN B) /\ ParentClosed(C, DOMAIN B)
    BY <1>1 DEF ParentClosed, Rooted
  <2>2. ASSUME NEW S \in SUBSET DOMAIN B, ParentClosed(B, S)
        PROVE  ParentClosed(C, S)
    BY <1>1, <2>2 DEF ParentClosed, Rooted
  <2>3. ASSUME NEW S \in SUBSET DOMAIN C, ParentClosed(C, S)
        PROVE  ParentClosed(B, S \cap DOMAIN B)
    BY <1>1, <2>3 DEF ParentClosed, Rooted
  <2>4. Ancestors(C, a) \subseteq Ancestors(B, a)
    <3>1. ParentClosed(C, Ancestors(B, a)) /\ Ancestors(B, a) \subseteq DOMAIN B
      BY AncestorsClosed, <2>2
    <3> QED BY <3>1, <1>1, AncestorsReflexive, AncestorsLeast
  <2>5. Ancestors(B, a) \subseteq Ancestors(C, a)
    <3>1. ParentClosed(B, Ancestors(C, a) \cap DOMAIN B)
      BY AncestorsClosed, <2>3
    <3>2. a \in Ancestors(C, a) \cap DOMAIN B
      BY <1>1, AncestorsReflexive
    <3> QED BY <3>1, <3>2, AncestorsLeast
  <2> QED BY <2>4, <2>5
<1>4. Ancestors(C, new) \subseteq {new} \cup Ancestors(B, par)
  <2>1. Ancestors(B, par) \subseteq DOMAIN B /\ ParentClosed(B, Ancestors(B, par))
    BY AncestorsClosed
  <2>2. par \in Ancestors(B, par)
    BY AncestorsReflexive
  <2>3. ParentClosed(C, {new} \cup Ancestors(B, par))
    BY <1>1, <2>1, <2>2 DEF ParentClosed, Rooted
  <2>4. {new} \cup Ancestors(B, par) \in SUBSET DOMAIN C
    BY <1>1, <2>1
  <2> QED BY <2>3, <2>4, AncestorsLeast
<1>5. {new} \cup Ancestors(B, par) \subseteq Ancestors(C, new)
  <2>1. new \in Ancestors(C, new)
    BY <1>1, AncestorsReflexive
  <2>2. par \in Ancestors(C, new)
    BY <1>1, <1>2, <2>1, AncestorsClosed DEF ParentClosed
  <2>3. Ancestors(C, par) \subseteq Ancestors(C, new)
    BY <2>2, AncestorsTransitive
  <2> QED BY <2>1, <2>3, <1>3
<1> QED BY <1>3, <1>4, <1>5

\* Storing a leaf one level above its parent keeps the tree invariant.
LEMMA TreeInvPut ==
    ASSUME NEW B, NEW H, TreeInv(B, H),
           NEW b, b.hash \notin DOMAIN B, b.prev_hash \in DOMAIN B,
           NEW C, C = Put(B, b.hash, b),
           NEW G, G = Put(H, b.hash, H[b.prev_hash] + 1)
    PROVE  TreeInv(C, G)
<1> DEFINE new == b.hash
           par == b.prev_hash
<1> USE DEF TreeInv
<1>1. /\ DOMAIN C = DOMAIN B \cup {new}
      /\ C[new] = b
      /\ \A a \in DOMAIN B : C[a] = B[a]
  BY DEF Put
<1>2. /\ DOMAIN G = DOMAIN C
      /\ G[new] = H[par] + 1
      /\ \A a \in DOMAIN B : G[a] = H[a]
  BY <1>1 DEF Put, Rooted
<1>3. new # GenesisHash
  BY DEF Rooted
<1>4. /\ \A a \in DOMAIN B : Ancestors(C, a) = Ancestors(B, a)
      /\ Ancestors(C, new) = {new} \cup Ancestors(B, par)
  BY AncestorsPut
<1>5. \A a : Ancestors(B, a) \subseteq DOMAIN B
  BY AncestorsClosed
<1>6. Rooted(C, G)
  BY <1>1, <1>2, <1>3 DEF Rooted
<1>7. Levelled(C, G)
  <2>1. ASSUME NEW h \in DOMAIN B
        PROVE  /\ GenesisHash \in Ancestors(C, h)
               /\ IsFiniteSet(Ancestors(C, h))
               /\ Cardinality(Ancestors(C, h)) = G[h] + 1
               /\ \A a \in Ancestors(C, h) : G[a] <= G[h]
               /\ \A i \in 0 .. G[h] : \E a \in Ancestors(C, h) : G[a] = i
               /\ \A a, d \in Ancestors(C, h) : G[a] = G[d] => a = d
    <3>1. Ancestors(C, h) = Ancestors(B, h) /\ G[h] = H[h]
      BY <1>2, <1>4
    <3>2. \A a \in Ancestors(B, h) : G[a] = H[a]
      BY <1>2, <1>5
    <3> QED BY <3>1, <3>2 DEF Levelled
  <2>2. H[par] \in Nat /\ new \notin Ancestors(B, par)
    BY <1>5 DEF Rooted
  <2>3. \A a \in Ancestors(B, par) : G[a] = H[a] /\ H[a] \in Nat /\ H[a] <= H[par]
    BY <1>2, <1>5 DEF Levelled, Rooted
  <2>4. GenesisHash \in Ancestors(C, new)
    BY <1>4 DEF Levelled
  <2>5. /\ IsFiniteSet(Ancestors(C, new))
        /\ Cardinality(Ancestors(C, new)) = G[new] + 1
    <3>1. /\ IsFiniteSet(Ancestors(B, par))
          /\ Cardinality(Ancestors(B, par)) = H[par] + 1
      BY DEF Levelled
    <3>2. /\ IsFiniteSet(Ancestors(B, par) \cup {new})
          /\ Cardinality(Ancestors(B, par) \cup {new}) = Cardinality(Ancestors(B, par)) + 1
      BY <3>1, <2>2, FS_AddElement
    <3>3. Ancestors(C, new) = Ancestors(B, par) \cup {new}
      BY <1>4
    <3>4. H[par] + 1 = G[new]
      BY <1>2
    <3> QED BY <3>1, <3>2, <3>3, <3>4
  <2>6. \A a \in Ancestors(C, new) : G[a] <= G[new]
    BY <1>2, <1>4, <2>2, <2>3
  <2>7. ASSUME NEW i \in 0 .. G[new]
        PROVE  \E a \in Ancestors(C, new) : G[a] = i
    <3>1. CASE i = G[new]
      BY <3>1, <1>4
    <3>2. CASE i # G[new]
      <4>1. i \in 0 .. H[par]
        BY <3>2, <1>2, <2>2
      <4>2. PICK a \in Ancestors(B, par) : H[a] = i
        BY <4>1 DEF Levelled
      <4> QED BY <4>2, <2>3, <1>4
    <3> QED BY <3>1, <3>2
  <2>8. ASSUME NEW a \in Ancestors(C, new), NEW d \in Ancestors(C, new), G[a] = G[d]
        PROVE  a = d
    <3>1. \A e \in Ancestors(B, par) : G[e] # G[new]
      BY <1>2, <2>2, <2>3
    <3>2. \A e, f \in Ancestors(B, par) : H[e] = H[f] => e = f
      BY DEF Levelled
    <3> QED BY <1>4, <2>3, <2>8, <3>1, <3>2
  <2>9. \A h \in DOMAIN C : h \in DOMAIN B \/ h = new
    BY <1>1
  <2> QED BY <2>1, <2>4, <2>5, <2>6, <2>7, <2>8, <2>9 DEF Levelled
<1>8. Meet(C)
  <2>1. ASSUME NEW g \in DOMAIN C, NEW h \in DOMAIN C
        PROVE  \E c \in Ancestors(C, g) \cap Ancestors(C, h) :
                  Ancestors(C, g) \cap Ancestors(C, h) \subseteq Ancestors(C, c)
    <3> DEFINE old(x) == IF x = new THEN par ELSE x
    <3>1. CASE g = new /\ h = new
      BY <3>1, <1>1, AncestorsReflexive
    <3>2. CASE ~ (g = new /\ h = new)
      <4>1. old(g) \in DOMAIN B /\ old(h) \in DOMAIN B
        BY <1>1
      <4>2. Ancestors(C, g) \cap Ancestors(C, h)
              = Ancestors(B, old(g)) \cap Ancestors(B, old(h))
        BY <3>2, <1>1, <1>4, <1>5
      <4>3. PICK c \in Ancestors(B, old(g)) \cap Ancestors(B, old(h)) :
              Ancestors(B, old(g)) \cap Ancestors(B, old(h)) \subseteq Ancestors(B, c)
        BY <4>1 DEF Meet
      <4>4. Ancestors(C, c) = Ancestors(B, c)
        BY <4>3, <1>4, <1>5
      <4> QED BY <4>2, <4>3, <4>4
    <3> QED BY <3>1, <3>2
  <2> QED BY <2>1 DEF Meet
<1> QED BY <1>6, <1>7, <1>8

\* The tree of genesis alone.
LEMMA TreeInvGenesis ==
    TreeInv(InitNode.blocks, InitNode.height_by_hash)
<1> DEFINE B == InitNode.blocks
           H == InitNode.height_by_hash
<1>1. /\ DOMAIN B = {GenesisHash}
      /\ DOMAIN H = {GenesisHash}
      /\ H[GenesisHash] = 0
  BY DEF InitNode
<1> HIDE DEF B, H
<1>2. Ancestors(B, GenesisHash) = {GenesisHash}
  BY <1>1, AncestorsReflexive, AncestorsClosed
<1>3. /\ IsFiniteSet({GenesisHash})
      /\ Cardinality({GenesisHash}) = 1
  BY FS_Singleton
<1>4. Rooted(B, H)
  BY <1>1 DEF Rooted
<1>5. Levelled(B, H)
  BY <1>1, <1>2, <1>3 DEF Levelled
<1>6. Meet(B)
  BY <1>1, <1>2 DEF Meet
<1> QED BY <1>4, <1>5, <1>6 DEF TreeInv, B, H

\* get_chain returns the path from genesis: one hash per level, all of them on
\* the walk from h.
LEMMA GetChainLevels ==
    ASSUME NEW B, NEW H, TreeInv(B, H), NEW h \in DOMAIN B
    PROVE  /\ GetChain(B, h) \in Seq(DOMAIN B)
           /\ Len(GetChain(B, h)) = H[h] + 1
           /\ \A i \in 1 .. H[h] + 1 :
                /\ GetChain(B, h)[i] \in Ancestors(B, h)
                /\ H[GetChain(B, h)[i]] = i - 1
<1> DEFINE path == Ancestors(B, h)
           pick(i) == CHOOSE a \in path : Cardinality(Ancestors(B, a)) = i
<1>1. /\ GenesisHash \in path /\ Cardinality(path) = H[h] + 1
      /\ H[h] \in Nat /\ path \subseteq DOMAIN B
  BY AncestorsClosed DEF TreeInv, Levelled, Rooted
<1>2. GetChain(B, h) = [i \in 1 .. H[h] + 1 |-> pick(i)]
  BY <1>1 DEF GetChain
<1>3. ASSUME NEW i \in 1 .. H[h] + 1
      PROVE  pick(i) \in path /\ H[pick(i)] = i - 1
  <2>1. i - 1 \in 0 .. H[h]
    BY <1>1
  <2>2. PICK a \in path : H[a] = i - 1
    BY <2>1 DEF TreeInv, Levelled
  <2>3. \A d \in path : Cardinality(Ancestors(B, d)) = H[d] + 1 /\ H[d] \in Nat
    BY <1>1 DEF TreeInv, Levelled, Rooted
  <2>4. Cardinality(Ancestors(B, a)) = i
    BY <2>2, <2>3
  <2>5. pick(i) \in path /\ Cardinality(Ancestors(B, pick(i))) = i
    BY <2>4
  <2> QED BY <2>3, <2>5
<1>4. GetChain(B, h) \in Seq(DOMAIN B) /\ Len(GetChain(B, h)) = H[h] + 1
  <2>1. \A i \in 1 .. H[h] + 1 : pick(i) \in DOMAIN B
    BY <1>1, <1>3
  <2> HIDE DEF pick
  <2>2. [i \in 1 .. H[h] + 1 |-> pick(i)] \in [1 .. H[h] + 1 -> DOMAIN B]
    BY <2>1
  <2>3. H[h] + 1 \in Nat
    BY <1>1
  <2> QED BY <1>2, <2>2, <2>3
<1> QED BY <1>2, <1>3, <1>4

\* find_fork_point returns a block of both walks below which they agree.
LEMMA ForkPointMeets ==
    ASSUME NEW B, NEW H, TreeInv(B, H), NEW g \in DOMAIN B, NEW h \in DOMAIN B
    PROVE  /\ ForkPoint(B, g, h) \in Ancestors(B, g) \cap Ancestors(B, h)
           /\ Ancestors(B, g) \cap Ancestors(B, h) \subseteq Ancestors(B, ForkPoint(B, g, h))
<1> DEFINE common == Ancestors(B, g) \cap Ancestors(B, h)
<1>1. \E c \in common : common \subseteq Ancestors(B, c)
  BY DEF TreeInv, Meet
<1>2. ForkPoint(B, g, h) = CHOOSE c \in common : common \subseteq Ancestors(B, c)
  BY <1>1 DEF ForkPoint
<1> QED BY <1>1, <1>2

-----------------------------------------------------------------------------
(***************************************************************************)
(* The node.                                                               *)
(***************************************************************************)

\* The shape of a node record.
IsNode(n) ==
    n = [blocks |-> n.blocks, height_by_hash |-> n.height_by_hash, tip |-> n.tip,
         chain_height |-> n.chain_height, chain |-> n.chain, mempool |-> n.mempool,
         pending_blocks |-> n.pending_blocks]

\* Every stored block is filed under its hash, came from R, and is valid.
Filed(n, R) ==
    \A h \in DOMAIN n.blocks :
        /\ n.blocks[h] \in R \cup {Genesis}
        /\ n.blocks[h].hash = h
        /\ n.blocks[h] = Genesis \/ ValidateBlock(n.blocks[h])

\* The tip is stored, and chain is its walk laid out by level.
ChainOK(n) ==
    /\ n.tip \in DOMAIN n.blocks
    /\ n.chain_height = n.height_by_hash[n.tip]
    /\ n.chain \in Seq(DOMAIN n.blocks)
    /\ Len(n.chain) = n.chain_height + 1
    /\ \A i \in 1 .. Len(n.chain) :
        /\ n.chain[i] \in Ancestors(n.blocks, n.tip)
        /\ n.height_by_hash[n.chain[i]] = i - 1

\* What the pool calls confirmed is in a block on the tip's walk.
PoolOK(n) ==
    /\ n.mempool \in MempoolType
    /\ n.mempool.chain_txs \subseteq Bodies(n.blocks, Ancestors(n.blocks, n.tip))
    /\ n.mempool.free_txs \cap n.mempool.chain_txs = {}

PendingOK(n, R) ==
    /\ n.pending_blocks \in Seq(R)
    /\ Len(n.pending_blocks) <= PendingCap

\* No stored block beats the tip.
Best(n) ==
    \A h \in DOMAIN n.blocks :
        \/ n.height_by_hash[h] < n.chain_height
        \/ n.height_by_hash[h] = n.chain_height /\ n.tip <= h

Core(n, R) ==
    /\ IsNode(n)
    /\ Filed(n, R)
    /\ TreeInv(n.blocks, n.height_by_hash)
    /\ ChainOK(n)
    /\ PoolOK(n)
    /\ PendingOK(n, R)

NodeInv(n, R) == Core(n, R) /\ Best(n)

\* Every transaction the pool m knows is known to the pool k.
Keeps(m, k) == \A t : IsKnownTx(m, t) => IsKnownTx(k, t)

\* k is n some blocks later: what was stored is stored at its height, nothing
\* accepted is forgotten, and if the tip is the same nothing happened to the pool.
Grows(n, k) ==
    /\ DOMAIN n.blocks \subseteq DOMAIN k.blocks
    /\ \A h \in DOMAIN n.blocks : k.height_by_hash[h] = n.height_by_hash[h]
    /\ Keeps(n.mempool, k.mempool)
    /\ k.tip = n.tip => k.mempool = n.mempool

-----------------------------------------------------------------------------
(***************************************************************************)
(* Blockchain.add_block                                                    *)
(***************************************************************************)

\* Hashes of stored blocks are integers, ordered as such.
LEMMA StoredHashes ==
    ASSUME NEW n, NEW R, R \subseteq BlockType, Filed(n, R)
    PROVE  DOMAIN n.blocks \subseteq Int
<1> SUFFICES ASSUME NEW h \in DOMAIN n.blocks PROVE h \in Int
  OBVIOUS
<1>1. n.blocks[h].hash = h /\ n.blocks[h] \in R \cup {Genesis}
  BY DEF Filed
<1>2. Genesis.hash \in Int
  BY BlockchainAssumption DEF Genesis
<1>3. \A b \in R : b.hash \in Int
  BY DEF BlockType
<1> QED BY <1>1, <1>2, <1>3

\* Storing an accepted block disturbs nothing but the tree.
LEMMA StoreCore ==
    ASSUME NEW n, NEW R, R \subseteq BlockType, Core(n, R), NEW b \in R, Accepts(n, b),
           NEW s, s = Store(n, b)
    PROVE  /\ Core(s, R)
           /\ DOMAIN s.blocks = DOMAIN n.blocks \cup {b.hash}
           /\ s.blocks[b.hash] = b
           /\ s.height_by_hash[b.hash] = n.height_by_hash[b.prev_hash] + 1
           /\ \A h \in DOMAIN n.blocks : s.height_by_hash[h] = n.height_by_hash[h]
           /\ s.tip = n.tip /\ s.chain_height = n.chain_height
           /\ s.chain = n.chain /\ s.mempool = n.mempool
           /\ s.pending_blocks = n.pending_blocks
<1>1. /\ s.blocks = Put(n.blocks, b.hash, b)
      /\ s.height_by_hash = Put(n.height_by_hash, b.hash, n.height_by_hash[b.prev_hash] + 1)
      /\ s.tip = n.tip /\ s.chain_height = n.chain_height
      /\ s.chain = n.chain /\ s.mempool = n.mempool
      /\ s.pending_blocks = n.pending_blocks
      /\ IsNode(s)
  BY DEF Core, IsNode, Store
<1>2. b.hash \notin DOMAIN n.blocks /\ b.prev_hash \in DOMAIN n.blocks
  BY DEF Accepts
<1>3. DOMAIN n.height_by_hash = DOMAIN n.blocks
  BY DEF Core, TreeInv, Rooted
<1>4. /\ DOMAIN s.blocks = DOMAIN n.blocks \cup {b.hash}
      /\ s.blocks[b.hash] = b
      /\ \A h \in DOMAIN n.blocks : s.blocks[h] = n.blocks[h]
      /\ s.height_by_hash[b.hash] = n.height_by_hash[b.prev_hash] + 1
      /\ \A h \in DOMAIN n.blocks : s.height_by_hash[h] = n.height_by_hash[h]
  BY <1>1, <1>2, <1>3 DEF Put
<1>5. TreeInv(s.blocks, s.height_by_hash)
  BY <1>1, <1>2, TreeInvPut DEF Core
<1>6. \A h \in DOMAIN n.blocks : Ancestors(s.blocks, h) = Ancestors(n.blocks, h)
  BY <1>1, <1>2, AncestorsPut DEF Core, TreeInv
<1>7. Filed(s, R)
  BY <1>4 DEF Core, Filed, Accepts
<1>8. n.tip \in DOMAIN n.blocks /\ Ancestors(n.blocks, n.tip) \subseteq DOMAIN n.blocks
  BY AncestorsClosed DEF Core, ChainOK
<1>9. ChainOK(s)
  <2>1. n.chain \in Seq(DOMAIN s.blocks)
    BY <1>4, SeqMonotonic DEF Core, ChainOK
  <2> QED BY <2>1, <1>1, <1>4, <1>6, <1>8 DEF Core, ChainOK
<1>10. PoolOK(s)
  <2>1. Bodies(s.blocks, Ancestors(s.blocks, s.tip)) = Bodies(n.blocks, Ancestors(n.blocks, n.tip))
    BY <1>1, <1>4, <1>6, <1>8 DEF Bodies
  <2> QED BY <2>1, <1>1 DEF Core, PoolOK
<1>11. PendingOK(s, R)
  BY <1>1 DEF Core, PendingOK
<1> QED BY <1>1, <1>4, <1>5, <1>7, <1>9, <1>10, <1>11 DEF Core

\* The pool after remove_confirmed: what became confirmed is in the body.
LEMMA RemoveConfirmedPool ==
    ASSUME NEW m \in MempoolType, m.free_txs \cap m.chain_txs = {}, NEW T
    PROVE  /\ RemoveConfirmed(m, T) \in MempoolType
           /\ RemoveConfirmed(m, T).chain_txs \subseteq m.chain_txs \cup T
           /\ RemoveConfirmed(m, T).free_txs \cap RemoveConfirmed(m, T).chain_txs = {}
           /\ \A t : IsKnownTx(m, t) => IsKnownTx(RemoveConfirmed(m, T), t)
BY DEF RemoveConfirmed, MempoolType, IsKnownTx

\* The pool after move_from_chain: nothing of the bodies is confirmed any more.
LEMMA MoveFromChainPool ==
    ASSUME NEW m \in MempoolType, m.free_txs \cap m.chain_txs = {}, NEW T
    PROVE  /\ MoveFromChain(m, T) \in MempoolType
           /\ MoveFromChain(m, T).chain_txs = m.chain_txs \ T
           /\ MoveFromChain(m, T).free_txs \cap MoveFromChain(m, T).chain_txs = {}
           /\ \A t : IsKnownTx(m, t) => IsKnownTx(MoveFromChain(m, T), t)
BY DEF MoveFromChain, MempoolType, IsKnownTx

\* Extending the tip by a stored child of it.
LEMMA ExtendTipCore ==
    ASSUME NEW s, NEW R, R \subseteq BlockType, Core(s, R),
           NEW b \in R, b.hash # GenesisHash,
           b.hash \in DOMAIN s.blocks, s.blocks[b.hash] = b, b.prev_hash = s.tip,
           NEW e, e = ExtendTip(s, b)
    PROVE  /\ Core(e, R)
           /\ e.blocks = s.blocks /\ e.height_by_hash = s.height_by_hash
           /\ e.tip = b.hash /\ e.chain_height = s.height_by_hash[b.hash]
           /\ e.pending_blocks = s.pending_blocks
           /\ \A t : IsKnownTx(s.mempool, t) => IsKnownTx(e.mempool, t)
<1>1. /\ e.blocks = s.blocks /\ e.height_by_hash = s.height_by_hash
      /\ e.tip = b.hash /\ e.chain_height = s.chain_height + 1
      /\ e.chain = Append(s.chain, b.hash)
      /\ e.mempool = RemoveConfirmed(s.mempool, b.tx_hashes)
      /\ e.pending_blocks = s.pending_blocks
      /\ IsNode(e)
  BY DEF Core, IsNode, ExtendTip
<1> DEFINE B == s.blocks
           H == s.height_by_hash
<1>2. b.hash # GenesisHash
  OBVIOUS
<1>3. s.tip \in DOMAIN B /\ s.chain_height = H[s.tip] /\ H[s.tip] \in Nat
  BY DEF Core, ChainOK, TreeInv, Rooted
<1>4. H[b.hash] = H[s.tip] + 1
  BY <1>2 DEF Core, TreeInv, Rooted
<1>5. Ancestors(B, b.hash) = {b.hash} \cup Ancestors(B, s.tip)
  BY <1>2, <1>3, AncestorsStep
<1>6. ChainOK(e)
  <2>1. s.chain \in Seq(DOMAIN B) /\ Len(s.chain) = s.chain_height + 1
    BY DEF Core, ChainOK
  <2>2. /\ Append(s.chain, b.hash) \in Seq(DOMAIN B)
        /\ Len(Append(s.chain, b.hash)) = Len(s.chain) + 1
        /\ \A i \in 1 .. Len(s.chain) : Append(s.chain, b.hash)[i] = s.chain[i]
        /\ Append(s.chain, b.hash)[Len(s.chain) + 1] = b.hash
    <3> DEFINE chain == s.chain
               new == b.hash
               D == DOMAIN B
    <3>1. chain \in Seq(D) /\ new \in D
      BY <2>1
    <3> HIDE DEF chain, new, D
    <3>2. /\ Append(chain, new) \in Seq(D)
          /\ Len(Append(chain, new)) = Len(chain) + 1
          /\ \A i \in 1 .. Len(chain) : Append(chain, new)[i] = chain[i]
          /\ Append(chain, new)[Len(chain) + 1] = new
      BY <3>1, AppendProperties
    <3> QED BY <3>2 DEF chain, new, D
  <2>3. ASSUME NEW i \in 1 .. Len(s.chain) + 1
        PROVE  /\ e.chain[i] \in Ancestors(B, b.hash)
               /\ H[e.chain[i]] = i - 1
    <3>1. CASE i = Len(s.chain) + 1
      BY <3>1, <2>1, <2>2, <1>1, <1>3, <1>4, <1>5
    <3>2. CASE i \in 1 .. Len(s.chain)
      BY <3>2, <2>2, <1>1, <1>5 DEF Core, ChainOK
    <3> QED BY <3>1, <3>2, <2>1, <1>3
  <2> QED BY <2>1, <2>2, <2>3, <1>1, <1>3, <1>4 DEF ChainOK
<1>7. PoolOK(e)
  <2>1. b.tx_hashes \subseteq Bodies(B, Ancestors(B, b.hash))
    BY <1>5 DEF Bodies
  <2>2. Bodies(B, Ancestors(B, s.tip)) \subseteq Bodies(B, Ancestors(B, b.hash))
    BY <1>5 DEF Bodies
  <2> QED BY <2>1, <2>2, <1>1, RemoveConfirmedPool DEF Core, PoolOK
<1>8. PendingOK(e, R) /\ Filed(e, R)
  BY <1>1 DEF Core, PendingOK, Filed
<1>9. \A t : IsKnownTx(s.mempool, t) => IsKnownTx(e.mempool, t)
  BY <1>1, RemoveConfirmedPool DEF Core, PoolOK
<1> QED BY <1>1, <1>3, <1>4, <1>6, <1>7, <1>8, <1>9 DEF Core

\* Moving the tip to any stored block: the branch that loses is given back, the
\* branch that wins is confirmed, and nothing below the fork point is touched.
LEMMA ReorganizeCore ==
    ASSUME NEW s, NEW R, Core(s, R), NEW h \in DOMAIN s.blocks,
           NEW r, r = Reorganize(s, h)
    PROVE  /\ Core(r, R)
           /\ r.blocks = s.blocks /\ r.height_by_hash = s.height_by_hash
           /\ r.tip = h /\ r.chain_height = s.height_by_hash[h]
           /\ r.pending_blocks = s.pending_blocks
           /\ \A t : IsKnownTx(s.mempool, t) => IsKnownTx(r.mempool, t)
<1> DEFINE B == s.blocks
           H == s.height_by_hash
           fork == ForkPoint(B, s.tip, h)
           shared == Ancestors(B, fork)
           dropped == Bodies(B, Ancestors(B, s.tip) \ shared)
           gained == Bodies(B, Ancestors(B, h) \ shared)
           moved == MoveFromChain(s.mempool, dropped)
<1>1. /\ r.blocks = B /\ r.height_by_hash = H
      /\ r.tip = h /\ r.chain_height = Len(GetChain(B, h)) - 1
      /\ r.chain = GetChain(B, h)
      /\ r.mempool = RemoveConfirmed(moved, gained)
      /\ r.pending_blocks = s.pending_blocks
      /\ IsNode(r)
  BY DEF Core, IsNode, Reorganize
<1>2. TreeInv(B, H) /\ s.tip \in DOMAIN B /\ H[h] \in Nat
  BY DEF Core, ChainOK, TreeInv, Rooted
<1>3. /\ GetChain(B, h) \in Seq(DOMAIN B)
      /\ Len(GetChain(B, h)) = H[h] + 1
      /\ \A i \in 1 .. H[h] + 1 : /\ GetChain(B, h)[i] \in Ancestors(B, h)
                                  /\ H[GetChain(B, h)[i]] = i - 1
  BY <1>2, GetChainLevels
<1>4. r.chain_height = H[h]
  BY <1>1, <1>2, <1>3
<1>5. ChainOK(r)
  BY <1>1, <1>2, <1>3, <1>4 DEF ChainOK
<1>6. shared \subseteq Ancestors(B, h)
  BY <1>2, ForkPointMeets, AncestorsTransitive
<1>7. /\ s.mempool \in MempoolType
      /\ s.mempool.chain_txs \subseteq Bodies(B, Ancestors(B, s.tip))
      /\ s.mempool.free_txs \cap s.mempool.chain_txs = {}
  BY DEF Core, PoolOK
<1>8. /\ moved \in MempoolType /\ moved.chain_txs = s.mempool.chain_txs \ dropped
      /\ moved.free_txs \cap moved.chain_txs = {}
      /\ \A t : IsKnownTx(s.mempool, t) => IsKnownTx(moved, t)
  BY <1>7, MoveFromChainPool
<1>9. /\ r.mempool \in MempoolType
      /\ r.mempool.chain_txs \subseteq moved.chain_txs \cup gained
      /\ r.mempool.free_txs \cap r.mempool.chain_txs = {}
      /\ \A t : IsKnownTx(moved, t) => IsKnownTx(r.mempool, t)
  <2> HIDE DEF moved, gained
  <2>1. /\ RemoveConfirmed(moved, gained) \in MempoolType
        /\ RemoveConfirmed(moved, gained).chain_txs \subseteq moved.chain_txs \cup gained
        /\ RemoveConfirmed(moved, gained).free_txs
              \cap RemoveConfirmed(moved, gained).chain_txs = {}
        /\ \A t : IsKnownTx(moved, t) => IsKnownTx(RemoveConfirmed(moved, gained), t)
    BY <1>8, RemoveConfirmedPool
  <2> QED BY <1>1, <2>1
<1>10. gained \subseteq Bodies(B, Ancestors(B, h))
  BY DEF Bodies
<1>11. moved.chain_txs \subseteq Bodies(B, shared)
  <2>1. Bodies(B, Ancestors(B, s.tip)) \ dropped \subseteq Bodies(B, shared)
    BY DEF Bodies
  <2> QED BY <2>1, <1>7, <1>8
<1>12. Bodies(B, shared) \subseteq Bodies(B, Ancestors(B, h))
  BY <1>6 DEF Bodies
<1>13. PoolOK(r)
  <2> HIDE DEF moved, gained, shared
  <2> QED BY <1>1, <1>9, <1>10, <1>11, <1>12 DEF PoolOK
<1>14. PendingOK(r, R) /\ Filed(r, R)
  BY <1>1 DEF Core, PendingOK, Filed
<1> QED BY <1>1, <1>2, <1>4, <1>5, <1>8, <1>9, <1>13, <1>14 DEF Core

\* Of two trees of which one grew out of the other, the later tip is the same or new:
\* a tip once left does not come back.
LEMMA TipNotResumed ==
    ASSUME NEW n, NEW k, NEW R, R \subseteq BlockType, NodeInv(n, R), NodeInv(k, R),
           Grows(n, k), k.tip \in DOMAIN n.blocks
    PROVE  k.tip = n.tip
<1>1. /\ n.tip \in DOMAIN n.blocks /\ n.tip \in DOMAIN k.blocks
      /\ n.chain_height = n.height_by_hash[n.tip] /\ k.chain_height = k.height_by_hash[k.tip]
      /\ k.height_by_hash[n.tip] = n.height_by_hash[n.tip]
      /\ k.height_by_hash[k.tip] = n.height_by_hash[k.tip]
  BY DEF NodeInv, Core, ChainOK, Grows
<1>2. n.height_by_hash[n.tip] \in Nat /\ n.height_by_hash[k.tip] \in Nat
  BY <1>1 DEF NodeInv, Core, TreeInv, Rooted
<1>3. n.tip \in Int /\ k.tip \in Int
  BY <1>1, StoredHashes DEF NodeInv, Core
<1> QED BY <1>1, <1>2, <1>3 DEF NodeInv, Best

\* Growing twice is growing: a tip left on the way is not taken up again.
LEMMA GrowsTransitive ==
    ASSUME NEW n, NEW k, NEW l, NEW R, R \subseteq BlockType,
           NodeInv(n, R), NodeInv(k, R), NodeInv(l, R), Grows(n, k), Grows(k, l)
    PROVE  Grows(n, l)
<1>1. l.tip = n.tip => k.tip = l.tip
  <2>1. n.tip \in DOMAIN k.blocks
    BY DEF NodeInv, Core, ChainOK, Grows
  <2> QED BY <2>1, TipNotResumed
<1> QED BY <1>1 DEF Grows, Keeps

\* Blockchain.add_block keeps the node invariant, whatever block it is given.
LEMMA AddBlockInv ==
    ASSUME NEW n, NEW R, R \subseteq BlockType, NodeInv(n, R), NEW b \in R
    PROVE  /\ NodeInv(AddBlock(n, b), R)
           /\ DOMAIN AddBlock(n, b).blocks =
                DOMAIN n.blocks \cup (IF Accepts(n, b) THEN {b.hash} ELSE {})
           /\ AddBlock(n, b).pending_blocks = n.pending_blocks
           /\ Grows(n, AddBlock(n, b))
<1> DEFINE s == Store(n, b)
           a == AddBlock(n, b)
<1>1. CASE ~ Accepts(n, b)
  BY <1>1 DEF AddBlock, Grows, Keeps
<1>2. CASE Accepts(n, b)
  <2>1. /\ Core(s, R)
        /\ DOMAIN s.blocks = DOMAIN n.blocks \cup {b.hash}
        /\ s.blocks[b.hash] = b
        /\ s.height_by_hash[b.hash] = n.height_by_hash[b.prev_hash] + 1
        /\ \A h \in DOMAIN n.blocks : s.height_by_hash[h] = n.height_by_hash[h]
        /\ s.tip = n.tip /\ s.chain_height = n.chain_height
        /\ s.mempool = n.mempool
        /\ s.pending_blocks = n.pending_blocks
    BY <1>2, StoreCore DEF NodeInv
  <2>2. /\ Best(n)
        /\ DOMAIN s.blocks \subseteq Int
        /\ \A h \in DOMAIN s.blocks : s.height_by_hash[h] \in Nat
        /\ n.tip \in DOMAIN n.blocks /\ n.chain_height = n.height_by_hash[n.tip]
        /\ GenesisHash \in DOMAIN n.blocks
    BY <2>1, StoredHashes DEF NodeInv, Core, TreeInv, Rooted, ChainOK
  <2>3. b.hash \notin DOMAIN n.blocks
    BY <1>2 DEF Accepts
  <2> HIDE DEF s
  <2>4. CASE b.prev_hash = n.tip
    <3>1. a = ExtendTip(s, b)
      BY <1>2, <2>4 DEF AddBlock, s
    <3>2. /\ Core(a, R)
          /\ a.blocks = s.blocks /\ a.height_by_hash = s.height_by_hash
          /\ a.tip = b.hash /\ a.chain_height = s.height_by_hash[b.hash]
          /\ a.pending_blocks = s.pending_blocks
          /\ \A t : IsKnownTx(s.mempool, t) => IsKnownTx(a.mempool, t)
      BY <2>1, <2>2, <2>3, <2>4, <3>1, ExtendTipCore
    <3> HIDE DEF a
    <3>3. Best(a)
      BY <2>1, <2>2, <2>4, <3>2 DEF Best
    <3>4. Grows(n, a)
      BY <2>1, <2>2, <2>3, <3>2 DEF Grows, Keeps
    <3> QED BY <1>2, <2>1, <3>2, <3>3, <3>4 DEF NodeInv, a
  <2>5. CASE b.prev_hash # n.tip /\ Preferred(s.height_by_hash[b.hash], b.hash, n)
    <3>1. a = Reorganize(s, b.hash)
      BY <1>2, <2>5 DEF AddBlock, s
    <3>2. /\ Core(a, R)
          /\ a.blocks = s.blocks /\ a.height_by_hash = s.height_by_hash
          /\ a.tip = b.hash /\ a.chain_height = s.height_by_hash[b.hash]
          /\ a.pending_blocks = s.pending_blocks
          /\ \A t : IsKnownTx(s.mempool, t) => IsKnownTx(a.mempool, t)
      <4>1. b.hash \in DOMAIN s.blocks
        BY <2>1
      <4> QED BY <2>1, <3>1, <4>1, ReorganizeCore
    <3> HIDE DEF a
    <3>3. Best(a)
      BY <2>1, <2>2, <2>5, <3>2 DEF Best, Preferred
    <3>4. Grows(n, a)
      BY <2>1, <2>2, <2>3, <3>2 DEF Grows, Keeps
    <3> QED BY <1>2, <2>1, <3>2, <3>3, <3>4 DEF NodeInv, a
  <2>6. CASE b.prev_hash # n.tip /\ ~ Preferred(s.height_by_hash[b.hash], b.hash, n)
    <3>1. a = s
      BY <1>2, <2>6 DEF AddBlock, s
    <3>2. Best(s)
      BY <2>1, <2>2, <2>6 DEF Best, Preferred
    <3>3. Grows(n, s)
      BY <2>1 DEF Grows, Keeps
    <3> QED BY <1>2, <2>1, <3>1, <3>2, <3>3 DEF NodeInv
  <2> QED BY <2>4, <2>5, <2>6
<1> QED BY <1>1, <1>2

-----------------------------------------------------------------------------
(***************************************************************************)
(* The worklist loop of _connect_orphans                                   *)
(***************************************************************************)

\* A non-empty set of naturals has a least element.
LEMMA LeastNatural ==
    ASSUME NEW T \in SUBSET Nat, T # {}
    PROVE  \E x \in T : \A y \in T : x <= y
<1> DEFINE less == {p \in Nat \X Nat : p[1] < p[2]}
<1>1. IsWellFoundedOn(less, Nat)
  BY NatLessThanWellFounded DEF OpToRel
<1>2. PICK x \in T : \A y \in T : ~ (<<y, x>> \in less)
  <2> HIDE DEF less
  <2> QED BY <1>1, WFMin
<1>3. \A y \in T : ~ (y < x)
  BY <1>2
<1> QED BY <1>3

\* What is left of a sequence when one position is removed.
LEMMA RemoveAtLeaves ==
    ASSUME NEW S, NEW q \in Seq(S), NEW i \in 1 .. Len(q)
    PROVE  /\ RemoveAt(q, i) \in Seq(S)
           /\ Len(RemoveAt(q, i)) = Len(q) - 1
           /\ \A j \in 1 .. Len(RemoveAt(q, i)) : \E k \in 1 .. Len(q) :
                RemoveAt(q, i)[j] = q[k]
           /\ \A k \in 1 .. Len(q) : k = i \/ \E j \in 1 .. Len(RemoveAt(q, i)) :
                RemoveAt(q, i)[j] = q[k]
<1> DEFINE u == SubSeq(q, 1, i - 1)
           v == SubSeq(q, i + 1, Len(q))
<1>1. /\ u \in Seq(S) /\ Len(u) = i - 1
      /\ \A j \in 1 .. i - 1 : u[j] = q[j]
  <2>1. \A j \in 1 .. i - 1 : q[j] \in S
    OBVIOUS
  <2> QED BY <2>1, SubSeqProperties
<1>2. /\ v \in Seq(S) /\ Len(v) = Len(q) - i
      /\ \A j \in 1 .. Len(q) - i : v[j] = q[i + j]
  <2>1. \A j \in i + 1 .. Len(q) : q[j] \in S
    OBVIOUS
  <2> QED BY <2>1, SubSeqProperties
<1> HIDE DEF u, v
<1>3. /\ u \o v \in Seq(S) /\ Len(u \o v) = Len(u) + Len(v)
      /\ \A j \in 1 .. Len(u) + Len(v) : (u \o v)[j] = IF j <= Len(u) THEN u[j] ELSE v[j - Len(u)]
  BY <1>1, <1>2, ConcatProperties
<1>4. ASSUME NEW j \in 1 .. Len(q) - 1
      PROVE  \E k \in 1 .. Len(q) : (u \o v)[j] = q[k]
  <2>1. CASE j <= i - 1
    <3>1. (u \o v)[j] = u[j]
      BY <1>1, <1>2, <1>3, <2>1
    <3>2. u[j] = q[j]
      BY <1>1, <2>1
    <3> QED BY <3>1, <3>2
  <2>2. CASE j > i - 1
    <3> DEFINE k == j - (i - 1)
    <3>1. k \in 1 .. Len(q) - i /\ i + k \in 1 .. Len(q)
      BY <2>2
    <3>2. (u \o v)[j] = v[k]
      BY <1>1, <1>2, <1>3, <2>2
    <3>3. v[k] = q[i + k]
      BY <1>2, <3>1
    <3> QED BY <3>1, <3>2, <3>3
  <2>3. j <= i - 1 \/ j > i - 1
    OBVIOUS
  <2> QED BY <2>1, <2>2, <2>3, Zenon
<1>5. ASSUME NEW k \in 1 .. Len(q), k # i
      PROVE  \E j \in 1 .. Len(q) - 1 : (u \o v)[j] = q[k]
  <2>1. CASE k < i
    <3>1. k \in 1 .. Len(q) - 1 /\ k \in 1 .. i - 1 /\ k <= Len(u)
      BY <1>1, <2>1
    <3>2. (u \o v)[k] = u[k]
      BY <1>1, <1>2, <1>3, <3>1
    <3> QED BY <1>1, <3>1, <3>2
  <2>2. CASE k > i
    <3>1. k - 1 \in 1 .. Len(q) - 1 /\ k - i \in 1 .. Len(q) - i /\ i + (k - i) = k
      BY <2>2
    <3>2. (u \o v)[k - 1] = v[k - i]
      <4>1. k - 1 \in 1 .. Len(u) + Len(v) /\ ~ (k - 1 <= Len(u)) /\ (k - 1) - Len(u) = k - i
        BY <1>1, <1>2, <2>2, <3>1
      <4> QED BY <1>3, <4>1
    <3> QED BY <1>2, <3>1, <3>2
  <2>3. k < i \/ k > i
    BY <1>5
  <2> QED BY <2>1, <2>2, <2>3, Zenon
<1>6. RemoveAt(q, i) = u \o v
  BY DEF RemoveAt, u, v
<1>7. Len(u \o v) = Len(q) - 1
  BY <1>1, <1>2, <1>3
<1> QED BY <1>3, <1>4, <1>5, <1>6, <1>7

\* An orphan in p whose parent is stored has that parent in the worklist.
Waiting(p, stored, w) ==
    \A j \in 1 .. Len(p) :
        p[j].prev_hash \in stored => \E k \in 1 .. Len(w) : w[k] = p[j].prev_hash

\* V are valid blocks that lead back to genesis by blocks of V, and no block of R but
\* they has the hash of one.
Fit(R, V) ==
    /\ \A b \in V : /\ ValidateBlock(b)
                    /\ b.prev_hash = GenesisHash \/ \E c \in V : c.hash = b.prev_hash
    /\ \A b \in R, c \in V : b.hash = c.hash => b = c

\* Nothing of V that was received is lost.
Complete(n, R, V) ==
    \A b \in R \cap V :
        \/ b.hash \in DOMAIN n.blocks
        \/ \E i \in 1 .. Len(n.pending_blocks) : n.pending_blocks[i] = b

\* The worklist may name blocks that were refused, but none of V.
Reached(w, stored, V) ==
    \A k \in 1 .. Len(w) : \A c \in V : c.hash = w[k] => w[k] \in stored

\* The state of the loop: the node is in order and grew out of o, nothing of V is
\* lost, and a buffered orphan whose parent is stored has it in the worklist.
InLoop(n, w, R, V, o) ==
    /\ NodeInv(n, R)
    /\ w \in Seq(Int)
    /\ Grows(o, n)
    /\ Waiting(n.pending_blocks, DOMAIN n.blocks, w)
    /\ Complete(n, R, V)
    /\ Reached(w, DOMAIN n.blocks, V)

LoopInv(s, R, V, o) ==
    s = [node |-> s.node, work |-> s.work] /\ InLoop(s.node, s.work, R, V, o)

\* What the loop has still to do.
Measure(s) == 2 * Len(s.node.pending_blocks) + Len(s.work)

\* Both, for a state given by its parts.
LEMMA LoopState ==
    ASSUME NEW R, NEW V, NEW o, NEW n, NEW w, InLoop(n, w, R, V, o),
           NEW s, s = [node |-> n, work |-> w]
    PROVE  /\ LoopInv(s, R, V, o)
           /\ Measure(s) = 2 * Len(n.pending_blocks) + Len(w)
           /\ Len(n.pending_blocks) \in Nat /\ Len(w) \in Nat
<1>1. s.node = n /\ s.work = w
  OBVIOUS
<1>2. Len(n.pending_blocks) \in Nat /\ Len(w) \in Nat
  BY DEF InLoop, NodeInv, Core, PendingOK
<1> QED BY <1>1, <1>2 DEF LoopInv, Measure

\* First is the least position of a set of positions.
LEMMA FirstIsIn ==
    ASSUME NEW I \in SUBSET Nat, I # {}
    PROVE  First(I) \in I
BY LeastNatural DEF First

\* A turn of the loop keeps its invariant and has less left to do, or nothing.
LEMMA ConnectStepInv ==
    ASSUME NEW R, R \subseteq BlockType, NEW V, Fit(R, V), NEW o, NodeInv(o, R),
           NEW s, LoopInv(s, R, V, o)
    PROVE  /\ LoopInv(ConnectStep(s), R, V, o)
           /\ Measure(s) \in Nat /\ Measure(ConnectStep(s)) \in Nat
           /\ s.work # <<>> => Measure(ConnectStep(s)) <= Measure(s) - 1
           /\ s.work = <<>> => ConnectStep(s).work = <<>>
<1> DEFINE n == s.node
           w == s.work
           pend == n.pending_blocks
           head == Head(w)
           orphans == OrphansOf(pend, head)
           i == First(orphans)
           b == pend[i]
           popped == [n EXCEPT !.pending_blocks = RemoveAt(pend, i)]
           c == ConnectStep(s)
<1>1. /\ s = [node |-> n, work |-> w] /\ NodeInv(n, R) /\ w \in Seq(Int)
      /\ pend \in Seq(R) /\ Len(pend) <= PendingCap /\ IsNode(n)
      /\ Grows(o, n) /\ Waiting(pend, DOMAIN n.blocks, w)
      /\ Complete(n, R, V) /\ Reached(w, DOMAIN n.blocks, V)
  BY DEF LoopInv, InLoop, NodeInv, Core, PendingOK
<1>2. /\ Len(pend) \in Nat /\ Len(w) \in Nat
      /\ Measure(s) = 2 * Len(pend) + Len(w) /\ Measure(s) \in Nat
  BY <1>1 DEF Measure
<1>3. CASE w = <<>>
  BY <1>2, <1>3 DEF ConnectStep
<1>4. CASE w # <<>> /\ orphans = {}
  <2>1. c = [node |-> n, work |-> Tail(w)]
    BY <1>1, <1>4 DEF ConnectStep
  <2>2. /\ Tail(w) \in Seq(Int) /\ Len(Tail(w)) = Len(w) - 1
        /\ \A k \in 1 .. Len(w) : w[k] = head \/ \E l \in 1 .. Len(Tail(w)) : Tail(w)[l] = w[k]
        /\ \A l \in 1 .. Len(Tail(w)) : \E k \in 1 .. Len(w) : Tail(w)[l] = w[k]
    <3>1. /\ Tail(w) \in Seq(Int) /\ Len(Tail(w)) = Len(w) - 1
          /\ head = w[1] /\ \A l \in 1 .. Len(w) - 1 : Tail(w)[l] = w[l + 1]
      BY <1>1, <1>4
    <3>2. \A k \in 1 .. Len(w) : k = 1 \/ (k - 1 \in 1 .. Len(w) - 1 /\ (k - 1) + 1 = k)
      BY <1>2
    <3>3. \A l \in 1 .. Len(w) - 1 : l + 1 \in 1 .. Len(w)
      BY <1>2
    <3> QED BY <3>1, <3>2, <3>3
  <2>3. \A j \in 1 .. Len(pend) : pend[j].prev_hash # head
    BY <1>4 DEF OrphansOf
  <2>4. LoopInv(c, R, V, o)
    <3>1. Reached(Tail(w), DOMAIN n.blocks, V)
      BY <1>1, <2>2 DEF Reached
    <3>2. Waiting(pend, DOMAIN n.blocks, Tail(w))
      BY <1>1, <2>2, <2>3 DEF Waiting
    <3>3. InLoop(n, Tail(w), R, V, o)
      BY <1>1, <2>2, <3>1, <3>2 DEF InLoop
    <3> HIDE DEF c, n, w
    <3> QED BY <2>1, <3>3, LoopState
  <2>5. Measure(c) = Measure(s) - 1 /\ Measure(c) \in Nat
    BY <1>1, <1>2, <2>1, <2>2 DEF Measure
  <2> HIDE DEF c
  <2>6. Measure(c) <= Measure(s) - 1
    BY <1>2, <2>5
  <2> QED BY <1>2, <1>4, <2>4, <2>5, <2>6 DEF c
<1>5. CASE w # <<>> /\ orphans # {}
  <2>1. i \in 1 .. Len(pend)
    <3>1. orphans \in SUBSET Nat /\ orphans \subseteq 1 .. Len(pend)
      BY <1>2 DEF OrphansOf
    <3> QED BY <3>1, <1>5, FirstIsIn
  <2>2. b \in R /\ b.hash \in Int /\ b.prev_hash = head
    <3>1. i \in orphans
      <4>1. orphans \in SUBSET Nat
        BY <1>2 DEF OrphansOf
      <4> HIDE DEF orphans
      <4> QED BY <1>5, <4>1, FirstIsIn
    <3>2. b \in R /\ b.prev_hash = head
      <4> HIDE DEF i, pend, head
      <4>1. i \in OrphansOf(pend, head) /\ pend \in Seq(R)
        BY <1>1, <3>1
      <4> QED BY <2>1, <4>1 DEF OrphansOf
    <3>3. \A d \in BlockType : d.hash \in Int
      BY DEF BlockType
    <3> HIDE DEF b
    <3> QED BY <3>2, <3>3
  <2> DEFINE rest == RemoveAt(pend, i)
  <2>3. /\ rest \in Seq(R) /\ Len(rest) = Len(pend) - 1
        /\ \A j \in 1 .. Len(rest) : \E k \in 1 .. Len(pend) : rest[j] = pend[k]
        /\ \A k \in 1 .. Len(pend) : k = i \/ \E j \in 1 .. Len(rest) : rest[j] = pend[k]
    <3> HIDE DEF pend, i
    <3>1. pend \in Seq(R) /\ i \in 1 .. Len(pend)
      BY <1>1, <2>1
    <3> QED BY <3>1, RemoveAtLeaves
  <2>4. /\ popped.pending_blocks = rest
        /\ popped.blocks = n.blocks /\ popped.mempool = n.mempool
        /\ NodeInv(popped, R) /\ Grows(o, popped)
    <3>1. /\ popped.blocks = n.blocks /\ popped.height_by_hash = n.height_by_hash
          /\ popped.tip = n.tip /\ popped.chain_height = n.chain_height
          /\ popped.chain = n.chain /\ popped.mempool = n.mempool
          /\ popped.pending_blocks = rest /\ IsNode(popped)
      BY <1>1 DEF IsNode
    <3> HIDE DEF popped, rest
    <3>2. PendingOK(popped, R)
      <4>1. Len(rest) \in Nat /\ PendingCap >= Len(rest)
        BY <1>1, <1>2, <2>3, BlockchainAssumption
      <4> QED BY <2>3, <3>1, <4>1, BlockchainAssumption DEF PendingOK
    <3> QED BY <1>1, <3>1, <3>2 DEF NodeInv, Core, Filed, ChainOK, PoolOK, Best, Grows
  <2>5. \A d \in R \cap V : d.hash \notin DOMAIN n.blocks =>
          d = b \/ \E j \in 1 .. Len(rest) : rest[j] = d
    BY <1>1, <2>3 DEF Complete
  <2> HIDE DEF popped, rest
  <2>6. CASE b.hash \in DOMAIN n.blocks
    <3>1. c = [node |-> popped, work |-> w]
      BY <1>1, <1>5, <2>6 DEF ConnectStep, popped
    <3> HIDE DEF c, w, pend, i, n, b
    <3>2. Waiting(popped.pending_blocks, DOMAIN popped.blocks, w)
      <4> DEFINE D == DOMAIN n.blocks
      <4>1. Waiting(pend, D, w) /\ DOMAIN popped.blocks = D
        BY <1>1, <2>4
      <4> HIDE DEF D
      <4>2. ASSUME NEW j \in 1 .. Len(rest), rest[j].prev_hash \in D
            PROVE  \E l \in 1 .. Len(w) : w[l] = rest[j].prev_hash
        <5>1. PICK k \in 1 .. Len(pend) : rest[j] = pend[k]
          BY <2>3
        <5> QED BY <4>1, <4>2, <5>1 DEF Waiting
      <4> QED BY <2>4, <4>1, <4>2 DEF Waiting
    <3>3. Complete(popped, R, V) /\ Reached(w, DOMAIN popped.blocks, V)
      BY <1>1, <2>4, <2>5, <2>6 DEF Complete, Reached
    <3>4. /\ LoopInv(c, R, V, o) /\ Measure(c) = 2 * Len(rest) + Len(w)
          /\ Len(rest) \in Nat
      <4>1. InLoop(popped, w, R, V, o)
        BY <1>1, <2>4, <3>2, <3>3 DEF InLoop
      <4> QED BY <2>4, <3>1, <4>1, LoopState
    <3>5. Measure(c) <= Measure(s) - 1 /\ Measure(c) \in Nat
      BY <1>2, <2>3, <3>4
    <3> QED BY <1>2, <1>5, <3>4, <3>5 DEF c, w
  <2>7. CASE b.hash \notin DOMAIN n.blocks
    <3> DEFINE a == AddBlock(popped, b)
    <3>1. c = [node |-> a, work |-> Append(w, b.hash)]
      BY <1>1, <1>5, <2>7 DEF ConnectStep, popped
    <3>2. /\ NodeInv(a, R)
          /\ DOMAIN a.blocks =
               DOMAIN n.blocks \cup (IF Accepts(popped, b) THEN {b.hash} ELSE {})
          /\ a.pending_blocks = rest
          /\ Grows(o, a)
      <4> HIDE DEF b, n
      <4>1. /\ NodeInv(a, R)
            /\ DOMAIN a.blocks =
                 DOMAIN popped.blocks \cup (IF Accepts(popped, b) THEN {b.hash} ELSE {})
            /\ a.pending_blocks = popped.pending_blocks
            /\ Grows(popped, a)
        <5>1. NodeInv(popped, R) /\ b \in R
          BY <2>2, <2>4
        <5> QED BY <5>1, AddBlockInv
      <4> HIDE DEF a
      <4>2. Grows(o, a)
        BY <2>4, <4>1, GrowsTransitive
      <4> QED BY <4>1, <4>2, <2>4
    <3>3. b \in V => b.hash \in DOMAIN a.blocks
      <4>1. SUFFICES ASSUME b \in V PROVE Accepts(popped, b)
        BY <3>2
      <4>2. ValidateBlock(b) /\ (b.prev_hash = GenesisHash \/ \E d \in V : d.hash = b.prev_hash)
        BY <4>1 DEF Fit
      <4>3. GenesisHash \in DOMAIN n.blocks
        BY <1>1 DEF NodeInv, Core, TreeInv, Rooted
      <4>4. head = w[1] /\ 1 \in 1 .. Len(w)
        BY <1>1, <1>2, <1>5
      <4>5. b.prev_hash \in DOMAIN n.blocks
        <5> HIDE DEF b, n, w, head
        <5> QED BY <1>1, <2>2, <4>2, <4>3, <4>4 DEF Reached
      <4> QED BY <2>4, <2>7, <4>2, <4>5 DEF Accepts
    <3>4. \A d \in V : d.hash = b.hash => b \in V
      BY <2>2 DEF Fit
    <3>5. /\ Append(w, b.hash) \in Seq(Int)
          /\ Len(Append(w, b.hash)) = Len(w) + 1
          /\ \A k \in 1 .. Len(w) : Append(w, b.hash)[k] = w[k]
          /\ Append(w, b.hash)[Len(w) + 1] = b.hash
      <4> DEFINE new == b.hash
      <4>1. new \in Int
        BY <2>2
      <4> HIDE DEF new, w
      <4>2. /\ Append(w, new) \in Seq(Int)
            /\ Len(Append(w, new)) = Len(w) + 1
            /\ \A k \in 1 .. Len(w) : Append(w, new)[k] = w[k]
            /\ Append(w, new)[Len(w) + 1] = new
        BY <1>1, <4>1, AppendProperties
      <4> QED BY <4>2 DEF new
    <3> HIDE DEF a, b, c, w, pend, n, i
    <3>6. ASSUME NEW j \in 1 .. Len(rest), rest[j].prev_hash \in DOMAIN a.blocks
          PROVE  \E k \in 1 .. Len(Append(w, b.hash)) : Append(w, b.hash)[k] = rest[j].prev_hash
      <4>1. CASE rest[j].prev_hash = b.hash
        BY <4>1, <3>5, <1>2
      <4>2. CASE rest[j].prev_hash # b.hash
        <5>1. rest[j].prev_hash \in DOMAIN n.blocks
          BY <3>2, <3>6, <4>2
        <5>2. PICK k \in 1 .. Len(w) : w[k] = rest[j].prev_hash
          BY <5>1, <1>1, <2>3 DEF Waiting
        <5> QED BY <5>2, <3>5, <1>2
      <4> QED BY <4>1, <4>2
    <3>7. Complete(a, R, V)
      BY <2>5, <3>2, <3>3 DEF Complete
    <3>8. ASSUME NEW k \in 1 .. Len(w) + 1, NEW d \in V, d.hash = Append(w, b.hash)[k]
          PROVE  Append(w, b.hash)[k] \in DOMAIN a.blocks
      <4>1. CASE k = Len(w) + 1
        BY <3>3, <3>4, <3>5, <3>8, <4>1
      <4>2. CASE k \in 1 .. Len(w)
        BY <1>1, <3>2, <3>5, <3>8, <4>2 DEF Reached
      <4> QED BY <1>2, <4>1, <4>2
    <3>9. /\ LoopInv(c, R, V, o) /\ Measure(c) = 2 * Len(rest) + Len(Append(w, b.hash))
          /\ Len(rest) \in Nat
      <4> DEFINE v == Append(w, b.hash)
      <4>1. /\ v \in Seq(Int) /\ c = [node |-> a, work |-> v]
            /\ Waiting(rest, DOMAIN a.blocks, v) /\ Reached(v, DOMAIN a.blocks, V)
        BY <3>1, <3>5, <3>6, <3>8 DEF Waiting, Reached
      <4> HIDE DEF v
      <4>2. InLoop(a, v, R, V, o)
        BY <3>2, <3>7, <4>1 DEF InLoop
      <4>3. /\ LoopInv(c, R, V, o) /\ Measure(c) = 2 * Len(a.pending_blocks) + Len(v)
            /\ Len(a.pending_blocks) \in Nat
        BY <4>1, <4>2, LoopState
      <4> QED BY <3>2, <4>3 DEF v
    <3>10. Measure(c) <= Measure(s) - 1 /\ Measure(c) \in Nat
      BY <1>2, <2>3, <3>5, <3>9
    <3> QED BY <1>2, <1>5, <3>9, <3>10 DEF c, w
  <2> QED BY <2>6, <2>7
<1> QED BY <1>3, <1>4, <1>5

\* The successive states of the loop, as far as turn N.
IsRun(f, s, N) ==
    f = [i \in 0 .. N |-> IF i = 0 THEN s ELSE ConnectStep(f[i - 1])]

\* The recursive function of ConnectOrphans is well defined.
LEMMA RunExists ==
    ASSUME NEW s, NEW N \in Nat
    PROVE  \E f : IsRun(f, s, N)
<1> DEFINE bad == {k \in Nat : ~ \E f : IsRun(f, s, k)}
<1>1. SUFFICES ASSUME bad # {} PROVE FALSE
  OBVIOUS
<1>2. PICK k \in bad : \A j \in bad : k <= j
  <2>1. bad \in SUBSET Nat
    OBVIOUS
  <2> HIDE DEF bad
  <2> QED BY <1>1, <2>1, LeastNatural
<1>3. k # 0
  <2>1. ASSUME k = 0 PROVE \E f : IsRun(f, s, k)
    <3> DEFINE f == [i \in 0 .. 0 |-> s]
    <3>1. f = [i \in 0 .. 0 |-> IF i = 0 THEN s ELSE ConnectStep(f[i - 1])]
      OBVIOUS
    <3> QED BY <3>1, <2>1 DEF IsRun
  <2> QED BY <1>2, <2>1
<1>4. PICK f : IsRun(f, s, k - 1)
  <2>1. k - 1 \in Nat /\ k - 1 \notin bad
    BY <1>2, <1>3
  <2> QED BY <2>1
<1> DEFINE g == [i \in 0 .. k |-> IF i = k THEN ConnectStep(f[k - 1]) ELSE f[i]]
<1>5. k \in Nat
  BY <1>2
<1>6. \A i \in 0 .. k - 1 : f[i] = IF i = 0 THEN s ELSE ConnectStep(f[i - 1])
  BY <1>4 DEF IsRun
<1>7. ASSUME NEW i \in 0 .. k
      PROVE  g[i] = IF i = 0 THEN s ELSE ConnectStep(g[i - 1])
  <2>1. CASE i = k
    BY <2>1, <1>3, <1>5
  <2>2. CASE i # k
    <3>1. i \in 0 .. k - 1 /\ (i # 0 => i - 1 \in 0 .. k /\ i - 1 # k)
      BY <2>2, <1>5
    <3> QED BY <3>1, <1>6, <2>2
  <2> QED BY <2>1, <2>2
<1>8. g = [i \in 0 .. k |-> IF i = 0 THEN s ELSE ConnectStep(g[i - 1])]
  BY <1>7
<1>9. IsRun(g, s, k)
  BY <1>8 DEF IsRun
<1> QED BY <1>2, <1>9

\* Along a run the loop invariant holds, and turn by turn less is left to do.
LEMMA RunInv ==
    ASSUME NEW R, R \subseteq BlockType, NEW V, Fit(R, V), NEW o, NodeInv(o, R),
           NEW s, LoopInv(s, R, V, o),
           NEW N \in Nat, Measure(s) <= N, NEW f, IsRun(f, s, N)
    PROVE  LoopInv(f[N], R, V, o) /\ f[N].work = <<>>
<1> DEFINE Good(i) == /\ LoopInv(f[i], R, V, o)
                      /\ Measure(f[i]) \in Nat
                      /\ f[i].work = <<>> \/ Measure(f[i]) + i <= N
           bad == {i \in 0 .. N : ~ Good(i)}
<1>1. /\ f[0] = s
      /\ \A i \in 1 .. N : f[i] = ConnectStep(f[i - 1])
  BY DEF IsRun
<1>2. Good(0)
  <2>1. Measure(s) \in Nat
    BY ConnectStepInv
  <2> QED BY <1>1, <2>1
<1>3. ASSUME NEW i \in 1 .. N, Good(i - 1)
      PROVE  Good(i)
  <2> DEFINE p == f[i - 1]
  <2>1. /\ LoopInv(p, R, V, o) /\ Measure(p) \in Nat
        /\ p.work = <<>> \/ Measure(p) + (i - 1) <= N
    BY <1>3
  <2>2. f[i] = ConnectStep(p)
    BY <1>1
  <2> HIDE DEF p
  <2>3. /\ LoopInv(f[i], R, V, o) /\ Measure(f[i]) \in Nat
        /\ p.work # <<>> => Measure(f[i]) <= Measure(p) - 1
        /\ p.work = <<>> => f[i].work = <<>>
    BY <2>1, <2>2, ConnectStepInv
  <2>4. Measure(f[i]) <= Measure(p) - 1 /\ Measure(p) + (i - 1) <= N => Measure(f[i]) + i <= N
    BY <2>1, <2>3
  <2> QED BY <2>1, <2>3, <2>4
<1> HIDE DEF Good
<1>4. bad = {}
  <2>1. SUFFICES ASSUME bad # {} PROVE FALSE
    OBVIOUS
  <2>2. PICK k \in bad : \A j \in bad : k <= j
    <3>1. bad \in SUBSET Nat
      OBVIOUS
    <3> HIDE DEF bad
    <3> QED BY <2>1, <3>1, LeastNatural
  <2>3. k \in 1 .. N /\ k - 1 \in 0 .. N /\ k - 1 \notin bad
    BY <1>2, <2>2
  <2> QED BY <1>3, <2>2, <2>3
<1>5. Good(N)
  BY <1>4
<1>6. f[N].work = <<>> \/ Measure(f[N]) = 0
  BY <1>5 DEF Good
<1>7. Measure(f[N]) = 0 => f[N].work = <<>>
  <2>1. /\ f[N].node.pending_blocks \in Seq(R)
        /\ f[N].work \in Seq(Int)
    BY <1>5 DEF Good, LoopInv, InLoop, NodeInv, Core, PendingOK
  <2> DEFINE p == f[N].node.pending_blocks
             w == f[N].work
  <2>2. Len(p) \in Nat /\ Len(w) \in Nat /\ w \in Seq(Int)
    BY <2>1
  <2>3. Measure(f[N]) = 2 * Len(p) + Len(w)
    BY DEF Measure
  <2> HIDE DEF p, w
  <2>4. Measure(f[N]) = 0 => Len(w) = 0
    BY <2>2, <2>3
  <2>5. Len(w) = 0 => w = <<>>
    BY <2>2
  <2> QED BY <2>4, <2>5 DEF w
<1> QED BY <1>5, <1>6, <1>7 DEF Good

-----------------------------------------------------------------------------
(***************************************************************************)
(* BlockchainCommunity.add_block                                           *)
(***************************************************************************)

\* No orphan of the node waits for a stored parent.
Settled(n) ==
    \A i \in 1 .. Len(n.pending_blocks) :
        n.pending_blocks[i].prev_hash \notin DOMAIN n.blocks

\* _connect_orphans leaves no orphan behind whose parent is stored, if only
\* those of root had one before it.
LEMMA ConnectOrphansInv ==
    ASSUME NEW R, R \subseteq BlockType, NEW V, Fit(R, V),
           NEW n, NodeInv(n, R), Complete(n, R, V), NEW root \in DOMAIN n.blocks,
           \A i \in 1 .. Len(n.pending_blocks) :
              n.pending_blocks[i].prev_hash \in DOMAIN n.blocks
                => n.pending_blocks[i].prev_hash = root
    PROVE  /\ NodeInv(ConnectOrphans(n, root), R)
           /\ Settled(ConnectOrphans(n, root))
           /\ Grows(n, ConnectOrphans(n, root))
           /\ Complete(ConnectOrphans(n, root), R, V)
<1> DEFINE s == [node |-> n, work |-> <<root>>]
           p == n.pending_blocks
           turns == 2 * Len(p) + 1
           f == CHOOSE g : IsRun(g, s, turns)
<1>1. p \in Seq(R) /\ Len(p) \in Nat
  BY DEF NodeInv, Core, PendingOK
<1>2. turns \in Nat
  BY <1>1
<1>3. ConnectOrphans(n, root) = f[turns].node
  BY DEF ConnectOrphans, IsRun
<1>4. LoopInv(s, R, V, n) /\ Measure(s) = turns
  <2>1. <<root>> \in Seq(Int) /\ Len(<<root>>) = 1 /\ <<root>>[1] = root
    BY StoredHashes DEF NodeInv, Core
  <2>2. /\ Waiting(p, DOMAIN n.blocks, <<root>>) /\ Reached(<<root>>, DOMAIN n.blocks, V)
        /\ Grows(n, n)
    BY <2>1 DEF Waiting, Reached, Grows, Keeps
  <2> DEFINE w == <<root>>
  <2>3. /\ w \in Seq(Int) /\ Len(w) = 1
        /\ Waiting(p, DOMAIN n.blocks, w) /\ Reached(w, DOMAIN n.blocks, V)
    BY <2>1, <2>2
  <2> HIDE DEF w
  <2>4. InLoop(n, w, R, V, n)
    BY <2>2, <2>3 DEF InLoop
  <2>5. s = [node |-> n, work |-> w]
    BY DEF w
  <2> HIDE DEF s
  <2>6. LoopInv(s, R, V, n) /\ Measure(s) = 2 * Len(p) + Len(w)
    BY <2>4, <2>5, LoopState
  <2> QED BY <1>1, <2>3, <2>6
<1>5. IsRun(f, s, turns)
  <2> HIDE DEF s, turns
  <2>1. \E g : IsRun(g, s, turns)
    BY <1>2, RunExists
  <2> QED BY <2>1
<1>6. LoopInv(f[turns], R, V, n) /\ f[turns].work = <<>>
  <2>1. Measure(s) <= turns
    BY <1>2, <1>4
  <2> HIDE DEF s, turns, f
  <2> QED BY <1>2, <1>4, <1>5, <2>1, RunInv
<1> HIDE DEF f, turns
<1>7. Settled(f[turns].node)
  <2>1. \A k \in 1 .. Len(f[turns].work) : FALSE
    BY <1>6
  <2> QED BY <1>6, <2>1 DEF LoopInv, InLoop, Waiting, Settled
<1> QED BY <1>3, <1>6, <1>7 DEF LoopInv, InLoop

\* The invariants depend on the blocks received only to know where blocks came
\* from, so receiving more of them is harmless.
LEMMA NodeInvMonotone ==
    ASSUME NEW n, NEW R, NEW Q, R \subseteq Q, NodeInv(n, R)
    PROVE  NodeInv(n, Q)
<1>1. n.pending_blocks \in Seq(Q)
  BY SeqMonotonic DEF NodeInv, Core, PendingOK
<1>2. Filed(n, Q)
  BY DEF NodeInv, Core, Filed
<1> QED BY <1>1, <1>2 DEF NodeInv, Core, PendingOK

\* q is the buffer p with the orphan b in it, for one of the same hash if need be.
Buffered(q, p, b) ==
    /\ \A i \in 1 .. Len(q) : q[i] = b \/ \E k \in 1 .. Len(p) : q[i] = p[k]
    /\ \E i \in 1 .. Len(q) : q[i] = b
    /\ \A k \in 1 .. Len(p) : p[k].hash = b.hash \/ \E i \in 1 .. Len(q) : q[i] = p[k]

\* Buffering an orphan under the capacity.
LEMMA BufferOrphanInv ==
    ASSUME NEW R, NEW p \in Seq(R), NEW b \in R, Len(p) < PendingCap
    PROVE  /\ BufferOrphan(p, b) \in Seq(R)
           /\ Len(BufferOrphan(p, b)) <= PendingCap
           /\ Buffered(BufferOrphan(p, b), p, b)
<1> DEFINE same == {i \in 1 .. Len(p) : p[i].hash = b.hash}
           q == BufferOrphan(p, b)
<1>1. CASE same = {}
  <2>1. q = Append(p, b)
    BY <1>1 DEF BufferOrphan
  <2>2. /\ q \in Seq(R) /\ Len(q) = Len(p) + 1
        /\ \A i \in 1 .. Len(p) : q[i] = p[i]
        /\ q[Len(p) + 1] = b
    BY <2>1, AppendProperties
  <2>3. \A i \in 1 .. Len(p) + 1 : i \in 1 .. Len(p) \/ i = Len(p) + 1
    OBVIOUS
  <2>4. Len(p) + 1 <= PendingCap
    BY BlockchainAssumption
  <2> HIDE DEF q
  <2> QED BY <2>2, <2>3, <2>4 DEF q, Buffered
<1>2. CASE same # {}
  <2>1. First(same) \in same
    <3>1. same \in SUBSET Nat
      OBVIOUS
    <3> HIDE DEF same
    <3> QED BY <1>2, <3>1, FirstIsIn
  <2> DEFINE f == First(same)
  <2>2. f \in 1 .. Len(p) /\ p[f].hash = b.hash /\ q = [p EXCEPT ![f] = b]
    BY <1>2, <2>1 DEF BufferOrphan
  <2> HIDE DEF f, q
  <2>3. /\ q \in Seq(R) /\ Len(q) = Len(p)
        /\ \A i \in 1 .. Len(p) : q[i] = IF i = f THEN b ELSE p[i]
    BY <2>2, ExceptSeq
  <2>4. Len(p) <= PendingCap
    BY BlockchainAssumption
  <2> QED BY <2>2, <2>3, <2>4 DEF q, Buffered
<1> QED BY <1>1, <1>2

\* The whole of add_block keeps the node in order and settled, and while there is
\* room in the buffer nothing of V is lost.
LEMMA IntegrateBlockInv ==
    ASSUME NEW R, R \subseteq BlockType, NEW V, Fit(R, V), NEW b \in R,
           NEW n, NodeInv(n, R), Settled(n), Complete(n, R \ {b}, V)
    PROVE  /\ NodeInv(IntegrateBlock(n, b), R)
           /\ Settled(IntegrateBlock(n, b))
           /\ Grows(n, IntegrateBlock(n, b))
           /\ Len(n.pending_blocks) < PendingCap => Complete(IntegrateBlock(n, b), R, V)
<1> DEFINE r == IntegrateBlock(n, b)
           p == n.pending_blocks
<1>1. p \in Seq(R) /\ IsNode(n) /\ Grows(n, n)
  BY DEF NodeInv, Core, PendingOK, Grows, Keeps
<1>2. CASE b.prev_hash \notin DOMAIN n.blocks /\ Len(p) < PendingCap
  <2> DEFINE q == BufferOrphan(p, b)
  <2>1. /\ q \in Seq(R) /\ Len(q) <= PendingCap
        /\ Buffered(q, p, b)
    <3> HIDE DEF p
    <3>1. p \in Seq(R) /\ Len(p) < PendingCap
      BY <1>1, <1>2
    <3> QED BY <3>1, BufferOrphanInv
  <2>2. r = [n EXCEPT !.pending_blocks = q]
    BY <1>2 DEF IntegrateBlock
  <2> HIDE DEF q
  <2>3. /\ r.blocks = n.blocks /\ r.height_by_hash = n.height_by_hash
        /\ r.tip = n.tip /\ r.chain_height = n.chain_height
        /\ r.chain = n.chain /\ r.mempool = n.mempool
        /\ r.pending_blocks = q /\ IsNode(r)
    BY <1>1, <2>2 DEF IsNode
  <2> HIDE DEF r
  <2>4. PendingOK(r, R)
    BY <2>1, <2>3 DEF PendingOK
  <2>5. NodeInv(r, R)
    BY <2>3, <2>4 DEF NodeInv, Core, Filed, ChainOK, PoolOK, Best
  <2>6. Settled(r)
    BY <1>2, <2>1, <2>3 DEF Settled, Buffered
  <2>7. ASSUME NEW d \in R \cap V, d.hash \notin DOMAIN n.blocks
        PROVE  \E i \in 1 .. Len(q) : q[i] = d
    <3>1. d.hash = b.hash => d = b
      BY DEF Fit
    <3>2. d # b => \E k \in 1 .. Len(p) : p[k] = d
      BY <2>7 DEF Complete
    <3> QED BY <2>1, <3>1, <3>2 DEF Buffered
  <2>8. Complete(r, R, V)
    BY <2>3, <2>7 DEF Complete
  <2>9. Grows(n, r)
    BY <2>3 DEF Grows, Keeps
  <2> QED BY <2>5, <2>6, <2>8, <2>9 DEF r
<1>3. CASE b.prev_hash \notin DOMAIN n.blocks /\ ~ Len(p) < PendingCap
  BY <1>1, <1>3 DEF IntegrateBlock
<1>4. CASE b.prev_hash \in DOMAIN n.blocks /\ Accepts(n, b)
  <2> DEFINE a == AddBlock(n, b)
  <2>1. r = ConnectOrphans(a, b.hash)
    BY <1>4 DEF IntegrateBlock
  <2>2. /\ NodeInv(a, R) /\ DOMAIN a.blocks = DOMAIN n.blocks \cup {b.hash}
        /\ a.pending_blocks = p /\ Grows(n, a)
    BY <1>4, AddBlockInv
  <2> HIDE DEF a
  <2>3. \A i \in 1 .. Len(a.pending_blocks) :
            a.pending_blocks[i].prev_hash \in DOMAIN a.blocks
                => a.pending_blocks[i].prev_hash = b.hash
    BY <2>2 DEF Settled
  <2>4. Complete(a, R, V)
    BY <2>2 DEF Complete
  <2>5. b.hash \in DOMAIN a.blocks
    BY <2>2
  <2>6. /\ NodeInv(ConnectOrphans(a, b.hash), R)
        /\ Settled(ConnectOrphans(a, b.hash))
        /\ Grows(a, ConnectOrphans(a, b.hash))
        /\ Complete(ConnectOrphans(a, b.hash), R, V)
    BY <2>2, <2>3, <2>4, <2>5, ConnectOrphansInv
  <2> QED BY <2>1, <2>2, <2>6, GrowsTransitive
<1>5. CASE b.prev_hash \in DOMAIN n.blocks /\ ~ Accepts(n, b)
  <2>1. r = n
    BY <1>5 DEF IntegrateBlock
  <2>2. b \in V => b.hash \in DOMAIN n.blocks
    BY <1>5 DEF Accepts, Fit
  <2> QED BY <1>1, <2>1, <2>2 DEF Complete
<1> QED BY <1>2, <1>3, <1>4, <1>5

-----------------------------------------------------------------------------
\* A fresh node is in order.
LEMMA InitNodeInv ==
    NodeInv(InitNode, {}) /\ Settled(InitNode)
<1> DEFINE n == InitNode
<1>1. /\ n.blocks = [h \in {GenesisHash} |-> Genesis] /\ n.tip = GenesisHash
      /\ n.height_by_hash = [h \in {GenesisHash} |-> 0] /\ n.chain_height = 0
      /\ n.chain = <<GenesisHash>> /\ n.mempool = EmptyMempool
      /\ n.pending_blocks = <<>> /\ IsNode(n)
  BY DEF InitNode, IsNode
<1>2. TreeInv(n.blocks, n.height_by_hash)
  BY TreeInvGenesis
<1> HIDE DEF n
<1>3. Filed(n, {})
  BY <1>1 DEF Filed, Genesis
<1>4. ChainOK(n)
  BY <1>1, AncestorsReflexive DEF ChainOK
<1>5. PoolOK(n)
  BY <1>1 DEF PoolOK, EmptyMempool, MempoolType
<1>6. PendingOK(n, {}) /\ Settled(n)
  BY <1>1, BlockchainAssumption DEF PendingOK, Settled
<1>7. Best(n)
  BY <1>1, BlockchainAssumption DEF Best
<1> QED BY <1>1, <1>2, <1>3, <1>4, <1>5, <1>6, <1>7 DEF NodeInv, Core, n

\* Accepting a transaction touches the pool alone.
LEMMA AcceptTxInv ==
    ASSUME NEW n, NEW R, NodeInv(n, R), Settled(n), NEW t \in Tx,
           NEW r, r = [n EXCEPT !.mempool = Add(n.mempool, t)]
    PROVE  /\ NodeInv(r, R) /\ Settled(r) /\ Keeps(n.mempool, r.mempool)
           /\ r.blocks = n.blocks /\ r.tip = n.tip /\ r.chain_height = n.chain_height
           /\ r.pending_blocks = n.pending_blocks /\ r.mempool = Add(n.mempool, t)
<1>1. /\ r.blocks = n.blocks /\ r.height_by_hash = n.height_by_hash
      /\ r.tip = n.tip /\ r.chain_height = n.chain_height
      /\ r.chain = n.chain /\ r.pending_blocks = n.pending_blocks
      /\ r.mempool = Add(n.mempool, t) /\ IsNode(r)
  BY DEF NodeInv, Core, IsNode
<1>2. n.mempool \in MempoolType /\ n.mempool.free_txs \cap n.mempool.chain_txs = {}
  BY DEF NodeInv, Core, PoolOK
<1>3. /\ Add(n.mempool, t) \in MempoolType
      /\ Add(n.mempool, t).chain_txs = n.mempool.chain_txs
      /\ Add(n.mempool, t).free_txs \cap Add(n.mempool, t).chain_txs = {}
      /\ Keeps(n.mempool, Add(n.mempool, t))
  BY <1>2 DEF Add, MempoolType, Keeps, IsKnownTx
<1>4. PoolOK(r)
  BY <1>1, <1>3 DEF NodeInv, Core, PoolOK
<1>5. Settled(r)
  BY <1>1 DEF Settled
<1> QED BY <1>1, <1>3, <1>4, <1>5 DEF NodeInv, Core, Filed, ChainOK, PendingOK, Best

\* The height-indexed chain is the walk from the tip, level by level.
LEMMA ChainIsWalk ==
    ASSUME NEW n, NEW R, NodeInv(n, R)
    PROVE  /\ n.chain[1] = GenesisHash
           /\ n.chain[Len(n.chain)] = n.tip
           /\ \A i \in 1 .. Len(n.chain) :
                i > 1 => n.blocks[n.chain[i]].prev_hash = n.chain[i - 1]
           /\ Ancestors(n.blocks, n.tip) = {n.chain[i] : i \in 1 .. Len(n.chain)}
<1> DEFINE B == n.blocks
           H == n.height_by_hash
           path == Ancestors(B, n.tip)
           c == n.chain
<1>1. /\ n.tip \in DOMAIN B /\ n.chain_height = H[n.tip] /\ H[n.tip] \in Nat
      /\ Len(c) = H[n.tip] + 1
      /\ \A i \in 1 .. H[n.tip] + 1 : c[i] \in path /\ H[c[i]] = i - 1
  BY DEF NodeInv, Core, ChainOK, TreeInv, Rooted
<1>2. /\ GenesisHash \in path /\ H[GenesisHash] = 0
      /\ \A a \in path : H[a] \in Nat /\ H[a] <= H[n.tip]
      /\ \A a, d \in path : H[a] = H[d] => a = d
  BY <1>1, AncestorsClosed DEF NodeInv, Core, TreeInv, Rooted, Levelled
<1>3. n.tip \in path
  BY <1>1, AncestorsReflexive
<1> HIDE DEF path, c
<1>4. c[1] = GenesisHash
  <2>1. 1 \in 1 .. H[n.tip] + 1
    BY <1>1
  <2>2. c[1] \in path /\ H[c[1]] = 0
    BY <1>1, <2>1
  <2> QED BY <1>2, <2>2
<1>5. c[Len(c)] = n.tip
  <2>1. H[n.tip] + 1 \in 1 .. H[n.tip] + 1
    BY <1>1
  <2>2. c[H[n.tip] + 1] \in path /\ H[c[H[n.tip] + 1]] = H[n.tip]
    BY <1>1, <2>1
  <2> QED BY <1>1, <1>2, <1>3, <2>2
<1>6. ASSUME NEW i \in 1 .. Len(c), i > 1
      PROVE  B[c[i]].prev_hash = c[i - 1]
  <2>1. /\ c[i] \in path /\ H[c[i]] = i - 1
        /\ c[i - 1] \in path /\ H[c[i - 1]] = i - 2
    <3>1. i \in 1 .. H[n.tip] + 1 /\ i - 1 \in 1 .. H[n.tip] + 1 /\ (i - 1) - 1 = i - 2
      BY <1>1, <1>6
    <3> QED BY <1>1, <3>1
  <2>2. c[i] # GenesisHash /\ c[i] \in DOMAIN B
    BY <1>2, <1>6, <2>1, AncestorsClosed DEF path
  <2>3. /\ B[c[i]].prev_hash \in DOMAIN B /\ H[c[i]] = H[B[c[i]].prev_hash] + 1
    BY <2>2 DEF NodeInv, Core, TreeInv, Rooted
  <2>4. B[c[i]].prev_hash \in path
    BY <2>1, <2>2, <2>3, AncestorsClosed DEF path, ParentClosed
  <2>5. H[B[c[i]].prev_hash] = i - 2
    BY <1>2, <2>1, <2>3, <2>4
  <2> QED BY <1>2, <2>1, <2>4, <2>5
<1>7. path = {c[i] : i \in 1 .. Len(c)}
  <2>1. ASSUME NEW a \in path PROVE \E i \in 1 .. Len(c) : a = c[i]
    <3>1. H[a] + 1 \in 1 .. H[n.tip] + 1
      BY <1>1, <1>2
    <3>2. c[H[a] + 1] \in path /\ H[c[H[a] + 1]] = H[a]
      BY <1>1, <1>2, <3>1
    <3> QED BY <1>1, <1>2, <3>1, <3>2
  <2> QED BY <1>1, <2>1
<1> QED BY <1>4, <1>5, <1>6, <1>7 DEF path, c

=============================================================================
