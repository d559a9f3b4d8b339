----------------------------- MODULE Blockchain -----------------------------
(***************************************************************************)
(* The block tree of a node (class Blockchain) and the orphan buffer that  *)
(* BlockchainCommunity.add_block puts in front of it.                      *)
(*                                                                         *)
(* A node is a record:                                                     *)
(*   blocks          the tree: block hash -> block (dict blocks)           *)
(*   height_by_hash  block hash -> height                                  *)
(*   tip             hash of the canonical tip                             *)
(*   chain_height    height of the canonical chain                         *)
(*   chain           hashes of the canonical chain, genesis first          *)
(*   mempool         the pool (module Mempool)                             *)
(*   pending_blocks  the buffered orphans, in insertion order              *)
(*                                                                         *)
(* A hash is an integer: byte strings are ordered as the integers they     *)
(* encode, and SHA-256 is taken to be injective.  A block is a record of   *)
(* its hash, the header fields the code looks at and its body; zeros is    *)
(* the number of leading zero bits of the hash, txs_hash stands for the    *)
(* body the header commits to.  A body is the set of its txids.  The dict  *)
(* children is written and never read, and is left out.                    *)
(***************************************************************************)
EXTENDS Mempool, Sequences, SequencesExt

CONSTANTS GenesisHash,   \* hash of the genesis block
          ZeroHash,      \* prev_hash of the genesis block: 32 zero bytes
          Difficulty,    \* the shared floor (config.DIFFICULTY)
          PendingCap     \* capacity of the orphan buffer (config.PENDING_CAP)

ASSUME BlockchainAssumption ==
    /\ GenesisHash \in Int /\ ZeroHash \in Int \ {GenesisHash}
    /\ {Difficulty, PendingCap} \subseteq Nat

BlockType == [hash : Int, prev_hash : Int, difficulty : Nat, zeros : Nat,
              txs_hash : SUBSET Tx, tx_hashes : SUBSET Tx]

Genesis == [hash |-> GenesisHash, prev_hash |-> ZeroHash, difficulty |-> 0,
            zeros |-> 0, txs_hash |-> {}, tx_hashes |-> {}]

InitNode ==
    [blocks         |-> [h \in {GenesisHash} |-> Genesis],
     height_by_hash |-> [h \in {GenesisHash} |-> 0],
     tip            |-> GenesisHash,
     chain_height   |-> 0,
     chain          |-> <<GenesisHash>>,
     mempool        |-> EmptyMempool,
     pending_blocks |-> <<>>]

\* d[k] = v of a Python dict.
Put(d, k, v) == [x \in DOMAIN d \cup {k} |-> IF x = k THEN v ELSE d[x]]

-----------------------------------------------------------------------------
(***************************************************************************)
(* Walks over the tree.                                                    *)
(***************************************************************************)

ParentClosed(blocks, S) ==
    \A h \in S : h # GenesisHash /\ blocks[h].prev_hash \in DOMAIN blocks
                    => blocks[h].prev_hash \in S

\* What the walk `cur = blocks[cur].header.prev_hash` from h visits before it
\* stops: the least set that holds h and is closed under the parent link.
Ancestors(blocks, h) ==
    {a \in DOMAIN blocks :
        \A S \in SUBSET DOMAIN blocks : h \in S /\ ParentClosed(blocks, S) => a \in S}

\* Blockchain.get_chain: i-th on the path is the ancestor with i ancestors; a
\* walk that leaves the tree before it meets genesis returns the empty list.
GetChain(blocks, h) ==
    LET path == Ancestors(blocks, h)
    IN  IF GenesisHash \notin path THEN <<>>
        ELSE [i \in 1 .. Cardinality(path) |->
                CHOOSE a \in path : Cardinality(Ancestors(blocks, a)) = i]

\* Blockchain.find_fork_point: the first ancestor of b that is one of a, and
\* genesis when there is none (the default reorganize falls back to).
ForkPoint(blocks, a, b) ==
    LET common == Ancestors(blocks, a) \cap Ancestors(blocks, b)
    IN  IF common = {} THEN GenesisHash
        ELSE CHOOSE c \in common : common \subseteq Ancestors(blocks, c)

\* The txids of the blocks whose hashes are in H.
Bodies(blocks, H) == UNION {blocks[h].tx_hashes : h \in H}

-----------------------------------------------------------------------------
(***************************************************************************)
(* Blockchain.validate_block, reorganize and add_block.                    *)
(***************************************************************************)

ValidateBlock(b) ==
    /\ b.difficulty >= Difficulty
    /\ b.zeros >= Difficulty
    /\ b.zeros >= b.difficulty
    /\ b.txs_hash = b.tx_hashes

\* Mutated: a block is taken without being validated.
Accepts_unvalidated(n, b) == b.hash \notin DOMAIN n.blocks /\ b.prev_hash \in DOMAIN n.blocks

Accepts(n, b) ==
    /\ ValidateBlock(b)
    /\ b.hash \notin DOMAIN n.blocks
    /\ b.prev_hash \in DOMAIN n.blocks

\* Mutated: at equal height the first chain seen stays.
Preferred_firstSeen(height, hash, n) == height > n.chain_height

\* Mutated: the hashes are compared whatever the heights are.
Preferred_anyHeight(height, hash, n) == height > n.chain_height \/ hash < n.tip

\* The fork choice: the higher chain, and at equal height the smaller hash.
Preferred(height, hash, n) ==
    \/ height > n.chain_height
    \/ height = n.chain_height /\ hash < n.tip

\* Mutated: the transactions of the branch that lost stay confirmed.
Reorganize_keepsOld(n, new_tip) ==
    LET path == GetChain(n.blocks, new_tip)
    IN  [n EXCEPT !.mempool = RemoveConfirmed(@, Bodies(n.blocks, Range(path))),
                  !.tip = new_tip, !.chain_height = Len(path) - 1, !.chain = path]

\* Mutated: chain_height is not brought up to date.
Reorganize_oldHeight(n, new_tip) ==
    [n EXCEPT !.tip = new_tip, !.chain = GetChain(n.blocks, new_tip)]

Reorganize(n, new_tip) ==
    LET shared  == Ancestors(n.blocks, ForkPoint(n.blocks, n.tip, new_tip))
        dropped == Bodies(n.blocks, Ancestors(n.blocks, n.tip) \ shared)
        gained  == Bodies(n.blocks, Ancestors(n.blocks, new_tip) \ shared)
        path    == GetChain(n.blocks, new_tip)
    IN  [n EXCEPT !.mempool = RemoveConfirmed(MoveFromChain(@, dropped), gained),
                  !.tip = new_tip,
                  !.chain_height = Len(path) - 1,
                  !.chain = path]

\* A block whose parent is the tip extends the chain without a walk.
ExtendTip(n, b) ==
    [n EXCEPT !.tip = b.hash,
              !.chain_height = @ + 1,
              !.chain = Append(@, b.hash),
              !.mempool = RemoveConfirmed(@, b.tx_hashes)]

Store(n, b) ==
    [n EXCEPT !.blocks = Put(@, b.hash, b),
              !.height_by_hash = Put(@, b.hash, @[b.prev_hash] + 1)]

\* Mutated: a block that stays off the chain confirms its transactions too.
AddBlock_confirmsSide(n, b) ==
    LET stored == Store(n, b)
    IN  IF ~ Accepts(n, b) THEN n
        ELSE IF b.prev_hash = n.tip THEN ExtendTip(stored, b)
        ELSE IF Preferred(stored.height_by_hash[b.hash], b.hash, n)
             THEN Reorganize(stored, b.hash)
        ELSE [stored EXCEPT !.mempool = RemoveConfirmed(@, b.tx_hashes)]

\* Blockchain.add_block: the node afterwards; it returns Accepts(n, b).
AddBlock(n, b) ==
    LET stored == Store(n, b)
    IN  IF ~ Accepts(n, b) THEN n
        ELSE IF b.prev_hash = n.tip THEN ExtendTip(stored, b)
        ELSE IF Preferred(stored.height_by_hash[b.hash], b.hash, n)
             THEN Reorganize(stored, b.hash)
        ELSE stored

-----------------------------------------------------------------------------
(***************************************************************************)
(* BlockchainCommunity._connect_orphans and add_block.                     *)
(***************************************************************************)

\* Positions of the buffered orphans whose parent is h.
OrphansOf(pending, h) == {i \in 1 .. Len(pending) : pending[i].prev_hash = h}

First(I) == CHOOSE i \in I : \A j \in I : i <= j

\* Mutated: a connected orphan does not join the worklist.
ConnectStep_notTransitive(s) ==
    IF s.work = <<>> THEN s
    ELSE LET orphans == OrphansOf(s.node.pending_blocks, Head(s.work))
             i       == First(orphans)
         IN  IF orphans = {} THEN [s EXCEPT !.work = Tail(@)]
             ELSE [s EXCEPT !.node = AddBlock([@ EXCEPT !.pending_blocks = RemoveAt(@, i)],
                                              @.pending_blocks[i])]

\* One turn of the worklist loop: the first orphan of the parent at the head of
\* the worklist leaves the buffer and, unless its hash is in the tree, goes to
\* Blockchain.add_block (whose result the code ignores) and joins the worklist;
\* a parent with no orphan left is dropped.
ConnectStep(s) ==
    IF s.work = <<>> THEN s
    ELSE LET n       == s.node
             orphans == OrphansOf(n.pending_blocks, Head(s.work))
             i       == First(orphans)
             b       == n.pending_blocks[i]
             popped  == [n EXCEPT !.pending_blocks = RemoveAt(@, i)]
         IN  IF orphans = {} THEN [s EXCEPT !.work = Tail(@)]
             ELSE IF b.hash \in DOMAIN n.blocks THEN [s EXCEPT !.node = popped]
             ELSE [node |-> AddBlock(popped, b), work |-> Append(s.work, b.hash)]

\* Each orphan costs at most two turns, and root one.
ConnectOrphans(n, root) ==
    LET turns == 2 * Len(n.pending_blocks) + 1
        run[i \in 0 .. turns] ==
            IF i = 0 THEN [node |-> n, work |-> <<root>>] ELSE ConnectStep(run[i - 1])
    IN  run[turns].node

\* pending_blocks[b.hash] = b: a new key goes last, an old one keeps its place.
BufferOrphan(pending, b) ==
    LET same == {i \in 1 .. Len(pending) : pending[i].hash = b.hash}
    IN  IF same = {} THEN Append(pending, b)
        ELSE [pending EXCEPT ![First(same)] = b]

\* Mutated: the buffer takes one orphan too many.
IntegrateBlock_overCap(n, b) ==
    IF b.prev_hash \notin DOMAIN n.blocks
    THEN IF Len(n.pending_blocks) <= PendingCap
         THEN [n EXCEPT !.pending_blocks = BufferOrphan(@, b)]
         ELSE n
    ELSE IF Accepts(n, b) THEN ConnectOrphans(AddBlock(n, b), b.hash)
    ELSE n

\* Mutated: an orphan is dropped and not buffered.
IntegrateBlock_noBuffer(n, b) ==
    IF Accepts(n, b) THEN ConnectOrphans(AddBlock(n, b), b.hash) ELSE n

\* BlockchainCommunity.add_block, for a block mined here or received.
IntegrateBlock(n, b) ==
    IF b.prev_hash \notin DOMAIN n.blocks
    THEN IF Len(n.pending_blocks) < PendingCap
         THEN [n EXCEPT !.pending_blocks = BufferOrphan(@, b)]
         ELSE n
    ELSE IF Accepts(n, b) THEN ConnectOrphans(AddBlock(n, b), b.hash)
    ELSE n
=============================================================================
