------------------------------- MODULE Ledger -------------------------------
(***************************************************************************)
(* What one node promises about its block tree, whatever the order in      *)
(* which blocks reach it: the tree holds the received blocks that connect  *)
(* to genesis, and the tip is the best of them.  Nothing here knows about  *)
(* orphan buffers, incremental extension or reorganisations.  A block is a *)
(* record with a hash and a prev_hash; only valid blocks are received.     *)
(***************************************************************************)
EXTENDS Integers, FiniteSets

CONSTANTS Root,          \* hash of the genesis block
          Block          \* the valid blocks there may be

VARIABLES received, tree, tip

vars == <<received, tree, tip>>

Hashes(B) == {b.hash : b \in B}

\* The hashes in R that a path of blocks of R leads to from Root.
Connected(R) ==
    {Root} \cup Hashes(UNION {S \in SUBSET R :
        \A b \in S : b.prev_hash \in {Root} \cup Hashes(S)})

\* The length of the path from Root to h.
Depth(R, h) ==
    Cardinality(CHOOSE p \in {S \in SUBSET R :
        IF h = Root THEN S = {}
        ELSE /\ h \in Hashes(S)
             /\ \A b \in S : b.prev_hash \in {Root} \cup Hashes(S)} :
                \A q \in SUBSET p : h \in Hashes(q) =>
                    \/ q = p
                    \/ \E b \in q : b.prev_hash \notin {Root} \cup Hashes(q))

\* The longest chain wins, and the smaller hash among the longest.
IsBest(R, h) ==
    /\ h \in Connected(R)
    /\ \A g \in Connected(R) :
        \/ Depth(R, g) < Depth(R, h)
        \/ Depth(R, g) = Depth(R, h) /\ h <= g

Init ==
    /\ received = {}
    /\ tree = {Root}
    /\ tip = Root

Receive(b) ==
    /\ received' = received \cup {b}
    /\ tree' = Connected(received')
    /\ tip' \in tree'
    /\ IsBest(received', tip')

Next == \E b \in Block : Receive(b)

Spec == Init /\ [][Next]_vars
=============================================================================
