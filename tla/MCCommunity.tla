---------------------------- MODULE MCCommunity -----------------------------
(***************************************************************************)
(* Settings of BlockchainCommunity: who runs a node, what each miner can   *)
(* find, and what else happens from outside.                               *)
(***************************************************************************)
EXTENDS BlockchainCommunity

CONSTANTS n1, n2, n3

\* What the miners of the three nodes find.
Find(first, second, third) == (n1 :> first) @@ (n2 :> second) @@ (n3 :> third)

Pair == {n1, n2}

Setting(up, finds, txs) ==
    [up |-> up, finds |-> finds, txs |-> txs, late |-> FALSE, crashes |-> 0]

OneEach == Find({1}, {2}, {3})

\* One node may mine two blocks and the other one, which wins a tie at height 1.
TwoAndOne == Find({2, 3}, {1}, {})

\* Either of two may mine two: forks of depth 2 that tie.
TwoEach == Find({1, 4}, {2, 3}, {})

\* Two nodes with a block each and a transaction, or with three blocks.
MCLossy == {Setting(Pair, OneEach, Tx), Setting(Pair, TwoAndOne, {})}

\* Three nodes that mined a block each; two with forks of depth 2 and a crash; two
\* that may each find a block at any moment; and two with a transaction and a block
\* that may be found at any moment.
MCAgree ==
    {Setting(Node, OneEach, {}),
     [Setting(Pair, TwoEach, {}) EXCEPT !.crashes = 1],
     [Setting(Pair, OneEach, {}) EXCEPT !.late = TRUE],
     [Setting(Pair, Find({1}, {}, {}), Tx) EXCEPT !.late = TRUE]}

MCPair == {Setting(Pair, OneEach, {})}

MCDeep == {Setting(Pair, TwoEach, {})}
=============================================================================
