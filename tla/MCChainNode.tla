---------------------------- MODULE MCChainNode -----------------------------
(***************************************************************************)
(* Worlds for ChainNode: every tree of N blocks over genesis, for every    *)
(* order of their hashes and every choice of bodies.                       *)
(***************************************************************************)
EXTENDS ChainNode

CONSTANT N    \* how many blocks the network holds

\* The parent functions that lead every block back to genesis.
Trees ==
    {p \in [1 .. N -> {GenesisHash} \cup 1 .. N] :
        \A S \in SUBSET (1 .. N) : S # {} => \E h \in S : p[h] \notin S}

MakeBlock(h, prev, body) ==
    [hash |-> h, prev_hash |-> prev, difficulty |-> Difficulty,
     zeros |-> Difficulty, txs_hash |-> body, tx_hashes |-> body]

MCWorlds ==
    {{MakeBlock(h, p[h], body[h]) : h \in 1 .. N} :
        p \in Trees, body \in [1 .. N -> SUBSET Tx]}
=============================================================================
