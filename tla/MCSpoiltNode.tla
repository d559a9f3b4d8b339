---------------------------- MODULE MCSpoiltNode ----------------------------
(***************************************************************************)
(* Worlds for ChainNode in which at most one block fails                   *)
(* Blockchain.validate_block, while the blocks above it are themselves     *)
(* well formed.                                                            *)
(***************************************************************************)
EXTENDS MCChainNode

\* The ways to fail: a difficulty below the floor, a hash that misses the floor,
\* one that misses the header's own difficulty, and a body the header does not
\* commit to.
Spoil(b, way) ==
    CASE way = "none"    -> b
      [] way = "cheap"   -> [b EXCEPT !.difficulty = @ - 1]
      [] way = "no work" -> [b EXCEPT !.zeros = @ - 1]
      [] way = "claims"  -> [b EXCEPT !.difficulty = @ + 1]
      [] way = "body"    -> [b EXCEPT !.tx_hashes = Tx \ @]

MCSpoiltWorlds ==
    {{IF h = bad THEN Spoil(MakeBlock(h, p[h], {}), way) ELSE MakeBlock(h, p[h], {}) :
        h \in 1 .. N} :
            p \in Trees, bad \in 1 .. N,
            way \in {"none", "cheap", "no work", "claims", "body"}}

ASSUME SpoiltAssumption == HonestWorlds
=============================================================================
