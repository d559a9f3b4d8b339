--------------------------- MODULE MCProofOfWork ----------------------------
(***************************************************************************)
(* Bytes of two bits, longs of two bytes, ints of one: nonces are 0 to 15, *)
(* difficulties 0 to 3, and the longs of a message -8 to 7.  A chunk of 3  *)
(* does not divide the 16 nonces.                                          *)
(***************************************************************************)
EXTENDS ProofOfWork

MCDigest == [1 .. 2 -> Byte]

MCNow == {3, 9}

Prev(length) == [i \in 1 .. length |-> 0]

\* Numbers on both sides of every boundary, hashes of the right and of a wrong length.
ForeignHeader ==
    [prev_hash : {Prev(1), Prev(2)}, txs_hash : {Prev(2)}, timestamp : {-8, 7},
     difficulty : {-1, 0, 3, 4}, nonce : {-1, 7}]

\* Blobs of two hashes, and of one and a half.
Blob == {Prev(4), Prev(3)}

\* The hash is that of the header, computed with what of its numbers fits, or of
\* another nonce.
MCForeign ==
    {[header |-> h, block_hash |-> PackHeader([h EXCEPT !.nonce = @ + k]), tx_hashes |-> b] :
        h \in ForeignHeader, k \in {0, 1}, b \in Blob}

\* A miner's search and its blocks, two foreign blocks, and Lab 1.
MCBounds ==
    {[finds |-> 1, foreign |-> 0, tips |-> 1, labs |-> 0],
     [finds |-> 0, foreign |-> 2, tips |-> 0, labs |-> 0],
     [finds |-> 0, foreign |-> 0, tips |-> 0, labs |-> 1]}
=============================================================================
