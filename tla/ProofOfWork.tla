---------------------------- MODULE ProofOfWork -----------------------------
(***************************************************************************)
(* The two nonce searches of the repository, and what becomes of the       *)
(* headers of one of them: a node searches in chunks of nonces, between    *)
(* which its tip may change (_mine_loop, mine_nonce), and serves what it   *)
(* found to others, that check it and serve it on (on_get_block,           *)
(* on_block_response).  The other search is Lab 1's, whose result goes to  *)
(* a file and from there, checked again, to the server, once.              *)
(*                                                                         *)
(* The digest of a try is any digest.  Blocks that other programs send are *)
(* any messages the wire format allows.  Whether the parent is known, and  *)
(* the proof of work of a received block, are the business of module       *)
(* Blockchain.                                                             *)
(***************************************************************************)
EXTENDS BlockFormat

CONSTANTS Node, Miner,
          Digest,         \* the digests that tries may have
          Target,         \* config.DIFFICULTY, and Lab 1's difficulty
          Chunk,          \* config.MINE_CHUNK
          Now,            \* what the clock may read
          Foreign,        \* what other programs may send
          Bounds          \* how many blocks are found and how many foreign ones sent,
                          \* how often the tip changes, how many Lab 1 searches there are

ASSUME PowAssumption ==
    /\ Miner \in Node /\ Chunk \in Nat \ {0}
    /\ Target \in Uint(IntWidth) /\ Now \subseteq Uint(LongWidth)
    /\ Digest \subseteq Hash
    /\ \A w \in Foreign : w \in BlockMessage /\ Encodable(w.header)
    /\ Bounds \subseteq [finds : Nat, foreign : Nat, tips : Nat, labs : Nat]

VARIABLES search,     \* the miner's search for a nonce
          held,       \* held[n]: the blocks of n, each with the message it came in,
                      \* or the digest it was found with, as sets
          wire,       \* the blocks in flight
          lab,        \* the state of the Lab 1 scripts
          bounds      \* what is left of the bounds

vars == <<search, held, wire, lab, bounds>>

NewSearch(now) == [timestamp |-> now, nonce |-> 0, tried |-> {}]

Init ==
    /\ \E now \in Now : search = NewSearch(now)
    /\ held = [n \in Node |-> {}]
    /\ wire = {}
    /\ lab = [nonce |-> 0, record |-> {}, sent |-> {}]
    /\ bounds \in Bounds

-----------------------------------------------------------------------------
(***************************************************************************)
(* The search of a node.  tried (history) are the nonces tried with this   *)
(* timestamp.                                                              *)
(***************************************************************************)

\* The i-th nonce mine_nonce tries, from 0; nonces wrap around.
Nth(i) == (search.nonce + i) % 2 ^ (ByteBits * LongWidth)

FirstTries(n) == {Nth(i) : i \in 0 .. n - 1}

Header(nonce) ==
    [prev_hash |-> [i \in 1 .. HashWidth |-> 0], txs_hash |-> [i \in 1 .. HashWidth |-> 1],
     timestamp |-> search.timestamp, difficulty |-> Target, nonce |-> nonce]

Body == <<[i \in 1 .. HashWidth |-> 1], [i \in 1 .. HashWidth |-> 0]>>

\* The chunk has a nonce; the search for the next block starts over.
ChunkFinds ==
    \E i \in 0 .. Chunk - 1, digest \in Digest, now \in Now :
        /\ bounds.finds > 0 /\ HasValidPow(digest, Target)
        /\ bounds' = [bounds EXCEPT !.finds = @ - 1]
        /\ held' = [held EXCEPT ![Miner] = @ \cup
                      {[block  |-> [header |-> Header(Nth(i)), tx_hashes |-> Body],
                        from   |-> {}, digest |-> {digest}]}]
        /\ search' = NewSearch(now)
        /\ UNCHANGED <<wire, lab>>

\* Mutated: the next chunk starts one further.
NextNonce_skips(nonce) == nonce + Chunk + 1

NextNonce(nonce) == nonce + Chunk

\* It has not: go on with the next, and with a new timestamp at the end.
ChunkFails ==
    /\ \E digest \in Digest : ~ HasValidPow(digest, Target)
    /\ LET next == NextNonce(search.nonce)
       IN  IF next \in Uint(LongWidth)
           THEN search' = [search EXCEPT !.nonce = next, !.tried = @ \cup FirstTries(Chunk)]
           ELSE \E now \in Now : search' = NewSearch(now)
    /\ UNCHANGED <<held, wire, lab, bounds>>

\* The tip changed while the loop yielded.
TipChanges ==
    /\ bounds.tips > 0
    /\ bounds' = [bounds EXCEPT !.tips = @ - 1]
    /\ \E now \in Now : search' = NewSearch(now)
    /\ UNCHANGED <<held, wire, lab>>

-----------------------------------------------------------------------------
(***************************************************************************)
(* Blocks on the wire.                                                     *)
(***************************************************************************)

\* on_get_block; packing a number that does not fit raises, and nothing is sent.
OnGetBlock(n) ==
    \E r \in held[n] :
        /\ Encodable(r.block.header)
        /\ wire' = wire \cup {Encode(r.block)}
        /\ UNCHANGED <<search, held, lab, bounds>>

OnBlockResponse(n, w) ==
    /\ wire' = wire \ {w}
    /\ held' = [held EXCEPT ![n] =
                  IF Acceptable(w) THEN @ \cup {[block |-> Decode(w), from |-> {w}, digest |-> {}]}
                  ELSE @]
    /\ UNCHANGED <<search, lab, bounds>>

SendForeign ==
    /\ bounds.foreign > 0
    /\ bounds' = [bounds EXCEPT !.foreign = @ - 1]
    /\ \E w \in Foreign : wire' = wire \cup {w}
    /\ UNCHANGED <<search, held, lab>>

-----------------------------------------------------------------------------
(***************************************************************************)
(* Lab 1.                                                                  *)
(***************************************************************************)

\* Mutated: nonces go up to the unsigned maximum.
InLabRange_unsigned(nonce) == nonce \in Uint(LongWidth)

InLabRange(nonce) == nonce >= 0 /\ nonce \in Sint(LongWidth)

\* mine_nonce of mine_pow: the next try; out of range, it raises.
LabTry ==
    /\ bounds.labs > 0 /\ lab.record = {} /\ InLabRange(lab.nonce)
    /\ \E digest \in Digest :
         lab' = IF CountZeroBits(digest) >= Target
                THEN [lab EXCEPT !.record = {[nonce |-> lab.nonce, digest |-> digest]}]
                ELSE [lab EXCEPT !.nonce = @ + 1]
    /\ UNCHANGED <<search, held, wire, bounds>>

\* validate_pow_record, and find_server_peer once the server is there.  The record is
\* the one mine_nonce wrote, so its digest is that of its nonce and the comparison of
\* the two never fails.
LabSubmit ==
    /\ lab.sent = {}
    /\ \E r \in lab.record :
         /\ InLabRange(r.nonce) /\ CountZeroBits(r.digest) >= Target
         /\ lab' = [lab EXCEPT !.sent = {r}]
    /\ UNCHANGED <<search, held, wire, bounds>>

Next ==
    \/ ChunkFinds \/ ChunkFails \/ TipChanges
    \/ \E n \in Node : OnGetBlock(n)
    \/ \E n \in Node : \E w \in wire : OnBlockResponse(n, w)
    \/ SendForeign
    \/ LabTry \/ LabSubmit

Spec == Init /\ [][Next]_vars

-----------------------------------------------------------------------------
(***************************************************************************)
(* Properties.                                                             *)
(***************************************************************************)

\* The digest has n leading zero bits as a number: the reference for both ways of
\* counting them.
Meets(digest, n) ==
    MapThenSumSet(LAMBDA i : digest[i] * 2 ^ (ByteBits * (Len(digest) - i)), DOMAIN digest)
        < 2 ^ (ByteBits * Len(digest) - n)

\* Type invariant: among the rest, what is held can be packed, and a nonce out of the
\* range of its field is never searched.
PowTypeOK ==
    /\ search.timestamp \in Uint(LongWidth) /\ search.nonce \in Uint(LongWidth)
    /\ search.tried = 0 .. search.nonce - 1
    /\ \A n \in Node : \A r \in held[n] : Packable(r.block.header)
    /\ lab.nonce \in Uint(LongWidth)

\* A search gives up its timestamp only when it has tried every nonce with it, or the
\* tip has changed, or it has found one: the last chunk, which wraps around, leaves no
\* nonce out (mine_nonce, _mine_loop).
NothingSkipped ==
    [][ChunkFails /\ search'.nonce = 0
          => search.tried \cup FirstTries(Chunk) = Uint(LongWidth)]_vars

\* What the miner finds meets the target as a number, for every digest
\* (leading_zero_bits and has_valid_pow of blockchain_utils).
MinedMeetsTarget == \A r \in held[Miner] : \A digest \in r.digest : Meets(digest, Target)

\* What Lab 1 submits meets it too, by Lab 3's count as well as its own, and fits the
\* signed field of the submission (mine_nonce of mine_pow, validate_pow_record).
LabMeetsTarget ==
    \A r \in lab.sent : /\ Meets(r.digest, Target) /\ HasValidPow(r.digest, Target)
                         /\ r.nonce \in Sint(LongWidth)

\* Two headers that any nodes hold, however they got them, have the same bytes only if
\* they are the same: a hash names a header.  It rests on the ranges pack_block_header
\* refuses, since the fields of the message are wider than those of the header.
HashNamesHeader ==
    \A n, m \in Node : \A r \in held[n], s \in held[m] :
        PackHeader(r.block.header) = PackHeader(s.block.header)
            => r.block.header = s.block.header

\* A node that took a block from the network serves exactly the message it got: a
\* block does not change, nor get stuck, on its way through the nodes.
RelayFaithful ==
    \A n \in Node : \A r \in held[n] :
        \A w \in r.from : Encodable(r.block.header) /\ Encode(r.block) = w

\* A block is served, and taken unchanged by who gets it, exactly if its numbers fit
\* the signed fields of the message; one found with a nonce in the upper half of the
\* unsigned range would never leave the node that found it.
ServedIsTaken ==
    \A n \in Node : \A r \in held[n] :
        LET h == r.block.header
            half == 2 ^ (ByteBits * LongWidth - 1)
        IN  /\ Encodable(h) <=> (h.nonce < half /\ h.timestamp < half)
            /\ Encodable(h) => Acceptable(Encode(r.block)) /\ Decode(Encode(r.block)) = r.block
=============================================================================
