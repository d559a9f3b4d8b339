---------------------------- MODULE BlockFormat -----------------------------
(***************************************************************************)
(* Bytes, header layout and leading zero bits (blockchain_utils), and the  *)
(* fields of a block on the wire, with the sizes as parameters: 8 bits to  *)
(* a byte, 32 bytes to a hash, 8 to a long and 4 to an int in the code.    *)
(*                                                                         *)
(* SHA-256 is taken to be collision-free: the digest of some bytes is      *)
(* identified with those bytes where only its identity matters.            *)
(***************************************************************************)
EXTENDS Integers, Sequences, FiniteSetsExt, SequencesExt

CONSTANTS ByteBits, HashWidth, LongWidth, IntWidth

ASSUME FormatAssumption ==
    /\ {ByteBits, HashWidth, LongWidth, IntWidth} \subseteq Nat \ {0}
    /\ IntWidth < LongWidth

Byte == 0 .. 2 ^ ByteBits - 1

\* Unsigned (Q, I) and signed (q) integers of so many bytes.
Uint(width) == 0 .. 2 ^ (ByteBits * width) - 1
Sint(width) == LET half == 2 ^ (ByteBits * width - 1) IN -half .. half - 1

BigEndian(v, width) ==
    [i \in 1 .. width |-> (v \div 2 ^ (ByteBits * (width - i))) % 2 ^ ByteBits]

-----------------------------------------------------------------------------
(***************************************************************************)
(* The header.                                                             *)
(***************************************************************************)

BlockHeader ==
    [prev_hash : Seq(Byte), txs_hash : Seq(Byte), timestamp : Int, difficulty : Int,
     nonce : Int]

IsHash(s) == Len(s) = HashWidth

Hash == {s \in Seq(Byte) : IsHash(s)}

\* Mutated: the difficulty is cut to its field instead of being refused.
Packable_cut(h) ==
    /\ IsHash(h.prev_hash) /\ IsHash(h.txs_hash)
    /\ h.timestamp \in Uint(LongWidth) /\ h.nonce \in Uint(LongWidth)
    /\ h.difficulty >= 0

\* The checks of pack_block_header; without them there is a ValueError.
Packable(h) ==
    /\ IsHash(h.prev_hash) /\ IsHash(h.txs_hash)
    /\ h.timestamp \in Uint(LongWidth) /\ h.nonce \in Uint(LongWidth)
    /\ h.difficulty \in Uint(IntWidth)

PackHeader(h) ==
    h.prev_hash \o h.txs_hash \o BigEndian(h.timestamp, LongWidth)
        \o BigEndian(h.difficulty, IntWidth) \o BigEndian(h.nonce, LongWidth)

JoinHashes(hashes) == FlattenSeq(hashes)

Splittable(blob) == Len(blob) % HashWidth = 0

SplitHashes(blob) ==
    [i \in 1 .. Len(blob) \div HashWidth |->
        SubSeq(blob, (i - 1) * HashWidth + 1, i * HashWidth)]

-----------------------------------------------------------------------------
(***************************************************************************)
(* Proof of work.                                                          *)
(***************************************************************************)

BitLength(b) == Min({k \in 0 .. ByteBits : b < 2 ^ k})

NonZero(digest) == {i \in DOMAIN digest : digest[i] # 0}

\* Mutated: a byte that is not zero does not end the count.
LeadingZeroBits_noBreak(digest) ==
    MapThenSumSet(LAMBDA i : ByteBits - BitLength(digest[i]), DOMAIN digest)

\* leading_zero_bits of blockchain_utils.
LeadingZeroBits(digest) ==
    IF NonZero(digest) = {} THEN ByteBits * Len(digest)
    ELSE LET i == Min(NonZero(digest)) IN ByteBits * i - BitLength(digest[i])

\* The set bits of the digest, as the byte and the bit in it, 0 being the lowest.
SetBits(digest) ==
    {p \in (DOMAIN digest) \X (0 .. ByteBits - 1) : (digest[p[1]] \div 2 ^ p[2]) % 2 = 1}

\* Mutated: bits are looked at from the lowest up.
CountZeroBits_lowest(digest) ==
    IF SetBits(digest) = {} THEN ByteBits * Len(digest)
    ELSE Min({ByteBits * (p[1] - 1) + p[2] : p \in SetBits(digest)})

\* leading_zero_bits of Lab 1's mine_pow.
CountZeroBits(digest) ==
    IF SetBits(digest) = {} THEN ByteBits * Len(digest)
    ELSE Min({ByteBits * p[1] - 1 - p[2] : p \in SetBits(digest)})

HasValidPow(digest, difficulty) == LeadingZeroBits(digest) >= difficulty

-----------------------------------------------------------------------------
(***************************************************************************)
(* A block on the wire (BlockResponsePayload).                             *)
(***************************************************************************)

BlockMessage == [header : BlockHeader, block_hash : Seq(Byte), tx_hashes : Seq(Byte)]

WireLongs(h) == {h.timestamp, h.difficulty, h.nonce}

\* Whether the three numbers can be packed in the signed fields of the message.
Encodable(h) == WireLongs(h) \subseteq Sint(LongWidth)

\* Mutated: the hash is that of the block before.
Encode_wrongHash(b) ==
    [header |-> b.header, block_hash |-> PackHeader([b.header EXCEPT !.nonce = 0]),
     tx_hashes |-> JoinHashes(b.tx_hashes)]

Encode(b) ==
    [header |-> b.header, block_hash |-> PackHeader(b.header),
     tx_hashes |-> JoinHashes(b.tx_hashes)]

\* Mutated: the hash the message claims is not compared.
Acceptable_noHash(w) ==
    /\ IsHash(w.header.prev_hash) /\ IsHash(w.header.txs_hash)
    /\ Splittable(w.tx_hashes)
    /\ Packable(w.header)

\* The checks of on_block_response.
Acceptable(w) ==
    /\ IsHash(w.header.prev_hash) /\ IsHash(w.header.txs_hash)
    /\ Splittable(w.tx_hashes)
    /\ Packable(w.header)
    /\ PackHeader(w.header) = w.block_hash

Decode(w) == [header |-> w.header, tx_hashes |-> SplitHashes(w.tx_hashes)]
=============================================================================
