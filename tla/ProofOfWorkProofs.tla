------------------------- MODULE ProofOfWorkProofs --------------------------
(***************************************************************************)
(* The block format and the searches for a nonce, for every size of bytes, *)
(* hashes and fields, any digests, clocks, chunks and messages.            *)
(***************************************************************************)
EXTENDS ProofOfWork, FiniteSetTheorems, FunctionTheorems, SequenceTheorems,
        WellFoundedInduction, TLAPS

-----------------------------------------------------------------------------
(***************************************************************************)
(* Powers of two, as the sizes of power sets, and division.                *)
(***************************************************************************)

\* A power of two is a positive number.
LEMMA PowerPositive ==
    ASSUME NEW n \in Nat
    PROVE  2 ^ n \in Nat \ {0}
<1>1. IsFiniteSet(1 .. n) /\ Cardinality(1 .. n) = n
  BY FS_Interval
<1>2. IsFiniteSet(SUBSET (1 .. n)) /\ Cardinality(SUBSET (1 .. n)) = 2 ^ n
  BY <1>1, FS_SUBSET
<1>3. Cardinality(SUBSET (1 .. n)) \in Nat /\ Cardinality(SUBSET (1 .. n)) # 0
  <2>1. SUBSET (1 .. n) # {}
    OBVIOUS
  <2> QED BY <1>2, <2>1, FS_CardinalityType, FS_EmptySet
<1> QED BY <1>2, <1>3

\* The subsets of a disjoint union are the pairs of subsets of its parts.
LEMMA PowerSum ==
    ASSUME NEW m \in Nat, NEW n \in Nat
    PROVE  2 ^ (m + n) = 2 ^ m * 2 ^ n
<1> DEFINE A == 1 .. m
           C == m + 1 .. m + n
           U == 1 .. m + n
           P == (SUBSET A) \X (SUBSET C)
           f == [S \in SUBSET U |-> <<S \cap A, S \cap C>>]
<1>1. /\ IsFiniteSet(A) /\ Cardinality(A) = m
      /\ IsFiniteSet(C) /\ Cardinality(C) = n
      /\ IsFiniteSet(U) /\ Cardinality(U) = m + n
  <2>1. m \in Int /\ n \in Int /\ m + n \in Int /\ m + 1 \in Int /\ 1 \in Int
    OBVIOUS
  <2>2. IsFiniteSet(A) /\ Cardinality(A) = m
    BY <2>1, FS_Interval
  <2>3. IsFiniteSet(C) /\ Cardinality(C) = n
    <3>1. IsFiniteSet(C) /\ Cardinality(C) = IF m + 1 > m + n THEN 0 ELSE m + n - (m + 1) + 1
      BY <2>1, FS_Interval
    <3> QED BY <3>1
  <2>4. IsFiniteSet(U) /\ Cardinality(U) = m + n
    <3>1. IsFiniteSet(U) /\ Cardinality(U) = IF 1 > m + n THEN 0 ELSE m + n - 1 + 1
      BY <2>1, FS_Interval
    <3> QED BY <3>1
  <2> QED BY <2>2, <2>3, <2>4
<1>2. U = A \cup C
  OBVIOUS
<1> HIDE DEF A, C, U
<1>3. /\ IsFiniteSet(SUBSET A) /\ Cardinality(SUBSET A) = 2 ^ m
      /\ IsFiniteSet(SUBSET C) /\ Cardinality(SUBSET C) = 2 ^ n
      /\ IsFiniteSet(SUBSET U) /\ Cardinality(SUBSET U) = 2 ^ (m + n)
  BY <1>1, FS_SUBSET
<1>4. Cardinality(P) = 2 ^ m * 2 ^ n
  <2>1. Cardinality((SUBSET A) \X (SUBSET C)) = Cardinality(SUBSET A) * Cardinality(SUBSET C)
    BY <1>3, FS_Product
  <2> QED BY <1>3, <2>1
<1>5. f \in Bijection(SUBSET U, P)
  <2>1. f \in [SUBSET U -> P]
    OBVIOUS
  <2>2. \A S, T \in SUBSET U : f[S] = f[T] => S = T
    BY <1>2
  <2>3. \A p \in P : \E S \in SUBSET U : f[S] = p
    <3> TAKE p \in P
    <3> DEFINE S == p[1]
               T == p[2]
    <3>2. S \in SUBSET A /\ T \in SUBSET C /\ p = <<S, T>>
      OBVIOUS
    <3>1. A \cap C = {}
      BY DEF A, C
    <3>3. S \cup T \in SUBSET U /\ (S \cup T) \cap A = S /\ (S \cup T) \cap C = T
      BY <1>2, <3>1, <3>2
    <3> QED BY <3>2, <3>3
  <2> HIDE DEF f, P
  <2> QED BY <2>1, <2>2, <2>3, Fun_IsBij
<1> HIDE DEF f, P
<1>6. ExistsBijection(SUBSET U, P)
  BY <1>5 DEF ExistsBijection
<1> QED BY <1>3, <1>4, <1>6, FS_Bijection

\* Quotient and remainder are unique.
LEMMA DivideUnique ==
    ASSUME NEW a \in Nat, NEW m \in Nat \ {0}, NEW r \in 0 .. m - 1
    PROVE  (a * m + r) \div m = a /\ (a * m + r) % m = r
OBVIOUS

\* Quotient and remainder are numbers, and make up what was divided.
LEMMA DivideType ==
    ASSUME NEW v \in Nat, NEW m \in Nat \ {0}
    PROVE  /\ v \div m \in Nat /\ v % m \in 0 .. m - 1
           /\ v = (v \div m) * m + (v % m)
OBVIOUS

\* A non-empty set of naturals has a least element.
LEMMA LeastNatural ==
    ASSUME NEW T \in SUBSET Nat, T # {}
    PROVE  \E x \in T : \A y \in T : x <= y
<1> DEFINE less == {p \in Nat \X Nat : p[1] < p[2]}
<1>1. IsWellFoundedOn(less, Nat)
  BY NatLessThanWellFounded DEF OpToRel
<1>2. PICK x \in T : \A y \in T : ~ (<<y, x>> \in less)
  <2> HIDE DEF less
  <2> QED BY <1>1, WFMin
<1>3. \A y \in T : ~ (y < x)
  BY <1>2
<1> QED BY <1>3

\* The parameters as numbers.
LEMMA Sizes ==
    /\ ByteBits \in Nat \ {0} /\ HashWidth \in Nat \ {0}
    /\ LongWidth \in Nat \ {0} /\ IntWidth \in Nat \ {0} /\ IntWidth < LongWidth
BY FormatAssumption

-----------------------------------------------------------------------------
(***************************************************************************)
(* The bytes of a number determine it.                                     *)
(***************************************************************************)

\* The weight of a byte with j bytes below it.
Weight(j) == 2 ^ (ByteBits * j)

\* Each byte weighs as much as all values of the byte below it.
LEMMA WeightStep ==
    ASSUME NEW j \in Nat
    PROVE  /\ Weight(j) \in Nat \ {0} /\ Weight(j + 1) = 2 ^ ByteBits * Weight(j)
           /\ 2 ^ ByteBits \in Nat \ {0}
<1>1. ByteBits \in Nat /\ ByteBits * j \in Nat /\ ByteBits * (j + 1) = ByteBits + ByteBits * j
  BY Sizes
<1>2. 2 ^ (ByteBits + ByteBits * j) = 2 ^ ByteBits * 2 ^ (ByteBits * j)
  BY <1>1, PowerSum
<1> QED BY <1>1, <1>2, PowerPositive DEF Weight

\* The last byte counts once.
LEMMA WeightZero == Weight(0) = 1
<1> DEFINE p == 2 ^ 0
<1>1. p \in Nat \ {0}
  BY PowerPositive
<1>2. p = p * p
  <2>1. 0 + 0 = 0
    OBVIOUS
  <2>2. 2 ^ (0 + 0) = p * p
    BY PowerSum
  <2> QED BY <2>1, <2>2
<1> HIDE DEF p
<1>3. p = 1
  BY <1>1, <1>2
<1>4. ByteBits * 0 = 0
  BY Sizes
<1> QED BY <1>3, <1>4 DEF Weight, p

\* What is above a byte, and the byte, give what is from it on.
LEMMA NextByte ==
    ASSUME NEW v \in Nat, NEW j \in Nat
    PROVE  v \div Weight(j) =
             (v \div Weight(j + 1)) * 2 ^ ByteBits + ((v \div Weight(j)) % 2 ^ ByteBits)
<1> DEFINE P == Weight(j)
           B == 2 ^ ByteBits
           q == v \div P
           r == v % P
           a == q \div B
           d == q % B
<1>1. P \in Nat \ {0} /\ B \in Nat \ {0} /\ Weight(j + 1) = B * P
  BY WeightStep
<1> HIDE DEF P, B
<1>2. q \in Nat /\ r \in 0 .. P - 1 /\ v = q * P + r
  BY <1>1, DivideType
<1> HIDE DEF q, r
<1>3. a \in Nat /\ d \in 0 .. B - 1 /\ q = a * B + d
  BY <1>1, <1>2, DivideType
<1> HIDE DEF a, d
<1>4. v = a * (B * P) + (d * P + r)
  <2>1. v = (a * B + d) * P + r
    BY <1>2, <1>3
  <2> QED BY <1>1, <1>2, <1>3, <2>1
<1>5. d * P + r \in 0 .. B * P - 1
  <2>1. d * P <= (B - 1) * P
    BY <1>1, <1>3
  <2>2. d * P \in Nat /\ B * P \in Nat /\ (B - 1) * P = B * P - P
    BY <1>1, <1>3
  <2> QED BY <1>1, <1>2, <2>1, <2>2
<1>6. B * P \in Nat \ {0}
  BY <1>1
<1>7. v \div (B * P) = a
  BY <1>3, <1>4, <1>5, <1>6, DivideUnique
<1>8. q = (v \div Weight(j + 1)) * B + d
  BY <1>1, <1>3, <1>7
<1> QED BY <1>8 DEF P, B, q, d

\* BigEndian gives so many bytes, each the digit at its weight.
LEMMA BigEndianBytes ==
    ASSUME NEW v \in Nat, NEW width \in Nat
    PROVE  /\ BigEndian(v, width) \in Seq(Byte) /\ Len(BigEndian(v, width)) = width
           /\ \A i \in 1 .. width :
                BigEndian(v, width)[i] = (v \div Weight(width - i)) % 2 ^ ByteBits
<1>1. \A i \in 1 .. width : (v \div Weight(width - i)) % 2 ^ ByteBits \in Byte
  <2> TAKE i \in 1 .. width
  <2>1. width - i \in Nat
    OBVIOUS
  <2>2. Weight(width - i) \in Nat \ {0} /\ 2 ^ ByteBits \in Nat \ {0}
    BY <2>1, WeightStep
  <2>3. v \div Weight(width - i) \in Nat
    BY <2>2, DivideType
  <2> QED BY <2>2, <2>3, DivideType DEF Byte
<1>2. BigEndian(v, width) = [i \in 1 .. width |-> (v \div Weight(width - i)) % 2 ^ ByteBits]
  BY DEF BigEndian, Weight
<1> QED BY <1>1, <1>2

\* A number that fits its field is determined by the bytes of the field.
LEMMA BigEndianInjective ==
    ASSUME NEW width \in Nat, NEW u \in Uint(width), NEW v \in Uint(width),
           BigEndian(u, width) = BigEndian(v, width)
    PROVE  u = v
<1> DEFINE Differ == {k \in 0 .. width : u \div Weight(width - k) # v \div Weight(width - k)}
<1>1. u \in 0 .. Weight(width) - 1 /\ v \in 0 .. Weight(width) - 1 /\ Weight(width) \in Nat \ {0}
  BY WeightStep DEF Uint, Weight
<1>2. Differ = {}
  <2> SUFFICES ASSUME Differ # {} PROVE FALSE
    OBVIOUS
  <2>1. PICK k \in Differ : \A l \in Differ : k <= l
    <3>1. Differ \in SUBSET Nat
      OBVIOUS
    <3> HIDE DEF Differ
    <3> QED BY <3>1, LeastNatural
  <2>2. k # 0
    <3>1. \A x \in 0 .. Weight(width) - 1 : x \div Weight(width) = 0
      <4> TAKE x \in 0 .. Weight(width) - 1
      <4>1. (0 * Weight(width) + x) \div Weight(width) = 0
        BY <1>1, DivideUnique
      <4>2. 0 * Weight(width) + x = x
        BY <1>1
      <4> QED BY <4>1, <4>2
    <3>2. width - 0 = width
      OBVIOUS
    <3> QED BY <1>1, <2>1, <3>1, <3>2
  <2> DEFINE j == width - k
  <2>3. k \in 1 .. width /\ j \in Nat /\ j + 1 = width - (k - 1) /\ k - 1 \in 0 .. width
    BY <2>1, <2>2
  <2>4. u \div Weight(j + 1) = v \div Weight(j + 1)
    <3>1. k - 1 \notin Differ
      BY <2>1, <2>3
    <3> QED BY <2>3, <3>1
  <2>5. (u \div Weight(j)) % 2 ^ ByteBits = (v \div Weight(j)) % 2 ^ ByteBits
    <3>1. \A x \in Nat : BigEndian(x, width)[k] = (x \div Weight(width - k)) % 2 ^ ByteBits
      BY <2>3, BigEndianBytes
    <3>2. u \in Nat /\ v \in Nat
      BY <1>1
    <3> QED BY <3>1, <3>2, Zenon
  <2>6. u \div Weight(j) # v \div Weight(j)
    BY <2>1
  <2> HIDE DEF j
  <2>7. /\ u \div Weight(j) =
             (u \div Weight(j + 1)) * 2 ^ ByteBits + ((u \div Weight(j)) % 2 ^ ByteBits)
        /\ v \div Weight(j) =
             (v \div Weight(j + 1)) * 2 ^ ByteBits + ((v \div Weight(j)) % 2 ^ ByteBits)
    BY <1>1, <2>3, NextByte
  <2> QED BY <2>4, <2>5, <2>6, <2>7, Zenon
<1>3. \A x \in Nat : x \div Weight(0) = x
  BY WeightZero
<1>4. width \in 0 .. width /\ width - width = 0
  OBVIOUS
<1>5. u \div Weight(0) = v \div Weight(0)
  <2>1. u \div Weight(width - width) = v \div Weight(width - width)
    BY <1>2, <1>4
  <2> QED BY <1>4, <2>1
<1> QED BY <1>1, <1>3, <1>5

-----------------------------------------------------------------------------
(***************************************************************************)
(* The bytes of a header determine it.                                     *)
(***************************************************************************)

\* Concatenations whose second parts have one length agree part by part.
LEMMA ConcatCancel ==
    ASSUME NEW S, NEW a \in Seq(S), NEW b \in Seq(S), NEW c \in Seq(S), NEW d \in Seq(S),
           Len(c) = Len(d), a \o c = b \o d
    PROVE  a = b /\ c = d
<1>1. Len(a) = Len(b) /\ Len(a) \in Nat /\ Len(c) \in Nat
  BY ConcatProperties, LenProperties
<1>2. \A i \in 1 .. Len(a) : a[i] = b[i]
  <2> TAKE i \in 1 .. Len(a)
  <2>1. i \in 1 .. Len(a) + Len(c)
    BY <1>1
  <2>2. (a \o c)[i] = a[i] /\ (b \o d)[i] = b[i]
    BY <1>1, <2>1, ConcatProperties
  <2> QED BY <2>2
<1>3. \A i \in 1 .. Len(c) : c[i] = d[i]
  <2> TAKE i \in 1 .. Len(c)
  <2>1. /\ Len(a) + i \in 1 .. Len(a) + Len(c) /\ ~ (Len(a) + i <= Len(a))
        /\ Len(a) + i - Len(a) = i
    BY <1>1
  <2>2. (a \o c)[Len(a) + i] = c[Len(a) + i - Len(a)]
    BY <2>1, ConcatProperties
  <2>3. (b \o d)[Len(a) + i] = d[Len(a) + i - Len(a)]
    BY <1>1, <2>1, ConcatProperties
  <2> QED BY <2>1, <2>2, <2>3
<1> QED BY <1>1, <1>2, <1>3, SeqEqual

\* The parts of a header in bytes.
LEMMA HeaderParts ==
    ASSUME NEW h \in BlockHeader, Packable(h)
    PROVE  /\ h.prev_hash \in Seq(Byte) /\ Len(h.prev_hash) = HashWidth
           /\ h.txs_hash \in Seq(Byte) /\ Len(h.txs_hash) = HashWidth
           /\ BigEndian(h.timestamp, LongWidth) \in Seq(Byte)
           /\ Len(BigEndian(h.timestamp, LongWidth)) = LongWidth
           /\ BigEndian(h.difficulty, IntWidth) \in Seq(Byte)
           /\ Len(BigEndian(h.difficulty, IntWidth)) = IntWidth
           /\ BigEndian(h.nonce, LongWidth) \in Seq(Byte)
           /\ Len(BigEndian(h.nonce, LongWidth)) = LongWidth
<1>1. /\ h.prev_hash \in Seq(Byte) /\ Len(h.prev_hash) = HashWidth
      /\ h.txs_hash \in Seq(Byte) /\ Len(h.txs_hash) = HashWidth
      /\ h.timestamp \in Uint(LongWidth) /\ h.difficulty \in Uint(IntWidth)
      /\ h.nonce \in Uint(LongWidth)
  BY DEF BlockHeader, Packable, IsHash
<1>2. h.timestamp \in Nat /\ h.difficulty \in Nat /\ h.nonce \in Nat
  BY <1>1 DEF Uint
<1>3. LongWidth \in Nat /\ IntWidth \in Nat
  BY Sizes
<1> QED BY <1>1, <1>2, <1>3, BigEndianBytes

\* A header is packed into bytes.
LEMMA PackHeaderBytes ==
    ASSUME NEW h \in BlockHeader, Packable(h)
    PROVE  PackHeader(h) \in Seq(Byte)
<1> DEFINE T == BigEndian(h.timestamp, LongWidth)
           D == BigEndian(h.difficulty, IntWidth)
           N == BigEndian(h.nonce, LongWidth)
<1>1. /\ h.prev_hash \in Seq(Byte) /\ h.txs_hash \in Seq(Byte)
      /\ T \in Seq(Byte) /\ D \in Seq(Byte) /\ N \in Seq(Byte)
  BY HeaderParts
<1>2. PackHeader(h) = h.prev_hash \o h.txs_hash \o T \o D \o N
  BY DEF PackHeader
<1> HIDE DEF T, D, N
<1>3. h.prev_hash \o h.txs_hash \in Seq(Byte)
  BY <1>1, ConcatProperties
<1>4. h.prev_hash \o h.txs_hash \o T \in Seq(Byte)
  BY <1>1, <1>3, ConcatProperties
<1>5. h.prev_hash \o h.txs_hash \o T \o D \in Seq(Byte)
  BY <1>1, <1>4, ConcatProperties
<1> QED BY <1>1, <1>2, <1>5, ConcatProperties

\* The bytes of a header that pack_block_header does not refuse determine it.
LEMMA PackHeaderInjective ==
    ASSUME NEW g \in BlockHeader, NEW h \in BlockHeader, Packable(g), Packable(h)
    PROVE  PackHeader(g) = PackHeader(h) => g = h
<1> DEFINE g1 == g.prev_hash
           g2 == g.txs_hash
           g3 == BigEndian(g.timestamp, LongWidth)
           g4 == BigEndian(g.difficulty, IntWidth)
           g5 == BigEndian(g.nonce, LongWidth)
           g12 == g1 \o g2
           g123 == g12 \o g3
           g1234 == g123 \o g4
           h1 == h.prev_hash
           h2 == h.txs_hash
           h3 == BigEndian(h.timestamp, LongWidth)
           h4 == BigEndian(h.difficulty, IntWidth)
           h5 == BigEndian(h.nonce, LongWidth)
           h12 == h1 \o h2
           h123 == h12 \o h3
           h1234 == h123 \o h4
<1>1. /\ g1 \in Seq(Byte) /\ g2 \in Seq(Byte) /\ Len(g2) = HashWidth
      /\ g3 \in Seq(Byte) /\ g4 \in Seq(Byte) /\ g5 \in Seq(Byte)
      /\ Len(g3) = LongWidth /\ Len(g4) = IntWidth /\ Len(g5) = LongWidth
  BY HeaderParts
<1>2. /\ h1 \in Seq(Byte) /\ h2 \in Seq(Byte) /\ Len(h2) = HashWidth
      /\ h3 \in Seq(Byte) /\ h4 \in Seq(Byte) /\ h5 \in Seq(Byte)
      /\ Len(h3) = LongWidth /\ Len(h4) = IntWidth /\ Len(h5) = LongWidth
  BY HeaderParts
<1>3. g3 = h3 /\ g4 = h4 /\ g5 = h5
        => g.timestamp = h.timestamp /\ g.difficulty = h.difficulty /\ g.nonce = h.nonce
  BY BigEndianInjective, Sizes DEF Packable
<1>4. g1 = h1 /\ g2 = h2 /\ g.timestamp = h.timestamp /\ g.difficulty = h.difficulty
        /\ g.nonce = h.nonce => g = h
  BY DEF BlockHeader
<1>5. PackHeader(g) = g1234 \o g5 /\ PackHeader(h) = h1234 \o h5
  BY DEF PackHeader
<1> HIDE DEF g1, g2, g3, g4, g5, h1, h2, h3, h4, h5
<1>6. g12 \in Seq(Byte) /\ h12 \in Seq(Byte)
  BY <1>1, <1>2, ConcatProperties
<1>7. g12 = h12 => g1 = h1 /\ g2 = h2
  BY <1>1, <1>2, ConcatCancel
<1> HIDE DEF g12, h12
<1>8. g123 \in Seq(Byte) /\ h123 \in Seq(Byte)
  BY <1>1, <1>2, <1>6, ConcatProperties
<1>9. g123 = h123 => g12 = h12 /\ g3 = h3
  BY <1>1, <1>2, <1>6, ConcatCancel
<1> HIDE DEF g123, h123
<1>10. g1234 \in Seq(Byte) /\ h1234 \in Seq(Byte)
  BY <1>1, <1>2, <1>8, ConcatProperties
<1>11. g1234 = h1234 => g123 = h123 /\ g4 = h4
  BY <1>1, <1>2, <1>8, ConcatCancel
<1> HIDE DEF g1234, h1234
<1>12. g1234 \o g5 = h1234 \o h5 => g1234 = h1234 /\ g5 = h5
  BY <1>1, <1>2, <1>10, ConcatCancel
<1> QED BY <1>3, <1>4, <1>5, <1>7, <1>9, <1>11, <1>12

-----------------------------------------------------------------------------
(***************************************************************************)
(* Hashes are joined and split again without a change.                     *)
(***************************************************************************)

\* The concatenations of the beginnings of s.
Concats(s, n, f) == f = [i \in 1 .. n |-> IF i = 1 THEN s[i] ELSE f[i - 1] \o s[i]]

\* There is a function of the concatenations, so that the CHOOSE in a fold has a value.
LEMMA ConcatsExist ==
    ASSUME NEW s, NEW n \in Nat
    PROVE  \E f : Concats(s, n, f)
<1> DEFINE Bad == {m \in Nat : ~ \E f : Concats(s, m, f)}
<1> SUFFICES ASSUME Bad # {} PROVE FALSE
  OBVIOUS
<1>1. PICK m \in Bad : \A l \in Bad : m <= l
  <2>1. Bad \in SUBSET Nat
    OBVIOUS
  <2> HIDE DEF Bad
  <2> QED BY <2>1, LeastNatural
<1>2. m # 0
  <2>1. Concats(s, 0, [i \in 1 .. 0 |-> s[i]])
    BY DEF Concats
  <2> QED BY <1>1, <2>1
<1>3. m - 1 \in Nat /\ m - 1 \notin Bad /\ m \in Nat
  BY <1>1, <1>2
<1>4. PICK g : Concats(s, m - 1, g)
  BY <1>3
<1> DEFINE h == [i \in 1 .. m |-> IF i = m THEN IF i = 1 THEN s[i] ELSE g[m - 1] \o s[i]
                                  ELSE g[i]]
<1>5. Concats(s, m, h)
  <2>1. \A i \in 1 .. m : h[i] = IF i = 1 THEN s[i] ELSE h[i - 1] \o s[i]
    <3> TAKE i \in 1 .. m
    <3>1. CASE i = m
      <4>1. i # 1 => m - 1 \in 1 .. m /\ m - 1 # m
        BY <1>3, <3>1
      <4> QED BY <3>1, <4>1
    <3>2. CASE i # m
      <4>1. i \in 1 .. m - 1 /\ (i # 1 => i - 1 \in 1 .. m /\ i - 1 # m)
        BY <1>3, <3>2
      <4>2. g[i] = IF i = 1 THEN s[i] ELSE g[i - 1] \o s[i]
        BY <1>4, <4>1 DEF Concats
      <4> QED BY <3>2, <4>1, <4>2
    <3> QED BY <3>1, <3>2
  <2>2. h = [i \in 1 .. m |-> h[i]]
    OBVIOUS
  <2> HIDE DEF h
  <2> QED BY <2>1, <2>2 DEF Concats
<1> QED BY <1>1, <1>5

\* FlattenSeq is the last of these concatenations.
LEMMA FlattenSeqConcats ==
    ASSUME NEW s, NEW n \in Nat \ {0}, Len(s) = n
    PROVE  \E f : Concats(s, n, f) /\ FlattenSeq(s) = f[n]
<1> DEFINE f == CHOOSE f : Concats(s, n, f)
<1>1. Concats(s, n, f)
  BY ConcatsExist
<1>2. FlattenSeq(s) = f[n]
  BY DEF FlattenSeq, Concats
<1> HIDE DEF f
<1> QED BY <1>1, <1>2

\* Products grow with their factors.
LEMMA ProductMonotone ==
    ASSUME NEW a \in Nat, NEW b \in Nat, NEW w \in Nat, a <= b
    PROVE  a * w <= b * w /\ a * w \in Nat /\ b * w \in Nat
OBVIOUS

\* Where the k-th byte of the i-th hash is.
Place(i, k) == (i - 1) * HashWidth + k

\* The places of the bytes of n hashes are those of the joined bytes.
LEMMA Places ==
    ASSUME NEW n \in Nat, NEW i \in 1 .. n, NEW k \in 1 .. HashWidth
    PROVE  /\ Place(i, k) \in 1 .. n * HashWidth
           /\ Place(i, k) = (i - 1) * HashWidth + k
           /\ (i - 1) * HashWidth \in Nat /\ i * HashWidth = (i - 1) * HashWidth + HashWidth
<1>1. HashWidth \in Nat \ {0}
  BY Sizes
<1>2. i * HashWidth = (i - 1) * HashWidth + HashWidth
  BY <1>1
<1>3. i * HashWidth <= n * HashWidth /\ n * HashWidth \in Nat
  BY <1>1, ProductMonotone
<1>4. (i - 1) * HashWidth \in Nat
  <2>1. i - 1 \in Nat
    OBVIOUS
  <2> QED BY <1>1, <2>1
<1> QED BY <1>1, <1>2, <1>3, <1>4 DEF Place

\* Every position is the place of some byte.
LEMMA PlaceOf ==
    ASSUME NEW n \in Nat, NEW x \in 1 .. n * HashWidth
    PROVE  \E i \in 1 .. n, k \in 1 .. HashWidth : x = Place(i, k)
<1> DEFINE q == (x - 1) \div HashWidth
           r == (x - 1) % HashWidth
<1>1. HashWidth \in Nat \ {0} /\ n * HashWidth \in Nat
  BY Sizes
<1>2. q \in Nat /\ r \in 0 .. HashWidth - 1 /\ x - 1 = q * HashWidth + r
  <2>1. x - 1 \in Nat
    BY <1>1
  <2> QED BY <1>1, <2>1, DivideType
<1> HIDE DEF q, r
<1>3. q < n
  <2> SUFFICES ASSUME n <= q PROVE FALSE
    BY <1>2
  <2>1. n * HashWidth <= q * HashWidth /\ q * HashWidth \in Nat
    BY <1>1, <1>2, ProductMonotone
  <2> QED BY <1>1, <1>2, <2>1
<1>4. x = Place(q + 1, r + 1)
  BY <1>1, <1>2 DEF Place
<1>5. q + 1 \in 1 .. n /\ r + 1 \in 1 .. HashWidth
  BY <1>1, <1>2, <1>3
<1> QED BY <1>4, <1>5

\* The first n hashes of hs, one after the other.
Joined(hs, n, blob) ==
    /\ blob \in Seq(Byte) /\ Len(blob) = n * HashWidth
    /\ \A i \in 1 .. n, k \in 1 .. HashWidth : blob[Place(i, k)] = hs[i][k]

\* One more hash concatenated is one more hash joined.
LEMMA ConcatJoins ==
    ASSUME NEW hs \in Seq(Hash), NEW n \in Nat, n + 1 \in 1 .. Len(hs), NEW blob,
           Joined(hs, n, blob)
    PROVE  Joined(hs, n + 1, blob \o hs[n + 1])
<1> DEFINE s == hs[n + 1]
<1>1. s \in Seq(Byte) /\ Len(s) = HashWidth /\ HashWidth \in Nat
  BY ElementOfSeq, Sizes DEF Hash, IsHash
<1>2. blob \in Seq(Byte) /\ Len(blob) = n * HashWidth /\ n * HashWidth \in Nat
  BY <1>1 DEF Joined
<1> HIDE DEF s
<1>3. /\ blob \o s \in Seq(Byte) /\ Len(blob \o s) = n * HashWidth + HashWidth
      /\ \A x \in 1 .. n * HashWidth + HashWidth :
           (blob \o s)[x] = IF x <= n * HashWidth THEN blob[x] ELSE s[x - n * HashWidth]
  <2>1. /\ blob \o s \in Seq(Byte) /\ Len(blob \o s) = Len(blob) + Len(s)
        /\ \A x \in 1 .. Len(blob) + Len(s) :
             (blob \o s)[x] = IF x <= Len(blob) THEN blob[x] ELSE s[x - Len(blob)]
    BY <1>1, <1>2, ConcatProperties
  <2> QED BY <1>1, <1>2, <2>1, Zenon
<1>4. (n + 1) * HashWidth = n * HashWidth + HashWidth
  BY <1>1
<1>5. ASSUME NEW i \in 1 .. n + 1, NEW k \in 1 .. HashWidth
      PROVE  (blob \o s)[Place(i, k)] = hs[i][k]
  <2>1. Place(i, k) \in 1 .. n * HashWidth + HashWidth
    <3>1. n + 1 \in Nat
      OBVIOUS
    <3>2. Place(i, k) \in 1 .. (n + 1) * HashWidth
      BY <3>1, Places
    <3> QED BY <1>4, <3>2
  <2>2. CASE i = n + 1
    <3>1. Place(i, k) = n * HashWidth + k
      <4>1. i - 1 = n
        BY <2>2
      <4> QED BY <4>1 DEF Place
    <3>2. ~ (Place(i, k) <= n * HashWidth) /\ Place(i, k) - n * HashWidth = k
      BY <1>1, <1>2, <3>1
    <3>3. (blob \o s)[Place(i, k)] = s[k]
      BY <1>3, <2>1, <3>2
    <3> QED BY <2>2, <3>3 DEF s
  <2>3. CASE i # n + 1
    <3>1. i \in 1 .. n
      BY <2>3
    <3>2. Place(i, k) \in 1 .. n * HashWidth
      BY <3>1, Places
    <3>3. (blob \o s)[Place(i, k)] = blob[Place(i, k)]
      BY <1>2, <1>3, <2>1, <3>2
    <3> QED BY <3>1, <3>3 DEF Joined
  <2> QED BY <2>2, <2>3
<1> QED BY <1>3, <1>4, <1>5 DEF Joined, s

\* JoinHashes puts the hashes one after the other.
LEMMA JoinHashesJoins ==
    ASSUME NEW hs \in Seq(Hash)
    PROVE  Joined(hs, Len(hs), JoinHashes(hs))
<1>1. Len(hs) \in Nat /\ HashWidth \in Nat
  BY LenProperties, Sizes
<1>2. Joined(hs, 0, << >>)
  <2>1. 0 * HashWidth = 0
    BY <1>1
  <2> QED BY <2>1, EmptySeq DEF Joined
<1>3. CASE Len(hs) = 0
  <2>1. JoinHashes(hs) = << >>
    <3>1. FlattenSeq(hs) = hs
      BY <1>3 DEF FlattenSeq
    <3> QED BY <1>3, <3>1, EmptySeq DEF JoinHashes
  <2> QED BY <1>2, <1>3, <2>1
<1>4. CASE Len(hs) # 0
  <2>1. PICK f : Concats(hs, Len(hs), f) /\ FlattenSeq(hs) = f[Len(hs)]
    BY <1>1, <1>4, FlattenSeqConcats
  <2> DEFINE Bad == {n \in 1 .. Len(hs) : ~ Joined(hs, n, f[n])}
  <2>2. Bad = {}
    <3> SUFFICES ASSUME Bad # {} PROVE FALSE
      OBVIOUS
    <3>1. PICK n \in Bad : \A l \in Bad : n <= l
      <4>1. Bad \in SUBSET Nat
        BY <1>1
      <4> HIDE DEF Bad
      <4> QED BY <4>1, LeastNatural
    <3>2. n \in 1 .. Len(hs) /\ n - 1 \in Nat /\ n - 1 + 1 = n
      BY <1>1, <3>1
    <3>3. f[n] = IF n = 1 THEN hs[n] ELSE f[n - 1] \o hs[n]
      BY <2>1, <3>2 DEF Concats
    <3>4. CASE n = 1
      <4>1. hs[1] \in Seq(Byte)
        BY <3>2, <3>4, ElementOfSeq DEF Hash
      <4>2. << >> \o hs[1] = hs[1] /\ 0 + 1 = 1
        BY <4>1, ConcatEmptySeq
      <4>3. Joined(hs, 0 + 1, << >> \o hs[0 + 1])
        <5>1. 0 \in Nat /\ 0 + 1 \in 1 .. Len(hs)
          BY <3>2, <3>4
        <5> QED BY <1>2, <5>1, ConcatJoins
      <4> QED BY <3>1, <3>3, <3>4, <4>2, <4>3
    <3>5. CASE n # 1
      <4>1. n - 1 \in 1 .. Len(hs) /\ n - 1 \notin Bad
        BY <3>1, <3>2, <3>5
      <4>2. Joined(hs, n - 1, f[n - 1])
        BY <4>1
      <4>3. Joined(hs, n - 1 + 1, f[n - 1] \o hs[n - 1 + 1])
        BY <3>2, <4>2, ConcatJoins
      <4> QED BY <3>1, <3>2, <3>3, <3>5, <4>3
    <3> QED BY <3>4, <3>5
  <2> QED BY <1>1, <1>4, <2>1, <2>2 DEF JoinHashes
<1> QED BY <1>3, <1>4

\* Two joinings of the same hashes are the same.
LEMMA JoinedUnique ==
    ASSUME NEW hs, NEW n \in Nat, NEW a, NEW b, Joined(hs, n, a), Joined(hs, n, b)
    PROVE  a = b
<1>1. /\ a \in Seq(Byte) /\ Len(a) = n * HashWidth
      /\ b \in Seq(Byte) /\ Len(b) = n * HashWidth
  BY DEF Joined
<1>2. \A x \in 1 .. n * HashWidth : a[x] = b[x]
  BY PlaceOf DEF Joined
<1> QED BY <1>1, <1>2, SeqEqual

\* The hashes of a blob, and that they are those it joins.
LEMMA SplitHashesOf ==
    ASSUME NEW blob \in Seq(Byte), NEW n \in Nat, Len(blob) = n * HashWidth
    PROVE  /\ Splittable(blob) /\ Len(SplitHashes(blob)) = n
           /\ SplitHashes(blob) \in Seq(Hash) /\ Joined(SplitHashes(blob), n, blob)
<1>1. HashWidth \in Nat \ {0}
  BY Sizes
<1>2. Len(blob) % HashWidth = 0 /\ Len(blob) \div HashWidth = n
  <2>1. 0 \in 0 .. HashWidth - 1 /\ n * HashWidth \in Nat
    BY <1>1
  <2>2. (n * HashWidth + 0) % HashWidth = 0 /\ (n * HashWidth + 0) \div HashWidth = n
    BY <1>1, <2>1, DivideUnique
  <2>3. n * HashWidth + 0 = n * HashWidth
    BY <2>1
  <2> QED BY <2>2, <2>3
<1> DEFINE part(i) == SubSeq(blob, (i - 1) * HashWidth + 1, i * HashWidth)
<1>3. SplitHashes(blob) = [i \in 1 .. n |-> part(i)]
  BY <1>2 DEF SplitHashes
<1>4. ASSUME NEW i \in 1 .. n
      PROVE  /\ part(i) \in Hash
             /\ \A k \in 1 .. HashWidth : part(i)[k] = blob[Place(i, k)]
  <2> DEFINE a == (i - 1) * HashWidth + 1
             b == i * HashWidth
  <2>1. /\ (i - 1) * HashWidth \in Nat /\ b = (i - 1) * HashWidth + HashWidth
        /\ (i - 1) * HashWidth + HashWidth <= n * HashWidth
    <3>1. HashWidth \in 1 .. HashWidth
      BY <1>1
    <3>2. /\ Place(i, HashWidth) \in 1 .. n * HashWidth
          /\ Place(i, HashWidth) = (i - 1) * HashWidth + HashWidth
          /\ (i - 1) * HashWidth \in Nat /\ b = (i - 1) * HashWidth + HashWidth
      BY <3>1, Places
    <3> QED BY <3>2
  <2>2. /\ a \in Int /\ b \in Int /\ a <= b /\ b - a + 1 = HashWidth
        /\ \A x \in a .. b : x \in 1 .. Len(blob)
        /\ \A k \in 1 .. HashWidth : a + k - 1 = Place(i, k)
    BY <1>1, <2>1 DEF Place
  <2> HIDE DEF a, b
  <2>3. \A x \in a .. b : blob[x] \in Byte
    BY <2>2, ElementOfSeq
  <2>4. /\ SubSeq(blob, a, b) \in Seq(Byte)
        /\ Len(SubSeq(blob, a, b)) = IF a <= b THEN b - a + 1 ELSE 0
        /\ \A k \in 1 .. b - a + 1 : SubSeq(blob, a, b)[k] = blob[a + k - 1]
    BY <2>2, <2>3, SubSeqProperties
  <2>5. part(i) = SubSeq(blob, a, b)
    BY DEF a, b
  <2> HIDE DEF part
  <2> QED BY <2>2, <2>4, <2>5 DEF Hash, IsHash
<1> HIDE DEF part
<1>5. SplitHashes(blob) \in [1 .. n -> Hash]
  BY <1>3, <1>4
<1>6. SplitHashes(blob) \in Seq(Hash) /\ Len(SplitHashes(blob)) = n
  BY <1>5
<1>7. Joined(SplitHashes(blob), n, blob)
  BY <1>3, <1>4 DEF Joined
<1> QED BY <1>2, <1>6, <1>7 DEF Splittable

\* Bytes that make whole hashes, taken apart and joined, are the same bytes.
LEMMA JoinOfSplit ==
    ASSUME NEW blob \in Seq(Byte), Splittable(blob)
    PROVE  SplitHashes(blob) \in Seq(Hash) /\ JoinHashes(SplitHashes(blob)) = blob
<1> DEFINE n == Len(blob) \div HashWidth
<1>1. HashWidth \in Nat \ {0} /\ Len(blob) \in Nat
  BY Sizes, LenProperties
<1>2. n \in Nat /\ Len(blob) = n * HashWidth
  BY <1>1, DivideType DEF Splittable
<1> HIDE DEF n
<1>3. /\ SplitHashes(blob) \in Seq(Hash) /\ Len(SplitHashes(blob)) = n
      /\ Joined(SplitHashes(blob), n, blob)
  BY <1>2, SplitHashesOf
<1>4. Joined(SplitHashes(blob), n, JoinHashes(SplitHashes(blob)))
  BY <1>3, JoinHashesJoins
<1> QED BY <1>2, <1>3, <1>4, JoinedUnique

\* Hashes joined and taken apart are the same hashes.
LEMMA SplitOfJoin ==
    ASSUME NEW hs \in Seq(Hash)
    PROVE  /\ JoinHashes(hs) \in Seq(Byte) /\ Splittable(JoinHashes(hs))
           /\ SplitHashes(JoinHashes(hs)) = hs
<1> DEFINE n == Len(hs)
           blob == JoinHashes(hs)
<1>1. n \in Nat
  BY LenProperties
<1>2. Joined(hs, n, blob)
  BY JoinHashesJoins
<1> HIDE DEF blob
<1>3. blob \in Seq(Byte) /\ Len(blob) = n * HashWidth
  BY <1>2 DEF Joined
<1>4. /\ Splittable(blob) /\ Len(SplitHashes(blob)) = n
      /\ SplitHashes(blob) \in Seq(Hash) /\ Joined(SplitHashes(blob), n, blob)
  BY <1>1, <1>3, SplitHashesOf
<1>5. ASSUME NEW i \in 1 .. n PROVE SplitHashes(blob)[i] = hs[i]
  <2>1. hs[i] \in Hash /\ SplitHashes(blob)[i] \in Hash
    BY <1>4, ElementOfSeq
  <2>2. \A k \in 1 .. HashWidth : SplitHashes(blob)[i][k] = hs[i][k]
    BY <1>2, <1>4 DEF Joined
  <2> QED BY <2>1, <2>2, SeqEqual DEF Hash, IsHash
<1>6. SplitHashes(blob) = hs
  BY <1>4, <1>5, SeqEqual
<1> QED BY <1>3, <1>4, <1>6 DEF blob

-----------------------------------------------------------------------------
(***************************************************************************)
(* The number a digest stands for is the size of a set: byte i adds a      *)
(* slice of so many times its weight, beyond those of the lower bytes.     *)
(***************************************************************************)

\* Powers of two grow with the exponent.
LEMMA PowerMonotone ==
    ASSUME NEW a \in Nat, NEW b \in Nat, a <= b
    PROVE  2 ^ a <= 2 ^ b
<1>1. b - a \in Nat /\ a + (b - a) = b
  OBVIOUS
<1>2. 2 ^ (a + (b - a)) = 2 ^ a * 2 ^ (b - a)
  BY <1>1, PowerSum
<1>3. 2 ^ a \in Nat \ {0} /\ 2 ^ (b - a) \in Nat \ {0}
  BY <1>1, PowerPositive
<1>4. \A x \in Nat \ {0}, y \in Nat \ {0} : x <= x * y
  OBVIOUS
<1> QED BY <1>1, <1>2, <1>3, <1>4

\* A byte further up weighs no less.
LEMMA WeightMonotone ==
    ASSUME NEW a \in Nat, NEW b \in Nat, a <= b
    PROVE  Weight(a) <= Weight(b)
<1>1. ByteBits * a \in Nat /\ ByteBits * b \in Nat /\ ByteBits * a <= ByteBits * b
  BY Sizes
<1> QED BY <1>1, PowerMonotone DEF Weight

Pick(s) == CHOOSE x \in s : TRUE

\* g sums the values of w over each set of D, in the order of MapThenSumSet.
Sums(w, D, g) == g = [s \in D |-> IF s = {} THEN 0 ELSE w[Pick(s)] + g[s \ {Pick(s)}]]

\* There is a function of the sums over the subsets, so that MapThenSumSet has a value.
LEMMA SumsExist ==
    ASSUME NEW w, NEW S, IsFiniteSet(S)
    PROVE  \E g : Sums(w, SUBSET S, g)
<1> DEFINE Small(n) == {s \in SUBSET S : Cardinality(s) <= n}
           Bad == {n \in Nat : ~ \E g : Sums(w, Small(n), g)}
<1>1. \A s \in SUBSET S : IsFiniteSet(s) /\ Cardinality(s) \in Nat
  BY FS_Subset, FS_CardinalityType
<1>2. Bad = {}
  <2> SUFFICES ASSUME Bad # {} PROVE FALSE
    OBVIOUS
  <2>1. PICK n \in Bad : \A l \in Bad : n <= l
    <3>1. Bad \in SUBSET Nat
      OBVIOUS
    <3> HIDE DEF Bad
    <3> QED BY <3>1, LeastNatural
  <2>2. n # 0
    <3>1. \A s \in Small(0) : s = {}
      BY <1>1, FS_EmptySet
    <3>2. Sums(w, Small(0), [s \in Small(0) |-> 0])
      BY <3>1 DEF Sums
    <3> HIDE DEF Small
    <3>3. 0 \notin Bad
      BY <3>2
    <3> HIDE DEF Bad
    <3> QED BY <2>1, <3>3
  <2>3. n \in Nat /\ n - 1 \in Nat /\ n - 1 \notin Bad
    <3>1. n \in Nat
      OBVIOUS
    <3> HIDE DEF Bad
    <3> QED BY <2>1, <2>2, <3>1
  <2>4. PICK g : Sums(w, Small(n - 1), g)
    BY <2>3
  <2> DEFINE h == [s \in Small(n) |-> IF s = {} THEN 0 ELSE w[Pick(s)] + g[s \ {Pick(s)}]]
  <2>5. ASSUME NEW s \in Small(n), s # {}
        PROVE  h[s \ {Pick(s)}] = g[s \ {Pick(s)}]
    <3> DEFINE t == s \ {Pick(s)}
    <3>1. Pick(s) \in s
      BY <2>5 DEF Pick
    <3>2. Cardinality(t) = Cardinality(s) - 1
      BY <1>1, <3>1, FS_RemoveElement
    <3>3. t \in Small(n - 1) /\ t \in Small(n)
      BY <1>1, <2>3, <3>2
    <3>4. g[t] = IF t = {} THEN 0 ELSE w[Pick(t)] + g[t \ {Pick(t)}]
      BY <2>4, <3>3 DEF Sums
    <3>5. h[t] = IF t = {} THEN 0 ELSE w[Pick(t)] + g[t \ {Pick(t)}]
      BY <3>3
    <3> QED BY <3>4, <3>5
  <2>6. \A s \in Small(n) : h[s] = IF s = {} THEN 0 ELSE w[Pick(s)] + h[s \ {Pick(s)}]
    BY <2>5
  <2>7. h = [s \in Small(n) |-> h[s]]
    OBVIOUS
  <2> HIDE DEF h, Small
  <2>8. Sums(w, Small(n), h)
    BY <2>6, <2>7 DEF Sums
  <2> QED BY <2>1, <2>8
<1>3. Small(Cardinality(S)) = SUBSET S
  BY FS_Subset
<1>4. Cardinality(S) \in Nat /\ Cardinality(S) \notin Bad
  BY <1>2, FS_CardinalityType
<1> QED BY <1>3, <1>4

Values(digest) == [i \in DOMAIN digest |-> digest[i] * Weight(Len(digest) - i)]

Slice(digest, i) ==
    LET weight == Weight(Len(digest) - i) IN weight .. weight + digest[i] * weight - 1

Slices(digest, s) == UNION {Slice(digest, i) : i \in s}

\* A slice has as many numbers as its byte adds, and they are below the next weight.
LEMMA SliceBounds ==
    ASSUME NEW digest \in Seq(Byte), NEW i \in 1 .. Len(digest)
    PROVE  /\ IsFiniteSet(Slice(digest, i)) /\ Cardinality(Slice(digest, i)) = Values(digest)[i]
           /\ Values(digest)[i] \in Nat /\ Slice(digest, i) \subseteq Nat
           /\ \A x \in Slice(digest, i) :
                /\ Weight(Len(digest) - i) <= x
                /\ x < Weight(Len(digest) - i) + digest[i] * Weight(Len(digest) - i)
                /\ x < Weight(Len(digest) - i + 1)
<1> DEFINE n == Len(digest)
           w == Weight(n - i)
           d == digest[i]
           B == 2 ^ ByteBits
<1>1. n \in Nat /\ n - i \in Nat /\ d \in Byte /\ DOMAIN digest = 1 .. n
  BY LenProperties, ElementOfSeq
<1>2. w \in Nat \ {0} /\ B \in Nat \ {0} /\ Weight(n - i + 1) = B * w
  BY <1>1, WeightStep
<1>3. d \in Nat /\ d + 1 <= B
  BY <1>1, <1>2 DEF Byte
<1>4. Slice(digest, i) = w .. w + d * w - 1 /\ Values(digest)[i] = d * w
  BY <1>1 DEF Slice, Values
<1> HIDE DEF w, d, B
<1>5. d * w \in Nat /\ w + d * w <= B * w /\ B * w \in Nat
  <2>1. (d + 1) * w <= B * w /\ B * w \in Nat
    BY <1>2, <1>3, ProductMonotone
  <2>2. (d + 1) * w = w + d * w /\ d * w \in Nat
    BY <1>2, <1>3
  <2> QED BY <2>1, <2>2
<1>6. IsFiniteSet(Slice(digest, i)) /\ Cardinality(Slice(digest, i)) = d * w
  <2> DEFINE e == w + d * w - 1
  <2>1. w \in Int /\ e \in Int /\ Slice(digest, i) = w .. e
    BY <1>2, <1>4, <1>5
  <2>2. (IF w > e THEN 0 ELSE e - w + 1) = d * w
    BY <1>2, <1>5
  <2> HIDE DEF e
  <2>3. IsFiniteSet(w .. e) /\ Cardinality(w .. e) = IF w > e THEN 0 ELSE e - w + 1
    BY <2>1, FS_Interval
  <2> QED BY <2>1, <2>2, <2>3
<1>7. \A x \in Slice(digest, i) : x \in Nat /\ w <= x /\ x < w + d * w /\ x < B * w
  BY <1>2, <1>4, <1>5
<1> QED BY <1>2, <1>4, <1>5, <1>6, <1>7 DEF w, d, n

\* The slices of two bytes share nothing.
LEMMA SlicesDisjoint ==
    ASSUME NEW digest \in Seq(Byte), NEW i \in 1 .. Len(digest), NEW j \in 1 .. Len(digest),
           i # j
    PROVE  Slice(digest, i) \cap Slice(digest, j) = {}
<1>1. ASSUME NEW a \in 1 .. Len(digest), NEW b \in 1 .. Len(digest), a < b
      PROVE  Slice(digest, a) \cap Slice(digest, b) = {}
  <2> DEFINE n == Len(digest)
  <2>1. n \in Nat /\ n - a \in Nat /\ n - b + 1 \in Nat /\ n - b + 1 <= n - a
    BY <1>1, LenProperties
  <2>2. /\ Weight(n - b + 1) <= Weight(n - a)
        /\ Weight(n - b + 1) \in Nat /\ Weight(n - a) \in Nat
    BY <2>1, WeightMonotone, WeightStep
  <2>3. \A x \in Slice(digest, a) : x \in Nat /\ Weight(n - a) <= x
    BY SliceBounds
  <2>4. \A x \in Slice(digest, b) : x \in Nat /\ x < Weight(n - b + 1)
    BY SliceBounds
  <2> HIDE DEF n
  <2> QED BY <2>2, <2>3, <2>4
<1>2. i < j \/ j < i
  OBVIOUS
<1> QED BY <1>1, <1>2

\* The sum over a set of bytes is the size of their slices together.
LEMMA SumIsSize ==
    ASSUME NEW digest \in Seq(Byte), NEW g, Sums(Values(digest), SUBSET DOMAIN digest, g),
           NEW s \in SUBSET DOMAIN digest
    PROVE  IsFiniteSet(Slices(digest, s)) /\ g[s] = Cardinality(Slices(digest, s))
<1> DEFINE D == DOMAIN digest
           Good(t) == /\ IsFiniteSet(Slices(digest, t))
                      /\ g[t] = Cardinality(Slices(digest, t))
           Bad == {n \in Nat : \E t \in SUBSET D : Cardinality(t) = n /\ ~ Good(t)}
<1>1. D = 1 .. Len(digest) /\ Len(digest) \in Nat
  BY LenProperties
<1>2. IsFiniteSet(D)
  BY <1>1, FS_Interval
<1>3. \A t \in SUBSET D : IsFiniteSet(t) /\ Cardinality(t) \in Nat
  BY <1>2, FS_Subset, FS_CardinalityType
<1>4. Bad = {}
  <2> SUFFICES ASSUME Bad # {} PROVE FALSE
    OBVIOUS
  <2>1. PICK n \in Bad : \A l \in Bad : n <= l
    <3>1. Bad \in SUBSET Nat
      OBVIOUS
    <3> HIDE DEF Bad
    <3> QED BY <3>1, LeastNatural
  <2>2. PICK t \in SUBSET D : Cardinality(t) = n /\ ~ Good(t)
    BY <2>1
  <2>3. g[t] = IF t = {} THEN 0 ELSE Values(digest)[Pick(t)] + g[t \ {Pick(t)}]
    BY DEF Sums
  <2>4. CASE t = {}
    <3>1. Slices(digest, t) = {}
      BY <2>4 DEF Slices
    <3> QED BY <2>2, <2>3, <2>4, <3>1, FS_EmptySet
  <2>5. CASE t # {}
    <3> DEFINE x == Pick(t)
               u == t \ {x}
    <3>1. x \in t /\ x \in 1 .. Len(digest)
      BY <1>1, <2>5 DEF Pick
    <3>2. Cardinality(u) = n - 1 /\ u \in SUBSET D
      BY <1>3, <2>2, <3>1, FS_RemoveElement
    <3>3. Good(u)
      <4>1. Cardinality(u) \notin Bad
        <5>1. n \in Nat /\ ~ (n <= n - 1)
          BY <2>1
        <5> HIDE DEF Bad, u
        <5> QED BY <2>1, <3>2, <5>1
      <4>2. Cardinality(u) \in Nat
        BY <1>3, <3>2
      <4> QED BY <3>2, <4>1, <4>2
    <3> HIDE DEF x
    <3>4. Slices(digest, t) = Slices(digest, u) \cup Slice(digest, x)
      BY <3>1 DEF Slices
    <3>5. Slices(digest, u) \cap Slice(digest, x) = {}
      <4>1. \A i \in u : i \in 1 .. Len(digest) /\ i # x
        BY <1>1, <3>2
      <4> QED BY <3>1, <4>1, SlicesDisjoint DEF Slices
    <3>6. /\ IsFiniteSet(Slice(digest, x)) /\ Cardinality(Slice(digest, x)) = Values(digest)[x]
          /\ Values(digest)[x] \in Nat
      BY <3>1, SliceBounds
    <3>7. /\ IsFiniteSet(Slices(digest, t))
          /\ Cardinality(Slices(digest, t)) = g[u] + Values(digest)[x]
      <4>1. /\ IsFiniteSet(Slices(digest, u) \cup Slice(digest, x))
            /\ Cardinality(Slices(digest, u) \cup Slice(digest, x)) =
                 Cardinality(Slices(digest, u)) + Cardinality(Slice(digest, x))
                   - Cardinality(Slices(digest, u) \cap Slice(digest, x))
        BY <3>3, <3>6, FS_Union
      <4>2. Cardinality(Slices(digest, u)) \in Nat /\ Cardinality({}) = 0
        BY <3>3, FS_CardinalityType, FS_EmptySet
      <4>3. Cardinality(Slices(digest, u)) = g[u]
        BY <3>3
      <4>4. Cardinality(Slices(digest, u) \cap Slice(digest, x)) = 0
        BY <3>5, <4>2
      <4>5. g[u] \in Nat
        BY <4>2, <4>3
      <4> HIDE DEF u, Good
      <4>6. Cardinality(Slices(digest, u) \cup Slice(digest, x)) = g[u] + Values(digest)[x] - 0
        BY <3>6, <4>1, <4>3, <4>4, Zenon
      <4> QED BY <3>4, <3>6, <4>1, <4>5, <4>6
    <3>8. g[t] = Values(digest)[x] + g[u]
      BY <2>3, <2>5 DEF x
    <3>9. g[u] \in Nat
      BY <3>3, FS_CardinalityType
    <3> QED BY <2>2, <3>6, <3>7, <3>8, <3>9
  <2> QED BY <2>4, <2>5
<1>5. Cardinality(s) \in Nat /\ Cardinality(s) \notin Bad
  BY <1>3, <1>4
<1> QED BY <1>5

\* The sum of Meets is the number of elements of all slices.
LEMMA NumberIsSize ==
    ASSUME NEW digest \in Seq(Byte), NEW n
    PROVE  Meets(digest, n) <=>
             Cardinality(Slices(digest, DOMAIN digest)) < 2 ^ (ByteBits * Len(digest) - n)
<1> DEFINE D == DOMAIN digest
           g == CHOOSE g : Sums(Values(digest), SUBSET D, g)
<1>1. IsFiniteSet(D)
  <2>1. D = 1 .. Len(digest) /\ Len(digest) \in Int
    BY LenProperties
  <2> QED BY <2>1, FS_Interval
<1>2. Sums(Values(digest), SUBSET D, g)
  BY <1>1, SumsExist
<1>3. MapThenSumSet(LAMBDA i : digest[i] * 2 ^ (ByteBits * (Len(digest) - i)), D) = g[D]
  BY DEF MapThenSumSet, MapThenFoldSet, Sums, Pick, Values, Weight
<1> HIDE DEF g
<1>4. g[D] = Cardinality(Slices(digest, D))
  BY <1>2, SumIsSize
<1> QED BY <1>3, <1>4 DEF Meets

-----------------------------------------------------------------------------
(***************************************************************************)
(* Leading zero bits.                                                      *)
(***************************************************************************)

\* The least element of a set of naturals, with the Min of the library.
LEMMA MinOf ==
    ASSUME NEW T \in SUBSET Nat, T # {}
    PROVE  Min(T) \in T /\ \A y \in T : Min(T) <= y
<1>1. \E x \in T : \A y \in T : x <= y
  BY LeastNatural
<1> QED BY <1>1 DEF Min

\* The first powers of two.
LEMMA PowerZero == 2 ^ 0 = 1 /\ 2 ^ 1 = 2
<1>1. ByteBits * 0 = 0
  BY Sizes
<1>2. 2 ^ 0 = 1
  BY <1>1, WeightZero DEF Weight
<1>3. IsFiniteSet({1}) /\ Cardinality({1}) = 1
  BY FS_Singleton
<1>4. IsFiniteSet(SUBSET {1}) /\ Cardinality(SUBSET {1}) = 2 ^ 1
  BY <1>3, FS_SUBSET
<1>5. SUBSET {1} = {{}} \cup {{1}}
  OBVIOUS
<1>6. Cardinality({{}} \cup {{1}}) = 2
  <2>1. IsFiniteSet({{}}) /\ Cardinality({{}}) = 1
    BY FS_Singleton
  <2>2. {1} \notin {{}}
    OBVIOUS
  <2>3. Cardinality({{}} \cup {{1}}) = 1 + 1
    BY <2>1, <2>2, FS_AddElement
  <2> QED BY <2>3
<1> QED BY <1>2, <1>4, <1>5, <1>6

\* BitLength is where the powers of two pass the byte.
LEMMA BitLengthOf ==
    ASSUME NEW b \in Byte
    PROVE  /\ BitLength(b) \in 0 .. ByteBits /\ b < 2 ^ BitLength(b)
           /\ BitLength(b) # 0 => 2 ^ (BitLength(b) - 1) <= b
           /\ b # 0 => BitLength(b) # 0
<1> DEFINE K == {k \in 0 .. ByteBits : b < 2 ^ k}
<1>1. ByteBits \in Nat /\ 2 ^ ByteBits \in Nat /\ b \in Nat /\ b < 2 ^ ByteBits
  BY Sizes, PowerPositive DEF Byte
<1>2. ByteBits \in K /\ K \in SUBSET Nat
  BY <1>1
<1>3. BitLength(b) \in K /\ \A y \in K : BitLength(b) <= y
  <2> HIDE DEF K
  <2>1. Min(K) \in K /\ \A y \in K : Min(K) <= y
    BY <1>2, MinOf
  <2> QED BY <2>1 DEF BitLength, K
<1>4. ASSUME NEW k \in K, \A y \in K : k <= y, k # 0
      PROVE  2 ^ (k - 1) <= b
  <2>1. k \in 1 .. ByteBits /\ k - 1 \in 0 .. ByteBits /\ k - 1 \in Nat /\ ~ (k <= k - 1)
    BY <1>1, <1>4
  <2>2. k - 1 \notin K
    <3> HIDE DEF K
    <3> QED BY <1>4, <2>1
  <2>3. 2 ^ (k - 1) \in Nat
    BY <2>1, PowerPositive
  <2>4. ~ (b < 2 ^ (k - 1))
    BY <2>1, <2>2
  <2> QED BY <1>1, <2>3, <2>4
<1>5. b # 0 => BitLength(b) # 0
  <2>1. 0 \in K => b < 2 ^ 0
    OBVIOUS
  <2>2. 0 \in K => b = 0
    BY <1>1, <2>1, PowerZero
  <2> HIDE DEF K
  <2> QED BY <1>3, <2>2
<1>6. BitLength(b) # 0 => 2 ^ (BitLength(b) - 1) <= b
  <2> HIDE DEF K
  <2> QED BY <1>3, <1>4
<1> QED BY <1>3, <1>5, <1>6

\* The first byte that is not zero, if there is one, and the count that follows.
LEMMA FirstNonZero ==
    ASSUME NEW digest \in Seq(Byte), NonZero(digest) # {}
    PROVE  \E i \in 1 .. Len(digest) :
             /\ digest[i] # 0 /\ \A j \in 1 .. Len(digest) : j < i => digest[j] = 0
             /\ LeadingZeroBits(digest) = ByteBits * i - BitLength(digest[i])
<1> DEFINE i == Min(NonZero(digest))
<1>1. DOMAIN digest = 1 .. Len(digest) /\ Len(digest) \in Nat
  BY LenProperties
<1>2. NonZero(digest) \in SUBSET Nat
  BY <1>1 DEF NonZero
<1>3. i \in NonZero(digest) /\ \A j \in NonZero(digest) : i <= j
  BY <1>2, MinOf
<1>4. LeadingZeroBits(digest) = ByteBits * i - BitLength(digest[i])
  BY DEF LeadingZeroBits
<1> HIDE DEF i
<1>5. i \in 1 .. Len(digest) /\ digest[i] # 0
  BY <1>1, <1>3 DEF NonZero
<1>6. \A j \in 1 .. Len(digest) : j < i => digest[j] = 0
  BY <1>1, <1>3, <1>5 DEF NonZero
<1> QED BY <1>4, <1>5, <1>6

\* A digest with n leading zero bits by Lab 3's count is a number below the target.
LEMMA LeadingZerosMeet ==
    ASSUME NEW digest \in Seq(Byte), NEW n \in Nat, LeadingZeroBits(digest) >= n
    PROVE  Meets(digest, n)
<1> DEFINE N == Len(digest)
           All == Slices(digest, DOMAIN digest)
<1>1. DOMAIN digest = 1 .. N /\ N \in Nat /\ ByteBits \in Nat \ {0}
  BY LenProperties, Sizes
<1>2. \A i \in 1 .. N : digest[i] \in Byte
  BY ElementOfSeq
<1>3. CASE NonZero(digest) = {}
  <2>1. All = {}
    <3>1. ASSUME NEW i \in 1 .. N PROVE Slice(digest, i) = {}
      <4>1. digest[i] = 0
        BY <1>1, <1>3 DEF NonZero
      <4>2. Weight(N - i) \in Nat
        <5>1. N - i \in Nat
          BY <1>1
        <5> QED BY <5>1, WeightStep
      <4>3. 0 * Weight(N - i) = 0
        BY <4>2
      <4> QED BY <4>1, <4>2, <4>3 DEF Slice
    <3> QED BY <1>1, <3>1 DEF Slices
  <2>2. ByteBits * N - n \in Nat
    <3>1. LeadingZeroBits(digest) = ByteBits * N
      BY <1>3 DEF LeadingZeroBits
    <3>2. ByteBits * N \in Nat
      BY <1>1
    <3> QED BY <3>1, <3>2
  <2>3. 2 ^ (ByteBits * N - n) \in Nat \ {0}
    BY <2>2, PowerPositive
  <2>4. Cardinality(All) = 0
    BY <2>1, FS_EmptySet
  <2> QED BY <2>3, <2>4, NumberIsSize
<1>4. CASE NonZero(digest) # {}
  <2>1. PICK i \in 1 .. N :
          /\ digest[i] # 0 /\ \A j \in 1 .. N : j < i => digest[j] = 0
          /\ LeadingZeroBits(digest) = ByteBits * i - BitLength(digest[i])
    BY <1>4, FirstNonZero
  <2> DEFINE w == Weight(N - i)
             b == digest[i]
             k == BitLength(b)
             top == w + b * w
  <2>2. N - i \in Nat /\ w \in Nat \ {0} /\ b \in Nat
    <3>1. N - i \in Nat /\ b \in Byte
      BY <1>1, <1>2
    <3>2. w \in Nat \ {0}
      BY <3>1, WeightStep
    <3>3. 2 ^ ByteBits \in Nat
      BY <1>1, PowerPositive
    <3> QED BY <3>1, <3>2, <3>3 DEF Byte
  <2>3. k \in 0 .. ByteBits /\ b + 1 <= 2 ^ k /\ 2 ^ k \in Nat
    <3>1. k \in 0 .. ByteBits /\ b < 2 ^ k
      BY <1>2, BitLengthOf
    <3>2. k \in Nat
      BY <3>1
    <3>3. 2 ^ k \in Nat
      BY <3>2, PowerPositive
    <3> QED BY <2>2, <3>1, <3>3
  <2>4. ASSUME NEW x \in All PROVE x \in 1 .. top - 1
    <3>1. PICK j \in 1 .. N : x \in Slice(digest, j)
      BY <1>1 DEF Slices
    <3>2. /\ x \in Nat /\ Weight(N - j) <= x /\ x < Weight(N - j) + digest[j] * Weight(N - j)
          /\ x < Weight(N - j + 1) /\ Weight(N - j) \in Nat \ {0}
      <4>1. N - j \in Nat /\ x \in Nat
        BY <1>1, <3>1, SliceBounds
      <4>2. Weight(N - j) \in Nat \ {0}
        BY <4>1, WeightStep
      <4> QED BY <3>1, <4>1, <4>2, SliceBounds
    <3>3. top \in Nat /\ w <= top
      BY <2>2
    <3>4. CASE j = i
      BY <3>2, <3>3, <3>4
    <3>5. CASE j < i
      <4>1. digest[j] = 0
        BY <2>1, <3>5
      <4>2. 0 * Weight(N - j) = 0
        BY <3>2
      <4> QED BY <3>2, <4>1, <4>2
    <3>6. CASE i < j
      <4>1. N - j + 1 \in Nat /\ N - j + 1 <= N - i
        BY <1>1, <3>6
      <4>2. Weight(N - j + 1) <= w /\ Weight(N - j + 1) \in Nat
        BY <2>2, <4>1, WeightMonotone, WeightStep
      <4> HIDE DEF top, w
      <4> QED BY <2>2, <3>2, <3>3, <4>2
    <3> QED BY <3>4, <3>5, <3>6
  <2>5. Cardinality(All) < top /\ top \in Nat
    <3>1. top \in Nat \ {0}
      BY <2>2
    <3> HIDE DEF top, All
    <3>2. IsFiniteSet(1 .. top - 1) /\ Cardinality(1 .. top - 1) = top - 1
      <4>1. top - 1 \in Nat
        BY <3>1
      <4> QED BY <4>1, FS_Interval
    <3>3. All \in SUBSET (1 .. top - 1)
      BY <2>4
    <3>4. IsFiniteSet(All) /\ Cardinality(All) <= top - 1
      BY <3>2, <3>3, FS_Subset
    <3>5. Cardinality(All) \in Nat
      BY <3>4, FS_CardinalityType
    <3> QED BY <3>1, <3>4, <3>5
  <2>6. top <= 2 ^ (ByteBits * (N - i) + k)
    <3>1. 2 ^ (ByteBits * (N - i) + k) = w * 2 ^ k
      <4>1. ByteBits * (N - i) \in Nat /\ k \in Nat
        BY <1>1, <2>2, <2>3
      <4> QED BY <4>1, PowerSum DEF Weight
    <3>2. top = (b + 1) * w
      BY <2>2
    <3>3. (b + 1) * w <= 2 ^ k * w
      BY <2>2, <2>3, ProductMonotone
    <3>4. 2 ^ k * w = w * 2 ^ k
      BY <2>2, <2>3
    <3> QED BY <3>1, <3>2, <3>3, <3>4
  <2>7. /\ ByteBits * (N - i) + k \in Nat /\ ByteBits * N - n \in Nat
        /\ ByteBits * (N - i) + k <= ByteBits * N - n
    <3>1. ByteBits * (N - i) = ByteBits * N - ByteBits * i /\ ByteBits * (N - i) \in Nat
          /\ ByteBits * N \in Nat /\ ByteBits * i \in Nat
      BY <1>1, <2>2
    <3>2. ByteBits * i - k >= n /\ k \in Nat
      BY <2>1, <2>3
    <3> HIDE DEF k
    <3> QED BY <3>1, <3>2
  <2>8. /\ 2 ^ (ByteBits * (N - i) + k) <= 2 ^ (ByteBits * N - n)
        /\ 2 ^ (ByteBits * (N - i) + k) \in Nat /\ 2 ^ (ByteBits * N - n) \in Nat
    BY <2>7, PowerMonotone, PowerPositive
  <2>9. Cardinality(All) < 2 ^ (ByteBits * N - n)
    <3>1. Cardinality(All) \in Nat
      <4>1. IsFiniteSet(All)
        <5>1. All \in SUBSET (1 .. top - 1) /\ IsFiniteSet(1 .. top - 1)
          <6>1. top - 1 \in Int
            BY <2>5
          <6> QED BY <2>4, <6>1, FS_Interval
        <5> QED BY <5>1, FS_Subset
      <4> QED BY <4>1, FS_CardinalityType
    <3> HIDE DEF top, All
    <3> QED BY <2>5, <2>6, <2>8, <3>1
  <2> QED BY <2>9, NumberIsSize
<1> QED BY <1>3, <1>4

\* Lab 1 counts the same: the highest bit set of the first byte that is not zero ends
\* both counts.
LEMMA CountsAgree ==
    ASSUME NEW digest \in Seq(Byte)
    PROVE  CountZeroBits(digest) = LeadingZeroBits(digest)
<1> DEFINE N == Len(digest)
           Bits == SetBits(digest)
           Counts == {ByteBits * p[1] - 1 - p[2] : p \in Bits}
<1>1. DOMAIN digest = 1 .. N /\ N \in Nat /\ ByteBits \in Nat \ {0}
  BY LenProperties, Sizes
<1>2. \A j \in 1 .. N : digest[j] \in Byte /\ digest[j] \in Nat
  <2>1. 2 ^ ByteBits \in Nat
    BY <1>1, PowerPositive
  <2> QED BY <2>1, ElementOfSeq DEF Byte
<1>3. ASSUME NEW p \in Bits
      PROVE  /\ p[1] \in 1 .. N /\ p[2] \in 0 .. ByteBits - 1
             /\ (digest[p[1]] \div 2 ^ p[2]) % 2 = 1
  BY <1>1 DEF SetBits
<1>4. ASSUME NEW e \in Nat PROVE 0 \div 2 ^ e = 0 /\ 0 % 2 = 0
  <2>1. 2 ^ e \in Nat \ {0}
    BY PowerPositive
  <2> QED BY <2>1
<1>5. CASE NonZero(digest) = {}
  <2>1. Bits = {}
    <3> SUFFICES ASSUME NEW p \in Bits PROVE FALSE
      OBVIOUS
    <3>1. digest[p[1]] = 0
      BY <1>1, <1>3, <1>5 DEF NonZero
    <3>2. p[2] \in Nat
      BY <1>1, <1>3
    <3> QED BY <1>3, <1>4, <3>1, <3>2
  <2> QED BY <1>5, <2>1 DEF CountZeroBits, LeadingZeroBits
<1>6. CASE NonZero(digest) # {}
  <2>1. PICK i \in 1 .. N :
          /\ digest[i] # 0 /\ \A j \in 1 .. N : j < i => digest[j] = 0
          /\ LeadingZeroBits(digest) = ByteBits * i - BitLength(digest[i])
    BY <1>6, FirstNonZero
  <2> DEFINE b == digest[i]
             k == BitLength(b)
  <2>2. /\ k \in 1 .. ByteBits /\ k - 1 \in Nat /\ k \in Nat
        /\ 2 ^ (k - 1) <= b /\ b < 2 ^ k /\ b \in Nat
    <3>1. k \in 0 .. ByteBits /\ b < 2 ^ k /\ k # 0 /\ 2 ^ (k - 1) <= b
      BY <1>2, <2>1, BitLengthOf
    <3> HIDE DEF k
    <3> QED BY <1>1, <1>2, <3>1
  <2>3. <<i, k - 1>> \in Bits
    <3>1. 2 ^ (k - 1) \in Nat \ {0} /\ 2 ^ k = 2 * 2 ^ (k - 1)
      <4>1. 2 ^ (k - 1 + 1) = 2 ^ (k - 1) * 2 ^ 1 /\ 2 ^ (k - 1) \in Nat \ {0}
        BY <2>2, PowerSum, PowerPositive
      <4>2. k - 1 + 1 = k
        BY <2>2
      <4>3. 2 ^ (k - 1) * 2 = 2 * 2 ^ (k - 1)
        BY <4>1
      <4> QED BY <4>1, <4>2, <4>3, PowerZero
    <3> DEFINE h == 2 ^ (k - 1)
    <3>2. h \in Nat \ {0} /\ b - h \in 0 .. h - 1 /\ b = 1 * h + (b - h)
      BY <2>2, <3>1
    <3> HIDE DEF h
    <3>3. (1 * h + (b - h)) \div h = 1
      BY <3>2, DivideUnique
    <3>4. (b \div h) % 2 = 1
      BY <3>2, <3>3
    <3>5. k - 1 \in 0 .. ByteBits - 1
      BY <1>1, <2>2
    <3> QED BY <1>1, <3>4, <3>5 DEF SetBits, h
  <2>4. ByteBits * i - k \in Counts
    <3> DEFINE p == <<i, k - 1>>
    <3>1. ByteBits * p[1] - 1 - p[2] = ByteBits * i - k
      <4>1. ByteBits * i \in Int
        BY <1>1
      <4> QED BY <2>2, <4>1
    <3> HIDE DEF Bits, k
    <3> QED BY <2>3, <3>1
  <2>5. ASSUME NEW c \in Counts PROVE c \in Nat /\ ByteBits * i - k <= c
    <3>1. PICK p \in Bits : c = ByteBits * p[1] - 1 - p[2]
      OBVIOUS
    <3> DEFINE j == p[1]
               e == p[2]
    <3>2. /\ j \in 1 .. N /\ e \in 0 .. ByteBits - 1 /\ e \in Nat
          /\ (digest[j] \div 2 ^ e) % 2 = 1 /\ c = ByteBits * j - 1 - e
      BY <1>1, <1>3, <3>1
    <3> HIDE DEF j, e, k
    <3>3. /\ ByteBits * j \in Nat /\ ByteBits * i \in Nat
          /\ ByteBits <= ByteBits * j
      <4>1. ByteBits * j = (j - 1) * ByteBits + ByteBits /\ (j - 1) * ByteBits \in Nat
        <5>1. j - 1 \in Nat
          BY <3>2
        <5>2. (j - 1) * ByteBits \in Nat
          BY <1>1, <5>1
        <5> QED BY <1>1, <3>2, <5>2
      <4> QED BY <1>1, <3>2, <4>1
    <3>4. c \in Nat
      BY <1>1, <3>2, <3>3
    <3>5. ~ (j < i)
      BY <1>4, <2>1, <3>2
    <3>6. CASE j = i
      <4>1. e <= k - 1
        <5> SUFFICES ASSUME k <= e PROVE FALSE
          BY <2>2, <3>2
        <5>1. 2 ^ k <= 2 ^ e /\ 2 ^ k \in Nat /\ 2 ^ e \in Nat \ {0}
          BY <2>2, <3>2, PowerMonotone, PowerPositive
        <5>2. b \in 0 .. 2 ^ e - 1
          BY <2>2, <5>1
        <5>3. (0 * 2 ^ e + b) \div 2 ^ e = 0
          BY <5>1, <5>2, DivideUnique
        <5>4. 0 * 2 ^ e + b = b
          BY <2>2, <5>1
        <5>5. digest[j] \div 2 ^ e = 0
          BY <3>6, <5>3, <5>4
        <5> HIDE DEF b
        <5> QED BY <1>4, <3>2, <5>5
      <4>2. ByteBits * j = ByteBits * i /\ c = ByteBits * j - 1 - e
        BY <3>2, <3>6
      <4> QED BY <2>2, <3>2, <3>3, <3>4, <4>1, <4>2
    <3>7. CASE i < j
      <4>1. (i + 1) * ByteBits <= j * ByteBits
        <5>1. i + 1 \in Nat /\ j \in Nat /\ i + 1 <= j
          BY <3>2, <3>7
        <5> QED BY <1>1, <5>1, ProductMonotone
      <4>2. (i + 1) * ByteBits = ByteBits * i + ByteBits /\ j * ByteBits = ByteBits * j
        BY <1>1, <3>2
      <4> QED BY <1>1, <2>2, <3>2, <3>3, <4>1, <4>2
    <3> QED BY <3>2, <3>4, <3>5, <3>6, <3>7
  <2>6. Counts \in SUBSET Nat /\ Counts # {} /\ Bits # {}
    <3>1. Bits # {}
      BY <2>3
    <3> HIDE DEF Bits
    <3> QED BY <2>4, <2>5, <3>1
  <2>7. Min(Counts) = ByteBits * i - k
    <3> HIDE DEF Counts
    <3>1. Min(Counts) \in Counts /\ \A y \in Counts : Min(Counts) <= y
      BY <2>6, MinOf
    <3>2. ByteBits * i - k \in Nat
      BY <2>4, <2>5
    <3> HIDE DEF k
    <3>3. /\ Min(Counts) <= ByteBits * i - k /\ ByteBits * i - k <= Min(Counts)
          /\ Min(Counts) \in Nat
      BY <2>4, <2>5, <3>1
    <3> QED BY <3>2, <3>3
  <2> QED BY <2>1, <2>6, <2>7 DEF CountZeroBits
<1> QED BY <1>5, <1>6

-----------------------------------------------------------------------------
(***************************************************************************)
(* The inductive invariant.                                                *)
(***************************************************************************)

\* What can come over the wire.
Sendable(w) == w \in BlockMessage /\ Encodable(w.header)

\* A held block can be packed, and is the block of the message it came in, or has the
\* proof of work it was found with.
Sound(r) ==
    /\ r.block \in [header : BlockHeader, tx_hashes : Seq(Hash)]
    /\ Packable(r.block.header)
    /\ \A w \in r.from : Sendable(w) /\ Acceptable(w) /\ r.block = Decode(w)
    /\ \A digest \in r.digest : digest \in Hash /\ HasValidPow(digest, Target)

\* A nonce that Lab 1 found.
Solution(r) == /\ r.digest \in Hash /\ CountZeroBits(r.digest) >= Target
               /\ InLabRange(r.nonce)

SearchOK ==
    /\ search \in [timestamp : Uint(LongWidth), nonce : Uint(LongWidth), tried : SUBSET Nat]
    /\ search.tried = 0 .. search.nonce - 1

HeldOK == DOMAIN held = Node /\ \A n \in Node : \A r \in held[n] : Sound(r)

WireOK == \A w \in wire : Sendable(w)

LabOK ==
    /\ DOMAIN lab = {"nonce", "record", "sent"} /\ lab = [f \in DOMAIN lab |-> lab[f]]
    /\ lab.nonce \in Uint(LongWidth)
    /\ \A r \in lab.record \cup lab.sent : Solution(r)

PowInv == SearchOK /\ HeldOK /\ WireOK /\ LabOK

-----------------------------------------------------------------------------
(***************************************************************************)
(* The ranges of the fields, and what the chunks try.                      *)
(***************************************************************************)

\* The ranges of signed and unsigned longs, the one half of the other.
LEMMA LongRange ==
    /\ 2 ^ (ByteBits * LongWidth) \in Nat \ {0}
    /\ Uint(LongWidth) = 0 .. 2 ^ (ByteBits * LongWidth) - 1 /\ 0 \in Uint(LongWidth)
    /\ 2 ^ (ByteBits * LongWidth - 1) \in Nat \ {0}
    /\ 2 ^ (ByteBits * LongWidth) = 2 * 2 ^ (ByteBits * LongWidth - 1)
    /\ Sint(LongWidth) =
         -(2 ^ (ByteBits * LongWidth - 1)) .. 2 ^ (ByteBits * LongWidth - 1) - 1
<1> DEFINE e == ByteBits * LongWidth
<1>1. e \in Nat \ {0}
  BY Sizes
<1>2. Uint(LongWidth) = 0 .. 2 ^ e - 1 /\ Sint(LongWidth) = -(2 ^ (e - 1)) .. 2 ^ (e - 1) - 1
  BY DEF Uint, Sint
<1> HIDE DEF e
<1>3. 2 ^ e \in Nat \ {0} /\ 2 ^ (e - 1) \in Nat \ {0}
  BY <1>1, PowerPositive
<1>4. 2 ^ e = 2 * 2 ^ (e - 1)
  <2>1. e - 1 \in Nat /\ e - 1 + 1 = e
    BY <1>1
  <2>2. 2 ^ (e - 1 + 1) = 2 ^ (e - 1) * 2 ^ 1
    BY <2>1, PowerSum
  <2>3. 2 ^ (e - 1) * 2 = 2 * 2 ^ (e - 1)
    BY <1>3
  <2> QED BY <2>1, <2>2, <2>3, PowerZero
<1>5. 0 \in 0 .. 2 ^ e - 1
  BY <1>3
<1> QED BY <1>2, <1>3, <1>4, <1>5 DEF e

\* The nonces that a chunk tries are in range, and one after the other up to the end.
LEMMA Tries ==
    ASSUME search.nonce \in Uint(LongWidth), NEW i \in Nat
    PROVE  /\ Nth(i) \in Uint(LongWidth)
           /\ search.nonce + i \in Uint(LongWidth) => Nth(i) = search.nonce + i
<1> DEFINE m == 2 ^ (ByteBits * LongWidth)
           v == search.nonce + i
<1>1. m \in Nat \ {0} /\ Uint(LongWidth) = 0 .. m - 1
  BY LongRange
<1>2. v \in Nat
  BY <1>1
<1>3. Nth(i) = v % m
  BY DEF Nth
<1> HIDE DEF m, v
<1>4. v % m \in 0 .. m - 1
  BY <1>1, <1>2, DivideType
<1>5. v \in 0 .. m - 1 => v % m = v
  BY <1>1, <1>2
<1> QED BY <1>1, <1>3, <1>4, <1>5 DEF v

\* A chunk that stays in range tries exactly its own nonces; the last chunk tries all
\* that are left.
LEMMA ChunkTries ==
    ASSUME search.nonce \in Uint(LongWidth)
    PROVE  /\ FirstTries(Chunk) \subseteq Uint(LongWidth)
           /\ NextNonce(search.nonce) \in Uint(LongWidth) =>
                FirstTries(Chunk) = search.nonce .. NextNonce(search.nonce) - 1
           /\ NextNonce(search.nonce) \notin Uint(LongWidth) =>
                \A x \in Uint(LongWidth) : x >= search.nonce => x \in FirstTries(Chunk)
<1> DEFINE m == 2 ^ (ByteBits * LongWidth)
           s == search.nonce
<1>1. /\ m \in Nat \ {0} /\ Uint(LongWidth) = 0 .. m - 1
      /\ s \in 0 .. m - 1 /\ Chunk \in Nat \ {0} /\ NextNonce(s) = s + Chunk
  BY LongRange, PowAssumption DEF NextNonce
<1>2. \A i \in 0 .. Chunk - 1 :
        Nth(i) \in 0 .. m - 1 /\ (s + i \in 0 .. m - 1 => Nth(i) = s + i)
  <2> TAKE i \in 0 .. Chunk - 1
  <2>1. i \in Nat
    BY <1>1
  <2>2. s \in Uint(LongWidth)
    OBVIOUS
  <2>3. Nth(i) \in Uint(LongWidth) /\ (s + i \in Uint(LongWidth) => Nth(i) = s + i)
    BY <2>1, <2>2, Tries
  <2> HIDE DEF s
  <2> QED BY <1>1, <2>3
<1> HIDE DEF m, s
<1>3. FirstTries(Chunk) = {Nth(i) : i \in 0 .. Chunk - 1}
  BY DEF FirstTries
<1>4. ASSUME NEW x \in 0 .. m - 1, s <= x, x < s + Chunk PROVE x \in FirstTries(Chunk)
  <2>1. x - s \in 0 .. Chunk - 1 /\ s + (x - s) = x
    BY <1>1, <1>4
  <2>2. Nth(x - s) = x
    BY <1>2, <2>1
  <2> QED BY <1>3, <2>1, <2>2
<1>5. ASSUME s + Chunk \in 0 .. m - 1 PROVE FirstTries(Chunk) = s .. s + Chunk - 1
  <2>1. \A i \in 0 .. Chunk - 1 : s + i \in 0 .. m - 1 /\ s + i \in s .. s + Chunk - 1
    BY <1>1, <1>5
  <2>2. FirstTries(Chunk) \subseteq s .. s + Chunk - 1
    BY <1>2, <1>3, <2>1
  <2>3. \A x \in s .. s + Chunk - 1 : x \in 0 .. m - 1 /\ s <= x /\ x < s + Chunk
    BY <1>1, <1>5
  <2> QED BY <1>4, <2>2, <2>3
<1>6. s + Chunk \notin 0 .. m - 1 => \A x \in 0 .. m - 1 : x < s + Chunk
  BY <1>1
<1>7. FirstTries(Chunk) \subseteq 0 .. m - 1
  BY <1>2, <1>3
<1>8. \A x \in 0 .. m - 1 : x >= s <=> s <= x
  BY <1>1
<1> QED BY <1>1, <1>4, <1>5, <1>6, <1>7, <1>8 DEF s

-----------------------------------------------------------------------------
(***************************************************************************)
(* Steps.                                                                  *)
(***************************************************************************)

\* A new search is a good one.
LEMMA NewSearchOK ==
    ASSUME NEW now \in Now, search' = NewSearch(now)
    PROVE  SearchOK'
<1>1. now \in Uint(LongWidth) /\ 0 \in Uint(LongWidth)
  BY PowAssumption, LongRange
<1>2. {} = 0 .. 0 - 1
  OBVIOUS
<1> QED BY <1>1, <1>2 DEF NewSearch, SearchOK

\* A mined block is sound.
LEMMA MinedSound ==
    ASSUME SearchOK, NEW i \in 0 .. Chunk - 1, NEW digest \in Digest,
           HasValidPow(digest, Target)
    PROVE  Sound([block  |-> [header |-> Header(Nth(i)), tx_hashes |-> Body],
                  from   |-> {}, digest |-> {digest}])
<1> DEFINE fill(b) == [k \in 1 .. HashWidth |-> b]
<1>1. 0 \in Byte /\ 1 \in Byte
  <2>1. ByteBits \in Nat /\ 1 \in Nat /\ 1 <= ByteBits
    BY Sizes
  <2>2. 2 ^ 1 <= 2 ^ ByteBits
    BY <2>1, PowerMonotone
  <2>3. 2 ^ ByteBits \in Nat
    BY <2>1, PowerPositive
  <2> QED BY <2>2, <2>3, PowerZero DEF Byte
<1>2. fill(0) \in Hash /\ fill(1) \in Hash
  <2>1. HashWidth \in Nat
    BY Sizes
  <2>2. fill(0) \in Seq(Byte) /\ fill(1) \in Seq(Byte)
    BY <1>1, <2>1
  <2>3. Len(fill(0)) = HashWidth /\ Len(fill(1)) = HashWidth
    BY <2>1
  <2> QED BY <2>2, <2>3 DEF Hash, IsHash
<1>3. Header(Nth(i)) = [prev_hash |-> fill(0), txs_hash |-> fill(1),
                        timestamp |-> search.timestamp, difficulty |-> Target,
                        nonce |-> Nth(i)]
      /\ Body = <<fill(1), fill(0)>>
  BY DEF Header, Body
<1> HIDE DEF fill
<1>4. /\ search.timestamp \in Uint(LongWidth) /\ Nth(i) \in Uint(LongWidth)
      /\ Target \in Uint(IntWidth) /\ digest \in Hash
  <2>1. i \in Nat
    BY PowAssumption
  <2> QED BY <2>1, Tries, PowAssumption DEF SearchOK
<1>5. \A width \in Nat : Uint(width) \subseteq Int
  BY DEF Uint
<1>6. Header(Nth(i)) \in BlockHeader /\ Packable(Header(Nth(i)))
  BY <1>2, <1>3, <1>4, <1>5, Sizes DEF BlockHeader, Packable, Hash
<1>7. Body \in Seq(Hash)
  BY <1>2, <1>3
<1> QED BY <1>4, <1>6, <1>7 DEF Sound

\* So is one decoded from an acceptable message.
LEMMA DecodedSound ==
    ASSUME NEW w, Sendable(w), Acceptable(w)
    PROVE  Sound([block |-> Decode(w), from |-> {w}, digest |-> {}])
<1>1. w.header \in BlockHeader /\ w.tx_hashes \in Seq(Byte) /\ Splittable(w.tx_hashes)
  BY DEF Sendable, BlockMessage, Acceptable
<1>2. SplitHashes(w.tx_hashes) \in Seq(Hash)
  BY <1>1, JoinOfSplit
<1>3. Packable(w.header)
  BY DEF Acceptable
<1> QED BY <1>1, <1>2, <1>3 DEF Sound, Decode

\* What is served of a sound block can come over the wire.
LEMMA EncodedSendable ==
    ASSUME NEW r, Sound(r), Encodable(r.block.header)
    PROVE  Sendable(Encode(r.block))
<1>1. r.block.header \in BlockHeader /\ r.block.tx_hashes \in Seq(Hash) /\ Packable(r.block.header)
  BY DEF Sound
<1>2. PackHeader(r.block.header) \in Seq(Byte) /\ JoinHashes(r.block.tx_hashes) \in Seq(Byte)
  BY <1>1, PackHeaderBytes, SplitOfJoin
<1> QED BY <1>1, <1>2 DEF Sendable, Encode, BlockMessage

\* The invariant holds at first.
LEMMA InitPowInv == Init => PowInv
<1> SUFFICES ASSUME Init PROVE PowInv
  OBVIOUS
<1>1. SearchOK
  <2>1. PICK now \in Now : search = NewSearch(now)
    BY DEF Init
  <2>2. now \in Uint(LongWidth) /\ 0 \in Uint(LongWidth)
    BY PowAssumption, LongRange
  <2>3. {} = 0 .. 0 - 1
    OBVIOUS
  <2> QED BY <2>1, <2>2, <2>3 DEF NewSearch, SearchOK
<1>2. HeldOK /\ WireOK
  BY DEF Init, HeldOK, WireOK
<1>3. LabOK
  BY LongRange DEF Init, LabOK
<1> QED BY <1>1, <1>2, <1>3 DEF PowInv

\* Every step of searches, nodes and scripts keeps it.
LEMMA PowStepInv ==
    ASSUME PowInv, [Next]_vars
    PROVE  PowInv'
<1> USE DEF PowInv
<1>1. CASE ChunkFinds
  <2>1. PICK i \in 0 .. Chunk - 1, digest \in Digest, now \in Now :
          /\ HasValidPow(digest, Target)
          /\ held' = [held EXCEPT ![Miner] = @ \cup
                        {[block  |-> [header |-> Header(Nth(i)), tx_hashes |-> Body],
                          from   |-> {}, digest |-> {digest}]}]
          /\ search' = NewSearch(now) /\ UNCHANGED <<wire, lab>>
    BY <1>1 DEF ChunkFinds
  <2>2. SearchOK'
    BY <2>1, NewSearchOK
  <2>3. HeldOK'
    <3>1. Sound([block  |-> [header |-> Header(Nth(i)), tx_hashes |-> Body],
                 from   |-> {}, digest |-> {digest}])
      BY <2>1, MinedSound
    <3> QED BY <2>1, <3>1 DEF HeldOK
  <2>4. WireOK' /\ LabOK'
    BY <2>1 DEF WireOK, LabOK, Solution
  <2> QED BY <2>2, <2>3, <2>4
<1>2. CASE ChunkFails
  <2>1. HeldOK' /\ WireOK' /\ LabOK'
    BY <1>2 DEF ChunkFails, HeldOK, WireOK, LabOK
  <2>2. SearchOK'
    <3> DEFINE next == NextNonce(search.nonce)
    <3>1. CASE next \in Uint(LongWidth)
      <4>1. search' = [search EXCEPT !.nonce = next, !.tried = @ \cup FirstTries(Chunk)]
        BY <1>2, <3>1 DEF ChunkFails
      <4>2. FirstTries(Chunk) = search.nonce .. next - 1 /\ search.nonce \in Uint(LongWidth)
        BY <3>1, ChunkTries DEF SearchOK
      <4>3. /\ search.nonce \in Nat /\ next \in Nat /\ search.nonce <= next
            /\ search.tried = 0 .. search.nonce - 1
        BY <3>1, <4>2, LongRange, PowAssumption DEF SearchOK, NextNonce
      <4> HIDE DEF next
      <4>4. 0 .. search.nonce - 1 \cup search.nonce .. next - 1 = 0 .. next - 1
        BY <4>3
      <4>5. 0 .. next - 1 \in SUBSET Nat
        BY <4>3
      <4> QED BY <3>1, <4>1, <4>2, <4>3, <4>4, <4>5 DEF SearchOK
    <3>2. CASE next \notin Uint(LongWidth)
      <4>1. PICK now \in Now : search' = NewSearch(now)
        BY <1>2, <3>2 DEF ChunkFails
      <4> QED BY <4>1, NewSearchOK
    <3> QED BY <3>1, <3>2
  <2> QED BY <2>1, <2>2
<1>3. CASE TipChanges
  <2>1. HeldOK' /\ WireOK' /\ LabOK'
    BY <1>3 DEF TipChanges, HeldOK, WireOK, LabOK
  <2>2. PICK now \in Now : search' = NewSearch(now)
    BY <1>3 DEF TipChanges
  <2> QED BY <2>1, <2>2, NewSearchOK
<1>4. ASSUME NEW n \in Node, OnGetBlock(n) PROVE PowInv'
  <2>1. SearchOK' /\ HeldOK' /\ LabOK'
    BY <1>4 DEF OnGetBlock, SearchOK, HeldOK, LabOK
  <2>2. PICK r \in held[n] : Encodable(r.block.header) /\ wire' = wire \cup {Encode(r.block)}
    BY <1>4 DEF OnGetBlock
  <2>3. Sendable(Encode(r.block))
    BY <2>2, EncodedSendable DEF HeldOK
  <2> QED BY <2>1, <2>2, <2>3 DEF WireOK
<1>5. ASSUME NEW n \in Node, NEW w \in wire, OnBlockResponse(n, w) PROVE PowInv'
  <2>1. SearchOK' /\ WireOK' /\ LabOK'
    BY <1>5 DEF OnBlockResponse, SearchOK, WireOK, LabOK
  <2>2. Acceptable(w) => Sound([block |-> Decode(w), from |-> {w}, digest |-> {}])
    BY DecodedSound DEF WireOK
  <2>3. HeldOK'
    BY <1>5, <2>2 DEF OnBlockResponse, HeldOK
  <2> QED BY <2>1, <2>3
<1>6. CASE SendForeign
  BY <1>6, PowAssumption DEF SendForeign, SearchOK, HeldOK, WireOK, LabOK, Sendable
<1>7. CASE LabTry
  <2>1. SearchOK' /\ HeldOK' /\ WireOK'
    BY <1>7 DEF LabTry, SearchOK, HeldOK, WireOK
  <2>2. PICK digest \in Digest :
          lab' = IF CountZeroBits(digest) >= Target
                 THEN [lab EXCEPT !.record = {[nonce |-> lab.nonce, digest |-> digest]}]
                 ELSE [lab EXCEPT !.nonce = @ + 1]
    BY <1>7 DEF LabTry
  <2>3. CASE CountZeroBits(digest) >= Target
    <3>1. Solution([nonce |-> lab.nonce, digest |-> digest])
      BY <1>7, <2>3, PowAssumption DEF LabTry, Solution
    <3> QED BY <2>1, <2>2, <2>3, <3>1 DEF LabOK
  <2>4. CASE ~ (CountZeroBits(digest) >= Target)
    <3>1. lab.nonce + 1 \in Uint(LongWidth)
      BY <1>7, LongRange DEF LabTry, InLabRange
    <3> QED BY <2>1, <2>2, <2>4, <3>1 DEF LabOK
  <2> QED BY <2>3, <2>4
<1>8. CASE LabSubmit
  <2>1. SearchOK' /\ HeldOK' /\ WireOK'
    BY <1>8 DEF LabSubmit, SearchOK, HeldOK, WireOK
  <2>2. PICK r \in lab.record : lab' = [lab EXCEPT !.sent = {r}]
    BY <1>8 DEF LabSubmit
  <2> QED BY <2>1, <2>2 DEF LabOK
<1>9. CASE UNCHANGED vars
  BY <1>9 DEF vars, SearchOK, HeldOK, WireOK, LabOK
<1> QED BY <1>1, <1>2, <1>3, <1>4, <1>5, <1>6, <1>7, <1>8, <1>9 DEF Next

-----------------------------------------------------------------------------
(***************************************************************************)
(* What a header's numbers need to travel.                                 *)
(***************************************************************************)

\* The difficulty field of a header is narrower than that of the message, so only the
\* nonce and the timestamp can fail to fit.
LEMMA EncodableNumbers ==
    ASSUME NEW h \in BlockHeader, Packable(h)
    PROVE  Encodable(h) <=> /\ h.nonce < 2 ^ (ByteBits * LongWidth - 1)
                            /\ h.timestamp < 2 ^ (ByteBits * LongWidth - 1)
<1> DEFINE half == 2 ^ (ByteBits * LongWidth - 1)
<1>1. half \in Nat \ {0} /\ Sint(LongWidth) = -half .. half - 1
  BY LongRange
<1>2. h.nonce \in Nat /\ h.timestamp \in Nat
  BY LongRange DEF Packable
<1>3. h.difficulty \in 0 .. half - 1
  <2>1. /\ ByteBits * IntWidth \in Nat /\ ByteBits * LongWidth - 1 \in Nat
        /\ ByteBits * IntWidth <= ByteBits * LongWidth - 1
    <3>1. /\ ByteBits \in Nat \ {0} /\ LongWidth \in Nat \ {0} /\ IntWidth \in Nat \ {0}
          /\ IntWidth + 1 <= LongWidth
      BY Sizes
    <3>2. (IntWidth + 1) * ByteBits <= LongWidth * ByteBits
      BY <3>1, ProductMonotone
    <3>3. (IntWidth + 1) * ByteBits = ByteBits * IntWidth + ByteBits
          /\ LongWidth * ByteBits = ByteBits * LongWidth
      BY <3>1
    <3>4. ByteBits * IntWidth \in Nat /\ ByteBits * LongWidth \in Nat
      BY <3>1
    <3> QED BY <3>1, <3>2, <3>3, <3>4
  <2>2. 2 ^ (ByteBits * IntWidth) <= half /\ 2 ^ (ByteBits * IntWidth) \in Nat
    BY <2>1, PowerMonotone, PowerPositive
  <2>3. h.difficulty \in 0 .. 2 ^ (ByteBits * IntWidth) - 1
    BY DEF Packable, Uint
  <2> HIDE DEF half
  <2> QED BY <1>1, <2>2, <2>3
<1> HIDE DEF half
<1>4. Encodable(h) <=> /\ h.timestamp \in -half .. half - 1
                       /\ h.difficulty \in -half .. half - 1
                       /\ h.nonce \in -half .. half - 1
  BY <1>1 DEF Encodable, WireLongs
<1>5. /\ h.timestamp \in -half .. half - 1 <=> h.timestamp < half
      /\ h.nonce \in -half .. half - 1 <=> h.nonce < half
      /\ h.difficulty \in -half .. half - 1
  BY <1>1, <1>2, <1>3
<1> QED BY <1>4, <1>5 DEF half

-----------------------------------------------------------------------------
(***************************************************************************)
(* The theorems.                                                           *)
(***************************************************************************)

\* The invariant of the two searches and of the blocks on their way (_mine_loop,
\* on_get_block, on_block_response, mine_pow, submit_assignment1): every held block
\* can be packed and is the block of the message it came in, or has the proof of work
\* it was found with.
THEOREM PowInvariance == Spec => []PowInv
<1>1. Init => PowInv
  BY InitPowInv
<1>2. PowInv /\ [Next]_vars => PowInv'
  BY PowStepInv
<1> QED BY <1>1, <1>2, PTL DEF Spec

\* Every nonce searched is one of its field, the nonces tried are those below the
\* next, and what a node holds can be packed (pack_block_header never raises on it).
THEOREM PowTyped == Spec => []PowTypeOK
<1>1. PowInv => PowTypeOK
  BY DEF PowInv, PowTypeOK, SearchOK, HeldOK, LabOK, Sound
<1> QED BY <1>1, PowInvariance, PTL

\* For every chunk size, a search gives up its timestamp only when all the nonces of
\* the unsigned range were tried with it (mine_nonce, _mine_loop).
THEOREM NothingIsSkipped == Spec => NothingSkipped
<1>1. ASSUME PowInv, ChunkFails, search'.nonce = 0
      PROVE  search.tried \cup FirstTries(Chunk) = Uint(LongWidth)
  <2> DEFINE next == NextNonce(search.nonce)
  <2>1. /\ search.nonce \in Uint(LongWidth) /\ search.nonce \in Nat
        /\ search.tried = 0 .. search.nonce - 1
        /\ DOMAIN search = {"timestamp", "nonce", "tried"}
    BY <1>1, LongRange DEF PowInv, SearchOK
  <2>2. next \notin Uint(LongWidth)
    <3> SUFFICES ASSUME next \in Uint(LongWidth) PROVE FALSE
      OBVIOUS
    <3>1. search'.nonce = next
      BY <1>1, <2>1 DEF ChunkFails
    <3>2. next # 0
      BY <2>1, PowAssumption DEF NextNonce
    <3> QED BY <1>1, <3>1, <3>2
  <2>3. /\ FirstTries(Chunk) \subseteq Uint(LongWidth)
        /\ \A x \in Uint(LongWidth) : x >= search.nonce => x \in FirstTries(Chunk)
    BY <2>1, <2>2, ChunkTries
  <2>4. search.tried \subseteq Uint(LongWidth)
    BY <2>1, LongRange
  <2>5. \A x \in Uint(LongWidth) : x >= search.nonce \/ x \in search.tried
    BY <2>1, LongRange
  <2> QED BY <2>3, <2>4, <2>5
<1>2. PowInv /\ [Next]_vars
        => [ChunkFails /\ search'.nonce = 0
              => search.tried \cup FirstTries(Chunk) = Uint(LongWidth)]_vars
  BY <1>1
<1> QED BY <1>2, PowInvariance, PTL DEF Spec, NothingSkipped

\* The bytes of a held header determine it: with the ranges that pack_block_header
\* refuses, a block hash names one header, whatever the widths of the fields.
THEOREM HeadersNamed == Spec => []HashNamesHeader
<1>1. PowInv => HashNamesHeader
  <2> SUFFICES ASSUME HeldOK, NEW n \in Node, NEW m \in Node,
                      NEW r \in held[n], NEW s \in held[m],
                      PackHeader(r.block.header) = PackHeader(s.block.header)
               PROVE  r.block.header = s.block.header
    BY DEF PowInv, HashNamesHeader
  <2>1. /\ r.block.header \in BlockHeader /\ Packable(r.block.header)
        /\ s.block.header \in BlockHeader /\ Packable(s.block.header)
    BY DEF HeldOK, Sound
  <2> QED BY <2>1, PackHeaderInjective
<1> QED BY <1>1, PowInvariance, PTL

\* A node serves the very message it accepted (on_block_response, on_get_block):
\* taking the body apart into hashes and joining them again changes no byte.
THEOREM RelaysFaithfully == Spec => []RelayFaithful
<1>1. PowInv => RelayFaithful
  <2> SUFFICES ASSUME HeldOK, NEW n \in Node, NEW r \in held[n], NEW w \in r.from
               PROVE  Encodable(r.block.header) /\ Encode(r.block) = w
    BY DEF PowInv, RelayFaithful
  <2>1. Sendable(w) /\ Acceptable(w) /\ r.block = Decode(w)
    BY DEF HeldOK, Sound
  <2>2. r.block.header = w.header /\ r.block.tx_hashes = SplitHashes(w.tx_hashes)
    BY <2>1 DEF Decode
  <2>3. JoinHashes(r.block.tx_hashes) = w.tx_hashes
    BY <2>1, <2>2, JoinOfSplit DEF Sendable, BlockMessage, Acceptable
  <2>4. PackHeader(r.block.header) = w.block_hash
    BY <2>1, <2>2 DEF Acceptable
  <2>5. w = [header |-> w.header, block_hash |-> w.block_hash, tx_hashes |-> w.tx_hashes]
    BY <2>1 DEF Sendable, BlockMessage
  <2> QED BY <2>1, <2>2, <2>3, <2>4, <2>5 DEF Sendable, Encode
<1> QED BY <1>1, PowInvariance, PTL

\* A block can be served exactly if its nonce and timestamp fit the signed fields of
\* BlockResponsePayload, and who gets it then takes the same block.
THEOREM ServedTaken == Spec => []ServedIsTaken
<1>1. PowInv => ServedIsTaken
  <2> SUFFICES ASSUME HeldOK, NEW n \in Node, NEW r \in held[n]
               PROVE  /\ Encodable(r.block.header) <=>
                           /\ r.block.header.nonce < 2 ^ (ByteBits * LongWidth - 1)
                           /\ r.block.header.timestamp < 2 ^ (ByteBits * LongWidth - 1)
                      /\ Acceptable(Encode(r.block)) /\ Decode(Encode(r.block)) = r.block
    BY DEF PowInv, ServedIsTaken
  <2>1. /\ r.block \in [header : BlockHeader, tx_hashes : Seq(Hash)]
        /\ r.block.header \in BlockHeader /\ r.block.tx_hashes \in Seq(Hash)
        /\ Packable(r.block.header)
    BY DEF HeldOK, Sound
  <2>2. /\ Encodable(r.block.header) <=>
             /\ r.block.header.nonce < 2 ^ (ByteBits * LongWidth - 1)
             /\ r.block.header.timestamp < 2 ^ (ByteBits * LongWidth - 1)
    BY <2>1, EncodableNumbers
  <2>3. /\ Splittable(JoinHashes(r.block.tx_hashes))
        /\ SplitHashes(JoinHashes(r.block.tx_hashes)) = r.block.tx_hashes
    BY <2>1, SplitOfJoin
  <2>4. Acceptable(Encode(r.block))
    BY <2>1, <2>3 DEF Acceptable, Encode, Packable
  <2>5. Decode(Encode(r.block)) = r.block
    BY <2>1, <2>3 DEF Decode, Encode
  <2> QED BY <2>2, <2>4, <2>5
<1> QED BY <1>1, PowInvariance, PTL

\* Every digest that has_valid_pow lets through is below the target as a number, so
\* leading_zero_bits of blockchain_utils counts what the assignment means.
THEOREM MinedMeets == Spec => []MinedMeetsTarget
<1>1. PowInv => MinedMeetsTarget
  <2> SUFFICES ASSUME HeldOK, NEW r \in held[Miner], NEW digest \in r.digest
               PROVE  Meets(digest, Target)
    BY DEF PowInv, MinedMeetsTarget
  <2>1. digest \in Seq(Byte) /\ LeadingZeroBits(digest) >= Target
    BY PowAssumption DEF HeldOK, Sound, Hash, HasValidPow
  <2>2. Target \in Nat
    BY PowAssumption DEF Uint
  <2> QED BY <2>1, <2>2, LeadingZerosMeet
<1> QED BY <1>1, PowInvariance, PTL

\* What is submitted in Lab 1 meets the target by either count and fits the signed
\* field of the submission (mine_nonce of mine_pow, validate_pow_record).
THEOREM LabMeets == Spec => []LabMeetsTarget
<1>1. PowInv => LabMeetsTarget
  <2> SUFFICES ASSUME LabOK, NEW r \in lab.sent
               PROVE  /\ Meets(r.digest, Target) /\ HasValidPow(r.digest, Target)
                      /\ r.nonce \in Sint(LongWidth)
    BY DEF PowInv, LabMeetsTarget
  <2>1. r.digest \in Seq(Byte) /\ CountZeroBits(r.digest) >= Target
        /\ r.nonce \in Sint(LongWidth)
    BY DEF LabOK, Solution, Hash, InLabRange
  <2>2. CountZeroBits(r.digest) = LeadingZeroBits(r.digest)
    BY <2>1, CountsAgree
  <2>3. LeadingZeroBits(r.digest) >= Target
    BY <2>1, <2>2
  <2>4. Target \in Nat
    BY PowAssumption DEF Uint
  <2>5. Meets(r.digest, Target)
    BY <2>1, <2>3, <2>4, LeadingZerosMeet
  <2> QED BY <2>1, <2>3, <2>5 DEF HasValidPow
<1> QED BY <1>1, PowInvariance, PTL
=============================================================================
