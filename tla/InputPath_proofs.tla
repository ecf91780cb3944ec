-------------------------- MODULE InputPath_proofs --------------------------
(***************************************************************************)
(* That a packet which is whole in the file reaches the buffer whole, once *)
(* and in order, that what is missing is counted, and that the end of the  *)
(* file comes after its last packet: for any files, any sizes of packets,  *)
(* blocks and reads, and any number of sync bytes the filter looks for.    *)
(* And that the pace of its PCRs, or of a rate, is kept.                   *)
(*                                                                         *)
(* A part of the file is given by the number of bytes before it and the    *)
(* number of bytes before its end (Slice).  The read buffer, the filter's  *)
(* remainder and what it is given are such parts.                          *)
(***************************************************************************)
EXTENDS InputPath, FiniteSetTheorems, SequenceTheorems, WellFoundedInduction, TLAPS

-----------------------------------------------------------------------------
(***************************************************************************)
(* Numbers.                                                                *)
(***************************************************************************)

(* A set of naturals that is not empty has a first element.                *)
LEMMA FirstOne ==
  ASSUME NEW T, T \subseteq Nat, T # {}
  PROVE  \E x \in T : \A y \in T : x <= y
<1> DEFINE R == OpToRel(<, Nat)
<1>1. IsWellFoundedOn(R, Nat)
  BY NatLessThanWellFounded
<1>2. \A x, y \in Nat : <<y, x>> \in R <=> y < x
  BY DEF OpToRel
<1> HIDE DEF R
<1>3. PICK x \in T : \A y \in T : ~ (<<y, x>> \in R)
  BY <1>1, WFMin
<1>4. ASSUME NEW y \in T PROVE x <= y
  <2>1. x \in Nat /\ y \in Nat /\ ~ (y < x)
    BY <1>2, <1>3
  <2> QED  BY <2>1
<1> QED  BY <1>4

(* What holds at 0, and at m + 1 if at m, holds up to n.                   *)
LEMMA Climbing ==
  ASSUME NEW n \in Nat, NEW T, 0 \in T,
         \A m \in 0 .. n : m < n /\ m \in T => m + 1 \in T
  PROVE  \A m \in 0 .. n : m \in T
<1> DEFINE U == {m \in 0 .. n : m \notin T}
<1> SUFFICES ASSUME U # {} PROVE FALSE
  OBVIOUS
<1>1. PICK x \in U : \A y \in U : x <= y
  <2>1. U \subseteq Nat
    OBVIOUS
  <2> HIDE DEF U
  <2> QED  BY <2>1, FirstOne
<1>2. x \in 0 .. n /\ x \notin T /\ x # 0
  OBVIOUS
<1>3. x - 1 \in 0 .. n /\ x - 1 < n /\ ~ (x <= x - 1)
  BY <1>2
<1>4. x - 1 \in T
  BY <1>1, <1>3
<1>5. x - 1 + 1 = x
  BY <1>2
<1> QED  BY <1>2, <1>3, <1>4, <1>5

(* The least and the greatest of some numbers.                             *)
LEMMA MinIs ==
  ASSUME NEW T, T \subseteq Nat, T # {}
  PROVE  Min(T) \in T /\ \A y \in T : Min(T) <= y
BY FirstOne, Zenon DEF Min

LEMMA MaxIs ==
  ASSUME NEW n \in Nat, NEW T, T \subseteq 0 .. n, T # {}
  PROVE  Max(T) \in T /\ \A y \in T : y <= Max(T)
<1> DEFINE U == {n - x : x \in T}
<1>0. \A x \in T : x \in Nat /\ n - x \in Nat
  <2> SUFFICES ASSUME NEW x \in T PROVE x \in Nat /\ n - x \in Nat
    OBVIOUS
  <2>1. x \in 0 .. n
    OBVIOUS
  <2> QED  BY <2>1
<1>1. U \subseteq Nat /\ U # {}
  BY <1>0
<1>2. PICK u \in U : \A y \in U : u <= y
  <2> HIDE DEF U
  <2> QED  BY <1>1, FirstOne
<1>3. PICK x \in T : u = n - x
  OBVIOUS
<1>4. ASSUME NEW y \in T PROVE x >= y
  <2>1. u <= n - y
    BY <1>2
  <2>2. x \in Nat /\ y \in Nat
    BY <1>0
  <2> QED  BY <1>3, <2>1, <2>2
<1>5. Max(T) \in T /\ \A y \in T : Max(T) >= y
  BY <1>4, Zenon DEF Max
<1>6. Max(T) \in Nat /\ T \subseteq Nat
  BY <1>0, <1>5
<1> QED  BY <1>5, <1>6

(* Of so many bytes, how many packets and how much more.                   *)
LEMMA PacketSizeIs == PacketSize \in Nat /\ PacketSize > 0
BY InputPathAssumption DEF InputPathAssumption

LEMMA Multiples ==
  ASSUME NEW a \in Int, NEW b \in Int,
         NEW r \in 0 .. PacketSize - 1, NEW c \in 0 .. PacketSize - 1,
         a * PacketSize + r = b * PacketSize + c
  PROVE  a = b /\ r = c
<1> USE PacketSizeIs
<1>1. ASSUME NEW x \in Int, NEW y \in Int, x < y
      PROVE  x * PacketSize + PacketSize <= y * PacketSize
  <2>1. x + 1 <= y
    BY <1>1
  <2>2. (x + 1) * PacketSize <= y * PacketSize
    BY <2>1, SMT
  <2> QED  BY <2>2, SMT
<1>2. a * PacketSize \in Int /\ b * PacketSize \in Int
  OBVIOUS
<1>3. ~ (a < b)
  <2>1. a < b => a * PacketSize + PacketSize <= b * PacketSize
    BY <1>1
  <2> QED  BY <1>2, <2>1, SMT
<1>4. ~ (b < a)
  <2>1. b < a => b * PacketSize + PacketSize <= a * PacketSize
    BY <1>1
  <2> QED  BY <1>2, <2>1, SMT
<1> QED  BY <1>3, <1>4, SMT

LEMMA MultiplesUp ==
  ASSUME NEW x \in Int, NEW y \in Int, x <= y
  PROVE  x * PacketSize <= y * PacketSize /\ x * PacketSize \in Int
BY PacketSizeIs, SMT

LEMMA WholeIs ==
  ASSUME NEW n \in Nat
  PROVE  \E q \in Nat, r \in 0 .. PacketSize - 1 :
           /\ n = q * PacketSize + r
           /\ n \div PacketSize = q
           /\ Whole(n) = q * PacketSize
           /\ q * PacketSize \in Nat
<1> USE PacketSizeIs
<1>1. PICK q \in Int : q = n \div PacketSize
  BY SMT
<1>2. q \in Nat /\ q * PacketSize \in Nat
  BY <1>1, SMT
<1>3. PICK r \in Int : r = n - q * PacketSize
  BY <1>2, SMT
<1>4. r \in 0 .. PacketSize - 1
  BY <1>1, <1>3, SMT
<1>5. n = q * PacketSize + r
  BY <1>2, <1>3, SMT
<1>6. Whole(n) = q * PacketSize
  BY <1>1 DEF Whole
<1> QED  BY <1>1, <1>2, <1>4, <1>5, <1>6

-----------------------------------------------------------------------------
(***************************************************************************)
(* Parts of a sequence.                                                    *)
(***************************************************************************)

Slice(f, a, b) == SubSeq(f, a + 1, b)

(* The bytes of a part.                                                    *)
LEMMA SliceIs ==
  ASSUME NEW S, NEW f \in Seq(S), NEW a \in 0 .. Len(f), NEW b \in a .. Len(f)
  PROVE  /\ Slice(f, a, b) \in Seq(S)
         /\ Len(Slice(f, a, b)) = b - a
         /\ DOMAIN Slice(f, a, b) = 1 .. b - a
         /\ \A i \in 1 .. b - a : Slice(f, a, b)[i] = f[a + i]
<1>1. \A i \in a + 1 .. b : f[i] \in S
  BY ElementOfSeq
<1>2. /\ Slice(f, a, b) \in Seq(S)
      /\ Len(Slice(f, a, b)) = IF a + 1 <= b THEN b - (a + 1) + 1 ELSE 0
      /\ \A i \in 1 .. b - (a + 1) + 1 : Slice(f, a, b)[i] = f[a + 1 + i - 1]
  BY <1>1, SubSeqProperties DEF Slice
<1>3. \A i \in 1 .. b - a : a + 1 + i - 1 = a + i
  OBVIOUS
<1>4. b - (a + 1) + 1 = b - a
  OBVIOUS
<1>5. Len(Slice(f, a, b)) = b - a
  BY <1>2
<1> QED  BY <1>2, <1>3, <1>4, <1>5, LenProperties

(* Two parts next to each other.                                           *)
LEMMA SliceJoin ==
  ASSUME NEW S, NEW f \in Seq(S), NEW a \in 0 .. Len(f), NEW b \in a .. Len(f), NEW c \in b .. Len(f)
  PROVE  Slice(f, a, b) \o Slice(f, b, c) = Slice(f, a, c)
<1>1. a + 1 \in 1 .. Len(f) + 1 /\ b \in a + 1 - 1 .. Len(f) /\ c \in b .. Len(f)
  OBVIOUS
<1> QED  BY <1>1, ConcatAdjacentSubSeq DEF Slice

(* A part of a part.                                                       *)
LEMMA SliceOfSlice ==
  ASSUME NEW S, NEW f \in Seq(S), NEW a \in 0 .. Len(f), NEW b \in a .. Len(f),
         NEW i \in 0 .. b - a, NEW j \in i .. b - a
  PROVE  Slice(Slice(f, a, b), i, j) = Slice(f, a + i, a + j)
<1>0. PICK g : g = Slice(f, a, b)
  OBVIOUS
<1>1. g \in Seq(S) /\ Len(g) = b - a /\ \A k \in 1 .. b - a : g[k] = f[a + k]
  BY <1>0, SliceIs
<1>2. a + i \in 0 .. Len(f) /\ a + j \in a + i .. Len(f) /\ a + j - (a + i) = j - i
  <2>1. Len(f) \in Nat /\ a \in Int /\ b \in Int /\ i \in Int /\ j \in Int /\ b <= Len(f)
    OBVIOUS
  <2> QED  BY <2>1
<1>3. /\ Slice(f, a + i, a + j) \in Seq(S)
      /\ Len(Slice(f, a + i, a + j)) = j - i
      /\ \A k \in 1 .. j - i : Slice(f, a + i, a + j)[k] = f[a + i + k]
  <2>1. PICK c, d : c = a + i /\ d = a + j
    OBVIOUS
  <2>2. c \in 0 .. Len(f) /\ d \in c .. Len(f) /\ d - c = j - i
    BY <1>2, <2>1
  <2>3. /\ Slice(f, c, d) \in Seq(S)
        /\ Len(Slice(f, c, d)) = d - c
        /\ \A k \in 1 .. d - c : Slice(f, c, d)[k] = f[c + k]
    BY <2>2, SliceIs, ZenonT(30)
  <2> QED  BY <2>1, <2>2, <2>3, Zenon
<1>4. i \in 0 .. Len(g) /\ j \in i .. Len(g)
  BY <1>1
<1>5. /\ Slice(g, i, j) \in Seq(S)
      /\ Len(Slice(g, i, j)) = j - i
      /\ \A k \in 1 .. j - i : Slice(g, i, j)[k] = g[i + k]
  <2>1. g \in Seq(S) /\ i \in 0 .. Len(g) /\ j \in i .. Len(g)
    BY <1>1, <1>4
  <2> QED  BY <2>1, SliceIs, Zenon
<1>6. \A k \in 1 .. j - i : i + k \in 1 .. b - a /\ a + (i + k) = a + i + k
  OBVIOUS
<1>7. \A k \in 1 .. j - i : Slice(g, i, j)[k] = Slice(f, a + i, a + j)[k]
  BY <1>1, <1>3, <1>5, <1>6
<1>8. Slice(g, i, j) = Slice(f, a + i, a + j)
  BY <1>3, <1>5, <1>7, SeqEqual
<1> QED  BY <1>0, <1>8

LEMMA SliceNone ==
  ASSUME NEW f, NEW a \in Int
  PROVE  Slice(f, a, a) = <<>>
BY SubSeqEmpty DEF Slice

IsPart(g, f, a, b) ==
  /\ Len(g) = b - a
  /\ DOMAIN g = 1 .. b - a
  /\ \A i \in 1 .. b - a : g[i] = f[a + i]

LEMMA PartIs ==
  ASSUME NEW S, NEW f \in Seq(S), NEW a \in 0 .. Len(f), NEW b \in a .. Len(f)
  PROVE  IsPart(Slice(f, a, b), f, a, b)
BY SliceIs DEF IsPart

-----------------------------------------------------------------------------
(***************************************************************************)
(* Bytes, and how they follow each other.                                  *)
(***************************************************************************)

Bytes == Nat \X (0 .. PacketSize - 1) \X BOOLEAN

(* Nothing is missing within a part.                                       *)
Straight(f, a, b) == \A k \in a + 1 .. b - 1 : IsNext(f[k], f[k + 1])

(* A packet begins with a sync byte.                                       *)
Headed(f) == \A i \in 1 .. Len(f) : f[i][2] = 0 => IsSync(f[i])

LEMMA ByteIs ==
  ASSUME NEW b \in Bytes
  PROVE  b[1] \in Nat /\ b[2] \in 0 .. PacketSize - 1
BY DEF Bytes

(* Where bytes are missing within a part.                                  *)
LEMMA HoleIs ==
  ASSUME NEW S, NEW f \in Seq(S), NEW a \in 0 .. Len(f), NEW b \in a .. Len(f), NEW k
  PROVE  k \in Holes(Slice(f, a, b)) <=> k \in 1 .. b - a - 1 /\ ~IsNext(f[a + k], f[a + k + 1])
<1>1. PICK g : g = Slice(f, a, b)
  OBVIOUS
<1>2. Len(g) = b - a /\ \A i \in 1 .. b - a : g[i] = f[a + i]
  BY <1>1, SliceIs
<1>3. k \in Holes(g) <=> k \in 1 .. b - a - 1 /\ ~IsNext(g[k], g[k + 1])
  BY <1>2 DEF Holes
<1>4. ASSUME k \in 1 .. b - a - 1
      PROVE  g[k] = f[a + k] /\ g[k + 1] = f[a + k + 1]
  <2>1. k \in 1 .. b - a /\ k + 1 \in 1 .. b - a /\ a + (k + 1) = a + k + 1
    BY <1>4
  <2> QED  BY <1>2, <2>1
<1> QED  BY <1>1, <1>3, <1>4

LEMMA NoHoles ==
  ASSUME NEW S, NEW f \in Seq(S), NEW a \in 0 .. Len(f), NEW b \in a .. Len(f)
  PROVE  Holes(Slice(f, a, b)) = {} <=> Straight(f, a, b)
<1>1. ASSUME Holes(Slice(f, a, b)) = {}, NEW k \in a + 1 .. b - 1
      PROVE  IsNext(f[k], f[k + 1])
  <2>1. PICK i \in 1 .. b - a - 1 : k = a + i
    <3>1. k - a \in 1 .. b - a - 1 /\ k = a + (k - a)
      OBVIOUS
    <3> QED  BY <3>1
  <2> QED  BY <1>1, <2>1, HoleIs
<1>2. ASSUME Straight(f, a, b), NEW k \in Holes(Slice(f, a, b))
      PROVE  FALSE
  <2>1. k \in 1 .. b - a - 1 /\ ~IsNext(f[a + k], f[a + k + 1])
    BY HoleIs
  <2>2. a + k \in a + 1 .. b - 1
    BY <2>1
  <2> QED  BY <1>2, <2>1, <2>2 DEF Straight
<1> QED  BY <1>1, <1>2 DEF Straight

(* In a part without holes the place of a byte in its packet, and the      *)
(* number of the packet, go by how far the byte is from the first.         *)
LEMMA RunIs ==
  ASSUME NEW f \in Seq(Bytes), NEW a \in 0 .. Len(f), NEW b \in a + 1 .. Len(f), Straight(f, a, b)
  PROVE  \A k \in 0 .. b - a - 1 :
           \E q \in Nat : /\ f[a + 1][2] + k = q * PacketSize + f[a + k + 1][2]
                          /\ f[a + k + 1][1] = f[a + 1][1] + q
<1> USE PacketSizeIs
<1> DEFINE T == {k \in 0 .. b - a - 1 :
                   \E q \in Nat : /\ f[a + 1][2] + k = q * PacketSize + f[a + k + 1][2]
                                  /\ f[a + k + 1][1] = f[a + 1][1] + q}
<1>1. \A i \in 1 .. Len(f) : f[i][1] \in Nat /\ f[i][2] \in 0 .. PacketSize - 1
  BY ElementOfSeq, ByteIs
<1>2. 0 \in T
  <2>1. a + 1 \in 1 .. Len(f) /\ a + 0 + 1 = a + 1 /\ 0 \in 0 .. b - a - 1
    OBVIOUS
  <2>2. f[a + 1][2] + 0 = 0 * PacketSize + f[a + 0 + 1][2] /\ f[a + 0 + 1][1] = f[a + 1][1] + 0
    BY <1>1, <2>1
  <2> QED  BY <2>1, <2>2
<1>3. ASSUME NEW k \in 0 .. b - a - 1, k < b - a - 1, k \in T
      PROVE  k + 1 \in T
  <2>1. PICK q \in Nat : /\ f[a + 1][2] + k = q * PacketSize + f[a + k + 1][2]
                         /\ f[a + k + 1][1] = f[a + 1][1] + q
    BY <1>3
  <2>2. /\ a + k + 1 \in a + 1 .. b - 1 /\ a + k + 1 + 1 = a + (k + 1) + 1
        /\ a + k + 1 \in 1 .. Len(f) /\ a + (k + 1) + 1 \in 1 .. Len(f)
        /\ k + 1 \in 0 .. b - a - 1 /\ a + 1 \in 1 .. Len(f)
    BY <1>3
  <2>3. IsNext(f[a + k + 1], f[a + (k + 1) + 1])
    BY <2>2 DEF Straight
  <2>4. PICK x \in Nat, y \in 0 .. PacketSize - 1 : x = f[a + k + 1][1] /\ y = f[a + k + 1][2]
    BY <1>1, <2>2
  <2>5. PICK u \in Nat, v \in 0 .. PacketSize - 1 : u = f[a + (k + 1) + 1][1] /\ v = f[a + (k + 1) + 1][2]
    BY <1>1, <2>2
  <2>6. PICK z \in Nat, w \in 0 .. PacketSize - 1 : z = f[a + 1][1] /\ w = f[a + 1][2]
    BY <1>1, <2>2
  <2>7. PICK m \in Nat : m = q * PacketSize
    BY SMT
  <2>7a. w + k = m + y /\ x = z + q
    BY <2>1, <2>4, <2>6, <2>7
  <2>8. CASE u = x /\ v = y + 1
    <3>1. w + (k + 1) = m + v /\ u = z + q
      BY <2>7a, <2>8
    <3>2. w + (k + 1) = q * PacketSize + v
      BY <2>7, <3>1
    <3> QED  BY <2>2, <2>5, <2>6, <3>1, <3>2
  <2>9. CASE u = x + 1 /\ v = 0 /\ y = PacketSize - 1
    <3>1. (q + 1) * PacketSize = m + PacketSize
      BY <2>7, SMT
    <3>2. w + (k + 1) = m + PacketSize + v /\ u = z + (q + 1) /\ q + 1 \in Nat
      BY <2>7a, <2>9
    <3>3. w + (k + 1) = (q + 1) * PacketSize + v
      BY <3>1, <3>2
    <3> QED  BY <2>2, <2>5, <2>6, <3>2, <3>3
  <2> QED  BY <2>3, <2>4, <2>5, <2>8, <2>9 DEF IsNext
<1>4. b - a - 1 \in Nat
  OBVIOUS
<1>5. \A k \in 0 .. b - a - 1 : k \in T
  <2> HIDE DEF T
  <2> QED  BY <1>2, <1>3, <1>4, Climbing
<1> QED  BY <1>5

(* If it begins on a packet.                                               *)
Stepping(f, a, b) ==
  \A k \in 0 .. b - a - 1, q \in Nat, r \in 0 .. PacketSize - 1 :
    k = q * PacketSize + r => f[a + k + 1][2] = r /\ f[a + k + 1][1] = f[a + 1][1] + q

LEMMA StepIs ==
  ASSUME NEW f \in Seq(Bytes), NEW a \in 0 .. Len(f), NEW b \in a + 1 .. Len(f), Straight(f, a, b),
         f[a + 1][2] = 0
  PROVE  Stepping(f, a, b)
<1> USE PacketSizeIs
<1> SUFFICES ASSUME NEW k \in 0 .. b - a - 1, NEW q \in Nat, NEW r \in 0 .. PacketSize - 1,
                    k = q * PacketSize + r
             PROVE  f[a + k + 1][2] = r /\ f[a + k + 1][1] = f[a + 1][1] + q
  BY DEF Stepping
<1>2. PICK p \in Nat : /\ f[a + 1][2] + k = p * PacketSize + f[a + k + 1][2]
                       /\ f[a + k + 1][1] = f[a + 1][1] + p
  BY RunIs
<1>3. f[a + k + 1] \in Bytes
  <2>1. a + k + 1 \in 1 .. Len(f)
    OBVIOUS
  <2> QED  BY <2>1, ElementOfSeq
<1>4. PICK v \in 0 .. PacketSize - 1 : v = f[a + k + 1][2]
  BY <1>3, ByteIs
<1>5. q * PacketSize + r = p * PacketSize + v
  BY <1>2, <1>4
<1>6. q = p /\ r = v
  BY <1>5, Multiples
<1> QED  BY <1>2, <1>4, <1>6

-----------------------------------------------------------------------------
(***************************************************************************)
(* What the filter skips.                                                  *)
(***************************************************************************)

(* The n-th byte at the distance of a packet from the first not skipped.   *)
Hits(d, s, n) == s + n * PacketSize < Len(d) /\ IsSync(d[s + n * PacketSize + 1])

LEMMA MaxSyncsIs == MaxSyncs \in Nat /\ MaxSyncs > 0
BY InputPathAssumption DEF InputPathAssumption

(* What the number of sync bytes in a row tells.                           *)
LEMMA SyncsIs ==
  ASSUME NEW d, NEW s
  PROVE  /\ SyncsFrom(d, s) \in 0 .. MaxSyncs
         /\ ~Hits(d, s, 0) => SyncsFrom(d, s) = 0
         /\ Hits(d, s, 0) => SyncsFrom(d, s) > 0
         /\ SyncsFrom(d, s) = MaxSyncs <=> \A i \in 0 .. MaxSyncs - 1 : Hits(d, s, i)
<1> USE MaxSyncsIs
<1> DEFINE all == 1 .. MaxSyncs
           row == {n \in all : \A i \in 0 .. n - 1 : Hits(d, s, i)}
<1>1. SyncsFrom(d, s) = Cardinality(row)
  BY DEF SyncsFrom, Hits
<1>2. IsFiniteSet(all) /\ Cardinality(all) = MaxSyncs
  <2>1. 1 <= MaxSyncs /\ 1 \in Int /\ MaxSyncs \in Int /\ MaxSyncs - 1 + 1 = MaxSyncs
    OBVIOUS
  <2> QED  BY <2>1, FS_Interval
<1>3. row \subseteq all
  OBVIOUS
<1>4. /\ IsFiniteSet(row) /\ Cardinality(row) <= MaxSyncs
      /\ Cardinality(row) = MaxSyncs => row = all
  <2> HIDE DEF row, all
  <2>1. IsFiniteSet(row) /\ Cardinality(row) <= Cardinality(all)
    BY <1>2, <1>3, FS_Subset
  <2>2. Cardinality(row) = Cardinality(all) => row = all
    BY <1>2, <1>3, FS_Subset
  <2> QED  BY <1>2, <2>1, <2>2
<1>5. Cardinality(row) \in Nat /\ (Cardinality(row) = 0 <=> row = {})
  <2> HIDE DEF row
  <2> QED  BY <1>4, FS_CardinalityType, FS_EmptySet
<1>6. ~Hits(d, s, 0) => row = {}
  <2>1. \A n \in all : 0 \in 0 .. n - 1
    OBVIOUS
  <2> QED  BY <2>1
<1>7. Hits(d, s, 0) => row # {}
  <2>1. 1 \in all /\ \A i \in 0 .. 1 - 1 : i = 0
    OBVIOUS
  <2> QED  BY <2>1
<1>8. row = all <=> \A i \in 0 .. MaxSyncs - 1 : Hits(d, s, i)
  <2>1. MaxSyncs \in all /\ \A n \in all : \A i \in 0 .. n - 1 : i \in 0 .. MaxSyncs - 1
    OBVIOUS
  <2> QED  BY <2>1
<1> HIDE DEF row
<1> QED  BY <1>1, <1>2, <1>4, <1>5, <1>6, <1>7, <1>8

LEMMA SyncsMore ==
  ASSUME NEW d, NEW s, NEW t,
         \A i \in 0 .. MaxSyncs - 1 : Hits(d, s, i) => Hits(d, t, i)
  PROVE  SyncsFrom(d, s) <= SyncsFrom(d, t)
<1> USE MaxSyncsIs
<1> DEFINE all == 1 .. MaxSyncs
           row(x) == {n \in all : \A i \in 0 .. n - 1 : Hits(d, x, i)}
<1>1. SyncsFrom(d, s) = Cardinality(row(s)) /\ SyncsFrom(d, t) = Cardinality(row(t))
  BY DEF SyncsFrom, Hits
<1>2. row(s) \subseteq row(t) /\ row(t) \subseteq all
  <2>1. \A n \in all : \A i \in 0 .. n - 1 : i \in 0 .. MaxSyncs - 1
    OBVIOUS
  <2> QED  BY <2>1
<1>3. IsFiniteSet(all)
  BY FS_Interval
<1> HIDE DEF row, all
<1>4. IsFiniteSet(row(t))
  BY <1>2, <1>3, FS_Subset
<1> QED  BY <1>1, <1>2, <1>4, FS_Subset

(* The filter begins at the first of the longest rows.                     *)
LEMMA SkipIs ==
  ASSUME NEW d, Len(d) \in Nat
  PROVE  /\ Skip(d) \in Skips
         /\ \A s \in Skips : SyncsFrom(d, s) <= SyncsFrom(d, Skip(d))
         /\ \A s \in Skips : SyncsFrom(d, s) = SyncsFrom(d, Skip(d)) => Skip(d) <= s
         /\ Skip(d) = 0 \/ Skip(d) < Len(d)
<1> DEFINE counts == {SyncsFrom(d, s) : s \in Skips}
<1>1. Skips \subseteq Nat /\ 0 \in Skips
  BY PacketSizeIs DEF Skips
<1>2. counts \subseteq 0 .. MaxSyncs /\ counts # {}
  BY <1>1, SyncsIs
<1>3. PICK most : most = MostSyncs(d)
  OBVIOUS
<1>4. most \in counts /\ \A c \in counts : c <= most
  <2>1. most = Max(counts)
    BY <1>3 DEF MostSyncs
  <2> HIDE DEF counts
  <2> QED  BY <1>2, <2>1, MaxSyncsIs, MaxIs
<1> DEFINE best == {s \in Skips : SyncsFrom(d, s) = most}
<1>5. best \subseteq Nat /\ best # {}
  BY <1>1, <1>4
<1>6. PICK k : k = Skip(d)
  OBVIOUS
<1>7. k \in best /\ \A s \in best : k <= s
  <2>1. k = Min(best)
    BY <1>3, <1>6 DEF Skip
  <2> HIDE DEF best
  <2> QED  BY <1>5, <2>1, MinIs
<1>8. k \in Skips /\ SyncsFrom(d, k) = most
  BY <1>7
<1>9. \A s \in Skips : SyncsFrom(d, s) <= SyncsFrom(d, k)
  BY <1>4, <1>8
<1>10. \A s \in Skips : SyncsFrom(d, s) = SyncsFrom(d, k) => k <= s
  BY <1>7, <1>8
<1>11. k = 0 \/ k < Len(d)
  <2>1. CASE Hits(d, k, 0)
    <3>1. k + 0 * PacketSize = k
      BY <1>1, <1>8, PacketSizeIs
    <3> QED  BY <2>1, <3>1 DEF Hits
  <2>2. CASE ~Hits(d, k, 0)
    <3>1. SyncsFrom(d, k) = 0
      BY <2>2, SyncsIs
    <3>2. SyncsFrom(d, 0) \in 0 .. MaxSyncs /\ SyncsFrom(d, 0) <= 0
      BY <1>1, <1>9, <3>1, SyncsIs
    <3>3. SyncsFrom(d, 0) = 0
      BY <3>2
    <3>4. k <= 0
      BY <1>1, <1>10, <3>1, <3>3
    <3> QED  BY <1>1, <1>8, <3>4
  <2> QED  BY <2>1, <2>2
<1> QED  BY <1>6, <1>8, <1>9, <1>10, <1>11

(* It skips nothing if no row is longer than the first.                    *)
LEMMA SkipNone ==
  ASSUME NEW d, Len(d) \in Nat, \A s \in Skips : SyncsFrom(d, s) <= SyncsFrom(d, 0)
  PROVE  Skip(d) = 0
<1>1. Skips \subseteq Nat /\ 0 \in Skips
  BY PacketSizeIs DEF Skips
<1>2. PICK k : k = Skip(d)
  OBVIOUS
<1>3. /\ k \in Skips
      /\ \A s \in Skips : SyncsFrom(d, s) <= SyncsFrom(d, k)
      /\ \A s \in Skips : SyncsFrom(d, s) = SyncsFrom(d, k) => k <= s
  BY <1>2, SkipIs
<1>4. SyncsFrom(d, 0) = SyncsFrom(d, k)
  <2>1. SyncsFrom(d, 0) \in 0 .. MaxSyncs /\ SyncsFrom(d, k) \in 0 .. MaxSyncs
    BY SyncsIs
  <2>2. SyncsFrom(d, 0) <= SyncsFrom(d, k) /\ SyncsFrom(d, k) <= SyncsFrom(d, 0)
    BY <1>1, <1>3
  <2> QED  BY <2>1, <2>2
<1>5. k <= 0
  BY <1>1, <1>3, <1>4
<1> QED  BY <1>1, <1>2, <1>3, <1>5

(* It begins at a row that is longer than all others.                      *)
LEMMA SkipOnly ==
  ASSUME NEW d, Len(d) \in Nat, NEW t \in Skips,
         \A s \in Skips : s # t => SyncsFrom(d, s) < SyncsFrom(d, t)
  PROVE  Skip(d) = t
<1>1. Skip(d) \in Skips /\ SyncsFrom(d, t) <= SyncsFrom(d, Skip(d))
  BY SkipIs
<1>2. SyncsFrom(d, t) \in 0 .. MaxSyncs /\ SyncsFrom(d, Skip(d)) \in 0 .. MaxSyncs
  BY SyncsIs
<1>3. Skip(d) # t => SyncsFrom(d, Skip(d)) < SyncsFrom(d, t)
  BY <1>1
<1> QED  BY <1>1, <1>2, <1>3

(* In step nothing is skipped, if no byte is missing;                      *)
LEMMA InStepSkip ==
  ASSUME NEW d \in Seq(Bytes), Headed(d), Straight(d, 0, Len(d)), d # <<>> => d[1][2] = 0
  PROVE  Skip(d) = 0
<1> USE PacketSizeIs
<1>1. Len(d) \in Nat /\ (d = <<>> <=> Len(d) = 0)
  BY EmptySeq
<1>2. CASE Len(d) = 0
  BY <1>2, SkipIs DEF Skips
<1>3. ASSUME Len(d) > 0, NEW s \in Skips, NEW i \in 0 .. MaxSyncs - 1, Hits(d, s, i)
      PROVE  Hits(d, 0, i)
  <2>1. PICK m \in Nat : m = i * PacketSize
    BY SMT
  <2>2. s \in Nat /\ s + m < Len(d)
    BY <1>3, <2>1 DEF Hits, Skips
  <2>3. m \in 0 .. Len(d) - 0 - 1 /\ m + 1 \in 1 .. Len(d)
    BY <1>1, <2>2
  <2>4. d[0 + m + 1][2] = 0
    <3>1. m = i * PacketSize + 0 /\ 0 \in 0 .. PacketSize - 1 /\ i \in Nat
      BY <2>1
    <3>2. 0 \in 0 .. Len(d) /\ Len(d) \in 0 + 1 .. Len(d) /\ d[0 + 1][2] = 0
      BY <1>1, <1>3
    <3>3. Stepping(d, 0, Len(d))
      BY <3>2, StepIs
    <3> QED  BY <2>3, <3>1, <3>3 DEF Stepping
  <2>5. d[m + 1][2] = 0
    BY <2>1, <2>4
  <2>6. IsSync(d[m + 1])
    BY <2>3, <2>5 DEF Headed
  <2>7. 0 + i * PacketSize = m
    BY <2>1
  <2> QED  BY <2>1, <2>3, <2>6, <2>7 DEF Hits
<1>4. CASE Len(d) > 0
  <2>1. \A s \in Skips : SyncsFrom(d, s) <= SyncsFrom(d, 0)
    BY <1>3, <1>4, SyncsMore
  <2> QED  BY <1>1, <2>1, SkipNone
<1> QED  BY <1>1, <1>2, <1>4

(* nor if bytes are missing behind the first h, unless that misleads it.   *)
LEMMA UpToSkip ==
  ASSUME NEW d \in Seq(Bytes), Headed(d), NEW h \in 1 .. Len(d), Straight(d, 0, h), d[1][2] = 0,
         h >= PacketSize, ~Misleads(d, h)
  PROVE  Skip(d) = 0
<1> USE PacketSizeIs, MaxSyncsIs
<1>1. Len(d) \in Nat /\ 0 \in 0 .. Len(d) /\ h \in 0 + 1 .. Len(d) /\ d[0 + 1][2] = 0
  OBVIOUS
<1>2. CASE h > (MaxSyncs - 1) * PacketSize
  <2>1. ASSUME NEW i \in 0 .. MaxSyncs - 1
        PROVE  Hits(d, 0, i)
    <3>1. PICK m \in Nat : m = i * PacketSize
      BY SMT
    <3>2. m <= (MaxSyncs - 1) * PacketSize /\ (MaxSyncs - 1) * PacketSize \in Int
      BY <3>1, MultiplesUp
    <3>3. m < h
      BY <1>2, <3>2
    <3>4. m = i * PacketSize + 0 /\ m \in 0 .. h - 0 - 1 /\ 0 \in 0 .. PacketSize - 1 /\ i \in Nat
      BY <3>1, <3>3
    <3>5. d[0 + m + 1][2] = 0
      <4>1. Stepping(d, 0, h)
        BY <1>1, StepIs
      <4> QED  BY <3>4, <4>1 DEF Stepping
    <3>6. d[m + 1][2] = 0 /\ m + 1 \in 1 .. Len(d)
      BY <3>1, <3>3, <3>5
    <3>7. IsSync(d[m + 1]) /\ 0 + i * PacketSize = m
      BY <3>1, <3>6 DEF Headed
    <3> QED  BY <3>3, <3>7 DEF Hits
  <2>2. SyncsFrom(d, 0) = MaxSyncs
    BY <2>1, SyncsIs
  <2>3. \A s \in Skips : SyncsFrom(d, s) \in 0 .. MaxSyncs
    BY SyncsIs
  <2>4. \A s \in Skips : SyncsFrom(d, s) <= SyncsFrom(d, 0)
    BY <2>2, <2>3
  <2> QED  BY <1>1, <2>4, SkipNone
<1>3. CASE ~(h > (MaxSyncs - 1) * PacketSize)
  <2>1. \A i \in FalseSyncs(d) : ~(i <= PacketSize)
    BY <1>3 DEF Misleads
  <2>2. ASSUME NEW s \in Skips, s # 0
        PROVE  ~Hits(d, s, 0)
    <3>1. s \in 0 .. PacketSize - 1 /\ s + 1 \in 1 .. Len(d) /\ s + 1 <= PacketSize
      BY <2>2 DEF Skips
    <3>2. s = 0 * PacketSize + s /\ s \in 0 .. h - 0 - 1 /\ 0 + s + 1 = s + 1 /\ 0 \in Nat
      BY <3>1
    <3>3. d[s + 1][2] = s
      <4>1. Stepping(d, 0, h)
        BY <1>1, StepIs
      <4> QED  BY <3>1, <3>2, <4>1 DEF Stepping
    <3>4. ~IsSync(d[s + 1])
      BY <2>1, <2>2, <3>1, <3>3 DEF FalseSyncs
    <3>5. s + 0 * PacketSize + 1 = s + 1
      BY <3>1
    <3> QED  BY <3>4, <3>5 DEF Hits
  <2>3. SyncsFrom(d, 0) \in 0 .. MaxSyncs
    BY SyncsIs
  <2>4. \A s \in Skips : SyncsFrom(d, s) <= SyncsFrom(d, 0)
    <3> SUFFICES ASSUME NEW s \in Skips PROVE SyncsFrom(d, s) <= SyncsFrom(d, 0)
      OBVIOUS
    <3>1. s # 0 => SyncsFrom(d, s) = 0
      BY <2>2, SyncsIs
    <3> QED  BY <2>3, <3>1
  <2> QED  BY <1>1, <2>4, SkipNone
<1> QED  BY <1>2, <1>3

(* Where a packet begins in data without holes.                            *)
FirstHead(d) == IF d[1][2] = 0 THEN 0 ELSE PacketSize - d[1][2]

(* In data without holes, packets begin at one distance only.              *)
LEMMA HeadsAre ==
  ASSUME NEW d \in Seq(Bytes), Straight(d, 0, Len(d)),
         NEW s \in Skips, NEW n \in Nat, s + n * PacketSize < Len(d)
  PROVE  d[s + n * PacketSize + 1][2] = 0 <=> s = FirstHead(d)
<1> USE PacketSizeIs
<1>1. PICK m \in Nat : m = n * PacketSize
  BY SMT
<1>2. s \in 0 .. PacketSize - 1 /\ s + m \in 0 .. Len(d) - 0 - 1
      /\ 0 \in 0 .. Len(d) /\ Len(d) \in 0 + 1 .. Len(d) /\ 0 + (s + m) + 1 = s + m + 1
      /\ s + m + 1 \in 1 .. Len(d) /\ 1 \in 1 .. Len(d)
  BY <1>1 DEF Skips
<1>3. PICK q \in Nat : d[0 + 1][2] + (s + m) = q * PacketSize + d[0 + (s + m) + 1][2]
  BY <1>2, RunIs
<1>4. PICK p \in 0 .. PacketSize - 1 : p = d[1][2]
  BY <1>2, ElementOfSeq, ByteIs
<1>5. PICK v \in 0 .. PacketSize - 1 : v = d[s + m + 1][2]
  BY <1>2, ElementOfSeq, ByteIs
<1>6. p + s + m = q * PacketSize + v
  <2>1. p + (s + m) = q * PacketSize + v
    BY <1>2, <1>3, <1>4, <1>5
  <2> QED  BY <1>2, <2>1
<1>7. CASE p + s < PacketSize
  <2>0. PICK w \in 0 .. PacketSize - 1 : w = p + s
    BY <1>2, <1>7
  <2>1. n * PacketSize + w = q * PacketSize + v
    BY <1>1, <1>2, <1>6, <2>0
  <2>2. v = p + s
    <3>1. n = q /\ w = v
      BY <2>1, Multiples
    <3> QED  BY <2>0, <3>1
  <2>3. v = 0 <=> s = FirstHead(d)
    BY <1>2, <1>4, <1>7, <2>2, SMTT(30) DEF FirstHead
  <2> QED  BY <1>1, <1>5, <2>3
<1>8. CASE ~(p + s < PacketSize)
  <2>1. (n + 1) * PacketSize = m + PacketSize
    BY <1>1, SMT
  <2>0. PICK w \in 0 .. PacketSize - 1 : w = p + s - PacketSize
    BY <1>2, <1>8
  <2>2. (n + 1) * PacketSize + w = q * PacketSize + v
    BY <1>2, <1>6, <2>0, <2>1
  <2>3. v = p + s - PacketSize
    <3>1. PICK k \in Int : k = n + 1
      OBVIOUS
    <3>2. k * PacketSize + w = q * PacketSize + v
      BY <2>2, <3>1
    <3>3. k = q /\ w = v
      BY <3>2, Multiples
    <3> QED  BY <2>0, <3>3
  <2>4. v = 0 <=> s = FirstHead(d)
    <3>1. p # 0
      BY <1>2, <1>8
    <3>2. FirstHead(d) = PacketSize - p
      BY <1>4, <3>1 DEF FirstHead
    <3> QED  BY <1>2, <2>3, <3>2
  <2> QED  BY <1>1, <1>5, <2>4
<1> QED  BY <1>7, <1>8

(* Out of step, the packets are found where they are.                      *)
LEMMA FindsSkip ==
  ASSUME NEW d \in Seq(Bytes), Headed(d), Straight(d, 0, Len(d)), FindsPackets(d)
  PROVE  d # <<>> /\ Skip(d) = FirstHead(d)
<1> USE PacketSizeIs, MaxSyncsIs
<1>1. Len(d) \in Nat /\ (d = <<>> <=> Len(d) = 0)
  BY EmptySeq
<1>2. PICK t : t = FirstHead(d)
  OBVIOUS
<1>3. \A s \in Skips, n \in Nat :
        s + n * PacketSize < Len(d) => (d[s + n * PacketSize + 1][2] = 0 <=> s = t)
  BY <1>2, HeadsAre
<1>4. Skips = 0 .. PacketSize - 1
  BY DEF Skips
<1>5. CASE Len(d) >= MaxSyncs * PacketSize /\ ~FalseRow(d)
  <2>1. PICK all \in Nat : all = MaxSyncs * PacketSize
    BY SMT
  <2>2. all >= PacketSize
    <3>1. 1 * PacketSize <= MaxSyncs * PacketSize
      BY MultiplesUp
    <3> QED  BY <2>1, <3>1
  <2>3. ASSUME NEW s \in Skips, NEW n \in 0 .. MaxSyncs - 1
        PROVE  s + n * PacketSize < Len(d) /\ s + n * PacketSize + 1 \in 1 .. Len(d)
    <3>1. PICK m \in Nat : m = n * PacketSize
      BY SMT
    <3>2. (n + 1) * PacketSize <= MaxSyncs * PacketSize /\ (n + 1) * PacketSize = m + PacketSize
      BY <3>1, MultiplesUp, SMT
    <3>3. s \in 0 .. PacketSize - 1 /\ m + PacketSize <= Len(d)
      BY <1>1, <1>4, <1>5, <2>1, <3>2
    <3>4. s + m < Len(d) /\ s + m + 1 \in 1 .. Len(d)
      BY <1>1, <3>3
    <3> QED  BY <3>1, <3>4
  <2>4. t \in Skips
    <3>1. 1 \in 1 .. Len(d)
      BY <1>1, <1>5, <2>1, <2>2
    <3>2. d[1][2] \in 0 .. PacketSize - 1
      BY <3>1, ElementOfSeq, ByteIs
    <3> QED  BY <1>2, <1>4, <3>2 DEF FirstHead
  <2>5. ASSUME NEW n \in 0 .. MaxSyncs - 1 PROVE Hits(d, t, n)
    <3>1. t + n * PacketSize < Len(d) /\ t + n * PacketSize + 1 \in 1 .. Len(d)
      BY <2>3, <2>4
    <3>2. d[t + n * PacketSize + 1][2] = 0
      BY <1>3, <2>4, <3>1
    <3> QED  BY <3>1, <3>2 DEF Hits, Headed
  <2>6. SyncsFrom(d, t) = MaxSyncs
    BY <2>5, SyncsIs
  <2>7. ASSUME NEW s \in Skips, s # t PROVE SyncsFrom(d, s) < SyncsFrom(d, t)
    <3>1. PICK n \in 0 .. MaxSyncs - 1 : s + n * PacketSize + 1 \notin FalseSyncs(d)
      BY <1>5 DEF FalseRow
    <3>2. s + n * PacketSize < Len(d) /\ s + n * PacketSize + 1 \in 1 .. Len(d)
      BY <2>3
    <3>3. d[s + n * PacketSize + 1][2] # 0
      BY <1>3, <2>7, <3>2
    <3>4. ~Hits(d, s, n)
      BY <3>1, <3>2, <3>3 DEF Hits, FalseSyncs
    <3>5. SyncsFrom(d, s) # MaxSyncs /\ SyncsFrom(d, s) \in 0 .. MaxSyncs
      BY <3>4, SyncsIs
    <3> QED  BY <2>6, <3>5
  <2>8. Skip(d) = t
    BY <1>1, <2>4, <2>7, SkipOnly
  <2> QED  BY <1>1, <1>2, <1>5, <2>1, <2>2, <2>8
<1>6. ASSUME FalseSyncs(d) = {}, NEW i \in 1 .. Len(d), i <= PacketSize, IsSync(d[i])
      PROVE  d # <<>> /\ Skip(d) = t
  <2>1. \A s \in Skips : s + 0 * PacketSize = s /\ s \in Nat
    BY <1>4
  <2>2. i - 1 \in Skips /\ i - 1 + 1 = i /\ i - 1 < Len(d)
    BY <1>4, <1>6
  <2>3. \A s \in Skips : s < Len(d) => (d[s + 1][2] = 0 <=> s = t)
    <3> SUFFICES ASSUME NEW s \in Skips, s < Len(d) PROVE d[s + 1][2] = 0 <=> s = t
      OBVIOUS
    <3>1. 0 \in Nat /\ s + 0 * PacketSize < Len(d)
      BY <2>1
    <3>2. d[s + 0 * PacketSize + 1][2] = 0 <=> s = t
      BY <1>3, <3>1
    <3> QED  BY <2>1, <3>2
  <2>4. d[i][2] = 0
    BY <1>6 DEF FalseSyncs
  <2>5. t = i - 1
    BY <2>2, <2>3, <2>4
  <2>6. Hits(d, t, 0)
    BY <1>6, <2>1, <2>2, <2>5 DEF Hits
  <2>7. ASSUME NEW s \in Skips, s # t PROVE ~Hits(d, s, 0)
    <3>1. SUFFICES ASSUME s < Len(d), IsSync(d[s + 1]) PROVE FALSE
      BY <2>1 DEF Hits
    <3>2. s + 1 \in 1 .. Len(d) /\ d[s + 1][2] # 0
      BY <1>1, <1>4, <2>3, <2>7, <3>1
    <3> QED  BY <1>6, <3>1, <3>2 DEF FalseSyncs
  <2>8. \A s \in Skips : s # t => SyncsFrom(d, s) < SyncsFrom(d, t)
    <3> SUFFICES ASSUME NEW s \in Skips, s # t PROVE SyncsFrom(d, s) < SyncsFrom(d, t)
      OBVIOUS
    <3>1. SyncsFrom(d, s) = 0 /\ SyncsFrom(d, t) > 0
      BY <2>6, <2>7, SyncsIs
    <3> QED  BY <3>1
  <2> QED  BY <1>1, <2>2, <2>5, <2>8, SkipOnly
<1> QED  BY <1>2, <1>5, <1>6 DEF FindsPackets

(* Packets that follow each other in f from its x-th byte on.              *)
AreParts(packets, f, x) ==
  \A i \in 1 .. Len(packets) :
    /\ (i - 1) * PacketSize \in Nat
    /\ x + (i - 1) * PacketSize + PacketSize <= x + Len(packets) * PacketSize
    /\ packets[i] = Slice(f, x + (i - 1) * PacketSize, x + (i - 1) * PacketSize + PacketSize)

(* What the filter makes of a part d of f, with q packets and r bytes more *)
(* behind the k that are skipped.                                          *)
IsCut(S, f, a, e, d, k, q, r) ==
  /\ q * PacketSize \in Nat
  /\ e - a - k = q * PacketSize + r
  /\ Packets(d, k) \in Seq(Seq(S))
  /\ Len(Packets(d, k)) = q
  /\ AreParts(Packets(d, k), f, a + k)
  /\ Remainder(d, k) = Slice(f, a + k + q * PacketSize, e)

(* The packets the filter finds follow each other.                         *)
LEMMA PacketsIs ==
  ASSUME NEW S, NEW f \in Seq(S), NEW a \in 0 .. Len(f), NEW e \in a .. Len(f),
         NEW d, d = Slice(f, a, e), NEW k \in 0 .. e - a
  PROVE  \E q \in Nat, r \in 0 .. PacketSize - 1 : IsCut(S, f, a, e, d, k, q, r)
<1> USE PacketSizeIs
<1>1. d \in Seq(S) /\ Len(d) = e - a
  BY SliceIs
<1>2. e - a \in Nat /\ e - a - k \in Nat /\ k \in Nat
  OBVIOUS
<1>3. PICK q \in Nat, r \in 0 .. PacketSize - 1 :
        /\ e - a - k = q * PacketSize + r
        /\ (e - a - k) \div PacketSize = q
        /\ Whole(e - a - k) = q * PacketSize
        /\ q * PacketSize \in Nat
  BY <1>2, WholeIs
<1>4. PICK m \in Nat : m = q * PacketSize
  BY <1>3
<1>5. ASSUME NEW i \in 1 .. q
      PROVE  \E n \in Nat : /\ n = (i - 1) * PacketSize
                            /\ n + PacketSize = i * PacketSize
                            /\ n + PacketSize <= m
                            /\ SubSeq(d, k + (i - 1) * PacketSize + 1, k + i * PacketSize)
                                 = Slice(f, a + k + n, a + k + n + PacketSize)
                            /\ Slice(f, a + k + n, a + k + n + PacketSize) \in Seq(S)
  <2>1. PICK n \in Nat : n = (i - 1) * PacketSize
    BY SMT
  <2>2. i * PacketSize = n + PacketSize
    BY <2>1, SMT
  <2>3. i * PacketSize <= q * PacketSize
    BY MultiplesUp
  <2>4. PICK x, y : x = k + n /\ y = k + n + PacketSize
    OBVIOUS
  <2>5. x \in 0 .. e - a /\ y \in x .. e - a
    BY <1>2, <1>3, <1>4, <2>2, <2>3, <2>4
  <2>6. Slice(d, x, y) = Slice(f, a + x, a + y)
    BY <2>5, SliceOfSlice
  <2>7. a + x = a + k + n /\ a + y = a + k + n + PacketSize
    BY <1>2, <2>4
  <2>8. a + x \in 0 .. Len(f) /\ a + y \in a + x .. Len(f)
    BY <1>2, <2>5
  <2>9. Slice(f, a + x, a + y) \in Seq(S)
    BY <2>8, SliceIs
  <2>10. k + i * PacketSize = y /\ k + (i - 1) * PacketSize + 1 = x + 1
    BY <1>2, <2>1, <2>2, <2>4
  <2>11. n + PacketSize <= m
    BY <1>4, <2>2, <2>3
  <2> QED  BY <2>1, <2>2, <2>6, <2>7, <2>9, <2>10, <2>11 DEF Slice
<1>6. Packets(d, k) = [i \in 1 .. q |-> SubSeq(d, k + (i - 1) * PacketSize + 1, k + i * PacketSize)]
  BY <1>1, <1>3 DEF Packets
<1>7. \A i \in 1 .. q : SubSeq(d, k + (i - 1) * PacketSize + 1, k + i * PacketSize) \in Seq(S)
  BY <1>5
<1>8. Packets(d, k) \in Seq(Seq(S)) /\ Len(Packets(d, k)) = q
  <2>1. PICK p : p = Packets(d, k)
    OBVIOUS
  <2>2. PICK T : T = Seq(S)
    OBVIOUS
  <2>3. p \in [1 .. q -> T]
    BY <1>6, <1>7, <2>1, <2>2
  <2>4. p \in Seq(T) /\ Len(p) = q
    BY <2>3
  <2> QED  BY <2>1, <2>2, <2>4
<1>9. \A i \in 1 .. q :
        /\ (i - 1) * PacketSize \in Nat
        /\ a + k + (i - 1) * PacketSize + PacketSize <= a + k + q * PacketSize
        /\ Packets(d, k)[i] = Slice(f, a + k + (i - 1) * PacketSize,
                                       a + k + (i - 1) * PacketSize + PacketSize)
  <2> SUFFICES ASSUME NEW i \in 1 .. q
               PROVE  /\ (i - 1) * PacketSize \in Nat
                      /\ a + k + (i - 1) * PacketSize + PacketSize <= a + k + q * PacketSize
                      /\ Packets(d, k)[i] = Slice(f, a + k + (i - 1) * PacketSize,
                                                     a + k + (i - 1) * PacketSize + PacketSize)
    OBVIOUS
  <2>1. PICK n \in Nat : /\ n = (i - 1) * PacketSize
                         /\ n + PacketSize <= m
                         /\ SubSeq(d, k + (i - 1) * PacketSize + 1, k + i * PacketSize)
                              = Slice(f, a + k + n, a + k + n + PacketSize)
    BY <1>5
  <2>2. Packets(d, k)[i] = SubSeq(d, k + (i - 1) * PacketSize + 1, k + i * PacketSize)
    BY <1>6
  <2>3. a + k + n + PacketSize <= a + k + m
    BY <1>2, <2>1
  <2> QED  BY <1>4, <2>1, <2>2, <2>3
<1>10. Remainder(d, k) = Slice(f, a + k + q * PacketSize, e)
  <2>1. Remainder(d, k) = SubSeq(d, k + m + 1, e - a)
    BY <1>1, <1>3, <1>4 DEF Remainder
  <2>2. PICK x, y : x = k + m /\ y = e - a
    OBVIOUS
  <2>3. x \in 0 .. e - a /\ y \in x .. e - a
    BY <1>2, <1>3, <1>4, <2>2
  <2>4. Slice(d, x, y) = Slice(f, a + x, a + y)
    BY <2>3, SliceOfSlice
  <2>5. a + x = a + k + q * PacketSize /\ a + y = e
    BY <1>2, <1>4, <2>2
  <2> QED  BY <2>1, <2>2, <2>4, <2>5 DEF Slice
<1>11. AreParts(Packets(d, k), f, a + k)
  BY <1>8, <1>9 DEF AreParts
<1> QED  BY <1>3, <1>8, <1>10, <1>11 DEF IsCut

-----------------------------------------------------------------------------
(***************************************************************************)
(* What a call of the filter does with the file.                           *)
(***************************************************************************)

Sorted(f) == \A i, j \in 1 .. Len(f) : i < j => Before(f[i], f[j])

IsFile(f) ==
  /\ f \in Seq(Bytes)
  /\ Len(f) > 0
  /\ Headed(f)
  /\ Sorted(f)

LEMMA BeforeAfter ==
  ASSUME NEW x \in Bytes, NEW y \in Bytes, NEW z \in Bytes, Before(x, y), Before(y, z)
  PROVE  Before(x, z)
<1>1. /\ x[1] \in Nat /\ y[1] \in Nat /\ z[1] \in Nat
      /\ x[2] \in Int /\ y[2] \in Int /\ z[2] \in Int
  BY PacketSizeIs, ByteIs
<1> QED  BY <1>1 DEF Before

(* That each byte comes before the next makes the file sorted.             *)
LEMMA FileIs ==
  ASSUME NEW f, IsInput(f)
  PROVE  IsFile(f)
<1>1. f \in Seq(Bytes) /\ Len(f) \in Nat /\ Len(f) > 0
  <2>1. f \in Seq(Bytes) /\ f # <<>>
    BY DEF IsInput, Bytes
  <2> QED  BY <2>1, EmptySeq
<1>2. Headed(f)
  BY DEF IsInput, Headed, IsSync
<1>3. ASSUME NEW i \in 1 .. Len(f)
      PROVE  \A j \in 1 .. Len(f) : i < j => Before(f[i], f[j])
  <2> DEFINE T == {k \in 0 .. Len(f) - i : k = 0 \/ Before(f[i], f[i + k])}
  <2>1. 0 \in T /\ Len(f) - i \in Nat
    BY <1>1
  <2>2. ASSUME NEW k \in 0 .. Len(f) - i, k < Len(f) - i, k \in T
        PROVE  k + 1 \in T
    <3>1. i + k \in 1 .. Len(f) - 1 /\ k + 1 \in 0 .. Len(f) - i /\ i + k + 1 = i + (k + 1)
          /\ i + (k + 1) \in 1 .. Len(f) /\ i + k \in 1 .. Len(f)
      BY <1>1, <2>2
    <3>2. Before(f[i + k], f[i + (k + 1)])
      BY <3>1 DEF IsInput
    <3>3. CASE k = 0
      <4>1. i + k = i
        BY <3>3
      <4> QED  BY <3>1, <3>2, <4>1
    <3>4. CASE k # 0
      <4>1. Before(f[i], f[i + k])
        BY <2>2, <3>4
      <4>2. f[i] \in Bytes /\ f[i + k] \in Bytes /\ f[i + (k + 1)] \in Bytes
        BY <1>1, <3>1, ElementOfSeq
      <4>3. Before(f[i], f[i + (k + 1)])
        BY <3>2, <4>1, <4>2, BeforeAfter
      <4> QED  BY <3>1, <4>3
    <3> QED  BY <3>3, <3>4
  <2>3. \A k \in 0 .. Len(f) - i : k \in T
    <3> HIDE DEF T
    <3> QED  BY <2>1, <2>2, Climbing
  <2> SUFFICES ASSUME NEW j \in 1 .. Len(f), i < j PROVE Before(f[i], f[j])
    OBVIOUS
  <2>4. j - i \in 0 .. Len(f) - i /\ j - i # 0 /\ i + (j - i) = j
    OBVIOUS
  <2> QED  BY <2>3, <2>4
<1> QED  BY <1>1, <1>2, <1>3 DEF IsFile, Sorted

(* The byte before what the filter is given, and all it goes by.           *)
Prior(a) == IF a = 0 THEN 0 ELSE a - 1

LEMMA BeforeIs ==
  ASSUME NEW S, NEW f \in Seq(S), NEW a \in 0 .. Len(f), NEW e \in a .. Len(f)
  PROVE  /\ Prior(a) \in 0 .. a
         /\ SubSeq(f, Max({a, 1}), a) = Slice(f, Prior(a), a)
         /\ Len(SubSeq(f, Max({a, 1}), a)) = a - Prior(a)
         /\ SubSeq(f, Max({a, 1}), a) \o Slice(f, a, e) = Slice(f, Prior(a), e)
<1>1. PICK p : p = Prior(a)
  OBVIOUS
<1>2. p \in 0 .. a /\ p \in 0 .. Len(f) /\ a \in p .. Len(f)
  BY <1>1 DEF Prior
<1>3. Max({a, 1}) = p + 1
  <2>1. a \in Nat /\ {a, 1} \subseteq 0 .. a + 1 /\ {a, 1} # {} /\ a + 1 \in Nat
    OBVIOUS
  <2>2. Max({a, 1}) \in {a, 1} /\ \A y \in {a, 1} : y <= Max({a, 1})
    BY <2>1, MaxIs
  <2> QED  BY <1>1, <2>1, <2>2 DEF Prior
<1>4. SubSeq(f, Max({a, 1}), a) = Slice(f, p, a)
  BY <1>3 DEF Slice
<1>5. Len(Slice(f, p, a)) = a - p
  BY <1>2, SliceIs
<1>6. Slice(f, p, a) \o Slice(f, a, e) = Slice(f, p, e)
  BY <1>2, SliceJoin
<1> QED  BY <1>1, <1>2, <1>4, <1>5, <1>6

(* The next byte begins a packet.                                          *)
Begins(f, a) == IF a = 0 THEN f[1][2] = 0 ELSE f[a][2] = PacketSize - 1

(* A packet begins where the filter is in step.                            *)
LEMMA BeginsIs ==
  ASSUME NEW f, IsFile(f), NEW a \in 0 .. Len(f) - 1, NEW e \in a + 1 .. Len(f),
         Straight(f, Prior(a), e)
  PROVE  Begins(f, a) <=> f[a + 1][2] = 0
<1>1. CASE a = 0
  BY <1>1 DEF Begins
<1>2. CASE a # 0
  <2>1. a \in Prior(a) + 1 .. e - 1 /\ a \in 1 .. Len(f) /\ a + 1 \in 1 .. Len(f)
    BY <1>2 DEF Prior
  <2>2. IsNext(f[a], f[a + 1])
    BY <2>1 DEF Straight
  <2>3. f[a][2] \in 0 .. PacketSize - 1 /\ f[a + 1][2] \in 0 .. PacketSize - 1
    BY <2>1, ElementOfSeq, ByteIs DEF IsFile
  <2> QED  BY <1>2, <2>2, <2>3, PacketSizeIs DEF Begins, IsNext
<1> QED  BY <1>1, <1>2

LEMMA StraightPart ==
  ASSUME NEW f, NEW a \in Nat, NEW e \in Nat, Straight(f, a, e),
         NEW x \in Nat, NEW y \in Nat, a <= x, y <= e
  PROVE  Straight(f, x, y)
<1>1. \A k \in x + 1 .. y - 1 : k \in a + 1 .. e - 1
  OBVIOUS
<1> QED  BY <1>1 DEF Straight

LEMMA StraightSlice ==
  ASSUME NEW S, NEW f \in Seq(S), NEW a \in 0 .. Len(f), NEW e \in a .. Len(f), NEW h \in 0 .. e - a,
         Straight(f, a, a + h)
  PROVE  Straight(Slice(f, a, e), 0, h)
<1>1. PICK d : d = Slice(f, a, e)
  OBVIOUS
<1>2. \A i \in 1 .. e - a : d[i] = f[a + i]
  BY <1>1, SliceIs
<1>3. ASSUME NEW k \in 0 + 1 .. h - 1 PROVE IsNext(d[k], d[k + 1])
  <2>1. k \in 1 .. e - a /\ k + 1 \in 1 .. e - a /\ a + k \in a + 1 .. a + h - 1 /\ a + (k + 1) = a + k + 1
    OBVIOUS
  <2>2. IsNext(f[a + k], f[a + k + 1])
    BY <2>1 DEF Straight
  <2> QED  BY <1>2, <2>1, <2>2
<1> QED  BY <1>1, <1>3 DEF Straight

LEMMA HeadedSlice ==
  ASSUME NEW f, IsFile(f), NEW a \in 0 .. Len(f), NEW e \in a .. Len(f)
  PROVE  /\ Slice(f, a, e) \in Seq(Bytes)
         /\ Len(Slice(f, a, e)) = e - a
         /\ Headed(Slice(f, a, e))
<1>1. PICK d : d = Slice(f, a, e)
  OBVIOUS
<1>2. d \in Seq(Bytes) /\ Len(d) = e - a /\ \A i \in 1 .. e - a : d[i] = f[a + i]
  BY <1>1, SliceIs DEF IsFile
<1>3. ASSUME NEW i \in 1 .. Len(d), d[i][2] = 0 PROVE IsSync(d[i])
  <2>1. a + i \in 1 .. Len(f) /\ d[i] = f[a + i]
    BY <1>2
  <2> QED  BY <1>3, <2>1 DEF IsFile, Headed
<1> QED  BY <1>1, <1>2, <1>3 DEF Headed

(* Where the packets of a run begin.                                       *)
LEMMA AlignedIs ==
  ASSUME NEW f, IsFile(f), NEW x \in 0 .. Len(f), NEW y \in x + 1 .. Len(f), Straight(f, x, y),
         f[x + 1][2] = 0, NEW i \in x + 1 .. y, f[i][2] = 0, NEW q \in Nat, i <= x + q * PacketSize
  PROVE  \E j \in 1 .. q : /\ i = x + (j - 1) * PacketSize + 1
                           /\ i + PacketSize - 1 <= x + q * PacketSize
<1> USE PacketSizeIs
<1>1. PICK p \in Nat, r \in 0 .. PacketSize - 1 : i - x - 1 = p * PacketSize + r
  <2>1. i - x - 1 \in Nat
    OBVIOUS
  <2> QED  BY <2>1, WholeIs
<1>2. PICK m \in Nat : m = p * PacketSize
  BY SMT
<1>3. PICK k \in 0 .. y - x - 1 : k = p * PacketSize + r /\ x + k + 1 = i
  BY <1>1, <1>2
<1>4. f[i][2] = r
  <2>1. f \in Seq(Bytes)
    BY DEF IsFile
  <2>2. Stepping(f, x, y)
    BY <2>1, StepIs
  <2>3. f[x + k + 1][2] = r
    BY <1>3, <2>2 DEF Stepping
  <2> QED  BY <1>3, <2>3
<1>5. r = 0 /\ i = x + m + 1
  <2>1. r = 0 /\ k = m + r
    BY <1>2, <1>3, <1>4
  <2> QED  BY <1>3, <2>1
<1>6. PICK n \in Nat : n = q * PacketSize
  BY SMT
<1>7. p < q
  <2>1. q <= p => n <= m
    BY <1>2, <1>6, MultiplesUp
  <2> QED  BY <1>5, <1>6, <2>1
<1>8. (p + 1) * PacketSize <= q * PacketSize /\ (p + 1) * PacketSize = m + PacketSize
  <2>1. p + 1 <= q /\ p + 1 \in Int
    BY <1>7
  <2>2. (p + 1) * PacketSize = m + PacketSize
    BY <1>2, SMT
  <2> QED  BY <2>1, <2>2, MultiplesUp
<1>9. i + PacketSize - 1 <= x + q * PacketSize
  BY <1>5, <1>6, <1>8
<1>10. p + 1 \in 1 .. q /\ p + 1 - 1 = p
  BY <1>7
<1>11. i = x + (p + 1 - 1) * PacketSize + 1
  BY <1>2, <1>5, <1>10
<1> QED  BY <1>9, <1>10, <1>11

(* If no byte is missing and the filter is in step or can get into step,   *)
(* it is so behind what it handed on.                                      *)
(* Behind whole packets from x on, and less than one before e, another      *)
(* packet begins.                                                          *)
GoesOn(f, x, e) ==
  \A q \in Nat, r \in 0 .. PacketSize - 1 :
    e - x = q * PacketSize + r => Begins(f, x + q * PacketSize)

(* Without a hole, the filter stays in step, or gets into it.              *)
LEMMA KeepsStep ==
  ASSUME NEW f, IsFile(f), NEW a \in 0 .. Len(f), NEW e \in a .. Len(f), Straight(f, Prior(a), e),
         NEW d, d = Slice(f, a, e), Begins(f, a) \/ FindsPackets(d)
  PROVE  /\ Begins(f, a) => Skip(d) = 0
         /\ FindsPackets(d) => Skip(d) = FirstHead(d) /\ d # <<>>
         /\ a + Skip(d) < e => f[a + Skip(d) + 1][2] = 0
         /\ GoesOn(f, a + Skip(d), e)
<1> USE PacketSizeIs
<1>1. d \in Seq(Bytes) /\ Len(d) = e - a /\ Headed(d)
  BY HeadedSlice
<1>2. f \in Seq(Bytes) /\ \A i \in 1 .. e - a : d[i] = f[a + i]
  BY SliceIs DEF IsFile
<1>3. Prior(a) \in 0 .. a
  BY DEF Prior
<1>4. Straight(f, a, e)
  <2>1. Prior(a) \in Nat /\ a \in Nat /\ e \in Nat /\ Prior(a) <= a /\ e <= e
    BY <1>3
  <2> QED  BY <2>1, StraightPart
<1>5. Straight(d, 0, Len(d))
  <2>1. a + (e - a) = e /\ e - a \in 0 .. e - a
    OBVIOUS
  <2>2. Straight(f, a, a + (e - a))
    BY <1>4, <2>1
  <2> QED  BY <1>1, <1>2, <2>1, <2>2, StraightSlice
<1>6. d = <<>> <=> e = a
  BY <1>1, EmptySeq
<1>7. e > a => d[1] = f[a + 1] /\ a \in 0 .. Len(f) - 1 /\ e \in a + 1 .. Len(f)
  BY <1>2
<1>8. Begins(f, a) => Skip(d) = 0
  <2> SUFFICES ASSUME Begins(f, a) PROVE Skip(d) = 0
    OBVIOUS
  <2>1. d # <<>> => d[1][2] = 0
    BY <1>6, <1>7, BeginsIs
  <2> QED  BY <1>1, <1>5, <2>1, InStepSkip
<1>9. FindsPackets(d) => Skip(d) = FirstHead(d) /\ d # <<>>
  BY <1>1, <1>5, FindsSkip
<1>10. PICK k : k = Skip(d)
  OBVIOUS
<1>11. k \in Skips /\ (k = 0 \/ k < e - a)
  BY <1>1, <1>10, SkipIs
<1>12. k \in Nat /\ k \in 0 .. e - a
  BY <1>11 DEF Skips
<1>13. ASSUME a + k < e PROVE f[a + k + 1][2] = 0
  <2>1. CASE Begins(f, a)
    <3>1. k = 0 /\ a + k + 1 = a + 1 /\ e > a
      BY <1>8, <1>10, <1>13, <2>1
    <3> QED  BY <1>7, <2>1, <3>1, BeginsIs
  <2>2. CASE FindsPackets(d)
    <3>1. k = FirstHead(d)
      BY <1>9, <1>10, <2>2
    <3>2. k + 0 * PacketSize < Len(d) /\ k + 0 * PacketSize + 1 = k + 1 /\ 0 \in Nat
      BY <1>1, <1>12, <1>13
    <3>3. d[k + 0 * PacketSize + 1][2] = 0
      BY <1>1, <1>5, <1>11, <3>1, <3>2, HeadsAre
    <3>4. d[k + 1] = f[a + k + 1]
      <4>1. k + 1 \in 1 .. e - a /\ a + (k + 1) = a + k + 1
        BY <1>12, <1>13
      <4> QED  BY <1>2, <4>1
    <3> QED  BY <3>2, <3>3, <3>4
  <2> QED  BY <2>1, <2>2
<1>14. ASSUME NEW q \in Nat, NEW r \in 0 .. PacketSize - 1, e - a - k = q * PacketSize + r
       PROVE  Begins(f, a + k + q * PacketSize)
  <2>1. PICK x \in 0 .. Len(f) : x = a + k
    BY <1>12
  <2>2. PICK m \in Nat : m = q * PacketSize
    BY SMT
  <2>3. x + m + r = e /\ x <= e
    BY <1>12, <1>14, <2>1, <2>2
  <2>4. CASE q = 0 /\ x < e
    <3>1. x + q * PacketSize = x
      BY <2>4
    <3>2. Prior(x) \in Nat /\ Prior(a) <= Prior(x) /\ Prior(a) \in Nat
      BY <1>12, <2>1 DEF Prior
    <3>3. Straight(f, Prior(x), e)
      <4>1. e \in Nat /\ e <= e
        OBVIOUS
      <4> QED  BY <3>2, <4>1, StraightPart
    <3>4. x \in 0 .. Len(f) - 1 /\ e \in x + 1 .. Len(f)
      BY <2>4
    <3>5. f[x + 1][2] = 0
      BY <1>13, <2>1, <2>4
    <3> QED  BY <2>1, <3>1, <3>3, <3>4, <3>5, BeginsIs
  <2>5. CASE q = 0 /\ x = e
    <3>1. k = 0 /\ a = e
      BY <1>11, <1>12, <2>1, <2>5
    <3>2. Begins(f, a)
      BY <1>6, <1>9, <3>1
    <3>3. a + k + q * PacketSize = a
      BY <2>5, <3>1
    <3> QED  BY <3>2, <3>3
  <2>6. CASE q > 0
    <3>1. PICK p \in Nat : p = q - 1
      BY <2>6
    <3>2. PICK n \in Nat : n = p * PacketSize /\ n + PacketSize = m
      <4>1. p * PacketSize \in Nat /\ p * PacketSize + PacketSize = (p + 1) * PacketSize
        BY SMT
      <4> QED  BY <2>2, <3>1, <4>1
    <3>3. PICK w \in 0 .. PacketSize - 1, j \in 0 .. e - x - 1 :
            w = PacketSize - 1 /\ j = p * PacketSize + w /\ x + j + 1 = x + m
      <4>1. n + (PacketSize - 1) \in 0 .. e - x - 1 /\ PacketSize - 1 \in 0 .. PacketSize - 1
            /\ x + (n + (PacketSize - 1)) + 1 = x + m
        BY <2>3, <3>2
      <4> QED  BY <3>2, <4>1
    <3>4. e \in x + 1 .. Len(f) /\ x < e
      BY <2>3, <3>2
    <3>5. Straight(f, x, e)
      <4>1. a \in Nat /\ e \in Nat /\ x \in Nat /\ a <= x /\ e <= e
        BY <1>12, <2>1
      <4> QED  BY <1>4, <4>1, StraightPart
    <3>6. f[x + 1][2] = 0
      BY <1>13, <2>1, <3>4
    <3>7. f[x + j + 1][2] = w
      <4>1. Stepping(f, x, e)
        BY <1>2, <3>4, <3>5, <3>6, StepIs
      <4> QED  BY <3>3, <4>1 DEF Stepping
    <3>8. f[x + m][2] = PacketSize - 1 /\ x + m # 0
      <4>1. m = n + PacketSize /\ n \in Nat /\ Len(f) \in Nat /\ x \in 0 .. Len(f)
        BY <1>2, <3>2
      <4>2. x + m # 0
        BY <4>1
      <4>3. f[x + m][2] = w
        BY <3>3, <3>7, Zenon
      <4> QED  BY <3>3, <4>2, <4>3
    <3> QED  BY <2>1, <2>2, <3>8 DEF Begins
  <2> QED  BY <2>3, <2>4, <2>5, <2>6
<1>15. GoesOn(f, a + k, e)
  <2> SUFFICES ASSUME NEW q \in Nat, NEW r \in 0 .. PacketSize - 1, e - (a + k) = q * PacketSize + r
               PROVE  Begins(f, a + k + q * PacketSize)
    BY DEF GoesOn
  <2>1. e - a - k = e - (a + k)
    BY <1>12
  <2>2. e - a - k = q * PacketSize + r
    BY <2>1, Zenon
  <2> QED  BY <1>14, <2>2
<1> QED  BY <1>8, <1>9, <1>10, <1>13, <1>15

(* A packet that is whole in the file.                                     *)
IsWhole(f, i) ==
  /\ i \in 1 .. Len(f) - PacketSize + 1
  /\ f[i][2] = 0
  /\ Straight(f, i - 1, i - 1 + PacketSize)

(* Where the j-th packet from x on begins, and where q packets end.        *)
PlaceOf(x, j) == x + (j - 1) * PacketSize

Behind(x, q) == x + q * PacketSize

(* What the filter is given tells of the packets that it cannot hand on:   *)
(* any other that is whole and begins in what is passed now is one of the  *)
(* packets it hands on.                                                    *)
LEMMA FilterFinds ==
  ASSUME NEW f, IsFile(f), NEW a \in 0 .. Len(f), NEW e \in a .. Len(f),
         NEW d, d = Slice(f, a, e), NEW b, b = Slice(f, Prior(a), a), insync => Begins(f, a),
         NEW q \in Nat, NEW y, y = Behind(a + Skip(d), q), y <= e,
         NEW i, IsWhole(f, i), a < i, i <= y, f[i][1] \notin ExcusedBy(b, d)
  PROVE  \E j \in 1 .. q : i = PlaceOf(a + Skip(d), j) + 1 /\ i + PacketSize - 1 <= y
<1> USE PacketSizeIs
<1> SUFFICES \E j \in 1 .. q : /\ i = a + Skip(d) + (j - 1) * PacketSize + 1
                              /\ i + PacketSize - 1 <= a + Skip(d) + q * PacketSize
  BY DEF PlaceOf, Behind
<1>0. y = a + Skip(d) + q * PacketSize
  BY DEF Behind
<1> USE <1>0
<1>1. PICK p : p = Prior(a)
  OBVIOUS
<1>2. /\ p \in 0 .. a /\ p \in 0 .. Len(f) /\ e \in p .. Len(f) /\ a \in p .. Len(f)
      /\ f \in Seq(Bytes) /\ Len(f) \in Nat /\ a \in Nat /\ e \in Nat
  <2>1. f \in Seq(Bytes) /\ Len(f) \in Nat
    BY DEF IsFile
  <2> QED  BY <1>1, <2>1 DEF Prior
<1>3. PICK all : all = Slice(f, p, e)
  OBVIOUS
<1>4. b \o d = all
  BY <1>1, <1>2, <1>3, SliceJoin
<1>5. /\ Len(b) = a - p
      /\ Len(all) = e - p /\ DOMAIN all = 1 .. e - p /\ \A k \in 1 .. e - p : all[k] = f[p + k]
      /\ Len(d) = e - a /\ DOMAIN d = 1 .. e - a /\ \A k \in 1 .. e - a : d[k] = f[a + k]
      /\ d \in Seq(Bytes) /\ Headed(d)
  <2>1. Len(b) = a - p
    BY <1>1, <1>2, SliceIs
  <2>2. Len(all) = e - p /\ DOMAIN all = 1 .. e - p /\ \A k \in 1 .. e - p : all[k] = f[p + k]
    <3>1. IsPart(all, f, p, e)
      BY <1>2, <1>3, PartIs
    <3> QED  BY <3>1 DEF IsPart
  <2>3. Len(d) = e - a /\ DOMAIN d = 1 .. e - a /\ \A k \in 1 .. e - a : d[k] = f[a + k]
    <3>1. IsPart(d, f, a, e)
      BY <1>2, PartIs
    <3> QED  BY <3>1 DEF IsPart
  <2>4. d \in Seq(Bytes) /\ Headed(d)
    BY <1>2, HeadedSlice
  <2> QED  BY <2>1, <2>2, <2>3, <2>4
<1>6. PICK s : s = Skip(d)
  OBVIOUS
<1>7. s \in Nat /\ s \in Skips /\ q * PacketSize \in Nat
  <2>1. s \in Skips
    BY <1>5, <1>6, SkipIs
  <2>2. q * PacketSize \in Nat
    BY SMT
  <2> QED  BY <2>1, <2>2 DEF Skips
<1>8. i \in a + 1 .. e /\ i \in 1 .. Len(f) /\ i \in Int /\ i + PacketSize - 1 <= Len(f)
  <2>1. i \in 1 .. Len(f) - PacketSize + 1
    BY DEF IsWhole
  <2> QED  BY <1>2, <1>6, <1>7, <2>1, SMTT(30)
<1>9. f[i][1] \in PacketsOf(d) /\ f[i][1] \in PacketsOf(all)
  <2>1. i - a \in 1 .. e - a /\ a + (i - a) = i /\ i - p \in 1 .. e - p /\ p + (i - p) = i
    <3>1. i \in Int /\ a \in Int /\ e \in Int /\ p \in Int /\ p <= a /\ a + 1 <= i /\ i <= e
      BY <1>2, <1>8
    <3> QED  BY <3>1
  <2>2. d[i - a] = f[i] /\ all[i - p] = f[i]
    BY <1>5, <2>1
  <2> QED  BY <1>5, <2>1, <2>2 DEF PacketsOf
<1>10. CASE Holes(all) = {}
  <2>1. Straight(f, p, e)
    BY <1>2, <1>3, <1>10, NoHoles
  <2>2. Begins(f, a) \/ FindsPackets(d)
    BY <1>4, <1>9, <1>10 DEF ExcusedBy
  <2>3. /\ Begins(f, a) => s = 0
        /\ FindsPackets(d) => s = FirstHead(d)
        /\ a + s < e => f[a + s + 1][2] = 0
    BY <1>1, <1>6, <2>1, <2>2, KeepsStep
  <2>4. Straight(f, a, e)
    <3>1. p \in Nat /\ e \in Nat /\ a \in Nat /\ p <= a /\ e <= e
      BY <1>2
    <3> QED  BY <2>1, <3>1, StraightPart
  <2>5. i > a + s
    <3> SUFFICES ASSUME i <= a + s PROVE FALSE
      BY <1>2, <1>7, <1>8
    <3>1. s # 0
      BY <1>8
    <3>2. s = FirstHead(d)
      BY <2>2, <2>3, <3>1
    <3>3. PICK k \in Nat : k = i - a - 1
      BY <1>2, <1>8
    <3>4. k \in Skips /\ k # s /\ k + 0 * PacketSize < Len(d) /\ k + 0 * PacketSize + 1 = k + 1
      <4> HIDE <1>0
      <4>1. k < s /\ k < e - a /\ s < PacketSize
        <5>1. i \in Int /\ a \in Nat /\ e \in Nat /\ s \in Nat /\ i <= e /\ i <= a + s
          BY <1>2, <1>7, <1>8
        <5>2. k < s /\ k < e - a
          BY <3>3, <5>1
        <5> QED  BY <1>7, <5>2 DEF Skips
      <4>2. k + 0 * PacketSize = k
        OBVIOUS
      <4>3. k \in Skips
        BY <1>7, <4>1 DEF Skips
      <4> QED  BY <1>5, <1>7, <4>1, <4>2, <4>3
    <3>5. Straight(d, 0, Len(d))
      <4>1. a + (e - a) = e /\ e - a \in 0 .. e - a
        BY <1>2
      <4>2. Straight(f, a, a + (e - a))
        BY <2>4, <4>1
      <4> QED  BY <1>2, <1>5, <4>1, <4>2, StraightSlice
    <3>6. d[k + 0 * PacketSize + 1][2] # 0
      BY <1>5, <3>2, <3>4, <3>5, HeadsAre
    <3>7. d[k + 1] = f[i]
      <4>1. k + 1 \in 1 .. e - a /\ a + (k + 1) = i
        <5>1. i \in Int /\ a \in Int /\ e \in Int /\ a + 1 <= i /\ i <= e
          BY <1>2, <1>8
        <5> QED  BY <3>3, <5>1, SMTT(30)
      <4> QED  BY <1>5, <4>1
    <3> QED  BY <3>4, <3>6, <3>7 DEF IsWhole
  <2>6. PICK x : x = a + s
    OBVIOUS
  <2>7. /\ x \in 0 .. Len(f) /\ e \in x + 1 .. Len(f) /\ i \in x + 1 .. e /\ i <= x + q * PacketSize
        /\ f[x + 1][2] = 0
    <3>1. x \in Nat /\ i > x /\ x < e
      BY <1>2, <1>7, <1>8, <2>5, <2>6
    <3>2. x \in 0 .. Len(f) /\ e \in x + 1 .. Len(f) /\ i \in x + 1 .. e
      BY <1>2, <1>8, <3>1
    <3>3. i <= x + q * PacketSize
      BY <1>6, <2>6
    <3> QED  BY <2>3, <2>6, <3>1, <3>2, <3>3
  <2>8. Straight(f, x, e)
    <3>1. a \in Nat /\ e \in Nat /\ x \in Nat /\ a <= x /\ e <= e
      BY <1>2, <1>7, <2>6
    <3> QED  BY <2>4, <3>1, StraightPart
  <2>9. f[i][2] = 0
    BY DEF IsWhole
  <2> QED  BY <1>6, <2>6, <2>7, <2>8, <2>9, AlignedIs
<1>11. CASE Holes(all) # {}
  <2>1. insync /\ Begins(f, a)
    BY <1>4, <1>9, <1>11 DEF ExcusedBy
  <2>2. PICK hole : hole = Min(Holes(all))
    OBVIOUS
  <2>3. hole \in Holes(all) /\ \A k \in Holes(all) : hole <= k
    <3>1. Holes(all) \subseteq Nat
      BY <1>5 DEF Holes
    <3> QED  BY <1>11, <2>2, <3>1, MinIs
  <2>4. PICK h : h = p + hole
    OBVIOUS
  <2>5. /\ hole \in 1 .. e - p - 1 /\ h \in p + 1 .. e - 1 /\ h \in Int
        /\ ~IsNext(f[h], f[h + 1])
    <3>1. hole \in 1 .. e - p - 1 /\ ~IsNext(f[p + hole], f[p + hole + 1])
      BY <1>2, <1>3, <2>3, HoleIs
    <3> QED  BY <1>2, <2>4, <3>1
  <2>6. Straight(f, p, h)
    <3> SUFFICES ASSUME NEW k \in p + 1 .. h - 1, ~IsNext(f[k], f[k + 1]) PROVE FALSE
      BY DEF Straight
    <3>1. k - p \in 1 .. e - p - 1 /\ p + (k - p) = k /\ ~(hole <= k - p)
      BY <1>2, <2>4, <2>5
    <3>2. k - p \in Holes(all)
      BY <1>2, <1>3, <3>1, HoleIs
    <3> QED  BY <2>3, <3>1, <3>2
  <2>7. /\ ~Misleads(d, hole - Len(b))
        /\ f[i][1] \notin PacketsOf(SubSeq(all, hole, Len(all)))
    BY <1>4, <1>9, <1>11, <2>1, <2>2 DEF ExcusedBy
  <2>8. i < h
    <3> SUFFICES ASSUME i >= h PROVE FALSE
      BY <1>8, <2>5
    <3>1. PICK u : u = SubSeq(all, hole, Len(all))
      OBVIOUS
    <3>2. u = Slice(f, h - 1, e)
      <4>1. hole - 1 \in 0 .. e - p /\ e - p \in hole - 1 .. e - p /\ hole - 1 + 1 = hole
        BY <1>2, <2>5
      <4>2. u = Slice(all, hole - 1, e - p)
        BY <1>5, <3>1, <4>1 DEF Slice
      <4>3. Slice(all, hole - 1, e - p) = Slice(f, p + (hole - 1), p + (e - p))
        BY <1>2, <1>3, <4>1, SliceOfSlice
      <4>4. p + (hole - 1) = h - 1 /\ p + (e - p) = e
        BY <1>2, <2>4, <2>5
      <4> QED  BY <4>2, <4>3, <4>4
    <3>3. PICK v : v = h - 1
      OBVIOUS
    <3>4. v \in 0 .. Len(f) /\ e \in v .. Len(f) /\ i - v \in 1 .. e - v /\ v + (i - v) = i
      <4>1. /\ e \in Int /\ i \in Int /\ h \in Int /\ v = h - 1 /\ Len(f) \in Int
            /\ 1 <= h /\ h <= e - 1 /\ h <= i /\ i <= e /\ e <= Len(f)
        BY <1>2, <1>8, <2>5, <3>3
      <4> QED  BY <4>1
    <3>5. DOMAIN u = 1 .. e - v /\ u[i - v] = f[i]
      <4>1. u = Slice(f, v, e)
        BY <3>2, <3>3
      <4>2. IsPart(u, f, v, e)
        BY <1>2, <3>4, <4>1, PartIs
      <4> QED  BY <3>4, <4>2 DEF IsPart
    <3>6. f[i][1] \in PacketsOf(u)
      BY <3>4, <3>5 DEF PacketsOf
    <3> QED  BY <2>7, <3>1, <3>6
  <2>9. i + PacketSize - 1 <= h
    <3> SUFFICES ASSUME i + PacketSize - 1 > h PROVE FALSE
      BY <1>8, <2>5
    <3>1. h \in i - 1 + 1 .. i - 1 + PacketSize - 1
      BY <1>8, <2>5, <2>8
    <3>2. \A k \in i - 1 + 1 .. i - 1 + PacketSize - 1 : IsNext(f[k], f[k + 1])
      BY DEF IsWhole, Straight
    <3> QED  BY <2>5, <3>1, <3>2
  <2>10. PICK n : n = h - a
    OBVIOUS
  <2>11. n \in 1 .. Len(d) /\ n >= PacketSize /\ n \in 0 .. e - a /\ a + n = h /\ n = hole - Len(b)
    <3>1. /\ a \in Nat /\ e \in Nat /\ p \in Nat /\ i \in Int /\ h \in Int /\ hole \in Int
          /\ a + 1 <= i /\ i + PacketSize - 1 <= h /\ h <= e - 1
      BY <1>2, <1>8, <2>5, <2>9
    <3>2. n >= PacketSize /\ n \in 1 .. e - a /\ a + n = h
      <4> HIDE <1>0
      <4>1. n = h - a
        BY <2>10
      <4>2. n \in Int /\ a + n = h /\ n <= e - a
        BY <3>1, <4>1
      <4>3. n >= PacketSize /\ n >= 1
        BY <3>1, <4>1
      <4> QED  BY <3>1, <4>2, <4>3
    <3>3. n = hole - Len(b)
      <4> HIDE <1>0
      <4>1. PICK w \in Int : w = a - p
        BY <3>1
      <4>2. h = p + hole /\ n = h - a
        BY <2>4, <2>10
      <4>3. n = hole - w
        BY <3>1, <4>1, <4>2
      <4> QED  BY <1>5, <4>1, <4>3
    <3> QED  BY <1>5, <3>2, <3>3
  <2>12. Straight(f, a, h)
    <3>1. p \in Nat /\ h \in Nat /\ a \in Nat /\ p <= a /\ h <= h
      BY <1>2, <2>5
    <3> QED  BY <2>6, <3>1, StraightPart
  <2>13. f[a + 1][2] = 0
    <3>1. a \in 0 .. Len(f) - 1 /\ h \in a + 1 .. Len(f)
      <4> HIDE <1>0
      <4>1. PICK w \in Nat : w = Len(f)
        BY <1>2
      <4>2. a \in Nat /\ e \in Nat /\ i \in Int /\ h \in Int /\ a + 1 <= i /\ i < h /\ h <= e - 1 /\ e <= w
        BY <1>2, <1>8, <2>5, <2>8, <4>1
      <4>3. a \in 0 .. w - 1 /\ h \in a + 1 .. w
        BY <4>2
      <4> QED  BY <4>1, <4>3
    <3> QED  BY <1>1, <2>1, <2>6, <3>1, BeginsIs
  <2>14. s = 0
    <3>1. Straight(d, 0, n)
      BY <1>2, <2>11, <2>12, StraightSlice
    <3>2. d[1][2] = 0
      <4>1. 1 \in 1 .. e - a
        BY <1>5, <2>11
      <4> QED  BY <1>5, <2>13, <4>1
    <3> QED  BY <1>5, <1>6, <2>7, <2>11, <3>1, <3>2, UpToSkip
  <2>15. /\ h \in a + 1 .. Len(f) /\ i \in a + 1 .. h /\ f[i][2] = 0
         /\ a + Skip(d) + q * PacketSize = a + q * PacketSize /\ a + Skip(d) = a
    <3>1. a + Skip(d) + q * PacketSize = a + q * PacketSize /\ a + Skip(d) = a
      BY <1>2, <1>6, <1>7, <2>14
    <3>2. h \in a + 1 .. Len(f) /\ i \in a + 1 .. h
      BY <1>2, <1>8, <2>5, <2>8
    <3> QED  BY <3>1, <3>2 DEF IsWhole
  <2>16. \E j \in 1 .. q : /\ i = a + (j - 1) * PacketSize + 1
                           /\ i + PacketSize - 1 <= a + q * PacketSize
    <3>1. i <= a + q * PacketSize
      BY <2>15
    <3> QED  BY <2>12, <2>13, <2>15, <3>1, AlignedIs
  <2> QED  BY <2>15, <2>16
<1> QED  BY <1>10, <1>11

-----------------------------------------------------------------------------
(***************************************************************************)
(* The packet counter.                                                     *)
(***************************************************************************)

LEMMA CounterModIs == CounterMod \in Nat /\ CounterMod > 1
BY InputPathAssumption DEF InputPathAssumption

(* The continuity counter goes on from packet to packet.                   *)
LEMMA ModIs ==
  ASSUME NEW n \in Nat, NEW c \in Nat \ {0}
  PROVE  \E q \in Int, r \in 0 .. c - 1 : n = q * c + r /\ n % c = r
<1>1. /\ n \div c \in Int /\ (n \div c) * c \in Int
      /\ n % c \in 0 .. c - 1 /\ n % c = n - (n \div c) * c
  BY SMT
<1>2. PICK q \in Int : q = n \div c
  BY <1>1
<1>3. PICK r \in 0 .. c - 1 : r = n % c
  BY <1>1
<1>4. n = q * c + r
  BY <1>1, <1>2, <1>3, SMT
<1> QED  BY <1>3, <1>4

(* The remainder of a division is the only one.                            *)
LEMMA ModOf ==
  ASSUME NEW q \in Int, NEW c \in Nat \ {0}, NEW r \in 0 .. c - 1, NEW x \in Int, x = q * c + r
  PROVE  x % c = r
<1>1. PICK k \in Int : k * c <= x /\ x < k * c + c /\ x % c = x - k * c
  <2>1. /\ x \div c \in Int
        /\ (x \div c) * c <= x
        /\ x < (x \div c) * c + c
        /\ x % c = x - (x \div c) * c
    BY SMT
  <2> QED  BY <2>1
<1>2. ASSUME NEW a \in Int, NEW b \in Int, a < b PROVE a * c + c <= b * c
  <2>1. a + 1 <= b
    BY <1>2
  <2>2. (a + 1) * c <= b * c
    BY <2>1, SMT
  <2> QED  BY <2>2, SMT
<1>3. ~ (k < q)
  <2>1. k < q => k * c + c <= q * c
    BY <1>2
  <2> QED  BY <1>1, <2>1, SMT
<1>4. ~ (q < k)
  <2>1. q < k => q * c + c <= k * c
    BY <1>2
  <2> QED  BY <1>1, <2>1, SMT
<1>5. k = q
  BY <1>3, <1>4
<1> QED  BY <1>1, <1>5, SMT

(* The next number has the next counter,                                   *)
LEMMA NextCounter ==
  ASSUME NEW n \in Nat
  PROVE  ((n % CounterMod) + 1) % CounterMod = (n + 1) % CounterMod
<1> USE CounterModIs
<1>1. PICK c \in Nat \ {0} : c = CounterMod
  OBVIOUS
<1>2. PICK q \in Int, r \in 0 .. c - 1 : n = q * c + r /\ n % c = r
  BY ModIs
<1>3. CASE r + 1 < c
  <2>1. n + 1 = q * c + (r + 1) /\ r + 1 \in 0 .. c - 1 /\ n + 1 \in Int
    BY <1>2, <1>3, SMT
  <2>2. PICK s \in 0 .. c - 1 : s = r + 1
    BY <2>1
  <2>3. (n + 1) % c = s
    BY <2>1, <2>2, ModOf
  <2>4. s = 0 * c + s /\ s \in Int /\ 0 \in Int
    BY <1>1
  <2>5. s % c = s
    BY <2>4, ModOf
  <2> QED  BY <1>1, <1>2, <2>2, <2>3, <2>5
<1>4. CASE ~(r + 1 < c)
  <2>1. r + 1 = c
    BY <1>2, <1>4
  <2>2. n + 1 = (q + 1) * c + 0 /\ c = 1 * c + 0
    BY <1>2, <2>1, SMT
  <2>3. n + 1 \in Int /\ q + 1 \in Int /\ 0 \in 0 .. c - 1 /\ 1 \in Int /\ c \in Int
    OBVIOUS
  <2>4. (n + 1) % c = 0
    <3>1. PICK z \in Int, k \in Int, o \in 0 .. c - 1 : z = n + 1 /\ k = q + 1 /\ o = 0
      BY <2>3
    <3>2. z = k * c + o
      BY <2>2, <3>1
    <3>3. z % c = o
      BY <3>2, ModOf
    <3> QED  BY <3>1, <3>3
  <2>5. c % c = 0
    BY <2>2, <2>3, ModOf
  <2> QED  BY <1>1, <1>2, <2>1, <2>4, <2>5
<1> QED  BY <1>3, <1>4

(* and whatever has it is the next, or has so many before it.              *)
LEMMA ComesNext ==
  ASSUME NEW x \in Nat, NEW y \in Nat, ((x % CounterMod) + 1) % CounterMod = y % CounterMod
  PROVE  (y - x) % CounterMod = 1
<1> USE CounterModIs
<1>1. PICK c \in Nat \ {0} : c = CounterMod
  OBVIOUS
<1>2. (x + 1) % c = y % c
  BY <1>1, NextCounter
<1>3. PICK p \in Int, s \in 0 .. c - 1 : x + 1 = p * c + s /\ (x + 1) % c = s
  <2>1. x + 1 \in Nat
    OBVIOUS
  <2> QED  BY <2>1, ModIs
<1>4. PICK q \in Int, r \in 0 .. c - 1 : y = q * c + r /\ y % c = r
  BY ModIs
<1>5. s = r
  BY <1>2, <1>3, <1>4
<1>6. y - x = (q - p) * c + 1
  <2>1. PICK m \in Int, n \in Int : m = p * c /\ n = q * c
    BY SMT
  <2>2. (q - p) * c = n - m
    BY <2>1, SMT
  <2> QED  BY <1>3, <1>4, <1>5, <2>1, <2>2
<1>7. 1 \in 0 .. c - 1 /\ q - p \in Int /\ y - x \in Int
  BY <1>1
<1>8. (y - x) % c = 1
  <2>1. PICK z \in Int, k \in Int, o \in 0 .. c - 1 : z = y - x /\ k = q - p /\ o = 1
    BY <1>7
  <2>2. z = k * c + o
    BY <1>6, <2>1
  <2>3. z % c = o
    BY <2>2, ModOf
  <2> QED  BY <2>1, <2>3
<1> QED  BY <1>1, <1>8

(* The packet counter, for the first m packets.                            *)
IsCounting(f, packets, m) ==
  f = [i \in 0 .. m |->
         IF i = 0 THEN [drops |-> ts_n_drops, counter |-> ts_counter]
         ELSE Counted(f[i - 1], packets[i])]

LEMMA Counting ==
  ASSUME NEW packets, Len(packets) \in Nat
  PROVE  \E f : /\ f[0] = [drops |-> ts_n_drops, counter |-> ts_counter]
                /\ \A i \in 1 .. Len(packets) : f[i] = Counted(f[i - 1], packets[i])
                /\ CountedAll(packets) = f[Len(packets)]
<1> DEFINE T == {m \in 0 .. Len(packets) : \E f : IsCounting(f, packets, m)}
<1>0. PICK z : z = [drops |-> ts_n_drops, counter |-> ts_counter]
  OBVIOUS
<1>1. 0 \in T
  <2>1. IsCounting([i \in 0 .. 0 |-> z], packets, 0)
    BY <1>0 DEF IsCounting
  <2> QED  BY <2>1
<1>2. ASSUME NEW m \in 0 .. Len(packets), m < Len(packets), m \in T
      PROVE  m + 1 \in T
  <2>1. PICK f : IsCounting(f, packets, m)
    BY <1>2
  <2> DEFINE last == Counted(f[m], packets[m + 1])
             g == [i \in 0 .. m + 1 |-> IF i = m + 1 THEN last ELSE f[i]]
  <2>2. \A i \in 0 .. m : f[i] = IF i = 0 THEN z ELSE Counted(f[i - 1], packets[i])
    BY <1>0, <2>1 DEF IsCounting
  <2>3. \A i \in 0 .. m : g[i] = f[i]
    OBVIOUS
  <2>4. g[m + 1] = last /\ m + 1 # 0 /\ m + 1 - 1 = m
    OBVIOUS
  <2>5. \A i \in 0 .. m + 1 : i # m + 1 => i \in 0 .. m /\ (i # 0 => i - 1 \in 0 .. m)
    OBVIOUS
  <2>6. g[m] = f[m]
    BY <2>3
  <2>7. g = [i \in 0 .. m + 1 |-> g[i]]
    OBVIOUS
  <2> HIDE DEF g
  <2>8. \A i \in 0 .. m + 1 : g[i] = IF i = 0 THEN z ELSE Counted(g[i - 1], packets[i])
    BY <2>2, <2>3, <2>4, <2>5, <2>6
  <2>9. IsCounting(g, packets, m + 1)
    BY <1>0, <2>7, <2>8 DEF IsCounting
  <2>10. m + 1 \in 0 .. Len(packets)
    BY <1>2
  <2> QED  BY <2>9, <2>10
<1>3. Len(packets) \in T
  <2> HIDE DEF T
  <2>1. \A m \in 0 .. Len(packets) : m \in T
    BY <1>1, <1>2, Climbing
  <2>2. Len(packets) \in 0 .. Len(packets)
    OBVIOUS
  <2> QED  BY <2>1, <2>2
<1>4. PICK h : h = CHOOSE f : IsCounting(f, packets, Len(packets))
  OBVIOUS
<1>5. IsCounting(h, packets, Len(packets))
  BY <1>3, <1>4
<1>6. CountedAll(packets) = h[Len(packets)]
  BY <1>4, Zenon DEF CountedAll, IsCounting
<1>7. h[0] = z
  BY <1>0, <1>5 DEF IsCounting
<1>8. \A i \in 1 .. Len(packets) : h[i] = Counted(h[i - 1], packets[i])
  <2> SUFFICES ASSUME NEW i \in 1 .. Len(packets) PROVE h[i] = Counted(h[i - 1], packets[i])
    OBVIOUS
  <2>1. i \in 0 .. Len(packets) /\ i # 0
    OBVIOUS
  <2>2. h[i] = IF i = 0 THEN z ELSE Counted(h[i - 1], packets[i])
    BY <1>0, <1>5, <2>1 DEF IsCounting
  <2> QED  BY <2>1, <2>2
<1> QED  BY <1>0, <1>6, <1>7, <1>8

Counts == [drops : Nat, counter : 0 .. CounterMod]

Blocks == {p \in Seq(Bytes) : Len(p) = PacketSize}

LEMMA BlockIs ==
  ASSUME NEW p \in Blocks
  PROVE  p[1] \in Bytes /\ p[1][1] \in Nat /\ p[1][2] \in 0 .. PacketSize - 1
<1>1. 1 \in 1 .. Len(p) /\ p \in Seq(Bytes)
  BY PacketSizeIs DEF Blocks
<1>2. p[1] \in Bytes
  BY <1>1, ElementOfSeq
<1> QED  BY <1>2, ByteIs

(* What the counter makes of a packet.                                     *)
LEMMA CountedIs ==
  ASSUME NEW count \in Counts, NEW p \in Blocks
  PROVE  /\ Counted(count, p) \in Counts
         /\ count.drops <= Counted(count, p).drops
         /\ IsSync(p[1]) => Counted(count, p).counter
                              = IF IsHead(p) THEN p[1][1] % CounterMod ELSE count.counter
         /\ Counted(count, p).drops = count.drops =>
              /\ IsSync(p[1])
              /\ IsHead(p) /\ count.counter # NoCounter =>
                   (count.counter + 1) % CounterMod = p[1][1] % CounterMod
         /\ (IsSync(p[1]) /\ IsHead(p)
              /\ (count.counter # NoCounter => (count.counter + 1) % CounterMod = p[1][1] % CounterMod))
              => Counted(count, p).drops = count.drops
<1>1. PICK x \in Nat, c \in 0 .. CounterMod : count = [drops |-> x, counter |-> c]
  BY DEF Counts
<1>2. PICK n : n = p[1][1] % CounterMod
  OBVIOUS
<1>3. n \in 0 .. CounterMod
  <2>1. p[1][1] \in Nat /\ CounterMod \in Nat /\ CounterMod > 1
    BY BlockIs, CounterModIs
  <2>2. PICK y \in Nat : y = p[1][1]
    BY <2>1
  <2>3. y % CounterMod \in 0 .. CounterMod - 1
    BY <2>1, SMT
  <2> QED  BY <1>2, <2>1, <2>2, <2>3
<1>4. count.drops = x /\ count.counter = c
  BY <1>1
<1>5. PICK w : w = Counted(count, p)
  OBVIOUS
<1>6. CASE ~IsSync(p[1])
  <2>1. w = [drops |-> x + 1, counter |-> c]
    <3>1. w = [count EXCEPT !.drops = count.drops + 1]
      BY <1>5, <1>6 DEF Counted
    <3>2. PICK y : y = x + 1
      OBVIOUS
    <3>3. w = [count EXCEPT !.drops = y]
      BY <1>4, <3>1, <3>2
    <3>4. w = [drops |-> y, counter |-> c]
      BY <1>1, <3>3
    <3> QED  BY <3>2, <3>4
  <2> QED  BY <1>4, <1>5, <1>6, <2>1 DEF Counts
<1>7. CASE IsSync(p[1]) /\ p[1][2] # 0
  <2>1. w = count
    BY <1>5, <1>7 DEF Counted
  <2> QED  BY <1>4, <1>5, <1>7, <2>1 DEF Counts, IsHead
<1>8. CASE IsSync(p[1]) /\ p[1][2] = 0
  <2>1. w = [drops |-> IF c # NoCounter /\ (c + 1) % CounterMod # n THEN x + 1 ELSE x, counter |-> n]
    BY <1>2, <1>4, <1>5, <1>8 DEF Counted
  <2>2. IsHead(p)
    BY <1>8 DEF IsHead
  <2>3. CASE c # NoCounter /\ (c + 1) % CounterMod # n
    <3>1. w = [drops |-> x + 1, counter |-> n]
      BY <2>1, <2>3
    <3> QED  BY <1>2, <1>3, <1>4, <1>5, <1>8, <2>2, <2>3, <3>1 DEF Counts
  <2>4. CASE ~(c # NoCounter /\ (c + 1) % CounterMod # n)
    <3>1. w = [drops |-> x, counter |-> n]
      BY <2>1, <2>4
    <3> QED  BY <1>2, <1>3, <1>4, <1>5, <1>8, <2>2, <2>4, <3>1 DEF Counts
  <2> QED  BY <2>3, <2>4
<1> QED  BY <1>6, <1>7, <1>8

(* No packet is missing among the first n, as far as the counter tells:    *)
(* that of the last is c.                                                  *)
Tracked(w, n, c) ==
  /\ \A i, j \in 1 .. n :
       (i < j /\ IsHead(w[i]) /\ IsHead(w[j]) /\ (\A k \in i + 1 .. j - 1 : ~IsHead(w[k])))
         => (w[j][1][1] - w[i][1][1]) % CounterMod = 1
  /\ \A i \in 1 .. n :
       (IsHead(w[i]) /\ (\A k \in i + 1 .. n : ~IsHead(w[k]))) => c = w[i][1][1] % CounterMod

LEMMA TrackedSame ==
  ASSUME NEW v, NEW w, NEW n \in Nat, NEW c, Tracked(v, n, c), \A i \in 1 .. n : w[i] = v[i]
  PROVE  Tracked(w, n, c)
<1>1. ASSUME NEW i \in 1 .. n, NEW j \in 1 .. n,
             i < j, IsHead(w[i]), IsHead(w[j]), \A k \in i + 1 .. j - 1 : ~IsHead(w[k])
      PROVE  (w[j][1][1] - w[i][1][1]) % CounterMod = 1
  <2>1. \A k \in i + 1 .. j - 1 : k \in 1 .. n
    OBVIOUS
  <2>2. IsHead(v[i]) /\ IsHead(v[j]) /\ \A k \in i + 1 .. j - 1 : ~IsHead(v[k])
    BY <1>1, <2>1
  <2>3. (v[j][1][1] - v[i][1][1]) % CounterMod = 1
    BY <1>1, <2>2 DEF Tracked
  <2> QED  BY <2>3
<1>2. ASSUME NEW i \in 1 .. n, IsHead(w[i]), \A k \in i + 1 .. n : ~IsHead(w[k])
      PROVE  c = w[i][1][1] % CounterMod
  <2>1. \A k \in i + 1 .. n : k \in 1 .. n
    OBVIOUS
  <2>2. IsHead(v[i]) /\ \A k \in i + 1 .. n : ~IsHead(v[k])
    BY <1>2, <2>1
  <2> QED  BY <2>2 DEF Tracked
<1> QED  BY <1>1, <1>2 DEF Tracked

(* The next packet is tracked if its counter follows.                      *)
LEMMA TrackedMore ==
  ASSUME NEW w, NEW n \in Nat, NEW c, NEW b, Tracked(w, n, c),
         \A i \in 1 .. n + 1 : w[i] \in Blocks,
         c = NoCounter \/ c \in 0 .. CounterMod,
         b = IF IsHead(w[n + 1]) THEN w[n + 1][1][1] % CounterMod ELSE c,
         IsHead(w[n + 1]) /\ c # NoCounter => (c + 1) % CounterMod = w[n + 1][1][1] % CounterMod
  PROVE  Tracked(w, n + 1, b)
<1>1. ASSUME NEW i \in 1 .. n + 1, NEW j \in 1 .. n + 1,
             i < j, IsHead(w[i]), IsHead(w[j]), \A k \in i + 1 .. j - 1 : ~IsHead(w[k])
      PROVE  (w[j][1][1] - w[i][1][1]) % CounterMod = 1
  <2>1. CASE j # n + 1
    <3>1. i \in 1 .. n /\ j \in 1 .. n
      BY <1>1, <2>1
    <3> QED  BY <1>1, <3>1 DEF Tracked
  <2>2. CASE j = n + 1
    <3>1. i \in 1 .. n /\ j - 1 = n
      BY <1>1, <2>2
    <3>2. c = w[i][1][1] % CounterMod
      BY <1>1, <3>1 DEF Tracked
    <3>3. PICK x \in Nat, y \in Nat : x = w[i][1][1] /\ y = w[j][1][1]
      BY BlockIs
    <3>4. x % CounterMod < CounterMod /\ x % CounterMod >= 0 /\ CounterMod \in Nat
      BY CounterModIs, SMT
    <3>5. c # NoCounter
      BY <3>2, <3>3, <3>4 DEF NoCounter
    <3>6. ((x % CounterMod) + 1) % CounterMod = y % CounterMod
      BY <1>1, <2>2, <3>2, <3>3, <3>5
    <3> QED  BY <3>3, <3>6, ComesNext
  <2> QED  BY <2>1, <2>2
<1>2. ASSUME NEW i \in 1 .. n + 1, IsHead(w[i]), \A k \in i + 1 .. n + 1 : ~IsHead(w[k])
      PROVE  b = w[i][1][1] % CounterMod
  <2>1. CASE i = n + 1
    BY <1>2, <2>1
  <2>2. CASE i # n + 1
    <3>1. i \in 1 .. n /\ n + 1 \in i + 1 .. n + 1
      BY <2>2
    <3>2. \A k \in i + 1 .. n : ~IsHead(w[k])
      <4>1. \A k \in i + 1 .. n : k \in i + 1 .. n + 1
        OBVIOUS
      <4> QED  BY <1>2, <4>1
    <3>3. c = w[i][1][1] % CounterMod /\ b = c
      BY <1>2, <3>1, <3>2 DEF Tracked
    <3> QED  BY <3>3
  <2> QED  BY <2>1, <2>2
<1> QED  BY <1>1, <1>2 DEF Tracked

(* A drop is counted if a packet is missing.                               *)
LEMMA CountedAllTracks ==
  ASSUME NEW packets \in Seq(Blocks), NEW old \in Seq(Blocks),
         ts_n_drops \in Nat, ts_counter \in 0 .. CounterMod,
         ts_n_drops = 0 => Tracked(old, Len(old), ts_counter)
  PROVE  /\ CountedAll(packets) \in Counts
         /\ CountedAll(packets).drops = 0 =>
              Tracked(old \o packets, Len(old) + Len(packets), CountedAll(packets).counter)
<1> USE CounterModIs
<1>1. PICK f : /\ f[0] = [drops |-> ts_n_drops, counter |-> ts_counter]
               /\ \A i \in 1 .. Len(packets) : f[i] = Counted(f[i - 1], packets[i])
               /\ CountedAll(packets) = f[Len(packets)]
  BY Counting
<1>2. PICK w : w = old \o packets
  OBVIOUS
<1>3. w \in Seq(Blocks) /\ Len(w) = Len(old) + Len(packets)
      /\ \A i \in 1 .. Len(old) + Len(packets) : w[i] = IF i <= Len(old) THEN old[i] ELSE packets[i - Len(old)]
  BY <1>2, ConcatProperties
<1>4. Len(old) \in Nat /\ Len(packets) \in Nat
  OBVIOUS
<1> DEFINE Good(m) == /\ f[m] \in Counts
                      /\ f[m].drops = 0 => Tracked(w, Len(old) + m, f[m].counter)
           T == {m \in 0 .. Len(packets) : Good(m)}
<1>5. 0 \in T
  <2>1. f[0] \in Counts /\ f[0].drops = ts_n_drops /\ f[0].counter = ts_counter
    BY <1>1 DEF Counts
  <2>2. \A i \in 1 .. Len(old) : w[i] = old[i]
    <3> SUFFICES ASSUME NEW i \in 1 .. Len(old) PROVE w[i] = old[i]
      OBVIOUS
    <3>1. i \in 1 .. Len(old) + Len(packets) /\ i <= Len(old)
      BY <1>4
    <3> QED  BY <1>3, <3>1
  <2>3. ts_n_drops = 0 => Tracked(w, Len(old), ts_counter)
    BY <1>4, <2>2, TrackedSame
  <2>4. Len(old) + 0 = Len(old) /\ 0 \in 0 .. Len(packets)
    BY <1>4
  <2> QED  BY <2>1, <2>3, <2>4
<1>6. ASSUME NEW m \in 0 .. Len(packets), m < Len(packets), m \in T
      PROVE  m + 1 \in T
  <2>1. m + 1 \in 1 .. Len(packets) /\ m + 1 - 1 = m /\ m + 1 \in 0 .. Len(packets)
    BY <1>4, <1>6
  <2>2. PICK n \in Nat : n = Len(old) + m
    BY <1>4
  <2>3. n + 1 \in 1 .. Len(w) /\ n + 1 = Len(old) + (m + 1) /\ w[n + 1] = packets[m + 1]
    <3>1. n + 1 \in 1 .. Len(old) + Len(packets) /\ ~(n + 1 <= Len(old)) /\ n + 1 - Len(old) = m + 1
      BY <1>4, <2>1, <2>2
    <3> QED  BY <1>3, <1>4, <2>2, <3>1
  <2>4. PICK p \in Blocks : p = packets[m + 1]
    BY <2>1, ElementOfSeq
  <2>5. PICK count \in Counts : count = f[m] /\ (count.drops = 0 => Tracked(w, n, count.counter))
    BY <1>6, <2>2
  <2>6. f[m + 1] = Counted(count, p)
    BY <1>1, <2>1, <2>4, <2>5
  <2>7. f[m + 1] \in Counts /\ count.drops <= f[m + 1].drops
    BY <2>6, CountedIs
  <2>8. ASSUME f[m + 1].drops = 0 PROVE Tracked(w, n + 1, f[m + 1].counter)
    <3>1. count.drops \in Nat /\ count.counter \in 0 .. CounterMod /\ f[m + 1].drops \in Nat
      BY <2>7 DEF Counts
    <3>2. count.drops = 0 /\ Counted(count, p).drops = count.drops
      BY <2>6, <2>7, <2>8, <3>1
    <3>3. /\ IsSync(p[1])
          /\ IsHead(p) /\ count.counter # NoCounter => (count.counter + 1) % CounterMod = p[1][1] % CounterMod
      BY <3>2, CountedIs
    <3>4. f[m + 1].counter = IF IsHead(p) THEN p[1][1] % CounterMod ELSE count.counter
      BY <2>6, <3>3, CountedIs
    <3>5. \A i \in 1 .. n + 1 : w[i] \in Blocks
      <4>1. \A i \in 1 .. n + 1 : i \in 1 .. Len(w)
        BY <1>3, <1>4, <2>3
      <4> QED  BY <1>3, <4>1, ElementOfSeq
    <3>6. Tracked(w, n, count.counter) /\ w[n + 1] = p
      BY <2>3, <2>4, <2>5, <3>2
    <3> QED  BY <3>1, <3>3, <3>4, <3>5, <3>6, TrackedMore
  <2> QED  BY <2>1, <2>3, <2>7, <2>8
<1>7. Len(packets) \in T
  <2> HIDE DEF T
  <2>1. \A m \in 0 .. Len(packets) : m \in T
    BY <1>4, <1>5, <1>6, Climbing
  <2> QED  BY <1>4, <2>1
<1> QED  BY <1>1, <1>2, <1>7

(* No drop is counted if none is missing: number is that of the last.      *)
LEMMA CountedAllSteady ==
  ASSUME NEW packets \in Seq(Blocks), NEW number \in Int,
         ts_n_drops = 0, ts_counter = NoCounter \/ (number \in Nat /\ ts_counter = number % CounterMod),
         \A i \in 1 .. Len(packets) :
           IsHead(packets[i]) /\ IsSync(packets[i][1]) /\ packets[i][1][1] = number + i
  PROVE  /\ CountedAll(packets).drops = 0
         /\ CountedAll(packets).counter = IF Len(packets) = 0 THEN ts_counter
                                          ELSE (number + Len(packets)) % CounterMod
<1> USE CounterModIs
<1>1. PICK f : /\ f[0] = [drops |-> ts_n_drops, counter |-> ts_counter]
               /\ \A i \in 1 .. Len(packets) : f[i] = Counted(f[i - 1], packets[i])
               /\ CountedAll(packets) = f[Len(packets)]
  <2>1. Len(packets) \in Nat
    OBVIOUS
  <2> QED  BY <2>1, Counting, Zenon
<1>2. Len(packets) \in Nat
  OBVIOUS
<1>3. \A n \in Nat : n % CounterMod \in 0 .. CounterMod
  BY SMT
<1>4. ts_counter \in 0 .. CounterMod
  BY <1>3 DEF NoCounter
<1> DEFINE T == {m \in 0 .. Len(packets) :
                   /\ f[m] \in Counts
                   /\ f[m].drops = 0
                   /\ f[m].counter = IF m = 0 THEN ts_counter ELSE (number + m) % CounterMod
                   /\ m # 0 => number + m \in Nat}
<1>5. 0 \in T
  <2>1. f[0] \in Counts /\ f[0].drops = 0 /\ f[0].counter = ts_counter
    BY <1>1, <1>4 DEF Counts
  <2> QED  BY <1>2, <2>1
<1>6. ASSUME NEW m \in 0 .. Len(packets), m < Len(packets), m \in T
      PROVE  m + 1 \in T
  <2>1. m + 1 \in 1 .. Len(packets) /\ m + 1 - 1 = m /\ m + 1 \in 0 .. Len(packets) /\ m + 1 # 0
    BY <1>2, <1>6
  <2>2. PICK p \in Blocks : p = packets[m + 1]
    BY <2>1, ElementOfSeq
  <2>3. IsHead(p) /\ IsSync(p[1]) /\ p[1][1] = number + (m + 1) /\ p[1][1] \in Nat
    BY <2>1, <2>2, BlockIs
  <2>4. PICK count \in Counts : count = f[m]
    BY <1>6
  <2>5. f[m + 1] = Counted(count, p)
    <3>1. f[m + 1] = Counted(f[m + 1 - 1], packets[m + 1])
      <4>1. \A i \in 1 .. Len(packets) : f[i] = Counted(f[i - 1], packets[i])
        BY <1>1, Zenon
      <4>2. m + 1 \in 1 .. Len(packets)
        BY <2>1
      <4> QED  BY <4>1, <4>2
    <3> QED  BY <2>1, <2>2, <2>4, <3>1
  <2>6. /\ count.drops = 0
        /\ m = 0 => count.counter = ts_counter
        /\ m # 0 => count.counter = (number + m) % CounterMod /\ number + m \in Nat
    BY <1>6, <2>4
  <2>7. ASSUME count.counter # NoCounter
        PROVE  (count.counter + 1) % CounterMod = p[1][1] % CounterMod
    <3>1. PICK n \in Nat : n = number + m /\ count.counter = n % CounterMod
      <4>1. CASE m = 0
        <5>1. number \in Nat /\ count.counter = number % CounterMod
          BY <2>6, <2>7, <4>1
        <5>2. number + m = number
          BY <4>1
        <5> QED  BY <5>1, <5>2
      <4>2. CASE m # 0
        BY <2>6, <4>2
      <4> QED  BY <4>1, <4>2
    <3>2. n + 1 = p[1][1]
      BY <2>3, <3>1
    <3> QED  BY <3>1, <3>2, NextCounter
  <2>8. f[m + 1] \in Counts /\ f[m + 1].drops = 0 /\ f[m + 1].counter = p[1][1] % CounterMod
    <3>1. Counted(count, p).drops = count.drops
      BY <2>3, <2>7, CountedIs
    <3>2. Counted(count, p) \in Counts /\ Counted(count, p).counter = p[1][1] % CounterMod
      BY <2>3, CountedIs
    <3> QED  BY <2>5, <2>6, <3>1, <3>2
  <2> QED  BY <2>1, <2>3, <2>8
<1>7. Len(packets) \in T
  <2> HIDE DEF T
  <2>1. \A m \in 0 .. Len(packets) : m \in T
    BY <1>2, <1>5, <1>6, Climbing
  <2> QED  BY <1>2, <2>1
<1> QED  BY <1>1, <1>7

-----------------------------------------------------------------------------
(***************************************************************************)
(* The pace.                                                               *)
(***************************************************************************)

Pcrs == (0 .. PCR_BASE_MAX - 1) \cup {NoPcr}

Paces ==
  [ahead : Int, set_last_PCR : BOOLEAN, last_PCR : Int, remain_PCR : 0 .. TicksPerMs - 1,
   PCR_base : Int, first_PCR : Pcrs]

LEMMA PaceNumbers ==
  /\ TicksPerMs \in Nat \ {0}
  /\ ResetTime \in Nat
  /\ BytesPerMs \in Nat \ {0}
  /\ PCR_BASE_MAX \in Nat
BY FilePaceAssumption DEF FilePaceAssumption

LEMMA PassedIs ==
  ASSUME NEW p \in Paces, NEW time \in Int
  PROVE  Passed(p, time) \in Paces
<1>1. LongAgo \in Int
  BY PaceNumbers DEF LongAgo
<1>2. PICK n \in Int : n = IF p.ahead - time < LongAgo THEN LongAgo ELSE p.ahead - time
  <2>1. p.ahead \in Int
    BY DEF Paces
  <2> QED  BY <1>1, <2>1
<1>3. Passed(p, time) = [p EXCEPT !.ahead = n]
  BY <1>2 DEF Passed
<1> QED  BY <1>3 DEF Paces

LEMMA WaitedIs ==
  ASSUME NEW p \in Paces
  PROVE  wait_timestamp(p) \in Paces
<1>1. PICK m : m = [p EXCEPT !.ahead = 0]
  OBVIOUS
<1>2. m \in Paces
  BY <1>1 DEF Paces
<1>3. PICK n : n = [m EXCEPT !.set_last_PCR = FALSE]
  OBVIOUS
<1>4. n \in Paces
  BY <1>2, <1>3 DEF Paces
<1>5. [p EXCEPT !.ahead = 0, !.set_last_PCR = FALSE] = n
  BY <1>1, <1>3
<1>6. wait_timestamp(p) \in {p, n}
  BY <1>5 DEF wait_timestamp
<1> QED  BY <1>4, <1>6

LEMMA BytesIs ==
  ASSUME NEW p \in Paces, NEW n \in Int, NEW time \in Int
  PROVE  set_timestamp_bytes(p, n, time) \in Paces
<1>1. PICK k \in Int : k = n \div BytesPerMs
  <2>1. PICK c \in Nat \ {0} : c = BytesPerMs
    BY PaceNumbers
  <2>2. n \div c \in Int
    BY SMT
  <2> QED  BY <2>1, <2>2
<1>2. PICK m : m = [p EXCEPT !.ahead = k]
  OBVIOUS
<1>3. m \in Paces
  BY <1>2 DEF Paces
<1>4. set_timestamp_bytes(p, n, time) = Passed(m, time)
  BY <1>1, <1>2 DEF set_timestamp_bytes
<1> QED  BY <1>3, <1>4, PassedIs

(* The time stamp after a packet.                                          *)
LEMMA AfterPcrIs ==
  ASSUME NEW p \in Paces, NEW pcr \in Pcrs
  PROVE  AfterPcr(p, pcr) \in Paces
<1>1. CASE pcr = NoPcr
  <2>1. AfterPcr(p, pcr) = p
    BY <1>1 DEF AfterPcr
  <2> QED  BY <2>1
<1>2. CASE pcr # NoPcr
  <2>1. pcr \in Int
    BY <1>2, PaceNumbers DEF Pcrs
  <2>2. PICK seen : seen = [p EXCEPT !.PCR_base = pcr]
    OBVIOUS
  <2>3. seen \in Paces
    BY <2>1, <2>2 DEF Paces
  <2>4. PICK diff \in Int : diff = diff_PCR(pcr, p.last_PCR)
    <3>1. p.last_PCR \in Int
      BY DEF Paces
    <3> QED  BY <2>1, <3>1, PaceNumbers DEF diff_PCR
  <2>5. AfterPcr(p, pcr) \in
          {p, seen, [seen EXCEPT !.set_last_PCR = TRUE, !.ahead = 0, !.last_PCR = pcr, !.first_PCR = pcr],
           [Advanced(seen, diff) EXCEPT !.last_PCR = pcr]}
    BY <1>2, <2>2, <2>4 DEF AfterPcr
  <2>6. [seen EXCEPT !.set_last_PCR = TRUE, !.ahead = 0, !.last_PCR = pcr, !.first_PCR = pcr] \in Paces
    <3>1. PICK x : x = [seen EXCEPT !.set_last_PCR = TRUE]
      OBVIOUS
    <3>2. PICK y : y = [x EXCEPT !.ahead = 0]
      OBVIOUS
    <3>3. PICK z : z = [y EXCEPT !.last_PCR = pcr]
      OBVIOUS
    <3>4. PICK u : u = [z EXCEPT !.first_PCR = pcr]
      OBVIOUS
    <3>5. x \in Paces
      BY <2>3, <3>1 DEF Paces
    <3>6. y \in Paces
      BY <3>2, <3>5 DEF Paces
    <3>7. z \in Paces
      BY <2>1, <3>3, <3>6 DEF Paces
    <3>8. u \in Paces
      BY <3>4, <3>7 DEF Paces
    <3>9. [seen EXCEPT !.set_last_PCR = TRUE, !.ahead = 0, !.last_PCR = pcr, !.first_PCR = pcr] = u
      BY <3>1, <3>2, <3>3, <3>4
    <3> QED  BY <3>8, <3>9
  <2>7. Advanced(seen, diff) \in Paces
    <3>1. PICK ticks \in Int : ticks = diff + seen.remain_PCR
      BY <2>3, PaceNumbers DEF Paces
    <3>2. PICK c \in Nat \ {0} : c = TicksPerMs
      BY PaceNumbers
    <3>3. PICK k \in Int, r \in 0 .. c - 1 : k = ticks \div c /\ r = ticks % c
      <4>1. ticks \div c \in Int /\ ticks % c \in 0 .. c - 1
        BY SMT
      <4> QED  BY <4>1
    <3>4. PICK n \in Int : n = seen.ahead + k
      BY <2>3 DEF Paces
    <3>5. Advanced(seen, diff) = [seen EXCEPT !.ahead = n, !.remain_PCR = r]
      BY <3>1, <3>2, <3>3, <3>4, Zenon DEF Advanced
    <3> QED  BY <2>3, <3>2, <3>5 DEF Paces
  <2>8. [Advanced(seen, diff) EXCEPT !.last_PCR = pcr] \in Paces
    BY <2>1, <2>7 DEF Paces
  <2> QED  BY <2>3, <2>5, <2>6, <2>8
<1> QED  BY <1>1, <1>2

(* set_timestamp_pcr, for the first m packets.                             *)
IsStamping(f, p, pcrs, m) ==
  f = [i \in 0 .. m |-> IF i = 0 THEN p ELSE AfterPcr(f[i - 1], pcrs[i])]

LEMMA Stamping ==
  ASSUME NEW p \in Paces, NEW pcrs, Len(pcrs) \in Nat, \A i \in 1 .. Len(pcrs) : pcrs[i] \in Pcrs
  PROVE  \E h : /\ set_timestamp_pcr(p, pcrs) = h[Len(pcrs)]
                /\ \A i \in 0 .. Len(pcrs) : h[i] = IF i = 0 THEN p ELSE AfterPcr(h[i - 1], pcrs[i])
<1> DEFINE T == {m \in 0 .. Len(pcrs) :
                   \E f : IsStamping(f, p, pcrs, m) /\ \A i \in 0 .. m : f[i] \in Paces}
<1>1. 0 \in T
  <2>1. PICK g : g = [i \in 0 .. 0 |-> p]
    OBVIOUS
  <2>2. IsStamping(g, p, pcrs, 0) /\ \A i \in 0 .. 0 : g[i] \in Paces
    BY <2>1 DEF IsStamping
  <2> QED  BY <2>2
<1>2. ASSUME NEW m \in 0 .. Len(pcrs), m < Len(pcrs), m \in T
      PROVE  m + 1 \in T
  <2>1. PICK f : IsStamping(f, p, pcrs, m) /\ \A i \in 0 .. m : f[i] \in Paces
    BY <1>2
  <2> DEFINE last == AfterPcr(f[m], pcrs[m + 1])
             g == [i \in 0 .. m + 1 |-> IF i = m + 1 THEN last ELSE f[i]]
  <2>2. \A i \in 0 .. m : f[i] = IF i = 0 THEN p ELSE AfterPcr(f[i - 1], pcrs[i])
    BY <2>1 DEF IsStamping
  <2>3. \A i \in 0 .. m : g[i] = f[i]
    OBVIOUS
  <2>4. g[m + 1] = last /\ m + 1 # 0 /\ m + 1 - 1 = m
    OBVIOUS
  <2>5. \A i \in 0 .. m + 1 : i # m + 1 => i \in 0 .. m /\ (i # 0 => i - 1 \in 0 .. m)
    OBVIOUS
  <2>6. g[m] = f[m]
    BY <2>3
  <2>7. g = [i \in 0 .. m + 1 |-> g[i]]
    OBVIOUS
  <2>8. last \in Paces
    <3>1. f[m] \in Paces
      <4>1. m \in 0 .. m
        OBVIOUS
      <4> QED  BY <2>1, <4>1
    <3>2. pcrs[m + 1] \in Pcrs
      <4>1. m + 1 \in 1 .. Len(pcrs)
        BY <1>2
      <4> QED  BY <4>1
    <3> QED  BY <3>1, <3>2, AfterPcrIs
  <2> HIDE DEF g, last
  <2>9. \A i \in 0 .. m + 1 : g[i] \in Paces
    BY <2>1, <2>3, <2>4, <2>5, <2>8
  <2>10. \A i \in 0 .. m + 1 : g[i] = IF i = 0 THEN p ELSE AfterPcr(g[i - 1], pcrs[i])
    BY <2>2, <2>3, <2>4, <2>5, <2>6 DEF last
  <2>11. IsStamping(g, p, pcrs, m + 1)
    BY <2>7, <2>10 DEF IsStamping
  <2>12. m + 1 \in 0 .. Len(pcrs)
    BY <1>2
  <2> QED  BY <2>9, <2>11, <2>12
<1>3. Len(pcrs) \in T
  <2> HIDE DEF T
  <2>1. \A m \in 0 .. Len(pcrs) : m \in T
    BY <1>1, <1>2, Climbing
  <2>2. Len(pcrs) \in 0 .. Len(pcrs)
    OBVIOUS
  <2> QED  BY <2>1, <2>2
<1>4. PICK f : IsStamping(f, p, pcrs, Len(pcrs)) /\ \A i \in 0 .. Len(pcrs) : f[i] \in Paces
  BY <1>3
<1>5. PICK h : h = CHOOSE g : IsStamping(g, p, pcrs, Len(pcrs))
  OBVIOUS
<1>6. IsStamping(h, p, pcrs, Len(pcrs))
  BY <1>4, <1>5
<1>7. set_timestamp_pcr(p, pcrs) = h[Len(pcrs)]
  BY <1>5, Zenon DEF set_timestamp_pcr, IsStamping
<1>8. \A i \in 0 .. Len(pcrs) : h[i] = IF i = 0 THEN p ELSE AfterPcr(h[i - 1], pcrs[i])
  BY <1>6 DEF IsStamping
<1> QED  BY <1>7, <1>8

LEMMA StampedIs ==
  ASSUME NEW p \in Paces, NEW pcrs, Len(pcrs) \in Nat, \A i \in 1 .. Len(pcrs) : pcrs[i] \in Pcrs
  PROVE  set_timestamp_pcr(p, pcrs) \in Paces
<1>1. PICK h : /\ set_timestamp_pcr(p, pcrs) = h[Len(pcrs)]
               /\ \A i \in 0 .. Len(pcrs) : h[i] = IF i = 0 THEN p ELSE AfterPcr(h[i - 1], pcrs[i])
  BY Stamping
<1> DEFINE U == {m \in 0 .. Len(pcrs) : h[m] \in Paces}
<1>2. 0 \in U
  BY <1>1
<1>3. ASSUME NEW m \in 0 .. Len(pcrs), m < Len(pcrs), m \in U
      PROVE  m + 1 \in U
  <2>1. m + 1 \in 0 .. Len(pcrs) /\ m + 1 \in 1 .. Len(pcrs) /\ m + 1 # 0 /\ m + 1 - 1 = m
    BY <1>3
  <2>2. h[m + 1] = AfterPcr(h[m], pcrs[m + 1])
    BY <1>1, <2>1
  <2>3. h[m] \in Paces /\ pcrs[m + 1] \in Pcrs
    BY <1>3, <2>1
  <2> QED  BY <2>1, <2>2, <2>3, AfterPcrIs
<1>4. Len(pcrs) \in U
  <2> HIDE DEF U
  <2>1. \A m \in 0 .. Len(pcrs) : m \in U
    BY <1>2, <1>3, Climbing
  <2>2. Len(pcrs) \in 0 .. Len(pcrs)
    OBVIOUS
  <2> QED  BY <2>1, <2>2
<1> QED  BY <1>1, <1>4

-----------------------------------------------------------------------------
(***************************************************************************)
(* The invariant.                                                          *)
(***************************************************************************)

(* How many bytes were handed to the filter, and how many of them it is    *)
(* done with.                                                              *)
Handed == position - Len(buf)

Gone == position - Len(buf) - Len(kept)

FileBytes == {file[i] : i \in 1 .. Len(file)}

Given ==
  /\ IsFile(file)
  /\ paced \in {"pcr", "rate", "unlimited"}
  /\ IsClock(clock, file)
  /\ flg_set_eof \in BOOLEAN

(* The filter's remainder and the read buffer are next to each other, and  *)
(* the file is read on behind them.                                        *)
Placed ==
  /\ position \in 0 .. Len(file)
  /\ Handed \in 0 .. position
  /\ Gone \in 0 .. Handed
  /\ buf = Slice(file, Handed, position)
  /\ kept = Slice(file, Gone, Handed)
  /\ Len(buf) <= BlockSize
  /\ Len(kept) < PacketSize

(* What was delivered are parts of what the filter is done with.           *)
Delivery ==
  /\ delivered \in Seq(Blocks)
  /\ \A i \in 1 .. Len(delivered) :
       \E b \in 0 .. Gone : b + PacketSize <= Gone /\ delivered[i] = Slice(file, b, b + PacketSize)
  /\ \A i \in 2 .. Len(delivered) : Before(delivered[i - 1][PacketSize], delivered[i][1])

(* A packet that is whole and whose first byte the filter is done with was *)
(* delivered, if it is not excused.                                        *)
Survival ==
  /\ insync \in BOOLEAN
  /\ insync => Begins(file, Gone)
  /\ \A i \in 1 .. Len(file) :
       IsWhole(file, i) /\ i <= Gone /\ file[i][1] \notin excused =>
         /\ i + PacketSize - 1 <= Gone
         /\ InDelivered(PacketAt(i))

(* Without damage, the filter never has to search.                         *)
Steady ==
  Undamaged =>
    /\ insync
    /\ excused = {}
    /\ kept = <<>>
    /\ Whole(Handed) = Handed

Ending ==
  /\ {eof, n_recv, termflag, running} \subseteq BOOLEAN
  /\ eof => position = Len(file)
  /\ termflag => eof /\ flg_set_eof
  /\ ~running => termflag
  /\ paced = "unlimited" => Len(buf) < PacketSize

(* As long as no drop was counted, the counter is that of the last packet, *)
(* and all before it followed each other.                                  *)
Drops ==
  /\ ts_n_drops \in Nat
  /\ ts_counter \in 0 .. CounterMod
  /\ ts_n_drops = 0 => Tracked(delivered, Len(delivered), ts_counter)
  /\ Undamaged => /\ ts_n_drops = 0
                  /\ ts_counter = IF Gone = 0 THEN NoCounter ELSE file[Gone][1] % CounterMod

Pacing ==
  /\ pace \in Paces
  /\ pcr_kept \in Seq(FileBytes)
  /\ Len(pcr_kept) < PacketSize
  /\ since \in Nat

IInv == Given /\ Placed /\ Delivery /\ Survival /\ Steady /\ Ending /\ Drops /\ Pacing

LEMMA BlockSizeIs ==
  /\ BlockSize \in Nat
  /\ BlockSize > 0
BY InputPathAssumption DEF InputPathAssumption

(* The invariant holds at the beginning.                                   *)
LEMMA InitIs ==
  ASSUME Init
  PROVE  IInv
<1> USE DEF Init
<1>1. PICK input \in Inputs : file = input[1] /\ paced = input[2] /\ clock = input[3]
  OBVIOUS
<1>2. IsInput(file) /\ paced \in {"pcr", "rate", "unlimited"} /\ IsClock(clock, file)
  BY <1>1, InputPathAssumption DEF InputPathAssumption
<1>3. IsFile(file) /\ Len(file) \in Nat
  BY <1>2, FileIs DEF IsFile
<1>4. Given
  BY <1>2, <1>3 DEF Given
<1>5. Len(buf) = 0 /\ Len(kept) = 0 /\ Len(delivered) = 0 /\ Len(pcr_kept) = 0
  BY EmptySeq
<1>6. Handed = 0 /\ Gone = 0 /\ position = 0
  <2>1. position = 0
    OBVIOUS
  <2>2. position - Len(buf) = 0 /\ position - Len(buf) - Len(kept) = 0
    <3>1. PICK u, v : u = Len(buf) /\ v = Len(kept)
      OBVIOUS
    <3>2. position - u = 0 /\ position - u - v = 0
      BY <1>5, <2>1, <3>1
    <3> QED  BY <3>1, <3>2
  <2> QED  BY <2>1, <2>2 DEF Handed, Gone
<1>7. Placed
  <2>1. Slice(file, 0, 0) = <<>>
    BY SliceNone
  <2> QED  BY <1>3, <1>5, <1>6, <2>1, PacketSizeIs, BlockSizeIs DEF Placed
<1>8. Delivery
  <2>1. delivered \in Seq(Blocks)
    BY EmptySeq
  <2> QED  BY <1>5, <2>1 DEF Delivery
<1>9. Survival
  <2>1. insync => Begins(file, Gone)
    BY <1>6 DEF Begins
  <2>2. \A i \in 1 .. Len(file) : ~ (i <= Gone)
    BY <1>6
  <2> QED  BY <2>1, <2>2 DEF Survival
<1>10. Steady
  <2>1. Whole(0) = 0
    BY PacketSizeIs, SMT DEF Whole
  <2> QED  BY <1>6, <2>1 DEF Steady, Undamaged
<1>11. Ending
  BY <1>5, PacketSizeIs DEF Ending
<1>12. Drops
  <2>1. NoCounter \in 0 .. CounterMod
    BY CounterModIs DEF NoCounter
  <2>2. Tracked(delivered, 0, ts_counter)
    BY DEF Tracked
  <2> QED  BY <1>5, <1>6, <2>1, <2>2 DEF Drops
<1>13. Pacing
  <2>1. pace \in Paces
    BY PaceNumbers DEF FirstPace, Paces, Pcrs
  <2>2. pcr_kept \in Seq(FileBytes)
    BY EmptySeq
  <2> QED  BY <1>5, <2>1, <2>2, PacketSizeIs DEF Pacing
<1> QED  BY <1>4, <1>7, <1>8, <1>9, <1>10, <1>11, <1>12, <1>13 DEF IInv

-----------------------------------------------------------------------------
(***************************************************************************)
(* What a turn hands to the filter: d, which is the part of the file from  *)
(* what the filter is done with to e.  Of it, k bytes are skipped and m    *)
(* packets are handed on.                                                  *)
(***************************************************************************)

HandedOn(d, e, k, m, x) ==
  /\ d = Slice(file, Gone, e)
  /\ k = Skip(d)
  /\ m * PacketSize \in Nat
  /\ x = Gone + k + m * PacketSize
  /\ Packets(d, k) \in Seq(Seq(Bytes))
  /\ Len(Packets(d, k)) = m
  /\ AreParts(Packets(d, k), file, Gone + k)
  /\ Remainder(d, k) = Slice(file, x, e)

(* The remainder and what is handed to the filter are one part.            *)
LEMMA HandedOnIs ==
  ASSUME Given, Placed, NEW e \in Handed .. Len(file), NEW out, out = Slice(file, Handed, e)
  PROVE  \E k \in Nat, m \in Nat, x \in Gone .. e :
           e - x < PacketSize /\ HandedOn(kept \o out, e, k, m, x)
<1> USE PacketSizeIs
<1>1. PICK a : a = Gone
  OBVIOUS
<1>2. PICK h : h = Handed
  OBVIOUS
<1>3. /\ file \in Seq(Bytes) /\ Len(file) \in Nat
      /\ a \in 0 .. Len(file) /\ h \in a .. Len(file) /\ e \in h .. Len(file) /\ e \in a .. Len(file)
  BY <1>1, <1>2 DEF Given, Placed, IsFile
<1>4. kept \o out = Slice(file, a, e)
  <2>1. kept = Slice(file, a, h) /\ out = Slice(file, h, e)
    BY <1>1, <1>2 DEF Placed
  <2> QED  BY <1>3, <2>1, SliceJoin
<1>5. PICK d : d = Slice(file, a, e)
  OBVIOUS
<1>6. Len(d) = e - a /\ e - a \in Nat
  <2>1. IsPart(d, file, a, e)
    BY <1>3, <1>5, PartIs
  <2> QED  BY <1>3, <2>1 DEF IsPart
<1>7. PICK k : k = Skip(d)
  OBVIOUS
<1>8. k \in Skips /\ (k = 0 \/ k < e - a)
  BY <1>6, <1>7, SkipIs
<1>9. k \in Nat /\ k \in 0 .. e - a
  BY <1>6, <1>8 DEF Skips
<1>10. PICK m \in Nat, r \in 0 .. PacketSize - 1 : IsCut(Bytes, file, a, e, d, k, m, r)
  BY <1>3, <1>5, <1>9, PacketsIs
<1>10a. m * PacketSize \in Nat /\ e - a - k = m * PacketSize + r
  BY <1>10 DEF IsCut
<1>11. PICK x : x = a + k + m * PacketSize
  OBVIOUS
<1>12. x \in a .. e /\ e - x < PacketSize
  BY <1>3, <1>9, <1>10a, <1>11
<1>13. HandedOn(d, e, k, m, x)
  <2>1. /\ m * PacketSize \in Nat
        /\ Packets(d, k) \in Seq(Seq(Bytes))
        /\ Len(Packets(d, k)) = m
        /\ AreParts(Packets(d, k), file, a + k)
        /\ Remainder(d, k) = Slice(file, a + k + m * PacketSize, e)
    BY <1>10 DEF IsCut
  <2> QED  BY <1>1, <1>5, <1>7, <1>11, <2>1, Zenon DEF HandedOn
<1>14. kept \o out = d
  BY <1>4, <1>5
<1>15. x \in Gone .. e
  BY <1>1, <1>12
<1> QED  BY <1>9, <1>12, <1>13, <1>14, <1>15

(* The bytes of a block of the file.                                       *)
LEMMA BlockAt ==
  ASSUME NEW f \in Seq(Bytes), NEW b \in Nat, b + PacketSize <= Len(f)
  PROVE  /\ Slice(f, b, b + PacketSize) \in Blocks
         /\ \A k \in 1 .. PacketSize : Slice(f, b, b + PacketSize)[k] = f[b + k]
         /\ Slice(f, b, b + PacketSize)[1] = f[b + 1]
         /\ Slice(f, b, b + PacketSize)[PacketSize] = f[b + PacketSize]
<1> USE PacketSizeIs
<1>1. PICK c : c = b + PacketSize
  OBVIOUS
<1>2. b \in 0 .. Len(f) /\ c \in b .. Len(f) /\ c - b = PacketSize
  <2>1. Len(f) \in Nat
    OBVIOUS
  <2> QED  BY <1>1, <2>1
<1>3. /\ Slice(f, b, c) \in Seq(Bytes)
      /\ Len(Slice(f, b, c)) = c - b
      /\ \A k \in 1 .. c - b : Slice(f, b, c)[k] = f[b + k]
  BY <1>2, SliceIs
<1>4. 1 \in 1 .. PacketSize /\ PacketSize \in 1 .. PacketSize
  OBVIOUS
<1> QED  BY <1>1, <1>2, <1>3, <1>4 DEF Blocks

(* Where in f a packet is that was handed on.                              *)
IsAt(packets, f, x, i, b) ==
  /\ b = x + (i - 1) * PacketSize
  /\ packets[i] = Slice(f, b, b + PacketSize)

LEMMA PartAt ==
  ASSUME NEW f \in Seq(Bytes), NEW x \in Nat, NEW packets \in Seq(Seq(Bytes)),
         AreParts(packets, f, x), NEW y \in Nat, y = x + Len(packets) * PacketSize, y <= Len(f),
         NEW i \in 1 .. Len(packets)
  PROVE  \E b \in x .. y : /\ b + PacketSize <= y
                           /\ IsAt(packets, f, x, i, b)
                           /\ packets[i] \in Blocks
<1> USE PacketSizeIs
<1>1. PICK n : n = (i - 1) * PacketSize
  OBVIOUS
<1>2. n \in Nat /\ x + n + PacketSize <= y /\ packets[i] = Slice(f, x + n, x + n + PacketSize)
  BY <1>1 DEF AreParts
<1>3. PICK b : b = x + n
  OBVIOUS
<1>4. b \in Nat /\ b + PacketSize <= Len(f) /\ b \in x .. y /\ b + PacketSize <= y
  <2>1. Len(f) \in Nat
    OBVIOUS
  <2> QED  BY <1>2, <1>3, <2>1
<1>5. Slice(f, b, b + PacketSize) \in Blocks
  BY <1>4, BlockAt
<1>6. IsAt(packets, f, x, i, b)
  BY <1>1, <1>2, <1>3 DEF IsAt
<1> QED  BY <1>2, <1>3, <1>4, <1>5, <1>6

LEMMA BlocksAre ==
  ASSUME NEW f \in Seq(Bytes), NEW x \in Nat, NEW packets \in Seq(Seq(Bytes)),
         AreParts(packets, f, x), NEW y \in Nat, y = x + Len(packets) * PacketSize, y <= Len(f)
  PROVE  packets \in Seq(Blocks)
<1>1. \A i \in 1 .. Len(packets) : packets[i] \in Blocks
  <2> SUFFICES ASSUME NEW i \in 1 .. Len(packets) PROVE packets[i] \in Blocks
    OBVIOUS
  <2> QED  BY PartAt
<1>2. PICK p, T, n : p = packets /\ T = Blocks /\ n = Len(packets)
  OBVIOUS
<1>3. n \in Nat /\ DOMAIN p = 1 .. n /\ p = [i \in DOMAIN p |-> p[i]]
  BY <1>2, LenProperties
<1>4. \A i \in 1 .. n : p[i] \in T
  BY <1>1, <1>2
<1>5. p \in [1 .. n -> T]
  BY <1>3, <1>4
<1>6. p \in Seq(T)
  BY <1>3, <1>5
<1> QED  BY <1>2, <1>6

(* The call of the filter.                                                 *)
Filtered(e, k, m, x) ==
  LET d == Slice(file, Gone, e)
      b == Slice(file, Prior(Gone), Gone)
  IN  /\ HandedOn(d, e, k, m, x)
      /\ kept' = Slice(file, x, e)
      /\ delivered' = delivered \o Packets(d, k)
      /\ ts_n_drops' = CountedAll(Packets(d, k)).drops
      /\ ts_counter' = CountedAll(Packets(d, k)).counter
      /\ excused' = excused \cup ExcusedBy(b, d)
      /\ insync' = (Holes(Slice(file, Prior(Gone), e)) = {} /\ (insync \/ FindsPackets(d)))

(* What a call of the filter does, in terms of parts of the file.          *)
LEMMA FilteredIs ==
  ASSUME Given, Placed, NEW e \in Handed .. Len(file), NEW out, out = Slice(file, Handed, e),
         Filter(out)
  PROVE  \E k \in Nat, m \in Nat, x \in Gone .. e : e - x < PacketSize /\ Filtered(e, k, m, x)
<1>1. PICK k \in Nat, m \in Nat, x \in Gone .. e :
        e - x < PacketSize /\ HandedOn(kept \o out, e, k, m, x)
  BY HandedOnIs
<1>2. PICK d : d = kept \o out
  OBVIOUS
<1>3. PICK a : a = Gone
  OBVIOUS
<1>4. d = Slice(file, a, e) /\ k = Skip(d) /\ Remainder(d, k) = Slice(file, x, e)
  BY <1>1, <1>2, <1>3, Zenon DEF HandedOn
<1>5. file \in Seq(Bytes) /\ a \in 0 .. Len(file) /\ e \in a .. Len(file)
  BY <1>3 DEF Given, Placed, IsFile
<1>6. PICK b : b = SubSeq(file, Max({a, 1}), a)
  OBVIOUS
<1>7. b = Slice(file, Prior(a), a) /\ b \o d = Slice(file, Prior(a), e)
  BY <1>4, <1>5, <1>6, BeforeIs
<1>8. /\ kept' = Remainder(d, Skip(d))
      /\ delivered' = delivered \o Packets(d, Skip(d))
      /\ ts_n_drops' = CountedAll(Packets(d, Skip(d))).drops
      /\ ts_counter' = CountedAll(Packets(d, Skip(d))).counter
      /\ excused' = excused \cup ExcusedBy(b, d)
      /\ insync' = (Holes(b \o d) = {} /\ (insync \/ FindsPackets(d)))
  BY <1>2, <1>3, <1>6, Zenon DEF Filter, Gone
<1>9. Filtered(e, k, m, x)
  BY <1>1, <1>2, <1>3, <1>4, <1>7, <1>8, Zenon DEF Filtered
<1> QED  BY <1>1, <1>9

(* A block is before another that begins behind it.                        *)
LEMMA BlockOrder ==
  ASSUME NEW f, IsFile(f), NEW b \in Nat, NEW c \in Nat, b + PacketSize <= c, c + PacketSize <= Len(f)
  PROVE  Before(Slice(f, b, b + PacketSize)[PacketSize], Slice(f, c, c + PacketSize)[1])
<1> USE PacketSizeIs
<1>1. f \in Seq(Bytes) /\ Len(f) \in Nat
  BY DEF IsFile
<1>2. b + PacketSize <= Len(f)
  BY <1>1
<1>3. /\ Slice(f, b, b + PacketSize)[PacketSize] = f[b + PacketSize]
      /\ Slice(f, c, c + PacketSize)[1] = f[c + 1]
  BY <1>1, <1>2, BlockAt
<1>4. PICK i, j : i = b + PacketSize /\ j = c + 1
  OBVIOUS
<1>5. i \in 1 .. Len(f) /\ j \in 1 .. Len(f) /\ i < j
  BY <1>1, <1>4
<1>6. Before(f[i], f[j])
  BY <1>5 DEF IsFile, Sorted
<1> QED  BY <1>3, <1>4, <1>6

(* What is handed on are parts of the file that follow each other.         *)
NewParts(new, f, a, m, x) ==
  /\ new \in Seq(Blocks)
  /\ Len(new) = m
  /\ \A i \in 1 .. m :
       \E b \in a .. x : b + PacketSize <= x /\ new[i] = Slice(f, b, b + PacketSize)
  /\ \A i \in 2 .. m : Before(new[i - 1][PacketSize], new[i][1])

(* The packets that are handed on are blocks of the file in order.         *)
LEMMA NewPartsAre ==
  ASSUME Given, Placed, NEW e \in Handed .. Len(file), NEW k \in Nat, NEW m \in Nat,
         NEW x \in Gone .. e, NEW d, HandedOn(d, e, k, m, x)
  PROVE  NewParts(Packets(d, k), file, Gone, m, x)
<1> USE PacketSizeIs
<1>1. PICK f, a, new, c : f = file /\ a = Gone /\ new = Packets(d, k) /\ c = Gone + k
  OBVIOUS
<1>2. /\ IsFile(f) /\ f \in Seq(Bytes) /\ Len(f) \in Nat
      /\ a \in Nat /\ x \in Nat /\ a <= x /\ x <= Len(f) /\ c \in Nat /\ c >= a
  BY <1>1 DEF Given, Placed, IsFile
<1>3. /\ new \in Seq(Seq(Bytes)) /\ Len(new) = m /\ AreParts(new, f, c)
      /\ x = c + m * PacketSize
  BY <1>1, Zenon DEF HandedOn
<1>4. \A i \in 1 .. m : \E b \in c .. x : /\ b + PacketSize <= x
                                         /\ IsAt(new, f, c, i, b)
                                         /\ new[i] \in Blocks
  BY <1>2, <1>3, PartAt
<1>5. new \in Seq(Blocks)
  BY <1>2, <1>3, BlocksAre
<1>6. \A i \in 1 .. m : \E b \in a .. x : b + PacketSize <= x /\ new[i] = Slice(f, b, b + PacketSize)
  <2> SUFFICES ASSUME NEW i \in 1 .. m
               PROVE  \E b \in a .. x : b + PacketSize <= x /\ new[i] = Slice(f, b, b + PacketSize)
    OBVIOUS
  <2>1. PICK b \in c .. x : b + PacketSize <= x /\ IsAt(new, f, c, i, b)
    BY <1>4
  <2>2. b \in a .. x
    BY <1>2
  <2> QED  BY <2>1, <2>2 DEF IsAt
<1>7. ASSUME NEW i \in 2 .. m PROVE Before(new[i - 1][PacketSize], new[i][1])
  <2>1. PICK j : j = i - 1
    OBVIOUS
  <2>2. j \in 1 .. m /\ i \in 1 .. m
    BY <2>1
  <2>3. PICK b \in c .. x : b + PacketSize <= x /\ IsAt(new, f, c, j, b)
    BY <1>4, <2>2
  <2>4. PICK z \in c .. x : z + PacketSize <= x /\ IsAt(new, f, c, i, z)
    BY <1>4, <2>2
  <2>5. b = c + (j - 1) * PacketSize /\ z = c + (i - 1) * PacketSize
    BY <2>3, <2>4 DEF IsAt
  <2>6. (i - 1) * PacketSize = (j - 1) * PacketSize + PacketSize
    <3>1. PICK n \in Int : n = j - 1
      BY <2>1
    <3>2. (n + 1) * PacketSize = n * PacketSize + PacketSize
      BY SMT
    <3>3. i - 1 = n + 1
      BY <2>1, <3>1
    <3> QED  BY <3>1, <3>2, <3>3
  <2>7. (j - 1) * PacketSize \in Int
    <3>1. j - 1 \in Int
      BY <2>2
    <3> QED  BY <3>1, SMT
  <2>8. z = b + PacketSize
    BY <1>2, <2>5, <2>6, <2>7, SMTT(30)
  <2>9. b \in Nat /\ z \in Nat /\ b + PacketSize <= z /\ z + PacketSize <= Len(f)
    BY <1>2, <2>4, <2>8
  <2>10. Before(Slice(f, b, b + PacketSize)[PacketSize], Slice(f, z, z + PacketSize)[1])
    BY <1>2, <2>9, BlockOrder
  <2> QED  BY <2>1, <2>3, <2>4, <2>10 DEF IsAt
<1> QED  BY <1>1, <1>3, <1>5, <1>6, <1>7 DEF NewParts

Joined(w, s, t) ==
  /\ w \in Seq(Blocks)
  /\ Len(w) = Len(s) + Len(t)
  /\ \A i \in 1 .. Len(s) : w[i] = s[i]
  /\ \A i \in 1 .. Len(t) : w[Len(s) + i] = t[i]

LEMMA JoinedIs ==
  ASSUME NEW s \in Seq(Blocks), NEW t \in Seq(Blocks), NEW w, w = s \o t
  PROVE  Joined(w, s, t)
<1>1. /\ w \in Seq(Blocks) /\ Len(w) = Len(s) + Len(t)
      /\ \A i \in 1 .. Len(s) + Len(t) : w[i] = IF i <= Len(s) THEN s[i] ELSE t[i - Len(s)]
  BY ConcatProperties
<1>2. Len(s) \in Nat /\ Len(t) \in Nat
  OBVIOUS
<1> QED  BY <1>1, <1>2 DEF Joined

(* What is delivered stays in order.                                       *)
LEMMA DeliveryStep ==
  ASSUME Given, Placed, Delivery, NEW e \in Handed .. Len(file), NEW k \in Nat, NEW m \in Nat,
         NEW x \in Gone .. e, Filtered(e, k, m, x), file' = file, Gone' = x
  PROVE  Delivery'
<1> USE PacketSizeIs
<1>1. PICK d : d = Slice(file, Gone, e)
  OBVIOUS
<1>2. HandedOn(d, e, k, m, x) /\ delivered' = delivered \o Packets(d, k)
  BY <1>1, Zenon DEF Filtered
<1>3. PICK f, a, old, n, new : /\ f = file /\ a = Gone /\ new = Packets(d, k)
                              /\ old = delivered /\ n = Len(delivered)
  OBVIOUS
<1>4. NewParts(new, f, a, m, x)
  BY <1>2, <1>3, NewPartsAre
<1>5. IsFile(f) /\ f \in Seq(Bytes) /\ Len(f) \in Nat /\ a \in Nat /\ x \in Nat /\ a <= x /\ x <= Len(f)
  BY <1>3 DEF Given, Placed, IsFile
<1>6. /\ old \in Seq(Blocks)
      /\ \A i \in 1 .. n : \E b \in 0 .. a : b + PacketSize <= a /\ old[i] = Slice(f, b, b + PacketSize)
      /\ \A i \in 2 .. n : Before(old[i - 1][PacketSize], old[i][1])
  BY <1>3 DEF Delivery
<1>7. PICK all : all = old \o new
  OBVIOUS
<1>8. n \in Nat /\ Len(old) = n /\ new \in Seq(Blocks) /\ Len(new) = m
  BY <1>3, <1>4, <1>6 DEF NewParts
<1>9. /\ all \in Seq(Blocks) /\ Len(all) = n + m
      /\ \A i \in 1 .. n : all[i] = old[i]
      /\ \A i \in 1 .. m : all[n + i] = new[i]
  <2>1. Joined(all, old, new)
    BY <1>6, <1>7, <1>8, JoinedIs
  <2> QED  BY <1>8, <2>1 DEF Joined
<1>10. ASSUME NEW i \in 1 .. n + m
       PROVE  \E b \in 0 .. x : b + PacketSize <= x /\ all[i] = Slice(f, b, b + PacketSize)
  <2>1. CASE i <= n
    <3>1. i \in 1 .. n
      BY <1>8, <2>1
    <3>2. PICK b \in 0 .. a : b + PacketSize <= a /\ old[i] = Slice(f, b, b + PacketSize)
      BY <1>6, <3>1
    <3>3. b \in 0 .. x /\ b + PacketSize <= x
      BY <1>5, <3>2
    <3> QED  BY <1>9, <3>1, <3>2, <3>3
  <2>2. CASE i > n
    <3>1. PICK j : j = i - n
      OBVIOUS
    <3>2. j \in 1 .. m /\ i = n + j
      BY <1>8, <2>2, <3>1
    <3>3. PICK b \in a .. x : b + PacketSize <= x /\ new[j] = Slice(f, b, b + PacketSize)
      BY <1>4, <3>2 DEF NewParts
    <3>4. b \in 0 .. x
      BY <1>5
    <3> QED  BY <1>9, <3>2, <3>3, <3>4
  <2> QED  BY <1>8, <2>1, <2>2
<1>11. ASSUME NEW i \in 2 .. n + m PROVE Before(all[i - 1][PacketSize], all[i][1])
  <2>1. PICK h : h = i - 1
    OBVIOUS
  <2>2. CASE i <= n
    <3>1. i \in 2 .. n /\ h \in 1 .. n /\ i \in 1 .. n
      BY <1>8, <2>1, <2>2
    <3> QED  BY <1>6, <1>9, <2>1, <3>1
  <2>3. CASE h = n
    <3>1. h \in 1 .. n /\ 1 \in 1 .. m /\ i = n + 1
      BY <1>8, <2>1, <2>3
    <3>2. PICK b \in 0 .. a : b + PacketSize <= a /\ old[h] = Slice(f, b, b + PacketSize)
      BY <1>6, <3>1
    <3>3. PICK c \in a .. x : c + PacketSize <= x /\ new[1] = Slice(f, c, c + PacketSize)
      BY <1>4, <3>1 DEF NewParts
    <3>4. b \in Nat /\ c \in Nat /\ b + PacketSize <= c /\ c + PacketSize <= Len(f)
      BY <1>5, <3>2, <3>3
    <3>5. Before(old[h][PacketSize], new[1][1])
      BY <1>5, <3>2, <3>3, <3>4, BlockOrder
    <3> QED  BY <1>9, <2>1, <3>1, <3>5
  <2>4. CASE h > n
    <3>1. PICK j, g : j = i - n /\ g = j - 1
      OBVIOUS
    <3>2. j \in 2 .. m /\ j \in 1 .. m /\ g \in 1 .. m /\ i = n + j /\ h = n + g
      BY <1>8, <2>1, <2>4, <3>1
    <3>3. Before(new[g][PacketSize], new[j][1])
      BY <1>4, <3>1, <3>2 DEF NewParts
    <3> QED  BY <1>9, <2>1, <3>2, <3>3
  <2>5. i <= n \/ h = n \/ h > n
    BY <1>8, <2>1
  <2> QED  BY <2>2, <2>3, <2>4, <2>5
<1>12. delivered' = all /\ Len(delivered') = n + m
  BY <1>2, <1>3, <1>7, <1>9
<1>13. \A i \in 1 .. Len(delivered') :
         \E b \in 0 .. Gone' : b + PacketSize <= Gone' /\ delivered'[i] = Slice(file', b, b + PacketSize)
  BY <1>3, <1>10, <1>12
<1>14. \A i \in 2 .. Len(delivered') : Before(delivered'[i - 1][PacketSize], delivered'[i][1])
  BY <1>11, <1>12
<1> QED  BY <1>9, <1>12, <1>13, <1>14 DEF Delivery, Slice

(* The filter loses nothing that is not excused.                           *)
LEMMA SurvivalStep ==
  ASSUME Given, Placed, Delivery, Survival, NEW e \in Handed .. Len(file), NEW k \in Nat, NEW m \in Nat,
         NEW x \in Gone .. e, e - x < PacketSize, Filtered(e, k, m, x), file' = file, Gone' = x
  PROVE  Survival'
<1> USE PacketSizeIs
<1>1. PICK f, a, d, b, c : /\ f = file /\ a = Gone /\ d = Slice(file, Gone, e)
                           /\ b = Slice(file, Prior(Gone), Gone) /\ c = Slice(file, Prior(Gone), e)
  OBVIOUS
<1>2. /\ HandedOn(d, e, k, m, x)
      /\ delivered' = delivered \o Packets(d, k)
      /\ excused' = excused \cup ExcusedBy(b, d)
      /\ insync' = (Holes(c) = {} /\ (insync \/ FindsPackets(d)))
  BY <1>1, Zenon DEF Filtered
<1>3. /\ IsFile(f) /\ f \in Seq(Bytes) /\ Len(f) \in Nat
      /\ a \in 0 .. Len(f) /\ e \in a .. Len(f) /\ x \in a .. e
  BY <1>1 DEF Given, Placed, IsFile
<1>4. k = Skip(d) /\ x = a + k + m * PacketSize /\ m * PacketSize \in Nat
      /\ d = Slice(f, a, e) /\ b = Slice(f, Prior(a), a) /\ c = Slice(f, Prior(a), e)
  BY <1>1, <1>2, Zenon DEF HandedOn
<1>5. insync \in BOOLEAN /\ (insync => Begins(f, a))
  BY <1>1 DEF Survival
<1>6. insync' \in BOOLEAN
  BY <1>2, Zenon
<1>7. ASSUME insync' PROVE Begins(f, x)
  <2>1. Holes(c) = {} /\ (Begins(f, a) \/ FindsPackets(d))
    BY <1>2, <1>5, <1>7, Zenon
  <2>2. PICK p : p = Prior(a)
    OBVIOUS
  <2>3. p \in 0 .. Len(f) /\ e \in p .. Len(f)
    BY <1>3, <2>2 DEF Prior
  <2>4. Straight(f, p, e)
    BY <1>3, <1>4, <2>1, <2>2, <2>3, NoHoles
  <2>5. GoesOn(f, a + Skip(d), e)
    BY <1>3, <1>4, <2>1, <2>2, <2>4, KeepsStep
  <2>6. PICK r : r = e - x
    OBVIOUS
  <2>7. r \in 0 .. PacketSize - 1 /\ e - (a + k) = m * PacketSize + r
    <3>1. PICK n \in Nat : n = m * PacketSize
      BY <1>4
    <3>2. x = a + k + n
      BY <1>4, <3>1
    <3> QED  BY <1>3, <2>6, <3>1, <3>2
  <2> QED  BY <1>4, <2>5, <2>7 DEF GoesOn
<1>8. ASSUME NEW i \in 1 .. Len(f), IsWhole(f, i), i <= x, f[i][1] \notin excused'
      PROVE  i + PacketSize - 1 <= x /\ \E j \in DOMAIN delivered' : delivered'[j] = SubSeq(f, i, i + PacketSize - 1)
  <2>1. PICK new, n : new = Packets(d, k) /\ n = Len(delivered)
    OBVIOUS
  <2>2. NewParts(new, f, a, m, x)
    BY <1>1, <1>2, <2>1, NewPartsAre
  <2>3. delivered \in Seq(Blocks) /\ n \in Nat /\ new \in Seq(Blocks) /\ Len(new) = m
    BY <2>1, <2>2 DEF Delivery, NewParts
  <2>4. /\ DOMAIN delivered = 1 .. n /\ DOMAIN delivered' = 1 .. n + m
        /\ \A j \in 1 .. n : delivered'[j] = delivered[j]
        /\ \A j \in 1 .. m : delivered'[n + j] = new[j]
    <3>1. PICK old, all : old = delivered /\ all = old \o new
      OBVIOUS
    <3>2. Joined(all, old, new)
      BY <2>3, <3>1, JoinedIs
    <3>3. delivered' = all
      BY <1>2, <2>1, <3>1
    <3> QED  BY <2>1, <2>3, <3>1, <3>2, <3>3 DEF Joined
  <2>5. CASE i <= a
    <3>1. f[i][1] \notin excused
      BY <1>2, <1>8
    <3>2. i + PacketSize - 1 <= a /\ InDelivered(PacketAt(i))
      BY <1>1, <1>8, <2>5, <3>1 DEF Survival
    <3>3. PICK j \in 1 .. n : delivered[j] = SubSeq(f, i, i + PacketSize - 1)
      BY <1>1, <2>4, <3>2 DEF InDelivered, PacketAt
    <3>4. j \in 1 .. n + m
      BY <2>3
    <3> QED  BY <1>3, <2>4, <3>2, <3>3, <3>4, SMTT(30)
  <2>6. CASE a < i
    <3>1. f[i][1] \notin ExcusedBy(b, d)
      BY <1>2, <1>8
    <3>2. \E j \in 1 .. m : i = PlaceOf(a + Skip(d), j) + 1 /\ i + PacketSize - 1 <= x
      <4>1. x = Behind(a + Skip(d), m) /\ x <= e
        BY <1>3, <1>4 DEF Behind
      <4>2. IsFile(f) /\ a \in 0 .. Len(f) /\ e \in a .. Len(f) /\ m \in Nat
        BY <1>3
      <4>3. d = Slice(f, a, e) /\ b = Slice(f, Prior(a), a) /\ (insync => Begins(f, a))
        BY <1>4, <1>5, Zenon
      <4>4. IsWhole(f, i) /\ a < i /\ i <= x
        BY <1>8, <2>6
      <4> QED  BY <3>1, <4>1, <4>2, <4>3, <4>4, FilterFinds, SMTT(60)
    <3>3. PICK j \in 1 .. m : i = PlaceOf(a + k, j) + 1 /\ i + PacketSize - 1 <= x
      BY <1>4, <3>2
    <3>4. PICK w : w = PlaceOf(a + k, j) /\ w = a + k + (j - 1) * PacketSize
      BY DEF PlaceOf
    <3>5. new[j] = Slice(f, w, w + PacketSize)
      <4>1. AreParts(Packets(d, k), file, Gone + k) /\ Len(Packets(d, k)) = m
        BY <1>2, Zenon DEF HandedOn
      <4>2. AreParts(new, f, a + k) /\ Len(new) = m
        BY <1>1, <2>1, <4>1
      <4> QED  BY <3>4, <4>2 DEF AreParts
    <3>6. w \in Int
      <4>1. (j - 1) * PacketSize \in Int
        BY SMT
      <4> QED  BY <1>3, <3>4, <4>1
    <3>7. w + 1 = i /\ w + PacketSize = i + PacketSize - 1
      BY <3>3, <3>4, <3>6
    <3>8. delivered'[n + j] = SubSeq(f, i, i + PacketSize - 1) /\ n + j \in 1 .. n + m
      <4>1. new[j] = SubSeq(f, i, i + PacketSize - 1)
        BY <3>5, <3>7, Zenon DEF Slice
      <4>2. n + j \in 1 .. n + m
        BY <2>3
      <4> QED  BY <2>4, <4>1, <4>2
    <3> QED  BY <2>4, <3>3, <3>8
  <2> QED  BY <1>3, <2>5, <2>6
<1>9. f = file'
  BY <1>1
<1>10. \A i \in 1 .. Len(f) :
         IsWhole(f, i) /\ i <= x /\ f[i][1] \notin excused' =>
           /\ i + PacketSize - 1 <= x
           /\ \E j \in DOMAIN delivered' : delivered'[j] = SubSeq(f, i, i + PacketSize - 1)
  BY <1>8
<1> QED  BY <1>6, <1>7, <1>9, <1>10 DEF Survival, InDelivered, PacketAt

(* Without damage, the filter is given whole packets and hands them on.    *)
LEMMA WholeOf ==
  ASSUME NEW n \in Nat
  PROVE  Whole(n) = n <=> \E q \in Nat : n = Behind(0, q)
<1> USE PacketSizeIs
<1>1. PICK p \in Nat, r \in 0 .. PacketSize - 1 :
        n = p * PacketSize + r /\ Whole(n) = p * PacketSize /\ p * PacketSize \in Nat
  BY WholeIs
<1>2. ASSUME Whole(n) = n PROVE \E q \in Nat : n = Behind(0, q)
  <2>1. n = Behind(0, p)
    BY <1>1, <1>2 DEF Behind
  <2> QED  BY <2>1
<1>3. ASSUME NEW q \in Nat, n = Behind(0, q) PROVE Whole(n) = n
  <2>1. q * PacketSize \in Nat
    BY SMT
  <2>2. p * PacketSize + r = q * PacketSize + 0 /\ 0 \in 0 .. PacketSize - 1
    BY <1>1, <1>3, <2>1 DEF Behind
  <2>3. r = 0
    BY <2>2, Multiples
  <2> QED  BY <1>1, <2>3
<1> QED  BY <1>2, <1>3

LEMMA UndamagedIs ==
  ASSUME Given, Undamaged
  PROVE  Straight(file, 0, Len(file)) /\ file[1][2] = 0
<1>1. \A i \in 1 .. Len(file) - 1 : IsNext(file[i], file[i + 1])
  BY DEF Undamaged, Holes
<1>2. \A i \in 0 + 1 .. Len(file) - 1 : i \in 1 .. Len(file) - 1
  OBVIOUS
<1> QED  BY <1>1, <1>2 DEF Straight, Undamaged

(* In step and without damage, nothing is skipped or kept.                 *)
LEMMA SteadyFacts ==
  ASSUME Given, Placed, Survival, Steady, Undamaged,
         NEW q \in Nat, NEW e \in Handed .. Len(file), e = Behind(Handed, q),
         NEW k \in Nat, NEW m \in Nat, NEW x \in Gone .. e, e - x < PacketSize, Filtered(e, k, m, x)
  PROVE  /\ Gone = Handed
         /\ k = 0 /\ m = q /\ x = e
         /\ Holes(Slice(file, Prior(Gone), e)) = {}
         /\ Slice(file, Prior(Gone), Gone) \o Slice(file, Gone, e) = Slice(file, Prior(Gone), e)
<1> USE PacketSizeIs
<1>1. PICK f, a, d : f = file /\ a = Gone /\ d = Slice(file, Gone, e)
  OBVIOUS
<1>2. HandedOn(d, e, k, m, x)
  BY <1>1, Zenon DEF Filtered
<1>3. /\ IsFile(f) /\ f \in Seq(Bytes) /\ Len(f) \in Nat
      /\ a \in 0 .. Len(f) /\ e \in a .. Len(f) /\ x \in a .. e
  <2>1. IsFile(f)
    BY <1>1, Zenon DEF Given
  <2>2. f \in Seq(Bytes) /\ Len(f) \in Nat
    BY <2>1, LenProperties DEF IsFile
  <2>3. Gone \in Nat /\ Gone <= Handed /\ x \in Gone .. e
    BY DEF Placed
  <2>4. PICK w \in Nat : w = Len(f)
    BY <2>2
  <2>5. e \in Handed .. w /\ Handed \in Nat /\ a \in Nat /\ a <= Handed /\ x \in a .. e
    BY <1>1, <2>3, <2>4 DEF Placed
  <2>6. a \in 0 .. w /\ e \in a .. w
    BY <2>5
  <2> QED  BY <2>1, <2>2, <2>4, <2>5, <2>6
<1>4. a = Handed /\ a \in Nat
  <2>1. Len(kept) = 0
    BY EmptySeq DEF Steady
  <2>2. Gone = Handed - Len(kept) /\ Handed \in Nat
    BY DEF Gone, Handed, Placed
  <2> QED  BY <1>1, <2>1, <2>2
<1>5. PICK p : p = Prior(a)
  OBVIOUS
<1>6. p \in 0 .. Len(f) /\ e \in p .. Len(f) /\ a \in p .. Len(f) /\ p \in Nat
  BY <1>3, <1>5 DEF Prior
<1>7. Straight(f, p, e)
  <2>1. Straight(f, 0, Len(f))
    BY <1>1, UndamagedIs
  <2>2. 0 \in Nat /\ Len(f) \in Nat /\ p \in Nat /\ e \in Nat /\ 0 <= p /\ e <= Len(f)
    BY <1>3, <1>6
  <2> QED  BY <2>1, <2>2, StraightPart
<1>8. Begins(f, a)
  BY <1>1 DEF Survival, Steady
<1>9. k = 0
  <2>1. Skip(d) = 0
    BY <1>1, <1>3, <1>5, <1>7, <1>8, KeepsStep
  <2> QED  BY <1>2, <2>1, Zenon DEF HandedOn
<1>10. m = q /\ x = e
  <2>1. PICK u, v : u = m * PacketSize /\ v = q * PacketSize
    OBVIOUS
  <2>2. u \in Nat /\ v \in Nat
    BY <2>1, SMT
  <2>3. x = a + k + u /\ e = a + v
    <3>1. x = a + k + m * PacketSize
      BY <1>1, <1>2, Zenon DEF HandedOn
    <3>2. e = a + q * PacketSize
      BY <1>4, Zenon DEF Behind
    <3> QED  BY <2>1, <3>1, <3>2
  <2>4. PICK r : r = e - x
    OBVIOUS
  <2>5. v + 0 = u + r /\ r \in 0 .. PacketSize - 1 /\ 0 \in 0 .. PacketSize - 1
    BY <1>3, <1>4, <1>9, <2>2, <2>3, <2>4
  <2>6. q * PacketSize + 0 = m * PacketSize + r
    BY <2>1, <2>5
  <2>7. q = m /\ r = 0
    BY <2>5, <2>6, Multiples
  <2> QED  BY <1>3, <1>4, <1>9, <2>1, <2>2, <2>3, <2>7
<1>11. Holes(Slice(f, p, e)) = {}
  BY <1>3, <1>6, <1>7, NoHoles
<1>12. Slice(f, p, a) \o Slice(f, a, e) = Slice(f, p, e)
  BY <1>3, <1>6, SliceJoin
<1> QED  BY <1>1, <1>4, <1>5, <1>9, <1>10, <1>11, <1>12

(* Without damage, the filter stays in step.                               *)
LEMMA SteadyStep ==
  ASSUME Given, Placed, Survival, Steady,
         NEW q \in Nat, NEW e \in Handed .. Len(file), e = Behind(Handed, q),
         NEW k \in Nat, NEW m \in Nat, NEW x \in Gone .. e, e - x < PacketSize, Filtered(e, k, m, x),
         file' = file, Handed' = e
  PROVE  Steady'
<1> USE PacketSizeIs
<1> SUFFICES ASSUME Undamaged
             PROVE  insync' /\ excused' = {} /\ kept' = <<>> /\ Whole(e) = e
  BY DEF Steady, Undamaged
<1>1. PICK b, d, c : /\ b = Slice(file, Prior(Gone), Gone) /\ d = Slice(file, Gone, e)
                     /\ c = Slice(file, Prior(Gone), e)
  OBVIOUS
<1>2. /\ kept' = Slice(file, x, e)
      /\ excused' = excused \cup ExcusedBy(b, d)
      /\ insync' = (Holes(c) = {} /\ (insync \/ FindsPackets(d)))
  BY <1>1, Zenon DEF Filtered
<1>3. x = e /\ Holes(c) = {} /\ b \o d = c
  BY <1>1, SteadyFacts
<1>4. insync /\ excused = {} /\ Whole(Handed) = Handed
  BY DEF Steady
<1>5. ExcusedBy(b, d) = {}
  BY <1>3, <1>4 DEF ExcusedBy
<1>6. kept' = <<>>
  BY <1>2, <1>3, SliceNone
<1>7. Whole(e) = e
  <2>1. Handed \in Nat
    BY DEF Placed
  <2>2. PICK p \in Nat : Handed = Behind(0, p)
    BY <1>4, <2>1, WholeOf
  <2>3. PICK u, v : u = p * PacketSize /\ v = q * PacketSize
    OBVIOUS
  <2>4. u \in Nat /\ v \in Nat /\ (p + q) * PacketSize = u + v
    BY <2>3, SMT
  <2>5. e = u + v /\ e \in Nat
    BY <2>2, <2>3, <2>4 DEF Behind
  <2>6. PICK n \in Nat : n = p + q
    OBVIOUS
  <2>7. e = Behind(0, n)
    BY <2>4, <2>5, <2>6 DEF Behind
  <2> QED  BY <2>5, <2>7, WholeOf
<1> QED  BY <1>2, <1>3, <1>4, <1>5, <1>6, <1>7

(* The packets of a file without damage are numbered one after the other:  *)
(* the p packets that end with the n-th byte, and the next.                *)
Numbered(f, n, p) ==
  /\ n < Len(f) => f[n + 1][2] = 0 /\ f[n + 1][1] = f[1][1] + p
  /\ n > 0 => p > 0 /\ f[n][1] = f[1][1] + p - 1

LEMMA NumbersAre ==
  ASSUME NEW f, IsFile(f), Straight(f, 0, Len(f)), f[1][2] = 0,
         NEW n \in Nat, NEW p \in Nat, n = Behind(0, p), n <= Len(f)
  PROVE  Numbered(f, n, p)
<1> USE PacketSizeIs
<1>1. f \in Seq(Bytes) /\ Len(f) \in Nat /\ Len(f) > 0
  BY DEF IsFile
<1>2. Stepping(f, 0, Len(f))
  <2>1. 0 \in 0 .. Len(f) /\ Len(f) \in 0 + 1 .. Len(f) /\ 0 + 1 = 1
    BY <1>1
  <2> QED  BY <1>1, <2>1, StepIs
<1>3. n = p * PacketSize
  BY DEF Behind
<1>4. ASSUME NEW j \in 0 .. Len(f) - 1, NEW q \in Nat, NEW r \in 0 .. PacketSize - 1, j = q * PacketSize + r
      PROVE  f[j + 1][2] = r /\ f[j + 1][1] = f[1][1] + q
  <2>1. j \in 0 .. Len(f) - 0 - 1 /\ 0 + j + 1 = j + 1 /\ 0 + 1 = 1
    BY <1>1
  <2>2. f[0 + j + 1][2] = r /\ f[0 + j + 1][1] = f[0 + 1][1] + q
    BY <1>2, <1>4, <2>1, Zenon DEF Stepping
  <2> QED  BY <2>1, <2>2
<1>5. ASSUME n < Len(f) PROVE f[n + 1][2] = 0 /\ f[n + 1][1] = f[1][1] + p
  <2>1. n \in 0 .. Len(f) - 1 /\ 0 \in 0 .. PacketSize - 1 /\ n = p * PacketSize + 0
    BY <1>1, <1>3, <1>5
  <2> QED  BY <1>4, <2>1
<1>6. ASSUME n > 0 PROVE p > 0 /\ f[n][1] = f[1][1] + p - 1
  <2>1. p > 0
    <3>1. p = 0 => p * PacketSize = 0
      BY SMT
    <3> QED  BY <1>3, <1>6, <3>1
  <2>2. PICK q \in Nat : q = p - 1
    BY <2>1
  <2>3. PICK u \in Nat : u = q * PacketSize
    BY SMT
  <2>4. n = u + PacketSize
    <3>1. (q + 1) * PacketSize = q * PacketSize + PacketSize
      BY SMT
    <3>2. p = q + 1
      BY <2>2
    <3> QED  BY <1>3, <2>3, <3>1, <3>2
  <2>5. PICK j, r : r = PacketSize - 1 /\ j = u + r
    OBVIOUS
  <2>6. /\ j \in 0 .. Len(f) - 1 /\ r \in 0 .. PacketSize - 1 /\ j + 1 = n
    BY <1>1, <2>4, <2>5
  <2>7. j = q * PacketSize + r
    BY <2>3, <2>5
  <2>8. f[j + 1][1] = f[1][1] + q
    BY <1>4, <2>6, <2>7
  <2>9. f[1][1] \in Nat
    <3>1. 1 \in 1 .. Len(f)
      BY <1>1
    <3> QED  BY <1>1, <3>1, ElementOfSeq, ByteIs
  <2> QED  BY <2>1, <2>2, <2>6, <2>8, <2>9
<1> QED  BY <1>5, <1>6 DEF Numbered

(* Without damage, the counters follow each other.                         *)
LEMMA SteadyDrops ==
  ASSUME Given, Placed, Survival, Steady, Drops, Undamaged,
         NEW q \in Nat, NEW e \in Handed .. Len(file), e = Behind(Handed, q),
         NEW k \in Nat, NEW m \in Nat, NEW x \in Gone .. e, e - x < PacketSize, Filtered(e, k, m, x)
  PROVE  /\ x = e
         /\ CountedAll(Packets(Slice(file, Gone, e), k)).drops = 0
         /\ CountedAll(Packets(Slice(file, Gone, e), k)).counter
              = IF e = 0 THEN NoCounter ELSE file[e][1] % CounterMod
<1> USE PacketSizeIs
<1>1. PICK f, a, d, new : f = file /\ a = Gone /\ d = Slice(file, Gone, e) /\ new = Packets(d, k)
  OBVIOUS
<1>2. HandedOn(d, e, k, m, x)
  BY <1>1, Zenon DEF Filtered
<1>3. /\ IsFile(f) /\ f \in Seq(Bytes) /\ Len(f) \in Nat
      /\ a \in Nat /\ e \in Nat /\ a <= e /\ e <= Len(f)
  BY <1>1 DEF Given, Placed, IsFile
<1>4. a = Handed /\ k = 0 /\ m = q /\ x = e
  BY <1>1, SteadyFacts
<1>5. Straight(f, 0, Len(f)) /\ f[1][2] = 0
  BY <1>1, UndamagedIs
<1>6. PICK p \in Nat : a = Behind(0, p)
  <2>1. Whole(a) = a
    BY <1>4 DEF Steady
  <2> QED  BY <1>3, <2>1, WholeOf
<1>7. PICK number : number = f[1][1] + p - 1
  OBVIOUS
<1>8. f[1][1] \in Nat /\ number \in Int
  <2>1. 1 \in 1 .. Len(f)
    BY <1>3 DEF IsFile
  <2>2. f[1][1] \in Nat
    BY <1>3, <2>1, ElementOfSeq, ByteIs
  <2> QED  BY <1>7, <2>2
<1>9. ts_n_drops = 0 /\ ts_counter = IF a = 0 THEN NoCounter ELSE f[a][1] % CounterMod
  BY <1>1 DEF Drops
<1>10. ts_counter = NoCounter \/ (number \in Nat /\ ts_counter = number % CounterMod)
  <2>1. CASE a = 0
    BY <1>9, <2>1
  <2>2. CASE a # 0
    <3>1. p > 0 /\ f[a][1] = number
      <4>1. Numbered(f, a, p)
        <5>1. a <= Len(f)
          BY <1>3
        <5> QED  BY <1>3, <1>5, <1>6, <5>1, NumbersAre
      <4> QED  BY <1>3, <1>7, <2>2, <4>1 DEF Numbered
    <3>2. number \in Nat
      BY <1>7, <1>8, <3>1
    <3> QED  BY <1>9, <2>2, <3>1, <3>2
  <2> QED  BY <2>1, <2>2
<1>11. new \in Seq(Blocks) /\ Len(new) = m
  <2>1. NewParts(new, f, a, m, x)
    BY <1>1, <1>2, NewPartsAre
  <2> QED  BY <2>1 DEF NewParts
<1>12. ASSUME NEW i \in 1 .. m
       PROVE  IsHead(new[i]) /\ IsSync(new[i][1]) /\ new[i][1][1] = number + i
  <2>1. PICK u : u = (i - 1) * PacketSize
    OBVIOUS
  <2>2. PICK w : w = a + u
    OBVIOUS
  <2>3. u \in Nat /\ w + PacketSize <= e /\ new[i] = Slice(f, w, w + PacketSize)
    <3>1. AreParts(new, f, a + k) /\ x = a + k + m * PacketSize
      BY <1>1, <1>2, Zenon DEF HandedOn
    <3>2. /\ u \in Nat
          /\ a + k + u + PacketSize <= a + k + m * PacketSize
          /\ new[i] = Slice(f, a + k + u, a + k + u + PacketSize)
      BY <1>11, <2>1, <3>1 DEF AreParts
    <3>3. a + k + u = w
      BY <1>3, <1>4, <2>2, <3>2
    <3> QED  BY <1>4, <3>1, <3>2, <3>3
  <2>4. w \in Nat /\ w + PacketSize <= Len(f) /\ w < Len(f)
    BY <1>3, <2>2, <2>3, SMTT(30)
  <2>5. new[i][1] = f[w + 1]
    BY <1>3, <2>3, <2>4, BlockAt
  <2>6. PICK n \in Nat : n = p + i - 1
    OBVIOUS
  <2>7. w = Behind(0, n)
    <3>1. PICK j \in Nat : j = i - 1
      OBVIOUS
    <3>2. (p + j) * PacketSize = p * PacketSize + j * PacketSize
      BY SMT
    <3>3. n = p + j
      BY <2>6, <3>1
    <3>4. w = p * PacketSize + j * PacketSize
      BY <1>3, <1>6, <2>1, <2>2, <2>3, <3>1 DEF Behind
    <3>5. n * PacketSize \in Nat
      BY SMT
    <3> QED  BY <3>2, <3>3, <3>4, <3>5 DEF Behind
  <2>8. f[w + 1][2] = 0 /\ f[w + 1][1] = f[1][1] + n
    <3>1. Numbered(f, w, n)
      <4>1. w <= Len(f)
        BY <2>4
      <4> QED  BY <1>3, <1>5, <2>4, <2>7, <4>1, NumbersAre
    <3> QED  BY <2>4, <3>1 DEF Numbered
  <2>9. IsSync(f[w + 1])
    <3>1. w + 1 \in 1 .. Len(f)
      BY <1>3, <2>4
    <3> QED  BY <1>3, <2>8, <3>1 DEF IsFile, Headed
  <2>10. f[1][1] + n = number + i
    <3>1. PICK z \in Nat : z = f[1][1]
      BY <1>8
    <3>2. i \in Int /\ p \in Int
      OBVIOUS
    <3>3. z + (p + i - 1) = z + p - 1 + i
      BY <3>2
    <3> QED  BY <1>7, <2>6, <3>1, <3>3, Zenon
  <2> QED  BY <2>5, <2>8, <2>9, <2>10 DEF IsHead
<1>13. /\ CountedAll(new).drops = 0
       /\ CountedAll(new).counter = IF m = 0 THEN ts_counter ELSE (number + m) % CounterMod
  <2>1. \A i \in 1 .. Len(new) :
          IsHead(new[i]) /\ IsSync(new[i][1]) /\ new[i][1][1] = number + i
    BY <1>11, <1>12
  <2> QED  BY <1>8, <1>9, <1>10, <1>11, <2>1, CountedAllSteady
<1>14. PICK u \in Nat : u = m * PacketSize /\ e = a + u
  <2>1. m * PacketSize \in Nat
    BY SMT
  <2> QED  BY <1>4, <2>1 DEF Behind
<1>15. CASE m = 0
  <2>1. u = 0
    BY <1>14, <1>15
  <2>2. e = a
    BY <1>3, <1>14, <2>1
  <2> QED  BY <1>1, <1>4, <1>9, <1>13, <1>15, <2>2
<1>16. CASE m # 0
  <2>1. PICK n \in Nat : n = p + m
    OBVIOUS
  <2>2. e = Behind(0, n)
    <3>1. (p + m) * PacketSize = p * PacketSize + m * PacketSize
      BY SMT
    <3>2. a = p * PacketSize
      BY <1>3, <1>6 DEF Behind
    <3> QED  BY <1>3, <1>14, <2>1, <3>1, <3>2 DEF Behind
  <2>3. u >= PacketSize
    <3>1. 1 * PacketSize <= m * PacketSize
      BY <1>16, MultiplesUp
    <3> QED  BY <1>14, <3>1
  <2>4. e > 0
    BY <1>3, <1>14, <2>3
  <2>5. f[e][1] = f[1][1] + n - 1
    <3>1. Numbered(f, e, n)
      BY <1>3, <1>5, <2>2, NumbersAre
    <3> QED  BY <2>4, <3>1 DEF Numbered
  <2>6. f[e][1] = number + m
    BY <1>7, <1>8, <2>1, <2>5, SMTT(30)
  <2> QED  BY <1>1, <1>4, <1>13, <1>16, <2>4, <2>6
<1> QED  BY <1>15, <1>16

(* A call keeps the count of the drops.                                    *)
LEMMA DropsStep ==
  ASSUME Given, Placed, Delivery, Survival, Steady, Drops,
         NEW q \in Nat, NEW e \in Handed .. Len(file), e = Behind(Handed, q),
         NEW k \in Nat, NEW m \in Nat, NEW x \in Gone .. e, e - x < PacketSize, Filtered(e, k, m, x),
         file' = file, Gone' = x
  PROVE  Drops'
<1>1. PICK d, new, old, counts : /\ d = Slice(file, Gone, e) /\ new = Packets(d, k)
                                 /\ old = delivered /\ counts = CountedAll(new)
  OBVIOUS
<1>2. /\ HandedOn(d, e, k, m, x)
      /\ delivered' = old \o new
      /\ ts_n_drops' = counts.drops
      /\ ts_counter' = counts.counter
  BY <1>1, Zenon DEF Filtered
<1>3. old \in Seq(Blocks) /\ new \in Seq(Blocks)
  <2>1. NewParts(new, file, Gone, m, x)
    BY <1>1, <1>2, NewPartsAre
  <2> QED  BY <1>1, <2>1 DEF NewParts, Delivery
<1>4. Len(delivered') = Len(old) + Len(new)
  <2>1. PICK all : all = old \o new
    OBVIOUS
  <2>2. Joined(all, old, new)
    BY <1>3, <2>1, JoinedIs
  <2> QED  BY <1>2, <2>1, <2>2 DEF Joined
<1>5. /\ counts \in Counts
      /\ counts.drops = 0 => Tracked(old \o new, Len(old) + Len(new), counts.counter)
  <2>1. /\ ts_n_drops \in Nat /\ ts_counter \in 0 .. CounterMod
        /\ ts_n_drops = 0 => Tracked(old, Len(old), ts_counter)
    BY <1>1 DEF Drops
  <2> QED  BY <1>1, <1>3, <2>1, CountedAllTracks
<1>6. ts_n_drops' \in Nat /\ ts_counter' \in 0 .. CounterMod
  BY <1>2, <1>5 DEF Counts
<1>7. ts_n_drops' = 0 => Tracked(delivered', Len(delivered'), ts_counter')
  BY <1>2, <1>4, <1>5
<1>8. ASSUME Undamaged
      PROVE  ts_n_drops' = 0 /\ ts_counter' = IF x = 0 THEN NoCounter ELSE file[x][1] % CounterMod
  <2>1. /\ x = e
        /\ CountedAll(Packets(Slice(file, Gone, e), k)).drops = 0
        /\ CountedAll(Packets(Slice(file, Gone, e), k)).counter
             = IF e = 0 THEN NoCounter ELSE file[e][1] % CounterMod
    BY <1>8, SteadyDrops
  <2> QED  BY <1>1, <1>2, <2>1
<1> QED  BY <1>6, <1>7, <1>8 DEF Drops, Undamaged, Holes, IsHead, Tracked

-----------------------------------------------------------------------------
(***************************************************************************)
(* A turn of the loop.                                                     *)
(***************************************************************************)

(* It reads up to the n-th byte from where it was, and hands q packets on  *)
(* to the filter.                                                          *)
Moved(n, q, e, out) ==
  /\ e = Behind(Handed, q)
  /\ out = Slice(file, Handed, e)
  /\ position' = position + n
  /\ position' <= Len(file)
  /\ e <= position'
  /\ buf' = Slice(file, e, position')
  /\ Len(buf') = position' - e
  /\ Len(buf') <= BlockSize
  /\ paced = "unlimited" \/ out # <<>> => Len(buf') < PacketSize

(* A read fits into the buffer and ends within the file.                   *)
LEMMA ReadsIs ==
  ASSUME Given, Placed, NEW n \in ReadSizes
  PROVE  n \in Nat /\ position + n <= Len(file) /\ Len(buf) + n <= BlockSize /\ (eof => n = 0)
<1>1. /\ position \in Nat /\ Len(file) \in Nat /\ position <= Len(file)
      /\ Len(buf) \in Nat /\ Len(buf) <= BlockSize /\ BlockSize \in Nat
  <2>1. Len(file) \in Nat /\ file \in Seq(Bytes)
    BY DEF Given, IsFile
  <2>2. Len(buf) \in Nat
    <3>1. PICK h : h = Handed
      OBVIOUS
    <3>2. h \in 0 .. Len(file) /\ position \in h .. Len(file) /\ buf = Slice(file, h, position)
      BY <2>1, <3>1 DEF Placed
    <3> QED  BY <2>1, <3>2, SliceIs
  <2> QED  BY <2>1, <2>2, BlockSizeIs DEF Placed
<1>2. CASE Len(buf) >= BlockSize \/ eof
  <2>1. n = 0
    BY <1>2 DEF ReadSizes
  <2> QED  BY <1>1, <2>1
<1>3. CASE ~(Len(buf) >= BlockSize \/ eof)
  <2>1. PICK u, v : u = BlockSize - Len(buf) /\ v = Len(file) - position
    OBVIOUS
  <2>2. u \in Nat /\ v \in Nat
    BY <1>1, <1>3, <2>1
  <2>3. Min({u, v}) \in {u, v} /\ \A y \in {u, v} : Min({u, v}) <= y
    <3>1. {u, v} \subseteq Nat /\ {u, v} # {}
      BY <2>2
    <3> QED  BY <3>1, MinIs
  <2>4. n \in 0 .. Min({u, v})
    BY <1>3, <2>1 DEF ReadSizes
  <2>5. n \in Nat /\ n <= u /\ n <= v
    BY <2>2, <2>3, <2>4
  <2> QED  BY <1>1, <1>3, <2>1, <2>5
<1> QED  BY <1>2, <1>3

(* The bytes that are there, and what of them is handed on.                *)
LEMMA OutIs ==
  ASSUME Given, Placed, NEW n \in Nat, position + n <= Len(file), Len(buf) + n <= BlockSize,
         NEW out, NEW bytes, bytes = buf \o SubSeq(file, position + 1, position + n),
         (out = <<>> /\ (paced = "unlimited" => Len(bytes) < PacketSize))
           \/ out = SubSeq(bytes, 1, Whole(Len(bytes))),
         position' = position + n,
         buf' = SubSeq(bytes, Len(out) + 1, Len(bytes))
  PROVE  \E q \in Nat, e \in Handed .. Len(file) : Moved(n, q, e, out)
<1> USE PacketSizeIs
<1>1. PICK f, h, pos, b : f = file /\ h = Handed /\ pos = position /\ b = position + n
  OBVIOUS
<1>2. /\ f \in Seq(Bytes) /\ Len(f) \in Nat
      /\ h \in 0 .. Len(f) /\ pos \in h .. Len(f) /\ b \in pos .. Len(f) /\ b \in h .. Len(f)
      /\ h \in Nat /\ pos \in Nat /\ b \in Nat /\ h <= b
      /\ buf = Slice(f, h, pos)
  BY <1>1 DEF Given, Placed, IsFile
<1>3. bytes = Slice(f, h, b)
  <2>1. bytes = Slice(f, h, pos) \o Slice(f, pos, b)
    BY <1>1, <1>2 DEF Slice
  <2> QED  BY <1>2, <2>1, SliceJoin
<1>4. Len(bytes) = b - h /\ b - h \in Nat /\ b - h <= BlockSize
  <2>1. IsPart(bytes, f, h, b)
    BY <1>2, <1>3, PartIs
  <2>2. IsPart(buf, f, h, pos)
    BY <1>2, PartIs
  <2>3. Len(bytes) = b - h /\ Len(buf) = pos - h
    BY <2>1, <2>2 DEF IsPart
  <2> QED  BY <1>1, <1>2, <2>3, BlockSizeIs
<1>5. PICK p \in Nat, r \in 0 .. PacketSize - 1 :
        b - h = p * PacketSize + r /\ Whole(b - h) = p * PacketSize /\ p * PacketSize \in Nat
  BY <1>4, WholeIs
<1>6. \E q \in Nat, w \in 0 .. b - h :
        /\ w = q * PacketSize
        /\ out = SubSeq(bytes, 1, w)
        /\ paced = "unlimited" \/ out # <<>> => b - h - w < PacketSize
  <2>1. CASE out = <<>> /\ (paced = "unlimited" => Len(bytes) < PacketSize)
    <3>1. SubSeq(bytes, 1, 0) = <<>>
      BY SliceNone DEF Slice
    <3>2. 0 = 0 * PacketSize /\ 0 \in 0 .. b - h /\ 0 \in Nat /\ b - h - 0 = b - h
      BY <1>4
    <3> QED  BY <1>4, <2>1, <3>1, <3>2
  <2>2. CASE out = SubSeq(bytes, 1, Whole(Len(bytes)))
    <3>1. out = SubSeq(bytes, 1, p * PacketSize)
      BY <1>4, <1>5, <2>2
    <3>2. p * PacketSize \in 0 .. b - h /\ b - h - p * PacketSize < PacketSize
      BY <1>4, <1>5
    <3> QED  BY <3>1, <3>2
  <2> QED  BY <2>1, <2>2
<1>7. PICK q \in Nat, w \in 0 .. b - h :
        /\ w = q * PacketSize
        /\ out = SubSeq(bytes, 1, w)
        /\ paced = "unlimited" \/ out # <<>> => b - h - w < PacketSize
  BY <1>6
<1>8. PICK e : e = h + w
  OBVIOUS
<1>9. e \in h .. Len(f) /\ e \in 0 .. Len(f) /\ b \in e .. Len(f) /\ w \in Nat
  BY <1>2, <1>4, <1>7, <1>8
<1>10. out = Slice(f, h, e) /\ Len(out) = w
  <2>1. 0 \in 0 .. b - h /\ w \in 0 .. b - h /\ 0 + 1 = 1 /\ h + 0 = h
    BY <1>2, <1>4
  <2>2. Slice(Slice(f, h, b), 0, w) = Slice(f, h + 0, h + w)
    BY <1>2, <2>1, SliceOfSlice
  <2>3. out = Slice(f, h, e)
    BY <1>3, <1>7, <1>8, <2>1, <2>2 DEF Slice
  <2>4. IsPart(out, f, h, e)
    BY <1>2, <1>9, <2>3, PartIs
  <2> QED  BY <1>2, <1>8, <1>9, <2>3, <2>4 DEF IsPart
<1>11. buf' = Slice(f, e, b) /\ Len(buf') = b - e
  <2>1. w \in 0 .. b - h /\ b - h \in w .. b - h /\ h + (b - h) = b
    BY <1>2, <1>4
  <2>2. Slice(Slice(f, h, b), w, b - h) = Slice(f, h + w, h + (b - h))
    BY <1>2, <2>1, SliceOfSlice
  <2>3. buf' = Slice(Slice(f, h, b), w, b - h)
    BY <1>3, <1>4, <1>10 DEF Slice
  <2>4. buf' = Slice(f, e, b)
    BY <1>8, <2>1, <2>2, <2>3
  <2>5. IsPart(buf', f, e, b)
    BY <1>2, <1>9, <2>4, PartIs
  <2> QED  BY <2>4, <2>5 DEF IsPart
<1>12. e = Behind(h, q)
  BY <1>7, <1>8 DEF Behind
<1>13. /\ b - e <= BlockSize /\ e <= b /\ b <= Len(f)
       /\ paced = "unlimited" \/ out # <<>> => b - e < PacketSize
  <2>1. b - e = b - h - w
    BY <1>2, <1>4, <1>7, <1>8, <1>9
  <2>2. b - e <= BlockSize /\ e <= b /\ b <= Len(f)
    BY <1>2, <1>4, <1>9, <2>1, BlockSizeIs
  <2> QED  BY <1>7, <2>1, <2>2
<1>14. Moved(n, q, e, out)
  BY <1>1, <1>10, <1>11, <1>12, <1>13 DEF Moved
<1> QED  BY <1>1, <1>9, <1>14

(* A turn, but for the times.                                              *)
Turned(n, q, e, out) ==
  /\ Moved(n, q, e, out)
  /\ Filter(out)
  /\ FilterPcrs(out)
  /\ eof' = (eof \/ AtEnd(n))
  /\ termflag' = (termflag \/ (eof' /\ flg_set_eof))
  /\ running' \in IF termflag' THEN {FALSE, out # <<>>} ELSE {TRUE}
  /\ n_recv' = (out # <<>>)
  /\ UNCHANGED inputVars

LEMMA TimesAre ==
  /\ Times \subseteq Nat
  /\ TimesInWait \subseteq Nat
BY InputPathAssumption DEF InputPathAssumption, Times, TimesInWait

(* While so much time passes, and the time stamp is looked at, it falls so *)
(* far at the most, unless it was too far ahead; if it is still ahead, or  *)
(* is still reckoned from the PCR that it was, so far it fell.             *)
Falls(p, q, time) ==
  /\ q.last_PCR = p.last_PCR /\ q.first_PCR = p.first_PCR /\ q.remain_PCR = p.remain_PCR
  /\ q.set_last_PCR => p.set_last_PCR
  /\ q.set_last_PCR /\ q.ahead > LongAgo => q.ahead = p.ahead - time
  /\ p.ahead <= ResetTime => q.ahead <= ResetTime /\ q.ahead >= p.ahead - time
  /\ p.ahead <= ResetTime /\ q.ahead > 0 => q.ahead = p.ahead - time
  /\ p.ahead >= LongAgo => q.ahead >= LongAgo

LEMMA FallsPassed ==
  ASSUME NEW p \in Paces, NEW time \in Nat
  PROVE  Falls(p, Passed(p, time), time)
<1>1. PICK n : n = IF p.ahead - time < LongAgo THEN LongAgo ELSE p.ahead - time
  OBVIOUS
<1>2. PICK q : q = [p EXCEPT !.ahead = n]
  OBVIOUS
<1>3. q = Passed(p, time)
  BY <1>1, <1>2 DEF Passed
<1>4. /\ q.last_PCR = p.last_PCR /\ q.first_PCR = p.first_PCR /\ q.remain_PCR = p.remain_PCR
      /\ q.set_last_PCR = p.set_last_PCR /\ q.ahead = n
  BY <1>2 DEF Paces
<1>5. p.ahead \in Int
  BY DEF Paces
<1>6. LongAgo \in Int /\ LongAgo < 0 /\ ResetTime \in Nat
  BY PaceNumbers DEF LongAgo
<1>7. PICK a \in Int, b \in Int, u \in Int : a = p.ahead /\ u = LongAgo /\ b = n
  BY <1>1, <1>5, <1>6
<1>8. /\ b > u => b = a - time
      /\ a <= ResetTime => b <= ResetTime /\ b >= a - time
      /\ a <= ResetTime /\ b > 0 => b = a - time
      /\ b >= u
  BY <1>1, <1>6, <1>7
<1> QED  BY <1>3, <1>4, <1>7, <1>8 DEF Falls

LEMMA FallsWaited ==
  ASSUME NEW p \in Paces
  PROVE  /\ Falls(p, wait_timestamp(p), 0)
         /\ wait_timestamp(p).ahead \in -ResetTime .. ResetTime
<1>1. p.ahead \in Int /\ ResetTime \in Nat /\ LongAgo \in Int /\ LongAgo < 0
  BY PaceNumbers DEF Paces, LongAgo
<1>2. CASE IsOff(p)
  <2>1. PICK q : q = [[p EXCEPT !.ahead = 0] EXCEPT !.set_last_PCR = FALSE]
    OBVIOUS
  <2>2. /\ q.last_PCR = p.last_PCR /\ q.first_PCR = p.first_PCR /\ q.remain_PCR = p.remain_PCR
        /\ q.set_last_PCR = FALSE /\ q.ahead = 0
    BY <2>1 DEF Paces
  <2>3. wait_timestamp(p) = q
    BY <1>2, <2>1 DEF wait_timestamp
  <2>4. p.ahead <= ResetTime => p.ahead < 0
    BY <1>1, <1>2 DEF IsOff
  <2>5. Falls(p, q, 0)
    BY <1>1, <2>2, <2>4 DEF Falls
  <2>6. q.ahead \in -ResetTime .. ResetTime
    BY <1>1, <2>2
  <2> QED  BY <2>3, <2>5, <2>6
<1>3. CASE ~IsOff(p)
  <2>1. wait_timestamp(p) = p
    BY <1>3 DEF wait_timestamp
  <2>2. Falls(p, p, 0)
    BY <1>1 DEF Falls
  <2>3. p.ahead \in -ResetTime .. ResetTime
    BY <1>3 DEF IsOff
  <2> QED  BY <2>1, <2>2, <2>3
<1> QED  BY <1>2, <1>3

LEMMA FallsOn ==
  ASSUME NEW p \in Paces, NEW q \in Paces, NEW r \in Paces, NEW u \in Nat, NEW v \in Nat,
         Falls(p, q, u), Falls(q, r, v)
  PROVE  Falls(p, r, u + v)
<1>1. p.ahead \in Int /\ q.ahead \in Int /\ r.ahead \in Int /\ LongAgo \in Int /\ ResetTime \in Nat
  BY PaceNumbers DEF Paces, LongAgo
<1>2. PICK a \in Int, b \in Int, c \in Int : a = p.ahead /\ b = q.ahead /\ c = r.ahead
  BY <1>1
<1>3. r.last_PCR = p.last_PCR /\ r.first_PCR = p.first_PCR /\ r.remain_PCR = p.remain_PCR
  BY DEF Falls
<1>4. /\ r.set_last_PCR => q.set_last_PCR /\ p.set_last_PCR
      /\ r.set_last_PCR /\ c > LongAgo => c = b - v
      /\ q.set_last_PCR /\ b > LongAgo => b = a - u
      /\ b <= ResetTime => c <= ResetTime /\ c >= b - v
      /\ a <= ResetTime => b <= ResetTime /\ b >= a - u
      /\ b <= ResetTime /\ c > 0 => c = b - v
      /\ a <= ResetTime /\ b > 0 => b = a - u
      /\ b >= LongAgo => c >= LongAgo
      /\ a >= LongAgo => b >= LongAgo
  BY <1>2 DEF Falls
<1>5. r.set_last_PCR /\ c > LongAgo => c = a - (u + v)
  <2>1. ASSUME r.set_last_PCR, c > LongAgo PROVE c = a - (u + v)
    <3>1. c = b - v /\ b > LongAgo
      BY <1>1, <1>2, <1>4, <2>1
    <3>2. b = a - u
      BY <1>4, <2>1, <3>1
    <3> QED  BY <1>2, <3>1, <3>2
  <2> QED  BY <2>1
<1>6. a <= ResetTime => c <= ResetTime /\ c >= a - (u + v)
  BY <1>1, <1>2, <1>4
<1>7. a <= ResetTime /\ c > 0 => c = a - (u + v)
  <2>1. ASSUME a <= ResetTime, c > 0 PROVE c = a - (u + v)
    <3>1. b <= ResetTime
      BY <1>4, <2>1
    <3>2. c = b - v
      BY <1>4, <2>1, <3>1
    <3>3. b > 0
      BY <1>2, <2>1, <3>2
    <3>4. b = a - u
      BY <1>4, <2>1, <3>3
    <3> QED  BY <1>2, <3>2, <3>4
  <2> QED  BY <2>1
<1>8. a >= LongAgo => c >= LongAgo
  BY <1>4
<1> QED  BY <1>2, <1>3, <1>4, <1>5, <1>6, <1>7, <1>8 DEF Falls

LEMMA AfterWaitIs ==
  ASSUME NEW before \in Nat, pace \in Paces
  PROVE  AfterWait(before) \in Paces /\ Falls(pace, AfterWait(before), before)
<1>1. PICK now : now = Passed(pace, before)
  OBVIOUS
<1>2. now \in Paces /\ Falls(pace, now, before)
  BY <1>1, PassedIs, FallsPassed
<1>3. AfterWait(before) = IF LooksAtTime THEN wait_timestamp(now) ELSE now
  BY <1>1 DEF AfterWait
<1>4. wait_timestamp(now) \in Paces /\ Falls(now, wait_timestamp(now), 0)
  BY <1>2, WaitedIs, FallsWaited
<1>5. before + 0 = before
  OBVIOUS
<1>6. Falls(pace, wait_timestamp(now), before)
  <2>1. Falls(pace, wait_timestamp(now), before + 0)
    BY <1>2, <1>4, FallsOn
  <2> QED  BY <1>5, <2>1
<1> QED  BY <1>2, <1>3, <1>4, <1>6

(* The time stamp in a turn: it falls while the turn takes its time, and   *)
(* is looked at before anything is handed on.                              *)
Timed(n, tested, out, time) ==
  /\ Falls(pace, tested, time)
  /\ paced # "unlimited" /\ out # <<>> => tested.ahead \in -ResetTime .. 0
  /\ paced # "unlimited" /\ out = <<>> /\ Len(buf) + n >= PacketSize =>
       tested.ahead \in 1 .. ResetTime
  /\ pace' = Stamped(tested, out, Elapsed(time))
  /\ Remember(tested, out, time)

(* What a turn hands on, and the time stamp after it.                      *)
LEMMA TurnMoves ==
  ASSUME Given, Placed, Pacing, NEW n \in ReadSizes, NEW before \in Times, NEW during \in TimesInWait,
         Turn(n, before, during)
  PROVE  \E out :
           /\ \E q \in Nat, e \in Handed .. Len(file) : Turned(n, q, e, out)
           /\ \E tested \in Paces : Timed(n, tested, out, before + during)
<1>1. PICK bytes, now, few :
        /\ bytes = buf \o SubSeq(file, position + 1, position + n)
        /\ now = Passed(AfterWait(before), during)
        /\ few = (Len(bytes) < PacketSize)
  OBVIOUS
<1>2. PICK tested : tested = IF few \/ paced = "unlimited" THEN now ELSE wait_timestamp(now)
  OBVIOUS
<1>3. PICK empty : empty = (few \/ (paced # "unlimited" /\ tested.ahead > 0))
  OBVIOUS
<1>4. PICK out : out = IF empty THEN <<>> ELSE SubSeq(bytes, 1, Whole(Len(bytes)))
  OBVIOUS
<1>5. /\ position' = position + n
      /\ eof' = (eof \/ AtEnd(n))
      /\ termflag' = (termflag \/ (eof' /\ flg_set_eof))
      /\ buf' = SubSeq(bytes, Len(out) + 1, Len(bytes))
      /\ n_recv' = (out # <<>>)
      /\ pace' = Stamped(tested, out, Elapsed(before + during))
      /\ FilterPcrs(out)
      /\ Filter(out)
      /\ running' \in IF termflag' THEN {FALSE, out # <<>>} ELSE {TRUE}
      /\ Remember(tested, out, before + during)
      /\ UNCHANGED inputVars
  BY <1>1, <1>2, <1>3, <1>4, Zenon DEF Turn
<1>6. n \in Nat /\ position + n <= Len(file) /\ Len(buf) + n <= BlockSize
  BY ReadsIs
<1>7. (out = <<>> /\ (paced = "unlimited" => Len(bytes) < PacketSize))
        \/ out = SubSeq(bytes, 1, Whole(Len(bytes)))
  BY <1>1, <1>3, <1>4, Zenon
<1>8. \E q \in Nat, e \in Handed .. Len(file) : Moved(n, q, e, out)
  BY <1>1, <1>5, <1>6, <1>7, OutIs
<1>9. \E q \in Nat, e \in Handed .. Len(file) : Turned(n, q, e, out)
  BY <1>5, <1>8, Zenon DEF Turned
<1>10. now \in Paces /\ Falls(pace, now, before + during)
  <2>1. before \in Nat /\ during \in Nat /\ during \in Int
    BY TimesAre
  <2>2. AfterWait(before) \in Paces /\ Falls(pace, AfterWait(before), before)
    BY <2>1, AfterWaitIs DEF Pacing
  <2>3. now \in Paces /\ Falls(AfterWait(before), now, during)
    BY <1>1, <2>1, <2>2, PassedIs, FallsPassed
  <2> QED  BY <2>1, <2>2, <2>3, FallsOn DEF Pacing
<1>11. tested \in Paces /\ Falls(pace, tested, before + during)
  <2>1. PICK u \in Nat : u = before + during
    BY TimesAre
  <2>2. wait_timestamp(now) \in Paces /\ Falls(now, wait_timestamp(now), 0)
    BY <1>10, WaitedIs, FallsWaited
  <2>3. Falls(pace, wait_timestamp(now), u + 0)
    BY <1>10, <2>1, <2>2, FallsOn DEF Pacing
  <2>4. u + 0 = u
    OBVIOUS
  <2>5. Falls(pace, wait_timestamp(now), u)
    BY <2>3, <2>4
  <2> QED  BY <1>2, <1>10, <2>1, <2>2, <2>5
<1>12. PICK a : a = tested.ahead
  OBVIOUS
<1>13. a \in Int /\ (~few /\ paced # "unlimited" => a \in -ResetTime .. ResetTime)
  BY <1>2, <1>10, <1>11, <1>12, FallsWaited DEF Paces
<1>14. paced # "unlimited" /\ out # <<>> => a \in -ResetTime .. 0
  <2>1. ASSUME paced # "unlimited", out # <<>> PROVE ~few /\ ~(a > 0)
    BY <1>3, <1>4, <1>12, <2>1, Zenon
  <2> QED  BY <1>13, <2>1, PaceNumbers
<1>15. Len(bytes) = Len(buf) + n /\ Len(bytes) \in Nat
  <2>1. PICK f, h, pos, b : f = file /\ h = Handed /\ pos = position /\ b = position + n
    OBVIOUS
  <2>2. /\ f \in Seq(Bytes) /\ Len(f) \in Nat
        /\ h \in 0 .. Len(f) /\ pos \in h .. Len(f) /\ b \in pos .. Len(f) /\ pos \in 0 .. Len(f)
        /\ buf = Slice(f, h, pos)
    BY <1>6, <2>1 DEF Given, Placed, IsFile
  <2>3. bytes = Slice(f, h, pos) \o Slice(f, pos, b)
    BY <1>1, <2>1, <2>2 DEF Slice
  <2>4. /\ Slice(f, h, pos) \in Seq(Bytes) /\ Len(Slice(f, h, pos)) = pos - h
        /\ Slice(f, pos, b) \in Seq(Bytes) /\ Len(Slice(f, pos, b)) = b - pos
    BY <2>2, SliceIs
  <2>5. PICK x, y : x = Slice(f, h, pos) /\ y = Slice(f, pos, b)
    OBVIOUS
  <2>6. Len(x \o y) = Len(x) + Len(y) /\ Len(x) \in Nat
    BY <2>4, <2>5, ConcatProperties, LenProperties
  <2>7. b - pos = n
    BY <1>6, <2>1, <2>2
  <2> QED  BY <1>6, <2>2, <2>3, <2>4, <2>5, <2>6, <2>7
<1>16. ASSUME paced # "unlimited", out = <<>>, Len(buf) + n >= PacketSize
       PROVE  a \in 1 .. ResetTime
  <2>1. ~few
    <3>1. ~(Len(bytes) < PacketSize)
      BY <1>15, <1>16, PacketSizeIs
    <3> QED  BY <1>1, <3>1
  <2>2. empty
    <3>1. ASSUME ~empty PROVE FALSE
      <4>1. out = SubSeq(bytes, 1, Whole(Len(bytes)))
        BY <1>4, <3>1
      <4>2. PICK q \in Nat, r \in 0 .. PacketSize - 1 :
              /\ Len(bytes) = q * PacketSize + r
              /\ Whole(Len(bytes)) = q * PacketSize /\ q * PacketSize \in Nat
        BY <1>15, WholeIs
      <4>3. PICK w \in Nat : w = q * PacketSize
        BY <4>2
      <4>4. w > 0 /\ w <= Len(bytes)
        BY <1>15, <1>16, <4>2, <4>3, PacketSizeIs
      <4>5. bytes \in Seq(Bytes)
        <5>1. PICK f : f = file
          OBVIOUS
        <5>2. f \in Seq(Bytes) /\ Len(f) \in Nat
          BY <5>1 DEF Given, IsFile
        <5>3. PICK h, pos, b : h = Handed /\ pos = position /\ b = position + n
          OBVIOUS
        <5>4. /\ h \in 0 .. Len(f) /\ pos \in h .. Len(f) /\ b \in pos .. Len(f) /\ pos \in 0 .. Len(f)
              /\ buf = Slice(f, h, pos)
          BY <1>6, <5>1, <5>2, <5>3 DEF Placed
        <5>5. Slice(f, h, pos) \in Seq(Bytes) /\ Slice(f, pos, b) \in Seq(Bytes)
          BY <5>2, <5>4, SliceIs
        <5>6. bytes = Slice(f, h, pos) \o Slice(f, pos, b)
          BY <1>1, <5>1, <5>3, <5>4 DEF Slice
        <5> QED  BY <5>5, <5>6, ConcatProperties
      <4>6. Len(Slice(bytes, 0, w)) = w - 0
        <5>1. PICK y : y = Len(bytes)
          OBVIOUS
        <5>2. 0 \in 0 .. y /\ w \in 0 .. y
          BY <1>15, <4>3, <4>4, <5>1
        <5> QED  BY <4>5, <5>1, <5>2, SliceIs
      <4>7. out = Slice(bytes, 0, w)
        BY <4>1, <4>2, <4>3 DEF Slice
      <4>8. Len(out) = 0
        BY <1>16, EmptySeq
      <4> QED  BY <4>3, <4>4, <4>6, <4>7, <4>8
    <3> QED  BY <3>1
  <2>3. a > 0
    BY <1>3, <1>12, <2>1, <2>2
  <2> QED  BY <1>13, <1>16, <2>1, <2>3
<1>17. Timed(n, tested, out, before + during)
  BY <1>5, <1>11, <1>12, <1>14, <1>16 DEF Timed
<1> QED  BY <1>9, <1>11, <1>17

-----------------------------------------------------------------------------
(***************************************************************************)
(* The time stamp.                                                         *)
(***************************************************************************)

LEMMA FileBytesAre ==
  ASSUME Given
  PROVE  file \in Seq(FileBytes) /\ FileBytes \subseteq Bytes
<1>1. file \in Seq(Bytes)
  BY DEF Given, IsFile
<1>2. PICK f, T, n : f = file /\ T = FileBytes /\ n = Len(file)
  OBVIOUS
<1>3. n \in Nat /\ DOMAIN f = 1 .. n /\ f = [i \in DOMAIN f |-> f[i]] /\ \A i \in 1 .. n : f[i] \in Bytes
  BY <1>1, <1>2, LenProperties, ElementOfSeq
<1>4. T = {f[i] : i \in 1 .. n}
  BY <1>2 DEF FileBytes
<1>5. f \in [1 .. n -> T]
  BY <1>3, <1>4
<1>6. f \in Seq(T)
  BY <1>3, <1>5
<1>7. T \subseteq Bytes
  BY <1>3, <1>4
<1> QED  BY <1>2, <1>6, <1>7

(* What the filter of the PCRs is given, finds and keeps.                  *)
LEMMA PcrsAre ==
  ASSUME Given, NEW data \in Seq(FileBytes), NEW packets, packets = Packets(data, Skip(data)),
         NEW pcrs, pcrs = [i \in DOMAIN packets |-> PcrOf(packets[i])]
  PROVE  /\ Len(pcrs) \in Nat
         /\ \A i \in 1 .. Len(pcrs) : pcrs[i] \in Pcrs
         /\ Remainder(data, Skip(data)) \in Seq(FileBytes)
         /\ Len(Remainder(data, Skip(data))) < PacketSize
<1> USE PacketSizeIs
<1>1. PICK k, n, T : k = Skip(data) /\ n = Len(data) /\ T = FileBytes
  OBVIOUS
<1>2. data \in Seq(T) /\ n \in Nat /\ Len(data) = n
  BY <1>1
<1>3. k \in Skips /\ (k = 0 \/ k < n)
  BY <1>1, <1>2, SkipIs
<1>4. k \in Nat /\ k \in 0 .. n /\ n - 0 = n /\ k \in 0 .. n - 0 /\ 0 \in 0 .. n /\ n \in 0 .. n
  BY <1>2, <1>3 DEF Skips
<1>5. data = Slice(data, 0, n)
  <2>1. SubSeq(data, 1, Len(data)) = data
    BY <1>2, SubSeqFull
  <2> QED  BY <1>2, <2>1 DEF Slice
<1>6. PICK q \in Nat, r \in 0 .. PacketSize - 1 : IsCut(T, data, 0, n, data, k, q, r)
  BY <1>2, <1>4, <1>5, PacketsIs
<1>7. /\ q * PacketSize \in Nat
      /\ n - 0 - k = q * PacketSize + r
      /\ packets \in Seq(Seq(T))
      /\ Len(packets) = q
      /\ AreParts(packets, data, 0 + k)
      /\ Remainder(data, k) = Slice(data, 0 + k + q * PacketSize, n)
  BY <1>1, <1>6, Zenon DEF IsCut
<1>8. PICK m \in Nat : m = q * PacketSize
  BY <1>7
<1>9. PICK x : x = k + m
  OBVIOUS
<1>10. x \in 0 .. n /\ n \in x .. n /\ n - x = r /\ 0 + k + m = x /\ 0 + k = k
  <2>1. n - 0 - k = m + r
    BY <1>7, <1>8
  <2> QED  BY <1>2, <1>4, <1>9, <2>1
<1>11. Remainder(data, k) \in Seq(T) /\ Len(Remainder(data, k)) < PacketSize
  <2>1. Remainder(data, k) = Slice(data, x, n)
    BY <1>7, <1>8, <1>10
  <2>2. Slice(data, x, n) \in Seq(T) /\ Len(Slice(data, x, n)) = n - x
    BY <1>2, <1>10, SliceIs, ZenonT(30)
  <2> QED  BY <1>10, <2>1, <2>2
<1>12. ASSUME NEW i \in 1 .. q PROVE PcrOf(packets[i]) \in Pcrs
  <2>1. packets[i][1] \in T
    <3>1. PICK u : u = k + (i - 1) * PacketSize
      OBVIOUS
    <3>2. /\ (i - 1) * PacketSize \in Nat
          /\ k + (i - 1) * PacketSize + PacketSize <= k + q * PacketSize
          /\ packets[i] = Slice(data, u, u + PacketSize)
      BY <1>7, <1>10, <3>1 DEF AreParts
    <3>3. PICK v : v = u + PacketSize
      OBVIOUS
    <3>4. u \in 0 .. n /\ v \in u .. n /\ v - u = PacketSize
      <4>1. u \in Nat /\ v <= k + m
        BY <1>4, <1>8, <3>1, <3>2, <3>3
      <4> QED  BY <1>9, <1>10, <3>3, <4>1
    <3>5. Slice(data, u, v) \in Seq(T) /\ Len(Slice(data, u, v)) = PacketSize
      BY <1>2, <3>4, SliceIs
    <3>6. 1 \in 1 .. Len(Slice(data, u, v))
      BY <3>5
    <3> QED  BY <3>2, <3>3, <3>5, <3>6, ElementOfSeq
  <2>2. PICK j \in 1 .. Len(file) : packets[i][1] = file[j]
    BY <1>1, <2>1 DEF FileBytes
  <2>3. clock[file[j][1]] \in (0 .. PCR_BASE_MAX - 1) \cup {NoPcr}
    BY DEF Given, IsClock
  <2>4. PcrOf(packets[i]) \in (0 .. PCR_BASE_MAX - 1) \cup {NoPcr}
    BY <2>2, <2>3 DEF PcrOf
  <2> QED  BY <2>4 DEF Pcrs
<1>13. DOMAIN packets = 1 .. q
  BY <1>7, LenProperties
<1>14. Len(pcrs) = q /\ \A i \in 1 .. q : pcrs[i] = PcrOf(packets[i])
  BY <1>13
<1> QED  BY <1>1, <1>11, <1>12, <1>14

LEMMA RoundIs == PcrRound \in Nat
<1>1. PICK m \in Nat, c \in Nat \ {0} : m = PCR_BASE_MAX /\ c = TicksPerMs
  BY PaceNumbers
<1>2. m \div c \in Nat
  BY SMT
<1> QED  BY <1>1, <1>2 DEF PcrRound

LEMMA ElapsedIs ==
  ASSUME Given, Pacing, NEW time \in Nat
  PROVE  Elapsed(time) \in Nat
<1>1. PICK u, v : u = since + time /\ v = LongTime
  OBVIOUS
<1>2. u \in Nat
  BY <1>1 DEF Pacing
<1>3. v \in Nat
  BY <1>1, PaceNumbers, RoundIs DEF LongTime, Given, IsFile
<1>4. {u, v} \subseteq Nat /\ {u, v} # {}
  BY <1>2, <1>3
<1>5. Min({u, v}) \in {u, v}
  BY <1>4, MinIs
<1> QED  BY <1>1, <1>2, <1>3, <1>5 DEF Elapsed

(* A turn keeps the types of what the pace needs.                          *)
LEMMA PacingStep ==
  ASSUME Given, Placed, Pacing, NEW n, NEW q, NEW e \in Handed .. Len(file), NEW out,
         Turned(n, q, e, out), NEW time \in Nat, NEW tested \in Paces,
         Timed(n, tested, out, time)
  PROVE  Pacing'
<1>1. PICK data, packets, pcrs :
        /\ data = pcr_kept \o out
        /\ packets = Packets(data, Skip(data))
        /\ pcrs = [i \in DOMAIN packets |-> PcrOf(packets[i])]
  OBVIOUS
<1>2. out \in Seq(FileBytes) /\ pcr_kept \in Seq(FileBytes)
  <2>1. PICK f, h, T : f = file /\ h = Handed /\ T = FileBytes
    OBVIOUS
  <2>2. f \in Seq(T) /\ Len(f) \in Nat
    BY <2>1, FileBytesAre
  <2>3. h \in 0 .. Len(f) /\ e \in h .. Len(f)
    BY <2>1, <2>2 DEF Placed
  <2>4. out = Slice(f, h, e)
    BY <2>1, Zenon DEF Turned, Moved
  <2>5. Slice(f, h, e) \in Seq(T)
    BY <2>2, <2>3, SliceIs
  <2> QED  BY <2>1, <2>4, <2>5 DEF Pacing
<1>3. data \in Seq(FileBytes)
  BY <1>1, <1>2, ConcatProperties
<1>4. /\ Len(pcrs) \in Nat
      /\ \A i \in 1 .. Len(pcrs) : pcrs[i] \in Pcrs
      /\ Remainder(data, Skip(data)) \in Seq(FileBytes)
      /\ Len(Remainder(data, Skip(data))) < PacketSize
  BY <1>1, <1>3, PcrsAre
<1>5. pcr_kept' \in Seq(FileBytes) /\ Len(pcr_kept') < PacketSize
  <2>1. pcr_kept' = IF out = <<>> \/ paced # "pcr" THEN pcr_kept ELSE Remainder(data, Skip(data))
    BY <1>1, Zenon DEF Turned, FilterPcrs
  <2> QED  BY <1>2, <1>4, <2>1 DEF Pacing
<1>6. Elapsed(time) \in Nat
  BY ElapsedIs
<1>7. pace' \in Paces
  <2>1. PICK handed : handed = position - Len(buf) + Len(out)
    OBVIOUS
  <2>2. handed \in Int
    <3>1. Handed \in Int /\ Len(out) \in Nat
      BY <1>2 DEF Placed
    <3> QED  BY <2>1, <3>1 DEF Handed
  <2>3. CASE out = <<>> \/ paced = "unlimited"
    <3>1. pace' = tested
      BY <2>3 DEF Timed, Stamped
    <3> QED  BY <3>1
  <2>4. CASE out # <<>> /\ paced = "rate"
    <3>1. pace' = set_timestamp_bytes(tested, handed, Elapsed(time))
      BY <2>1, <2>4 DEF Timed, Stamped
    <3> QED  BY <1>6, <2>2, <3>1, BytesIs
  <2>5. CASE out # <<>> /\ paced = "pcr"
    <3>1. pace' = set_timestamp_pcr(tested, pcrs)
      BY <1>1, <2>5 DEF Timed, Stamped
    <3> QED  BY <1>4, <3>1, StampedIs
  <2> QED  BY <2>3, <2>4, <2>5 DEF Given
<1>8. FileBytes' = FileBytes
  BY DEF Turned, inputVars, FileBytes
<1>9. since' \in Nat
  <2>1. since' \in {Elapsed(time), 0}
    BY Zenon DEF Timed, Remember
  <2> QED  BY <1>6, <2>1
<1> QED  BY <1>5, <1>7, <1>8, <1>9 DEF Pacing

-----------------------------------------------------------------------------
(***************************************************************************)
(* Every turn keeps the invariant.                                         *)
(***************************************************************************)

(* The end is only noticed when all was read.                              *)
LEMMA EndingStep ==
  ASSUME Given, Placed, Ending, NEW n \in ReadSizes, NEW q, NEW e, NEW out, Turned(n, q, e, out)
  PROVE  Ending'
<1>1. /\ eof' = (eof \/ AtEnd(n))
      /\ termflag' = (termflag \/ (eof' /\ flg_set_eof))
      /\ running' \in IF termflag' THEN {FALSE, out # <<>>} ELSE {TRUE}
      /\ n_recv' = (out # <<>>)
      /\ file' = file /\ paced' = paced /\ flg_set_eof' = flg_set_eof
      /\ position' = position + n
      /\ (paced = "unlimited" => Len(buf') < PacketSize)
  BY DEF Turned, Moved, inputVars
<1>2. n \in Nat /\ (eof => n = 0)
  BY ReadsIs
<1>3. {eof, n_recv, termflag, running} \subseteq BOOLEAN /\ flg_set_eof \in BOOLEAN
  BY DEF Ending, Given
<1>4. {eof', n_recv', termflag', running'} \subseteq BOOLEAN
  BY <1>1, <1>3, Zenon
<1>5. ASSUME eof' PROVE position' = Len(file')
  <2>1. CASE eof
    <3>1. position = Len(file) /\ n = 0 /\ position \in Nat
      BY <1>2, <2>1 DEF Ending, Placed
    <3> QED  BY <1>1, <3>1
  <2>2. CASE AtEnd(n)
    <3>1. position = Len(file) /\ n = 0 /\ position \in Nat
      BY <2>2 DEF AtEnd, Placed
    <3> QED  BY <1>1, <3>1
  <2> QED  BY <1>1, <1>5, <2>1, <2>2
<1>6. ASSUME termflag' PROVE eof' /\ flg_set_eof'
  BY <1>1, <1>6 DEF Ending
<1>7. ASSUME ~running' PROVE termflag'
  BY <1>1, <1>7
<1>8. ASSUME paced' = "unlimited" PROVE Len(buf') < PacketSize
  BY <1>1, <1>8
<1> QED  BY <1>4, <1>5, <1>6, <1>7, <1>8 DEF Ending

(* A turn leaves the remainders next to each other.                        *)
LEMMA PlacedStep ==
  ASSUME Given, Placed, NEW n \in ReadSizes, NEW q, NEW e \in Handed .. Len(file), NEW out,
         Turned(n, q, e, out),
         NEW k \in Nat, NEW m \in Nat, NEW x \in Gone .. e, e - x < PacketSize, Filtered(e, k, m, x)
  PROVE  /\ Given'
         /\ file' = file
         /\ Handed' = e
         /\ Gone' = x
         /\ Placed'
<1> USE PacketSizeIs
<1>1. /\ position' = position + n /\ position' <= Len(file) /\ e <= position'
      /\ buf' = Slice(file, e, position')
      /\ Len(buf') = position' - e
      /\ Len(buf') <= BlockSize
      /\ file' = file /\ paced' = paced /\ clock' = clock /\ flg_set_eof' = flg_set_eof
  BY DEF Turned, Moved, inputVars
<1>2. n \in Nat
  BY ReadsIs
<1>3. /\ file \in Seq(Bytes) /\ Len(file) \in Nat
      /\ position' \in Nat /\ e \in Nat /\ x \in Nat /\ x <= e /\ e <= Len(file)
  BY <1>1, <1>2 DEF Given, Placed, IsFile
<1>4. kept' = Slice(file, x, e) /\ Len(kept') = e - x
  <2>1. kept' = Slice(file, x, e)
    BY Zenon DEF Filtered
  <2>2. x \in 0 .. Len(file) /\ e \in x .. Len(file)
    BY <1>3
  <2>3. IsPart(kept', file, x, e)
    BY <1>3, <2>1, <2>2, PartIs
  <2> QED  BY <2>1, <2>3 DEF IsPart
<1>5. Handed' = e /\ Gone' = x
  <2>1. Handed' = position' - Len(buf') /\ Gone' = position' - Len(buf') - Len(kept')
    BY DEF Handed, Gone
  <2>2. PICK u, v, w : u = position' /\ v = Len(buf') /\ w = Len(kept')
    OBVIOUS
  <2>3. u \in Nat /\ v = u - e /\ w = e - x
    BY <1>1, <1>3, <1>4, <2>2
  <2>4. u - v = e /\ u - v - w = x
    BY <1>3, <2>3
  <2> QED  BY <2>1, <2>2, <2>4
<1>6. Given'
  BY <1>1 DEF Given, FalseSyncs
<1>7. position' \in 0 .. Len(file') /\ e \in 0 .. position' /\ x \in 0 .. e
  BY <1>1, <1>3
<1>8. Placed'
  BY <1>1, <1>4, <1>5, <1>7 DEF Placed, Slice
<1> QED  BY <1>1, <1>5, <1>6, <1>8

(* A turn keeps all of the invariant.                                      *)
LEMMA TurnStep ==
  ASSUME IInv, NEW n \in ReadSizes, NEW before \in Times, NEW during \in TimesInWait,
         Turn(n, before, during)
  PROVE  IInv'
<1> USE DEF IInv
<1>1. PICK out :
        /\ \E q \in Nat, e \in Handed .. Len(file) : Turned(n, q, e, out)
        /\ \E tested \in Paces : Timed(n, tested, out, before + during)
  BY TurnMoves
<1>2. PICK q \in Nat, e \in Handed .. Len(file) : Turned(n, q, e, out)
  BY <1>1
<1>3. PICK tested \in Paces : Timed(n, tested, out, before + during)
  BY <1>1
<1>4. e = Behind(Handed, q) /\ out = Slice(file, Handed, e) /\ Filter(out)
  BY <1>2, Zenon DEF Turned, Moved
<1>5. PICK k \in Nat, m \in Nat, x \in Gone .. e : e - x < PacketSize /\ Filtered(e, k, m, x)
  BY <1>4, FilteredIs
<1>6. Given' /\ file' = file /\ Handed' = e /\ Gone' = x /\ Placed'
  BY <1>2, <1>5, PlacedStep
<1>7. Delivery'
  BY <1>5, <1>6, DeliveryStep
<1>8. Survival'
  BY <1>5, <1>6, SurvivalStep
<1>9. Steady'
  BY <1>4, <1>5, <1>6, SteadyStep
<1>10. Ending'
  BY <1>2, EndingStep
<1>11. Drops'
  BY <1>4, <1>5, <1>6, DropsStep
<1>12. Pacing'
  <2>1. PICK time : time = before + during
    OBVIOUS
  <2>2. time \in Nat
    BY <2>1, TimesAre
  <2> QED  BY <1>2, <1>3, <2>1, <2>2, PacingStep
<1> QED  BY <1>6, <1>7, <1>8, <1>9, <1>10, <1>11, <1>12

LEMMA NextStep ==
  ASSUME IInv, [Next]_vars
  PROVE  IInv'
<1>1. CASE Receive
  <2>1. PICK n \in ReadSizes, before \in Times, during \in TimesInWait : Turn(n, before, during)
    BY <1>1 DEF Receive
  <2> QED  BY <2>1, TurnStep
<1>2. CASE UNCHANGED vars
  BY <1>2 DEF IInv, Given, Placed, Handed, Gone, Slice, Delivery, Survival, InDelivered, PacketAt,
              Steady, Undamaged, Holes, Ending, Drops, Pacing, FileBytes, vars, inputVars, paceVars
<1> QED  BY <1>1, <1>2 DEF Next, Ended

(* The invariant, for any files, block sizes and lengths of packets.       *)
THEOREM IInvAlways == Spec => []IInv
<1>1. Init => IInv
  BY InitIs
<1>2. IInv /\ [Next]_vars => IInv'
  BY NextStep
<1> QED  BY <1>1, <1>2, PTL DEF Spec

-----------------------------------------------------------------------------
(***************************************************************************)
(* What follows from the invariant.                                        *)
(***************************************************************************)

(* The packets that the properties are about are whole.                    *)
LEMMA WholePlaces ==
  ASSUME Given, NEW i \in PacketPlaces
  PROVE  IsWhole(file, i) /\ i \in 1 .. Len(file) /\ i + PacketSize - 1 <= Len(file)
<1> USE PacketSizeIs
<1>1. PICK f, j, e : f = file /\ j = i - 1 /\ e = i + PacketSize - 1
  OBVIOUS
<1>2. f \in Seq(Bytes) /\ Len(f) \in Nat
  BY <1>1 DEF Given, IsFile
<1>3. i \in 1 .. Len(f) - PacketSize + 1 /\ f[i][2] = 0 /\ Holes(SubSeq(f, i, e)) = {}
  BY <1>1 DEF PacketPlaces, PacketAt
<1>4. i \in 1 .. Len(f) /\ e <= Len(f) /\ j \in 0 .. Len(f) /\ e \in j .. Len(f) /\ j + 1 = i
      /\ j + PacketSize = e
  BY <1>1, <1>2, <1>3
<1>5. Holes(Slice(f, j, e)) = {}
  BY <1>3, <1>4 DEF Slice
<1>6. Straight(f, j, e)
  BY <1>2, <1>4, <1>5, NoHoles
<1>7. IsWhole(f, i)
  BY <1>1, <1>3, <1>4, <1>6 DEF IsWhole
<1> QED  BY <1>1, <1>4, <1>7

(* The bytes are in order.                                                 *)
LEMMA OrderIs ==
  ASSUME Given, Placed, Delivery
  PROVE  InOrder
<1> USE PacketSizeIs
<1>1. PICK f, a, h, pos, n : f = file /\ a = Gone /\ h = Handed /\ pos = position /\ n = Len(file)
  OBVIOUS
<1>2. /\ IsFile(f) /\ f \in Seq(Bytes) /\ n \in Nat /\ Len(f) = n
      /\ a \in 0 .. n /\ h \in a .. n /\ pos \in h .. n /\ n \in pos .. n
      /\ pos \in a .. n /\ n \in a .. n
  BY <1>1 DEF Given, Placed, IsFile
<1>3. PICK rest : rest = kept \o buf \o SubSeq(file, position + 1, Len(file))
  OBVIOUS
<1>4. rest = Slice(f, a, n)
  <2>1. kept = Slice(f, a, h) /\ buf = Slice(f, h, pos) /\ SubSeq(file, position + 1, Len(file)) = Slice(f, pos, n)
    BY <1>1 DEF Placed, Slice
  <2>2. Slice(f, a, h) \o Slice(f, h, pos) = Slice(f, a, pos)
    BY <1>2, SliceJoin
  <2>3. Slice(f, a, pos) \o Slice(f, pos, n) = Slice(f, a, n)
    BY <1>2, SliceJoin
  <2> QED  BY <1>3, <2>1, <2>2, <2>3
<1>5. Len(rest) = n - a /\ \A i \in 1 .. n - a : rest[i] = f[a + i]
  <2>1. IsPart(rest, f, a, n)
    BY <1>2, <1>4, PartIs
  <2> QED  BY <2>1 DEF IsPart
<1>6. PICK first : first = Len(file) - Len(rest) + 1
  OBVIOUS
<1>7. first = a + 1 /\ first > 0
  BY <1>1, <1>2, <1>5, <1>6
<1>8. rest = SubSeq(file, first, Len(file))
  BY <1>1, <1>4, <1>7 DEF Slice
<1>9. ASSUME NEW i \in DOMAIN delivered
      PROVE  /\ \A k \in 1 .. PacketSize - 1 : Before(delivered[i][k], delivered[i][k + 1])
             /\ i > 1 => Before(delivered[i - 1][PacketSize], delivered[i][1])
             /\ rest # <<>> => Before(delivered[i][PacketSize], rest[1])
  <2>1. i \in 1 .. Len(delivered)
    BY DEF Delivery
  <2>2. PICK b \in 0 .. a : b + PacketSize <= a /\ delivered[i] = Slice(f, b, b + PacketSize)
    BY <1>1, <2>1 DEF Delivery
  <2>3. b \in Nat /\ b + PacketSize <= Len(f)
    BY <1>2, <2>2
  <2>4. /\ \A k \in 1 .. PacketSize : delivered[i][k] = f[b + k]
        /\ delivered[i][PacketSize] = f[b + PacketSize]
    BY <1>2, <2>2, <2>3, BlockAt
  <2>5. ASSUME NEW x \in Int, NEW y \in Int, 1 <= x, x < y, y <= n PROVE Before(f[x], f[y])
    <3>1. x \in 1 .. Len(f) /\ y \in 1 .. Len(f)
      BY <1>2, <2>5
    <3> QED  BY <1>2, <2>5, <3>1 DEF IsFile, Sorted
  <2>6. ASSUME NEW k \in 1 .. PacketSize - 1 PROVE Before(delivered[i][k], delivered[i][k + 1])
    <3>1. k \in 1 .. PacketSize /\ k + 1 \in 1 .. PacketSize
      OBVIOUS
    <3>2. PICK x, y : x = b + k /\ y = b + (k + 1)
      OBVIOUS
    <3>3. x \in Int /\ y \in Int /\ 1 <= x /\ x < y /\ y <= n
      BY <1>2, <2>3, <3>2
    <3> QED  BY <2>4, <2>5, <3>1, <3>2, <3>3
  <2>7. ASSUME i > 1 PROVE Before(delivered[i - 1][PacketSize], delivered[i][1])
    <3>1. i \in 2 .. Len(delivered)
      BY <2>1, <2>7
    <3> QED  BY <3>1 DEF Delivery
  <2>8. ASSUME rest # <<>> PROVE Before(delivered[i][PacketSize], rest[1])
    <3>1. a < n
      <4>1. rest \in Seq(Bytes)
        BY <1>2, <1>4, SliceIs
      <4>2. Len(rest) # 0
        BY <2>8, <4>1, EmptySeq
      <4> QED  BY <1>2, <1>5, <4>2
    <3>2. rest[1] = f[a + 1]
      <4>1. 1 \in 1 .. n - a
        BY <1>2, <3>1
      <4> QED  BY <1>5, <4>1
    <3>3. PICK x, y : x = b + PacketSize /\ y = a + 1
      OBVIOUS
    <3>4. x \in Int /\ y \in Int /\ 1 <= x /\ x < y /\ y <= n
      BY <1>2, <2>2, <3>1, <3>3
    <3> QED  BY <2>4, <2>5, <3>2, <3>3, <3>4
  <2> QED  BY <2>6, <2>7, <2>8
<1> QED  BY <1>3, <1>6, <1>7, <1>8, <1>9 DEF InOrder

LEMMA TypeIs ==
  ASSUME IInv
  PROVE  InputTypeOK
<1> USE DEF IInv
<1>1. pace.remain_PCR \in 0 .. TicksPerMs - 1
  BY DEF Pacing, Paces
<1>2. \A i \in DOMAIN delivered : Len(delivered[i]) = PacketSize
  <2>1. delivered \in Seq(Blocks)
    BY DEF Delivery
  <2>2. \A i \in DOMAIN delivered : delivered[i] \in Blocks
    BY <2>1
  <2> QED  BY <2>2 DEF Blocks
<1>3. insync \in BOOLEAN
  BY DEF Survival
<1>4. {eof, n_recv, termflag, running, insync} \subseteq BOOLEAN
  BY <1>3 DEF Ending
<1>5. ts_n_drops \in Nat /\ ts_counter \in 0 .. CounterMod
  BY DEF Drops
<1>6. position \in 0 .. Len(file) /\ Len(buf) <= BlockSize /\ Len(kept) < PacketSize
  BY DEF Placed
<1>7. Len(pcr_kept) < PacketSize
  BY DEF Pacing
<1> QED  BY <1>1, <1>2, <1>4, <1>5, <1>6, <1>7 DEF InputTypeOK

(* Whole packets survive.                                                  *)
LEMMA SurvivesIs ==
  ASSUME Given, Placed, Survival
  PROVE  Survives
<1> SUFFICES ASSUME NEW i \in PacketPlaces, i + PacketSize - 1 <= Gone, file[i][1] \notin excused
             PROVE  InDelivered(PacketAt(i))
  BY DEF Survives, Gone
<1>1. IsWhole(file, i) /\ i \in 1 .. Len(file)
  BY WholePlaces
<1>2. i <= Gone
  <2>1. Gone \in Int /\ i \in Int
    BY <1>1 DEF Placed
  <2> QED  BY <2>1, PacketSizeIs
<1> QED  BY <1>1, <1>2 DEF Survival

(* What is missing is counted.                                             *)
LEMMA CountedDrops ==
  ASSUME Given, Delivery, Drops
  PROVE  DropsAreCounted
<1>1. Undamaged => ts_n_drops = 0
  BY DEF Drops
<1>2. ASSUME NEW i \in DOMAIN delivered, NEW j \in DOMAIN delivered, Successive(i, j),
             (delivered[j][1][1] - delivered[i][1][1]) % CounterMod # 1
      PROVE  ts_n_drops > 0
  <2>1. i \in 1 .. Len(delivered) /\ j \in 1 .. Len(delivered)
    BY DEF Delivery
  <2>2. ts_n_drops # 0
    BY <1>2, <2>1 DEF Drops, Tracked, Successive
  <2> QED  BY <2>2 DEF Drops
<1> QED  BY <1>1, <1>2 DEF DropsAreCounted

(* At the end of the file, no whole packet is left behind.                 *)
LEMMA WholeFile ==
  ASSUME IInv
  PROVE  FileIsRecorded
<1> USE PacketSizeIs DEF IInv
<1> SUFFICES ASSUME Undamaged, ~(paced # "unlimited" /\ flg_set_eof),
                    ~running \/ (eof /\ Len(buf) < PacketSize), NEW i \in PacketPlaces
             PROVE  InDelivered(PacketAt(i))
  BY DEF FileIsRecorded
<1>1. eof /\ Len(buf) < PacketSize
  BY DEF Ending
<1>2. PICK f, a, n : f = file /\ a = Gone /\ n = Len(file)
  OBVIOUS
<1>3. IsWhole(f, i) /\ i \in 1 .. n /\ i + PacketSize - 1 <= n
  BY <1>2, WholePlaces
<1>4. IsFile(f) /\ n \in Nat /\ Len(f) = n /\ n > 0
  BY <1>2 DEF Given, IsFile
<1>5. a \in Nat /\ a <= n /\ n - a < PacketSize
  <2>1. a = Handed /\ Handed \in Nat
    <3>1. Len(kept) = 0
      BY EmptySeq DEF Steady
    <3>2. Gone = Handed - Len(kept) /\ Handed \in Nat
      BY DEF Gone, Handed, Placed
    <3> QED  BY <1>2, <3>1, <3>2
  <2>2. position = n /\ Handed = position - Len(buf) /\ Handed <= position
    BY <1>1, <1>2 DEF Ending, Handed, Placed
  <2>3. Len(buf) = n - a
    <3>1. PICK s : s = Slice(f, a, n)
      OBVIOUS
    <3>2. a \in 0 .. Len(f) /\ n \in a .. Len(f)
      BY <1>4, <2>1, <2>2
    <3>3. Len(Slice(f, a, n)) = n - a
      BY <1>4, <3>2, SliceIs DEF IsFile
    <3>4. buf = Slice(f, a, n)
      BY <1>2, <2>1, <2>2 DEF Placed
    <3> QED  BY <3>3, <3>4
  <2> QED  BY <1>1, <1>4, <2>1, <2>2, <2>3
<1>6. i <= a
  <2>1. /\ i \in Int /\ a \in Int /\ n \in Int
        /\ i + PacketSize - 1 <= n /\ n - a < PacketSize
    BY <1>3, <1>4, <1>5
  <2> QED  BY <2>1
<1>7. excused = {}
  BY DEF Steady
<1> QED  BY <1>2, <1>3, <1>6, <1>7 DEF Survival

(* Every byte of the file is in one place and in order, and a packet that  *)
(* is whole in the file and was passed is delivered whole, however the     *)
(* reads cut the stream and whatever bytes look like sync bytes.           *)
THEOREM AlwaysIntact == Spec => []Intact
<1>1. IInv => Intact
  BY OrderIs, TypeIs, SurvivesIs DEF IInv, Intact
<1> QED  BY <1>1, IInvAlways, PTL

(* A stream without damage counts no drop, and packets missing between two *)
(* that were delivered are counted, but for a multiple of what the counter *)
(* counts.                                                                 *)
THEOREM DropsAlwaysCounted == Spec => []DropsAreCounted
<1>1. IInv => DropsAreCounted
  BY CountedDrops DEF IInv
<1> QED  BY <1>1, IInvAlways, PTL

(* An undamaged file is recorded to its last packet.                       *)
THEOREM FileAlwaysRecorded == Spec => []FileIsRecorded
<1>1. IInv => FileIsRecorded
  BY WholeFile
<1> QED  BY <1>1, IInvAlways, PTL

-----------------------------------------------------------------------------
(***************************************************************************)
(* The pace is kept, if a block takes less time at the rate than what a    *)
(* time stamp may be off.                                                  *)
(***************************************************************************)

RateFits == BlockSize \div BytesPerMs < ResetTime

(* A block that waits is due before the time stamp is given up.            *)
Waiting ==
  /\ held \in Nat
  /\ Len(buf) >= PacketSize =>
       pace.ahead \in 1 .. ResetTime /\ held + pace.ahead <= ResetTime

(* What is handed on was due, or the time stamp is as far ahead.           *)
AtRate ==
  paced = "rate" =>
    pace.ahead <= ResetTime /\ Handed \div BytesPerMs - since <= pace.ahead

(* The stream has gone on from one PCR to another by as many ticks, but    *)
(* for what is less than a unit of time, as the time stamp has gone on: as *)
(* far as it is ahead now, and the time that has passed.                   *)
Reckoned(p, time) ==
  /\ p.last_PCR \in 0 .. PCR_BASE_MAX - 1
  /\ p.first_PCR \in 0 .. PCR_BASE_MAX - 1
  /\ \E s \in Nat, r \in 0 .. TicksPerMs - 1, k \in Int :
       /\ s = p.last_PCR - p.first_PCR + k * PCR_BASE_MAX
       /\ s + r = (p.ahead + time) * TicksPerMs + p.remain_PCR

AtPcr ==
  paced = "pcr" /\ pace.set_last_PCR /\ since < PcrRound /\ pace.ahead > LongAgo =>
    Reckoned(pace, since)

PaceInv ==
  /\ pace.ahead >= LongAgo
  /\ Waiting
  /\ AtRate
  /\ AtPcr

(* Of a turn, what is in the read buffer.                                  *)
LEMMA TurnSizes ==
  ASSUME Given, Placed, NEW n \in ReadSizes, NEW q, NEW e \in Handed .. Len(file), NEW out,
         Turned(n, q, e, out)
  PROVE  /\ Handed \in Nat /\ e \in Nat /\ Handed <= e /\ e <= Len(file) /\ Len(file) \in Nat
         /\ e - Handed <= BlockSize
         /\ Handed' = e
         /\ Len(out) = e - Handed
         /\ Len(buf) \in Nat /\ n \in Nat /\ Len(buf') \in Nat
         /\ out = <<>> => e = Handed /\ Len(buf') = Len(buf) + n
         /\ out # <<>> => Len(buf') < PacketSize
<1>1. PICK f, h, pos : f = file /\ h = Handed /\ pos = position
  OBVIOUS
<1>2. n \in Nat /\ pos + n <= Len(f) /\ Len(buf) + n <= BlockSize
  BY <1>1, ReadsIs
<1>3. /\ f \in Seq(Bytes) /\ Len(f) \in Nat
      /\ h \in 0 .. Len(f) /\ pos \in h .. Len(f) /\ e \in h .. Len(f)
      /\ buf = Slice(f, h, pos)
  BY <1>1 DEF Given, Placed, IsFile
<1>4. Len(buf) = pos - h
  BY <1>3, SliceIs
<1>5. /\ out = Slice(f, h, e)
      /\ position' = pos + n
      /\ e <= position'
      /\ Len(buf') = position' - e
      /\ paced = "unlimited" \/ out # <<>> => Len(buf') < PacketSize
  BY <1>1, Zenon DEF Turned, Moved
<1>6. Len(out) = e - h
  BY <1>3, <1>5, SliceIs
<1>7. out = <<>> => e = h
  <2>1. ASSUME out = <<>> PROVE e = h
    <3>1. Len(out) = 0
      BY <2>1, EmptySeq
    <3> QED  BY <1>3, <1>6, <3>1
  <2> QED  BY <2>1
<1>8. Handed' = e
  <2>1. PICK u, v : u = position' /\ v = Len(buf')
    OBVIOUS
  <2>2. u \in Nat /\ v = u - e /\ e \in Nat
    BY <1>2, <1>3, <1>5, <2>1
  <2>3. u - v = e
    BY <2>2
  <2> QED  BY <2>1, <2>3 DEF Handed
<1>9. e - h <= BlockSize
  BY <1>2, <1>3, <1>4, <1>5, BlockSizeIs
<1>10. e = h => Len(buf') = Len(buf) + n
  BY <1>2, <1>3, <1>4, <1>5
<1> QED  BY <1>1, <1>2, <1>3, <1>4, <1>5, <1>6, <1>7, <1>8, <1>9, <1>10

(* A block that waits, waits no longer than a time stamp may be ahead.     *)
LEMMA WaitingStep ==
  ASSUME Given, Placed, Pacing, Ending, Waiting,
         NEW n \in ReadSizes, NEW q, NEW e \in Handed .. Len(file), NEW out,
         Turned(n, q, e, out), NEW time \in Nat, NEW tested \in Paces, Timed(n, tested, out, time)
  PROVE  Waiting' /\ held' < ResetTime
<1> USE PacketSizeIs
<1>0. ResetTime \in Nat \ {0}
  BY FilePaceAssumption DEF FilePaceAssumption
<1>1. /\ Len(buf) \in Nat /\ n \in Nat /\ Len(buf') \in Nat
      /\ out = <<>> => Len(buf') = Len(buf) + n
      /\ out # <<>> => Len(buf') < PacketSize
  BY TurnSizes
<1>2. held' = IF Len(buf) >= PacketSize /\ out = <<>> THEN held + time ELSE 0
  BY Zenon DEF Timed, Remember
<1>3. held \in Nat
  BY DEF Waiting
<1>4. CASE out # <<>>
  <2>1. held' = 0
    BY <1>2, <1>4
  <2> QED  BY <1>0, <1>1, <1>4, <2>1 DEF Waiting
<1>5. CASE out = <<>> /\ paced = "unlimited"
  <2>1. Len(buf) < PacketSize /\ Len(buf') < PacketSize
    <3>1. Len(buf') < PacketSize
      BY <1>5, Zenon DEF Turned, Moved
    <3> QED  BY <1>1, <1>5, <3>1
  <2>2. held' = 0
    BY <1>1, <1>2, <2>1
  <2> QED  BY <1>0, <1>1, <2>1, <2>2 DEF Waiting
<1>6. CASE out = <<>> /\ paced # "unlimited"
  <2>1. PICK a, b : a = pace.ahead /\ b = tested.ahead
    OBVIOUS
  <2>2. a \in Int /\ b \in Int
    BY <2>1 DEF Pacing, Paces
  <2>3. pace' = tested
    BY <1>6 DEF Timed, Stamped
  <2>4. Len(buf) + n >= PacketSize => b \in 1 .. ResetTime
    BY <1>6, <2>1, Zenon DEF Timed
  <2>5. a <= ResetTime /\ b > 0 => b = a - time
    BY <2>1, Zenon DEF Timed, Falls
  <2>6. CASE Len(buf) >= PacketSize
    <3>1. a \in 1 .. ResetTime /\ held + a <= ResetTime
      BY <2>1, <2>6 DEF Waiting
    <3>2. b \in 1 .. ResetTime
      BY <1>1, <2>4, <2>6
    <3>3. held' = held + time
      BY <1>2, <1>6, <2>6
    <3>4. held' \in Nat /\ held' + b <= ResetTime /\ held' < ResetTime
      BY <1>0, <1>3, <2>2, <2>5, <3>1, <3>2, <3>3
    <3> QED  BY <2>1, <2>3, <3>2, <3>4 DEF Waiting
  <2>7. CASE ~(Len(buf) >= PacketSize)
    <3>1. held' = 0
      BY <1>2, <2>7
    <3>2. Len(buf') >= PacketSize => b \in 1 .. ResetTime
      BY <1>1, <1>6, <2>4
    <3> QED  BY <1>0, <2>1, <2>3, <3>1, <3>2 DEF Waiting
  <2> QED  BY <2>6, <2>7
<1> QED  BY <1>4, <1>5, <1>6

LEMMA ElapsedAs ==
  ASSUME Given, Pacing, NEW time \in Nat
  PROVE  /\ LongTime \in Nat /\ since \in Nat
         /\ Elapsed(time) \in {since + time, LongTime}
         /\ Elapsed(time) <= since + time
         /\ Elapsed(time) <= LongTime
<1>1. PICK u, v : u = since + time /\ v = LongTime
  OBVIOUS
<1>2. u \in Nat /\ since \in Nat
  BY <1>1 DEF Pacing
<1>3. v \in Nat
  BY <1>1, PaceNumbers, RoundIs DEF LongTime, Given, IsFile
<1>4. {u, v} \subseteq Nat /\ {u, v} # {}
  BY <1>2, <1>3
<1>5. Min({u, v}) \in {u, v} /\ \A y \in {u, v} : Min({u, v}) <= y
  BY <1>4, MinIs
<1> QED  BY <1>1, <1>2, <1>3, <1>5 DEF Elapsed

(* So many bytes take so long.                                             *)
LEMMA RateOf ==
  ASSUME NEW a \in Nat, NEW b \in Nat, NEW m \in Nat, a <= b, b - a <= m
  PROVE  /\ a \div BytesPerMs \in Nat /\ b \div BytesPerMs \in Nat /\ m \div BytesPerMs \in Nat
         /\ a \div BytesPerMs <= a
         /\ b \div BytesPerMs <= a \div BytesPerMs + m \div BytesPerMs + 1
<1>1. PICK c \in Nat \ {0} : c = BytesPerMs
  BY PaceNumbers
<1>2. ASSUME NEW x \in Nat
      PROVE  /\ x \div c \in Nat /\ (x \div c) * c \in Nat
             /\ (x \div c) * c <= x /\ x < (x \div c) * c + c /\ x \div c <= x
  <2>1. PICK y \in Int : y = x \div c
    BY SMT
  <2>2. y \in Nat /\ y * c \in Nat /\ y * c <= x /\ x < y * c + c
    BY <2>1, SMT
  <2>3. y <= y * c
    BY <2>2, SMT
  <2> QED  BY <2>1, <2>2, <2>3
<1>3. PICK x \in Nat, y \in Nat, z \in Nat : x = a \div c /\ y = b \div c /\ z = m \div c
  BY <1>2
<1>4. /\ x * c \in Nat /\ y * c \in Nat /\ z * c \in Nat
      /\ a < x * c + c /\ y * c <= b /\ m < z * c + c
      /\ x <= a
  BY <1>2, <1>3
<1>5. y <= x + z + 1
  <2>1. ASSUME y >= x + z + 2 PROVE FALSE
    <3>1. y * c >= (x + z + 2) * c
      BY <2>1, SMT
    <3>2. (x + z + 2) * c = x * c + z * c + 2 * c
      BY SMT
    <3>3. PICK i \in Nat, j \in Nat, k \in Nat : i = x * c /\ j = y * c /\ k = z * c
      BY <1>4
    <3>4. j >= i + k + 2 * c /\ j <= b /\ a < i + c /\ m < k + c
      BY <1>4, <3>1, <3>2, <3>3
    <3> QED  BY <3>4
  <2> QED  BY <2>1
<1> QED  BY <1>1, <1>3, <1>4, <1>5

(* The time stamp is never kept further back than it matters.              *)
LEMMA NotBehind ==
  ASSUME NEW p \in Paces, NEW time \in Int
  PROVE  Passed(p, time).ahead >= LongAgo
<1>1. PICK n : n = IF p.ahead - time < LongAgo THEN LongAgo ELSE p.ahead - time
  OBVIOUS
<1>2. p.ahead \in Int /\ LongAgo \in Int
  BY PaceNumbers DEF Paces, LongAgo
<1>3. n >= LongAgo
  BY <1>1, <1>2
<1>4. Passed(p, time) = [p EXCEPT !.ahead = n]
  BY <1>1 DEF Passed
<1>5. Passed(p, time).ahead = n
  BY <1>4 DEF Paces
<1> QED  BY <1>3, <1>5

(* From a rate, the time stamp is reckoned from the beginning.             *)
LEMMA BytesAre ==
  ASSUME NEW p \in Paces, NEW n \in Nat, NEW time \in Nat
  PROVE  LET a == set_timestamp_bytes(p, n, time).ahead
             due == n \div BytesPerMs - time
         IN  a = IF due < LongAgo THEN LongAgo ELSE due
<1>1. PICK k \in Nat : k = n \div BytesPerMs
  <2>1. n \div BytesPerMs \in Nat
    <3>1. n <= n /\ n - n <= n
      OBVIOUS
    <3> QED  BY <3>1, RateOf
  <2> QED  BY <2>1
<1>2. PICK m : m = [p EXCEPT !.ahead = k]
  OBVIOUS
<1>3. m \in Paces /\ m.ahead = k
  BY <1>2 DEF Paces
<1>4. PICK j : j = IF m.ahead - time < LongAgo THEN LongAgo ELSE m.ahead - time
  OBVIOUS
<1>5. set_timestamp_bytes(p, n, time) = [m EXCEPT !.ahead = j]
  BY <1>1, <1>2, <1>4 DEF set_timestamp_bytes, Passed
<1>6. set_timestamp_bytes(p, n, time).ahead = j
  BY <1>3, <1>5 DEF Paces
<1> QED  BY <1>1, <1>3, <1>4, <1>6

(* Nothing is handed on at a rate before its time.                         *)
LEMMA RateStep ==
  ASSUME RateFits, Given, Placed, Pacing, PaceInv, paced = "rate",
         NEW n \in ReadSizes, NEW q, NEW e \in Handed .. Len(file), NEW out,
         Turned(n, q, e, out), NEW time \in Nat, NEW tested \in Paces, Timed(n, tested, out, time)
  PROVE  /\ AtRate'
         /\ pace'.ahead >= LongAgo
         /\ out # <<>> => Handed \div BytesPerMs <= since'
<1>0. ResetTime \in Nat \ {0} /\ LongAgo = -ResetTime - 1
  BY FilePaceAssumption DEF FilePaceAssumption, LongAgo
<1>1. /\ Handed \in Nat /\ e \in Nat /\ Handed <= e /\ e <= Len(file) /\ Len(file) \in Nat
      /\ e - Handed <= BlockSize /\ Handed' = e /\ Len(out) = e - Handed
      /\ out = <<>> => e = Handed
  BY TurnSizes
<1>2. PICK x, y, z : x = Handed \div BytesPerMs /\ y = e \div BytesPerMs /\ z = BlockSize \div BytesPerMs
  OBVIOUS
<1>3. x \in Nat /\ y \in Nat /\ z \in Nat /\ x <= Handed /\ y <= x + z + 1
  BY <1>1, <1>2, RateOf, BlockSizeIs
<1>4. z < ResetTime
  BY <1>2 DEF RateFits
<1>5. PICK a, b, t, w : a = pace.ahead /\ b = tested.ahead /\ t = since /\ w = Elapsed(time)
  OBVIOUS
<1>6. a \in Int /\ b \in Int
  BY <1>5 DEF Pacing, Paces
<1>7. /\ t \in Nat /\ w \in {t + time, Len(file) + 2 * ResetTime}
      /\ w <= t + time /\ w <= Len(file) + 2 * ResetTime /\ w \in Nat
  <2>1. LongTime = Len(file) + 2 * ResetTime
    BY DEF LongTime
  <2> QED  BY <1>5, <2>1, ElapsedAs, ElapsedIs
<1>8. since' = w /\ paced' = paced
  BY <1>5, Zenon DEF Timed, Remember, Turned, inputVars
<1>9. a <= ResetTime /\ x - t <= a /\ a >= LongAgo
  BY <1>2, <1>5 DEF PaceInv, AtRate
<1>10. b <= ResetTime /\ b >= a - time /\ b >= LongAgo
  <2>1. /\ a <= ResetTime => b <= ResetTime /\ b >= a - time
        /\ a >= LongAgo => b >= LongAgo
    BY <1>5, Zenon DEF Timed, Falls
  <2> QED  BY <1>9, <2>1
<1>11. CASE out = <<>>
  <2>1. pace' = tested
    BY <1>11 DEF Timed, Stamped
  <2>2. Handed' \div BytesPerMs = x
    BY <1>1, <1>2, <1>11
  <2>3. x - w <= b
    <3>1. CASE w = t + time
      BY <1>3, <1>6, <1>7, <1>9, <1>10, <3>1
    <3>2. CASE w = Len(file) + 2 * ResetTime
      BY <1>0, <1>1, <1>3, <1>6, <1>10, <3>2
    <3> QED  BY <1>7, <3>1, <3>2
  <2>4. pace'.ahead = b /\ Handed' \div BytesPerMs - since' <= b
    BY <1>5, <1>8, <2>1, <2>2, <2>3
  <2>5. AtRate'
    BY <1>10, <2>4 DEF AtRate
  <2> QED  BY <1>10, <1>11, <2>4, <2>5
<1>12. CASE out # <<>>
  <2>1. b <= 0
    <3>1. paced # "unlimited"
      OBVIOUS
    <3>2. b \in -ResetTime .. 0
      BY <1>5, <1>12, <3>1, Zenon DEF Timed
    <3> QED  BY <1>0, <3>2
  <2>2. x <= t + time
    BY <1>3, <1>6, <1>7, <1>9, <1>10, <2>1
  <2>3. x <= w
    <3>1. x <= Len(file) + 2 * ResetTime
      BY <1>0, <1>1, <1>3
    <3> QED  BY <1>7, <2>2, <3>1
  <2>4. position - Len(buf) + Len(out) = e
    <3>1. PICK h, o : h = position - Len(buf) /\ o = Len(out)
      OBVIOUS
    <3>2. h = Handed
      BY <3>1 DEF Handed
    <3>3. h + o = e
      BY <1>1, <3>1, <3>2
    <3> QED  BY <3>1, <3>3
  <2>5. pace' = set_timestamp_bytes(tested, e, w)
    BY <1>5, <1>12, <2>4 DEF Timed, Stamped
  <2>6. pace'.ahead = IF y - w < LongAgo THEN LongAgo ELSE y - w
    BY <1>1, <1>2, <1>7, <2>5, BytesAre
  <2>7. PICK v : v = pace'.ahead
    OBVIOUS
  <2>8. y - w <= v /\ v <= ResetTime /\ v >= LongAgo
    BY <1>0, <1>3, <1>4, <1>7, <2>3, <2>6, <2>7
  <2>9. Handed' \div BytesPerMs - since' <= v
    BY <1>1, <1>2, <1>8, <2>8
  <2>10. AtRate'
    BY <2>7, <2>8, <2>9 DEF AtRate
  <2> QED  BY <1>2, <1>8, <2>3, <2>7, <2>8, <2>10
<1> QED  BY <1>11, <1>12

(* The same number, divided in one way only.                               *)
LEMMA Divided ==
  ASSUME NEW c \in Nat \ {0}, NEW a \in Int, NEW r \in 0 .. c - 1, NEW x \in Int, x = a * c + r
  PROVE  x \div c = a /\ x % c = r
<1>1. PICK y \in Int, z \in Int : y = x \div c /\ z = x % c
  BY SMT
<1>2. x = y * c + z /\ z \in 0 .. c - 1 /\ y * c \in Int /\ a * c \in Int
  BY <1>1, SMT
<1>3. ASSUME NEW u \in Int, NEW v \in Int, u < v PROVE u * c + c <= v * c
  <2>1. (u + 1) * c <= v * c
    <3>1. u + 1 <= v
      BY <1>3
    <3> QED  BY <3>1, SMT
  <2> QED  BY <2>1, SMT
<1>4. ~ (y < a)
  <2>1. y < a => y * c + c <= a * c
    BY <1>3
  <2> QED  BY <1>2, <2>1
<1>5. ~ (a < y)
  <2>1. a < y => a * c + c <= y * c
    BY <1>3
  <2> QED  BY <1>2, <2>1
<1>6. a = y
  BY <1>4, <1>5
<1> QED  BY <1>1, <1>2, <1>6

(* Once a PCR was due, the time stamp is reckoned from it; before, no time *)
(* has passed since.                                                       *)
Follows(p, time) ==
  /\ p \in Paces
  /\ p.ahead >= LongAgo
  /\ p.set_last_PCR \/ time = 0
  /\ p.set_last_PCR /\ time < PcrRound => Reckoned(p, time)

(* A time stamp that goes on with the PCRs loses no part of a unit.        *)
LEMMA AdvancedIs ==
  ASSUME NEW p \in Paces, NEW diff \in Nat \ {0}
  PROVE  LET q == Advanced(p, diff)
         IN  /\ q \in Paces
             /\ q.set_last_PCR = p.set_last_PCR /\ q.first_PCR = p.first_PCR
             /\ q.PCR_base = p.PCR_base
             /\ q.ahead >= p.ahead
             /\ q.ahead * TicksPerMs + q.remain_PCR = p.ahead * TicksPerMs + p.remain_PCR + diff
<1>1. PICK c \in Nat \ {0} : c = TicksPerMs
  BY PaceNumbers
<1>2. PICK a \in Int, d \in 0 .. c - 1 : a = p.ahead /\ d = p.remain_PCR
  BY <1>1 DEF Paces
<1>3. PICK ticks \in Nat : ticks = diff + p.remain_PCR
  BY <1>1, <1>2
<1>4. PICK k \in Int, r \in Int : k = ticks \div c /\ r = ticks % c
  BY SMT
<1>5. r \in 0 .. c - 1 /\ ticks = k * c + r /\ k \in Nat
  BY <1>4, SMT
<1>6. PICK n \in Int : n = a + k
  OBVIOUS
<1>7. Advanced(p, diff) = [p EXCEPT !.ahead = n, !.remain_PCR = r]
  BY <1>1, <1>2, <1>3, <1>4, <1>6, Zenon DEF Advanced
<1>8. PICK m : m = [p EXCEPT !.ahead = n]
  OBVIOUS
<1>9. PICK q : q = [m EXCEPT !.remain_PCR = r]
  OBVIOUS
<1>10. m \in Paces /\ m.ahead = n /\ m.set_last_PCR = p.set_last_PCR /\ m.first_PCR = p.first_PCR /\ m.PCR_base = p.PCR_base
  BY <1>8 DEF Paces
<1>11. /\ q \in Paces /\ q.ahead = n /\ q.remain_PCR = r
       /\ q.set_last_PCR = p.set_last_PCR /\ q.first_PCR = p.first_PCR /\ q.PCR_base = p.PCR_base
  BY <1>1, <1>5, <1>9, <1>10 DEF Paces
<1>12. Advanced(p, diff) = q
  BY <1>7, <1>8, <1>9
<1>13. n >= a
  BY <1>5, <1>6
<1>14. n * c + r = a * c + d + diff
  <2>1. n * c = a * c + k * c
    BY <1>6, SMT
  <2>2. PICK i \in Int, j \in Int : i = a * c /\ j = k * c
    BY SMT
  <2>3. i + j + r = i + d + diff
    <3>1. d \in Nat /\ r \in Nat /\ diff \in Nat /\ ticks = diff + d
      BY <1>1, <1>2, <1>3, <1>5
    <3>2. ticks = j + r
      BY <1>5, <2>2, Zenon
    <3> QED  BY <2>2, <3>1, <3>2
  <2> QED  BY <2>1, <2>2, <2>3
<1> QED  BY <1>1, <1>2, <1>11, <1>12, <1>13, <1>14

(* A PCR that is past another is so by the ticks between them, with or     *)
(* without a wrap.                                                         *)
LEMMA DiffIs ==
  ASSUME NEW a \in Int, NEW b \in Int
  PROVE  \E k \in Int : diff_PCR(a, b) = a - b + k * PCR_BASE_MAX
<1>1. PICK m \in Nat : m = PCR_BASE_MAX
  BY PaceNumbers
<1>2. diff_PCR(a, b) \in {a - b, a - b + m}
  BY <1>1 DEF diff_PCR
<1>3. a - b = a - b + 0 * m /\ a - b + m = a - b + 1 * m
  BY SMT
<1>4. CASE diff_PCR(a, b) = a - b
  <2>1. diff_PCR(a, b) = a - b + 0 * PCR_BASE_MAX
    BY <1>1, <1>3, <1>4
  <2> QED  BY <2>1
<1>5. CASE diff_PCR(a, b) = a - b + m
  <2>1. diff_PCR(a, b) = a - b + 1 * PCR_BASE_MAX
    BY <1>1, <1>3, <1>5
  <2> QED  BY <2>1
<1> QED  BY <1>2, <1>4, <1>5

LEMMA ReckonedOn ==
  ASSUME NEW p \in Paces, NEW time \in Nat, Reckoned(p, time),
         NEW pcr \in 0 .. PCR_BASE_MAX - 1, NEW diff \in Nat, diff = diff_PCR(pcr, p.last_PCR),
         NEW q \in Paces, q.last_PCR = pcr, q.first_PCR = p.first_PCR,
         q.ahead * TicksPerMs + q.remain_PCR = p.ahead * TicksPerMs + p.remain_PCR + diff
  PROVE  Reckoned(q, time)
<1>1. PICK c \in Nat \ {0}, m \in Nat : c = TicksPerMs /\ m = PCR_BASE_MAX
  BY PaceNumbers
<1>2. PICK l, f : l = p.last_PCR /\ f = p.first_PCR
  OBVIOUS
<1>3. PICK a \in Int, b \in Int, d \in Int, g \in Int :
        a = p.ahead /\ b = q.ahead /\ d = p.remain_PCR /\ g = q.remain_PCR
  BY <1>1 DEF Paces
<1>4. PICK s \in Nat, r \in 0 .. c - 1, k \in Int :
        s = l - f + k * m /\ s + r = (a + time) * c + d
  BY <1>1, <1>2, <1>3 DEF Reckoned
<1>5. l \in Int /\ f \in Int /\ f \in 0 .. m - 1
  BY <1>1, <1>2 DEF Reckoned
<1>6. PICK j \in Int : diff = pcr - l + j * m
  <2>1. pcr \in Int
    BY <1>1
  <2>2. PICK j \in Int : diff_PCR(pcr, l) = pcr - l + j * PCR_BASE_MAX
    BY <1>5, <2>1, DiffIs
  <2>3. diff = pcr - l + j * m
    BY <1>1, <1>2, <2>2, Zenon
  <2> QED  BY <2>3
<1>7. PICK w \in Nat : w = s + diff
  OBVIOUS
<1>8. w = pcr - f + (k + j) * m
  <2>1. (k + j) * m = k * m + j * m /\ k * m \in Int /\ j * m \in Int
    BY SMT
  <2>2. PICK x \in Int, y \in Int : x = k * m /\ y = j * m
    BY <2>1
  <2>3. s = l - f + x /\ diff = pcr - l + y
    BY <1>4, <1>6, <2>2
  <2>4. w = pcr - f + (x + y)
    BY <1>5, <1>7, <2>3
  <2> QED  BY <2>1, <2>2, <2>4
<1>9. w + r = (b + time) * c + g
  <2>1. (a + time) * c = a * c + time * c /\ (b + time) * c = b * c + time * c
    BY SMT
  <2>2. PICK x \in Int, y \in Int, z \in Int : x = a * c /\ y = b * c /\ z = time * c
    BY SMT
  <2>3. y + g = x + d + diff
    BY <1>1, <1>3, <2>2
  <2>4. s + r = x + z + d
    BY <1>4, <2>1, <2>2
  <2>5. w + r = y + z + g
    BY <1>7, <2>3, <2>4
  <2> QED  BY <2>1, <2>2, <2>5
<1>10. k + j \in Int
  OBVIOUS
<1>11. \E ss \in Nat, rr \in 0 .. TicksPerMs - 1, kk \in Int :
         /\ ss = q.last_PCR - q.first_PCR + kk * PCR_BASE_MAX
         /\ ss + rr = (q.ahead + time) * TicksPerMs + q.remain_PCR
  <2>1. w = q.last_PCR - q.first_PCR + (k + j) * PCR_BASE_MAX
    BY <1>1, <1>2, <1>8
  <2>2. w + r = (q.ahead + time) * TicksPerMs + q.remain_PCR
    BY <1>1, <1>3, <1>9
  <2>3. r \in 0 .. TicksPerMs - 1
    BY <1>1
  <2> QED  BY <1>10, <2>1, <2>2, <2>3
<1> QED  BY <1>1, <1>2, <1>5, <1>11 DEF Reckoned

LEMMA ReckonedFirst ==
  ASSUME NEW q \in Paces, NEW pcr \in 0 .. PCR_BASE_MAX - 1,
         q.ahead = 0, q.last_PCR = pcr, q.first_PCR = pcr
  PROVE  Reckoned(q, 0)
<1>1. PICK c \in Nat \ {0}, m \in Nat : c = TicksPerMs /\ m = PCR_BASE_MAX
  BY PaceNumbers
<1>2. PICK d \in 0 .. c - 1 : d = q.remain_PCR
  BY <1>1 DEF Paces
<1>3. 0 = pcr - pcr + 0 * m /\ 0 + d = (0 + 0) * c + d
  BY <1>1, SMT
<1>4. 0 \in Nat /\ 0 \in Int
  OBVIOUS
<1>5. \E s \in Nat, r \in 0 .. TicksPerMs - 1, k \in Int :
        /\ s = q.last_PCR - q.first_PCR + k * PCR_BASE_MAX
        /\ s + r = (q.ahead + 0) * TicksPerMs + q.remain_PCR
  BY <1>1, <1>2, <1>3, <1>4
<1> QED  BY <1>5 DEF Reckoned

LEMMA ReckonedSame ==
  ASSUME NEW p, NEW q, NEW u \in Int, NEW v \in Int, p.ahead \in Int, q.ahead \in Int,
         q.last_PCR = p.last_PCR, q.first_PCR = p.first_PCR, q.remain_PCR = p.remain_PCR,
         q.ahead + v = p.ahead + u, Reckoned(p, u)
  PROVE  Reckoned(q, v)
BY Zenon DEF Reckoned

(* One PCR more, whatever it is.                                           *)
LEMMA AfterPcrFollows ==
  ASSUME NEW p, NEW time \in Nat, Follows(p, time), NEW pcr \in Pcrs
  PROVE  Follows(AfterPcr(p, pcr), time)
<1>0. p \in Paces /\ LongAgo \in Int /\ LongAgo < 0 /\ p.ahead \in Int /\ p.last_PCR \in Int
  BY PaceNumbers DEF Follows, LongAgo, Paces
<1>1. CASE pcr = NoPcr
  <2>1. AfterPcr(p, pcr) = p
    BY <1>1 DEF AfterPcr
  <2> QED  BY <2>1
<1>2. CASE pcr # NoPcr
  <2>1. pcr \in 0 .. PCR_BASE_MAX - 1 /\ pcr \in Int
    BY <1>2, PaceNumbers DEF Pcrs
  <2>2. PICK seen : seen = [p EXCEPT !.PCR_base = pcr]
    OBVIOUS
  <2>3. /\ seen \in Paces
        /\ seen.ahead = p.ahead /\ seen.set_last_PCR = p.set_last_PCR
        /\ seen.last_PCR = p.last_PCR /\ seen.first_PCR = p.first_PCR
        /\ seen.remain_PCR = p.remain_PCR
    BY <1>0, <2>1, <2>2 DEF Paces
  <2>4. PICK diff \in Int : diff = diff_PCR(pcr, p.last_PCR)
    BY <1>0, <2>1, PaceNumbers DEF diff_PCR
  <2>5. Follows(seen, time)
    BY <1>0, <2>3 DEF Follows, Reckoned
  <2>6. CASE AfterPcr(p, pcr) = seen
    BY <2>5, <2>6
  <2>7. CASE ~p.set_last_PCR /\ AfterPcr(p, pcr) = [seen EXCEPT !.set_last_PCR = TRUE, !.ahead = 0,
                                                           !.last_PCR = pcr, !.first_PCR = pcr]
    <3>1. PICK x : x = [seen EXCEPT !.set_last_PCR = TRUE]
      OBVIOUS
    <3>2. PICK y : y = [x EXCEPT !.ahead = 0]
      OBVIOUS
    <3>3. PICK z : z = [y EXCEPT !.last_PCR = pcr]
      OBVIOUS
    <3>4. PICK u : u = [z EXCEPT !.first_PCR = pcr]
      OBVIOUS
    <3>5. x \in Paces /\ x.set_last_PCR = TRUE
      BY <2>3, <3>1 DEF Paces
    <3>6. y \in Paces /\ y.set_last_PCR = TRUE /\ y.ahead = 0
      BY <3>2, <3>5 DEF Paces
    <3>7. z \in Paces /\ z.set_last_PCR = TRUE /\ z.ahead = 0 /\ z.last_PCR = pcr
      BY <2>1, <3>3, <3>6 DEF Paces
    <3>8. u \in Paces /\ u.set_last_PCR = TRUE /\ u.ahead = 0 /\ u.last_PCR = pcr /\ u.first_PCR = pcr
      <4>1. pcr \in Pcrs
        OBVIOUS
      <4> QED  BY <3>4, <3>7, <4>1 DEF Paces
    <3>9. AfterPcr(p, pcr) = u
      BY <2>7, <3>1, <3>2, <3>3, <3>4
    <3>10. time = 0
      BY <2>7 DEF Follows
    <3>11. Reckoned(u, time)
      BY <2>1, <3>8, <3>10, ReckonedFirst
    <3> QED  BY <1>0, <3>8, <3>9, <3>11 DEF Follows
  <2>8. CASE p.set_last_PCR /\ diff > 0 /\ AfterPcr(p, pcr) = [Advanced(seen, diff) EXCEPT !.last_PCR = pcr]
    <3>1. diff \in Nat \ {0} /\ diff \in Nat
      BY <2>8
    <3>2. PICK g : g = Advanced(seen, diff)
      OBVIOUS
    <3>3. /\ g \in Paces /\ g.set_last_PCR = seen.set_last_PCR /\ g.first_PCR = seen.first_PCR
          /\ g.ahead >= seen.ahead
          /\ g.ahead * TicksPerMs + g.remain_PCR = seen.ahead * TicksPerMs + seen.remain_PCR + diff
      BY <2>3, <3>1, <3>2, AdvancedIs
    <3>4. PICK u : u = [g EXCEPT !.last_PCR = pcr]
      OBVIOUS
    <3>5. /\ u \in Paces /\ u.last_PCR = pcr
          /\ u.set_last_PCR = g.set_last_PCR /\ u.first_PCR = g.first_PCR
          /\ u.ahead = g.ahead /\ u.remain_PCR = g.remain_PCR
      BY <2>1, <3>3, <3>4 DEF Paces
    <3>6. AfterPcr(p, pcr) = u
      BY <2>8, <3>2, <3>4
    <3>8. /\ u.first_PCR = p.first_PCR
          /\ u.ahead * TicksPerMs + u.remain_PCR = p.ahead * TicksPerMs + p.remain_PCR + diff
      BY <2>3, <3>3, <3>5
    <3>9. time < PcrRound => Reckoned(u, time)
      <4>1. ASSUME time < PcrRound PROVE Reckoned(u, time)
        <5>1. Reckoned(p, time)
          BY <2>8, <4>1 DEF Follows
        <5> QED  BY <1>0, <2>1, <2>4, <3>1, <3>5, <3>8, <5>1, ReckonedOn
      <4> QED  BY <4>1
    <3>10. u.ahead >= LongAgo
      <4>1. PICK a, b : a = p.ahead /\ b = u.ahead
        OBVIOUS
      <4>2. a \in Int /\ b \in Int /\ b >= a /\ a >= LongAgo
        BY <1>0, <2>3, <3>3, <3>5, <4>1 DEF Follows, Paces
      <4> QED  BY <1>0, <4>1, <4>2
    <3>11. u.set_last_PCR
      BY <2>3, <2>8, <3>3, <3>5
    <3> QED  BY <3>5, <3>6, <3>9, <3>10, <3>11 DEF Follows
  <2>9. \/ AfterPcr(p, pcr) = seen
        \/ ~p.set_last_PCR /\ AfterPcr(p, pcr) = [seen EXCEPT !.set_last_PCR = TRUE, !.ahead = 0,
                                                             !.last_PCR = pcr, !.first_PCR = pcr]
        \/ p.set_last_PCR /\ diff > 0 /\ AfterPcr(p, pcr) = [Advanced(seen, diff) EXCEPT !.last_PCR = pcr]
    BY <1>2, <2>2, <2>4, Zenon DEF AfterPcr
  <2> QED  BY <2>6, <2>7, <2>8, <2>9
<1> QED  BY <1>1, <1>2

(* All the PCRs of what is handed on.                                      *)
LEMMA StampedFollows ==
  ASSUME NEW p, NEW time \in Nat, Follows(p, time),
         NEW pcrs, Len(pcrs) \in Nat, \A i \in 1 .. Len(pcrs) : pcrs[i] \in Pcrs
  PROVE  Follows(set_timestamp_pcr(p, pcrs), time)
<1>0. p \in Paces
  BY DEF Follows
<1>1. PICK h : /\ set_timestamp_pcr(p, pcrs) = h[Len(pcrs)]
               /\ \A i \in 0 .. Len(pcrs) : h[i] = IF i = 0 THEN p ELSE AfterPcr(h[i - 1], pcrs[i])
  BY <1>0, Stamping
<1> DEFINE U == {m \in 0 .. Len(pcrs) : Follows(h[m], time)}
<1>2. 0 \in U
  BY <1>1
<1>3. ASSUME NEW m \in 0 .. Len(pcrs), m < Len(pcrs), m \in U
      PROVE  m + 1 \in U
  <2>1. m + 1 \in 0 .. Len(pcrs) /\ m + 1 \in 1 .. Len(pcrs) /\ m + 1 # 0 /\ m + 1 - 1 = m
    BY <1>3
  <2>2. h[m + 1] = AfterPcr(h[m], pcrs[m + 1])
    BY <1>1, <2>1
  <2>3. Follows(h[m], time) /\ pcrs[m + 1] \in Pcrs
    BY <1>3, <2>1
  <2> QED  BY <2>1, <2>2, <2>3, AfterPcrFollows
<1>4. Len(pcrs) \in U
  <2> HIDE DEF U
  <2>1. \A m \in 0 .. Len(pcrs) : m \in U
    BY <1>2, <1>3, Climbing
  <2>2. Len(pcrs) \in 0 .. Len(pcrs)
    OBVIOUS
  <2> QED  BY <2>1, <2>2
<1> QED  BY <1>1, <1>4

(* As long as the time stamp is reckoned from the same PCR, and this is no *)
(* longer than a round of them, so it is in a turn.                        *)
LEMMA TestedFollows ==
  ASSUME Given, Placed, Pacing, PaceInv, paced = "pcr", NEW n, NEW out, NEW time \in Nat,
         NEW tested \in Paces, Timed(n, tested, out, time),
         tested.set_last_PCR, tested.ahead > LongAgo, since' < PcrRound
  PROVE  /\ since' = since + time /\ since \in Nat
         /\ tested.ahead = pace.ahead - time
         /\ Reckoned(pace, since)
         /\ Reckoned(tested, since')
<1>1. PICK t, w : t = since /\ w = Elapsed(time)
  OBVIOUS
<1>2. since' = w
  BY <1>1, Zenon DEF Timed, Remember
<1>3. t \in Nat /\ w \in {t + time, PcrRound} /\ w \in Nat
  <2>1. LongTime = PcrRound
    BY DEF LongTime
  <2> QED  BY <1>1, <2>1, ElapsedAs, ElapsedIs
<1>4. w = t + time /\ t < PcrRound /\ PcrRound \in Nat
  BY <1>2, <1>3, RoundIs
<1>5. PICK a, b : a = pace.ahead /\ b = tested.ahead
  OBVIOUS
<1>6. a \in Int /\ b \in Int
  BY <1>5 DEF Pacing, Paces
<1>7. b = a - time /\ pace.set_last_PCR
  BY <1>5, Zenon DEF Timed, Falls
<1>8. a > LongAgo
  <2>1. b > LongAgo /\ LongAgo \in Int
    BY <1>5, PaceNumbers DEF LongAgo
  <2> QED  BY <1>6, <1>7, <2>1
<1>9. Reckoned(pace, t)
  BY <1>1, <1>4, <1>5, <1>7, <1>8 DEF PaceInv, AtPcr
<1>10. b + w = a + t
  BY <1>3, <1>4, <1>6, <1>7
<1>11. Reckoned(tested, w)
  <2>1. tested.last_PCR = pace.last_PCR /\ tested.first_PCR = pace.first_PCR /\ tested.remain_PCR = pace.remain_PCR
    BY DEF Timed, Falls
  <2>2. t \in Int /\ w \in Int
    BY <1>3
  <2>3. pace.ahead \in Int /\ tested.ahead \in Int /\ tested.ahead + w = pace.ahead + t
    BY <1>5, <1>6, <1>10
  <2> QED  BY <1>9, <2>1, <2>2, <2>3, ReckonedSame
<1> QED  BY <1>1, <1>2, <1>3, <1>4, <1>5, <1>7, <1>9, <1>11

(* The stream is as far as the time, to a unit.                            *)
LEMMA StreamedIs ==
  ASSUME NEW p \in Paces, NEW time \in Nat, Reckoned(p, time), p.ahead + time < PcrRound
  PROVE  LET u == p.ahead + time
             streamed == ((p.last_PCR - p.first_PCR) % PCR_BASE_MAX) \div TicksPerMs
         IN  streamed \in u - 1 .. u
<1>1. PICK c \in Nat \ {0}, m \in Nat : c = TicksPerMs /\ m = PCR_BASE_MAX
  BY PaceNumbers
<1>2. PICK l, f : l = p.last_PCR /\ f = p.first_PCR
  OBVIOUS
<1>3. PICK u \in Int : u = p.ahead + time
  BY DEF Paces
<1>4. PICK d \in 0 .. c - 1 : d = p.remain_PCR
  BY <1>1 DEF Paces
<1>5. PICK s \in Nat, r \in 0 .. c - 1, k \in Int : s = l - f + k * m /\ s + r = u * c + d
  BY <1>1, <1>2, <1>3, <1>4 DEF Reckoned
<1>6. l \in Int /\ f \in Int /\ l \in 0 .. m - 1
  BY <1>1, <1>2 DEF Reckoned
<1>7. m \in Nat \ {0}
  BY <1>6
<1>8. PICK w \in Nat : w = PcrRound
  BY RoundIs
<1>9. w * c <= m /\ w * c \in Int
  <2>1. w = m \div c
    BY <1>1, <1>8 DEF PcrRound
  <2> QED  BY <2>1, <1>7, SMT
<1>10. u + 1 <= w
  BY <1>3, <1>8
<1>11. s < m
  <2>1. (u + 1) * c <= w * c
    BY <1>10, SMT
  <2>2. (u + 1) * c = u * c + c /\ u * c \in Int
    BY SMT
  <2>3. PICK x \in Int, y \in Int : x = u * c /\ y = w * c
    BY <1>9, <2>2
  <2>4. x + c <= y /\ y <= m /\ s + r = x + d
    BY <1>5, <1>9, <2>1, <2>2, <2>3
  <2> QED  BY <2>4
<1>12. (l - f) % m = s
  <2>1. l - f = (-k) * m + s
    <3>1. (-k) * m = -(k * m) /\ k * m \in Int
      BY SMT
    <3>2. PICK x \in Int : x = k * m
      BY <3>1
    <3>3. l - f = -x + s
      BY <1>5, <1>6, <3>2
    <3> QED  BY <3>1, <3>2, <3>3
  <2>2. PICK x \in Int, a \in Int : x = l - f /\ a = -k
    BY <1>6
  <2>3. x = a * m + s /\ s \in 0 .. m - 1
    BY <1>11, <2>1, <2>2
  <2>4. x % m = s
    BY <1>7, <2>3, Divided
  <2> QED  BY <2>2, <2>4
<1>13. s \div c \in u - 1 .. u
  <2>1. CASE d >= r
    <3>1. s = u * c + (d - r) /\ d - r \in 0 .. c - 1
      <4>1. PICK x \in Int : x = u * c
        BY SMT
      <4>2. s = x + (d - r)
        BY <1>5, <4>1
      <4> QED  BY <2>1, <4>1, <4>2
    <3>2. s \div c = u
      BY <3>1, Divided
    <3> QED  BY <3>2
  <2>2. CASE d < r
    <3>1. s = (u - 1) * c + (c + d - r) /\ c + d - r \in 0 .. c - 1
      <4>1. PICK x \in Int : x = u * c
        BY SMT
      <4>2. (u - 1) * c = x - c
        BY <4>1, SMT
      <4>3. s = x - c + (c + d - r)
        BY <1>5, <4>1
      <4> QED  BY <2>2, <4>2, <4>3
    <3>2. PICK v \in Int : v = u - 1
      OBVIOUS
    <3>3. s = v * c + (c + d - r)
      BY <3>1, <3>2
    <3>4. s \div c = v
      BY <3>1, <3>3, Divided
    <3> QED  BY <3>2, <3>4
  <2> QED  BY <2>1, <2>2
<1> QED  BY <1>1, <1>2, <1>3, <1>12, <1>13

(* Nor is anything handed on, as the PCRs go, before its time.             *)
LEMMA PcrStep ==
  ASSUME Given, Placed, Pacing, PaceInv, paced = "pcr",
         NEW n \in ReadSizes, NEW q, NEW e \in Handed .. Len(file), NEW out,
         Turned(n, q, e, out), NEW time \in Nat, NEW tested \in Paces, Timed(n, tested, out, time)
  PROVE  /\ AtPcr'
         /\ pace'.ahead >= LongAgo
         /\ out # <<>> /\ same_clock' /\ since' < PcrRound =>
              since' - Streamed \in 0 .. ResetTime + 1
<1>0. ResetTime \in Nat \ {0} /\ LongAgo = -ResetTime - 1
  BY FilePaceAssumption DEF FilePaceAssumption, LongAgo
<1>1. /\ (same_clock' <=> tested.set_last_PCR)
      /\ ~tested.set_last_PCR => since' = 0
      /\ since' \in Nat
      /\ paced' = paced
  <2>1. same_clock' = tested.set_last_PCR /\ since' \in {Elapsed(time), 0} /\ paced' = paced
    BY Zenon DEF Timed, Remember, Turned, inputVars
  <2>2. Elapsed(time) \in Nat
    BY ElapsedIs
  <2>3. since' = IF paced = "rate" \/ same_clock' THEN Elapsed(time) ELSE 0
    BY Zenon DEF Timed, Remember
  <2>4. ~tested.set_last_PCR => since' = 0
    BY <2>1, <2>3
  <2> QED  BY <2>1, <2>2, <2>4
<1>2. PICK b \in Int : b = tested.ahead
  BY DEF Paces
<1>3. b >= LongAgo
  BY <1>2, Zenon DEF Timed, Falls, PaceInv
<1>4. CASE out = <<>>
  <2>1. pace' = tested
    BY <1>4 DEF Timed, Stamped
  <2>2. ASSUME tested.set_last_PCR, tested.ahead > LongAgo, since' < PcrRound
        PROVE  Reckoned(tested, since')
    BY <2>2, TestedFollows
  <2>3. AtPcr'
    BY <2>1, <2>2 DEF AtPcr, Reckoned, PcrRound, LongAgo
  <2> QED  BY <1>2, <1>3, <1>4, <2>1, <2>3
<1>5. CASE out # <<>>
  <2>1. b \in -ResetTime .. 0
    <3>1. paced # "unlimited"
      OBVIOUS
    <3> QED  BY <1>2, <1>5, <3>1, Zenon DEF Timed
  <2>2. b > LongAgo
    BY <1>0, <2>1
  <2>3. PICK t \in Nat : t = since'
    BY <1>1
  <2>4. PICK data, packets, pcrs :
          /\ data = pcr_kept \o out
          /\ packets = Packets(data, Skip(data))
          /\ pcrs = [i \in DOMAIN packets |-> PcrOf(packets[i])]
    OBVIOUS
  <2>5. data \in Seq(FileBytes)
    <3>1. PICK f, h, T : f = file /\ h = Handed /\ T = FileBytes
      OBVIOUS
    <3>2. f \in Seq(T) /\ Len(f) \in Nat
      BY <3>1, FileBytesAre
    <3>3. h \in 0 .. Len(f) /\ e \in h .. Len(f)
      BY <3>1, <3>2 DEF Placed
    <3>4. out = Slice(f, h, e)
      BY <3>1, Zenon DEF Turned, Moved
    <3>5. Slice(f, h, e) \in Seq(T)
      BY <3>2, <3>3, SliceIs
    <3>6. out \in Seq(FileBytes) /\ pcr_kept \in Seq(FileBytes)
      BY <3>1, <3>4, <3>5 DEF Pacing
    <3> QED  BY <2>4, <3>6, ConcatProperties
  <2>6. Len(pcrs) \in Nat /\ \A i \in 1 .. Len(pcrs) : pcrs[i] \in Pcrs
    BY <2>4, <2>5, PcrsAre
  <2>7. pace' = set_timestamp_pcr(tested, pcrs)
    BY <1>5, <2>4 DEF Timed, Stamped
  <2>8. CASE ~tested.set_last_PCR
    <3>1. t = 0
      BY <1>1, <2>3, <2>8
    <3>2. Follows(tested, t)
      BY <1>2, <1>3, <2>8, <3>1 DEF Follows
    <3>3. Follows(pace', t)
      BY <2>6, <2>7, <3>2, StampedFollows
    <3>4. AtPcr' /\ pace'.ahead >= LongAgo
      BY <2>3, <3>3 DEF Follows, AtPcr, Reckoned, PcrRound
    <3> QED  BY <1>1, <2>8, <3>4
  <2>9. ASSUME tested.set_last_PCR, t < PcrRound
        PROVE  /\ t = since + time /\ since \in Nat
               /\ b = pace.ahead - time
               /\ Reckoned(pace, since)
               /\ Reckoned(tested, t)
    BY <1>2, <2>2, <2>3, <2>9, TestedFollows
  <2>10. CASE tested.set_last_PCR
    <3>1. Follows(tested, t)
      BY <1>2, <1>3, <2>9, <2>10 DEF Follows
    <3>2. Follows(pace', t)
      BY <2>6, <2>7, <3>1, StampedFollows
    <3>3. AtPcr' /\ pace'.ahead >= LongAgo
      BY <2>3, <3>2 DEF Follows, AtPcr, Reckoned, PcrRound
    <3>4. ASSUME t < PcrRound PROVE t - Streamed \in 0 .. ResetTime + 1
      <4>1. PICK a \in Int : a = pace.ahead
        BY DEF Pacing, Paces
      <4>2. /\ t = since + time /\ since \in Nat /\ b = a - time /\ Reckoned(pace, since)
        BY <2>9, <2>10, <3>4, <4>1
      <4>3. PICK u \in Int : u = a + since
        BY <4>2
      <4>4. u = b + t
        BY <4>2, <4>3
      <4>5. u < PcrRound
        BY <2>1, <3>4, <4>4, RoundIs
      <4>6. Streamed \in u - 1 .. u
        BY <4>1, <4>2, <4>3, <4>5, StreamedIs DEF Streamed, Pacing
      <4>7. PICK v \in Int : v = Streamed
        BY <4>6
      <4>8. t - v \in 0 .. ResetTime + 1
        BY <1>0, <2>1, <4>4, <4>6, <4>7
      <4> QED  BY <4>7, <4>8
    <3> QED  BY <2>3, <3>3, <3>4
  <2> QED  BY <2>8, <2>10
<1> QED  BY <1>4, <1>5

LEMMA PaceFirst ==
  ASSUME Init
  PROVE  PaceInv
<1>1. Len(buf) = 0 /\ position = 0
  BY EmptySeq DEF Init
<1>2. PICK u : u = Len(buf)
  OBVIOUS
<1>3. position - u = 0
  BY <1>1, <1>2
<1>4. Handed = 0
  BY <1>2, <1>3 DEF Handed
<1>5. pace.ahead = 0 /\ pace.set_last_PCR = FALSE /\ since = 0 /\ held = 0
  BY DEF Init, FirstPace
<1>6. 0 \div BytesPerMs = 0
  <2>1. PICK c \in Nat \ {0} : c = BytesPerMs
    BY PaceNumbers
  <2> QED  BY <2>1, SMT
<1>7. ResetTime \in Nat /\ LongAgo = -ResetTime - 1
  BY PaceNumbers DEF LongAgo
<1>8. Waiting
  BY <1>1, <1>5, PacketSizeIs DEF Waiting
<1>9. AtRate
  BY <1>4, <1>5, <1>6, <1>7 DEF AtRate
<1>10. AtPcr
  BY <1>5 DEF AtPcr
<1> QED  BY <1>5, <1>7, <1>8, <1>9, <1>10 DEF PaceInv

(* A turn keeps the pace, and hands on in time.                            *)
LEMMA PaceTurn ==
  ASSUME RateFits, IInv, PaceInv,
         NEW n \in ReadSizes, NEW before \in Times, NEW during \in TimesInWait,
         Turn(n, before, during)
  PROVE  PaceInv' /\ (HandsOn => InPace) /\ held' < ResetTime
<1> USE DEF IInv
<1>1. PICK out :
        /\ \E q \in Nat, e \in Handed .. Len(file) : Turned(n, q, e, out)
        /\ \E tested \in Paces : Timed(n, tested, out, before + during)
  BY TurnMoves
<1>2. PICK q \in Nat, e \in Handed .. Len(file) : Turned(n, q, e, out)
  BY <1>1
<1>3. PICK time \in Nat : time = before + during
  BY TimesAre
<1>4. PICK tested \in Paces : Timed(n, tested, out, time)
  BY <1>1, <1>3
<1>5. Waiting' /\ held' < ResetTime
  BY <1>2, <1>4, WaitingStep DEF PaceInv
<1>6. HandsOn => out # <<>>
  <2>1. /\ Handed \in Nat /\ e \in Nat
        /\ Handed' = e
        /\ out = <<>> => e = Handed
    BY <1>2, TurnSizes
  <2>2. HandsOn <=> Handed' > Handed
    BY DEF HandsOn, Handed
  <2> QED  BY <2>1, <2>2
<1>7. paced' = paced
  BY <1>2, Zenon DEF Turned, inputVars
<1>8. CASE paced = "rate"
  <2>1. /\ AtRate'
        /\ pace'.ahead >= LongAgo
        /\ out # <<>> => Handed \div BytesPerMs <= since'
    BY <1>2, <1>4, <1>8, RateStep
  <2>2. AtPcr'
    BY <1>7, <1>8 DEF AtPcr
  <2>3. HandsOn => InPace
    BY <1>6, <1>8, <2>1, Zenon DEF InPace, Handed
  <2> QED  BY <1>5, <2>1, <2>2, <2>3 DEF PaceInv, LongAgo
<1>9. CASE paced = "pcr"
  <2>1. /\ AtPcr'
        /\ pace'.ahead >= LongAgo
        /\ out # <<>> /\ same_clock' /\ since' < PcrRound =>
             since' - Streamed \in 0 .. ResetTime + 1
    BY <1>2, <1>4, <1>9, PcrStep
  <2>2. AtRate'
    BY <1>7, <1>9 DEF AtRate
  <2>3. HandsOn => InPace
    BY <1>6, <1>9, <2>1 DEF InPace
  <2> QED  BY <1>5, <2>1, <2>2, <2>3 DEF PaceInv, LongAgo
<1>10. CASE paced = "unlimited"
  <2>1. AtRate' /\ AtPcr'
    BY <1>7, <1>10 DEF AtRate, AtPcr
  <2>2. pace'.ahead >= LongAgo
    <3>1. pace' = tested
      BY <1>4, <1>10 DEF Timed, Stamped
    <3>2. pace.ahead >= LongAgo => tested.ahead >= LongAgo
      BY <1>4, Zenon DEF Timed, Falls
    <3> QED  BY <3>1, <3>2 DEF PaceInv
  <2>3. InPace
    BY <1>10 DEF InPace
  <2> QED  BY <1>5, <2>1, <2>2, <2>3 DEF PaceInv, LongAgo
<1> QED  BY <1>8, <1>9, <1>10 DEF Given

LEMMA PaceNext ==
  ASSUME RateFits, IInv, PaceInv, [Next]_vars
  PROVE  PaceInv' /\ [(HandsOn => InPace) /\ held' < ResetTime]_vars
<1>1. CASE Receive
  <2>1. PICK n \in ReadSizes, before \in Times, during \in TimesInWait : Turn(n, before, during)
    BY <1>1 DEF Receive
  <2> QED  BY <2>1, PaceTurn
<1>2. CASE UNCHANGED vars
  BY <1>2 DEF PaceInv, Waiting, AtRate, AtPcr, Reckoned, Handed, LongAgo, PcrRound,
              vars, inputVars, paceVars
<1> QED  BY <1>1, <1>2 DEF Next, Ended

(* Nothing is handed on before its time, by the PCRs or by the rate, nor,  *)
(* by the PCRs, later than what a time stamp may be behind; and whatever   *)
(* the stream is, no block waits longer than that in the read buffer.      *)
THEOREM PaceIsKept == ASSUME RateFits PROVE Spec => KeepsPace
<1>1. Init => PaceInv
  BY PaceFirst
<1>2. IInv /\ PaceInv /\ [Next]_vars =>
        PaceInv' /\ [(HandsOn => InPace) /\ held' < ResetTime]_vars
  BY PaceNext
<1> QED  BY <1>1, <1>2, IInvAlways, PTL DEF Spec, KeepsPace
=============================================================================
