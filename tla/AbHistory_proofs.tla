-------------------------- MODULE AbHistory_proofs --------------------------
(***************************************************************************)
(* Proofs about the history of a buffer: with it the buffer keeps all of   *)
(* its invariants; what the history counts is in the buffer, and nothing   *)
(* of the last ticks is left out; and recordings begin on packets.  For    *)
(* any number of downstreams, sizes, streams, ticks and settings back of   *)
(* the clock.                                                              *)
(***************************************************************************)
EXTENDS AbHistory, AdvancedBuffer_proofs, WellFoundedInduction

(***************************************************************************)
(* The inductive invariant.  The counter and the keeper are connected from *)
(* the beginning to the end, and the counter is visited first: when the    *)
(* keeper lets go of bytes, all that came in has been counted (Pair).      *)
(***************************************************************************)
Pair ==
  /\ scan # Deleted => {Counter, Keeper} \subseteq in_use
  /\ scan = Deleted => in_use = {}
  /\ {Counter, Keeper} \cap close_flg = {}
  /\ opt[Counter] = HistoryOption /\ opt[Keeper] = HistoryOption
  /\ scan \in (Slots \cup {CheckClose}) \ {Counter} => pos[Counter] = buf_used

(* What is counted is what was in the window when the newest record was    *)
(* opened.                                                                 *)
Summed ==
  backward_bytes = IF records = << >> THEN 0 ELSE BytesInWindow(records, records[1].timenum)

(* The bytes in the newest m records, as far as they are not older.        *)
Within(recs, since) ==
  [i \in 1 .. Len(recs) |-> IF recs[i].timenum >= since THEN recs[i].bytes ELSE 0]

NewestBytes(m, since) == SumOf(Within(records, since), m)

LatestTick == IF records[1].timenum > now THEN records[1].timenum ELSE now

(* What came in during the last n ticks is in the newest n records, but    *)
(* for one more each time the clock was set back, and one less when the    *)
(* next output opens a record of its own; and these are not older than n   *)
(* ticks.                                                                  *)
Reach(n) ==
  IF records[1].timenum = now THEN n + set_backs ELSE n + set_backs - 1

Recent ==
  IF records = << >> THEN set_backs = 0 /\ \A t \in 1 .. Num : given[t] = 0
  ELSE \A n \in 1 .. Num : n + set_backs <= Num =>
         \E m \in 0 .. Len(records) :
           /\ m <= Reach(n)
           /\ SumOf(given, n) <= NewestBytes(m, LatestTick - n + 1)

HInv ==
  /\ IInv
  /\ HTypeOK
  /\ Pair
  /\ Summed
  /\ Recent
  /\ HistoryKept
  /\ BeginsOnPacket

-----------------------------------------------------------------------------
(***************************************************************************)
(* Sums.                                                                   *)
(***************************************************************************)

(* A set of naturals that is not empty has a first element.                *)
LEMMA FirstOne ==
  ASSUME NEW T, T \subseteq Nat, T # {}
  PROVE  \E x \in T : \A y \in T : x <= y
<1> DEFINE R == OpToRel(<, Nat)
<1>1. IsWellFoundedOn(R, Nat)
  BY NatLessThanWellFounded
<1>2. \A x, y \in Nat : <<y, x>> \in R <=> y < x
  BY DEF OpToRel
<1> HIDE DEF R
<1>3. PICK x \in T : \A y \in T : ~ (<<y, x>> \in R)
  BY <1>1, WFMin
<1>4. ASSUME NEW y \in T PROVE x <= y
  <2>1. x \in Nat /\ y \in Nat /\ ~ (y < x)
    BY <1>2, <1>3
  <2> QED  BY <2>1
<1> QED  BY <1>4

(* What holds at 0, and at m + 1 if at m, holds up to n.                   *)
LEMMA Climbing ==
  ASSUME NEW n \in Nat, NEW T, 0 \in T,
         \A m \in 0 .. n : m < n /\ m \in T => m + 1 \in T
  PROVE  \A m \in 0 .. n : m \in T
<1> DEFINE U == {m \in 0 .. n : m \notin T}
<1> SUFFICES ASSUME U # {} PROVE FALSE
  OBVIOUS
<1>1. PICK x \in U : \A y \in U : x <= y
  <2>1. U \subseteq Nat
    OBVIOUS
  <2> HIDE DEF U
  <2> QED  BY <2>1, FirstOne
<1>2. x \in 0 .. n /\ x \notin T /\ x # 0
  OBVIOUS
<1>3. x - 1 \in 0 .. n /\ x - 1 < n /\ ~ (x <= x - 1)
  BY <1>2
<1>4. x - 1 \in T
  BY <1>1, <1>3
<1>5. x - 1 + 1 = x
  BY <1>2
<1> QED  BY <1>2, <1>3, <1>4, <1>5

IsSum(s, f, n) == s = [i \in 0 .. n |-> IF i = 0 THEN 0 ELSE s[i - 1] + f[i]]

(* The recursion of SumOf has a solution.                                  *)
LEMMA Summing ==
  ASSUME NEW f, NEW n \in Nat
  PROVE  \E s : IsSum(s, f, n) /\ SumOf(f, n) = s[n]
<1> DEFINE T == {m \in 0 .. n : \E s : IsSum(s, f, m)}
<1>1. 0 \in T
  <2>1. IsSum([i \in 0 .. 0 |-> 0], f, 0)
    BY DEF IsSum
  <2> QED  BY <2>1
<1>2. ASSUME NEW m \in 0 .. n, m < n, m \in T PROVE m + 1 \in T
  <2>1. PICK s : IsSum(s, f, m)
    BY <1>2
  <2> DEFINE last == s[m] + f[m + 1]
             g == [i \in 0 .. m + 1 |-> IF i = m + 1 THEN last ELSE s[i]]
  <2>2. \A i \in 0 .. m : s[i] = IF i = 0 THEN 0 ELSE s[i - 1] + f[i]
    BY <2>1 DEF IsSum
  <2>3. \A i \in 0 .. m : g[i] = s[i]
    OBVIOUS
  <2>4. g[m + 1] = last /\ m + 1 # 0 /\ m + 1 - 1 = m
    OBVIOUS
  <2>5. \A i \in 0 .. m + 1 : i # m + 1 => i \in 0 .. m /\ (i # 0 => i - 1 \in 0 .. m)
    OBVIOUS
  <2>6. g[m] = s[m]
    BY <2>3
  <2>7. g = [i \in 0 .. m + 1 |-> g[i]]
    OBVIOUS
  <2> HIDE DEF g
  <2>8. \A i \in 0 .. m + 1 : g[i] = IF i = 0 THEN 0 ELSE g[i - 1] + f[i]
    BY <2>2, <2>3, <2>4, <2>5, <2>6
  <2>9. IsSum(g, f, m + 1)
    BY <2>7, <2>8 DEF IsSum
  <2>10. m + 1 \in 0 .. n
    BY <1>2
  <2> QED  BY <2>9, <2>10
<1>3. n \in T
  <2> HIDE DEF T
  <2>1. \A m \in 0 .. n : m \in T
    BY <1>1, <1>2, Climbing
  <2>2. n \in 0 .. n
    OBVIOUS
  <2> QED  BY <2>1, <2>2
<1>4. PICK h : h = CHOOSE s : IsSum(s, f, n)
  OBVIOUS
<1>5. IsSum(h, f, n)
  BY <1>3, <1>4
<1>6. SumOf(f, n) = h[n]
  BY <1>4, Zenon DEF SumOf, IsSum
<1> QED  BY <1>5, <1>6

(* Two functions that follow the recursion agree as far as both go.        *)
LEMMA SumsAgree ==
  ASSUME NEW f, NEW n \in Nat, NEW m \in 0 .. n, NEW s, NEW t,
         IsSum(s, f, n), IsSum(t, f, m)
  PROVE  t[m] = s[m]
<1> DEFINE T == {i \in 0 .. m : t[i] = s[i]}
<1>1. \A i \in 0 .. m : /\ t[i] = IF i = 0 THEN 0 ELSE t[i - 1] + f[i]
                       /\ s[i] = IF i = 0 THEN 0 ELSE s[i - 1] + f[i]
  <2>1. 0 .. m \subseteq 0 .. n
    OBVIOUS
  <2> QED  BY <2>1, Zenon DEF IsSum
<1>2. 0 \in 0 .. m
  OBVIOUS
<1>3. 0 \in T
  BY <1>1, <1>2
<1>4. ASSUME NEW i \in 0 .. m, i < m, i \in T PROVE i + 1 \in T
  <2>1. i + 1 \in 0 .. m /\ i + 1 # 0 /\ i + 1 - 1 = i
    BY <1>4
  <2>2. t[i + 1] = t[i] + f[i + 1] /\ s[i + 1] = s[i] + f[i + 1]
    BY <1>1, <2>1
  <2> QED  BY <1>4, <2>1, <2>2
<1>5. \A i \in 0 .. m : i \in T
  <2> HIDE DEF T
  <2>1. m \in Nat
    OBVIOUS
  <2> QED  BY <1>3, <1>4, <2>1, Climbing
<1>6. m \in 0 .. m
  OBVIOUS
<1> QED  BY <1>5, <1>6

LEMMA SumIs ==
  ASSUME NEW n \in Nat, NEW f, \A i \in 1 .. n : f[i] \in Nat
  PROVE  /\ SumOf(f, 0) = 0
         /\ \A i \in 1 .. n : SumOf(f, i) = SumOf(f, i - 1) + f[i]
         /\ \A i \in 0 .. n : SumOf(f, i) \in Nat
<1>1. PICK s : IsSum(s, f, n)
  BY Summing
<1>2. \A m \in 0 .. n : SumOf(f, m) = s[m]
  <2> SUFFICES ASSUME NEW m \in 0 .. n PROVE SumOf(f, m) = s[m]
    OBVIOUS
  <2>1. m \in Nat
    OBVIOUS
  <2>2. PICK t : IsSum(t, f, m) /\ SumOf(f, m) = t[m]
    BY <2>1, Summing
  <2> QED  BY <1>1, <2>2, SumsAgree
<1>3. s[0] = 0 /\ \A i \in 1 .. n : s[i] = s[i - 1] + f[i]
  <2>1. \A i \in 0 .. n : s[i] = IF i = 0 THEN 0 ELSE s[i - 1] + f[i]
    BY <1>1, Zenon DEF IsSum
  <2>2. 0 \in 0 .. n /\ \A i \in 1 .. n : i \in 0 .. n /\ i # 0
    OBVIOUS
  <2> QED  BY <2>1, <2>2
<1>4. \A i \in 0 .. n : s[i] \in Nat
  <2> DEFINE T == {i \in 0 .. n : s[i] \in Nat}
  <2>1. 0 \in T
    BY <1>3
  <2>2. ASSUME NEW i \in 0 .. n, i < n, i \in T PROVE i + 1 \in T
    <3>1. i + 1 \in 1 .. n /\ i + 1 \in 0 .. n /\ i + 1 - 1 = i
      BY <2>2
    <3>2. s[i + 1] = s[i] + f[i + 1] /\ f[i + 1] \in Nat /\ s[i] \in Nat
      BY <1>3, <2>2, <3>1
    <3> QED  BY <3>1, <3>2
  <2> HIDE DEF T
  <2>3. \A i \in 0 .. n : i \in T
    BY <2>1, <2>2, Climbing
  <2> QED  BY <2>3 DEF T
<1>5. 0 \in 0 .. n /\ \A i \in 1 .. n : i \in 0 .. n /\ i - 1 \in 0 .. n
  OBVIOUS
<1> QED  BY <1>2, <1>3, <1>4, <1>5

(* The sums of n numbers after the first j of f, and after the first k of  *)
(* g that are not smaller.                                                 *)
LEMMA SumCompare ==
  ASSUME NEW n \in Nat, NEW j \in Nat, NEW k \in Nat, NEW f, NEW g,
         \A i \in 1 .. n + j : f[i] \in Nat,
         \A i \in 1 .. n + k : g[i] \in Nat,
         \A i \in 1 .. n : f[i + j] <= g[i + k]
  PROVE  SumOf(f, n + j) - SumOf(f, j) <= SumOf(g, n + k) - SumOf(g, k)
<1>1. /\ \A i \in 1 .. n + j : SumOf(f, i) = SumOf(f, i - 1) + f[i]
      /\ \A i \in 0 .. n + j : SumOf(f, i) \in Nat
  <2>1. n + j \in Nat
    OBVIOUS
  <2> QED  BY <2>1, SumIs
<1>2. /\ \A i \in 1 .. n + k : SumOf(g, i) = SumOf(g, i - 1) + g[i]
      /\ \A i \in 0 .. n + k : SumOf(g, i) \in Nat
  <2>1. n + k \in Nat
    OBVIOUS
  <2> QED  BY <2>1, SumIs
<1> DEFINE T == {i \in 0 .. n : SumOf(f, i + j) - SumOf(f, j) <= SumOf(g, i + k) - SumOf(g, k)}
<1>3. 0 \in T
  <2>1. 0 + j = j /\ 0 + k = k /\ j \in 0 .. n + j /\ k \in 0 .. n + k
    OBVIOUS
  <2> QED  BY <1>1, <1>2, <2>1
<1>4. ASSUME NEW i \in 0 .. n, i < n, i \in T PROVE i + 1 \in T
  <2>1. /\ i + 1 \in 0 .. n /\ i + 1 \in 1 .. n
        /\ i + j \in 0 .. n + j /\ i + k \in 0 .. n + k
        /\ j \in 0 .. n + j /\ k \in 0 .. n + k
        /\ i + 1 + j \in 1 .. n + j /\ i + 1 + k \in 1 .. n + k
        /\ i + 1 + j - 1 = i + j /\ i + 1 + k - 1 = i + k
    BY <1>4
  <2>2. /\ SumOf(f, i + 1 + j) = SumOf(f, i + j) + f[i + 1 + j]
        /\ SumOf(g, i + 1 + k) = SumOf(g, i + k) + g[i + 1 + k]
        /\ f[i + 1 + j] <= g[i + 1 + k]
        /\ f[i + 1 + j] \in Nat /\ g[i + 1 + k] \in Nat
        /\ SumOf(f, i + j) \in Nat /\ SumOf(g, i + k) \in Nat
        /\ SumOf(f, j) \in Nat /\ SumOf(g, k) \in Nat
    BY <1>1, <1>2, <2>1
  <2>3. SumOf(f, i + j) - SumOf(f, j) <= SumOf(g, i + k) - SumOf(g, k)
    BY <1>4
  <2> QED  BY <2>1, <2>2, <2>3
<1>5. n \in T
  <2> HIDE DEF T
  <2>1. \A i \in 0 .. n : i \in T
    BY <1>3, <1>4, Climbing
  <2>2. n \in 0 .. n
    OBVIOUS
  <2> QED  BY <2>1, <2>2
<1> QED  BY <1>5

LEMMA SumMonotone ==
  ASSUME NEW n \in Nat, NEW f, NEW g,
         \A i \in 1 .. n : f[i] \in Nat /\ g[i] \in Nat /\ f[i] <= g[i]
  PROVE  SumOf(f, n) <= SumOf(g, n)
<1>1. n + 0 = n /\ \A i \in 1 .. n : i + 0 = i
  OBVIOUS
<1>2. SumOf(f, n) - SumOf(f, 0) <= SumOf(g, n) - SumOf(g, 0)
  <2>1. 0 \in Nat
    OBVIOUS
  <2>2. \A i \in 1 .. n : f[i + 0] <= g[i + 0]
    BY <1>1
  <2>3. SumOf(f, n + 0) - SumOf(f, 0) <= SumOf(g, n + 0) - SumOf(g, 0)
    BY <1>1, <2>1, <2>2, SumCompare
  <2> QED  BY <1>1, <2>3
<1>3. SumOf(f, 0) = 0 /\ SumOf(g, 0) = 0 /\ SumOf(f, n) \in Nat /\ SumOf(g, n) \in Nat
  BY SumIs
<1> QED  BY <1>2, <1>3

(* More summands make no smaller sum.                                      *)
LEMMA SumGrows ==
  ASSUME NEW n \in Nat, NEW m \in 0 .. n, NEW f, \A i \in 1 .. n : f[i] \in Nat
  PROVE  SumOf(f, m) <= SumOf(f, n)
<1> DEFINE none == [i \in 1 .. n |-> 0]
<1>1. n - m \in Nat /\ m \in Nat /\ n - m + m = n /\ n - m + 0 = n - m /\ 0 \in Nat
  OBVIOUS
<1>2. /\ \A i \in 1 .. n - m : none[i] = 0 /\ i + 0 = i /\ i + m \in 1 .. n
      /\ \A i \in 1 .. n - m + 0 : none[i] \in Nat
  OBVIOUS
<1> HIDE DEF none
<1>3. SumOf(none, n - m) - SumOf(none, 0) <= SumOf(f, n) - SumOf(f, m)
  <2>1. \A i \in 1 .. n - m : none[i + 0] <= f[i + m]
    BY <1>2
  <2>2. SumOf(none, n - m + 0) - SumOf(none, 0) <= SumOf(f, n - m + m) - SumOf(f, m)
    BY <1>1, <1>2, <2>1, SumCompare
  <2> QED  BY <1>1, <2>2
<1>4. SumOf(none, 0) = 0 /\ SumOf(none, n - m) \in Nat
  <2>1. n - m \in 0 .. n - m /\ \A i \in 1 .. n - m : none[i] \in Nat
    BY <1>1, <1>2
  <2> QED  BY <1>1, <2>1, SumIs
<1>5. SumOf(f, m) \in Nat /\ SumOf(f, n) \in Nat
  <2>1. n \in 0 .. n
    OBVIOUS
  <2> QED  BY <2>1, SumIs
<1> QED  BY <1>3, <1>4, <1>5

(* One more number at the front.                                           *)
LEMMA SumShift ==
  ASSUME NEW n \in Nat, NEW f, NEW g,
         \A i \in 1 .. n : f[i] \in Nat /\ g[i + 1] = f[i],
         g[1] \in Nat
  PROVE  SumOf(g, n + 1) = g[1] + SumOf(f, n)
<1>1. n + 0 = n /\ 0 \in Nat /\ 1 \in Nat /\ n + 1 \in Nat
  OBVIOUS
<1>2. \A i \in 1 .. n : i + 0 = i /\ f[i + 0] = g[i + 1] /\ g[i + 1] \in Nat /\ g[i + 1] <= g[i + 1]
  OBVIOUS
<1>3. \A i \in 1 .. n + 1 : g[i] \in Nat
  <2> SUFFICES ASSUME NEW i \in 1 .. n + 1, i # 1 PROVE g[i] \in Nat
    OBVIOUS
  <2>1. i - 1 \in 1 .. n /\ i - 1 + 1 = i
    OBVIOUS
  <2> QED  BY <1>2, <2>1
<1>4. \A i \in 1 .. n + 0 : f[i] \in Nat
  BY <1>1
<1>5. SumOf(f, n + 0) - SumOf(f, 0) <= SumOf(g, n + 1) - SumOf(g, 1)
  <2>1. \A i \in 1 .. n : f[i + 0] <= g[i + 1]
    BY <1>2
  <2> QED  BY <1>1, <1>3, <1>4, <2>1, SumCompare
<1>6. SumOf(g, n + 1) - SumOf(g, 1) <= SumOf(f, n + 0) - SumOf(f, 0)
  <2>1. \A i \in 1 .. n : g[i + 1] <= f[i + 0]
    BY <1>2
  <2> QED  BY <1>1, <1>3, <1>4, <2>1, SumCompare
<1>7. SumOf(f, 0) = 0 /\ SumOf(f, n) \in Nat
  <2>1. n \in 0 .. n
    OBVIOUS
  <2> QED  BY <2>1, SumIs
<1>8. SumOf(g, n + 1) \in Nat /\ SumOf(g, 1) = g[1]
  <2>1. n + 1 \in 0 .. n + 1 /\ 1 \in 1 .. n + 1 /\ 1 - 1 = 0
    OBVIOUS
  <2>2. SumOf(g, 0) = 0 /\ SumOf(g, n + 1) \in Nat /\ SumOf(g, 1) = SumOf(g, 0) + g[1]
    <3>1. PICK w \in Nat : w = n + 1
      BY <1>1
    <3>2. \A i \in 1 .. w : g[i] \in Nat
      BY <1>3, <3>1, Zenon
    <3>3. /\ SumOf(g, 0) = 0
          /\ \A i \in 1 .. w : SumOf(g, i) = SumOf(g, i - 1) + g[i]
          /\ \A i \in 0 .. w : SumOf(g, i) \in Nat
      BY <3>2, SumIs, Zenon
    <3> QED  BY <2>1, <3>1, <3>3
  <2> QED  BY <2>2
<1> QED  BY <1>1, <1>5, <1>6, <1>7, <1>8

(* The first number raised.                                                *)
LEMMA SumRaised ==
  ASSUME NEW n \in Nat \ {0}, NEW d \in Nat, NEW f, NEW g,
         \A i \in 1 .. n : f[i] \in Nat,
         \A i \in 1 .. n : g[i] = IF i = 1 THEN f[1] + d ELSE f[i]
  PROVE  SumOf(g, n) = SumOf(f, n) + d
<1> DEFINE h == [i \in 1 .. n |-> f[i + 1]]
<1>1. n - 1 \in Nat /\ n - 1 + 1 = n /\ 1 \in 1 .. n
  OBVIOUS
<1>2. \A i \in 1 .. n - 1 : /\ h[i] = f[i + 1] /\ h[i] \in Nat /\ g[i + 1] = h[i]
  <2> SUFFICES ASSUME NEW i \in 1 .. n - 1
               PROVE  h[i] = f[i + 1] /\ h[i] \in Nat /\ g[i + 1] = h[i]
    OBVIOUS
  <2>1. i \in 1 .. n /\ i + 1 \in 1 .. n /\ i + 1 # 1
    OBVIOUS
  <2> QED  BY <2>1
<1> HIDE DEF h
<1>3. f[1] \in Nat /\ g[1] = f[1] + d /\ g[1] \in Nat
  BY <1>1
<1>4. SumOf(f, n - 1 + 1) = f[1] + SumOf(h, n - 1) /\ SumOf(g, n - 1 + 1) = g[1] + SumOf(h, n - 1)
  <2>1. \A i \in 1 .. n - 1 : h[i] \in Nat /\ f[i + 1] = h[i]
    BY <1>2
  <2> QED  BY <1>1, <1>2, <1>3, <2>1, SumShift
<1>5. SumOf(h, n - 1) \in Nat
  <2>1. n - 1 \in 0 .. n - 1
    BY <1>1
  <2> QED  BY <1>1, <1>2, <2>1, SumIs
<1> QED  BY <1>1, <1>3, <1>4, <1>5

-----------------------------------------------------------------------------
(***************************************************************************)
(* The records.                                                            *)
(***************************************************************************)
Record == [timenum : 0 .. MaxTick, bytes : Nat]

LEMMA WindowCovers ==
  /\ Num \in Nat \ {0}
  /\ Window \in Nat
  /\ Num - 1 <= Window
<1>1. Overlap \in Nat \ {0} /\ Resolution \in Nat \ {0}
  BY HistoryAssumption
<1>2. PICK o \in Nat, r \in Nat : o = Overlap /\ r = Resolution /\ o > 0 /\ r > 0
  BY <1>1
<1>3. PICK w \in Int : w = o \div r /\ w * r <= o /\ o < w * r + r
  BY <1>2, DivBounds
<1>4. PICK n \in Int : n = (o + r - 1) \div r /\ n * r <= o + r - 1 /\ o + r - 1 < n * r + r
  BY <1>2, DivBounds
<1>5. w >= 0
  BY <1>2, <1>3, SMT
<1>6. n >= 1
  <2> SUFFICES ASSUME n <= 0 PROVE FALSE
    BY <1>4
  <2>1. n * r <= 0
    BY <1>2, SMT
  <2> QED  BY <1>2, <1>4, <2>1
<1>7. n <= w + 1
  <2> SUFFICES ASSUME n >= w + 2 PROVE FALSE
    BY <1>3, <1>4
  <2>1. n * r >= (w + 2) * r
    BY <1>2, SMT
  <2>2. (w + 2) * r = w * r + r + r
    BY <1>2, SMT
  <2>3. n * r \in Int /\ w * r \in Int
    BY <1>2
  <2> QED  BY <1>2, <1>3, <1>4, <2>1, <2>2, <2>3
<1> QED  BY <1>2, <1>3, <1>4, <1>5, <1>6, <1>7 DEF Num, Window

LEMMA WithinIs ==
  ASSUME NEW recs \in Seq(Record), NEW since \in Int
  PROVE  /\ Len(recs) \in Nat
         /\ \A i \in 1 .. Len(recs) :
              /\ recs[i] \in Record /\ recs[i].timenum \in Nat /\ recs[i].bytes \in Nat
              /\ Within(recs, since)[i] = IF recs[i].timenum >= since THEN recs[i].bytes ELSE 0
              /\ Within(recs, since)[i] \in Nat
         /\ \A m \in 0 .. Len(recs) : SumOf(Within(recs, since), m) \in Nat
<1>1. Len(recs) \in Nat /\ \A i \in 1 .. Len(recs) : recs[i] \in Record
  OBVIOUS
<1>2. ASSUME NEW r \in Record PROVE r.timenum \in Nat /\ r.bytes \in Nat
  BY SMT DEF Record
<1>3. \A i \in 1 .. Len(recs) :
        Within(recs, since)[i] = IF recs[i].timenum >= since THEN recs[i].bytes ELSE 0
  BY DEF Within
<1>4. \A i \in 1 .. Len(recs) : Within(recs, since)[i] \in Nat
  BY <1>1, <1>2, <1>3
<1>5. \A m \in 0 .. Len(recs) : SumOf(Within(recs, since), m) \in Nat
  BY <1>1, <1>4, SumIs
<1> QED  BY <1>1, <1>2, <1>3, <1>4, <1>5

LEMMA InWindowIs ==
  ASSUME NEW recs \in Seq(Record), NEW tick \in Int
  PROVE  BytesInWindow(recs, tick) = SumOf(Within(recs, tick - Window), Len(recs))
<1>1. DOMAIN recs = 1 .. Len(recs)
  OBVIOUS
<1>2. [i \in DOMAIN recs |-> IF InWindow(recs[i], tick) THEN recs[i].bytes ELSE 0]
        = Within(recs, tick - Window)
  BY <1>1, Zenon DEF Within, InWindow
<1> QED  BY <1>2, Zenon DEF BytesInWindow

(* Further back there are not fewer bytes.                                 *)
LEMMA FurtherBack ==
  ASSUME NEW recs \in Seq(Record), NEW since \in Int, NEW earlier \in Int, earlier <= since,
         NEW m \in 0 .. Len(recs)
  PROVE  SumOf(Within(recs, since), m) <= SumOf(Within(recs, earlier), m)
<1>1. m \in Nat /\ \A i \in 1 .. m : i \in 1 .. Len(recs)
  BY WithinIs
<1>2. \A i \in 1 .. m : /\ Within(recs, since)[i] \in Nat
                        /\ Within(recs, earlier)[i] \in Nat
                        /\ Within(recs, since)[i] <= Within(recs, earlier)[i]
  <2> SUFFICES ASSUME NEW i \in 1 .. m
               PROVE  /\ Within(recs, since)[i] \in Nat
                      /\ Within(recs, earlier)[i] \in Nat
                      /\ Within(recs, since)[i] <= Within(recs, earlier)[i]
    OBVIOUS
  <2>1. i \in 1 .. Len(recs)
    BY <1>1
  <2>2. /\ recs[i].timenum \in Nat /\ recs[i].bytes \in Nat
        /\ Within(recs, since)[i] = IF recs[i].timenum >= since THEN recs[i].bytes ELSE 0
        /\ Within(recs, earlier)[i] = IF recs[i].timenum >= earlier THEN recs[i].bytes ELSE 0
    BY <2>1, WithinIs
  <2> QED  BY <2>2
<1> QED  BY <1>1, <1>2, SumMonotone

LEMMA OpenedIs ==
  ASSUME HTypeOK
  PROVE  /\ records \in Seq(Record) /\ Len(records) \in 0 .. Num
         /\ Opened \in Seq(Record)
         /\ Len(Opened) \in 1 .. Num
         /\ Len(Opened) - 1 <= Len(records)
         /\ Len(Opened) = Num \/ Len(Opened) - 1 = Len(records)
         /\ Opened[1] = [timenum |-> now, bytes |-> 0]
         /\ \A i \in 1 .. Len(Opened) - 1 : Opened[i + 1] = records[i]
<1>1. records \in Seq(Record) /\ Len(records) \in Nat /\ Len(records) <= Num /\ Num \in Nat \ {0}
  BY WindowCovers DEF HTypeOK, Record
<1>2. PICK kept : kept = IF Len(records) >= Num THEN Num - 1 ELSE Len(records)
  OBVIOUS
<1>3. /\ kept \in 0 .. Len(records) /\ kept \in Nat /\ kept + 1 <= Num
      /\ kept + 1 = Num \/ kept = Len(records)
  BY <1>1, <1>2
<1>4. Opened = <<[timenum |-> now, bytes |-> 0]>> \o SubSeq(records, 1, kept)
  BY <1>2 DEF Opened
<1>5. SubSeq(records, 1, kept) \in Seq(Record) /\ Len(SubSeq(records, 1, kept)) = kept
      /\ \A i \in 1 .. kept : SubSeq(records, 1, kept)[i] = records[i]
  <2>1. \A i \in 1 .. kept : records[i] \in Record
    BY <1>1, <1>3
  <2> HIDE DEF Record
  <2> QED  BY <1>1, <1>3, <2>1
<1>6. [timenum |-> now, bytes |-> 0] \in Record
  BY HistoryAssumption, SMT DEF HTypeOK, Record
<1>7. PICK r \in Record, q \in Seq(Record) :
        /\ r = [timenum |-> now, bytes |-> 0] /\ q = SubSeq(records, 1, kept)
        /\ Opened = <<r>> \o q /\ Len(q) = kept /\ \A i \in 1 .. kept : q[i] = records[i]
  BY <1>4, <1>5, <1>6
<1>8. /\ <<r>> \o q \in Seq(Record) /\ Len(<<r>> \o q) = kept + 1
      /\ (<<r>> \o q)[1] = r
      /\ \A i \in 1 .. kept : (<<r>> \o q)[i + 1] = q[i]
  <2> HIDE DEF Record
  <2> QED  BY <1>3, <1>7
<1>9. Len(Opened) = kept + 1 /\ Len(Opened) - 1 = kept
  BY <1>3, <1>7, <1>8
<1> QED  BY <1>1, <1>3, <1>7, <1>8, <1>9

LEMMA OpenedSum ==
  ASSUME HTypeOK, NEW since \in Int, NEW m \in 0 .. Len(Opened) - 1
  PROVE  SumOf(Within(Opened, since), m + 1) = SumOf(Within(records, since), m)
<1>1. /\ records \in Seq(Record) /\ Opened \in Seq(Record)
      /\ Len(records) \in Nat /\ Len(Opened) \in Nat /\ Len(Opened) - 1 <= Len(records)
      /\ Opened[1] = [timenum |-> now, bytes |-> 0]
      /\ \A i \in 1 .. Len(Opened) - 1 : Opened[i + 1] = records[i]
  BY OpenedIs, WindowCovers
<1>2. m \in Nat /\ 1 \in 1 .. Len(Opened) /\ m \in 0 .. Len(records)
  BY <1>1
<1>3. Within(Opened, since)[1] = 0
  <2>1. Opened[1].bytes = 0
    BY <1>1
  <2> QED  BY <1>1, <1>2, <2>1, WithinIs
<1>4. \A i \in 1 .. m : /\ Within(records, since)[i] \in Nat
                        /\ Within(Opened, since)[i + 1] = Within(records, since)[i]
  <2> SUFFICES ASSUME NEW i \in 1 .. m
               PROVE  /\ Within(records, since)[i] \in Nat
                      /\ Within(Opened, since)[i + 1] = Within(records, since)[i]
    OBVIOUS
  <2>1. i \in 1 .. Len(records) /\ i + 1 \in 1 .. Len(Opened) /\ i \in 1 .. Len(Opened) - 1
    BY <1>1, <1>2
  <2>2. /\ Within(records, since)[i] = IF records[i].timenum >= since THEN records[i].bytes ELSE 0
        /\ Within(records, since)[i] \in Nat
    BY <1>1, <2>1, WithinIs
  <2>3. Within(Opened, since)[i + 1] =
          IF Opened[i + 1].timenum >= since THEN Opened[i + 1].bytes ELSE 0
    BY <1>1, <2>1, WithinIs
  <2>4. Opened[i + 1] = records[i]
    BY <1>1, <2>1
  <2> QED  BY <2>2, <2>3, <2>4
<1>5. SumOf(Within(Opened, since), m + 1) = Within(Opened, since)[1] + SumOf(Within(records, since), m)
  BY <1>2, <1>3, <1>4, SumShift
<1>6. SumOf(Within(records, since), m) \in Nat
  BY <1>1, <1>2, WithinIs
<1> QED  BY <1>3, <1>5, <1>6

(* The records an output of the counter is added to.                       *)
Fresh == records = << >> \/ records[1].timenum # now

Recs == IF Fresh THEN Opened ELSE records

LEMMA RecsAre ==
  ASSUME HTypeOK
  PROVE  /\ Recs \in Seq(Record) /\ Len(Recs) \in 1 .. Num
         /\ Recs[1] \in Record /\ Recs[1].timenum = now
<1>1. Num \in Nat
  BY WindowCovers
<1>2. CASE Fresh
  <2>1. Recs = Opened
    BY <1>2 DEF Recs
  <2>2. Opened \in Seq(Record) /\ Len(Opened) \in 1 .. Num
        /\ Opened[1] = [timenum |-> now, bytes |-> 0]
    BY OpenedIs
  <2>3. 1 \in 1 .. Len(Opened)
    BY <1>1, <2>2
  <2>4. Opened[1] \in Record
    BY <2>2, <2>3, WithinIs, 0 \in Int
  <2> QED  BY <2>1, <2>2, <2>4
<1>3. CASE ~Fresh
  <2>1. Recs = records /\ records # << >> /\ records[1].timenum = now
    BY <1>3 DEF Recs, Fresh
  <2>2. records \in Seq(Record) /\ Len(records) \in 0 .. Num
    BY OpenedIs
  <2>3. Len(records) \in 1 .. Num /\ 1 \in 1 .. Len(records)
    BY <1>1, <2>1, <2>2
  <2>4. records[1] \in Record
    BY <2>2, <2>3, WithinIs, 0 \in Int
  <2> QED  BY <2>1, <2>2, <2>3, <2>4
<1> QED  BY <1>2, <1>3

LEMMA CountedIs ==
  ASSUME HTypeOK, NEW size \in Nat, CountOutput(size)
  PROVE  /\ records' \in Seq(Record) /\ Len(records') = Len(Recs)
         /\ records'[1].timenum = now
         /\ \A since \in Int : since <= now =>
              \A m \in 1 .. Len(Recs) :
                SumOf(Within(records', since), m) = SumOf(Within(Recs, since), m) + size
<1>1. /\ Recs \in Seq(Record) /\ Len(Recs) \in 1 .. Num /\ Num \in Nat
      /\ Recs[1] \in Record /\ Recs[1].timenum = now /\ Len(Recs) \in Nat
  BY RecsAre, WindowCovers
<1>2. records' = [Recs EXCEPT ![1].bytes = @ + size]
  BY Zenon DEF CountOutput, Recs, Fresh
<1>3. PICK r : r = [Recs[1] EXCEPT !.bytes = @ + size]
  OBVIOUS
<1>4. r \in Record /\ r.timenum = now /\ r.bytes = Recs[1].bytes + size
  BY <1>1, <1>3 DEF Record
<1>5. records' = [Recs EXCEPT ![1] = r]
  BY <1>2, <1>3
<1>6. /\ records' \in Seq(Record) /\ Len(records') = Len(Recs)
      /\ \A i \in 1 .. Len(Recs) : records'[i] = IF i = 1 THEN r ELSE Recs[i]
  <2> HIDE DEF Record
  <2>1. 1 \in 1 .. Len(Recs)
    BY <1>1
  <2> QED  BY <1>1, <1>4, <1>5, <2>1
<1>7. records'[1] = r
  BY <1>1, <1>6
<1>8. ASSUME NEW since \in Int, since <= now, NEW m \in 1 .. Len(Recs)
      PROVE  SumOf(Within(records', since), m) = SumOf(Within(Recs, since), m) + size
  <2>1. m \in Nat \ {0} /\ 1 \in 1 .. Len(Recs)
    BY <1>1
  <2>2. \A i \in 1 .. m : /\ Within(Recs, since)[i] \in Nat
                          /\ Within(records', since)[i] =
                               IF i = 1 THEN Within(Recs, since)[1] + size ELSE Within(Recs, since)[i]
    <3> SUFFICES ASSUME NEW i \in 1 .. m
                 PROVE  /\ Within(Recs, since)[i] \in Nat
                        /\ Within(records', since)[i] =
                             IF i = 1 THEN Within(Recs, since)[1] + size ELSE Within(Recs, since)[i]
      OBVIOUS
    <3>1. i \in 1 .. Len(Recs) /\ i \in 1 .. Len(records')
      BY <1>1, <1>6
    <3>2. /\ Within(Recs, since)[i] = IF Recs[i].timenum >= since THEN Recs[i].bytes ELSE 0
          /\ Within(Recs, since)[i] \in Nat
          /\ Within(Recs, since)[1] = IF Recs[1].timenum >= since THEN Recs[1].bytes ELSE 0
      BY <1>1, <2>1, <3>1, WithinIs
    <3>3. Within(records', since)[i] = IF records'[i].timenum >= since THEN records'[i].bytes ELSE 0
      BY <1>6, <3>1, WithinIs
    <3>4. CASE i = 1
      <4>1. records'[i].timenum >= since /\ Recs[1].timenum >= since
        <5>1. now \in Int
          BY <1>1, HistoryAssumption, SMT DEF Record
        <5> QED  BY <1>1, <1>4, <1>7, <1>8, <3>4, <5>1
      <4> QED  BY <1>4, <1>7, <3>2, <3>3, <3>4, <4>1
    <3>5. CASE i # 1
      <4>1. records'[i] = Recs[i]
        BY <1>6, <3>1, <3>5
      <4> QED  BY <3>2, <3>3, <3>5, <4>1
    <3> QED  BY <3>4, <3>5
  <2> QED  BY <2>1, <2>2, SumRaised
<1> QED  BY <1>4, <1>6, <1>7, <1>8

-----------------------------------------------------------------------------
(***************************************************************************)
(* Counting an output.                                                     *)
(***************************************************************************)

(* What is counted stays the sum of the records in the window.             *)
LEMMA CountSummed ==
  ASSUME HTypeOK, Summed, NEW size \in Nat, CountOutput(size)
  PROVE  Summed' /\ backward_bytes' = BytesInWindow(Recs, now) + size
         /\ BytesInWindow(Recs, now) \in Nat
<1>1. /\ Recs \in Seq(Record) /\ Len(Recs) \in 1 .. Num /\ Num \in Nat /\ Window \in Nat
      /\ now \in Nat
  BY RecsAre, WindowCovers, HistoryAssumption, SMT DEF HTypeOK
<1>2. /\ records' \in Seq(Record) /\ Len(records') = Len(Recs)
      /\ records'[1].timenum = now
      /\ \A since \in Int : since <= now =>
           \A m \in 1 .. Len(Recs) :
             SumOf(Within(records', since), m) = SumOf(Within(Recs, since), m) + size
  BY CountedIs
<1>3. backward_bytes' = BytesInWindow(Recs, now) + size
  <2>1. CASE Fresh
    BY <2>1, Zenon DEF CountOutput, Recs, Fresh
  <2>2. CASE ~Fresh
    <3>1. Recs = records /\ records # << >> /\ records[1].timenum = now
      BY <2>2 DEF Recs, Fresh
    <3>2. backward_bytes' = backward_bytes + size
      BY <2>2, Zenon DEF CountOutput, Fresh
    <3>3. backward_bytes = BytesInWindow(records, records[1].timenum)
      BY <3>1 DEF Summed
    <3> QED  BY <3>1, <3>2, <3>3
  <2> QED  BY <2>1, <2>2
<1>4. now - Window \in Int /\ now - Window <= now /\ now \in Int
      /\ Len(Recs) \in 1 .. Len(Recs) /\ Len(Recs) \in 0 .. Len(Recs)
  BY <1>1
<1>5. BytesInWindow(Recs, now) = SumOf(Within(Recs, now - Window), Len(Recs))
  BY <1>1, <1>4, InWindowIs
<1>6. BytesInWindow(records', now) = SumOf(Within(records', now - Window), Len(Recs))
  BY <1>2, <1>4, InWindowIs
<1>7. BytesInWindow(records', records'[1].timenum) = BytesInWindow(Recs, now) + size
  BY <1>2, <1>4, <1>5, <1>6
<1>8. records' # << >>
  <2>1. Len(records') # 0
    BY <1>1, <1>2
  <2> QED  BY <2>1
<1>9. BytesInWindow(Recs, now) \in Nat
  BY <1>1, <1>4, <1>5, WithinIs
<1> QED  BY <1>3, <1>7, <1>8, <1>9 DEF Summed

(* A new record adds nothing to what is counted, unless it brings an old   *)
(* one back into the window.                                               *)
LEMMA CountNotMore ==
  ASSUME HTypeOK, Summed, NEW size \in Nat, CountOutput(size), ~revived'
  PROVE  BytesInWindow(Recs, now) <= backward_bytes
<1>1. /\ Recs \in Seq(Record) /\ Len(Recs) \in 1 .. Num /\ Num \in Nat /\ Window \in Nat
      /\ now \in Nat /\ backward_bytes \in Nat
      /\ records \in Seq(Record) /\ Len(records) \in Nat
  BY RecsAre, WindowCovers, OpenedIs, HistoryAssumption, SMT DEF HTypeOK
<1>2. CASE ~Fresh
  <2>1. Recs = records /\ records # << >> /\ records[1].timenum = now
    BY <1>2 DEF Recs, Fresh
  <2> QED  BY <1>1, <2>1 DEF Summed
<1>3. CASE Fresh
  <2>1. Recs = Opened
    BY <1>3 DEF Recs
  <2>2. /\ Len(Opened) \in Nat \ {0} /\ Len(Opened) - 1 <= Len(records)
        /\ \A i \in 1 .. Len(Opened) - 1 : Opened[i + 1] = records[i]
    BY <1>1, <2>1, OpenedIs
  <2>3. PICK m \in Nat : m = Len(Opened) - 1 /\ m + 1 = Len(Opened) /\ m \in 0 .. Len(records)
                         /\ m \in 0 .. Len(Opened) - 1
    <3>1. \A L, R \in Nat : L # 0 /\ L - 1 <= R =>
            L - 1 \in Nat /\ L - 1 + 1 = L /\ L - 1 \in 0 .. R /\ L - 1 \in 0 .. L - 1
      OBVIOUS
    <3> QED  BY <1>1, <2>2, <3>1
  <2>4. BytesInWindow(Recs, now) = SumOf(Within(records, now - Window), m)
    <3>1. now - Window \in Int /\ now \in Int
      BY <1>1
    <3>2. BytesInWindow(Recs, now) = SumOf(Within(Opened, now - Window), m + 1)
      BY <1>1, <2>1, <2>3, <3>1, InWindowIs
    <3> QED  BY <2>3, <3>1, <3>2, OpenedSum
  <2>5. CASE m = 0
    <3>1. SumOf(Within(records, now - Window), 0) = 0
      <4>1. now - Window \in Int
        BY <1>1
      <4>2. \A i \in 1 .. Len(records) : Within(records, now - Window)[i] \in Nat
        BY <1>1, <4>1, WithinIs
      <4> QED  BY <1>1, <4>2, SumIs
    <3> QED  BY <1>1, <2>4, <2>5, <3>1
  <2>6. CASE m # 0
    <3>1. records # << >> /\ 1 \in 1 .. Len(records) /\ 1 \in 1 .. m
      BY <1>1, <2>3, <2>6
    <3>2. PICK tick \in Nat : tick = records[1].timenum
      BY <1>1, <3>1, WithinIs, 0 \in Int
    <3>3. Recs[2].timenum = tick
      <4>1. Opened[1 + 1] = records[1]
        BY <2>2, <2>3, <3>1
      <4>2. 1 + 1 = 2
        OBVIOUS
      <4> QED  BY <2>1, <3>2, <4>1, <4>2
    <3>4. \A i \in 2 .. Len(Recs) : InWindow(Recs[i], now) => InWindow(Recs[i], Recs[2].timenum)
      BY Zenon DEF CountOutput, Recs, Fresh
    <3>5. now - Window \in Int /\ tick - Window \in Int
      BY <1>1
    <3>6. \A i \in 1 .. m : /\ Within(records, now - Window)[i] \in Nat
                            /\ Within(records, tick - Window)[i] \in Nat
                            /\ Within(records, now - Window)[i] <= Within(records, tick - Window)[i]
      <4> SUFFICES ASSUME NEW i \in 1 .. m
                   PROVE  /\ Within(records, now - Window)[i] \in Nat
                          /\ Within(records, tick - Window)[i] \in Nat
                          /\ Within(records, now - Window)[i] <= Within(records, tick - Window)[i]
        OBVIOUS
      <4>1. i \in 1 .. Len(records) /\ i + 1 \in 2 .. Len(Recs) /\ i \in 1 .. Len(Opened) - 1
        BY <2>1, <2>3
      <4>2. Recs[i + 1] = records[i]
        BY <2>1, <2>2, <4>1
      <4>3. records[i].timenum >= now - Window => records[i].timenum >= tick - Window
        BY <3>3, <3>4, <4>1, <4>2 DEF InWindow
      <4>4. /\ Within(records, now - Window)[i] =
                 IF records[i].timenum >= now - Window THEN records[i].bytes ELSE 0
            /\ Within(records, tick - Window)[i] =
                 IF records[i].timenum >= tick - Window THEN records[i].bytes ELSE 0
            /\ records[i].bytes \in Nat
        BY <1>1, <3>5, <4>1, WithinIs
      <4> QED  BY <4>3, <4>4
    <3>7. SumOf(Within(records, now - Window), m) <= SumOf(Within(records, tick - Window), m)
      BY <2>3, <3>6, SumMonotone
    <3>8. SumOf(Within(records, tick - Window), m) <= SumOf(Within(records, tick - Window), Len(records))
      <4>1. \A i \in 1 .. Len(records) : Within(records, tick - Window)[i] \in Nat
        BY <1>1, <3>5, WithinIs
      <4> QED  BY <1>1, <2>3, <4>1, SumGrows
    <3>9. backward_bytes = SumOf(Within(records, tick - Window), Len(records))
      <4>1. backward_bytes = BytesInWindow(records, tick)
        BY <3>1, <3>2 DEF Summed
      <4>2. tick \in Int
        BY <3>2
      <4> QED  BY <1>1, <4>1, <4>2, InWindowIs
    <3>10. /\ SumOf(Within(records, now - Window), m) \in Nat
           /\ SumOf(Within(records, tick - Window), m) \in Nat
      BY <1>1, <2>3, <3>5, WithinIs
    <3> QED  BY <1>1, <2>4, <3>7, <3>8, <3>9, <3>10
  <2> QED  BY <2>5, <2>6
<1> QED  BY <1>2, <1>3

(* Nothing but zeros.                                                      *)
LEMMA SumNone ==
  ASSUME NEW n \in Nat, NEW f, \A i \in 1 .. n : f[i] = 0
  PROVE  SumOf(f, n) = 0
<1>1. SumOf(f, 0) = 0 /\ \A i \in 1 .. n : SumOf(f, i) = SumOf(f, i - 1) + f[i]
  BY SumIs
<1> DEFINE T == {i \in 0 .. n : SumOf(f, i) = 0}
<1>2. 0 \in T
  BY <1>1
<1>3. ASSUME NEW i \in 0 .. n, i < n, i \in T PROVE i + 1 \in T
  <2>1. i + 1 \in 1 .. n /\ i + 1 \in 0 .. n /\ i + 1 - 1 = i
    BY <1>3
  <2>2. SumOf(f, i + 1) = 0 + 0
    BY <1>1, <1>3, <2>1
  <2> QED  BY <2>1, <2>2
<1> HIDE DEF T
<1>4. \A i \in 0 .. n : i \in T
  BY <1>2, <1>3, Climbing
<1>5. n \in 0 .. n
  OBVIOUS
<1> QED  BY <1>4, <1>5 DEF T

LEMMA LatestIs ==
  ASSUME HTypeOK, records # << >>
  PROVE  /\ 1 \in 1 .. Len(records) /\ records[1].timenum \in Nat
         /\ LatestTick \in Nat /\ now <= LatestTick /\ records[1].timenum <= LatestTick
         /\ records[1].timenum = now => LatestTick = now
         /\ set_backs \in Nat /\ now \in Nat
<1>1. records \in Seq(Record) /\ Len(records) \in 0 .. Num /\ Num \in Nat
  BY OpenedIs, WindowCovers
<1>2. 1 \in 1 .. Len(records)
  BY <1>1
<1>3. records[1].timenum \in Nat
  BY <1>1, <1>2, WithinIs, 0 \in Int
<1>4. set_backs \in Nat /\ now \in Nat
  BY HistoryAssumption, SMT DEF HTypeOK
<1> QED  BY <1>2, <1>3, <1>4 DEF LatestTick

(* What an output brings is counted in the newest record.                  *)
LEMMA CountRecent ==
  ASSUME HTypeOK, Recent, NEW size \in Nat, CountOutput(size),
         now' = now, set_backs' = set_backs
  PROVE  Recent'
<1>1. /\ Recs \in Seq(Record) /\ Len(Recs) \in 1 .. Num /\ Num \in Nat
      /\ now \in Nat /\ set_backs \in Nat
      /\ records \in Seq(Record) /\ Len(records) \in Nat
      /\ given \in [1 .. Num -> Nat]
  <2>1. /\ Recs \in Seq(Record) /\ Len(Recs) \in 1 .. Num /\ Num \in Nat
        /\ records \in Seq(Record) /\ Len(records) \in Nat
    BY RecsAre, WindowCovers, OpenedIs
  <2>2. now \in Nat /\ set_backs \in Nat
    BY HistoryAssumption, SMT DEF HTypeOK
  <2>3. given \in [1 .. Num -> Nat]
    BY DEF HTypeOK
  <2> QED  BY <2>1, <2>2, <2>3
<1>2. /\ records' \in Seq(Record) /\ Len(records') = Len(Recs)
      /\ records'[1].timenum = now
      /\ \A since \in Int : since <= now =>
           \A m \in 1 .. Len(Recs) :
             SumOf(Within(records', since), m) = SumOf(Within(Recs, since), m) + size
  BY CountedIs
<1>3. records' # << >>
  <2>1. Len(records') # 0
    BY <1>1, <1>2
  <2> QED  BY <2>1
<1>4. ASSUME NEW n \in 1 .. Num, n + set_backs <= Num
      PROVE  \E m \in 1 .. Len(Recs) :
               /\ m <= n + set_backs
               /\ SumOf(given, n) <= SumOf(Within(Recs, now - n + 1), m)
  <2>0. now - n + 1 \in Int /\ n \in Nat /\ n \in 0 .. n /\ n >= 1 /\ \A i \in 1 .. n : given[i] \in Nat
    BY <1>1
  <2>1. SumOf(given, n) \in Nat
    BY <2>0, SumIs
  <2>2. CASE records = << >>
    <3>1. \A i \in 1 .. n : given[i] = 0
      BY <1>1, <2>2 DEF Recent
    <3>2. SumOf(given, n) = 0
      BY <2>0, <3>1, SumNone
    <3>3. 1 \in 1 .. Len(Recs) /\ 1 \in 0 .. Len(Recs) /\ 1 <= n + set_backs
      BY <1>1, <2>0
    <3>4. SumOf(Within(Recs, now - n + 1), 1) \in Nat
      BY <1>1, <2>0, <3>3, WithinIs
    <3> QED  BY <3>2, <3>3, <3>4
  <2>3. CASE records # << >>
    <3>1. PICK m \in 0 .. Len(records) :
            /\ m <= Reach(n)
            /\ SumOf(given, n) <= NewestBytes(m, LatestTick - n + 1)
      BY <1>4, <2>3 DEF Recent
    <3>2. LatestTick \in Nat /\ now <= LatestTick /\ (records[1].timenum = now => LatestTick = now)
      BY <2>3, LatestIs
    <3>3. SumOf(given, n) <= SumOf(Within(records, now - n + 1), m)
      <4>1. LatestTick - n + 1 \in Int /\ now - n + 1 \in Int /\ now - n + 1 <= LatestTick - n + 1
        <5>1. \A a, b \in Nat : a <= b => b - n + 1 \in Int /\ a - n + 1 \in Int /\ a - n + 1 <= b - n + 1
          BY <2>0
        <5> QED  BY <1>1, <3>2, <5>1
      <4>2. SumOf(Within(records, LatestTick - n + 1), m) <= SumOf(Within(records, now - n + 1), m)
        BY <1>1, <4>1, FurtherBack
      <4>3. /\ SumOf(Within(records, LatestTick - n + 1), m) \in Nat
            /\ SumOf(Within(records, now - n + 1), m) \in Nat
        BY <1>1, <4>1, WithinIs
      <4> QED  BY <2>1, <3>1, <4>2, <4>3 DEF NewestBytes
    <3>4. CASE Fresh
      <4>1. records[1].timenum # now /\ Recs = Opened
        BY <2>3, <3>4 DEF Fresh, Recs
      <4>2. m <= n + set_backs - 1
        BY <3>1, <4>1 DEF Reach
      <4>3. /\ Len(Opened) \in Nat /\ Len(Opened) >= 1
            /\ Len(Opened) = Num \/ Len(Opened) - 1 = Len(records)
        BY <1>1, <4>1, OpenedIs
      <4>4. m \in 0 .. Len(Opened) - 1 /\ m + 1 \in 1 .. Len(Opened) /\ m + 1 <= n + set_backs
        BY <1>1, <1>4, <2>0, <4>2, <4>3
      <4>5. SumOf(Within(Opened, now - n + 1), m + 1) = SumOf(Within(records, now - n + 1), m)
        BY <2>0, <4>4, OpenedSum
      <4> QED  BY <3>3, <4>1, <4>4, <4>5
    <3>5. CASE ~Fresh /\ m # 0
      <4>1. records[1].timenum = now /\ Recs = records
        BY <3>5 DEF Fresh, Recs
      <4>2. m <= n + set_backs /\ m \in 1 .. Len(Recs)
        BY <3>1, <3>5, <4>1 DEF Reach
      <4> QED  BY <3>3, <4>1, <4>2
    <3>6. CASE ~Fresh /\ m = 0
      <4>1. Recs = records
        BY <3>6 DEF Fresh, Recs
      <4>2. 1 \in 1 .. Len(Recs) /\ 1 <= n + set_backs /\ 1 \in Nat /\ 0 \in 0 .. 1
            /\ 0 \in 0 .. Len(Recs) /\ 1 \in 0 .. Len(Recs)
        BY <1>1, <2>0
      <4>3. \A i \in 1 .. 1 : Within(records, now - n + 1)[i] \in Nat
        <5>1. Within(records, now - n + 1)[1] \in Nat
          BY <1>1, <2>0, <4>1, <4>2, WithinIs
        <5>2. \A i \in 1 .. 1 : i = 1
          OBVIOUS
        <5> QED  BY <5>1, <5>2
      <4>4. SumOf(Within(records, now - n + 1), 0) <= SumOf(Within(records, now - n + 1), 1)
        BY <4>2, <4>3, SumGrows
      <4>5. /\ SumOf(Within(records, now - n + 1), 0) \in Nat
            /\ SumOf(Within(records, now - n + 1), 1) \in Nat
        BY <1>1, <2>0, <4>1, <4>2, WithinIs
      <4>6. SumOf(given, n) <= SumOf(Within(Recs, now - n + 1), 1)
        BY <2>1, <3>3, <3>6, <4>1, <4>4, <4>5
      <4> QED  BY <4>2, <4>6
    <3> QED  BY <3>4, <3>5, <3>6
  <2> QED  BY <2>2, <2>3
<1>5. ASSUME NEW n \in 1 .. Num, n + set_backs <= Num
      PROVE  \E m \in 0 .. Len(records') :
               /\ m <= Reach(n)'
               /\ SumOf(given', n) <= SumOf(Within(records', LatestTick' - n + 1), m)
  <2>1. PICK m \in 1 .. Len(Recs) :
          /\ m <= n + set_backs
          /\ SumOf(given, n) <= SumOf(Within(Recs, now - n + 1), m)
    BY <1>4, <1>5
  <2>2. LatestTick' = now /\ Reach(n)' = n + set_backs
    BY <1>1, <1>2 DEF LatestTick, Reach
  <2>3. now - n + 1 \in Int /\ now - n + 1 <= now /\ n \in Nat \ {0} /\ m \in 0 .. Len(Recs)
        /\ n \in 0 .. n
    BY <1>1
  <2>4. SumOf(Within(records', now - n + 1), m) = SumOf(Within(Recs, now - n + 1), m) + size
    BY <1>2, <2>3
  <2>5. SumOf(given', n) = SumOf(given, n) + size
    <3>1. given' = [given EXCEPT ![1] = @ + size]
      BY DEF CountOutput
    <3>2. \A i \in 1 .. n : /\ given[i] \in Nat
                            /\ given'[i] = IF i = 1 THEN given[1] + size ELSE given[i]
      BY <1>1, <3>1
    <3> QED  BY <2>3, <3>2, SumRaised
  <2>6. SumOf(given, n) \in Nat /\ SumOf(Within(Recs, now - n + 1), m) \in Nat
    <3>1. \A i \in 1 .. n : given[i] \in Nat
      BY <1>1
    <3> QED  BY <1>1, <2>3, <3>1, SumIs, WithinIs
  <2>7. m \in 0 .. Len(records') /\ m <= Reach(n)'
    BY <1>2, <2>1, <2>2, <2>3
  <2>8. SumOf(given', n) <= SumOf(Within(records', LatestTick' - n + 1), m)
    <3>1. SumOf(given, n) + size <= SumOf(Within(Recs, now - n + 1), m) + size
      BY <2>1, <2>6
    <3> QED  BY <2>2, <2>4, <2>5, <3>1
  <2> QED  BY <2>7, <2>8
<1>6. Num' = Num
  BY DEF Num
<1> QED  BY <1>3, <1>5, <1>6, Zenon DEF Recent, NewestBytes

(* A tick opens no record, and every record is one tick older.             *)
LEMMA TickRecent ==
  ASSUME HTypeOK, Recent, Tick
  PROVE  Recent'
<1>1. /\ Num \in Nat \ {0} /\ given \in [1 .. Num -> Nat]
      /\ given' = <<0>> \o SubSeq(given, 1, Num - 1)
      /\ now' = now + 1 /\ set_backs' = set_backs /\ records' = records
  BY WindowCovers DEF HTypeOK, Tick
<1>2. /\ 0 \in Nat /\ given'[1] = 0
      /\ \A i \in 1 .. Num - 1 : given'[i + 1] = given[i]
  <2>1. given \in Seq(Nat) /\ Len(given) = Num
    BY <1>1
  <2>2. PICK q \in Seq(Nat) : q = SubSeq(given, 1, Num - 1) /\ Len(q) = Num - 1
                              /\ \A i \in 1 .. Num - 1 : q[i] = given[i]
    <3>1. PICK k \in Nat : k = Num - 1 /\ k <= Num
      BY <1>1
    <3>2. \A i \in 1 .. k : given[i] \in Nat
      BY <1>1, <3>1
    <3>3. SubSeq(given, 1, k) \in Seq(Nat) /\ Len(SubSeq(given, 1, k)) = k
          /\ \A i \in 1 .. k : SubSeq(given, 1, k)[i] = given[i]
      BY <2>1, <3>1, <3>2
    <3> QED  BY <3>1, <3>3
  <2>3. (<<0>> \o q)[1] = 0 /\ \A i \in 1 .. Num - 1 : (<<0>> \o q)[i + 1] = q[i]
    BY <1>1, <2>2
  <2> QED  BY <1>1, <2>2, <2>3
<1>3. CASE records = << >>
  <2>1. set_backs = 0 /\ \A t \in 1 .. Num : given[t] = 0
    BY <1>3 DEF Recent
  <2>2. \A t \in 1 .. Num : given'[t] = 0
    <3> SUFFICES ASSUME NEW t \in 1 .. Num, t # 1 PROVE given'[t] = 0
      BY <1>2
    <3>1. t - 1 \in 1 .. Num - 1 /\ t - 1 + 1 = t /\ t - 1 \in 1 .. Num
      BY <1>1
    <3> QED  BY <1>2, <2>1, <3>1
  <2> QED  BY <1>1, <1>3, <2>1, <2>2 DEF Recent, Num
<1>4. CASE records # << >>
  <2>1. /\ records \in Seq(Record) /\ Len(records) \in Nat
        /\ LatestTick \in Nat /\ now <= LatestTick /\ records[1].timenum <= LatestTick
        /\ set_backs \in Nat /\ now \in Nat /\ records[1].timenum \in Nat
    BY <1>1, <1>4, LatestIs, OpenedIs
  <2>2. LatestTick' \in Nat /\ LatestTick' <= LatestTick + 1
    BY <1>1, <2>1 DEF LatestTick
  <2>3. ASSUME NEW n \in 1 .. Num, n + set_backs <= Num
        PROVE  \E m \in 0 .. Len(records) :
                 /\ m <= Reach(n)'
                 /\ SumOf(given', n) <= SumOf(Within(records, LatestTick' - n + 1), m)
    <3>0. n \in Nat /\ LatestTick' - n + 1 \in Int /\ 0 \in 0 .. Len(records)
          /\ Reach(n)' \in Int /\ Reach(n)' >= n + set_backs - 1
      BY <1>1, <2>1, <2>2 DEF Reach
    <3>1. CASE n = 1
      <4>1. SumOf(given', 1) = 0
        <5>1. 1 \in Nat /\ \A i \in 1 .. 1 : given'[i] = 0
          BY <1>2
        <5> QED  BY <5>1, SumNone
      <4>2. SumOf(Within(records, LatestTick' - n + 1), 0) \in Nat
        BY <2>1, <3>0, WithinIs
      <4>3. 0 <= Reach(n)'
        BY <2>1, <3>0, <3>1
      <4> QED  BY <3>0, <3>1, <4>1, <4>2, <4>3
    <3>2. CASE n # 1
      <4>1. n - 1 \in 1 .. Num /\ n - 1 + set_backs <= Num /\ n - 1 \in Nat /\ n - 1 + 1 = n
            /\ n - 1 \in 0 .. n - 1
        BY <1>1, <2>1, <2>3, <3>2
      <4>2. PICK m \in 0 .. Len(records) :
              /\ m <= Reach(n - 1)
              /\ SumOf(given, n - 1) <= NewestBytes(m, LatestTick - (n - 1) + 1)
        BY <1>4, <4>1 DEF Recent
      <4>3. m <= Reach(n)'
        <5>1. Reach(n - 1) \in Int /\ Reach(n - 1) <= n - 1 + set_backs
          <6>1. PICK c \in Nat, b \in Nat : c = n - 1 /\ b = set_backs
            BY <2>1, <4>1
          <6>2. Reach(n - 1) = c + b \/ Reach(n - 1) = c + b - 1
            BY <6>1, Zenon DEF Reach
          <6> QED  BY <6>1, <6>2
        <5> QED  BY <2>1, <3>0, <4>2, <5>1
      <4>4. SumOf(given', n) = SumOf(given, n - 1)
        <5>1. \A i \in 1 .. n - 1 : given[i] \in Nat /\ given'[i + 1] = given[i]
          BY <1>1, <1>2
        <5>2. SumOf(given', n - 1 + 1) = given'[1] + SumOf(given, n - 1)
          BY <1>2, <4>1, <5>1, SumShift
        <5>3. SumOf(given, n - 1) \in Nat
          BY <4>1, <5>1, SumIs
        <5> QED  BY <1>2, <4>1, <5>2, <5>3
      <4>5. SumOf(Within(records, LatestTick - (n - 1) + 1), m)
              <= SumOf(Within(records, LatestTick' - n + 1), m)
        <5>1. LatestTick - (n - 1) + 1 \in Int /\ LatestTick' - n + 1 <= LatestTick - (n - 1) + 1
          <6>1. \A a, b \in Nat : b <= a + 1 => a - (n - 1) + 1 \in Int /\ b - n + 1 <= a - (n - 1) + 1
            BY <3>0
          <6> QED  BY <2>1, <2>2, <6>1
        <5> QED  BY <2>1, <3>0, <5>1, FurtherBack
      <4>6. /\ SumOf(given, n - 1) \in Nat
            /\ SumOf(Within(records, LatestTick - (n - 1) + 1), m) \in Nat
            /\ SumOf(Within(records, LatestTick' - n + 1), m) \in Nat
        <5>1. \A i \in 1 .. n - 1 : given[i] \in Nat
          BY <1>1
        <5>2. LatestTick - (n - 1) + 1 \in Int
          BY <2>1, <3>0
        <5> QED  BY <2>1, <3>0, <4>1, <5>1, <5>2, SumIs, WithinIs
      <4>7. SumOf(given', n) <= SumOf(Within(records, LatestTick' - n + 1), m)
        BY <4>2, <4>4, <4>5, <4>6 DEF NewestBytes
      <4> QED  BY <4>3, <4>7
    <3> QED  BY <3>1, <3>2
  <2>4. Num' = Num /\ records' # << >>
    BY <1>1, <1>4 DEF Num
  <2> QED  BY <1>1, <2>3, <2>4, Zenon DEF Recent, NewestBytes
<1> QED  BY <1>3, <1>4

(* Once the clock is set back, one record more may be of the same tick.    *)
LEMMA SetBackRecent ==
  ASSUME HTypeOK, Recent, SetBack
  PROVE  Recent'
<1>1. /\ Num \in Nat \ {0} /\ given \in [1 .. Num -> Nat]
      /\ given' = given /\ records' = records /\ records # << >>
      /\ now' \in 0 .. now - 1 /\ set_backs' = set_backs + 1
  BY WindowCovers DEF HTypeOK, SetBack
<1>2. /\ records \in Seq(Record) /\ Len(records) \in Nat
      /\ LatestTick \in Nat /\ now <= LatestTick /\ records[1].timenum <= LatestTick
      /\ set_backs \in Nat /\ now \in Nat /\ records[1].timenum \in Nat
  <2>1. records # << >>
    BY <1>1
  <2>2. records \in Seq(Record) /\ Len(records) \in Nat
    <3>1. records \in Seq(Record)
      BY OpenedIs, Zenon
    <3> QED  BY <3>1
  <2>3. /\ records[1].timenum \in Nat /\ LatestTick \in Nat /\ now <= LatestTick
        /\ records[1].timenum <= LatestTick /\ set_backs \in Nat /\ now \in Nat
    BY <2>1, LatestIs, Zenon
  <2> QED  BY <2>2, <2>3
<1>3. LatestTick' \in Nat /\ LatestTick' <= LatestTick
  BY <1>1, <1>2 DEF LatestTick
<1>4. ASSUME NEW n \in 1 .. Num, n + set_backs' <= Num
      PROVE  \E m \in 0 .. Len(records) :
               /\ m <= Reach(n)'
               /\ SumOf(given, n) <= SumOf(Within(records, LatestTick' - n + 1), m)
  <2>1. n \in Nat /\ n + set_backs <= Num /\ n \in 0 .. n
    BY <1>1, <1>2, <1>4
  <2>2. PICK m \in 0 .. Len(records) :
          /\ m <= Reach(n)
          /\ SumOf(given, n) <= NewestBytes(m, LatestTick - n + 1)
    BY <1>1, <2>1 DEF Recent
  <2>3. Reach(n) \in Int /\ Reach(n)' \in Int /\ Reach(n) <= Reach(n)'
    BY <1>1, <1>2, <2>1 DEF Reach
  <2>4. LatestTick' - n + 1 \in Int /\ LatestTick - n + 1 \in Int /\ LatestTick' - n + 1 <= LatestTick - n + 1
    <3>1. \A a, b \in Nat : a <= b => b - n + 1 \in Int /\ a - n + 1 \in Int /\ a - n + 1 <= b - n + 1
      BY <2>1
    <3> QED  BY <1>2, <1>3, <3>1
  <2>5. SumOf(Within(records, LatestTick - n + 1), m) <= SumOf(Within(records, LatestTick' - n + 1), m)
    BY <1>2, <2>4, FurtherBack
  <2>6. /\ SumOf(given, n) \in Nat
        /\ SumOf(Within(records, LatestTick - n + 1), m) \in Nat
        /\ SumOf(Within(records, LatestTick' - n + 1), m) \in Nat
    <3>1. \A i \in 1 .. n : given[i] \in Nat
      BY <1>1
    <3> QED  BY <1>2, <2>1, <2>4, <3>1, SumIs, WithinIs
  <2>7. SumOf(given, n) <= SumOf(Within(records, LatestTick' - n + 1), m)
    BY <2>2, <2>5, <2>6 DEF NewestBytes
  <2> QED  BY <2>2, <2>3, <2>7
<1>5. Num' = Num
  BY DEF Num
<1> QED  BY <1>1, <1>4, <1>5, Zenon DEF Recent, NewestBytes

-----------------------------------------------------------------------------
(***************************************************************************)
(* The counter and the keeper.                                             *)
(***************************************************************************)
LEMMA TwoOfThem ==
  /\ Counter \in Slots /\ Keeper \in Slots /\ Counter # Keeper
  /\ Counter \notin Clients /\ Keeper \notin Clients
  /\ CheckClose # Counter /\ CheckClose # Keeper /\ CheckClose >= 2 /\ CheckClose \notin Slots
  /\ Idle \notin Slots /\ Idle # CheckClose /\ Idle # Deleted
  /\ Deleted \notin Slots /\ Deleted # CheckClose
  /\ \A s \in Slots : s \in Nat
BY SizeAssumption, HistoryAssumption, SMT
   DEF Slots, Clients, Counter, Keeper, CheckClose, Idle, Deleted

(* Each is connected, not aligned, and inside the buffer.                  *)
LEMMA PairIs ==
  ASSUME IInv, Pair, scan # Deleted, NEW s \in {Counter, Keeper}
  PROVE  /\ s \in Slots /\ s \in in_use /\ s \notin close_flg /\ Live(s) /\ ~Drained(s)
         /\ opt[s] = HistoryOption /\ AlignOf(s) = 1
         /\ pos[s] \in Nat /\ buf_used \in Nat /\ pos[s] <= buf_used
         /\ Avail(s) \in Nat
         /\ dropped[s] \in Nat
<1>1. s \in Slots /\ s \in in_use /\ s \notin close_flg /\ opt[s] = HistoryOption
  BY TwoOfThem DEF Pair
<1>2. Live(s) /\ ~Drained(s)
  BY <1>1 DEF Live, Drained
<1>3. AlignOf(s) = 1
  BY <1>1 DEF AlignOf, HistoryOption
<1>4. pos[s] \in Nat /\ buf_used \in Nat /\ remain_unaligned[s] \in Nat /\ dropped[s] \in Int
  BY <1>1 DEF IInv, TypeOK
<1>5. Inside(s) /\ Books(s)
  BY <1>1 DEF IInv, Reader
<1>6. pos[s] + remain_unaligned[s] <= buf_used /\ dropped[s] >= 0
  BY <1>2, <1>5 DEF Inside, Books
<1>7. pos[s] <= buf_used /\ Avail(s) \in Nat /\ dropped[s] \in Nat
  BY <1>4, <1>6 DEF Avail
<1> QED  BY <1>1, <1>2, <1>3, <1>4, <1>7

(* What the history's variables say of themselves.                         *)
Told == HTypeOK /\ Summed /\ Recent

LEMMA ToldFrame ==
  ASSUME Told, UNCHANGED history
  PROVE  Told'
<1>1. now' = now /\ passed' = passed /\ set_backs' = set_backs /\ records' = records
      /\ backward_bytes' = backward_bytes /\ given' = given /\ revived' = revived
  BY DEF history, clock
<1>2. HTypeOK'
  BY <1>1 DEF Told, HTypeOK, Num
<1>3. Summed'
  BY <1>1 DEF Told, Summed
<1>4. Recent'
  <2>1. LatestTick' = LatestTick /\ Num' = Num /\ \A n \in 1 .. Num : Reach(n)' = Reach(n)
    BY <1>1 DEF LatestTick, Reach, Num
  <2> QED  BY <1>1, <2>1, Zenon DEF Told, Recent, NewestBytes
<1> QED  BY <1>2, <1>3, <1>4 DEF Told

(* What relates them to the buffer.                                        *)
Held == Pair /\ HistoryKept /\ BeginsOnPacket

(* Neither the pair nor where the clients begin is touched.                *)
LEMMA HeldFrame ==
  ASSUME IInv, Pair, BeginsOnPacket, scan # Deleted, scan' # Deleted,
         Counter \in in_use' /\ Keeper \in in_use',
         Counter \notin close_flg' /\ Keeper \notin close_flg',
         opt'[Counter] = opt[Counter] /\ opt'[Keeper] = opt[Keeper],
         scan' \in (Slots \cup {CheckClose}) \ {Counter} => pos'[Counter] = buf_used',
         Sound' => Sound /\ backward_bytes' + Avail(Counter)' <= Avail(Keeper)',
         \A s \in Clients \cap in_use' :
           s \in in_use /\ opt'[s] = opt[s] /\ start'[s] = start[s]
  PROVE  Held'
<1>1. Pair'
  BY DEF Pair, HistoryOption
<1>2. HistoryKept'
  BY DEF HistoryKept
<1>3. BeginsOnPacket'
  <2>1. Clients' = Clients
    BY DEF Clients
  <2> SUFFICES ASSUME Sound', NEW s \in Clients \cap in_use', opt'[s].aligned
               PROVE  start'[s] % Align = 0
    BY <2>1 DEF BeginsOnPacket
  <2>2. s \in Clients \cap in_use /\ opt[s].aligned /\ start'[s] = start[s] /\ Sound
    OBVIOUS
  <2> QED  BY <2>2 DEF BeginsOnPacket
<1> QED  BY <1>1, <1>2, <1>3 DEF Held

(* A step that touches nothing of this at all.                             *)
LEMMA HeldStutter ==
  ASSUME Held, UNCHANGED vars, UNCHANGED <<backward_bytes, revived>>
  PROVE  Held'
BY DEF Held, Pair, HistoryKept, BeginsOnPacket, Sound, Avail, Clients,
       vars, buffer, slots, cursor, pass, ghost

LEMMA BeginOutputHeld ==
  ASSUME IInv, Held, BeginOutput, UNCHANGED history
  PROVE  Held'
<1>1. /\ Pair /\ BeginsOnPacket /\ HistoryKept /\ scan = Idle /\ scan # Deleted
      /\ UNCHANGED <<buf_used, in_use, close_flg, opt, pos, dropped, start, backward_bytes, revived>>
  BY TwoOfThem DEF Held, BeginOutput, buffer, slots, cursor, ghost, history
<1>2. Counter \in in_use /\ Keeper \in in_use /\ Counter \notin close_flg /\ Keeper \notin close_flg
  BY <1>1, PairIs
<1>3. scan' = Counter
  <2>1. PICK t \in {u \in in_use : u >= 0} \cup {CheckClose} :
          /\ \A u \in in_use : u >= 0 => t <= u
          /\ scan' = t
    BY DEF BeginOutput, Goto
  <2>2. t <= 0
    BY <1>2, <2>1 DEF Counter
  <2>3. t # CheckClose
    BY <2>2, TwoOfThem, SizeAssumption, SMT DEF CheckClose
  <2>4. t \in in_use /\ t >= 0
    BY <2>1, <2>3
  <2>5. t \in Nat
    BY <2>4, TwoOfThem DEF IInv, TypeOK
  <2> QED  BY <2>1, <2>2, <2>5 DEF Counter
<1>4. Sound' => Sound /\ backward_bytes' + Avail(Counter)' <= Avail(Keeper)'
  BY <1>1 DEF Sound, HistoryKept, Avail
<1>5. scan' # Deleted
  BY <1>3, TwoOfThem
<1> QED  BY <1>1, <1>2, <1>3, <1>4, <1>5, HeldFrame

(* The visit of a downstream other than the counter.                       *)
LEMMA VisitHeld ==
  ASSUME IInv, Told, Held, NEW s \in Slots \ {Counter}, Visit(s), UNCHANGED history,
         UNCHANGED <<buffer, in_use, close_flg, opt, start, dropped>>,
         \A t \in Slots : t # s => pos'[t] = pos[t],
         s = Keeper => backward_bytes <= Avail(Keeper)' \/ pos'[Keeper] = pos[Keeper]
  PROVE  Held'
<1>1. Pair /\ BeginsOnPacket /\ HistoryKept /\ scan = s /\ scan # Deleted
  BY TwoOfThem DEF Held, Visit
<1>2. /\ Counter \in in_use /\ Keeper \in in_use /\ Counter \notin close_flg /\ Keeper \notin close_flg
      /\ pos[Counter] = buf_used
  BY <1>1, PairIs DEF Pair
<1>3. scan' # Deleted
  <2>1. s + 1 \in Int
    BY TwoOfThem
  <2> QED  BY <2>1, GotoType DEF Visit, IInv
<1>4. pos'[Counter] = pos[Counter] /\ buf_used' = buf_used /\ backward_bytes' = backward_bytes
  BY TwoOfThem DEF buffer, history
<1>5. Sound' = Sound
  BY DEF Sound, history
<1>6. Sound => backward_bytes' + Avail(Counter)' <= Avail(Keeper)'
  <2>1. Avail(Counter)' = 0 /\ Avail(Counter) = 0 /\ backward_bytes \in Int
        => backward_bytes + Avail(Counter) = backward_bytes /\ backward_bytes + Avail(Counter)' = backward_bytes
    BY SMT
  <2>2. Avail(Counter)' = 0 /\ Avail(Counter) = 0
    BY <1>2, <1>4 DEF Avail, IInv, TypeOK
  <2>3. CASE pos'[Keeper] = pos[Keeper]
    BY <1>1, <1>4, <2>2, <2>3 DEF HistoryKept, Avail
  <2>4. CASE pos'[Keeper] # pos[Keeper]
    <3>1. s = Keeper
      BY <2>4, TwoOfThem
    <3>2. backward_bytes \in Nat
      BY DEF Told, HTypeOK
    <3>3. backward_bytes <= Avail(Keeper)'
      BY <2>4, <3>1
    <3>4. backward_bytes + Avail(Counter)' = backward_bytes
      BY <2>1, <2>2, <3>2
    <3> QED  BY <1>4, <3>3, <3>4, Zenon
  <2> QED  BY <2>3, <2>4
<1> QED
  <2>1. \A t \in Clients \cap in_use' : t \in in_use /\ opt'[t] = opt[t] /\ start'[t] = start[t]
    OBVIOUS
  <2> QED  BY <1>1, <1>2, <1>3, <1>4, <1>5, <1>6, <2>1, HeldFrame

(* The history's own downstreams are not aligned: each is given all there  *)
(* is, or as much as its pre_output handler allows, and takes it.          *)
LEMMA WholeTaken ==
  ASSUME IInv, Pair, scan # Deleted, NEW s \in {Counter, Keeper}, NEW acceptable \in Nat,
         NEW done \in Taken(s, acceptable)
  PROVE  done = IF acceptable > 0 /\ Avail(s) > acceptable THEN acceptable ELSE Avail(s)
<1>1. /\ s \in in_use /\ s \notin close_flg /\ AlignOf(s) = 1 /\ Avail(s) \in Nat
      /\ opt[s] = HistoryOption
  BY PairIs
<1>2. PICK u \in Nat : u = Unaligned(s)
  BY <1>1, UnalignedIsOwn
<1>3. \A x \in Int : AlignFloor(x, 1) = x
  BY FloorFacts, SMT
<1>4. acceptable - u \in Int /\ Avail(s) - u \in Int
      /\ acceptable - u + u = acceptable /\ Avail(s) - u + u = Avail(s)
  BY <1>1, <1>2
<1>5. MaxWrite(s, acceptable) = acceptable
  BY <1>1, <1>2, <1>3, <1>4 DEF MaxWrite
<1>6. WriteSize(s, acceptable) = IF acceptable > 0 /\ Avail(s) > acceptable THEN acceptable ELSE Avail(s)
  <2>1. AlignFloor(Avail(s) - Unaligned(s), AlignOf(s)) + Unaligned(s) = Avail(s)
    BY <1>1, <1>2, <1>3, <1>4
  <2> QED  BY <1>1, <1>5, <2>1 DEF WriteSize, PacketWrite
<1>7. ~opt[s].use_retval
  BY <1>1 DEF HistoryOption
<1>8. WriteSize(s, acceptable) \in Nat
  BY <1>1, <1>6
<1>9. done = WriteSize(s, acceptable)
  BY <1>7, <1>8 DEF Taken
<1> QED  BY <1>6, <1>9

LEMMA CountTyped ==
  ASSUME HTypeOK, Summed, NEW size \in Nat, CountOutput(size), UNCHANGED clock
  PROVE  HTypeOK'
<1>1. records' \in Seq(Record) /\ Len(records') <= Num
  <2>1. Num \in Nat /\ records' \in Seq(Record) /\ Len(records') = Len(Recs) /\ Len(Recs) \in 1 .. Num
    BY CountedIs, RecsAre, WindowCovers
  <2> QED  BY <2>1
<1>2. backward_bytes' \in Nat
  <2>1. backward_bytes' = BytesInWindow(Recs, now) + size /\ BytesInWindow(Recs, now) \in Nat
    BY CountSummed
  <2> QED  BY <2>1
<1>3. given' \in [1 .. Num -> Nat]
  <2>1. given \in [1 .. Num -> Nat] /\ given' = [given EXCEPT ![1] = @ + size]
    BY DEF HTypeOK, CountOutput
  <2>2. 1 \in 1 .. Num
    BY WindowCovers, SMT
  <2> QED  BY <2>1, <2>2
<1>4. revived' \in BOOLEAN
  BY Zenon DEF CountOutput
<1>5. now' = now /\ passed' = passed /\ set_backs' = set_backs
  BY DEF clock
<1> QED  BY <1>1, <1>2, <1>3, <1>4, <1>5 DEF HTypeOK, Record, Num

(* When the counter has counted, all of the data is counted.               *)
LEMMA CounterVisitHeld ==
  ASSUME IInv, Told, Held, CounterVisit
  PROVE  IInv' /\ Told' /\ Held'
<1>1. PICK done \in 0 .. BufSize :
        /\ VisitWrite(Counter, 0, done)
        /\ IF done > 0 THEN CountOutput(done) ELSE UNCHANGED <<records, backward_bytes, given, revived>>
        /\ UNCHANGED clock
  BY DEF CounterVisit
<1>2. done \in Nat /\ 0 \in Nat
  OBVIOUS
<1>3. IInv'
  BY <1>1, <1>2, TwoOfThem, VisitWriteStep
<1>4. /\ Pair /\ BeginsOnPacket /\ HistoryKept /\ HTypeOK /\ Summed /\ Recent
      /\ scan = Counter /\ scan # Deleted
  BY <1>1, TwoOfThem DEF Held, Told, VisitWrite, Visit
<1>5. /\ Counter \in in_use /\ Keeper \in in_use /\ Counter \notin close_flg /\ Keeper \notin close_flg
      /\ Avail(Counter) \in Nat /\ Avail(Keeper) \in Nat
      /\ pos[Counter] \in Nat /\ buf_used \in Nat
  BY <1>4, PairIs
<1>6. done = Avail(Counter)
  <2>1. done \in Taken(Counter, 0)
    BY <1>1 DEF VisitWrite
  <2>2. done = IF 0 > 0 /\ Avail(Counter) > 0 THEN 0 ELSE Avail(Counter)
    BY <1>2, <1>4, <2>1, WholeTaken
  <2>3. ~ (0 > 0)
    OBVIOUS
  <2> QED  BY <2>2, <2>3
<1>7. /\ pos' = [pos EXCEPT ![Counter] = @ + done] /\ pos \in [Slots -> Nat]
      /\ UNCHANGED <<buf_used, in_use, close_flg, opt, start, dropped>>
  BY <1>1 DEF VisitWrite, buffer, IInv, TypeOK
<1>8. pos'[Counter] = buf_used' /\ pos'[Keeper] = pos[Keeper]
  <2>1. pos'[Counter] = pos[Counter] + done /\ pos'[Keeper] = pos[Keeper]
    BY <1>7, TwoOfThem
  <2> QED  BY <1>5, <1>6, <1>7, <2>1 DEF Avail
<1>9. Avail(Counter)' = 0 /\ Avail(Keeper)' = Avail(Keeper)
  BY <1>5, <1>7, <1>8 DEF Avail
<1>10. Told' /\ (~revived' => ~revived /\ backward_bytes' <= backward_bytes + done)
  <2>1. CASE done > 0
    <3>1. CountOutput(done) /\ now' = now /\ set_backs' = set_backs
      BY <1>1, <2>1 DEF clock
    <3>2. HTypeOK'
      BY <1>1, <1>2, <1>4, <3>1, CountTyped
    <3>3. Summed'
      BY <1>2, <1>4, <3>1, CountSummed
    <3>4. Recent'
      BY <1>2, <1>4, <3>1, CountRecent
    <3>5. ASSUME ~revived' PROVE ~revived /\ backward_bytes' <= backward_bytes + done
      <4>1. /\ backward_bytes' = BytesInWindow(Recs, now) + done
            /\ BytesInWindow(Recs, now) \in Nat
            /\ BytesInWindow(Recs, now) <= backward_bytes
        BY <1>2, <1>4, <3>1, <3>5, CountSummed, CountNotMore
      <4>2. backward_bytes \in Nat
        BY <1>4 DEF HTypeOK
      <4>3. ~revived
        BY <3>1, <3>5, Zenon DEF CountOutput
      <4> QED  BY <1>2, <4>1, <4>2, <4>3
    <3> QED  BY <3>2, <3>3, <3>4, <3>5 DEF Told
  <2>2. CASE ~(done > 0)
    <3>1. UNCHANGED history
      BY <1>1, <2>2 DEF history
    <3>2. backward_bytes' = backward_bytes /\ revived' = revived /\ backward_bytes \in Nat
      BY <1>4, <3>1 DEF history, HTypeOK
    <3> QED  BY <1>2, <3>1, <3>2, ToldFrame
  <2> QED  BY <2>1, <2>2
<1>11. Sound' => Sound /\ backward_bytes' + Avail(Counter)' <= Avail(Keeper)'
  <2> SUFFICES ASSUME Sound' PROVE Sound /\ backward_bytes' + Avail(Counter)' <= Avail(Keeper)'
    OBVIOUS
  <2>1. Sound /\ backward_bytes' <= backward_bytes + done
    BY <1>7, <1>10 DEF Sound
  <2>2. backward_bytes + Avail(Counter) <= Avail(Keeper)
    BY <1>4, <2>1 DEF HistoryKept
  <2>3. backward_bytes \in Nat /\ backward_bytes' \in Nat
    BY <1>4, <1>10 DEF HTypeOK, Told
  <2> QED  BY <1>5, <1>6, <1>9, <2>1, <2>2, <2>3
<1>12. scan' # Deleted
  <2>1. Goto(Counter + 1) /\ Counter + 1 \in Int
    BY <1>1 DEF VisitWrite, Visit, Counter
  <2> QED  BY <2>1, GotoType DEF IInv
<1>13. Held'
  <2>1. \A t \in Clients \cap in_use' : t \in in_use /\ opt'[t] = opt[t] /\ start'[t] = start[t]
    BY <1>7
  <2> QED  BY <1>4, <1>5, <1>7, <1>8, <1>11, <1>12, <2>1, HeldFrame
<1> QED  BY <1>3, <1>10, <1>13

(* The keeper keeps what is counted.                                       *)
LEMMA KeeperVisitHeld ==
  ASSUME IInv, Told, Held, KeeperVisit
  PROVE  IInv' /\ Held'
<1>1. Keeper \in Slots \ {Counter} /\ Keeper \in {Counter, Keeper} /\ Keeper \in Slots
  BY TwoOfThem
<1>2. Pair /\ backward_bytes \in Nat /\ UNCHANGED history
  BY DEF Held, Told, HTypeOK, KeeperVisit
<1>3. CASE Avail(Keeper) > backward_bytes
  <2>1. PICK done \in 0 .. BufSize : VisitWrite(Keeper, Passed, done)
    BY <1>3 DEF KeeperVisit
  <2>2. Visit(Keeper) /\ done \in Taken(Keeper, Passed) /\ scan # Deleted
    BY <2>1, TwoOfThem DEF VisitWrite, Visit
  <2>3. Avail(Keeper) \in Nat /\ pos[Keeper] \in Nat /\ buf_used \in Nat
    BY <1>1, <1>2, <2>2, PairIs
  <2>4. Passed \in Nat /\ done \in Nat
    BY <1>2, <1>3, <2>3 DEF Passed
  <2>5. done <= Passed
    <3>1. done = IF Passed > 0 /\ Avail(Keeper) > Passed THEN Passed ELSE Avail(Keeper)
      BY <1>1, <1>2, <2>2, <2>4, WholeTaken
    <3> QED  BY <1>2, <1>3, <2>3, <3>1 DEF Passed
  <2>6. /\ pos' = [pos EXCEPT ![Keeper] = @ + done] /\ pos \in [Slots -> Nat]
        /\ UNCHANGED <<buffer, in_use, close_flg, opt, start, dropped>>
    BY <2>1 DEF VisitWrite, IInv, TypeOK
  <2>7. backward_bytes <= Avail(Keeper)'
    <3>1. pos'[Keeper] = pos[Keeper] + done /\ buf_used' = buf_used
      BY <1>1, <2>6 DEF buffer
    <3> QED  BY <1>2, <2>3, <2>4, <2>5, <3>1 DEF Avail, Passed
  <2>8. IInv'
    BY <1>1, <2>1, <2>4, VisitWriteStep
  <2>9. \A t \in Slots : t # Keeper => pos'[t] = pos[t]
    BY <2>6
  <2> QED  BY <1>1, <1>2, <2>2, <2>6, <2>7, <2>8, <2>9, VisitHeld
<1>4. CASE ~(Avail(Keeper) > backward_bytes)
  <2>1. VisitBusy(Keeper, 0) /\ 0 \in Nat
    BY <1>4 DEF KeeperVisit
  <2>2. IInv'
    BY <1>1, <2>1, VisitBusyStep
  <2>3. Visit(Keeper) /\ UNCHANGED <<buffer, in_use, close_flg, opt, start, dropped>> /\ pos' = pos
    BY <2>1 DEF VisitBusy, cursor, ghost
  <2> QED  BY <1>1, <1>2, <2>2, <2>3, VisitHeld
<1> QED  BY <1>3, <1>4

LEMMA ClientVisitHeld ==
  ASSUME IInv, Told, Held, NEW s \in Clients, ClientVisit(s)
  PROVE  IInv' /\ Held'
<1>1. s \in Slots \ {Counter} /\ s # Keeper /\ opt[s].maxsize \in Nat /\ UNCHANGED history
  BY TwoOfThem DEF Clients, ClientVisit, IInv, TypeOK, Option
<1>2. IInv' /\ Visit(s) /\ UNCHANGED <<buffer, in_use, close_flg, opt, start, dropped>>
      /\ \A t \in Slots : t # s => pos'[t] = pos[t]
  <2>1. CASE VisitHeldBack(s)
    BY <1>1, <2>1, VisitHeldBackStep DEF VisitHeldBack, slots, cursor, ghost
  <2>2. CASE VisitBusy(s, opt[s].maxsize)
    <3>1. IInv'
      BY <1>1, <2>2, VisitBusyStep
    <3> QED  BY <2>2, <3>1 DEF VisitBusy, cursor, ghost
  <2>3. ASSUME NEW done \in 0 .. BufSize, VisitWrite(s, opt[s].maxsize, done)
        PROVE  IInv' /\ Visit(s) /\ UNCHANGED <<buffer, in_use, close_flg, opt, start, dropped>>
               /\ \A t \in Slots : t # s => pos'[t] = pos[t]
    <3>1. done \in Nat /\ s \in Slots
      BY <1>1
    <3>2. IInv'
      BY <1>1, <2>3, <3>1, VisitWriteStep
    <3>3. pos' = [pos EXCEPT ![s] = @ + done] /\ pos \in [Slots -> Nat]
      BY <2>3 DEF VisitWrite, IInv, TypeOK
    <3>4. \A t \in Slots : t # s => pos'[t] = pos[t]
      BY <3>3
    <3> QED  BY <2>3, <3>2, <3>4 DEF VisitWrite
  <2> QED  BY <2>1, <2>2, <2>3 DEF ClientVisit
<1> QED  BY <1>1, <1>2, VisitHeld

(* As far back as the history is kept, the position needs not be raised:   *)
(* it is on a packet boundary of the stream.                               *)
LEMMA ConnectedOnPacket ==
  ASSUME IInv, NEW o \in Option, NEW backward \in Nat, backward <= buf_used, o.aligned
  PROVE  (Base + Raised(buf_used + ConnectDiff(o, backward))) % Align = 0
<1>1. /\ input_total \in Nat /\ buf_used \in Nat
      /\ Align \in Nat \ {0}
  BY SizeAssumption DEF IInv, TypeOK
<1>2. PICK x \in Int : x = input_total - backward
  BY <1>1
<1>3. PICK q \in Int, r \in 0 .. Align - 1 : q * Align \in Int /\ r = x % Align /\ r = x - q * Align
  BY <1>1, DivBounds
<1>4. /\ (q * Align) % Align = 0 /\ ((q + 1) * Align) % Align = 0
      /\ (q + 1) * Align \in Int /\ (q + 1) * Align = q * Align + Align
  <2>1. q + 1 \in Int /\ (q + 1) * Align = q * Align + Align
    BY <1>1, <1>3, SMT
  <2> QED  BY <1>1, <1>3, <2>1, ModOfMultiple
<1>5. CASE r > 0
  <2>1. ConnectDiff(o, backward) = Align - r - backward
    BY <1>2, <1>3, <1>5 DEF ConnectDiff
  <2>2. Base + Raised(buf_used + ConnectDiff(o, backward)) = (q + 1) * Align
    <3>1. PICK p \in Int : p = buf_used + ConnectDiff(o, backward)
      BY <1>1, <1>3, <2>1
    <3>2. p >= 0 /\ Raised(p) = p
      BY <1>1, <1>3, <2>1, <3>1, SMT DEF Raised
    <3> QED  BY <1>1, <1>2, <1>3, <1>4, <2>1, <3>1, <3>2 DEF Base
  <2> QED  BY <1>4, <2>2
<1>6. CASE ~(r > 0)
  <2>1. ConnectDiff(o, backward) = - backward
    BY <1>2, <1>3, <1>6 DEF ConnectDiff
  <2>2. Base + Raised(buf_used + ConnectDiff(o, backward)) = q * Align
    <3>1. PICK p \in Int : p = buf_used + ConnectDiff(o, backward)
      BY <1>1, <2>1
    <3>2. p >= 0 /\ Raised(p) = p
      BY <1>1, <2>1, <3>1, SMT DEF Raised
    <3> QED  BY <1>1, <1>2, <1>3, <1>4, <1>6, <2>1, <3>1, <3>2 DEF Base
  <2> QED  BY <1>4, <2>2
<1> QED  BY <1>5, <1>6

LEMMA ClientConnectHeld ==
  ASSUME IInv, Told, Held, ClientConnect
  PROVE  IInv' /\ Held'
<1>1. PICK s \in Clients, o \in Options : Connect(s, o, backward_bytes)
  BY DEF ClientConnect
<1>2. s \in Slots /\ s # Counter /\ s # Keeper /\ o \in Option /\ backward_bytes \in Nat
      /\ UNCHANGED history
  BY TwoOfThem, OptionAssumption DEF Clients, Told, HTypeOK, ClientConnect
<1>3. IInv'
  BY <1>1, <1>2, ConnectStep
<1>4. /\ Pair /\ HistoryKept /\ BeginsOnPacket /\ scan = Idle /\ scan' = Idle /\ scan # Deleted
      /\ UNCHANGED <<input_total, buf_used, backward_bytes, revived>>
  BY <1>1, <1>2, TwoOfThem DEF Held, Connect, pass, buffer, history
<1>5. /\ Counter \in in_use /\ Keeper \in in_use /\ Counter \notin close_flg /\ Keeper \notin close_flg
      /\ Avail(Counter) \in Nat /\ Avail(Keeper) \in Nat /\ Avail(Keeper) <= buf_used
      /\ opt[Counter] = HistoryOption /\ opt[Keeper] = HistoryOption
  BY <1>4, PairIs DEF Avail, Pair
<1>6. /\ in_use' = in_use \cup {s} /\ close_flg' = close_flg \ {s}
      /\ \A t \in Slots : t # s => /\ opt'[t] = opt[t] /\ pos'[t] = pos[t]
                                   /\ start'[t] = start[t] /\ dropped'[t] = dropped[t]
      /\ opt'[s] = o
      /\ start'[s] = Base + Raised(buf_used + ConnectDiff(o, backward_bytes))
  <2>1. /\ opt \in [Slots -> Option] /\ pos \in [Slots -> Nat]
        /\ start \in [Slots -> Nat] /\ dropped \in [Slots -> Int]
    BY DEF IInv, TypeOK
  <2> QED  BY <1>1, <1>2, <2>1 DEF Connect
<1>7. /\ opt'[Counter] = opt[Counter] /\ opt'[Keeper] = opt[Keeper]
      /\ pos'[Counter] = pos[Counter] /\ pos'[Keeper] = pos[Keeper]
      /\ dropped'[Counter] = dropped[Counter] /\ dropped'[Keeper] = dropped[Keeper]
  BY <1>2, <1>6, TwoOfThem
<1>8. Pair'
  BY <1>2, <1>4, <1>5, <1>6, <1>7, TwoOfThem DEF Pair, HistoryOption
<1>9. Sound' = Sound
  BY <1>4, <1>7 DEF Sound
<1>10. HistoryKept'
  BY <1>4, <1>7, <1>9 DEF HistoryKept, Avail
<1>11. BeginsOnPacket'
  <2>1. Clients' = Clients
    BY DEF Clients
  <2> SUFFICES ASSUME Sound', NEW t \in Clients \cap in_use', opt'[t].aligned
               PROVE  start'[t] % Align = 0
    BY <2>1 DEF BeginsOnPacket
  <2>2. CASE t = s
    <3>1. backward_bytes <= buf_used
      <4>1. backward_bytes + Avail(Counter) <= Avail(Keeper)
        BY <1>4, <1>9 DEF HistoryKept
      <4>2. buf_used \in Nat
        BY DEF IInv, TypeOK
      <4> QED  BY <1>2, <1>5, <4>1, <4>2
    <3>2. o.aligned
      BY <1>6, <2>2
    <3> QED  BY <1>2, <1>6, <2>2, <3>1, <3>2, ConnectedOnPacket
  <2>3. CASE t # s
    <3>1. t \in Clients \cap in_use /\ t \in Slots
      BY <1>6, <2>3 DEF Clients
    <3>2. opt'[t] = opt[t] /\ start'[t] = start[t] /\ opt[t].aligned
      BY <1>6, <2>3, <3>1
    <3> QED  BY <1>4, <1>9, <3>1, <3>2 DEF BeginsOnPacket
  <2> QED  BY <2>2, <2>3
<1> QED  BY <1>3, <1>8, <1>10, <1>11 DEF Held

-----------------------------------------------------------------------------
(***************************************************************************)
(* The steps that are not the history's own.                               *)
(***************************************************************************)

(* Unless they are made to skip, the counter and the keeper stay as far    *)
(* apart.                                                                  *)
LEMMA ClearHeld ==
  ASSUME IInv, Told, Held, NEW low \in Nat, NEW require \in Nat, NEW size \in Nat,
         ClearSize(low, require) \in 0 .. buf_used,
         ClearAndInput(low, require, size), scan = Idle,
         UNCHANGED <<slots, pass, start>>, UNCHANGED history
  PROVE  Held'
<1> DEFINE clear == ClearSize(low, require)
<1>1. /\ Pair /\ HistoryKept /\ BeginsOnPacket /\ scan # Deleted /\ scan' = Idle /\ scan' # Deleted
      /\ UNCHANGED <<in_use, close_flg, opt, start, backward_bytes, revived>>
      /\ backward_bytes \in Nat
  BY TwoOfThem DEF Held, pass, slots, history, Told, HTypeOK
<1>2. /\ buf_used' = buf_used - clear + size
      /\ pos' = [s \in Slots |-> IF Live(s) THEN pos[s] - clear + Skip(s, clear) ELSE pos[s]]
      /\ dropped' = [s \in Slots |-> dropped[s] + Skip(s, clear)]
  BY Zenon DEF ClearAndInput, ClearSize
<1> HIDE DEF clear
<1>3. ASSUME NEW s \in {Counter, Keeper}
      PROVE  /\ s \in in_use /\ s \notin close_flg /\ Avail(s) \in Nat /\ dropped[s] \in Nat
             /\ dropped'[s] = 0 => dropped[s] = 0 /\ Avail(s)' = Avail(s) + size
  <2>1. /\ s \in Slots /\ s \in in_use /\ s \notin close_flg /\ Live(s) /\ Avail(s) \in Nat
        /\ dropped[s] \in Nat /\ pos[s] \in Nat /\ buf_used \in Nat
    BY <1>1, PairIs
  <2>2. clear \in Nat
    BY <2>1 DEF clear
  <2>3. Skip(s, clear) \in Nat
    BY <2>1, <2>2, SkipFacts DEF IInv
  <2>4. dropped'[s] = dropped[s] + Skip(s, clear) /\ pos'[s] = pos[s] - clear + Skip(s, clear)
    BY <1>2, <2>1
  <2>5. dropped'[s] = 0 => dropped[s] = 0 /\ Avail(s)' = Avail(s) + size
    BY <1>2, <2>1, <2>2, <2>3, <2>4 DEF Avail
  <2> QED  BY <2>1, <2>5
<1>4. Sound' => Sound /\ backward_bytes' + Avail(Counter)' <= Avail(Keeper)'
  <2>1. Sound' => /\ Sound
                  /\ Avail(Counter)' = Avail(Counter) + size /\ Avail(Keeper)' = Avail(Keeper) + size
    BY <1>1, <1>3 DEF Sound
  <2>2. Sound => backward_bytes + Avail(Counter) <= Avail(Keeper)
    BY <1>1 DEF HistoryKept
  <2>3. Avail(Counter) \in Nat /\ Avail(Keeper) \in Nat
    BY <1>3
  <2>4. \A a, b, k \in Nat : k + a <= b => k + (a + size) <= b + size
    OBVIOUS
  <2> QED  BY <1>1, <2>1, <2>2, <2>3, <2>4
<1>5. scan' \notin (Slots \cup {CheckClose}) \ {Counter}
  BY <1>1, TwoOfThem
<1>6. \A s \in Clients \cap in_use' : s \in in_use /\ opt'[s] = opt[s] /\ start'[s] = start[s]
  BY <1>1
<1> QED  BY <1>1, <1>3, <1>4, <1>5, <1>6, HeldFrame

LEMMA ClearBufHeld ==
  ASSUME IInv, Told, Held, NEW require \in ClearSizes, ClearBuf(require), UNCHANGED history
  PROVE  Held'
<1>1. PICK low \in Unread : /\ \A p \in Unread : low <= p
                            /\ ClearAndInput(low, require, 0)
  BY DEF ClearBuf
<1>2. require \in Nat /\ require + 2 * (Align - 1) <= BufSize /\ low \in Nat /\ 0 \in Nat
  BY InputAssumption DEF Unread, IInv, TypeOK
<1>3. ClearSize(low, require) \in 0 .. buf_used
  BY <1>1, <1>2, ClearSizeFacts
<1> QED  BY <1>1, <1>2, <1>3, ClearHeld DEF ClearBuf

LEMMA InputBufHeld ==
  ASSUME IInv, Told, Held, NEW size \in InputSizes, InputBuf(size), UNCHANGED history
  PROVE  Held'
<1>1. size \in Nat /\ size + 2 * (Align - 1) <= BufSize
  BY InputAssumption
<1>2. CASE buf_used + size > BufSize
  <2>1. PICK low \in Unread : /\ \A p \in Unread : low <= p
                              /\ ClearAndInput(low, size, size)
    BY <1>2 DEF InputBuf
  <2>2. low \in Nat
    BY DEF Unread, IInv, TypeOK
  <2>3. ClearSize(low, size) \in 0 .. buf_used
    BY <1>1, <2>1, ClearSizeFacts
  <2> QED  BY <1>1, <2>1, <2>2, <2>3, ClearHeld DEF InputBuf
<1>3. CASE ~(buf_used + size > BufSize)
  <2>1. /\ Pair /\ HistoryKept /\ BeginsOnPacket /\ scan = Idle /\ scan' = Idle
        /\ UNCHANGED <<in_use, close_flg, opt, start, pos, dropped, backward_bytes, revived>>
        /\ buf_used' = buf_used + size /\ backward_bytes \in Nat
    BY <1>3 DEF Held, InputBuf, pass, slots, history, Told, HTypeOK
  <2>2. ASSUME NEW s \in {Counter, Keeper}
        PROVE  s \in in_use /\ s \notin close_flg /\ Avail(s) \in Nat /\ Avail(s)' = Avail(s) + size
    <3>1. s \in in_use /\ s \notin close_flg /\ Avail(s) \in Nat /\ pos[s] \in Nat /\ buf_used \in Nat
      BY <2>1, PairIs, TwoOfThem
    <3> QED  BY <1>1, <2>1, <3>1 DEF Avail
  <2>3. Sound' => Sound /\ backward_bytes' + Avail(Counter)' <= Avail(Keeper)'
    <3>1. Sound' => Sound
      BY <2>1 DEF Sound
    <3>2. Sound => backward_bytes + Avail(Counter) <= Avail(Keeper)
      BY <2>1 DEF HistoryKept
    <3>3. \A a, b, k \in Nat : k + a <= b => k + (a + size) <= b + size
      BY <1>1
    <3> QED  BY <2>1, <2>2, <3>1, <3>2, <3>3
  <2>4. scan' \notin (Slots \cup {CheckClose}) \ {Counter} /\ scan # Deleted /\ scan' # Deleted
    BY <2>1, TwoOfThem
  <2>5. \A s \in Clients \cap in_use' : s \in in_use /\ opt'[s] = opt[s] /\ start'[s] = start[s]
    BY <2>1
  <2> QED  BY <2>1, <2>2, <2>3, <2>4, <2>5, HeldFrame
<1> QED  BY <1>2, <1>3

(* The history's own downstreams are never disconnected.                   *)
LEMMA DisconnectHeld ==
  ASSUME IInv, Told, Held, NEW s \in Clients, Disconnect(s) \/ DisconnectNow(s), UNCHANGED history
  PROVE  Held'
<1>1. s \in Slots /\ s # Counter /\ s # Keeper
  BY TwoOfThem DEF Clients
<1>2. /\ Pair /\ HistoryKept /\ BeginsOnPacket /\ scan = Idle /\ scan' = Idle /\ scan # Deleted
      /\ UNCHANGED <<buf_used, in_use, opt, start, pos, backward_bytes, revived>>
      /\ close_flg' \subseteq close_flg \cup {s}
  BY TwoOfThem DEF Held, Disconnect, DisconnectNow, pass, slots, buffer, history
<1>3. dropped'[Counter] = dropped[Counter] /\ dropped'[Keeper] = dropped[Keeper]
  <2>1. dropped \in [Slots -> Int] /\ Counter \in Slots /\ Keeper \in Slots
    BY TwoOfThem DEF IInv, TypeOK
  <2> QED  BY <1>1, <2>1 DEF Disconnect, DisconnectNow
<1>4. /\ Counter \in in_use /\ Keeper \in in_use /\ Counter \notin close_flg /\ Keeper \notin close_flg
  BY <1>2, PairIs
<1>5. Sound' => Sound /\ backward_bytes' + Avail(Counter)' <= Avail(Keeper)'
  BY <1>2, <1>3 DEF Sound, HistoryKept, Avail
<1>6. scan' \notin (Slots \cup {CheckClose}) \ {Counter} /\ scan' # Deleted
  BY <1>2, TwoOfThem
<1>7. \A t \in Clients \cap in_use' : t \in in_use /\ opt'[t] = opt[t] /\ start'[t] = start[t]
  BY <1>2
<1>8. Counter \notin close_flg' /\ Keeper \notin close_flg'
  BY <1>1, <1>2, <1>4
<1> QED  BY <1>2, <1>4, <1>5, <1>6, <1>7, <1>8, HeldFrame

(* check_close closes only what was disconnected.                          *)
LEMMA EndOutputHeld ==
  ASSUME IInv, Told, Held, EndOutput, UNCHANGED history
  PROVE  Held'
<1>1. /\ Pair /\ HistoryKept /\ BeginsOnPacket /\ scan' = Idle /\ scan # Deleted
      /\ UNCHANGED <<buf_used, backward_bytes, revived>>
      /\ in_use' = in_use \ ToClose /\ close_flg' = close_flg \ ToClose
  BY TwoOfThem DEF Held, EndOutput, buffer, history
<1>2. \A t \in Slots \ ToClose :
         /\ opt'[t] = opt[t] /\ start'[t] = start[t] /\ dropped'[t] = dropped[t]
         /\ ~Drained(t) => pos'[t] = pos[t]
  BY Zenon DEF EndOutput, Forget
<1>3. ASSUME NEW s \in {Counter, Keeper}
      PROVE  /\ s \in in_use /\ s \notin close_flg /\ s \in Slots \ ToClose /\ ~Drained(s)
  BY <1>1, PairIs DEF ToClose
<1>4. /\ \A s \in {Counter, Keeper} :
           /\ s \in in_use' /\ s \notin close_flg'
           /\ opt'[s] = opt[s] /\ dropped'[s] = dropped[s] /\ pos'[s] = pos[s]
  BY <1>1, <1>2, <1>3
<1>5. Sound' => Sound /\ backward_bytes' + Avail(Counter)' <= Avail(Keeper)'
  BY <1>1, <1>4 DEF Sound, HistoryKept, Avail
<1>6. scan' \notin (Slots \cup {CheckClose}) \ {Counter} /\ scan' # Deleted
  BY <1>1, TwoOfThem
<1>7. \A t \in Clients \cap in_use' : t \in in_use /\ opt'[t] = opt[t] /\ start'[t] = start[t]
  <2>1. Clients \subseteq Slots
    BY DEF Clients
  <2> QED  BY <1>1, <1>2, <2>1
<1> QED  BY <1>1, <1>4, <1>5, <1>6, <1>7, HeldFrame

LEMMA CloseBufHeld ==
  ASSUME IInv, Told, Held, CloseBuf, UNCHANGED history
  PROVE  Held'
<1>1. /\ Pair /\ HistoryKept /\ scan' = Deleted /\ in_use' = {}
      /\ UNCHANGED <<buf_used, close_flg, opt, pos, dropped, backward_bytes, revived>>
  BY DEF Held, CloseBuf, buffer, cursor, ghost, history
<1>2. Pair'
  BY <1>1, TwoOfThem DEF Pair, HistoryOption
<1>3. HistoryKept'
  BY <1>1 DEF HistoryKept, Sound, Avail
<1>4. BeginsOnPacket'
  BY <1>1 DEF BeginsOnPacket
<1> QED  BY <1>2, <1>3, <1>4 DEF Held

LEMMA HInitHInv == HInit => HInv
<1> SUFFICES ASSUME HInit PROVE HInv  OBVIOUS
<1>1. Counter \in Slots /\ Keeper \in Slots /\ Counter # Keeper
  BY TwoOfThem
<1>2. /\ opt = [s \in Slots |-> IF s \in Clients THEN NoOption ELSE HistoryOption]
      /\ opt[Counter] = HistoryOption /\ opt[Keeper] = HistoryOption
  BY TwoOfThem DEF HInit
<1>3. TypeOK
  <2>1. opt \in [Slots -> Option]
    <3>1. NoOption \in Option /\ HistoryOption \in Option
      BY DEF NoOption, HistoryOption, Option
    <3> QED  BY <1>2, <3>1
  <2>2. n_downstreams \in 0 .. MaxDownstreams
    BY SizeAssumption, HistoryAssumption, SMT DEF HInit
  <2> QED  BY <1>1, <2>1, <2>2 DEF HInit, TypeOK, Idle
<1>4. Ring
  <2>1. 0 % BufSize = 0 /\ 0 % Align = 0  BY SizeAssumption, SMT
  <2> QED  BY <2>1, SizeAssumption, SMT DEF HInit, Ring, RingAddress, Base
<1>5. CountedInUse
  <2>1. IsFiniteSet({}) /\ Cardinality({}) = 0
    BY FS_EmptySet
  <2>2. IsFiniteSet({Counter}) /\ Cardinality({Counter}) = 1
    BY FS_Singleton
  <2>3. Cardinality({Counter} \cup {Keeper}) = 2 /\ {Counter, Keeper} = {Counter} \cup {Keeper}
    <3>1. Cardinality({Counter} \cup {Keeper}) = Cardinality({Counter}) + 1
      BY <1>1, <2>2, FS_AddElement
    <3> QED  BY <2>2, <3>1
  <2> QED  BY <2>3 DEF HInit, CountedInUse
<1>6. ASSUME NEW s \in in_use PROVE Reader(s)
  <2>1. /\ s \in Slots /\ opt[s] = HistoryOption /\ s \notin close_flg
        /\ remain_unaligned[s] = 0 /\ pos[s] = 0 /\ start[s] = 0 /\ delivered[s] = 0 /\ dropped[s] = 0
        /\ buf_used = 0 /\ input_total = 0
    BY <1>1, <1>2 DEF HInit
  <2>2. AlignOf(s) = 1 /\ ~opt[s].aligned /\ 0 % 1 = 0 /\ Base = 0
    <3>1. 0 % 1 = 0 /\ 0 - 0 = 0
      BY SMT
    <3> QED  BY <2>1, <3>1 DEF AlignOf, HistoryOption, Base
  <2> QED  BY <2>1, <2>2 DEF Reader, Settings, Inside, Closing, Books
<1>7. IInv
  BY <1>3, <1>4, <1>5, <1>6 DEF IInv, HInit
<1>8. HTypeOK
  <2>1. Num \in Nat \ {0}
    BY WindowCovers
  <2>2. given \in [1 .. Num -> Nat] /\ records \in Seq([timenum : 0 .. MaxTick, bytes : Nat])
        /\ Len(records) = 0
    BY DEF HInit
  <2>3. /\ now \in 0 .. passed /\ passed \in 0 .. MaxTick /\ set_backs \in 0 .. MaxSetBacks
        /\ revived \in BOOLEAN /\ backward_bytes \in Nat
    <3>1. 0 \in 0 .. 0 /\ 0 \in 0 .. MaxTick /\ 0 \in 0 .. MaxSetBacks
      BY HistoryAssumption
    <3> QED  BY <3>1 DEF HInit
  <2>4. Len(records) <= Num
    BY <2>1, <2>2
  <2> QED  BY <2>2, <2>3, <2>4 DEF HTypeOK
<1>9. Summed
  BY DEF HInit, Summed
<1>10. Recent
  BY DEF HInit, Recent
<1>11. Pair
  BY <1>2, TwoOfThem DEF HInit, Pair
<1>12. HistoryKept
  <2>1. Avail(Counter) = 0 /\ Avail(Keeper) = 0 /\ backward_bytes = 0
    BY <1>1 DEF HInit, Avail
  <2> QED  BY <2>1 DEF HistoryKept
<1>13. BeginsOnPacket
  <2>1. Clients \cap in_use = {}
    BY TwoOfThem DEF HInit
  <2> QED  BY <2>1 DEF BeginsOnPacket
<1> QED  BY <1>7, <1>8, <1>9, <1>10, <1>11, <1>12, <1>13 DEF HInv

LEMMA TickStep ==
  ASSUME HInv, Tick \/ SetBack
  PROVE  HInv'
<1>1. UNCHANGED vars /\ UNCHANGED <<records, backward_bytes, revived>>
  BY DEF Tick, SetBack
<1>2. IInv' /\ Held'
  BY <1>1, StutterStep, HeldStutter DEF HInv, Held
<1>3. HTypeOK /\ Summed /\ Recent
  BY DEF HInv
<1>4. HTypeOK'
  <2>1. CASE Tick
    <3>1. /\ now' = now + 1 /\ passed' = passed + 1 /\ passed < MaxTick /\ set_backs' = set_backs
          /\ now \in 0 .. passed /\ passed \in 0 .. MaxTick
      BY <1>3, <2>1 DEF Tick, HTypeOK
    <3>2. now' \in 0 .. passed' /\ passed' \in 0 .. MaxTick
      BY <3>1, HistoryAssumption
    <3>3. given' \in [1 .. Num -> Nat]
      <4>1. PICK k \in Nat : k = Num - 1 /\ k + 1 = Num
        BY WindowCovers
      <4>2. given \in [1 .. Num -> Nat] /\ Num \in Nat
        BY <1>3, WindowCovers DEF HTypeOK
      <4>3. given \in Seq(Nat) /\ Len(given) = Num
        BY <4>2
      <4>4. SubSeq(given, 1, k) \in Seq(Nat) /\ Len(SubSeq(given, 1, k)) = k
        <5>1. \A i \in 1 .. k : given[i] \in Nat
          BY <4>1, <4>2
        <5> QED  BY <4>1, <4>3, <5>1
      <4>5. PICK q \in Seq(Nat) : q = SubSeq(given, 1, k) /\ Len(q) = k
        BY <4>4
      <4>6. <<0>> \o q \in Seq(Nat) /\ Len(<<0>> \o q) = Num
        BY <4>1, <4>5
      <4>7. \A f \in Seq(Nat) : f \in [1 .. Len(f) -> Nat]
        OBVIOUS
      <4>8. given' = <<0>> \o q
        BY <2>1, <4>1, <4>5 DEF Tick
      <4> QED  BY <4>6, <4>7, <4>8
    <3> QED  BY <1>1, <1>3, <3>1, <3>2, <3>3 DEF HTypeOK, Num
  <2>2. CASE SetBack
    <3>1. /\ now' \in 0 .. now - 1 /\ passed' = passed /\ set_backs' = set_backs + 1
          /\ set_backs < MaxSetBacks /\ given' = given
          /\ now \in 0 .. passed /\ passed \in 0 .. MaxTick /\ set_backs \in 0 .. MaxSetBacks
      BY <1>3, <2>2 DEF SetBack, HTypeOK
    <3>2. now' \in 0 .. passed' /\ set_backs' \in 0 .. MaxSetBacks
      BY <3>1, HistoryAssumption
    <3> QED  BY <1>1, <1>3, <3>1, <3>2 DEF HTypeOK, Num
  <2> QED  BY <2>1, <2>2
<1>5. Summed'
  BY <1>1, <1>3 DEF Summed
<1>6. Recent'
  BY <1>3, TickRecent, SetBackRecent
<1> QED  BY <1>2, <1>4, <1>5, <1>6 DEF HInv, Held

LEMMA HNextHInv ==
  ASSUME HInv, [HNext]_hvars
  PROVE  HInv'
<1>0. IInv /\ Told /\ Held
  BY DEF HInv, Told, Held
<1>1. ASSUME IInv', Told', Held' PROVE HInv'
  BY <1>1 DEF HInv, Told, Held
<1>2. CASE Tick \/ SetBack
  BY <1>2, TickStep
<1>3. CASE CounterVisit
  BY <1>0, <1>1, <1>3, CounterVisitHeld
<1>4. CASE KeeperVisit
  BY <1>0, <1>1, <1>4, KeeperVisitHeld, ToldFrame DEF KeeperVisit
<1>5. CASE ClientConnect
  BY <1>0, <1>1, <1>5, ClientConnectHeld, ToldFrame DEF ClientConnect
<1>6. ASSUME NEW s \in Clients, ClientVisit(s) PROVE HInv'
  BY <1>0, <1>1, <1>6, ClientVisitHeld, ToldFrame DEF ClientVisit
<1>7. ASSUME UNCHANGED history, BeginOutput PROVE HInv'
  BY <1>0, <1>1, <1>7, BeginOutputStep, BeginOutputHeld, ToldFrame
<1>8. ASSUME UNCHANGED history, EndOutput PROVE HInv'
  BY <1>0, <1>1, <1>8, EndOutputStep, EndOutputHeld, ToldFrame
<1>9. ASSUME UNCHANGED history, NEW n \in ClearSizes, ClearBuf(n) PROVE HInv'
  BY <1>0, <1>1, <1>9, ClearBufStep, ClearBufHeld, ToldFrame
<1>10. ASSUME UNCHANGED history, NEW n \in InputSizes, InputBuf(n) PROVE HInv'
  BY <1>0, <1>1, <1>10, InputBufStep, InputBufHeld, ToldFrame
<1>11. ASSUME UNCHANGED history, NEW s \in Clients, Disconnect(s) \/ DisconnectNow(s) PROVE HInv'
  <2>1. s \in Slots
    BY DEF Clients
  <2> QED  BY <1>0, <1>1, <1>11, <2>1, DisconnectStep, DisconnectNowStep, DisconnectHeld, ToldFrame
<1>12. ASSUME UNCHANGED history, CloseBuf PROVE HInv'
  BY <1>0, <1>1, <1>12, CloseBufStep, CloseBufHeld, ToldFrame
<1>13. ASSUME UNCHANGED history, UNCHANGED vars PROVE HInv'
  BY <1>0, <1>1, <1>13, StutterStep, HeldStutter, ToldFrame DEF history
<1> QED
  BY <1>2, <1>3, <1>4, <1>5, <1>6, <1>7, <1>8, <1>9, <1>10, <1>11, <1>12, <1>13
     DEF HNext, hvars, Terminated

-----------------------------------------------------------------------------
(* Every reachable state of a buffer with a history satisfies the          *)
(* inductive invariant.                                                    *)
THEOREM HistoryInvariance == HSpec => []HInv
<1>1. HInit => HInv  BY HInitHInv
<1>2. HInv /\ [HNext]_hvars => HInv'  BY HNextHInv
<1>3. QED  BY <1>1, <1>2, PTL DEF HSpec

(* With a history, too, whose keeper is let on by as much as its           *)
(* pre_output handler finds right, the positions, sizes and counts of      *)
(* advanced_buffer.c stay in the buffer: its whole invariant holds.        *)
THEOREM HistoryLeavesBuffer == HSpec => []IInv
<1>1. HInv => IInv  BY DEF HInv
<1>2. QED  BY <1>1, HistoryInvariance, PTL

(* What the history counts is still in the buffer: the bytes that          *)
(* ab_connect_downstream_history_backward goes back by are all there.      *)
THEOREM CountedIsKept == HSpec => []HistoryKept
<1>1. HInv => HistoryKept  BY DEF HInv
<1>2. QED  BY <1>1, HistoryInvariance, PTL

(* The records miss nothing of the last ticks, and fit into their array.   *)
LEMMA RecentCovers ==
  ASSUME HTypeOK, Summed, Recent
  PROVE  CoversOverlap
<1> SUFFICES ASSUME set_backs <= Num PROVE backward_bytes >= SumOf(given, Num - set_backs)
  BY DEF CoversOverlap
<1>1. /\ Num \in Nat \ {0} /\ Window \in Nat /\ Num - 1 <= Window
      /\ set_backs \in Nat /\ backward_bytes \in Nat
  <2>1. set_backs \in Nat
    BY HistoryAssumption, SMT DEF HTypeOK
  <2> QED  BY <2>1, WindowCovers DEF HTypeOK
<1>2. given \in [1 .. Num -> Nat]
  BY DEF HTypeOK
<1>3. PICK n \in 0 .. Num : n = Num - set_backs /\ n + set_backs = Num
  BY <1>1
<1>4. n \in Nat /\ n \in 0 .. n /\ \A i \in 1 .. n : given[i] \in Nat
  BY <1>1, <1>2
<1>5. SumOf(given, n) \in Nat
  BY <1>4, SumIs
<1>6. CASE n = 0
  <2>1. SumOf(given, 0) = 0
    <3>1. 0 \in Nat /\ \A i \in 1 .. 0 : given[i] = 0
      OBVIOUS
    <3> QED  BY <3>1, SumNone
  <2> QED  BY <1>1, <1>3, <1>6, <2>1
<1>7. CASE records = << >>
  <2>1. \A i \in 1 .. n : given[i] = 0
    BY <1>1, <1>7 DEF Recent
  <2>2. SumOf(given, n) = 0
    BY <1>4, <2>1, SumNone
  <2> QED  BY <1>1, <1>3, <2>2
<1>8. CASE n # 0 /\ records # << >>
  <2>1. n \in 1 .. Num /\ n + set_backs <= Num
    BY <1>1, <1>3, <1>8
  <2>2. PICK m \in 0 .. Len(records) : SumOf(given, n) <= NewestBytes(m, LatestTick - n + 1)
    BY <1>8, <2>1 DEF Recent
  <2>3. /\ records \in Seq(Record) /\ Len(records) \in Nat
        /\ LatestTick \in Nat /\ records[1].timenum <= LatestTick /\ records[1].timenum \in Nat
    BY <1>1, <1>8, LatestIs, OpenedIs
  <2>4. PICK newest \in Nat : newest = records[1].timenum /\ newest <= LatestTick
    BY <2>3
  <2>5. LatestTick - n + 1 \in Int /\ newest - Window \in Int /\ newest - Window <= LatestTick - n + 1
    <3>1. \A a, b \in Nat : b <= a => a - n + 1 \in Int /\ b - Window \in Int /\ b - Window <= a - n + 1
      BY <1>1, <2>1
    <3> QED  BY <2>3, <2>4, <3>1
  <2>6. SumOf(Within(records, LatestTick - n + 1), m) <= SumOf(Within(records, newest - Window), m)
    BY <2>3, <2>5, FurtherBack
  <2>7. SumOf(Within(records, newest - Window), m) <= SumOf(Within(records, newest - Window), Len(records))
    <3>1. \A i \in 1 .. Len(records) : Within(records, newest - Window)[i] \in Nat
      BY <2>3, <2>5, WithinIs
    <3> QED  BY <2>3, <3>1, SumGrows
  <2>8. backward_bytes = SumOf(Within(records, newest - Window), Len(records))
    <3>1. backward_bytes = BytesInWindow(records, newest) /\ newest \in Int
      BY <1>8, <2>4 DEF Summed
    <3> QED  BY <2>3, <3>1, InWindowIs
  <2>9. /\ SumOf(Within(records, LatestTick - n + 1), m) \in Nat
        /\ SumOf(Within(records, newest - Window), m) \in Nat
    BY <2>3, <2>5, WithinIs
  <2> QED  BY <1>1, <1>3, <1>5, <2>2, <2>6, <2>7, <2>8, <2>9 DEF NewestBytes
<1> QED  BY <1>6, <1>7, <1>8

(* However the outputs are spread over the ticks, the array of num records *)
(* holds all that came in during the last num ticks: as many fewer as the  *)
(* clock was set back.                                                     *)
THEOREM OverlapIsCovered == HSpec => []CoversOverlap
<1>1. HInv => CoversOverlap  BY RecentCovers DEF HInv
<1>2. QED  BY <1>1, HistoryInvariance, PTL

(* A recording that begins in the past begins on a packet.                 *)
THEOREM RecordingsBeginOnPackets == HSpec => []BeginsOnPacket
<1>1. HInv => BeginsOnPacket  BY DEF HInv
<1>2. QED  BY <1>1, HistoryInvariance, PTL
=============================================================================
