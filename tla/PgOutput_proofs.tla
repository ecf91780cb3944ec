--------------------------- MODULE PgOutput_proofs ---------------------------
(***************************************************************************)
(* That core/ts_output.c counts right and uses nothing that it has freed:  *)
(* for any number of programmes, modules, outputs and downstreams, any     *)
(* delays, and any answers of the modules.                                 *)
(*                                                                         *)
(* The counts, the owners of the downstreams and the flags of the clients  *)
(* hold each other up.  A client is Owned from its connection until its    *)
(* module has finished with the programme; a downstream belongs to an owned *)
(* client that the buffer has not closed (Connections); a flag is set only *)
(* for an owned client of a programme that is being closed (Flags); and    *)
(* each count is the number of elements of what it counts (Counts).  Each  *)
(* pass of ts_output sees as many programmes as there are left (Pass).     *)
(***************************************************************************)
EXTENDS PgOutput, FiniteSetTheorems, WellFoundedInduction, TLAPS

Owned(c) == c \in Array(Pg(c), Mod(c)) /\ mod_refcount[Pg(c)][Mod(c)] > 0

Counts ==
  /\ n_pgos = Cardinality(Live)
  /\ \A p \in Live : refcount[p] = Cardinality(Unfinished(p))
  /\ \A p \in Pgs, m \in Modules :
       /\ mod_refcount[p][m] > 0 =>
            p \in Live /\ mod_refcount[p][m] = Cardinality(Array(p, m) \ closed)
       /\ p \in Live \ close_flag1 => mod_refcount[p][m] = n_clients[p][m]
       /\ p \notin Live => n_clients[p][m] = 0

Connections ==
  /\ \A c \in Clients : downstream_id[c] # NoSlot <=> Owned(c)
  /\ \A s \in Slots : param[s] # NoClient =>
       /\ Owned(param[s]) /\ param[s] \notin close_waiting
       /\ downstream_id[param[s]] = s
       /\ <<Pg(param[s]), Mod(param[s])>> \in allocated
  /\ \A c \in Clients : Owned(c) /\ c \notin close_waiting => param[downstream_id[c]] = c
  /\ \A c \in Clients : Owned(c) => <<Pg(c), Mod(c)>> \in allocated

Flags ==
  /\ closed \subseteq close_waiting
  /\ \A c \in close_waiting : Owned(c) /\ Pg(c) \in close_flag1
  /\ \A s \in draining : param[s] # NoClient /\ Pg(param[s]) \in close_flag1
  /\ cut \subseteq draining
  /\ close_flag1 \subseteq Live
  /\ \A p \in close_flag1 : overdue[p] >= 0

Pass ==
  /\ at = "idle" => i = 0 /\ j = 0
  /\ at = "loop" => i + Cardinality({q \in Live : q >= j}) >= n_pgos
  /\ at = "check" => /\ i + Cardinality({q \in Live : q > j}) >= n_pgos
                     /\ j \in Pgs
                     /\ j \in Live => j \in close_flag1

Recorded ==
  phase = "running" =>
    /\ curr_pgos # NoPg => curr_pgos \in Live
    /\ \A p \in Live : overdue[p] = Never <=> p = curr_pgos

PInv == TypeOK /\ Counts /\ Connections /\ Flags /\ Pass /\ Recorded

-----------------------------------------------------------------------------
(***************************************************************************)
(* Finite sets and sets of naturals.                                       *)
(***************************************************************************)

(* A set of naturals that is not empty has a least element.                *)
LEMMA Least ==
  ASSUME NEW T, T \subseteq Nat, T # {}
  PROVE  \E x \in T : \A y \in T : x <= y
<1> DEFINE R == OpToRel(<, Nat)
<1>1. IsWellFoundedOn(R, Nat)
  BY NatLessThanWellFounded
<1>2. \E x \in T : \A y \in T : ~ (<<y, x>> \in R)
  <2> HIDE DEF R
  <2> QED  BY <1>1, WFMin
<1>3. \A x, y \in Nat : <<y, x>> \in R <=> y < x
  BY DEF OpToRel
<1> QED
  <2> HIDE DEF R
  <2>1. PICK x \in T : \A y \in T : ~ (<<y, x>> \in R)
    BY <1>2
  <2>2. \A y \in T : x <= y
    <3> SUFFICES ASSUME NEW y \in T PROVE x <= y
      OBVIOUS
    <3>1. x \in Nat /\ y \in Nat /\ ~ (y < x)
      BY <1>3, <2>1
    <3> QED  BY <3>1
  <2> QED  BY <2>2

(* One with a bound has a greatest element.                                *)
LEMMA Greatest ==
  ASSUME NEW N \in Nat, NEW T, T \subseteq 0 .. N, T # {}
  PROVE  \E x \in T : \A y \in T : y <= x
<1> DEFINE U == {N - x : x \in T}
<1>1. U \subseteq Nat /\ U # {}
  <2>1. \A x \in T : x \in 0 .. N
    OBVIOUS
  <2>2. \A x \in 0 .. N : N - x \in Nat
    OBVIOUS
  <2> QED  BY <2>1, <2>2
<1>2. PICK u \in U : \A v \in U : u <= v
  <2> HIDE DEF U
  <2> QED  BY <1>1, Least
<1>3. PICK x \in T : u = N - x
  OBVIOUS
<1>4. \A y \in T : y <= x
  <2> SUFFICES ASSUME NEW y \in T PROVE y <= x
    OBVIOUS
  <2>1. u <= N - y
    BY <1>2
  <2> QED  BY <1>3, <2>1
<1> QED  BY <1>4

(* A part of a finite set that lacks an element of it is smaller.          *)
LEMMA Smaller ==
  ASSUME NEW S, IsFiniteSet(S), NEW T, T \subseteq S, NEW x \in S, x \notin T
  PROVE  /\ IsFiniteSet(T)
         /\ Cardinality(T) \in Nat
         /\ Cardinality(S) \in Nat
         /\ Cardinality(T) < Cardinality(S)
<1>1. IsFiniteSet(T) /\ Cardinality(T) <= Cardinality(S)
  BY FS_Subset
<1>2. Cardinality(S) = Cardinality(T) => S = T
  BY FS_Subset
<1>3. Cardinality(T) \in Nat /\ Cardinality(S) \in Nat
  BY <1>1, FS_CardinalityType
<1>4. S # T
  OBVIOUS
<1> QED  BY <1>1, <1>2, <1>3, <1>4

(* What is left of a finite set when a part of it is taken away.           *)
LEMMA PartSizes ==
  ASSUME NEW S, IsFiniteSet(S), NEW T, T \subseteq S
  PROVE  /\ IsFiniteSet(T) /\ IsFiniteSet(S \ T)
         /\ Cardinality(S) \in Nat /\ Cardinality(T) \in Nat /\ Cardinality(S \ T) \in Nat
         /\ Cardinality(S \ T) = Cardinality(S) - Cardinality(T)
         /\ Cardinality(S \ T) = 0 <=> S \ T = {}
         /\ Cardinality(T) = 0 <=> T = {}
<1>1. IsFiniteSet(T) /\ IsFiniteSet(S \ T)
  BY FS_Subset
<1>2. Cardinality(S) \in Nat /\ Cardinality(T) \in Nat /\ Cardinality(S \ T) \in Nat
  BY <1>1, FS_CardinalityType
<1>3. Cardinality(S \ T) = Cardinality(S) - Cardinality(T)
  <2>1. S \cap T = T
    OBVIOUS
  <2> QED  BY <2>1, FS_Difference
<1>4. /\ Cardinality(S \ T) = 0 <=> S \ T = {}
      /\ Cardinality(T) = 0 <=> T = {}
  BY <1>1, FS_EmptySet
<1> QED  BY <1>1, <1>2, <1>3, <1>4

LEMMA FiniteRange ==
  ASSUME NEW N \in Nat, NEW F, F \subseteq 0 .. N
  PROVE  IsFiniteSet(F)
<1>1. IsFiniteSet(0 .. N)
  BY FS_Interval
<1> QED  BY <1>1, FS_Subset

LEMMA NaturalsInRange ==
  ASSUME NEW N \in Nat, NEW F, F \subseteq 0 .. N
  PROVE  \A x \in F : x \in Nat
OBVIOUS

(* The elements below one of a finite set of naturals.                     *)
Below(F, s) == {t \in F : t < s}

(* In a finite set of naturals, each number below its size is that of the  *)
(* elements below just one of its elements.                                *)
LEMMA BelowOnce ==
  ASSUME NEW N \in Nat, NEW F, F \subseteq 0 .. N, NEW s \in F, NEW t \in F,
         Cardinality(Below(F, s)) = Cardinality(Below(F, t))
  PROVE  s = t
<1>1. IsFiniteSet(F)
  BY FiniteRange
<1>0. \A x \in F : x \in Nat
  BY NaturalsInRange
<1>2. ASSUME NEW x \in F, NEW y \in F, x < y
      PROVE  Cardinality(Below(F, x)) < Cardinality(Below(F, y))
  <2>1. Below(F, x) \subseteq Below(F, y) /\ x \in Below(F, y) /\ x \notin Below(F, x)
    <3>1. x \in Nat /\ y \in Nat
      BY <1>0
    <3>2. \A z \in F : z < x => z < y
      BY <1>0, <1>2, <3>1
    <3>3. Below(F, x) \subseteq Below(F, y)
      BY <3>2 DEF Below
    <3>4. ~ (x < x)
      BY <3>1
    <3>5. x \in Below(F, y) /\ x \notin Below(F, x)
      BY <1>2, <3>4 DEF Below
    <3> QED  BY <3>3, <3>5
  <2>2. IsFiniteSet(Below(F, y))
    BY <1>1, FS_Subset DEF Below
  <2> QED  BY <2>1, <2>2, Smaller
<1>3. Cardinality(Below(F, s)) \in Nat /\ Cardinality(Below(F, t)) \in Nat
  BY <1>1, FS_Subset, FS_CardinalityType DEF Below
<1>4. ~ (s < t) /\ ~ (t < s)
  BY <1>2, <1>3
<1> QED  BY <1>4

LEMMA BelowSome ==
  ASSUME NEW N \in Nat, NEW F, F \subseteq 0 .. N, NEW r \in Nat, r < Cardinality(F)
  PROVE  \E s \in F : Cardinality(Below(F, s)) = r
<1>1. IsFiniteSet(F)
  BY FiniteRange
<1>0. \A x \in F : x \in Nat
  BY NaturalsInRange
<1>2. \A s : IsFiniteSet(Below(F, s)) /\ Cardinality(Below(F, s)) \in Nat
  BY <1>1, FS_Subset, FS_CardinalityType DEF Below
(* All but the greatest element of a part closed downwards are below that. *)
<1>3. ASSUME NEW G, G \subseteq F, G # {},
             \A x \in F, y \in G : x <= y => x \in G
      PROVE  \E x \in G : Cardinality(G) = Cardinality(Below(F, x)) + 1
  <2>1. PICK x \in G : \A y \in G : y <= x
    BY <1>3, Greatest
  <2>2. G = Below(F, x) \cup {x} /\ x \notin Below(F, x)
    <3>1. Below(F, x) \subseteq G
      <4>1. x \in F /\ x \in Nat
        BY <1>0, <1>3
      <4>2. \A z \in F : z < x => z <= x
        BY <1>0, <4>1
      <4> QED  BY <1>3, <4>2 DEF Below
    <3>2. \A y \in G : y # x => y \in Below(F, x)
      BY <1>0, <1>3, <2>1 DEF Below
    <3>3. x \notin Below(F, x)
      BY <1>0, <1>3 DEF Below
    <3> QED  BY <3>1, <3>2, <3>3
  <2>3. Cardinality(G) = Cardinality(Below(F, x)) + 1
    BY <1>2, <2>2, FS_AddElement
  <2> QED  BY <2>3
<1> DEFINE S == {s \in F : Cardinality(Below(F, s)) >= r}
<1>4. S # {}
  <2>1. F # {}
    BY FS_EmptySet
  <2>2. PICK x \in F : Cardinality(F) = Cardinality(Below(F, x)) + 1
    BY <1>3, <2>1
  <2>3. Cardinality(Below(F, x)) >= r
    BY <1>2, <2>2
  <2> QED  BY <2>3
<1>5. PICK s \in S : \A y \in S : s <= y
  <2>1. S \subseteq Nat
    BY <1>0
  <2> QED  BY <1>4, <2>1, Least
<1>6. ~ (Cardinality(Below(F, s)) > r)
  <2> SUFFICES ASSUME Cardinality(Below(F, s)) > r PROVE FALSE
    OBVIOUS
  <2>1. Below(F, s) # {}
    BY FS_EmptySet
  <2>2. \A x \in F, y \in Below(F, s) : x <= y => x \in Below(F, s)
    BY DEF Below
  <2>3. Below(F, s) \subseteq F
    BY DEF Below
  <2>4. PICK x \in Below(F, s) : Cardinality(Below(F, s)) = Cardinality(Below(F, x)) + 1
    BY <1>3, <2>1, <2>2, <2>3
  <2>5. x \in S
    BY <1>2, <2>3, <2>4
  <2>6. s <= x /\ x < s
    BY <1>5, <2>5 DEF Below
  <2>7. s \in Nat /\ x \in Nat
    BY <1>0, <2>3
  <2> QED  BY <2>6, <2>7
<1> QED  BY <1>2, <1>5, <1>6

(* A set of naturals closed downwards and bounded is an interval from 0.   *)
LEMMA InitialInterval ==
  ASSUME NEW N \in Nat, NEW D, D \subseteq 0 .. N - 1,
         \A x \in 0 .. N - 1, y \in D : x < y => x \in D
  PROVE  \E e \in 0 .. N : D = 0 .. e - 1
<1>1. PICK e \in (0 .. N) \ D : \A y \in (0 .. N) \ D : e <= y
  <2>1. N \in (0 .. N) \ D /\ (0 .. N) \ D \subseteq Nat
    OBVIOUS
  <2> QED  BY <2>1, Least
<1>2. 0 .. e - 1 \subseteq D
  <2> SUFFICES ASSUME NEW x \in 0 .. e - 1, x \notin D PROVE FALSE
    OBVIOUS
  <2>1. x \in (0 .. N) \ D /\ x < e
    OBVIOUS
  <2>2. e <= x
    BY <1>1, <2>1
  <2> QED  BY <2>1, <2>2
<1>3. D \subseteq 0 .. e - 1
  <2> SUFFICES ASSUME NEW y \in D, ~ (y < e) PROVE FALSE
    OBVIOUS
  <2>1. e # y
    OBVIOUS
  <2>2. e < y /\ e \in 0 .. N - 1
    BY <2>1
  <2> QED  BY <2>2
<1> QED  BY <1>2, <1>3

-----------------------------------------------------------------------------
(***************************************************************************)
(* The clients, and how they are connected.                                *)
(***************************************************************************)
LEMMA ClientParts ==
  ASSUME NEW c \in Clients
  PROVE  /\ Pg(c) \in Pgs /\ Mod(c) \in Modules /\ c[3] \in 0 .. MaxAsk - 1
         /\ c = <<Pg(c), Mod(c), c[3]>>
         /\ c # NoClient
BY DEF Clients, Pgs, Modules, Pg, Mod, NoClient

(* The first n clients of a module; an array has its n_clients first ones. *)
First(p, m, n) == {<<p, m, k>> : k \in 0 .. n - 1}

LEMMA FirstIs ==
  ASSUME NEW p \in Pgs, NEW m \in Modules, NEW n \in 0 .. MaxAsk, NEW c
  PROVE  c \in First(p, m, n) <=> c \in Clients /\ Pg(c) = p /\ Mod(c) = m /\ c[3] < n
<1>1. ASSUME c \in First(p, m, n)
      PROVE  c \in Clients /\ Pg(c) = p /\ Mod(c) = m /\ c[3] < n
  <2>1. PICK k \in 0 .. n - 1 : c = <<p, m, k>>
    BY <1>1 DEF First
  <2>2. k \in 0 .. MaxAsk - 1 /\ k < n
    BY CountAssumption
  <2> QED  BY <2>1, <2>2 DEF Clients, Pg, Mod
<1>2. ASSUME c \in Clients, Pg(c) = p, Mod(c) = m, c[3] < n
      PROVE  c \in First(p, m, n)
  <2>1. c = <<p, m, c[3]>> /\ c[3] \in 0 .. n - 1
    BY <1>2, ClientParts
  <2> QED  BY <2>1 DEF First
<1> QED  BY <1>1, <1>2

LEMMA ArrayIs ==
  \A p, m : /\ Array(p, m) = First(p, m, n_clients[p][m])
            /\ Array(p, m)' = First(p, m, n_clients'[p][m])
BY DEF Array, First

(* A client is owned when its number is below the size of its array.       *)
LEMMA OwnedIs ==
  ASSUME n_clients \in [Pgs -> [Modules -> 0 .. MaxAsk]], NEW c \in Clients
  PROVE  Owned(c) <=> /\ c[3] < n_clients[Pg(c)][Mod(c)]
                      /\ mod_refcount[Pg(c)][Mod(c)] > 0
<1>1. Pg(c) \in Pgs /\ Mod(c) \in Modules /\ n_clients[Pg(c)][Mod(c)] \in 0 .. MaxAsk
  BY ClientParts
<1> QED  BY <1>1, FirstIs, ArrayIs DEF Owned

LEMMA OwnedNext ==
  ASSUME n_clients' \in [Pgs -> [Modules -> 0 .. MaxAsk]], NEW c \in Clients
  PROVE  Owned(c)' <=> /\ c[3] < n_clients'[Pg(c)][Mod(c)]
                       /\ mod_refcount'[Pg(c)][Mod(c)] > 0
<1>1. Pg(c) \in Pgs /\ Mod(c) \in Modules /\ n_clients'[Pg(c)][Mod(c)] \in 0 .. MaxAsk
  BY ClientParts
<1>2. Owned(c)' <=> c \in Array(Pg(c), Mod(c))' /\ mod_refcount'[Pg(c)][Mod(c)] > 0
  BY DEF Owned, Array, Pg, Mod
<1> QED  BY <1>1, <1>2, FirstIs, ArrayIs

LEMMA ClientsFinite ==
  IsFiniteSet(Pgs) /\ IsFiniteSet(Modules) /\ IsFiniteSet(Clients)
<1>1. IsFiniteSet(Pgs) /\ IsFiniteSet(Modules) /\ IsFiniteSet(0 .. MaxAsk - 1)
  <2>1. 0 \in Int /\ MaxPgOverlap - 1 \in Int /\ NModules - 1 \in Int /\ MaxAsk - 1 \in Int
    BY CountAssumption
  <2> QED  BY <2>1, FS_Interval DEF Pgs, Modules
<1> DEFINE MK == Modules \X (0 .. MaxAsk - 1)
<1>2. IsFiniteSet(MK)
  BY <1>1, FS_Product
<1>3. IsFiniteSet(Pgs \X MK)
  <2> HIDE DEF MK
  <2> QED  BY <1>1, <1>2, FS_Product
<1> DEFINE f == [c \in Clients |-> <<c[1], <<c[2], c[3]>>>>]
<1>4. f \in Injection(Clients, Pgs \X MK)
  BY DEF Injection, IsInjective, Clients
<1>5. IsFiniteSet(Clients)
  <2> HIDE DEF f, MK
  <2> QED  BY <1>3, <1>4, FS_Injection
<1> QED  BY <1>1, <1>5

(* Of two clients that are asked for, one is connected before the other    *)
(* and has the lower rank.                                                 *)
LEMMA RankOrder ==
  ASSUME NEW p \in Pgs, NEW ask \in Asks, NEW c \in Asked(p, ask), NEW d \in Asked(p, ask)
  PROVE  /\ Rank(c, ask) \in Nat
         /\ Before(c, d) => Rank(c, ask) < Rank(d, ask)
         /\ c = d \/ Before(c, d) \/ Before(d, c)
<1>0. /\ c \in Clients /\ d \in Clients
      /\ Pg(c) = p /\ Pg(d) = p
  BY DEF Asked
<1>1. Modules \subseteq Int /\ 0 .. MaxAsk - 1 \subseteq Int
  BY CountAssumption DEF Modules
<1>2. \A b \in Clients : Mod(b) \in Int /\ b[3] \in Int
  BY <1>1, ClientParts
<1> DEFINE B(x) == {b \in Asked(p, ask) : Before(b, x)}
<1>3. Rank(c, ask) = Cardinality(B(c)) /\ Rank(d, ask) = Cardinality(B(d))
  BY <1>0 DEF Rank
<1>4. Asked(p, ask) \subseteq Clients
  BY DEF Asked
<1>5. IsFiniteSet(B(c)) /\ IsFiniteSet(B(d))
  <2>1. B(c) \subseteq Clients /\ B(d) \subseteq Clients
    BY <1>4
  <2> QED  BY <2>1, ClientsFinite, FS_Subset
<1>6. Rank(c, ask) \in Nat
  BY <1>3, <1>5, FS_CardinalityType
<1>7. ASSUME Before(c, d)
      PROVE  Rank(c, ask) < Rank(d, ask)
  <2>1. ASSUME NEW b \in Clients, Before(b, c)
        PROVE  Before(b, d)
    BY <1>0, <1>2, <1>7, <2>1 DEF Before
  <2>2. B(c) \subseteq B(d)
    BY <1>4, <2>1
  <2>3. ~ Before(c, c)
    BY <1>0, <1>2 DEF Before
  <2>4. c \in B(d) /\ c \notin B(c)
    BY <1>7, <2>3
  <2> QED
    <3> HIDE DEF B
    <3> QED  BY <1>3, <1>5, <2>2, <2>4, Smaller
<1>8. c = d \/ Before(c, d) \/ Before(d, c)
  <2>1. c = <<p, Mod(c), c[3]>> /\ d = <<p, Mod(d), d[3]>>
    BY <1>0, ClientParts
  <2>2. Mod(c) = Mod(d) /\ c[3] = d[3] => c = d
    BY <2>1
  <2> QED  BY <1>0, <1>2, <2>2 DEF Before
<1> QED  BY <1>6, <1>7, <1>8

(* Each connected client gets one free downstream, which no other gets.    *)
LEMMA GetsOne ==
  ASSUME NEW p \in Pgs, NEW ask \in Asks, NEW c \in Connected(p, ask)
  PROVE  /\ \E s \in Slots : Gets(c, ask, s)
         /\ \A s, t : Gets(c, ask, s) /\ Gets(c, ask, t) => s = t
         /\ \A d \in Connected(p, ask) : \A s : Gets(c, ask, s) /\ Gets(d, ask, s) => c = d
<1>1. FreeSlots \subseteq 0 .. MaxClients /\ FreeSlots \subseteq Slots /\ MaxClients \in Nat
  BY CountAssumption DEF FreeSlots, Slots
<1>2. \A d \in Connected(p, ask) : d \in Asked(p, ask) /\ Rank(d, ask) < Cardinality(FreeSlots)
  BY DEF Connected
<1>3. Rank(c, ask) \in Nat
  BY <1>2, RankOrder
<1>4. \A d, s : Gets(d, ask, s) <=> s \in FreeSlots /\ Cardinality(Below(FreeSlots, s)) = Rank(d, ask)
  BY DEF Gets, Below
<1>5. \E s \in FreeSlots : Cardinality(Below(FreeSlots, s)) = Rank(c, ask)
  BY <1>1, <1>2, <1>3, BelowSome
<1>6. ASSUME NEW s, NEW t, Gets(c, ask, s), Gets(c, ask, t)
      PROVE  s = t
  <2>1. s \in FreeSlots /\ t \in FreeSlots
    BY <1>4, <1>6
  <2>2. Cardinality(Below(FreeSlots, s)) = Cardinality(Below(FreeSlots, t))
    BY <1>4, <1>6
  <2> HIDE DEF FreeSlots
  <2> QED  BY <1>1, <2>1, <2>2, BelowOnce
<1>7. ASSUME NEW d \in Connected(p, ask), NEW s, Gets(c, ask, s), Gets(d, ask, s)
      PROVE  c = d
  <2>1. Rank(c, ask) = Rank(d, ask)
    BY <1>4, <1>7
  <2>2. ~ (Rank(c, ask) < Rank(d, ask)) /\ ~ (Rank(d, ask) < Rank(c, ask))
    BY <1>3, <2>1
  <2> QED  BY <1>2, <2>2, RankOrder
<1> QED  BY <1>1, <1>4, <1>5, <1>6, <1>7

(* An array of n clients has n elements.                                   *)
LEMMA ArraySize ==
  ASSUME NEW p, NEW m, NEW n \in Nat
  PROVE  IsFiniteSet(First(p, m, n)) /\ Cardinality(First(p, m, n)) = n
<1> DEFINE A == First(p, m, n)
           f == [k \in 0 .. n - 1 |-> <<p, m, k>>]
<1>1. IsFiniteSet(0 .. n - 1) /\ Cardinality(0 .. n - 1) = n
  <2>1. 0 \in Int /\ n - 1 \in Int
    OBVIOUS
  <2> QED  BY <2>1, FS_Interval
<1>2. f \in Bijection(0 .. n - 1, A)
  BY DEF Bijection, Injection, Surjection, IsInjective, First
<1>3. ExistsBijection(0 .. n - 1, A)
  <2> HIDE DEF f, A
  <2> QED  BY <1>2 DEF ExistsBijection
<1>4. IsFiniteSet(A) /\ Cardinality(A) = n
  <2> HIDE DEF A
  <2> QED  BY <1>1, <1>3, FS_Bijection
<1> QED  BY <1>4

(* The connected clients of a module are the first of its array.           *)
LEMMA ConnectedAreFirst ==
  ASSUME NEW p \in Pgs, NEW ask \in Asks, NEW m \in Modules
  PROVE  /\ NConnected(p, ask)[m] \in 0 .. MaxAsk
         /\ {c \in Connected(p, ask) : Mod(c) = m} = First(p, m, NConnected(p, ask)[m])
         /\ NConnected(p, ask)[m] > 0 => ask[m] > 0
<1> DEFINE C == {c \in Connected(p, ask) : Mod(c) = m}
           D == {k \in 0 .. MaxAsk - 1 : <<p, m, k>> \in Connected(p, ask)}
           a(k) == <<p, m, k>>
<1>0. MaxAsk \in Nat /\ ask[m] \in 0 .. MaxAsk
  BY CountAssumption
<1>1. ASSUME NEW x \in 0 .. MaxAsk - 1, NEW y \in D, x < y
      PROVE  x \in D
  <2>1. a(x) \in Clients /\ a(y) \in Clients /\ a(y) \in Connected(p, ask)
    BY DEF Clients
  <2>2. Mod(a(x)) = m /\ Mod(a(y)) = m /\ Pg(a(x)) = p /\ Pg(a(y)) = p
    BY DEF Mod, Pg
  <2>3. a(y) \in Asked(p, ask) /\ Rank(a(y), ask) < Cardinality(FreeSlots)
    BY <2>1 DEF Connected
  <2>4. y < ask[m]
    BY <2>2, <2>3 DEF Asked
  <2>5. x < ask[m]
    BY <1>0, <1>1, <2>4
  <2>6. a(x) \in Asked(p, ask)
    BY <2>1, <2>2, <2>5 DEF Asked
  <2>7. Before(a(x), a(y))
    BY <1>1, <2>2 DEF Before
  <2>8. /\ Rank(a(x), ask) \in Nat /\ Rank(a(y), ask) \in Nat
        /\ Rank(a(x), ask) < Rank(a(y), ask)
    BY <2>3, <2>6, <2>7, RankOrder
  <2>9. Cardinality(FreeSlots) \in Nat
    <3>1. FreeSlots \subseteq 0 .. MaxClients /\ MaxClients \in Nat
      BY CountAssumption DEF FreeSlots, Slots
    <3> QED  BY <3>1, FiniteRange, FS_CardinalityType
  <2> QED  BY <2>3, <2>6, <2>8, <2>9 DEF Connected
<1>2. PICK e \in 0 .. MaxAsk : D = 0 .. e - 1
  <2>1. D \subseteq 0 .. MaxAsk - 1
    OBVIOUS
  <2> HIDE DEF D
  <2> QED  BY <1>0, <1>1, <2>1, InitialInterval
<1>3. C = First(p, m, e)
  <2>1. ASSUME NEW c \in C
        PROVE  c[3] \in D /\ c = <<p, m, c[3]>>
    <3>1. c \in Clients /\ Pg(c) = p /\ Mod(c) = m
      BY DEF Connected, Asked
    <3>2. c = <<p, m, c[3]>> /\ c[3] \in 0 .. MaxAsk - 1
      BY <3>1, ClientParts
    <3> QED  BY <3>2
  <2>2. ASSUME NEW k \in D
        PROVE  <<p, m, k>> \in C
    BY DEF Mod
  <2> QED
    <3> HIDE DEF C, D
    <3> QED  BY <1>2, <2>1, <2>2 DEF First
<1>4. Cardinality(C) = e
  <2>1. e \in Nat
    BY <1>0
  <2> QED
    <3> HIDE DEF C
    <3> QED  BY <1>3, <2>1, ArraySize
<1>5. NConnected(p, ask)[m] = e
  BY <1>4 DEF NConnected
<1>6. e > 0 => ask[m] > 0
  <2> SUFFICES ASSUME e > 0 PROVE ask[m] > 0
    OBVIOUS
  <2>1. 0 \in D
    <3> HIDE DEF D
    <3> QED  BY <1>2
  <2>2. a(0) \in Asked(p, ask)
    BY <2>1 DEF Connected
  <2> QED  BY <2>2 DEF Asked, Mod
<1> QED  BY <1>3, <1>5, <1>6

-----------------------------------------------------------------------------
(***************************************************************************)
(* What the parts of the invariant say together.                           *)
(***************************************************************************)
LEMMA LiveFacts ==
  ASSUME TypeOK
  PROVE  /\ Live \subseteq Pgs
         /\ \A T : T \subseteq Live => IsFiniteSet(T) /\ Cardinality(T) \in Nat
         /\ \A p \in Pgs : p \in Live <=> refcount[p] # 0
         /\ \A p \in Pgs : refcount[p] \in 0 .. NModules
<1>1. Live \subseteq Pgs
  BY DEF Live
<1>2. IsFiniteSet(Live)
  BY <1>1, ClientsFinite, FS_Subset
<1>3. \A p \in Pgs : refcount[p] \in 0 .. NModules
  BY DEF TypeOK
<1>4. \A p \in Pgs : p \in Live <=> refcount[p] # 0
  BY <1>3, CountAssumption DEF Live
<1> QED  BY <1>1, <1>2, <1>3, <1>4, FS_Subset, FS_CardinalityType

(* A downstream in use calls its handlers with a client that has it.       *)
LEMMA ParamIsOwned ==
  PInv => \A s \in Slots : param[s] # NoClient =>
            /\ param[s] \in Clients /\ Owned(param[s])
            /\ downstream_id[param[s]] = s
<1>1. PInv => param \in [Slots -> Clients \cup {NoClient}]
  BY DEF PInv, TypeOK
<1>2. PInv => \A s \in Slots : param[s] # NoClient =>
                Owned(param[s]) /\ downstream_id[param[s]] = s
  BY DEF PInv, Connections
<1> QED  BY <1>1, <1>2

(* Nothing is owned of a programme that is not live.                       *)
LEMMA NothingOfTheDead ==
  ASSUME PInv, NEW p \in Pgs, p \notin Live
  PROVE  /\ \A m \in Modules : mod_refcount[p][m] = 0 /\ n_clients[p][m] = 0
         /\ p \notin close_flag1
         /\ \A c \in Clients : Pg(c) = p =>
              /\ ~ Owned(c) /\ downstream_id[c] = NoSlot
              /\ c \notin close_waiting /\ c \notin closed
         /\ \A s \in Slots : param[s] # NoClient => Pg(param[s]) # p
<1>1. \A m \in Modules : mod_refcount[p][m] = 0 /\ n_clients[p][m] = 0
  <2> SUFFICES ASSUME NEW m \in Modules PROVE mod_refcount[p][m] = 0 /\ n_clients[p][m] = 0
    OBVIOUS
  <2>1. mod_refcount[p][m] \in 0 .. MaxAsk
    BY DEF PInv, TypeOK
  <2>2. ~ (mod_refcount[p][m] > 0) /\ n_clients[p][m] = 0
    BY DEF PInv, Counts
  <2> QED  BY <2>1, <2>2, CountAssumption
<1>2. p \notin close_flag1
  BY DEF PInv, Flags
<1>3. \A c \in Clients : Pg(c) = p => ~ Owned(c)
  BY <1>1, ClientParts DEF Owned
<1>4. \A c \in Clients : Pg(c) = p =>
        downstream_id[c] = NoSlot /\ c \notin close_waiting /\ c \notin closed
  BY <1>3 DEF PInv, Connections, Flags
<1>5. \A s \in Slots : param[s] # NoClient => Pg(param[s]) # p
  <2>1. \A s \in Slots : param[s] # NoClient => param[s] \in Clients /\ Owned(param[s])
    BY ParamIsOwned
  <2> QED  BY <1>3, <2>1
<1> QED  BY <1>1, <1>2, <1>3, <1>4, <1>5

-----------------------------------------------------------------------------
(***************************************************************************)
(* A programme begins.                                                     *)
(***************************************************************************)

(* The connected clients get free downstreams, and those get them.         *)
LEMMA NewClients ==
  ASSUME PInv, NEW p \in Pgs, NEW ask \in Asks, ProgChanged(p, ask)
  PROVE  LET C == Connected(p, ask)
         IN  /\ \A c \in C : /\ c \in Clients /\ Pg(c) = p
                             /\ downstream_id'[c] \in Slots
                             /\ param[downstream_id'[c]] = NoClient
                             /\ param'[downstream_id'[c]] = c
             /\ \A c \in Clients \ C : downstream_id'[c] = downstream_id[c]
             /\ \A s \in Slots : \/ param'[s] = param[s]
                                 \/ /\ param[s] = NoClient /\ param'[s] \in C
                                    /\ downstream_id'[param'[s]] = s
             /\ downstream_id' \in [Clients -> Slots \cup {NoSlot}]
             /\ param' \in [Slots -> Clients \cup {NoClient}]
<1> DEFINE C == Connected(p, ask)
<1>0. /\ downstream_id \in [Clients -> Slots \cup {NoSlot}]
      /\ param \in [Slots -> Clients \cup {NoClient}]
  BY DEF PInv, TypeOK
<1>1. \A c \in C : c \in Clients /\ Pg(c) = p
  BY DEF Connected, Asked
<1>2. \A c \in C : downstream_id'[c] \in Slots /\ Gets(c, ask, downstream_id'[c])
  <2> SUFFICES ASSUME NEW c \in C
               PROVE  downstream_id'[c] \in Slots /\ Gets(c, ask, downstream_id'[c])
    OBVIOUS
  <2>1. \E s \in Slots : Gets(c, ask, s)
    BY GetsOne
  <2>2. downstream_id'[c] = CHOOSE s \in Slots : Gets(c, ask, s)
    BY <1>1 DEF ProgChanged
  <2> HIDE DEF C
  <2> QED  BY <2>1, <2>2
<1>3. \A s : (\E c \in C : Gets(c, ask, s)) => s \in Slots /\ param[s] = NoClient
  BY DEF Gets, FreeSlots
<1>4. \A s \in Slots : (~ \E c \in C : Gets(c, ask, s)) => param'[s] = param[s]
  BY DEF ProgChanged
<1>5. ASSUME NEW s \in Slots, NEW c \in C, Gets(c, ask, s)
      PROVE  param'[s] = c /\ downstream_id'[c] = s
  <2>1. param'[s] = CHOOSE d \in C : Gets(d, ask, s)
    BY <1>5 DEF ProgChanged
  <2>2. \A d \in C : Gets(d, ask, s) => d = c
    BY <1>5, GetsOne
  <2>3. Gets(c, ask, downstream_id'[c])
    BY <1>2
  <2>4. downstream_id'[c] = s
    BY <1>5, <2>3, GetsOne
  <2> HIDE DEF C
  <2> QED  BY <1>5, <2>1, <2>2, <2>4
<1>6. \A c \in C : param[downstream_id'[c]] = NoClient /\ param'[downstream_id'[c]] = c
  <2> HIDE DEF C
  <2> QED  BY <1>2, <1>3, <1>5
<1>7. \A c \in Clients \ C : downstream_id'[c] = downstream_id[c]
  BY DEF ProgChanged
<1>8. \A s \in Slots : \/ param'[s] = param[s]
                       \/ /\ param[s] = NoClient /\ param'[s] \in C
                          /\ downstream_id'[param'[s]] = s
  <2> SUFFICES ASSUME NEW s \in Slots, NEW c \in C, Gets(c, ask, s)
               PROVE  /\ param[s] = NoClient /\ param'[s] \in C
                      /\ downstream_id'[param'[s]] = s
    <3> HIDE DEF C
    <3> QED  BY <1>4
  <2> HIDE DEF C
  <2> QED  BY <1>3, <1>5
<1>9. downstream_id' \in [Clients -> Slots \cup {NoSlot}]
  <2> DEFINE new(c) == IF c \in C THEN CHOOSE s \in Slots : Gets(c, ask, s)
                       ELSE downstream_id[c]
  <2>1. downstream_id' = [c \in Clients |-> new(c)]
    BY DEF ProgChanged
  <2>2. \A c \in Clients : downstream_id'[c] \in Slots \cup {NoSlot}
    <3> HIDE DEF C
    <3> QED  BY <1>0, <1>2, <1>7
  <2> HIDE DEF new
  <2> QED  BY <2>1, <2>2
<1>10. param' \in [Slots -> Clients \cup {NoClient}]
  <2> DEFINE new(s) == IF \E c \in C : Gets(c, ask, s) THEN CHOOSE c \in C : Gets(c, ask, s)
                       ELSE param[s]
  <2>1. param' = [s \in Slots |-> new(s)]
    BY DEF ProgChanged
  <2>2. \A s \in Slots : param'[s] \in Clients \cup {NoClient}
    <3> HIDE DEF C
    <3> QED  BY <1>0, <1>1, <1>8
  <2> HIDE DEF new
  <2> QED  BY <2>1, <2>2
<1> QED
  <2> HIDE DEF C
  <2> QED  BY <1>1, <1>2, <1>6, <1>7, <1>8, <1>9, <1>10 DEF C

LEMMA ProgChangedType ==
  ASSUME PInv, NEW p \in Pgs, NEW ask \in Asks, ProgChanged(p, ask)
  PROVE  /\ TypeOK'
         /\ refcount'[p] = NModules /\ p \notin Live
         /\ \A q \in Pgs : q # p => /\ refcount'[q] = refcount[q]
                                    /\ mod_refcount'[q] = mod_refcount[q]
                                    /\ n_clients'[q] = n_clients[q]
         /\ mod_refcount'[p] = NConnected(p, ask) /\ n_clients'[p] = NConnected(p, ask)
<1>0. TypeOK
  BY DEF PInv
<1>1. p \notin Live
  BY DEF ProgChanged, FirstFree, Live
<1>2. NConnected(p, ask) \in [Modules -> 0 .. MaxAsk]
  <2>1. \A m \in Modules : NConnected(p, ask)[m] \in 0 .. MaxAsk
    BY ConnectedAreFirst
  <2>2. NConnected(p, ask) = [m \in Modules |-> NConnected(p, ask)[m]]
    BY DEF NConnected
  <2> QED  BY <2>1, <2>2
<1>3. /\ refcount' \in [Pgs -> 0 .. NModules]
      /\ refcount'[p] = NModules
      /\ \A q \in Pgs : q # p => refcount'[q] = refcount[q]
  BY <1>0, CountAssumption DEF ProgChanged, TypeOK
<1>4. /\ mod_refcount' \in [Pgs -> [Modules -> 0 .. MaxAsk]]
      /\ mod_refcount'[p] = NConnected(p, ask)
      /\ \A q \in Pgs : q # p => mod_refcount'[q] = mod_refcount[q]
  BY <1>0, <1>2 DEF ProgChanged, TypeOK
<1>5. /\ n_clients' \in [Pgs -> [Modules -> 0 .. MaxAsk]]
      /\ n_clients'[p] = NConnected(p, ask)
      /\ \A q \in Pgs : q # p => n_clients'[q] = n_clients[q]
  BY <1>0, <1>2 DEF ProgChanged, TypeOK
<1>6. overdue' \in [Pgs -> Never .. OutputDelay + 1]
  <2>1. Never \in Never .. OutputDelay + 1 /\ - Overlap \in Never .. OutputDelay + 1
    BY DelayAssumption DEF Never
  <2>2. overdue \in [Pgs -> Never .. OutputDelay + 1]
    BY <1>0 DEF TypeOK
  <2> QED  BY <2>1, <2>2 DEF ProgChanged
<1>7. /\ n_pgos' \in 0 .. MaxPgOverlap
      /\ curr_pgos' \in Pgs \cup {NoPg}
      /\ phase' \in {"running", "closing", "closed"}
      /\ i' \in 0 .. MaxPgOverlap /\ j' \in 0 .. MaxPgOverlap
      /\ at' \in {"idle", "loop", "check"}
  BY <1>0, CountAssumption DEF ProgChanged, TypeOK, loop
<1>8. allocated' \subseteq Pgs \X Modules
  BY <1>0 DEF ProgChanged, TypeOK
<1>9. /\ downstream_id' \in [Clients -> Slots \cup {NoSlot}]
      /\ param' \in [Slots -> Clients \cup {NoClient}]
  BY NewClients
<1>10. /\ close_flag1' \subseteq Pgs /\ close_flag2' \subseteq Pgs
       /\ close_waiting' \subseteq Clients /\ disconnect_tried' \subseteq Clients
       /\ soft_closed' \subseteq Clients /\ closed' \subseteq Clients
       /\ waited' \in [Clients -> 0 .. CloseDelay]
       /\ draining' \subseteq Slots /\ cut' \subseteq Slots
  BY <1>0 DEF ProgChanged, TypeOK, flags
<1> QED  BY <1>1, <1>3, <1>4, <1>5, <1>6, <1>7, <1>8, <1>9, <1>10 DEF TypeOK

LEMMA OwnedOf ==
  ASSUME NEW c, NEW s, c = param'[s]
  PROVE  Owned(param[s])' <=> Owned(c)'
BY DEF Owned, Array, Pg, Mod

LEMMA ProgChangedOwned ==
  ASSUME PInv, NEW p \in Pgs, NEW ask \in Asks, ProgChanged(p, ask), NEW c \in Clients
  PROVE  Owned(c)' <=> \/ Pg(c) # p /\ Owned(c)
                       \/ Pg(c) = p /\ c \in Connected(p, ask)
<1>1. /\ n_clients \in [Pgs -> [Modules -> 0 .. MaxAsk]]
      /\ n_clients' \in [Pgs -> [Modules -> 0 .. MaxAsk]]
  BY ProgChangedType DEF PInv, TypeOK
<1>2. Pg(c) \in Pgs /\ Mod(c) \in Modules
  BY ClientParts
<1>3. CASE Pg(c) # p
  <2>1. n_clients'[Pg(c)] = n_clients[Pg(c)] /\ mod_refcount'[Pg(c)] = mod_refcount[Pg(c)]
    BY <1>2, <1>3, ProgChangedType
  <2> QED  BY <1>1, <1>3, <2>1, OwnedIs, OwnedNext
<1>4. CASE Pg(c) = p
  <2> DEFINE n == NConnected(p, ask)[Mod(c)]
  <2>1. n \in 0 .. MaxAsk /\ {d \in Connected(p, ask) : Mod(d) = Mod(c)} = First(p, Mod(c), n)
    BY <1>2, ConnectedAreFirst
  <2>2. c \in Connected(p, ask) <=> c \in First(p, Mod(c), n)
    BY <2>1
  <2>3. c \in First(p, Mod(c), n) <=> c[3] < n
    BY <1>2, <1>4, <2>1, FirstIs
  <2>4. Owned(c)' <=> c[3] < n /\ n > 0
    BY <1>1, <1>4, ProgChangedType, OwnedNext
  <2>5. c[3] \in 0 .. MaxAsk - 1
    BY ClientParts
  <2>6. c[3] < n => n > 0
    BY <2>1, <2>5, CountAssumption
  <2> HIDE DEF n
  <2> QED  BY <1>4, <2>2, <2>3, <2>4, <2>6
<1> QED  BY <1>3, <1>4

LEMMA ProgChangedCounts ==
  ASSUME PInv, NEW p \in Pgs, NEW ask \in Asks, ProgChanged(p, ask)
  PROVE  Counts'
<1>0. TypeOK /\ TypeOK'
  BY ProgChangedType DEF PInv
<1>1. NModules \in Nat /\ NModules # 0
  BY CountAssumption
<1>2. Live' = Live \cup {p} /\ p \notin Live
  <2>1. \A q \in Pgs : q # p => refcount'[q] = refcount[q]
    BY ProgChangedType
  <2> QED  BY <1>1, <2>1, ProgChangedType DEF Live
<1>3. n_pgos' = Cardinality(Live')
  <2>1. IsFiniteSet(Live) /\ n_pgos = Cardinality(Live)
    BY <1>0, LiveFacts DEF PInv, Counts
  <2>2. n_pgos' = n_pgos + 1
    BY DEF ProgChanged
  <2> QED  BY <1>2, <2>1, <2>2, FS_AddElement
<1>4. close_flag1' = close_flag1 /\ p \notin close_flag1 /\ closed' = closed
  BY <1>2, NothingOfTheDead DEF ProgChanged, flags
<1>5. ASSUME NEW q \in Live'
      PROVE  refcount'[q] = Cardinality(Unfinished(q)')
  <2>0. q \in Pgs
    BY <1>5 DEF Live
  <2>1. CASE q = p
    <3>1. Unfinished(p)' = Modules
      <4> SUFFICES ASSUME NEW m \in Modules
                   PROVE  mod_refcount'[p][m] > 0 \/ n_clients'[p][m] = 0
        BY <1>4 DEF Unfinished
      <4>1. mod_refcount'[p][m] = n_clients'[p][m] /\ n_clients'[p][m] \in 0 .. MaxAsk
        BY ProgChangedType, ConnectedAreFirst
      <4> QED  BY <4>1, CountAssumption
    <3>2. Cardinality(Modules) = NModules
      <4>1. 0 \in Int /\ NModules - 1 \in Int
        BY <1>1
      <4>2. Cardinality(0 .. NModules - 1) = IF 0 > NModules - 1 THEN 0 ELSE NModules - 1 - 0 + 1
        BY <4>1, FS_Interval
      <4> QED  BY <1>1, <4>2 DEF Modules
    <3> QED  BY <2>1, <3>1, <3>2, ProgChangedType
  <2>2. CASE q # p
    <3>1. /\ refcount'[q] = refcount[q] /\ mod_refcount'[q] = mod_refcount[q]
          /\ n_clients'[q] = n_clients[q]
      BY <2>0, <2>2, ProgChangedType
    <3>2. Unfinished(q)' = Unfinished(q)
      BY <1>4, <3>1 DEF Unfinished
    <3>3. q \in Live
      BY <1>2, <2>2
    <3> QED  BY <3>1, <3>2, <3>3 DEF PInv, Counts
  <2> QED  BY <2>1, <2>2
<1>6. ASSUME NEW q \in Pgs, NEW m \in Modules
      PROVE  /\ mod_refcount'[q][m] > 0 =>
                  q \in Live' /\ mod_refcount'[q][m] = Cardinality(Array(q, m)' \ closed')
             /\ q \in Live' \ close_flag1' => mod_refcount'[q][m] = n_clients'[q][m]
             /\ q \notin Live' => n_clients'[q][m] = 0
  <2>1. CASE q = p
    <3> DEFINE n == NConnected(p, ask)[m]
    <3>1. mod_refcount'[p][m] = n /\ n_clients'[p][m] = n /\ n \in 0 .. MaxAsk /\ n \in Nat
      BY ProgChangedType, ConnectedAreFirst, CountAssumption
    <3>2. Array(p, m)' = First(p, m, n)
      BY <3>1, ArrayIs
    <3>3. First(p, m, n) \cap closed = {}
      <4> SUFFICES ASSUME NEW c \in First(p, m, n) PROVE c \notin closed
        OBVIOUS
      <4>1. c \in Clients /\ Pg(c) = p
        BY <3>1, FirstIs
      <4> QED  BY <1>2, <4>1, NothingOfTheDead
    <3>4. Cardinality(First(p, m, n)) = n
      BY <3>1, ArraySize
    <3>5. Array(p, m)' \ closed' = First(p, m, n)
      BY <1>4, <3>2, <3>3
    <3> HIDE DEF n
    <3> QED  BY <1>2, <2>1, <3>1, <3>4, <3>5
  <2>2. CASE q # p
    <3>1. mod_refcount'[q] = mod_refcount[q] /\ n_clients'[q] = n_clients[q]
      BY <2>2, ProgChangedType
    <3>2. Array(q, m)' = Array(q, m)
      BY <3>1 DEF Array
    <3>3. q \in Live' <=> q \in Live
      BY <1>2, <2>2
    <3> QED  BY <1>4, <3>1, <3>2, <3>3 DEF PInv, Counts
  <2> QED  BY <2>1, <2>2
<1> QED  BY <1>3, <1>5, <1>6 DEF Counts

LEMMA ProgChangedKeeps ==
  ASSUME PInv, NEW p \in Pgs, NEW ask \in Asks, ProgChanged(p, ask)
  PROVE  PInv'
<1> DEFINE C == Connected(p, ask)
<1>0. TypeOK /\ TypeOK' /\ Counts'
  BY ProgChangedType, ProgChangedCounts DEF PInv
<1>1. p \notin Live /\ Live' = Live \cup {p}
  <2>1. NModules > 0
    BY CountAssumption
  <2> QED  BY <2>1, ProgChangedType DEF Live
<1>2. /\ phase = "running" /\ phase' = phase /\ at = "idle" /\ at' = at
      /\ i' = i /\ j' = j
      /\ close_waiting' = close_waiting /\ closed' = closed
      /\ draining' = draining /\ cut' = cut
      /\ close_flag1' = close_flag1
      /\ curr_pgos' = p
  BY <1>1, NothingOfTheDead DEF ProgChanged, flags, loop
<1>3. \A q \in Pgs : overdue'[q] = IF q = p THEN Never
                                   ELSE IF q = curr_pgos THEN - Overlap ELSE overdue[q]
  BY DEF ProgChanged
<1>4. Never \in Int /\ Never < 0 /\ - Overlap # Never
  BY DelayAssumption DEF Never
<1>5. Connections'
  <2>1. ASSUME NEW c \in Clients
        PROVE  downstream_id'[c] # NoSlot <=> Owned(c)'
    <3>1. CASE c \in C
      <4>1. downstream_id'[c] \in Slots /\ Pg(c) = p
        BY <3>1, NewClients
      <4>2. \A s \in Slots : s # NoSlot
        BY DEF Slots, NoSlot
      <4> QED  BY <3>1, <4>1, <4>2, ProgChangedOwned
    <3>2. CASE c \notin C
      <4>1. downstream_id'[c] = downstream_id[c]
        BY <3>2, NewClients
      <4>2. downstream_id[c] # NoSlot <=> Owned(c)
        BY DEF PInv, Connections
      <4>3. Pg(c) = p => downstream_id[c] = NoSlot
        BY <1>1, NothingOfTheDead
      <4> QED  BY <3>2, <4>1, <4>2, <4>3, ProgChangedOwned
    <3> QED  BY <3>1, <3>2
  <2>2. ASSUME NEW c \in Clients, Owned(c)'
        PROVE  <<Pg(c), Mod(c)>> \in allocated'
    <3>1. CASE Pg(c) # p
      <4>1. <<Pg(c), Mod(c)>> \in allocated
        BY <2>2, <3>1, ProgChangedOwned DEF PInv, Connections
      <4> QED  BY <4>1 DEF ProgChanged
    <3>2. CASE Pg(c) = p
      <4>1. c \in Connected(p, ask) /\ Mod(c) \in Modules /\ c[3] \in Nat
        BY <2>2, <3>2, ProgChangedOwned, ClientParts
      <4>2. c[3] < ask[Mod(c)] /\ ask[Mod(c)] \in 0 .. MaxAsk
        BY <4>1, CountAssumption DEF Connected, Asked
      <4>3. ask[Mod(c)] > 0
        BY <4>1, <4>2, CountAssumption
      <4> QED  BY <3>2, <4>1, <4>3 DEF ProgChanged
    <3> QED  BY <3>1, <3>2
  <2>3. ASSUME NEW s \in Slots, param'[s] # NoClient
        PROVE  /\ Owned(param[s])' /\ param'[s] \notin close_waiting'
               /\ downstream_id'[param'[s]] = s
               /\ <<Pg(param'[s]), Mod(param'[s])>> \in allocated'
    <3>0. param'[s] \in Clients
      BY <1>0, <2>3 DEF TypeOK
    <3> SUFFICES ASSUME NEW c \in Clients, c = param'[s]
                 PROVE  /\ Owned(c)' /\ c \notin close_waiting'
                        /\ downstream_id'[c] = s
                        /\ <<Pg(c), Mod(c)>> \in allocated'
      BY <3>0, OwnedOf
    <3>1. CASE param'[s] = param[s]
      <4>1. Owned(c) /\ c \notin close_waiting /\ downstream_id[c] = s /\ Pg(c) # p
        BY <1>1, <2>3, <3>1, NothingOfTheDead DEF PInv, Connections
      <4>2. c \notin C
        BY <4>1, NewClients
      <4>3. Owned(c)'
        BY <3>0, <4>1, ProgChangedOwned
      <4>4. downstream_id'[c] = s
        BY <3>0, <4>1, <4>2, NewClients
      <4> QED  BY <1>2, <2>2, <3>0, <4>1, <4>3, <4>4
    <3>2. CASE param'[s] # param[s]
      <4>1. c \in C /\ downstream_id'[c] = s
        BY <3>2, NewClients
      <4>2. Pg(c) = p
        BY <4>1, NewClients
      <4>3. Owned(c)' /\ c \notin close_waiting
        BY <1>1, <3>0, <4>1, <4>2, ProgChangedOwned, NothingOfTheDead
      <4> QED  BY <1>2, <2>2, <3>0, <4>1, <4>3
    <3> QED  BY <3>1, <3>2
  <2>4. ASSUME NEW c \in Clients, Owned(c)', c \notin close_waiting'
        PROVE  param'[downstream_id'[c]] = c
    <3>1. CASE c \in C
      BY <3>1, NewClients
    <3>2. CASE c \notin C
      <4>1. Owned(c) /\ Pg(c) # p
        BY <2>4, <3>2, ProgChangedOwned
      <4>2. /\ param[downstream_id[c]] = c /\ downstream_id[c] # NoSlot
            /\ downstream_id'[c] = downstream_id[c]
        BY <1>2, <2>4, <3>2, <4>1, NewClients DEF PInv, Connections
      <4>3. downstream_id[c] \in Slots /\ c # NoClient
        BY <1>0, <4>2, ClientParts DEF TypeOK
      <4> QED  BY <4>2, <4>3, NewClients
    <3> QED  BY <3>1, <3>2
  <2> QED  BY <2>1, <2>2, <2>3, <2>4 DEF Connections
<1>6. Flags'
  <2>1. close_flag1 \subseteq Live /\ p \notin close_flag1
    BY <1>1 DEF PInv, Flags
  <2>2. \A c \in close_waiting : Owned(c)' /\ Pg(c) \in close_flag1
    <3>1. \A c \in close_waiting : c \in Clients /\ Owned(c) /\ Pg(c) \in close_flag1
      BY <1>0 DEF PInv, Flags, TypeOK
    <3> QED  BY <2>1, <3>1, ProgChangedOwned
  <2>3. \A s \in draining : param'[s] = param[s]
    <3>1. \A s \in draining : s \in Slots /\ param[s] # NoClient
      BY <1>0 DEF PInv, Flags, TypeOK
    <3> QED  BY <3>1, NewClients
  <2>4. \A q \in close_flag1 : overdue'[q] >= 0
    <3> SUFFICES ASSUME NEW q \in close_flag1 PROVE overdue'[q] >= 0
      OBVIOUS
    <3>1. q \in Live /\ q \in Pgs /\ q # p /\ overdue[q] >= 0
      BY <1>0, <2>1 DEF PInv, Flags, TypeOK
    <3>2. overdue[q] # Never
      BY <1>4, <3>1
    <3>3. q # curr_pgos
      BY <1>2, <3>1, <3>2 DEF PInv, Recorded
    <3> QED  BY <1>3, <3>1, <3>3
  <2>5. /\ closed \subseteq close_waiting /\ cut \subseteq draining
        /\ \A s \in draining : param[s] # NoClient /\ Pg(param[s]) \in close_flag1
    BY DEF PInv, Flags
  <2> QED  BY <1>1, <1>2, <2>1, <2>2, <2>3, <2>4, <2>5 DEF Flags
<1>7. Pass'
  BY <1>2 DEF PInv, Pass
<1>8. Recorded'
  <2> SUFFICES ASSUME NEW q \in Live' PROVE overdue'[q] = Never <=> q = p
    BY <1>1, <1>2 DEF Recorded
  <2>1. q \in Pgs
    BY DEF Live
  <2>2. q # p => q \in Live
    BY <1>1
  <2>3. q \in Live => (overdue[q] = Never <=> q = curr_pgos)
    BY <1>2 DEF PInv, Recorded
  <2> QED  BY <1>3, <1>4, <2>1, <2>2, <2>3
<1> QED  BY <1>0, <1>5, <1>6, <1>7, <1>8 DEF PInv

-----------------------------------------------------------------------------
(***************************************************************************)
(* Steps that close nothing.                                               *)
(***************************************************************************)

(* Where the counts and the connections stay, and downstreams are told to  *)
(* finish only for programmes that are being closed.                       *)
LEMMA Frame ==
  ASSUME PInv, TypeOK',
         UNCHANGED <<n_pgos, refcount, mod_refcount, n_clients, closed, close_flag1,
                     downstream_id, param, close_waiting, allocated>>,
         \A s \in draining' : param[s] # NoClient /\ Pg(param[s]) \in close_flag1,
         cut' \subseteq draining',
         \A p \in close_flag1 : overdue'[p] >= 0,
         Pass', Recorded'
  PROVE  PInv' /\ Live' = Live
<1>1. Live' = Live
  BY DEF Live
<1>2. /\ \A p, m : Array(p, m)' = Array(p, m)
      /\ \A p : Unfinished(p)' = Unfinished(p)
      /\ \A c : Owned(c)' <=> Owned(c)
      /\ \A s : Owned(param[s])' <=> Owned(param[s])
  BY DEF Array, Unfinished, Owned, Pg, Mod
<1>3. Counts'
  BY <1>1, <1>2 DEF PInv, Counts
<1>4. Connections'
  BY <1>2 DEF PInv, Connections
<1>5. Flags'
  BY <1>1, <1>2 DEF PInv, Flags
<1> QED  BY <1>1, <1>3, <1>4, <1>5 DEF PInv

(* The loop turns to the next programme, and one less is left to see.      *)
LEMMA Turn ==
  ASSUME PInv, NEW p \in Pgs, NEW step \in {"loop", "check"}, At(p, step)
  PROVE  /\ i' \in 0 .. MaxPgOverlap /\ j' \in 0 .. MaxPgOverlap
         /\ at' \in {"loop", "check"}
         /\ p \in Live
         /\ i' + Cardinality({q \in Live : q > p}) >= n_pgos
         /\ {q \in Live : q >= p + 1} = {q \in Live : q > p}
<1>0. TypeOK /\ n_pgos \in 0 .. MaxPgOverlap /\ i \in 0 .. MaxPgOverlap
      /\ j \in 0 .. MaxPgOverlap /\ MaxPgOverlap \in Nat
  BY CountAssumption DEF PInv, TypeOK
<1>1. /\ at = "loop" /\ i < n_pgos /\ i' = i + 1
      /\ p \in Live /\ p >= j /\ \A q \in Live : q >= j => p <= q
      /\ j' = IF step = "loop" THEN p + 1 ELSE p
      /\ at' = step
  BY DEF At, Found
<1>2. p \in 0 .. MaxPgOverlap - 1
  BY DEF Pgs
<1>3. \A q \in Live : q \in Nat
  BY <1>0, LiveFacts, CountAssumption DEF Pgs
<1> DEFINE Rest == {q \in Live : q > p}
<1>4. {q \in Live : q >= j} = Rest \cup {p} /\ p \notin Rest
  <2>1. \A q \in Live : q >= j => q = p \/ q > p
    BY <1>1, <1>2, <1>3
  <2>2. \A q \in Live : q > p => q >= j
    BY <1>0, <1>1, <1>2, <1>3
  <2>3. ~ (p > p)
    BY <1>2
  <2> QED  BY <1>1, <2>1, <2>2, <2>3
<1>5. IsFiniteSet(Rest) /\ Cardinality(Rest) \in Nat
  BY <1>0, LiveFacts
<1>6. Cardinality({q \in Live : q >= j}) = Cardinality(Rest) + 1
  <2> HIDE DEF Rest
  <2> QED  BY <1>4, <1>5, FS_AddElement
<1>7. i + Cardinality({q \in Live : q >= j}) >= n_pgos
  BY <1>1 DEF PInv, Pass
<1>8. i + 1 + Cardinality(Rest) >= n_pgos
  <2> HIDE DEF Rest
  <2> QED  BY <1>0, <1>5, <1>6, <1>7
<1>9. \A q \in Live : q >= p + 1 <=> q > p
  BY <1>2, <1>3
<1>10. i' \in 0 .. MaxPgOverlap
  BY <1>0, <1>1
<1>11. j' \in 0 .. MaxPgOverlap
  <2>1. p \in 0 .. MaxPgOverlap /\ p + 1 \in 0 .. MaxPgOverlap
    BY <1>0, <1>2
  <2> QED  BY <1>1, <2>1
<1>12. i' + Cardinality(Rest) >= n_pgos
  <2> HIDE DEF Rest
  <2> QED  BY <1>1, <1>8
<1>13. {q \in Live : q >= p + 1} = Rest
  BY <1>9
<1> QED  BY <1>1, <1>10, <1>11, <1>12, <1>13

(* The ages only grow, within their bounds.                                *)
LEMMA OlderIs ==
  ASSUME NEW t \in Int, NEW bound \in Nat
  PROVE  Older(t, bound) \in Int /\ Older(t, bound) >= t /\ (t <= bound => Older(t, bound) <= bound)
BY DEF Older

LEMMA PrepareCloseKeeps ==
  PInv /\ PrepareClose => PInv'
<1> SUFFICES ASSUME PInv, PrepareClose PROVE PInv'
  OBVIOUS
<1> USE DEF PrepareClose, mods, flags, ab, loop
<1>1. overdue' \in [Pgs -> Never .. OutputDelay + 1]
  <2>1. 0 \in Never .. OutputDelay + 1
    BY DelayAssumption DEF Never
  <2> QED  BY <2>1 DEF PInv, TypeOK
<1>2. TypeOK'
  BY <1>1 DEF PInv, TypeOK
<1>3. \A p \in close_flag1 : overdue'[p] >= 0
  BY DEF PInv, Flags, TypeOK
<1>4. Pass' /\ Recorded'
  BY DEF PInv, Pass, Recorded
<1>5. cut' \subseteq draining'
      /\ \A s \in draining' : param[s] # NoClient /\ Pg(param[s]) \in close_flag1
  BY DEF PInv, Flags
<1> QED  BY <1>2, <1>3, <1>4, <1>5, Frame

LEMMA CloseTosKeeps ==
  PInv /\ CloseTos => PInv'
<1> SUFFICES ASSUME PInv, CloseTos PROVE PInv'
  OBVIOUS
<1> USE DEF CloseTos, pgos, mods, flags, ab, loop
<1>1. TypeOK'
  BY DEF PInv, TypeOK
<1>2. Pass' /\ Recorded'
  BY DEF PInv, Pass, Recorded
<1>3. /\ \A p \in close_flag1 : overdue'[p] >= 0
      /\ cut' \subseteq draining'
      /\ \A s \in draining' : param[s] # NoClient /\ Pg(param[s]) \in close_flag1
  BY DEF PInv, Flags
<1> QED  BY <1>1, <1>2, <1>3, Frame

LEMMA TickKeeps ==
  PInv /\ Tick => PInv'
<1> SUFFICES ASSUME PInv, Tick PROVE PInv'
  OBVIOUS
<1> USE DEF Tick, tos, mods, ab, loop
<1>0. Never \in Int /\ Never < 0 /\ OutputDelay + 1 \in Nat /\ CloseDelay \in Nat
  BY DelayAssumption DEF Never
<1>1. \A p \in Pgs : /\ overdue[p] \in Never .. OutputDelay + 1
                     /\ overdue'[p] = IF overdue[p] = Never THEN Never
                                      ELSE Older(overdue[p], OutputDelay + 1)
  BY DEF PInv, TypeOK
<1>2. \A p \in Pgs : /\ overdue'[p] \in Never .. OutputDelay + 1
                     /\ overdue'[p] >= overdue[p]
                     /\ overdue'[p] = Never <=> overdue[p] = Never
  <2> SUFFICES ASSUME NEW p \in Pgs
               PROVE  /\ overdue'[p] \in Never .. OutputDelay + 1
                      /\ overdue'[p] >= overdue[p]
                      /\ overdue'[p] = Never <=> overdue[p] = Never
    OBVIOUS
  <2> DEFINE t == Older(overdue[p], OutputDelay + 1)
  <2>1. overdue[p] \in Int /\ overdue[p] >= Never /\ overdue[p] <= OutputDelay + 1
    BY <1>0, <1>1
  <2>2. t \in Int /\ t >= overdue[p] /\ t <= OutputDelay + 1
    BY <1>0, <2>1, OlderIs
  <2> HIDE DEF t
  <2> QED  BY <1>0, <1>1, <2>1, <2>2 DEF t
<1>3. overdue' \in [Pgs -> Never .. OutputDelay + 1]
  BY <1>2
<1>4. waited' \in [Clients -> 0 .. CloseDelay]
  <2>1. \A c \in Clients : waited[c] \in 0 .. CloseDelay
    BY DEF PInv, TypeOK
  <2>2. \A c \in Clients : Older(waited[c], CloseDelay) \in 0 .. CloseDelay
    <3> SUFFICES ASSUME NEW c \in Clients
                 PROVE  Older(waited[c], CloseDelay) \in 0 .. CloseDelay
      OBVIOUS
    <3>1. waited[c] \in Int /\ waited[c] >= 0 /\ waited[c] <= CloseDelay
      BY <1>0, <2>1
    <3> DEFINE t == Older(waited[c], CloseDelay)
    <3>2. t \in Int /\ t >= waited[c] /\ t <= CloseDelay
      BY <1>0, <3>1, OlderIs
    <3> HIDE DEF t
    <3> QED  BY <1>0, <3>1, <3>2 DEF t
  <2> QED  BY <2>1, <2>2
<1>5. TypeOK'
  BY <1>3, <1>4 DEF PInv, TypeOK
<1>6. \A p \in close_flag1 : overdue'[p] >= 0
  <2> SUFFICES ASSUME NEW p \in close_flag1 PROVE overdue'[p] >= 0
    OBVIOUS
  <2>1. p \in Pgs /\ overdue[p] >= 0
    BY DEF PInv, Flags, TypeOK
  <2>2. overdue[p] \in Int /\ overdue'[p] \in Int /\ overdue'[p] >= overdue[p]
    BY <1>0, <1>1, <1>2, <2>1
  <2> QED  BY <2>1, <2>2
<1>7. Pass'
  BY DEF PInv, Pass
<1>8. Recorded'
  <2>1. Live \subseteq Pgs /\ Live' = Live
    BY DEF Live
  <2> QED  BY <1>2, <2>1 DEF PInv, Recorded
<1>9. cut' \subseteq draining'
      /\ \A s \in draining' : param[s] # NoClient /\ Pg(param[s]) \in close_flag1
  BY DEF PInv, Flags
<1> QED  BY <1>5, <1>6, <1>7, <1>8, <1>9, Frame

LEMMA BeginOutputKeeps ==
  PInv /\ BeginOutput => PInv'
<1> SUFFICES ASSUME PInv, BeginOutput PROVE PInv'
  OBVIOUS
<1> USE DEF BeginOutput, tos, pgos, mods, flags, ab
<1>1. TypeOK'
  BY CountAssumption DEF PInv, TypeOK
<1>2. Live' = Live
  BY DEF Live
<1>3. Pass'
  <2>1. \A q \in Live : q >= 0
    BY CountAssumption DEF Live, Pgs
  <2>2. {q \in Live : q >= 0} = Live
    BY <2>1
  <2>3. n_pgos = Cardinality(Live) /\ n_pgos \in Nat
    BY LiveFacts DEF PInv, Counts
  <2>4. at' = "loop" /\ i' = 0 /\ j' = 0 /\ n_pgos' = n_pgos
    OBVIOUS
  <2>5. i' + Cardinality({q \in Live : q >= 0}) >= n_pgos
    BY <2>2, <2>3, <2>4
  <2> QED  BY <1>2, <2>4, <2>5 DEF Pass
<1>4. Recorded'
  BY <1>2 DEF PInv, Recorded
<1>5. /\ \A p \in close_flag1 : overdue'[p] >= 0
      /\ cut' \subseteq draining'
      /\ \A s \in draining' : param[s] # NoClient /\ Pg(param[s]) \in close_flag1
  BY DEF PInv, Flags
<1> QED  BY <1>1, <1>3, <1>4, <1>5, Frame

(* Wherever the loop turns to p, what is left to see is behind p.          *)
LEMMA PassTurned ==
  ASSUME PInv, NEW p \in Pgs, NEW step \in {"loop", "check"}, At(p, step),
         {q \in Live' : q > p} = {q \in Live : q > p},
         n_pgos' \in Int, n_pgos' <= n_pgos,
         step = "check" /\ p \in Live' => p \in close_flag1'
  PROVE  Pass'
<1> DEFINE Rest == {q \in Live : q > p}
<1>1. i' \in Nat /\ n_pgos \in Nat
  <2>1. i' \in 0 .. MaxPgOverlap /\ MaxPgOverlap \in Nat
    BY Turn, CountAssumption
  <2> QED  BY <2>1 DEF PInv, TypeOK
<1>0. i' + Cardinality(Rest) >= n_pgos /\ Cardinality(Rest) \in Nat
  <2>1. Rest \subseteq Live
    OBVIOUS
  <2>2. Cardinality(Rest) \in Nat
    <3> HIDE DEF Rest
    <3> QED  BY <2>1, LiveFacts DEF PInv
  <2> QED  BY <2>2, Turn
<1>2. i' + Cardinality({q \in Live' : q > p}) >= n_pgos'
  <2> DEFINE RestNext == {q \in Live' : q > p}
  <2>1. RestNext = Rest
    OBVIOUS
  <2>2. i' + Cardinality(RestNext) >= n_pgos'
    <3> HIDE DEF Rest, RestNext
    <3> QED  BY <1>0, <1>1, <2>1
  <2> QED  BY <2>2
<1>3. \A q \in Live' : q >= p + 1 <=> q > p
  <2>1. p \in Int /\ \A q \in Live' : q \in Int
    BY CountAssumption DEF Live, Pgs
  <2> QED  BY <2>1
<1>4. {q \in Live' : q >= p + 1} = {q \in Live' : q > p}
  BY <1>3
<1>5. at' = step /\ j' = IF step = "loop" THEN p + 1 ELSE p
  BY DEF At
<1>6. CASE step = "loop"
  BY <1>2, <1>4, <1>5, <1>6 DEF Pass
<1>7. CASE step = "check"
  BY <1>2, <1>5, <1>7 DEF Pass
<1> QED  BY <1>6, <1>7

LEMMA NotDueKeeps ==
  ASSUME PInv, NEW p \in Pgs, NotDue(p) \/ NeitherClose(p)
  PROVE  PInv'
<1>1. /\ UNCHANGED <<tos, pgos, mods, downstream_id, flags, ab>>
      /\ \/ At(p, "loop")
         \/ At(p, "check") /\ p \in close_flag1
  <2>1. CASE NotDue(p)
    BY <2>1 DEF NotDue
  <2>2. CASE NeitherClose(p)
    BY <2>2 DEF NeitherClose
  <2> QED  BY <2>1, <2>2
<1> USE DEF tos, pgos, mods, flags, ab
<1>2. i' \in 0 .. MaxPgOverlap /\ j' \in 0 .. MaxPgOverlap /\ at' \in {"loop", "check"}
  BY <1>1, Turn
<1>3. TypeOK'
  BY <1>1, <1>2 DEF PInv, TypeOK
<1>4. Live' = Live
  BY <1>1 DEF Live
<1>5. Pass'
  <2>1. n_pgos' \in Int /\ n_pgos' <= n_pgos
    BY <1>1 DEF PInv, TypeOK
  <2> QED  BY <1>1, <1>4, <2>1, PassTurned
<1>6. Recorded'
  BY <1>1, <1>4 DEF PInv, Recorded
<1>7. /\ \A q \in close_flag1 : overdue'[q] >= 0
      /\ cut' \subseteq draining'
      /\ \A s \in draining' : param[s] # NoClient /\ Pg(param[s]) \in close_flag1
  BY <1>1 DEF PInv, Flags
<1> QED  BY <1>1, <1>3, <1>5, <1>6, <1>7, Frame

(* The clients that are still connected have their downstreams.            *)
LEMMA StillConnectedHave ==
  ASSUME PInv, NEW p \in Pgs, NEW c \in StillConnected(p)
  PROVE  /\ c \in Clients /\ Pg(c) = p /\ Owned(c)
         /\ downstream_id[c] \in Slots /\ param[downstream_id[c]] = c
<1>1. c \in Clients /\ c \in Array(p, Mod(c)) /\ mod_refcount[p][Mod(c)] > 0
      /\ c \notin close_waiting
  BY DEF StillConnected
<1>2. Mod(c) \in Modules /\ n_clients[p][Mod(c)] \in 0 .. MaxAsk
  BY <1>1, ClientParts DEF PInv, TypeOK
<1>3. Pg(c) = p
  BY <1>1, <1>2, ArrayIs, FirstIs
<1>4. Owned(c)
  BY <1>1, <1>3 DEF Owned
<1>5. downstream_id[c] \in Slots
  BY <1>1, <1>4 DEF PInv, Connections, TypeOK
<1> QED  BY <1>1, <1>3, <1>4, <1>5 DEF PInv, Connections

LEMMA Close2Keeps ==
  ASSUME PInv, NEW p \in Pgs, Close2(p)
  PROVE  PInv'
<1> USE DEF tos, mods
<1>1. /\ At(p, "check") /\ p \in close_flag1
      /\ draining' = draining \cup {downstream_id[c] : c \in StillConnected(p)}
      /\ cut' = cut \cup {downstream_id[c] : c \in StillConnected(p)}
      /\ disconnect_tried' = disconnect_tried \cup StillConnected(p)
      /\ close_flag2' = close_flag2 \cup {p}
      /\ UNCHANGED <<tos, refcount, overdue, close_flag1, mods, downstream_id,
                     close_waiting, soft_closed, closed, waited, param>>
  BY DEF Close2
<1>2. i' \in 0 .. MaxPgOverlap /\ j' \in 0 .. MaxPgOverlap /\ at' \in {"loop", "check"}
  BY <1>1, Turn
<1>3. \A s \in draining' : s \in Slots /\ param[s] # NoClient /\ Pg(param[s]) \in close_flag1
  <2>1. \A s \in draining : s \in Slots /\ param[s] # NoClient /\ Pg(param[s]) \in close_flag1
    BY DEF PInv, Flags, TypeOK
  <2>2. \A c \in StillConnected(p) :
          LET s == downstream_id[c]
          IN  s \in Slots /\ param[s] # NoClient /\ Pg(param[s]) \in close_flag1
    BY <1>1, StillConnectedHave, ClientParts
  <2> QED  BY <1>1, <2>1, <2>2
<1>4. cut' \subseteq draining'
  BY <1>1 DEF PInv, Flags
<1>5. disconnect_tried' \subseteq Clients
  BY <1>1, StillConnectedHave DEF PInv, TypeOK
<1>6. TypeOK'
  BY <1>1, <1>2, <1>3, <1>4, <1>5 DEF PInv, TypeOK
<1>7. Live' = Live
  BY <1>1 DEF Live
<1>8. Pass'
  <2>1. n_pgos' \in Int /\ n_pgos' <= n_pgos
    BY <1>1 DEF PInv, TypeOK
  <2> QED  BY <1>1, <1>7, <2>1, PassTurned
<1>9. Recorded'
  BY <1>1, <1>7 DEF PInv, Recorded
<1>10. \A q \in close_flag1 : overdue'[q] >= 0
  BY <1>1 DEF PInv, Flags
<1> QED  BY <1>1, <1>3, <1>4, <1>6, <1>8, <1>9, <1>10, Frame

LEMMA CheckReturnsKeeps ==
  PInv /\ CheckReturns => PInv'
<1> SUFFICES ASSUME PInv, CheckReturns PROVE PInv'
  OBVIOUS
<1> USE DEF CheckReturns, tos, pgos, mods, flags, ab
<1>0. /\ j \in Pgs /\ i + Cardinality({q \in Live : q > j}) >= n_pgos
      /\ j + 1 \in 0 .. MaxPgOverlap
  BY CountAssumption DEF PInv, Pass, Pgs
<1>1. TypeOK'
  BY <1>0 DEF PInv, TypeOK
<1>2. Live' = Live
  BY DEF Live
<1>3. Pass'
  <2>1. \A q \in Live : q >= j + 1 <=> q > j
    <3>1. j \in Int /\ \A q \in Live : q \in Int
      BY <1>0, CountAssumption DEF Live, Pgs
    <3> QED  BY <3>1
  <2>2. {q \in Live : q >= j + 1} = {q \in Live : q > j}
    BY <2>1
  <2>3. at' = "loop" /\ i' = i /\ j' = j + 1 /\ n_pgos' = n_pgos
    OBVIOUS
  <2> QED  BY <1>0, <1>2, <2>2, <2>3 DEF Pass
<1>4. Recorded'
  BY <1>2 DEF PInv, Recorded
<1>5. /\ \A p \in close_flag1 : overdue'[p] >= 0
      /\ cut' \subseteq draining'
      /\ \A s \in draining' : param[s] # NoClient /\ Pg(param[s]) \in close_flag1
  BY DEF PInv, Flags
<1> QED  BY <1>1, <1>3, <1>4, <1>5, Frame

LEMMA StutterKeeps ==
  PInv /\ UNCHANGED vars => PInv'
<1> SUFFICES ASSUME PInv, UNCHANGED vars PROVE PInv'
  OBVIOUS
<1> USE DEF vars, tos, pgos, mods, flags, ab, loop
<1>1. TypeOK'
  BY DEF PInv, TypeOK
<1>2. Live' = Live
  BY DEF Live
<1>3. Pass' /\ Recorded'
  BY <1>2 DEF PInv, Pass, Recorded
<1>4. /\ \A p \in close_flag1 : overdue'[p] >= 0
      /\ cut' \subseteq draining'
      /\ \A s \in draining' : param[s] # NoClient /\ Pg(param[s]) \in close_flag1
  BY DEF PInv, Flags
<1> QED  BY <1>1, <1>3, <1>4, Frame

-----------------------------------------------------------------------------
(***************************************************************************)
(* do_pgoutput_close1.                                                     *)
(***************************************************************************)

(* The modules without clients are among those that have not finished, and *)
(* what is left of the count is that of the others.                        *)
LEMMA SilentModules ==
  ASSUME PInv, NEW p \in Live, p \notin close_flag1
  PROVE  /\ Unfinished(p) = Modules
         /\ \A m \in Modules : m \in Silent(p) <=> ~ (mod_refcount[p][m] > 0)
         /\ \A m \in Modules : mod_refcount[p][m] = n_clients[p][m]
         /\ refcount[p] - Cardinality(Silent(p)) = Cardinality(Modules \ Silent(p))
         /\ Cardinality(Modules \ Silent(p)) \in Nat
         /\ Cardinality(Modules \ Silent(p)) = 0 <=> Silent(p) = Modules
<1>0. p \in Pgs
  BY DEF Live
<1>1. \A m \in Modules : mod_refcount[p][m] = n_clients[p][m] /\ n_clients[p][m] \in 0 .. MaxAsk
  <2>1. \A m \in Modules : mod_refcount[p][m] = n_clients[p][m]
    BY <1>0 DEF PInv, Counts
  <2>2. \A m \in Modules : n_clients[p][m] \in 0 .. MaxAsk
    BY <1>0 DEF PInv, TypeOK
  <2> QED  BY <2>1, <2>2
<1>2. \A m \in Modules : n_clients[p][m] \in Nat
  BY <1>1, CountAssumption
<1>3. \A m \in Modules : m \in Silent(p) <=> ~ (mod_refcount[p][m] > 0)
  BY <1>1, <1>2 DEF Silent
<1>4. Unfinished(p) = Modules
  BY <1>1, <1>2 DEF Unfinished
<1>5. /\ IsFiniteSet(Modules) /\ IsFiniteSet(Silent(p)) /\ IsFiniteSet(Modules \ Silent(p))
      /\ Silent(p) \subseteq Modules
  BY ClientsFinite, FS_Subset DEF Silent
<1>6. Cardinality(Modules \ Silent(p)) = Cardinality(Modules) - Cardinality(Silent(p))
  <2>1. Modules \cap Silent(p) = Silent(p)
    BY <1>5
  <2> QED  BY <1>5, <2>1, FS_Difference
<1>7. refcount[p] = Cardinality(Modules)
  BY <1>4 DEF PInv, Counts
<1>8. Cardinality(Modules \ Silent(p)) = 0 <=> Modules \ Silent(p) = {}
  BY <1>5, FS_EmptySet
<1> QED  BY <1>1, <1>3, <1>4, <1>5, <1>6, <1>7, <1>8, FS_CardinalityType

(* The programme goes on being closed, or all its modules are silent and   *)
(* it is closed at once.                                                   *)
LEMMA Close1Cases ==
  ASSUME PInv, NEW p \in Pgs, Close1(p)
  PROVE  /\ p \in Live /\ p \notin close_flag1
         /\ refcount' \in [Pgs -> 0 .. NModules]
         /\ \A q \in Pgs : q # p => refcount'[q] = refcount[q]
         /\ refcount'[p] = Cardinality(Modules \ Silent(p))
         /\ \/ /\ \A m \in Modules : mod_refcount[p][m] = 0 /\ n_clients[p][m] = 0
               /\ Live' = Live \ {p}
               /\ n_pgos' = n_pgos - 1
               /\ close_flag1' = close_flag1
               /\ overdue' = [overdue EXCEPT ![p] = Never]
               /\ allocated' = {a \in allocated : a[1] # p}
            \/ /\ Live' = Live
               /\ close_flag1' = close_flag1 \cup {p}
               /\ UNCHANGED <<n_pgos, overdue, allocated>>
<1>0. /\ p \in Live /\ p \notin close_flag1
      /\ refcount' = [refcount EXCEPT ![p] = refcount[p] - Cardinality(Silent(p))]
  BY Turn DEF Close1
<1>1. refcount \in [Pgs -> 0 .. NModules] /\ NModules \in Nat
  BY CountAssumption DEF PInv, TypeOK
<1> DEFINE n == Cardinality(Modules \ Silent(p))
<1>2. refcount[p] - Cardinality(Silent(p)) = n /\ n \in Nat
  BY <1>0, SilentModules
<1>3. refcount'[p] = n /\ \A q \in Pgs : q # p => refcount'[q] = refcount[q]
  BY <1>0, <1>1, <1>2
<1>4. n \in 0 .. NModules
  <2>1. refcount[p] \in 0 .. NModules /\ Cardinality(Silent(p)) \in Nat
    <3>1. Silent(p) \subseteq Modules
      BY DEF Silent
    <3> QED  BY <1>1, <3>1, ClientsFinite, FS_Subset, FS_CardinalityType
  <2> HIDE DEF n
  <2> QED  BY <1>1, <1>2, <2>1
<1>5. refcount' \in [Pgs -> 0 .. NModules]
  <2> HIDE DEF n
  <2> QED  BY <1>0, <1>1, <1>2, <1>4
<1>6. CASE refcount'[p] <= 0
  <2>1. n = 0
    <3> HIDE DEF n
    <3> QED  BY <1>2, <1>3, <1>6
  <2>2. Silent(p) = Modules
    BY <1>0, <2>1, SilentModules
  <2>3. ASSUME NEW m \in Modules
        PROVE  mod_refcount[p][m] = 0 /\ n_clients[p][m] = 0
    <3>1. ~ (mod_refcount[p][m] > 0) /\ mod_refcount[p][m] = n_clients[p][m]
      BY <1>0, <2>2, SilentModules
    <3>2. mod_refcount[p][m] \in 0 .. MaxAsk
      BY DEF PInv, TypeOK
    <3> QED  BY <3>1, <3>2, CountAssumption
  <2>4. Live' = Live \ {p}
    <3>1. \A q \in Pgs : refcount'[q] > 0 <=> q # p /\ refcount[q] > 0
      <4> HIDE DEF n
      <4> QED  BY <1>3, <2>1
    <3> QED  BY <3>1 DEF Live
  <2>5. /\ n_pgos' = n_pgos - 1
        /\ close_flag1' = close_flag1
        /\ overdue' = [overdue EXCEPT ![p] = Never]
        /\ allocated' = {a \in allocated : a[1] # p}
    BY <1>6 DEF Close1
  <2> QED  BY <1>0, <1>3, <1>5, <2>3, <2>4, <2>5
<1>7. CASE ~ (refcount'[p] <= 0)
  <2>1. n > 0
    <3> HIDE DEF n
    <3> QED  BY <1>2, <1>3, <1>7
  <2>2. Live' = Live
    <3>1. \A q \in Pgs : refcount'[q] > 0 <=> q = p \/ refcount[q] > 0
      <4> HIDE DEF n
      <4> QED  BY <1>3, <2>1
    <3> QED  BY <1>0, <3>1 DEF Live
  <2>3. /\ close_flag1' = close_flag1 \cup {p}
        /\ UNCHANGED <<n_pgos, overdue, allocated>>
    BY <1>7 DEF Close1
  <2> QED  BY <1>0, <1>3, <1>5, <2>2, <2>3
<1> QED  BY <1>6, <1>7

(* The downstreams told to finish are those of the programme's clients.    *)
LEMMA Close1Draining ==
  ASSUME PInv, NEW p \in Pgs, Close1(p), NEW s \in draining', s \notin draining
  PROVE  s \in Slots /\ param[s] # NoClient /\ Pg(param[s]) = p /\ Owned(param[s])
<1>1. PICK c \in Clients : /\ c \in Array(p, Mod(c)) /\ downstream_id[c] >= 0
                           /\ c \notin close_waiting /\ s = downstream_id[c]
  BY DEF Close1
<1>2. Mod(c) \in Modules /\ n_clients[p][Mod(c)] \in 0 .. MaxAsk /\ c[3] \in Nat
  BY ClientParts DEF PInv, TypeOK
<1>3. Pg(c) = p /\ c[3] < n_clients[p][Mod(c)]
  BY <1>1, <1>2, ArrayIs, FirstIs
<1>4. n_clients[p][Mod(c)] > 0
  BY <1>2, <1>3, CountAssumption
<1>5. mod_refcount[p][Mod(c)] > 0
  BY <1>2, <1>4, Close1Cases, SilentModules, ZenonT(40)
<1>6. Owned(c)
  BY <1>1, <1>3, <1>5 DEF Owned
<1>7. param[s] = c /\ s \in Slots
  BY <1>1, <1>6 DEF PInv, Connections, TypeOK
<1> QED  BY <1>3, <1>6, <1>7, ClientParts

LEMMA Close1Type ==
  ASSUME PInv, NEW p \in Pgs, Close1(p)
  PROVE  TypeOK'
<1>0. TypeOK
  BY DEF PInv
<1>1. i' \in 0 .. MaxPgOverlap /\ j' \in 0 .. MaxPgOverlap /\ at' \in {"idle", "loop", "check"}
  BY Turn DEF Close1
<1>2. refcount' \in [Pgs -> 0 .. NModules] /\ close_flag1' \subseteq Pgs
  BY <1>0, Close1Cases DEF TypeOK
<1>3. n_pgos' \in 0 .. MaxPgOverlap
  <2>1. p \in Live /\ (n_pgos' = n_pgos \/ n_pgos' = n_pgos - 1)
    BY Close1Cases
  <2>2. IsFiniteSet(Live) /\ Cardinality(Live) \in Nat /\ n_pgos = Cardinality(Live)
    BY <1>0, LiveFacts DEF PInv, Counts
  <2>3. n_pgos # 0
    BY <2>1, <2>2, FS_EmptySet
  <2>4. n_pgos \in 0 .. MaxPgOverlap /\ MaxPgOverlap \in Nat
    BY <1>0, CountAssumption DEF TypeOK
  <2> QED  BY <2>1, <2>3, <2>4
<1>4. overdue' \in [Pgs -> Never .. OutputDelay + 1]
  <2>1. Never \in Never .. OutputDelay + 1 /\ overdue \in [Pgs -> Never .. OutputDelay + 1]
    BY <1>0, DelayAssumption DEF TypeOK, Never
  <2>2. overdue' = overdue \/ overdue' = [overdue EXCEPT ![p] = Never]
    BY Close1Cases
  <2> QED  BY <2>1, <2>2
<1>5. allocated' \subseteq Pgs \X Modules
  <2>1. allocated' \subseteq allocated
    BY Close1Cases
  <2> QED  BY <1>0, <2>1 DEF TypeOK
<1>6. draining' \subseteq Slots
  BY <1>0, Close1Draining DEF TypeOK
<1>7. UNCHANGED <<phase, curr_pgos, close_flag2, mod_refcount, n_clients,
                  downstream_id, flags, param, cut>>
  BY DEF Close1
<1> QED  BY <1>0, <1>1, <1>2, <1>3, <1>4, <1>5, <1>6, <1>7 DEF TypeOK, flags

LEMMA Close1Counts ==
  ASSUME PInv, NEW p \in Pgs, Close1(p)
  PROVE  Counts'
<1>0. UNCHANGED <<mod_refcount, n_clients, closed>>
  BY DEF Close1, flags
<1>1. \A q, m : Array(q, m)' = Array(q, m)
  BY <1>0 DEF Array
<1>2. p \in Live /\ p \notin close_flag1
  BY Close1Cases
<1>3. ASSUME NEW q \in Live, q # p
      PROVE  refcount'[q] = Cardinality(Unfinished(q)')
  <2>1. q \in Pgs
    BY DEF Live
  <2>2. q \in close_flag1' <=> q \in close_flag1
    BY <1>3, Close1Cases
  <2>3. Unfinished(q)' = Unfinished(q)
    BY <1>0, <2>2 DEF Unfinished
  <2>4. refcount'[q] = refcount[q]
    BY <1>3, <2>1, Close1Cases
  <2> QED  BY <2>3, <2>4 DEF PInv, Counts
<1>4. CASE /\ \A m \in Modules : mod_refcount[p][m] = 0 /\ n_clients[p][m] = 0
           /\ Live' = Live \ {p}
           /\ n_pgos' = n_pgos - 1
           /\ close_flag1' = close_flag1
  <2>1. n_pgos' = Cardinality(Live')
    <3>1. IsFiniteSet(Live) /\ Cardinality(Live) \in Nat /\ n_pgos = Cardinality(Live)
      BY LiveFacts DEF PInv, Counts, TypeOK
    <3> QED  BY <1>2, <1>4, <3>1, FS_RemoveElement
  <2>2. \A q \in Live' : refcount'[q] = Cardinality(Unfinished(q)')
    BY <1>3, <1>4
  <2>3. ASSUME NEW q \in Pgs, NEW m \in Modules
        PROVE  /\ mod_refcount'[q][m] > 0 =>
                    q \in Live' /\ mod_refcount'[q][m] = Cardinality(Array(q, m)' \ closed')
               /\ q \in Live' \ close_flag1' => mod_refcount'[q][m] = n_clients'[q][m]
               /\ q \notin Live' => n_clients'[q][m] = 0
    <3>1. CASE q = p
      BY <1>0, <1>4, <3>1
    <3>2. CASE q # p
      BY <1>0, <1>1, <1>4, <3>2 DEF PInv, Counts
    <3> QED  BY <3>1, <3>2
  <2> QED  BY <2>1, <2>2, <2>3 DEF Counts
<1>5. CASE /\ Live' = Live
           /\ close_flag1' = close_flag1 \cup {p}
           /\ n_pgos' = n_pgos
  <2>1. n_pgos' = Cardinality(Live')
    BY <1>5 DEF PInv, Counts
  <2>2. refcount'[p] = Cardinality(Unfinished(p)')
    <3>1. Unfinished(p)' = Modules \ Silent(p)
      <4>1. Unfinished(p)' = {m \in Modules : mod_refcount[p][m] > 0}
        BY <1>0, <1>5 DEF Unfinished
      <4> QED  BY <1>2, <4>1, SilentModules
    <3> QED  BY <3>1, Close1Cases
  <2>3. \A q \in Live' : refcount'[q] = Cardinality(Unfinished(q)')
    BY <1>3, <1>5, <2>2
  <2>4. \A q \in Pgs, m \in Modules :
          /\ mod_refcount'[q][m] > 0 =>
               q \in Live' /\ mod_refcount'[q][m] = Cardinality(Array(q, m)' \ closed')
          /\ q \in Live' \ close_flag1' => mod_refcount'[q][m] = n_clients'[q][m]
          /\ q \notin Live' => n_clients'[q][m] = 0
    BY <1>0, <1>1, <1>5 DEF PInv, Counts
  <2> QED  BY <2>1, <2>3, <2>4 DEF Counts
<1> QED  BY <1>4, <1>5, Close1Cases

LEMMA Close1Keeps ==
  ASSUME PInv, NEW p \in Pgs, Close1(p)
  PROVE  PInv'
<1>0. /\ UNCHANGED <<phase, curr_pgos, close_flag2, mod_refcount, n_clients,
                     downstream_id, flags, param, cut>>
      /\ At(p, "check") /\ overdue[p] > 0
      /\ draining \subseteq draining'
  BY DEF Close1, Due
<1>1. /\ \A c : Owned(c)' <=> Owned(c)
      /\ \A s : Owned(param[s])' <=> Owned(param[s])
  BY <1>0 DEF Array, Owned, Pg, Mod
<1>2. \A c \in Clients : Owned(c) =>
        Pg(c) \in Pgs /\ Mod(c) \in Modules /\ mod_refcount[Pg(c)][Mod(c)] > 0
  BY ClientParts DEF Owned
<1>3. Connections'
  <2>1. \A c \in Clients : Owned(c) => <<Pg(c), Mod(c)>> \in allocated'
    <3> SUFFICES ASSUME NEW c \in Clients, Owned(c)
                 PROVE  <<Pg(c), Mod(c)>> \in allocated'
      OBVIOUS
    <3>1. <<Pg(c), Mod(c)>> \in allocated
      BY DEF PInv, Connections
    <3>2. CASE allocated' = allocated
      BY <3>1, <3>2
    <3>3. CASE /\ allocated' = {a \in allocated : a[1] # p}
               /\ \A m \in Modules : mod_refcount[p][m] = 0
      <4>1. Pg(c) # p
        BY <1>2, <3>3
      <4> QED  BY <3>1, <3>3, <4>1
    <3> QED  BY <3>2, <3>3, Close1Cases
  <2>2. \A s \in Slots : param[s] # NoClient =>
          param[s] \in Clients /\ Owned(param[s])
          /\ param[s] \notin close_waiting /\ downstream_id[param[s]] = s
    BY DEF PInv, Connections, TypeOK
  <2>3. /\ \A c \in Clients : downstream_id[c] # NoSlot <=> Owned(c)
        /\ \A c \in Clients : Owned(c) /\ c \notin close_waiting => param[downstream_id[c]] = c
    BY DEF PInv, Connections
  <2> QED  BY <1>0, <1>1, <2>1, <2>2, <2>3 DEF Connections, flags
<1>4. \A c \in close_waiting : c \in Clients /\ Owned(c) /\ Pg(c) \in close_flag1
  BY DEF PInv, Flags, TypeOK
<1>5. p \in Live /\ p \notin close_flag1
  BY Close1Cases
<1>6. Flags'
  <2>1. close_flag1 \subseteq close_flag1' /\ close_flag1' \subseteq Live'
        /\ \A q \in close_flag1' : q = p \/ q \in close_flag1
    <3>1. close_flag1 \subseteq Live
      BY DEF PInv, Flags
    <3>2. \/ close_flag1' = close_flag1 /\ Live' = Live \ {p}
          \/ close_flag1' = close_flag1 \cup {p} /\ Live' = Live
      BY Close1Cases
    <3> QED  BY <1>5, <3>1, <3>2
  <2>2. \A s \in draining' : param[s] # NoClient /\ Pg(param[s]) \in close_flag1'
    <3> SUFFICES ASSUME NEW s \in draining'
                 PROVE  param[s] # NoClient /\ Pg(param[s]) \in close_flag1'
      OBVIOUS
    <3>1. CASE s \in draining
      BY <2>1, <3>1 DEF PInv, Flags
    <3>2. CASE s \notin draining
      <4>1. /\ s \in Slots /\ param[s] # NoClient
            /\ Pg(param[s]) = p /\ Owned(param[s])
        BY <3>2, Close1Draining
      <4>2. \E m \in Modules : mod_refcount[p][m] > 0
        <5>1. param[s] \in Clients
          BY <4>1 DEF PInv, TypeOK
        <5> QED  BY <1>2, <4>1, <5>1
      <4>3. p \in close_flag1'
        <5>1. \A m \in Modules : mod_refcount[p][m] > 0 => mod_refcount[p][m] # 0
          BY DEF PInv, TypeOK
        <5>2. \/ \A m \in Modules : mod_refcount[p][m] = 0
              \/ close_flag1' = close_flag1 \cup {p}
          BY Close1Cases
        <5> QED  BY <4>2, <5>1, <5>2
      <4> QED  BY <4>1, <4>3
    <3> QED  BY <3>1, <3>2
  <2>3. \A q \in close_flag1' : overdue'[q] >= 0
    <3> SUFFICES ASSUME NEW q \in close_flag1' PROVE overdue'[q] >= 0
      OBVIOUS
    <3>1. \A r \in close_flag1 : r \in Pgs /\ overdue[r] >= 0
      BY DEF PInv, Flags, TypeOK
    <3>2. overdue \in [Pgs -> Never .. OutputDelay + 1] /\ overdue[p] \in Int
      BY DelayAssumption DEF PInv, TypeOK, Never
    <3>3. CASE close_flag1' = close_flag1 /\ overdue' = [overdue EXCEPT ![p] = Never]
      BY <1>5, <3>1, <3>2, <3>3
    <3>4. CASE overdue' = overdue
      <4>1. overdue[p] >= 0
        BY <1>0, <3>2
      <4> QED  BY <2>1, <3>1, <3>4, <4>1
    <3> QED  BY <3>3, <3>4, Close1Cases
  <2>4. closed \subseteq close_waiting /\ cut \subseteq draining
    BY DEF PInv, Flags
  <2> QED  BY <1>0, <1>1, <1>4, <2>1, <2>2, <2>3, <2>4 DEF Flags, flags
<1>7. Pass'
  <2>1. n_pgos' \in Int /\ n_pgos' <= n_pgos
    <3>1. n_pgos \in Int
      BY DEF PInv, TypeOK
    <3>2. n_pgos' = n_pgos \/ n_pgos' = n_pgos - 1
      BY Close1Cases
    <3> QED  BY <3>1, <3>2
  <2>2. {q \in Live' : q > p} = {q \in Live : q > p}
    <3>1. p \in Int /\ ~ (p > p)
      BY CountAssumption DEF Pgs
    <3>2. Live' = Live \/ Live' = Live \ {p}
      BY Close1Cases
    <3> QED  BY <3>1, <3>2
  <2>3. p \in Live' => p \in close_flag1'
    BY Close1Cases
  <2> QED  BY <1>0, <2>1, <2>2, <2>3, PassTurned
<1>8. Recorded'
  <2> SUFFICES ASSUME phase = "running"
               PROVE  /\ curr_pgos # NoPg => curr_pgos \in Live'
                      /\ \A q \in Live' : overdue'[q] = Never <=> q = curr_pgos
    BY <1>0 DEF Recorded
  <2>1. /\ curr_pgos # NoPg => curr_pgos \in Live
        /\ \A q \in Live : overdue[q] = Never <=> q = curr_pgos
    BY DEF PInv, Recorded
  <2>2. overdue[p] # Never
    BY <1>0, DelayAssumption DEF Never
  <2>3. p # curr_pgos
    BY <1>5, <2>1, <2>2
  <2>4. Live' \subseteq Live /\ (curr_pgos \in Live => curr_pgos \in Live')
    BY <2>3, Close1Cases
  <2>5. \A q \in Live' : overdue'[q] = overdue[q]
    <3>1. \A q \in Live' : q \in Pgs
      BY DEF Live
    <3>2. overdue \in [Pgs -> Never .. OutputDelay + 1]
      BY DEF PInv, TypeOK
    <3>3. \/ overdue' = overdue
          \/ overdue' = [overdue EXCEPT ![p] = Never] /\ p \notin Live'
      BY Close1Cases
    <3> QED  BY <3>1, <3>2, <3>3
  <2> QED  BY <2>1, <2>4, <2>5
<1> QED  BY <1>3, <1>6, <1>7, <1>8, Close1Type, Close1Counts DEF PInv

-----------------------------------------------------------------------------
(***************************************************************************)
(* do_pgoutput_check_close_completed.                                      *)
(***************************************************************************)

(* The clients to be closed now are of the programme, and not closed yet.  *)
LEMMA ClosingAre ==
  ASSUME PInv, NEW p \in Pgs, NEW quiet \in SUBSET AskedToClose(p), NEW c \in Closing(p, quiet)
  PROVE  /\ c \in Clients /\ Pg(c) = p /\ Owned(c)
         /\ c \in close_waiting /\ c \notin closed
         /\ mod_refcount[p][Mod(c)] > 0
         /\ c \in Array(p, Mod(c))
<1>1. c \in Waiting(p)
  BY DEF Closing
<1>2. /\ c \in close_waiting /\ c \notin closed /\ Pg(c) = p
      /\ mod_refcount[p][Mod(c)] > 0
  BY <1>1 DEF Waiting
<1>3. c \in Clients /\ Owned(c)
  BY <1>2 DEF PInv, Flags, TypeOK
<1> QED  BY <1>2, <1>3 DEF Owned

(* What a module still has open after the call.                            *)
LEMMA ModRefIs ==
  ASSUME PInv, NEW p \in Pgs, NEW quiet \in SUBSET AskedToClose(p), NEW m \in Modules
  PROVE  /\ ModRef(p, quiet)[m] \in 0 .. MaxAsk
         /\ ModRef(p, quiet)[m] > 0 => mod_refcount[p][m] > 0
         /\ mod_refcount[p][m] > 0 =>
              ModRef(p, quiet)[m] = Cardinality((Array(p, m) \ closed) \ Closing(p, quiet))
         /\ mod_refcount[p][m] > 0 /\ ModRef(p, quiet)[m] <= 0 =>
              Array(p, m) \ closed \subseteq Closing(p, quiet)
<1> DEFINE A == Array(p, m) \ closed
           K == {c \in Closing(p, quiet) : Mod(c) = m}
<1>0. mod_refcount[p][m] \in 0 .. MaxAsk /\ n_clients[p][m] \in 0 .. MaxAsk /\ MaxAsk \in Nat
  BY CountAssumption DEF PInv, TypeOK
<1>1. ModRef(p, quiet)[m] = mod_refcount[p][m] - Cardinality(K)
  BY DEF ModRef
<1>2. IsFiniteSet(A)
  <2>1. n_clients[p][m] \in Nat
    BY <1>0
  <2>2. IsFiniteSet(Array(p, m))
    BY <2>1, ArrayIs, ArraySize
  <2> QED  BY <2>2, FS_Subset
<1>3. K \subseteq A
  BY ClosingAre
<1>4. \A c \in Array(p, m) : Mod(c) = m
  BY <1>0, ArrayIs, FirstIs
<1>5. A \ Closing(p, quiet) = A \ K
  BY <1>4
<1>6. /\ IsFiniteSet(K) /\ IsFiniteSet(A \ K)
      /\ Cardinality(A) \in Nat /\ Cardinality(K) \in Nat /\ Cardinality(A \ K) \in Nat
      /\ Cardinality(A \ K) = Cardinality(A) - Cardinality(K)
  <2> HIDE DEF A, K
  <2> QED  BY <1>2, <1>3, PartSizes
<1>7. CASE mod_refcount[p][m] > 0
  <2>1. mod_refcount[p][m] = Cardinality(A)
    BY <1>7 DEF PInv, Counts
  <2>2. ModRef(p, quiet)[m] = Cardinality(A \ K)
    <3> HIDE DEF A, K
    <3> QED  BY <1>1, <1>6, <2>1
  <2>3. Cardinality(A \ K) <= 0 => A \ K = {}
    <3>1. Cardinality(A \ K) <= 0 => Cardinality(A \ K) = 0
      <4> HIDE DEF A, K
      <4> QED  BY <1>6
    <3> QED  BY <1>6, <3>1, FS_EmptySet
  <2>4. ModRef(p, quiet)[m] \in 0 .. MaxAsk
    <3> HIDE DEF A, K
    <3> QED  BY <1>0, <1>1, <1>6, <2>1, <2>2
  <2>5. A \ K = {} => A \subseteq Closing(p, quiet)
    OBVIOUS
  <2>6. ModRef(p, quiet)[m] = Cardinality(A \ Closing(p, quiet))
    BY <1>5, <2>2
  <2>7. ModRef(p, quiet)[m] <= 0 => A \subseteq Closing(p, quiet)
    <3> HIDE DEF A, K
    <3> QED  BY <2>2, <2>3, <2>5
  <2> QED  BY <1>7, <2>4, <2>6, <2>7
<1>8. CASE ~ (mod_refcount[p][m] > 0)
  <2>1. K = {}
    BY <1>8, ClosingAre
  <2>2. Cardinality(K) = 0
    BY <2>1, FS_EmptySet
  <2>3. ModRef(p, quiet)[m] = 0
    <3> HIDE DEF K
    <3> QED  BY <1>0, <1>1, <1>8, <2>2
  <2> QED  BY <1>0, <1>8, <2>3
<1> QED  BY <1>7, <1>8

(* The programme's count goes down by the modules that finish with it now, *)
(* and reaches 0 when they are all that had not finished.                  *)
LEMMA CompletingAre ==
  ASSUME PInv, NEW p \in close_flag1, NEW quiet \in SUBSET AskedToClose(p)
  PROVE  LET left == {m \in Modules : ModRef(p, quiet)[m] > 0}
         IN  /\ p \in Pgs /\ p \in Live
             /\ refcount[p] - Cardinality(Completing(p, quiet)) = Cardinality(left)
             /\ Cardinality(left) \in 0 .. NModules
             /\ Ends(p, quiet) <=> left = {}
             /\ Ends(p, quiet) <=> ~ (Cardinality(left) > 0)
<1> DEFINE U == {m \in Modules : mod_refcount[p][m] > 0}
           D == Completing(p, quiet)
           left == {m \in Modules : ModRef(p, quiet)[m] > 0}
<1>0. p \in Pgs /\ p \in Live
  BY DEF PInv, Flags, Live
<1>1. Unfinished(p) = U
  BY DEF Unfinished
<1>2. refcount[p] = Cardinality(U) /\ refcount[p] \in 0 .. NModules /\ refcount[p] > 0
  <2>1. refcount[p] = Cardinality(U) /\ refcount[p] \in 0 .. NModules
    BY <1>0, <1>1 DEF PInv, Counts, TypeOK
  <2>2. refcount[p] > 0
    BY <1>0 DEF Live
  <2> QED  BY <2>1, <2>2
<1>3. D \subseteq U /\ left = U \ D
  <2>1. D \subseteq U
    BY DEF Completing
  <2>2. ASSUME NEW m \in Modules
        PROVE  m \in left <=> m \in U /\ m \notin D
    <3>1. ModRef(p, quiet)[m] \in Int /\ (ModRef(p, quiet)[m] > 0 => mod_refcount[p][m] > 0)
      <4>1. /\ ModRef(p, quiet)[m] \in 0 .. MaxAsk
            /\ ModRef(p, quiet)[m] > 0 => mod_refcount[p][m] > 0
        BY <1>0, ModRefIs
      <4> QED  BY <4>1, CountAssumption
    <3> QED  BY <3>1 DEF Completing
  <2> QED  BY <2>1, <2>2
<1>4. /\ IsFiniteSet(U) /\ IsFiniteSet(D) /\ IsFiniteSet(U \ D)
      /\ Cardinality(U) \in Nat /\ Cardinality(D) \in Nat /\ Cardinality(U \ D) \in Nat
      /\ Cardinality(U \ D) = Cardinality(U) - Cardinality(D)
      /\ Cardinality(U \ D) = 0 <=> U \ D = {}
      /\ Cardinality(D) = 0 <=> D = {}
  <2>1. IsFiniteSet(U)
    <3>1. U \subseteq Modules
      OBVIOUS
    <3> HIDE DEF U, D
    <3> QED  BY <1>3, <3>1, ClientsFinite, FS_Subset
  <2> HIDE DEF U, D
  <2> QED  BY <1>3, <2>1, PartSizes
<1>5. Ends(p, quiet) <=> D # {} /\ refcount[p] - Cardinality(D) <= 0
  BY DEF Ends
<1> HIDE DEF U, D, left
<1>6. refcount[p] - Cardinality(D) = Cardinality(left) /\ Cardinality(left) \in 0 .. NModules
  BY <1>2, <1>3, <1>4, CountAssumption
<1>7. /\ Ends(p, quiet) <=> left = {}
      /\ Ends(p, quiet) <=> ~ (Cardinality(left) > 0)
  BY <1>2, <1>3, <1>4, <1>5, <1>6
<1> QED  BY <1>0, <1>6, <1>7 DEF D, left

Left(p, quiet) == {m \in Modules : ModRef(p, quiet)[m] > 0}
Gone(p, quiet) == {c \in Clients : Pg(c) = p /\ Mod(c) \in Completing(p, quiet)}

(* What the call does to the programme it is called for, and to no other.  *)
LEMMA CheckDoes ==
  ASSUME PInv, NEW p, p = j, NEW quiet \in SUBSET AskedToClose(p), CheckCloseCompleted(quiet)
  PROVE  /\ p \in Pgs /\ p \in Live /\ p \in close_flag1
         /\ refcount' \in [Pgs -> 0 .. NModules]
         /\ refcount'[p] = Cardinality(Left(p, quiet))
         /\ \A q \in Pgs : q # p => refcount'[q] = refcount[q]
         /\ mod_refcount' \in [Pgs -> [Modules -> 0 .. MaxAsk]]
         /\ mod_refcount'[p] = ModRef(p, quiet)
         /\ \A q \in Pgs : q # p => mod_refcount'[q] = mod_refcount[q]
<1>1. /\ at = "check" /\ refcount[p] > 0
      /\ refcount' = [refcount EXCEPT ![p] = refcount[p] - Cardinality(Completing(p, quiet))]
      /\ mod_refcount' = [mod_refcount EXCEPT ![p] = ModRef(p, quiet)]
  BY DEF CheckCloseCompleted
<1>2. p \in Pgs /\ p \in Live /\ p \in close_flag1
  BY <1>1 DEF PInv, Pass, Live
<1>3. /\ refcount[p] - Cardinality(Completing(p, quiet)) = Cardinality(Left(p, quiet))
      /\ Cardinality(Left(p, quiet)) \in 0 .. NModules
  BY <1>2, CompletingAre DEF Left
<1>4. ModRef(p, quiet) \in [Modules -> 0 .. MaxAsk]
  <2>1. \A m \in Modules : ModRef(p, quiet)[m] \in 0 .. MaxAsk
    BY <1>2, ModRefIs
  <2>2. ModRef(p, quiet) = [m \in Modules |-> ModRef(p, quiet)[m]]
    BY DEF ModRef
  <2> QED  BY <2>1, <2>2
<1>5. /\ refcount \in [Pgs -> 0 .. NModules]
      /\ mod_refcount \in [Pgs -> [Modules -> 0 .. MaxAsk]]
  BY DEF PInv, TypeOK
<1> QED  BY <1>1, <1>2, <1>3, <1>4, <1>5

LEMMA CheckEnds ==
  ASSUME PInv, NEW p, p = j, NEW quiet \in SUBSET AskedToClose(p), CheckCloseCompleted(quiet)
  PROVE  \/ /\ \A m \in Modules : mod_refcount'[p][m] = 0
            /\ Live' = Live \ {p}
            /\ n_pgos' = n_pgos - 1
            /\ overdue' = [overdue EXCEPT ![p] = Never]
            /\ close_flag1' = close_flag1 \ {p}
            /\ close_flag2' = close_flag2 \ {p}
            /\ n_clients' = [n_clients EXCEPT ![p] = NoModules]
         \/ /\ Live' = Live
            /\ UNCHANGED <<n_pgos, overdue, close_flag1, close_flag2, n_clients>>
<1>1. /\ p \in Pgs /\ p \in Live /\ p \in close_flag1
      /\ refcount'[p] = Cardinality(Left(p, quiet))
      /\ \A q \in Pgs : q # p => refcount'[q] = refcount[q]
      /\ mod_refcount'[p] = ModRef(p, quiet)
  BY CheckDoes
<1>2. /\ Ends(p, quiet) <=> Left(p, quiet) = {}
      /\ Ends(p, quiet) <=> ~ (Cardinality(Left(p, quiet)) > 0)
  BY <1>1, CompletingAre DEF Left
<1>3. CASE Ends(p, quiet)
  <2>1. \A m \in Modules : mod_refcount'[p][m] = 0
    <3> SUFFICES ASSUME NEW m \in Modules PROVE ModRef(p, quiet)[m] = 0
      BY <1>1
    <3>1. ModRef(p, quiet)[m] \in 0 .. MaxAsk
      BY <1>1, ModRefIs
    <3>2. ~ (ModRef(p, quiet)[m] > 0)
      BY <1>2, <1>3 DEF Left
    <3> QED  BY <3>1, <3>2, CountAssumption
  <2>2. Live' = Live \ {p}
    BY <1>1, <1>2, <1>3 DEF Live
  <2> QED  BY <1>3, <2>1, <2>2 DEF CheckCloseCompleted
<1>4. CASE ~ Ends(p, quiet)
  <2>1. Live' = Live
    BY <1>1, <1>2, <1>4 DEF Live
  <2> QED  BY <1>4, <2>1 DEF CheckCloseCompleted
<1> QED  BY <1>3, <1>4

LEMMA CheckFlags ==
  ASSUME PInv, NEW p, p = j, NEW quiet \in SUBSET AskedToClose(p), CheckCloseCompleted(quiet)
  PROVE  /\ closed' = (closed \cup Closing(p, quiet)) \ Gone(p, quiet)
         /\ close_waiting' = close_waiting \ Gone(p, quiet)
         /\ disconnect_tried' \subseteq Clients /\ soft_closed' \subseteq Clients
         /\ waited' \in [Clients -> 0 .. CloseDelay]
         /\ downstream_id' = [c \in Clients |-> IF c \in Gone(p, quiet) THEN NoSlot
                                                ELSE downstream_id[c]]
         /\ allocated' = allocated \ {<<p, m>> : m \in Completing(p, quiet)}
         /\ at' = "loop" /\ j' = p + 1
         /\ UNCHANGED <<phase, curr_pgos, param, draining, cut, i>>
<1> DEFINE soft == {c \in AskedToClose(p) : Expired(c)}
<1>1. /\ closed' = (closed \cup Closing(p, quiet)) \ Gone(p, quiet)
      /\ close_waiting' = close_waiting \ Gone(p, quiet)
      /\ disconnect_tried' = disconnect_tried \ Gone(p, quiet)
      /\ soft_closed' = (soft_closed \cup soft) \ Gone(p, quiet)
      /\ waited' = [c \in Clients |-> IF c \in soft \cup Gone(p, quiet) \cup closed' THEN 0
                                      ELSE waited[c]]
      /\ downstream_id' = [c \in Clients |-> IF c \in Gone(p, quiet) THEN NoSlot
                                             ELSE downstream_id[c]]
      /\ allocated' = allocated \ {<<p, m>> : m \in Completing(p, quiet)}
      /\ at' = "loop" /\ j' = p + 1
      /\ UNCHANGED <<phase, curr_pgos, param, draining, cut, i>>
  BY DEF CheckCloseCompleted, Gone, ab
<1>2. soft \subseteq Clients
  BY DEF AskedToClose, Waiting, PInv, TypeOK
<1>3. waited \in [Clients -> 0 .. CloseDelay] /\ 0 \in 0 .. CloseDelay
  BY DelayAssumption DEF PInv, TypeOK
<1>4. waited' \in [Clients -> 0 .. CloseDelay]
  <2> HIDE DEF soft
  <2> QED  BY <1>1, <1>3
<1>5. disconnect_tried' \subseteq Clients /\ soft_closed' \subseteq Clients
  <2> HIDE DEF soft
  <2> QED  BY <1>1, <1>2 DEF PInv, TypeOK
<1> QED  BY <1>1, <1>4, <1>5

(* A client is still owned when its module has not finished; one that is   *)
(* not was closed by the buffer.                                           *)
LEMMA CheckOwned ==
  ASSUME PInv, NEW p, p = j, NEW quiet \in SUBSET AskedToClose(p), CheckCloseCompleted(quiet)
  PROVE  /\ n_clients' \in [Pgs -> [Modules -> 0 .. MaxAsk]]
         /\ \A c \in Clients : Owned(c)' <=> Owned(c) /\ c \notin Gone(p, quiet)
         /\ \A c \in Clients : Owned(c) /\ c \in Gone(p, quiet) => c \in close_waiting
<1>0. p \in Pgs /\ n_clients \in [Pgs -> [Modules -> 0 .. MaxAsk]]
      /\ mod_refcount \in [Pgs -> [Modules -> 0 .. MaxAsk]]
  BY CheckDoes DEF PInv, TypeOK
<1>1. n_clients' \in [Pgs -> [Modules -> 0 .. MaxAsk]]
  <2>1. NoModules \in [Modules -> 0 .. MaxAsk]
    BY CountAssumption DEF NoModules
  <2>2. n_clients' = n_clients \/ n_clients' = [n_clients EXCEPT ![p] = NoModules]
    BY CheckEnds
  <2> QED  BY <1>0, <2>1, <2>2
<1>2. ASSUME NEW c \in Clients, Pg(c) # p
      PROVE  Owned(c)' <=> Owned(c)
  <2>1. Pg(c) \in Pgs
    BY ClientParts
  <2>2. mod_refcount'[Pg(c)] = mod_refcount[Pg(c)]
    BY <1>2, <2>1, CheckDoes
  <2>3. n_clients'[Pg(c)] = n_clients[Pg(c)]
    <3>1. n_clients' = n_clients \/ n_clients' = [n_clients EXCEPT ![p] = NoModules]
      BY CheckEnds
    <3> QED  BY <1>0, <1>2, <2>1, <3>1
  <2> QED  BY <1>0, <1>1, <2>2, <2>3, OwnedIs, OwnedNext
<1>3. ASSUME NEW c \in Clients, Pg(c) = p
      PROVE  Owned(c)' <=> Owned(c) /\ Mod(c) \notin Completing(p, quiet)
  <2> DEFINE m == Mod(c)
  <2>0. m \in Modules /\ MaxAsk \in Nat
    BY ClientParts, CountAssumption
  <2>1. mod_refcount'[p][m] = ModRef(p, quiet)[m] /\ ModRef(p, quiet)[m] \in 0 .. MaxAsk
    BY <1>0, <2>0, CheckDoes, ModRefIs
  <2>2. ModRef(p, quiet)[m] > 0 => mod_refcount[p][m] > 0
    BY <1>0, <2>0, ModRefIs
  <2>3. m \in Completing(p, quiet) <=> mod_refcount[p][m] > 0 /\ ModRef(p, quiet)[m] <= 0
    BY <2>0 DEF Completing
  <2>4. Owned(c) <=> c[3] < n_clients[p][m] /\ mod_refcount[p][m] > 0
    BY <1>0, <1>3, OwnedIs
  <2>5. Owned(c)' <=> c[3] < n_clients'[p][m] /\ mod_refcount'[p][m] > 0
    BY <1>1, <1>3, OwnedNext
  <2>6. n_clients' = n_clients \/ mod_refcount'[p][m] = 0
    BY <2>0, CheckEnds
  <2>7. ModRef(p, quiet)[m] \in Int
    BY <2>0, <2>1
  <2> HIDE DEF m
  <2> QED  BY <2>1, <2>2, <2>3, <2>4, <2>5, <2>6, <2>7 DEF m
<1>4. ASSUME NEW c \in Clients, Owned(c), c \in Gone(p, quiet)
      PROVE  c \in close_waiting
  <2>1. Pg(c) = p /\ Mod(c) \in Completing(p, quiet) /\ Mod(c) \in Modules
    BY <1>4, ClientParts DEF Gone
  <2>2. mod_refcount[p][Mod(c)] > 0 /\ ModRef(p, quiet)[Mod(c)] <= 0
    BY <2>1 DEF Completing
  <2>3. Array(p, Mod(c)) \ closed \subseteq Closing(p, quiet)
    BY <1>0, <2>1, <2>2, ModRefIs
  <2>4. c \in Array(p, Mod(c))
    BY <1>4, <2>1 DEF Owned
  <2>5. c \in closed \/ c \in Closing(p, quiet)
    BY <2>3, <2>4
  <2> QED  BY <1>0, <2>5, ClosingAre DEF PInv, Flags
<1> QED  BY <1>1, <1>2, <1>3, <1>4 DEF Gone

LEMMA CheckType ==
  ASSUME PInv, NEW p, p = j, NEW quiet \in SUBSET AskedToClose(p), CheckCloseCompleted(quiet)
  PROVE  TypeOK'
<1>0. TypeOK /\ p \in Pgs /\ p \in Live
  BY CheckDoes DEF PInv
<1>1. /\ n_pgos' = n_pgos \/ n_pgos' = n_pgos - 1
      /\ overdue' = overdue \/ overdue' = [overdue EXCEPT ![p] = Never]
      /\ close_flag1' \subseteq close_flag1 /\ close_flag2' \subseteq close_flag2
  BY CheckEnds
<1>2. n_pgos' \in 0 .. MaxPgOverlap
  <2>1. IsFiniteSet(Live) /\ Cardinality(Live) \in Nat /\ n_pgos = Cardinality(Live)
    BY <1>0, LiveFacts DEF PInv, Counts
  <2>2. n_pgos # 0
    BY <1>0, <2>1, FS_EmptySet
  <2>3. n_pgos \in 0 .. MaxPgOverlap /\ MaxPgOverlap \in Nat
    BY <1>0, CountAssumption DEF TypeOK
  <2>4. n_pgos' = n_pgos \/ n_pgos' = n_pgos - 1
    BY CheckEnds
  <2> QED  BY <2>2, <2>3, <2>4
<1>3. overdue' \in [Pgs -> Never .. OutputDelay + 1]
  <2>1. Never \in Never .. OutputDelay + 1 /\ overdue \in [Pgs -> Never .. OutputDelay + 1]
    BY <1>0, DelayAssumption DEF TypeOK, Never
  <2>2. overdue' = overdue \/ overdue' = [overdue EXCEPT ![p] = Never]
    BY CheckEnds
  <2> QED  BY <2>1, <2>2
<1>4. /\ refcount' \in [Pgs -> 0 .. NModules]
      /\ mod_refcount' \in [Pgs -> [Modules -> 0 .. MaxAsk]]
      /\ n_clients' \in [Pgs -> [Modules -> 0 .. MaxAsk]]
  BY CheckDoes, CheckOwned
<1>5. downstream_id' \in [Clients -> Slots \cup {NoSlot}]
  BY <1>0, CheckFlags DEF TypeOK
<1>6. /\ closed' \subseteq Clients /\ close_waiting' \subseteq Clients
      /\ allocated' \subseteq Pgs \X Modules
  <2>1. Closing(p, quiet) \subseteq Clients
    BY <1>0, ClosingAre
  <2> QED  BY <1>0, <2>1, CheckFlags DEF TypeOK
<1>7. j' \in 0 .. MaxPgOverlap /\ at' \in {"idle", "loop", "check"}
  <2>1. p + 1 \in 0 .. MaxPgOverlap
    BY <1>0, CountAssumption DEF Pgs
  <2> QED  BY <2>1, CheckFlags
<1>8. close_flag1' \subseteq Pgs /\ close_flag2' \subseteq Pgs
  BY <1>0, <1>1 DEF TypeOK
<1>9. /\ disconnect_tried' \subseteq Clients /\ soft_closed' \subseteq Clients
      /\ waited' \in [Clients -> 0 .. CloseDelay]
      /\ UNCHANGED <<phase, curr_pgos, param, draining, cut, i>>
  BY CheckFlags
<1> QED  BY <1>0, <1>2, <1>3, <1>4, <1>5, <1>6, <1>7, <1>8, <1>9 DEF TypeOK

LEMMA CheckCounts ==
  ASSUME PInv, NEW p, p = j, NEW quiet \in SUBSET AskedToClose(p), CheckCloseCompleted(quiet)
  PROVE  Counts'
<1>0. /\ TypeOK /\ p \in Pgs /\ p \in Live /\ p \in close_flag1
      /\ n_clients \in [Pgs -> [Modules -> 0 .. MaxAsk]]
  BY CheckDoes DEF PInv, TypeOK
<1>1. n_pgos' = Cardinality(Live')
  <2>1. IsFiniteSet(Live) /\ Cardinality(Live) \in Nat /\ n_pgos = Cardinality(Live)
    BY <1>0, LiveFacts DEF PInv, Counts
  <2>2. \/ Live' = Live /\ n_pgos' = n_pgos
        \/ Live' = Live \ {p} /\ n_pgos' = n_pgos - 1
    BY CheckEnds
  <2> QED  BY <1>0, <2>1, <2>2, FS_RemoveElement
<1>2. ASSUME NEW q \in Pgs, q # p
      PROVE  /\ q \in Live' <=> q \in Live
             /\ q \in close_flag1' <=> q \in close_flag1
             /\ refcount'[q] = refcount[q]
             /\ mod_refcount'[q] = mod_refcount[q]
             /\ n_clients'[q] = n_clients[q]
  <2>1. n_clients' = n_clients \/ n_clients' = [n_clients EXCEPT ![p] = NoModules]
    BY CheckEnds
  <2>2. n_clients'[q] = n_clients[q]
    BY <1>0, <1>2, <2>1
  <2> QED  BY <1>2, <2>2, CheckEnds, CheckDoes
<1>3. p \in Live' => /\ close_flag1' = close_flag1 /\ n_clients' = n_clients
  BY CheckEnds
<1>4. ASSUME NEW q \in Live'
      PROVE  refcount'[q] = Cardinality(Unfinished(q)')
  <2>0. q \in Pgs
    BY DEF Live
  <2>1. CASE q = p
    <3>1. Unfinished(p)' = Left(p, quiet)
      <4>1. p \in close_flag1' /\ mod_refcount'[p] = ModRef(p, quiet)
        BY <1>0, <1>3, <2>1, CheckDoes
      <4> QED  BY <4>1 DEF Unfinished, Left
    <3> QED  BY <2>1, <3>1, CheckDoes
  <2>2. CASE q # p
    <3>1. Unfinished(q)' = Unfinished(q)
      BY <1>2, <2>0, <2>2 DEF Unfinished
    <3>2. q \in Live /\ refcount'[q] = refcount[q]
      BY <1>2, <2>0, <2>2
    <3> QED  BY <3>1, <3>2 DEF PInv, Counts
  <2> QED  BY <2>1, <2>2
<1>5. ASSUME NEW q \in Pgs, NEW m \in Modules
      PROVE  /\ mod_refcount'[q][m] > 0 =>
                  q \in Live' /\ mod_refcount'[q][m] = Cardinality(Array(q, m)' \ closed')
             /\ q \in Live' \ close_flag1' => mod_refcount'[q][m] = n_clients'[q][m]
             /\ q \notin Live' => n_clients'[q][m] = 0
  <2>0. \A c \in Array(q, m) : c \in Clients /\ Pg(c) = q /\ Mod(c) = m
    <3>1. n_clients[q][m] \in 0 .. MaxAsk
      BY <1>0
    <3> QED  BY <3>1, ArrayIs, FirstIs
  <2>1. CASE q = p
    <3>1. ASSUME mod_refcount'[p][m] > 0
          PROVE  p \in Live' /\ mod_refcount'[p][m] = Cardinality(Array(p, m)' \ closed')
      <4>1. ~ \A k \in Modules : mod_refcount'[p][k] = 0
        <5>1. mod_refcount'[p][m] # 0
          BY <3>1
        <5> QED  BY <5>1
      <4>2. Live' = Live /\ n_clients' = n_clients
        BY <4>1, CheckEnds
      <4>3. Array(p, m)' = Array(p, m)
        BY <4>2 DEF Array
      <4>4. mod_refcount'[p][m] = ModRef(p, quiet)[m] /\ ModRef(p, quiet)[m] > 0
        BY <3>1, CheckDoes
      <4>5. ModRef(p, quiet)[m] \in Int
        <5>1. ModRef(p, quiet)[m] \in 0 .. MaxAsk
          BY <1>0, ModRefIs
        <5> QED  BY <5>1, CountAssumption
      <4>6. m \notin Completing(p, quiet)
        BY <4>4, <4>5 DEF Completing
      <4>7. Array(p, m) \ closed' = (Array(p, m) \ closed) \ Closing(p, quiet)
        <5>1. \A c \in Array(p, m) : c \notin Gone(p, quiet)
          BY <2>0, <2>1, <4>6 DEF Gone
        <5>2. closed' = (closed \cup Closing(p, quiet)) \ Gone(p, quiet)
          BY CheckFlags
        <5> QED  BY <5>1, <5>2
      <4>8. ModRef(p, quiet)[m] = Cardinality((Array(p, m) \ closed) \ Closing(p, quiet))
        BY <1>0, <4>4, ModRefIs
      <4> QED  BY <1>0, <4>2, <4>3, <4>4, <4>7, <4>8
    <3>2. p \in Live' => p \in close_flag1'
      BY <1>0, <1>3
    <3>3. p \notin Live' => n_clients'[p][m] = 0
      <4>1. Live' = Live \/ n_clients' = [n_clients EXCEPT ![p] = NoModules]
        BY CheckEnds
      <4> QED  BY <1>0, <4>1 DEF NoModules
    <3> QED  BY <2>1, <3>1, <3>2, <3>3
  <2>2. CASE q # p
    <3>1. Array(q, m)' = Array(q, m)
      BY <1>2, <2>2 DEF Array
    <3>2. Array(q, m) \ closed' = Array(q, m) \ closed
      <4>1. \A c \in Array(q, m) : c \notin Gone(p, quiet) /\ c \notin Closing(p, quiet)
        BY <1>0, <2>0, <2>2, ClosingAre DEF Gone
      <4> QED  BY <4>1, CheckFlags
    <3> QED  BY <1>2, <2>2, <3>1, <3>2 DEF PInv, Counts
  <2> QED  BY <2>1, <2>2
<1> QED  BY <1>1, <1>4, <1>5 DEF Counts

LEMMA CheckKeeps ==
  ASSUME PInv, NEW p, p = j, NEW quiet \in SUBSET AskedToClose(p), CheckCloseCompleted(quiet)
  PROVE  PInv'
<1> DEFINE gone == Gone(p, quiet)
<1>0. /\ TypeOK /\ p \in Pgs /\ p \in Live /\ p \in close_flag1
      /\ at = "check"
  BY CheckDoes DEF PInv, CheckCloseCompleted
<1>1. /\ \A c \in Clients : Owned(c)' <=> Owned(c) /\ c \notin gone
      /\ \A c \in Clients : Owned(c) /\ c \in gone => c \in close_waiting
  BY CheckOwned
<1>2. /\ closed' = (closed \cup Closing(p, quiet)) \ gone
      /\ close_waiting' = close_waiting \ gone
      /\ downstream_id' = [c \in Clients |-> IF c \in gone THEN NoSlot ELSE downstream_id[c]]
      /\ allocated' = allocated \ {<<p, m>> : m \in Completing(p, quiet)}
      /\ at' = "loop" /\ j' = p + 1
      /\ UNCHANGED <<phase, curr_pgos, param, draining, cut, i>>
  BY CheckFlags
(* A downstream in use belongs to a client the buffer has not closed.      *)
<1>3. \A s \in Slots : param[s] # NoClient =>
        /\ param[s] \in Clients /\ Owned(param[s]) /\ param[s] \notin close_waiting
        /\ param[s] \notin gone /\ downstream_id[param[s]] = s
  <2>1. \A s \in Slots : param[s] # NoClient =>
          /\ param[s] \in Clients /\ Owned(param[s]) /\ param[s] \notin close_waiting
          /\ downstream_id[param[s]] = s
    BY <1>0 DEF PInv, Connections, TypeOK
  <2> HIDE DEF gone
  <2> QED  BY <1>1, <2>1
<1>4. \A s \in Slots : param[s] # NoClient => Owned(param[s])'
  <2> SUFFICES ASSUME NEW s \in Slots, param[s] # NoClient PROVE Owned(param[s])'
    OBVIOUS
  <2>1. PICK c \in Clients : c = param[s]
    BY <1>3
  <2>2. Owned(c)'
    <3> HIDE DEF gone
    <3> QED  BY <1>1, <1>3, <2>1
  <2> QED  BY <1>2, <2>1, <2>2, OwnedOf
<1>5. Connections'
  <2>1. \A c \in Clients : downstream_id[c] # NoSlot <=> Owned(c)
    BY DEF PInv, Connections
  <2>2. \A c \in Clients : downstream_id'[c] # NoSlot <=> Owned(c)'
    <3> HIDE DEF gone
    <3> QED  BY <1>1, <1>2, <2>1
  <2>3. \A c \in Clients : Owned(c)' => <<Pg(c), Mod(c)>> \in allocated'
    <3> SUFFICES ASSUME NEW c \in Clients, Owned(c)'
                 PROVE  <<Pg(c), Mod(c)>> \in allocated'
      OBVIOUS
    <3>1. <<Pg(c), Mod(c)>> \in allocated /\ c \notin gone
      BY <1>1 DEF PInv, Connections
    <3>2. ~ (Pg(c) = p /\ Mod(c) \in Completing(p, quiet))
      BY <3>1 DEF Gone
    <3> QED  BY <1>2, <3>1, <3>2
  <2>4. \A s \in Slots : param[s] # NoClient =>
          <<Pg(param[s]), Mod(param[s])>> \in allocated'
    <3> SUFFICES ASSUME NEW s \in Slots, param[s] # NoClient
                 PROVE  <<Pg(param[s]), Mod(param[s])>> \in allocated'
      OBVIOUS
    <3>1. PICK c \in Clients : c = param[s]
      BY <1>3
    <3>2. Owned(c)'
      <4> HIDE DEF gone
      <4> QED  BY <1>1, <1>3, <3>1
    <3> QED  BY <2>3, <3>1, <3>2
  <2>5. \A s \in Slots : param[s] # NoClient =>
          param[s] \notin close_waiting' /\ downstream_id'[param[s]] = s
    <3> HIDE DEF gone
    <3> QED  BY <1>2, <1>3
  <2>6. \A c \in Clients : Owned(c)' /\ c \notin close_waiting' => param[downstream_id'[c]] = c
    <3>1. \A c \in Clients : Owned(c) /\ c \notin close_waiting => param[downstream_id[c]] = c
      BY DEF PInv, Connections
    <3> HIDE DEF gone
    <3> QED  BY <1>1, <1>2, <3>1
  <2> QED  BY <1>2, <1>4, <2>2, <2>3, <2>4, <2>5, <2>6 DEF Connections
(* A programme that ends has no client left.                               *)
<1>6. \A c \in Clients : Owned(c)' /\ Pg(c) \in close_flag1 => Pg(c) \in close_flag1'
  <2> SUFFICES ASSUME NEW c \in Clients, Owned(c)', Pg(c) \in close_flag1
               PROVE  Pg(c) \in close_flag1'
    OBVIOUS
  <2>1. mod_refcount'[Pg(c)][Mod(c)] > 0 /\ Mod(c) \in Modules
    BY CheckOwned, OwnedNext, ClientParts
  <2>2. mod_refcount'[Pg(c)][Mod(c)] # 0
    BY <2>1
  <2>3. \/ close_flag1' = close_flag1
        \/ close_flag1' = close_flag1 \ {p} /\ \A m \in Modules : mod_refcount'[p][m] = 0
    BY CheckEnds
  <2> QED  BY <2>1, <2>2, <2>3
<1>7. Flags'
  <2>1. closed' \subseteq close_waiting'
    <3>1. closed \subseteq close_waiting /\ Closing(p, quiet) \subseteq close_waiting
      BY <1>0, ClosingAre DEF PInv, Flags
    <3> HIDE DEF gone
    <3> QED  BY <1>2, <3>1
  <2>2. \A c \in close_waiting' : Owned(c)' /\ Pg(c) \in close_flag1'
    <3>1. \A c \in close_waiting : c \in Clients /\ Owned(c) /\ Pg(c) \in close_flag1
      BY <1>0 DEF PInv, Flags, TypeOK
    <3> HIDE DEF gone
    <3> QED  BY <1>1, <1>2, <1>6, <3>1
  <2>3. \A s \in draining : param[s] # NoClient /\ Pg(param[s]) \in close_flag1'
    <3> SUFFICES ASSUME NEW s \in draining
                 PROVE  param[s] # NoClient /\ Pg(param[s]) \in close_flag1'
      OBVIOUS
    <3>1. s \in Slots /\ param[s] # NoClient /\ Pg(param[s]) \in close_flag1
      BY <1>0 DEF PInv, Flags, TypeOK
    <3>2. PICK c \in Clients : c = param[s]
      BY <1>3, <3>1
    <3>3. Owned(c)'
      <4> HIDE DEF gone
      <4> QED  BY <1>1, <1>3, <3>1, <3>2
    <3> QED  BY <1>6, <3>1, <3>2, <3>3
  <2>4. close_flag1' \subseteq Live'
    <3>1. close_flag1 \subseteq Live
      BY DEF PInv, Flags
    <3>2. \/ Live' = Live /\ close_flag1' = close_flag1
          \/ Live' = Live \ {p} /\ close_flag1' = close_flag1 \ {p}
      BY CheckEnds
    <3> QED  BY <3>1, <3>2
  <2>5. \A q \in close_flag1' : overdue'[q] >= 0
    <3>1. \A q \in close_flag1 : q \in Pgs /\ overdue[q] >= 0
      BY <1>0 DEF PInv, Flags, TypeOK
    <3>2. overdue \in [Pgs -> Never .. OutputDelay + 1]
      BY <1>0 DEF TypeOK
    <3>3. \/ overdue' = overdue /\ close_flag1' = close_flag1
          \/ overdue' = [overdue EXCEPT ![p] = Never] /\ close_flag1' = close_flag1 \ {p}
      BY CheckEnds
    <3> QED  BY <3>1, <3>2, <3>3
  <2>6. cut \subseteq draining
    BY DEF PInv, Flags
  <2> QED  BY <1>2, <2>1, <2>2, <2>3, <2>4, <2>5, <2>6 DEF Flags
<1>8. Pass'
  <2> DEFINE Rest == {q \in Live : q > p}
             RestNext == {q \in Live' : q >= p + 1}
  <2>1. i + Cardinality(Rest) >= n_pgos
    BY <1>0 DEF PInv, Pass
  <2>2. RestNext = Rest
    <3>1. p \in Int /\ \A q \in Live : q \in Int
      BY <1>0, CountAssumption DEF Live, Pgs
    <3>2. Live' = Live \/ Live' = Live \ {p}
      BY CheckEnds
    <3>3. \A q \in Live : q >= p + 1 <=> q > p
      BY <3>1
    <3>4. ~ (p > p)
      BY <3>1
    <3> QED  BY <3>2, <3>3, <3>4
  <2>3. n_pgos' = n_pgos \/ n_pgos' = n_pgos - 1
    BY CheckEnds
  <2>4. n_pgos \in Nat /\ i \in Nat /\ Cardinality(Rest) \in Nat
    <3>1. Rest \subseteq Live
      OBVIOUS
    <3>2. Cardinality(Rest) \in Nat
      <4> HIDE DEF Rest
      <4> QED  BY <1>0, <3>1, LiveFacts
    <3> QED  BY <1>0, <3>2, CountAssumption DEF TypeOK
  <2>5. i + Cardinality(RestNext) >= n_pgos'
    <3> HIDE DEF Rest, RestNext
    <3> QED  BY <2>1, <2>2, <2>3, <2>4
  <2> QED  BY <1>2, <2>5 DEF Pass
<1>9. Recorded'
  <2> SUFFICES ASSUME phase = "running"
               PROVE  /\ curr_pgos # NoPg => curr_pgos \in Live'
                      /\ \A q \in Live' : overdue'[q] = Never <=> q = curr_pgos
    BY <1>2 DEF Recorded
  <2>1. /\ curr_pgos # NoPg => curr_pgos \in Live
        /\ \A q \in Live : overdue[q] = Never <=> q = curr_pgos
    BY DEF PInv, Recorded
  <2>2. overdue[p] # Never
    <3>1. overdue[p] >= 0
      BY <1>0 DEF PInv, Flags
    <3> QED  BY <3>1, DelayAssumption DEF Never
  <2>3. p # curr_pgos
    BY <1>0, <2>1, <2>2
  <2>4. \/ Live' = Live /\ overdue' = overdue
        \/ Live' = Live \ {p} /\ overdue' = [overdue EXCEPT ![p] = Never]
    BY CheckEnds
  <2>5. \A q \in Live' : q \in Live /\ overdue'[q] = overdue[q]
    <3>1. Live \subseteq Pgs /\ overdue \in [Pgs -> Never .. OutputDelay + 1]
      BY <1>0 DEF TypeOK, Live
    <3> QED  BY <2>4, <3>1
  <2> QED  BY <2>1, <2>3, <2>4, <2>5
<1> QED  BY <1>5, <1>7, <1>8, <1>9, CheckType, CheckCounts DEF PInv

-----------------------------------------------------------------------------
(***************************************************************************)
(* ab_output_buf closes what has been handed out.                          *)
(***************************************************************************)
LEMMA OutputBufKeeps ==
  ASSUME PInv, NEW drained \in SUBSET draining, OutputBuf(drained)
  PROVE  PInv'
<1> USE DEF tos, pgos, mods
<1>0. /\ TypeOK
      /\ close_waiting' = close_waiting \cup {param[s] : s \in drained}
      /\ param' = [s \in Slots |-> IF s \in drained THEN NoClient ELSE param[s]]
      /\ draining' = draining \ drained /\ cut' = cut \ drained
      /\ at' = "idle" /\ i' = 0 /\ j' = 0
      /\ UNCHANGED <<tos, pgos, mods, downstream_id, disconnect_tried, soft_closed,
                     closed, waited>>
  BY DEF OutputBuf, PInv
<1>1. \A s \in drained : /\ s \in Slots /\ param[s] \in Clients
                         /\ Owned(param[s]) /\ Pg(param[s]) \in close_flag1
                         /\ downstream_id[param[s]] = s
  <2>1. \A s \in drained : s \in Slots /\ param[s] # NoClient /\ Pg(param[s]) \in close_flag1
    BY <1>0 DEF PInv, Flags, TypeOK
  <2> QED  BY <1>0, <2>1 DEF PInv, Connections, TypeOK
<1>2. TypeOK'
  <2>1. param' \in [Slots -> Clients \cup {NoClient}] /\ close_waiting' \subseteq Clients
    BY <1>0, <1>1 DEF TypeOK
  <2>2. i' \in 0 .. MaxPgOverlap /\ j' \in 0 .. MaxPgOverlap
    BY <1>0, CountAssumption
  <2>3. draining' \subseteq Slots /\ cut' \subseteq Slots
    BY <1>0 DEF TypeOK
  <2> QED  BY <1>0, <2>1, <2>2, <2>3 DEF TypeOK
<1>3. Live' = Live
  BY <1>0 DEF Live
<1>4. /\ \A p, m : Array(p, m)' = Array(p, m)
      /\ \A p : Unfinished(p)' = Unfinished(p)
      /\ \A c : Owned(c)' <=> Owned(c)
  BY <1>0 DEF Array, Unfinished, Owned, Pg, Mod
<1>5. Counts'
  BY <1>0, <1>3, <1>4 DEF PInv, Counts
<1>6. \A s \in Slots : param[s] # NoClient =>
        /\ param[s] \in Clients /\ Owned(param[s]) /\ param[s] \notin close_waiting
        /\ downstream_id[param[s]] = s
        /\ <<Pg(param[s]), Mod(param[s])>> \in allocated
  BY <1>0 DEF PInv, Connections, TypeOK
<1>7. \A s \in Slots : param'[s] # NoClient => s \notin drained /\ param'[s] = param[s]
  BY <1>0
<1>8. Connections'
  <2>1. ASSUME NEW s \in Slots, param'[s] # NoClient
        PROVE  /\ Owned(param[s])' /\ param'[s] \notin close_waiting'
               /\ downstream_id'[param'[s]] = s
               /\ <<Pg(param'[s]), Mod(param'[s])>> \in allocated'
    <3>1. s \notin drained /\ param'[s] = param[s]
      BY <1>7, <2>1
    <3>2. PICK c \in Clients : c = param[s]
      BY <1>6, <2>1, <3>1
    <3>3. Owned(c) /\ c \notin close_waiting /\ downstream_id[c] = s
          /\ <<Pg(c), Mod(c)>> \in allocated
      BY <1>6, <2>1, <3>1, <3>2
    <3>4. \A t \in drained : param[t] # c
      BY <1>1, <3>1, <3>3
    <3>5. Owned(param[s])'
      BY <1>4, <3>1, <3>2, <3>3, OwnedOf
    <3> QED  BY <1>0, <3>1, <3>2, <3>3, <3>4, <3>5
  <2>2. ASSUME NEW c \in Clients, Owned(c)', c \notin close_waiting'
        PROVE  param'[downstream_id'[c]] = c
    <3>1. Owned(c) /\ c \notin close_waiting
      BY <1>0, <1>4, <2>2
    <3>2. param[downstream_id[c]] = c /\ downstream_id[c] \in Slots
      BY <1>0, <3>1 DEF PInv, Connections, TypeOK
    <3>3. downstream_id[c] \notin drained
      BY <1>0, <2>2, <3>2
    <3> QED  BY <1>0, <3>2, <3>3
  <2>3. /\ \A c \in Clients : downstream_id'[c] # NoSlot <=> Owned(c)'
        /\ \A c \in Clients : Owned(c)' => <<Pg(c), Mod(c)>> \in allocated'
    BY <1>0, <1>4 DEF PInv, Connections
  <2> QED  BY <2>1, <2>2, <2>3 DEF Connections
<1>9. Flags'
  <2>1. \A c \in close_waiting' : Owned(c)' /\ Pg(c) \in close_flag1
    BY <1>0, <1>1, <1>4 DEF PInv, Flags
  <2>2. \A s \in draining' : param'[s] # NoClient /\ Pg(param'[s]) \in close_flag1
    <3>1. \A s \in draining : s \in Slots /\ param[s] # NoClient /\ Pg(param[s]) \in close_flag1
      BY <1>0 DEF PInv, Flags, TypeOK
    <3> QED  BY <1>0, <3>1
  <2>3. closed' \subseteq close_waiting' /\ cut' \subseteq draining'
    BY <1>0 DEF PInv, Flags
  <2>4. close_flag1 \subseteq Live /\ \A q \in close_flag1 : overdue[q] >= 0
    BY DEF PInv, Flags
  <2> QED  BY <1>0, <1>3, <2>1, <2>2, <2>3, <2>4 DEF Flags
<1>10. Pass' /\ Recorded'
  BY <1>0, <1>3 DEF PInv, Pass, Recorded
<1> QED  BY <1>2, <1>5, <1>8, <1>9, <1>10 DEF PInv

LEMMA InitInv ==
  Init => PInv
<1> SUFFICES ASSUME Init PROVE PInv
  OBVIOUS
<1> USE DEF Init
<1>1. TypeOK
  <2>1. /\ 0 \in 0 .. MaxPgOverlap /\ 0 \in 0 .. NModules /\ 0 \in 0 .. MaxAsk
        /\ 0 \in 0 .. CloseDelay /\ Never \in Never .. OutputDelay + 1
    BY CountAssumption, DelayAssumption DEF Never
  <2>2. NoModules \in [Modules -> 0 .. MaxAsk]
    BY <2>1 DEF NoModules
  <2> QED  BY <2>1, <2>2 DEF TypeOK
<1>2. Live = {}
  BY DEF Live
<1>3. \A p \in Pgs, m \in Modules : mod_refcount[p][m] = 0 /\ n_clients[p][m] = 0
  BY DEF NoModules
<1>4. Counts
  <2>1. n_pgos = Cardinality(Live)
    BY <1>2, FS_EmptySet
  <2>2. \A p \in Pgs, m \in Modules :
          /\ mod_refcount[p][m] > 0 =>
               p \in Live /\ mod_refcount[p][m] = Cardinality(Array(p, m) \ closed)
          /\ p \in Live \ close_flag1 => mod_refcount[p][m] = n_clients[p][m]
          /\ p \notin Live => n_clients[p][m] = 0
    BY <1>2, <1>3
  <2> QED  BY <1>2, <2>1, <2>2 DEF Counts
<1>5. \A c \in Clients : ~ Owned(c)
  BY <1>3, ClientParts DEF Owned
<1>6. Connections
  BY <1>5 DEF Connections
<1>7. Flags /\ Pass /\ Recorded
  BY <1>2 DEF Flags, Pass, Recorded
<1> QED  BY <1>1, <1>4, <1>6, <1>7 DEF PInv

LEMMA NextKeeps ==
  PInv /\ [Next]_vars => PInv'
<1> SUFFICES ASSUME PInv, [Next]_vars PROVE PInv'
  OBVIOUS
<1>1. ASSUME NEW p \in Pgs, NEW ask \in Asks, ProgChanged(p, ask) PROVE PInv'
  BY <1>1, ProgChangedKeeps
<1>2. CASE PrepareClose
  BY <1>2, PrepareCloseKeeps
<1>3. CASE CloseTos
  BY <1>3, CloseTosKeeps
<1>4. CASE Tick
  BY <1>4, TickKeeps
<1>5. CASE BeginOutput
  BY <1>5, BeginOutputKeeps
<1>6. ASSUME NEW p \in Pgs, NotDue(p) \/ NeitherClose(p) PROVE PInv'
  BY <1>6, NotDueKeeps
<1>7. ASSUME NEW p \in Pgs, Close1(p) PROVE PInv'
  BY <1>7, Close1Keeps
<1>8. ASSUME NEW p \in Pgs, Close2(p) PROVE PInv'
  BY <1>8, Close2Keeps
<1>9. CASE CheckReturns
  BY <1>9, CheckReturnsKeeps
<1>10. ASSUME NEW quiet \in SUBSET AskedToClose(j), CheckCloseCompleted(quiet) PROVE PInv'
  BY <1>10, CheckKeeps
<1>11. ASSUME NEW drained \in SUBSET draining, OutputBuf(drained) PROVE PInv'
  BY <1>11, OutputBufKeeps
<1>12. CASE UNCHANGED vars
  BY <1>12, StutterKeeps
<1>13. CASE Terminated
  BY <1>13, StutterKeeps DEF Terminated
<1>14. CASE Output
  BY <1>5, <1>6, <1>7, <1>8, <1>9, <1>10, <1>11, <1>14 DEF Output
<1> QED  BY <1>1, <1>2, <1>3, <1>4, <1>12, <1>13, <1>14 DEF Next

-----------------------------------------------------------------------------
(***************************************************************************)
(* What follows for every run of the outputs.                              *)
(***************************************************************************)

(* The inductive invariant holds in every state: the counts, the owners of *)
(* the downstreams, the flags of the clients and the passes of ts_output   *)
(* agree with each other.                                                  *)
THEOREM PInvAlways ==
  Spec => []PInv
BY InitInv, NextKeeps, PTL DEF Spec

(* Every variable of the outputs keeps its type: no count of               *)
(* core/ts_output.c goes below 0 or above the size of what it counts, and  *)
(* the loop of ts_output stays inside the array of programmes.             *)
THEOREM PgTypeCorrect ==
  Spec => []TypeOK
<1>1. PInv => TypeOK
  BY DEF PInv
<1> QED  BY <1>1, PInvAlways, PTL

(* n_pgos, the refcount of each programme and that of each of its modules  *)
(* are the numbers of what they count, at every step of every close.       *)
THEOREM EveryCountAgrees ==
  Spec => []CountsAgree
<1>1. PInv => CountsAgree
  <2>1. ASSUME PInv, NEW p \in Live
        PROVE  p \in Pgs
    BY DEF Live
  <2> QED  BY <2>1 DEF PInv, Counts, CountsAgree
<1> QED  BY <1>1, PInvAlways, PTL

(* A client the buffer has not closed is the one that its downstream is    *)
(* connected to, so that no downstream serves two clients.                 *)
THEOREM EveryClientOwns ==
  Spec => []OwnsDownstream
<1>1. ASSUME PInv
      PROVE  OwnsDownstream
  <2> SUFFICES ASSUME NEW p \in Live, NEW m \in Modules, NEW c \in Array(p, m),
                      mod_refcount[p][m] > 0, c \notin close_waiting
               PROVE  downstream_id[c] \in Slots /\ param[downstream_id[c]] = c
    BY DEF OwnsDownstream
  <2>1. p \in Pgs /\ n_clients[p][m] \in 0 .. MaxAsk
    BY <1>1 DEF Live, PInv, TypeOK
  <2>2. c \in Clients /\ Pg(c) = p /\ Mod(c) = m
    BY <2>1, ArrayIs, FirstIs
  <2>3. Owned(c)
    BY <2>2 DEF Owned
  <2> QED  BY <1>1, <2>2, <2>3 DEF PInv, Connections, TypeOK
<1> QED  BY <1>1, PInvAlways, PTL

(* The loop of ts_output finds every programme it counts on, a programme   *)
(* that begins finds a slot among the first n_pgos + 1, and what is        *)
(* recorded now is the one programme of which nothing is closed.           *)
THEOREM EverySlotIsRight ==
  Spec => []SlotsAgree
<1>1. ASSUME PInv
      PROVE  SearchesSucceed
  <2>0. /\ TypeOK /\ n_pgos = Cardinality(Live) /\ MaxPgOverlap \in Nat
        /\ Live \subseteq Pgs /\ Live \subseteq Nat
    BY <1>1, CountAssumption DEF PInv, Counts, Live, Pgs
  <2>1. ASSUME at = "loop", i < n_pgos
        PROVE  \E p \in Pgs : Found(p)
    <3> DEFINE R == {q \in Live : q >= j}
    <3>1. R \subseteq Live /\ R \subseteq Nat
      BY <2>0
    <3>2. i + Cardinality(R) >= n_pgos
      BY <1>1, <2>1 DEF PInv, Pass
    <3>3. Cardinality(R) # 0
      <4>1. i \in Int /\ n_pgos \in Int
        BY <2>0 DEF TypeOK
      <4> HIDE DEF R
      <4> QED  BY <2>1, <3>2, <4>1
    <3>4. R # {}
      BY <3>3, FS_EmptySet
    <3>5. \E p \in R : \A q \in R : p <= q
      <4> HIDE DEF R
      <4> QED  BY <3>1, <3>4, Least
    <3> QED  BY <2>0, <3>5 DEF Found
  <2>2. ASSUME n_pgos < MaxPgOverlap
        PROVE  \E p \in Pgs : FirstFree(p)
    <3> DEFINE Free == Pgs \ Live
    <3>1. Cardinality(Pgs) = MaxPgOverlap
      <4>1. 0 \in Int /\ MaxPgOverlap - 1 \in Int /\ MaxPgOverlap > 0
        BY CountAssumption
      <4>2. Cardinality(0 .. MaxPgOverlap - 1)
              = IF 0 > MaxPgOverlap - 1 THEN 0 ELSE MaxPgOverlap - 1 - 0 + 1
        BY <4>1, FS_Interval
      <4> QED  BY <2>0, <4>1, <4>2 DEF Pgs
    <3>2. Free # {}
      <4>1. Pgs # Live
        BY <2>0, <2>2, <3>1
      <4> QED  BY <2>0, <4>1
    <3>3. Free \subseteq Nat
      BY DEF Pgs
    <3>4. PICK p \in Free : \A q \in Free : p <= q
      <4> HIDE DEF Free
      <4> QED  BY <3>2, <3>3, Least
    <3>5. \A q \in 0 .. p - 1 : q \in Live
      <4> SUFFICES ASSUME NEW q \in 0 .. p - 1, q \notin Live PROVE FALSE
        OBVIOUS
      <4>1. p \in 0 .. MaxPgOverlap - 1
        BY DEF Pgs
      <4>2. q \in Free /\ q < p
        BY <2>0, <4>1 DEF Pgs
      <4>3. p <= q
        BY <3>4, <4>2
      <4> QED  BY <4>1, <4>2, <4>3
    <3>6. p <= n_pgos
      <4>1. p \in Nat /\ 0 \in Int /\ p - 1 \in Int
        BY <3>3
      <4>2. Cardinality(0 .. p - 1) = IF 0 > p - 1 THEN 0 ELSE p - 1 - 0 + 1
        BY <4>1, FS_Interval
      <4>3. Cardinality(0 .. p - 1) = p
        BY <4>1, <4>2
      <4>4. IsFiniteSet(Live)
        BY <2>0, LiveFacts
      <4>5. Cardinality(0 .. p - 1) <= Cardinality(Live)
        <5>1. 0 .. p - 1 \in SUBSET Live
          BY <3>5
        <5> QED  BY <4>4, <5>1, FS_Subset
      <4> QED  BY <2>0, <4>3, <4>5
    <3>7. refcount[p] = 0 /\ \A q \in 0 .. p - 1 : refcount[q] # 0
      BY <2>0, <3>5, LiveFacts
    <3>8. p \in Pgs /\ p \in 0 .. n_pgos
      <4>1. p \in Nat /\ n_pgos \in Int
        BY <2>0, <3>3 DEF TypeOK
      <4> QED  BY <3>6, <4>1
    <3> QED  BY <3>7, <3>8 DEF FirstFree
  <2> QED  BY <2>1, <2>2 DEF SearchesSucceed
<1>2. ASSUME PInv
      PROVE  OneIsRecorded
  <2> SUFFICES ASSUME phase = "running"
               PROVE  /\ curr_pgos # NoPg => curr_pgos \in Live
                      /\ \A p \in Live : overdue[p] = Never <=> p = curr_pgos
                      /\ \A c \in close_waiting : Pg(c) # curr_pgos
                      /\ \A s \in draining : Pg(param[s]) # curr_pgos
    BY DEF OneIsRecorded
  <2>1. /\ curr_pgos # NoPg => curr_pgos \in Live
        /\ \A p \in Live : overdue[p] = Never <=> p = curr_pgos
    BY <1>2 DEF PInv, Recorded
  <2>2. \A p \in close_flag1 : p # curr_pgos
    <3>1. ~ (Never >= 0)
      BY DelayAssumption DEF Never
    <3>2. \A p \in close_flag1 : p \in Live /\ overdue[p] # Never
      BY <1>2, <3>1 DEF PInv, Flags
    <3> QED  BY <2>1, <3>2
  <2> QED  BY <1>2, <2>1, <2>2 DEF PInv, Flags
<1>3. PInv => SlotsAgree
  BY <1>1, <1>2 DEF SlotsAgree
<1> QED  BY <1>3, PInvAlways, PTL

(* No downstream is told to finish, or cut off, for a programme whose time *)
(* has not come: the number that a client keeps of its downstream is not   *)
(* used when that downstream has been closed and given to another since.   *)
THEOREM OnlyTheLateAreDisconnected ==
  Spec => DisconnectsOnlyTheLate
<1> DEFINE New == (draining' \ draining) \cup (cut' \ cut)
           Due1(s) == param[s] # NoClient /\ overdue[Pg(param[s])] > 0
<1>1. ASSUME PInv, NEW p \in Pgs, Close1(p), NEW s \in New
      PROVE  Due1(s)
  <2>1. overdue[p] > 0 /\ cut' = cut
    BY <1>1 DEF Close1, Due
  <2> QED  BY <1>1, <2>1, Close1Draining
<1>2. ASSUME PInv, NEW p \in Pgs, Close2(p), NEW s \in New
      PROVE  Due1(s)
  <2>1. /\ overdue[p] > 0
        /\ draining' = draining \cup {downstream_id[c] : c \in StillConnected(p)}
        /\ cut' = cut \cup {downstream_id[c] : c \in StillConnected(p)}
    BY <1>2 DEF Close2, Due
  <2>2. PICK c \in StillConnected(p) : s = downstream_id[c]
    BY <2>1
  <2>3. param[s] = c /\ Pg(c) = p /\ c # NoClient
    BY <1>2, <2>2, StillConnectedHave, ClientParts
  <2> QED  BY <2>1, <2>3
<1>3. ASSUME NEW p \in Pgs, NotDue(p) \/ NeitherClose(p)
      PROVE  New = {}
  BY <1>3 DEF NotDue, NeitherClose, ab
<1>4. ASSUME NEW drained \in SUBSET draining, OutputBuf(drained)
      PROVE  New = {}
  BY <1>4 DEF OutputBuf
<1>5. ASSUME NEW quiet \in SUBSET AskedToClose(j), CheckCloseCompleted(quiet)
      PROVE  New = {}
  BY <1>5 DEF CheckCloseCompleted, ab
<1>6. BeginOutput \/ CheckReturns => New = {}
  BY DEF BeginOutput, CheckReturns, ab
<1>7. ASSUME NEW p \in Pgs, NEW ask \in Asks, ProgChanged(p, ask)
      PROVE  New = {}
  BY <1>7 DEF ProgChanged
<1>8. PrepareClose \/ CloseTos \/ Tick \/ Terminated => New = {}
  BY DEF PrepareClose, CloseTos, Tick, Terminated, ab, vars
<1>9. PInv /\ [Next]_vars => [\A s \in New : Due1(s)]_vars
  <2> SUFFICES ASSUME PInv, Next, NEW s \in New PROVE Due1(s)
    OBVIOUS
  <2> HIDE DEF New, Due1
  <2>1. CASE Output
    BY <1>1, <1>2, <1>3, <1>4, <1>5, <1>6, <2>1 DEF Output
  <2> QED  BY <1>7, <1>8, <2>1 DEF Next
<1> QED  BY <1>9, PInvAlways, PTL DEF Spec, DisconnectsOnlyTheLate

-----------------------------------------------------------------------------
(***************************************************************************)
(* When a module that asks for clients always gets one.  One that got none *)
(* would keep its client array, and nothing would ever free it: the code   *)
(* reports it, and asserts in do_pgoutput_close1 that there is none.       *)
(***************************************************************************)

(* Its first client is connected even where the other programmes have as   *)
(* many clients each as the modules ask for, n at the most.                *)
EnoughFor(n) ==
  \A p \in Pgs, ask \in Asks :
    /\ Cardinality(Asked(p, ask)) <= n
    /\ \A m \in Modules :
         ask[m] > 0 => (MaxPgOverlap - 1) * n + Rank(<<p, m, 0>>, ask) < MaxClients

Enough == \E n \in Nat : EnoughFor(n)

OwnedBy(p) == {c \in Clients : Pg(c) = p /\ Owned(c)}

Few(n) == \A p \in Pgs : Cardinality(OwnedBy(p)) <= n

AllGet == \A a \in allocated : mod_refcount[a[1]][a[2]] > 0

Over == phase = "closed" => n_pgos = 0 /\ at = "idle"

(* The programmes that are live have n clients each at the most.           *)
LEMMA FewInUse ==
  ASSUME PInv, NEW n \in Nat, Few(n), NEW p \in Pgs, p \notin Live
  PROVE  LET Taken == {s \in Slots : param[s] # NoClient}
         IN  /\ IsFiniteSet(Taken) /\ Cardinality(Taken) \in Nat
             /\ Cardinality(Taken) <= (MaxPgOverlap - 1) * n
<1> DEFINE Taken == {s \in Slots : param[s] # NoClient}
           All == {c \in Clients : Owned(c)}
           G(k) == {c \in Clients : Owned(c) /\ Pg(c) < k}
           Bound(k) == IF p < k THEN (k - 1) * n ELSE k * n
<1>0. MaxPgOverlap \in Nat /\ MaxPgOverlap > 0 /\ p \in 0 .. MaxPgOverlap - 1
  BY CountAssumption DEF Pgs
<1>1. \A T : T \subseteq Clients => IsFiniteSet(T) /\ Cardinality(T) \in Nat
  BY ClientsFinite, FS_Subset, FS_CardinalityType
<1>2. Cardinality(Taken) <= Cardinality(All) /\ IsFiniteSet(Taken)
  <2> DEFINE f == [s \in Taken |-> param[s]]
  <2>1. \A s \in Taken : param[s] \in All /\ downstream_id[param[s]] = s
    BY ParamIsOwned
  <2>2. f \in Injection(Taken, All)
    <3> HIDE DEF Taken, All
    <3> QED  BY <2>1 DEF Injection, IsInjective
  <2>3. IsFiniteSet(All)
    BY <1>1
  <2> HIDE DEF f, Taken, All
  <2> QED  BY <2>2, <2>3, FS_Injection
<1>3. ASSUME NEW k \in 0 .. MaxPgOverlap - 1, Cardinality(G(k)) <= Bound(k)
      PROVE  Cardinality(G(k + 1)) <= Bound(k + 1)
  <2> DEFINE Gk == G(k)
             O == OwnedBy(k)
             Gn == G(k + 1)
  <2>0. k \in Pgs /\ k \in Nat
    BY <1>0 DEF Pgs
  <2>1. Gn = Gk \cup O
    <3>1. \A c \in Clients : Pg(c) \in Int
      BY <1>0, ClientParts DEF Pgs
    <3>2. \A c \in Clients : Pg(c) < k + 1 <=> Pg(c) < k \/ Pg(c) = k
      BY <2>0, <3>1
    <3> QED  BY <3>2 DEF OwnedBy
  <2>2. /\ IsFiniteSet(Gk) /\ Cardinality(Gk) \in Nat
        /\ IsFiniteSet(O) /\ Cardinality(O) \in Nat
        /\ Cardinality(Gk \cap O) \in Nat /\ Cardinality(Gn) \in Nat
    <3>1. Gk \subseteq Clients /\ O \subseteq Clients /\ Gn \subseteq Clients
      BY DEF OwnedBy
    <3>2. Gk \cap O \subseteq Clients
      BY <3>1
    <3> HIDE DEF Gk, O, Gn
    <3> QED  BY <1>1, <3>1, <3>2
  <2>3. Cardinality(Gn) <= Cardinality(Gk) + Cardinality(O)
    <3>1. Cardinality(Gn) = Cardinality(Gk) + Cardinality(O) - Cardinality(Gk \cap O)
      <4> HIDE DEF Gk, O, Gn
      <4> QED  BY <2>1, <2>2, FS_Union
    <3> HIDE DEF Gk, O, Gn
    <3> QED  BY <2>2, <3>1
  <2>4. k = p => Cardinality(O) = 0
    <3>1. k = p => O = {}
      BY NothingOfTheDead DEF OwnedBy
    <3> HIDE DEF O
    <3> QED  BY <3>1, FS_EmptySet
  <2>5. Cardinality(O) <= n
    BY <2>0 DEF Few
  <2>6. k * n \in Int /\ (k + 1 - 1) * n = k * n /\ (k + 1) * n = k * n + n
        /\ (k - 1) * n \in Int /\ (k - 1) * n + n = k * n
    BY <2>0
  <2>7. p \in Int
    BY <1>0
  <2>8. Cardinality(Gk) <= (IF p < k THEN (k - 1) * n ELSE k * n)
    BY <1>3
  <2>9. Cardinality(Gn) <= (IF p < k + 1 THEN (k + 1 - 1) * n ELSE (k + 1) * n)
    <3> HIDE DEF Gk, O, Gn
    <3>1. CASE p < k
      <4>1. p < k + 1
        BY <2>0, <2>7, <3>1
      <4>2. Cardinality(Gk) <= (k - 1) * n
        BY <2>8, <3>1
      <4> QED  BY <2>2, <2>3, <2>5, <2>6, <4>1, <4>2
    <3>2. CASE p = k
      <4>1. p < k + 1 /\ ~ (p < k)
        BY <2>0, <3>2
      <4>2. Cardinality(Gk) <= k * n
        BY <2>8, <4>1
      <4> QED  BY <2>2, <2>3, <2>4, <2>6, <3>2, <4>1, <4>2
    <3>3. CASE p > k
      <4>1. ~ (p < k + 1) /\ ~ (p < k)
        BY <2>0, <2>7, <3>3
      <4>2. Cardinality(Gk) <= k * n
        BY <2>8, <4>1
      <4> QED  BY <2>2, <2>3, <2>5, <2>6, <4>1, <4>2
    <3> QED  BY <2>0, <2>7, <3>1, <3>2, <3>3
  <2> QED  BY <2>9
<1>4. Cardinality(G(0)) <= Bound(0)
  <2>1. \A c \in Clients : ~ (Pg(c) < 0)
    BY <1>0, ClientParts DEF Pgs
  <2>2. G(0) = {}
    BY <2>1
  <2>3. Cardinality(G(0)) = 0
    BY <2>2, FS_EmptySet
  <2>4. Bound(0) = 0
    BY <1>0
  <2> HIDE DEF G, Bound
  <2> QED  BY <2>3, <2>4
<1>5. Cardinality(G(MaxPgOverlap)) <= Bound(MaxPgOverlap)
  <2> DEFINE Bad == {k \in 0 .. MaxPgOverlap : ~ (Cardinality(G(k)) <= Bound(k))}
  <2> HIDE DEF G, Bound
  <2>1. Bad = {}
    <3> SUFFICES ASSUME Bad # {} PROVE FALSE
      OBVIOUS
    <3>1. Bad \subseteq Nat
      BY <1>0
    <3>2. PICK k \in Bad : \A l \in Bad : k <= l
      <4> HIDE DEF Bad
      <4> QED  BY <3>1, Least
    <3>3. k \in 0 .. MaxPgOverlap /\ k # 0
      BY <1>4
    <3>4. k - 1 \in 0 .. MaxPgOverlap - 1 /\ k - 1 \in 0 .. MaxPgOverlap /\ k - 1 + 1 = k
          /\ ~ (k <= k - 1)
      BY <1>0, <3>3
    <3>5. Cardinality(G(k - 1)) <= Bound(k - 1)
      BY <3>2, <3>4
    <3>6. Cardinality(G(k - 1 + 1)) <= Bound(k - 1 + 1)
      BY <1>3, <3>4, <3>5
    <3>7. ~ (Cardinality(G(k)) <= Bound(k))
      OBVIOUS
    <3> QED  BY <3>4, <3>6, <3>7
  <2>2. MaxPgOverlap \in 0 .. MaxPgOverlap
    BY <1>0
  <2> QED  BY <2>1, <2>2
<1>6. G(MaxPgOverlap) = All
  <2>1. \A c \in Clients : Pg(c) < MaxPgOverlap
    BY <1>0, ClientParts DEF Pgs
  <2> QED  BY <2>1
<1>7. Bound(MaxPgOverlap) = (MaxPgOverlap - 1) * n
  BY <1>0
<1>8. Cardinality(Taken) \in Nat /\ Cardinality(All) \in Nat
  <2>1. All \subseteq Clients
    OBVIOUS
  <2> HIDE DEF All, Taken
  <2> QED  BY <1>1, <1>2, <2>1, FS_CardinalityType
<1>9. Cardinality(Taken) <= (MaxPgOverlap - 1) * n
  <2>1. Cardinality(All) <= (MaxPgOverlap - 1) * n
    <3> HIDE DEF G, All, Bound
    <3> QED  BY <1>5, <1>6, <1>7
  <2>2. (MaxPgOverlap - 1) * n \in Int
    BY <1>0
  <2> HIDE DEF Taken, All
  <2> QED  BY <1>2, <1>8, <2>1, <2>2
<1> QED  BY <1>2, <1>8, <1>9

(* So a module that asks for clients gets one.                             *)
LEMMA EachGetsOne ==
  ASSUME PInv, NEW n \in Nat, EnoughFor(n), Few(n),
         NEW p \in Pgs, p \notin Live, NEW ask \in Asks, NEW m \in Modules, ask[m] > 0
  PROVE  NConnected(p, ask)[m] > 0
<1> DEFINE Taken == {s \in Slots : param[s] # NoClient}
           c == <<p, m, 0>>
<1>0. MaxClients \in Nat /\ MaxAsk \in Nat /\ ask[m] \in 0 .. MaxAsk
  BY CountAssumption
<1>1. c \in Asked(p, ask) /\ Mod(c) = m /\ Pg(c) = p
  <2>1. 0 \in 0 .. MaxAsk - 1
    BY <1>0
  <2> QED  BY <2>1 DEF Asked, Clients, Pg, Mod
<1>2. Rank(c, ask) \in Nat /\ (MaxPgOverlap - 1) * n + Rank(c, ask) < MaxClients
  BY <1>1, RankOrder DEF EnoughFor
<1>3. /\ IsFiniteSet(Slots) /\ Cardinality(Slots) = MaxClients
  <2>1. 0 \in Int /\ MaxClients - 1 \in Int
    BY <1>0
  <2>2. /\ IsFiniteSet(0 .. MaxClients - 1)
        /\ Cardinality(0 .. MaxClients - 1)
             = IF 0 > MaxClients - 1 THEN 0 ELSE MaxClients - 1 - 0 + 1
    BY <2>1, FS_Interval
  <2> QED  BY <1>0, <2>2 DEF Slots
<1>4. Cardinality(Taken) \in Nat /\ Cardinality(Taken) <= (MaxPgOverlap - 1) * n
  BY FewInUse
<1>5. FreeSlots = Slots \ Taken /\ Taken \subseteq Slots
  BY DEF FreeSlots
<1>6. Cardinality(FreeSlots) = MaxClients - Cardinality(Taken)
  <2> HIDE DEF Taken
  <2> QED  BY <1>3, <1>5, PartSizes
<1>7. Rank(c, ask) < Cardinality(FreeSlots)
  <2>1. (MaxPgOverlap - 1) * n \in Int
    BY CountAssumption
  <2> HIDE DEF Taken, c
  <2> QED  BY <1>0, <1>2, <1>4, <1>6, <2>1
<1>8. c \in Connected(p, ask)
  BY <1>1, <1>7 DEF Connected
<1>9. c \in First(p, m, NConnected(p, ask)[m])
  BY <1>1, <1>8, ConnectedAreFirst
<1> QED
  <2>1. NConnected(p, ask)[m] \in 0 .. MaxAsk
    BY ConnectedAreFirst
  <2> QED  BY <1>9, <2>1, FirstIs

HInv(n) == PInv /\ Over /\ AllGet /\ Few(n)

(* Only a programme that begins gets clients.                              *)
LEMMA OwnedShrinks ==
  ASSUME PInv, [Next]_vars,
         ~ \E p \in Pgs, ask \in Asks : ProgChanged(p, ask)
  PROVE  \A c \in Clients : Owned(c)' => Owned(c)
<1>1. UNCHANGED <<n_clients, mod_refcount>> => \A c \in Clients : Owned(c)' => Owned(c)
  BY DEF Owned, Array, Pg, Mod
<1>2. ASSUME NEW quiet \in SUBSET AskedToClose(j), CheckCloseCompleted(quiet)
      PROVE  \A c \in Clients : Owned(c)' => Owned(c)
  BY <1>2, CheckOwned
<1>3. ASSUME NEW p \in Pgs, NotDue(p) \/ NeitherClose(p) \/ Close1(p) \/ Close2(p)
      PROVE  UNCHANGED <<n_clients, mod_refcount>>
  BY <1>3 DEF NotDue, NeitherClose, Close1, Close2, mods
<1>4. ASSUME NEW drained \in SUBSET draining, OutputBuf(drained)
      PROVE  UNCHANGED <<n_clients, mod_refcount>>
  BY <1>4 DEF OutputBuf, mods
<1>5. BeginOutput \/ CheckReturns => UNCHANGED <<n_clients, mod_refcount>>
  BY DEF BeginOutput, CheckReturns, mods
<1>6. PrepareClose \/ CloseTos \/ Tick \/ Terminated \/ UNCHANGED vars
        => UNCHANGED <<n_clients, mod_refcount>>
  BY DEF PrepareClose, CloseTos, Tick, Terminated, mods, vars
<1>7. CASE Output
  BY <1>1, <1>2, <1>3, <1>4, <1>5, <1>7 DEF Output
<1> QED  BY <1>1, <1>6, <1>7 DEF Next

LEMMA FewKept ==
  ASSUME PInv, NEW n \in Nat, EnoughFor(n), Few(n), [Next]_vars
  PROVE  Few(n)'
<1> SUFFICES ASSUME NEW q \in Pgs PROVE Cardinality(OwnedBy(q)') <= n
  BY DEF Few, OwnedBy, Pg
<1>0. \A T : T \subseteq Clients => IsFiniteSet(T) /\ Cardinality(T) \in Nat
  BY ClientsFinite, FS_Subset, FS_CardinalityType
<1>1. OwnedBy(q) \subseteq Clients /\ OwnedBy(q)' \subseteq Clients
  BY DEF OwnedBy
<1>2. Cardinality(OwnedBy(q)) <= n
  BY DEF Few
<1>3. OwnedBy(q)' = {c \in Clients : Pg(c) = q /\ Owned(c)'}
  BY DEF OwnedBy, Pg
<1>4. ASSUME OwnedBy(q)' \subseteq OwnedBy(q)
      PROVE  Cardinality(OwnedBy(q)') <= n
  <2>1. Cardinality(OwnedBy(q)') <= Cardinality(OwnedBy(q))
    BY <1>0, <1>1, <1>4, FS_Subset
  <2>2. Cardinality(OwnedBy(q)') \in Nat /\ Cardinality(OwnedBy(q)) \in Nat
    BY <1>0, <1>1
  <2> QED  BY <1>2, <2>1, <2>2
<1>5. ASSUME NEW p \in Pgs, NEW ask \in Asks, ProgChanged(p, ask)
      PROVE  Cardinality(OwnedBy(q)') <= n
  <2>1. CASE q # p
    <3>1. OwnedBy(q)' \subseteq OwnedBy(q)
      BY <1>3, <1>5, <2>1, ProgChangedOwned DEF OwnedBy
    <3> QED  BY <1>4, <3>1
  <2>2. CASE q = p
    <3>1. OwnedBy(q)' \subseteq Asked(p, ask)
      BY <1>3, <1>5, <2>2, ProgChangedOwned DEF Connected
    <3>2. Asked(p, ask) \subseteq Clients
      BY DEF Asked
    <3>3. Cardinality(OwnedBy(q)') <= Cardinality(Asked(p, ask))
      BY <1>0, <3>1, <3>2, FS_Subset
    <3>4. Cardinality(Asked(p, ask)) <= n
      BY DEF EnoughFor
    <3>5. Cardinality(OwnedBy(q)') \in Nat /\ Cardinality(Asked(p, ask)) \in Nat
      BY <1>0, <1>1, <3>2
    <3> QED  BY <3>3, <3>4, <3>5
  <2> QED  BY <2>1, <2>2
<1>6. CASE ~ \E p \in Pgs, ask \in Asks : ProgChanged(p, ask)
  <2>1. OwnedBy(q)' \subseteq OwnedBy(q)
    BY <1>3, <1>6, OwnedShrinks DEF OwnedBy
  <2> QED  BY <1>4, <2>1
<1> QED  BY <1>5, <1>6

LEMMA AllGetKept ==
  ASSUME PInv, NEW n \in Nat, EnoughFor(n), Few(n), AllGet, [Next]_vars
  PROVE  AllGet'
<1>0. \A a \in allocated : /\ a[1] \in Pgs /\ a[2] \in Modules /\ a = <<a[1], a[2]>>
                           /\ mod_refcount[a[1]][a[2]] > 0
  BY DEF PInv, TypeOK, AllGet
<1>1. allocated' \subseteq allocated /\ mod_refcount' = mod_refcount => AllGet'
  BY DEF AllGet
<1>2. ASSUME NEW p \in Pgs, NEW ask \in Asks, ProgChanged(p, ask)
      PROVE  AllGet'
  <2> SUFFICES ASSUME NEW a \in allocated' PROVE mod_refcount'[a[1]][a[2]] > 0
    BY DEF AllGet
  <2>0. p \notin Live /\ mod_refcount'[p] = NConnected(p, ask)
    BY <1>2, ProgChangedType
  <2>1. CASE a \in allocated
    <3>1. mod_refcount[a[1]][a[2]] > 0 /\ a[1] \in Pgs /\ a[2] \in Modules
      BY <1>0, <2>1
    <3>2. mod_refcount[a[1]][a[2]] # 0
      BY <3>1
    <3>3. a[1] # p
      BY <2>0, <3>1, <3>2, NothingOfTheDead
    <3>4. mod_refcount'[a[1]] = mod_refcount[a[1]]
      BY <1>2, <3>1, <3>3, ProgChangedType
    <3> QED  BY <3>1, <3>4
  <2>2. CASE a \notin allocated
    <3>1. PICK m \in Modules : ask[m] > 0 /\ a = <<p, m>>
      BY <1>2, <2>2 DEF ProgChanged
    <3>2. NConnected(p, ask)[m] > 0
      BY <2>0, <3>1, EachGetsOne
    <3> QED  BY <2>0, <3>1, <3>2
  <2> QED  BY <2>1, <2>2
<1>3. ASSUME NEW quiet \in SUBSET AskedToClose(j), CheckCloseCompleted(quiet)
      PROVE  AllGet'
  <2> SUFFICES ASSUME NEW p, p = j PROVE AllGet'
    OBVIOUS
  <2> SUFFICES ASSUME NEW a \in allocated' PROVE mod_refcount'[a[1]][a[2]] > 0
    BY DEF AllGet
  <2>1. a \in allocated /\ ~ (a[1] = p /\ a[2] \in Completing(p, quiet))
    <3>1. allocated' = allocated \ {<<p, m>> : m \in Completing(p, quiet)}
      BY <1>3, CheckFlags
    <3> QED  BY <1>0, <3>1
  <2>2. a[1] \in Pgs /\ a[2] \in Modules /\ mod_refcount[a[1]][a[2]] > 0
    BY <1>0, <2>1
  <2>3. CASE a[1] # p
    <3>1. mod_refcount'[a[1]] = mod_refcount[a[1]]
      BY <1>3, <2>2, <2>3, CheckDoes
    <3> QED  BY <2>2, <3>1
  <2>4. CASE a[1] = p
    <3>1. ModRef(p, quiet)[a[2]] \in 0 .. MaxAsk
      BY <2>2, <2>4, ModRefIs
    <3>2. ~ (ModRef(p, quiet)[a[2]] <= 0)
      BY <2>1, <2>2, <2>4 DEF Completing
    <3>3. ModRef(p, quiet)[a[2]] > 0
      BY <3>1, <3>2, CountAssumption
    <3>4. mod_refcount'[p] = ModRef(p, quiet)
      BY <1>3, CheckDoes
    <3> QED  BY <2>4, <3>3, <3>4
  <2> QED  BY <2>3, <2>4
<1>4. ASSUME NEW p \in Pgs, NotDue(p) \/ NeitherClose(p) \/ Close1(p) \/ Close2(p)
      PROVE  allocated' \subseteq allocated /\ mod_refcount' = mod_refcount
  BY <1>4 DEF NotDue, NeitherClose, Close1, Close2, mods
<1>5. ASSUME NEW drained \in SUBSET draining, OutputBuf(drained)
      PROVE  allocated' = allocated /\ mod_refcount' = mod_refcount
  BY <1>5 DEF OutputBuf, mods
<1>6. BeginOutput \/ CheckReturns => allocated' = allocated /\ mod_refcount' = mod_refcount
  BY DEF BeginOutput, CheckReturns, mods
<1>7. PrepareClose \/ CloseTos \/ Tick \/ Terminated \/ UNCHANGED vars
        => allocated' = allocated /\ mod_refcount' = mod_refcount
  BY DEF PrepareClose, CloseTos, Tick, Terminated, mods, vars
<1>8. CASE Output
  BY <1>1, <1>3, <1>4, <1>5, <1>6, <1>8 DEF Output
<1> QED  BY <1>1, <1>2, <1>7, <1>8 DEF Next

(* When the outputs are closed, the loop that waits has found n_pgos 0.    *)
LEMMA OverKept ==
  ASSUME Over, [Next]_vars
  PROVE  Over'
<1>1. ASSUME NEW p \in Pgs, NEW ask \in Asks, ProgChanged(p, ask)
      PROVE  Over'
  BY <1>1 DEF ProgChanged, Over
<1>2. PrepareClose \/ CloseTos \/ Tick \/ Terminated \/ UNCHANGED vars => Over'
  BY DEF PrepareClose, CloseTos, Tick, Terminated, Over, vars, tos, loop
<1>3. CASE Output
  <2>1. phase' = phase /\ phase # "closed"
    <3>1. ASSUME NEW p \in Pgs, NotDue(p) \/ NeitherClose(p) \/ Close1(p) \/ Close2(p)
          PROVE  phase' = phase /\ phase # "closed"
      BY <3>1 DEF NotDue, NeitherClose, Close1, Close2, At, tos, Over
    <3>2. ASSUME NEW quiet \in SUBSET AskedToClose(j), CheckCloseCompleted(quiet)
          PROVE  phase' = phase /\ phase # "closed"
      BY <3>2 DEF CheckCloseCompleted, Over
    <3>3. ASSUME NEW drained \in SUBSET draining, OutputBuf(drained)
          PROVE  phase' = phase /\ phase # "closed"
      BY <3>3 DEF OutputBuf, tos, Over
    <3>4. BeginOutput \/ CheckReturns => phase' = phase /\ phase # "closed"
      BY DEF BeginOutput, CheckReturns, tos, Over
    <3> QED  BY <1>3, <3>1, <3>2, <3>3, <3>4 DEF Output
  <2> QED  BY <2>1 DEF Over
<1> QED  BY <1>1, <1>2, <1>3 DEF Next

(* A module is told that its client's buffer is closed while it has that   *)
(* client, and once only; and when the outputs are over, all that was      *)
(* allocated for the modules has been freed.                               *)
THEOREM HandlersAreServed ==
  ASSUME Enough
  PROVE  Spec => []HandlersHaveClients
<1>0. PICK n \in Nat : EnoughFor(n)
  BY DEF Enough
<1>1. Init => HInv(n)
  <2> SUFFICES ASSUME Init PROVE HInv(n)
    OBVIOUS
  <2>1. PInv
    BY InitInv
  <2>2. \A p \in Pgs : OwnedBy(p) = {}
    <3>1. Live = {}
      BY DEF Init, Live
    <3> QED  BY <2>1, <3>1, NothingOfTheDead DEF OwnedBy
  <2>3. \A p \in Pgs : Cardinality(OwnedBy(p)) = 0
    BY <2>2, FS_EmptySet
  <2>4. Few(n)
    BY <1>0, <2>3 DEF Few
  <2> QED  BY <2>1, <2>4 DEF Init, HInv, Over, AllGet
<1>2. HInv(n) /\ [Next]_vars => HInv(n)'
  BY <1>0, NextKeeps, OverKept, AllGetKept, FewKept DEF HInv
<1>3. ASSUME HInv(n)
      PROVE  HandlersHaveClients
  <2>0. PInv /\ Over /\ AllGet
    BY <1>3 DEF HInv
  <2>1. ASSUME NEW s \in Slots, param[s] # NoClient, NEW c, c = param[s]
        PROVE  /\ <<Pg(c), Mod(c)>> \in allocated
               /\ c \in Array(Pg(c), Mod(c))
               /\ mod_refcount[Pg(c)][Mod(c)] > 0
               /\ refcount[Pg(c)] > 0
               /\ c \notin close_waiting
               /\ c \notin closed
    <3>1. /\ c \in Clients /\ Owned(c) /\ c \notin close_waiting
          /\ <<Pg(c), Mod(c)>> \in allocated
      BY <2>0, <2>1 DEF PInv, Connections, TypeOK
    <3>2. c \in Array(Pg(c), Mod(c)) /\ mod_refcount[Pg(c)][Mod(c)] > 0
      BY <3>1 DEF Owned
    <3>3. Pg(c) \in Live
      BY <2>0, <3>1, <3>2, ClientParts DEF PInv, Counts
    <3>4. c \notin closed
      BY <2>0, <3>1 DEF PInv, Flags
    <3> QED  BY <3>1, <3>2, <3>3, <3>4 DEF Live
  <2>2. ASSUME phase = "closed"
        PROVE  allocated = {} /\ \A s \in Slots : param[s] = NoClient
    <3>1. Live = {}
      <4>1. Cardinality(Live) = 0 /\ IsFiniteSet(Live)
        BY <2>0, <2>2, LiveFacts DEF PInv, Counts, Over
      <4> QED  BY <4>1, FS_EmptySet
    <3>2. \A p \in Pgs, m \in Modules : ~ (mod_refcount[p][m] > 0)
      BY <2>0, <3>1 DEF PInv, Counts
    <3>3. \A a \in allocated : a[1] \in Pgs /\ a[2] \in Modules
      BY <2>0 DEF PInv, TypeOK
    <3>4. allocated = {}
      BY <2>0, <3>2, <3>3 DEF AllGet
    <3>5. \A s \in Slots : param[s] # NoClient => param[s] \in Clients /\ Owned(param[s])
      BY <2>0 DEF PInv, Connections, TypeOK
    <3> QED  BY <3>2, <3>4, <3>5, ClientParts DEF Owned
  <2> QED  BY <2>1, <2>2 DEF HandlersHaveClients
<1>4. HInv(n) => HandlersHaveClients
  BY <1>3
<1> QED  BY <1>1, <1>2, <1>4, PTL DEF Spec

=============================================================================
