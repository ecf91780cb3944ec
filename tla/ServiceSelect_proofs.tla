------------------------ MODULE ServiceSelect_proofs ------------------------
(***************************************************************************)
(* That every service asked for has its output, gets all that is its own   *)
(* and nothing that is known to be only others', and gets it in order with *)
(* a PAT of its own: for any number of services and streams, any PATs and  *)
(* requests, and any number of packets received at a time.                 *)
(*                                                                         *)
(* What the loops of main_loop, pat_handler, create_tos_per_service and    *)
(* copy_current_service_packet compute is said for their first m turns and *)
(* shown by induction on m (Climbing).                                     *)
(***************************************************************************)
EXTENDS ServiceSelect, FiniteSetTheorems, SequenceTheorems, WellFoundedInduction, TLAPS

-----------------------------------------------------------------------------
(***************************************************************************)
(* Induction up to a bound.                                                *)
(***************************************************************************)

(* A set of naturals that is not empty has a first element.                *)
LEMMA FirstOne ==
  ASSUME NEW T, T \subseteq Nat, T # {}
  PROVE  \E x \in T : \A y \in T : x <= y
<1> DEFINE R == OpToRel(<, Nat)
<1>1. IsWellFoundedOn(R, Nat)
  BY NatLessThanWellFounded
<1>2. \A x, y \in Nat : <<y, x>> \in R <=> y < x
  BY DEF OpToRel
<1> HIDE DEF R
<1>3. PICK x \in T : \A y \in T : ~ (<<y, x>> \in R)
  BY <1>1, WFMin
<1>4. ASSUME NEW y \in T PROVE x <= y
  <2>1. x \in Nat /\ y \in Nat /\ ~ (y < x)
    BY <1>2, <1>3
  <2> QED  BY <2>1
<1> QED  BY <1>4

(* What holds at 0, and at m + 1 if at m, holds up to n.                   *)
LEMMA Climbing ==
  ASSUME NEW n \in Nat, NEW T, 0 \in T,
         \A m \in 0 .. n : m < n /\ m \in T => m + 1 \in T
  PROVE  \A m \in 0 .. n : m \in T
<1> DEFINE U == {m \in 0 .. n : m \notin T}
<1> SUFFICES ASSUME U # {} PROVE FALSE
  OBVIOUS
<1>1. PICK x \in U : \A y \in U : x <= y
  <2>1. U \subseteq Nat
    OBVIOUS
  <2> HIDE DEF U
  <2> QED  BY <2>1, FirstOne
<1>2. x \in 0 .. n /\ x \notin T /\ x # 0
  OBVIOUS
<1>3. x - 1 \in 0 .. n /\ x - 1 < n /\ ~ (x <= x - 1)
  BY <1>2
<1>4. x - 1 \in T
  BY <1>1, <1>3
<1>5. x - 1 + 1 = x
  BY <1>2
<1> QED  BY <1>2, <1>3, <1>4, <1>5

-----------------------------------------------------------------------------
(***************************************************************************)
(* What is received, and the list of services.                             *)
(***************************************************************************)

Pat(pat)     == [kind |-> "PAT", entries |-> <<Nit>> \o pat, of |-> {}]
Pmt(s, x)    == [kind |-> "PMT", service |-> s, streams |-> x, of |-> {s}]
Stream(p, o) == [kind |-> "stream", pid |-> p, of |-> o]

Packets ==
  {Pat(pat) : pat \in Pats}
    \cup {Pmt(s, x) : s \in Services, x \in SUBSET Streams}
    \cup {Stream(p, o) : p \in Streams, o \in SUBSET Services}

(* A PMT says nothing that was not on the air.                             *)
Backed(packet) ==
  packet.kind = "PMT" => \A p \in packet.streams : packet.service \in users[p]

Entries ==
  [service_id : Services, service_pids : SUBSET (Streams \cup Services),
   last_pmt : {<<>>} \cup {<<x>> : x \in SUBSET Streams}]

(* No service is twice in the list; one that had a PMT has the PIDs that   *)
(* its last PMT said, and none that is not a stream it has had.  Before    *)
(* its first PMT nothing is said of its PIDs.                              *)
Sound(l) ==
  /\ l \in Seq(Entries)
  /\ Len(l) <= MaxServices
  /\ \A i, j \in DOMAIN l : l[i].service_id = l[j].service_id => i = j
  /\ \A i \in DOMAIN l : l[i].last_pmt # <<>> =>
       /\ l[i].last_pmt = <<l[i].service_pids>>
       /\ \A p \in l[i].service_pids : p \in Streams /\ l[i].service_id \in users[p]

(* pat_handler, for the first m entries of a PAT.                          *)
IsListing(f, e, leftover, m) ==
  f = [i \in 0 .. m |->
         IF i = 0 THEN <<>>
         ELSE IF Len(f[i - 1]) < MaxServices /\ e[i] # Nit
              THEN Append(f[i - 1], Entry(e[i], leftover[Len(f[i - 1]) + 1]))
              ELSE f[i - 1]]

LEMMA Listing ==
  ASSUME NEW e, Len(e) \in Nat, NEW leftover
  PROVE  \E f : /\ f[0] = <<>>
                /\ \A i \in 1 .. Len(e) :
                     f[i] = IF Len(f[i - 1]) < MaxServices /\ e[i] # Nit
                            THEN Append(f[i - 1], Entry(e[i], leftover[Len(f[i - 1]) + 1]))
                            ELSE f[i - 1]
                /\ Listed(e, leftover) = f[Len(e)]
<1> DEFINE T == {m \in 0 .. Len(e) : \E f : IsListing(f, e, leftover, m)}
<1>1. 0 \in T
  <2>1. IsListing([i \in 0 .. 0 |-> <<>>], e, leftover, 0)
    BY DEF IsListing
  <2> QED  BY <2>1
<1>2. ASSUME NEW m \in 0 .. Len(e), m < Len(e), m \in T
      PROVE  m + 1 \in T
  <2>1. PICK f : IsListing(f, e, leftover, m)
    BY <1>2
  <2> DEFINE last == IF Len(f[m]) < MaxServices /\ e[m + 1] # Nit
                     THEN Append(f[m], Entry(e[m + 1], leftover[Len(f[m]) + 1])) ELSE f[m]
             g == [i \in 0 .. m + 1 |-> IF i = m + 1 THEN last ELSE f[i]]
  <2>2. \A i \in 0 .. m : f[i] = IF i = 0 THEN <<>>
                                 ELSE IF Len(f[i - 1]) < MaxServices /\ e[i] # Nit
                                      THEN Append(f[i - 1], Entry(e[i], leftover[Len(f[i - 1]) + 1]))
                                      ELSE f[i - 1]
    BY <2>1 DEF IsListing
  <2>3. \A i \in 0 .. m : g[i] = f[i]
    OBVIOUS
  <2>4. g[m + 1] = last /\ m + 1 # 0 /\ m + 1 - 1 = m
    OBVIOUS
  <2>5. \A i \in 0 .. m + 1 : i # m + 1 => i \in 0 .. m /\ (i # 0 => i - 1 \in 0 .. m)
    OBVIOUS
  <2>6. g[m] = f[m]
    BY <2>3
  <2>7. g = [i \in 0 .. m + 1 |-> g[i]]
    OBVIOUS
  <2> HIDE DEF g
  <2>8. ASSUME NEW i \in 0 .. m + 1
        PROVE  g[i] = IF i = 0 THEN <<>>
                      ELSE IF Len(g[i - 1]) < MaxServices /\ e[i] # Nit
                           THEN Append(g[i - 1], Entry(e[i], leftover[Len(g[i - 1]) + 1]))
                           ELSE g[i - 1]
    <3>1. CASE i = m + 1
      BY <2>4, <2>6, <3>1
    <3>2. CASE i # m + 1
      <4>1. i \in 0 .. m /\ g[i] = f[i]
        BY <2>3, <2>5, <3>2
      <4>2. i # 0 => g[i - 1] = f[i - 1]
        BY <2>3, <2>5, <3>2
      <4> QED  BY <2>2, <4>1, <4>2
    <3> QED  BY <3>1, <3>2
  <2>9. IsListing(g, e, leftover, m + 1)
    BY <2>7, <2>8 DEF IsListing
  <2>10. m + 1 \in 0 .. Len(e)
    BY <1>2
  <2> QED  BY <2>9, <2>10
<1>3. Len(e) \in T
  <2> HIDE DEF T
  <2>1. \A m \in 0 .. Len(e) : m \in T
    BY <1>1, <1>2, Climbing
  <2>2. Len(e) \in 0 .. Len(e)
    OBVIOUS
  <2> QED  BY <2>1, <2>2
<1>4. PICK h : h = CHOOSE f : IsListing(f, e, leftover, Len(e))
  OBVIOUS
<1>5. IsListing(h, e, leftover, Len(e))
  BY <1>3, <1>4
<1>6. Listed(e, leftover) = h[Len(e)]
  BY <1>4, Zenon DEF Listed, IsListing
<1>7. h[0] = <<>>
  BY <1>5 DEF IsListing
<1>8. \A i \in 1 .. Len(e) :
        h[i] = IF Len(h[i - 1]) < MaxServices /\ e[i] # Nit
               THEN Append(h[i - 1], Entry(e[i], leftover[Len(h[i - 1]) + 1]))
               ELSE h[i - 1]
  <2> SUFFICES ASSUME NEW i \in 1 .. Len(e)
               PROVE  h[i] = IF Len(h[i - 1]) < MaxServices /\ e[i] # Nit
                             THEN Append(h[i - 1], Entry(e[i], leftover[Len(h[i - 1]) + 1]))
                             ELSE h[i - 1]
    OBVIOUS
  <2>1. i \in 0 .. Len(e) /\ i # 0
    OBVIOUS
  <2>2. h[i] = IF i = 0 THEN <<>>
               ELSE IF Len(h[i - 1]) < MaxServices /\ e[i] # Nit
                    THEN Append(h[i - 1], Entry(e[i], leftover[Len(h[i - 1]) + 1]))
                    ELSE h[i - 1]
    BY <1>5, <2>1 DEF IsListing
  <2> QED  BY <2>1, <2>2
<1> QED  BY <1>6, <1>7, <1>8

(* The entries of a PAT, the NIT's included.                               *)
LEMMA PatEntries ==
  ASSUME NEW pat \in Pats
  PROVE  LET e == <<Nit>> \o pat
         IN  /\ e \in Seq(Services \cup {Nit})
             /\ Len(e) \in Nat /\ Len(e) >= 2
             /\ e[1] = Nit /\ e[2] \in Services
             /\ \A k \in 2 .. Len(e) : e[k] \in Services
             /\ \A k, l \in 2 .. Len(e) : e[k] = e[l] => k = l
<1>1. pat \in Seq(Services) /\ pat # <<>>
  BY ServiceSelectAssumption DEF ServiceSelectAssumption
<1>2. Len(pat) \in Nat /\ Len(pat) >= 1 /\ \A k \in 1 .. Len(pat) : pat[k] \in Services
  BY <1>1, EmptySeq
<1>3. \A k, l \in 1 .. Len(pat) : pat[k] = pat[l] => k = l
  BY <1>1, ServiceSelectAssumption DEF ServiceSelectAssumption
<1> DEFINE e == <<Nit>> \o pat
<1>4. e \in Seq(Services \cup {Nit}) /\ Len(e) = Len(pat) + 1 /\ e[1] = Nit
  BY <1>1, <1>2
<1>5. \A k \in 2 .. Len(e) : k - 1 \in 1 .. Len(pat) /\ e[k] = pat[k - 1]
  BY <1>1, <1>2, <1>4
<1> HIDE DEF e
<1>6. \A k \in 2 .. Len(e) : e[k] \in Services
  BY <1>2, <1>5
<1>7. \A k, l \in 2 .. Len(e) : e[k] = e[l] => k = l
  <2> SUFFICES ASSUME NEW k \in 2 .. Len(e), NEW l \in 2 .. Len(e), e[k] = e[l]
               PROVE  k = l
    OBVIOUS
  <2>1. k - 1 = l - 1
    BY <1>3, <1>5
  <2> QED  BY <1>2, <1>4, <2>1
<1>8. Len(e) \in Nat /\ Len(e) >= 2 /\ 2 \in 2 .. Len(e)
  BY <1>2, <1>4
<1>9. e[2] \in Services
  BY <1>6, <1>8
<1> QED  BY <1>4, <1>6, <1>7, <1>8, <1>9 DEF e

(* The list made of a PAT is sound, and has a service in it.               *)
LEMMA ListedFacts ==
  ASSUME NEW pat \in Pats, NEW leftover \in Leftovers
  PROVE  /\ Sound(Listed(<<Nit>> \o pat, leftover))
         /\ Listed(<<Nit>> \o pat, leftover) # <<>>
<1>1. PICK e : e = <<Nit>> \o pat
  OBVIOUS
<1>2. /\ Len(e) \in Nat /\ Len(e) >= 2
      /\ e[1] = Nit /\ e[2] \in Services
      /\ \A k \in 2 .. Len(e) : e[k] \in Services
      /\ \A k, l \in 2 .. Len(e) : e[k] = e[l] => k = l
  BY <1>1, PatEntries
<1>3. PICK f : /\ f[0] = <<>>
               /\ \A i \in 1 .. Len(e) :
                    f[i] = IF Len(f[i - 1]) < MaxServices /\ e[i] # Nit
                           THEN Append(f[i - 1], Entry(e[i], leftover[Len(f[i - 1]) + 1]))
                           ELSE f[i - 1]
               /\ Listed(e, leftover) = f[Len(e)]
  BY <1>2, Listing
<1>4. /\ Nit \notin Services /\ MaxServices \in Nat \ {0}
      /\ leftover \in [1 .. MaxServices -> SUBSET (Streams \cup Services)]
  BY ServiceSelectAssumption DEF ServiceSelectAssumption
<1> DEFINE Held == SUBSET (Streams \cup Services)
           IsIn(l, m) == \A j \in DOMAIN l :
                           \E k \in 2 .. Len(e), x \in Held : k <= m /\ l[j] = Entry(e[k], x)
           Distinct(l) == \A i, j \in DOMAIN l : l[i].service_id = l[j].service_id => i = j
           T == {m \in 0 .. Len(e) :
                   /\ f[m] \in Seq(Entries) /\ Len(f[m]) <= MaxServices
                   /\ IsIn(f[m], m) /\ Distinct(f[m])
                   /\ m >= 2 => f[m] # <<>>}
<1>5. \A k \in 2 .. Len(e), x \in Held :
        Entry(e[k], x) \in Entries /\ Entry(e[k], x).service_id = e[k]
  BY <1>2 DEF Entry, Entries
<1>6. 0 \in T
  <2>1. /\ 0 \in 0 .. Len(e) /\ <<>> \in Seq(Entries) /\ Len(<<>>) = 0 /\ DOMAIN <<>> = {}
        /\ 0 <= MaxServices /\ ~ (0 >= 2)
    BY <1>2, <1>4
  <2>2. IsIn(<<>>, 0) /\ Distinct(<<>>)
    BY <2>1
  <2> HIDE DEF IsIn, Distinct
  <2> QED  BY <1>3, <2>1, <2>2
<1>7. ASSUME NEW m \in 0 .. Len(e), m < Len(e), m \in T
      PROVE  m + 1 \in T
  <2>1. m + 1 \in 1 .. Len(e) /\ m + 1 - 1 = m /\ m + 1 \in 0 .. Len(e)
    BY <1>2, <1>7
  <2>2. f[m + 1] = IF Len(f[m]) < MaxServices /\ e[m + 1] # Nit
                   THEN Append(f[m], Entry(e[m + 1], leftover[Len(f[m]) + 1])) ELSE f[m]
    BY <1>3, <2>1
  <2>3. /\ f[m] \in Seq(Entries) /\ Len(f[m]) <= MaxServices
        /\ IsIn(f[m], m) /\ Distinct(f[m]) /\ (m >= 2 => f[m] # <<>>)
    BY <1>7
  <2>4. CASE Len(f[m]) < MaxServices /\ e[m + 1] # Nit
    <3>1. m + 1 \in 2 .. Len(e)
      BY <1>2, <2>1, <2>4
    <3>2. PICK l : l = f[m]
      OBVIOUS
    <3>3. PICK held \in Held : held = leftover[Len(l) + 1]
      <4>1. Len(l) \in Nat /\ Len(l) < MaxServices
        BY <2>3, <2>4, <3>2
      <4>2. Len(l) + 1 \in 1 .. MaxServices
        BY <1>4, <4>1
      <4> QED  BY <1>4, <4>2
    <3>4. PICK x : x = Entry(e[m + 1], held)
      OBVIOUS
    <3>5. x \in Entries /\ x.service_id = e[m + 1]
      BY <1>5, <3>1, <3>4
    <3>6. PICK n : n = Append(l, x)
      OBVIOUS
    <3>7. /\ l \in Seq(Entries) /\ Len(l) \in Nat /\ n \in Seq(Entries)
          /\ Len(n) = Len(l) + 1 /\ DOMAIN n = 1 .. Len(l) + 1 /\ DOMAIN l = 1 .. Len(l)
          /\ n[Len(l) + 1] = x /\ \A j \in 1 .. Len(l) : n[j] = l[j]
      BY <2>3, <3>5, <3>2, <3>6
    <3>8. IsIn(n, m + 1)
      <4> SUFFICES ASSUME NEW j \in DOMAIN n
                   PROVE  \E k \in 2 .. Len(e), y \in Held : k <= m + 1 /\ n[j] = Entry(e[k], y)
        OBVIOUS
      <4>1. CASE j = Len(l) + 1
        <5>1. n[j] = Entry(e[m + 1], held)
          BY <3>4, <3>7, <4>1
        <5>2. m + 1 <= m + 1
          BY <2>1
        <5> QED  BY <3>1, <5>1, <5>2
      <4>2. CASE j # Len(l) + 1
        <5>1. j \in DOMAIN l /\ n[j] = l[j]
          BY <3>7, <4>2
        <5>2. PICK k \in 2 .. Len(e), y \in Held : k <= m /\ l[j] = Entry(e[k], y)
          BY <2>3, <3>2, <5>1
        <5>3. k <= m + 1 /\ n[j] = Entry(e[k], y)
          BY <1>2, <5>1, <5>2
        <5> QED  BY <5>3
      <4> QED  BY <4>1, <4>2
    <3>9. \A j \in DOMAIN l : l[j].service_id # x.service_id
      <4> SUFFICES ASSUME NEW j \in DOMAIN l, l[j].service_id = x.service_id PROVE FALSE
        OBVIOUS
      <4>1. PICK k \in 2 .. Len(e), y \in Held : k <= m /\ l[j] = Entry(e[k], y)
        BY <2>3, <3>2
      <4>2. e[k] = e[m + 1]
        BY <1>5, <3>5, <4>1
      <4>3. k = m + 1
        BY <1>2, <3>1, <4>2
      <4> QED  BY <1>2, <4>1, <4>3
    <3>10. Distinct(n)
      <4> SUFFICES ASSUME NEW i \in DOMAIN n, NEW j \in DOMAIN n,
                          n[i].service_id = n[j].service_id
                   PROVE  i = j
        OBVIOUS
      <4>1. \A h \in DOMAIN n : h = Len(l) + 1 \/ (h \in DOMAIN l /\ n[h] = l[h])
        BY <3>7
      <4>2. CASE i = Len(l) + 1
        <5>1. j \in DOMAIN l => l[j].service_id = x.service_id
          BY <3>7, <4>1, <4>2
        <5> QED  BY <3>9, <4>1, <4>2, <5>1
      <4>3. CASE j = Len(l) + 1
        <5>1. i \in DOMAIN l => l[i].service_id = x.service_id
          BY <3>7, <4>1, <4>3
        <5> QED  BY <3>9, <4>1, <4>3, <5>1
      <4>4. CASE i # Len(l) + 1 /\ j # Len(l) + 1
        <5>1. /\ i \in DOMAIN l /\ j \in DOMAIN l
              /\ l[i].service_id = l[j].service_id
          BY <4>1, <4>4
        <5> QED  BY <2>3, <3>2, <5>1
      <4> QED  BY <4>2, <4>3, <4>4
    <3>11. Len(n) <= MaxServices /\ n # <<>>
      BY <1>4, <2>4, <3>2, <3>7
    <3>12. f[m + 1] = n
      BY <2>2, <2>4, <3>4, <3>2, <3>6, <3>3
    <3> HIDE DEF IsIn, Distinct
    <3> QED  BY <2>1, <3>7, <3>8, <3>10, <3>11, <3>12
  <2>5. CASE ~ (Len(f[m]) < MaxServices /\ e[m + 1] # Nit)
    <3>1. f[m + 1] = f[m]
      BY <2>2, <2>5
    <3>2. IsIn(f[m], m + 1)
      <4>1. \A k \in 2 .. Len(e) : k <= m => k <= m + 1
        BY <1>2
      <4> QED  BY <2>3, <4>1
    <3>3. m + 1 >= 2 => f[m] # <<>>
      <4> SUFFICES ASSUME m = 1 PROVE f[m] # <<>>
        BY <2>3
      <4>1. e[m + 1] # Nit
        BY <1>2, <1>4
      <4>2. ~ (Len(f[m]) < MaxServices)
        BY <2>5, <4>1
      <4>3. Len(<<>>) = 0
        OBVIOUS
      <4> QED  BY <1>4, <4>2, <4>3
    <3> HIDE DEF IsIn, Distinct
    <3> QED  BY <2>1, <2>3, <3>1, <3>2, <3>3
  <2> QED  BY <2>4, <2>5
<1>8. Len(e) \in T
  <2> HIDE DEF T
  <2>1. \A m \in 0 .. Len(e) : m \in T
    BY <1>2, <1>6, <1>7, Climbing
  <2>2. Len(e) \in 0 .. Len(e)
    BY <1>2
  <2> QED  BY <2>1, <2>2
<1>9. /\ Listed(e, leftover) \in Seq(Entries) /\ Len(Listed(e, leftover)) <= MaxServices
      /\ IsIn(Listed(e, leftover), Len(e)) /\ Distinct(Listed(e, leftover))
      /\ Listed(e, leftover) # <<>>
  <2> HIDE DEF IsIn, Distinct
  <2> QED  BY <1>2, <1>3, <1>8
<1>10. \A j \in DOMAIN Listed(e, leftover) : Listed(e, leftover)[j].last_pmt = <<>>
  BY <1>9 DEF Entry
<1>11. Sound(Listed(e, leftover))
  BY <1>9, <1>10 DEF Sound
<1> QED  BY <1>1, <1>9, <1>11

-----------------------------------------------------------------------------
(***************************************************************************)
(* What is parsed.                                                         *)
(***************************************************************************)

Known(k) ==
  /\ k \in [list : Seq(Entries), pat_finished : BOOLEAN]
  /\ k.pat_finished <=> k.list # <<>>
  /\ Sound(k.list)

(* Two lists of the same services, in the same order.                      *)
SameServices(l, m) ==
  Len(l) = Len(m) /\ \A i \in DOMAIN l : m[i].service_id = l[i].service_id

(* The parsing loop of main_loop, for the first m packets.                 *)
IsParsing(f, packets, leftover, m) ==
  f = [i \in 0 .. m |-> IF i = 0 THEN [list |-> list, pat_finished |-> pat_finished]
                        ELSE Parsed(f[i - 1], packets[i], leftover)]

LEMMA Parsing ==
  ASSUME NEW packets, Len(packets) \in Nat, NEW leftover
  PROVE  \E f : /\ f[0] = [list |-> list, pat_finished |-> pat_finished]
                /\ \A i \in 1 .. Len(packets) : f[i] = Parsed(f[i - 1], packets[i], leftover)
                /\ ParsedAll(packets, leftover) = f[Len(packets)]
<1> DEFINE N == Len(packets)
           T == {m \in 0 .. N : \E f : IsParsing(f, packets, leftover, m)}
<1>1. 0 \in T
  <2>1. IsParsing([i \in 0 .. 0 |-> [list |-> list, pat_finished |-> pat_finished]], packets, leftover, 0)
    BY DEF IsParsing
  <2> QED  BY <2>1
<1>2. ASSUME NEW m \in 0 .. N, m < N, m \in T
      PROVE  m + 1 \in T
  <2>1. PICK f : IsParsing(f, packets, leftover, m)
    BY <1>2
  <2> DEFINE g == [i \in 0 .. m + 1 |-> IF i = m + 1 THEN Parsed(f[m], packets[m + 1], leftover) ELSE f[i]]
  <2>2. \A i \in 0 .. m : f[i] = IF i = 0 THEN [list |-> list, pat_finished |-> pat_finished]
                                 ELSE Parsed(f[i - 1], packets[i], leftover)
    BY <2>1 DEF IsParsing
  <2>3. \A i \in 0 .. m : g[i] = f[i]
    OBVIOUS
  <2>4. g[m + 1] = Parsed(f[m], packets[m + 1], leftover) /\ m + 1 # 0 /\ m + 1 - 1 = m
    OBVIOUS
  <2>5. \A i \in 0 .. m + 1 : i # m + 1 => i \in 0 .. m /\ (i # 0 => i - 1 \in 0 .. m)
    OBVIOUS
  <2>6. g[m] = f[m]
    BY <2>3
  <2>7. g = [i \in 0 .. m + 1 |-> g[i]]
    OBVIOUS
  <2> HIDE DEF g
  <2>8. \A i \in 0 .. m + 1 : g[i] = IF i = 0 THEN [list |-> list, pat_finished |-> pat_finished]
                                     ELSE Parsed(g[i - 1], packets[i], leftover)
    BY <2>2, <2>3, <2>4, <2>5, <2>6
  <2>9. IsParsing(g, packets, leftover, m + 1)
    BY <2>7, <2>8 DEF IsParsing
  <2>10. m + 1 \in 0 .. N
    BY <1>2
  <2> QED  BY <2>9, <2>10
<1>3. N \in T
  <2> HIDE DEF T
  <2>1. \A m \in 0 .. N : m \in T
    BY <1>1, <1>2, Climbing
  <2>2. N \in 0 .. N
    OBVIOUS
  <2> QED  BY <2>1, <2>2
<1>4. PICK h : h = CHOOSE f : IsParsing(f, packets, leftover, N)
  OBVIOUS
<1>5. IsParsing(h, packets, leftover, N)
  BY <1>3, <1>4
<1>6. ParsedAll(packets, leftover) = h[N]
  BY <1>4, Zenon DEF ParsedAll, IsParsing
<1>7. h[0] = [list |-> list, pat_finished |-> pat_finished]
  BY <1>5 DEF IsParsing
<1>8. \A i \in 1 .. N : h[i] = Parsed(h[i - 1], packets[i], leftover)
  <2> SUFFICES ASSUME NEW i \in 1 .. N PROVE h[i] = Parsed(h[i - 1], packets[i], leftover)
    OBVIOUS
  <2>1. i \in 0 .. N /\ i # 0
    OBVIOUS
  <2>2. h[i] = IF i = 0 THEN [list |-> list, pat_finished |-> pat_finished]
               ELSE Parsed(h[i - 1], packets[i], leftover)
    BY <1>5, <2>1 DEF IsParsing
  <2> QED  BY <2>1, <2>2
<1> QED  BY <1>6, <1>7, <1>8

(* A PMT changes what is known of its own service.                         *)
LEMMA PmtKeeps ==
  ASSUME NEW l, Sound(l), NEW s \in Services, NEW x \in SUBSET Streams,
         \A p \in x : s \in users[p]
  PROVE  LET m == [i \in DOMAIN l |-> WithPmt(l[i], Pmt(s, x))]
         IN  Sound(m) /\ SameServices(l, m)
<1> DEFINE m == [i \in DOMAIN l |-> WithPmt(l[i], Pmt(s, x))]
<1>1. l \in Seq(Entries) /\ Len(l) \in Nat /\ DOMAIN l = 1 .. Len(l)
  BY DEF Sound
<1>2. ASSUME NEW i \in DOMAIN l
      PROVE  /\ m[i] \in Entries
             /\ m[i].service_id = l[i].service_id
             /\ m[i].last_pmt # <<>> =>
                  /\ m[i].last_pmt = <<m[i].service_pids>>
                  /\ \A p \in m[i].service_pids : p \in Streams /\ m[i].service_id \in users[p]
  <2>1. l[i] \in Entries
    BY <1>1
  <2>2. PICK e : e = l[i]
    OBVIOUS
  <2>3. m[i] = WithPmt(e, Pmt(s, x))
    BY <2>2
  <2>4. CASE s = e.service_id
    <3>1. m[i] = [e EXCEPT !.service_pids = x, !.last_pmt = <<x>>]
      BY <2>3, <2>4 DEF WithPmt, Pmt
    <3>2. m[i] = [service_id |-> e.service_id, service_pids |-> x, last_pmt |-> <<x>>]
      BY <2>1, <2>2, <3>1 DEF Entries
    <3> HIDE DEF m
    <3> QED  BY <2>1, <2>2, <2>4, <3>2 DEF Entries
  <2>5. CASE s # e.service_id
    <3>1. m[i] = l[i]
      BY <2>2, <2>3, <2>5 DEF WithPmt, Pmt
    <3> QED  BY <2>1, <3>1 DEF Sound
  <2> QED  BY <2>4, <2>5
<1>3. DOMAIN m = 1 .. Len(l)
  BY <1>1
<1> HIDE DEF m
<1>4. m \in Seq(Entries) /\ Len(m) = Len(l)
  <2>1. m = [i \in 1 .. Len(l) |-> m[i]]
    BY <1>1 DEF m
  <2>2. \A i \in 1 .. Len(l) : m[i] \in Entries
    BY <1>1, <1>2
  <2> QED  BY <1>1, <2>1, <2>2, IsASeq
<1>5. Sound(m)
  BY <1>1, <1>2, <1>3, <1>4 DEF Sound
<1>6. SameServices(l, m)
  BY <1>2, <1>4 DEF SameServices
<1> QED  BY <1>5, <1>6 DEF m

LEMMA ParsedKeeps ==
  ASSUME NEW k, Known(k), NEW packet \in Packets, Backed(packet), NEW leftover \in Leftovers
  PROVE  /\ Known(Parsed(k, packet, leftover))
         /\ k.list # <<>> => SameServices(k.list, Parsed(k, packet, leftover).list)
<1>1. CASE \E pat \in Pats : packet = Pat(pat)
  <2>1. PICK pat \in Pats : packet = Pat(pat)
    BY <1>1
  <2>2. packet.kind = "PAT" /\ packet.entries = <<Nit>> \o pat
    BY <2>1 DEF Pat
  <2>3. CASE k.list = <<>>
    <3>1. Parsed(k, packet, leftover) = [list |-> Listed(<<Nit>> \o pat, leftover), pat_finished |-> TRUE]
      BY <2>2, <2>3 DEF Parsed
    <3>2. PICK l : l = Listed(<<Nit>> \o pat, leftover)
      OBVIOUS
    <3>3. Sound(l) /\ l # <<>>
      BY <3>2, ListedFacts
    <3>4. l \in Seq(Entries)
      BY <3>3 DEF Sound
    <3>5. Parsed(k, packet, leftover) = [list |-> l, pat_finished |-> TRUE]
      BY <3>1, <3>2
    <3> QED  BY <2>3, <3>3, <3>4, <3>5 DEF Known
  <2>4. CASE k.list # <<>>
    <3>1. Parsed(k, packet, leftover) = k
      BY <2>2, <2>4 DEF Parsed
    <3> QED  BY <3>1 DEF SameServices
  <2> QED  BY <2>3, <2>4
<1>2. CASE \E s \in Services, x \in SUBSET Streams : packet = Pmt(s, x)
  <2>1. PICK s \in Services, x \in SUBSET Streams : packet = Pmt(s, x)
    BY <1>2
  <2>2. /\ packet.kind = "PMT" /\ packet.kind # "PAT"
        /\ packet.service = s /\ packet.streams = x
    BY <2>1 DEF Pmt
  <2>3. \A p \in x : s \in users[p]
    BY <2>2 DEF Backed
  <2>4. CASE k.list = <<>>
    <3>1. Parsed(k, packet, leftover) = k
      BY <2>2, <2>4 DEF Parsed
    <3> QED  BY <2>4, <3>1
  <2>5. CASE k.list # <<>>
    <3>1. PICK l : l = k.list
      OBVIOUS
    <3>2. PICK m : m = [i \in DOMAIN l |-> WithPmt(l[i], Pmt(s, x))]
      OBVIOUS
    <3>3. Sound(l)
      BY <3>1 DEF Known
    <3>4. Sound(m) /\ SameServices(l, m)
      BY <2>3, <3>2, <3>3, PmtKeeps
    <3>5. Parsed(k, packet, leftover) = [k EXCEPT !.list = m]
      BY <2>1, <2>2, <2>5, <3>1, <3>2 DEF Parsed
    <3>6. Parsed(k, packet, leftover) = [list |-> m, pat_finished |-> TRUE]
      BY <2>5, <3>5 DEF Known
    <3>7. m # <<>>
      <4>1. Len(l) # 0 /\ Len(m) = Len(l)
        BY <2>5, <3>1, <3>3, <3>4, EmptySeq DEF Sound, SameServices
      <4> QED  BY <4>1
    <3>8. m \in Seq(Entries)
      BY <3>4 DEF Sound
    <3> QED  BY <3>1, <3>4, <3>6, <3>7, <3>8 DEF Known
  <2> QED  BY <2>4, <2>5
<1>3. CASE \E p \in Streams, o \in SUBSET Services : packet = Stream(p, o)
  <2>1. packet.kind # "PMT" /\ packet.kind # "PAT"
    BY <1>3 DEF Stream
  <2>2. Parsed(k, packet, leftover) = k
    BY <2>1 DEF Parsed
  <2> QED  BY <2>2 DEF SameServices
<1> QED  BY <1>1, <1>2, <1>3 DEF Packets

(* What is known when all was parsed: the services that were in the list   *)
(* are still there and in their places.                                    *)
LEMMA ParsedAllKeeps ==
  ASSUME NEW packets \in Seq(Packets), \A k \in DOMAIN packets : Backed(packets[k]),
         Sound(list), pat_finished \in BOOLEAN, pat_finished <=> list # <<>>, NEW leftover \in Leftovers
  PROVE  /\ Known(ParsedAll(packets, leftover))
         /\ list # <<>> => SameServices(list, ParsedAll(packets, leftover).list)
<1>1. Len(packets) \in Nat /\ DOMAIN packets = 1 .. Len(packets)
  OBVIOUS
<1>2. PICK f : /\ f[0] = [list |-> list, pat_finished |-> pat_finished]
               /\ \A i \in 1 .. Len(packets) : f[i] = Parsed(f[i - 1], packets[i], leftover)
               /\ ParsedAll(packets, leftover) = f[Len(packets)]
  BY <1>1, Parsing
<1> DEFINE N == Len(packets)
           T == {m \in 0 .. N : /\ Known(f[m])
                                /\ list # <<>> => SameServices(list, f[m].list)}
<1>3. 0 \in T
  <2>1. list \in Seq(Entries)
    BY DEF Sound
  <2>2. Known(f[0])
    BY <1>2, <2>1 DEF Known
  <2> QED  BY <1>1, <1>2, <2>2 DEF SameServices
<1>4. ASSUME NEW m \in 0 .. N, m < N, m \in T
      PROVE  m + 1 \in T
  <2>1. m + 1 \in 1 .. N /\ m + 1 \in 0 .. N /\ m + 1 - 1 = m
    BY <1>1, <1>4
  <2>2. f[m + 1] = Parsed(f[m], packets[m + 1], leftover)
    BY <1>2, <2>1
  <2>3. packets[m + 1] \in Packets /\ Backed(packets[m + 1])
    BY <1>1, <2>1
  <2>4. Known(f[m]) /\ (list # <<>> => SameServices(list, f[m].list))
    BY <1>4
  <2>5. /\ Known(f[m + 1])
        /\ f[m].list # <<>> => SameServices(f[m].list, f[m + 1].list)
    BY <2>2, <2>3, <2>4, ParsedKeeps
  <2>6. list # <<>> => SameServices(list, f[m + 1].list)
    <3> SUFFICES ASSUME list # <<>> PROVE SameServices(list, f[m + 1].list)
      OBVIOUS
    <3>1. SameServices(list, f[m].list)
      BY <2>4
    <3>2. list \in Seq(Entries) /\ f[m].list \in Seq(Entries)
      BY <2>4 DEF Known, Sound
    <3>3. f[m].list # <<>> /\ DOMAIN list = DOMAIN f[m].list
      BY <3>1, <3>2, EmptySeq DEF SameServices
    <3> QED  BY <2>5, <3>1, <3>3 DEF SameServices
  <2> QED  BY <2>1, <2>5, <2>6
<1>5. N \in T
  <2> HIDE DEF T
  <2>1. \A m \in 0 .. N : m \in T
    BY <1>1, <1>3, <1>4, Climbing
  <2>2. N \in 0 .. N
    BY <1>1
  <2> QED  BY <2>1, <2>2
<1> QED  BY <1>2, <1>5

-----------------------------------------------------------------------------
(***************************************************************************)
(* The outputs.                                                            *)
(***************************************************************************)

(* A place more, and an element more with it.                              *)
LEMMA EmbedNone ==
  \A n \in Nat : [i \in 1 .. 0 |-> 0] \in Embeddings(0, n)
BY DEF Embeddings

LEMMA EmbedWiden ==
  ASSUME NEW m \in Nat, NEW n \in Nat, NEW place \in Embeddings(m, n)
  PROVE  place \in Embeddings(m, n + 1)
<1>1. place \in [1 .. m -> 1 .. n] /\ \A i, j \in 1 .. m : i < j => place[i] < place[j]
  BY DEF Embeddings
<1>2. 1 .. n \subseteq 1 .. n + 1
  OBVIOUS
<1>3. place \in [1 .. m -> 1 .. n + 1]
  BY <1>1, <1>2
<1> QED  BY <1>1, <1>3 DEF Embeddings

LEMMA EmbedExtend ==
  ASSUME NEW m \in Nat, NEW n \in Nat, NEW place \in Embeddings(m, n)
  PROVE  LET longer == [i \in 1 .. m + 1 |-> IF i = m + 1 THEN n + 1 ELSE place[i]]
         IN  /\ longer \in Embeddings(m + 1, n + 1)
             /\ longer[m + 1] = n + 1
             /\ \A i \in 1 .. m : longer[i] = place[i]
<1> DEFINE longer == [i \in 1 .. m + 1 |-> IF i = m + 1 THEN n + 1 ELSE place[i]]
<1>1. place \in [1 .. m -> 1 .. n] /\ \A i, j \in 1 .. m : i < j => place[i] < place[j]
  BY DEF Embeddings
<1>2. longer[m + 1] = n + 1 /\ \A i \in 1 .. m : longer[i] = place[i]
  OBVIOUS
<1>3. \A i \in 1 .. m + 1 : i = m + 1 \/ i \in 1 .. m
  OBVIOUS
<1>4. \A i \in 1 .. m : place[i] \in 1 .. n
  BY <1>1
<1>5. \A i \in 1 .. m + 1 : longer[i] \in 1 .. n + 1
  BY <1>2, <1>3, <1>4
<1>6. longer \in [1 .. m + 1 -> 1 .. n + 1]
  BY <1>5
<1> HIDE DEF longer
<1>7. ASSUME NEW i \in 1 .. m + 1, NEW j \in 1 .. m + 1, i < j
      PROVE  longer[i] < longer[j]
  <2>1. i \in 1 .. m
    BY <1>7
  <2>2. longer[i] = place[i] /\ place[i] \in 1 .. n
    BY <1>2, <1>4, <2>1
  <2>3. CASE j = m + 1
    BY <1>2, <2>2, <2>3
  <2>4. CASE j # m + 1
    <3>1. j \in 1 .. m
      BY <1>3, <2>4
    <3> QED  BY <1>1, <1>2, <1>7, <2>1, <3>1
  <2> QED  BY <2>3, <2>4
<1>8. longer \in Embeddings(m + 1, n + 1)
  BY <1>6, <1>7 DEF Embeddings
<1> QED  BY <1>2, <1>8 DEF longer

(* The loop of create_tos_per_service, for the first m services asked for. *)
IsChoosing(f, l, m) ==
  f = [i \in 0 .. m |->
         IF i = 0 THEN <<>>
         ELSE IF Offers(l, request[i]) THEN Append(f[i - 1], IndexOf(request[i], l))
              ELSE f[i - 1]]

LEMMA Choosing ==
  ASSUME NEW l, Len(request) \in Nat, request # AllServices
  PROVE  \E f : /\ f[0] = <<>>
                /\ \A i \in 1 .. Len(request) :
                     f[i] = IF Offers(l, request[i])
                            THEN Append(f[i - 1], IndexOf(request[i], l)) ELSE f[i - 1]
                /\ Chosen(l) = f[Len(request)]
<1> DEFINE N == Len(request)
           T == {m \in 0 .. N : \E f : IsChoosing(f, l, m)}
<1>1. 0 \in T
  <2>1. IsChoosing([i \in 0 .. 0 |-> <<>>], l, 0)
    BY DEF IsChoosing
  <2> QED  BY <2>1
<1>2. ASSUME NEW m \in 0 .. N, m < N, m \in T
      PROVE  m + 1 \in T
  <2>1. PICK f : IsChoosing(f, l, m)
    BY <1>2
  <2> DEFINE last == IF Offers(l, request[m + 1])
                     THEN Append(f[m], IndexOf(request[m + 1], l)) ELSE f[m]
             g == [i \in 0 .. m + 1 |-> IF i = m + 1 THEN last ELSE f[i]]
  <2>2. \A i \in 0 .. m : f[i] = IF i = 0 THEN <<>>
                                 ELSE IF Offers(l, request[i])
                                      THEN Append(f[i - 1], IndexOf(request[i], l))
                                      ELSE f[i - 1]
    BY <2>1 DEF IsChoosing
  <2>3. \A i \in 0 .. m : g[i] = f[i]
    OBVIOUS
  <2>4. g[m + 1] = last /\ m + 1 # 0 /\ m + 1 - 1 = m
    OBVIOUS
  <2>5. \A i \in 0 .. m + 1 : i # m + 1 => i \in 0 .. m /\ (i # 0 => i - 1 \in 0 .. m)
    OBVIOUS
  <2>6. g[m] = f[m]
    BY <2>3
  <2>7. g = [i \in 0 .. m + 1 |-> g[i]]
    OBVIOUS
  <2> HIDE DEF g
  <2>8. \A i \in 0 .. m + 1 : g[i] = IF i = 0 THEN <<>>
                                     ELSE IF Offers(l, request[i])
                                          THEN Append(g[i - 1], IndexOf(request[i], l))
                                          ELSE g[i - 1]
    BY <2>2, <2>3, <2>4, <2>5, <2>6
  <2>9. IsChoosing(g, l, m + 1)
    BY <2>7, <2>8 DEF IsChoosing
  <2>10. m + 1 \in 0 .. N
    BY <1>2
  <2> QED  BY <2>9, <2>10
<1>3. N \in T
  <2> HIDE DEF T
  <2>1. \A m \in 0 .. N : m \in T
    BY <1>1, <1>2, Climbing
  <2>2. N \in 0 .. N
    OBVIOUS
  <2> QED  BY <2>1, <2>2
<1>4. PICK h : h = CHOOSE f : IsChoosing(f, l, N)
  OBVIOUS
<1>5. IsChoosing(h, l, N)
  BY <1>3, <1>4
<1>6. Chosen(l) = h[N]
  BY <1>4, Zenon DEF Chosen, IsChoosing
<1>7. h[0] = <<>>
  BY <1>5 DEF IsChoosing
<1>8. ASSUME NEW i \in 1 .. N
      PROVE  h[i] = IF Offers(l, request[i])
                    THEN Append(h[i - 1], IndexOf(request[i], l)) ELSE h[i - 1]
  <2>1. i \in 0 .. N /\ i # 0
    OBVIOUS
  <2>2. h[i] = IF i = 0 THEN <<>>
               ELSE IF Offers(l, request[i])
                    THEN Append(h[i - 1], IndexOf(request[i], l)) ELSE h[i - 1]
    BY <1>5, <2>1 DEF IsChoosing
  <2> QED  BY <2>1, <2>2
<1> QED  BY <1>6, <1>7, <1>8

(* The services chosen are those of the request that are in the list, in   *)
(* their order.                                                            *)
LEMMA ChosenFacts ==
  ASSUME NEW l, Sound(l), request \in Seq(Services), request # AllServices
  PROVE  /\ Chosen(l) \in Seq(DOMAIN l)
         /\ \E place \in Embeddings(Len(Chosen(l)), Len(request)) :
              /\ \A i \in DOMAIN Chosen(l) : l[Chosen(l)[i]].service_id = request[place[i]]
              /\ \A k \in DOMAIN request :
                   Offers(l, request[k]) => \E i \in DOMAIN Chosen(l) : place[i] = k
<1>1. Len(request) \in Nat /\ DOMAIN request = 1 .. Len(request)
  OBVIOUS
<1>2. PICK f : /\ f[0] = <<>>
               /\ \A i \in 1 .. Len(request) :
                    f[i] = IF Offers(l, request[i])
                           THEN Append(f[i - 1], IndexOf(request[i], l)) ELSE f[i - 1]
               /\ Chosen(l) = f[Len(request)]
  BY <1>1, Choosing
<1> DEFINE N == Len(request)
           D == DOMAIN l
           Asked(c, place) == \A i \in DOMAIN c : l[c[i]].service_id = request[place[i]]
           Hit(c, place, m) == \A k \in 1 .. N :
             k <= m /\ Offers(l, request[k]) => \E i \in DOMAIN c : place[i] = k
           T == {m \in 0 .. N :
                   /\ f[m] \in Seq(D)
                   /\ \E place \in Embeddings(Len(f[m]), m) :
                        Asked(f[m], place) /\ Hit(f[m], place, m)}
<1>3. 0 \in T
  <2>1. 0 \in 0 .. N /\ <<>> \in Seq(D) /\ Len(<<>>) = 0 /\ DOMAIN <<>> = {}
    BY <1>1
  <2>2. PICK place : place \in Embeddings(0, 0)
    BY EmbedNone
  <2>3. Asked(<<>>, place) /\ Hit(<<>>, place, 0)
    BY <1>1, <2>1
  <2> HIDE DEF Asked, Hit, D
  <2> QED  BY <1>2, <2>1, <2>2, <2>3
<1>4. ASSUME NEW m \in 0 .. N, m < N, m \in T
      PROVE  m + 1 \in T
  <2>1. m + 1 \in 1 .. N /\ m + 1 \in 0 .. N /\ m + 1 - 1 = m /\ m \in Nat
    BY <1>1, <1>4
  <2>2. f[m + 1] = IF Offers(l, request[m + 1])
                   THEN Append(f[m], IndexOf(request[m + 1], l)) ELSE f[m]
    BY <1>2, <2>1
  <2>3. PICK c : c = f[m]
    OBVIOUS
  <2>4. c \in Seq(D) /\ Len(c) \in Nat /\ DOMAIN c = 1 .. Len(c)
    BY <1>4, <2>3
  <2>5. PICK place \in Embeddings(Len(c), m) : Asked(c, place) /\ Hit(c, place, m)
    BY <1>4, <2>3
  <2>6. CASE Offers(l, request[m + 1])
    <3>1. PICK x : x = IndexOf(request[m + 1], l)
      OBVIOUS
    <3>2. x \in D /\ l[x].service_id = request[m + 1]
      BY <2>6, <3>1 DEF Offers, IndexOf
    <3>3. PICK n : n = Append(c, x)
      OBVIOUS
    <3>4. /\ n \in Seq(D) /\ Len(n) = Len(c) + 1 /\ DOMAIN n = 1 .. Len(c) + 1
          /\ n[Len(c) + 1] = x /\ \A j \in 1 .. Len(c) : n[j] = c[j]
      BY <2>4, <3>2, <3>3
    <3>5. PICK longer \in Embeddings(Len(c) + 1, m + 1) :
            longer[Len(c) + 1] = m + 1 /\ \A i \in 1 .. Len(c) : longer[i] = place[i]
      BY <2>1, <2>4, EmbedExtend
    <3>6. Asked(n, longer)
      <4> SUFFICES ASSUME NEW i \in DOMAIN n PROVE l[n[i]].service_id = request[longer[i]]
        OBVIOUS
      <4>1. i = Len(c) + 1 \/ i \in 1 .. Len(c)
        BY <2>4, <3>4
      <4> QED  BY <2>4, <2>5, <3>2, <3>4, <3>5, <4>1
    <3>7. Hit(n, longer, m + 1)
      <4> SUFFICES ASSUME NEW k \in 1 .. N, k <= m + 1, Offers(l, request[k])
                   PROVE  \E i \in DOMAIN n : longer[i] = k
        OBVIOUS
      <4>1. CASE k = m + 1
        <5>1. Len(c) + 1 \in DOMAIN n
          BY <2>4, <3>4
        <5> QED  BY <3>5, <4>1, <5>1
      <4>2. CASE k # m + 1
        <5>1. k <= m
          BY <1>1, <2>1, <4>2
        <5>2. PICK i \in DOMAIN c : place[i] = k
          BY <2>5, <5>1
        <5>3. i \in DOMAIN n /\ longer[i] = k
          BY <2>4, <3>4, <3>5, <5>2
        <5> QED  BY <5>3
      <4> QED  BY <4>1, <4>2
    <3>8. f[m + 1] = n
      BY <2>2, <2>3, <2>6, <3>1, <3>3
    <3> HIDE DEF Asked, Hit, D
    <3>9. longer \in Embeddings(Len(f[m + 1]), m + 1)
      BY <3>4, <3>5, <3>8
    <3> QED  BY <2>1, <3>4, <3>6, <3>7, <3>8, <3>9
  <2>7. CASE ~ Offers(l, request[m + 1])
    <3>1. f[m + 1] = c
      BY <2>2, <2>3, <2>7
    <3>2. place \in Embeddings(Len(c), m + 1)
      BY <2>1, <2>4, EmbedWiden
    <3>3. Hit(c, place, m + 1)
      <4> SUFFICES ASSUME NEW k \in 1 .. N, k <= m + 1, Offers(l, request[k])
                   PROVE  \E i \in DOMAIN c : place[i] = k
        OBVIOUS
      <4>1. k <= m
        BY <1>1, <2>1, <2>7
      <4> QED  BY <2>5, <4>1
    <3> HIDE DEF Asked, Hit, D
    <3> QED  BY <2>1, <2>4, <2>5, <3>1, <3>2, <3>3
  <2> QED  BY <2>6, <2>7
<1>5. N \in T
  <2> HIDE DEF T
  <2>1. \A m \in 0 .. N : m \in T
    BY <1>1, <1>3, <1>4, Climbing
  <2>2. N \in 0 .. N
    BY <1>1
  <2> QED  BY <2>1, <2>2
<1>6. PICK place \in Embeddings(Len(Chosen(l)), N) :
        Asked(Chosen(l), place) /\ Hit(Chosen(l), place, N)
  BY <1>2, <1>5
<1>7. \A k \in DOMAIN request : k \in 1 .. N /\ k <= N
  BY <1>1
<1>8. Chosen(l) \in Seq(D)
  BY <1>2, <1>5
<1> QED  BY <1>6, <1>7, <1>8

(* The outputs there may be for a list.                                    *)
OutsOf(l) == [tps_index : DOMAIN l, PAT_packet_counter : 0 .. CounterMod - 1]

(* The outputs t are those asked for of the services l.                    *)
Fits(t, l) ==
  /\ t \in Seq(OutsOf(l))
  /\ request = AllServices => Len(t) = Len(l) /\ \A i \in DOMAIN t : t[i].tps_index = i
  /\ request # AllServices =>
       \E place \in Embeddings(Len(t), Len(request)) :
         /\ \A i \in DOMAIN t : l[t[i].tps_index].service_id = request[place[i]]
         /\ \A k \in DOMAIN request :
              Offers(l, request[k]) => \E i \in DOMAIN t : place[i] = k

(* They depend on which services there are, and on which each is for.      *)
LEMMA FitsStill ==
  ASSUME NEW t, NEW l, Fits(t, l), NEW u, NEW m,
         l \in Seq(Entries), m \in Seq(Entries), SameServices(l, m),
         u \in Seq(OutsOf(l)),
         Len(u) = Len(t), \A i \in DOMAIN t : u[i].tps_index = t[i].tps_index
  PROVE  Fits(u, m)
<1>1. DOMAIN m = DOMAIN l /\ Len(m) = Len(l)
  BY DEF SameServices
<1>2. t \in Seq(OutsOf(l)) /\ u \in Seq(OutsOf(l)) /\ DOMAIN u = DOMAIN t
  BY DEF Fits
<1>3. u \in Seq(OutsOf(m))
  BY <1>1, <1>2 DEF OutsOf
<1>4. \A i \in DOMAIN t : t[i].tps_index \in DOMAIN l
  <2>1. \A o \in OutsOf(l) : o.tps_index \in DOMAIN l
    BY DEF OutsOf
  <2>2. \A i \in DOMAIN t : t[i] \in OutsOf(l)
    BY <1>2
  <2> QED  BY <2>1, <2>2
<1>5. \A i \in DOMAIN t : m[u[i].tps_index].service_id = l[t[i].tps_index].service_id
  BY <1>4 DEF SameServices
<1>6. \A s : Offers(m, s) <=> Offers(l, s)
  BY <1>1 DEF Offers, SameServices
<1>7. ASSUME request = AllServices
      PROVE  Len(u) = Len(m) /\ \A i \in DOMAIN u : u[i].tps_index = i
  BY <1>1, <1>2, <1>7 DEF Fits
<1>8. ASSUME request # AllServices
      PROVE  \E place \in Embeddings(Len(u), Len(request)) :
               /\ \A i \in DOMAIN u : m[u[i].tps_index].service_id = request[place[i]]
               /\ \A k \in DOMAIN request :
                    Offers(m, request[k]) => \E i \in DOMAIN u : place[i] = k
  <2>1. PICK place \in Embeddings(Len(t), Len(request)) :
               /\ \A i \in DOMAIN t : l[t[i].tps_index].service_id = request[place[i]]
               /\ \A k \in DOMAIN request :
                    Offers(l, request[k]) => \E i \in DOMAIN t : place[i] = k
    BY <1>8 DEF Fits
  <2>2. place \in Embeddings(Len(u), Len(request))
    BY <2>1
  <2>3. \A i \in DOMAIN u : m[u[i].tps_index].service_id = request[place[i]]
    BY <1>2, <1>5, <2>1
  <2>4. \A k \in DOMAIN request : Offers(m, request[k]) => \E i \in DOMAIN u : place[i] = k
    BY <1>2, <1>6, <2>1
  <2> QED  BY <2>2, <2>3, <2>4
<1> QED  BY <1>3, <1>7, <1>8 DEF Fits

(* Outputs that are created fit.                                           *)
LEMMA NewFit ==
  ASSUME NEW known, Known(known), request \in Requests, request # Single, tos = NotYet,
         NEW outputs \in Outputs(known), outputs # NotYet
  PROVE  Fits(outputs, known.list)
<1> DEFINE l == known.list
           c == Chosen(l)
<1>1. PICK first \in [DOMAIN c -> 0 .. CounterMod - 1] :
        outputs = [i \in DOMAIN c |-> Tos(c[i], first[i])]
  BY DEF Outputs
<1>2. Sound(l) /\ l \in Seq(Entries) /\ DOMAIN l = 1 .. Len(l) /\ Len(l) \in Nat
  BY DEF Known, Sound
<1>3. request = AllServices => c = [i \in 1 .. Len(l) |-> i]
  BY <1>2 DEF Chosen
<1>4. request # AllServices => request \in Seq(Services)
  BY ServiceSelectAssumption DEF ServiceSelectAssumption
<1>5. c \in Seq(DOMAIN l)
  <2>1. CASE request = AllServices
    BY <1>2, <1>3, <2>1, IsASeq
  <2>2. CASE request # AllServices
    BY <1>2, <1>4, <2>2, ChosenFacts
  <2> QED  BY <2>1, <2>2
<1>51. request # AllServices =>
        \E place \in Embeddings(Len(c), Len(request)) :
          /\ \A i \in DOMAIN c : l[c[i]].service_id = request[place[i]]
          /\ \A k \in DOMAIN request :
               Offers(l, request[k]) => \E i \in DOMAIN c : place[i] = k
  BY <1>2, <1>4, ChosenFacts
<1> HIDE DEF c, l
<1>6. DOMAIN c = 1 .. Len(c) /\ Len(c) \in Nat /\ \A i \in DOMAIN c : c[i] \in DOMAIN l
  BY <1>5
<1>7. \A i \in DOMAIN c : outputs[i] = [tps_index |-> c[i], PAT_packet_counter |-> first[i]]
  BY <1>1 DEF Tos
<1>8. \A i \in 1 .. Len(c) : outputs[i] \in OutsOf(l) /\ outputs[i].tps_index = c[i]
  <2> SUFFICES ASSUME NEW i \in 1 .. Len(c)
               PROVE  outputs[i] \in OutsOf(l) /\ outputs[i].tps_index = c[i]
    OBVIOUS
  <2>1. c[i] \in DOMAIN l /\ first[i] \in 0 .. CounterMod - 1
    BY <1>1, <1>6
  <2>2. outputs[i] = [tps_index |-> c[i], PAT_packet_counter |-> first[i]]
    BY <1>6, <1>7
  <2> QED  BY <2>1, <2>2 DEF OutsOf
<1>9. outputs \in Seq(OutsOf(l)) /\ Len(outputs) = Len(c) /\ DOMAIN outputs = DOMAIN c
  <2>1. outputs = [i \in 1 .. Len(c) |-> outputs[i]]
    BY <1>1, <1>6
  <2> QED  BY <1>6, <1>8, <2>1, IsASeq
<1>10. ASSUME request = AllServices
       PROVE  Len(outputs) = Len(l) /\ \A i \in DOMAIN outputs : outputs[i].tps_index = i
  BY <1>2, <1>3, <1>6, <1>8, <1>9, <1>10
<1>11. ASSUME request # AllServices
       PROVE  \E place \in Embeddings(Len(outputs), Len(request)) :
                /\ \A i \in DOMAIN outputs :
                     l[outputs[i].tps_index].service_id = request[place[i]]
                /\ \A k \in DOMAIN request :
                     Offers(l, request[k]) => \E i \in DOMAIN outputs : place[i] = k
  <2>1. PICK place \in Embeddings(Len(c), Len(request)) :
              /\ \A i \in DOMAIN c : l[c[i]].service_id = request[place[i]]
              /\ \A k \in DOMAIN request :
                   Offers(l, request[k]) => \E i \in DOMAIN c : place[i] = k
    BY <1>11, <1>51
  <2>2. place \in Embeddings(Len(outputs), Len(request))
    BY <1>9, <2>1
  <2>3. ASSUME NEW i \in DOMAIN outputs
        PROVE  l[outputs[i].tps_index].service_id = request[place[i]]
    <3>1. i \in DOMAIN c /\ outputs[i].tps_index = c[i]
      BY <1>6, <1>8, <1>9
    <3> QED  BY <2>1, <3>1
  <2>4. \A k \in DOMAIN request : Offers(l, request[k]) => \E i \in DOMAIN outputs : place[i] = k
    BY <1>9, <2>1
  <2> QED  BY <2>2, <2>3, <2>4
<1> QED  BY <1>9, <1>10, <1>11 DEF Fits, l

-----------------------------------------------------------------------------
(***************************************************************************)
(* What is copied.                                                         *)
(***************************************************************************)

(* The copying loop of main_loop, for one output and the first m packets.  *)
IsCopying(f, o, l, packets, m) ==
  f = [i \in 0 .. m |-> IF i = 0 THEN [output |-> o, packets |-> <<>>]
                        ELSE Copied(f[i - 1], l, packets[i])]

AreCopies(f, o, l, packets) ==
  /\ f[0] = [output |-> o, packets |-> <<>>]
  /\ \A i \in 1 .. Len(packets) : f[i] = Copied(f[i - 1], l, packets[i])
  /\ CopiedAll(o, l, packets) = f[Len(packets)]

LEMMA Copies ==
  ASSUME NEW o, NEW l, NEW packets, Len(packets) \in Nat
  PROVE  \E f : AreCopies(f, o, l, packets)
<1> DEFINE N == Len(packets)
           T == {m \in 0 .. N : \E f : IsCopying(f, o, l, packets, m)}
<1>1. 0 \in T
  <2>1. IsCopying([i \in 0 .. 0 |-> [output |-> o, packets |-> <<>>]], o, l, packets, 0)
    BY DEF IsCopying
  <2> QED  BY <2>1
<1>2. ASSUME NEW m \in 0 .. N, m < N, m \in T
      PROVE  m + 1 \in T
  <2>1. PICK f : IsCopying(f, o, l, packets, m)
    BY <1>2
  <2> DEFINE g == [i \in 0 .. m + 1 |-> IF i = m + 1 THEN Copied(f[m], l, packets[m + 1])
                                        ELSE f[i]]
  <2>2. \A i \in 0 .. m : f[i] = IF i = 0 THEN [output |-> o, packets |-> <<>>]
                                 ELSE Copied(f[i - 1], l, packets[i])
    BY <2>1 DEF IsCopying
  <2>3. \A i \in 0 .. m : g[i] = f[i]
    OBVIOUS
  <2>4. g[m + 1] = Copied(f[m], l, packets[m + 1]) /\ m + 1 # 0 /\ m + 1 - 1 = m
    OBVIOUS
  <2>5. \A i \in 0 .. m + 1 : i # m + 1 => i \in 0 .. m /\ (i # 0 => i - 1 \in 0 .. m)
    OBVIOUS
  <2>6. g[m] = f[m]
    BY <2>3
  <2>7. g = [i \in 0 .. m + 1 |-> g[i]]
    OBVIOUS
  <2> HIDE DEF g
  <2>8. \A i \in 0 .. m + 1 : g[i] = IF i = 0 THEN [output |-> o, packets |-> <<>>]
                                     ELSE Copied(g[i - 1], l, packets[i])
    BY <2>2, <2>3, <2>4, <2>5, <2>6
  <2>9. IsCopying(g, o, l, packets, m + 1)
    BY <2>7, <2>8 DEF IsCopying
  <2>10. m + 1 \in 0 .. N
    BY <1>2
  <2> QED  BY <2>9, <2>10
<1>3. N \in T
  <2> HIDE DEF T
  <2>1. \A m \in 0 .. N : m \in T
    BY <1>1, <1>2, Climbing
  <2>2. N \in 0 .. N
    OBVIOUS
  <2> QED  BY <2>1, <2>2
<1>4. PICK h : h = CHOOSE f : IsCopying(f, o, l, packets, N)
  OBVIOUS
<1>5. IsCopying(h, o, l, packets, N)
  BY <1>3, <1>4
<1>6. CopiedAll(o, l, packets) = h[N]
  BY <1>4, Zenon DEF CopiedAll, IsCopying
<1>7. h[0] = [output |-> o, packets |-> <<>>]
  BY <1>5 DEF IsCopying
<1>8. ASSUME NEW i \in 1 .. N PROVE h[i] = Copied(h[i - 1], l, packets[i])
  <2>1. i \in 0 .. N /\ i # 0
    OBVIOUS
  <2>2. h[i] = IF i = 0 THEN [output |-> o, packets |-> <<>>]
               ELSE Copied(h[i - 1], l, packets[i])
    BY <1>5, <2>1 DEF IsCopying
  <2> QED  BY <2>1, <2>2
<1> QED  BY <1>6, <1>7, <1>8 DEF AreCopies

(* What copy_current_service_packet keeps of what it gets, and makes of it.*)
Kept(o, l, packet) == packet.kind = "PAT" \/ ~ IsTheirs(o, l, packet)

NewPat(entries, counter) == [kind |-> "PAT", entries |-> entries, counter |-> counter]

Shows(w, packet, service) ==
  IF packet.kind = "PAT"
  THEN w.kind = "PAT" /\ w.entries = Simplified(packet.entries, service)
  ELSE w = packet

(* The packets written are what was kept of the first m, each in its place.*)
Traced(w, o, l, packets, m) ==
  \E place \in Embeddings(Len(w), m) :
    /\ \A k \in DOMAIN packets : k <= m /\ Kept(o, l, packets[k]) =>
         \E i \in DOMAIN w : place[i] = k
    /\ \A i \in DOMAIN w :
         /\ Kept(o, l, packets[place[i]])
         /\ Shows(w[i], packets[place[i]], l[o.tps_index].service_id)

(* From one value of the counter to another there is one PAT for each step.*)
Counted(w, from, to) ==
  /\ \A k \in DOMAIN w : w[k].kind = "PAT" =>
       w[k].counter \in Nat /\ (w[k].counter + PatsFrom(w, k)) % CounterMod = to
  /\ (from + PatsFrom(w, 1)) % CounterMod = to

LEMMA TracedMore ==
  ASSUME NEW W, NEW w \in Seq(W), NEW x \in W, NEW o, NEW l,
         NEW packets, NEW m \in Nat, DOMAIN packets \subseteq Nat,
         Traced(w, o, l, packets, m),
         Kept(o, l, packets[m + 1]),
         Shows(x, packets[m + 1], l[o.tps_index].service_id)
  PROVE  Traced(Append(w, x), o, l, packets, m + 1)
<1> DEFINE id == l[o.tps_index].service_id
<1>1. PICK place \in Embeddings(Len(w), m) :
        /\ \A k \in DOMAIN packets : k <= m /\ Kept(o, l, packets[k]) =>
             \E i \in DOMAIN w : place[i] = k
        /\ \A i \in DOMAIN w :
             Kept(o, l, packets[place[i]]) /\ Shows(w[i], packets[place[i]], id)
  BY DEF Traced
<1>2. PICK n : n = Append(w, x)
  OBVIOUS
<1>3. /\ Len(w) \in Nat /\ DOMAIN w = 1 .. Len(w)
      /\ Len(n) = Len(w) + 1 /\ DOMAIN n = 1 .. Len(w) + 1
      /\ n[Len(w) + 1] = x /\ \A i \in 1 .. Len(w) : n[i] = w[i]
  BY <1>2
<1>4. PICK longer \in Embeddings(Len(w) + 1, m + 1) :
        longer[Len(w) + 1] = m + 1 /\ \A i \in 1 .. Len(w) : longer[i] = place[i]
  BY <1>3, EmbedExtend
<1>5. ASSUME NEW k \in DOMAIN packets, k <= m + 1, Kept(o, l, packets[k])
      PROVE  \E i \in DOMAIN n : longer[i] = k
  <2>1. CASE k = m + 1
    <3>1. Len(w) + 1 \in DOMAIN n
      BY <1>3
    <3> QED  BY <1>4, <2>1, <3>1
  <2>2. CASE k # m + 1
    <3>1. k <= m
      BY <1>5, <2>2
    <3>2. PICK i \in DOMAIN w : place[i] = k
      BY <1>1, <1>5, <3>1
    <3>3. i \in DOMAIN n /\ longer[i] = k
      BY <1>3, <1>4, <3>2
    <3> QED  BY <3>3
  <2> QED  BY <2>1, <2>2
<1> HIDE DEF id
<1>6. ASSUME NEW i \in DOMAIN n
      PROVE  Kept(o, l, packets[longer[i]]) /\ Shows(n[i], packets[longer[i]], id)
  <2>1. i = Len(w) + 1 \/ i \in DOMAIN w
    BY <1>3
  <2>2. CASE i = Len(w) + 1
    BY <1>3, <1>4, <2>2 DEF id
  <2>3. CASE i \in DOMAIN w
    BY <1>1, <1>3, <1>4, <2>3
  <2> QED  BY <2>1, <2>2, <2>3
<1>7. longer \in Embeddings(Len(n), m + 1)
  BY <1>3, <1>4
<1> QED  BY <1>2, <1>5, <1>6, <1>7 DEF Traced, id

LEMMA TracedSame ==
  ASSUME NEW W, NEW w \in Seq(W), NEW o, NEW l,
         NEW packets, NEW m \in Nat, DOMAIN packets \subseteq Nat,
         Traced(w, o, l, packets, m), ~ Kept(o, l, packets[m + 1])
  PROVE  Traced(w, o, l, packets, m + 1)
<1> DEFINE id == l[o.tps_index].service_id
<1>1. PICK place \in Embeddings(Len(w), m) :
        /\ \A k \in DOMAIN packets : k <= m /\ Kept(o, l, packets[k]) =>
             \E i \in DOMAIN w : place[i] = k
        /\ \A i \in DOMAIN w :
             Kept(o, l, packets[place[i]]) /\ Shows(w[i], packets[place[i]], id)
  BY DEF Traced
<1>2. place \in Embeddings(Len(w), m + 1)
  BY EmbedWiden
<1>3. ASSUME NEW k \in DOMAIN packets, k <= m + 1, Kept(o, l, packets[k])
      PROVE  \E i \in DOMAIN w : place[i] = k
  <2>1. k <= m
    BY <1>3
  <2> QED  BY <1>1, <1>3, <2>1
<1> QED  BY <1>1, <1>2, <1>3 DEF Traced

(* The PATs of a longer sequence.                                          *)
LEMMA PatsFromMore ==
  ASSUME NEW W, NEW w \in Seq(W), NEW x \in W, NEW k \in 1 .. Len(w) + 1
  PROVE  /\ PatsFrom(w, k) \in Nat
         /\ PatsFrom(Append(w, x), k) =
              IF x.kind = "PAT" THEN PatsFrom(w, k) + 1 ELSE PatsFrom(w, k)
<1> DEFINE P == {j \in k .. Len(w) : w[j].kind = "PAT"}
<1>1. PICK n : n = Append(w, x)
  OBVIOUS
<1>2. /\ Len(w) \in Nat /\ Len(n) = Len(w) + 1
      /\ n[Len(w) + 1] = x /\ \A j \in 1 .. Len(w) : n[j] = w[j]
  BY <1>1
<1>3. IsFiniteSet(P) /\ Cardinality(P) \in Nat
  <2>1. IsFiniteSet(k .. Len(w))
    BY <1>2, FS_Interval
  <2> QED  BY <2>1, FS_Subset, FS_CardinalityType
<1>4. {j \in k .. Len(n) : n[j].kind = "PAT"}
        = IF x.kind = "PAT" THEN P \cup {Len(w) + 1} ELSE P
  <2>1. \A j \in k .. Len(n) : j = Len(w) + 1 \/ (j \in k .. Len(w) /\ j \in 1 .. Len(w))
    BY <1>2
  <2>2. \A j \in k .. Len(w) : j \in k .. Len(n) /\ j # Len(w) + 1 /\ j \in 1 .. Len(w)
    BY <1>2
  <2>3. Len(w) + 1 \in k .. Len(n)
    BY <1>2
  <2> QED  BY <1>2, <2>1, <2>2, <2>3
<1>5. Len(w) + 1 \notin P
  BY <1>2
<1>6. Cardinality(P \cup {Len(w) + 1}) = Cardinality(P) + 1
  <2> HIDE DEF P
  <2> QED  BY <1>3, <1>5, FS_AddElement
<1> QED  BY <1>1, <1>3, <1>4, <1>6 DEF PatsFrom

LEMMA ModIs ==
  ASSUME NEW q \in Int, NEW c \in Nat \ {0}, NEW r \in 0 .. c - 1
  PROVE  (q * c + r) % c = r
<1>1. PICK x \in Int : x = q * c + r
  BY SMT
<1>2. PICK k \in Int : k * c <= x /\ x < k * c + c /\ x % c = x - k * c
  <2>1. /\ x \div c \in Int
        /\ (x \div c) * c <= x
        /\ x < (x \div c) * c + c
        /\ x % c = x - (x \div c) * c
    BY SMT
  <2> QED  BY <2>1
<1>3. ASSUME NEW a \in Int, NEW b \in Int, a < b PROVE a * c + c <= b * c
  <2>1. a + 1 <= b
    BY <1>3
  <2>2. (a + 1) * c <= b * c
    BY <2>1, SMT
  <2> QED  BY <2>2, SMT
<1>4. ~ (k < q)
  <2>1. k < q => k * c + c <= q * c
    BY <1>3
  <2> QED  BY <1>1, <1>2, <2>1, SMT
<1>5. ~ (q < k)
  <2>1. q < k => q * c + c <= k * c
    BY <1>3
  <2> QED  BY <1>1, <1>2, <2>1, SMT
<1>6. k = q
  BY <1>4, <1>5
<1> QED  BY <1>1, <1>2, <1>6, SMT

LEMMA NextCount ==
  ASSUME NEW a \in Nat, NEW c \in Nat \ {0}
  PROVE  (a + 1) % c = ((a % c) + 1) % c
<1>1. PICK q \in Int, r \in 0 .. c - 1 : a = q * c + r /\ a % c = r
  <2>1. /\ a \div c \in Int /\ (a \div c) * c \in Int
        /\ a % c \in 0 .. c - 1 /\ a % c = a - (a \div c) * c
    BY SMT
  <2>2. PICK k \in Int : k = a \div c
    BY <2>1
  <2>3. PICK s \in 0 .. c - 1 : s = a % c
    BY <2>1
  <2>4. a = k * c + s
    BY <2>1, <2>2, <2>3, SMT
  <2> QED  BY <2>3, <2>4
<1>2. CASE r + 1 < c
  <2>1. a + 1 = q * c + (r + 1) /\ r + 1 \in 0 .. c - 1
    BY <1>1, <1>2
  <2>2. (q * c + (r + 1)) % c = r + 1 /\ (r + 1) % c = r + 1
    BY <2>1, ModIs, SMT
  <2> QED  BY <1>1, <2>1, <2>2
<1>3. CASE ~ (r + 1 < c)
  <2>1. r + 1 = c
    BY <1>1, <1>3
  <2>2. a + 1 = (q + 1) * c
    BY <1>1, <2>1, SMT
  <2>3. ((q + 1) * c) % c = 0 /\ c % c = 0
    BY SMT
  <2> QED  BY <1>1, <2>1, <2>2, <2>3
<1> QED  BY <1>2, <1>3

LEMMA CountedMore ==
  ASSUME NEW W, NEW w \in Seq(W), NEW x \in W,
         NEW from \in Nat, NEW to \in Nat, Counted(w, from, to),
         to < CounterMod, x.kind = "PAT" => x.counter = to
  PROVE  Counted(Append(w, x), from, IF x.kind = "PAT" THEN (to + 1) % CounterMod ELSE to)
<1> DEFINE next == IF x.kind = "PAT" THEN (to + 1) % CounterMod ELSE to
<1>0. CounterMod \in Nat \ {0}
  BY ServiceSelectAssumption DEF ServiceSelectAssumption
<1>1. PICK n : n = Append(w, x)
  OBVIOUS
<1>2. /\ Len(w) \in Nat /\ DOMAIN w = 1 .. Len(w) /\ DOMAIN n = 1 .. Len(w) + 1
      /\ n[Len(w) + 1] = x /\ \A j \in 1 .. Len(w) : n[j] = w[j]
  BY <1>1
<1>3. \A k \in 1 .. Len(w) + 1 :
        /\ PatsFrom(w, k) \in Nat
        /\ PatsFrom(n, k) = IF x.kind = "PAT" THEN PatsFrom(w, k) + 1 ELSE PatsFrom(w, k)
  BY <1>1, PatsFromMore
<1>4. ASSUME NEW a \in Nat, NEW k \in 1 .. Len(w) + 1,
             (a + PatsFrom(w, k)) % CounterMod = to
      PROVE  (a + PatsFrom(n, k)) % CounterMod = next
  <2>1. CASE x.kind = "PAT"
    <3>1. a + PatsFrom(n, k) = (a + PatsFrom(w, k)) + 1 /\ a + PatsFrom(w, k) \in Nat
      <4>1. /\ PatsFrom(w, k) \in Nat
            /\ PatsFrom(n, k) = PatsFrom(w, k) + 1
        BY <1>3, <2>1
      <4> HIDE DEF next
      <4> QED  BY <4>1
    <3>2. (a + PatsFrom(w, k) + 1) % CounterMod = (to + 1) % CounterMod
      BY <1>0, <1>4, <3>1, NextCount
    <3> QED  BY <2>1, <3>1, <3>2
  <2>2. CASE x.kind # "PAT"
    BY <1>3, <1>4, <2>2
  <2> QED  BY <2>1, <2>2
<1>5. (from + PatsFrom(n, 1)) % CounterMod = next
  <2>1. 1 \in 1 .. Len(w) + 1
    BY <1>2
  <2> HIDE DEF next
  <2> QED  BY <1>4, <2>1 DEF Counted
<1>6. ASSUME NEW k \in DOMAIN n, n[k].kind = "PAT"
      PROVE  n[k].counter \in Nat /\ (n[k].counter + PatsFrom(n, k)) % CounterMod = next
  <2>1. k = Len(w) + 1 \/ k \in 1 .. Len(w)
    BY <1>2
  <2>2. CASE k \in 1 .. Len(w)
    <3>1. w[k].counter \in Nat /\ (w[k].counter + PatsFrom(w, k)) % CounterMod = to
      BY <1>2, <1>6, <2>2 DEF Counted
    <3> HIDE DEF next
    <3> QED  BY <1>2, <1>4, <2>2, <3>1
  <2>3. CASE k = Len(w) + 1
    <3>1. n[k] = x /\ x.kind = "PAT" /\ x.counter = to
      BY <1>2, <1>6, <2>3
    <3>2. PatsFrom(w, k) = 0
      <4>1. {j \in k .. Len(w) : w[j].kind = "PAT"} = {}
        BY <1>2, <2>3
      <4> QED  BY <4>1, FS_EmptySet DEF PatsFrom
    <3>3. PatsFrom(n, k) = 1
      BY <1>2, <1>3, <2>3, <3>1, <3>2
    <3> QED  BY <3>1, <3>3
  <2> QED  BY <2>1, <2>2, <2>3
<1> HIDE DEF next
<1>7. Counted(n, from, next)
  BY <1>5, <1>6 DEF Counted
<1> QED  BY <1>1, <1>7 DEF next

(* What a packet is by its kind.                                           *)
LEMMA KindOfPacket ==
  ASSUME NEW p \in Packets
  PROVE  /\ p.kind = "PAT" => \E pat \in Pats : p = Pat(pat) /\ p.entries = <<Nit>> \o pat
         /\ p.kind = "PMT" => \E s \in Services, x \in SUBSET Streams : p = Pmt(s, x)
         /\ p.kind = "stream" => \E q \in Streams, o \in SUBSET Services : p = Stream(q, o)
         /\ p.kind \in {"PAT", "PMT", "stream"}
<1>1. ASSUME NEW pat \in Pats, p = Pat(pat)
      PROVE  p.kind = "PAT" /\ p.entries = <<Nit>> \o pat
  BY <1>1 DEF Pat
<1>2. ASSUME NEW s \in Services, NEW x \in SUBSET Streams, p = Pmt(s, x)
      PROVE  p.kind = "PMT"
  BY <1>2 DEF Pmt
<1>3. ASSUME NEW q \in Streams, NEW o \in SUBSET Services, p = Stream(q, o)
      PROVE  p.kind = "stream"
  BY <1>3 DEF Stream
<1>4. "PAT" # "PMT" /\ "PAT" # "stream" /\ "PMT" # "stream"
  OBVIOUS
<1> HIDE DEF Pat, Pmt, Stream
<1> QED  BY <1>4, <1>1, <1>2, <1>3 DEF Packets

(* A packet that is no PAT is written as it is, or not at all.             *)
LEMMA CopiedOther ==
  ASSUME NEW out, NEW w, NEW l, NEW p, p.kind # "PAT"
  PROVE  Copied([output |-> out, packets |-> w], l, p) =
           [output |-> out, packets |-> IF IsTheirs(out, l, p) THEN w ELSE Append(w, p)]
<1>1. PICK c : c = [output |-> out, packets |-> w]
  OBVIOUS
<1>2. c.output = out /\ c.packets = w
  BY <1>1
<1>3. CASE IsTheirs(out, l, p)
  <2>1. Copied(c, l, p) = c
    BY <1>2, <1>3 DEF Copied
  <2> QED  BY <1>1, <1>3, <2>1
<1>4. CASE ~ IsTheirs(out, l, p)
  <2>1. Copied(c, l, p) = [c EXCEPT !.packets = Append(w, p)]
    BY <1>2, <1>4 DEF Copied
  <2>2. PICK n : n = Append(w, p)
    OBVIOUS
  <2>3. [c EXCEPT !.packets = n] = [output |-> out, packets |-> n]
    BY <1>1
  <2> QED  BY <1>1, <1>4, <2>1, <2>2, <2>3
<1> QED  BY <1>3, <1>4

(* What was copied for an output of all the packets of a turn.             *)
LEMMA CopyFacts ==
  ASSUME NEW l, NEW packets \in Seq(Packets),
         NEW o \in OutsOf(l)
  PROVE  LET c == CopiedAll(o, l, packets)
         IN  /\ c.output \in OutsOf(l)
             /\ c.output.tps_index = o.tps_index
             /\ Len(c.packets) \in Nat /\ DOMAIN c.packets = 1 .. Len(c.packets)
             /\ Traced(c.packets, o, l, packets, Len(packets))
             /\ Counted(c.packets, o.PAT_packet_counter, c.output.PAT_packet_counter)
<1> DEFINE N == Len(packets)
           id == l[o.tps_index].service_id
           W == Packets \cup {NewPat(Simplified(<<Nit>> \o pat, id), n) :
                                pat \in Pats, n \in 0 .. CounterMod - 1}
<1>1. N \in Nat /\ DOMAIN packets = 1 .. N /\ DOMAIN packets \subseteq Nat
  OBVIOUS
<1>0. PICK f : AreCopies(f, o, l, packets)
  BY <1>1, Copies
<1>2. /\ f[0] = [output |-> o, packets |-> <<>>]
      /\ \A i \in 1 .. N : f[i] = Copied(f[i - 1], l, packets[i])
      /\ CopiedAll(o, l, packets) = f[N]
  BY <1>0 DEF AreCopies
<1>3. CounterMod \in Nat \ {0}
  BY ServiceSelectAssumption DEF ServiceSelectAssumption
<1>4. o \in OutsOf(l) /\ o.PAT_packet_counter \in 0 .. CounterMod - 1
  BY DEF OutsOf
<1> DEFINE Good(c, m) ==
             /\ c \in [output : OutsOf(l), packets : Seq(W)]
             /\ c.output.tps_index = o.tps_index
             /\ Traced(c.packets, o, l, packets, m)
             /\ Counted(c.packets, o.PAT_packet_counter, c.output.PAT_packet_counter)
           T == {m \in 0 .. N : Good(f[m], m)}
<1>5. 0 \in T
  <2>1. /\ 0 \in 0 .. N /\ <<>> \in Seq(W) /\ Len(<<>>) = 0 /\ DOMAIN <<>> = {}
    BY <1>1
  <2>2. Traced(<<>>, o, l, packets, 0)
    <3>1. PICK place : place \in Embeddings(0, 0)
      BY EmbedNone
    <3>2. \A k \in DOMAIN packets : ~ (k <= 0)
      BY <1>1
    <3> QED  BY <2>1, <3>1, <3>2 DEF Traced
  <2>3. Counted(<<>>, o.PAT_packet_counter, o.PAT_packet_counter)
    <3>1. PatsFrom(<<>>, 1) = 0
      <4>1. {j \in 1 .. Len(<<>>) : <<>>[j].kind = "PAT"} = {}
        BY <2>1
      <4> QED  BY <4>1, FS_EmptySet DEF PatsFrom
    <3>2. (o.PAT_packet_counter + 0) % CounterMod = o.PAT_packet_counter
      BY <1>3, <1>4, SMT
    <3> QED  BY <2>1, <3>1, <3>2 DEF Counted
  <2> HIDE DEF W
  <2>4. Good(f[0], 0)
    BY <1>2, <1>4, <2>1, <2>2, <2>3
  <2> QED  BY <2>1, <2>4
<1>6. ASSUME NEW m \in 0 .. N, m < N, m \in T
      PROVE  m + 1 \in T
  <2>1. m + 1 \in 1 .. N /\ m + 1 \in 0 .. N /\ m + 1 - 1 = m /\ m \in Nat
    BY <1>1, <1>6
  <2>2. PICK c : c = f[m]
    OBVIOUS
  <2>3. PICK p \in Packets : p = packets[m + 1]
    BY <1>1, <2>1
  <2>4. f[m + 1] = Copied(c, l, p)
    BY <1>2, <2>1, <2>2, <2>3
  <2>5. Good(c, m)
    BY <1>6, <2>2
  <2> HIDE DEF T
  <2>6. PICK out \in OutsOf(l), w \in Seq(W) : out = c.output /\ w = c.packets
    <3> HIDE DEF W
    <3> QED  BY <2>5
  <2>7. c = [output |-> out, packets |-> w]
    <3> HIDE DEF W
    <3> QED  BY <2>5, <2>6
  <2>8. /\ out.tps_index = o.tps_index
        /\ out.PAT_packet_counter \in 0 .. CounterMod - 1
        /\ Traced(w, o, l, packets, m)
        /\ Counted(w, o.PAT_packet_counter, out.PAT_packet_counter)
    BY <2>5, <2>6 DEF OutsOf
  <2>9. Kept(o, l, p) <=> p.kind = "PAT" \/ ~ IsTheirs(out, l, p)
    BY <2>8 DEF Kept, IsTheirs, Found, Mine
  <2>10. CASE p.kind = "PAT"
    <3>1. PICK pat \in Pats : p.entries = <<Nit>> \o pat
      <4> HIDE DEF W
      <4> QED  BY <2>3, <2>10, KindOfPacket
    <3>2. Len(p.entries) > 1
      BY <3>1, PatEntries
    <3>3. PICK x : x = NewPat(Simplified(p.entries, id), out.PAT_packet_counter)
      OBVIOUS
    <3>4. x \in W
      BY <2>8, <3>1, <3>3
    <3>5. /\ x.kind = "PAT" /\ x.entries = Simplified(p.entries, id)
          /\ x.counter = out.PAT_packet_counter
      BY <3>3 DEF NewPat
    <3>6. PICK n \in 0 .. CounterMod - 1 : n = (out.PAT_packet_counter + 1) % CounterMod
      <4>1. out.PAT_packet_counter \in Nat
        BY <1>3, <2>8
      <4>2. (out.PAT_packet_counter + 1) % CounterMod \in 0 .. CounterMod - 1
        BY <1>3, <4>1, SMT
      <4> QED  BY <4>2
    <3>61. PICK out2 : out2 = [out EXCEPT !.PAT_packet_counter =
                                 (out.PAT_packet_counter + 1) % CounterMod]
      <4> HIDE DEF W, id, Good
      <4> QED  BY Zenon
    <3>62. out2 = [out EXCEPT !.PAT_packet_counter = n]
      BY <3>6, <3>61
    <3>7. /\ out2 \in OutsOf(l) /\ out2.tps_index = out.tps_index
          /\ out2.PAT_packet_counter = (out.PAT_packet_counter + 1) % CounterMod
      <4> HIDE DEF W, id, Good
      <4> QED  BY <3>6, <3>62 DEF OutsOf
    <3>8. Copied(c, l, p) = [output |-> out2, packets |-> Append(w, x)]
      <4>1. x = [kind |-> "PAT",
                 entries |-> Simplified(p.entries, l[out.tps_index].service_id),
                 counter |-> out.PAT_packet_counter]
        BY <2>8, <3>3 DEF NewPat
      <4> HIDE DEF W, id, Good
      <4> QED  BY <2>6, <2>10, <3>2, <3>61, <4>1, Zenon DEF Copied
    <3>9. Append(w, x) \in Seq(W)
      BY <3>4
    <3>10. Traced(Append(w, x), o, l, packets, m + 1)
      <4>1. Kept(o, l, packets[m + 1]) /\ Shows(x, packets[m + 1], id)
        BY <2>3, <2>10, <3>5 DEF Kept, Shows
      <4> HIDE DEF W
      <4> QED  BY <1>1, <2>1, <2>8, <3>4, <4>1, TracedMore
    <3>11. Counted(Append(w, x), o.PAT_packet_counter, out2.PAT_packet_counter)
      <4>1. out.PAT_packet_counter \in Nat /\ out.PAT_packet_counter < CounterMod
            /\ o.PAT_packet_counter \in Nat
        BY <1>3, <1>4, <2>8
      <4> HIDE DEF W
      <4>2. Counted(Append(w, x), o.PAT_packet_counter,
                    IF x.kind = "PAT" THEN (out.PAT_packet_counter + 1) % CounterMod
                    ELSE out.PAT_packet_counter)
        BY <2>8, <3>4, <3>5, <4>1, CountedMore
      <4> QED  BY <3>5, <3>7, <4>2
    <3>12. Good(f[m + 1], m + 1)
      <4> HIDE DEF W
      <4> QED  BY <2>4, <2>8, <3>7, <3>8, <3>9, <3>10, <3>11
    <3> QED  BY <2>1, <3>12 DEF T
  <2>11. CASE p.kind # "PAT" /\ Kept(o, l, p)
    <3>2. Copied(c, l, p) = [output |-> out, packets |-> Append(w, p)]
      <4> HIDE DEF W, Good, id
      <4>1. Copied([output |-> out, packets |-> w], l, p) =
              [output |-> out, packets |-> IF IsTheirs(out, l, p) THEN w ELSE Append(w, p)]
        BY <2>11, CopiedOther
      <4> QED  BY <2>7, <2>9, <2>11, <4>1
    <3>3. p \in W
      OBVIOUS
    <3>4. Append(w, p) \in Seq(W)
      BY <3>3
    <3>5. Traced(Append(w, p), o, l, packets, m + 1)
      <4>1. Kept(o, l, packets[m + 1]) /\ Shows(p, packets[m + 1], id)
        BY <2>3, <2>11 DEF Shows
      <4> HIDE DEF W
      <4> QED  BY <1>1, <2>1, <2>8, <3>3, <4>1, TracedMore
    <3>6. Counted(Append(w, p), o.PAT_packet_counter, out.PAT_packet_counter)
      <4>1. out.PAT_packet_counter \in Nat /\ out.PAT_packet_counter < CounterMod
            /\ o.PAT_packet_counter \in Nat
        BY <1>3, <1>4, <2>8
      <4> HIDE DEF W
      <4>2. Counted(Append(w, p), o.PAT_packet_counter,
                    IF p.kind = "PAT" THEN (out.PAT_packet_counter + 1) % CounterMod
                    ELSE out.PAT_packet_counter)
        BY <2>8, <2>11, <3>3, <4>1, CountedMore
      <4> QED  BY <2>11, <4>2
    <3>7. Good(f[m + 1], m + 1)
      <4> HIDE DEF W
      <4> QED  BY <2>4, <2>6, <2>8, <3>2, <3>4, <3>5, <3>6
    <3> QED  BY <2>1, <3>7 DEF T
  <2>12. CASE ~ Kept(o, l, p)
    <3>1. p.kind # "PAT" /\ IsTheirs(out, l, p)
      BY <2>9, <2>12 DEF Kept
    <3>2. Copied(c, l, p) = c
      BY <2>6, <3>1 DEF Copied
    <3>3. Traced(w, o, l, packets, m + 1)
      <4>1. ~ Kept(o, l, packets[m + 1])
        BY <2>3, <2>12
      <4> HIDE DEF W
      <4> QED  BY <1>1, <2>1, <2>8, <4>1, TracedSame
    <3>4. Good(f[m + 1], m + 1)
      <4> HIDE DEF W
      <4> QED  BY <2>4, <2>5, <2>6, <3>2, <3>3
    <3> QED  BY <2>1, <3>4 DEF T
  <2> QED  BY <2>10, <2>11, <2>12
<1>7. N \in T
  <2> HIDE DEF T
  <2>1. \A m \in 0 .. N : m \in T
    BY <1>1, <1>5, <1>6, Climbing
  <2>2. N \in 0 .. N
    BY <1>1
  <2> QED  BY <2>1, <2>2
<1>8. PICK c : c = CopiedAll(o, l, packets)
  OBVIOUS
<1>9. Good(c, N)
  BY <1>2, <1>7, <1>8
<1>10. Len(c.packets) \in Nat /\ DOMAIN c.packets = 1 .. Len(c.packets)
  <2>1. c.packets \in Seq(W)
    BY <1>9
  <2> HIDE DEF W
  <2> QED  BY <2>1
<1>11. c.output \in OutsOf(l)
  <2> HIDE DEF W
  <2> QED  BY <1>9
<1> QED  BY <1>8, <1>9, <1>10, <1>11
-----------------------------------------------------------------------------
(***************************************************************************)
(* The inductive invariant.                                                *)
(***************************************************************************)

(* Who has or had a stream is on record, and no PMT lies: once a service   *)
(* had one the program has a stream for it only if the service has had it, *)
(* the PMTs still to be parsed included; outputs are those asked for.      *)
SInv ==
  /\ air \in [pat : Pats, streams : [Services -> SUBSET Streams]]
  /\ users \in [Streams -> SUBSET Services]
  /\ \A s \in Services : \A p \in air.streams[s] : s \in users[p]
  /\ request \in Requests
  /\ Sound(list)
  /\ pat_finished \in BOOLEAN
  /\ pat_finished <=> list # <<>>
  /\ chunk \in Seq(Packets)
  /\ \A k \in DOMAIN chunk : Backed(chunk[k])
  /\ tos # NotYet /\ request # Single => pat_finished /\ Fits(tos, list)

LEMMA SInvInit == Init => SInv
<1> SUFFICES ASSUME Init PROVE SInv
  OBVIOUS
<1> USE DEF Init
<1>1. /\ air \in [pat : Pats, streams : [Services -> SUBSET Streams]]
      /\ users \in [Streams -> SUBSET Services]
      /\ request \in Requests
  OBVIOUS
<1>2. \A s \in Services : \A p \in air.streams[s] : s \in users[p]
  BY <1>1
<1>3. Sound(<<>>)
  <2>1. /\ <<>> \in Seq(Entries) /\ Len(<<>>) = 0 /\ DOMAIN <<>> = {}
    OBVIOUS
  <2>2. 0 <= MaxServices
    BY ServiceSelectAssumption DEF ServiceSelectAssumption
  <2> QED  BY <2>1, <2>2 DEF Sound
<1>4. chunk \in Seq(Packets) /\ DOMAIN chunk = {}
  OBVIOUS
<1> QED  BY <1>1, <1>2, <1>3, <1>4 DEF SInv

(* A change of the PAT leaves the streams.                                 *)
LEMMA SInvChangePat ==
  ASSUME SInv, NEW pat \in Pats, ChangePat(pat)
  PROVE  SInv'
<1>1. UNCHANGED <<users, request, list, pat_finished, tos, chunk>>
  BY DEF ChangePat
<1>2. /\ air' \in [pat : Pats, streams : [Services -> SUBSET Streams]]
      /\ air'.streams = air.streams
  BY DEF ChangePat, SInv
<1>3. Sound(list)'
  BY <1>1 DEF SInv, Sound
<1>4. (\A k \in DOMAIN chunk : Backed(chunk[k]))'
  BY <1>1 DEF SInv, Backed
<1>5. (tos # NotYet /\ request # Single => pat_finished /\ Fits(tos, list))'
  BY <1>1 DEF SInv, Fits, OutsOf, Offers
<1>6. (\A s \in Services : \A p \in air.streams[s] : s \in users[p])'
  BY <1>1, <1>2 DEF SInv
<1> QED  BY <1>1, <1>2, <1>3, <1>4, <1>5, <1>6 DEF SInv

(* Nor does a service that has a new stream take it from the others.       *)
LEMMA SInvChangePmt ==
  ASSUME SInv, NEW s \in Services, NEW streams \in SUBSET Streams, ChangePmt(s, streams)
  PROVE  SInv'
<1>1. UNCHANGED <<request, list, pat_finished, tos, chunk>>
  BY DEF ChangePmt
<1>2. /\ air' \in [pat : Pats, streams : [Services -> SUBSET Streams]]
      /\ air'.streams = [air.streams EXCEPT ![s] = streams]
  BY DEF ChangePmt, SInv
<1>3. /\ users' \in [Streams -> SUBSET Services]
      /\ \A p \in Streams : users[p] \subseteq users'[p]
      /\ \A p \in streams : s \in users'[p]
  BY DEF ChangePmt, SInv
<1>4. Sound(list)'
  <2>1. /\ list \in Seq(Entries)
        /\ \A i \in DOMAIN list : list[i].last_pmt # <<>> =>
             \A p \in list[i].service_pids : p \in Streams /\ list[i].service_id \in users[p]
    BY DEF SInv, Sound
  <2>2. \A i \in DOMAIN list : list[i].last_pmt # <<>> =>
          \A p \in list[i].service_pids : p \in Streams /\ list[i].service_id \in users'[p]
    BY <1>3, <2>1
  <2> QED  BY <1>1, <2>2 DEF SInv, Sound
<1>5. (\A k \in DOMAIN chunk : Backed(chunk[k]))'
  <2>1. chunk \in Seq(Packets) /\ \A k \in DOMAIN chunk : Backed(chunk[k])
    BY DEF SInv
  <2>2. ASSUME NEW k \in DOMAIN chunk, chunk[k].kind = "PMT", NEW p \in chunk[k].streams
        PROVE  chunk[k].service \in users'[p]
    <3>1. chunk[k] \in Packets
      BY <2>1
    <3>2. PICK t \in Services, x \in SUBSET Streams : chunk[k] = Pmt(t, x)
      BY <2>2, <3>1, KindOfPacket
    <3>3. p \in Streams
      BY <2>2, <3>2 DEF Pmt
    <3> QED  BY <1>3, <2>1, <2>2, <3>3 DEF Backed
  <2> QED  BY <1>1, <2>2 DEF Backed
<1>6. (tos # NotYet /\ request # Single => pat_finished /\ Fits(tos, list))'
  BY <1>1 DEF SInv, Fits, OutsOf, Offers
<1>7. (\A t \in Services : \A p \in air.streams[t] : t \in users[p])'
  <2> SUFFICES ASSUME NEW t \in Services, NEW p \in air'.streams[t] PROVE t \in users'[p]
    OBVIOUS
  <2>1. air \in [pat : Pats, streams : [Services -> SUBSET Streams]]
    BY DEF SInv
  <2>2. CASE t = s
    BY <1>2, <1>3, <2>1, <2>2
  <2>3. CASE t # s
    <3>1. p \in air.streams[t] /\ p \in Streams
      BY <1>2, <2>1, <2>3
    <3> QED  BY <1>3, <3>1 DEF SInv
  <2> QED  BY <2>2, <2>3
<1> QED  BY <1>1, <1>2, <1>3, <1>4, <1>5, <1>6, <1>7 DEF SInv

(* What is broadcast is true of what is on the air.                        *)
LEMMA SInvBroadcast ==
  ASSUME SInv, NEW packet \in Received, Broadcast(packet)
  PROVE  SInv'
<1>1. UNCHANGED <<air, users, request, list, pat_finished, tos>>
  BY DEF Broadcast
<1>2. air \in [pat : Pats, streams : [Services -> SUBSET Streams]]
  BY DEF SInv
<1>3. packet \in Packets /\ Backed(packet)
  <2>1. CASE packet = PatPacket
    <3>1. packet = Pat(air.pat) /\ air.pat \in Pats
      BY <1>2, <2>1 DEF PatPacket, Pat
    <3>2. packet.kind # "PMT"
      BY <2>1 DEF PatPacket
    <3> QED  BY <3>1, <3>2 DEF Packets, Backed
  <2>2. ASSUME NEW s \in Services, packet = PmtPacket(s)
        PROVE  packet \in Packets /\ Backed(packet)
    <3>1. packet = Pmt(s, air.streams[s]) /\ air.streams[s] \in SUBSET Streams
      BY <1>2, <2>2 DEF PmtPacket, Pmt
    <3>2. packet.service = s /\ packet.streams = air.streams[s]
      BY <2>2 DEF PmtPacket
    <3>3. Backed(packet)
      BY <3>2 DEF SInv, Backed
    <3> QED  BY <3>1, <3>3 DEF Packets
  <2>3. ASSUME NEW p \in Streams, packet = StreamPacket(p)
        PROVE  packet \in Packets /\ Backed(packet)
    <3>1. PICK o \in SUBSET Services : o = {s \in Services : p \in air.streams[s]}
      OBVIOUS
    <3>2. packet = Stream(p, o)
      BY <2>3, <3>1 DEF StreamPacket, Stream
    <3>3. packet.kind # "PMT"
      BY <3>2 DEF Stream
    <3> QED  BY <3>2, <3>3 DEF Packets, Backed
  <2> QED  BY <2>1, <2>2, <2>3 DEF Received
<1>4. chunk \in Seq(Packets) /\ chunk' = Append(chunk, packet)
  BY DEF SInv, Broadcast
<1>5. /\ chunk' \in Seq(Packets)
      /\ \A k \in DOMAIN chunk' : \/ chunk'[k] = packet
                                  \/ k \in DOMAIN chunk /\ chunk'[k] = chunk[k]
  <2>1. PICK c, n : c \in Seq(Packets) /\ c = chunk /\ n = Append(c, packet)
    BY <1>4
  <2>2. /\ n \in Seq(Packets) /\ Len(c) \in Nat
        /\ DOMAIN n = 1 .. Len(c) + 1 /\ DOMAIN c = 1 .. Len(c)
        /\ n[Len(c) + 1] = packet /\ \A k \in 1 .. Len(c) : n[k] = c[k]
    BY <1>3, <2>1
  <2>3. \A k \in DOMAIN n : k = Len(c) + 1 \/ k \in DOMAIN c
    BY <2>2
  <2> QED  BY <1>4, <2>1, <2>2, <2>3
<1>6. (\A k \in DOMAIN chunk : Backed(chunk[k]))'
  BY <1>1, <1>3, <1>5 DEF SInv, Backed
<1>7. Sound(list)'
  BY <1>1 DEF SInv, Sound
<1>8. (tos # NotYet /\ request # Single => pat_finished /\ Fits(tos, list))'
  BY <1>1 DEF SInv, Fits, OutsOf, Offers
<1>9. (\A s \in Services : \A p \in air.streams[s] : s \in users[p])'
  BY <1>1 DEF SInv
<1> QED  BY <1>1, <1>5, <1>6, <1>7, <1>8, <1>9 DEF SInv
(* A turn: the list is what was parsed, each of the outputs asked for was  *)
(* given what CopiedAll gives of all that was received.                    *)
LEMMA TurnFacts ==
  ASSUME SInv, NEW leftover \in Leftovers, TurnOn(leftover), request # Single, tos' # NotYet
  PROVE  \E outputs :
           /\ Sound(list') /\ pat_finished' = TRUE
           /\ Fits(outputs, list') /\ Fits(tos', list')
           /\ tos # NotYet => outputs = tos
           /\ DOMAIN tos' = DOMAIN outputs /\ DOMAIN written' = DOMAIN outputs
           /\ \A i \in DOMAIN outputs :
                LET c == CopiedAll(outputs[i], list', chunk)
                IN  /\ outputs[i] \in OutsOf(list')
                    /\ tos'[i] = c.output /\ written'[i] = c.packets
<1>1. PICK known : known = ParsedAll(chunk, leftover)
  OBVIOUS
<1>2. Known(known) /\ (list # <<>> => SameServices(list, known.list))
  BY <1>1, ParsedAllKeeps DEF SInv
<1>3. list' = known.list /\ pat_finished' = known.pat_finished
  BY <1>1 DEF TurnOn
<1>4. PICK outputs \in Outputs(known) :
        /\ outputs # NotYet
        /\ tos' = [i \in DOMAIN outputs |->
                     CopiedAll(outputs[i], known.list, chunk).output]
        /\ written' = [i \in DOMAIN outputs |->
                         CopiedAll(outputs[i], known.list, chunk).packets]
  <2>1. PICK outputs \in Outputs(known) :
          IF outputs = NotYet
          THEN tos' = NotYet /\ written' = <<>>
          ELSE LET copies == [i \in DOMAIN outputs |->
                                CopiedAll(outputs[i], known.list, chunk)]
               IN  /\ tos' = [i \in DOMAIN outputs |-> copies[i].output]
                   /\ written' = [i \in DOMAIN outputs |-> copies[i].packets]
    BY <1>1 DEF TurnOn
  <2>2. outputs # NotYet
    BY <2>1
  <2> QED  BY <2>1, <2>2
<1>5. Sound(known.list) /\ known.list \in Seq(Entries)
  BY <1>2 DEF Known, Sound
<1>6. /\ Fits(outputs, known.list)
      /\ tos # NotYet => outputs = tos
      /\ known.pat_finished
  <2>1. CASE tos # NotYet
    <3>1. outputs = tos
      BY <1>4, <2>1 DEF Outputs
    <3>2. pat_finished /\ Fits(tos, list) /\ list # <<>> /\ list \in Seq(Entries)
      BY <2>1 DEF SInv, Sound
    <3>3. SameServices(list, known.list)
      BY <1>2, <3>2
    <3>4. tos \in Seq(OutsOf(list))
      BY <3>2 DEF Fits
    <3>5. Fits(tos, known.list)
      BY <1>5, <3>2, <3>3, <3>4, FitsStill
    <3>6. Len(list) # 0
      BY <3>2, EmptySeq
    <3>7. known.list # <<>>
      <4>1. Len(<<>>) = 0
        OBVIOUS
      <4> QED  BY <3>3, <3>6, <4>1 DEF SameServices
    <3> QED  BY <1>2, <3>1, <3>5, <3>7 DEF Known
  <2>2. CASE tos = NotYet
    <3>1. request \in Requests
      BY DEF SInv
    <3>2. Fits(outputs, known.list)
      BY <1>2, <1>4, <2>2, <3>1, NewFit
    <3>3. known.pat_finished
      BY <1>4, <2>2 DEF Outputs
    <3> QED  BY <2>2, <3>2, <3>3
  <2> QED  BY <2>1, <2>2
<1>7. outputs \in Seq(OutsOf(known.list)) /\ DOMAIN outputs = 1 .. Len(outputs)
      /\ Len(outputs) \in Nat
  BY <1>6 DEF Fits
<1>8. \A i \in DOMAIN outputs : outputs[i] \in OutsOf(known.list)
  BY <1>7
<1>9. chunk \in Seq(Packets)
  BY DEF SInv
<1>10. ASSUME NEW i \in DOMAIN outputs
       PROVE  /\ tos'[i] \in OutsOf(known.list)
              /\ tos'[i].tps_index = outputs[i].tps_index
  <2>1. tos'[i] = CopiedAll(outputs[i], known.list, chunk).output
    BY <1>4
  <2>2. outputs[i] \in OutsOf(known.list)
    BY <1>8
  <2>3. PICK o \in OutsOf(known.list) : o = outputs[i]
    BY <2>2
  <2>4. /\ CopiedAll(o, known.list, chunk).output \in OutsOf(known.list)
        /\ CopiedAll(o, known.list, chunk).output.tps_index = o.tps_index
    BY <1>9, CopyFacts
  <2> QED  BY <2>1, <2>3, <2>4
<1>11. tos' \in Seq(OutsOf(known.list)) /\ Len(tos') = Len(outputs)
  <2>1. tos' = [i \in 1 .. Len(outputs) |-> tos'[i]]
    BY <1>4, <1>7
  <2>2. \A i \in 1 .. Len(outputs) : tos'[i] \in OutsOf(known.list)
    BY <1>7, <1>10
  <2> QED  BY <1>7, <2>1, <2>2, IsASeq
<1>12. Fits(tos', known.list)
  <2>1. SameServices(known.list, known.list)
    BY DEF SameServices
  <2>2. PICK t : t = tos'
    OBVIOUS
  <2>3. /\ t \in Seq(OutsOf(known.list)) /\ Len(t) = Len(outputs)
        /\ \A i \in DOMAIN outputs : t[i].tps_index = outputs[i].tps_index
    BY <1>10, <1>11, <2>2
  <2>4. Fits(t, known.list)
    BY <1>5, <1>6, <2>1, <2>3, FitsStill
  <2> QED  BY <2>2, <2>4
<1>13. DOMAIN tos' = DOMAIN outputs /\ DOMAIN written' = DOMAIN outputs
  BY <1>4
<1>14. pat_finished' = TRUE
  BY <1>2, <1>3, <1>6 DEF Known
<1>15. ASSUME NEW i \in DOMAIN outputs
       PROVE  LET c == CopiedAll(outputs[i], list', chunk)
              IN  /\ outputs[i] \in OutsOf(list')
                  /\ tos'[i] = c.output /\ written'[i] = c.packets
  BY <1>3, <1>4, <1>8
<1> QED  BY <1>3, <1>5, <1>6, <1>12, <1>13, <1>14, <1>15

LEMMA SInvTurn ==
  ASSUME SInv, NEW leftover \in Leftovers, TurnOn(leftover)
  PROVE  SInv'
<1>1. UNCHANGED <<air, users, request>> /\ chunk' = <<>>
  BY DEF TurnOn
<1>2. Known(ParsedAll(chunk, leftover))
  BY ParsedAllKeeps DEF SInv
<1>3. list' = ParsedAll(chunk, leftover).list /\ pat_finished' = ParsedAll(chunk, leftover).pat_finished
  BY DEF TurnOn
<1>4. /\ Sound(list')
      /\ pat_finished' \in BOOLEAN
      /\ pat_finished' <=> list' # <<>>
  BY <1>2, <1>3 DEF Known
<1>5. Sound(list)'
  BY <1>1, <1>4 DEF Sound
<1>6. (tos # NotYet /\ request # Single => pat_finished /\ Fits(tos, list))'
  <2> SUFFICES ASSUME tos' # NotYet, request' # Single
               PROVE  pat_finished' /\ Fits(tos, list)'
    OBVIOUS
  <2>1. pat_finished' = TRUE /\ Fits(tos', list')
    BY <1>1, TurnFacts
  <2> QED  BY <1>1, <2>1 DEF Fits, OutsOf, Offers
<1>7. chunk' \in Seq(Packets) /\ DOMAIN chunk' = {}
  BY <1>1
<1>8. (\A s \in Services : \A p \in air.streams[s] : s \in users[p])'
  BY <1>1 DEF SInv
<1> QED  BY <1>1, <1>4, <1>5, <1>6, <1>7, <1>8 DEF SInv

LEMMA SInvNext == SInv /\ [Next]_vars => SInv'
<1> SUFFICES ASSUME SInv, [Next]_vars PROVE SInv'
  OBVIOUS
<1>1. ASSUME NEW pat \in Pats, ChangePat(pat) PROVE SInv'
  BY <1>1, SInvChangePat
<1>2. ASSUME NEW s \in Services, NEW streams \in SUBSET Streams, ChangePmt(s, streams)
      PROVE  SInv'
  BY <1>2, SInvChangePmt
<1>3. ASSUME NEW packet \in Received, Broadcast(packet) PROVE SInv'
  BY <1>3, SInvBroadcast
<1>4. ASSUME NEW leftover \in Leftovers, TurnOn(leftover) PROVE SInv'
  BY <1>4, SInvTurn
<1>5. CASE UNCHANGED vars
  BY <1>5 DEF SInv, vars, Sound, Backed, Fits, OutsOf, Offers
<1> QED  BY <1>1, <1>2, <1>3, <1>4, <1>5 DEF Next, Turn

(* The invariant holds of every state of the program.                      *)
THEOREM SInvAlways == Spec => []SInv
<1> QED  BY SInvInit, SInvNext, PTL DEF Spec
-----------------------------------------------------------------------------
(***************************************************************************)
(* What the runs check, for every instance.                                *)
(***************************************************************************)

(* create_tos_per_service gives every service asked for an output of its   *)
(* own, in the order they were asked for, and none to another.             *)
LEMMA SInvServes == SInv => EachServed
<1> SUFFICES ASSUME SInv PROVE EachServed
  OBVIOUS
<1>1. list \in Seq(Entries) /\ Len(list) <= MaxServices /\ DOMAIN list = 1 .. Len(list)
  BY DEF SInv, Sound
<1>2. ASSUME tos # NotYet, request # Single
      PROVE  /\ \A i \in DOMAIN tos : /\ tos[i].tps_index \in DOMAIN list
                                    /\ tos[i].PAT_packet_counter \in 0 .. CounterMod - 1
             /\ request = AllServices =>
                  [i \in DOMAIN tos |-> ServiceOf(i)]
                    = [i \in DOMAIN list |-> list[i].service_id]
             /\ request # AllServices =>
                  \E place \in Embeddings(Len(tos), Len(request)) :
                    /\ \A i \in DOMAIN tos : ServiceOf(i) = request[place[i]]
                    /\ \A k \in DOMAIN request :
                         (\E i \in DOMAIN list : list[i].service_id = request[k])
                           => \E i \in DOMAIN tos : place[i] = k
  <2>1. Fits(tos, list)
    BY <1>2 DEF SInv
  <2>2. tos \in Seq(OutsOf(list)) /\ DOMAIN tos = 1 .. Len(tos)
    BY <2>1 DEF Fits
  <2>3. \A i \in DOMAIN tos : tos[i] \in OutsOf(list)
    BY <2>2
  <2>4. \A i \in DOMAIN tos : /\ tos[i].tps_index \in DOMAIN list
                            /\ tos[i].PAT_packet_counter \in 0 .. CounterMod - 1
    BY <2>3 DEF OutsOf
  <2>5. ASSUME request = AllServices
        PROVE  [i \in DOMAIN tos |-> ServiceOf(i)]
                 = [i \in DOMAIN list |-> list[i].service_id]
    <3>1. DOMAIN tos = DOMAIN list /\ \A i \in DOMAIN tos : tos[i].tps_index = i
      BY <1>1, <2>1, <2>2, <2>5 DEF Fits
    <3> QED  BY <3>1 DEF ServiceOf
  <2>6. ASSUME request # AllServices
        PROVE  \E place \in Embeddings(Len(tos), Len(request)) :
                 /\ \A i \in DOMAIN tos : ServiceOf(i) = request[place[i]]
                 /\ \A k \in DOMAIN request :
                      (\E i \in DOMAIN list : list[i].service_id = request[k])
                        => \E i \in DOMAIN tos : place[i] = k
    BY <2>1, <2>6 DEF Fits, Offers, ServiceOf
  <2> QED  BY <2>4, <2>5, <2>6
<1> QED  BY <1>1, <1>2 DEF EachServed

THEOREM ServicesAreServed == Spec => []EachServed
<1> QED  BY SInvAlways, SInvServes, PTL

(* Packets are copied by a turn of the loop, and by nothing else.          *)
LEMMA CopyingIsTurn ==
  ASSUME SInv, [Next]_vars, Copying
  PROVE  Turn
<1>1. chunk # <<>> /\ chunk' = <<>>
  BY DEF Copying
<1>2. ~ UNCHANGED vars
  BY <1>1 DEF vars
<1>3. ASSUME NEW pat \in Pats, ChangePat(pat) PROVE FALSE
  BY <1>1, <1>3 DEF ChangePat
<1>4. ASSUME NEW s \in Services, NEW streams \in SUBSET Streams, ChangePmt(s, streams)
      PROVE  FALSE
  BY <1>1, <1>4 DEF ChangePmt
<1>5. ASSUME NEW packet \in Received, Broadcast(packet) PROVE FALSE
  <2>1. chunk \in Seq(Packets) /\ chunk' = Append(chunk, packet)
    BY <1>5 DEF SInv, Broadcast
  <2>2. Len(Append(chunk, packet)) = Len(chunk) + 1 /\ Len(chunk) \in Nat /\ Len(<<>>) = 0
    BY <2>1
  <2> QED  BY <1>1, <2>1, <2>2
<1> QED  BY <1>2, <1>3, <1>4, <1>5 DEF Next

(* What was written for output i of a turn, o is what it was before it.    *)
Wrote(i, o) ==
  /\ o.tps_index \in DOMAIN list'
  /\ tos'[i].tps_index = o.tps_index
  /\ DOMAIN written'[i] = 1 .. Len(written'[i]) /\ Len(written'[i]) \in Nat
  /\ Traced(written'[i], o, list', chunk, Len(chunk))
  /\ Counted(written'[i], o.PAT_packet_counter, tos'[i].PAT_packet_counter)
  /\ tos # NotYet => o = tos[i]

LEMMA CopyingWrites ==
  ASSUME SInv, [Next]_vars, Copying
  PROVE  /\ Sound(list') /\ UNCHANGED <<air, users, request>>
         /\ \A i \in DOMAIN tos' : \E o : Wrote(i, o)
<1>1. PICK leftover \in Leftovers : TurnOn(leftover)
  BY CopyingIsTurn DEF Turn
<1>2. request # Single /\ tos' # NotYet
  BY DEF Copying
<1>3. PICK outputs :
        /\ Sound(list')
        /\ tos # NotYet => outputs = tos
        /\ DOMAIN tos' = DOMAIN outputs
        /\ \A i \in DOMAIN outputs :
             LET c == CopiedAll(outputs[i], list', chunk)
             IN  /\ outputs[i] \in OutsOf(list')
                 /\ tos'[i] = c.output /\ written'[i] = c.packets
  BY <1>1, <1>2, TurnFacts
<1>4. ASSUME NEW i \in DOMAIN tos'
      PROVE  Wrote(i, outputs[i])
  <2>1. PICK o, c, l : /\ o = outputs[i] /\ l = list' /\ c = CopiedAll(o, l, chunk)
                       /\ o \in OutsOf(l)
                       /\ tos'[i] = c.output /\ written'[i] = c.packets
    BY <1>3, <1>4
  <2>2. chunk \in Seq(Packets)
    BY DEF SInv
  <2>3. /\ c.output.tps_index = o.tps_index
        /\ Len(c.packets) \in Nat /\ DOMAIN c.packets = 1 .. Len(c.packets)
        /\ Traced(c.packets, o, l, chunk, Len(chunk))
        /\ Counted(c.packets, o.PAT_packet_counter, c.output.PAT_packet_counter)
    BY <2>1, <2>2, CopyFacts
  <2>4. o.tps_index \in DOMAIN l
    BY <2>1 DEF OutsOf
  <2> QED  BY <1>3, <2>1, <2>3, <2>4 DEF Wrote
<1>5. UNCHANGED <<air, users, request>>
  BY <1>1 DEF TurnOn
<1> QED  BY <1>3, <1>4, <1>5

(* A packet that is kept is among those written.                           *)
LEMMA KeptIsWritten ==
  ASSUME NEW w, NEW o, NEW l, NEW packets \in Seq(Packets),
         Traced(w, o, l, packets, Len(packets)),
         NEW k \in DOMAIN packets, packets[k].kind # "PAT", Kept(o, l, packets[k])
  PROVE  packets[k] \in Elements(w)
<1>1. PICK place \in Embeddings(Len(w), Len(packets)) :
        /\ \A j \in DOMAIN packets : j <= Len(packets) /\ Kept(o, l, packets[j]) =>
             \E i \in DOMAIN w : place[i] = j
        /\ \A i \in DOMAIN w :
             Shows(w[i], packets[place[i]], l[o.tps_index].service_id)
  BY DEF Traced
<1>2. k <= Len(packets)
  OBVIOUS
<1>3. PICK i \in DOMAIN w : place[i] = k
  BY <1>1, <1>2
<1>4. w[i] = packets[k]
  BY <1>1, <1>3 DEF Shows
<1> QED  BY <1>4 DEF Elements

(* And one that is not is not.                                             *)
LEMMA WrittenIsKept ==
  ASSUME NEW w, NEW o, NEW l, NEW packets \in Seq(Packets),
         Traced(w, o, l, packets, Len(packets)),
         NEW k \in DOMAIN packets, packets[k].kind # "PAT", ~ Kept(o, l, packets[k])
  PROVE  packets[k] \notin Elements(w)
<1> SUFFICES ASSUME NEW i \in DOMAIN w, w[i] = packets[k] PROVE FALSE
  BY DEF Elements
<1>1. PICK place \in Embeddings(Len(w), Len(packets)) :
        \A j \in DOMAIN w : /\ Kept(o, l, packets[place[j]])
                            /\ Shows(w[j], packets[place[j]], l[o.tps_index].service_id)
  BY DEF Traced
<1>2. CASE packets[place[i]].kind = "PAT"
  <2>1. w[i].kind = "PAT"
    BY <1>1, <1>2 DEF Shows
  <2> QED  BY <2>1
<1>3. CASE packets[place[i]].kind # "PAT"
  <2>1. w[i] = packets[place[i]]
    BY <1>1, <1>3 DEF Shows
  <2>2. packets[place[i]] = packets[k]
    BY <2>1
  <2> QED  BY <1>1, <2>2
<1> QED  BY <1>2, <1>3

(* The service of the present PMT has the streams that it sends.           *)
LEMMA KnowsFacts ==
  ASSUME NEW l, Sound(l), NEW s, Knows(l, s),
         NEW j \in DOMAIN l, l[j].service_id = s
  PROVE  l[j].service_pids = air.streams[s]
<1>1. PICK i \in DOMAIN l : l[i].service_id = s /\ l[i].last_pmt = <<air.streams[s]>>
  BY DEF Knows
<1>2. i = j
  BY <1>1 DEF Sound
<1>3. l[j].last_pmt = <<air.streams[s]>> /\ <<air.streams[s]>> # <<>>
  BY <1>1, <1>2
<1>4. l[j].last_pmt = <<l[j].service_pids>>
  BY <1>3 DEF Sound
<1>5. <<l[j].service_pids>>[1] = <<air.streams[s]>>[1]
  BY <1>3, <1>4
<1> QED  BY <1>5
LEMMA OwnPassStep ==
  ASSUME SInv, [Next]_vars, Copying
  PROVE  OwnPass
<1> SUFFICES ASSUME NEW i \in DOMAIN tos', NEW k \in DOMAIN chunk, NEW s, s = ServiceOf(i)',
                    \/ chunk[k].kind = "PMT" /\ s \in chunk[k].of
                    \/ s \in chunk[k].of /\ Knows(list', s) /\ Carries(s, chunk[k])
                    \/ /\ chunk[k].kind = "stream" /\ users[chunk[k].pid] \subseteq {s}
                       /\ OthersAreTold(list', s)
             PROVE  chunk[k] \in Elements(written'[i])
  BY DEF OwnPass
<1>1. PICK o, l : l = list' /\ Sound(l) /\ Wrote(i, o)
  BY CopyingWrites
<1>2. /\ o.tps_index \in DOMAIN l /\ s = l[o.tps_index].service_id
      /\ Traced(written'[i], o, l, chunk, Len(chunk))
  BY <1>1 DEF Wrote, ServiceOf
<1>3. chunk \in Seq(Packets) /\ chunk[k] \in Packets
  BY DEF SInv
<1>4. PICK p : p = chunk[k]
  OBVIOUS
<1>5. p.kind # "PAT" /\ ~ IsTheirs(o, l, p)
  <2>1. CASE p.kind = "PAT"
    <3>1. PICK pat \in Pats : p = Pat(pat)
      BY <1>3, <1>4, <2>1, KindOfPacket
    <3>2. p.of = {}
      BY <3>1 DEF Pat
    <3> QED  BY <1>4, <2>1, <3>2
  <2>2. CASE p.kind = "PMT"
    <3>1. PICK t \in Services, x \in SUBSET Streams : p = Pmt(t, x)
      BY <1>3, <1>4, <2>2, KindOfPacket
    <3>2. p.of = {p.service}
      BY <3>1 DEF Pmt
    <3>3. p.service = s
      BY <1>4, <2>2, <3>2
    <3>4. Mine(o, l, p)
      BY <1>2, <2>2, <3>3 DEF Mine, Has
    <3> QED  BY <2>2, <3>4 DEF IsTheirs
  <2>3. CASE p.kind = "stream"
    <3>1. CASE users[p.pid] \subseteq {s} /\ OthersAreTold(l, s)
      <4>1. ASSUME Found(o, l, p) PROVE FALSE
        <5>1. PICK j \in DOMAIN l \ {o.tps_index} : Has(l[j], p)
          BY <4>1 DEF Found
        <5>2. p.pid \in l[j].service_pids
          BY <2>3, <5>1 DEF Has
        <5>3. l[j].service_id \in Services
          <6>1. l[j] \in Entries
            BY <1>1, <5>1 DEF Sound
          <6> QED  BY <6>1 DEF Entries
        <5>4. l[j].service_id # s
          BY <1>1, <1>2, <5>1 DEF Sound
        <5>5. l[j].last_pmt # <<>>
          BY <3>1, <5>1, <5>3, <5>4 DEF OthersAreTold, IsTold
        <5>6. l[j].service_id \in users[p.pid]
          BY <1>1, <5>1, <5>2, <5>5 DEF Sound
        <5> QED  BY <3>1, <5>4, <5>6
      <4> QED  BY <2>3, <4>1 DEF IsTheirs
    <3>2. CASE Knows(l, s) /\ Carries(s, p)
      <4>1. l[o.tps_index].service_pids = air.streams[s]
        BY <1>1, <1>2, <3>2, KnowsFacts
      <4>2. p.pid \in l[o.tps_index].service_pids
        BY <2>3, <3>2, <4>1 DEF Carries
      <4>3. Mine(o, l, p)
        BY <2>3, <4>2 DEF Mine, Has
      <4> QED  BY <2>3, <4>3 DEF IsTheirs
    <3> QED  BY <1>1, <1>4, <2>3, <3>1, <3>2
  <2> QED  BY <1>3, <1>4, <2>1, <2>2, <2>3, KindOfPacket
<1>6. Kept(o, l, chunk[k])
  BY <1>4, <1>5 DEF Kept
<1> QED  BY <1>2, <1>3, <1>4, <1>5, <1>6, KeptIsWritten

LEMMA OthersAreWithheldStep ==
  ASSUME SInv, [Next]_vars, Copying
  PROVE  OthersAreWithheld
<1> SUFFICES ASSUME NEW i \in DOMAIN tos', NEW k \in DOMAIN chunk, NEW s, s = ServiceOf(i)',
                    s \notin chunk[k].of, IsTold(list', s),
                    chunk[k].kind = "stream" /\ s \in users[chunk[k].pid] =>
                      Knows(list', s) /\ ~Carries(s, chunk[k]),
                    NEW other \in chunk[k].of,
                    Knows(list', other), Carries(other, chunk[k])
             PROVE  chunk[k] \notin Elements(written'[i])
  BY DEF OthersAreWithheld
<1>1. PICK o, l : l = list' /\ Sound(l) /\ Wrote(i, o)
  BY CopyingWrites
<1>2. /\ o.tps_index \in DOMAIN l /\ s = l[o.tps_index].service_id
      /\ Traced(written'[i], o, l, chunk, Len(chunk))
  BY <1>1 DEF Wrote, ServiceOf
<1>3. chunk \in Seq(Packets) /\ chunk[k] \in Packets
  BY DEF SInv
<1>4. PICK p : p = chunk[k]
  OBVIOUS
<1>5. PICK j \in DOMAIN l : l[j].service_id = other
  BY <1>1 DEF Knows
<1>6. j \in DOMAIN l \ {o.tps_index}
  BY <1>2, <1>5
<1>7. l[j].service_pids = air.streams[other]
  BY <1>1, <1>5, KnowsFacts
<1>8. l[o.tps_index].last_pmt # <<>>
  BY <1>1, <1>2 DEF IsTold
<1>9. \A q \in l[o.tps_index].service_pids : q \in Streams /\ s \in users[q]
  BY <1>1, <1>2, <1>8 DEF Sound
<1>10. p.kind # "PAT" /\ IsTheirs(o, l, p)
  <2>1. CASE p.kind = "PAT"
    <3>1. PICK pat \in Pats : p = Pat(pat)
      BY <1>3, <1>4, <2>1, KindOfPacket
    <3>2. p.of = {}
      BY <3>1 DEF Pat
    <3> QED  BY <1>4, <3>2
  <2>2. CASE p.kind = "PMT"
    <3>1. PICK t \in Services, x \in SUBSET Streams : p = Pmt(t, x)
      BY <1>3, <1>4, <2>2, KindOfPacket
    <3>2. p.of = {p.service}
      BY <3>1 DEF Pmt
    <3>3. p.service = other /\ p.service # s
      BY <1>4, <3>2
    <3>4. Found(o, l, p)
      BY <1>5, <1>6, <2>2, <3>3 DEF Found, Has
    <3>5. p.service \notin l[o.tps_index].service_pids
      <4>1. p.service \in Services
        BY <3>1 DEF Pmt
      <4>2. p.service \notin Streams
        BY <4>1, ServiceSelectAssumption DEF ServiceSelectAssumption
      <4> QED  BY <1>9, <4>2
    <3>6. ~ Mine(o, l, p)
      BY <1>2, <2>2, <3>3, <3>5 DEF Mine, Has
    <3> QED  BY <2>2, <3>4, <3>6 DEF IsTheirs
  <2>3. CASE p.kind = "stream"
    <3>1. p.pid \in l[j].service_pids
      BY <1>4, <1>7, <2>3 DEF Carries
    <3>2. Found(o, l, p)
      BY <1>6, <2>3, <3>1 DEF Found, Has
    <3>3. p.pid \notin l[o.tps_index].service_pids
      <4>1. CASE s \in users[p.pid]
        <5>1. Knows(l, s) /\ ~ Carries(s, p)
          BY <1>1, <1>4, <2>3, <4>1
        <5>2. l[o.tps_index].service_pids = air.streams[s]
          BY <1>1, <1>2, <5>1, KnowsFacts
        <5> QED  BY <5>1, <5>2 DEF Carries
      <4>2. CASE s \notin users[p.pid]
        BY <1>9, <4>2
      <4> QED  BY <4>1, <4>2
    <3>4. ~ Mine(o, l, p)
      BY <2>3, <3>3 DEF Mine, Has
    <3> QED  BY <2>3, <3>2, <3>4 DEF IsTheirs
  <2> QED  BY <1>3, <1>4, <2>1, <2>2, <2>3, KindOfPacket
<1>11. ~ Kept(o, l, chunk[k])
  BY <1>4, <1>10 DEF Kept
<1> QED  BY <1>2, <1>3, <1>4, <1>10, <1>11, WrittenIsKept

(* copy_current_service_packet: what is a service's own, or nobody's, is   *)
(* recorded for it unless another has or had it or had no PMT yet; what is *)
(* known to be others' is not, once the service itself had its PMT.        *)
THEOREM OwnIsRecorded == Spec => EachGetsItsOwn
<1>1. SInv /\ [Next]_vars => [Copying => OwnPass /\ OthersAreWithheld]_vars
  BY OwnPassStep, OthersAreWithheldStep
<1> QED  BY <1>1, SInvAlways, PTL DEF Spec, EachGetsItsOwn

(* The PAT of one service: its entry after the NIT's.                      *)
LEMMA SimplifiedIs ==
  ASSUME NEW pat \in Pats, NEW s \in Services, NEW e, e = <<Nit>> \o pat, s \in Elements(e)
  PROVE  Simplified(e, s) = <<Nit, s>>
<1>1. e[1] = Nit /\ Nit # s
  BY PatEntries, ServiceSelectAssumption DEF ServiceSelectAssumption
<1>2. e \in Seq(Services \cup {Nit}) /\ DOMAIN e = 1 .. Len(e) /\ Len(e) \in Nat
  BY PatEntries
<1>3. PICK j \in DOMAIN e : e[j] = s
  BY DEF Elements
<1>4. j \in 2 .. Len(e)
  BY <1>1, <1>2, <1>3
<1>5. {i \in 2 .. Len(e) : e[i] = s} # {}
  BY <1>3, <1>4
<1> QED  BY <1>1, <1>5 DEF Simplified

LEMMA RecordedInOrderStep ==
  ASSUME SInv, [Next]_vars, Copying, NEW i \in DOMAIN tos'
  PROVE  RecordedInOrder(i)
<1>1. PICK o, l, w : l = list' /\ w = written'[i] /\ Sound(l) /\ Wrote(i, o)
  BY CopyingWrites
<1>2. PICK s : s = ServiceOf(i)'
  OBVIOUS
<1>3. /\ o.tps_index \in DOMAIN l /\ s = l[o.tps_index].service_id
      /\ DOMAIN w = 1 .. Len(w)
      /\ Traced(w, o, l, chunk, Len(chunk))
  BY <1>1, <1>2 DEF Wrote, ServiceOf
<1>4. chunk \in Seq(Packets) /\ DOMAIN chunk = 1 .. Len(chunk)
  BY DEF SInv
<1>5. s \in Services
  <2>1. l[o.tps_index] \in Entries
    BY <1>1, <1>3 DEF Sound
  <2> QED  BY <1>3, <2>1 DEF Entries
<1>6. PICK place \in Embeddings(Len(w), Len(chunk)) :
        /\ \A k \in DOMAIN chunk : k <= Len(chunk) /\ Kept(o, l, chunk[k]) =>
             \E j \in DOMAIN w : place[j] = k
        /\ \A j \in DOMAIN w : Shows(w[j], chunk[place[j]], s)
  BY <1>3 DEF Traced
<1>7. /\ DOMAIN place = DOMAIN w
      /\ \A j \in DOMAIN w : place[j] \in DOMAIN chunk
  BY <1>3, <1>4 DEF Embeddings
<1>8. ASSUME NEW k \in DOMAIN chunk, chunk[k].kind = "PAT"
      PROVE  \E j \in DOMAIN place : place[j] = k
  <2>1. k <= Len(chunk) /\ Kept(o, l, chunk[k])
    BY <1>4, <1>8 DEF Kept
  <2> QED  BY <1>6, <1>7, <2>1
<1>9. ASSUME NEW j \in DOMAIN place
      PROVE  IF chunk[place[j]].kind # "PAT" THEN w[j] = chunk[place[j]]
             ELSE /\ w[j].kind = "PAT"
                  /\ s \in Elements(chunk[place[j]].entries) => w[j].entries = <<Nit, s>>
  <2>1. PICK p : p = chunk[place[j]]
    OBVIOUS
  <2>2. p \in Packets /\ Shows(w[j], p, s)
    BY <1>4, <1>6, <1>7, <2>1
  <2>3. CASE p.kind # "PAT"
    BY <2>1, <2>2, <2>3 DEF Shows
  <2>4. CASE p.kind = "PAT"
    <3>1. w[j].kind = "PAT" /\ w[j].entries = Simplified(p.entries, s)
      BY <2>2, <2>4 DEF Shows
    <3>2. PICK pat \in Pats : p.entries = <<Nit>> \o pat
      BY <2>2, <2>4, KindOfPacket
    <3>3. s \in Elements(p.entries) => w[j].entries = <<Nit, s>>
      BY <1>5, <3>1, <3>2, SimplifiedIs
    <3> QED  BY <2>1, <2>4, <3>1, <3>3
  <2> QED  BY <2>3, <2>4
<1> QED  BY <1>1, <1>2, <1>6, <1>8, <1>9 DEF RecordedInOrder

LEMMA CountersFollowStep ==
  ASSUME SInv, [Next]_vars, Copying, NEW i \in DOMAIN tos'
  PROVE  CountersFollow(i)
<1>1. PICK o : Wrote(i, o)
  BY CopyingWrites
<1> QED  BY <1>1 DEF Wrote, Counted, CountersFollow

(* What is recorded is in the order it came in, with every PAT rewritten   *)
(* in its place, and no gap in their counters, from one turn to the next.  *)
THEOREM PatsAreOwn == Spec => PatsAreRewritten
<1>1. SInv /\ [Next]_vars =>
        [Copying => \A i \in DOMAIN tos' : RecordedInOrder(i) /\ CountersFollow(i)]_vars
  BY RecordedInOrderStep, CountersFollowStep
<1> QED  BY <1>1, SInvAlways, PTL DEF Spec, PatsAreRewritten
=============================================================================
