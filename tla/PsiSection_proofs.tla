-------------------------- MODULE PsiSection_proofs --------------------------
(***************************************************************************)
(* The three properties of parse_PSI, for any sections, lengths, sizes of  *)
(* packets and of the buffer, and any losses.                              *)
(*                                                                         *)
(* That no length parse_PSI copies by leaves its buffer.  StaysInSection   *)
(* says nothing of the packets, and is inductive only together with what   *)
(* the broadcaster is at (Sent): a section is cut where it has bytes left, *)
(* so that a pointer field points into its packet.                         *)
(*                                                                         *)
(* That what is handed on was sent (Genuine): what is in assembly began in *)
(* a section that was sent (Traced), and a CRC that fits tells that all of *)
(* it is that section's.                                                   *)
(*                                                                         *)
(* That what must be handed on is, in time (OnTime): while all is well the *)
(* assembly holds just what was sent of it (Whole), and nothing else is    *)
(* late but for one section of the PMT (FewLate).                          *)
(***************************************************************************)
EXTENDS PsiSection, FiniteSetTheorems, SequenceTheorems, WellFoundedInduction, TLAPS

(* What holds of every state of an assembly.                               *)
Sane(p) ==
  /\ p \in StateType
  /\ p.recv_payload <= p.n_payload
  /\ p.next_recv_payload <= p.n_next_payload

NoneKept(p) == p.stat = "PROC" => p.next_recv_payload = 0

(* The section that is being sent has bytes left.                          *)
Transmission(t) ==
  /\ t.section \in Sections
  /\ t.number \in Nat
  /\ t.sent \in Nat
  /\ t.sent < Length[t.section]

Sent ==
  /\ current = Nothing \/ Transmission(current)
  /\ counter \in 0 .. CounterMod - 1

SInv == StaysInSection /\ Sent

(* A packet as it is received.                                             *)
Packet(k) ==
  /\ k.pusi \in BOOLEAN
  /\ k.pointer_field \in Nat
  /\ k.counter \in 0 .. CounterMod - 1
  /\ k.number \in Nat
  /\ k.data \in Seq(Bytes)
  /\ k.pusi => /\ k.pointer_field < Len(k.data)
               /\ Len(k.data) <= Payload
               /\ Sections # {}

LEMMA SaneParts ==
  ASSUME NEW p, Sane(p)
  PROVE  /\ p.payload \in [1 .. MaxSection -> Bytes]
         /\ p.next_payload \in [1 .. Payload -> Bytes]
         /\ p.n_payload \in 0 .. MaxSection /\ p.recv_payload \in 0 .. MaxSection
         /\ p.n_next_payload \in 0 .. MaxSection
         /\ p.next_recv_payload \in 0 .. Payload
         /\ p.next_recv_payload <= p.n_next_payload
         /\ p.recv_payload <= p.n_payload
<1>1. p \in StateType
  BY DEF Sane
<1>2. p.payload \in [1 .. MaxSection -> Bytes]
  BY <1>1 DEF StateType
<1>3. p.next_payload \in [1 .. Payload -> Bytes]
  BY <1>1 DEF StateType
<1>4. /\ p.n_payload \in 0 .. MaxSection /\ p.recv_payload \in 0 .. MaxSection
      /\ p.n_next_payload \in 0 .. MaxSection
      /\ p.next_recv_payload \in 0 .. Payload
  BY <1>1 DEF StateType
<1> QED BY <1>2, <1>3, <1>4 DEF Sane

LEMMA StaysMeansSane == StaysInSection <=> Sane(ps) /\ NoneKept(ps)
BY DEF StaysInSection, Sane, NoneKept

-----------------------------------------------------------------------------
(* A buffer stays one, when what is copied is there.                       *)
LEMMA CopiedType ==
  ASSUME NEW m \in Nat, NEW buffer \in [1 .. m -> Bytes],
         NEW k \in Nat, NEW data \in [1 .. k -> Bytes],
         NEW at \in Nat, NEW from \in Nat, NEW n \in Nat, from + n <= k
  PROVE  Copied(buffer, at, data, from, n) \in [1 .. m -> Bytes]
<1> SUFFICES ASSUME NEW i \in 1 .. m
             PROVE  Copied(buffer, at, data, from, n)[i] \in Bytes
  BY DEF Copied
<1>1. CASE i \in at + 1 .. at + n
  <2>1. from + i - at \in 1 .. k
    BY <1>1
  <2> QED BY <1>1, <2>1 DEF Copied
<1>2. CASE i \notin at + 1 .. at + n
  BY <1>2 DEF Copied
<1> QED BY <1>1, <1>2

LEMMA LengthFits ==
  ASSUME NEW k, Packet(k), k.pusi
  PROVE  SectionLength(k) \in 0 .. MaxSection
<1>1. PICK s \in Sections : Header < Length[s] /\ Length[s] <= MaxSection
  BY PsiAssumption DEF Packet, PsiAssumption
<1>2. Header - 1 \in 0 .. MaxSection /\ MaxSection \in 0 .. MaxSection
  BY <1>1, PsiAssumption DEF PsiAssumption
<1>3. \A t \in Sections : Length[t] \in 0 .. MaxSection
  BY PsiAssumption DEF PsiAssumption
<1> QED BY <1>2, <1>3 DEF SectionLength

LEMMA LeastFacts ==
  ASSUME NEW a \in Nat, NEW b \in Nat
  PROVE  Least(a, b) \in Nat /\ Least(a, b) <= a /\ Least(a, b) <= b
BY DEF Least

LEMMA DataType ==
  ASSUME NEW k, Packet(k)
  PROVE  Len(k.data) \in Nat /\ k.data \in [1 .. Len(k.data) -> Bytes]
BY LenProperties DEF Packet

-----------------------------------------------------------------------------
(* Each step of parse_PSI keeps an assembly sane.                          *)
LEMMA TakenUpSane ==
  ASSUME NEW p, Sane(p)
  PROVE  Sane(TakenUp(p)) /\ NoneKept(TakenUp(p))
<1> DEFINE copy == Copied(p.payload, 0, p.next_payload, 0, p.next_recv_payload)
<1>1. /\ p.payload \in [1 .. MaxSection -> Bytes]
      /\ p.next_payload \in [1 .. Payload -> Bytes]
      /\ p.next_recv_payload \in 0 .. Payload
      /\ p.n_next_payload \in 0 .. MaxSection
      /\ p.next_recv_payload <= p.n_next_payload
  BY SaneParts
<1>2. copy \in [1 .. MaxSection -> Bytes]
  <2>1. /\ MaxSection \in Nat /\ Payload \in Nat
        /\ p.next_recv_payload \in Nat /\ 0 + p.next_recv_payload <= Payload
    BY <1>1, PsiAssumption DEF PsiAssumption
  <2> QED BY <1>1, <2>1, CopiedType
<1>3. p.next_recv_payload \in 0 .. MaxSection
  BY <1>1, PsiAssumption DEF PsiAssumption
<1> HIDE DEF copy
<1>4. TakenUp(p) = [p EXCEPT !.stat = "PROC", !.payload = copy,
                             !.n_payload = p.n_next_payload,
                             !.recv_payload = p.next_recv_payload,
                             !.number = p.next_number,
                             !.n_next_payload = 0,
                             !.next_recv_payload = 0,
                             !.next_number = 0]
  BY DEF TakenUp, copy, Sane, StateType
<1>5. 0 \in 0 .. MaxSection /\ 0 \in 0 .. Payload /\ 0 \in Nat
  BY PsiAssumption DEF PsiAssumption
<1> DEFINE recv == p.next_recv_payload
           n == p.n_next_payload
           number == p.next_number
<1>6. TakenUp(p) \in StateType
  <2>1. recv \in 0 .. MaxSection /\ n \in 0 .. MaxSection /\ number \in Nat
    BY <1>1, <1>3 DEF Sane, StateType
  <2>2. TakenUp(p) = [p EXCEPT !.stat = "PROC", !.payload = copy, !.n_payload = n,
                               !.recv_payload = recv, !.number = number,
                               !.n_next_payload = 0, !.next_recv_payload = 0,
                               !.next_number = 0]
    BY <1>4
  <2> HIDE DEF recv, n, number
  <2> QED BY <1>2, <1>5, <2>1, <2>2, ZenonT(40) DEF Sane, StateType
<1>7. /\ TakenUp(p).recv_payload = p.next_recv_payload
      /\ TakenUp(p).n_payload = p.n_next_payload
      /\ TakenUp(p).next_recv_payload = 0
      /\ TakenUp(p).n_next_payload = 0
  BY <1>4 DEF Sane, StateType
<1> QED BY <1>1, <1>6, <1>7 DEF Sane, NoneKept

LEMMA LeftSane ==
  ASSUME NEW p, Sane(p), NoneKept(p)
  PROVE  Sane(Left(p)) /\ NoneKept(Left(p))
<1>1. CASE p.stat # "FINISHED"
  BY <1>1 DEF Left
<1>2. CASE p.stat = "FINISHED" /\ p.next_recv_payload > 0
  BY <1>2, TakenUpSane DEF Left
<1>3. CASE p.stat = "FINISHED" /\ ~(p.next_recv_payload > 0)
  <2>1. Left(p) = [p EXCEPT !.stat = "INIT"]
    BY <1>3 DEF Left
  <2> QED BY <2>1 DEF Sane, NoneKept, StateType
<1> QED BY <1>1, <1>2, <1>3

LEMMA StartedSane ==
  ASSUME NEW p, Sane(p), NEW k, Packet(k), k.pusi
  PROVE  Sane(Started(p, k)) /\ NoneKept(Started(p, k))
<1> DEFINE n == SectionLength(k)
           room == Len(k.data) - k.pointer_field
           remain == Least(room, n)
           copy == Copied(p.payload, 0, k.data, k.pointer_field, remain)
           stat == IF room > n THEN "FINISHED" ELSE "PROC"
<1>1. n \in 0 .. MaxSection
  BY LengthFits
<1>2. k.data \in [1 .. Len(k.data) -> Bytes] /\ Len(k.data) \in Nat
  BY DataType
<1>3. room \in Nat /\ k.pointer_field \in Nat
  BY <1>2 DEF Packet
<1> HIDE DEF n
<1>4. remain \in Nat /\ remain <= room /\ remain <= n
  BY <1>1, <1>3, LeastFacts
<1> HIDE DEF remain
<1>5. copy \in [1 .. MaxSection -> Bytes]
  <2>1. p.payload \in [1 .. MaxSection -> Bytes] /\ MaxSection \in Nat
    BY SaneParts, PsiAssumption DEF PsiAssumption
  <2>2. k.pointer_field + remain <= Len(k.data) /\ 0 \in Nat
    BY <1>2, <1>3, <1>4
  <2> QED BY <2>1, <2>2, <1>2, <1>3, <1>4, CopiedType
<1> HIDE DEF copy
<1>6. Started(p, k) =
        [p EXCEPT !.stat = stat, !.n_payload = n, !.recv_payload = remain,
                  !.n_next_payload = 0, !.next_recv_payload = 0,
                  !.continuity_counter = k.counter, !.number = k.number,
                  !.next_number = 0, !.payload = copy]
  BY DEF Started, n, remain, copy, Sane, StateType
<1>7. stat \in {"INIT", "PROC", "FINISHED"}
  OBVIOUS
<1> HIDE DEF stat
<1>8. /\ 0 \in 0 .. MaxSection /\ 0 \in 0 .. Payload
      /\ remain \in 0 .. MaxSection
      /\ k.counter \in 0 .. CounterMod - 1 /\ k.number \in Nat /\ 0 \in Nat
  BY <1>1, <1>4, PsiAssumption DEF Packet, PsiAssumption
<1>9. Started(p, k) \in StateType
  BY <1>1, <1>5, <1>6, <1>7, <1>8, ZenonT(40) DEF Sane, StateType
<1>10. /\ Started(p, k).recv_payload = remain
       /\ Started(p, k).n_payload = n
       /\ Started(p, k).next_recv_payload = 0
       /\ Started(p, k).n_next_payload = 0
  BY <1>6 DEF Sane, StateType
<1> QED BY <1>4, <1>9, <1>10 DEF Sane, NoneKept

LEMMA NextKeptSane ==
  ASSUME NEW p, Sane(p), NEW k, Packet(k), k.pusi
  PROVE  Sane(NextKept(p, k))
<1> DEFINE n == SectionLength(k)
           room == Len(k.data) - k.pointer_field
           remain == Least(room, n)
           copy == Copied(p.next_payload, 0, k.data, k.pointer_field, remain)
<1>1. n \in 0 .. MaxSection
  BY LengthFits
<1>2. k.data \in [1 .. Len(k.data) -> Bytes] /\ Len(k.data) \in Nat
  BY DataType
<1>3. room \in 0 .. Payload /\ k.pointer_field \in Nat
  BY <1>2, PsiAssumption DEF Packet, PsiAssumption
<1> HIDE DEF n
<1>4. remain \in Nat /\ remain <= room /\ remain <= n
  BY <1>1, <1>3, LeastFacts
<1> HIDE DEF remain
<1>5. copy \in [1 .. Payload -> Bytes]
  <2>1. p.next_payload \in [1 .. Payload -> Bytes] /\ Payload \in Nat
    BY SaneParts, PsiAssumption DEF PsiAssumption
  <2>2. k.pointer_field + remain <= Len(k.data) /\ 0 \in Nat
    BY <1>2, <1>3, <1>4
  <2> QED BY <2>1, <2>2, <1>2, <1>3, <1>4, CopiedType
<1>6. remain \in 0 .. Payload
  BY <1>3, <1>4, PsiAssumption DEF PsiAssumption
<1> HIDE DEF copy, room
<1>7. NextKept(p, k) =
        [p EXCEPT !.n_next_payload = n, !.next_recv_payload = remain,
                  !.next_number = k.number, !.next_payload = copy]
  BY DEF NextKept, n, remain, room, copy, Sane, StateType
<1> QED BY <1>1, <1>4, <1>5, <1>6, <1>7 DEF Sane, StateType, Packet

LEMMA ExtendedSane ==
  ASSUME NEW p, Sane(p), NEW k, Packet(k), k.pusi \/ NoneKept(p), p.stat = "PROC"
  PROVE  Sane(Extended(p, k)) /\ NoneKept(Extended(p, k))
<1> DEFINE remain == IF k.pusi THEN k.pointer_field ELSE Len(k.data)
           missing == p.n_payload - p.recv_payload
           taken == Least(remain, missing)
           copy == Copied(p.payload, p.recv_payload, k.data, 0, taken)
           stat == IF k.pusi \/ remain >= missing THEN "FINISHED" ELSE "PROC"
<1>1. k.data \in [1 .. Len(k.data) -> Bytes] /\ Len(k.data) \in Nat
  BY DataType
<1>2. remain \in Nat /\ remain <= Len(k.data)
  BY <1>1 DEF Packet
<1>3. /\ p.n_payload \in 0 .. MaxSection /\ p.recv_payload \in 0 .. MaxSection
      /\ missing \in Nat
  BY PsiAssumption DEF Sane, StateType, PsiAssumption
<1> HIDE DEF remain, missing
<1>4. taken \in Nat /\ taken <= remain /\ taken <= missing
  BY <1>2, <1>3, LeastFacts
<1> HIDE DEF taken
<1>5. copy \in [1 .. MaxSection -> Bytes]
  <2>1. p.payload \in [1 .. MaxSection -> Bytes] /\ MaxSection \in Nat
    BY PsiAssumption DEF Sane, StateType, PsiAssumption
  <2>2. 0 + taken <= Len(k.data) /\ p.recv_payload \in Nat
    BY <1>1, <1>2, <1>3, <1>4
  <2> QED BY <2>1, <2>2, <1>1, <1>4, CopiedType
<1>6. /\ p.recv_payload + taken \in 0 .. MaxSection
      /\ p.recv_payload + taken <= p.n_payload
  BY <1>3, <1>4, PsiAssumption DEF missing, PsiAssumption
<1>7. /\ stat \in {"INIT", "PROC", "FINISHED"}
      /\ stat = "PROC" => p.next_recv_payload = 0
  BY DEF NoneKept
<1> HIDE DEF copy, stat
<1>8. Extended(p, k) =
        [p EXCEPT !.stat = stat, !.recv_payload = p.recv_payload + taken,
                  !.continuity_counter = k.counter, !.payload = copy]
  BY DEF Extended, stat, copy, taken, missing, remain, Sane, StateType
<1> QED BY <1>5, <1>6, <1>7, <1>8 DEF Sane, NoneKept, StateType, Packet

LEMMA ContinuedSane ==
  ASSUME NEW p, Sane(p), NoneKept(p), NEW k, Packet(k), p.stat = "PROC"
  PROVE  Sane(Continued(p, k)) /\ NoneKept(Continued(p, k))
<1>1. CASE ~Continuous(p, k)
  <2>1. Continued(p, k) = [p EXCEPT !.stat = "INIT", !.n_payload = 0, !.recv_payload = 0]
    BY <1>1 DEF Continued, Gapped
  <2>2. 0 \in 0 .. MaxSection
    BY PsiAssumption DEF PsiAssumption
  <2>3. Continued(p, k) \in StateType
    BY <2>1, <2>2 DEF Sane, StateType
  <2>4. /\ Continued(p, k).stat = "INIT"
        /\ Continued(p, k).n_payload = 0 /\ Continued(p, k).recv_payload = 0
        /\ Continued(p, k).n_next_payload = p.n_next_payload
        /\ Continued(p, k).next_recv_payload = p.next_recv_payload
    BY <2>1 DEF Sane, StateType
  <2> QED BY <2>3, <2>4 DEF Sane, NoneKept
<1>2. CASE Continuous(p, k) /\ k.pusi
  <2>1. Sane(NextKept(p, k))
    BY <1>2, NextKeptSane
  <2>2. NextKept(p, k).stat = "PROC"
    BY DEF NextKept, Sane, StateType
  <2>3. Continued(p, k) = Extended(NextKept(p, k), k)
    BY <1>2 DEF Continued
  <2> QED BY <1>2, <2>1, <2>2, <2>3, ExtendedSane
<1>3. CASE Continuous(p, k) /\ ~k.pusi
  BY <1>3, ExtendedSane DEF Continued
<1> QED BY <1>1, <1>2, <1>3

(* A call of parse_PSI keeps the assembly sane, whatever the packet.       *)
LEMMA ParseSane ==
  ASSUME NEW p, Sane(p), NoneKept(p), NEW k, Packet(k)
  PROVE  Sane(ParsePSI(p, k)) /\ NoneKept(ParsePSI(p, k))
<1> DEFINE left == Left(p)
           assembled == Assembled(left, k)
<1>1. Sane(left) /\ NoneKept(left)
  BY LeftSane
<1> HIDE DEF left
<1>2. Sane(assembled) /\ NoneKept(assembled)
  <2>1. CASE left.stat = "PROC"
    BY <1>1, <2>1, ContinuedSane DEF Assembled
  <2>2. CASE left.stat # "PROC" /\ k.pusi
    BY <1>1, <2>2, StartedSane DEF Assembled
  <2>3. CASE left.stat # "PROC" /\ ~k.pusi
    BY <1>1, <2>3 DEF Assembled
  <2> QED BY <2>1, <2>2, <2>3
<1> HIDE DEF assembled
<1>3. Sane([assembled EXCEPT !.stat = "INIT"]) /\ NoneKept([assembled EXCEPT !.stat = "INIT"])
  BY <1>2 DEF Sane, NoneKept, StateType
<1>4. ParsePSI(p, k) \in {assembled, [assembled EXCEPT !.stat = "INIT"]}
  BY DEF ParsePSI, Checked, assembled, left
<1> QED BY <1>2, <1>3, <1>4

-----------------------------------------------------------------------------
(* The broadcaster's packets are such.                                     *)
LEMMA FilledType ==
  ASSUME NEW bytes \in Seq(Bytes), NEW n \in Nat
  PROVE  Filled(bytes, n) \in Seq(Bytes) /\ Len(Filled(bytes, n)) = n
<1>1. Filled(bytes, n) \in [1 .. n -> Bytes]
  <2> SUFFICES ASSUME NEW i \in 1 .. n
               PROVE  (IF i <= Len(bytes) THEN bytes[i] ELSE Filler) \in Bytes
    BY DEF Filled
  <2>1. Filler \in Bytes
    BY DEF Filler, Bytes
  <2>2. Len(bytes) \in Nat
    BY LenProperties
  <2>3. i <= Len(bytes) => bytes[i] \in Bytes
    BY <2>2, ElementOfSeq
  <2> QED BY <2>1, <2>3
<1>2. Filled(bytes, n) \in Seq(Bytes)
  BY <1>1, SeqDef
<1>3. DOMAIN Filled(bytes, n) = 1 .. n
  BY DEF Filled
<1>4. DOMAIN Filled(bytes, n) = 1 .. Len(Filled(bytes, n)) /\ Len(Filled(bytes, n)) \in Nat
  BY <1>2, LenProperties
<1> QED BY <1>2, <1>3, <1>4

LEMMA BytesFromType ==
  ASSUME NEW s \in Sections, NEW n \in Nat, n <= Length[s]
  PROVE  BytesFrom(s, n) \in Seq(Bytes) /\ Len(BytesFrom(s, n)) = Length[s] - n
<1>1. Length[s] - n \in Nat
  BY PsiAssumption DEF PsiAssumption
<1>2. BytesFrom(s, n) \in [1 .. Length[s] - n -> Bytes]
  BY <1>1 DEF BytesFrom, Bytes
<1>3. BytesFrom(s, n) \in Seq(Bytes)
  BY <1>1, <1>2, SeqDef
<1>4. DOMAIN BytesFrom(s, n) = 1 .. Length[s] - n
  BY DEF BytesFrom
<1>5. DOMAIN BytesFrom(s, n) = 1 .. Len(BytesFrom(s, n)) /\ Len(BytesFrom(s, n)) \in Nat
  BY <1>3, LenProperties
<1> QED BY <1>1, <1>3, <1>4, <1>5

LEMMA RestType ==
  ASSUME Sent
  PROVE  Rest \in Seq(Bytes)
<1>1. CASE current = Nothing
  BY <1>1, EmptySeq DEF Rest
<1>2. CASE current # Nothing
  BY <1>2, BytesFromType, PsiAssumption DEF Sent, Transmission, Rest, PsiAssumption
<1> QED BY <1>1, <1>2

LEMMA ContinuationIsPacket ==
  ASSUME Sent
  PROVE  Packet(Continuation)
BY RestType, FilledType, PsiAssumption DEF Packet, Continuation, Sent, PsiAssumption

LEMMA BareIsPacket ==
  ASSUME Sent
  PROVE  Packet(Bare)
<1>1. Filled(<<>>, Payload + 1) \in Seq(Bytes)
  <2>1. <<>> \in Seq(Bytes) /\ Payload + 1 \in Nat
    BY EmptySeq, PsiAssumption DEF PsiAssumption
  <2> QED BY <2>1, FilledType
<1>2. (counter - 1) % CounterMod \in 0 .. CounterMod - 1
  BY PsiAssumption DEF Sent, PsiAssumption
<1> QED BY <1>1, <1>2 DEF Packet, Bare

LEMMA BeginningIsPacket ==
  ASSUME Sent, NEW s \in Sections, NEW n \in Nat, NEW second \in Seq(Bytes),
         Payload - 1 - Len(Rest) > 0
  PROVE  Packet(Beginning(s, n, second))
<1>1. Rest \in Seq(Bytes) /\ Len(Rest) \in Nat
  BY RestType, LenProperties
<1>2. BytesFrom(s, 0) \in Seq(Bytes)
  BY BytesFromType, PsiAssumption DEF PsiAssumption
<1>3. Rest \o BytesFrom(s, 0) \o second \in Seq(Bytes)
  BY <1>1, <1>2, ConcatProperties
<1>4. Payload - 1 \in Nat
  BY PsiAssumption DEF PsiAssumption
<1>5. LET data == Filled(Rest \o BytesFrom(s, 0) \o second, Payload - 1)
      IN  data \in Seq(Bytes) /\ Len(data) = Payload - 1
  BY <1>3, <1>4, FilledType
<1> QED BY <1>1, <1>4, <1>5, PsiAssumption DEF Packet, Beginning, Sent, PsiAssumption

-----------------------------------------------------------------------------
LEMMA ReceiveKeeps ==
  ASSUME StaysInSection, NEW k, Packet(k), NEW due, Receive(k, due)
  PROVE  StaysInSection'
<1> DEFINE parsed == ParsePSI(ps, k)
<1>1. Sane(parsed) /\ NoneKept(parsed)
  BY StaysMeansSane, ParseSane
<1>2. ps' = Used(parsed)
  BY DEF Receive
<1> HIDE DEF parsed
<1>3. Sane([parsed EXCEPT !.stat = "INIT"]) /\ NoneKept([parsed EXCEPT !.stat = "INIT"])
  BY <1>1 DEF Sane, NoneKept, StateType
<1>4. Sane(ps') /\ NoneKept(ps')
  BY <1>1, <1>2, <1>3 DEF Used
<1> QED BY <1>4 DEF StaysInSection, Sane, NoneKept

(* What is left of a transmission has bytes left.                          *)
LEMMA SendingKeeps ==
  ASSUME NEW t, Transmission(t), NEW n \in Nat
  PROVE  Sending(t, n) = Nothing \/ Transmission(Sending(t, n))
<1> DEFINE on == [t EXCEPT !.sent = @ + n]
<1>1. Length[t.section] \in Nat
  BY PsiAssumption DEF Transmission, PsiAssumption
<1>2. CASE Length[t.section] - t.sent <= n
  BY <1>2 DEF Sending
<1>3. CASE ~(Length[t.section] - t.sent <= n)
  <2>1. /\ on.section = t.section /\ on.number = t.number
        /\ on.sent = t.sent + n
    BY DEF Transmission
  <2>2. Transmission(on)
    BY <1>1, <1>3, <2>1 DEF Transmission
  <2> QED BY <1>3, <2>2 DEF Sending
<1> QED BY <1>2, <1>3

LEMMA InitKeeps == Init => SInv
<1> SUFFICES ASSUME Init
             PROVE  SInv
  OBVIOUS
<1>1. Filler \in Bytes
  BY DEF Filler, Bytes
<1>2. 0 \in 0 .. MaxSection /\ 0 \in 0 .. Payload /\ 0 \in 0 .. CounterMod - 1
  BY PsiAssumption DEF PsiAssumption
<1>3. StaysInSection
  BY <1>1, <1>2 DEF Init, StaysInSection, StateType
<1> QED BY <1>2, <1>3 DEF SInv, Sent, Init

LEMMA CountKeeps ==
  ASSUME Sent, Count
  PROVE  counter' \in 0 .. CounterMod - 1
BY PsiAssumption DEF Sent, Count, PsiAssumption

LEMMA ContinuationKeeps ==
  ASSUME SInv, SendContinuation
  PROVE  SInv'
<1>1. Transmission(current)
  BY DEF SInv, Sent, SendContinuation
<1>2. Payload \in Nat
  BY PsiAssumption DEF PsiAssumption
<1>3. CASE /\ Receive(Continuation, Aged \o Ending(current, Payload))
           /\ current' = Sending(current, Payload)
  <2>1. StaysInSection'
    BY <1>3, ContinuationIsPacket, ReceiveKeeps DEF SInv
  <2> QED BY <1>1, <1>2, <1>3, <2>1, SendingKeeps, CountKeeps
          DEF SInv, Sent, SendContinuation, Transmission
<1>4. CASE /\ Miss(Ending(current, Payload))
           /\ current' = Sending([current EXCEPT !.must = FALSE], Payload)
  <2>1. StaysInSection'
    BY <1>4 DEF SInv, Miss, StaysInSection
  <2>2. Transmission([current EXCEPT !.must = FALSE])
    BY <1>1 DEF Transmission
  <2> QED BY <1>2, <1>4, <2>1, <2>2, SendingKeeps, CountKeeps
          DEF SInv, Sent, SendContinuation, Transmission
<1> QED BY <1>3, <1>4 DEF SendContinuation

LEMMA BeginningKeeps ==
  ASSUME SInv, NEW s \in Sections, NEW n \in 1 .. MaxNumber, SendBeginning(s, n)
  PROVE  SInv'
<1> DEFINE room == Payload - 1 - Len(Rest)
           misplaced == room <= Header
           begun == [section |-> s, number |-> n, sent |-> 0,
                     must |-> clean /\ ~misplaced]
           ended == Ending(current, Payload) \o Ending(begun, room)
           second(t) == [begun EXCEPT !.section = t, !.number = 0, !.must = FALSE]
<1>1. Sent
  BY DEF SInv
<1>2. Len(Rest) \in Nat /\ n \in Nat
  BY <1>1, RestType, LenProperties, PsiAssumption DEF PsiAssumption
<1>3. room \in Nat /\ room > 0
  <2>1. room > 0
    BY Zenon DEF SendBeginning
  <2> QED BY <1>2, <2>1, PsiAssumption DEF PsiAssumption
<1>4. Transmission(begun)
  BY <1>2, PsiAssumption DEF Transmission, PsiAssumption
<1>5. Transmission([begun EXCEPT !.must = FALSE])
  BY <1>4 DEF Transmission
<1>6. counter' \in 0 .. CounterMod - 1
  BY <1>1, CountKeeps DEF SendBeginning
<1>7. CASE /\ Receive(Beginning(s, n, <<>>), Aged \o ended)
           /\ current' = Sending(begun, room)
  <2>1. Packet(Beginning(s, n, <<>>))
    BY <1>1, <1>2, <1>3, EmptySeq, BeginningIsPacket
  <2>2. StaysInSection'
    BY <1>7, <2>1, ReceiveKeeps DEF SInv
  <2>3. current' = Nothing \/ Transmission(current')
    BY <1>3, <1>4, <1>7, SendingKeeps
  <2> QED BY <1>6, <2>2, <2>3 DEF SInv, Sent, Transmission
<1>8. ASSUME NEW t \in Sections, Length[s] < room,
             Receive(Beginning(s, n, BytesFrom(t, 0)), Aged \o ended),
             current' = Sending(second(t), room - Length[s])
      PROVE  SInv'
  <2>1. BytesFrom(t, 0) \in Seq(Bytes)
    BY BytesFromType, PsiAssumption DEF PsiAssumption
  <2>2. Packet(Beginning(s, n, BytesFrom(t, 0)))
    BY <1>1, <1>2, <1>3, <2>1, BeginningIsPacket
  <2>3. StaysInSection'
    BY <1>8, <2>2, ReceiveKeeps DEF SInv
  <2>4. Transmission(second(t))
    BY PsiAssumption DEF Transmission, PsiAssumption
  <2>5. room - Length[s] \in Nat
    <3>1. PICK x \in Nat : x = Length[s]
      BY PsiAssumption DEF PsiAssumption
    <3>2. room \in Nat /\ x < room
      BY <1>3, <1>8, <3>1
    <3> QED  BY <3>1, <3>2
  <2>6. current' = Nothing \/ Transmission(current')
    BY <1>8, <2>4, <2>5, SendingKeeps
  <2> QED BY <1>6, <2>3, <2>6 DEF SInv, Sent, Transmission
<1>9. CASE /\ Miss(ended)
           /\ current' = Sending([begun EXCEPT !.must = FALSE], room)
  <2>1. StaysInSection'
    BY <1>9 DEF SInv, Miss, StaysInSection
  <2>2. current' = Nothing \/ Transmission(current')
    BY <1>3, <1>5, <1>9, SendingKeeps
  <2> QED BY <1>6, <2>1, <2>2 DEF SInv, Sent, Transmission
<1> QED BY <1>7, <1>8, <1>9 DEF SendBeginning

LEMMA BareKeeps ==
  ASSUME SInv, SendBare
  PROVE  SInv'
<1>1. StaysInSection'
  BY BareIsPacket, ReceiveKeeps DEF SInv, SendBare
<1>2. current' = Nothing \/ Transmission(current')
  <2>1. CASE current = Nothing
    BY <2>1 DEF SendBare, Nothing
  <2>2. CASE Transmission(current)
    BY <2>2 DEF SendBare, Transmission
  <2> QED BY <2>1, <2>2 DEF SInv, Sent
<1> QED BY <1>1, <1>2 DEF SInv, Sent, SendBare, Transmission

LEMMA OtherPidKeeps ==
  ASSUME SInv, OtherPid
  PROVE  SInv'
<1>1. Sane(ps') /\ NoneKept(ps')
  BY StaysMeansSane, LeftSane DEF SInv, OtherPid
<1> QED BY <1>1 DEF SInv, OtherPid, StaysInSection, Sane, NoneKept, Sent, Transmission

(* The lengths stay inside their buffers after every packet, whatever was  *)
(* lost before it (parse_PSI, arib_parser.c:538-643).                      *)
THEOREM LengthsStay == Spec => []StaysInSection
<1>1. Init => SInv
  BY InitKeeps
<1>2. SInv /\ [Next]_vars => SInv'
  <2> SUFFICES ASSUME SInv, [Next]_vars
               PROVE  SInv'
    OBVIOUS
  <2>1. CASE SendContinuation
    BY <2>1, ContinuationKeeps
  <2>2. ASSUME NEW s \in Sections, NEW n \in 1 .. MaxNumber, SendBeginning(s, n)
        PROVE  SInv'
    BY <2>2, BeginningKeeps
  <2>3. CASE SendBare
    BY <2>3, BareKeeps
  <2>4. CASE OtherPid
    BY <2>4, OtherPidKeeps
  <2>5. CASE UNCHANGED vars
    BY <2>5 DEF vars, SInv, StaysInSection, Sent, Transmission
  <2> QED BY <2>1, <2>2, <2>3, <2>4, <2>5 DEF Next
<1>3. SInv => StaysInSection
  BY DEF SInv
<1> QED BY <1>1, <1>2, <1>3, PTL DEF Spec

-----------------------------------------------------------------------------
(***************************************************************************)
(* That all that is handed on was sent in whole (Genuine), and that what   *)
(* must be handed on is (OnTime).  First, of sequences: the elements at    *)
(* some places keep their order.                                           *)
(***************************************************************************)

(* A set of naturals that is not empty has a first element.                *)
LEMMA FirstOne ==
  ASSUME NEW T, T \subseteq Nat, T # {}
  PROVE  \E x \in T : \A y \in T : x <= y
<1> DEFINE R == OpToRel(<, Nat)
<1>1. IsWellFoundedOn(R, Nat)
  BY NatLessThanWellFounded
<1>2. \A x, y \in Nat : <<y, x>> \in R <=> y < x
  BY DEF OpToRel
<1> HIDE DEF R
<1>3. PICK x \in T : \A y \in T : ~ (<<y, x>> \in R)
  BY <1>1, WFMin
<1>4. ASSUME NEW y \in T PROVE x <= y
  <2>1. x \in Nat /\ y \in Nat /\ ~ (y < x)
    BY <1>2, <1>3
  <2> QED  BY <2>1
<1> QED  BY <1>4

(* What holds at 0, and at m + 1 if at m, holds up to n.                   *)
LEMMA Climbing ==
  ASSUME NEW n \in Nat, NEW T, 0 \in T,
         \A m \in 0 .. n : m < n /\ m \in T => m + 1 \in T
  PROVE  \A m \in 0 .. n : m \in T
<1> DEFINE U == {m \in 0 .. n : m \notin T}
<1> SUFFICES ASSUME U # {} PROVE FALSE
  OBVIOUS
<1>1. PICK x \in U : \A y \in U : x <= y
  <2>1. U \subseteq Nat
    OBVIOUS
  <2> HIDE DEF U
  <2> QED  BY <2>1, FirstOne
<1>2. x \in 0 .. n /\ x \notin T /\ x # 0
  OBVIOUS
<1>3. x - 1 \in 0 .. n /\ x - 1 < n /\ ~ (x <= x - 1)
  BY <1>2
<1>4. x - 1 \in T
  BY <1>1, <1>3
<1>5. x - 1 + 1 = x
  BY <1>2
<1> QED  BY <1>2, <1>3, <1>4, <1>5

IsOnly(f, due, places, n) ==
  f = [i \in 0 .. n |-> IF i = 0 THEN <<>>
                        ELSE IF i \in places THEN Append(f[i - 1], due[i]) ELSE f[i - 1]]

(* The recursion of Only has a solution.                                   *)
LEMMA Picking ==
  ASSUME NEW due, Len(due) \in Nat, NEW places
  PROVE  \E f : IsOnly(f, due, places, Len(due)) /\ Only(due, places) = f[Len(due)]
<1> DEFINE T == {m \in 0 .. Len(due) : \E f : IsOnly(f, due, places, m)}
<1>1. 0 \in T
  <2>1. IsOnly([i \in 0 .. 0 |-> <<>>], due, places, 0)
    BY DEF IsOnly
  <2> QED  BY <2>1
<1>2. ASSUME NEW m \in 0 .. Len(due), m < Len(due), m \in T PROVE m + 1 \in T
  <2>1. PICK f : IsOnly(f, due, places, m)
    BY <1>2
  <2> DEFINE last == IF m + 1 \in places THEN Append(f[m], due[m + 1]) ELSE f[m]
             g == [i \in 0 .. m + 1 |-> IF i = m + 1 THEN last ELSE f[i]]
  <2>2. \A i \in 0 .. m : f[i] = IF i = 0 THEN <<>>
                                 ELSE IF i \in places THEN Append(f[i - 1], due[i]) ELSE f[i - 1]
    BY <2>1, Zenon DEF IsOnly
  <2>3. \A i \in 0 .. m : g[i] = f[i]
    OBVIOUS
  <2>4. g[m + 1] = last /\ m + 1 # 0 /\ m + 1 - 1 = m
    OBVIOUS
  <2>5. \A i \in 0 .. m + 1 : i # m + 1 => i \in 0 .. m /\ (i # 0 => i - 1 \in 0 .. m)
    OBVIOUS
  <2>6. g[m] = f[m]
    BY <2>3
  <2>7. g = [i \in 0 .. m + 1 |-> g[i]]
    OBVIOUS
  <2>11. last = IF m + 1 \in places THEN Append(f[m], due[m + 1]) ELSE f[m]
    OBVIOUS
  <2> HIDE DEF g, last
  <2>12. g[m + 1] = IF m + 1 \in places THEN Append(g[m], due[m + 1]) ELSE g[m]
    BY <2>4, <2>6, <2>11, Zenon
  <2>8. \A i \in 0 .. m + 1 : g[i] = IF i = 0 THEN <<>>
                                     ELSE IF i \in places THEN Append(g[i - 1], due[i]) ELSE g[i - 1]
    <3> SUFFICES ASSUME NEW i \in 0 .. m + 1
                 PROVE  g[i] = IF i = 0 THEN <<>>
                               ELSE IF i \in places THEN Append(g[i - 1], due[i]) ELSE g[i - 1]
      OBVIOUS
    <3>1. CASE i = m + 1
      <4>1. i - 1 = m /\ i # 0
        BY <2>4, <3>1
      <4> QED  BY <2>12, <3>1, <4>1, Zenon
    <3>2. CASE i # m + 1
      <4>1. i \in 0 .. m /\ (i # 0 => i - 1 \in 0 .. m)
        BY <2>5, <3>2
      <4>2. g[i] = f[i] /\ (i # 0 => g[i - 1] = f[i - 1])
        BY <2>3, <4>1
      <4> QED  BY <2>2, <4>1, <4>2, Zenon
    <3> QED  BY <3>1, <3>2
  <2>9. IsOnly(g, due, places, m + 1)
    BY <2>7, <2>8, Zenon DEF IsOnly
  <2>10. m + 1 \in 0 .. Len(due)
    BY <1>2
  <2> QED  BY <2>9, <2>10
<1>3. Len(due) \in T
  <2> HIDE DEF T
  <2>1. \A m \in 0 .. Len(due) : m \in T
    BY <1>1, <1>2, Climbing
  <2>2. Len(due) \in 0 .. Len(due)
    OBVIOUS
  <2> QED  BY <2>1, <2>2
<1>4. PICK h : h = CHOOSE f : IsOnly(f, due, places, Len(due))
  OBVIOUS
<1>5. IsOnly(h, due, places, Len(due))
  BY <1>3, <1>4
<1>6. Only(due, places) = h[Len(due)]
  BY <1>4, Zenon DEF Only, IsOnly
<1> QED  BY <1>5, <1>6

(* One sequence is made of the elements of another at these places, of all *)
(* of them and in their order: element i is the one at at[i].              *)
Embeds(at, o, due, n, places) ==
  /\ at \in [1 .. Len(o) -> 1 .. n]
  /\ \A i \in 1 .. Len(o) : at[i] \in places /\ o[i] = due[at[i]]
  /\ \A j \in 1 .. n : j \in places => \E i \in 1 .. Len(o) : at[i] = j
  /\ \A i, k \in 1 .. Len(o) : i < k => at[i] < at[k]

LEMMA EmbedsOneMore ==
  ASSUME NEW D, NEW due \in Seq(D), NEW places, NEW m \in Nat, m + 1 <= Len(due),
         NEW o \in Seq(D), NEW at, Embeds(at, o, due, m, places)
  PROVE  LET longer == IF m + 1 \in places THEN Append(o, due[m + 1]) ELSE o
         IN  longer \in Seq(D) /\ \E b : Embeds(b, longer, due, m + 1, places)
<1>0. Len(o) \in Nat /\ Len(due) \in Nat
  OBVIOUS
<1>1. CASE m + 1 \in places
  <2>1. due[m + 1] \in D
    BY <1>0
  <2>11. \A x \in D : /\ Append(o, x) \in Seq(D)
                      /\ Len(Append(o, x)) = Len(o) + 1
                      /\ \A i \in 1 .. Len(o) : Append(o, x)[i] = o[i]
                      /\ Append(o, x)[Len(o) + 1] = x
    OBVIOUS
  <2>2. PICK longer \in Seq(D) :
          /\ longer = Append(o, due[m + 1])
          /\ Len(longer) = Len(o) + 1
          /\ \A i \in 1 .. Len(o) : longer[i] = o[i]
          /\ longer[Len(o) + 1] = due[m + 1]
    BY <2>1, <2>11, Zenon
  <2> DEFINE b == [i \in 1 .. Len(o) + 1 |-> IF i = Len(o) + 1 THEN m + 1 ELSE at[i]]
  <2>3. \A i \in 1 .. Len(o) + 1 : i # Len(o) + 1 => i \in 1 .. Len(o)
    BY <1>0
  <2>4. \A i \in 1 .. Len(o) : b[i] = at[i] /\ at[i] \in 1 .. m /\ at[i] \in 1 .. m + 1 /\ i # Len(o) + 1
    BY <1>0 DEF Embeds
  <2>5. b[Len(o) + 1] = m + 1 /\ Len(o) + 1 \in 1 .. Len(o) + 1 /\ m + 1 \in 1 .. m + 1
    BY <1>0
  <2>6. b \in [1 .. Len(o) + 1 -> 1 .. m + 1]
    BY <2>3, <2>4, <2>5
  <2> HIDE DEF b
  <2>7. \A i \in 1 .. Len(longer) : b[i] \in places /\ longer[i] = due[b[i]]
    <3>1. \A i \in 1 .. Len(o) : at[i] \in places /\ o[i] = due[at[i]]
      BY DEF Embeds
    <3> QED  BY <1>1, <2>2, <2>3, <2>4, <2>5, <3>1
  <2>8. \A j \in 1 .. m + 1 : j \in places => \E i \in 1 .. Len(longer) : b[i] = j
    <3> SUFFICES ASSUME NEW j \in 1 .. m + 1, j \in places
                 PROVE  \E i \in 1 .. Len(longer) : b[i] = j
      OBVIOUS
    <3>1. CASE j = m + 1
      BY <2>2, <2>5, <3>1
    <3>2. CASE j # m + 1
      <4>1. j \in 1 .. m
        BY <3>2
      <4>2. PICK i \in 1 .. Len(o) : at[i] = j
        BY <4>1 DEF Embeds
      <4>3. i \in 1 .. Len(longer) /\ b[i] = j
        BY <1>0, <2>2, <2>4, <4>2
      <4> QED  BY <4>3
    <3> QED  BY <3>1, <3>2
  <2>9. \A i, k \in 1 .. Len(longer) : i < k => b[i] < b[k]
    <3> SUFFICES ASSUME NEW i \in 1 .. Len(longer), NEW k \in 1 .. Len(longer), i < k
                 PROVE  b[i] < b[k]
      OBVIOUS
    <3>1. i \in 1 .. Len(o) /\ b[i] = at[i] /\ at[i] \in 1 .. m
      BY <1>0, <2>2, <2>4
    <3>2. CASE k = Len(o) + 1
      BY <2>5, <3>1, <3>2
    <3>3. CASE k # Len(o) + 1
      <4>1. k \in 1 .. Len(o) /\ b[k] = at[k]
        BY <2>2, <2>3, <2>4, <3>3
      <4> QED  BY <3>1, <4>1 DEF Embeds
    <3> QED  BY <3>2, <3>3
  <2>10. Embeds(b, longer, due, m + 1, places)
    BY <2>2, <2>6, <2>7, <2>8, <2>9 DEF Embeds
  <2> QED  BY <1>1, <2>2, <2>10
<1>2. CASE m + 1 \notin places
  <2>1. \A j \in 1 .. m + 1 : j # m + 1 => j \in 1 .. m
    OBVIOUS
  <2>2. at \in [1 .. Len(o) -> 1 .. m + 1]
    <3>1. 1 .. m \subseteq 1 .. m + 1
      OBVIOUS
    <3> QED  BY <3>1 DEF Embeds
  <2>3. Embeds(at, o, due, m + 1, places)
    BY <1>2, <2>1, <2>2, Zenon DEF Embeds
  <2> QED  BY <1>2, <2>3
<1> QED  BY <1>1, <1>2

LEMMA OnlyIs ==
  ASSUME NEW D, NEW due \in Seq(D), NEW places
  PROVE  /\ Only(due, places) \in Seq(D)
         /\ \E at : Embeds(at, Only(due, places), due, Len(due), places)
<1>0. Len(due) \in Nat
  OBVIOUS
<1>1. PICK f : IsOnly(f, due, places, Len(due)) /\ Only(due, places) = f[Len(due)]
  BY <1>0, Picking
<1>2. \A i \in 0 .. Len(due) : f[i] = IF i = 0 THEN <<>>
                                      ELSE IF i \in places THEN Append(f[i - 1], due[i]) ELSE f[i - 1]
  BY <1>1, Zenon DEF IsOnly
<1> DEFINE T == {i \in 0 .. Len(due) : f[i] \in Seq(D) /\ \E at : Embeds(at, f[i], due, i, places)}
<1>3. 0 \in T
  <2>1. f[0] = <<>> /\ 0 \in 0 .. Len(due)
    BY <1>0, <1>2
  <2>2. <<>> \in Seq(D) /\ Len(<<>>) = 0
    OBVIOUS
  <2>3. Embeds(<<>>, <<>>, due, 0, places)
    <3>1. <<>> \in [1 .. 0 -> 1 .. 0] /\ 1 .. 0 = {}
      OBVIOUS
    <3> QED  BY <2>2, <3>1, Zenon DEF Embeds
  <2> QED  BY <2>1, <2>2, <2>3
<1>4. ASSUME NEW m \in 0 .. Len(due), m < Len(due), m \in T PROVE m + 1 \in T
  <2>1. m + 1 \in 0 .. Len(due) /\ m + 1 # 0 /\ m + 1 - 1 = m /\ m \in Nat /\ m + 1 <= Len(due)
    BY <1>0, <1>4
  <2>2. f[m + 1] = IF m + 1 \in places THEN Append(f[m], due[m + 1]) ELSE f[m]
    BY <1>2, <2>1
  <2>3. PICK at : f[m] \in Seq(D) /\ Embeds(at, f[m], due, m, places)
    BY <1>4
  <2>4. f[m + 1] \in Seq(D) /\ \E b : Embeds(b, f[m + 1], due, m + 1, places)
    BY <2>1, <2>2, <2>3, EmbedsOneMore
  <2> QED  BY <2>1, <2>4
<1>5. Len(due) \in T
  <2> HIDE DEF T
  <2>1. \A i \in 0 .. Len(due) : i \in T
    BY <1>0, <1>3, <1>4, Climbing
  <2>2. Len(due) \in 0 .. Len(due)
    BY <1>0
  <2> QED  BY <2>1, <2>2
<1> QED  BY <1>1, <1>5

(* The elements picked from those picked.                                  *)
Twice(c, a, b, o, u, due, S, T) ==
  /\ c \in [1 .. Len(u) -> 1 .. Len(due)]
  /\ \A i \in 1 .. Len(u) : c[i] = a[b[i]] /\ c[i] \in S /\ u[i] = due[c[i]]
  /\ \A i, k \in 1 .. Len(u) : i < k => c[i] < c[k]
  /\ \A j \in 1 .. Len(due) :
       j \in S /\ (\A i \in 1 .. Len(o) : a[i] = j => i \in T) => \E i \in 1 .. Len(u) : c[i] = j

LEMMA EmbedsTwice ==
  ASSUME NEW D, NEW due \in Seq(D), NEW o \in Seq(D), NEW u \in Seq(D),
         NEW S, NEW T, NEW a, NEW b,
         Embeds(a, o, due, Len(due), S), Embeds(b, u, o, Len(o), T)
  PROVE  \E c : Twice(c, a, b, o, u, due, S, T)
<1> DEFINE c == [i \in 1 .. Len(u) |-> a[b[i]]]
<1>1. \A i \in 1 .. Len(u) : b[i] \in 1 .. Len(o) /\ a[b[i]] \in 1 .. Len(due) /\ c[i] = a[b[i]]
  BY DEF Embeds
<1>2. c \in [1 .. Len(u) -> 1 .. Len(due)]
  BY <1>1
<1> HIDE DEF c
<1>6. \A i \in 1 .. Len(u) : u[i] = o[b[i]]
  BY Zenon DEF Embeds
<1>7. \A i \in 1 .. Len(o) : a[i] \in S /\ o[i] = due[a[i]]
  BY Zenon DEF Embeds
<1>8. \A i, k \in 1 .. Len(u) : i < k => b[i] < b[k]
  BY Zenon DEF Embeds
<1>9. \A i, k \in 1 .. Len(o) : i < k => a[i] < a[k]
  BY Zenon DEF Embeds
<1>3. \A i \in 1 .. Len(u) : c[i] = a[b[i]] /\ c[i] \in S /\ u[i] = due[c[i]]
  <2> SUFFICES ASSUME NEW i \in 1 .. Len(u)
               PROVE  c[i] = a[b[i]] /\ c[i] \in S /\ u[i] = due[c[i]]
    OBVIOUS
  <2>1. b[i] \in 1 .. Len(o) /\ c[i] = a[b[i]] /\ u[i] = o[b[i]]
    BY <1>1, <1>6
  <2> QED  BY <1>7, <2>1, Zenon
<1>4. \A i, k \in 1 .. Len(u) : i < k => c[i] < c[k]
  <2> SUFFICES ASSUME NEW i \in 1 .. Len(u), NEW k \in 1 .. Len(u), i < k
               PROVE  c[i] < c[k]
    OBVIOUS
  <2>1. b[i] \in 1 .. Len(o) /\ c[i] = a[b[i]] /\ b[k] \in 1 .. Len(o) /\ c[k] = a[b[k]]
    BY <1>1, Zenon
  <2>2. b[i] < b[k]
    BY <1>8, Zenon
  <2>3. a[b[i]] < a[b[k]]
    BY <1>9, <2>1, <2>2, Zenon
  <2> QED  BY <2>1, <2>3, Zenon
<1>5. ASSUME NEW j \in 1 .. Len(due), j \in S, \A i \in 1 .. Len(o) : a[i] = j => i \in T
      PROVE  \E i \in 1 .. Len(u) : c[i] = j
  <2>1. PICK k \in 1 .. Len(o) : a[k] = j
    BY <1>5 DEF Embeds
  <2>2. k \in T
    BY <1>5, <2>1
  <2>3. PICK i \in 1 .. Len(u) : b[i] = k
    BY <2>2 DEF Embeds
  <2> QED  BY <1>1, <2>1, <2>3
<1> QED  BY <1>2, <1>3, <1>4, <1>5 DEF Twice

(* What is at one of the places is picked.                                 *)
LEMMA OnlyKeeps ==
  ASSUME NEW D, NEW due \in Seq(D), NEW places, NEW i \in DOMAIN due, i \in places
  PROVE  \E k \in DOMAIN Only(due, places) : Only(due, places)[k] = due[i]
<1>1. PICK at : Embeds(at, Only(due, places), due, Len(due), places)
  BY OnlyIs
<1>2. Only(due, places) \in Seq(D)
  BY OnlyIs
<1>3. i \in 1 .. Len(due) /\ DOMAIN Only(due, places) = 1 .. Len(Only(due, places))
  BY <1>2, LenProperties
<1>4. PICK k \in 1 .. Len(Only(due, places)) : at[k] = i
  BY <1>1, <1>3, Zenon DEF Embeds
<1>5. Only(due, places)[k] = due[at[k]]
  BY <1>1, <1>4, Zenon DEF Embeds
<1> QED  BY <1>3, <1>4, <1>5

-----------------------------------------------------------------------------
(* What was sent, and what is being sent.                                  *)
Due == [number : Nat, section : Sections, must : BOOLEAN, age : {0, 1}]

Going == [section : Sections, number : Nat, sent : Nat, must : BOOLEAN]

Typed ==
  /\ pending \in Seq(Due)
  /\ current = Nothing \/ current \in Going
  /\ clean \in BOOLEAN

Remembers(due, n, s) == \E i \in DOMAIN due : due[i].number = n /\ due[i].section = s

LEMMA RememberedKeeps ==
  ASSUME NEW due \in Seq(Due), NEW p, NEW n, n \in {p.number, p.next_number} \ {0}, NEW s
  PROVE  /\ Remembered(due, p) \in Seq(Due)
         /\ Remembers(due, n, s) => Remembers(Remembered(due, p), n, s)
<1> DEFINE kept == {i \in DOMAIN due : due[i].must \/ due[i].number \in {p.number, p.next_number} \ {0}}
<1>1. Remembered(due, p) = Only(due, kept)
  BY DEF Remembered
<1>2. ASSUME NEW i \in DOMAIN due, due[i].number = n, due[i].section = s
      PROVE  Remembers(Only(due, kept), n, s)
  <2>1. i \in kept
    BY <1>2
  <2> HIDE DEF kept
  <2>2. PICK k \in DOMAIN Only(due, kept) : Only(due, kept)[k] = due[i]
    BY <2>1, OnlyKeeps
  <2> QED  BY <1>2, <2>2 DEF Remembers
<1> HIDE DEF kept
<1> QED  BY <1>1, <1>2, OnlyIs DEF Remembers

LEMMA RememberedType ==
  ASSUME NEW due \in Seq(Due), NEW p
  PROVE  Remembered(due, p) \in Seq(Due)
BY OnlyIs DEF Remembered

LEMMA SettledKeeps ==
  ASSUME NEW due \in Seq(Due), NEW place \in Nat
  PROVE  /\ Settled(due, place) \in Seq(Due)
         /\ place < Len(due) => Remembers(Settled(due, place), due[Len(due)].number, due[Len(due)].section)
<1> DEFINE rest == {i \in DOMAIN due : i > place \/ (i < place /\ due[i].must /\ table # "PMT")}
<1>1. Settled(due, place) = Only(due, rest)
  BY DEF Settled
<1>2. ASSUME place < Len(due) PROVE Len(due) \in rest
  BY <1>2
<1> HIDE DEF rest
<1>3. ASSUME place < Len(due)
      PROVE  Remembers(Only(due, rest), due[Len(due)].number, due[Len(due)].section)
  <2>1. Len(due) \in DOMAIN due
    BY <1>3
  <2>2. PICK k \in DOMAIN Only(due, rest) : Only(due, rest)[k] = due[Len(due)]
    BY <1>2, <1>3, <2>1, OnlyKeeps
  <2> QED  BY <2>2 DEF Remembers
<1> QED  BY <1>1, <1>3, OnlyIs

LEMMA SeqOfLength ==
  ASSUME NEW D, NEW n \in Nat, NEW f \in [1 .. n -> D]
  PROVE  f \in Seq(D) /\ Len(f) = n
<1>1. f \in Seq(D)
  BY SeqDef
<1>2. DOMAIN f = 1 .. n
  OBVIOUS
<1>3. DOMAIN f = 1 .. Len(f) /\ Len(f) \in Nat
  BY <1>1, LenProperties
<1>4. \A a, b \in Nat : (\A i \in 1 .. a : i \in 1 .. b) => a <= b
  <2> SUFFICES ASSUME NEW a \in Nat, NEW b \in Nat, \A i \in 1 .. a : i \in 1 .. b, a # 0
               PROVE  a <= b
    OBVIOUS
  <2>1. a \in 1 .. a
    OBVIOUS
  <2> QED  BY <2>1
<1>5. n <= Len(f) /\ Len(f) <= n
  BY <1>2, <1>3, <1>4
<1> QED  BY <1>1, <1>3, <1>5

(* Growing old and being forgiven changes nothing of what was sent.        *)
LEMMA AgedIs ==
  ASSUME pending \in Seq(Due)
  PROVE  /\ Aged \in Seq(Due) /\ Len(Aged) = Len(pending)
         /\ \A i \in 1 .. Len(pending) : /\ Aged[i].number = pending[i].number
                                         /\ Aged[i].section = pending[i].section
                                         /\ Aged[i].must = pending[i].must
                                         /\ Aged[i].age = 1
<1>1. DOMAIN pending = 1 .. Len(pending) /\ Len(pending) \in Nat
  BY LenProperties
<1>2. \A i \in 1 .. Len(pending) : pending[i] \in Due
  BY <1>1, ElementOfSeq
<1>3. \A e \in Due : /\ [e EXCEPT !.age = 1] \in Due
                     /\ [e EXCEPT !.age = 1].number = e.number
                     /\ [e EXCEPT !.age = 1].section = e.section
                     /\ [e EXCEPT !.age = 1].must = e.must
                     /\ [e EXCEPT !.age = 1].age = 1
  BY DEF Due
<1>4. Aged = [i \in 1 .. Len(pending) |-> [pending[i] EXCEPT !.age = 1]]
  BY <1>1, Zenon DEF Aged
<1>5. Aged \in [1 .. Len(pending) -> Due]
  BY <1>2, <1>3, <1>4
<1>6. Aged \in Seq(Due) /\ Len(Aged) = Len(pending)
  BY <1>1, <1>5, SeqOfLength
<1>7. \A i \in 1 .. Len(pending) : Aged[i] = [pending[i] EXCEPT !.age = 1]
  BY <1>4, Zenon
<1>8. ASSUME NEW i \in 1 .. Len(pending)
      PROVE  /\ Aged[i].number = pending[i].number
             /\ Aged[i].section = pending[i].section
             /\ Aged[i].must = pending[i].must
             /\ Aged[i].age = 1
  <2>1. pending[i] \in Due /\ Aged[i] = [pending[i] EXCEPT !.age = 1]
    BY <1>2, <1>7
  <2> QED  BY <1>3, <2>1, Zenon
<1> QED  BY <1>6, <1>8

LEMMA ForgivenIs ==
  ASSUME NEW due \in Seq(Due)
  PROVE  /\ Forgiven(due) \in Seq(Due) /\ Len(Forgiven(due)) = Len(due)
         /\ \A i \in 1 .. Len(due) : /\ Forgiven(due)[i].number = due[i].number
                                     /\ Forgiven(due)[i].section = due[i].section
                                     /\ Forgiven(due)[i].must = FALSE
<1>1. DOMAIN due = 1 .. Len(due) /\ Len(due) \in Nat
  BY LenProperties
<1>2. \A i \in 1 .. Len(due) : due[i] \in Due
  BY <1>1, ElementOfSeq
<1>3. \A e \in Due : /\ [e EXCEPT !.must = FALSE] \in Due
                     /\ [e EXCEPT !.must = FALSE].number = e.number
                     /\ [e EXCEPT !.must = FALSE].section = e.section
                     /\ [e EXCEPT !.must = FALSE].must = FALSE
  BY DEF Due
<1>4. Forgiven(due) = [i \in 1 .. Len(due) |-> [due[i] EXCEPT !.must = FALSE]]
  BY <1>1, Zenon DEF Forgiven
<1>5. Forgiven(due) \in [1 .. Len(due) -> Due]
  BY <1>2, <1>3, <1>4
<1>6. Forgiven(due) \in Seq(Due) /\ Len(Forgiven(due)) = Len(due)
  BY <1>1, <1>5, SeqOfLength
<1>7. \A i \in 1 .. Len(due) : Forgiven(due)[i] = [due[i] EXCEPT !.must = FALSE]
  BY <1>4, Zenon
<1>8. ASSUME NEW i \in 1 .. Len(due)
      PROVE  /\ Forgiven(due)[i].number = due[i].number
             /\ Forgiven(due)[i].section = due[i].section
             /\ Forgiven(due)[i].must = FALSE
  <2>1. due[i] \in Due /\ Forgiven(due)[i] = [due[i] EXCEPT !.must = FALSE]
    BY <1>2, <1>7
  <2> QED  BY <1>3, <2>1, Zenon
<1> QED  BY <1>6, <1>8

-----------------------------------------------------------------------------
(* What parse_PSI leaves in an assembly.                                   *)
(* An assembly that holds what a packet has of the section that begins in  *)
(* it.                                                                     *)
Room(k) == Len(k.data) - k.pointer_field

FromPacket(m, k) ==
  /\ m.number = k.number
  /\ m.n_payload = SectionLength(k)
  /\ m.recv_payload = Least(Room(k), SectionLength(k))
  /\ m.continuity_counter = k.counter
  /\ \A i \in 1 .. m.recv_payload : m.payload[i] = k.data[k.pointer_field + i]

LEMMA BeginningFits ==
  ASSUME NEW k, Packet(k), k.pusi
  PROVE  /\ Room(k) \in 1 .. Payload /\ k.pointer_field \in Nat /\ Len(k.data) \in Nat
         /\ SectionLength(k) \in 0 .. MaxSection
         /\ Least(Room(k), SectionLength(k)) \in 0 .. MaxSection
         /\ Least(Room(k), SectionLength(k)) \in 0 .. Payload
         /\ Least(Room(k), SectionLength(k)) <= Room(k)
<1>1. /\ Len(k.data) \in Nat /\ k.pointer_field \in Nat
      /\ Room(k) \in 1 .. Payload /\ Payload \in Nat /\ MaxSection \in Nat
  BY DataType, PsiAssumption DEF Packet, Room, PsiAssumption
<1>2. SectionLength(k) \in 0 .. MaxSection
  BY LengthFits
<1>3. \A a \in 1 .. Payload, b \in 0 .. MaxSection :
        /\ Least(a, b) \in 0 .. MaxSection /\ Least(a, b) \in 0 .. Payload /\ Least(a, b) <= a
  BY <1>1 DEF Least
<1> QED  BY <1>1, <1>2, <1>3

LEMMA StartedIs ==
  ASSUME NEW p, Sane(p), NEW k, Packet(k), k.pusi
  PROVE  /\ FromPacket(Started(p, k), k)
         /\ Started(p, k).stat = IF Room(k) > SectionLength(k) THEN "FINISHED" ELSE "PROC"
         /\ Started(p, k).next_recv_payload = 0
<1> DEFINE n == SectionLength(k)
           remain == Least(Room(k), SectionLength(k))
           copy == Copied(p.payload, 0, k.data, k.pointer_field, remain)
           stat == IF Room(k) > SectionLength(k) THEN "FINISHED" ELSE "PROC"
<1>1. remain \in Nat /\ remain <= MaxSection /\ k.pointer_field \in Nat /\ MaxSection \in Nat
  BY BeginningFits, PsiAssumption DEF PsiAssumption
<1>2. p.payload \in [1 .. MaxSection -> Bytes]
  BY SaneParts
<1> HIDE DEF remain
<1>4. ASSUME NEW i \in 1 .. remain PROVE copy[i] = k.data[k.pointer_field + i]
  <2>1. i \in 1 .. MaxSection /\ i \in 0 + 1 .. 0 + remain /\ k.pointer_field + i - 0 = k.pointer_field + i
    BY <1>1
  <2>2. i \in DOMAIN p.payload
    BY <1>2, <2>1
  <2> QED  BY <2>1, <2>2 DEF Copied
<1> HIDE DEF copy, n, stat
<1>5. Started(p, k) =
        [p EXCEPT !.stat = stat, !.n_payload = n, !.recv_payload = remain,
                  !.n_next_payload = 0, !.next_recv_payload = 0,
                  !.continuity_counter = k.counter, !.number = k.number,
                  !.next_number = 0, !.payload = copy]
  BY DEF Started, n, remain, copy, stat, Room, Sane, StateType
<1>6. /\ Started(p, k).stat = stat
      /\ Started(p, k).n_payload = n
      /\ Started(p, k).recv_payload = remain
      /\ Started(p, k).next_recv_payload = 0
      /\ Started(p, k).continuity_counter = k.counter
      /\ Started(p, k).number = k.number
      /\ Started(p, k).payload = copy
  BY <1>5 DEF Sane, StateType
<1> QED  BY <1>4, <1>6 DEF FromPacket, n, remain, stat

(* The section that begins in a packet, kept behind the one in assembly.   *)
Kept(q, k) ==
  /\ q.next_number = k.number
  /\ q.n_next_payload = SectionLength(k)
  /\ q.next_recv_payload = Least(Room(k), SectionLength(k))
  /\ \A i \in 1 .. q.next_recv_payload : q.next_payload[i] = k.data[k.pointer_field + i]

(* A section in assembly that got n bytes of a packet.                     *)
Grown(q, l, k, n) ==
  /\ q.number = l.number
  /\ q.n_payload = l.n_payload
  /\ q.recv_payload = l.recv_payload + n
  /\ q.continuity_counter = k.counter
  /\ \A i \in 1 .. l.recv_payload : q.payload[i] = l.payload[i]
  /\ \A i \in 1 .. n : q.payload[l.recv_payload + i] = k.data[i]

Brought(k) == IF k.pusi THEN k.pointer_field ELSE Len(k.data)

Missing(l) == l.n_payload - l.recv_payload

LEMMA NextKeptIs ==
  ASSUME NEW p, Sane(p), NEW k, Packet(k), k.pusi
  PROVE  /\ Sane(NextKept(p, k)) /\ Kept(NextKept(p, k), k)
         /\ \A f \in {"stat", "number", "n_payload", "recv_payload", "payload", "continuity_counter"} :
              NextKept(p, k)[f] = p[f]
<1> DEFINE n == SectionLength(k)
           remain == Least(Room(k), SectionLength(k))
           copy == Copied(p.next_payload, 0, k.data, k.pointer_field, remain)
<1>1. remain \in Nat /\ remain <= Payload /\ k.pointer_field \in Nat /\ Payload \in Nat
  BY BeginningFits, PsiAssumption DEF PsiAssumption
<1>2. p.next_payload \in [1 .. Payload -> Bytes]
  BY SaneParts
<1> HIDE DEF remain
<1>4. ASSUME NEW i \in 1 .. remain PROVE copy[i] = k.data[k.pointer_field + i]
  <2>1. i \in 1 .. Payload /\ i \in 0 + 1 .. 0 + remain /\ k.pointer_field + i - 0 = k.pointer_field + i
    BY <1>1
  <2>2. i \in DOMAIN p.next_payload
    BY <1>2, <2>1
  <2> QED  BY <2>1, <2>2 DEF Copied
<1> HIDE DEF copy, n
<1>5. NextKept(p, k) =
        [p EXCEPT !.n_next_payload = n, !.next_recv_payload = remain,
                  !.next_number = k.number, !.next_payload = copy]
  BY DEF NextKept, n, remain, copy, Room, Sane, StateType
<1>6. /\ NextKept(p, k).n_next_payload = n
      /\ NextKept(p, k).next_recv_payload = remain
      /\ NextKept(p, k).next_number = k.number
      /\ NextKept(p, k).next_payload = copy
  BY <1>5 DEF Sane, StateType
<1>7. \A f \in {"stat", "number", "n_payload", "recv_payload", "payload", "continuity_counter"} :
        NextKept(p, k)[f] = p[f]
  BY <1>5 DEF Sane, StateType
<1>8. Kept(NextKept(p, k), k)
  BY <1>4, <1>6 DEF Kept, n, remain
<1> QED  BY <1>7, <1>8, NextKeptSane

LEMMA ExtendedIs ==
  ASSUME NEW p, Sane(p), NEW k, Packet(k)
  PROVE  /\ Grown(Extended(p, k), p, k, Least(Brought(k), Missing(p)))
         /\ Extended(p, k).stat = IF k.pusi \/ Brought(k) >= Missing(p) THEN "FINISHED" ELSE "PROC"
         /\ \A f \in {"next_number", "n_next_payload", "next_recv_payload", "next_payload"} :
              Extended(p, k)[f] = p[f]
<1> DEFINE taken == Least(Brought(k), Missing(p))
           copy == Copied(p.payload, p.recv_payload, k.data, 0, taken)
           stat == IF k.pusi \/ Brought(k) >= Missing(p) THEN "FINISHED" ELSE "PROC"
<1>1. /\ p.recv_payload \in Nat /\ p.n_payload \in Nat /\ p.n_payload <= MaxSection
      /\ Missing(p) \in Nat /\ Brought(k) \in Nat /\ MaxSection \in Nat
  BY DataType, SaneParts, PsiAssumption DEF Missing, Brought, Packet, PsiAssumption
<1>2. taken \in Nat /\ taken <= Missing(p)
  BY <1>1, LeastFacts
<1> HIDE DEF taken
<1>3. p.recv_payload + taken <= MaxSection
  BY <1>1, <1>2 DEF Missing
<1>4. p.payload \in [1 .. MaxSection -> Bytes]
  BY SaneParts
<1>5. ASSUME NEW i \in 1 .. taken PROVE copy[p.recv_payload + i] = k.data[i]
  <2> DEFINE j == p.recv_payload + i
  <2>1. /\ j \in 1 .. MaxSection /\ j \in p.recv_payload + 1 .. p.recv_payload + taken
        /\ 0 + j - p.recv_payload = i
    BY <1>1, <1>2, <1>3
  <2> HIDE DEF j
  <2>2. j \in DOMAIN p.payload
    BY <1>4, <2>1
  <2>3. copy[j] = k.data[i]
    BY <2>1, <2>2 DEF Copied
  <2> QED  BY <2>3 DEF j
<1>6. ASSUME NEW i \in 1 .. p.recv_payload PROVE copy[i] = p.payload[i]
  <2>1. i \in 1 .. MaxSection /\ i \notin p.recv_payload + 1 .. p.recv_payload + taken
    BY <1>1, <1>2, <1>3
  <2>2. i \in DOMAIN p.payload
    BY <1>4, <2>1
  <2> QED  BY <2>1, <2>2 DEF Copied
<1> HIDE DEF copy, stat
<1>7. Extended(p, k) =
        [p EXCEPT !.stat = stat, !.recv_payload = p.recv_payload + taken,
                  !.continuity_counter = k.counter, !.payload = copy]
  BY DEF Extended, stat, copy, taken, Missing, Brought, Sane, StateType
<1>8. /\ Extended(p, k).stat = stat
      /\ Extended(p, k).n_payload = p.n_payload
      /\ Extended(p, k).recv_payload = p.recv_payload + taken
      /\ Extended(p, k).continuity_counter = k.counter
      /\ Extended(p, k).number = p.number
      /\ Extended(p, k).payload = copy
  BY <1>7 DEF Sane, StateType
<1>9. \A f \in {"next_number", "n_next_payload", "next_recv_payload", "next_payload"} :
        Extended(p, k)[f] = p[f]
  BY <1>7 DEF Sane, StateType
<1>10. Grown(Extended(p, k), p, k, taken)
  BY <1>5, <1>6, <1>8 DEF Grown
<1> QED  BY <1>8, <1>9, <1>10 DEF taken, stat

(* The four things parse_PSI can do with a packet, when l is the assembly  *)
(* after Left.                                                             *)
Idle(q, l, k) == l.stat = "INIT" /\ ~ k.pusi /\ q.stat = "INIT"

Begins(q, l, k) ==
  /\ l.stat = "INIT" /\ k.pusi
  /\ FromPacket(q, k)
  /\ q.next_recv_payload = 0
  /\ q.stat = IF Room(k) <= SectionLength(k) THEN "PROC"
              ELSE IF CrcFits(q) THEN "FINISHED" ELSE "INIT"

Loses(q, l, k) == l.stat = "PROC" /\ ~ Continuous(l, k) /\ q.stat = "INIT"

Grows(q, l, k) ==
  /\ l.stat = "PROC" /\ Continuous(l, k)
  /\ Grown(q, l, k, Least(Brought(k), Missing(l)))
  /\ IF k.pusi THEN Kept(q, k) ELSE q.next_recv_payload = 0
  /\ q.stat = IF ~ k.pusi /\ Brought(k) < Missing(l) THEN "PROC"
              ELSE IF CrcFits(q) THEN "FINISHED" ELSE "INIT"

LEMMA CheckedIs ==
  ASSUME NEW a, Sane(a)
  PROVE  /\ Checked(a).stat = IF a.stat # "FINISHED" THEN a.stat
                              ELSE IF CrcFits(Checked(a)) THEN "FINISHED" ELSE "INIT"
         /\ \A f \in {"payload", "next_payload", "n_payload", "recv_payload", "n_next_payload",
                      "next_recv_payload", "continuity_counter", "number", "next_number"} :
              Checked(a)[f] = a[f]
<1>1. CASE a.stat # "FINISHED" \/ CrcFits(a)
  BY <1>1 DEF Checked
<1>2. CASE a.stat = "FINISHED" /\ ~ CrcFits(a)
  <2> DEFINE b == [a EXCEPT !.stat = "INIT"]
  <2>1. Checked(a) = b
    BY <1>2 DEF Checked
  <2>2. b.stat = "INIT" /\ \A f \in {"payload", "next_payload", "n_payload", "recv_payload",
            "n_next_payload", "next_recv_payload", "continuity_counter", "number", "next_number"} :
          b[f] = a[f]
    BY DEF Sane, StateType
  <2>3. b.n_payload = a.n_payload /\ b.payload = a.payload
    BY <2>2
  <2> HIDE DEF b
  <2>4. ~ CrcFits(b)
    BY <1>2, <2>3 DEF CrcFits, IsSection
  <2> QED  BY <1>2, <2>1, <2>2, <2>4, Zenon
<1> QED  BY <1>1, <1>2

LEMMA ParseIs ==
  ASSUME NEW p, Sane(p), NoneKept(p), NEW k, Packet(k)
  PROVE  /\ Sane(Left(p)) /\ NoneKept(Left(p)) /\ Left(p).stat \in {"INIT", "PROC"}
         /\ \/ Idle(ParsePSI(p, k), Left(p), k)
            \/ Begins(ParsePSI(p, k), Left(p), k)
            \/ Loses(ParsePSI(p, k), Left(p), k)
            \/ Grows(ParsePSI(p, k), Left(p), k)
<1>1. PICK l : l = Left(p)
  OBVIOUS
<1>2. PICK q : q = ParsePSI(p, k)
  OBVIOUS
<1>3. Sane(l) /\ NoneKept(l)
  BY <1>1, LeftSane
<1>4. l.stat \in {"INIT", "PROC"}
  <2>1. p.stat \in {"INIT", "PROC", "FINISHED"}
    BY DEF Sane, StateType
  <2>2. TakenUp(p).stat = "PROC" /\ [p EXCEPT !.stat = "INIT"].stat = "INIT"
    BY DEF TakenUp, Sane, StateType
  <2> QED  BY <1>1, <2>1, <2>2 DEF Left
<1>5. q = Checked(Assembled(l, k))
  BY <1>1, <1>2 DEF ParsePSI
<1>6. /\ Brought(k) \in Nat /\ Missing(l) \in Nat
  BY <1>3, DataType, SaneParts DEF Missing, Brought, Packet
<1>7. CASE l.stat = "INIT" /\ ~ k.pusi
  <2>1. q = l
    BY <1>5, <1>7 DEF Assembled, Checked
  <2> QED  BY <1>1, <1>2, <1>3, <1>7, <2>1 DEF Idle
<1>8. CASE l.stat = "INIT" /\ k.pusi
  <2>1. PICK a : a = Started(l, k)
    OBVIOUS
  <2>2. /\ FromPacket(a, k) /\ a.next_recv_payload = 0 /\ Sane(a)
        /\ a.stat = IF Room(k) > SectionLength(k) THEN "FINISHED" ELSE "PROC"
    BY <1>3, <1>8, <2>1, StartedIs, StartedSane
  <2>3. q = Checked(a)
    BY <1>5, <1>8, <2>1 DEF Assembled
  <2>4. Room(k) \in Nat /\ SectionLength(k) \in Nat
    BY <1>8, BeginningFits
  <2>5. Room(k) <= SectionLength(k) <=> ~ (Room(k) > SectionLength(k))
    BY <2>4
  <2>6. FromPacket(q, k) /\ q.next_recv_payload = 0
    BY <2>2, <2>3, CheckedIs DEF FromPacket
  <2>7. q.stat = IF Room(k) <= SectionLength(k) THEN "PROC"
                 ELSE IF CrcFits(q) THEN "FINISHED" ELSE "INIT"
    BY <2>2, <2>3, <2>5, CheckedIs
  <2> QED  BY <1>1, <1>2, <1>3, <1>8, <2>6, <2>7 DEF Begins
<1>9. CASE l.stat = "PROC" /\ ~ Continuous(l, k)
  <2>1. Gapped(l).stat = "INIT"
    BY <1>3 DEF Gapped, Sane, StateType
  <2>2. q = Gapped(l)
    BY <1>5, <1>9, <2>1 DEF Assembled, Continued, Checked
  <2> QED  BY <1>1, <1>2, <1>3, <1>9, <2>1, <2>2 DEF Loses
<1>10. CASE l.stat = "PROC" /\ Continuous(l, k)
  <2>1. PICK h : h = IF k.pusi THEN NextKept(l, k) ELSE l
    OBVIOUS
  <2>2. /\ Sane(h) /\ h.stat = "PROC" /\ h.number = l.number /\ h.n_payload = l.n_payload
        /\ h.recv_payload = l.recv_payload /\ h.payload = l.payload
        /\ IF k.pusi THEN Kept(h, k) ELSE h.next_recv_payload = 0
        /\ k.pusi \/ NoneKept(h)
    BY <1>3, <1>10, <2>1, NextKeptIs DEF NoneKept
  <2>3. PICK a : a = Extended(h, k)
    OBVIOUS
  <2>4. /\ Sane(a) /\ Grown(a, h, k, Least(Brought(k), Missing(h)))
        /\ a.stat = IF k.pusi \/ Brought(k) >= Missing(h) THEN "FINISHED" ELSE "PROC"
        /\ a.next_number = h.next_number /\ a.n_next_payload = h.n_next_payload
        /\ a.next_recv_payload = h.next_recv_payload /\ a.next_payload = h.next_payload
    BY <2>2, <2>3, ExtendedIs, ExtendedSane
  <2>5. Missing(h) = Missing(l)
    BY <2>2 DEF Missing
  <2>6. q = Checked(a)
    BY <1>5, <1>10, <2>1, <2>3 DEF Assembled, Continued
  <2>7. Grown(q, l, k, Least(Brought(k), Missing(l)))
    BY <2>2, <2>4, <2>5, <2>6, CheckedIs DEF Grown
  <2>8. IF k.pusi THEN Kept(q, k) ELSE q.next_recv_payload = 0
    BY <2>2, <2>4, <2>6, CheckedIs DEF Kept
  <2>9. Brought(k) >= Missing(l) <=> ~ (Brought(k) < Missing(l))
    BY <1>6
  <2>10. q.stat = IF ~ k.pusi /\ Brought(k) < Missing(l) THEN "PROC"
                  ELSE IF CrcFits(q) THEN "FINISHED" ELSE "INIT"
    BY <2>4, <2>5, <2>6, <2>9, CheckedIs
  <2> QED  BY <1>1, <1>2, <1>3, <1>10, <2>7, <2>8, <2>10 DEF Grows
<1> QED  BY <1>4, <1>7, <1>8, <1>9, <1>10

(* After the call: what was handed on is left, and what was kept behind it *)
(* is taken up, except by parse_PMT.                                       *)
LEMMA TakenUpIs ==
  ASSUME NEW q, Sane(q), NEW k, Packet(k), k.pusi, Kept(q, k), q.continuity_counter = k.counter
  PROVE  FromPacket(TakenUp(q), k) /\ TakenUp(q).stat = "PROC"
<1> DEFINE recv == q.next_recv_payload
           copy == Copied(q.payload, 0, q.next_payload, 0, recv)
<1>1. /\ recv \in Nat /\ recv <= Payload /\ recv <= MaxSection
      /\ MaxSection \in Nat /\ Payload \in Nat
  BY SaneParts, PsiAssumption DEF PsiAssumption
<1>2. q.payload \in [1 .. MaxSection -> Bytes]
  BY SaneParts
<1> HIDE DEF recv
<1>3. ASSUME NEW i \in 1 .. recv PROVE copy[i] = q.next_payload[i]
  <2>1. i \in 1 .. MaxSection /\ i \in 0 + 1 .. 0 + recv /\ 0 + i - 0 = i
    BY <1>1
  <2>2. i \in DOMAIN q.payload
    BY <1>2, <2>1
  <2> QED  BY <2>1, <2>2 DEF Copied
<1> HIDE DEF copy
<1>4. TakenUp(q) = [q EXCEPT !.stat = "PROC", !.payload = copy,
                             !.n_payload = q.n_next_payload,
                             !.recv_payload = recv,
                             !.number = q.next_number,
                             !.n_next_payload = 0,
                             !.next_recv_payload = 0,
                             !.next_number = 0]
  BY DEF TakenUp, copy, recv, Sane, StateType
<1>5. /\ TakenUp(q).stat = "PROC" /\ TakenUp(q).payload = copy
      /\ TakenUp(q).n_payload = q.n_next_payload
      /\ TakenUp(q).recv_payload = recv
      /\ TakenUp(q).number = q.next_number
      /\ TakenUp(q).continuity_counter = q.continuity_counter
  BY <1>4 DEF Sane, StateType
<1> QED  BY <1>3, <1>5 DEF Kept, FromPacket, recv

LEMMA AfterIs ==
  ASSUME NEW q, Sane(q), NEW l, NEW k, Packet(k),
         Idle(q, l, k) \/ Begins(q, l, k) \/ Loses(q, l, k) \/ Grows(q, l, k)
  PROVE  /\ q.stat = "PROC" => Used(q) = q /\ Left(Used(q)) = q
         /\ q.stat = "FINISHED" /\ table # "PMT" => Used(q) = q
         /\ q.stat = "INIT" => Used(q) = q
         /\ Left(Used(q)).stat = "PROC" =>
              \/ q.stat = "PROC"
              \/ /\ q.stat = "FINISHED" /\ table # "PMT" /\ k.pusi /\ Grows(q, l, k)
                 /\ FromPacket(Left(Used(q)), k)
                 /\ Left(Used(q)).number = q.next_number
<1>1. CASE q.stat = "PROC" \/ q.stat = "INIT"
  BY <1>1 DEF Used, Left
<1>2. CASE q.stat = "FINISHED" /\ table = "PMT"
  <2>1. Used(q) = [q EXCEPT !.stat = "INIT"]
    BY <1>2 DEF Used
  <2>2. Used(q).stat = "INIT"
    BY <2>1 DEF Sane, StateType
  <2> QED  BY <1>2, <2>2 DEF Left
<1>3. CASE q.stat = "FINISHED" /\ table # "PMT"
  <2>1. Used(q) = q
    BY <1>3 DEF Used
  <2>2. CASE q.next_recv_payload > 0
    <3>1. Left(q) = TakenUp(q)
      BY <1>3, <2>2 DEF Left
    <3>2. Grows(q, l, k) /\ k.pusi
      BY <1>3, <2>2 DEF Idle, Begins, Loses, Grows
    <3>3. Kept(q, k) /\ q.continuity_counter = k.counter
      BY <3>2 DEF Grows, Grown
    <3>4. FromPacket(TakenUp(q), k) /\ TakenUp(q).number = k.number /\ k.number = q.next_number
      BY <3>2, <3>3, TakenUpIs DEF FromPacket, Kept
    <3> QED  BY <1>3, <2>1, <3>1, <3>2, <3>4
  <2>3. CASE ~ (q.next_recv_payload > 0)
    <3>1. Left(q) = [q EXCEPT !.stat = "INIT"]
      BY <1>3, <2>3 DEF Left
    <3>2. Left(q).stat = "INIT"
      BY <3>1 DEF Sane, StateType
    <3> QED  BY <1>3, <2>1, <3>2
  <2> QED  BY <2>2, <2>3
<1>4. q.stat \in {"INIT", "PROC", "FINISHED"}
  BY DEF Sane, StateType
<1> QED  BY <1>1, <1>2, <1>3, <1>4

-----------------------------------------------------------------------------
(* What is in assembly began in a section that was sent: that is spoilt by *)
(* a packet without payload, or was sent in whole and not handed on, or is *)
(* being sent still.                                                       *)
Spoilt(p) == \E i \in 1 .. p.recv_payload : p.payload[i] = Filler

Traced(p, due, t) ==
  p.stat = "PROC" =>
    /\ p.number # 0 /\ p.recv_payload >= 1
    /\ \E s \in Sections :
         /\ p.payload[1] = <<s, 1>>
         /\ \/ Spoilt(p)
            \/ Remembers(due, p.number, s)
            \/ t.number = p.number /\ t.section = s /\ p.recv_payload <= t.sent

GInv == SInv /\ Typed /\ Genuine /\ Traced(Left(ps), pending, current)

(* The section that begins in a packet.                                    *)
BeginsWith(k, s) ==
  \A i \in 1 .. Least(Room(k), Length[s]) : k.data[k.pointer_field + i] = <<s, i>>

(* What a packet brings: the section that begins in it has a number nobody *)
(* refers to, and is sent in whole or goes on; the one that was being sent *)
(* ended or goes on too.                                                   *)
BringsBeginning(k, due) ==
  /\ current # Nothing => Remembers(due, current.number, current.section)
  /\ k.number \notin {0, ps.number, ps.next_number}
  /\ \E s \in Sections :
       /\ BeginsWith(k, s)
       /\ \/ /\ Length[s] <= Room(k) /\ Len(due) > 0
             /\ due[Len(due)].number = k.number /\ due[Len(due)].section = s
          \/ /\ Room(k) < Length[s]
             /\ current'.number = k.number /\ current'.section = s /\ current'.sent = Room(k)

BringsRest(k, due) ==
  /\ Len(k.data) >= 1
  /\ \/ k.data[1] = Filler
     \/ Remembers(due, current.number, current.section)
     \/ /\ current # Nothing
        /\ Len(k.data) < Length[current.section] - current.sent
        /\ current'.number = current.number /\ current'.section = current.section
        /\ current'.sent = current.sent + Len(k.data)

Brings(k, due) ==
  /\ due \in Seq(Due)
  /\ \A n, s : Remembers(pending, n, s) => Remembers(due, n, s)
  /\ IF k.pusi THEN BringsBeginning(k, due) ELSE BringsRest(k, due)

LEMMA NothingIs ==
  ASSUME NEW s \in Sections, current.section = s
  PROVE  current # Nothing
BY PsiAssumption DEF Nothing, PsiAssumption

LEMMA LengthIs ==
  ASSUME NEW s \in Sections
  PROVE  Length[s] \in Nat /\ 1 < Length[s] /\ Header \in Nat /\ 1 < Header /\ Header < Length[s]
BY PsiAssumption DEF PsiAssumption

(* The length that is taken from a beginning.                              *)
LEMMA LengthOfBeginning ==
  ASSUME NEW k, Packet(k), k.pusi, NEW s \in Sections,
         BeginsWith(k, s)
  PROVE  /\ SectionLength(k) = IF Room(k) <= Header THEN Header - 1 ELSE Length[s]
         /\ Least(Room(k), SectionLength(k)) >= 1
         /\ Least(Room(k), SectionLength(k)) <= Least(Room(k), Length[s])
         /\ 1 \in 1 .. Least(Room(k), Length[s])
<1>1. Room(k) \in Nat /\ Room(k) >= 1
  BY BeginningFits
<1>2. Length[s] \in Nat /\ 1 < Length[s] /\ Header \in Nat /\ 1 < Header /\ Header < Length[s]
  BY LengthIs
<1>3. 1 \in 1 .. Least(Room(k), Length[s])
  BY <1>1, <1>2 DEF Least
<1>4. k.data[k.pointer_field + 1] = <<s, 1>>
  BY <1>3 DEF BeginsWith
<1>5. k.data[k.pointer_field + 1][1] = s
  BY <1>4
<1>6. SectionLength(k) = IF Room(k) <= Header THEN Header - 1 ELSE Length[s]
  BY <1>5, Zenon DEF SectionLength, Room
<1> QED  BY <1>1, <1>2, <1>3, <1>6 DEF Least

(* All that is handed on was sent and is due.                              *)
LEMMA HandedIsDue ==
  ASSUME GInv, NEW k, Packet(k), NEW due, Brings(k, due),
         ParsePSI(ps, k).stat = "FINISHED"
  PROVE  Places(due, ParsePSI(ps, k)) # {}
<1>1. PICK l : l = Left(ps)
  OBVIOUS
<1>2. PICK q : q = ParsePSI(ps, k)
  OBVIOUS
<1>3. Sane(ps) /\ NoneKept(ps)
  BY StaysMeansSane DEF GInv, SInv
<1>4. /\ Sane(l) /\ (Idle(q, l, k) \/ Begins(q, l, k) \/ Loses(q, l, k) \/ Grows(q, l, k))
      /\ q.stat = "FINISHED"
  BY <1>1, <1>2, <1>3, ParseIs
<1>5. CrcFits(q) /\ (Begins(q, l, k) \/ Grows(q, l, k))
  <2>1. "FINISHED" # "INIT" /\ "FINISHED" # "PROC"
    OBVIOUS
  <2> QED  BY <1>4, <2>1 DEF Idle, Begins, Loses, Grows
<1>6. PICK s \in Sections : IsSection(q, s)
  BY <1>5 DEF CrcFits
<1>7. /\ Length[s] \in Nat /\ 1 < Length[s] /\ Header < Length[s] /\ Header \in Nat
      /\ q.n_payload = Length[s] /\ \A i \in 1 .. Length[s] : q.payload[i] = <<s, i>>
  BY <1>6, LengthIs DEF IsSection
<1> SUFFICES Remembers(due, q.number, s)
  BY <1>2, <1>6 DEF Remembers, Places
<1>8. CASE Begins(q, l, k)
  <2>1. k.pusi /\ FromPacket(q, k) /\ ~ (Room(k) <= SectionLength(k))
    BY <1>4, <1>8 DEF Begins
  <2>2. BringsBeginning(k, due)
    BY <2>1 DEF Brings
  <2>3. PICK z \in Sections :
          /\ BeginsWith(k, z)
          /\ \/ /\ Length[z] <= Room(k) /\ Len(due) > 0
                /\ due[Len(due)].number = k.number /\ due[Len(due)].section = z
             \/ Room(k) < Length[z]
    BY <2>2 DEF BringsBeginning
  <2>4. /\ SectionLength(k) = IF Room(k) <= Header THEN Header - 1 ELSE Length[z]
        /\ Least(Room(k), SectionLength(k)) >= 1
        /\ 1 \in 1 .. Least(Room(k), Length[z])
    BY <2>1, <2>3, LengthOfBeginning
  <2>5. q.n_payload = SectionLength(k) /\ q.number = k.number /\ q.recv_payload = Least(Room(k), SectionLength(k))
    BY <2>1 DEF FromPacket
  <2>6. Room(k) \in Nat /\ Length[z] \in Nat /\ Least(Room(k), SectionLength(k)) \in Nat
    BY <2>1, BeginningFits, LengthIs
  <2>7. SectionLength(k) = Length[z]
    BY <1>7, <2>4, <2>5, <2>6
  <2>8. q.payload[1] = k.data[k.pointer_field + 1]
    <3>1. 1 \in 1 .. q.recv_payload
      BY <2>4, <2>5, <2>6
    <3> QED  BY <2>1, <3>1 DEF FromPacket
  <2>9. s = z
    <3>1. q.payload[1] = <<s, 1>>
      BY <1>7
    <3>2. k.data[k.pointer_field + 1] = <<z, 1>>
      BY <2>3, <2>4 DEF BeginsWith
    <3>3. <<s, 1>> = <<z, 1>>
      BY <2>8, <3>1, <3>2, Zenon
    <3> QED  BY <3>3
  <2>10. due[Len(due)].number = k.number /\ due[Len(due)].section = s /\ Len(due) > 0
    BY <2>1, <2>3, <2>6, <2>7, <2>9
  <2>11. Len(due) \in DOMAIN due
    BY <2>10 DEF Brings
  <2> QED  BY <2>5, <2>10, <2>11 DEF Remembers
<1>9. CASE Grows(q, l, k)
  <2>1. /\ l.stat = "PROC" /\ Grown(q, l, k, Least(Brought(k), Missing(l)))
        /\ k.pusi \/ ~ (Brought(k) < Missing(l))
    BY <1>4, <1>9 DEF Grows
  <2>2. l.recv_payload \in Nat /\ l.n_payload \in Nat /\ l.recv_payload <= l.n_payload
    BY <1>4, SaneParts
  <2>3. /\ q.number = l.number /\ q.n_payload = l.n_payload
        /\ \A i \in 1 .. l.recv_payload : q.payload[i] = l.payload[i]
    BY <2>1 DEF Grown
  <2>4. PICK z \in Sections :
          /\ l.payload[1] = <<z, 1>>
          /\ \/ Spoilt(l)
             \/ Remembers(pending, l.number, z)
             \/ current.number = l.number /\ current.section = z /\ l.recv_payload <= current.sent
    BY <1>1, <2>1 DEF GInv, Traced
  <2>5. l.recv_payload >= 1 /\ l.number # 0
    BY <1>1, <2>1 DEF GInv, Traced
  <2>6. z = s
    <3>1. 1 \in 1 .. l.recv_payload /\ 1 \in 1 .. Length[s]
      BY <1>7, <2>2, <2>5
    <3>2. q.payload[1] = <<z, 1>> /\ q.payload[1] = <<s, 1>>
      BY <1>7, <2>3, <2>4, <3>1
    <3> QED  BY <3>2
  <2>7. ASSUME NEW i \in 1 .. Length[s] PROVE q.payload[i] # Filler
    <3>1. q.payload[i] = <<s, i>> /\ s # Stuffing
      BY <1>7, PsiAssumption DEF PsiAssumption
    <3> QED  BY <3>1 DEF Filler
  <2>8. ~ Spoilt(l)
    <3> SUFFICES ASSUME NEW i \in 1 .. l.recv_payload, l.payload[i] = Filler
                 PROVE  FALSE
      BY DEF Spoilt
    <3>1. i \in 1 .. Length[s]
      BY <1>7, <2>2, <2>3
    <3> QED  BY <2>3, <2>7, <3>1
  <2>9. CASE Remembers(pending, l.number, z)
    BY <2>3, <2>6, <2>9 DEF Brings
  <2>10. CASE current.number = l.number /\ current.section = z /\ l.recv_payload <= current.sent
    <3>1. current # Nothing
      BY <2>10, NothingIs
    <3>2. /\ current.sent \in Nat /\ current.sent < Length[s]
      BY <2>6, <2>10, <3>1 DEF GInv, SInv, Sent, Transmission
    <3>3. CASE k.pusi
      BY <2>3, <2>6, <2>10, <3>1, <3>3 DEF Brings, BringsBeginning
    <3>4. CASE ~ k.pusi
      <4>1. Brought(k) = Len(k.data) /\ Len(k.data) \in Nat /\ Len(k.data) >= 1
        BY <3>4, DataType DEF Brings, BringsRest, Brought
      <4>2. /\ Missing(l) \in Nat /\ Missing(l) >= 1
            /\ Missing(l) >= Length[s] - current.sent
            /\ Len(k.data) >= Missing(l)
            /\ l.recv_payload + 1 \in 1 .. Length[s]
        BY <1>7, <2>1, <2>2, <2>3, <2>10, <3>2, <3>4, <4>1 DEF Missing
      <4>3. k.data[1] # Filler
        <5>1. 1 \in 1 .. Least(Brought(k), Missing(l))
          BY <4>1, <4>2 DEF Least
        <5>2. q.payload[l.recv_payload + 1] = k.data[1]
          BY <2>1, <5>1 DEF Grown
        <5> QED  BY <2>7, <4>2, <5>2
      <4>4. ~ (Len(k.data) < Length[s] - current.sent)
        BY <1>7, <3>2, <4>1, <4>2
      <4>5. Remembers(due, current.number, current.section)
        BY <2>6, <2>10, <3>4, <4>3, <4>4 DEF Brings, BringsRest
      <4> QED  BY <2>3, <2>6, <2>10, <4>5
    <3> QED  BY <3>3, <3>4
  <2> QED  BY <2>4, <2>8, <2>9, <2>10
<1> QED  BY <1>5, <1>8, <1>9

(* What is in assembly afterwards began in a section that was sent.        *)
LEMMA ReceiveTraces ==
  ASSUME GInv, NEW k, Packet(k), NEW due, Brings(k, due), Receive(k, due)
  PROVE  /\ Genuine' /\ pending' \in Seq(Due)
         /\ Traced(Left(ps'), pending', current')
<1>1. PICK l : l = Left(ps)
  OBVIOUS
<1>2. PICK q : q = ParsePSI(ps, k)
  OBVIOUS
<1>3. PICK places : places = Places(due, q)
  OBVIOUS
<1>4. Sane(ps) /\ NoneKept(ps)
  BY StaysMeansSane DEF GInv, SInv
<1>5. /\ Sane(l) /\ Sane(q) /\ NoneKept(q)
      /\ Idle(q, l, k) \/ Begins(q, l, k) \/ Loses(q, l, k) \/ Grows(q, l, k)
  BY <1>1, <1>2, <1>4, ParseIs, ParseSane
<1>6. q.stat = "FINISHED" => places # {}
  BY <1>2, <1>3, HandedIsDue
<1>7. PICK place : place = Min(places)
  OBVIOUS
<1>8. /\ ps' = Used(q)
      /\ pending' = Remembered(IF q.stat = "FINISHED" THEN Settled(due, place) ELSE due, ps')
      /\ genuine'
  <2>1. /\ ps' = Used(q)
        /\ pending' = Remembered(IF q.stat = "FINISHED" /\ places # {}
                                 THEN Settled(due, Min(places)) ELSE due, ps')
        /\ genuine' = (genuine /\ (q.stat = "FINISHED" => places # {}))
    BY <1>2, <1>3 DEF Receive
  <2>2. genuine'
    BY <1>6, <2>1 DEF GInv, Genuine
  <2> QED  BY <1>6, <1>7, <2>1, <2>2
<1>9. due \in Seq(Due)
  BY DEF Brings
<1>10. places \subseteq 1 .. Len(due) /\ \A i \in places : due[i].number = q.number
  BY <1>3, <1>9 DEF Places
<1>11. q.stat = "FINISHED" => place \in places
  <2>1. places \subseteq Nat
    BY <1>10
  <2>2. q.stat = "FINISHED" => \E x \in places : \A y \in places : x <= y
    BY <1>6, <2>1, FirstOne
  <2> QED  BY <1>7, <2>2, Zenon DEF Min
<1>18. Len(due) \in Nat /\ (q.stat = "FINISHED" => place \in 1 .. Len(due) /\ place \in Nat)
  <2>1. Len(due) \in Nat
    BY <1>9
  <2>2. place \in 1 .. Len(due) => place \in Nat
    BY <2>1
  <2> QED  BY <1>10, <1>11, <2>1, <2>2
<1>12. PICK left : left = IF q.stat = "FINISHED" THEN Settled(due, place) ELSE due
  OBVIOUS
<1>13. /\ left \in Seq(Due)
       /\ q.stat = "FINISHED" /\ place < Len(due) =>
            Remembers(left, due[Len(due)].number, due[Len(due)].section)
       /\ pending' = Remembered(left, ps')
  BY <1>8, <1>9, <1>12, <1>18, SettledKeeps
<1>14. pending' \in Seq(Due)
  BY <1>13, RememberedType
<1>15. PICK m : m = Left(ps')
  OBVIOUS
<1>16. ASSUME m.stat = "PROC" PROVE Traced(m, pending', current')
  <2>1. /\ q.stat = "PROC" => ps' = q /\ m = q
        /\ q.stat = "FINISHED" /\ table # "PMT" => ps' = q
        /\ \/ q.stat = "PROC"
           \/ /\ q.stat = "FINISHED" /\ table # "PMT" /\ k.pusi /\ Grows(q, l, k)
              /\ FromPacket(m, k) /\ m.number = q.next_number
    BY <1>5, <1>8, <1>15, <1>16, AfterIs
  <2>2. m.number \in {ps'.number, ps'.next_number}
    BY <2>1
  <2>3. ASSUME m.number # 0, NEW s, Remembers(left, m.number, s)
        PROVE  Remembers(pending', m.number, s)
    BY <1>13, <2>2, <2>3, RememberedKeeps
  <2>4. CASE k.pusi
    <3>1. FromPacket(m, k) /\ (q.stat = "FINISHED" => Grows(q, l, k))
      BY <1>5, <2>1, <2>4 DEF Idle, Begins, Loses, Grows
    <3>2. BringsBeginning(k, due)
      BY <2>4 DEF Brings
    <3>3. PICK s \in Sections :
            /\ BeginsWith(k, s)
            /\ \/ /\ Length[s] <= Room(k) /\ Len(due) > 0
                  /\ due[Len(due)].number = k.number /\ due[Len(due)].section = s
               \/ /\ Room(k) < Length[s]
                  /\ current'.number = k.number /\ current'.section = s /\ current'.sent = Room(k)
      BY <3>2 DEF BringsBeginning
    <3>4. /\ Least(Room(k), SectionLength(k)) >= 1
          /\ 1 \in 1 .. Least(Room(k), Length[s])
      BY <2>4, <3>3, LengthOfBeginning
    <3>5. /\ Least(Room(k), SectionLength(k)) \in Nat
          /\ Least(Room(k), SectionLength(k)) <= Room(k)
      BY <2>4, BeginningFits
    <3>6. /\ m.number = k.number /\ m.recv_payload = Least(Room(k), SectionLength(k))
          /\ \A i \in 1 .. m.recv_payload : m.payload[i] = k.data[k.pointer_field + i]
      BY <3>1 DEF FromPacket
    <3>7. m.number # 0 /\ m.recv_payload >= 1 /\ m.payload[1] = <<s, 1>>
      <4>1. k.number # 0 /\ 1 \in 1 .. m.recv_payload
        BY <3>2, <3>4, <3>5, <3>6 DEF BringsBeginning
      <4>2. m.payload[1] = k.data[k.pointer_field + 1]
        BY <3>6, <4>1
      <4>3. k.data[k.pointer_field + 1] = <<s, 1>>
        BY <3>3, <3>4 DEF BeginsWith
      <4> QED  BY <3>4, <3>6, <4>1, <4>2, <4>3
    <3>8. CASE Room(k) < Length[s]
      <4>1. Length[s] \in Nat /\ Room(k) \in Nat
        BY <2>4, BeginningFits, LengthIs
      <4>2. current'.number = m.number /\ current'.section = s /\ m.recv_payload <= current'.sent
        BY <3>3, <3>5, <3>6, <3>8, <4>1
      <4> QED  BY <3>7, <4>2 DEF Traced
    <3>9. CASE /\ Length[s] <= Room(k) /\ Len(due) > 0
               /\ due[Len(due)].number = k.number /\ due[Len(due)].section = s
      <4>1. Len(due) \in 1 .. Len(due) /\ Len(due) \in DOMAIN due
        BY <1>9, <3>9
      <4>2. Remembers(left, m.number, s)
        <5>1. CASE q.stat = "FINISHED"
          <6>1. q.number = l.number
            BY <3>1, <5>1 DEF Grows, Grown
          <6>2. l.number \in {ps.number, ps.next_number}
            <7>1. TakenUp(ps).number = ps.next_number /\ [ps EXCEPT !.stat = "INIT"].number = ps.number
              BY <1>4 DEF TakenUp, Sane, StateType
            <7> QED  BY <1>1, <7>1 DEF Left
          <6>3. k.number # q.number
            BY <3>2, <6>1, <6>2 DEF BringsBeginning
          <6>4. Len(due) \notin places
            BY <1>10, <3>9, <6>3
          <6>5. place < Len(due)
            <7>1. place # Len(due)
              BY <1>11, <5>1, <6>4
            <7> QED  BY <1>18, <5>1, <7>1
          <6> QED  BY <1>13, <3>6, <3>9, <5>1, <6>5
        <5>2. CASE q.stat # "FINISHED"
          BY <1>12, <3>6, <3>9, <4>1, <5>2 DEF Remembers
        <5> QED  BY <5>1, <5>2
      <4> QED  BY <2>3, <3>7, <4>2 DEF Traced
    <3> QED  BY <3>3, <3>8, <3>9
  <2>5. CASE ~ k.pusi
    <3>1. q.stat = "PROC" /\ Grows(q, l, k) /\ m = q /\ left = due
      BY <1>5, <1>12, <2>1, <2>5 DEF Idle, Begins, Loses
    <3>2. /\ l.stat = "PROC" /\ Brought(k) < Missing(l)
          /\ Grown(m, l, k, Least(Brought(k), Missing(l)))
      BY <2>5, <3>1 DEF Grows
    <3>3. Brought(k) = Len(k.data) /\ Len(k.data) \in Nat /\ BringsRest(k, due) /\ Len(k.data) >= 1
      BY <2>5, DataType DEF Brought, Brings, BringsRest
    <3>4. l.recv_payload \in Nat /\ Missing(l) \in Nat
      BY <1>5, SaneParts DEF Missing
    <3>5. Least(Brought(k), Missing(l)) = Len(k.data)
      BY <3>2, <3>3 DEF Least
    <3>6. /\ m.number = l.number /\ m.recv_payload = l.recv_payload + Len(k.data)
          /\ \A i \in 1 .. l.recv_payload : m.payload[i] = l.payload[i]
          /\ \A i \in 1 .. Len(k.data) : m.payload[l.recv_payload + i] = k.data[i]
      BY <3>2, <3>5 DEF Grown
    <3>7. PICK s \in Sections :
            /\ l.payload[1] = <<s, 1>>
            /\ \/ Spoilt(l)
               \/ Remembers(pending, l.number, s)
               \/ current.number = l.number /\ current.section = s /\ l.recv_payload <= current.sent
      BY <1>1, <3>2 DEF GInv, Traced
    <3>8. l.number # 0 /\ l.recv_payload >= 1
      BY <1>1, <3>2 DEF GInv, Traced
    <3>9. m.number # 0 /\ m.recv_payload >= 1 /\ m.payload[1] = <<s, 1>>
      <4>1. 1 \in 1 .. l.recv_payload
        BY <3>4, <3>8
      <4>2. m.payload[1] = <<s, 1>>
        BY <3>6, <3>7, <4>1
      <4>3. m.recv_payload >= 1
        BY <3>3, <3>4, <3>6
      <4> QED  BY <3>6, <3>8, <4>2, <4>3
    <3>10. CASE Spoilt(l)
      <4>1. PICK i \in 1 .. l.recv_payload : l.payload[i] = Filler
        BY <3>10 DEF Spoilt
      <4>2. i \in 1 .. m.recv_payload /\ m.payload[i] = Filler
        BY <3>3, <3>4, <3>6, <4>1
      <4>3. Spoilt(m)
        BY <4>2 DEF Spoilt
      <4> QED  BY <3>9, <4>3 DEF Traced
    <3>11. CASE Remembers(pending, l.number, s)
      <4>1. Remembers(pending', m.number, s)
        BY <2>3, <3>1, <3>6, <3>9, <3>11 DEF Brings
      <4> QED  BY <3>9, <4>1 DEF Traced
    <3>12. CASE current.number = l.number /\ current.section = s /\ l.recv_payload <= current.sent
      <4>1. CASE k.data[1] = Filler
        <5>1. l.recv_payload + 1 \in 1 .. m.recv_payload /\ m.payload[l.recv_payload + 1] = Filler
          BY <3>3, <3>4, <3>6, <4>1
        <5>2. Spoilt(m)
          BY <5>1 DEF Spoilt
        <5> QED  BY <3>9, <5>2 DEF Traced
      <4>2. CASE Remembers(due, current.number, current.section)
        <5>1. Remembers(pending', m.number, s)
          BY <2>3, <3>1, <3>6, <3>9, <3>12, <4>2
        <5> QED  BY <3>9, <5>1 DEF Traced
      <4>3. CASE /\ current # Nothing
                 /\ current'.number = current.number /\ current'.section = current.section
                 /\ current'.sent = current.sent + Len(k.data)
        <5>1. current.sent \in Nat
          BY <4>3 DEF GInv, SInv, Sent, Transmission
        <5>2. m.recv_payload <= current'.sent
          BY <3>3, <3>4, <3>6, <3>12, <4>3, <5>1
        <5> QED  BY <3>6, <3>9, <3>12, <4>3, <5>2 DEF Traced
      <4> QED  BY <3>3, <4>1, <4>2, <4>3 DEF BringsRest
    <3> QED  BY <3>7, <3>10, <3>11, <3>12
  <2> QED  BY <2>4, <2>5
<1>17. Traced(m, pending', current')
  BY <1>16 DEF Traced
<1> QED  BY <1>8, <1>14, <1>15, <1>17 DEF Genuine

-----------------------------------------------------------------------------
(* What the packets hold.                                                  *)
LEMMA FilledIs ==
  ASSUME NEW bytes, NEW n \in Nat, NEW i \in 1 .. n
  PROVE  Filled(bytes, n)[i] = IF i <= Len(bytes) THEN bytes[i] ELSE Filler
BY DEF Filled

LEMMA RestIs ==
  ASSUME Sent
  PROVE  /\ Rest \in Seq(Bytes) /\ Len(Rest) \in Nat
         /\ current = Nothing => Len(Rest) = 0
         /\ current # Nothing =>
              /\ Transmission(current)
              /\ Length[current.section] \in Nat
              /\ Len(Rest) = Length[current.section] - current.sent
              /\ Len(Rest) >= 1
              /\ \A i \in 1 .. Len(Rest) : Rest[i] = <<current.section, current.sent + i>>
<1>1. Rest \in Seq(Bytes) /\ Len(Rest) \in Nat
  BY RestType, LenProperties
<1>2. CASE current = Nothing
  <2>1. Rest = <<>>
    BY <1>2 DEF Rest
  <2> QED  BY <1>1, <1>2, <2>1
<1>3. CASE current # Nothing
  <2>1. Transmission(current)
    BY <1>3 DEF Sent
  <2>2. current.section \in Sections /\ Length[current.section] \in Nat
    BY <2>1, LengthIs DEF Transmission
  <2>3. Rest = BytesFrom(current.section, current.sent)
    BY <1>3 DEF Rest
  <2>4. current.sent \in Nat /\ current.sent < Length[current.section]
    BY <2>1 DEF Transmission
  <2>5. Len(Rest) = Length[current.section] - current.sent
    BY <2>2, <2>3, <2>4, BytesFromType
  <2>6. Len(Rest) >= 1
    BY <2>2, <2>4, <2>5
  <2>7. ASSUME NEW i \in 1 .. Len(Rest) PROVE Rest[i] = <<current.section, current.sent + i>>
    BY <2>3, <2>5 DEF BytesFrom
  <2> QED  BY <1>1, <1>3, <2>1, <2>2, <2>5, <2>6, <2>7
<1> QED  BY <1>2, <1>3

LEMMA ConcatIs ==
  ASSUME NEW a \in Seq(Due), NEW b \in Seq(Due)
  PROVE  /\ a \o b \in Seq(Due) /\ Len(a \o b) = Len(a) + Len(b)
         /\ Len(a) \in Nat /\ Len(b) \in Nat
         /\ \A i \in 1 .. Len(a) : i \in DOMAIN (a \o b) /\ (a \o b)[i] = a[i]
         /\ \A i \in 1 .. Len(b) : Len(a) + i \in DOMAIN (a \o b) /\ (a \o b)[Len(a) + i] = b[i]
         /\ \A n, s : Remembers(a, n, s) \/ Remembers(b, n, s) => Remembers(a \o b, n, s)
<1>1. Len(a) \in Nat /\ Len(b) \in Nat /\ DOMAIN a = 1 .. Len(a) /\ DOMAIN b = 1 .. Len(b)
  BY LenProperties
<1>2. /\ a \o b \in Seq(Due) /\ Len(a \o b) = Len(a) + Len(b)
      /\ \A i \in 1 .. Len(a) + Len(b) : (a \o b)[i] = IF i <= Len(a) THEN a[i] ELSE b[i - Len(a)]
  BY ConcatProperties
<1>3. DOMAIN (a \o b) = 1 .. Len(a) + Len(b)
  BY <1>2, LenProperties
<1>4. \A i \in 1 .. Len(a) : i \in DOMAIN (a \o b) /\ (a \o b)[i] = a[i]
  BY <1>1, <1>2, <1>3
<1>5. ASSUME NEW i \in 1 .. Len(b)
      PROVE  Len(a) + i \in DOMAIN (a \o b) /\ (a \o b)[Len(a) + i] = b[i]
  <2>1. Len(a) + i \in 1 .. Len(a) + Len(b) /\ ~ (Len(a) + i <= Len(a)) /\ Len(a) + i - Len(a) = i
    BY <1>1
  <2> QED  BY <1>2, <1>3, <2>1
<1>6. \A n, s : Remembers(a, n, s) => Remembers(a \o b, n, s)
  BY <1>1, <1>4, Zenon DEF Remembers
<1>7. \A n, s : Remembers(b, n, s) => Remembers(a \o b, n, s)
  BY <1>1, <1>5, Zenon DEF Remembers
<1> QED  BY <1>1, <1>2, <1>4, <1>5, <1>6, <1>7

LEMMA ConcatAt ==
  ASSUME NEW a \in Seq(Due), NEW b \in Seq(Due)
  PROVE  /\ Len(a \o b) = Len(a) + Len(b) /\ Len(a) \in Nat
         /\ \A i \in 1 .. Len(b) : (a \o b)[Len(a) + i] = b[i]
BY ConcatIs, Zenon

LEMMA EndingIs ==
  ASSUME NEW t, t = Nothing \/ t \in Going, NEW n \in Nat
  PROVE  /\ Ending(t, n) \in Seq(Due) /\ Len(Ending(t, n)) \in {0, 1}
         /\ t # Nothing /\ Length[t.section] - t.sent <= n =>
              /\ Len(Ending(t, n)) = 1 /\ Ending(t, n)[1] = Ended(t, t.must)
              /\ Remembers(Ending(t, n), t.number, t.section)
         /\ t = Nothing \/ ~ (Length[t.section] - t.sent <= n) => Len(Ending(t, n)) = 0
<1>1. CASE t # Nothing /\ Length[t.section] - t.sent <= n
  <2>1. t \in Going
    BY <1>1
  <2>2. Ended(t, t.must) \in Due /\ Ended(t, t.must).number = t.number /\ Ended(t, t.must).section = t.section
    BY <2>1 DEF Ended, Due, Going
  <2>3. Ending(t, n) = <<Ended(t, t.must)>>
    BY <1>1 DEF Ending
  <2>4. PICK e \in Due : e = Ended(t, t.must)
    BY <2>2
  <2>5. <<e>> \in Seq(Due) /\ Len(<<e>>) = 1 /\ <<e>>[1] = e /\ 1 \in DOMAIN <<e>>
    OBVIOUS
  <2>6. Remembers(<<e>>, t.number, t.section)
    BY <2>2, <2>4, <2>5 DEF Remembers
  <2> QED  BY <1>1, <2>3, <2>4, <2>5, <2>6
<1>2. CASE t = Nothing \/ ~ (Length[t.section] - t.sent <= n)
  <2>1. Ending(t, n) = <<>>
    BY <1>2 DEF Ending
  <2>2. <<>> \in Seq(Due) /\ Len(<<>>) = 0
    OBVIOUS
  <2> QED  BY <1>2, <2>1, <2>2
<1> QED  BY <1>1, <1>2

LEMMA SendingIs ==
  ASSUME NEW t \in Going, NEW n \in Nat
  PROVE  /\ Length[t.section] - t.sent <= n => Sending(t, n) = Nothing
         /\ ~ (Length[t.section] - t.sent <= n) =>
              /\ Sending(t, n) \in Going
              /\ Sending(t, n).section = t.section /\ Sending(t, n).number = t.number
              /\ Sending(t, n).sent = t.sent + n /\ Sending(t, n).must = t.must
         /\ Sending(t, n) = Nothing \/ Sending(t, n) \in Going
<1>1. CASE Length[t.section] - t.sent <= n
  BY <1>1 DEF Sending
<1>2. CASE ~ (Length[t.section] - t.sent <= n)
  <2>1. Sending(t, n) = [t EXCEPT !.sent = t.sent + n]
    BY <1>2 DEF Sending, Going
  <2>2. t.sent + n \in Nat
    BY DEF Going
  <2> QED  BY <1>2, <2>1, <2>2 DEF Going
<1> QED  BY <1>1, <1>2

LEMMA BeginningIs ==
  ASSUME Sent, NEW s \in Sections, NEW n \in Nat, NEW second \in Seq(Bytes),
         Payload - 1 - Len(Rest) > 0, NEW k, k = Beginning(s, n, second)
  PROVE  /\ k.pusi /\ k.number = n /\ k.counter = counter
         /\ k.pointer_field = Len(Rest)
         /\ Room(k) = Payload - 1 - Len(Rest) /\ Room(k) \in Nat
         /\ \A i \in 1 .. Len(Rest) : k.data[i] = Rest[i]
         /\ BeginsWith(k, s)
<1>1. Rest \in Seq(Bytes) /\ Len(Rest) \in Nat
  BY RestIs
<1>2. Length[s] \in Nat
  BY LengthIs
<1>3. PICK first \in Seq(Bytes) : first = BytesFrom(s, 0)
  BY <1>2, BytesFromType
<1>4. Len(first) = Length[s] /\ \A i \in 1 .. Length[s] : first[i] = <<s, i>>
  <2>1. Len(first) = Length[s] - 0 /\ Length[s] - 0 = Length[s]
    BY <1>2, <1>3, BytesFromType
  <2>2. ASSUME NEW i \in 1 .. Length[s] PROVE first[i] = <<s, i>>
    <3>1. i \in 1 .. Length[s] - 0 /\ 0 + i = i
      BY <1>2
    <3> QED  BY <1>3, <3>1 DEF BytesFrom
  <2> QED  BY <2>1, <2>2
<1>5. PICK bytes \in Seq(Bytes) : bytes = Rest \o first
  BY <1>1, ConcatProperties
<1>6. /\ Len(bytes) = Len(Rest) + Length[s]
      /\ \A i \in 1 .. Len(Rest) + Length[s] :
           bytes[i] = IF i <= Len(Rest) THEN Rest[i] ELSE first[i - Len(Rest)]
  BY <1>1, <1>4, <1>5, ConcatProperties
<1>7. PICK all \in Seq(Bytes) : all = bytes \o second
  BY ConcatProperties
<1>8. /\ Len(all) = Len(bytes) + Len(second) /\ Len(second) \in Nat
      /\ \A i \in 1 .. Len(bytes) + Len(second) :
           all[i] = IF i <= Len(bytes) THEN bytes[i] ELSE second[i - Len(bytes)]
  BY <1>7, ConcatProperties, LenProperties
<1>9. Payload - 1 \in Nat
  BY PsiAssumption DEF PsiAssumption
<1>10. k = [pusi |-> TRUE, pointer_field |-> Len(Rest), counter |-> counter,
            data |-> Filled(all, Payload - 1), number |-> n]
  BY <1>3, <1>5, <1>7 DEF Beginning
<1>11. /\ k.pusi /\ k.number = n /\ k.counter = counter /\ k.pointer_field = Len(Rest)
       /\ k.data = Filled(all, Payload - 1)
  BY <1>10
<1>12. Len(k.data) = Payload - 1
  BY <1>9, <1>11, FilledType
<1>13. Room(k) = Payload - 1 - Len(Rest) /\ Room(k) \in Nat
  BY <1>1, <1>9, <1>11, <1>12 DEF Room
<1>14. ASSUME NEW i \in 1 .. Payload - 1, i <= Len(Rest) + Length[s]
       PROVE  k.data[i] = bytes[i]
  <2>1. k.data[i] = IF i <= Len(all) THEN all[i] ELSE Filler
    BY <1>9, <1>11, FilledIs
  <2>2. i <= Len(all) /\ i <= Len(bytes) /\ i \in 1 .. Len(bytes) + Len(second)
    <3>1. PICK x \in Nat, y \in Nat : x = Len(bytes) /\ y = Len(second)
      BY <1>1, <1>2, <1>6, <1>8
    <3>2. i \in Nat /\ 1 <= i /\ i <= x /\ Len(all) = x + y
      BY <1>6, <1>8, <1>9, <1>14, <3>1
    <3>3. i <= x + y /\ i \in 1 .. x + y
      BY <3>1, <3>2
    <3> QED  BY <3>1, <3>2, <3>3
  <2> QED  BY <1>8, <2>1, <2>2
<1>15. ASSUME NEW i \in 1 .. Len(Rest) PROVE k.data[i] = Rest[i]
  <2>1. i \in 1 .. Payload - 1 /\ i <= Len(Rest) + Length[s] /\ i \in 1 .. Len(Rest) + Length[s]
    BY <1>1, <1>2, <1>9
  <2> QED  BY <1>6, <1>14, <2>1
<1>16. ASSUME NEW i \in 1 .. Least(Room(k), Length[s])
       PROVE  k.data[k.pointer_field + i] = <<s, i>>
  <2>5. /\ Least(Room(k), Length[s]) \in Nat
        /\ Least(Room(k), Length[s]) <= Room(k) /\ Least(Room(k), Length[s]) <= Length[s]
    BY <1>2, <1>13, LeastFacts
  <2>1. i \in Nat /\ 1 <= i /\ i <= Room(k) /\ i <= Length[s]
    BY <1>2, <1>13, <2>5
  <2> DEFINE j == Len(Rest) + i
  <2>2. j \in 1 .. Payload - 1 /\ j <= Len(Rest) + Length[s] /\ j \in 1 .. Len(Rest) + Length[s]
        /\ ~ (j <= Len(Rest)) /\ j - Len(Rest) = i
    BY <1>1, <1>2, <1>9, <1>13, <2>1
  <2> HIDE DEF j
  <2>3. k.data[j] = first[i]
    BY <1>6, <1>14, <2>2
  <2>4. first[i] = <<s, i>>
    BY <1>4, <2>1
  <2> QED  BY <1>11, <2>3, <2>4 DEF j
<1> QED  BY <1>11, <1>13, <1>15, <1>16 DEF BeginsWith

LEMMA ContinuationIs ==
  ASSUME Sent, current # Nothing, NEW k, k = Continuation
  PROVE  /\ ~ k.pusi /\ k.counter = counter /\ Len(k.data) = Payload
         /\ \A i \in 1 .. Payload : k.data[i] = IF i <= Len(Rest) THEN Rest[i] ELSE Filler
<1>1. Payload \in Nat
  BY PsiAssumption DEF PsiAssumption
<1>2. Rest \in Seq(Bytes)
  BY RestIs
<1>3. /\ ~ k.pusi /\ k.counter = counter /\ k.data = Filled(Rest, Payload)
  BY DEF Continuation
<1> QED  BY <1>1, <1>2, <1>3, FilledType, FilledIs

LEMMA BareIs ==
  ASSUME NEW k, k = Bare
  PROVE  /\ ~ k.pusi /\ k.counter = (counter - 1) % CounterMod
         /\ Len(k.data) = Payload + 1 /\ Len(k.data) >= 1
         /\ \A i \in 1 .. Payload + 1 : k.data[i] = Filler
         /\ k.data[1] = Filler
<1>1. Payload + 1 \in Nat /\ 1 \in 1 .. Payload + 1
  BY PsiAssumption DEF PsiAssumption
<1>2. <<>> \in Seq(Bytes) /\ Len(<<>>) = 0
  OBVIOUS
<1>3. ~ k.pusi /\ k.counter = (counter - 1) % CounterMod /\ k.data = Filled(<<>>, Payload + 1)
  BY DEF Bare
<1>4. Len(k.data) = Payload + 1
  BY <1>1, <1>2, <1>3, FilledType
<1>5. ASSUME NEW i \in 1 .. Payload + 1 PROVE k.data[i] = Filler
  <2>1. k.data[i] = IF i <= Len(<<>>) THEN <<>>[i] ELSE Filler
    BY <1>1, <1>3, FilledIs
  <2> QED  BY <1>1, <1>2, <2>1
<1> QED  BY <1>1, <1>3, <1>4, <1>5

LEMMA AgedRemembers ==
  ASSUME Typed, NEW n, NEW s, Remembers(pending, n, s)
  PROVE  Remembers(Aged, n, s)
<1>1. PICK i \in DOMAIN pending : pending[i].number = n /\ pending[i].section = s
  BY DEF Remembers
<1>2. i \in 1 .. Len(pending) /\ i \in DOMAIN Aged
  BY AgedIs, LenProperties DEF Typed
<1>3. Aged[i].number = n /\ Aged[i].section = s
  BY <1>1, <1>2, AgedIs DEF Typed
<1> QED  BY <1>2, <1>3 DEF Remembers

(* What one packet sends is added to what is due.                          *)
LEMMA AddedIs ==
  ASSUME Typed, NEW e \in Seq(Due)
  PROVE  /\ Aged \o e \in Seq(Due) /\ pending \o e \in Seq(Due)
         /\ \A n, s : Remembers(pending, n, s) \/ Remembers(e, n, s) =>
              Remembers(Aged \o e, n, s) /\ Remembers(pending \o e, n, s)
<1>1. Aged \in Seq(Due) /\ pending \in Seq(Due)
  BY AgedIs DEF Typed
<1>2. \A n, s : Remembers(pending, n, s) => Remembers(Aged, n, s)
  BY AgedRemembers
<1> QED  BY <1>1, <1>2, ConcatIs

LEMMA ForgivenRemembers ==
  ASSUME NEW due \in Seq(Due), NEW n, NEW s, Remembers(due, n, s)
  PROVE  Remembers(Forgiven(due), n, s)
<1>1. PICK i \in DOMAIN due : due[i].number = n /\ due[i].section = s
  BY DEF Remembers
<1>2. i \in 1 .. Len(due) /\ i \in DOMAIN Forgiven(due)
  BY ForgivenIs, LenProperties
<1>3. Forgiven(due)[i].number = n /\ Forgiven(due)[i].section = s
  BY <1>1, <1>2, ForgivenIs
<1> QED  BY <1>2, <1>3 DEF Remembers

(* The transmission ends, when there is room for the rest of it.           *)
LEMMA CurrentEnds ==
  ASSUME Sent, Typed, current # Nothing, NEW n \in Nat
  PROVE  /\ current \in Going
         /\ Length[current.section] - current.sent = Len(Rest)
         /\ Len(Rest) <= n => Remembers(Ending(current, n), current.number, current.section)
<1>1. current \in Going /\ Length[current.section] - current.sent = Len(Rest)
  BY RestIs DEF Typed
<1> QED  BY <1>1, EndingIs

LEMMA ContinuationBrings ==
  ASSUME Sent, Typed, current # Nothing, current' = Sending(current, Payload)
  PROVE  Brings(Continuation, Aged \o Ending(current, Payload))
<1>1. PICK k : k = Continuation
  OBVIOUS
<1>2. PICK e : e = Ending(current, Payload)
  OBVIOUS
<1>3. Payload \in Nat /\ Payload >= 1
  BY PsiAssumption DEF PsiAssumption
<1>4. e \in Seq(Due)
  BY <1>2, <1>3, EndingIs DEF Typed
<1>5. /\ Aged \o e \in Seq(Due)
      /\ \A n, s : Remembers(pending, n, s) \/ Remembers(e, n, s) => Remembers(Aged \o e, n, s)
  BY <1>4, AddedIs
<1>6. ~ k.pusi /\ Len(k.data) = Payload
  BY <1>1, ContinuationIs
<1>7. /\ current \in Going /\ Length[current.section] - current.sent = Len(Rest) /\ Len(Rest) \in Nat
      /\ Len(Rest) <= Payload => Remembers(e, current.number, current.section)
  BY <1>2, <1>3, CurrentEnds, RestIs
<1>8. CASE Len(Rest) <= Payload
  <2>1. BringsRest(k, Aged \o e)
    BY <1>3, <1>5, <1>6, <1>7, <1>8 DEF BringsRest
  <2> QED  BY <1>1, <1>2, <1>5, <1>6, <2>1 DEF Brings
<1>9. CASE ~ (Len(Rest) <= Payload)
  <2>1. /\ current'.section = current.section /\ current'.number = current.number
        /\ current'.sent = current.sent + Payload
    BY <1>3, <1>7, <1>9, SendingIs
  <2>2. Payload < Len(Rest)
    BY <1>3, <1>7, <1>9
  <2>3. BringsRest(k, Aged \o e)
    BY <1>3, <1>6, <1>7, <2>1, <2>2 DEF BringsRest
  <2> QED  BY <1>1, <1>2, <1>5, <1>6, <2>3 DEF Brings
<1> QED  BY <1>8, <1>9

LEMMA BareBrings ==
  ASSUME Typed
  PROVE  Brings(Bare, Forgiven(Aged))
<1>1. PICK k : k = Bare
  OBVIOUS
<1>2. Aged \in Seq(Due) /\ Forgiven(Aged) \in Seq(Due)
  BY AgedIs, ForgivenIs DEF Typed
<1>3. ASSUME NEW n, NEW s, Remembers(pending, n, s) PROVE Remembers(Forgiven(Aged), n, s)
  <2>1. Remembers(Aged, n, s)
    BY <1>3, AgedRemembers
  <2> QED  BY <1>2, <2>1, ForgivenRemembers
<1>4. ~ k.pusi /\ Len(k.data) >= 1 /\ k.data[1] = Filler
  BY <1>1, BareIs
<1> QED  BY <1>1, <1>2, <1>3, <1>4 DEF Brings, BringsRest

LEMMA BeginningBrings ==
  ASSUME Sent, Typed, NEW s \in Sections, NEW n \in Nat, n # 0, IsNew(n),
         NEW second \in Seq(Bytes), NEW room, room = Payload - 1 - Len(Rest), room > 0,
         NEW begun \in Going, begun.section = s, begun.number = n, begun.sent = 0,
         Length[s] <= room \/ current' = Sending(begun, room)
  PROVE  Brings(Beginning(s, n, second), Aged \o (Ending(current, Payload) \o Ending(begun, room)))
<1>1. PICK k : k = Beginning(s, n, second)
  OBVIOUS
<1>2. /\ k.pusi /\ k.number = n /\ Room(k) = room /\ room \in Nat
      /\ BeginsWith(k, s)
  <2>1. Payload - 1 - Len(Rest) > 0
    OBVIOUS
  <2>2. /\ k.pusi /\ k.number = n /\ Room(k) = Payload - 1 - Len(Rest) /\ Room(k) \in Nat
    BY <1>1, <2>1, BeginningIs
  <2>3. BeginsWith(k, s)
    BY <1>1, <2>1, BeginningIs
  <2> QED  BY <2>2, <2>3
<1>3. PICK a : a = Ending(current, Payload)
  OBVIOUS
<1>4. PICK b : b = Ending(begun, room)
  OBVIOUS
<1>5. Payload \in Nat /\ Len(Rest) \in Nat /\ Length[s] \in Nat
  BY RestIs, LengthIs, PsiAssumption DEF PsiAssumption
<1>6. a \in Seq(Due) /\ b \in Seq(Due)
  BY <1>2, <1>3, <1>4, <1>5, EndingIs DEF Typed
<1>7. PICK e \in Seq(Due) : e = a \o b
  BY <1>6, ConcatIs
<1>8. PICK due \in Seq(Due) : due = Aged \o e
  BY <1>7, AddedIs
<1>9. \A m, z : Remembers(pending, m, z) \/ Remembers(a, m, z) \/ Remembers(b, m, z) => Remembers(due, m, z)
  BY <1>6, <1>7, <1>8, AddedIs, ConcatIs
<1>10. current # Nothing => Remembers(due, current.number, current.section)
  <2> SUFFICES ASSUME current # Nothing
               PROVE  Remembers(a, current.number, current.section)
    BY <1>9
  <2>1. Len(Rest) <= Payload
    BY <1>2, <1>5
  <2> QED  BY <1>3, <1>5, <2>1, CurrentEnds
<1>11. k.number \notin {0, ps.number, ps.next_number}
  BY <1>2 DEF IsNew, NumbersInUse
<1>12. CASE Length[s] <= room
  <2>1. begun # Nothing /\ Length[begun.section] - begun.sent <= room
    <3>1. begun # Nothing
      BY DEF Nothing
    <3>2. PICK x \in Nat : x = Length[s]
      BY <1>5
    <3>3. Length[begun.section] - begun.sent = x - 0 /\ x - 0 = x
      BY <3>2
    <3> QED  BY <1>12, <3>1, <3>2, <3>3
  <2>2. Len(b) = 1 /\ b[1] = Ended(begun, begun.must)
    BY <1>2, <1>4, <2>1, EndingIs
  <2>3. 1 \in 1 .. Len(b) /\ b[1].number = n /\ b[1].section = s
    BY <2>2 DEF Ended
  <2>4. Len(e) = Len(a) + 1 /\ e[Len(a) + 1] = b[1] /\ Len(a) \in Nat
    <3>1. /\ Len(e) = Len(a) + Len(b) /\ Len(a) \in Nat
          /\ \A i \in 1 .. Len(b) : e[Len(a) + i] = b[i]
      <4>1. /\ Len(a \o b) = Len(a) + Len(b) /\ Len(a) \in Nat
            /\ \A i \in 1 .. Len(b) : (a \o b)[Len(a) + i] = b[i]
        BY <1>6, ConcatAt, Zenon
      <4> QED  BY <1>7, <4>1, Zenon
    <3>2. e[Len(a) + 1] = b[1]
      BY <2>3, <3>1
    <3> QED  BY <2>2, <3>1, <3>2
  <2>5. Len(a) + 1 \in 1 .. Len(e)
    BY <2>4
  <2>6. Aged \in Seq(Due)
    BY AgedIs DEF Typed
  <2>7. /\ Len(Aged) \in Nat /\ Len(due) = Len(Aged) + Len(e)
        /\ due[Len(Aged) + (Len(a) + 1)] = e[Len(a) + 1]
    BY <1>7, <1>8, <2>5, <2>6, ConcatIs
  <2>8. Len(due) = Len(Aged) + (Len(a) + 1) /\ Len(due) > 0
    BY <2>4, <2>7
  <2>9. due[Len(due)].number = k.number /\ due[Len(due)].section = s
    BY <1>2, <2>3, <2>4, <2>7, <2>8
  <2>10. BringsBeginning(k, due)
    BY <1>2, <1>10, <1>11, <1>12, <2>8, <2>9, Zenon DEF BringsBeginning
  <2> QED  BY <1>1, <1>2, <1>3, <1>4, <1>7, <1>8, <1>9, <2>10 DEF Brings
<1>13. CASE ~ (Length[s] <= room)
  <2>1. ~ (Length[begun.section] - begun.sent <= room)
    BY <1>2, <1>5, <1>13
  <2>2. current' = Sending(begun, room)
    BY <1>13
  <2>3. current'.number = k.number /\ current'.section = s /\ current'.sent = Room(k)
    BY <1>2, <2>1, <2>2, SendingIs
  <2>4. Room(k) < Length[s]
    BY <1>2, <1>5, <1>13
  <2>5. BringsBeginning(k, due)
    BY <1>2, <1>10, <1>11, <2>3, <2>4, Zenon DEF BringsBeginning
  <2> QED  BY <1>1, <1>2, <1>3, <1>4, <1>7, <1>8, <1>9, <2>5 DEF Brings
<1> QED  BY <1>12, <1>13

(* When the packet is lost, what was being sent goes on or has ended.      *)
LEMMA MissTraces ==
  ASSUME GInv, NEW ended \in Seq(Due), Miss(ended),
         current # Nothing =>
           \/ Remembers(ended, current.number, current.section)
           \/ /\ current'.number = current.number /\ current'.section = current.section
              /\ current'.sent \in Nat /\ current'.sent >= current.sent
  PROVE  /\ Genuine' /\ pending' \in Seq(Due)
         /\ Traced(Left(ps'), pending', current')
<1>1. PICK l : l = Left(ps)
  OBVIOUS
<1>2. PICK due \in Seq(Due) : due = Forgiven(pending \o ended)
  BY AddedIs, ForgivenIs DEF GInv
<1>3. pending' = Remembered(due, ps) /\ ps' = ps /\ Genuine'
  BY <1>2 DEF Miss, GInv, Genuine
<1>4. ASSUME NEW n, NEW s, Remembers(pending, n, s) \/ Remembers(ended, n, s)
      PROVE  Remembers(due, n, s)
  BY <1>2, <1>4, AddedIs, ForgivenRemembers DEF GInv
<1>5. Sane(ps)
  BY StaysMeansSane DEF GInv, SInv
<1>6. l.number \in {ps.number, ps.next_number} /\ Sane(l)
  <2>1. TakenUp(ps).number = ps.next_number /\ [ps EXCEPT !.stat = "INIT"].number = ps.number
    BY <1>5 DEF TakenUp, Sane, StateType
  <2> QED  BY <1>1, <1>5, <2>1, LeftSane, StaysMeansSane DEF Left, GInv, SInv
<1>7. ASSUME l.stat = "PROC" PROVE Traced(l, pending', current')
  <2>1. PICK s \in Sections :
          /\ l.payload[1] = <<s, 1>>
          /\ \/ Spoilt(l)
             \/ Remembers(pending, l.number, s)
             \/ current.number = l.number /\ current.section = s /\ l.recv_payload <= current.sent
    BY <1>1, <1>7 DEF GInv, Traced
  <2>2. l.number # 0 /\ l.recv_payload >= 1 /\ l.recv_payload \in Nat
    BY <1>1, <1>6, <1>7, SaneParts DEF GInv, Traced
  <2>3. Remembers(due, l.number, s) => Remembers(pending', l.number, s)
    BY <1>3, <1>6, <2>2, RememberedKeeps
  <2>4. CASE Spoilt(l)
    BY <2>1, <2>2, <2>4 DEF Traced
  <2>5. CASE Remembers(pending, l.number, s)
    BY <1>4, <2>1, <2>2, <2>3, <2>5 DEF Traced
  <2>6. CASE current.number = l.number /\ current.section = s /\ l.recv_payload <= current.sent
    <3>1. current # Nothing /\ current.sent \in Nat
      BY <2>6, NothingIs DEF GInv, SInv, Sent, Transmission
    <3>2. CASE Remembers(ended, current.number, current.section)
      BY <1>4, <2>1, <2>2, <2>3, <2>6, <3>2 DEF Traced
    <3>3. CASE /\ current'.number = current.number /\ current'.section = current.section
               /\ current'.sent \in Nat /\ current'.sent >= current.sent
      <4>1. l.recv_payload <= current'.sent
        BY <2>2, <2>6, <3>1, <3>3
      <4> QED  BY <2>1, <2>2, <2>6, <3>3, <4>1 DEF Traced
    <3> QED  BY <3>1, <3>2, <3>3
  <2> QED  BY <2>1, <2>4, <2>5, <2>6
<1>8. Traced(l, pending', current')
  BY <1>7 DEF Traced
<1> QED  BY <1>1, <1>2, <1>3, <1>8, RememberedType

LEMMA ContinuationTraces ==
  ASSUME GInv, SendContinuation
  PROVE  GInv'
<1>1. Sent /\ Typed /\ current # Nothing /\ current \in Going
  BY DEF GInv, SInv, SendContinuation, Typed
<1>2. Payload \in Nat
  BY PsiAssumption DEF PsiAssumption
<1>3. SInv'
  BY ContinuationKeeps DEF GInv
<1>4. CASE /\ Receive(Continuation, Aged \o Ending(current, Payload))
           /\ current' = Sending(current, Payload)
           /\ UNCHANGED <<faults, clean>>
  <2>1. Brings(Continuation, Aged \o Ending(current, Payload))
    BY <1>1, <1>4, ContinuationBrings
  <2>2. /\ Genuine' /\ pending' \in Seq(Due)
        /\ Traced(Left(ps'), pending', current')
    BY <1>1, <1>4, <2>1, ContinuationIsPacket, ReceiveTraces
  <2>3. current' = Nothing \/ current' \in Going
    BY <1>1, <1>2, <1>4, SendingIs
  <2>4. Typed'
    BY <1>1, <1>4, <2>2, <2>3 DEF Typed
  <2> QED  BY <1>3, <2>2, <2>4 DEF GInv
<1>5. CASE /\ Miss(Ending(current, Payload))
           /\ current' = Sending([current EXCEPT !.must = FALSE], Payload)
  <2>1. PICK t \in Going : /\ t = [current EXCEPT !.must = FALSE]
                           /\ t.section = current.section /\ t.number = current.number
                           /\ t.sent = current.sent
    <3>1. /\ [current EXCEPT !.must = FALSE] \in Going
          /\ [current EXCEPT !.must = FALSE].section = current.section
          /\ [current EXCEPT !.must = FALSE].number = current.number
          /\ [current EXCEPT !.must = FALSE].sent = current.sent
      BY <1>1 DEF Going
    <3> QED  BY <3>1, Zenon
  <2>2. PICK e \in Seq(Due) : e = Ending(current, Payload)
    BY <1>1, <1>2, EndingIs
  <2>3. current' = Sending(t, Payload)
    BY <1>5, <2>1
  <2>4. current' = Nothing \/ current' \in Going
    BY <1>2, <2>3, SendingIs
  <2>5. \/ Remembers(e, current.number, current.section)
        \/ /\ current'.number = current.number /\ current'.section = current.section
           /\ current'.sent \in Nat /\ current'.sent >= current.sent
    <3>1. CASE Length[current.section] - current.sent <= Payload
      BY <1>1, <1>2, <2>2, <3>1, EndingIs
    <3>2. CASE ~ (Length[current.section] - current.sent <= Payload)
      <4>1. /\ current'.number = t.number /\ current'.section = t.section
            /\ current'.sent = t.sent + Payload
        BY <1>2, <2>1, <2>3, <3>2, SendingIs
      <4>2. t.sent \in Nat
        BY DEF Going
      <4> QED  BY <1>2, <2>1, <4>1, <4>2
    <3> QED  BY <3>1, <3>2
  <2>6. /\ Genuine' /\ pending' \in Seq(Due)
        /\ Traced(Left(ps'), pending', current')
    BY <1>5, <2>2, <2>5, MissTraces
  <2>7. clean' \in BOOLEAN
    BY <1>5 DEF Miss
  <2> QED  BY <1>3, <2>4, <2>6, <2>7 DEF GInv, Typed
<1> QED  BY <1>4, <1>5 DEF SendContinuation

LEMMA BeginningTraces ==
  ASSUME GInv, NEW s \in Sections, NEW n \in 1 .. MaxNumber, SendBeginning(s, n)
  PROVE  GInv'
<1> DEFINE room == Payload - 1 - Len(Rest)
           misplaced == room <= Header
           begun == [section |-> s, number |-> n, sent |-> 0,
                     must |-> clean /\ ~misplaced]
           ended == Ending(current, Payload) \o Ending(begun, room)
           second(t) == [begun EXCEPT !.section = t, !.number = 0, !.must = FALSE]
<1>1. Sent /\ Typed
  BY DEF GInv, SInv
<1>2. SInv'
  BY BeginningKeeps DEF GInv
<1>3. n \in Nat /\ n # 0 /\ IsNew(n) /\ room > 0
  <2>1. n \in Nat /\ n # 0
    BY PsiAssumption DEF PsiAssumption
  <2> QED  BY <2>1, Zenon DEF SendBeginning
<1>4. Len(Rest) \in Nat /\ Payload \in Nat /\ room \in Nat /\ Length[s] \in Nat
  BY <1>1, <1>3, RestIs, LengthIs, PsiAssumption DEF PsiAssumption
<1>5. clean \in BOOLEAN /\ misplaced \in BOOLEAN
  BY <1>1 DEF Typed
<1>6. /\ begun \in Going /\ begun.section = s /\ begun.number = n /\ begun.sent = 0
  BY <1>3, <1>5 DEF Going
<1>7. PICK b \in Going : b = begun
  BY <1>6
<1>8. PICK e \in Seq(Due) : e = ended
  <2>1. Ending(current, Payload) \in Seq(Due) /\ Ending(b, room) \in Seq(Due)
    BY <1>1, <1>4, EndingIs DEF Typed
  <2> QED  BY <1>7, <2>1, ConcatIs
<1>9. b.section = s /\ b.number = n /\ b.sent = 0 /\ e = Ending(current, Payload) \o Ending(b, room)
  BY <1>6, <1>7, <1>8
<1>10. /\ \A t \in Sections : second(t) \in Going
       /\ [begun EXCEPT !.must = FALSE] \in Going
  BY <1>6 DEF Going
<1>11. ASSUME NEW z \in Seq(Bytes), Receive(Beginning(s, n, z), Aged \o ended),
              Length[s] <= room \/ current' = Sending(begun, room),
              current' = Nothing \/ current' \in Going, clean' \in BOOLEAN
       PROVE  GInv'
  <2>1. Packet(Beginning(s, n, z))
    BY <1>1, <1>3, <1>4, BeginningIsPacket
  <2>2. Brings(Beginning(s, n, z), Aged \o e)
    <3> HIDE DEF room, begun, ended
    <3>1. room = Payload - 1 - Len(Rest)
      BY DEF room
    <3>2. Length[s] <= room \/ current' = Sending(b, room)
      BY <1>7, <1>11
    <3> QED  BY <1>1, <1>3, <1>9, <3>1, <3>2, BeginningBrings
  <2>3. Receive(Beginning(s, n, z), Aged \o e)
    BY <1>8, <1>11
  <2>4. /\ Genuine' /\ pending' \in Seq(Due)
        /\ Traced(Left(ps'), pending', current')
    BY <2>1, <2>2, <2>3, ReceiveTraces
  <2> QED  BY <1>2, <1>11, <2>4 DEF GInv, Typed
<1>12. CASE /\ clean' = ~misplaced
            /\ Receive(Beginning(s, n, <<>>), Aged \o ended)
            /\ current' = Sending(begun, room)
  <2>1. <<>> \in Seq(Bytes)
    OBVIOUS
  <2>2. current' = Nothing \/ current' \in Going
    BY <1>4, <1>7, <1>12, SendingIs
  <2>3. clean' \in BOOLEAN
    BY <1>12
  <2> QED  BY <1>11, <1>12, <2>1, <2>2, <2>3
<1>13. ASSUME clean' = ~misplaced, NEW t \in Sections, Length[s] < room,
              Receive(Beginning(s, n, BytesFrom(t, 0)), Aged \o ended),
              current' = Sending(second(t), room - Length[s])
       PROVE  GInv'
  <2>1. BytesFrom(t, 0) \in Seq(Bytes)
    BY BytesFromType, LengthIs
  <2>2. room - Length[s] \in Nat /\ Length[s] <= room
    BY <1>4, <1>13
  <2>3. current' = Nothing \/ current' \in Going
    BY <1>10, <1>13, <2>2, SendingIs
  <2>4. clean' \in BOOLEAN
    BY <1>13
  <2> QED  BY <1>11, <1>13, <2>1, <2>2, <2>3, <2>4
<1>14. CASE /\ Miss(ended)
            /\ current' = Sending([begun EXCEPT !.must = FALSE], room)
  <2>1. current' = Nothing \/ current' \in Going
    BY <1>4, <1>10, <1>14, SendingIs
  <2>2. current # Nothing => Remembers(e, current.number, current.section)
    <3> SUFFICES ASSUME current # Nothing
                 PROVE  Remembers(e, current.number, current.section)
      OBVIOUS
    <3>1. Len(Rest) <= Payload
      BY <1>3, <1>4
    <3>2. Remembers(Ending(current, Payload), current.number, current.section)
      BY <1>1, <1>4, <3>1, CurrentEnds
    <3>3. Ending(current, Payload) \in Seq(Due) /\ Ending(b, room) \in Seq(Due)
      BY <1>1, <1>4, EndingIs DEF Typed
    <3> HIDE DEF room
    <3> QED  BY <1>9, <3>2, <3>3, ConcatIs
  <2>3. Miss(e)
    BY <1>8, <1>14
  <2>4. /\ Genuine' /\ pending' \in Seq(Due)
        /\ Traced(Left(ps'), pending', current')
    BY <2>2, <2>3, MissTraces
  <2>5. clean' \in BOOLEAN
    BY <2>3 DEF Miss
  <2> QED  BY <1>2, <2>1, <2>4, <2>5 DEF GInv, Typed
<1> QED  BY <1>12, <1>13, <1>14 DEF SendBeginning

LEMMA BareTraces ==
  ASSUME GInv, SendBare
  PROVE  GInv'
<1>1. Sent /\ Typed
  BY DEF GInv, SInv
<1>2. SInv'
  BY BareKeeps DEF GInv
<1>3. Brings(Bare, Forgiven(Aged)) /\ Packet(Bare) /\ Receive(Bare, Forgiven(Aged))
  BY <1>1, BareBrings, BareIsPacket DEF SendBare
<1>4. /\ Genuine' /\ pending' \in Seq(Due)
      /\ Traced(Left(ps'), pending', current')
  BY <1>3, ReceiveTraces
<1>5. current' = Nothing \/ current' \in Going
  <2>1. current' = [current EXCEPT !.must = FALSE]
    BY DEF SendBare
  <2>2. CASE current = Nothing
    BY <2>1, <2>2 DEF Nothing
  <2>3. CASE current \in Going
    BY <2>1, <2>3 DEF Going
  <2> QED  BY <1>1, <2>2, <2>3 DEF Typed
<1> QED  BY <1>2, <1>4, <1>5 DEF GInv, Typed, SendBare

LEMMA LeftTwice ==
  ASSUME NEW p, Sane(p)
  PROVE  Left(Left(p)) = Left(p) /\ (Left(p).stat = "PROC" => Left(p).number \in {p.number, p.next_number})
<1>1. /\ TakenUp(p).stat = "PROC" /\ TakenUp(p).number = p.next_number
      /\ [p EXCEPT !.stat = "INIT"].stat = "INIT"
  BY DEF TakenUp, Sane, StateType
<1> QED  BY <1>1 DEF Left

LEMMA OtherPidTraces ==
  ASSUME GInv, OtherPid
  PROVE  GInv'
<1>1. Typed /\ Sane(ps)
  BY StaysMeansSane DEF GInv, SInv
<1>2. SInv'
  BY OtherPidKeeps DEF GInv
<1>3. PICK l : l = Left(ps)
  OBVIOUS
<1>4. /\ ps' = l /\ Left(l) = l /\ pending' = Remembered(pending, l)
      /\ current' = current /\ clean' = clean /\ genuine' = genuine
  BY <1>1, <1>3, LeftTwice DEF OtherPid
<1>5. pending' \in Seq(Due)
  BY <1>1, <1>4, RememberedType DEF Typed
<1>6. Traced(l, pending, current)
  BY <1>3 DEF GInv
<1>7. \A s : l.number # 0 /\ Remembers(pending, l.number, s) => Remembers(pending', l.number, s)
  BY <1>1, <1>4, RememberedKeeps DEF Typed
<1>8. Traced(l, pending', current')
  BY <1>4, <1>6, <1>7, Zenon DEF Traced
<1>9. Typed' /\ Genuine'
  BY <1>1, <1>4, <1>5 DEF Typed, Genuine, GInv
<1> QED  BY <1>2, <1>4, <1>8, <1>9 DEF GInv

(* What is handed on was sent in whole, whatever was lost before it, is    *)
(* handed on once, and in the order it was sent in (parse_PSI,             *)
(* arib_parser.c:538-643).                                                 *)
THEOREM HandedWasSent == Spec => []Genuine
<1>1. Init => GInv
  <2> SUFFICES ASSUME Init PROVE GInv
    OBVIOUS
  <2>1. SInv
    BY InitKeeps
  <2>2. ps.stat = "INIT" /\ Left(ps) = ps
    BY DEF Init, Left
  <2>3. Typed /\ Genuine
    BY EmptySeq DEF Init, Typed, Genuine
  <2> QED  BY <2>1, <2>2, <2>3 DEF GInv, Traced
<1>2. GInv /\ [Next]_vars => GInv'
  <2> SUFFICES ASSUME GInv, [Next]_vars
               PROVE  GInv'
    OBVIOUS
  <2>1. CASE SendContinuation
    BY <2>1, ContinuationTraces
  <2>2. ASSUME NEW s \in Sections, NEW n \in 1 .. MaxNumber, SendBeginning(s, n)
        PROVE  GInv'
    BY <2>2, BeginningTraces
  <2>3. CASE SendBare
    BY <2>3, BareTraces
  <2>4. CASE OtherPid
    BY <2>4, OtherPidTraces
  <2>5. CASE UNCHANGED vars
    BY <2>5 DEF vars, GInv, SInv, StaysInSection, Sent, Transmission, Typed, Genuine, Traced, Left, TakenUp
  <2> QED  BY <2>1, <2>2, <2>3, <2>4, <2>5 DEF Next
<1>3. GInv => Genuine
  BY DEF GInv
<1> QED  BY <1>1, <1>2, <1>3, PTL DEF Spec

-----------------------------------------------------------------------------
(***************************************************************************)
(* What must be handed on is, in time.  While all is well (clean) the      *)
(* assembly holds what was sent so far of the section in transmission, or  *)
(* a whole one that was sent last (Whole); and of what must be handed on   *)
(* all is held so, but for one section of the PMT (FewLate).               *)
(***************************************************************************)
Holds(l, cl, n) == cl /\ l.stat = "PROC" /\ l.number = n

LateIn(due, l, cl) ==
  {i \in DOMAIN due : due[i].must /\ ~ (i = Len(due) /\ Holds(l, cl, due[i].number))}

LateNow(t, l, cl) == t.must /\ ~ Holds(l, cl, t.number)

Few(late, now) ==
  IF table = "PMT" THEN (\A i, j \in late : i = j) /\ (now => late = {})
  ELSE late = {} /\ ~ now

FewLate(due, t, l, cl) == Few(LateIn(due, l, cl), LateNow(t, l, cl))

Exact(l, s) ==
  /\ l.number # 0 /\ l.recv_payload >= 1
  /\ l.n_payload = Length[s]
  /\ \A i \in 1 .. l.recv_payload : l.payload[i] = <<s, i>>

GoesOn(t, l, s) == t.number = l.number /\ t.section = s /\ t.sent = l.recv_payload

IsLast(due, t, l, s) ==
  /\ l.recv_payload = Length[s]
  /\ ~ t.must /\ t.number # l.number
  /\ Len(due) > 0
  /\ due[Len(due)].number = l.number /\ due[Len(due)].section = s /\ due[Len(due)].age = 0

Whole(due, t, l, cl, next) ==
  cl /\ l.stat = "PROC" =>
    /\ (l.continuity_counter + 1) % CounterMod = next
    /\ \E s \in Sections : Exact(l, s) /\ (GoesOn(t, l, s) \/ IsLast(due, t, l, s))

Numbers(due, t) ==
  /\ \A i \in 1 .. Len(due) : due[i].number # 0 /\ due[i].number # t.number
  /\ \A i, j \in 1 .. Len(due) : due[i].number = due[j].number => i = j
  /\ t.must => t.number # 0

OInv ==
  /\ GInv
  /\ Numbers(pending, current)
  /\ FewLate(pending, current, Left(ps), clean)
  /\ Whole(pending, current, Left(ps), clean, counter)

(* None of those held is late, and of those handed on too late at most one.*)
LEMMA FewMeansOnTime == OInv => OnTime
<1> SUFFICES ASSUME OInv PROVE OnTime
  OBVIOUS
<1> DEFINE aged == {i \in DOMAIN pending : pending[i].must /\ pending[i].age > 0}
<1>1. PICK l : l = Left(ps)
  OBVIOUS
<1>2. pending \in Seq(Due) /\ DOMAIN pending = 1 .. Len(pending) /\ Len(pending) \in Nat
  BY LenProperties DEF OInv, GInv, Typed
<1>3. ASSUME NEW i \in aged PROVE i \in LateIn(pending, l, clean)
  <2> SUFFICES ASSUME i = Len(pending), Holds(l, clean, pending[i].number)
               PROVE  FALSE
    BY DEF LateIn
  <2>1. PICK s \in Sections : GoesOn(current, l, s) \/ IsLast(pending, current, l, s)
    BY <1>1 DEF OInv, Whole, Holds
  <2>2. l.number = pending[i].number /\ i \in 1 .. Len(pending) /\ pending[i].age > 0
    BY <1>2 DEF Holds
  <2>3. current.number # l.number
    BY <2>2 DEF OInv, Numbers
  <2>4. pending[i].age = 0
    BY <2>1, <2>3 DEF GoesOn, IsLast
  <2> QED  BY <2>2, <2>4
<1>4. Few(LateIn(pending, l, clean), LateNow(current, l, clean))
  BY <1>1 DEF OInv, FewLate
<1> HIDE DEF aged
<1>5. CASE table = "PMT"
  <2>1. \A i, j \in aged : i = j
    BY <1>3, <1>4, <1>5 DEF Few
  <2>2. CASE aged = {}
    <3>1. Cardinality(aged) = 0
      BY <2>2, FS_EmptySet
    <3> QED  BY <1>5, <3>1 DEF OnTime, aged
  <2>3. CASE aged # {}
    <3>1. PICK x : aged = {x}
      BY <2>1, <2>3
    <3>2. Cardinality(aged) = 1
      BY <3>1, FS_Singleton
    <3> QED  BY <1>5, <3>2 DEF OnTime, aged
  <2> QED  BY <2>2, <2>3
<1>6. CASE table # "PMT"
  <2>1. aged = {}
    BY <1>3, <1>4, <1>6 DEF Few
  <2>2. Cardinality(aged) = 0
    BY <2>1, FS_EmptySet
  <2> QED  BY <1>6, <2>2 DEF OnTime, aged
<1> QED  BY <1>5, <1>6

-----------------------------------------------------------------------------
(* What is left of a sequence of sections, when only some are remembered.  *)
LEMMA LastIsLast ==
  ASSUME NEW o \in Seq(Due), NEW due \in Seq(Due), NEW K, NEW c,
         Embeds(c, o, due, Len(due), K)
  PROVE  /\ \A i \in 1 .. Len(o) : c[i] = Len(due) => i = Len(o)
         /\ Len(due) > 0 /\ Len(due) \in K =>
              Len(o) > 0 /\ c[Len(o)] = Len(due) /\ o[Len(o)] = due[Len(due)]
<1>0. Len(o) \in Nat /\ Len(due) \in Nat
  OBVIOUS
<1>1. ASSUME NEW i \in 1 .. Len(o), c[i] = Len(due) PROVE i = Len(o)
  <2> SUFFICES ASSUME i # Len(o) PROVE FALSE
    OBVIOUS
  <2>1. Len(o) \in 1 .. Len(o) /\ i < Len(o)
    BY <1>0
  <2>2. c[i] < c[Len(o)] /\ c[Len(o)] \in 1 .. Len(due)
    BY <2>1 DEF Embeds
  <2> QED  BY <1>0, <1>1, <2>2
<1>2. ASSUME Len(due) > 0, Len(due) \in K
      PROVE  Len(o) > 0 /\ c[Len(o)] = Len(due) /\ o[Len(o)] = due[Len(due)]
  <2>1. Len(due) \in 1 .. Len(due)
    BY <1>0, <1>2
  <2>2. PICK i \in 1 .. Len(o) : c[i] = Len(due)
    BY <1>2, <2>1 DEF Embeds
  <2>3. i = Len(o)
    BY <1>1, <2>2
  <2>4. o[i] = due[c[i]]
    BY <2>2 DEF Embeds
  <2> QED  BY <1>0, <2>2, <2>3, <2>4
<1> QED  BY <1>1, <1>2

LEMMA NumbersAfter ==
  ASSUME NEW o \in Seq(Due), NEW due \in Seq(Due), NEW K, NEW c,
         Embeds(c, o, due, Len(due), K), NEW t,
         \A i, j \in 1 .. Len(due) : due[i].number = due[j].number => i = j,
         \A i \in 1 .. Len(due) : i \in K => due[i].number # 0 /\ due[i].number # t.number,
         t.must => t.number # 0
  PROVE  Numbers(o, t)
<1>0. Len(o) \in Nat /\ Len(due) \in Nat
  OBVIOUS
<1>1. \A i \in 1 .. Len(o) : c[i] \in 1 .. Len(due) /\ c[i] \in K /\ o[i] = due[c[i]]
  BY DEF Embeds
<1>2. ASSUME NEW i \in 1 .. Len(o), NEW j \in 1 .. Len(o), o[i].number = o[j].number
      PROVE  i = j
  <2>1. c[i] = c[j] /\ c[i] \in 1 .. Len(due)
    BY <1>1, <1>2
  <2>2. ~ (c[i] < c[j]) /\ ~ (c[j] < c[i])
    BY <1>0, <2>1
  <2>3. ~ (i < j) /\ ~ (j < i)
    BY <2>2 DEF Embeds
  <2> QED  BY <1>0, <2>3
<1>3. \A i \in 1 .. Len(o) : o[i].number # 0 /\ o[i].number # t.number
  BY <1>1
<1> QED  BY <1>2, <1>3 DEF Numbers

LEMMA FewAfter ==
  ASSUME NEW o \in Seq(Due), NEW due \in Seq(Due), NEW K, NEW c,
         Embeds(c, o, due, Len(due), K), NEW t, NEW l, NEW cl,
         Few(LateIn(due, l, cl) \cap K, LateNow(t, l, cl))
  PROVE  FewLate(o, t, l, cl)
<1>0. Len(o) \in Nat /\ Len(due) \in Nat /\ DOMAIN o = 1 .. Len(o) /\ DOMAIN due = 1 .. Len(due)
  OBVIOUS
<1>1. \A i \in 1 .. Len(o) : c[i] \in 1 .. Len(due) /\ c[i] \in K /\ o[i] = due[c[i]]
  BY DEF Embeds
<1>2. ASSUME NEW i \in LateIn(o, l, cl) PROVE c[i] \in LateIn(due, l, cl) \cap K
  <2>1. i \in 1 .. Len(o) /\ o[i].must /\ ~ (i = Len(o) /\ Holds(l, cl, o[i].number))
    BY <1>0, <1>2 DEF LateIn
  <2>2. c[i] = Len(due) => i = Len(o)
    BY <2>1, LastIsLast
  <2> QED  BY <1>0, <1>1, <2>1, <2>2 DEF LateIn
<1>3. ASSUME NEW i \in LateIn(o, l, cl), NEW j \in LateIn(o, l, cl), c[i] = c[j] PROVE i = j
  <2>1. i \in 1 .. Len(o) /\ j \in 1 .. Len(o) /\ c[i] \in 1 .. Len(due)
    BY <1>0, <1>1 DEF LateIn
  <2>2. ~ (c[i] < c[j]) /\ ~ (c[j] < c[i])
    BY <1>0, <1>3, <2>1
  <2>3. ~ (i < j) /\ ~ (j < i)
    BY <2>1, <2>2 DEF Embeds
  <2> QED  BY <1>0, <2>1, <2>3
<1>4. CASE table = "PMT"
  <2>1. \A i, j \in LateIn(o, l, cl) : i = j
    BY <1>2, <1>3, <1>4, Zenon DEF Few
  <2>2. LateNow(t, l, cl) => LateIn(o, l, cl) = {}
    BY <1>2, <1>4 DEF Few
  <2> QED  BY <1>4, <2>1, <2>2 DEF FewLate, Few
<1>5. CASE table # "PMT"
  BY <1>2, <1>5 DEF FewLate, Few
<1> QED  BY <1>4, <1>5

Unsettled(due, place) ==
  {i \in DOMAIN due : i > place \/ (i < place /\ due[i].must /\ table # "PMT")}

Kept2(due, S, p) ==
  {i \in S : due[i].must \/ due[i].number \in {p.number, p.next_number} \ {0}}

LEMMA PickedTwice ==
  ASSUME NEW due \in Seq(Due), NEW S, NEW p
  PROVE  \E c : Embeds(c, Remembered(Only(due, S), p), due, Len(due), Kept2(due, S, p))
<1>1. PICK o : o = Only(due, S)
  OBVIOUS
<1>2. PICK T : T = {i \in DOMAIN o : o[i].must \/ o[i].number \in {p.number, p.next_number} \ {0}}
  OBVIOUS
<1>3. PICK u : u = Only(o, T)
  OBVIOUS
<1>4. Remembered(o, p) = u
  BY <1>2, <1>3 DEF Remembered
<1>5. o \in Seq(Due) /\ u \in Seq(Due)
  BY <1>1, <1>3, OnlyIs
<1>6. PICK a : Embeds(a, o, due, Len(due), S)
  BY <1>1, OnlyIs
<1>7. PICK b : Embeds(b, u, o, Len(o), T)
  BY <1>3, <1>5, OnlyIs
<1>8. PICK c : /\ c \in [1 .. Len(u) -> 1 .. Len(due)]
               /\ \A i \in 1 .. Len(u) : c[i] = a[b[i]] /\ c[i] \in S /\ u[i] = due[c[i]]
               /\ \A i, k \in 1 .. Len(u) : i < k => c[i] < c[k]
               /\ \A j \in 1 .. Len(due) : j \in S /\ (\A i \in 1 .. Len(o) : a[i] = j => i \in T)
                    => \E i \in 1 .. Len(u) : c[i] = j
  <2>1. \E c : Twice(c, a, b, o, u, due, S, T)
    BY <1>5, <1>6, <1>7, EmbedsTwice
  <2> QED  BY <2>1 DEF Twice
<1>9. ASSUME NEW i \in 1 .. Len(u) PROVE c[i] \in Kept2(due, S, p)
  <2>1. b[i] \in T /\ u[i] = o[b[i]]
    BY <1>7 DEF Embeds
  <2>2. u[i].must \/ u[i].number \in {p.number, p.next_number} \ {0}
    BY <1>2, <2>1
  <2> QED  BY <1>8, <2>2 DEF Kept2
<1>10. ASSUME NEW j \in 1 .. Len(due), j \in Kept2(due, S, p)
       PROVE  \E i \in 1 .. Len(u) : c[i] = j
  <2>1. j \in S /\ (due[j].must \/ due[j].number \in {p.number, p.next_number} \ {0})
    BY <1>10 DEF Kept2
  <2>2. ASSUME NEW i \in 1 .. Len(o), a[i] = j PROVE i \in T
    <3>1. o[i] = due[j] /\ i \in DOMAIN o
      BY <1>5, <1>6, <2>2 DEF Embeds
    <3> QED  BY <1>2, <2>1, <3>1
  <2> QED  BY <1>8, <2>1, <2>2
<1>11. Embeds(c, u, due, Len(due), Kept2(due, S, p))
  BY <1>8, <1>9, <1>10 DEF Embeds
<1> QED  BY <1>1, <1>4, <1>11

LEMMA RememberedEmbeds ==
  ASSUME NEW due \in Seq(Due), NEW p
  PROVE  \E c : Embeds(c, Remembered(due, p), due, Len(due), Kept2(due, DOMAIN due, p))
<1>1. PICK K : K = Kept2(due, DOMAIN due, p)
  OBVIOUS
<1>2. K = {i \in DOMAIN due : due[i].must \/ due[i].number \in {p.number, p.next_number} \ {0}}
  BY <1>1 DEF Kept2
<1>3. Remembered(due, p) = Only(due, K)
  BY <1>2 DEF Remembered
<1> QED  BY <1>1, <1>3, OnlyIs

LEMMA SettledEmbeds ==
  ASSUME NEW due \in Seq(Due), NEW place, NEW p
  PROVE  \E c : Embeds(c, Remembered(Settled(due, place), p), due, Len(due),
                       Kept2(due, Unsettled(due, place), p))
<1>1. Settled(due, place) = Only(due, Unsettled(due, place))
  BY DEF Settled, Unsettled
<1> QED  BY <1>1, PickedTwice

-----------------------------------------------------------------------------
LEMMA FewLess ==
  ASSUME NEW A, NEW B, B \subseteq A, NEW x, NEW y, y => x, Few(A, x)
  PROVE  Few(B, y)
<1>1. CASE table = "PMT"
  BY <1>1, Zenon DEF Few
<1>2. CASE table # "PMT"
  BY <1>2 DEF Few
<1> QED  BY <1>1, <1>2

(* What is due with a packet: what was due before it, then the section that*)
(* ended with it, then, if new, one that began and ended in it.            *)
Made(due, new, n, s, must) ==
  /\ due \in Seq(Due) /\ Len(pending) <= Len(due)
  /\ \A j \in 1 .. Len(pending) :
       /\ due[j].number = pending[j].number /\ due[j].section = pending[j].section
       /\ due[j].must = pending[j].must
  /\ \A j \in 1 .. Len(due) : j > Len(pending) =>
       \/ /\ j = Len(pending) + 1 /\ current # Nothing
          /\ due[j].number = current.number /\ due[j].section = current.section
          /\ due[j].must = current.must
       \/ /\ new /\ j = Len(due)
          /\ due[j].number = n /\ due[j].section = s
          /\ due[j].must = must /\ due[j].age = 0
  /\ new => /\ n # 0 /\ n # current.number
            /\ \A j \in 1 .. Len(pending) : pending[j].number # n

LEMMA MadeNumbers ==
  ASSUME Typed, Numbers(pending, current), NEW due, NEW new, NEW n, NEW s, NEW must,
         Made(due, new, n, s, must)
  PROVE  /\ \A i, j \in 1 .. Len(due) : due[i].number = due[j].number => i = j
         /\ \A j \in 1 .. Len(due) : due[j].must => due[j].number # 0
<1>0. Len(due) \in Nat /\ Len(pending) \in Nat
  BY DEF Made, Typed
<1>1. ASSUME NEW i \in 1 .. Len(due), NEW j \in 1 .. Len(due), due[i].number = due[j].number
      PROVE  i = j
  <2>1. CASE i \in 1 .. Len(pending) /\ j \in 1 .. Len(pending)
    <3>1. pending[i].number = pending[j].number
      BY <1>1, <2>1 DEF Made
    <3> QED  BY <2>1, <3>1 DEF Numbers
  <2>2. ASSUME NEW x \in 1 .. Len(due), x \in 1 .. Len(pending), NEW y \in 1 .. Len(due), y > Len(pending),
               due[x].number = due[y].number
        PROVE  FALSE
    <3>1. due[x].number = pending[x].number
      BY <2>2 DEF Made
    <3>2. pending[x].number # current.number
      BY <2>2 DEF Numbers
    <3>3. new => pending[x].number # n
      BY <2>2 DEF Made
    <3>4. due[y].number = current.number \/ (new /\ due[y].number = n)
      BY <2>2 DEF Made
    <3> QED  BY <2>2, <3>1, <3>2, <3>3, <3>4
  <2>3. CASE i > Len(pending) /\ j > Len(pending)
    <3>1. \/ i = Len(pending) + 1 /\ due[i].number = current.number
          \/ new /\ i = Len(due) /\ due[i].number = n
      BY <2>3 DEF Made
    <3>2. \/ j = Len(pending) + 1 /\ due[j].number = current.number
          \/ new /\ j = Len(due) /\ due[j].number = n
      BY <2>3 DEF Made
    <3>3. new => n # current.number
      BY DEF Made
    <3> QED  BY <1>1, <3>1, <3>2, <3>3
  <2> QED  BY <1>0, <1>1, <2>1, <2>2, <2>3
<1>2. ASSUME NEW j \in 1 .. Len(due), due[j].must PROVE due[j].number # 0
  <2>1. CASE j \in 1 .. Len(pending)
    BY <2>1 DEF Made, Numbers
  <2>2. CASE j > Len(pending)
    <3>1. \/ due[j].number = current.number /\ due[j].must = current.must
          \/ new /\ due[j].number = n
      BY <2>2 DEF Made
    <3> QED  BY <1>2, <3>1 DEF Made, Numbers
  <2> QED  BY <1>0, <2>1, <2>2
<1> QED  BY <1>1, <1>2

(* Which of them must be handed on.                                        *)
LEMMA MustIs ==
  ASSUME Typed, NEW due, NEW new, NEW n, NEW s, NEW must, Made(due, new, n, s, must),
         NEW j \in 1 .. Len(due), due[j].must
  PROVE  \/ j \in 1 .. Len(pending) /\ pending[j].must
         \/ j = Len(pending) + 1 /\ current.must /\ current # Nothing /\ due[j].number = current.number
         \/ new /\ j = Len(due) /\ due[j].number = n /\ must
<1>0. Len(due) \in Nat /\ Len(pending) \in Nat
  BY DEF Made, Typed
<1>1. CASE j \in 1 .. Len(pending)
  BY <1>1 DEF Made
<1>2. CASE j > Len(pending)
  BY <1>2, Zenon DEF Made
<1> QED  BY <1>0, <1>1, <1>2

Musts(due) == {i \in DOMAIN due : due[i].must}

LEMMA LateIsMust ==
  ASSUME NEW due, NEW l, NEW cl, NEW t
  PROVE  LateIn(due, l, cl) \subseteq Musts(due) /\ (LateNow(t, l, cl) => t.must)
BY DEF LateIn, LateNow, Musts

(* The numbers of what is remembered.                                      *)
LEMMA NumbersKept ==
  ASSUME NEW o \in Seq(Due), NEW due \in Seq(Due), NEW S, S \subseteq DOMAIN due, NEW p, NEW c,
         Embeds(c, o, due, Len(due), Kept2(due, S, p)), NEW t,
         \A i, j \in 1 .. Len(due) : due[i].number = due[j].number => i = j,
         \A i \in 1 .. Len(due) : due[i].must => due[i].number # 0,
         t.must => t.number # 0,
         t.number = 0 \/ \A i \in 1 .. Len(due) : due[i].number # t.number
  PROVE  Numbers(o, t)
<1>1. \A i \in 1 .. Len(due) : i \in Kept2(due, S, p) => due[i].number # 0
  BY DEF Kept2
<1>2. \A i \in 1 .. Len(due) : i \in Kept2(due, S, p) => due[i].number # t.number
  BY <1>1
<1> QED  BY <1>1, <1>2, NumbersAfter

(* What a packet that arrives leaves of what was due.                      *)
Took(q, due, S) ==
  /\ IF q.stat = "FINISHED"
       THEN \E j \in 1 .. Len(due) : due[j].number = q.number /\ S = Unsettled(due, j)
       ELSE S = DOMAIN due
  /\ pending' \in Seq(Due)
  /\ \E c : Embeds(c, pending', due, Len(due), Kept2(due, S, ps'))

LEMMA ReceiveTakes ==
  ASSUME GInv, NEW k, Packet(k), NEW due, Brings(k, due), Receive(k, due)
  PROVE  \E S : S \subseteq DOMAIN due /\ Took(ParsePSI(ps, k), due, S)
<1>1. PICK q : q = ParsePSI(ps, k)
  OBVIOUS
<1>2. PICK places : places = Places(due, q)
  OBVIOUS
<1>3. /\ due \in Seq(Due) /\ DOMAIN due = 1 .. Len(due) /\ Len(due) \in Nat
  BY LenProperties DEF Brings
<1>4. pending' = Remembered(IF q.stat = "FINISHED" /\ places # {} THEN Settled(due, Min(places)) ELSE due, ps')
  BY <1>1, <1>2, Zenon DEF Receive
<1>5. CASE q.stat = "FINISHED"
  <2>1. places # {}
    BY <1>1, <1>2, <1>5, HandedIsDue
  <2>2. places \subseteq Nat /\ \A j \in places : j \in 1 .. Len(due) /\ due[j].number = q.number
    BY <1>2, <1>3 DEF Places
  <2>3. \E x \in places : \A y \in places : x <= y
    BY <2>1, <2>2, FirstOne
  <2>4. PICK j : j = Min(places)
    OBVIOUS
  <2>5. j \in places
    BY <2>3, <2>4, Zenon DEF Min
  <2>6. pending' = Remembered(Settled(due, j), ps')
    BY <1>4, <1>5, <2>1, <2>4
  <2>7. PICK c : Embeds(c, pending', due, Len(due), Kept2(due, Unsettled(due, j), ps'))
    BY <1>3, <2>6, SettledEmbeds
  <2>8. pending' \in Seq(Due)
    BY <1>3, <2>2, <2>5, <2>6, SettledKeeps, RememberedType
  <2>9. Unsettled(due, j) \subseteq DOMAIN due
    BY DEF Unsettled
  <2>10. j \in 1 .. Len(due) /\ due[j].number = q.number
    BY <2>2, <2>5
  <2>11. Took(q, due, Unsettled(due, j))
    BY <1>5, <2>7, <2>8, <2>10 DEF Took
  <2> QED  BY <1>1, <2>9, <2>11
<1>6. CASE q.stat # "FINISHED"
  <2>1. pending' = Remembered(due, ps')
    BY <1>4, <1>6
  <2>2. \E c : Embeds(c, pending', due, Len(due), Kept2(due, DOMAIN due, ps'))
    BY <1>3, <2>1, RememberedEmbeds
  <2>3. pending' \in Seq(Due)
    BY <1>3, <2>1, RememberedType
  <2>4. Took(q, due, DOMAIN due)
    BY <1>6, <2>2, <2>3 DEF Took
  <2> QED  BY <1>1, <2>4
<1> QED  BY <1>5, <1>6

-----------------------------------------------------------------------------
(* While all is well, the assembly gets the next packet.                   *)
Fits(k) == current # Nothing => \A i \in 1 .. Least(Brought(k), Len(Rest)) : k.data[i] = Rest[i]

LEMMA HeldGrows ==
  ASSUME OInv, NEW l, l = Left(ps), clean, l.stat = "PROC",
         NEW s \in Sections, Exact(l, s), GoesOn(current, l, s) \/ IsLast(pending, current, l, s),
         NEW k, Packet(k), k.counter = counter, Fits(k), NEW q, q = ParsePSI(ps, k)
  PROVE  /\ Grows(q, l, k) /\ q.number = l.number /\ q.continuity_counter = counter
         /\ IsLast(pending, current, l, s) \/ Brought(k) >= Len(Rest) => q.stat = "FINISHED"
         /\ GoesOn(current, l, s) /\ ~ k.pusi /\ Brought(k) < Len(Rest) =>
              q.stat = "PROC" /\ Exact(q, s) /\ q.recv_payload = current.sent + Brought(k)
<1>1. GInv /\ Sane(ps) /\ NoneKept(ps) /\ Sent
  BY StaysMeansSane DEF OInv, GInv, SInv
<1>2. Continuous(l, k)
  BY DEF OInv, Whole, Continuous
<1>3. Grows(q, l, k)
  <2>1. Idle(q, l, k) \/ Begins(q, l, k) \/ Loses(q, l, k) \/ Grows(q, l, k)
    BY <1>1, ParseIs
  <2>2. "PROC" # "INIT"
    OBVIOUS
  <2> QED  BY <1>2, <2>1, <2>2 DEF Idle, Begins, Loses
<1>4. Sane(l)
  BY <1>1, ParseIs
<1>5. /\ l.recv_payload \in Nat /\ l.recv_payload >= 1 /\ l.n_payload = Length[s] /\ Length[s] \in Nat
      /\ l.recv_payload <= Length[s] /\ l.number # 0
  BY <1>4, SaneParts, LengthIs DEF Exact
<1>6. Brought(k) \in Nat /\ Len(Rest) \in Nat
  BY <1>1, DataType, RestIs DEF Brought, Packet
<1>7. PICK n : n = Least(Brought(k), Missing(l))
  OBVIOUS
<1>8. Missing(l) = Length[s] - l.recv_payload /\ Missing(l) \in Nat
  BY <1>5 DEF Missing
<1>9. /\ n \in Nat /\ n <= Missing(l)
      /\ Brought(k) >= Missing(l) => n = Missing(l)
      /\ Brought(k) < Missing(l) => n = Brought(k)
  BY <1>6, <1>7, <1>8 DEF Least
<1>10. /\ q.number = l.number /\ q.n_payload = Length[s] /\ q.recv_payload = l.recv_payload + n
       /\ q.continuity_counter = counter
       /\ \A i \in 1 .. l.recv_payload : q.payload[i] = <<s, i>>
       /\ \A i \in 1 .. n : q.payload[l.recv_payload + i] = k.data[i]
  <2>1. Grown(q, l, k, n)
    BY <1>3, <1>7 DEF Grows
  <2> QED  BY <1>5, <2>1 DEF Grown, Exact
<1>11. q.stat = IF ~ k.pusi /\ Brought(k) < Missing(l) THEN "PROC"
                ELSE IF CrcFits(q) THEN "FINISHED" ELSE "INIT"
  BY <1>3 DEF Grows
<1>12. ASSUME IsLast(pending, current, l, s) PROVE q.stat = "FINISHED"
  <2>1. l.recv_payload = Length[s] /\ Missing(l) = 0 /\ ~ (Brought(k) < Missing(l))
    BY <1>5, <1>6, <1>8, <1>12 DEF IsLast
  <2>2. IsSection(q, s)
    BY <1>10, <2>1 DEF IsSection
  <2> QED  BY <1>11, <2>1, <2>2 DEF CrcFits
<1>13. ASSUME GoesOn(current, l, s)
       PROVE  /\ Missing(l) = Len(Rest)
              /\ \A i \in 1 .. l.recv_payload + n : q.payload[i] = <<s, i>>
  <2>1. current # Nothing /\ current.section = s /\ current.sent = l.recv_payload
    BY <1>13, NothingIs DEF GoesOn
  <2>2. Len(Rest) = Missing(l) /\ \A i \in 1 .. Len(Rest) : Rest[i] = <<s, l.recv_payload + i>>
    BY <1>1, <1>8, <2>1, RestIs
  <2>3. ASSUME NEW i \in 1 .. l.recv_payload + n PROVE q.payload[i] = <<s, i>>
    <3>1. CASE i \in 1 .. l.recv_payload
      BY <1>10, <3>1
    <3>2. CASE i \notin 1 .. l.recv_payload
      <4>1. PICK j \in 1 .. n : i = l.recv_payload + j
        <5>1. i - l.recv_payload \in 1 .. n /\ i = l.recv_payload + (i - l.recv_payload)
          BY <1>5, <1>9, <3>2
        <5> QED  BY <5>1
      <4>2. j \in 1 .. Len(Rest) /\ j \in 1 .. Least(Brought(k), Len(Rest))
        BY <1>7, <1>8, <1>9, <2>2, <4>1
      <4>3. k.data[j] = Rest[j]
        BY <2>1, <4>2 DEF Fits
      <4>4. q.payload[i] = k.data[j]
        BY <1>10, <4>1
      <4>5. Rest[j] = <<s, i>>
        BY <2>2, <4>1, <4>2
      <4> QED  BY <4>3, <4>4, <4>5
    <3> QED  BY <3>1, <3>2
  <2> QED  BY <2>2, <2>3
<1>14. ASSUME GoesOn(current, l, s), Brought(k) >= Len(Rest) PROVE q.stat = "FINISHED"
  <2>1. l.recv_payload + n = Length[s] /\ ~ (Brought(k) < Missing(l))
    BY <1>5, <1>6, <1>8, <1>9, <1>13, <1>14
  <2>2. IsSection(q, s)
    BY <1>10, <1>13, <1>14, <2>1 DEF IsSection
  <2> QED  BY <1>11, <2>1, <2>2 DEF CrcFits
<1>15. ASSUME GoesOn(current, l, s), ~ k.pusi, Brought(k) < Len(Rest)
       PROVE  q.stat = "PROC" /\ Exact(q, s) /\ q.recv_payload = current.sent + Brought(k)
  <2>1. Brought(k) < Missing(l) /\ n = Brought(k) /\ current.sent = l.recv_payload
    BY <1>9, <1>13, <1>15 DEF GoesOn
  <2>2. q.recv_payload >= 1 /\ q.number # 0 /\ q.recv_payload = l.recv_payload + n
    BY <1>5, <1>9, <1>10
  <2>3. Exact(q, s)
    BY <1>10, <1>13, <1>15, <2>2 DEF Exact
  <2> QED  BY <1>10, <1>11, <1>15, <2>1, <2>3
<1> QED  BY <1>3, <1>10, <1>12, <1>14, <1>15

LEMMA MustIsBoolean ==
  ASSUME Typed
  PROVE  /\ current.must \in BOOLEAN /\ current.number \in Nat
         /\ DOMAIN pending = 1 .. Len(pending) /\ Len(pending) \in Nat
<1>1. pending \in Seq(Due) /\ (current = Nothing \/ current \in Going)
  BY DEF Typed
<1>2. CASE current = Nothing
  BY <1>1, <1>2, LenProperties DEF Nothing
<1>3. CASE current \in Going
  BY <1>1, <1>3, LenProperties DEF Going
<1> QED  BY <1>1, <1>2, <1>3

(* What must be handed on, when the assembly holds none of it.             *)
LEMMA NoneHeld ==
  ASSUME OInv, ~ (clean /\ Left(ps).stat = "PROC")
  PROVE  Few(Musts(pending), current.must)
<1>1. PICK l : l = Left(ps)
  OBVIOUS
<1>2. Few(LateIn(pending, l, clean), LateNow(current, l, clean))
  BY <1>1 DEF OInv, FewLate
<1>3. \A x : ~ Holds(l, clean, x)
  BY <1>1 DEF Holds
<1>4. Musts(pending) \subseteq LateIn(pending, l, clean) /\ (current.must => LateNow(current, l, clean))
  BY <1>3 DEF Musts, LateIn, LateNow
<1> QED  BY <1>2, <1>4, FewLess

(* What must be handed on besides what the assembly holds.                 *)
LEMMA OthersHeld ==
  ASSUME OInv, NEW l, l = Left(ps), NEW s,
         GoesOn(current, l, s) \/ IsLast(pending, current, l, s)
  PROVE  /\ GoesOn(current, l, s) => Few(Musts(pending), FALSE)
         /\ table # "PMT" => \A i \in Musts(pending) : IsLast(pending, current, l, s) /\ i = Len(pending)
<1>1. Few(LateIn(pending, l, clean), LateNow(current, l, clean))
  BY DEF OInv, FewLate
<1>2. DOMAIN pending = 1 .. Len(pending)
  BY MustIsBoolean DEF OInv, GInv
<1>3. ASSUME GoesOn(current, l, s) PROVE Musts(pending) \subseteq LateIn(pending, l, clean)
  <2>1. \A i \in 1 .. Len(pending) : pending[i].number # l.number
    BY <1>3 DEF OInv, Numbers, GoesOn
  <2> QED  BY <1>2, <2>1 DEF Musts, LateIn, Holds
<1>4. GoesOn(current, l, s) => Few(Musts(pending), FALSE)
  BY <1>1, <1>3, FewLess
<1>5. ASSUME table # "PMT", NEW i \in Musts(pending)
      PROVE  IsLast(pending, current, l, s) /\ i = Len(pending)
  <2>1. ~ GoesOn(current, l, s)
    BY <1>4, <1>5 DEF Few
  <2>2. i \notin LateIn(pending, l, clean)
    BY <1>1, <1>5 DEF Few
  <2> QED  BY <1>5, <2>1, <2>2 DEF Musts, LateIn
<1> QED  BY <1>4, <1>5

(* Handing on what the assembly holds settles all that had to be.          *)
LEMMA HandedSettles ==
  ASSUME OInv, NEW l, l = Left(ps), NEW s, GoesOn(current, l, s) \/ IsLast(pending, current, l, s),
         NEW q, q.stat = "FINISHED", q.number = l.number,
         NEW due, NEW new, NEW n, NEW z, NEW must, Made(due, new, n, z, must),
         NEW S, Took(q, due, S),
         NEW i \in Musts(due), i \in S
  PROVE  new /\ i = Len(due)
<1>1. Typed /\ Numbers(pending, current)
  BY DEF OInv, GInv
<1>2. /\ DOMAIN due = 1 .. Len(due) /\ Len(due) \in Nat /\ Len(pending) \in Nat
      /\ DOMAIN pending = 1 .. Len(pending) /\ Len(pending) <= Len(due)
  BY <1>1, LenProperties, MustIsBoolean DEF Made
<1>3. \A a, b \in 1 .. Len(due) : due[a].number = due[b].number => a = b
  BY <1>1, MadeNumbers
<1>4. PICK j \in 1 .. Len(due) : due[j].number = l.number /\ S = Unsettled(due, j)
  BY DEF Took
<1>5. i \in 1 .. Len(due) /\ due[i].must /\ (i > j \/ (i < j /\ table # "PMT"))
  BY <1>2, <1>4 DEF Musts, Unsettled
<1>6. CASE GoesOn(current, l, s)
  <2>1. \A a \in 1 .. Len(pending) : pending[a].number # l.number
    BY <1>1, <1>6 DEF Numbers, GoesOn
  <2>2. j > Len(pending)
    <3>1. ASSUME j \in 1 .. Len(pending) PROVE FALSE
      <4>1. pending[j].number = l.number
        BY <1>4, <3>1 DEF Made
      <4> QED  BY <2>1, <3>1, <4>1
    <3> QED  BY <1>2, <3>1
  <2>3. j = Len(pending) + 1
    <3>1. ASSUME new, due[j].number = n PROVE FALSE
      BY <1>4, <1>6, <3>1 DEF Made, GoesOn
    <3> QED  BY <2>2, <3>1, Zenon DEF Made
  <2>4. CASE i \in 1 .. Len(pending) /\ pending[i].must
    <3>1. ~ (i > j)
      BY <1>2, <2>3, <2>4
    <3>2. i \in Musts(pending) /\ table # "PMT"
      BY <1>2, <1>5, <2>4, <3>1 DEF Musts
    <3>3. Few(Musts(pending), FALSE)
      BY <1>6, OthersHeld
    <3> QED  BY <3>2, <3>3 DEF Few
  <2>5. CASE i = Len(pending) + 1
    <3>1. i = j /\ i \in Nat
      BY <1>2, <1>5, <2>3, <2>5
    <3>2. ~ (i > j) /\ ~ (i < j)
      BY <3>1
    <3> QED  BY <1>5, <3>2
  <2> QED  BY <1>1, <1>5, <2>4, <2>5, MustIs
<1>7. CASE IsLast(pending, current, l, s)
  <2>1. Len(pending) \in 1 .. Len(pending) /\ Len(pending) \in 1 .. Len(due) /\ pending[Len(pending)].number = l.number
    BY <1>2, <1>7 DEF IsLast
  <2>2. due[Len(pending)].number = l.number
    BY <2>1 DEF Made
  <2>3. j = Len(pending)
    BY <1>3, <1>4, <2>1, <2>2
  <2>4. CASE i \in 1 .. Len(pending) /\ pending[i].must
    <3>1. ~ (i > j)
      BY <1>2, <2>3, <2>4
    <3>2. i \in Musts(pending) /\ table # "PMT" /\ i < j
      BY <1>2, <1>5, <2>4, <3>1 DEF Musts
    <3>3. i = Len(pending)
      BY <1>7, <3>2, OthersHeld
    <3>4. ~ (i < j)
      BY <1>2, <2>3, <3>3
    <3> QED  BY <3>2, <3>4
  <2>5. ~ current.must
    BY <1>7 DEF IsLast
  <2> QED  BY <1>1, <1>5, <2>4, <2>5, MustIs
<1> QED  BY <1>6, <1>7

-----------------------------------------------------------------------------
(* The invariant afterwards, from what is left of what was due.            *)
LEMMA Closes ==
  ASSUME GInv', table' = table, NEW due \in Seq(Due), NEW S, S \subseteq DOMAIN due,
         pending' \in Seq(Due),
         \E c : Embeds(c, pending', due, Len(due), Kept2(due, S, ps')),
         \A i, j \in 1 .. Len(due) : due[i].number = due[j].number => i = j,
         \A i \in 1 .. Len(due) : due[i].must => due[i].number # 0,
         current'.must => current'.number # 0,
         current'.number = 0 \/ \A i \in 1 .. Len(due) : due[i].number # current'.number,
         Few(LateIn(due, Left(ps'), clean') \cap S, LateNow(current', Left(ps'), clean')),
         Whole(pending', current', Left(ps'), clean', counter')
  PROVE  OInv'
<1>1. PICK o \in Seq(Due) : o = pending'
  OBVIOUS
<1>2. PICK p : p = ps'
  OBVIOUS
<1>3. PICK t : t = current'
  OBVIOUS
<1>4. PICK cl : cl = clean'
  OBVIOUS
<1>5. PICK K : K = Kept2(due, S, p)
  OBVIOUS
<1>6. PICK c : Embeds(c, o, due, Len(due), K)
  BY <1>1, <1>2, <1>5
<1>7. Numbers(o, t)
  <2>1. Embeds(c, o, due, Len(due), Kept2(due, S, p))
    BY <1>5, <1>6
  <2>2. t.must => t.number # 0
    BY <1>3
  <2>3. t.number = 0 \/ \A i \in 1 .. Len(due) : due[i].number # t.number
    BY <1>3
  <2> QED  BY <2>1, <2>2, <2>3, NumbersKept
<1>8. FewLate(o, t, Left(p), cl)
  <2>1. Few(LateIn(due, Left(p), cl) \cap S, LateNow(t, Left(p), cl))
    BY <1>2, <1>3, <1>4
  <2>2. K \subseteq S
    BY <1>5 DEF Kept2
  <2>3. Few(LateIn(due, Left(p), cl) \cap K, LateNow(t, Left(p), cl))
    BY <2>1, <2>2, FewLess
  <2> QED  BY <1>6, <2>3, FewAfter
<1>9. Few(LateIn(o, Left(p), cl), LateNow(t, Left(p), cl))
  BY <1>8 DEF FewLate
<1> QED  BY <1>1, <1>2, <1>3, <1>4, <1>7, <1>9 DEF OInv, FewLate, Few

(* What was due before the packet, and grew old or not.                    *)
LikePending(base) ==
  /\ base \in Seq(Due) /\ Len(base) = Len(pending)
  /\ \A j \in 1 .. Len(pending) :
       /\ base[j].number = pending[j].number /\ base[j].section = pending[j].section
       /\ base[j].must = pending[j].must

LEMMA PendingLike ==
  ASSUME Typed
  PROVE  LikePending(Aged) /\ LikePending(pending)
<1>1. pending \in Seq(Due)
  BY DEF Typed
<1>2. LikePending(pending)
  BY <1>1 DEF LikePending
<1>3. LikePending(Aged)
  BY <1>1, AgedIs DEF LikePending
<1> QED  BY <1>2, <1>3

(* What is due with a packet in which no section begins.                   *)
LEMMA ContinuationMade ==
  ASSUME Typed, Sent, current # Nothing, NEW base, LikePending(base),
         NEW due, due = base \o Ending(current, Payload), NEW n, NEW s, NEW must
  PROVE  /\ Made(due, FALSE, n, s, must)
         /\ Len(Rest) <= Payload => Len(due) = Len(pending) + 1
         /\ ~ (Len(Rest) <= Payload) => Len(due) = Len(pending)
<1>1. PICK e : e = Ending(current, Payload)
  OBVIOUS
<1>2. Payload \in Nat /\ Len(Rest) \in Nat
  BY RestIs, PsiAssumption DEF PsiAssumption
<1>3. /\ current \in Going /\ Length[current.section] - current.sent = Len(Rest)
  BY <1>2, CurrentEnds
<1>4. /\ e \in Seq(Due) /\ Len(e) \in {0, 1}
      /\ Len(Rest) <= Payload => Len(e) = 1
      /\ Len(e) = 1 => e[1] = Ended(current, current.must)
      /\ ~ (Len(Rest) <= Payload) => Len(e) = 0
  BY <1>1, <1>2, <1>3, EndingIs
<1>5. base \in Seq(Due) /\ Len(base) = Len(pending) /\ Len(pending) \in Nat
  BY MustIsBoolean DEF LikePending
<1>6. /\ due \in Seq(Due) /\ Len(due) = Len(pending) + Len(e)
      /\ \A i \in 1 .. Len(pending) : due[i] = base[i]
      /\ \A i \in 1 .. Len(e) : due[Len(pending) + i] = e[i]
  <2>1. due = base \o e
    BY <1>1
  <2>2. /\ due \in Seq(Due) /\ Len(due) = Len(base) + Len(e)
        /\ \A i \in 1 .. Len(base) : due[i] = base[i]
        /\ \A i \in 1 .. Len(e) : due[Len(base) + i] = e[i]
    <3>1. /\ base \o e \in Seq(Due) /\ Len(base \o e) = Len(base) + Len(e)
          /\ \A i \in 1 .. Len(base) : (base \o e)[i] = base[i]
          /\ \A i \in 1 .. Len(e) : (base \o e)[Len(base) + i] = e[i]
      BY <1>4, <1>5, ConcatIs, Zenon
    <3> QED  BY <2>1, <3>1, Zenon
  <2>3. PICK w : w = Len(pending)
    OBVIOUS
  <2>4. Len(base) = w
    BY <1>5, <2>3
  <2>5. /\ Len(due) = w + Len(e)
        /\ \A i \in 1 .. w : due[i] = base[i]
        /\ \A i \in 1 .. Len(e) : due[w + i] = e[i]
    BY <2>2, <2>4, Zenon
  <2> QED  BY <2>2, <2>3, <2>5, Zenon
<1>7. ASSUME NEW j \in 1 .. Len(pending)
      PROVE  /\ due[j].number = pending[j].number /\ due[j].section = pending[j].section
             /\ due[j].must = pending[j].must
  BY <1>6 DEF LikePending
<1>8. ASSUME NEW j \in 1 .. Len(due), j > Len(pending)
      PROVE  /\ j = Len(pending) + 1
             /\ due[j].number = current.number /\ due[j].section = current.section
             /\ due[j].must = current.must
  <2>1. Len(e) = 1 /\ j = Len(pending) + 1 /\ 1 \in 1 .. Len(e)
    BY <1>4, <1>5, <1>6, <1>8
  <2>2. due[j] = Ended(current, current.must)
    BY <1>4, <1>6, <2>1
  <2> QED  BY <2>1, <2>2 DEF Ended
<1>9. Len(pending) <= Len(due)
  BY <1>4, <1>5, <1>6
<1>10. Made(due, FALSE, n, s, must)
  BY <1>6, <1>7, <1>8, <1>9 DEF Made
<1>11. /\ Len(Rest) <= Payload => Len(due) = Len(pending) + 1
       /\ ~ (Len(Rest) <= Payload) => Len(due) = Len(pending)
  <2>1. Len(due) = Len(pending) + Len(e)
    BY <1>6
  <2>2. Len(pending) + 0 = Len(pending)
    BY <1>5
  <2> QED  BY <1>4, <2>1, <2>2, Zenon
<1> QED  BY <1>10, <1>11

LEMMA ContinuationOnTime ==
  ASSUME OInv, GInv', NEW k, k = Continuation, NEW due, due = Aged \o Ending(current, Payload),
         Receive(k, due), current # Nothing, current' = Sending(current, Payload),
         clean' = clean, Count
  PROVE  OInv'
<1> DEFINE P == Len(pending)
<1>1. GInv /\ Typed /\ Sent /\ Numbers(pending, current) /\ Sane(ps) /\ NoneKept(ps)
  BY StaysMeansSane DEF OInv, GInv, SInv
<1>2. PICK l : l = Left(ps)
  OBVIOUS
<1>3. PICK q : q = ParsePSI(ps, k)
  OBVIOUS
<1>4. PICK m : m = Left(ps')
  OBVIOUS
<1>5. Packet(k) /\ Brings(k, due) /\ ~ k.pusi /\ k.counter = counter /\ Len(k.data) = Payload /\ Brought(k) = Payload
  BY <1>1, ContinuationIsPacket, ContinuationBrings, ContinuationIs DEF Brought
<1>6. Payload \in Nat /\ Len(Rest) \in Nat /\ P \in Nat
  BY <1>1, RestIs, MustIsBoolean, PsiAssumption DEF PsiAssumption
<1>7. Fits(k)
  <2> SUFFICES ASSUME NEW i \in 1 .. Least(Brought(k), Len(Rest)) PROVE k.data[i] = Rest[i]
    BY DEF Fits
  <2>1. /\ Least(Payload, Len(Rest)) <= Payload /\ Least(Payload, Len(Rest)) <= Len(Rest)
        /\ Least(Payload, Len(Rest)) \in Nat
    BY <1>6, LeastFacts
  <2>2. i \in 1 .. Payload /\ i <= Len(Rest)
    BY <1>5, <1>6, <2>1
  <2> QED  BY <1>1, <2>2, ContinuationIs
<1>8. PICK S : S \subseteq DOMAIN due /\ Took(q, due, S)
  BY <1>1, <1>3, <1>5, ReceiveTakes
<1>9. /\ Made(due, FALSE, 1, Stuffing, FALSE)
      /\ Len(Rest) <= Payload => Len(due) = P + 1
      /\ ~ (Len(Rest) <= Payload) => Len(due) = P
  BY <1>1, PendingLike, ContinuationMade
<1>10. due \in Seq(Due) /\ DOMAIN due = 1 .. Len(due) /\ Len(due) \in Nat
  BY <1>9, LenProperties DEF Made
<1>11. /\ \A i, j \in 1 .. Len(due) : due[i].number = due[j].number => i = j
       /\ \A i \in 1 .. Len(due) : due[i].must => due[i].number # 0
  BY <1>1, <1>9, MadeNumbers
<1>12. current \in Going /\ Length[current.section] - current.sent = Len(Rest)
  BY <1>1, <1>6, CurrentEnds
<1>13. /\ Len(Rest) <= Payload => current' = Nothing
       /\ ~ (Len(Rest) <= Payload) =>
            /\ current'.section = current.section /\ current'.number = current.number
            /\ current'.sent = current.sent + Payload /\ current'.must = current.must
  BY <1>6, <1>12, SendingIs
<1>14. Nothing.must = FALSE /\ Nothing.number = 0
  BY DEF Nothing
<1>15. current'.must => current'.number # 0
  BY <1>1, <1>13, <1>14 DEF Numbers
<1>16. current'.number = 0 \/ \A i \in 1 .. Len(due) : due[i].number # current'.number
  <2>1. CASE Len(Rest) <= Payload
    BY <1>13, <1>14, <2>1
  <2>2. CASE ~ (Len(Rest) <= Payload)
    <3> SUFFICES ASSUME NEW i \in 1 .. Len(due) PROVE due[i].number # current'.number
      OBVIOUS
    <3>1. i \in 1 .. Len(pending) /\ current'.number = current.number
      BY <1>9, <1>13, <2>2
    <3>2. due[i].number = pending[i].number
      BY <1>9, <3>1 DEF Made
    <3> QED  BY <1>1, <3>1, <3>2 DEF Numbers
  <2> QED  BY <2>1, <2>2
<1>17. ps' = Used(q) /\ counter' = (counter + 1) % CounterMod /\ table' = table
  BY <1>3 DEF Receive, Count
<1>18. Sane(q) /\ (Idle(q, l, k) \/ Begins(q, l, k) \/ Loses(q, l, k) \/ Grows(q, l, k))
  BY <1>1, <1>2, <1>3, <1>5, ParseIs, ParseSane
<1>19. /\ q.stat = "PROC" => m = q
       /\ m.stat = "PROC" => q.stat = "PROC"
  BY <1>4, <1>5, <1>17, <1>18, AfterIs
<1>20. ASSUME Few(LateIn(due, m, clean) \cap S, LateNow(current', m, clean)),
              Whole(pending', current', m, clean, counter')
       PROVE  OInv'
  <2>1. pending' \in Seq(Due) /\ \E c : Embeds(c, pending', due, Len(due), Kept2(due, S, ps'))
    BY <1>8 DEF Took
  <2>2. /\ Few(LateIn(due, Left(ps'), clean') \cap S, LateNow(current', Left(ps'), clean'))
        /\ Whole(pending', current', Left(ps'), clean', counter')
    BY <1>4, <1>20
  <2> QED  BY <1>8, <1>10, <1>11, <1>15, <1>16, <1>17, <2>1, <2>2, Closes
<1>21. LateIn(due, m, clean) \cap S \subseteq Musts(due) \cap S
  BY LateIsMust
<1>22. CASE ~ (clean /\ l.stat = "PROC")
  <2>1. ~ (clean /\ m.stat = "PROC")
    <3> SUFFICES ASSUME clean, q.stat = "PROC" PROVE FALSE
      BY <1>19
    <3>1. "PROC" # "INIT"
      OBVIOUS
    <3> QED  BY <1>5, <1>18, <1>22, <3>1 DEF Idle, Begins, Loses, Grows
  <2>2. Few(Musts(pending), current.must)
    BY <1>2, <1>22, NoneHeld
  <2>3. \A i \in Musts(due) : i \in Musts(pending) \/ (Len(Rest) <= Payload /\ current.must /\ i = P + 1)
    <3> SUFFICES ASSUME NEW i \in Musts(due), i \notin Musts(pending)
                 PROVE  Len(Rest) <= Payload /\ current.must /\ i = P + 1
      OBVIOUS
    <3>1. i \in 1 .. Len(due) /\ due[i].must
      BY <1>10 DEF Musts
    <3>2. (i \in 1 .. Len(pending) /\ pending[i].must) \/ (i = P + 1 /\ current.must)
      BY <1>1, <1>9, <3>1, MustIs
    <3>3. i = P + 1 /\ current.must
      BY <1>1, <3>2, MustIsBoolean DEF Musts
    <3> QED  BY <1>6, <1>9, <3>1, <3>3
  <2>4. Few(Musts(due), current'.must)
    <3>1. current.must \in BOOLEAN
      BY <1>1, MustIsBoolean
    <3>2. CASE Len(Rest) <= Payload
      <4>3. PICK x \in BOOLEAN : x = current.must
        BY <3>1
      <4>4. PICK z : z = P + 1
        OBVIOUS
      <4>1. \A i \in Musts(due) : i \in Musts(pending) \/ (x /\ i = z)
        BY <2>3, <4>3, <4>4
      <4>5. Few(Musts(pending), x)
        BY <2>2, <4>3
      <4>6. PICK A : A = Musts(pending)
        OBVIOUS
      <4>7. PICK B : B = Musts(due)
        OBVIOUS
      <4>8. Few(A, x) /\ \A i \in B : i \in A \/ (x /\ i = z)
        BY <4>1, <4>5, <4>6, <4>7
      <4>10. x = TRUE \/ x = FALSE
        OBVIOUS
      <4>9. Few(B, FALSE)
        BY <4>8, <4>10 DEF Few
      <4>2. Few(Musts(due), FALSE)
        BY <4>7, <4>9
      <4> QED  BY <1>13, <1>14, <3>2, <4>2
    <3>3. CASE ~ (Len(Rest) <= Payload)
      <4>1. Musts(due) \subseteq Musts(pending)
        BY <2>3, <3>3
      <4> QED  BY <1>13, <2>2, <3>3, <4>1, FewLess
    <3> QED  BY <3>2, <3>3
  <2>5. Few(LateIn(due, m, clean) \cap S, LateNow(current', m, clean))
    <3>1. LateIn(due, m, clean) \cap S \subseteq Musts(due) /\ (LateNow(current', m, clean) => current'.must)
      BY LateIsMust
    <3> QED  BY <2>4, <3>1, FewLess
  <2>6. Whole(pending', current', m, clean, counter')
    BY <2>1 DEF Whole
  <2> QED  BY <1>20, <2>5, <2>6
<1>23. CASE clean /\ l.stat = "PROC"
  <2>1. PICK s \in Sections : Exact(l, s) /\ (GoesOn(current, l, s) \/ IsLast(pending, current, l, s))
    BY <1>2, <1>23 DEF OInv, Whole
  <2>2. /\ q.number = l.number /\ q.continuity_counter = counter
        /\ IsLast(pending, current, l, s) \/ Payload >= Len(Rest) => q.stat = "FINISHED"
        /\ GoesOn(current, l, s) /\ Payload < Len(Rest) =>
             q.stat = "PROC" /\ Exact(q, s) /\ q.recv_payload = current.sent + Payload
    BY <1>2, <1>3, <1>5, <1>7, <1>23, <2>1, HeldGrows
  <2>3. CASE q.stat = "FINISHED"
    <3>1. \A i \in Musts(due) : i \notin S
      BY <1>2, <1>8, <1>9, <2>1, <2>2, <2>3, HandedSettles
    <3>2. ~ current'.must
      <4>1. IsLast(pending, current, l, s) => ~ current.must
        BY DEF IsLast
      <4>2. Len(Rest) <= Payload \/ IsLast(pending, current, l, s)
        <5>1. ASSUME ~ (Len(Rest) <= Payload) PROVE Payload < Len(Rest)
          BY <1>6, <5>1
        <5>2. "FINISHED" # "PROC"
          OBVIOUS
        <5> QED  BY <2>1, <2>2, <2>3, <5>1, <5>2
      <4> QED  BY <1>13, <1>14, <4>1, <4>2
    <3>3. LateIn(due, m, clean) \cap S = {} /\ ~ LateNow(current', m, clean)
      BY <3>1, <3>2, LateIsMust
    <3>4. Few(LateIn(due, m, clean) \cap S, LateNow(current', m, clean))
      BY <3>3 DEF Few
    <3>5. m.stat # "PROC"
      BY <1>19, <2>3
    <3>6. Whole(pending', current', m, clean, counter')
      BY <3>5 DEF Whole
    <3> QED  BY <1>20, <3>4, <3>6
  <2>4. CASE q.stat # "FINISHED"
    <3>1. GoesOn(current, l, s) /\ ~ (Len(Rest) <= Payload) /\ Payload < Len(Rest)
      BY <1>6, <2>1, <2>2, <2>4
    <3>2. /\ m = q /\ q.stat = "PROC" /\ Exact(m, s) /\ m.recv_payload = current.sent + Payload
          /\ m.number = current.number /\ m.continuity_counter = counter
      BY <1>19, <2>2, <3>1 DEF GoesOn
    <3>3. GoesOn(current', m, s)
      BY <1>13, <3>1, <3>2 DEF GoesOn
    <3>4. Whole(pending', current', m, clean, counter')
      BY <1>17, <3>2, <3>3 DEF Whole
    <3>5. ~ LateNow(current', m, clean)
      BY <1>23, <3>2, <3>3 DEF LateNow, Holds, GoesOn
    <3>6. Musts(due) \subseteq Musts(pending)
      <4> SUFFICES ASSUME NEW i \in Musts(due) PROVE i \in Musts(pending)
        OBVIOUS
      <4>1. i \in 1 .. Len(due) /\ due[i].must /\ i # P + 1
        BY <1>6, <1>9, <1>10, <3>1 DEF Musts
      <4>2. i \in 1 .. Len(pending) /\ pending[i].must
        BY <1>1, <1>9, <4>1, MustIs
      <4> QED  BY <1>1, <4>2, MustIsBoolean DEF Musts
    <3>7. Few(Musts(pending), FALSE)
      BY <1>2, <3>1, OthersHeld
    <3>8. Few(LateIn(due, m, clean) \cap S, LateNow(current', m, clean))
      <4>1. LateIn(due, m, clean) \cap S \subseteq Musts(pending)
        BY <1>21, <3>6
      <4>2. LateNow(current', m, clean) => FALSE
        BY <3>5
      <4>3. PICK B : B = LateIn(due, m, clean) \cap S
        OBVIOUS
      <4>4. PICK y : y = LateNow(current', m, clean)
        OBVIOUS
      <4>5. B \subseteq Musts(pending) /\ (y => FALSE)
        BY <4>1, <4>2, <4>3, <4>4
      <4>6. Few(B, y)
        BY <3>7, <4>5 DEF Few
      <4> QED  BY <4>3, <4>4, <4>6
    <3> QED  BY <1>20, <3>4, <3>8
  <2> QED  BY <2>3, <2>4
<1> QED  BY <1>22, <1>23

-----------------------------------------------------------------------------
(* What is forgiven is not late.                                           *)
LEMMA NoneLate ==
  ASSUME NEW due, DOMAIN due = 1 .. Len(due), \A i \in 1 .. Len(due) : ~ due[i].must,
         NEW l, NEW cl, NEW t, ~ t.must, NEW S
  PROVE  Few(LateIn(due, l, cl) \cap S, LateNow(t, l, cl))
<1>1. LateIn(due, l, cl) \cap S = {} /\ ~ LateNow(t, l, cl)
  BY DEF LateIn, LateNow
<1> QED  BY <1>1 DEF Few

LEMMA MissOnTime ==
  ASSUME OInv, GInv', table' = table,
         NEW ended, NEW sent, sent = pending \o ended, NEW new, NEW n, NEW s, NEW must,
         Made(sent, new, n, s, must), Miss(ended),
         ~ current'.must,
         current'.number = 0 \/ \A i \in 1 .. Len(sent) : sent[i].number # current'.number
  PROVE  OInv'
<1>1. Typed /\ Numbers(pending, current)
  BY DEF OInv, GInv
<1>2. sent \in Seq(Due) /\ DOMAIN sent = 1 .. Len(sent)
  BY LenProperties DEF Made
<1>3. PICK due : due = Forgiven(sent)
  OBVIOUS
<1>4. /\ due \in Seq(Due) /\ Len(due) = Len(sent) /\ DOMAIN due = 1 .. Len(due)
      /\ \A i \in 1 .. Len(due) : due[i].number = sent[i].number /\ due[i].must = FALSE
  <2>1. due \in Seq(Due) /\ Len(due) = Len(sent)
    BY <1>2, <1>3, ForgivenIs
  <2>2. \A i \in 1 .. Len(sent) : due[i].number = sent[i].number /\ due[i].must = FALSE
    BY <1>2, <1>3, ForgivenIs, Zenon
  <2> QED  BY <2>1, <2>2, LenProperties
<1>5. \A i, j \in 1 .. Len(due) : due[i].number = due[j].number => i = j
  <2>1. \A i, j \in 1 .. Len(sent) : sent[i].number = sent[j].number => i = j
    BY <1>1, MadeNumbers
  <2> QED  BY <1>4, <2>1
<1>6. ps' = ps /\ pending' = Remembered(due, ps') /\ ~ clean'
  BY <1>3 DEF Miss
<1>7. PICK p : p = ps'
  OBVIOUS
<1>8. /\ \E c : Embeds(c, pending', due, Len(due), Kept2(due, DOMAIN due, p))
      /\ pending' \in Seq(Due)
  BY <1>4, <1>6, <1>7, RememberedEmbeds, RememberedType
<1>9. Few(LateIn(due, Left(ps'), clean') \cap DOMAIN due, LateNow(current', Left(ps'), clean'))
  BY <1>4, NoneLate
<1>10. Whole(pending', current', Left(ps'), clean', counter')
  BY <1>6 DEF Whole
<1>11. current'.number = 0 \/ \A i \in 1 .. Len(due) : due[i].number # current'.number
  BY <1>4
<1>12. \A i \in 1 .. Len(due) : due[i].must => due[i].number # 0
  BY <1>4
<1> QED  BY <1>4, <1>5, <1>7, <1>8, <1>9, <1>10, <1>11, <1>12, Closes

LEMMA BareOnTime ==
  ASSUME OInv, SendBare
  PROVE  OInv'
<1>1. GInv /\ Typed /\ Sent /\ Numbers(pending, current)
  BY DEF OInv, GInv, SInv
<1>2. PICK due : due = Forgiven(Aged)
  OBVIOUS
<1>3. Aged \in Seq(Due) /\ Len(Aged) = Len(pending) /\ \A i \in 1 .. Len(pending) : Aged[i].number = pending[i].number
  BY <1>1, AgedIs DEF Typed
<1>4. /\ due \in Seq(Due) /\ Len(due) = Len(pending) /\ DOMAIN due = 1 .. Len(due)
      /\ \A i \in 1 .. Len(due) : due[i].number = pending[i].number /\ due[i].must = FALSE
  <2>1. /\ due \in Seq(Due) /\ Len(due) = Len(Aged)
        /\ \A i \in 1 .. Len(Aged) : due[i].number = Aged[i].number /\ due[i].must = FALSE
    BY <1>2, <1>3, ForgivenIs, Zenon
  <2>2. DOMAIN due = 1 .. Len(due)
    BY <2>1, LenProperties
  <2>3. Len(due) = Len(pending)
    BY <1>3, <2>1, Zenon
  <2> QED  BY <1>3, <2>1, <2>2, <2>3, Zenon
<1>5. Packet(Bare) /\ Brings(Bare, due) /\ Receive(Bare, due)
  <2>1. Packet(Bare)
    BY <1>1, BareIsPacket
  <2>2. Brings(Bare, due)
    BY <1>1, <1>2, BareBrings
  <2>3. Receive(Bare, due)
    <3>1. Receive(Bare, Forgiven(Aged))
      BY Zenon DEF SendBare
    <3> QED  BY <1>2, <3>1
  <2> QED  BY <2>1, <2>2, <2>3
<1>6. PICK S : S \subseteq DOMAIN due /\ Took(ParsePSI(ps, Bare), due, S)
  BY <1>1, <1>5, ReceiveTakes
<1>7. pending' \in Seq(Due) /\ \E c : Embeds(c, pending', due, Len(due), Kept2(due, S, ps'))
  BY <1>6 DEF Took
<1>8. current'.must = FALSE /\ current'.number = current.number
  <2>1. current' = [current EXCEPT !.must = FALSE]
    BY DEF SendBare
  <2>2. CASE current = Nothing
    BY <2>1, <2>2 DEF Nothing
  <2>3. CASE current \in Going
    BY <2>1, <2>3 DEF Going
  <2> QED  BY <1>1, <2>2, <2>3 DEF Typed
<1>9. Few(LateIn(due, Left(ps'), clean') \cap S, LateNow(current', Left(ps'), clean'))
  BY <1>4, <1>8, NoneLate
<1>10. Whole(pending', current', Left(ps'), clean', counter') /\ table' = table
  BY DEF Whole, SendBare
<1>11. \A i, j \in 1 .. Len(due) : due[i].number = due[j].number => i = j
  BY <1>1, <1>4 DEF Numbers
<1>12. /\ \A i \in 1 .. Len(due) : due[i].number # current'.number
       /\ \A i \in 1 .. Len(due) : due[i].must => due[i].number # 0
       /\ current'.must => current'.number # 0
  BY <1>1, <1>4, <1>8 DEF Numbers
<1>13. GInv'
  BY <1>1, BareTraces
<1> QED  BY <1>4, <1>6, <1>7, <1>9, <1>10, <1>11, <1>12, <1>13, Closes

(* The last of what was due stays the last, while the assembly holds it.   *)
LEMMA LastKept ==
  ASSUME NEW o \in Seq(Due), NEW due \in Seq(Due), NEW S, NEW p, NEW c,
         Embeds(c, o, due, Len(due), Kept2(due, S, p)),
         Len(due) > 0, Len(due) \in S, due[Len(due)].number \in {p.number, p.next_number} \ {0}
  PROVE  Len(o) > 0 /\ o[Len(o)] = due[Len(due)]
<1>1. Len(due) \in Kept2(due, S, p)
  BY DEF Kept2
<1> QED  BY <1>1, LastIsLast

LEMMA OtherPidOnTime ==
  ASSUME OInv, OtherPid
  PROVE  OInv'
<1>1. GInv /\ Typed /\ Numbers(pending, current) /\ Sane(ps)
  BY StaysMeansSane DEF OInv, GInv, SInv
<1>2. PICK l : l = Left(ps)
  OBVIOUS
<1>3. /\ ps' = l /\ Left(l) = l /\ pending' = Remembered(pending, l) /\ table' = table
      /\ current' = current /\ clean' = clean /\ counter' = counter
  BY <1>1, <1>2, LeftTwice DEF OtherPid
<1>4. pending \in Seq(Due) /\ DOMAIN pending = 1 .. Len(pending) /\ Len(pending) \in Nat
  BY <1>1, MustIsBoolean DEF Typed
<1>5. PICK c : Embeds(c, pending', pending, Len(pending), Kept2(pending, DOMAIN pending, l))
  BY <1>3, <1>4, RememberedEmbeds
<1>6. pending' \in Seq(Due)
  BY <1>3, <1>4, RememberedType
<1>7. Few(LateIn(pending, l, clean) \cap DOMAIN pending, LateNow(current, l, clean))
  <2>1. LateIn(pending, l, clean) \cap DOMAIN pending = LateIn(pending, l, clean)
    BY DEF LateIn
  <2> QED  BY <1>2, <2>1 DEF OInv, FewLate
<1>8. Whole(pending', current, l, clean, counter)
  <2> SUFFICES ASSUME clean, l.stat = "PROC"
               PROVE  /\ (l.continuity_counter + 1) % CounterMod = counter
                      /\ \E s \in Sections : Exact(l, s) /\ (GoesOn(current, l, s) \/ IsLast(pending', current, l, s))
    BY DEF Whole
  <2>1. PICK s \in Sections : Exact(l, s) /\ (GoesOn(current, l, s) \/ IsLast(pending, current, l, s))
    BY <1>2 DEF OInv, Whole
  <2>2. (l.continuity_counter + 1) % CounterMod = counter
    BY <1>2 DEF OInv, Whole
  <2>3. ASSUME IsLast(pending, current, l, s) PROVE IsLast(pending', current, l, s)
    <3>1. /\ Len(pending) > 0 /\ Len(pending) \in DOMAIN pending
          /\ pending[Len(pending)].number \in {l.number, l.next_number} \ {0}
      BY <1>4, <2>1, <2>3 DEF IsLast, Exact
    <3>2. Len(pending') > 0 /\ pending'[Len(pending')] = pending[Len(pending)]
      BY <1>4, <1>5, <1>6, <3>1, LastKept
    <3> QED  BY <2>3, <3>2 DEF IsLast
  <2> QED  BY <2>1, <2>2, <2>3
<1>9. GInv'
  BY <1>1, OtherPidTraces
<1>10. /\ \A i, j \in 1 .. Len(pending) : pending[i].number = pending[j].number => i = j
       /\ \A i \in 1 .. Len(pending) : pending[i].must => pending[i].number # 0
       /\ current'.must => current'.number # 0
       /\ \A i \in 1 .. Len(pending) : pending[i].number # current'.number
  BY <1>1, <1>3 DEF Numbers
<1>11. PICK due \in Seq(Due) : due = pending
  BY <1>4
<1>12. /\ \E a : Embeds(a, pending', due, Len(due), Kept2(due, DOMAIN due, ps'))
       /\ Few(LateIn(due, Left(ps'), clean') \cap DOMAIN due, LateNow(current', Left(ps'), clean'))
       /\ Whole(pending', current', Left(ps'), clean', counter')
  BY <1>3, <1>5, <1>7, <1>8, <1>11
<1> QED  BY <1>3, <1>6, <1>9, <1>10, <1>11, <1>12, Closes

-----------------------------------------------------------------------------
(* What is due with a packet in which a section begins.                    *)
NewIsLast(due, new, n, s) ==
  /\ new => Len(due) > 0 /\ due[Len(due)].number = n /\ due[Len(due)].section = s /\ due[Len(due)].age = 0
  /\ \A j \in 1 .. Len(due) : due[j].number = n => new /\ j = Len(due)

SentWith(due, base, begun, room) ==
  due = base \o (Ending(current, Payload) \o Ending(begun, room))

LEMMA BeginningMade ==
  ASSUME Sent, Typed, NEW base, LikePending(base), NEW s \in Sections, NEW n \in Nat, n # 0, IsNew(n),
         NEW room \in Nat, Len(Rest) + room < Payload,
         NEW begun \in Going, begun.section = s, begun.number = n, begun.sent = 0,
         NEW due, SentWith(due, base, begun, room),
         NEW new, new <=> Length[s] <= room
  PROVE  Made(due, new, n, s, begun.must) /\ NewIsLast(due, new, n, s)
<1>1. PICK a : a = Ending(current, Payload)
  OBVIOUS
<1>2. PICK b : b = Ending(begun, room)
  OBVIOUS
<1>3. Payload \in Nat /\ Len(Rest) \in Nat /\ Length[s] \in Nat
  BY RestIs, LengthIs, PsiAssumption DEF PsiAssumption
<1>4. /\ a \in Seq(Due) /\ Len(a) \in {0, 1}
      /\ Len(a) = 1 => /\ current # Nothing /\ a[1] = Ended(current, current.must)
  <2>1. current = Nothing \/ current \in Going
    BY DEF Typed
  <2>2. CASE current # Nothing /\ Length[current.section] - current.sent <= Payload
    <3>1. a \in Seq(Due) /\ Len(a) = 1 /\ a[1] = Ended(current, current.must)
      BY <1>1, <1>3, <2>1, <2>2, EndingIs
    <3> QED  BY <2>2, <3>1
  <2>3. CASE current = Nothing \/ ~ (Length[current.section] - current.sent <= Payload)
    <3>1. a \in Seq(Due) /\ Len(a) = 0
      BY <1>1, <1>3, <2>1, <2>3, EndingIs
    <3> QED  BY <3>1
  <2> QED  BY <2>2, <2>3
<1>5. /\ b \in Seq(Due) /\ Len(b) \in {0, 1}
      /\ Len(b) = 1 <=> new
      /\ new => b[1] = Ended(begun, begun.must)
  <2>1. begun # Nothing
    BY PsiAssumption DEF Nothing, PsiAssumption
  <2>2. Length[begun.section] - begun.sent <= room <=> Length[s] <= room
    <3>1. Length[begun.section] = Length[s] /\ begun.sent = 0 /\ Length[s] - 0 = Length[s]
      BY <1>3
    <3> QED  BY <3>1
  <2>3. CASE Length[s] <= room
    <3>1. b \in Seq(Due) /\ Len(b) = 1 /\ b[1] = Ended(begun, begun.must)
      BY <1>2, <2>1, <2>2, <2>3, EndingIs
    <3> QED  BY <2>3, <3>1
  <2>4. CASE ~ (Length[s] <= room)
    <3>1. b \in Seq(Due) /\ Len(b) = 0
      BY <1>2, <2>1, <2>2, <2>4, EndingIs
    <3>2. ~ new /\ 0 # 1
      BY <2>4
    <3> QED  BY <3>1, <3>2
  <2> QED  BY <2>3, <2>4
<1>6. PICK e \in Seq(Due) : e = a \o b
  BY <1>4, <1>5, ConcatIs
<1>7. /\ Len(e) = Len(a) + Len(b) /\ \A i \in 1 .. Len(a) : e[i] = a[i]
      /\ \A i \in 1 .. Len(b) : e[Len(a) + i] = b[i]
  BY <1>4, <1>5, <1>6, ConcatIs
<1>8. base \in Seq(Due) /\ Len(base) = Len(pending) /\ Len(pending) \in Nat
  BY MustIsBoolean DEF LikePending
<1>9. /\ due \in Seq(Due) /\ Len(due) = Len(pending) + Len(e)
      /\ \A i \in 1 .. Len(pending) : due[i] = base[i]
      /\ \A i \in 1 .. Len(e) : due[Len(pending) + i] = e[i]
  <2>1. due = base \o e
    BY <1>1, <1>2, <1>6 DEF SentWith
  <2>2. /\ due \in Seq(Due) /\ Len(due) = Len(base) + Len(e)
        /\ \A i \in 1 .. Len(base) : due[i] = base[i]
        /\ \A i \in 1 .. Len(e) : due[Len(base) + i] = e[i]
    <3>1. base \in Seq(Due) /\ e \in Seq(Due)
      BY <1>8
    <3> QED  BY <2>1, <3>1, ConcatIs
  <2> QED  BY <1>8, <2>2
<1>10. \A j \in 1 .. Len(pending) :
         /\ due[j].number = pending[j].number /\ due[j].section = pending[j].section
         /\ due[j].must = pending[j].must
  BY <1>9 DEF LikePending
<1>11. Len(e) \in Nat /\ Len(due) \in Nat /\ Len(pending) <= Len(due)
  BY <1>4, <1>5, <1>7, <1>8, <1>9
<1>12. ASSUME NEW j \in 1 .. Len(due), j > Len(pending)
       PROVE  \/ /\ j = Len(pending) + 1 /\ current # Nothing
                 /\ due[j] = Ended(current, current.must)
              \/ /\ new /\ j = Len(due) /\ due[j] = Ended(begun, begun.must)
  <2>1. PICK i \in 1 .. Len(e) : j = Len(pending) + i
    <3>1. j - Len(pending) \in 1 .. Len(e) /\ j = Len(pending) + (j - Len(pending))
      BY <1>8, <1>9, <1>11, <1>12
    <3> QED  BY <3>1
  <2>2. due[j] = e[i]
    BY <1>9, <2>1
  <2>3. CASE i <= Len(a)
    <3>3. i \in Nat /\ 1 <= i
      BY <1>11
    <3>4. Len(a) \in {0, 1}
      BY <1>4
    <3>5. Len(a) = 1
      BY <2>3, <3>3, <3>4
    <3>6. i = 1
      BY <2>3, <3>3, <3>5
    <3>1. i = 1 /\ Len(a) = 1 /\ i \in 1 .. Len(a)
      BY <3>5, <3>6
    <3>2. e[i] = a[1]
      BY <1>7, <3>1
    <3> QED  BY <1>4, <2>1, <2>2, <3>1, <3>2
  <2>4. CASE ~ (i <= Len(a))
    <3>4. i \in Nat /\ i <= Len(e)
      BY <1>11
    <3>5. Len(a) \in {0, 1} /\ Len(b) \in {0, 1} /\ Len(e) = Len(a) + Len(b)
      BY <1>4, <1>5, <1>7
    <3>7. \A x \in Nat, y, z \in {0, 1} : x <= y + z /\ ~ (x <= y) => z = 1 /\ x = y + 1
      OBVIOUS
    <3>6. Len(b) = 1 /\ i = Len(a) + 1
      BY <2>4, <3>4, <3>5, <3>7, Zenon
    <3>1. i = Len(a) + 1 /\ Len(b) = 1 /\ 1 \in 1 .. Len(b)
      BY <3>6
    <3>2. e[i] = b[1]
      BY <1>7, <3>1
    <3>3. j = Len(due)
      BY <1>7, <1>8, <1>9, <2>1, <3>1
    <3> QED  BY <1>5, <2>2, <3>1, <3>2, <3>3
  <2> QED  BY <2>3, <2>4
<1>13. /\ Ended(current, current.must).number = current.number
       /\ Ended(current, current.must).section = current.section
       /\ Ended(current, current.must).must = current.must
       /\ Ended(begun, begun.must).number = n /\ Ended(begun, begun.must).section = s
       /\ Ended(begun, begun.must).must = begun.must /\ Ended(begun, begun.must).age = 0
  BY DEF Ended
<1>14. n # current.number /\ \A j \in 1 .. Len(pending) : pending[j].number # n
  <2>1. DOMAIN pending = 1 .. Len(pending)
    BY MustIsBoolean
  <2> QED  BY <2>1 DEF IsNew, NumbersInUse
<1>15. Made(due, new, n, s, begun.must)
  BY <1>9, <1>10, <1>11, <1>12, <1>13, <1>14, Zenon DEF Made
<1>16. ASSUME new
       PROVE  Len(due) > 0 /\ due[Len(due)].number = n /\ due[Len(due)].section = s /\ due[Len(due)].age = 0
  <2>6. Len(b) = 1 /\ b[1] = Ended(begun, begun.must)
    BY <1>5, <1>16, Zenon
  <2>1. Len(b) = 1 /\ 1 \in 1 .. Len(b) /\ b[1] = Ended(begun, begun.must)
    BY <2>6
  <2>2. Len(e) = Len(a) + 1 /\ e[Len(a) + 1] = b[1] /\ Len(e) \in 1 .. Len(e)
    BY <1>4, <1>7, <2>1
  <2>3. Len(due) = Len(pending) + Len(e) /\ due[Len(pending) + Len(e)] = e[Len(e)]
    BY <1>9, <2>2
  <2>4. due[Len(due)] = Ended(begun, begun.must)
    BY <2>1, <2>2, <2>3
  <2>5. Len(due) > 0
    BY <1>8, <1>11, <2>2, <2>3
  <2> QED  BY <1>13, <2>4, <2>5
<1>17. ASSUME NEW j \in 1 .. Len(due), due[j].number = n
       PROVE  new /\ j = Len(due)
  <2>1. j > Len(pending)
    <3>1. j \notin 1 .. Len(pending)
      BY <1>10, <1>14, <1>17
    <3> QED  BY <1>8, <1>11, <3>1
  <2> QED  BY <1>12, <1>13, <1>14, <1>17, <2>1
<1> QED  BY <1>15, <1>16, <1>17 DEF NewIsLast

(* The section that begins in the packet is held exactly, if it is held.   *)
LEMMA FreshIs ==
  ASSUME NEW k, Packet(k), k.pusi, k.number # 0, NEW s \in Sections, BeginsWith(k, s), Room(k) > Header,
         NEW m, FromPacket(m, k)
  PROVE  /\ Exact(m, s) /\ m.recv_payload = Least(Room(k), Length[s])
         /\ m.number = k.number /\ m.continuity_counter = k.counter
<1>1. /\ SectionLength(k) = IF Room(k) <= Header THEN Header - 1 ELSE Length[s]
      /\ Least(Room(k), SectionLength(k)) >= 1
  BY LengthOfBeginning
<1>2. Room(k) \in Nat /\ Header \in Nat
  BY BeginningFits, LengthIs
<1>3. SectionLength(k) = Length[s]
  BY <1>1, <1>2
<1>4. /\ m.number = k.number /\ m.n_payload = Length[s] /\ m.recv_payload = Least(Room(k), Length[s])
      /\ m.continuity_counter = k.counter
      /\ \A i \in 1 .. m.recv_payload : m.payload[i] = k.data[k.pointer_field + i]
  BY <1>3 DEF FromPacket
<1>5. \A i \in 1 .. m.recv_payload : m.payload[i] = <<s, i>>
  BY <1>4 DEF BeginsWith
<1> QED  BY <1>1, <1>3, <1>4, <1>5 DEF Exact

(* It is kept behind the one that was handed on, but not by parse_PMT.     *)
LEMMA KeptBehind ==
  ASSUME NEW q, Sane(q), NEW l, NEW k, Packet(k), k.pusi, NEW s \in Sections, BeginsWith(k, s),
         Grows(q, l, k), q.stat = "FINISHED", table # "PMT"
  PROVE  Left(Used(q)).stat = "PROC" /\ Left(Used(q)).number = k.number
<1>1. Kept(q, k) /\ q.continuity_counter = k.counter
  BY DEF Grows, Grown
<1>2. Used(q) = q
  BY DEF Used
<1>3. q.next_recv_payload = Least(Room(k), SectionLength(k)) /\ Least(Room(k), SectionLength(k)) >= 1
  BY <1>1, LengthOfBeginning DEF Kept
<1>4. q.next_recv_payload > 0
  <2>1. q.next_recv_payload \in Nat
    BY SaneParts
  <2> QED  BY <1>3, <2>1
<1>5. Left(q) = TakenUp(q)
  BY <1>4 DEF Left
<1> QED  BY <1>1, <1>2, <1>5, TakenUpIs DEF FromPacket

(* What the assembly holds after a packet in which a section begins.       *)
LEMMA AfterBeginning ==
  ASSUME NEW q, Sane(q), NEW l, NEW k, Packet(k), k.pusi,
         Begins(q, l, k) \/ Loses(q, l, k) \/ Grows(q, l, k), Left(Used(q)).stat = "PROC"
  PROVE  /\ FromPacket(Left(Used(q)), k)
         /\ q.stat = "FINISHED" => l.stat = "PROC" /\ q.number = l.number
         /\ k.number \in {Used(q).number, Used(q).next_number}
<1>1. "PROC" # "INIT" /\ "PROC" # "FINISHED"
  OBVIOUS
<1>2. CASE q.stat = "PROC"
  <2>1. Left(Used(q)) = q /\ Used(q) = q
    BY <1>2, AfterIs
  <2>2. FromPacket(q, k)
    BY <1>1, <1>2 DEF Begins, Loses, Grows
  <2> QED  BY <1>1, <1>2, <2>1, <2>2 DEF FromPacket
<1>3. CASE q.stat # "PROC"
  <2>1. /\ q.stat = "FINISHED" /\ table # "PMT" /\ Grows(q, l, k)
        /\ FromPacket(Left(Used(q)), k) /\ Left(Used(q)).number = q.next_number
    BY <1>3, AfterIs
  <2>2. Used(q) = q /\ q.number = l.number /\ l.stat = "PROC" /\ q.next_number = k.number
    BY <2>1 DEF Used, Grows, Grown, Kept
  <2> QED  BY <2>1, <2>2
<1> QED  BY <1>2, <1>3

(* A packet in which a section begins, when it arrives.                    *)
LEMMA BeginningArrives ==
  ASSUME OInv, GInv', table' = table, counter' = (counter + 1) % CounterMod,
         NEW s \in Sections, NEW n \in Nat, n # 0, IsNew(n),
         NEW k, Packet(k), k.pusi, k.number = n, k.counter = counter, BeginsWith(k, s),
         k.pointer_field = Len(Rest), \A i \in 1 .. Len(Rest) : k.data[i] = Rest[i],
         NEW due, Brings(k, due), Receive(k, due),
         NEW new, new <=> Length[s] <= Room(k), NEW must,
         Made(due, new, n, s, must), NewIsLast(due, new, n, s),
         must => clean /\ clean', clean' => Room(k) > Header,
         new => ~ current'.must /\ current'.number = 0,
         ~ new => /\ current'.number = n /\ current'.section = s /\ current'.sent = Room(k)
                  /\ (current'.must => must)
  PROVE  OInv'
<1> DEFINE P == Len(pending)
           m == Left(ps')
<1>1. GInv /\ Typed /\ Sent /\ Numbers(pending, current) /\ Sane(ps) /\ NoneKept(ps)
  BY StaysMeansSane DEF OInv, GInv, SInv
<1>2. PICK l : l = Left(ps)
  OBVIOUS
<1>3. PICK q : q = ParsePSI(ps, k)
  OBVIOUS
<1>4. ps' = Used(q)
  BY <1>3 DEF Receive
<1>5. Room(k) \in Nat /\ Length[s] \in Nat /\ Header \in Nat /\ Len(Rest) \in Nat /\ P \in Nat
  BY <1>1, BeginningFits, LengthIs, RestIs, MustIsBoolean
<1>6. PICK S : S \subseteq DOMAIN due /\ Took(q, due, S)
  BY <1>1, <1>3, ReceiveTakes
<1>7. due \in Seq(Due) /\ DOMAIN due = 1 .. Len(due) /\ Len(due) \in Nat
  BY LenProperties DEF Made
<1>8. /\ \A i, j \in 1 .. Len(due) : due[i].number = due[j].number => i = j
      /\ \A i \in 1 .. Len(due) : due[i].must => due[i].number # 0
  BY <1>1, MadeNumbers
<1>9. Sane(q) /\ (Idle(q, l, k) \/ Begins(q, l, k) \/ Loses(q, l, k) \/ Grows(q, l, k))
  BY <1>1, <1>2, <1>3, ParseIs, ParseSane
<1>10. Begins(q, l, k) \/ Loses(q, l, k) \/ Grows(q, l, k)
  BY <1>9 DEF Idle
<1>11. m.stat = "PROC" =>
         /\ FromPacket(m, k) /\ (q.stat = "FINISHED" => l.stat = "PROC" /\ q.number = l.number)
         /\ n \in {ps'.number, ps'.next_number}
  BY <1>4, <1>9, <1>10, AfterBeginning
<1>12. l.stat = "PROC" => l.number # n
  BY <1>1, <1>2, LeftTwice DEF IsNew, NumbersInUse
<1>13. ASSUME NEW i \in Musts(due)
       PROVE  \/ i \in Musts(pending) \/ (current.must /\ i = P + 1)
              \/ (new /\ i = Len(due) /\ due[i].number = n /\ must)
  <2>1. i \in 1 .. Len(due) /\ due[i].must
    BY <1>7 DEF Musts
  <2>2. \/ i \in 1 .. Len(pending) /\ pending[i].must
        \/ i = Len(pending) + 1 /\ current.must
        \/ new /\ i = Len(due) /\ due[i].number = n /\ must
    BY <1>1, <2>1, MustIs
  <2>3. DOMAIN pending = 1 .. Len(pending)
    BY <1>1, MustIsBoolean
  <2> QED  BY <2>2, <2>3 DEF Musts
<1>14. current'.must => must /\ ~ new
  OBVIOUS
<1>15. ASSUME clean', m.stat = "PROC" PROVE Exact(m, s) /\ m.recv_payload = Least(Room(k), Length[s])
                                           /\ m.number = n /\ m.continuity_counter = counter
  BY <1>11, <1>15, FreshIs
<1>16. Whole(pending', current', m, clean', counter')
  <2> SUFFICES ASSUME clean', m.stat = "PROC"
               PROVE  /\ (m.continuity_counter + 1) % CounterMod = counter'
                      /\ Exact(m, s) /\ (GoesOn(current', m, s) \/ IsLast(pending', current', m, s))
    BY DEF Whole
  <2>1. Exact(m, s) /\ m.recv_payload = Least(Room(k), Length[s]) /\ m.number = n /\ m.continuity_counter = counter
    BY <1>15
  <2>2. CASE ~ new
    <3>1. m.recv_payload = Room(k)
      BY <1>5, <2>1, <2>2 DEF Least
    <3>2. GoesOn(current', m, s)
      BY <2>1, <2>2, <3>1 DEF GoesOn
    <3> QED  BY <2>1, <3>2
  <2>3. CASE new
    <3>1. m.recv_payload = Length[s]
      BY <1>5, <2>1, <2>3 DEF Least
    <3>2. /\ Len(due) > 0 /\ due[Len(due)].number = n /\ due[Len(due)].section = s /\ due[Len(due)].age = 0
          /\ Len(due) \in 1 .. Len(due)
      <4>1. Len(due) > 0 /\ due[Len(due)].number = n /\ due[Len(due)].section = s /\ due[Len(due)].age = 0
        BY <2>3, Zenon DEF NewIsLast
      <4>2. Len(due) \in 1 .. Len(due)
        BY <1>7, <4>1
      <4> QED  BY <4>1, <4>2
    <3>3. Len(due) \in S
      <4>1. CASE q.stat = "FINISHED"
        <5>1. PICK j \in 1 .. Len(due) : due[j].number = q.number /\ S = Unsettled(due, j)
          BY <1>6, <4>1 DEF Took
        <5>2. q.number # n
          BY <1>11, <1>12, <4>1
        <5>3. Len(due) > j
          BY <1>7, <3>2, <5>1, <5>2
        <5> QED  BY <1>7, <3>2, <5>1, <5>3 DEF Unsettled
      <4>2. CASE q.stat # "FINISHED"
        BY <1>6, <1>7, <3>2, <4>2 DEF Took
      <4> QED  BY <4>1, <4>2
    <3>4. n \in {ps'.number, ps'.next_number} \ {0}
      BY <1>11
    <3>5. PICK o \in Seq(Due) : o = pending'
      BY <1>6 DEF Took
    <3>6. PICK p : p = ps'
      OBVIOUS
    <3>7. PICK c : Embeds(c, o, due, Len(due), Kept2(due, S, p))
      BY <1>6, <3>5, <3>6 DEF Took
    <3>8. due[Len(due)].number \in {p.number, p.next_number} \ {0}
      BY <3>2, <3>4, <3>6
    <3>9. Len(o) > 0 /\ o[Len(o)] = due[Len(due)]
      BY <1>7, <3>2, <3>3, <3>7, <3>8, LastKept
    <3>10. IsLast(pending', current', m, s)
      BY <2>1, <2>3, <3>1, <3>2, <3>5, <3>9 DEF IsLast
    <3> QED  BY <2>1, <3>10
  <2> QED  BY <2>2, <2>3
<1>17. ASSUME clean', m.stat = "PROC"
       PROVE  /\ \A i \in LateIn(due, m, clean') : ~ (new /\ i = Len(due) /\ due[i].number = n)
              /\ ~ LateNow(current', m, clean')
  <2>1. m.number = n
    BY <1>15, <1>17
  <2> QED  BY <1>14, <1>17, <2>1 DEF LateIn, LateNow, Holds
<1>20. ASSUME Few(LateIn(due, m, clean') \cap S, LateNow(current', m, clean'))
       PROVE  OInv'
  <2>1. pending' \in Seq(Due) /\ \E c : Embeds(c, pending', due, Len(due), Kept2(due, S, ps'))
    BY <1>6 DEF Took
  <2>2. current'.must => current'.number # 0
    BY <1>14
  <2>3. current'.number = 0 \/ \A i \in 1 .. Len(due) : due[i].number # current'.number
    BY DEF NewIsLast
  <2> QED  BY <1>6, <1>7, <1>8, <1>16, <1>20, <2>1, <2>2, <2>3, Closes
<1>18. CASE ~ (clean /\ l.stat = "PROC")
  <2>1. Few(Musts(pending), current.must)
    BY <1>2, <1>18, NoneHeld
  <2>2. ASSUME must
        PROVE  \/ clean' /\ m.stat = "PROC"
               \/ new /\ Len(due) \notin S
    <3>1. clean /\ clean' /\ l.stat # "PROC" /\ Room(k) > Header
      BY <1>18, <2>2
    <3>2. Begins(q, l, k)
      BY <1>10, <3>1 DEF Loses, Grows
    <3>3. SectionLength(k) = Length[s]
      <4>1. SectionLength(k) = IF Room(k) <= Header THEN Header - 1 ELSE Length[s]
        BY LengthOfBeginning
      <4> QED  BY <1>5, <3>1, <4>1
    <3>4. /\ q.stat = IF Room(k) <= Length[s] THEN "PROC" ELSE IF CrcFits(q) THEN "FINISHED" ELSE "INIT"
          /\ FromPacket(q, k)
      BY <3>2, <3>3 DEF Begins
    <3>5. CASE Room(k) <= Length[s]
      <4>1. m.stat = "PROC"
        BY <1>4, <1>9, <3>4, <3>5, AfterIs
      <4> QED  BY <3>1, <4>1
    <3>6. CASE ~ (Room(k) <= Length[s])
      <4>1. Exact(q, s) /\ q.recv_payload = Least(Room(k), Length[s]) /\ q.number = n
        BY <3>1, <3>4, FreshIs
      <4>2. q.recv_payload = Length[s] /\ new
        BY <1>5, <3>6, <4>1 DEF Least
      <4>3. IsSection(q, s)
        BY <4>1, <4>2 DEF Exact, IsSection
      <4>4. q.stat = "FINISHED"
        BY <3>4, <3>6, <4>3 DEF CrcFits
      <4>5. PICK j \in 1 .. Len(due) : due[j].number = q.number /\ S = Unsettled(due, j)
        BY <1>6, <4>4 DEF Took
      <4>6. j = Len(due)
        BY <4>1, <4>5 DEF NewIsLast
      <4>7. Len(due) \notin S
        BY <1>7, <4>5, <4>6 DEF Unsettled
      <4> QED  BY <4>2, <4>7
    <3> QED  BY <3>5, <3>6
  <2>3. PICK B : B = LateIn(due, m, clean') \cap S
    OBVIOUS
  <2>4. PICK y : y = LateNow(current', m, clean')
    OBVIOUS
  <2>5. ~ y
    <3> SUFFICES ASSUME LateNow(current', m, clean') PROVE FALSE
      BY <2>4
    <3>1. must /\ ~ new
      BY <1>14 DEF LateNow
    <3> QED  BY <1>17, <2>2, <3>1
  <2>6. PICK x : x = current.must
    OBVIOUS
  <2>7. PICK z : z = P + 1
    OBVIOUS
  <2>8. \A i \in B : i \in Musts(pending) \/ (x /\ i = z)
    <3> SUFFICES ASSUME NEW i \in B, ~ (i \in Musts(pending) \/ (x /\ i = z)) PROVE FALSE
      OBVIOUS
    <3>1. i \in Musts(due) /\ i \in S /\ i \in LateIn(due, m, clean')
      BY <2>3, LateIsMust
    <3>2. new /\ i = Len(due) /\ due[i].number = n /\ must
      BY <1>13, <2>6, <2>7, <3>1
    <3> QED  BY <1>17, <2>2, <3>1, <3>2
  <2>12. PICK A : A = Musts(pending)
    OBVIOUS
  <2>9. Few(A, x)
    BY <2>1, <2>6, <2>12
  <2>13. \A i \in B : i \in A \/ (x /\ i = z)
    BY <2>8, <2>12
  <2>14. x = TRUE \/ x = FALSE
    BY <1>1, <2>6, MustIsBoolean
  <2>10. Few(B, y)
    BY <2>5, <2>9, <2>13, <2>14 DEF Few
  <2>11. Few(LateIn(due, m, clean') \cap S, LateNow(current', m, clean'))
    BY <2>3, <2>4, <2>10
  <2> QED  BY <1>20, <2>11
<1>19. CASE clean /\ l.stat = "PROC"
  <2>1. PICK z \in Sections : Exact(l, z) /\ (GoesOn(current, l, z) \/ IsLast(pending, current, l, z))
    BY <1>2, <1>19 DEF OInv, Whole
  <2>2. Brought(k) = Len(Rest) /\ Brought(k) >= Len(Rest)
    BY <1>5 DEF Brought
  <2>3. Fits(k)
    <3>1. Least(Brought(k), Len(Rest)) = Len(Rest)
      BY <1>5, <2>2 DEF Least
    <3> QED  BY <3>1 DEF Fits
  <2>4. q.stat = "FINISHED" /\ q.number = l.number /\ Grows(q, l, k)
    BY <1>2, <1>3, <1>19, <2>1, <2>2, <2>3, HeldGrows
  <2>5. \A i \in Musts(due) : i \in S => new /\ i = Len(due)
    BY <1>2, <1>6, <2>1, <2>4, HandedSettles
  <2>6. ASSUME NEW i \in LateIn(due, m, clean') \cap S PROVE i \in Musts(due) /\ new /\ i = Len(due)
    BY <2>5, LateIsMust
  <2>7. LateNow(current', m, clean') => ~ new /\ must
    BY <1>14 DEF LateNow
  <2>8. CASE table = "PMT"
    <3>1. \A i, j \in LateIn(due, m, clean') \cap S : i = j
      BY <2>6
    <3>2. LateNow(current', m, clean') => LateIn(due, m, clean') \cap S = {}
      BY <2>6, <2>7
    <3> QED  BY <1>20, <2>8, <3>1, <3>2 DEF Few
  <2>9. CASE table # "PMT"
    <3>1. m.stat = "PROC"
      BY <1>4, <1>9, <2>4, <2>9, KeptBehind
    <3>2. ASSUME NEW i \in LateIn(due, m, clean') \cap S PROVE FALSE
      <4>1. i \in Musts(due) /\ new /\ i = Len(due) /\ due[i].number = n
        BY <2>6, <3>2 DEF NewIsLast
      <4>2. must
        <5>1. i \in 1 .. Len(due) /\ i > P
          <6>1. i \in 1 .. Len(due) /\ due[i].must
            BY <1>7, <4>1 DEF Musts
          <6>2. i \notin 1 .. P
            BY <4>1 DEF Made
          <6> QED  BY <1>5, <1>7, <6>1, <6>2
        <5>2. due[i].must = must
          BY <4>1, <5>1, Zenon DEF Made
        <5> QED  BY <4>1, <5>2 DEF Musts
      <4> QED  BY <1>17, <3>1, <3>2, <4>1, <4>2
    <3>3. ~ LateNow(current', m, clean')
      BY <1>17, <2>7, <3>1
    <3>4. LateIn(due, m, clean') \cap S = {}
      BY <3>2
    <3> QED  BY <1>20, <2>9, <3>3, <3>4 DEF Few
  <2> QED  BY <2>8, <2>9
<1> QED  BY <1>18, <1>19

-----------------------------------------------------------------------------
LEMMA SendContinuationOnTime ==
  ASSUME OInv, SendContinuation
  PROVE  OInv'
<1>1. GInv /\ Typed /\ Sent /\ Numbers(pending, current) /\ current # Nothing /\ Count /\ table' = table
  BY DEF OInv, GInv, SInv, SendContinuation, Count
<1>2. GInv'
  BY <1>1, ContinuationTraces
<1>3. CASE /\ Receive(Continuation, Aged \o Ending(current, Payload))
           /\ current' = Sending(current, Payload)
           /\ UNCHANGED <<faults, clean>>
  <2>1. clean' = clean
    BY <1>3
  <2> QED  BY <1>1, <1>2, <1>3, <2>1, ContinuationOnTime
<1>4. CASE /\ Miss(Ending(current, Payload))
           /\ current' = Sending([current EXCEPT !.must = FALSE], Payload)
  <2>1. Payload \in Nat /\ current \in Going /\ Len(Rest) \in Nat /\ Length[current.section] - current.sent = Len(Rest)
    BY <1>1, CurrentEnds, RestIs, PsiAssumption DEF PsiAssumption
  <2>2. PICK t \in Going : /\ t = [current EXCEPT !.must = FALSE]
                           /\ t.section = current.section /\ t.number = current.number
                           /\ t.sent = current.sent /\ t.must = FALSE
    <3>1. /\ [current EXCEPT !.must = FALSE] \in Going
          /\ [current EXCEPT !.must = FALSE].section = current.section
          /\ [current EXCEPT !.must = FALSE].number = current.number
          /\ [current EXCEPT !.must = FALSE].sent = current.sent
          /\ [current EXCEPT !.must = FALSE].must = FALSE
      BY <2>1 DEF Going
    <3> QED  BY <3>1, Zenon
  <2>3. PICK sent : sent = pending \o Ending(current, Payload)
    OBVIOUS
  <2>4. /\ Made(sent, FALSE, 1, Stuffing, FALSE)
        /\ ~ (Len(Rest) <= Payload) => Len(sent) = Len(pending)
    BY <1>1, <2>3, PendingLike, ContinuationMade
  <2>5. CASE Len(Rest) <= Payload
    <3>1. current' = Nothing
      BY <1>4, <2>1, <2>2, <2>5, SendingIs
    <3>2. ~ current'.must /\ current'.number = 0
      BY <3>1 DEF Nothing
    <3> QED  BY <1>1, <1>2, <1>4, <2>3, <2>4, <3>2, MissOnTime
  <2>6. CASE ~ (Len(Rest) <= Payload)
    <3>3. current' = Sending(t, Payload) /\ ~ (Length[t.section] - t.sent <= Payload)
      BY <1>4, <2>1, <2>2, <2>6
    <3>1. current'.number = current.number /\ current'.must = FALSE
      BY <2>1, <2>2, <3>3, SendingIs
    <3>2. \A i \in 1 .. Len(sent) : sent[i].number # current'.number
      <4> SUFFICES ASSUME NEW i \in 1 .. Len(sent) PROVE sent[i].number # current.number
        BY <3>1
      <4>1. i \in 1 .. Len(pending)
        BY <2>4, <2>6
      <4>2. sent[i].number = pending[i].number
        BY <2>4, <4>1 DEF Made
      <4> QED  BY <1>1, <4>1, <4>2 DEF Numbers
    <3> QED  BY <1>1, <1>2, <1>4, <2>3, <2>4, <3>1, <3>2, MissOnTime
  <2> QED  BY <2>5, <2>6
<1> QED  BY <1>3, <1>4 DEF SendContinuation

LEMMA SendBeginningOnTime ==
  ASSUME OInv, NEW s \in Sections, NEW n \in 1 .. MaxNumber, SendBeginning(s, n)
  PROVE  OInv'
<1> DEFINE room == Payload - 1 - Len(Rest)
           misplaced == room <= Header
           begun == [section |-> s, number |-> n, sent |-> 0,
                     must |-> clean /\ ~misplaced]
           ended == Ending(current, Payload) \o Ending(begun, room)
           second(t) == [begun EXCEPT !.section = t, !.number = 0, !.must = FALSE]
           new == Length[s] <= room
<1>1. GInv /\ Sent /\ Typed /\ Numbers(pending, current)
  BY DEF OInv, GInv, SInv
<1>2. GInv'
  BY <1>1, BeginningTraces
<1>3. n \in Nat /\ n # 0 /\ IsNew(n) /\ room > 0 /\ Count
  <2>1. n \in Nat /\ n # 0
    BY PsiAssumption DEF PsiAssumption
  <2> QED  BY <2>1, Zenon DEF SendBeginning
<1>4. /\ Len(Rest) \in Nat /\ Payload \in Nat /\ room \in Nat /\ Length[s] \in Nat /\ Len(Rest) + room < Payload
      /\ Header \in Nat
  BY <1>1, <1>3, RestIs, LengthIs, PsiAssumption DEF PsiAssumption
<1>5. clean \in BOOLEAN /\ misplaced \in BOOLEAN
  BY <1>1 DEF Typed
<1>6. /\ begun \in Going /\ begun.section = s /\ begun.number = n /\ begun.sent = 0
      /\ begun.must = (clean /\ ~ misplaced)
  BY <1>3, <1>5 DEF Going
<1>7. PICK b \in Going : b = begun
  BY <1>6
<1>8. PICK r \in Nat : r = room
  BY <1>4
<1>9. PICK nu \in BOOLEAN : nu <=> Length[s] <= r
  <2>1. (Length[s] <= r) \in BOOLEAN
    OBVIOUS
  <2> QED  BY <2>1
<1>10. /\ table' = table /\ counter' = (counter + 1) % CounterMod
  BY <1>3 DEF Count
<1>11. /\ b.section = s /\ b.number = n /\ b.sent = 0 /\ b.must = (clean /\ ~ misplaced)
       /\ Len(Rest) + r < Payload /\ (misplaced <=> r <= Header)
       /\ ended = Ending(current, Payload) \o Ending(b, r)
  BY <1>4, <1>6, <1>7, <1>8
<1> HIDE DEF begun, room, misplaced
<1>12. ASSUME NEW base, LikePending(base), NEW due, due = base \o ended
       PROVE  Made(due, nu, n, s, b.must) /\ NewIsLast(due, nu, n, s)
  <2>1. SentWith(due, base, b, r)
    BY <1>11, <1>12 DEF SentWith
  <2>2. /\ n \in Nat /\ n # 0 /\ IsNew(n) /\ Len(Rest) + r < Payload
        /\ b.section = s /\ b.number = n /\ b.sent = 0 /\ (nu <=> Length[s] <= r)
    BY <1>3, <1>9, <1>11
  <2> QED  BY <1>1, <1>12, <2>1, <2>2, BeginningMade
<1>13. ASSUME NEW z \in Seq(Bytes), Receive(Beginning(s, n, z), Aged \o ended), clean' = ~ misplaced,
              nu => ~ current'.must /\ current'.number = 0,
              ~ nu => current' = Sending(b, r)
       PROVE  OInv'
  <2>1. PICK k : k = Beginning(s, n, z)
    OBVIOUS
  <2>2. PICK due : due = Aged \o ended
    OBVIOUS
  <2>3. Made(due, nu, n, s, b.must) /\ NewIsLast(due, nu, n, s)
    BY <1>1, <1>12, <2>2, PendingLike
  <2>4. /\ k.pusi /\ k.number = n /\ k.counter = counter
        /\ k.pointer_field = Len(Rest) /\ Room(k) = r
        /\ \A i \in 1 .. Len(Rest) : k.data[i] = Rest[i]
        /\ BeginsWith(k, s)
    <3>1. Payload - 1 - Len(Rest) > 0 /\ r = Payload - 1 - Len(Rest)
      BY <1>3, <1>8 DEF room
    <3> QED  BY <1>1, <1>3, <2>1, <3>1, BeginningIs
  <2>5. Packet(k)
    BY <1>1, <1>3, <1>4, <2>1, BeginningIsPacket DEF room
  <2>6. Brings(k, due)
    <3>1. r = Payload - 1 - Len(Rest) /\ r > 0
      BY <1>3, <1>8 DEF room
    <3>2. Length[s] <= r \/ current' = Sending(b, r)
      BY <1>9, <1>13
    <3>3. due = Aged \o (Ending(current, Payload) \o Ending(b, r))
      BY <1>11, <2>2
    <3>4. Brings(Beginning(s, n, z), Aged \o (Ending(current, Payload) \o Ending(b, r)))
      BY <1>1, <1>3, <1>11, <3>1, <3>2, BeginningBrings
    <3> QED  BY <2>1, <3>3, <3>4
  <2>7. Receive(k, due)
    BY <1>13, <2>1, <2>2
  <2>8. ASSUME ~ nu
        PROVE  /\ current'.number = n /\ current'.section = s /\ current'.sent = Room(k)
               /\ (current'.must => b.must)
    <3>1. ~ (Length[b.section] - b.sent <= r)
      BY <1>4, <1>9, <1>11, <2>8
    <3>2. current' = Sending(b, r)
      BY <1>13, <2>8
    <3> QED  BY <1>4, <1>11, <2>4, <3>1, <3>2, SendingIs
  <2>11. /\ clean' <=> ~ misplaced
         /\ b.must <=> clean /\ ~ misplaced
    BY <1>11, <1>13
  <2>12. ~ misplaced => r > Header
    BY <1>4, <1>11
  <2>9. (b.must => clean /\ clean') /\ (clean' => Room(k) > Header)
    BY <2>4, <2>11, <2>12
  <2>10. nu <=> Length[s] <= Room(k)
    BY <1>9, <2>4
  <2> QED  BY <1>2, <1>3, <1>10, <1>13, <2>3, <2>4, <2>5, <2>6, <2>7, <2>8, <2>9, <2>10, BeginningArrives
<1>14. CASE /\ clean' = ~misplaced
            /\ Receive(Beginning(s, n, <<>>), Aged \o ended)
            /\ current' = Sending(begun, room)
  <2>1. <<>> \in Seq(Bytes)
    OBVIOUS
  <2>2. current' = Sending(b, r)
    BY <1>7, <1>8, <1>14
  <2>3. ASSUME nu PROVE ~ current'.must /\ current'.number = 0
    <3>1. Length[b.section] - b.sent <= r
      BY <1>4, <1>9, <1>11, <2>3
    <3>2. current' = Nothing
      BY <2>2, <3>1, SendingIs
    <3> QED  BY <3>2 DEF Nothing
  <2> QED  BY <1>13, <1>14, <2>1, <2>2, <2>3
<1>15. ASSUME clean' = ~misplaced, NEW t \in Sections, Length[s] < room,
              Receive(Beginning(s, n, BytesFrom(t, 0)), Aged \o ended),
              current' = Sending(second(t), room - Length[s])
       PROVE  OInv'
  <2>1. BytesFrom(t, 0) \in Seq(Bytes)
    BY BytesFromType, LengthIs
  <2>2. nu
    BY <1>4, <1>8, <1>9, <1>15
  <2>3. PICK u \in Going : u = second(t) /\ u.number = 0 /\ u.must = FALSE
    <3>1. /\ [b EXCEPT !.section = t, !.number = 0, !.must = FALSE] \in Going
          /\ [b EXCEPT !.section = t, !.number = 0, !.must = FALSE].number = 0
          /\ [b EXCEPT !.section = t, !.number = 0, !.must = FALSE].must = FALSE
      BY DEF Going
    <3> QED  BY <1>7, <3>1, Zenon
  <2>4. room - Length[s] \in Nat
    BY <1>4, <1>15
  <2>5. PICK v \in Nat : v = room - Length[s]
    BY <2>4
  <2>6. current' = Sending(u, v)
    BY <1>15, <2>3, <2>5
  <2>7. ~ current'.must /\ current'.number = 0
    <3>1. CASE Length[u.section] - u.sent <= v
      <4>1. current' = Nothing
        BY <2>6, <3>1, SendingIs
      <4> QED  BY <4>1 DEF Nothing
    <3>2. CASE ~ (Length[u.section] - u.sent <= v)
      BY <2>3, <2>6, <3>2, SendingIs
    <3> QED  BY <3>1, <3>2
  <2> QED  BY <1>13, <1>15, <2>1, <2>2, <2>7
<1>16. CASE /\ Miss(ended)
            /\ current' = Sending([begun EXCEPT !.must = FALSE], room)
  <2>1. PICK u \in Going : /\ u = [begun EXCEPT !.must = FALSE]
                           /\ u.section = s /\ u.number = n /\ u.sent = 0 /\ u.must = FALSE
    <3>1. /\ [b EXCEPT !.must = FALSE] \in Going
          /\ [b EXCEPT !.must = FALSE].section = b.section
          /\ [b EXCEPT !.must = FALSE].number = b.number
          /\ [b EXCEPT !.must = FALSE].sent = b.sent
          /\ [b EXCEPT !.must = FALSE].must = FALSE
      BY DEF Going
    <3> QED  BY <1>7, <1>11, <3>1, Zenon
  <2>2. current' = Sending(u, r)
    BY <1>8, <1>16, <2>1
  <2>3. PICK sent : sent = pending \o ended
    OBVIOUS
  <2>4. Made(sent, nu, n, s, b.must) /\ NewIsLast(sent, nu, n, s)
    BY <1>1, <1>12, <2>3, PendingLike
  <2>5. CASE nu
    <3>1. Length[u.section] - u.sent <= r
      BY <1>4, <1>9, <2>1, <2>5
    <3>2. current' = Nothing
      BY <2>2, <3>1, SendingIs
    <3>3. ~ current'.must /\ current'.number = 0
      BY <3>2 DEF Nothing
    <3> QED  BY <1>2, <1>10, <1>16, <2>3, <2>4, <3>3, MissOnTime
  <2>6. CASE ~ nu
    <3>1. ~ (Length[u.section] - u.sent <= r)
      BY <1>4, <1>9, <2>1, <2>6
    <3>2. current'.must = FALSE /\ current'.number = n
      BY <2>1, <2>2, <3>1, SendingIs
    <3>3. \A i \in 1 .. Len(sent) : sent[i].number # current'.number
      BY <2>4, <2>6, <3>2 DEF NewIsLast
    <3> QED  BY <1>2, <1>10, <1>16, <2>3, <2>4, <3>2, <3>3, MissOnTime
  <2> QED  BY <2>5, <2>6
<1>17. \/ /\ clean' = ~misplaced
          /\ \/ /\ Receive(Beginning(s, n, <<>>), Aged \o ended)
                /\ current' = Sending(begun, room)
             \/ \E t \in Sections :
                  /\ Length[s] < room
                  /\ Receive(Beginning(s, n, BytesFrom(t, 0)), Aged \o ended)
                  /\ current' = Sending(second(t), room - Length[s])
       \/ /\ Miss(ended)
          /\ current' = Sending([begun EXCEPT !.must = FALSE], room)
  BY DEF SendBeginning, begun, room, misplaced
<1> QED  BY <1>14, <1>15, <1>16, <1>17

(* What must be handed on is, with its last packet or the one after it;    *)
(* of the PMT, whose parser starts anew after each section, at most one is *)
(* passed over (parse_PSI, arib_parser.c:538-643, parse_PMT).              *)
THEOREM HandedInTime == Spec => []OnTime
<1>1. Init => OInv
  <2> SUFFICES ASSUME Init PROVE OInv
    OBVIOUS
  <2>1. ps.stat = "INIT" /\ Left(ps) = ps /\ pending = <<>> /\ current = Nothing
    BY DEF Init, Left
  <2>2. SInv
    BY InitKeeps
  <2>3. GInv
    BY <2>1, <2>2, EmptySeq DEF Init, Typed, Genuine, GInv, Traced
  <2>4. Len(pending) = 0 /\ 1 .. Len(pending) = {} /\ DOMAIN pending = {}
    BY <2>1
  <2>5. current.must = FALSE
    BY <2>1 DEF Nothing
  <2>6. Numbers(pending, current)
    BY <2>4, <2>5, Zenon DEF Numbers
  <2>7. FewLate(pending, current, Left(ps), clean)
    BY <2>4, <2>5 DEF FewLate, Few, LateIn, LateNow
  <2>8. Whole(pending, current, Left(ps), clean, counter)
    BY <2>1 DEF Whole
  <2> QED  BY <2>3, <2>6, <2>7, <2>8 DEF OInv
<1>2. OInv /\ [Next]_vars => OInv'
  <2> SUFFICES ASSUME OInv, [Next]_vars
               PROVE  OInv'
    OBVIOUS
  <2>1. CASE SendContinuation
    BY <2>1, SendContinuationOnTime
  <2>2. ASSUME NEW s \in Sections, NEW n \in 1 .. MaxNumber, SendBeginning(s, n)
        PROVE  OInv'
    BY <2>2, SendBeginningOnTime
  <2>3. CASE SendBare
    BY <2>3, BareOnTime
  <2>4. CASE OtherPid
    BY <2>4, OtherPidOnTime
  <2>5. CASE UNCHANGED vars
    <3>1. GInv'
      BY <2>5 DEF vars, OInv, GInv, SInv, StaysInSection, Sent, Transmission, Typed, Genuine, Traced, Left, TakenUp
    <3>2. /\ ps' = ps /\ pending' = pending /\ current' = current /\ clean' = clean
          /\ counter' = counter /\ table' = table
      BY <2>5 DEF vars
    <3> QED  BY <3>1, <3>2 DEF OInv, FewLate, Few
  <2> QED  BY <2>1, <2>2, <2>3, <2>4, <2>5 DEF Next
<1>3. OInv => OnTime
  BY FewMeansOnTime
<1> QED  BY <1>1, <1>2, <1>3, PTL DEF Spec
=============================================================================
