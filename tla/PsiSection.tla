----------------------------- MODULE PsiSection -----------------------------
(***************************************************************************)
(* The assembly of PSI and SI sections from the packets of one PID, as     *)
(* parse_PSI of utils/arib_parser.c does it and parse_PMT, parse_PAT,      *)
(* parse_TOT_TDT, parse_SDT and parse_EIT use it.                          *)
(*                                                                         *)
(* The broadcaster cuts sections into packets as ISO 13818-1 allows: a     *)
(* packet in which a section begins (payload_unit_start_indicator, PUSI)   *)
(* says by its pointer field where, the rest of the section before it      *)
(* comes first, and more than one section may begin in it.  Packets may be *)
(* lost on the way; a loss shows in the continuity counter, unless it is   *)
(* of as many packets as the counter has values.                           *)
(*                                                                         *)
(* A byte is <<section, position>>, so that the CRC of a section fits just *)
(* when all its bytes are there; the header is what tells the length.      *)
(***************************************************************************)
EXTENDS Integers, Sequences, FiniteSets, FiniteSetsExt

CONSTANTS
  Sections,    \* the sections that are sent, again and again
  Length,      \* their lengths, header and CRC included
  Stuffing,    \* what fills a packet up
  Payload,     \* bytes of payload in a packet
  Header,      \* bytes up to and with the length field (3)
  MaxSection,  \* sizeof(payload) of PSI_parse_t
  CounterMod,  \* the values of the continuity counter (16)
  Tables,      \* the tables to parse: "PMT", and any other
  MaxFaults,   \* bound: packets lost, misplaced or without payload
  MaxNumber    \* bound: transmissions told apart at a time

PsiAssumption ==
  /\ Stuffing \notin Sections
  /\ Length \in [Sections -> Nat]
  /\ \A s \in Sections : Header < Length[s] /\ Length[s] <= MaxSection
  /\ Header \in Nat \ {0, 1}
  /\ Payload \in Nat \ {0, 1}
  /\ CounterMod \in Nat \ {0, 1}
  /\ MaxSection \in Nat
  /\ MaxFaults \in Nat
  /\ MaxNumber \in Nat

ASSUME PsiAssumption

VARIABLES
  table,     \* which table's parser this is
  ps,        \* its PSI_parse_t
  current,   \* the section that is being sent and how much of it was
  counter,   \* the continuity counter of the next packet
  faults,    \* how much went wrong (bounded by MaxFaults)
  clean,     \* history: a beginning was received since something went wrong
  pending,   \* history: the sections that were sent and not handed on yet
  genuine    \* history: all that was handed on had been sent and was due

vars == <<table, ps, current, counter, faults, clean, pending, genuine>>

-----------------------------------------------------------------------------
(* The broadcaster's packets. *)

Bytes == (Sections \cup {Stuffing}) \X Nat

Filler == <<Stuffing, 0>>

Nothing == [section |-> Stuffing, number |-> 0, sent |-> 0, must |-> FALSE]

(* The bytes of a section from the given one on. *)
BytesFrom(s, n) == [i \in 1 .. Length[s] - n |-> <<s, n + i>>]

Rest == IF current = Nothing THEN <<>>
        ELSE BytesFrom(current.section, current.sent)

(* A payload of n bytes that begins with these, cut or filled up. *)
Filled(bytes, n) == [i \in 1 .. n |-> IF i <= Len(bytes) THEN bytes[i] ELSE Filler]

(* Every transmission of a section has a number, of which the program knows
   nothing: the least that nobody refers to any more. *)
NumbersInUse == {pending[i].number : i \in DOMAIN pending}
                  \cup {current.number, ps.number, ps.next_number}

IsNew(n) == n \notin NumbersInUse /\ 1 .. n - 1 \subseteq NumbersInUse

(* A packet: data is its payload without the pointer field, and the section
   announced by the pointer begins after the first pointer_field bytes. *)
Continuation == [pusi |-> FALSE, pointer_field |-> 0, counter |-> counter,
                 data |-> Filled(Rest, Payload), number |-> 0]

Beginning(s, n, second) ==
  [pusi |-> TRUE, pointer_field |-> Len(Rest), counter |-> counter,
   data |-> Filled(Rest \o BytesFrom(s, 0) \o second, Payload - 1),
   number |-> n]

(* A packet with an adaptation field only: it does not count, and what is taken
   for its payload is the whole packet, from the header on. *)
Bare == [pusi |-> FALSE, pointer_field |-> 0, counter |-> (counter - 1) % CounterMod,
         data |-> Filled(<<>>, Payload + 1), number |-> 0]

-----------------------------------------------------------------------------
(* The parser. *)

(* memcpy of the n bytes of data after the first from, to the place at. *)
Copied(buffer, at, data, from, n) ==
  [i \in DOMAIN buffer |-> IF i \in at + 1 .. at + n THEN data[from + i - at]
                           ELSE buffer[i]]

Least(a, b) == IF a < b THEN a ELSE b

(* The length field; it is not looked at in the last bytes of a packet, and
   the length is -1 then. *)
SectionLength(p) ==
  IF Len(p.data) - p.pointer_field <= Header THEN Header - 1
  ELSE LET s == p.data[p.pointer_field + 1][1]
       IN  IF s \in Sections THEN Length[s] ELSE MaxSection

(* The section that began behind the finished one. *)
TakenUp(p) ==
  [p EXCEPT !.stat = "PROC",
            !.payload = Copied(@, 0, p.next_payload, 0, p.next_recv_payload),
            !.n_payload = p.n_next_payload,
            !.recv_payload = p.next_recv_payload,
            !.number = p.next_number,
            !.n_next_payload = 0,
            !.next_recv_payload = 0,
            !.next_number = 0]

(* Mutant of Left: the kept beginning is forgotten. *)
LeftBehind(p) == IF p.stat = "FINISHED" THEN [p EXCEPT !.stat = "INIT"] ELSE p

(* Mutant of Left: a section with nothing kept behind it stays finished. *)
LeftFinished(p) ==
  IF p.stat = "FINISHED" /\ p.next_recv_payload > 0 THEN TakenUp(p) ELSE p

(* What parse_PSI does first, whatever packet it is called for: a section that
   was finished is left, and the one that began behind it is taken up. *)
Left(p) ==
  IF p.stat # "FINISHED" THEN p
  ELSE IF p.next_recv_payload > 0 THEN TakenUp(p) ELSE [p EXCEPT !.stat = "INIT"]

Started(p, packet) ==
  LET n == SectionLength(packet)
      room == Len(packet.data) - packet.pointer_field
      remain == Least(room, n)
  IN  [p EXCEPT !.stat = IF room > n THEN "FINISHED" ELSE "PROC",
                !.n_payload = n,
                !.recv_payload = remain,
                !.n_next_payload = 0,
                !.next_recv_payload = 0,
                !.continuity_counter = packet.counter,
                !.number = packet.number,
                !.next_number = 0,
                !.payload = Copied(@, 0, packet.data, packet.pointer_field, remain)]

(* The section that begins in this packet is kept for later. *)
NextKept(p, packet) ==
  LET n == SectionLength(packet)
      remain == Least(Len(packet.data) - packet.pointer_field, n)
  IN  [p EXCEPT !.n_next_payload = n,
                !.next_recv_payload = remain,
                !.next_number = packet.number,
                !.next_payload = Copied(@, 0, packet.data, packet.pointer_field, remain)]

(* Mutant of Extended: all the packet has is taken. *)
ExtendedWithAll(p, packet) ==
  LET remain == IF packet.pusi THEN packet.pointer_field ELSE Len(packet.data)
  IN  [p EXCEPT !.stat = IF packet.pusi \/ remain >= p.n_payload - p.recv_payload
                         THEN "FINISHED" ELSE "PROC",
                !.recv_payload = @ + remain,
                !.continuity_counter = packet.counter,
                !.payload = Copied(@, p.recv_payload, packet.data, 0, remain)]

(* The section in assembly gets what the packet has of it; a beginning ends
   it, complete or not. *)
Extended(p, packet) ==
  LET remain == IF packet.pusi THEN packet.pointer_field ELSE Len(packet.data)
      missing == p.n_payload - p.recv_payload
      taken == Least(remain, missing)
  IN  [p EXCEPT !.stat = IF packet.pusi \/ remain >= missing THEN "FINISHED" ELSE "PROC",
                !.recv_payload = @ + taken,
                !.continuity_counter = packet.counter,
                !.payload = Copied(@, p.recv_payload, packet.data, 0, taken)]

Continuous(p, packet) == (p.continuity_counter + 1) % CounterMod = packet.counter

Gapped(p) == [p EXCEPT !.stat = "INIT", !.n_payload = 0, !.recv_payload = 0]

Continued(p, packet) ==
  IF ~Continuous(p, packet) THEN Gapped(p)
  ELSE Extended(IF packet.pusi THEN NextKept(p, packet) ELSE p, packet)

Assembled(p, packet) ==
  IF p.stat = "PROC" THEN Continued(p, packet)
  ELSE IF packet.pusi THEN Started(p, packet) ELSE p

(* The CRC is compared over n_payload bytes, however many were received. *)
IsSection(p, s) ==
  /\ p.n_payload = Length[s]
  /\ \A i \in 1 .. Length[s] : p.payload[i] = <<s, i>>

CrcFits(p) == \E s \in Sections : IsSection(p, s)

Checked(p) ==
  IF p.stat = "FINISHED" /\ ~CrcFits(p) THEN [p EXCEPT !.stat = "INIT"] ELSE p

ParsePSI(p, packet) == Checked(Assembled(Left(p), packet))

(* parse_PMT starts anew after it has used a section; the others leave that
   to the next call of parse_PSI. *)
Used(p) ==
  IF table = "PMT" /\ p.stat = "FINISHED" THEN [p EXCEPT !.stat = "INIT"] ELSE p

-----------------------------------------------------------------------------
(* What has to be handed on.  A section must be, if its beginning is the first
   of a packet, with its length field, and if another beginning was received
   since the last fault. *)

Ended(t, must) == [number |-> t.number, section |-> t.section, must |-> must, age |-> 0]

Aged == [i \in DOMAIN pending |-> [pending[i] EXCEPT !.age = 1]]

Forgiven(due) == [i \in DOMAIN due |-> [due[i] EXCEPT !.must = FALSE]]

(* The elements at some places of a sequence. *)
Only(due, places) ==
  LET only[n \in 0 .. Len(due)] ==
        IF n = 0 THEN <<>>
        ELSE IF n \in places THEN Append(only[n - 1], due[n]) ELSE only[n - 1]
  IN  only[Len(due)]

(* A section the parser does not hold is remembered only if it must be handed
   on. *)
Remembered(due, p) ==
  Only(due, {i \in DOMAIN due : due[i].must \/ due[i].number \in {p.number, p.next_number} \ {0}})

(* The places of what is handed on in what was sent; only one, if all is well. *)
Places(due, p) ==
  {i \in DOMAIN due : due[i].number = p.number /\ IsSection(p, due[i].section)}

(* Handing on a section settles it and, but for those that must be handed on,
   what was sent before it. *)
Settled(due, place) ==
  Only(due, {i \in DOMAIN due : i > place \/ (i < place /\ due[i].must /\ table # "PMT")})

(* The packet arrives, when these were sent and not handed on. *)
Receive(packet, due) ==
  LET parsed == ParsePSI(ps, packet)
      places == Places(due, parsed)
      handed == parsed.stat = "FINISHED"
  IN  /\ ps' = Used(parsed)
      /\ pending' = Remembered(IF handed /\ places # {} THEN Settled(due, Min(places)) ELSE due,
                               ps')
      /\ genuine' = (genuine /\ (handed => places # {}))

(* The packet does not arrive. *)
Miss(ended) ==
  /\ faults < MaxFaults
  /\ faults' = faults + 1
  /\ clean' = FALSE
  /\ pending' = Remembered(Forgiven(pending \o ended), ps)
  /\ UNCHANGED <<ps, genuine>>

-----------------------------------------------------------------------------
Init ==
  /\ table \in Tables
  /\ ps = [stat |-> "INIT",
           payload |-> [i \in 1 .. MaxSection |-> Filler],
           next_payload |-> [i \in 1 .. Payload |-> Filler],
           n_payload |-> 0, recv_payload |-> 0,
           n_next_payload |-> 0, next_recv_payload |-> 0,
           continuity_counter |-> 0, number |-> 0, next_number |-> 0]
  /\ current = Nothing
  /\ counter = 0
  /\ faults = 0
  /\ clean = TRUE
  /\ pending = <<>>
  /\ genuine = TRUE

Count == counter' = (counter + 1) % CounterMod /\ UNCHANGED table

(* The section in transmission after n more bytes of it, and whether it is
   complete with them. *)
Sending(t, n) == IF Length[t.section] - t.sent <= n THEN Nothing ELSE [t EXCEPT !.sent = @ + n]

Ending(t, n) == IF t # Nothing /\ Length[t.section] - t.sent <= n THEN <<Ended(t, t.must)>> ELSE <<>>

(* A packet in which no section begins. *)
SendContinuation ==
  LET ended == Ending(current, Payload)
  IN  /\ current # Nothing
      /\ \/ /\ Receive(Continuation, Aged \o ended)
            /\ current' = Sending(current, Payload)
            /\ UNCHANGED <<faults, clean>>
         \/ /\ Miss(ended)
            /\ current' = Sending([current EXCEPT !.must = FALSE], Payload)
      /\ Count

(* A packet in which a section begins. *)
SendBeginning(s, n) ==
  LET room == Payload - 1 - Len(Rest)
      misplaced == room <= Header
      begun == [section |-> s, number |-> n, sent |-> 0,
                must |-> clean /\ ~misplaced]
      ended == Ending(current, Payload) \o Ending(begun, room)
  IN  /\ IsNew(n)
      /\ room > 0
      /\ \/ /\ misplaced => faults < MaxFaults
            /\ faults' = IF misplaced THEN faults + 1 ELSE faults
            /\ clean' = ~misplaced
            /\ \/ /\ Receive(Beginning(s, n, <<>>), Aged \o ended)
                  /\ current' = Sending(begun, room)
               \/ \E t \in Sections :    \* another one begins behind it
                    LET second == [begun EXCEPT !.section = t, !.number = 0, !.must = FALSE]
                    IN  /\ Length[s] < room
                        /\ Receive(Beginning(s, n, BytesFrom(t, 0)), Aged \o ended)
                        /\ current' = Sending(second, room - Length[s])
         \/ /\ Miss(ended)
            /\ current' = Sending([begun EXCEPT !.must = FALSE], room)
      /\ Count

(* A packet without payload. *)
SendBare ==
  /\ faults < MaxFaults
  /\ faults' = faults + 1
  /\ clean' = FALSE
  /\ Receive(Bare, Forgiven(Aged))
  /\ current' = [current EXCEPT !.must = FALSE]
  /\ UNCHANGED <<table, counter>>

(* parse_PSI is called for the packets of the other PIDs too. *)
OtherPid ==
  /\ ps.stat = "FINISHED"
  /\ ps' = Left(ps)
  /\ pending' = Remembered(pending, ps')
  /\ UNCHANGED <<table, current, counter, faults, clean, genuine>>

Next ==
  \/ SendContinuation
  \/ \E s \in Sections, n \in 1 .. MaxNumber : SendBeginning(s, n)
  \/ SendBare
  \/ OtherPid

Spec == Init /\ [][Next]_vars

-----------------------------------------------------------------------------
(* The state of an assembly: nothing is written past the section, its length
   fits the buffers, and a beginning is kept only behind a finished section or
   an abandoned one. *)
StateType ==
  [stat : {"INIT", "PROC", "FINISHED"},
   payload : [1 .. MaxSection -> Bytes],
   next_payload : [1 .. Payload -> Bytes],
   n_payload : 0 .. MaxSection, recv_payload : 0 .. MaxSection,
   n_next_payload : 0 .. MaxSection, next_recv_payload : 0 .. Payload,
   continuity_counter : 0 .. CounterMod - 1,
   number : Nat, next_number : Nat]

(* Every length parse_PSI copies by stays inside the section and its buffer,
   over gaps, beginnings without a length and sections cut short. *)
StaysInSection ==
  /\ ps \in StateType
  /\ ps.recv_payload <= ps.n_payload
  /\ ps.next_recv_payload <= ps.n_next_payload
  /\ ps.stat = "PROC" => ps.next_recv_payload = 0

(* Whatever was lost, also so much that the counter does not show it, what is
   handed on is a section that was sent in whole, it is handed on once, and
   never after one that was sent later. *)
Genuine == genuine

(* A section that must be handed on is, with its last packet or the one after
   it; of the PMT, which starts anew after each, at most one is passed over. *)
OnTime ==
  Cardinality({i \in DOMAIN pending : pending[i].must /\ pending[i].age > 0})
    <= IF table = "PMT" THEN 1 ELSE 0
=============================================================================
