---------------------------- MODULE ServiceSelect ----------------------------
(***************************************************************************)
(* Which packets reach which recording: the list of services from the PAT  *)
(* and their PIDs from the PMTs, the outputs for the services asked for    *)
(* (create_tos_per_service), and the filter and the rewritten PAT of       *)
(* copy_current_service_packet, as the loop of core/tsdump.c drives them:  *)
(* it parses the whole of what it received before it copies any of it.     *)
(*                                                                         *)
(* The broadcaster is the environment.  It may change the order and number *)
(* of its services and the streams of a service at any time, and services  *)
(* may share streams.  Any table may be missing from what is received.     *)
(***************************************************************************)
EXTENDS Integers, Sequences, FiniteSets

CONSTANTS
  Services,    \* program numbers
  Streams,     \* PIDs of elementary streams
  Pats,        \* the orders of services a PAT may have
  Requests,    \* what --sv may ask for: a sequence of services, or one of
  AllServices, \*   these: --sv all,
  Single,      \*   no --sv, everything is recorded as one
  NotYet,      \* no outputs yet
  Nit,         \* the NIT's entry in a PAT, program number 0
  Leftovers,   \* what the memory of the list may hold: the PIDs at each place
  MaxServices, \* MAX_SERVICES_PER_CH
  CounterMod,  \* the values of the continuity counter (16)
  MaxChunk,    \* bound: the packets received at a time
  MaxChanges   \* bound: how often the broadcaster changes something

ServiceSelectAssumption ==
  /\ MaxServices \in Nat \ {0}
  /\ CounterMod \in Nat \ {0, 1}
  /\ Nit \notin Services
  /\ Services \cap Streams = {}
  /\ Leftovers \subseteq [1 .. MaxServices -> SUBSET (Streams \cup Services)]
  /\ Pats \subseteq Seq(Services) \ {<<>>}
  /\ \A pat \in Pats : \A i, j \in DOMAIN pat : pat[i] = pat[j] => i = j
  /\ Requests \subseteq Seq(Services) \cup {AllServices, Single}

ASSUME ServiceSelectAssumption

VARIABLES
  air,     \* what is broadcast: the PAT and the streams of each service
  changes,
  users,   \* history: the services that have had a stream
  request,
  list,    \* service_list: proginfos and PMT_payloads of the n_services
  pat_finished, \* pid0x00.stat == PAYLOAD_STAT_FINISHED
  tos,     \* NotYet, or the outputs
  chunk,   \* what is being received
  written  \* what the last turn wrote for each output

vars == <<air, changes, users, request, list, pat_finished, tos, chunk, written>>

Elements(s) == {s[i] : i \in DOMAIN s}

-----------------------------------------------------------------------------
(* Packets.  A PAT begins with the entry of the NIT.  The PID of the PMT of a service
   stands under the service's name. *)
PatPacket == [kind |-> "PAT", entries |-> <<Nit>> \o air.pat, of |-> {}]

PmtPacket(s) == [kind |-> "PMT", service |-> s, streams |-> air.streams[s], of |-> {s}]

StreamPacket(p) ==
  [kind |-> "stream", pid |-> p, of |-> {s \in Services : p \in air.streams[s]}]

Received ==
  {PatPacket} \cup {PmtPacket(s) : s \in Services} \cup {StreamPacket(p) : p \in Streams}

-----------------------------------------------------------------------------
(* What is parsed.  The services of the first PAT are kept in its order, as many
   as there is room for; it is not looked at again.  last_pmt is history: what the
   last PMT of the service said, if there was one. *)

(* Neither init_service_list nor store_PAT sets n_service_pids and service_pids: up
   to the first PMT of the service they are what the memory held. *)
Entry(service, leftover) ==
  [service_id |-> service, service_pids |-> leftover, last_pmt |-> <<>>]

Listed(entries, leftover) ==
  LET listed[i \in 0 .. Len(entries)] ==
        IF i = 0 THEN <<>>
        ELSE IF Len(listed[i - 1]) < MaxServices /\ entries[i] # Nit
             THEN Append(listed[i - 1], Entry(entries[i], leftover[Len(listed[i - 1]) + 1]))
             ELSE listed[i - 1]
  IN  listed[Len(entries)]

WithPmt(entry, packet) ==
  IF packet.service = entry.service_id
  THEN [entry EXCEPT !.service_pids = packet.streams, !.last_pmt = <<packet.streams>>]
  ELSE entry

Parsed(known, packet, leftover) ==
  CASE known.list = <<>> /\ packet.kind = "PAT" ->
         [list |-> Listed(packet.entries, leftover), pat_finished |-> TRUE]
    [] known.list # <<>> /\ packet.kind = "PMT" ->
         [known EXCEPT !.list = [i \in DOMAIN @ |-> WithPmt(@[i], packet)]]
    [] OTHER -> known

ParsedAll(packets, leftover) ==
  LET parse[i \in 0 .. Len(packets)] ==
        IF i = 0 THEN [list |-> list, pat_finished |-> pat_finished]
        ELSE Parsed(parse[i - 1], packets[i], leftover)
  IN  parse[Len(packets)]

-----------------------------------------------------------------------------
(* The outputs.  PAT_packet_counter is not initialised: it has any value. *)
Tos(index, counter) == [tps_index |-> index, PAT_packet_counter |-> counter]

IndexOf(service, services) == CHOOSE i \in DOMAIN services : services[i].service_id = service

Offers(services, service) == \E i \in DOMAIN services : services[i].service_id = service

(* Mutant of Chosen: what was asked for and is not there gets the first. *)
ChosenOrFirst(services) ==
  IF request = AllServices THEN [i \in DOMAIN services |-> i]
  ELSE [i \in DOMAIN request |->
          IF Offers(services, request[i]) THEN IndexOf(request[i], services) ELSE 1]

(* The places in the list of the services to record. *)
Chosen(services) ==
  IF request = AllServices THEN [i \in DOMAIN services |-> i]
  ELSE LET chosen[i \in 0 .. Len(request)] ==
             IF i = 0 THEN <<>>
             ELSE IF Offers(services, request[i])
                  THEN Append(chosen[i - 1], IndexOf(request[i], services))
                  ELSE chosen[i - 1]
       IN  chosen[Len(request)]

(* The outputs there are when the packets are copied. *)
Outputs(known) ==
  CASE tos # NotYet -> {tos}
    [] tos = NotYet /\ request = Single -> {<<Tos(1, 0)>>}
    [] tos = NotYet /\ request # Single /\ known.pat_finished ->
         LET chosen == Chosen(known.list)
         IN  {[i \in DOMAIN chosen |-> Tos(chosen[i], first[i])] :
                first \in [DOMAIN chosen -> 0 .. CounterMod - 1]}
    [] OTHER -> {NotYet}

-----------------------------------------------------------------------------
(* What is copied. *)

Has(entry, packet) ==
  \/ packet.kind = "PMT" /\ packet.service \in {entry.service_id} \cup entry.service_pids
  \/ packet.kind = "stream" /\ packet.pid \in entry.service_pids

Mine(output, services, packet) == Has(services[output.tps_index], packet)

Found(output, services, packet) ==
  \E i \in DOMAIN services \ {output.tps_index} : Has(services[i], packet)

(* Mutant of IsTheirs: what another service has is not this one's. *)
IsFound(output, services, packet) == Found(output, services, packet)

(* ts_is_mypid() == 2 *)
IsTheirs(output, services, packet) ==
  Found(output, services, packet) /\ ~Mine(output, services, packet)

(* Mutant of Simplified: the last entry of the PAT is not looked at. *)
SimplifiedButLast(entries, service) ==
  LET there == {i \in 2 .. Len(entries) - 1 : entries[i] = service}
  IN  <<entries[1], IF there = {} THEN entries[2] ELSE service>>

(* The first entry is kept, and after it the service's, or what comes second
   when the service is not there. *)
Simplified(entries, service) ==
  LET there == {i \in 2 .. Len(entries) : entries[i] = service}
  IN  <<entries[1], IF there = {} THEN entries[2] ELSE service>>

(* What is copied of a packet, and the output afterwards. *)
Copied(copy, services, packet) ==
  LET output == copy.output
  IN  CASE packet.kind = "PAT" /\ Len(packet.entries) > 1 ->
             [output |-> [output EXCEPT !.PAT_packet_counter = (@ + 1) % CounterMod],
              packets |-> Append(copy.packets,
                            [kind |-> "PAT",
                             entries |-> Simplified(packet.entries,
                                           services[output.tps_index].service_id),
                             counter |-> output.PAT_packet_counter])]
        [] packet.kind # "PAT" /\ ~IsTheirs(output, services, packet) ->
             [copy EXCEPT !.packets = Append(@, packet)]
        [] OTHER -> copy

CopiedAll(output, services, packets) ==
  LET copy[i \in 0 .. Len(packets)] ==
        IF i = 0 THEN [output |-> output, packets |-> <<>>]
        ELSE Copied(copy[i - 1], services, packets[i])
  IN  copy[Len(packets)]

-----------------------------------------------------------------------------
Init ==
  /\ air \in [pat : Pats, streams : [Services -> SUBSET Streams]]
  /\ changes = 0
  /\ users = [p \in Streams |-> {s \in Services : p \in air.streams[s]}]
  /\ request \in Requests
  /\ list = <<>>
  /\ pat_finished = FALSE
  /\ tos = NotYet
  /\ chunk = <<>>
  /\ written = <<>>

ChangePat(pat) ==
  /\ changes < MaxChanges
  /\ pat # air.pat
  /\ changes' = changes + 1
  /\ air' = [air EXCEPT !.pat = pat]
  /\ written' = <<>>
  /\ UNCHANGED <<users, request, list, pat_finished, tos, chunk>>

ChangePmt(s, streams) ==
  /\ changes < MaxChanges
  /\ streams # air.streams[s]
  /\ changes' = changes + 1
  /\ air' = [air EXCEPT !.streams[s] = streams]
  /\ users' = [p \in Streams |-> IF p \in streams THEN users[p] \cup {s} ELSE users[p]]
  /\ written' = <<>>
  /\ UNCHANGED <<request, list, pat_finished, tos, chunk>>

Broadcast(packet) ==
  /\ Len(chunk) < MaxChunk
  /\ chunk' = Append(chunk, packet)
  /\ written' = <<>>
  /\ UNCHANGED <<air, changes, users, request, list, pat_finished, tos>>

(* A turn of the receive loop: all is parsed, then the outputs are created if
   that was waited for, then all is copied. *)
TurnOn(leftover) ==
  /\ chunk # <<>>
  /\ LET known == ParsedAll(chunk, leftover)
     IN  /\ list' = known.list
         /\ pat_finished' = known.pat_finished
         /\ \E outputs \in Outputs(known) :
              IF outputs = NotYet
              THEN tos' = NotYet /\ written' = <<>>
              ELSE IF request = Single
              THEN tos' = outputs /\ written' = <<chunk>>
              ELSE LET copies == [i \in DOMAIN outputs |->
                                    CopiedAll(outputs[i], known.list, chunk)]
                   IN  /\ tos' = [i \in DOMAIN outputs |-> copies[i].output]
                       /\ written' = [i \in DOMAIN outputs |-> copies[i].packets]
  /\ chunk' = <<>>
  /\ UNCHANGED <<air, changes, users, request>>

(* What the memory of the list holds is found when the PAT first makes use of it. *)
Turn == \E leftover \in Leftovers : TurnOn(leftover)

Next ==
  \/ \E pat \in Pats : ChangePat(pat)
  \/ \E s \in Services, streams \in SUBSET Streams : ChangePmt(s, streams)
  \/ \E packet \in Received : Broadcast(packet)
  \/ Turn

Spec == Init /\ [][Next]_vars

-----------------------------------------------------------------------------
(* The places of a sequence of one length in a longer one, in order. *)
Embeddings(m, n) ==
  {place \in [1 .. m -> 1 .. n] : \A i, j \in 1 .. m : i < j => place[i] < place[j]}

ServiceOf(i) == list[tos[i].tps_index].service_id

(* Every output is for a service of the list; those asked for have one each, as
   often and in the order they were asked for, and no other has one. *)
EachServed ==
  /\ Len(list) <= MaxServices
  /\ tos # NotYet /\ request # Single =>
       /\ \A i \in DOMAIN tos : /\ tos[i].tps_index \in DOMAIN list
                              /\ tos[i].PAT_packet_counter \in 0 .. CounterMod - 1
       /\ request = AllServices =>
            [i \in DOMAIN tos |-> ServiceOf(i)] = [i \in DOMAIN list |-> list[i].service_id]
       /\ request # AllServices =>
            \E place \in Embeddings(Len(tos), Len(request)) :
              /\ \A i \in DOMAIN tos : ServiceOf(i) = request[place[i]]
              /\ \A k \in DOMAIN request :
                   (\E i \in DOMAIN list : list[i].service_id = request[k])
                     => \E i \in DOMAIN tos : place[i] = k

(* What was copied in a turn for an output of one service. *)
Copying == chunk # <<>> /\ chunk' = <<>> /\ tos' # NotYet /\ request # Single

(* The program has received the present PMT of a service. *)
Knows(services, s) ==
  \E i \in DOMAIN services : /\ services[i].service_id = s
                             /\ services[i].last_pmt = <<air.streams[s]>>

Carries(s, packet) == packet.kind = "stream" => packet.pid \in air.streams[s]

(* The PIDs of a service are the program's own once a PMT of the service has come. *)
IsTold(services, s) ==
  \A i \in DOMAIN services : services[i].service_id = s => services[i].last_pmt # <<>>

OthersAreTold(services, s) == \A other \in Services \ {s} : IsTold(services, other)

(* What is recorded for a service: its PMT, from the turn on in which the PAT came;
   the streams of its present PMT once that is known; and, once all other services
   of the list had a PMT, every stream that none of them has or had, be it the
   service's, whose own PMT may not have come yet, or nobody's. *)
OwnPass ==
  \A i \in DOMAIN tos', k \in DOMAIN chunk :
    LET s == ServiceOf(i)'
    IN  \/ chunk[k].kind = "PMT" /\ s \in chunk[k].of
        \/ s \in chunk[k].of /\ Knows(list', s) /\ Carries(s, chunk[k])
        \/ /\ chunk[k].kind = "stream" /\ users[chunk[k].pid] \subseteq {s}
           /\ OthersAreTold(list', s)
        => chunk[k] \in Elements(written'[i])

(* What belongs to other services is not recorded, once a PMT of the service itself
   has come, the present one of it if it ever had the stream, and the present PMT
   of one of the others. *)
OthersAreWithheld ==
  \A i \in DOMAIN tos', k \in DOMAIN chunk :
    LET s == ServiceOf(i)'
    IN  /\ s \notin chunk[k].of
        /\ IsTold(list', s)
        /\ chunk[k].kind = "stream" /\ s \in users[chunk[k].pid] =>
             Knows(list', s) /\ ~Carries(s, chunk[k])
        /\ \E other \in chunk[k].of :
             Knows(list', other) /\ Carries(other, chunk[k])
        => chunk[k] \notin Elements(written'[i])

(* The two between them say what ts_is_mypid is for, at each turn that copies. *)
EachGetsItsOwn == [][Copying => OwnPass /\ OthersAreWithheld]_vars

(* What is recorded is what was received, in its order; every PAT is recorded in
   its place, with the one service in it if it is there at all, and their counters
   follow each other, whichever packets come between them. *)
PatsFrom(packets, k) == Cardinality({l \in k .. Len(packets) : packets[l].kind = "PAT"})

RecordedInOrder(i) ==
  \E place \in Embeddings(Len(written'[i]), Len(chunk)) :
    /\ \A k \in DOMAIN chunk : chunk[k].kind = "PAT" => \E l \in DOMAIN place : place[l] = k
    /\ \A l \in DOMAIN place :
         IF chunk[place[l]].kind # "PAT" THEN written'[i][l] = chunk[place[l]]
         ELSE /\ written'[i][l].kind = "PAT"
              /\ ServiceOf(i)' \in Elements(chunk[place[l]].entries)
                   => written'[i][l].entries = <<Nit, ServiceOf(i)'>>

CountersFollow(i) ==
  /\ \A k \in DOMAIN written'[i] :
       written'[i][k].kind = "PAT" =>
         (written'[i][k].counter + PatsFrom(written'[i], k)) % CounterMod
           = tos'[i].PAT_packet_counter
  /\ tos # NotYet =>
       (tos[i].PAT_packet_counter + PatsFrom(written'[i], 1)) % CounterMod
         = tos'[i].PAT_packet_counter

PatsAreRewritten ==
  [][Copying => \A i \in DOMAIN tos' : RecordedInOrder(i) /\ CountersFollow(i)]_vars
=============================================================================
