-------------------------- MODULE ProgCheck_proofs --------------------------
(***************************************************************************)
(* That the modules of the recorded programme know what the last check     *)
(* went by, that a recording is cut in two only by news, and that without  *)
(* any there is one split in an hour, for any number of events, versions,  *)
(* hours of a day and retries.                                             *)
(*                                                                         *)
(* RecordsWhatItKnows is not inductive: when there is no information, nor  *)
(* was at the last check, nothing is told to the modules, so that there    *)
(* must be one way only of knowing nothing (Unknown), and no event may be  *)
(* taken for it (Numbered).                                                *)
(***************************************************************************)
EXTENDS ProgCheck, TLAPS

Numbered(pi) == "EVENT_INFO" \in pi.status => pi.event_id # NoEvent

Unknown == last_proginfo.event = NoEvent => last_proginfo.told = 0

KInv == TypeOK /\ Numbered(proginfo) /\ Unknown /\ RecordsWhatItKnows

(* What the invariant says of the programmes alone.                        *)
Programmes ==
  /\ last_proginfo \in [event : 0 .. MaxEvents, told : Versions]
  /\ curr_pgos \in {NoPgos} \cup [event : 0 .. MaxEvents, told : Versions]
  /\ n_pgos \in 0 .. MaxPgOverlap
  /\ n_pgos = 0 <=> curr_pgos = NoPgos
  /\ Unknown /\ RecordsWhatItKnows

(* And of the counts of the retries.                                       *)
Counts ==
  /\ proginfo_retry_count \in 0 .. Latest(ReadyRetries, SiRetries)
  /\ pcr_retry_count \in 0 .. PcrRetries + 1
  /\ tot_retry_count \in 0 .. TotRetries + 1

World ==
  /\ stream \in Streams
  /\ sys \in Hours /\ air \in Hours /\ breaks \in 0 .. MaxBreaks
  /\ on_air \in [id : 1 .. MaxEvents, version : Versions]

LEMMA KInvParts ==
  KInv => /\ World /\ nosplit \in BOOLEAN
          /\ proginfo \in Proginfo /\ Numbered(proginfo)
          /\ Counts /\ last_progchange_timenum \in Nat /\ Programmes
BY DEF KInv, TypeOK, World, Counts, Programmes

-----------------------------------------------------------------------------
(* The parser keeps proginfo well-formed, and has a number for an event.   *)
LEMMA EitKeeps ==
  ASSUME NEW pi \in Proginfo, Numbered(pi),
         NEW e \in [id : 1 .. MaxEvents, version : Versions]
  PROVE  /\ StoreEitBody(pi, e) \in Proginfo /\ Numbered(StoreEitBody(pi, e))
         /\ StoreEitSed(StoreEitBody(pi, e)) \in Proginfo
         /\ Numbered(StoreEitSed(StoreEitBody(pi, e)))
<1> DEFINE same == IF "EVENT_INFO" \in pi.status /\ pi.event_id # e.id
                   THEN ClearProginfoAll(pi) ELSE pi
<1> DEFINE body == StoreEitBody(pi, e)
<1>1. body \in Proginfo /\ body.event_id = e.id
  <2>1. same \in Proginfo
    BY DEF ClearProginfoAll, Proginfo, Flags, Get, TimeInfo
  <2>2. body = [same EXCEPT !.event_id = e.id, !.version = e.version,
                            !.status = same.status \cup {"EVENT_INFO"}]
    BY DEF StoreEitBody
  <2>3. e.id \in 0 .. MaxEvents /\ e.version \in Versions
    BY ProgInfoAssumption
  <2>4. same.status \cup {"EVENT_INFO"} \in SUBSET Flags
    BY <2>1 DEF Proginfo, Flags, Get
  <2> HIDE DEF same, body
  <2> QED BY <2>1, <2>2, <2>3, <2>4 DEF Proginfo
<1>2. /\ StoreEitSed(body) \in Proginfo
      /\ StoreEitSed(body).event_id = body.event_id
  <2> HIDE DEF body
  <2> QED BY <1>1 DEF StoreEitSed, Ready, Proginfo, Flags, Get, TimeInfo
<1> QED BY <1>1, <1>2 DEF Numbered, NoEvent

LEMMA TimeinfoKeeps ==
  ASSUME NEW pi \in Proginfo, Numbered(pi)
  PROVE  /\ StreamTimeinfo(pi) \in Proginfo /\ Numbered(StreamTimeinfo(pi))
         /\ Considered(StreamTimeinfo(pi)) \in Proginfo
         /\ Numbered(Considered(StreamTimeinfo(pi)))
<1>1. StreamTimeinfo(pi) \in Proginfo /\ Numbered(StreamTimeinfo(pi))
  BY DEF StreamTimeinfo, Proginfo, Numbered, Flags, Get, TimeInfo
<1>2. ASSUME NEW p \in Proginfo, Numbered(p)
      PROVE  Considered(p) \in Proginfo /\ Numbered(Considered(p))
  BY <1>2 DEF Considered, ClearProginfoAll, Proginfo, Numbered, Flags, Get, TimeInfo
<1> QED BY <1>1, <1>2

(* What the modules are told is well-formed, and nothing only of no event. *)
LEMMA InfoFacts ==
  ASSUME NEW pi \in Proginfo, Numbered(pi)
  PROVE  /\ Info(pi) \in [event : 0 .. MaxEvents, told : Versions]
         /\ Info(pi) # NoPgos
         /\ Info(pi).event = NoEvent => Info(pi).told = 0 /\ ~Ready(pi)
         /\ Ready(pi) => Info(pi) = [event |-> pi.event_id, told |-> pi.version]
BY ProgInfoAssumption DEF Info, Proginfo, Numbered, Ready, Get, NoEvent, NoPgos

(* The hour of a change is an hour, as is its number.                      *)
LEMMA HourFacts ==
  ASSUME NEW pi \in Proginfo, sys \in Hours, NEW h \in CurrHours(pi)
  PROVE  Timenum(h) \in Nat
<1>1. h \in Hours
  BY DEF CurrHours, Proginfo
<1>2. h \in Nat
  BY <1>1, ProgInfoAssumption DEF Hours
<1> QED BY <1>2 DEF Timenum

LEMMA KInvInit == Init => KInv
<1> SUFFICES ASSUME Init PROVE KInv OBVIOUS
<1> USE ProgInfoAssumption, ProgCheckAssumption DEF Init, ProgInfoInit
<1>1. World /\ nosplit \in BOOLEAN /\ last_progchange_timenum \in Nat
  BY DEF World, Hours
<1>2. proginfo \in Proginfo /\ Numbered(proginfo)
  BY DEF InitProginfo, NoPcr, Proginfo, Numbered, Hours
<1>3. Counts
  BY DEF Counts, Latest
<1>4. Programmes
  BY DEF Programmes, Unknown, RecordsWhatItKnows, Info, InitProginfo, Ready, Get,
         NoPgos, NoEvent
<1> QED BY <1>1, <1>2, <1>3, <1>4 DEF KInv, TypeOK, World, Counts, Programmes

-----------------------------------------------------------------------------
(* Neither the air nor the tables disturb what was told.                   *)
LEMMA AirKeeps == KInv /\ OnAir => KInv'
<1> SUFFICES ASSUME KInv, OnAir PROVE KInv' OBVIOUS
<1>1. UNCHANGED <<proginfo, nosplit, counts, output>>
  BY DEF OnAir, Air, NextEvent, NextVersion, SysHour, AirHour, Break
<1>2. World'
  BY KInvParts, ProgInfoAssumption
  DEF OnAir, Air, NextEvent, NextVersion, SysHour, AirHour, Break, World, Hours
<1> QED BY <1>1, <1>2
        DEF counts, output, KInv, TypeOK, World, Unknown, RecordsWhatItKnows, Numbered

LEMMA ParseKeeps ==
  KInv /\ (Received(Parse) \/ \E short \in BOOLEAN : Event(short)) => KInv'
<1> SUFFICES ASSUME KInv,
                    Received(Parse) \/ \E short \in BOOLEAN : Event(short)
             PROVE  KInv'
  OBVIOUS
<1>1. UNCHANGED <<world, nosplit, counts, output>>
  BY DEF Received, Event, Parse, ParsePat, ParseSdt, ParsePcr, ParseTot, ParseEit, Store, IsListed
<1>2. proginfo' \in Proginfo /\ Numbered(proginfo')
  <2>1. CASE Received(ParsePat) \/ Received(ParseSdt)
    BY <2>1, KInvParts
    DEF Received, ParsePat, ParseSdt, Store, Proginfo, Numbered, Flags, Get
  <2>2. CASE Received(ParsePcr)
    <3>1. PICK status \in {proginfo.status \cup {"VALID_PCR", "PCR_UPDATED"},
                           proginfo.status \ {"VALID_PCR"}} :
            proginfo' = [proginfo EXCEPT !.PCR_base = [break |-> breaks, hour |-> air],
                                         !.status = status]
      BY <2>2 DEF Received, ParsePcr, Store
    <3>2. breaks \in -1 .. MaxBreaks /\ air \in Hours
      BY KInvParts DEF World
    <3> QED BY <3>1, <3>2, KInvParts DEF Proginfo, Numbered, Flags, Get, TimeInfo
  <2>3. CASE Received(ParseTot)
    <3>1. PICK pcr \in {proginfo.PCR_base.break, proginfo.TOT_PCR},
               status \in SUBSET (proginfo.status \cup TimeInfo \cup {"TOT_UPDATED"}) :
            proginfo' = [proginfo EXCEPT !.TOT_time = air, !.TOT_PCR = pcr,
                                         !.status = status]
      BY <2>3 DEF Received, ParseTot, Store, TimeInfo
    <3>2. air \in Hours /\ pcr \in -1 .. MaxBreaks /\ status \in SUBSET Flags
      BY <3>1, KInvParts DEF World, Proginfo, Flags, TimeInfo
    <3> QED BY <3>1, <3>2, KInvParts DEF Proginfo, Numbered, TimeInfo
  <2>4. CASE \E short \in BOOLEAN : Event(short)
    BY <2>4, EitKeeps, KInvParts DEF Event, Received, ParseEit, Store, World
  <2> QED BY <2>1, <2>2, <2>3, <2>4 DEF Received, Parse
<1> QED BY <1>1, <1>2
        DEF world, counts, output, KInv, TypeOK, Unknown, RecordsWhatItKnows

-----------------------------------------------------------------------------
(* A change leaves its programme as the one recorded, or is skipped.       *)
LEMMA ChangedKeeps ==
  ASSUME Programmes, NEW pi \in Proginfo, Numbered(pi), ProgChanged(pi)
  PROVE  /\ curr_pgos' \in {NoPgos} \cup [event : 0 .. MaxEvents, told : Versions]
         /\ n_pgos' \in 0 .. MaxPgOverlap
         /\ n_pgos' = 0 <=> curr_pgos' = NoPgos
         /\ ~skipped' => curr_pgos' = Info(pi)
<1>1. CASE Skipped
  BY <1>1, ProgCheckAssumption DEF ProgChanged, Skipped, Programmes
<1>2. CASE ~Skipped
  <2>1. n_pgos' = n_pgos + 1 /\ curr_pgos' = Info(pi)
    BY <1>2 DEF ProgChanged
  <2>2. n_pgos' \in 1 .. MaxPgOverlap
    BY <1>2, <2>1, ProgCheckAssumption DEF Skipped, Programmes
  <2> QED BY <2>1, <2>2, InfoFacts
<1> QED BY <1>1, <1>2

(* News of the event that is recorded already is told to its modules.      *)
LEMMA SameKeeps ==
  ASSUME Programmes, ~nosplit, NEW pi \in Proginfo, Numbered(pi),
         ~InfoChanged(pi), SameProg(pi)
  PROVE  /\ curr_pgos' \in {NoPgos} \cup [event : 0 .. MaxEvents, told : Versions]
         /\ n_pgos' = n_pgos
         /\ curr_pgos' = NoPgos <=> curr_pgos = NoPgos
         /\ curr_pgos' # NoPgos /\ ~skipped' => curr_pgos' = Info(pi)
<1>1. n_pgos' = n_pgos /\ skipped' = skipped
  BY DEF SameProg
<1>2. curr_pgos # NoPgos /\ ~skipped => curr_pgos = last_proginfo
  BY DEF Programmes, RecordsWhatItKnows
<1>3. last_proginfo.event = Info(pi).event
  BY DEF InfoChanged
<1>4. CASE ~Ready(pi)
  <2>1. curr_pgos' = curr_pgos
    BY <1>4 DEF SameProg
  <2>2. Info(pi) = [event |-> NoEvent, told |-> 0]
    BY <1>4 DEF Info
  <2>3. last_proginfo = Info(pi)
    BY <2>2, <1>3 DEF Programmes, Unknown
  <2> QED BY <2>1, <2>3, <1>1, <1>2 DEF Programmes
<1>5. CASE Ready(pi)
  <2>1. Info(pi) = [event |-> pi.event_id, told |-> pi.version] /\ Info(pi).event # NoEvent
    BY <1>5, InfoFacts
  <2>2. pi.version \in Versions
    BY DEF Proginfo
  <2>3. \/ curr_pgos' = [curr_pgos EXCEPT !.told = pi.version] /\ curr_pgos # NoPgos
        \/ curr_pgos' = curr_pgos /\ (curr_pgos = NoPgos \/ last_proginfo = Info(pi))
    BY <2>1, <1>3, <1>5 DEF SameProg, Differs
  <2>4. CASE curr_pgos' = curr_pgos /\ (curr_pgos = NoPgos \/ last_proginfo = Info(pi))
    BY <2>4, <1>1, <1>2 DEF Programmes
  <2>5. CASE curr_pgos' = [curr_pgos EXCEPT !.told = pi.version] /\ curr_pgos # NoPgos
    <3>1. curr_pgos \in [event : 0 .. MaxEvents, told : Versions]
      BY <2>5 DEF Programmes
    <3>2. /\ curr_pgos' \in [event : 0 .. MaxEvents, told : Versions]
          /\ curr_pgos'.event = curr_pgos.event /\ curr_pgos'.told = pi.version
      BY <2>5, <2>2, <3>1
    <3>3. ~skipped => curr_pgos.event = pi.event_id
      BY <2>5, <2>1, <1>2, <1>3
    <3> QED BY <2>5, <2>1, <3>2, <3>3, <1>1 DEF NoPgos
  <2> QED BY <2>3, <2>4, <2>5
<1> QED BY <1>4, <1>5

LEMMA CountRetriesKeeps ==
  ASSUME Counts, CountRetries(proginfo)
  PROVE  /\ pcr_retry_count' \in 0 .. PcrRetries + 1
         /\ tot_retry_count' \in 0 .. TotRetries + 1
BY ProgCheckAssumption DEF Counts, CountRetries, PcrGone, TotGone

LEMMA DecideKeeps == KInv /\ CheckPi /\ Decide => KInv'
<1> SUFFICES ASSUME KInv, CheckPi, Decide PROVE KInv' OBVIOUS
<1> DEFINE pi == Considered(StreamTimeinfo(proginfo))
<1>1. pi \in Proginfo /\ Numbered(pi)
  BY TimeinfoKeeps, KInvParts
<1>2. /\ proginfo' = pi /\ last_proginfo' = Info(pi) /\ proginfo_retry_count' = 0
      /\ ~nosplit /\ UNCHANGED <<stream, on_air, sys, air, breaks, nosplit>>
  BY DEF CheckPi, Decide
<1>3. PICK h \in CurrHours(pi) :
        \/ last_progchange_timenum' = Timenum(h) /\ ProgChanged(pi)
        \/ ~InfoChanged(pi) /\ SameProg(pi) /\ UNCHANGED last_progchange_timenum
  BY DEF Decide
<1> HIDE DEF pi
<1>4. last_progchange_timenum' \in Nat
  BY <1>1, <1>3, HourFacts, KInvParts DEF World, SameProg
<1>5. Counts'
  BY <1>2, CountRetriesKeeps, KInvParts, ProgCheckAssumption
  DEF Counts, CheckPi, Latest
<1>6. /\ curr_pgos' \in {NoPgos} \cup [event : 0 .. MaxEvents, told : Versions]
      /\ n_pgos' \in 0 .. MaxPgOverlap
      /\ n_pgos' = 0 <=> curr_pgos' = NoPgos
      /\ curr_pgos' # NoPgos /\ ~skipped' => curr_pgos' = Info(pi)
  <2>1. CASE ProgChanged(pi)
    BY <2>1, <1>1, ChangedKeeps, KInvParts
  <2>2. CASE ~InfoChanged(pi) /\ SameProg(pi)
    BY <2>2, <1>1, <1>2, SameKeeps, KInvParts DEF Programmes
  <2> QED BY <1>3, <2>1, <2>2
<1>7. /\ Info(pi) \in [event : 0 .. MaxEvents, told : Versions]
      /\ Info(pi).event = NoEvent => Info(pi).told = 0
  BY <1>1, InfoFacts
<1> QED BY <1>1, <1>2, <1>4, <1>5, <1>6, <1>7
        DEF KInv, TypeOK, Counts, Unknown, RecordsWhatItKnows, Numbered

LEMMA WaitKeeps == KInv /\ CheckPi /\ Wait => KInv'
<1> SUFFICES ASSUME KInv, CheckPi, Wait PROVE KInv' OBVIOUS
<1>1. proginfo' \in Proginfo /\ Numbered(proginfo')
  BY TimeinfoKeeps, KInvParts DEF Wait
<1>2. Counts'
  BY CountRetriesKeeps, KInvParts, ProgCheckAssumption
  DEF Counts, CheckPi, Wait, Latest
<1>3. UNCHANGED <<stream, on_air, sys, air, breaks, nosplit, output>>
  BY DEF CheckPi, Wait
<1> QED BY <1>1, <1>2, <1>3
        DEF output, KInv, TypeOK, Counts, Unknown, RecordsWhatItKnows

LEMMA CheckSiKeeps == KInv /\ CheckSi => KInv'
<1> SUFFICES ASSUME KInv, CheckSi PROVE KInv' OBVIOUS
<1> DEFINE pi == StreamTimeinfo(proginfo)
<1>1. pi \in Proginfo /\ Numbered(pi)
  BY TimeinfoKeeps, KInvParts
<1>2. /\ nosplit /\ proginfo' = pi
      /\ UNCHANGED <<world, nosplit, last_proginfo, last_progchange_timenum>>
  BY DEF CheckSi
<1>3. ProgChanged(pi) \/ UNCHANGED <<n_pgos, curr_pgos>>
  BY DEF CheckSi
<1>4. Counts'
  BY CountRetriesKeeps, KInvParts, ProgCheckAssumption DEF Counts, CheckSi, Latest
<1> HIDE DEF pi
<1>5. /\ curr_pgos' \in {NoPgos} \cup [event : 0 .. MaxEvents, told : Versions]
      /\ n_pgos' \in 0 .. MaxPgOverlap
      /\ n_pgos' = 0 <=> curr_pgos' = NoPgos
  BY <1>1, <1>3, ChangedKeeps, KInvParts DEF Programmes
<1> QED BY <1>1, <1>2, <1>4, <1>5
        DEF world, KInv, TypeOK, Counts, Unknown, RecordsWhatItKnows

LEMMA KInvNext == KInv /\ [Next]_vars => KInv'
<1> SUFFICES ASSUME KInv, [Next]_vars PROVE KInv' OBVIOUS
<1>1. CASE UNCHANGED vars
  BY <1>1 DEF vars, world, counts, output, KInv, TypeOK, Unknown, RecordsWhatItKnows,
              Numbered
<1>2. CASE Ended
  <2>1. /\ n_pgos' \in 1 .. MaxPgOverlap /\ n_pgos # 0
        /\ UNCHANGED <<world, proginfo, nosplit, counts, last_proginfo,
                       last_progchange_timenum, curr_pgos, skipped>>
    BY <1>2, ProgCheckAssumption DEF Ended, KInv, TypeOK
  <2> QED BY <2>1 DEF world, counts, KInv, TypeOK, Unknown, RecordsWhatItKnows, Numbered
<1> QED BY <1>1, <1>2, AirKeeps, ParseKeeps, DecideKeeps, WaitKeeps, CheckSiKeeps
        DEF Next, Check, CheckPi

-----------------------------------------------------------------------------
(* KInv holds in every reachable state of the programme detection.         *)
THEOREM KnownInvariant == Spec => []KInv
BY KInvInit, KInvNext, PTL DEF Spec

(* Every variable keeps its type: no count of retries runs past its limit, *)
(* and there are never more programmes than slots.                         *)
THEOREM DetectionTypeCorrect == Spec => []TypeOK
<1>1. KInv => TypeOK BY DEF KInv
<1> QED BY <1>1, KnownInvariant, PTL

(* The modules of the programme that is recorded know the event and the    *)
(* information that the last check of ts_check_pi went by, unless a change *)
(* was skipped, whatever the tables and the clocks of the stream do.       *)
THEOREM KnowsWhatTheCheckKnew == Spec => []RecordsWhatItKnows
<1>1. KInv => RecordsWhatItKnows BY DEF KInv
<1> QED BY <1>1, KnownInvariant, PTL

-----------------------------------------------------------------------------
(***************************************************************************)
(* What a split waits for.  The retries counted are checks without news    *)
(* (Patient); news is there only with all the information (Fresh); events  *)
(* follow one another, so that one that was left does not come back        *)
(* (Ordered); and a programme whose event is known although the last check *)
(* knew of none is one whose end was skipped, after such a wait            *)
(* (LeftWaiting).                                                          *)
(***************************************************************************)
Patient == ~nosplit => quiet \in 0 .. ReadyRetries /\ proginfo_retry_count <= quiet

Fresh == "READY_UPDATED" \in proginfo.status => Ready(proginfo)

Ordered ==
  /\ last_proginfo.event <= on_air.id /\ curr_pgos.event <= on_air.id
  /\ last_proginfo.event # NoEvent => curr_pgos.event <= last_proginfo.event
  /\ "EVENT_INFO" \in proginfo.status =>
       /\ proginfo.event_id <= on_air.id
       /\ last_proginfo.event <= proginfo.event_id
       /\ curr_pgos.event <= proginfo.event_id

LeftWaiting ==
  ~nosplit /\ curr_pgos # NoPgos /\ curr_pgos.event # NoEvent /\ last_proginfo.event = NoEvent
    => quiet >= ReadyRetries

WInv == Patient /\ Fresh /\ (~nosplit => Ordered) /\ LeftWaiting

LEMMA WInvInit == Init => WInv
<1> SUFFICES ASSUME Init PROVE WInv OBVIOUS
<1>1. Patient  BY ProgCheckAssumption DEF Init, Patient
<1>2. Fresh /\ Ordered /\ LeftWaiting
  BY DEF Init, ProgInfoInit, Fresh, Ordered, LeftWaiting, Info, InitProginfo, Ready, Get,
         NoPgos, NoEvent
<1> QED BY <1>1, <1>2 DEF WInv

LEMMA AirWaits == KInv /\ WInv /\ OnAir => WInv'
<1> SUFFICES ASSUME KInv, WInv, OnAir PROVE WInv' OBVIOUS
<1>1. UNCHANGED <<proginfo, nosplit, counts, output, quiet>>
  BY DEF OnAir, Air, NextEvent, NextVersion, SysHour, AirHour, Break
<1>2. on_air'.id \in Int /\ on_air'.id >= on_air.id /\ on_air.id \in Int
  BY KInvParts, ProgInfoAssumption
  DEF OnAir, Air, NextEvent, NextVersion, SysHour, AirHour, Break, World
<1>3. /\ last_proginfo.event \in Int /\ curr_pgos.event \in Int
      /\ proginfo.event_id \in Int
  BY KInvParts, ProgInfoAssumption DEF Programmes, Proginfo, NoPgos
<1>4. Ordered => Ordered'
  BY <1>1, <1>2, <1>3 DEF Ordered, output
<1> QED BY <1>1, <1>4 DEF WInv, Patient, Fresh, LeftWaiting, counts, output

LEMMA ParseWaits ==
  KInv /\ WInv /\ (Received(Parse) \/ \E short \in BOOLEAN : Event(short)) => WInv'
<1> SUFFICES ASSUME KInv, WInv,
                    Received(Parse) \/ \E short \in BOOLEAN : Event(short)
             PROVE  WInv'
  OBVIOUS
<1>1. UNCHANGED <<world, nosplit, counts, output, quiet>>
  BY DEF Received, Event, Parse, ParsePat, ParseSdt, ParsePcr, ParseTot, ParseEit, Store, IsListed
<1>2. Patient' /\ LeftWaiting'
  BY <1>1 DEF WInv, Patient, LeftWaiting, counts, output
<1>3. CASE Received(Parse)
  <2>1. /\ proginfo'.event_id = proginfo.event_id
        /\ \A f \in {"EVENT_INFO", "SHORT_TEXT", "READY_UPDATED"} :
             f \in proginfo'.status <=> f \in proginfo.status
        /\ \A f \in {"PAT", "SERVICE_INFO"} : f \in proginfo.status => f \in proginfo'.status
    <3>1. proginfo \in Proginfo  BY KInvParts
    <3>2. CASE ParsePat  BY <3>1, <3>2 DEF ParsePat, Store, Proginfo
    <3>3. CASE ParseSdt  BY <3>1, <3>3 DEF ParseSdt, Store, Proginfo
    <3>4. CASE ParsePcr
      <4>1. PICK status \in {proginfo.status \cup {"VALID_PCR", "PCR_UPDATED"},
                             proginfo.status \ {"VALID_PCR"}} :
              proginfo' = [proginfo EXCEPT !.PCR_base = [break |-> breaks, hour |-> air],
                                           !.status = status]
        BY <3>4 DEF ParsePcr, Store
      <4> QED BY <3>1, <4>1 DEF Proginfo
    <3>5. CASE ParseTot
      <4>1. PICK pcr \in {proginfo.PCR_base.break, proginfo.TOT_PCR},
                 new \in SUBSET {"TOT", "TOT_UPDATED", "VALID_TOT_PCR"} :
              proginfo' = [proginfo EXCEPT !.TOT_time = air, !.TOT_PCR = pcr,
                                !.status = (proginfo.status \ {"VALID_TOT_PCR"}) \cup new]
        <5>1. PICK new : new = {"TOT", "TOT_UPDATED"}
                           \cup (IF "VALID_PCR" \in proginfo.status THEN {"VALID_TOT_PCR"} ELSE {})
          OBVIOUS
        <5>2. PICK pcr : pcr = IF "VALID_PCR" \in proginfo.status THEN proginfo.PCR_base.break
                               ELSE proginfo.TOT_PCR
          OBVIOUS
        <5> QED BY <3>5, <5>1, <5>2 DEF ParseTot, Store
      <4> QED BY <3>1, <4>1 DEF Proginfo
    <3> QED BY <1>3, <3>2, <3>3, <3>4, <3>5 DEF Received, Parse
  <2>2. Fresh'  BY <2>1 DEF WInv, Fresh, Ready, Get
  <2>3. Ordered => Ordered'  BY <1>1, <2>1 DEF Ordered, world, output
  <2> QED BY <1>1, <1>2, <2>2, <2>3 DEF WInv
<1>4. CASE \E short \in BOOLEAN : Event(short)
  <2> DEFINE body == StoreEitBody(proginfo, on_air)
  <2>1. proginfo' = body \/ proginfo' = StoreEitSed(body)
    BY <1>4 DEF Event, Received, ParseEit, Store
  <2>2. /\ body.event_id = on_air.id
        /\ "READY_UPDATED" \in body.status => Ready(body)
    BY KInvParts DEF StoreEitBody, ClearProginfoAll, Proginfo, WInv, Fresh, Ready, Get, TimeInfo
  <2>3. /\ StoreEitSed(body).event_id = body.event_id
        /\ "READY_UPDATED" \in StoreEitSed(body).status => Ready(StoreEitSed(body))
    <3>1. body \in Proginfo
      BY EitKeeps, KInvParts DEF World
    <3> HIDE DEF body
    <3> QED BY <2>2, <3>1 DEF StoreEitSed, Ready, Get, Proginfo
  <2> HIDE DEF body
  <2>4. Fresh'  BY <2>1, <2>2, <2>3 DEF Fresh
  <2>5. proginfo'.event_id = on_air.id  BY <2>1, <2>2, <2>3
  <2>6. on_air.id \in Int  BY KInvParts, ProgInfoAssumption DEF World
  <2>7. Ordered => Ordered'  BY <1>1, <2>5, <2>6 DEF Ordered, world, output
  <2> QED BY <1>1, <1>2, <2>4, <2>7 DEF WInv
<1> QED BY <1>3, <1>4

(* What a check that does not wait goes by: what is known, when there was  *)
(* news or when nothing was known before; nothing, when it has waited.     *)
LEMMA ConsideredFacts ==
  ASSUME KInv, WInv, ~nosplit, CheckPi, Decide,
         NEW pi, pi = Considered(StreamTimeinfo(proginfo))
  PROVE  /\ Ready(pi) => pi.event_id = proginfo.event_id /\ "EVENT_INFO" \in proginfo.status
         /\ "READY_UPDATED" \notin pi.status
         /\ "EVENT_INFO" \in pi.status =>
              "EVENT_INFO" \in proginfo.status /\ pi.event_id = proginfo.event_id
         /\ \/ Ready(pi)
            \/ quiet >= ReadyRetries /\ "READY_UPDATED" \notin proginfo.status
            \/ /\ last_proginfo.event = NoEvent /\ curr_pgos # NoPgos
               /\ "READY_UPDATED" \notin proginfo.status
<1> DEFINE s == StreamTimeinfo(proginfo)
<1>1. /\ s \in Proginfo /\ s.event_id = proginfo.event_id
      /\ s.status \cap (Get \cup {"READY_UPDATED"}) = proginfo.status \cap (Get \cup {"READY_UPDATED"})
  BY KInvParts, TimeinfoKeeps DEF StreamTimeinfo, Proginfo, Get
<1> HIDE DEF s
<1>2. pi = [(IF Outdated(s) THEN ClearProginfoAll(s) ELSE s) EXCEPT !.status = @ \ {"READY_UPDATED"}]
  BY DEF Considered, s
<1>3. /\ pi.event_id = s.event_id
      /\ pi.status = (IF Outdated(s) THEN s.status \cap ({"PAT", "SERVICE_INFO"} \cup TimeInfo)
                      ELSE s.status) \ {"READY_UPDATED"}
  BY <1>1, <1>2 DEF ClearProginfoAll, Proginfo
<1>4. "EVENT_INFO" \in pi.status => "EVENT_INFO" \in proginfo.status
  BY <1>1, <1>3 DEF Get
<1>5. CASE Outdated(s)
  <2>1. proginfo_retry_count >= ReadyRetries  BY <1>5 DEF Decide, s
  <2>2. quiet >= ReadyRetries
    BY <2>1, KInvParts, ProgCheckAssumption DEF WInv, Patient, Counts, Latest
  <2>3. "READY_UPDATED" \notin proginfo.status  BY <1>1, <1>5 DEF Outdated
  <2> QED BY <1>1, <1>3, <1>4, <2>2, <2>3 DEF Ready, Get
<1>6. CASE ~Outdated(s)
  <2>1. CASE "READY_UPDATED" \in proginfo.status
    <3>1. Ready(s)  BY <1>1, <2>1 DEF WInv, Fresh, Ready, Get
    <3>2. Ready(pi)  BY <1>3, <1>6, <3>1 DEF Ready, Get
    <3> QED BY <1>1, <1>3, <1>4, <3>2 DEF Ready, Get
  <2>2. CASE "READY_UPDATED" \notin proginfo.status
    <3>1. last_proginfo.event = NoEvent /\ curr_pgos # NoPgos
      BY <1>1, <1>6, <2>2 DEF Outdated, LastReady
    <3> QED BY <1>1, <1>3, <1>4, <2>2, <3>1 DEF Ready, Get
  <2> QED BY <2>1, <2>2
<1> QED BY <1>5, <1>6

LEMMA DecideWaits == KInv /\ WInv /\ CheckPi /\ Decide => WInv'
<1> SUFFICES ASSUME KInv, WInv, CheckPi, Decide PROVE WInv' OBVIOUS
<1>0. PICK pi : pi = Considered(StreamTimeinfo(proginfo))  OBVIOUS
<1>1. /\ ~nosplit /\ ~nosplit' /\ proginfo' = pi /\ proginfo_retry_count' = 0
      /\ last_proginfo' = Info(pi) /\ on_air' = on_air
      /\ quiet' = IF "READY_UPDATED" \in proginfo.status THEN 0
                  ELSE IF quiet < ReadyRetries THEN quiet + 1 ELSE quiet
  BY <1>0 DEF CheckPi, Decide
<1>2. /\ pi \in Proginfo /\ Numbered(pi)
  BY <1>0, TimeinfoKeeps, KInvParts
<1>3. /\ Ready(pi) => pi.event_id = proginfo.event_id /\ "EVENT_INFO" \in proginfo.status
      /\ "READY_UPDATED" \notin pi.status
      /\ "EVENT_INFO" \in pi.status =>
           "EVENT_INFO" \in proginfo.status /\ pi.event_id = proginfo.event_id
      /\ \/ Ready(pi)
         \/ quiet >= ReadyRetries /\ "READY_UPDATED" \notin proginfo.status
         \/ /\ last_proginfo.event = NoEvent /\ curr_pgos # NoPgos
            /\ "READY_UPDATED" \notin proginfo.status
  BY <1>0, <1>1, ConsideredFacts
<1>4. \/ curr_pgos'.event = curr_pgos.event /\ (curr_pgos' = NoPgos <=> curr_pgos = NoPgos)
      \/ curr_pgos' = Info(pi)
  <2>1. ProgChanged(pi) \/ SameProg(pi)
    BY <1>0 DEF Decide
  <2>2. CASE ProgChanged(pi)  BY <2>2 DEF ProgChanged
  <2>3. CASE SameProg(pi)
    <3>1. curr_pgos \in [event : 0 .. MaxEvents, told : Versions] \/ curr_pgos = NoPgos
      BY KInvParts DEF Programmes
    <3>2. curr_pgos' = curr_pgos \/ (curr_pgos # NoPgos /\ curr_pgos' = [curr_pgos EXCEPT !.told = pi.version])
      BY <2>3 DEF SameProg
    <3>3. CASE curr_pgos' = curr_pgos  BY <3>3
    <3>4. CASE curr_pgos # NoPgos /\ curr_pgos' = [curr_pgos EXCEPT !.told = pi.version]
      <4>1. curr_pgos'.event = curr_pgos.event /\ curr_pgos.event \in 0 .. MaxEvents
        BY <3>1, <3>4
      <4> QED BY <3>4, <4>1 DEF NoPgos
    <3> QED BY <3>2, <3>3, <3>4
  <2> QED BY <2>1, <2>2, <2>3
<1>5. /\ last_proginfo.event \in Int /\ curr_pgos.event \in Int /\ on_air.id \in Nat \ {0}
      /\ proginfo.event_id \in Int /\ quiet \in Int /\ ReadyRetries \in Nat /\ quiet >= 0
      /\ quiet <= ReadyRetries
  BY <1>1, KInvParts, ProgInfoAssumption, ProgCheckAssumption
  DEF Programmes, Proginfo, NoPgos, World, WInv, Patient
<1>6. /\ Info(pi).event = IF Ready(pi) THEN proginfo.event_id ELSE NoEvent
      /\ Info(pi) # NoPgos
  BY <1>2, <1>3, InfoFacts DEF Info
<1>7. Patient'  BY <1>1, <1>5 DEF Patient
<1>8. Fresh'  BY <1>1, <1>3 DEF Fresh
<1>9. Ordered'
  <2>1. Ordered  BY <1>1 DEF WInv
  <2>2. CASE Ready(pi)
    <3>1. /\ proginfo.event_id <= on_air.id /\ curr_pgos.event <= proginfo.event_id
      BY <1>3, <2>1, <2>2 DEF Ordered
    <3>2. curr_pgos'.event = curr_pgos.event \/ curr_pgos'.event = proginfo.event_id
      BY <1>4, <1>6, <2>2
    <3> QED BY <1>1, <1>3, <1>5, <1>6, <2>2, <3>1, <3>2 DEF Ordered
  <2>3. CASE ~Ready(pi)
    <3>1. curr_pgos'.event = curr_pgos.event \/ curr_pgos'.event = NoEvent
      BY <1>4, <1>6, <2>3
    <3>2. "EVENT_INFO" \in pi.status =>
            /\ pi.event_id <= on_air.id /\ curr_pgos.event <= pi.event_id
            /\ pi.event_id \in Nat
      BY <1>2, <1>3, <2>1 DEF Ordered, Proginfo
    <3>3. curr_pgos.event <= on_air.id  BY <2>1 DEF Ordered
    <3> QED BY <1>1, <1>5, <1>6, <2>3, <3>1, <3>2, <3>3 DEF Ordered, NoEvent
  <2> QED BY <2>2, <2>3
<1>10. LeftWaiting'
  <2> SUFFICES ASSUME curr_pgos' # NoPgos, curr_pgos'.event # NoEvent, Info(pi).event = NoEvent
               PROVE  quiet' >= ReadyRetries
    BY <1>1 DEF LeftWaiting
  <2>1. ~Ready(pi)  BY <1>2, InfoFacts DEF Ready, Get, Numbered, Info
  <2>2. curr_pgos'.event = curr_pgos.event /\ curr_pgos # NoPgos
    BY <1>4
  <2>3. quiet >= ReadyRetries /\ "READY_UPDATED" \notin proginfo.status
    BY <1>1, <1>3, <2>1, <2>2 DEF WInv, LeftWaiting
  <2> QED BY <1>1, <1>5, <2>3
<1> QED BY <1>7, <1>8, <1>9, <1>10 DEF WInv

LEMMA WaitWaits == KInv /\ WInv /\ CheckPi /\ Wait => WInv'
<1> SUFFICES ASSUME KInv, WInv, CheckPi, Wait PROVE WInv' OBVIOUS
<1> DEFINE s == StreamTimeinfo(proginfo)
<1>1. /\ s.event_id = proginfo.event_id
      /\ s.status \cap (Get \cup {"READY_UPDATED"}) = proginfo.status \cap (Get \cup {"READY_UPDATED"})
  BY KInvParts DEF StreamTimeinfo, Proginfo, Get
<1>2. /\ ~nosplit /\ ~nosplit' /\ proginfo' = s /\ on_air' = on_air
      /\ proginfo_retry_count < ReadyRetries
      /\ proginfo_retry_count' = proginfo_retry_count + 1
      /\ UNCHANGED output
      /\ "READY_UPDATED" \notin proginfo.status
      /\ quiet' = IF quiet < ReadyRetries THEN quiet + 1 ELSE quiet
  BY <1>1 DEF CheckPi, Wait, Outdated
<1> HIDE DEF s
<1>3. /\ quiet \in 0 .. ReadyRetries /\ proginfo_retry_count <= quiet
      /\ proginfo_retry_count \in Nat /\ ReadyRetries \in Nat
  BY <1>2, KInvParts, ProgCheckAssumption DEF WInv, Patient, Counts, Latest
<1>4. Patient'  BY <1>2, <1>3 DEF Patient
<1>5. Fresh'  BY <1>1, <1>2 DEF Fresh, WInv, Ready, Get
<1>6. Ordered'  BY <1>1, <1>2 DEF Ordered, WInv, output, Get
<1>7. LeftWaiting'  BY <1>2, <1>3 DEF LeftWaiting, WInv, output
<1> QED BY <1>4, <1>5, <1>6, <1>7 DEF WInv

LEMMA CheckSiWaits == KInv /\ WInv /\ CheckSi => WInv'
<1> SUFFICES ASSUME KInv, WInv, CheckSi PROVE WInv' OBVIOUS
<1>1. nosplit' /\ proginfo' = StreamTimeinfo(proginfo)
  BY DEF CheckSi
<1>2. Fresh'
  BY <1>1, KInvParts DEF StreamTimeinfo, Proginfo, Fresh, WInv, Ready, Get
<1> QED BY <1>1, <1>2 DEF WInv, Patient, LeftWaiting

LEMMA WInvNext == KInv /\ WInv /\ [Next]_vars => WInv'
<1> SUFFICES ASSUME KInv, WInv, [Next]_vars PROVE WInv' OBVIOUS
<1>1. CASE UNCHANGED vars
  BY <1>1 DEF vars, world, counts, output, WInv, Patient, Fresh, Ordered, LeftWaiting
<1>2. CASE Ended
  BY <1>2 DEF Ended, world, counts, WInv, Patient, Fresh, Ordered, LeftWaiting
<1> QED BY <1>1, <1>2, AirWaits, ParseWaits, DecideWaits, WaitWaits, CheckSiWaits
        DEF Next, Check, CheckPi

(* No event is cut in two, and no programme is begun without information,  *)
(* before ts_check_pi has found nothing new in as many checks in a row as  *)
(* make 15 seconds, whatever the order in which the tables come.           *)
THEOREM SplitsAreOfNews == Spec => SplitsOnlyOnNews
<1> DEFINE Splits == ~nosplit /\ n_pgos' > n_pgos /\ curr_pgos.event # NoEvent
                       /\ curr_pgos'.event \in {NoEvent, curr_pgos.event}
                       => quiet >= ReadyRetries
<1>1. KInv /\ WInv /\ [Next]_vars => [Splits]_vars
  <2> SUFFICES ASSUME KInv, WInv, Next, ~nosplit, n_pgos' > n_pgos,
                      curr_pgos.event # NoEvent,
                      curr_pgos'.event \in {NoEvent, curr_pgos.event}
               PROVE  quiet >= ReadyRetries
    BY DEF vars, output
  <2>1. n_pgos \in Int  BY KInvParts DEF Programmes
  <2>2. CheckPi /\ Decide
    BY <2>1 DEF Next, OnAir, Received, Event, Check, CheckPi, CheckSi, Ended, Wait, output
  <2>3. PICK pi : pi = Considered(StreamTimeinfo(proginfo))  OBVIOUS
  <2>4. pi \in Proginfo /\ Numbered(pi)  BY <2>3, TimeinfoKeeps, KInvParts
  <2>5. /\ Ready(pi) => pi.event_id = proginfo.event_id /\ "EVENT_INFO" \in proginfo.status
        /\ \/ Ready(pi)
           \/ quiet >= ReadyRetries
           \/ last_proginfo.event = NoEvent /\ curr_pgos # NoPgos
    BY <2>2, <2>3, ConsideredFacts
  <2>6. ProgChanged(pi) /\ (InfoChanged(pi) \/ WithoutInfo(pi))
    BY <2>1, <2>2, <2>3 DEF Decide, SameProg
  <2>7. curr_pgos' = Info(pi)  BY <2>1, <2>6 DEF ProgChanged
  <2>8. CASE ~Ready(pi)
    BY <2>5, <2>8 DEF WInv, LeftWaiting
  <2>9. CASE Ready(pi)
    <3>1. Info(pi).event = proginfo.event_id /\ Info(pi).event # NoEvent
      BY <2>4, <2>5, <2>9, InfoFacts
    <3>2. curr_pgos.event = proginfo.event_id  BY <2>7, <3>1
    <3>3. curr_pgos # NoPgos
      BY <2>4, <2>7, <3>1, <3>2, InfoFacts, ProgInfoAssumption DEF NoPgos
    <3>4. last_proginfo.event # proginfo.event_id
      BY <2>6, <2>9, <3>1, <3>3 DEF InfoChanged, WithoutInfo
    <3>5. last_proginfo.event = NoEvent
      <4>1. /\ last_proginfo.event <= proginfo.event_id
            /\ last_proginfo.event # NoEvent => curr_pgos.event <= last_proginfo.event
        BY <2>5, <2>9 DEF WInv, Ordered
      <4>2. last_proginfo.event \in Int /\ proginfo.event_id \in Int
        BY KInvParts DEF Programmes, Proginfo
      <4> QED BY <3>2, <3>4, <4>1, <4>2
    <3> QED BY <3>2, <3>1, <3>3, <3>5 DEF WInv, LeftWaiting
  <2> QED BY <2>8, <2>9
<1>2. Init => WInv  BY WInvInit
<1>3. KInv /\ WInv /\ [Next]_vars => WInv'  BY WInvNext
<1>4. Spec => []KInv  BY KnownInvariant
<1> QED BY <1>1, <1>2, <1>3, <1>4, PTL DEF Spec, SplitsOnlyOnNews

-----------------------------------------------------------------------------
(***************************************************************************)
(* One split in an hour.  The hours that the clocks and what is kept of    *)
(* them show are the present hour, which the clock that is ahead shows,    *)
(* and the one before; and the present one only, once a check has found it *)
(* with all of them (Clocks).  So that the hour of the last change is not  *)
(* behind the present one then (Dated), and the clock that lags finds no   *)
(* hour to have passed; unless that number of the hour makes a jump, at    *)
(* midnight.                                                               *)
(***************************************************************************)
OneDay == FirstHour \div 24 = LastHour \div 24

Present == Latest(sys, air)

Near(h) == h \in {Present - 1, Present} /\ (settled => h = Present)

Clocks ==
  /\ Near(sys)
  /\ stream.time => Near(air)
  /\ ~stream.time => air = FirstHour /\ proginfo.status \cap {"TOT", "VALID_PCR"} = {}
  /\ "TOT" \in proginfo.status => Near(proginfo.TOT_time)
  /\ "VALID_PCR" \in proginfo.status => Near(proginfo.PCR_base.hour)

(* The hour of the last change, while nothing is known of any event.       *)
Dating(c) ==
  /\ last_progchange_timenum = Timenum(c)
  /\ ~astray => /\ split_at <= c
                /\ c \in (IF settled THEN {Present, Present + 1} ELSE {Present - 1, Present})

Dated ==
  ~nosplit /\ ~LastReady /\ curr_pgos # NoPgos => \E c \in Hours : Dating(c)

SplitKnown ==
  split_at \in {-1} \cup Hours /\ split_at <= Present /\ (LastReady => split_at = -1)

DInv == Clocks /\ Dated /\ SplitKnown

(* Within a day the numbers of the hours are as far apart as the hours.    *)
LEMMA HoursOfADay ==
  ASSUME OneDay, NEW a \in Hours, NEW b \in Hours
  PROVE  a \in Nat /\ b \in Nat /\ Timenum(a) \in Nat /\ Timenum(b) = Timenum(a) + (b - a)
<1>1. /\ FirstHour \in Nat /\ LastHour \in Nat /\ a \in Nat /\ b \in Nat
      /\ FirstHour <= a /\ a <= LastHour /\ FirstHour <= b /\ b <= LastHour
  BY ProgInfoAssumption DEF Hours
<1>2. a \div 24 = FirstHour \div 24 /\ b \div 24 = FirstHour \div 24
  BY <1>1 DEF OneDay
<1>3. a = 24 * (a \div 24) + (a % 24) /\ b = 24 * (b \div 24) + (b % 24)
  BY <1>1
<1> QED  BY <1>1, <1>2, <1>3 DEF Timenum

(* What the clocks show.                                                   *)
LEMMA ShownIs ==
  ASSUME stream.time \in BOOLEAN, NEW pi, NEW h
  PROVE  h \in Shown(pi) <=>
           \/ h = sys
           \/ stream.time /\ h = air
           \/ "TOT" \in pi.status /\ h = pi.TOT_time
           \/ "VALID_PCR" \in pi.status /\ h = pi.PCR_base.hour
BY DEF Shown

LEMMA PresentIs ==
  KInv => /\ sys \in Nat /\ air \in Nat /\ FirstHour \in Nat
          /\ Present \in Hours /\ Present \in Nat /\ stream.time \in BOOLEAN
          /\ sys >= FirstHour
BY KInvParts, ProgInfoAssumption DEF World, Hours, Present, Latest

LEMMA DInvInit == Init => DInv
<1> SUFFICES ASSUME Init PROVE DInv OBVIOUS
<1>1. KInv  BY KInvInit
<1>2. Present = FirstHour /\ Near(sys) /\ Near(air)
  BY <1>1, PresentIs DEF Init, ProgInfoInit, Present, Latest, Near
<1>3. Clocks
  BY <1>2 DEF Init, ProgInfoInit, InitProginfo, Clocks
<1>4. Dated /\ SplitKnown
  BY <1>1, <1>2, PresentIs
  DEF Init, ProgInfoInit, InitProginfo, Dated, SplitKnown, LastReady, Info, Ready, Get, NoEvent
<1> QED  BY <1>3, <1>4 DEF DInv

(* The clock that is behind goes on, or both when they were found to show  *)
(* the same.                                                               *)
LEMMA AirDates == KInv /\ DInv /\ OnAir => DInv'
<1> SUFFICES ASSUME KInv, DInv, OnAir PROVE DInv' OBVIOUS
<1>1. UNCHANGED <<proginfo, nosplit, counts, output, stream>>
  BY DEF OnAir, Air, NextEvent, NextVersion, SysHour, AirHour, Break
<1>2. /\ sys \in Nat /\ air \in Nat /\ FirstHour \in Nat /\ sys >= FirstHour
      /\ Present \in Nat /\ stream.time \in BOOLEAN
  BY PresentIs
<1>3. /\ Near(sys) /\ (stream.time => Near(air)) /\ (~stream.time => air = FirstHour)
  BY DEF DInv, Clocks
<1> DEFINE Stays == UNCHANGED <<sys, air, settled>>
           Follows == ~settled /\ ~settled' /\ Present' = Present
           GoesOn == settled /\ ~settled' /\ Present' = Present + 1
<1>4. /\ Stays \/ Follows \/ GoesOn
      /\ Near(sys)' /\ (stream.time => Near(air)') /\ (~stream.time => air' = FirstHour)
  <2>1. CASE NextEvent \/ NextVersion \/ Break
    BY <1>3, <2>1 DEF NextEvent, NextVersion, Break, Near, Present
  <2>2. CASE SysHour
    BY <1>2, <1>3, <2>2 DEF SysHour, Near, Present, Latest
  <2>3. CASE AirHour
    BY <1>2, <1>3, <2>3 DEF AirHour, Near, Present, Latest
  <2> QED  BY <2>1, <2>2, <2>3 DEF OnAir, Air
<1>5. Present' \in Nat
  BY <1>2, <1>4 DEF Present
<1> HIDE DEF Stays
<1>6. ASSUME NEW h, Near(h)
      PROVE  h \in {Present' - 1, Present'} /\ (settled' => h = Present')
  <2>1. CASE Stays  BY <1>6, <2>1 DEF Stays, Near, Present
  <2>2. CASE Follows \/ GoesOn  BY <1>2, <1>6, <2>2 DEF Near
  <2> QED  BY <1>4, <2>1, <2>2
<1>7. Clocks'
  BY <1>1, <1>4, <1>6 DEF DInv, Clocks, Near
<1>8. Dated'
  <2> SUFFICES ASSUME ~nosplit, ~LastReady, curr_pgos # NoPgos
               PROVE  \E c \in Hours : Dating(c)'
    BY <1>1 DEF output, Dated, LastReady
  <2>1. PICK c \in Hours : Dating(c)
    BY DEF DInv, Dated
  <2>2. ~astray => c \in (IF settled' THEN {Present', Present' + 1} ELSE {Present' - 1, Present'})
    <3>1. CASE Stays  BY <2>1, <3>1 DEF Stays, Present, Dating
    <3>2. CASE Follows \/ GoesOn  BY <1>2, <2>1, <3>2 DEF Dating
    <3> QED  BY <1>4, <3>1, <3>2
  <2> QED  BY <1>1, <2>1, <2>2 DEF Dating, output
<1>9. SplitKnown'
  <2>1. Present' >= Present
    BY <1>2, <1>4 DEF Stays, Present
  <2>2. split_at \in Int
    BY ProgInfoAssumption DEF DInv, SplitKnown, Hours
  <2> QED  BY <1>1, <1>2, <1>5, <2>1, <2>2 DEF DInv, SplitKnown, output, LastReady
<1> QED  BY <1>7, <1>8, <1>9 DEF DInv

(* What is stored of a clock is what it shows.                             *)
LEMMA ParseDates ==
  KInv /\ DInv /\ (Received(Parse) \/ \E short \in BOOLEAN : Event(short)) => DInv'
<1> SUFFICES ASSUME KInv, DInv,
                    Received(Parse) \/ \E short \in BOOLEAN : Event(short)
             PROVE  DInv'
  OBVIOUS
<1>1. UNCHANGED <<world, nosplit, counts, output, quiet>>
  BY DEF Received, Event, Parse, ParsePat, ParseSdt, ParsePcr, ParseTot, ParseEit, Store, IsListed
<1>2. proginfo \in Proginfo
  BY KInvParts
<1>3. /\ "TOT" \in proginfo'.status =>
           \/ "TOT" \in proginfo.status /\ proginfo'.TOT_time = proginfo.TOT_time
           \/ stream.time /\ proginfo'.TOT_time = air
      /\ "VALID_PCR" \in proginfo'.status =>
           \/ "VALID_PCR" \in proginfo.status /\ proginfo'.PCR_base.hour = proginfo.PCR_base.hour
           \/ stream.time /\ proginfo'.PCR_base.hour = air
  <2>1. CASE ParsePat  BY <1>2, <2>1 DEF ParsePat, Store, Proginfo
  <2>2. CASE ParseSdt  BY <1>2, <2>2 DEF ParseSdt, Store, Proginfo
  <2>3. CASE ParsePcr
    <3>1. PICK status \in {proginfo.status \cup {"VALID_PCR", "PCR_UPDATED"},
                           proginfo.status \ {"VALID_PCR"}} :
            proginfo' = [proginfo EXCEPT !.PCR_base = [break |-> breaks, hour |-> air],
                                         !.status = status]
      BY <2>3 DEF ParsePcr, Store
    <3> QED BY <1>2, <2>3, <3>1 DEF Proginfo, ParsePcr
  <2>4. CASE ParseTot
    <3>1. PICK pcr \in {proginfo.PCR_base.break, proginfo.TOT_PCR},
               new \in SUBSET {"TOT", "TOT_UPDATED", "VALID_TOT_PCR"} :
            proginfo' = [proginfo EXCEPT !.TOT_time = air, !.TOT_PCR = pcr,
                              !.status = (proginfo.status \ {"VALID_TOT_PCR"}) \cup new]
      <4>1. PICK new : new = {"TOT", "TOT_UPDATED"}
                         \cup (IF "VALID_PCR" \in proginfo.status THEN {"VALID_TOT_PCR"} ELSE {})
        OBVIOUS
      <4>2. PICK pcr : pcr = IF "VALID_PCR" \in proginfo.status THEN proginfo.PCR_base.break
                             ELSE proginfo.TOT_PCR
        OBVIOUS
      <4> QED BY <2>4, <4>1, <4>2 DEF ParseTot, Store
    <3> QED BY <1>2, <2>4, <3>1 DEF Proginfo, ParseTot
  <2>5. ASSUME NEW short \in BOOLEAN, Event(short)
        PROVE  /\ proginfo'.status \cap TimeInfo = proginfo.status \cap TimeInfo
               /\ proginfo'.TOT_time = proginfo.TOT_time /\ proginfo'.PCR_base = proginfo.PCR_base
    <3> DEFINE body == StoreEitBody(proginfo, on_air)
    <3>1. proginfo' = body \/ proginfo' = StoreEitSed(body)
      BY <2>5 DEF Event, Received, ParseEit, Store
    <3>2. /\ body.status \cap TimeInfo = proginfo.status \cap TimeInfo
          /\ body.TOT_time = proginfo.TOT_time /\ body.PCR_base = proginfo.PCR_base
      BY <1>2 DEF StoreEitBody, ClearProginfoAll, Proginfo, TimeInfo
    <3>3. body \in Proginfo
      BY EitKeeps, KInvParts DEF World
    <3> HIDE DEF body
    <3>4. PICK new \in SUBSET {"SHORT_TEXT", "READY_UPDATED"} :
            proginfo' = [body EXCEPT !.status = body.status \cup new]
      <4>1. body = [body EXCEPT !.status = body.status \cup {}]
        BY <3>3 DEF Proginfo
      <4>2. StoreEitSed(body) = [body EXCEPT !.status = body.status \cup {"SHORT_TEXT"}]
              \/ StoreEitSed(body) = [body EXCEPT !.status = body.status \cup {"SHORT_TEXT", "READY_UPDATED"}]
        BY <3>3 DEF StoreEitSed, Proginfo
      <4> QED  BY <3>1, <4>1, <4>2
    <3> QED  BY <3>2, <3>3, <3>4 DEF Proginfo, TimeInfo
  <2> QED  BY <2>1, <2>2, <2>3, <2>4, <2>5 DEF Received, Parse, TimeInfo
<1>4. Clocks'
  <2>1. stream.time \in BOOLEAN  BY PresentIs
  <2> QED  BY <1>1, <1>3, <2>1 DEF DInv, Clocks, Near, Present, world
<1> QED  BY <1>1, <1>4 DEF DInv, Dated, SplitKnown, Dating, Present, LastReady, world, output

(* A check drops what is too old, and shows no more than there was.        *)
LEMMA ConsideredShows ==
  ASSUME proginfo \in Proginfo,
         NEW pi, pi = StreamTimeinfo(proginfo) \/ pi = Considered(StreamTimeinfo(proginfo))
  PROVE  /\ pi.status \subseteq proginfo.status
         /\ pi.TOT_time = proginfo.TOT_time /\ pi.PCR_base = proginfo.PCR_base
<1>1. PICK s : s = StreamTimeinfo(proginfo)
  OBVIOUS
<1>2. /\ s \in Proginfo /\ s.status \subseteq proginfo.status
      /\ s.TOT_time = proginfo.TOT_time /\ s.PCR_base = proginfo.PCR_base
  BY <1>1 DEF StreamTimeinfo, Proginfo, Flags, Get, TimeInfo
<1>3. CASE pi = s
  BY <1>2, <1>3
<1>4. CASE pi = Considered(s)
  BY <1>2, <1>4 DEF Considered, ClearProginfoAll, Proginfo
<1> QED  BY <1>1, <1>3, <1>4

LEMMA ShowsLess ==
  ASSUME KInv, Clocks, NEW pi,
         pi = StreamTimeinfo(proginfo) \/ pi = Considered(StreamTimeinfo(proginfo)),
         proginfo' = pi, UNCHANGED <<stream, sys, air>>,
         settled' => settled \/ Agree(pi)
  PROVE  Clocks'
<1>1. /\ proginfo'.status \subseteq proginfo.status
      /\ proginfo'.TOT_time = proginfo.TOT_time /\ proginfo'.PCR_base = proginfo.PCR_base
  BY ConsideredShows, KInvParts
<1>2. Present' = Present /\ Present \in Nat /\ stream.time \in BOOLEAN
      /\ sys \in Nat /\ air \in Nat /\ FirstHour \in Nat /\ sys >= FirstHour
  BY PresentIs DEF Present
<1>3. CASE settled' => settled
  BY <1>1, <1>2, <1>3 DEF Clocks, Near
<1>4. CASE Agree(pi)
  <2>1. \A h : h \in Shown(pi) => h = sys
    BY <1>4 DEF Agree
  <2>2. /\ stream.time => air = sys
        /\ "TOT" \in pi.status => pi.TOT_time = sys
        /\ "VALID_PCR" \in pi.status => pi.PCR_base.hour = sys
    BY <1>2, <2>1, ShownIs
  <2>3. sys = Present
    BY <1>2, <2>2 DEF Clocks, Present, Latest
  <2> QED  BY <1>1, <1>2, <2>2, <2>3 DEF Clocks, Near
<1> QED  BY <1>3, <1>4

(* The hour by which a check goes is shown, unless it is dated by PCRs of  *)
(* two counts.                                                             *)
LEMMA CurrHourIs ==
  ASSUME KInv, Clocks, NEW pi, pi = Considered(StreamTimeinfo(proginfo)), NEW h \in CurrHours(pi)
  PROVE  /\ h \in Hours
         /\ ~Astray(pi) => Near(h)
         /\ Agree(pi) => h = Present
<1>1. /\ pi.status \subseteq proginfo.status
      /\ pi.TOT_time = proginfo.TOT_time /\ pi.PCR_base = proginfo.PCR_base
  BY ConsideredShows, KInvParts
<1>2. /\ Present \in Nat /\ stream.time \in BOOLEAN /\ sys \in Nat /\ air \in Nat
      /\ FirstHour \in Nat /\ sys >= FirstHour /\ sys \in Hours
  BY PresentIs, KInvParts DEF World
<1>3. h \in Hours
  BY <1>1, <1>2, KInvParts DEF CurrHours, Proginfo
<1>4. ASSUME ~Astray(pi)
      PROVE  h \in Shown(pi) /\ Near(h)
  <2>1. \/ h = sys
        \/ "TOT" \in pi.status /\ h = pi.TOT_time
        \/ "VALID_PCR" \in pi.status /\ h = pi.PCR_base.hour
    BY <1>4 DEF CurrHours, ReadyTimestamp, TimeInfo
  <2> QED  BY <1>1, <1>2, <2>1, ShownIs DEF Clocks
<1>5. ASSUME Agree(pi)
      PROVE  h = Present
  <2>1. ~Astray(pi) /\ \A g : g \in Shown(pi) => g = sys
    BY <1>5 DEF Agree
  <2>2. h = sys /\ (stream.time => air = sys)
    BY <1>2, <1>4, <2>1, ShownIs
  <2> QED  BY <1>2, <2>2 DEF Clocks, Present, Latest
<1> QED  BY <1>3, <1>4, <1>5

(* When the last change is dated by the present hour or the one before, an *)
(* hour that passed is the present one.                                    *)
LEMMA PassedIs ==
  ASSUME OneDay, KInv, NEW c \in Hours, Dating(c), ~astray, NEW h \in Hours
  PROVE  /\ Near(h) /\ HourPassed(h) => h = Present /\ c = Present - 1
<1>1. PICK n \in Nat : n = Present
  BY PresentIs
<1>2. PICK a, b \in Nat : /\ a = Timenum(c) /\ b = Timenum(h) /\ b = a + (h - c)
  BY HoursOfADay
<1>3. h \in Nat /\ c \in Nat
  BY HoursOfADay
<1>4. HourPassed(h) <=> b > a \/ b < a - 1
  BY <1>2 DEF HourPassed, Dating
<1>5. c \in {n - 1, n, n + 1} /\ (settled => c # n - 1) /\ (~settled => c # n + 1)
  BY <1>1, <1>3 DEF Dating
<1>6. Near(h) => h \in {n - 1, n} /\ (settled => h = n)
  BY <1>1 DEF Near
<1> QED  BY <1>1, <1>2, <1>3, <1>4, <1>5, <1>6

LEMMA NotPassedIs ==
  ASSUME OneDay, KInv, NEW c \in Hours, Dating(c), ~HourPassed(Present)
  PROVE  c \in {Present, Present + 1}
<1>1. PICK n \in Nat : n = Present /\ n \in Hours
  BY PresentIs
<1>2. PICK a, b \in Nat : /\ a = Timenum(c) /\ b = Timenum(n) /\ b = a + (n - c)
  BY <1>1, HoursOfADay
<1>3. c \in Nat
  BY HoursOfADay
<1>4. ~(b > a) /\ ~(b < a - 1)
  BY <1>1, <1>2 DEF HourPassed, Dating
<1>5. c \in {n, n + 1}
  BY <1>1, <1>2, <1>3, <1>4
<1> QED  BY <1>1, <1>5

LEMMA WaitDates == KInv /\ DInv /\ CheckPi /\ Wait => DInv'
<1> SUFFICES ASSUME KInv, DInv, CheckPi, Wait PROVE DInv' OBVIOUS
<1>1. /\ UNCHANGED <<stream, sys, air, settled, nosplit, output>>
      /\ proginfo' = StreamTimeinfo(proginfo)
  BY DEF CheckPi, Wait
<1>2. Clocks'
  BY <1>1, ShowsLess DEF DInv
<1> QED  BY <1>1, <1>2 DEF DInv, Dated, SplitKnown, Dating, Present, LastReady, output

LEMMA CheckSiDates == KInv /\ DInv /\ CheckSi => DInv'
<1> SUFFICES ASSUME KInv, DInv, CheckSi PROVE DInv' OBVIOUS
<1>1. /\ UNCHANGED <<world, nosplit, last_proginfo, split_at>>
      /\ proginfo' = StreamTimeinfo(proginfo) /\ nosplit
  BY DEF CheckSi
<1>2. Clocks'
  BY <1>1, ShowsLess DEF DInv, world
<1> QED  BY <1>1, <1>2 DEF DInv, Dated, SplitKnown, Present, LastReady, world

(* A check that does not wait.                                             *)
LEMMA DecideDates == OneDay /\ KInv /\ DInv /\ CheckPi /\ Decide => DInv'
<1> SUFFICES ASSUME OneDay, KInv, DInv, CheckPi, Decide PROVE DInv' OBVIOUS
<1>1. PICK pi : pi = Considered(StreamTimeinfo(proginfo))
  OBVIOUS
<1>2. PICK h \in CurrHours(pi) :
        LET hourly == WithoutInfo(pi) /\ HourPassed(h)
            change == InfoChanged(pi) \/ hourly
        IN  /\ astray' = (~Agree(pi) /\ (astray \/ (change /\ Astray(pi))))
            /\ IF change
               THEN /\ last_progchange_timenum' = Timenum(h)
                    /\ ProgChanged(pi)
                    /\ split_at' = IF hourly THEN Latest(sys, air) ELSE -1
               ELSE /\ SameProg(pi)
                    /\ UNCHANGED <<last_progchange_timenum, split_at>>
  BY <1>1 DEF Decide
<1>3. PICK hourly \in BOOLEAN : hourly = (WithoutInfo(pi) /\ HourPassed(h))
  BY DEF WithoutInfo
<1>4. PICK change \in BOOLEAN : change = (InfoChanged(pi) \/ hourly)
  BY <1>3 DEF InfoChanged
<1>5. /\ astray' = (~Agree(pi) /\ (astray \/ (change /\ Astray(pi))))
      /\ change => /\ last_progchange_timenum' = Timenum(h) /\ ProgChanged(pi)
                   /\ split_at' = IF hourly THEN Present ELSE -1
      /\ ~change => SameProg(pi) /\ UNCHANGED <<last_progchange_timenum, split_at>>
  BY <1>2, <1>3, <1>4 DEF Present
<1>6. /\ UNCHANGED <<stream, sys, air, nosplit>> /\ ~nosplit
      /\ proginfo' = pi /\ last_proginfo' = Info(pi) /\ settled' = (settled \/ Agree(pi))
      /\ Present' = Present
  BY <1>1 DEF CheckPi, Decide, Present
<1>7. /\ Present \in Nat /\ Present \in Hours /\ pi \in Proginfo /\ Numbered(pi)
  BY <1>1, PresentIs, TimeinfoKeeps, KInvParts
<1>8. h \in Hours /\ (~Astray(pi) => Near(h)) /\ (Agree(pi) => h = Present)
  BY <1>1, CurrHourIs DEF DInv
<1>9. Clocks'
  BY <1>1, <1>6, ShowsLess DEF DInv
<1>10. (LastReady' <=> Info(pi).event # NoEvent) /\ (Ready(pi) <=> LastReady')
  BY <1>6, <1>7, InfoFacts DEF LastReady, Info
<1>11. SplitKnown'
  <2>1. CASE change /\ hourly
    <3>1. ~LastReady'  BY <1>3, <1>10, <2>1 DEF WithoutInfo
    <3> QED  BY <1>5, <1>6, <1>7, <2>1, <3>1 DEF SplitKnown
  <2>2. CASE change /\ ~hourly
    BY <1>5, <1>6, <1>7, <2>2 DEF SplitKnown
  <2>3. CASE ~change
    <3>1. Info(pi).event = last_proginfo.event
      BY <1>4, <2>3 DEF InfoChanged
    <3>2. LastReady' => LastReady
      BY <1>10, <3>1 DEF LastReady
    <3> QED  BY <1>5, <1>6, <2>3, <3>2 DEF SplitKnown, DInv
  <2> QED  BY <2>1, <2>2, <2>3
<1>12. Dated'
  <2> SUFFICES ASSUME ~LastReady', curr_pgos' # NoPgos
               PROVE  \E c \in Hours : Dating(c)'
    BY <1>6 DEF Dated
  <2>1. CASE change
    <3>1. ~astray' => Agree(pi) \/ (~astray /\ ~Astray(pi))
      BY <1>5, <2>1
    <3>2. ~astray' => Near(h) \/ (Agree(pi) /\ h = Present)
      BY <1>8, <3>1
    <3>3. ~astray' => h \in (IF settled' THEN {Present, Present + 1} ELSE {Present - 1, Present})
      BY <1>6, <1>8, <3>2 DEF Near
    <3>4. ~astray' => split_at' <= h
      <4>1. CASE hourly
        <5> SUFFICES ASSUME ~astray' PROVE h = Present
          BY <1>5, <1>7, <2>1, <4>1
        <5>1. CASE Agree(pi)
          BY <1>8, <5>1
        <5>2. CASE ~astray /\ ~Astray(pi)
          <6>1. ~LastReady /\ curr_pgos # NoPgos /\ HourPassed(h)
            BY <1>3, <4>1 DEF WithoutInfo
          <6>2. PICK c \in Hours : Dating(c)
            BY <1>6, <6>1 DEF DInv, Dated
          <6> QED  BY <1>8, <5>2, <6>1, <6>2, PassedIs
        <5> QED  BY <3>1, <5>1, <5>2
      <4>2. CASE ~hourly
        <5>1. h \in Nat  BY <1>8, ProgInfoAssumption DEF Hours
        <5> QED  BY <1>5, <2>1, <4>2, <5>1
      <4> QED  BY <4>1, <4>2
    <3> QED  BY <1>5, <1>6, <1>8, <2>1, <3>3, <3>4 DEF Dating
  <2>2. CASE ~change
    <3>1. ~LastReady /\ curr_pgos # NoPgos /\ ~HourPassed(h)
      <4>1. Info(pi).event = last_proginfo.event /\ ~(~LastReady /\ curr_pgos = NoPgos)
        BY <1>4, <2>2 DEF InfoChanged
      <4>2. ~LastReady /\ ~Ready(pi)
        BY <1>10, <4>1 DEF LastReady
      <4> QED  BY <1>3, <1>4, <2>2, <4>1, <4>2 DEF WithoutInfo
    <3>2. PICK c \in Hours : Dating(c)
      BY <1>6, <3>1 DEF DInv, Dated
    <3>3. CASE Agree(pi)
      <4>1. c \in {Present, Present + 1}
        BY <1>8, <3>1, <3>2, <3>3, NotPassedIs
      <4>2. split_at <= c
        <5>1. split_at <= Present /\ split_at \in Int
          BY ProgInfoAssumption DEF DInv, SplitKnown, Hours
        <5> QED  BY <1>7, <4>1, <5>1
      <4> QED  BY <1>5, <1>6, <2>2, <3>2, <3>3, <4>1, <4>2 DEF Dating
    <3>4. CASE ~Agree(pi)
      <4>1. (astray' <=> astray) /\ (settled' <=> settled)
        BY <1>5, <1>6, <2>2, <3>4
      <4> QED  BY <1>5, <1>6, <2>2, <3>2, <4>1 DEF Dating
    <3> QED  BY <3>3, <3>4
  <2> QED  BY <2>1, <2>2
<1> QED  BY <1>9, <1>11, <1>12 DEF DInv

LEMMA DInvNext == OneDay /\ KInv /\ DInv /\ [Next]_vars => DInv'
<1> SUFFICES ASSUME OneDay, KInv, DInv, [Next]_vars PROVE DInv' OBVIOUS
<1>1. CASE UNCHANGED vars
  BY <1>1 DEF vars, world, output, DInv, Clocks, Near, Dated, Dating, SplitKnown, Present, LastReady
<1>2. CASE Ended
  BY <1>2 DEF Ended, world, DInv, Clocks, Near, Dated, Dating, SplitKnown, Present, LastReady
<1> QED BY <1>1, <1>2, AirDates, ParseDates, DecideDates, WaitDates, CheckSiDates
        DEF Next, Check, CheckPi

(* While nothing is known of the events, the stream is split at most once  *)
(* in an hour, in the hours of one day, whichever clock ts_check_pi goes   *)
(* by at each check and however they lag behind each other; but for the    *)
(* changes that a break in the PCR misdates.  Over midnight it is not so.  *)
THEOREM OncePerHour ==
  ASSUME OneDay
  PROVE  Spec => HourlyOnce
<1> DEFINE Once == n_pgos' > n_pgos /\ curr_pgos.event = NoEvent /\ curr_pgos'.event = NoEvent
                     /\ ~astray /\ ~astray'
                     => split_at < Latest(sys, air)
<1>1. KInv /\ DInv /\ [Next]_vars => [Once]_vars
  <2> SUFFICES ASSUME KInv, DInv, Next, n_pgos' > n_pgos,
                      curr_pgos.event = NoEvent, curr_pgos'.event = NoEvent,
                      ~astray, ~astray'
               PROVE  split_at < Present
    BY DEF vars, output, Present
  <2>1. n_pgos \in Int /\ curr_pgos # NoPgos
    BY KInvParts DEF Programmes, NoPgos, NoEvent
  <2>2. CheckPi /\ Decide
    BY <2>1 DEF Next, OnAir, Received, Event, Check, CheckPi, CheckSi, Ended, Wait, output
  <2>3. PICK pi : pi = Considered(StreamTimeinfo(proginfo))
    OBVIOUS
  <2>4. PICK h \in CurrHours(pi) :
          /\ astray' = (~Agree(pi) /\ (astray \/ ((InfoChanged(pi) \/ (WithoutInfo(pi) /\ HourPassed(h)))
                                                 /\ Astray(pi))))
          /\ InfoChanged(pi) \/ (WithoutInfo(pi) /\ HourPassed(h)) \/ SameProg(pi)
          /\ ProgChanged(pi) \/ SameProg(pi)
    BY <2>2, <2>3 DEF Decide
  <2>5. /\ InfoChanged(pi) \/ (WithoutInfo(pi) /\ HourPassed(h))
        /\ curr_pgos' = Info(pi) /\ ~Astray(pi)
    <3>1. ~SameProg(pi)
      BY <2>1 DEF SameProg
    <3>2. curr_pgos' = Info(pi)
      BY <2>1, <2>4, <3>1 DEF ProgChanged
    <3>3. Agree(pi) => ~Astray(pi)
      BY DEF Agree
    <3> QED  BY <2>4, <3>1, <3>2, <3>3
  <2>6. /\ split_at \in Int /\ Present \in Nat /\ ~nosplit
        /\ h \in Hours /\ Near(h)
    BY <2>2, <2>3, <2>5, PresentIs, CurrHourIs, ProgInfoAssumption DEF DInv, SplitKnown, Hours, CheckPi
  <2>7. CASE LastReady
    BY <2>6, <2>7 DEF DInv, SplitKnown
  <2>8. CASE ~LastReady
    <3>1. HourPassed(h)
      BY <2>1, <2>5, <2>8 DEF InfoChanged, LastReady
    <3>2. PICK c \in Hours : Dating(c)
      BY <2>1, <2>6, <2>8 DEF DInv, Dated
    <3>3. c = Present - 1
      BY <2>6, <3>1, <3>2, PassedIs
    <3>4. split_at <= c
      BY <3>2 DEF Dating
    <3> QED  BY <2>6, <3>3, <3>4
  <2> QED  BY <2>7, <2>8
<1>2. Init => DInv  BY DInvInit
<1>3. KInv /\ DInv /\ [Next]_vars => DInv'  BY DInvNext
<1>4. Spec => []KInv  BY KnownInvariant
<1> QED  BY <1>1, <1>2, <1>3, <1>4, PTL DEF Spec, HourlyOnce
=============================================================================
