------------------------------ MODULE ProgCheck ------------------------------
(***************************************************************************)
(* core/ts_output.c: ts_check_pi and ts_check_si, which every 250 ms in    *)
(* which something was received decide, from what the parser keeps of the  *)
(* service, whether another programme has begun.                           *)
(*                                                                         *)
(* Of the programmes the latest is kept, and how many there are: PgOutput  *)
(* says what becomes of the others.                                        *)
(***************************************************************************)
EXTENDS ProgInfo

CONSTANTS
  MaxPgOverlap, \* MAX_PGOVERLAP
  ReadyRetries, \* 15 * 1000 / CHECK_INTERVAL
  SiRetries,    \* 5 * 1000 / CHECK_INTERVAL
  PcrRetries,   \* 1000 / CHECK_INTERVAL
  TotRetries    \* 120 * 1000 / CHECK_INTERVAL

ASSUME ProgCheckAssumption ==
  /\ MaxPgOverlap \in Nat \ {0}
  /\ ReadyRetries \in Nat /\ SiRetries \in Nat
  /\ PcrRetries \in Nat /\ TotRetries \in Nat

VARIABLES
  nosplit,                 \* param_nosplit
  last_proginfo,           \* what is compared of last_proginfo
  proginfo_retry_count, pcr_retry_count, tot_retry_count,
  last_progchange_timenum, \* its hour
  n_pgos,
  curr_pgos,               \* the latest programme: what its modules know of it
  \* history variables
  quiet,     \* the checks in a row that found no new information
  split_at,  \* the hour of the last hourly change
  skipped,   \* the last change was not acted on
  astray     \* a change was dated with PCRs of two counts, and the clocks have
             \* not been found to agree since

counts == <<proginfo_retry_count, pcr_retry_count, tot_retry_count>>
output == <<last_proginfo, last_progchange_timenum, n_pgos, curr_pgos,
            split_at, skipped, astray>>
vars   == <<world, proginfo, nosplit, counts, output, quiet>>

NoEvent == 0
NoPgos  == [event |-> -1, told |-> 0]

(* What the modules are told of the programme with information pi.         *)
Info(pi) == IF Ready(pi) THEN [event |-> pi.event_id, told |-> pi.version]
            ELSE [event |-> NoEvent, told |-> 0]

Init ==
  /\ ProgInfoInit
  /\ nosplit \in BOOLEAN
  /\ last_proginfo = Info(InitProginfo)
  /\ proginfo_retry_count = 0 /\ pcr_retry_count = 0 /\ tot_retry_count = 0
  /\ last_progchange_timenum = 0
  /\ n_pgos = 0 /\ curr_pgos = NoPgos
  /\ quiet = 0 /\ split_at = -1 /\ skipped = FALSE /\ astray = FALSE

-----------------------------------------------------------------------------
(* check_stream_timeinfo: a PCR that has not been updated for a second is  *)
(* no longer valid, nor a TOT that has not been for two minutes.           *)
PcrGone(pi) == "PCR_UPDATED" \notin pi.status /\ pcr_retry_count > PcrRetries
TotGone(pi) == "TOT_UPDATED" \notin pi.status /\ tot_retry_count > TotRetries

StreamTimeinfo(pi) ==
  [pi EXCEPT !.status =
     @ \ ({"PCR_UPDATED", "TOT_UPDATED"}
            \cup (IF PcrGone(pi) THEN {"VALID_PCR"} ELSE {})
            \cup (IF TotGone(pi) THEN {"TOT", "VALID_TOT_PCR"} ELSE {}))]

CountRetries(pi) ==
  /\ pcr_retry_count' = IF "PCR_UPDATED" \in pi.status THEN 0
                        ELSE IF PcrGone(pi) THEN pcr_retry_count ELSE pcr_retry_count + 1
  /\ tot_retry_count' = IF "TOT_UPDATED" \in pi.status THEN 0
                        ELSE IF TotGone(pi) THEN tot_retry_count ELSE tot_retry_count + 1

-----------------------------------------------------------------------------
(* The hour of choose_curr_timenum, as get_stream_timestamp_rough has it:  *)
(* the time of the TOT with what the PCR has counted since, which is any   *)
(* time when the two PCRs are of different counts; the time of the TOT; or *)
(* the system's.                                                           *)
Astray(pi) == ReadyTimestamp(pi) /\ pi.TOT_PCR # pi.PCR_base.break

CurrHours(pi) ==
  IF Astray(pi) THEN Hours
  ELSE IF ReadyTimestamp(pi) THEN {pi.PCR_base.hour}
  ELSE IF "TOT" \in pi.status THEN {pi.TOT_time}
  ELSE {sys}

(* timenum_timemjd and timenum64, without the minutes: the day is followed *)
(* by two digits for the hour.                                             *)
Timenum(h) == (h \div 24) * 100 + (h % 24)

(* Mutant of HourPassed: a clock that is behind by an hour counts, too.    *)
HourPassedEither(h) == Timenum(h) # last_progchange_timenum

(* Mutant of HourPassed: the bound for going back is used for both ways.   *)
HourPassedByTwo(h) ==
  \/ Timenum(h) > last_progchange_timenum + 1
  \/ Timenum(h) < last_progchange_timenum - 1

HourPassed(h) ==
  \/ Timenum(h) > last_progchange_timenum
  \/ Timenum(h) < last_progchange_timenum - 1

-----------------------------------------------------------------------------
(* ts_prog_changed.  The modules of the programme so far are given         *)
(* last_proginfo, those of the new one what is known now.                  *)

(* Mutant of Skipped: one more than there are slots.                       *)
SkippedLate == n_pgos > MaxPgOverlap

Skipped == n_pgos >= MaxPgOverlap

ProgChanged(pi) ==
  /\ n_pgos' = IF Skipped THEN n_pgos ELSE n_pgos + 1
  /\ curr_pgos' = IF Skipped THEN curr_pgos ELSE Info(pi)
  /\ skipped' = Skipped

(* proginfo_cmp of what there was at the last check and what there is now. *)
Differs(pi) == last_proginfo # Info(pi)

(* do_pgoutput_changed, when the same event's information has changed.     *)

(* Mutant of SameProg: the modules are not told.                           *)
SameProgUntold(pi) == UNCHANGED <<curr_pgos, n_pgos, skipped>>

SameProg(pi) ==
  /\ curr_pgos' = IF curr_pgos # NoPgos /\ Ready(pi) /\ last_proginfo.event # NoEvent
                     /\ Differs(pi)
                  THEN [curr_pgos EXCEPT !.told = pi.version] ELSE curr_pgos
  /\ UNCHANGED <<n_pgos, skipped>>

-----------------------------------------------------------------------------
(* ts_check_pi.                                                            *)
LastReady == last_proginfo.event # NoEvent

(* Mutant of Outdated: it is what is known now that has to be complete.    *)
OutdatedWhenReady(pi) ==
  "READY_UPDATED" \notin pi.status /\ (Ready(pi) \/ curr_pgos = NoPgos)

Outdated(pi) ==
  "READY_UPDATED" \notin pi.status /\ (LastReady \/ curr_pgos = NoPgos)

Wait ==
  LET pi == StreamTimeinfo(proginfo)
  IN  /\ Outdated(pi)
      /\ proginfo_retry_count < ReadyRetries
      /\ proginfo_retry_count' = proginfo_retry_count + 1
      /\ proginfo' = pi
      /\ UNCHANGED <<output, settled>>

(* What the check goes by when it does not wait.                           *)
Considered(pi) ==
  LET known == IF Outdated(pi) THEN ClearProginfoAll(pi) ELSE pi
  IN  [known EXCEPT !.status = @ \ {"READY_UPDATED"}]

(* Neither had the last programme information nor is there any now.        *)
WithoutInfo(pi) == ~Ready(pi) /\ ~LastReady /\ curr_pgos # NoPgos

(* Mutant of InfoChanged: information that comes or goes is not noticed.   *)
InfoChangedOnEvent(pi) ==
  \/ LastReady /\ Ready(pi) /\ last_proginfo.event # pi.event_id
  \/ ~LastReady /\ curr_pgos = NoPgos

(* Another event, information that came or went, or nothing recorded yet.  *)
InfoChanged(pi) ==
  \/ last_proginfo.event # Info(pi).event
  \/ ~LastReady /\ curr_pgos = NoPgos

Latest(a, b) == IF a > b THEN a ELSE b

(* All clocks and what is kept of them show the same hour.                 *)
Agree(pi) == Shown(pi) = {sys} /\ ~Astray(pi)

Decide ==
  LET pi == Considered(StreamTimeinfo(proginfo))
  IN  /\ ~Outdated(StreamTimeinfo(proginfo)) \/ proginfo_retry_count >= ReadyRetries
      /\ proginfo_retry_count' = 0
      /\ proginfo' = pi
      /\ last_proginfo' = Info(pi)
      /\ settled' = (settled \/ Agree(pi))
      /\ \E h \in CurrHours(pi) :
           LET hourly == WithoutInfo(pi) /\ HourPassed(h)
               change == InfoChanged(pi) \/ hourly
           IN  /\ astray' = (~Agree(pi) /\ (astray \/ (change /\ Astray(pi))))
               /\ IF change
                  THEN /\ last_progchange_timenum' = Timenum(h)
                       /\ ProgChanged(pi)
                       /\ split_at' = IF hourly THEN Latest(sys, air) ELSE -1
                  ELSE /\ SameProg(pi)
                       /\ UNCHANGED <<last_progchange_timenum, split_at>>

CheckPi ==
  /\ ~nosplit
  /\ CountRetries(proginfo)
  /\ Wait \/ Decide
  /\ quiet' = IF "READY_UPDATED" \in proginfo.status THEN 0
              ELSE IF quiet < ReadyRetries THEN quiet + 1 ELSE quiet
  /\ UNCHANGED <<stream, on_air, sys, air, breaks, nosplit>>

(* ts_check_si, where the stream is recorded as one programme.             *)
CheckSi ==
  /\ nosplit
  /\ CountRetries(proginfo)
  /\ proginfo' = StreamTimeinfo(proginfo)
  /\ IF curr_pgos # NoPgos
     THEN UNCHANGED <<proginfo_retry_count, n_pgos, curr_pgos, skipped>>
     ELSE IF "SERVICE_INFO" \notin proginfo.status /\ proginfo_retry_count < SiRetries
     THEN /\ proginfo_retry_count' = proginfo_retry_count + 1
          /\ UNCHANGED <<n_pgos, curr_pgos, skipped>>
     ELSE /\ ProgChanged(StreamTimeinfo(proginfo))
          /\ UNCHANGED proginfo_retry_count
  /\ UNCHANGED <<world, nosplit, last_proginfo, last_progchange_timenum, split_at, astray, quiet>>

(* A programme that another has followed is closed.                        *)
Ended ==
  /\ n_pgos > 1
  /\ n_pgos' = n_pgos - 1
  /\ UNCHANGED <<world, proginfo, nosplit, counts, last_proginfo,
                 last_progchange_timenum, curr_pgos, quiet, split_at, skipped, astray>>

(* main_loop parses EITs only where it splits.                             *)
Received(table) == table /\ UNCHANGED <<nosplit, counts, output, quiet>>

Event(short) == ~nosplit /\ Received(ParseEit(short))

OnAir == Air /\ UNCHANGED <<nosplit, counts, output, quiet>>

Check == CheckPi \/ CheckSi
Next  == OnAir \/ Received(Parse) \/ (\E short \in BOOLEAN : Event(short)) \/ Check \/ Ended
Spec  == Init /\ [][Next]_vars

(* What is received is checked, programmes that have been followed by      *)
(* another end (PgOutput), and the tables are sent again and again.        *)
FairSpec ==
  /\ Spec
  /\ WF_vars(Check) /\ WF_vars(Ended)
  /\ WF_vars(Received(ParsePat)) /\ WF_vars(Received(ParseSdt)) /\ SF_vars(Event(TRUE))
-----------------------------------------------------------------------------
TypeOK ==
  /\ stream \in Streams /\ nosplit \in BOOLEAN
  /\ sys \in Hours /\ air \in Hours /\ breaks \in 0 .. MaxBreaks
  /\ on_air \in [id : 1 .. MaxEvents, version : Versions]
  /\ proginfo \in Proginfo
  /\ proginfo_retry_count \in 0 .. Latest(ReadyRetries, SiRetries)
  /\ pcr_retry_count \in 0 .. PcrRetries + 1
  /\ tot_retry_count \in 0 .. TotRetries + 1
  /\ last_progchange_timenum \in Nat
  /\ last_proginfo \in [event : 0 .. MaxEvents, told : Versions]
  /\ curr_pgos \in {NoPgos} \cup [event : 0 .. MaxEvents, told : Versions]
  /\ n_pgos \in 0 .. MaxPgOverlap
  /\ n_pgos = 0 <=> curr_pgos = NoPgos

(* The modules of the programme that is recorded have been told the event  *)
(* and the information that the last check went by, also when it was none, *)
(* so that ts_prog_changed can end it with last_proginfo; unless the last  *)
(* change was skipped for want of a slot.                                  *)
RecordsWhatItKnows ==
  ~nosplit /\ curr_pgos # NoPgos /\ ~skipped =>
    curr_pgos = last_proginfo

(* An event is not cut in two, nor a programme begun without information,  *)
(* before as many checks in a row as ts_check_pi says it waits for (those  *)
(* of 15 seconds) have found nothing new, however the tables and their     *)
(* parts come between the checks.                                          *)
SplitsOnlyOnNews ==
  [][~nosplit /\ n_pgos' > n_pgos /\ curr_pgos.event # NoEvent
       /\ curr_pgos'.event \in {NoEvent, curr_pgos.event}
       => quiet >= ReadyRetries]_vars

(* Without information one programme is split at most once in an hour,     *)
(* although the time comes from the TOT, from the PCR and from the system  *)
(* in turn, which show the next hour at different moments (the comment in  *)
(* ts_check_pi on clocks that go back by an hour).  The changes that a     *)
(* break in the PCR misdates, and those that make good for them until the  *)
(* clocks agree again, are set aside.                                      *)
HourlyOnce ==
  [][n_pgos' > n_pgos /\ curr_pgos.event = NoEvent /\ curr_pgos'.event = NoEvent
       /\ ~astray /\ ~astray'
       => split_at < Latest(sys, air)]_vars

(* Without information the stream is split when all clocks show that the   *)
(* hour of the last change is over.                                        *)
HourlySplits ==
  []<>~(/\ curr_pgos.event = NoEvent /\ ~nosplit /\ ~LastReady
        /\ \A h \in Shown(proginfo) : Timenum(h) > last_progchange_timenum)

(* A service is recorded once it is received, with information or without. *)
(* The event on the air is recorded, and its modules are told its latest   *)
(* information, as long as its tables come; unless the change was skipped. *)
FollowsBroadcast ==
  []<>(/\ curr_pgos # NoPgos
       /\ \/ nosplit \/ ~stream.eit \/ skipped
          \/ curr_pgos = [event |-> on_air.id, told |-> on_air.version])
=============================================================================
