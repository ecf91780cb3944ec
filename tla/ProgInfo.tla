------------------------------ MODULE ProgInfo ------------------------------
(***************************************************************************)
(* utils/arib_parser.c: what the parser keeps of one service in proginfo.  *)
(* The sections it parses come whole and in order from the air, which is   *)
(* the environment here: events follow one another, their tables arrive    *)
(* whenever they like or never, and the stream's clock runs beside the     *)
(* system's.                                                               *)
(*                                                                         *)
(* Of an event the id is kept and a version, which stands for its times    *)
(* and texts.  Clocks show hours, since nothing depends on less.           *)
(***************************************************************************)
EXTENDS Integers, FiniteSets

CONSTANTS
  MaxEvents,  \* the events that are broadcast, a bound
  Versions,   \* the versions an event's information goes through
  FirstHour,  \* the hours since a midnight the clocks begin and end with
  LastHour,
  MaxBreaks,  \* the times the PCR is set anew, a bound
  Streams     \* what the stream carries: [eit |-> BOOLEAN, time |-> BOOLEAN]

ASSUME ProgInfoAssumption ==
  /\ MaxEvents \in Nat \ {0} /\ MaxBreaks \in Nat
  /\ Versions \subseteq Nat /\ 0 \in Versions
  /\ FirstHour \in Nat /\ LastHour \in Nat /\ FirstHour < LastHour
  /\ Streams \subseteq [eit : BOOLEAN, time : BOOLEAN]

VARIABLES
  stream, on_air, \* the air: what is carried, the event [id, version]
  sys, air,       \* the system's clock and the stream's, in hours
  settled,        \* a check was made at this hour of all clocks
  breaks,         \* how often the PCR has been set anew
  proginfo        \* the service's proginfo_t

world  == <<stream, on_air, sys, air, settled, breaks>>

Get      == {"PAT", "SERVICE_INFO", "EVENT_INFO", "SHORT_TEXT"}
TimeInfo == {"VALID_PCR", "TOT", "VALID_TOT_PCR"}
Flags    == Get \cup TimeInfo \cup {"READY_UPDATED", "PCR_UPDATED", "TOT_UPDATED"}

(* PGINFO_READY, PGINFO_READY_TIMESTAMP                                    *)
Ready(pi)          == Get \subseteq pi.status
ReadyTimestamp(pi) == TimeInfo \subseteq pi.status

Hours == FirstHour .. LastHour

(* A PCR counts from a beginning of its own, told apart by the break.      *)
NoPcr == [break |-> -1, hour |-> FirstHour]

Proginfo ==
  [status : SUBSET Flags, event_id : 0 .. MaxEvents, version : Versions,
   PCR_base : [break : -1 .. MaxBreaks, hour : Hours],
   TOT_PCR : -1 .. MaxBreaks, TOT_time : Hours]

InitProginfo ==
  [status |-> {}, event_id |-> 0, version |-> 0,
   PCR_base |-> NoPcr, TOT_PCR |-> -1, TOT_time |-> FirstHour]

ProgInfoInit ==
  /\ stream \in Streams
  /\ on_air = [id |-> 1, version |-> 0]
  /\ sys = FirstHour /\ air = FirstHour /\ settled = FALSE
  /\ breaks = 0
  /\ proginfo = InitProginfo

-----------------------------------------------------------------------------
(* The air.                                                                *)
NextEvent ==
  /\ stream.eit
  /\ on_air.id < MaxEvents
  /\ on_air' = [id |-> on_air.id + 1, version |-> 0]
  /\ UNCHANGED <<stream, sys, air, settled, breaks, proginfo>>

NextVersion ==
  /\ stream.eit
  /\ \E v \in Versions : on_air' = [on_air EXCEPT !.version = v]
  /\ on_air.version < on_air'.version
  /\ UNCHANGED <<stream, sys, air, settled, breaks, proginfo>>

(* The hours that the clocks and what is kept of them show.  They differ   *)
(* by minutes at most, so that in every hour a check finds them at one.    *)
Shown(pi) ==
  {sys} \cup {air : t \in {stream.time} \cap {TRUE}}
        \cup {pi.TOT_time : f \in pi.status \cap {"TOT"}}
        \cup {pi.PCR_base.hour : f \in pi.status \cap {"VALID_PCR"}}

SysHour ==
  /\ sys < LastHour
  /\ sys < air \/ settled
  /\ sys' = sys + 1 /\ settled' = FALSE
  /\ UNCHANGED <<stream, on_air, air, breaks, proginfo>>

AirHour ==
  /\ stream.time
  /\ air < LastHour
  /\ air < sys \/ settled
  /\ air' = air + 1 /\ settled' = FALSE
  /\ UNCHANGED <<stream, on_air, sys, breaks, proginfo>>

(* The PCR is set anew: the next one belongs to another count.             *)
Break ==
  /\ stream.time
  /\ breaks < MaxBreaks
  /\ breaks' = breaks + 1
  /\ UNCHANGED <<stream, on_air, sys, air, settled, proginfo>>

-----------------------------------------------------------------------------
(* The tables.                                                             *)
Store(pi) == proginfo' = pi /\ UNCHANGED world

(* pat_handler puts the service in the list, where find_curr_service and   *)
(* its kin find it for the other tables, and tot_handler goes over it.     *)
IsListed == "PAT" \in proginfo.status

ParsePat ==
  /\ ~IsListed
  /\ Store([proginfo EXCEPT !.status = @ \cup {"PAT"}])

ParseSdt ==
  /\ IsListed
  /\ "SERVICE_INFO" \notin proginfo.status
  /\ Store([proginfo EXCEPT !.status = @ \cup {"SERVICE_INFO"}])

(* Everything goes but what does not depend on the event.                  *)
ClearProginfoAll(pi) ==
  [pi EXCEPT !.status = @ \cap ({"PAT", "SERVICE_INFO"} \cup TimeInfo)]

StoreEitBody(pi, e) ==
  LET same == IF "EVENT_INFO" \in pi.status /\ pi.event_id # e.id
              THEN ClearProginfoAll(pi) ELSE pi
  IN  [same EXCEPT !.event_id = e.id, !.version = e.version,
                   !.status = @ \cup {"EVENT_INFO"}]

StoreEitSed(pi) ==
  LET named == [pi EXCEPT !.status = @ \cup {"SHORT_TEXT"}]
  IN  IF Ready(named) THEN [named EXCEPT !.status = @ \cup {"READY_UPDATED"}]
      ELSE named

(* An EIT of the present event, with its short event descriptor or with    *)
(* other descriptors only.                                                 *)
ParseEit(short) ==
  /\ stream.eit
  /\ IsListed
  /\ LET body == StoreEitBody(proginfo, on_air)
     IN  Store(IF short THEN StoreEitSed(body) ELSE body)

(* A PCR that follows the last one within a second is valid; one after a   *)
(* gap, or of another count, is not, but the next will be.                 *)
ParsePcr ==
  /\ stream.time
  /\ IsListed
  /\ \E gap \in BOOLEAN :
       Store([proginfo EXCEPT
                !.PCR_base = [break |-> breaks, hour |-> air],
                !.status = IF proginfo.PCR_base.break = breaks /\ ~gap
                           THEN @ \cup {"VALID_PCR", "PCR_UPDATED"}
                           ELSE @ \ {"VALID_PCR"}])

ParseTot ==
  /\ stream.time
  /\ IsListed
  /\ LET valid == "VALID_PCR" \in proginfo.status
         flags == {"TOT", "TOT_UPDATED"} \cup (IF valid THEN {"VALID_TOT_PCR"} ELSE {})
     IN  Store([proginfo EXCEPT
                  !.TOT_time = air,
                  !.TOT_PCR = IF valid THEN proginfo.PCR_base.break ELSE @,
                  !.status = (@ \ {"VALID_TOT_PCR"}) \cup flags])

Air ==
  NextEvent \/ NextVersion \/ SysHour \/ AirHour \/ Break

Parse ==
  ParsePat \/ ParseSdt \/ ParsePcr \/ ParseTot
=============================================================================
