----------------------------- MODULE AbHistory ------------------------------
(***************************************************************************)
(* The history of a buffer (ab_set_history): two downstreams of its own    *)
(* remember how many bytes came in during the last Overlap of time and     *)
(* keep them in the buffer, so that a recording that starts now can begin  *)
(* with what was broadcast a little earlier (OVERLAP_SEC).                 *)
(*                                                                         *)
(* Slot 0 counts: its output handler adds the size to the record of the    *)
(* current tick.  Slot 1 keeps: its pre_output handler lets it advance     *)
(* only up to backward_bytes from the end.  Every other slot is an output  *)
(* module's (ts_output.c), connected backward_bytes back.                  *)
(***************************************************************************)
EXTENDS AdvancedBuffer, Sequences

CONSTANTS
  Resolution,  \* history->resolution (CHECK_INTERVAL)
  Overlap,     \* history->backward_ms (OVERLAP_SEC)
  MaxTick,     \* bound of the model: how many ticks pass
  MaxSetBacks  \* bound of the model: how often the clock is set back

ASSUME HistoryAssumption ==
  /\ Resolution \in Nat \ {0}
  /\ Overlap \in Nat \ {0}
  /\ MaxDownstreams >= 2
  /\ MaxTick \in Nat /\ MaxSetBacks \in Nat

VARIABLES
  now,            \* gettime() / history->resolution
  records,        \* history->records[0 .. used-1], the newest first
  backward_bytes, \* history->backward_bytes
  passed,         \* how many ticks have passed, whatever the clock shows
  set_backs,      \* how often the clock was set back
  given,          \* history: the bytes counted during the last Num ticks, newest first
  revived         \* history: a record that was out of the window came back

clock == <<now, passed, set_backs>>
history == <<clock, records, backward_bytes, given, revived>>
hvars == <<vars, history>>

Num    == (Overlap + Resolution - 1) \div Resolution
Window == Overlap \div Resolution

Counter == 0
Keeper  == 1
Clients == Slots \ {Counter, Keeper}

HistoryOption == [aligned |-> FALSE, use_retval |-> FALSE, realtime |-> TRUE,
                  maxsize |-> 0, minsize |-> 0]

(* init_tos: a new buffer, with ab_set_history already called.             *)
HInit ==
  /\ input_total = 0 /\ buf_used = 0 /\ buf_off = 0
  /\ n_downstreams = 2
  /\ in_use = {Counter, Keeper} /\ close_flg = {} /\ busy = {}
  /\ opt = [s \in Slots |-> IF s \in Clients THEN NoOption ELSE HistoryOption]
  /\ pos = [s \in Slots |-> 0]
  /\ remain_to_close = [s \in Slots |-> 0]
  /\ remain_unaligned = [s \in Slots |-> 0]
  /\ scan = Idle /\ carry = 0
  /\ start = [s \in Slots |-> 0]
  /\ stop = [s \in Slots |-> 0]
  /\ delivered = [s \in Slots |-> 0]
  /\ dropped = [s \in Slots |-> 0]
  /\ now = 0
  /\ passed = 0
  /\ set_backs = 0
  /\ revived = FALSE
  /\ records = << >>
  /\ backward_bytes = 0
  /\ given = [t \in 1 .. Num |-> 0]

Tick == /\ passed < MaxTick
        /\ now' = now + 1
        /\ passed' = passed + 1
        /\ given' = <<0>> \o SubSeq(given, 1, Num - 1)
        /\ UNCHANGED <<vars, set_backs, records, backward_bytes, revived>>

(* The clock is the system's, and may be set back while tsdump runs.  Before *)
(* there is a record nobody has looked at it.                              *)
SetBack == /\ set_backs < MaxSetBacks
           /\ records # << >>
           /\ now' \in 0 .. now - 1
           /\ set_backs' = set_backs + 1
           /\ UNCHANGED <<vars, passed, records, backward_bytes, given, revived>>

(* The sum of the first n of some numbers.                                 *)
SumOf(f, n) ==
  LET sum[i \in 0 .. n] == IF i = 0 THEN 0 ELSE sum[i - 1] + f[i]
  IN  sum[n]

(* history_handler_output: the first output of a tick opens a new record,  *)
(* the oldest going when there are Num, and sums up those in the window.   *)
Opened ==
  LET kept == IF Len(records) >= Num THEN Num - 1 ELSE Len(records)
  IN  <<[timenum |-> now, bytes |-> 0]>> \o SubSeq(records, 1, kept)

(* Mutant of InWindow: what is newer than the present is not counted.       *)
InWindowNotNewer(r, tick) == r.timenum \in tick - Window .. tick

InWindow(r, tick) == r.timenum >= tick - Window

BytesInWindow(recs, tick) ==
  SumOf([i \in DOMAIN recs |-> IF InWindow(recs[i], tick) THEN recs[i].bytes ELSE 0], Len(recs))

CountOutput(size) ==
  LET fresh == records = << >> \/ records[1].timenum # now
      recs  == IF fresh THEN Opened ELSE records
      sum   == IF fresh THEN BytesInWindow(recs, now) ELSE backward_bytes
  IN /\ records' = [recs EXCEPT ![1].bytes = @ + size]
     /\ backward_bytes' = sum + size
     /\ given' = [given EXCEPT ![1] = @ + size]
     /\ revived' = (revived \/ \E i \in 2 .. Len(recs) :
                      InWindow(recs[i], now) /\ ~InWindow(recs[i], recs[2].timenum))

CounterVisit ==
  \E done \in 0 .. BufSize :
    /\ VisitWrite(Counter, 0, done)
    /\ Counter \notin busy'
    /\ IF done > 0 THEN CountOutput(done) ELSE UNCHANGED <<records, backward_bytes, given, revived>>
    /\ UNCHANGED clock

(* Mutant of Passed: once there is more than enough, nothing is kept.       *)
PassedInWhole == Avail(Keeper)

(* history_handler_pre_output: more than backward_bytes must be left.      *)
Passed == Avail(Keeper) - backward_bytes

KeeperVisit ==
  /\ IF Avail(Keeper) > backward_bytes
     THEN \E done \in 0 .. BufSize :
            /\ VisitWrite(Keeper, Passed, done)
            /\ Keeper \notin busy'
     ELSE VisitBusy(Keeper, 0)
  /\ UNCHANGED history

(* ab_connect_downstream_history_backward                                  *)
ClientConnect ==
  /\ \E s \in Clients, o \in Options : Connect(s, o, backward_bytes)
  /\ UNCHANGED history

ClientVisit(s) ==
  /\ \/ VisitHeldBack(s)
     \/ VisitBusy(s, opt[s].maxsize)
     \/ \E done \in 0 .. BufSize : VisitWrite(s, opt[s].maxsize, done)
  /\ UNCHANGED history

HNext ==
  \/ Tick
  \/ SetBack
  \/ CounterVisit
  \/ KeeperVisit
  \/ ClientConnect
  \/ \E s \in Clients : ClientVisit(s)
  \/ /\ \/ BeginOutput \/ EndOutput
        \/ \E n \in ClearSizes : ClearBuf(n)
        \/ \E n \in InputSizes : InputBuf(n)
        \/ \E s \in Clients : Disconnect(s) \/ DisconnectNow(s)
        \/ CloseBuf
        \/ Terminated
     /\ UNCHANGED history

HSpec == HInit /\ [][HNext]_hvars

-----------------------------------------------------------------------------
(* The history's variables keep their types, and the records fit into the  *)
(* array of num that ab_set_history allocates.                             *)
HTypeOK ==
  /\ now \in 0 .. passed
  /\ passed \in 0 .. MaxTick
  /\ set_backs \in 0 .. MaxSetBacks
  /\ revived \in BOOLEAN
  /\ records \in Seq([timenum : 0 .. MaxTick, bytes : Nat]) /\ Len(records) <= Num
  /\ backward_bytes \in Nat
  /\ given \in [1 .. Num -> Nat]

(* As long as the history itself has never been overrun, every byte it     *)
(* counts is still in the buffer: the position of the keeper, the count of *)
(* the counter and the clearing of the buffer agree, between two passes    *)
(* and in the middle of one, and also when the clock is set back; unless   *)
(* that is after a pause of the stream so long that the keeper let go of a *)
(* record, and to a time that brings the record back.                      *)
Sound == dropped[Counter] = 0 /\ dropped[Keeper] = 0 /\ ~revived

HistoryKept == Sound => backward_bytes + Avail(Counter) <= Avail(Keeper)

(* The records fit into their array of Num, and miss nothing of the last   *)
(* Num ticks, however the outputs are spread over them.  What is newer     *)
(* than the present is counted, too; but each time the clock is set back   *)
(* begins one more record in the same tick, and the oldest is lost.        *)
CoversOverlap ==
  /\ HTypeOK
  /\ set_backs <= Num => backward_bytes >= SumOf(given, Num - set_backs)

(* A recording begins on a packet boundary of the stream, as long as the   *)
(* history is sound, even when the oldest byte in the buffer is in the     *)
(* middle of a packet some module is still writing.                        *)
BeginsOnPacket ==
  Sound => \A s \in Clients \cap in_use : opt[s].aligned => start[s] % Align = 0
=============================================================================
