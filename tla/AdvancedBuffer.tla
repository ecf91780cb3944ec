--------------------------- MODULE AdvancedBuffer ---------------------------
(***************************************************************************)
(* utils/advanced_buffer.c: one input stream, kept in a ring buffer, read  *)
(* by up to AB_MAX_DOWNSTREAMS downstreams, each at its own position.      *)
(*                                                                         *)
(* Bytes are counted, not represented: the byte with number n is the n-th  *)
(* one ever given to ab_input_buf.  A downstream's pos is, as in the code, *)
(* an offset from the oldest byte still in the buffer; Base is the number  *)
(* of that byte.                                                           *)
(*                                                                         *)
(* ab_output_buf visits the downstreams one by one; the visit of each is a *)
(* step of its own (variable scan), because what a visit leaves in the     *)
(* local variable remain_unaligned (variable carry) is seen by the next.   *)
(* The handlers of a downstream (pre_output, output) are the environment:  *)
(* they answer anything their type allows.                                 *)
(***************************************************************************)
EXTENDS Integers, FiniteSets

CONSTANTS
  MaxDownstreams, \* AB_MAX_DOWNSTREAMS
  BufSize,        \* ab->buf_size
  Align,          \* the alignment every output module is connected with (188)
  Options,        \* the settings a downstream may be connected with
  InputSizes,     \* the sizes ab_input_buf is called with
  ClearSizes,     \* the require_size values ab_clear_buf is called with
  Backwards,      \* the backward_size values of ab_connect_downstream_backward
  MaxTotal        \* bound of the model: the number of bytes ever input

Option == [aligned : BOOLEAN, use_retval : BOOLEAN, realtime : BOOLEAN,
           maxsize : Nat, minsize : Nat]

ASSUME SizeAssumption ==
  /\ MaxDownstreams \in Nat \ {0}
  /\ BufSize \in Nat \ {0}
  /\ Align \in Nat \ {0}
  /\ MaxTotal \in Nat

ASSUME OptionAssumption == Options \subseteq Option

(* No build mixes output modules that report how much they took (Linux)    *)
(* with ones that do not (Windows).                                        *)
ASSUME RetvalAssumption ==
  \/ \A o \in Options : o.aligned => o.use_retval
  \/ \A o \in Options : o.aligned => ~o.use_retval

(***************************************************************************)
(* The stream arrives in whole packets, and one input leaves room for what *)
(* two packets begun can hold of what was there before.                    *)
(***************************************************************************)
ASSUME InputAssumption ==
  /\ InputSizes \subseteq Nat \ {0}
  /\ ClearSizes \subseteq Nat
  /\ Backwards \subseteq Nat
  /\ \A n \in InputSizes : n % Align = 0
  /\ \A n \in InputSizes \cup ClearSizes : n + 2 * (Align - 1) <= BufSize

VARIABLES
  input_total,      \* ab->input_total
  buf_used,         \* ab->buf_used
  buf_off,          \* ab->buf - ab->buf_orig, the start of the data in the ring
  n_downstreams,    \* ab->n_downstreams
  in_use,           \* the downstreams with in_use set
  close_flg,        \* the downstreams with close_flg set
  busy,             \* the downstreams with busy set
  opt,              \* the settings of each downstream
  pos,              \* ds->pos
  remain_to_close,  \* ds->remain_to_close
  remain_unaligned, \* ds->remain_unaligned
  scan,             \* where ab_output_buf is
  carry,            \* ab_output_buf's local variable remain_unaligned
  start,            \* history: the number of the byte a downstream began at
  stop,             \* history: the number of the byte it is to be closed at
  delivered,        \* history: the bytes its output handler has accepted
  dropped           \* history: the sum of what notify_skip was called with

buffer == <<input_total, buf_used, buf_off>>
slots  == <<n_downstreams, in_use, close_flg, busy, opt>>
cursor == <<pos, remain_to_close, remain_unaligned>>
pass   == <<scan, carry>>
ghost  == <<start, stop, delivered, dropped>>
vars   == <<buffer, slots, cursor, pass, ghost>>

Slots == 0 .. MaxDownstreams - 1

Idle       == -1              \* outside ab_output_buf
CheckClose == MaxDownstreams  \* every downstream visited, check_close is next
Deleted    == -2              \* after ab_close_buf

NoOption == [aligned |-> FALSE, use_retval |-> FALSE, realtime |-> FALSE,
             maxsize |-> 0, minsize |-> 0]

-----------------------------------------------------------------------------
(* alignment_floor divides with C's truncation towards zero.               *)
AlignFloor(x, a) == IF x >= 0 THEN (x \div a) * a ELSE - (((- x) \div a) * a)
AlignCeil(x, a)  == ((x + a - 1) \div a) * a

AlignOf(s) == IF opt[s].aligned THEN Align ELSE 1

Base == input_total - buf_used

(* Nothing is left to hand out before the close handler runs.              *)
Drained(s) == s \in close_flg /\ remain_to_close[s] <= 0

Live(s) == s \in in_use /\ ~Drained(s)

-----------------------------------------------------------------------------
Init ==
  /\ input_total = 0 /\ buf_used = 0 /\ buf_off = 0
  /\ n_downstreams = 0
  /\ in_use = {} /\ close_flg = {} /\ busy = {}
  /\ opt = [s \in Slots |-> NoOption]
  /\ pos = [s \in Slots |-> 0]
  /\ remain_to_close = [s \in Slots |-> 0]
  /\ remain_unaligned = [s \in Slots |-> 0]
  /\ scan = Idle /\ carry = 0
  /\ start = [s \in Slots |-> 0]
  /\ stop = [s \in Slots |-> 0]
  /\ delivered = [s \in Slots |-> 0]
  /\ dropped = [s \in Slots |-> 0]

(***************************************************************************)
(* ab_connect_downstream_backward with the ab_set_* calls that follow it.  *)
(* The position asked for is rounded up to a packet boundary of the        *)
(* stream, and raised to the oldest byte the buffer still has.             *)
(***************************************************************************)
ConnectDiff(o, backward) ==
  LET remain == (input_total - backward) % Align
  IN  IF o.aligned /\ remain > 0 THEN Align - remain - backward ELSE - backward

(* Mutant of Raised: the position is not checked.                          *)
RaisedUnchecked(p) == p

Raised(p) == IF p < 0 THEN 0 ELSE p

Connect(s, o, backward) ==
  /\ scan = Idle
  /\ n_downstreams < MaxDownstreams
  /\ s \in Slots \ in_use
  /\ \A t \in Slots \ in_use : s <= t
  /\ backward <= input_total
  /\ LET at == Raised(buf_used + ConnectDiff(o, backward))
     IN /\ pos' = [pos EXCEPT ![s] = at]
        /\ start' = [start EXCEPT ![s] = Base + at]
  /\ in_use' = in_use \cup {s}
  /\ close_flg' = close_flg \ {s}
  /\ busy' = busy \ {s}
  /\ opt' = [opt EXCEPT ![s] = o]
  /\ remain_unaligned' = [remain_unaligned EXCEPT ![s] = 0]
  /\ n_downstreams' = n_downstreams + 1
  /\ delivered' = [delivered EXCEPT ![s] = 0]
  /\ dropped' = [dropped EXCEPT ![s] = 0]
  /\ UNCHANGED <<buffer, remain_to_close, stop, pass>>

(***************************************************************************)
(* ab_clear_buf(require) followed by the arrival of size bytes.  clear is  *)
(* what no downstream has yet to read, or more when room for require bytes *)
(* must be made: a downstream that is too far behind then skips, in whole  *)
(* packets, and its notify_skip handler is told.                           *)
(***************************************************************************)

(* Mutant of Unread: the downstreams are forgotten.                        *)
UnreadByNobody == {buf_used}

Unread == {pos[s] : s \in in_use} \cup {buf_used}

Skip(s, clear) ==
  IF Live(s) /\ clear > pos[s] THEN AlignCeil(clear - pos[s], AlignOf(s)) ELSE 0

(* Mutant of RemainAfterSkip: what was skipped is still waited for.        *)
RemainUnskipped(s, clear) == remain_to_close[s]

RemainAfterSkip(s, clear) ==
  IF s \in close_flg THEN remain_to_close[s] - Skip(s, clear) ELSE remain_to_close[s]

(* The magic ring buffer maps the same memory twice: the start of the data *)
(* is moved back only once it is past the end of the first mapping.        *)
RingAdvance(off) == IF off > BufSize THEN off - BufSize ELSE off

ClearAndInput(low, require, size) ==
  LET clear == IF buf_used + require - low > BufSize
               THEN buf_used + require - BufSize ELSE low
  IN /\ buf_off' = RingAdvance(buf_off + clear)
     /\ buf_used' = buf_used - clear + size
     /\ pos' = [s \in Slots |->
                  IF Live(s) THEN pos[s] - clear + Skip(s, clear) ELSE pos[s]]
     /\ remain_to_close' = [s \in Slots |-> RemainAfterSkip(s, clear)]
     /\ dropped' = [s \in Slots |-> dropped[s] + Skip(s, clear)]

ClearBuf(require) ==
  /\ scan = Idle
  /\ \E low \in Unread : /\ \A p \in Unread : low <= p
                         /\ ClearAndInput(low, require, 0)
  /\ UNCHANGED <<input_total, slots, remain_unaligned, pass, start, stop, delivered>>

(* ab_input_buf clears the buffer first only when the input does not fit.  *)
InputBuf(size) ==
  /\ scan = Idle
  /\ input_total + size <= MaxTotal
  /\ input_total' = input_total + size
  /\ IF buf_used + size > BufSize
     THEN \E low \in Unread : /\ \A p \in Unread : low <= p
                              /\ ClearAndInput(low, size, size)
     ELSE /\ buf_used' = buf_used + size
          /\ UNCHANGED <<buf_off, pos, remain_to_close, dropped>>
  /\ UNCHANGED <<slots, remain_unaligned, pass, start, stop, delivered>>

-----------------------------------------------------------------------------
(***************************************************************************)
(* ab_output_buf: the visit of downstream s.                               *)
(***************************************************************************)
Avail(s) == buf_used - pos[s]

(* The local variable remain_unaligned at the visit of s: it is set only   *)
(* for a downstream that is aligned and reports how much it took, and      *)
(* keeps the value of an earlier visit for any other.                      *)
Unaligned(s) ==
  IF opt[s].use_retval /\ opt[s].aligned THEN remain_unaligned[s] ELSE carry

(* Mutant of HeldBack: a downstream about to close waits for minsize too.  *)
HeldBackAlways(s) == ~opt[s].realtime /\ Avail(s) < opt[s].minsize

HeldBack(s) ==
  ~opt[s].realtime /\ s \notin close_flg /\ Avail(s) < opt[s].minsize

(* write_size, when pre_output has left max_write_size at acceptable.      *)
MaxWrite(s, acceptable) ==
  AlignFloor(acceptable - Unaligned(s), AlignOf(s)) + Unaligned(s)

(* Mutant of PacketWrite: maxsize is written even if less is there.        *)
PacketWriteMax(s, acceptable) ==
  IF MaxWrite(s, acceptable) > 0 THEN MaxWrite(s, acceptable)
  ELSE AlignFloor(Avail(s) - Unaligned(s), AlignOf(s)) + Unaligned(s)

PacketWrite(s, acceptable) ==
  IF MaxWrite(s, acceptable) > 0 /\ Avail(s) > MaxWrite(s, acceptable)
  THEN MaxWrite(s, acceptable)
  ELSE AlignFloor(Avail(s) - Unaligned(s), AlignOf(s)) + Unaligned(s)

(* Mutant of WriteSize: the close point is not looked at.                  *)
WriteSizeToEnd(s, acceptable) == PacketWrite(s, acceptable)

WriteSize(s, acceptable) ==
  IF s \in close_flg /\ PacketWrite(s, acceptable) > remain_to_close[s]
  THEN remain_to_close[s]
  ELSE PacketWrite(s, acceptable)

Starved(s, acceptable) == acceptable > 0 /\ acceptable < Unaligned(s)

(* The loop goes on to the next downstream in use, or is over.             *)
Goto(j) ==
  \E t \in {u \in in_use : u >= j} \cup {CheckClose} :
    /\ \A u \in in_use : u >= j => t <= u
    /\ scan' = t

BeginOutput ==
  /\ scan = Idle
  /\ Goto(0)
  /\ carry' = 0
  /\ UNCHANGED <<buffer, slots, cursor, ghost>>

Visit(s) == scan = s /\ s \in in_use /\ Goto(s + 1) /\ carry' = Unaligned(s)

(* Less than minsize has come in: the handlers are not even asked.         *)
VisitHeldBack(s) ==
  /\ Visit(s)
  /\ HeldBack(s)
  /\ UNCHANGED <<buffer, slots, cursor, ghost>>

(* pre_output answers that the last write is still going on, or the most   *)
(* it would take does not reach the end of the packet begun.               *)
VisitBusy(s, acceptable) ==
  /\ Visit(s)
  /\ ~HeldBack(s)
  /\ \/ busy' = busy \cup {s}
     \/ Starved(s, acceptable) /\ busy' = busy \ {s}
  /\ UNCHANGED <<buffer, n_downstreams, in_use, close_flg, opt, cursor, ghost>>

(* The output handler is given WriteSize bytes and takes done of them.  A  *)
(* downstream without use_retval always takes all, and is busy afterwards  *)
(* when its handler says so.                                               *)
Taken(s, acceptable) ==
  IF WriteSize(s, acceptable) <= 0 THEN {0}
  ELSE IF opt[s].use_retval THEN 0 .. WriteSize(s, acceptable)
  ELSE {WriteSize(s, acceptable)}

StillUnaligned(s, done) ==
  IF opt[s].use_retval /\ opt[s].aligned /\ done > 0
  THEN AlignCeil(done - remain_unaligned[s], Align) - (done - remain_unaligned[s])
  ELSE remain_unaligned[s]

VisitWrite(s, acceptable, done) ==
  /\ Visit(s)
  /\ ~HeldBack(s)
  /\ ~Starved(s, acceptable)
  /\ done \in Taken(s, acceptable)
  /\ \/ busy' = busy \ {s}
     \/ ~opt[s].use_retval /\ done > 0 /\ busy' = busy \cup {s}
  /\ pos' = [pos EXCEPT ![s] = @ + done]
  /\ remain_to_close' =
       IF s \in close_flg THEN [remain_to_close EXCEPT ![s] = @ - done]
                          ELSE remain_to_close
  /\ remain_unaligned' = [remain_unaligned EXCEPT ![s] = StillUnaligned(s, done)]
  /\ delivered' = [delivered EXCEPT ![s] = @ + done]
  /\ UNCHANGED <<buffer, n_downstreams, in_use, close_flg, opt, start, stop, dropped>>

(***************************************************************************)
(* check_close, at the end of ab_output_buf: every drained downstream is   *)
(* closed, unless its last write is still going on.  The fields of a slot  *)
(* not in use are not read again, and are forgotten here.                  *)
(***************************************************************************)
ToClose == {s \in in_use : Drained(s) /\ s \notin busy}

(* Mutant of NClosed: one close is counted per call.                       *)
NClosedAtMostOne == IF ToClose = {} THEN 0 ELSE 1

NClosed == Cardinality(ToClose)

Forget(f) == [s \in Slots |-> IF s \in ToClose THEN 0 ELSE f[s]]

EndOutput ==
  /\ scan = CheckClose
  /\ scan' = Idle
  /\ carry' = 0
  /\ in_use' = in_use \ ToClose
  /\ n_downstreams' = n_downstreams - NClosed
  /\ close_flg' = close_flg \ ToClose
  /\ busy' = busy \ ToClose
  /\ opt' = [s \in Slots |-> IF s \in ToClose THEN NoOption ELSE opt[s]]
  /\ pos' = [s \in Slots |-> IF s \in ToClose THEN 0
                             ELSE IF s \in in_use /\ Drained(s) THEN buf_used
                             ELSE pos[s]]
  /\ remain_to_close' = Forget(remain_to_close)
  /\ remain_unaligned' = Forget(remain_unaligned)
  /\ start' = Forget(start)
  /\ stop' = Forget(stop)
  /\ delivered' = Forget(delivered)
  /\ dropped' = Forget(dropped)
  /\ UNCHANGED buffer

-----------------------------------------------------------------------------
(***************************************************************************)
(* ab_disconnect_downstream.  With immediate = 0 the downstream still gets *)
(* the whole packets that have arrived; with immediate = 1 it gets nothing *)
(* more.  do_pgoutput_close2 cuts off only what do_pgoutput_close1 has     *)
(* disconnected before, so remain_to_close is never read uninitialized.    *)
(***************************************************************************)
(* Mutant of RemainAtClose: the packet begun is not completed.             *)
RemainAtClosePackets(s) == AlignFloor(Avail(s), AlignOf(s))

RemainAtClose(s) ==
  LET r == IF opt[s].use_retval THEN remain_unaligned[s] ELSE 0
  IN  AlignFloor(Avail(s) - r, AlignOf(s)) + r

Disconnect(s) ==
  /\ scan = Idle
  /\ s \in in_use \ close_flg
  /\ close_flg' = close_flg \cup {s}
  /\ remain_to_close' = [remain_to_close EXCEPT ![s] = RemainAtClose(s)]
  /\ stop' = [stop EXCEPT ![s] = Base + pos[s] + RemainAtClose(s)]
  /\ UNCHANGED <<buffer, n_downstreams, in_use, busy, opt, pos,
                 remain_unaligned, pass, start, delivered, dropped>>

DisconnectNow(s) ==
  /\ scan = Idle
  /\ s \in in_use \cap close_flg
  /\ dropped' = [dropped EXCEPT ![s] = @ + remain_to_close[s]]
  /\ remain_to_close' = [remain_to_close EXCEPT ![s] = 0]
  /\ UNCHANGED <<buffer, slots, pos, remain_unaligned, pass, start, stop, delivered>>

(* ab_close_buf closes whatever is still connected; ab_delete frees it.    *)
CloseBuf ==
  /\ scan = Idle
  /\ scan' = Deleted
  /\ in_use' = {}
  /\ UNCHANGED <<buffer, n_downstreams, close_flg, busy, opt, cursor, carry, ghost>>

(* Nothing uses the buffer after that.                                     *)
Terminated == scan = Deleted /\ UNCHANGED vars

-----------------------------------------------------------------------------
Output ==
  \/ BeginOutput
  \/ EndOutput
  \/ \E s \in Slots :
       \/ VisitHeldBack(s)
       \/ VisitBusy(s, opt[s].maxsize)
       \/ \E done \in 0 .. BufSize : VisitWrite(s, opt[s].maxsize, done)

Next ==
  \/ \E s \in Slots, o \in Options, b \in Backwards : Connect(s, o, b)
  \/ \E n \in ClearSizes : ClearBuf(n)
  \/ \E n \in InputSizes : InputBuf(n)
  \/ Output
  \/ \E s \in Slots : Disconnect(s) \/ DisconnectNow(s)
  \/ CloseBuf
  \/ Terminated

Spec == Init /\ [][Next]_vars

(***************************************************************************)
(* The main loop calls ab_output_buf for ever, and the handler of a        *)
(* downstream that is offered bytes again and again takes some again and   *)
(* again.                                                                  *)
(***************************************************************************)
Takes(s) ==
  \E done \in 0 .. BufSize :
    /\ done > 0 \/ WriteSize(s, opt[s].maxsize) <= 0
    /\ VisitWrite(s, opt[s].maxsize, done)

FairSpec ==
  /\ Spec
  /\ WF_vars(Output)
  /\ \A s \in Slots : SF_vars(Takes(s) /\ busy' = busy \ {s})

-----------------------------------------------------------------------------
(* Every variable keeps its type; of the counts that must not go negative  *)
(* in C, pos is the one ab_clear_buf and a connection far back could lower.*)
TypeOK ==
  /\ input_total \in Nat /\ buf_used \in Nat /\ buf_off \in Nat
  /\ n_downstreams \in 0 .. MaxDownstreams
  /\ in_use \in SUBSET Slots
  /\ close_flg \in SUBSET Slots
  /\ busy \in SUBSET Slots
  /\ opt \in [Slots -> Option]
  /\ pos \in [Slots -> Nat]
  /\ remain_to_close \in [Slots -> Int]
  /\ remain_unaligned \in [Slots -> Nat]
  /\ scan \in Slots \cup {Idle, CheckClose, Deleted}
  /\ carry \in Nat
  /\ start \in [Slots -> Nat]
  /\ stop \in [Slots -> Nat]
  /\ delivered \in [Slots -> Nat]
  /\ dropped \in [Slots -> Int]

(* Byte number n is at address n modulo BufSize of the ring, whatever was  *)
(* cleared, and the data never reaches past the second mapping: so an      *)
(* input (the memcpy of ab_input_buf) overwrites only bytes that were      *)
(* cleared before, and an output handler is given the bytes it asked for.  *)
RingAddress ==
  /\ buf_used <= BufSize
  /\ buf_off <= BufSize
  /\ (Base - buf_off) % BufSize = 0

(* A downstream that has something to read reads inside the buffer: the    *)
(* packet it has begun is still there in whole, however far it was made to *)
(* skip.  This is the assertion on write_size in ab_output_buf.            *)
ReadsInBuffer ==
  \A s \in in_use : Live(s) => pos[s] + remain_unaligned[s] <= buf_used

(* The same for the handler call itself: what a visit may hand out, for    *)
(* any answer of pre_output, ends at or before the end of the data.        *)
WritesInBuffer ==
  \A s \in in_use :
    scan = s => WriteSize(s, opt[s].maxsize) <= 0 \/ pos[s] + WriteSize(s, opt[s].maxsize) <= buf_used

(* No input, skip or output ever reaches outside the data.                 *)
StaysInBuffer == RingAddress /\ ReadsInBuffer /\ WritesInBuffer

(* Every byte since the downstream was connected was accepted by its       *)
(* output handler, or reported to its notify_skip handler, or is still to  *)
(* come: none is lost silently, none is handed out twice.                  *)
Accounting ==
  \A s \in in_use :
    /\ s \notin close_flg => Base + pos[s] = start[s] + delivered[s] + dropped[s]
    /\ s \in close_flg => stop[s] - remain_to_close[s] = start[s] + delivered[s] + dropped[s]

(* While it has something to read, a closing downstream stops exactly      *)
(* where the data ended when it was disconnected.                          *)
StopsAtClosePoint ==
  \A s \in in_use : Live(s) /\ s \in close_flg =>
    /\ Base + pos[s] + remain_to_close[s] = stop[s]
    /\ stop[s] <= input_total

(* Everything from the connection to the close point is accounted for.     *)
AccountBalances == Accounting /\ StopsAtClosePoint

(* An aligned downstream keeps the packet boundary it was connected at:    *)
(* after any number of partial writes and skips, what is left of a packet  *)
(* is what remain_unaligned says, and the close point is a boundary too.   *)
Framing ==
  \A s \in in_use : Live(s) /\ opt[s].aligned =>
    /\ remain_unaligned[s] < Align
    /\ (Base + pos[s] + remain_unaligned[s] - start[s]) % Align = 0
    /\ s \in close_flg => (stop[s] - start[s]) % Align = 0

(* The count that bounds every loop over the downstreams is the number of  *)
(* slots in use, so that no loop runs past the array or ends early.        *)
CountedInUse == scan # Deleted => n_downstreams = Cardinality(in_use)

(* The assertion on the size written in ab_output_buf, for a downstream    *)
(* that is not being cut off.                                              *)
WritesPackets ==
  \A s \in in_use :
    scan = s /\ Live(s) /\ opt[s].aligned /\ ~HeldBack(s) /\ ~Starved(s, opt[s].maxsize)
      => (WriteSize(s, opt[s].maxsize) - Unaligned(s)) % Align = 0

(* Packets stay whole, in what is kept of a downstream and in each write.  *)
PacketsWhole == Framing /\ WritesPackets

(* The same assertion, for every downstream, as the code states it.        *)
WriteIsAligned ==
  \A s \in in_use :
    scan = s /\ opt[s].aligned /\ ~HeldBack(s) /\ ~Starved(s, opt[s].maxsize)
      => (WriteSize(s, opt[s].maxsize) - Unaligned(s)) % Align = 0

(* An input makes a downstream skip only if that downstream itself is more *)
(* than a buffer behind, and then leaves it as far behind as packets       *)
(* allow: a stalled downstream never costs another one a byte.             *)
DropsOnlyTheOverflow ==
  [][\A s \in in_use : dropped'[s] > dropped[s] /\ input_total' > input_total =>
       /\ input_total' - (Base + pos[s]) > BufSize
       /\ input_total' - (Base' + pos'[s]) > BufSize - Align]_vars

(* A downstream that closes without having skipped has been given every    *)
(* byte between the point it was connected at and its close point.         *)
ClosesComplete ==
  [][\A s \in in_use \ in_use' : scan' # Deleted /\ dropped[s] = 0 =>
       delivered[s] = stop[s] - start[s]]_vars

(* A disconnected downstream is closed in the end, with its last bytes     *)
(* (fewer than minsize, or the end of a packet) handed out or not.         *)
ClosingCloses == \A s \in Slots : s \in close_flg ~> (s \notin close_flg \/ scan = Deleted)
=============================================================================
