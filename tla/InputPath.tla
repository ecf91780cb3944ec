------------------------------ MODULE InputPath ------------------------------
(***************************************************************************)
(* The way of a recorded stream from a file or pipe to the buffer: the     *)
(* reads of modules/mod_filein.c (POSIX build), the alignment filter of    *)
(* core/default_decoder.c behind it, the packet counter, and the loop of   *)
(* core/tsdump.c that drives them and hands the packets to ab_input_buf.   *)
(*                                                                         *)
(* Two remainders are carried from one call to the next: what is left in   *)
(* the read buffer after the whole packets were handed out of it, and what *)
(* the filter keeps of an incomplete packet.  The first cuts wherever it   *)
(* happens to be; only the second looks for the sync bytes.                *)
(*                                                                         *)
(* A byte is <<packet, position, sync>>: the position-th byte of a packet  *)
(* that was sent, and whether it has the value of a sync byte, as position *)
(* 0 has, and others may have.  A file may have lost bytes of the stream.  *)
(***************************************************************************)
EXTENDS Integers, Sequences, FiniteSets, FiniteSetsExt, FilePace

CONSTANTS
  Inputs,      \* the files that may be read, how they are paced, and their PCRs
  TimeSteps,   \* how long something may take
  PacketSize,  \* 188
  BlockSize,   \* what stat->buf holds, a multiple of PacketSize
  MaxSyncs,    \* how many sync bytes the filter looks for (4)
  CounterMod   \* the values of the continuity counter (16)

(* In the order in which they were sent. *)
Before(a, b) == a[1] < b[1] \/ (a[1] = b[1] /\ a[2] < b[2])

IsInput(bytes) ==
  /\ bytes \in Seq(Nat \X (0 .. PacketSize - 1) \X BOOLEAN)
  /\ bytes # <<>>
  /\ \A i \in 1 .. Len(bytes) - 1 : Before(bytes[i], bytes[i + 1])
  /\ \A i \in 1 .. Len(bytes) : bytes[i][2] = 0 => bytes[i][3]

IsClock(pcrs, bytes) ==
  \A i \in 1 .. Len(bytes) : pcrs[bytes[i][1]] \in (0 .. PCR_BASE_MAX - 1) \cup {NoPcr}

InputPathAssumption ==
  /\ PacketSize \in Nat \ {0}
  /\ BlockSize \in Nat \ {0}
  /\ BlockSize % PacketSize = 0
  /\ MaxSyncs \in Nat \ {0}
  /\ CounterMod \in Nat \ {0, 1}
  /\ TimeSteps \subseteq Nat
  /\ \A i \in Inputs : /\ IsInput(i[1])
                      /\ i[2] \in {"pcr", "rate", "unlimited"}
                      /\ IsClock(i[3], i[1])

ASSUME InputPathAssumption

VARIABLES
  file,        \* what is read
  paced,       \* "pcr", "rate" (--filembps) or "unlimited" (--fileunlimit)
  clock,       \* the PCR of each packet, as far as the PMT is known before it
  flg_set_eof, \* --eof
  position,    \* the bytes read from the file
  buf,         \* the bytes in stat->buf
  eof,         \* stat->eof
  pace,        \* the time stamp and what it is reckoned from
  pcr_kept,    \* the remainder of stat->filter, which finds the PCRs
  n_recv,      \* whether the last turn gave something
  kept,        \* the filter's remainder
  ts_counter,  \* the last continuity counter of the stream's PID, or NoCounter
  ts_n_drops,
  termflag,
  running,     \* the main loop has not ended
  delivered,   \* what ab_input_buf was given, packet by packet
  insync,      \* history: the filter begins on a packet
  excused,     \* history: the packets that may have been damaged or lost
  same_clock,  \* history: the time stamp is reckoned from the PCR it was before the turn
  since,       \* history: the time since the first PCR was due, or since the opening
  held         \* history: how long a block has been waiting in the read buffer

inputVars == <<file, paced, clock, flg_set_eof>>
paceVars == <<pace, pcr_kept, same_clock, since, held>>

vars == <<inputVars, paceVars, position, buf, eof, n_recv, kept, ts_counter,
          ts_n_drops, termflag, running, delivered, insync, excused>>

-----------------------------------------------------------------------------
(* The alignment filter. *)

IsSync(b) == b[3]

(* How many sync bytes follow each other at the distance of a packet. *)
SyncsFrom(data, skip) ==
  Cardinality({n \in 1 .. MaxSyncs : \A i \in 0 .. n - 1 :
                 /\ skip + i * PacketSize < Len(data)
                 /\ IsSync(data[skip + i * PacketSize + 1])})

Skips == 0 .. PacketSize - 1

MostSyncs(data) == Max({SyncsFrom(data, s) : s \in Skips})

(* Mutant of Skip: the first sync byte instead of the longest row of them. *)
SkipToFirst(data) ==
  LET found == {s \in Skips : SyncsFrom(data, s) > 0}
  IN  IF found = {} THEN 0 ELSE Min(found)

Skip(data) ==
  LET most == MostSyncs(data) IN Min({s \in Skips : SyncsFrom(data, s) = most})

Whole(n) == (n \div PacketSize) * PacketSize

(* The packets of the data behind what is skipped, and what is kept of it for
   the next call. *)
Packets(data, skip) ==
  [i \in 1 .. (Len(data) - skip) \div PacketSize |->
     SubSeq(data, skip + (i - 1) * PacketSize + 1, skip + i * PacketSize)]

Remainder(data, skip) == SubSeq(data, skip + Whole(Len(data) - skip) + 1, Len(data))

-----------------------------------------------------------------------------
(* The packet counter, for a stream of one PID.  A packet that does not begin
   with a sync byte is a drop; one that begins with another byte of that value
   has some other PID. *)

(* Mutant of NoCounter: the counter is kept without its offset of 16. *)
NoCounterButZero == 0

NoCounter == CounterMod

Counted(count, packet) ==
  LET head == packet[1]
      cc == head[1] % CounterMod
  IN  CASE ~IsSync(head) -> [count EXCEPT !.drops = @ + 1]
        [] IsSync(head) /\ head[2] # 0 -> count
        [] OTHER ->
             [drops |-> IF count.counter # NoCounter
                           /\ (count.counter + 1) % CounterMod # cc
                        THEN count.drops + 1 ELSE count.drops,
              counter |-> cc]

CountedAll(packets) ==
  LET count[i \in 0 .. Len(packets)] ==
        IF i = 0 THEN [drops |-> ts_n_drops, counter |-> ts_counter]
        ELSE Counted(count[i - 1], packets[i])
  IN  count[Len(packets)]

-----------------------------------------------------------------------------
(* What may be expected of the filter. *)

IsNext(a, b) == \/ b[1] = a[1] /\ b[2] = a[2] + 1
                \/ b[1] = a[1] + 1 /\ b[2] = 0 /\ a[2] = PacketSize - 1

Holes(data) == {i \in 1 .. Len(data) - 1 : ~IsNext(data[i], data[i + 1])}

PacketsOf(bytes) == {bytes[i][1] : i \in DOMAIN bytes}

FalseSyncs(data) == {i \in DOMAIN data : IsSync(data[i]) /\ data[i][2] # 0}

(* As many bytes that look like sync bytes, in a row, as the filter looks for. *)
FalseRow(data) ==
  \E s \in Skips : \A n \in 0 .. MaxSyncs - 1 : s + n * PacketSize + 1 \in FalseSyncs(data)

(* Out of step, the filter must find the packets again when it is given enough
   of them, or when nothing looks like a sync byte that is none. *)
FindsPackets(data) ==
  \/ Len(data) >= MaxSyncs * PacketSize /\ ~FalseRow(data)
  \/ /\ FalseSyncs(data) = {}
     /\ \E i \in 1 .. Len(data) : i <= PacketSize /\ IsSync(data[i])

(* With a hole behind so many bytes, the row of another byte may be longer than
   that of the sync bytes. *)
Misleads(data, intact) ==
  /\ intact <= (MaxSyncs - 1) * PacketSize
  /\ \E i \in FalseSyncs(data) : i <= PacketSize

(* In step, it may fail only behind a hole, of which the byte before the data
   tells, too, or shortly before one. *)
ExcusedBy(before, data) ==
  LET all == before \o data
      hole == Min(Holes(all))
  IN  CASE Holes(all) # {} /\ insync ->
             IF Misleads(data, hole - Len(before)) THEN PacketsOf(all)
             ELSE PacketsOf(SubSeq(all, hole, Len(all)))
        [] Holes(all) # {} /\ ~insync -> PacketsOf(all)
        [] Holes(all) = {} /\ ~insync /\ ~FindsPackets(data) -> PacketsOf(data)
        [] OTHER -> {}

-----------------------------------------------------------------------------
Init ==
  /\ \E i \in Inputs : file = i[1] /\ paced = i[2] /\ clock = i[3]
  /\ flg_set_eof \in BOOLEAN
  /\ position = 0
  /\ buf = <<>>
  /\ eof = FALSE
  /\ pace = FirstPace
  /\ pcr_kept = <<>>
  /\ n_recv = FALSE
  /\ kept = <<>>
  /\ ts_counter = NoCounter
  /\ ts_n_drops = 0
  /\ termflag = FALSE
  /\ running = TRUE
  /\ delivered = <<>>
  /\ insync = (file[1][2] = 0)
  /\ excused = IF file[1][2] = 0 THEN {} ELSE {file[1][1]}
  /\ same_clock = FALSE
  /\ since = 0
  /\ held = 0

(* What a read may return; nothing, too, if a pipe has nothing. *)
ReadSizes ==
  IF Len(buf) >= BlockSize \/ eof THEN {0}
  ELSE 0 .. Min({BlockSize - Len(buf), Len(file) - position})

(* Mutant of AtEnd: a read with no room in the buffer is the end, too. *)
AtEndWhenFull(n) == n = 0 /\ (position = Len(file) \/ Len(buf) >= BlockSize)

AtEnd(n) == position = Len(file) /\ n = 0 /\ Len(buf) < BlockSize

(* The decoder, the counter and the buffer get what was read. *)
Filter(chunk) ==
  LET data == kept \o chunk
      passed == position - Len(buf) - Len(kept)
      before == SubSeq(file, Max({passed, 1}), passed)
      skip == Skip(data)
      packets == Packets(data, skip)
      counts == CountedAll(packets)
  IN  /\ kept' = Remainder(data, skip)
      /\ delivered' = delivered \o packets
      /\ ts_n_drops' = counts.drops
      /\ ts_counter' = counts.counter
      /\ excused' = excused \cup ExcusedBy(before, data)
      /\ insync' = (Holes(before \o data) = {} /\ (insync \/ FindsPackets(data)))

(* The time stamp after the bytes out were handed on.  The PCRs are found by a
   filter of the module's own, which is only given what is handed on. *)
PcrOf(packet) ==
  IF IsSync(packet[1]) /\ packet[1][2] = 0 THEN clock[packet[1][1]] ELSE NoPcr

Stamped(now, out, elapsed) ==
  LET data == pcr_kept \o out
      packets == Packets(data, Skip(data))
      pcrs == [i \in DOMAIN packets |-> PcrOf(packets[i])]
      handed == position - Len(buf) + Len(out)
  IN  CASE out = <<>> \/ paced = "unlimited" -> now
        [] out # <<>> /\ paced = "rate" -> set_timestamp_bytes(now, handed, elapsed)
        [] out # <<>> /\ paced = "pcr" -> set_timestamp_pcr(now, pcrs)

FilterPcrs(out) ==
  LET data == pcr_kept \o out
  IN  pcr_kept' = IF out = <<>> \/ paced # "pcr" THEN pcr_kept
                  ELSE Remainder(data, Skip(data))

(* The time in which the PCR goes through all of its values. *)
PcrRound == PCR_BASE_MAX \div TicksPerMs

(* The history need not know of longer times. *)
LongTime == IF paced = "rate" THEN Len(file) + 2 * ResetTime ELSE PcrRound

Elapsed(time) == Min({since + time, LongTime})

Remember(tested, out, time) ==
  /\ same_clock' = tested.set_last_PCR
  /\ since' = IF paced = "rate" \/ same_clock' THEN Elapsed(time) ELSE 0
  /\ held' = IF Len(buf) >= PacketSize /\ out = <<>> THEN held + time ELSE 0

(* The loop waits if the last turn gave nothing; at the end of the file it only
   sleeps. *)
LooksAtTime ==
  ~n_recv /\ paced # "unlimited" /\ ~(eof /\ Len(buf) < PacketSize)

AfterWait(before) ==
  LET now == Passed(pace, before)
  IN  IF LooksAtTime THEN wait_timestamp(now) ELSE now

(* What passes before the loop waits for the stream, and from then on until it
   reads; the two are one if the wait looks at no time stamp. *)
Times == IF paced = "unlimited" THEN {0} ELSE TimeSteps

TimesInWait == IF LooksAtTime THEN TimeSteps ELSE {0}

(* One turn of the receive loop: a wait, a read, the end of the file noticed,
   the whole packets of the read buffer handed out unless it is too early for
   them, and the end of the main loop if it was asked for, which is looked at
   when a turn gave nothing or took too long. *)
Turn(n, before, during) ==
  LET bytes == buf \o SubSeq(file, position + 1, position + n)
      now == Passed(AfterWait(before), during)
      few == Len(bytes) < PacketSize
      tested == IF few \/ paced = "unlimited" THEN now ELSE wait_timestamp(now)
      empty == few \/ (paced # "unlimited" /\ tested.ahead > 0)
      out == IF empty THEN <<>> ELSE SubSeq(bytes, 1, Whole(Len(bytes)))
      stamped == Stamped(tested, out, Elapsed(before + during))
  IN  /\ position' = position + n
      /\ eof' = (eof \/ AtEnd(n))
      /\ termflag' = (termflag \/ (eof' /\ flg_set_eof))
      /\ buf' = SubSeq(bytes, Len(out) + 1, Len(bytes))
      /\ n_recv' = (out # <<>>)
      /\ pace' = stamped
      /\ FilterPcrs(out)
      /\ Filter(out)
      /\ running' \in IF termflag' THEN {FALSE, out # <<>>} ELSE {TRUE}
      /\ Remember(tested, out, before + during)
      /\ UNCHANGED inputVars

Receive ==
  /\ running
  /\ \E n \in ReadSizes, before \in Times, during \in TimesInWait : Turn(n, before, during)

Ended == ~running /\ UNCHANGED vars

Next == Receive \/ Ended

Spec == Init /\ [][Next]_vars

-----------------------------------------------------------------------------
(* The packets of the file that are there in whole. *)
PacketAt(i) == SubSeq(file, i, i + PacketSize - 1)

PacketPlaces ==
  {i \in 1 .. Len(file) - PacketSize + 1 : file[i][2] = 0 /\ Holes(PacketAt(i)) = {}}

Undamaged == Holes(file) = {} /\ file[1][2] = 0

InDelivered(packet) == \E i \in DOMAIN delivered : delivered[i] = packet

(* Both remainders fit where they are kept: the filter saves its own in an array
   of one packet. *)
InputTypeOK ==
  /\ position \in 0 .. Len(file)
  /\ Len(buf) <= BlockSize
  /\ Len(kept) < PacketSize
  /\ Len(pcr_kept) < PacketSize
  /\ pace.remain_PCR \in 0 .. TicksPerMs - 1
  /\ ts_n_drops \in Nat
  /\ ts_counter \in 0 .. CounterMod
  /\ {eof, n_recv, termflag, running, insync} \subseteq BOOLEAN
  /\ \A i \in DOMAIN delivered : Len(delivered[i]) = PacketSize

(* Every byte of the file is in one place: it was delivered or skipped, is kept
   by the filter, in the read buffer or not read yet, in this order; none is
   delivered twice or out of order. *)
InOrder ==
  LET rest == kept \o buf \o SubSeq(file, position + 1, Len(file))
      first == Len(file) - Len(rest) + 1
  IN  /\ first > 0
      /\ rest = SubSeq(file, first, Len(file))
      /\ \A i \in DOMAIN delivered :
           /\ \A k \in 1 .. PacketSize - 1 : Before(delivered[i][k], delivered[i][k + 1])
           /\ i > 1 => Before(delivered[i - 1][PacketSize], delivered[i][1])
           /\ rest # <<>> => Before(delivered[i][PacketSize], rest[1])

(* However the stream is cut into reads, and whatever bytes look like sync
   bytes: a packet that is whole in the file and was passed is delivered whole,
   unless it came behind a hole, before the filter could find the packets
   again. *)
Survives ==
  LET passed == position - Len(buf) - Len(kept)
  IN  \A i \in PacketPlaces :
        i + PacketSize - 1 <= passed /\ file[i][1] \notin excused =>
          InDelivered(PacketAt(i))

Intact == InputTypeOK /\ InOrder /\ Survives

(* A stream without damage counts no drop; when packets are missing between two
   that were delivered, a drop has been counted, but for a multiple of as many as
   the counter has values. *)
IsHead(packet) == packet[1][2] = 0

Successive(i, j) ==
  /\ i < j
  /\ IsHead(delivered[i]) /\ IsHead(delivered[j])
  /\ \A k \in i + 1 .. j - 1 : ~IsHead(delivered[k])

DropsAreCounted ==
  /\ Undamaged => ts_n_drops = 0
  /\ \A i, j \in DOMAIN delivered :
       Successive(i, j) /\ (delivered[j][1][1] - delivered[i][1][1]) % CounterMod # 1
         => ts_n_drops > 0

(* The whole file is recorded, also when the program ends with it, unless a pace
   has to be kept: then --eof ends the loop while the last block waits. *)
FileIsRecorded ==
  Undamaged /\ ~(paced # "unlimited" /\ flg_set_eof) /\ (~running \/ (eof /\ Len(buf) < PacketSize)) =>
    \A i \in PacketPlaces : InDelivered(PacketAt(i))

(* The pace is kept, to a unit of time: while the PCRs follow each other, with or
   without a wrap, or a rate was given, nothing is handed on before as much time
   has passed as the stream has gone on, nor later by more than what makes the
   time stamp be given up (as far as PCRs tell, which is for a round of them);
   and whatever the PCRs do, a block waits no longer than that. *)
HandsOn == position' - Len(buf') > position - Len(buf)

Streamed == ((pace.last_PCR - pace.first_PCR) % PCR_BASE_MAX) \div TicksPerMs

InPace ==
  CASE paced = "unlimited" -> TRUE
    [] paced = "rate" -> (position - Len(buf)) \div BytesPerMs <= since'
    [] paced = "pcr" -> same_clock' /\ since' < PcrRound =>
                          since' - Streamed \in 0 .. ResetTime + 1

KeepsPace == [][(HandsOn => InPace) /\ held' < ResetTime]_vars
=============================================================================
