------------------------------- MODULE FilePace -------------------------------
(***************************************************************************)
(* The pace at which modules/mod_filein.c hands on a file: the time stamp  *)
(* of what was handed on, from the PCRs of the stream (by default) or from *)
(* a bit rate (--filembps), and the wait until the clock has reached it.   *)
(*                                                                         *)
(* A pace is a record of the fields that filein_stat_t keeps for it.  The  *)
(* field ahead stands for timestamp - now: it falls while time passes.  As *)
(* wait_timestamp looks at the time stamp before it is used again, what is *)
(* further back than LongAgo need not be told apart.  The field first_PCR  *)
(* is history: the PCR that was due at the time when it came.              *)
(***************************************************************************)
EXTENDS Integers, Sequences

CONSTANTS
  PCR_BASE_MAX,  \* where a PCR starts again from 0 (2^33)
  TicksPerMs,    \* how far a PCR goes in a unit of time (90)
  ValidTicks,    \* from this distance on a PCR is not valid (1 s)
  ResetTime,     \* so far off the clock, a time stamp is given up (5 s)
  BytesPerMs,    \* the rate of --filembps
  NoPcr          \* in place of the PCR of a packet that has none

FilePaceAssumption ==
  /\ TicksPerMs \in Nat \ {0}
  /\ ValidTicks \in Nat \ {0}
  /\ ResetTime \in Nat \ {0}
  /\ BytesPerMs \in Nat \ {0}
  /\ PCR_BASE_MAX \in Nat
  /\ 2 * ValidTicks < PCR_BASE_MAX

ASSUME FilePaceAssumption

LongAgo == -ResetTime - 1

(* What hook_stream_generator_open begins with. *)
FirstPace ==
  [ahead |-> 0, set_last_PCR |-> FALSE, last_PCR |-> 0, remain_PCR |-> 0,
   PCR_base |-> 0, first_PCR |-> NoPcr]

Passed(pace, time) ==
  [pace EXCEPT !.ahead = IF @ - time < LongAgo THEN LongAgo ELSE @ - time]

Abs(n) == IF n < 0 THEN -n ELSE n

(* Of the two ways from one PCR to another, the shorter; only the wrap in the
   direction of time is thought of. *)
diff_PCR(pcr1, pcr2) ==
  LET diff1 == pcr1 - pcr2
      diff2 == diff1 + PCR_BASE_MAX
  IN  IF Abs(diff1) > Abs(diff2) THEN diff2 ELSE diff1

(* A PCR is taken only if it follows the one before within a second. *)
IsValid(pace, pcr) == diff_PCR(pcr, pace.PCR_base) \in 1 .. ValidTicks - 1

(* Mutant of Advanced: each part of a unit of time is forgotten. *)
AdvancedByWholes(pace, diff) ==
  [pace EXCEPT !.ahead = @ + diff \div TicksPerMs]

(* The time stamp goes on by whole units of time; the rest is kept. *)
Advanced(pace, diff) ==
  LET ticks == diff + pace.remain_PCR
  IN  [pace EXCEPT !.ahead = @ + ticks \div TicksPerMs,
                   !.remain_PCR = ticks % TicksPerMs]

(* The time stamp after a packet with this PCR.  The first valid one is due
   now; one that is not past the last that was used is only remembered as the
   predecessor of the next. *)
AfterPcr(pace, pcr) ==
  LET seen == [pace EXCEPT !.PCR_base = pcr]
      diff == diff_PCR(pcr, pace.last_PCR)
  IN  CASE pcr = NoPcr -> pace
        [] pcr # NoPcr /\ ~IsValid(pace, pcr) -> seen
        [] pcr # NoPcr /\ IsValid(pace, pcr) /\ ~pace.set_last_PCR ->
             [seen EXCEPT !.set_last_PCR = TRUE, !.ahead = 0,
                          !.last_PCR = pcr, !.first_PCR = pcr]
        [] pcr # NoPcr /\ IsValid(pace, pcr) /\ pace.set_last_PCR /\ diff > 0 ->
             [Advanced(seen, diff) EXCEPT !.last_PCR = pcr]
        [] OTHER -> seen

set_timestamp_pcr(pace, pcrs) ==
  LET after[i \in 0 .. Len(pcrs)] ==
        IF i = 0 THEN pace ELSE AfterPcr(after[i - 1], pcrs[i])
  IN  after[Len(pcrs)]

(* The time stamp is reckoned from the beginning, whatever wait_timestamp made
   of it. *)
set_timestamp_bytes(pace, total_bytes, elapsed) ==
  Passed([pace EXCEPT !.ahead = total_bytes \div BytesPerMs], elapsed)

(* Mutant of IsOff: a time stamp far ahead is waited for. *)
IsBehind(pace) == pace.ahead < -ResetTime

IsOff(pace) == pace.ahead \notin -ResetTime .. ResetTime

wait_timestamp(pace) ==
  IF IsOff(pace) THEN [pace EXCEPT !.ahead = 0, !.set_last_PCR = FALSE] ELSE pace
=============================================================================
