----------------------------- MODULE MCInputPath -----------------------------
EXTENDS InputPath

CONSTANTS
  Sent,        \* packets sent
  HoleSizes    \* how many bytes may be missing in one place

(* The bytes that look like a sync byte and are none: none, one of these, or the
   second of every packet. *)
Lookalikes == {{}, {<<1, 1>>}, {<<2, 1>>}, (0 .. Sent - 1) \X {1}}

(* A stream in which the bytes after the first from are missing. *)
Stream(from, size, lookalikes) ==
  LET byte(i) == LET n == (i - 1) \div PacketSize
                     k == (i - 1) % PacketSize
                 IN  <<n, k, k = 0 \/ <<n, k>> \in lookalikes>>
      all == [i \in 1 .. Sent * PacketSize |-> byte(i)]
  IN  SubSeq(all, 1, from) \o SubSeq(all, from + size + 1, Len(all))

Damaged ==
  {Stream(from, size, lookalikes) :
     from \in 0 .. (Sent - 1) * PacketSize, size \in HoleSizes, lookalikes \in Lookalikes}

(* The PCRs of a stream that has a step of jump before one of its packets. *)
Clock(begin, step, jump, at) ==
  [n \in 0 .. Sent - 1 |->
     (begin + n * step + IF n < at THEN 0 ELSE jump) % PCR_BASE_MAX]

(* A steady clock that wraps, one that is put back and one that is put on, and
   one whose first packets come before the PMT. *)
Clocks ==
  {Clock(PCR_BASE_MAX - 5, 3, 0, 0), Clock(30, 3, -15, 2), Clock(2, 3, 20, 2),
   [Clock(20, 3, 0, 0) EXCEPT ![0] = NoPcr]}

NoClock == [n \in 0 .. Sent - 1 |-> NoPcr]

Paced == {Stream(0, 0, {}), Stream(2, 1, {<<2, 1>>})}

MCInputs ==
  (Damaged \X {"unlimited"} \X {NoClock}) \cup (Paced \X {"rate"} \X {NoClock})
    \cup (Paced \X {"pcr"} \X Clocks)
=============================================================================
