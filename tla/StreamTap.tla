----------------------------- MODULE StreamTap ------------------------------
(***************************************************************************)
(* What a user of the buffer may rely on, without buffer, packets or       *)
(* handlers: readers come and go on one growing stream.  Each reads it in  *)
(* order and without gaps, from where it was attached to where it was told *)
(* to end, except that a reader more than Capacity bytes behind loses its  *)
(* oldest unread bytes, and keeps all but Grain of what Capacity allows.   *)
(***************************************************************************)
EXTENDS Integers

CONSTANTS
  Readers,   \* the readers that may be attached
  Capacity,  \* how far behind a reader may be without losing anything
  Grain,     \* what a reader loses is rounded up to units of this size
  Chunks,    \* the sizes the stream grows by
  Rooms,     \* the sizes room is made for in advance
  MaxTotal   \* bound of the model: the length of the stream

VARIABLES
  total,     \* the length of the stream so far
  on,        \* the readers attached
  ending,    \* the readers told where to end
  next,      \* the next byte of each reader
  end        \* where a reader in ending ends

vars == <<total, on, ending, next, end>>

Init ==
  /\ total = 0
  /\ on = {}
  /\ ending = {}
  /\ next = [r \in Readers |-> 0]
  /\ end = [r \in Readers |-> 0]

Attach(r, p) ==
  /\ r \notin on
  /\ p <= total
  /\ on' = on \cup {r}
  /\ next' = [next EXCEPT ![r] = p]
  /\ UNCHANGED <<total, ending, end>>

(* A reader too far behind a stream of this length is moved forward, but   *)
(* not beyond its end.                                                     *)
Loses(r, length) ==
  /\ r \in on
  /\ length - next[r] > Capacity
  /\ next'[r] > next[r]
  /\ length - next'[r] > Capacity - Grain
  /\ r \in ending => next'[r] <= end[r]

Overtakes(length) ==
  /\ next' \in [Readers -> Nat]
  /\ \A r \in Readers : next'[r] = next[r] \/ Loses(r, length)

Grow(n) ==
  /\ total + n <= MaxTotal
  /\ total' = total + n
  /\ Overtakes(total + n)
  /\ UNCHANGED <<on, ending, end>>

(* Readers may lose their bytes before what overtakes them has come.       *)
MakeRoom(n) ==
  /\ Overtakes(total + n)
  /\ UNCHANGED <<total, on, ending, end>>

Read(r, n) ==
  /\ r \in on
  /\ next[r] + n <= (IF r \in ending THEN end[r] ELSE total)
  /\ next' = [next EXCEPT ![r] = @ + n]
  /\ UNCHANGED <<total, on, ending, end>>

(* From now on the reader ends at e, which it has not yet passed.          *)
EndAt(r, e) ==
  /\ r \in on \ ending
  /\ next[r] <= e /\ e <= total
  /\ ending' = ending \cup {r}
  /\ end' = [end EXCEPT ![r] = e]
  /\ UNCHANGED <<total, on, next>>

(* The reader gives up what it has not read.                               *)
Cut(r) ==
  /\ r \in ending
  /\ next' = [next EXCEPT ![r] = end[r]]
  /\ UNCHANGED <<total, on, ending, end>>

(* Only readers that are at their end are released.                        *)
Release(S) ==
  /\ S \subseteq ending
  /\ \A r \in S : next[r] = end[r]
  /\ on' = on \ S
  /\ ending' = ending \ S
  /\ next' = [r \in Readers |-> IF r \in S THEN 0 ELSE next[r]]
  /\ end' = [r \in Readers |-> IF r \in S THEN 0 ELSE end[r]]
  /\ UNCHANGED total

(* The stream and all its readers are given up.                            *)
Shut ==
  /\ on' = {} /\ ending' = {}
  /\ next' = [r \in Readers |-> 0]
  /\ end' = [r \in Readers |-> 0]
  /\ UNCHANGED total

Next ==
  \/ \E r \in Readers, p \in 0 .. MaxTotal : Attach(r, p) \/ EndAt(r, p)
  \/ \E n \in Chunks : Grow(n)
  \/ \E n \in Rooms : MakeRoom(n)
  \/ \E r \in Readers, n \in 1 .. Capacity : Read(r, n)
  \/ \E r \in Readers : Cut(r)
  \/ \E S \in SUBSET Readers : Release(S)
  \/ Shut

Spec == Init /\ [][Next]_vars
=============================================================================
