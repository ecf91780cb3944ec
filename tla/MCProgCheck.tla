---------------------------- MODULE MCProgCheck ----------------------------
(* Instances of ProgCheck for TLC.                                         *)
EXTENDS ProgCheck

(* A service with an event table, whose stream has no clock, and one       *)
(* without, whose stream has.                                              *)
EventsOrTime == {[eit |-> TRUE, time |-> FALSE], [eit |-> FALSE, time |-> TRUE]}
TimeOnly     == {[eit |-> FALSE, time |-> TRUE]}
=============================================================================
