---------------------------- MODULE MCAbHistory -----------------------------
(* A small instance of AbHistory: one slot for an output module.           *)
EXTENDS AbHistory

NoBlock == [aligned |-> TRUE, use_retval |-> TRUE, realtime |-> FALSE,
            maxsize |-> 0, minsize |-> 0]

OnlyNoBlock == {NoBlock}
=============================================================================
