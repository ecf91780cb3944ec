----------------------------- MODULE MCCmdExec -----------------------------
(* Instances of CmdExec for TLC.                                           *)
EXTENDS CmdExec

Feeds  == [has_downstream |-> TRUE, no_pipe |-> FALSE]   \* --pipecmd .. --pipeconn
Plain  == [has_downstream |-> FALSE, no_pipe |-> FALSE]  \* --pipecmd ..
NoPipe == [has_downstream |-> FALSE, no_pipe |-> TRUE]   \* --pipecmd .. --nopipe

(* A chain, one top, two tops with and without a pipe, and no pipe command *)
(* but several commands at the programme's end.                            *)
SomeLines ==
  {[pipe |-> <<Feeds, Plain>>,  cmd |-> 1],
   [pipe |-> <<Plain>>,         cmd |-> 1],
   [pipe |-> <<Plain, Plain>>,  cmd |-> 0],
   [pipe |-> <<Plain, NoPipe>>, cmd |-> 0],
   [pipe |-> <<>>,              cmd |-> 2]}

=============================================================================
