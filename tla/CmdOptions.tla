----------------------------- MODULE CmdOptions -----------------------------
(***************************************************************************)
(* modules/mod_cmdexec.c: the commands of the command line, in the order   *)
(* they are given, and how a programme's pipe commands are grouped into    *)
(* chains.  A chain begins at a top, the client that gets the stream, and  *)
(* goes on while a command says that its output is the next one's input.   *)
(* The names and the arguments of the commands (--setopt) are left out.    *)
(***************************************************************************)
EXTENDS Integers, Sequences

CONSTANTS
  MaxPipecmds, \* MAX_PIPECMDS
  MaxCmds,     \* MAX_CMDS
  Followed     \* a bound: the accepted command lines to go on with

ASSUME CommandsAssumption == MaxPipecmds \in Nat /\ MaxCmds \in Nat

VARIABLES
  phase,        \* "options", and then "refused", "aborted" or what CmdExec has
  pipecmds,     \* the pipe commands' has_downstream and no_pipe
  open_connect, \* the last pipe command's output has no command to go to yet
  n_execcmds    \* the number of commands to run when a programme ends

options == <<phase, pipecmds, open_connect, n_execcmds>>

OptionsInit ==
  /\ phase = "options"
  /\ pipecmds = <<>> /\ open_connect = FALSE /\ n_execcmds = 0

NPipecmds == Len(pipecmds)

(* An option is refused with a message, and tsdump ends.                   *)
Refuse ==
  /\ phase' = "refused"
  /\ UNCHANGED <<pipecmds, open_connect, n_execcmds>>

-----------------------------------------------------------------------------
(* --pipecmd                                                               *)
SetPipeCmd ==
  /\ phase = "options"
  /\ IF NPipecmds >= MaxPipecmds THEN Refuse
     ELSE /\ pipecmds' = Append(pipecmds, [has_downstream |-> FALSE, no_pipe |-> FALSE])
          /\ open_connect' = FALSE
          /\ UNCHANGED <<phase, n_execcmds>>

(* --pipeconn                                                              *)
SetConnect ==
  /\ phase = "options"
  /\ IF NPipecmds < 1 THEN Refuse
     ELSE /\ pipecmds' = [pipecmds EXCEPT ![NPipecmds].has_downstream = TRUE]
          /\ open_connect' = TRUE
          /\ UNCHANGED <<phase, n_execcmds>>

(* --nopipe                                                                *)
SetNoPipe ==
  /\ phase = "options"
  /\ IF NPipecmds < 1 \/ open_connect THEN Refuse
     ELSE /\ pipecmds' = [pipecmds EXCEPT ![NPipecmds].no_pipe = TRUE]
          /\ UNCHANGED <<phase, open_connect, n_execcmds>>

(* --cmd                                                                   *)
SetCmd ==
  /\ phase = "options"
  /\ IF n_execcmds >= MaxCmds THEN Refuse
     ELSE /\ n_execcmds' = n_execcmds + 1
          /\ UNCHANGED <<phase, pipecmds, open_connect>>

(* hook_postconfig: the end of the options.                                *)
PostConfig ==
  /\ phase = "options"
  /\ IF open_connect THEN Refuse
     ELSE /\ [pipe |-> pipecmds, cmd |-> n_execcmds] \in Followed
          /\ phase' = "running"
          /\ UNCHANGED <<pipecmds, open_connect, n_execcmds>>

OptionsNext == SetPipeCmd \/ SetConnect \/ SetNoPipe \/ SetCmd \/ PostConfig

-----------------------------------------------------------------------------
(* hook_pgoutput_precreate                                                 *)
HasDownstream == {k \in 1 .. NPipecmds : pipecmds[k].has_downstream}

IsTop(k) == k - 1 \notin HasDownstream

Tops == {k \in 1 .. NPipecmds : IsTop(k)}

(* The commands of the chain that begins at k: the top and the             *)
(* n_downstream_cmds after it.  Mutant: the top alone.                     *)
TopAlone(k) == {k}

Chain(k) == {l \in k .. NPipecmds : \A m \in k + 1 .. l : ~ IsTop(m)}

(* precreate asserts that a command which is not a top does not have       *)
(* no_pipe, as SetNoPipe would have refused it.                            *)
NoPipeHasNoInput ==
  phase \notin {"options", "refused"} =>
    \A k \in 1 .. NPipecmds : pipecmds[k].no_pipe => IsTop(k)
=============================================================================
