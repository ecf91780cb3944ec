------------------------------ MODULE CmdExec ------------------------------
(***************************************************************************)
(* modules/mod_cmdexec.c, as built for POSIX: the child processes.         *)
(*                                                                         *)
(* A programme starts its chains of pipe commands, and when the last of    *)
(* them is over it runs the commands of its end, which are looked after in *)
(* one table for all programmes (exec_ps).  core/ts_output.c calls the     *)
(* hooks in the order that module PgOutput gives them, main_loop in the    *)
(* order create..., tick..., preclose, the rest of the closing, close.     *)
(* The children are the environment: they end when they like, or never,    *)
(* and need not heed SIGINT.                                               *)
(***************************************************************************)
EXTENDS CmdOptions, FiniteSets, SequencesExt

CONSTANTS
  MaxProgs,     \* the programmes in overlap, MAX_PGOVERLAP
  MaxPids,      \* the processes the system has room for
  MaxFds,       \* the descriptors there are for pipes
  MaxExec,      \* MAX_EXEC_PROCESSES
  LimitSec,     \* CMDEXEC_LIMIT_SEC, in ticks of the model's clock
  KillSec,      \* CMDEXEC_KILL_SEC
  PrecloseSec,  \* the 10 seconds of hook_preclose_module
  CloseSec      \* the 5 seconds of hook_close_module

ASSUME ProcessAssumption ==
  /\ MaxProgs \in Nat /\ MaxPids \in Nat /\ MaxFds \in Nat
  /\ MaxExec \in Nat \ {0}
  /\ LimitSec \in Nat /\ KillSec \in Nat /\ PrecloseSec \in Nat /\ CloseSec \in Nat

Progs    == 1 .. MaxProgs
Commands == 1 .. MaxPipecmds
Pids     == 1 .. MaxPids
Fds      == 1 .. MaxFds

VARIABLES
  live,    \* the programmes with a module_stat_t
  stage,   \* what ts_output.c knows of the client of each top
  ps,      \* the module_stat_t's pipestats
  exec_ps, \* the first n_exec_ps entries of exec_ps
  due,     \* a second has begun since hook_tick last looked
  proc,    \* what the system knows of each process
  asked,   \* the processes that were sent SIGINT
  pipes,   \* the client each descriptor was opened for
  at,      \* where the module is: "idle", in a hook, or in a pass over exec_ps
  who, i   \* the programme it is there for, the counter of its loop

programmes == <<live, stage, ps>>
system     == <<proc, asked, pipes>>
where      == <<at, who, i>>
vars       == <<options, programmes, exec_ps, due, system, where>>

NoPid   == 0
NoFd    == 0
NoOwner == <<0, 0>>

(* A pipestat_t.  What the module does not read again is reset: the child  *)
(* of a command that is over, the pipe that is closed.  Of what it reports *)
(* to the last commands (cmd_result, cmd_retcode) nothing is kept.         *)
Unused == [used |-> FALSE, aborted |-> FALSE, child |-> NoPid, write_pipe |-> NoFd]

Init ==
  /\ OptionsInit
  /\ live = {}
  /\ stage = [g \in Progs |-> [k \in Commands |-> "none"]]
  /\ ps = [g \in Progs |-> [k \in Commands |-> Unused]]
  /\ exec_ps = <<>>
  /\ due = TRUE
  /\ proc = [p \in Pids |-> "free"]
  /\ asked = {}
  /\ pipes = [f \in Fds |-> NoOwner]
  /\ at = "idle" /\ who = 0 /\ i = 0

Options ==
  /\ OptionsNext
  /\ UNCHANGED <<programmes, exec_ps, due, system, where>>

-----------------------------------------------------------------------------
(* The system.  A process has the first number that is free, which is the  *)
(* case where a number comes back soonest; pipe() gives the lowest.        *)
FirstFree(p) == proc[p] = "free" /\ \A q \in 1 .. p - 1 : proc[q] # "free"

LowestFd(f) == pipes[f] = NoOwner /\ \A h \in 1 .. f - 1 : pipes[h] # NoOwner

Ended(p)   == proc[p] = "ended"
Running(p) == proc[p] = "running"

(* fork, waitpid that finds the process ended, and hard_kill: SIGKILL, and *)
(* ten times waitpid, after which the process may still not be over; it is *)
(* then lost, as nothing waits for it again.                               *)
Forked(p) == [proc EXCEPT ![p] = "running"]

After(reaped, lost) ==
  [p \in Pids |-> IF p \in lost THEN "lost" ELSE IF p \in reaped THEN "free" ELSE proc[p]]

(* A hook looks at every process once at the most, so one that ends in the *)
(* middle of a hook might as well have ended before it or after it.        *)
ChildEnds(p) ==
  /\ Running(p) /\ at = "idle"
  /\ proc' = [proc EXCEPT ![p] = "ended"]
  /\ UNCHANGED <<options, programmes, exec_ps, due, asked, pipes, where>>

Closed(f) == [h \in Fds |-> IF h = f THEN NoOwner ELSE pipes[h]]

(* The clock; an age beyond every limit is not counted on.                 *)
OldAge == Max({LimitSec, KillSec, PrecloseSec, CloseSec}) + 1

Tick ==
  /\ phase \notin {"options", "refused", "aborted", "closed"} /\ at = "idle"
  /\ due' = TRUE
  /\ exec_ps' = [n \in DOMAIN exec_ps |->
                   [exec_ps[n] EXCEPT !.age = IF @ < OldAge THEN @ + 1 ELSE @]]
  /\ UNCHANGED <<options, programmes, system, where>>

-----------------------------------------------------------------------------
(***************************************************************************)
(* hook_pgoutput_precreate, and then hook_pgoutput_create for one top      *)
(* after the other until the buffer has no downstream left.  A command     *)
(* that could not be started, or that is over at once, leaves what         *)
(* precreate and the beginning of exec_child set, and the rest of its      *)
(* chain unstarted.                                                        *)
(***************************************************************************)
Precreate(g) ==
  /\ phase = "running" /\ at = "idle"
  /\ g \notin live /\ 1 .. g - 1 \subseteq live
  /\ IF NoPipeHasNoInput
     THEN /\ live' = live \cup {g}
          /\ at' = "create" /\ who' = g /\ i' = 1
          /\ UNCHANGED phase
     ELSE phase' = "aborted" /\ UNCHANGED <<live, where>>
  /\ UNCHANGED <<pipecmds, open_connect, n_execcmds, stage, ps, exec_ps, due, system>>

InCreate == at = "create" /\ i <= NPipecmds

Connects(k) ==
  stage' = IF IsTop(k) THEN [stage EXCEPT ![who][k] = "open"] ELSE stage

(* The command gets a pipe from tsdump.                                    *)
GetsPipe(k) == IsTop(k) /\ ~ pipecmds[k].no_pipe

Startable(k) == ~ IsTop(k) => ps[who][k - 1].child # NoPid

ExecChild ==
  /\ InCreate /\ Startable(i)
  /\ Connects(i)
  /\ \E p \in Pids, f \in Fds \cup {NoFd} :
       /\ FirstFree(p)
       /\ IF GetsPipe(i) THEN f # NoFd /\ LowestFd(f) ELSE f = NoFd
       /\ proc' = Forked(p)
       /\ pipes' = IF f = NoFd THEN pipes ELSE [pipes EXCEPT ![f] = <<who, i>>]
       /\ ps' = [ps EXCEPT ![who][i] =
                   [used |-> TRUE, aborted |-> FALSE, child |-> p, write_pipe |-> f]]
  /\ i' = i + 1
  /\ UNCHANGED <<options, live, exec_ps, due, asked, at, who>>

ExecChildFails ==
  /\ InCreate
  /\ Connects(i)
  /\ i' = i + 1
  /\ UNCHANGED <<options, live, ps, exec_ps, due, system, at, who>>

NotConnected ==
  /\ InCreate /\ IsTop(i)
  /\ i' = NPipecmds + 1
  /\ UNCHANGED <<options, programmes, exec_ps, due, system, at, who>>

CreateEnd ==
  /\ at = "create" /\ i > NPipecmds
  /\ at' = "idle" /\ who' = 0 /\ i' = 0
  /\ UNCHANGED <<options, programmes, exec_ps, due, system>>

-----------------------------------------------------------------------------
(***************************************************************************)
(* hook_pgoutput, when something changes: the write fails and the pipe is  *)
(* closed, or the command of a pipe that is broken, or that has none, is   *)
(* found to have ended.                                                    *)
(***************************************************************************)
(* Mutant of Over: the command goes on to be taken for one that runs.      *)
OverUnmarked(r) == r

Over(r) == [r EXCEPT !.used = FALSE, !.child = NoPid]

Client(g, k, s) == g \in live /\ k \in Tops /\ stage[g][k] = s /\ at = "idle"

WriteFails(g, k) ==
  /\ Client(g, k, "open")
  /\ ps[g][k].used /\ ~ ps[g][k].aborted /\ ~ pipecmds[k].no_pipe
  /\ ps' = [ps EXCEPT ![g][k].aborted = TRUE, ![g][k].write_pipe = NoFd]
  /\ pipes' = Closed(ps[g][k].write_pipe)
  /\ UNCHANGED <<options, live, stage, exec_ps, due, proc, asked, where>>

OutputFindsEnded(g, k) ==
  /\ Client(g, k, "open")
  /\ ps[g][k].used /\ Ended(ps[g][k].child)
  /\ ps[g][k].aborted \/ pipecmds[k].no_pipe
  /\ ps' = [ps EXCEPT ![g][k] = Over(@)]
  /\ proc' = After({ps[g][k].child}, {})
  /\ asked' = asked \ {ps[g][k].child}
  /\ UNCHANGED <<options, live, stage, exec_ps, due, pipes, where>>

(***************************************************************************)
(* hook_pgoutput_close.  Of a command that was never started aborted and   *)
(* write_pipe are what was in the memory before: nothing is closed, or any *)
(* descriptor.                                                             *)
(***************************************************************************)
Initialised(r) == r.used \/ r.aborted

Close(g, k) ==
  /\ Client(g, k, "open")
  /\ stage' = [stage EXCEPT ![g][k] = "waiting"]
  /\ \E f \in Fds \cup {NoFd} :
       /\ Initialised(ps[g][k]) => f = ps[g][k].write_pipe
       /\ pipes' = IF ps[g][k].aborted \/ pipecmds[k].no_pipe THEN pipes ELSE Closed(f)
  /\ ps' = [ps EXCEPT ![g][k].aborted = FALSE, ![g][k].write_pipe = NoFd]
  /\ UNCHANGED <<options, live, exec_ps, due, proc, asked, where>>

-----------------------------------------------------------------------------
(***************************************************************************)
(* hook_pgoutput_forceclose: check_pipe_child_process for the commands of  *)
(* the chain.  ts_output.c calls it without force until it answers that    *)
(* nothing is busy, or the time is up (remain_ms <= 0); what then still    *)
(* runs is sent SIGINT, and the next call it makes is with force.          *)
(***************************************************************************)
UsedOf(g, k)    == {l \in Chain(k) : ps[g][l].used}
EndedOf(g, k)   == {l \in UsedOf(g, k) : Ended(ps[g][l].child)}
RunningOf(g, k) == {l \in UsedOf(g, k) : Running(ps[g][l].child)}
PidsOf(g, S)    == {ps[g][l].child : l \in S}

AllOver(g, S) ==
  [ps EXCEPT ![g] = [l \in Commands |-> IF l \in S THEN Over(ps[g][l]) ELSE ps[g][l]]]

Forceclose(g, k, late) ==
  /\ Client(g, k, "waiting")
  /\ ps' = AllOver(g, EndedOf(g, k))
  /\ proc' = After(PidsOf(g, EndedOf(g, k)), {})
  /\ asked' = (asked \cup IF late THEN PidsOf(g, RunningOf(g, k)) ELSE {})
              \ PidsOf(g, EndedOf(g, k))
  /\ stage' = [stage EXCEPT ![g][k] =
                 IF RunningOf(g, k) = {} THEN "done" ELSE IF late THEN "asked" ELSE @]
  /\ UNCHANGED <<options, live, exec_ps, due, pipes, where>>

ForcecloseNow(g, k) ==
  /\ Client(g, k, "asked")
  /\ \E lost \in SUBSET PidsOf(g, RunningOf(g, k)) :
       proc' = After(PidsOf(g, UsedOf(g, k)), lost)
  /\ ps' = AllOver(g, UsedOf(g, k))
  /\ asked' = asked \ PidsOf(g, UsedOf(g, k))
  /\ stage' = [stage EXCEPT ![g][k] = "done"]
  /\ UNCHANGED <<options, live, exec_ps, due, pipes, where>>

-----------------------------------------------------------------------------
(***************************************************************************)
(* hook_pgoutput_postclose: the commands of the programme's end are        *)
(* started, and kept in exec_ps (insert_runngin_ps).                       *)
(***************************************************************************)
Postclose(g) ==
  /\ phase \in {"running", "closing"} /\ at = "idle" /\ g \in live
  /\ \A k \in Commands : stage[g][k] \in {"none", "done"}
  /\ at' = "postclose" /\ who' = g /\ i' = 1
  /\ UNCHANGED <<options, programmes, exec_ps, due, system>>

InPostclose == at = "postclose" /\ i <= n_execcmds

(* Mutant of Full: one process too many is let in.                         *)
FullBeyond == Len(exec_ps) > MaxExec

Full == Len(exec_ps) >= MaxExec

NewExec(p) == [child |-> p, killmode |-> FALSE, age |-> 0]

ExecCmd ==
  /\ InPostclose
  /\ \E p \in Pids :
       /\ FirstFree(p)
       /\ IF Full
          THEN LET oldest == exec_ps[1].child IN
               /\ exec_ps' = Append(Tail(exec_ps), NewExec(p))
               /\ \E lost \in {{}} \cup (IF Running(oldest) THEN {{oldest}} ELSE {}) :
                    proc' = [After({oldest}, lost) EXCEPT ![p] = "running"]
               /\ asked' = asked \ {oldest}
          ELSE /\ exec_ps' = Append(exec_ps, NewExec(p))
               /\ proc' = Forked(p)
               /\ UNCHANGED asked
  /\ i' = i + 1
  /\ UNCHANGED <<options, programmes, due, pipes, at, who>>

ExecCmdFails ==
  /\ InPostclose
  /\ i' = i + 1
  /\ UNCHANGED <<options, programmes, exec_ps, due, system, at, who>>

PostcloseEnd ==
  /\ at = "postclose" /\ i > n_execcmds
  /\ live' = live \ {who}
  /\ stage' = [stage EXCEPT ![who] = [k \in Commands |-> "none"]]
  /\ ps' = [ps EXCEPT ![who] = [k \in Commands |-> Unused]]
  /\ at' = "idle" /\ who' = 0 /\ i' = 0
  /\ UNCHANGED <<options, exec_ps, due, system>>

-----------------------------------------------------------------------------
(***************************************************************************)
(* check_exec_child_processes: a pass over exec_ps, for hook_tick once a   *)
(* second, for hook_preclose_module, and for hook_close_module until the   *)
(* table is empty.  The entry after one that is deleted takes its place    *)
(* and is left for the next pass.                                          *)
(***************************************************************************)
Passes == {"tick", "preclose", "collect"}

TimeoutSoft == CASE at = "tick" -> LimitSec
                 [] at = "preclose" -> PrecloseSec
                 [] OTHER -> CloseSec

TimeoutHard == IF at = "collect" THEN CloseSec ELSE KillSec

BeginPass(pass) == at' = pass /\ i' = 1 /\ UNCHANGED <<programmes, exec_ps, system, who>>

HookTick ==
  /\ phase = "running" /\ at = "idle"
  /\ due /\ due' = FALSE
  /\ BeginPass("tick")
  /\ UNCHANGED options

(* The main loop has ended; the programmes are closed after this.          *)
PrecloseModule ==
  /\ phase = "running" /\ at = "idle"
  /\ phase' = "closing"
  /\ BeginPass("preclose")
  /\ UNCHANGED <<pipecmds, open_connect, n_execcmds, due>>

(* Every programme has been closed.                                        *)
CloseModule ==
  /\ phase \in {"closing", "collecting"} /\ at = "idle" /\ live = {}
  /\ IF exec_ps = <<>>
     THEN phase' = "closed" /\ UNCHANGED <<programmes, exec_ps, system, where>>
     ELSE phase' = "collecting" /\ BeginPass("collect")
  /\ UNCHANGED <<pipecmds, open_connect, n_execcmds, due>>

Checks(p) == at \in Passes /\ i <= Len(exec_ps) /\ p = exec_ps[i].child

Expired(timeout) == exec_ps[i].age > timeout

CheckEnded(p) ==
  /\ Checks(p) /\ Ended(p)
  /\ exec_ps' = RemoveAt(exec_ps, i)
  /\ proc' = After({p}, {})
  /\ asked' = asked \ {p}
  /\ i' = i + 1
  /\ UNCHANGED <<options, programmes, due, pipes, at, who>>

(* Mutant of SoftKilled: the entry is asked again and again.               *)
AskedAgain(e) == [e EXCEPT !.age = 0]

SoftKilled(e) == [e EXCEPT !.killmode = TRUE, !.age = 0]

CheckSoft(p) ==
  /\ Checks(p) /\ Running(p)
  /\ ~ exec_ps[i].killmode /\ Expired(TimeoutSoft)
  /\ asked' = asked \cup {p}
  /\ exec_ps' = [exec_ps EXCEPT ![i] = SoftKilled(@)]
  /\ i' = i + 1
  /\ UNCHANGED <<options, programmes, due, proc, pipes, at, who>>

(* Mutant of ToKill: whether the process was asked to end is not looked at.*)
ToKillUnasked == Expired(TimeoutHard)

ToKill == exec_ps[i].killmode /\ Expired(TimeoutHard)

CheckHard(p) ==
  /\ Checks(p) /\ Running(p)
  /\ ToKill
  /\ exec_ps' = RemoveAt(exec_ps, i)
  /\ \E lost \in SUBSET {p} : proc' = After({p}, lost)
  /\ asked' = asked \ {p}
  /\ i' = i + 1
  /\ UNCHANGED <<options, programmes, due, pipes, at, who>>

CheckNothing(p) ==
  /\ Checks(p) /\ Running(p)
  /\ IF exec_ps[i].killmode THEN ~ Expired(TimeoutHard) ELSE ~ Expired(TimeoutSoft)
  /\ i' = i + 1
  /\ UNCHANGED <<options, programmes, exec_ps, due, system, at, who>>

CheckEnd ==
  /\ at \in Passes /\ i > Len(exec_ps)
  /\ at' = "idle" /\ i' = 0
  /\ UNCHANGED <<options, programmes, exec_ps, due, system, who>>

Check == CheckEnd \/ \E p \in Pids :
           CheckEnded(p) \/ CheckSoft(p) \/ CheckHard(p) \/ CheckNothing(p)

-----------------------------------------------------------------------------
Create == CreateEnd \/ ExecChild \/ ExecChildFails \/ NotConnected

PostcloseStep == PostcloseEnd \/ ExecCmd \/ ExecCmdFails

ClientStep(g, k) ==
  \/ WriteFails(g, k) \/ OutputFindsEnded(g, k) \/ Close(g, k)
  \/ \E late \in BOOLEAN : Forceclose(g, k, late)
  \/ ForcecloseNow(g, k)

(* The program is over.                                                    *)
Stopped == phase \in {"refused", "aborted", "closed"} /\ UNCHANGED vars

Next ==
  \/ Options
  \/ Tick \/ HookTick \/ PrecloseModule \/ CloseModule \/ Check
  \/ Create \/ PostcloseStep
  \/ \E g \in Progs : \/ Precreate(g) \/ Postclose(g)
                      \/ \E k \in Commands : ClientStep(g, k)
  \/ \E p \in Pids : ChildEnds(p)
  \/ Stopped

Spec == Init /\ [][Next]_vars

(***************************************************************************)
(* What the program itself does goes on.  The main loop calls do_tick in   *)
(* every turn, and time passes; at the end PgOutput's ShutdownEnds has     *)
(* every client closed, asked and closed by force.  A child need not end.  *)
(***************************************************************************)
Shutdown ==
  \/ CloseModule
  \/ phase = "closing" /\ \E g \in Progs :
       \/ Postclose(g)
       \/ \E k \in Commands : Close(g, k) \/ Forceclose(g, k, TRUE) \/ ForcecloseNow(g, k)

FairSpec ==
  /\ Spec
  /\ WF_vars(Check) /\ WF_vars(Create) /\ WF_vars(PostcloseStep)
  /\ SF_vars(Tick) /\ SF_vars(HookTick)
  /\ WF_vars(Shutdown)

-----------------------------------------------------------------------------
Clients == Progs \X Commands

UsedClients  == {c \in Clients : ps[c[1]][c[2]].used}
ChildOf(c)   == ps[c[1]][c[2]].child
ExecIndices  == DOMAIN exec_ps

PipestatType ==
  [used : BOOLEAN, aborted : BOOLEAN, child : Pids \cup {NoPid}, write_pipe : Fds \cup {NoFd}]

(* Types; the table of the running processes has room for what is in it.   *)
TypeOK ==
  /\ phase \in {"options", "refused", "aborted", "running", "closing", "collecting", "closed"}
  /\ Len(pipecmds) <= MaxPipecmds /\ n_execcmds \in 0 .. MaxCmds
  /\ live \subseteq Progs
  /\ stage \in [Progs -> [Commands -> {"none", "open", "waiting", "asked", "done"}]]
  /\ ps \in [Progs -> [Commands -> PipestatType]]
  /\ exec_ps \in Seq([child : Pids, killmode : BOOLEAN, age : 0 .. OldAge])
  /\ Len(exec_ps) <= MaxExec
  /\ proc \in [Pids -> {"free", "running", "ended", "lost"}]
  /\ asked \subseteq Pids
  /\ pipes \in [Fds -> Clients \cup {NoOwner}]

(***************************************************************************)
(* A number of a process that the module holds, to signal it or to wait    *)
(* for it, is that of a child that has not been waited for, and is held    *)
(* once: a process of another's that got the number again is never killed. *)
(* And no child is forgotten, other than those that outlived SIGKILL.      *)
(***************************************************************************)
ChildrenAreHeld ==
  LET held == [c \in UsedClients |-> ChildOf(c)]
      exec == {exec_ps[n].child : n \in ExecIndices}
  IN /\ \A c, d \in UsedClients : held[c] = held[d] => c = d
     /\ \A m, n \in ExecIndices : exec_ps[m].child = exec_ps[n].child => m = n
     /\ exec \cap {held[c] : c \in UsedClients} = {}
     /\ exec \cup {held[c] : c \in UsedClients}
          = {p \in Pids : proc[p] \in {"running", "ended"}}

(***************************************************************************)
(* A process is killed only after it was asked to end, by SIGINT, and did  *)
(* not: all the commands of a chain are asked, not its top alone.  The one *)
(* exception is the oldest entry of a full table.                          *)
(***************************************************************************)
MakesRoom(p) == at = "postclose" /\ Len(exec_ps) = MaxExec /\ p = exec_ps[1].child

KillsOnlyTheAsked ==
  [][\A p \in Pids :
       Running(p) /\ proc'[p] \in {"free", "lost"} => p \in asked \/ MakesRoom(p)]_vars

(***************************************************************************)
(* When a programme's last commands are run, with what became of its pipe  *)
(* commands as their arguments, all of these are over, and so it is of a   *)
(* programme that is not there; no pipe of theirs is left open.            *)
(***************************************************************************)
PipesOverAtPostclose ==
  \A c \in Clients :
    c[1] \notin live \/ (at = "postclose" /\ c[1] = who) =>
      /\ c \notin UsedClients
      /\ \A f \in Fds : pipes[f] # c

(* hook_close_module ends: the program does, whatever its children do.     *)
ShutdownEnds == phase = "closing" ~> phase = "closed"
=============================================================================
