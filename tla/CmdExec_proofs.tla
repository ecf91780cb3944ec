--------------------------- MODULE CmdExec_proofs ---------------------------
(***************************************************************************)
(* That mod_cmdexec.c holds every child it has until it has waited for it, *)
(* holds each once, kills only what it asked to end, and runs the commands *)
(* of a programme's end when its pipe commands are over: for any number of *)
(* commands, programmes, processes and descriptors, any command lines and  *)
(* any limits.                                                             *)
(*                                                                         *)
(* Each of these needs the others and four facts more, which say where a   *)
(* chain of commands is in its life: a command runs only while its chain's *)
(* top is a client (RunsInChain), a pipe is open only while its client     *)
(* gets the stream (PipeOfOpen), a chain or an entry of exec_ps that is    *)
(* about to be killed was asked to end (AskedBeforeKill), and a programme  *)
(* is in the stage that the hook it is in belongs to (InPlace).            *)
(***************************************************************************)
EXTENDS CmdExec, SequenceTheorems, TLAPS

Used(g, k)  == ps[g][k].used
Child(g, k) == ps[g][k].child

ExecType == [child : Pids, killmode : BOOLEAN, age : 0 .. OldAge]

MoreTypes ==
  /\ pipecmds \in Seq([has_downstream : BOOLEAN, no_pipe : BOOLEAN])
  /\ open_connect \in BOOLEAN
  /\ at \in {"idle", "create", "postclose"} \cup Passes
  /\ i \in Nat

(* The number of a process is held by a command, or by an entry of exec_ps.*)
ByCommand(p) == \E g \in Progs, k \in Commands : Used(g, k) /\ Child(g, k) = p
ByEntry(p)   == \E n \in ExecIndices : exec_ps[n].child = p

NotReaped(p) == proc[p] \in {"running", "ended"}

(* ChildrenAreHeld, child by child.                                        *)
HeldOnce ==
  /\ \A g, h \in Progs, k, l \in Commands :
       Used(g, k) /\ Used(h, l) /\ Child(g, k) = Child(h, l) => g = h /\ k = l
  /\ \A m, n \in ExecIndices : exec_ps[m].child = exec_ps[n].child => m = n
  /\ \A p \in Pids : ~ (ByCommand(p) /\ ByEntry(p))

HeldAll == \A p \in Pids : NotReaped(p) <=> ByCommand(p) \/ ByEntry(p)

ChildWhenUsed == \A g \in Progs, k \in Commands : Used(g, k) <=> Child(g, k) # NoPid

Active == {"open", "waiting", "asked"}

RunsInChain ==
  \A g \in Progs, l \in Commands :
    Used(g, l) => \E k \in Tops : l \in Chain(k) /\ stage[g][k] \in Active

PipeOfOpen ==
  \A f \in Fds, g \in Progs, k \in Commands :
    pipes[f] = <<g, k>> =>
      /\ stage[g][k] = "open" /\ k \in Tops
      /\ Used(g, k) /\ ~ ps[g][k].aborted /\ ~ pipecmds[k].no_pipe
      /\ ps[g][k].write_pipe = f

AskedBeforeKill ==
  /\ \A g \in Progs, k \in Tops, l \in Commands :
       stage[g][k] = "asked" /\ l \in Chain(k) /\ Used(g, l) => Child(g, l) \in asked
  /\ \A n \in ExecIndices : exec_ps[n].killmode => exec_ps[n].child \in asked

InPlace ==
  /\ phase \in {"options", "refused"} => live = {} /\ at = "idle"
  /\ \A g \in Progs \ live, k \in Commands : stage[g][k] = "none"
  /\ at = "create" =>
       /\ who \in live /\ i >= 1
       /\ \A k \in Commands : stage[who][k] \in {"none", "open"}
       /\ \A k \in Commands : k >= i => ~ Used(who, k)
  /\ at = "postclose" =>
       who \in live /\ \A k \in Commands : stage[who][k] \in {"none", "done"}
  /\ at \in Passes => i >= 1

DataInv ==
  /\ HeldOnce /\ HeldAll /\ ChildWhenUsed
  /\ RunsInChain /\ PipeOfOpen /\ AskedBeforeKill

CInv ==
  TypeOK /\ MoreTypes /\ DataInv /\ InPlace

-----------------------------------------------------------------------------
(* Facts about the operators of the model.                                 *)

(* What RemoveAt leaves of a sequence.                                     *)
LEMMA RemoveAtProperties ==
  ASSUME NEW S, NEW s \in Seq(S), NEW k \in 1 .. Len(s)
  PROVE  /\ RemoveAt(s, k) \in Seq(S)
         /\ Len(RemoveAt(s, k)) = Len(s) - 1
         /\ \A n \in 1 .. Len(s) - 1 :
              RemoveAt(s, k)[n] = IF n < k THEN s[n] ELSE s[n + 1]
<1> DEFINE front == SubSeq(s, 1, k - 1)
           back  == SubSeq(s, k + 1, Len(s))
<1>1. /\ front \in Seq(S) /\ Len(front) = k - 1
      /\ \A n \in 1 .. k - 1 : front[n] = s[n]
  <2>1. \A n \in 1 .. k - 1 : s[n] \in S
    BY ElementOfSeq
  <2>2. QED
    BY <2>1, SubSeqProperties
<1>2. /\ back \in Seq(S) /\ Len(back) = Len(s) - k
      /\ \A n \in 1 .. Len(s) - k : back[n] = s[k + n]
  <2>1. \A n \in k + 1 .. Len(s) : s[n] \in S
    BY ElementOfSeq
  <2>2. /\ back \in Seq(S)
        /\ Len(back) = IF k + 1 <= Len(s) THEN Len(s) - (k + 1) + 1 ELSE 0
        /\ \A n \in 1 .. Len(s) - (k + 1) + 1 : back[n] = s[k + 1 + n - 1]
    BY <2>1, SubSeqProperties
  <2>3. QED
    BY <2>2
<1>3. RemoveAt(s, k) = front \o back
  BY DEF RemoveAt
<1> HIDE DEF front, back
<1>4. /\ front \o back \in Seq(S)
      /\ Len(front \o back) = Len(front) + Len(back)
      /\ \A n \in 1 .. Len(front) + Len(back) :
           (front \o back)[n] = IF n <= Len(front) THEN front[n] ELSE back[n - Len(front)]
  BY <1>1, <1>2, ConcatProperties
<1>5. ASSUME NEW n \in 1 .. Len(s) - 1
      PROVE  RemoveAt(s, k)[n] = IF n < k THEN s[n] ELSE s[n + 1]
  <2>1. CASE n < k
    BY <1>1, <1>2, <1>3, <1>4, <2>1
  <2>2. CASE n >= k
    <3>1. n - (k - 1) \in 1 .. Len(s) - k /\ k + (n - (k - 1)) = n + 1
      BY <2>2
    <3>2. back[n - (k - 1)] = s[n + 1]
      BY <1>2, <3>1
    <3>3. QED
      BY <1>1, <1>2, <1>3, <1>4, <2>2, <3>2
  <2>3. QED
    BY <2>1, <2>2
<1>6. QED
  BY <1>1, <1>2, <1>3, <1>4, <1>5

(* The clock of the entries has room for every limit.                      *)
LEMMA OldAgeType == OldAge \in Nat
<1>1. \E m \in {LimitSec, KillSec, PrecloseSec, CloseSec} :
        \A y \in {LimitSec, KillSec, PrecloseSec, CloseSec} : m >= y
  BY ProcessAssumption
<1>2. Max({LimitSec, KillSec, PrecloseSec, CloseSec})
        \in {LimitSec, KillSec, PrecloseSec, CloseSec}
  BY <1>1 DEF Max
<1>3. QED
  BY <1>2, ProcessAssumption DEF OldAge

(* A command that is not a top belongs to the chain of the one before it.  *)
LEMMA ChainGoesOn ==
  ASSUME MoreTypes, NEW k \in Tops, NEW l \in 1 .. NPipecmds,
         l - 1 \in Chain(k), ~ IsTop(l)
  PROVE  l \in Chain(k)
BY DEF Chain, Tops, NPipecmds, MoreTypes

LEMMA OwnChain ==
  ASSUME MoreTypes, NEW k \in Tops
  PROVE  k \in Chain(k)
BY DEF Chain, Tops, NPipecmds, MoreTypes

(* Only its top is a client of a chain.                                    *)
LEMMA OneTop ==
  ASSUME MoreTypes, NEW k \in Tops, NEW l \in Tops, l \in Chain(k)
  PROVE  l = k
BY DEF Chain, Tops, NPipecmds, MoreTypes

LEMMA FirstIsTop == MoreTypes => IsTop(1)
BY DEF IsTop, HasDownstream, NPipecmds, MoreTypes

LEMMA ChainsAreCommands ==
  ASSUME TypeOK, MoreTypes
  PROVE  /\ 1 .. NPipecmds \subseteq Commands
         /\ Tops \subseteq Commands
         /\ \A k \in Tops : Chain(k) \subseteq Commands
BY CommandsAssumption DEF Chain, Tops, NPipecmds, MoreTypes, TypeOK, Commands

(* The entries of exec_ps, and what becomes of one that is added.          *)
LEMMA Entries ==
  ASSUME TypeOK
  PROVE  /\ exec_ps \in Seq(ExecType)
         /\ ExecIndices = 1 .. Len(exec_ps) /\ Len(exec_ps) \in Nat
         /\ \A n \in ExecIndices : exec_ps[n] \in ExecType /\ exec_ps[n].child \in Pids
<1>1. exec_ps \in Seq(ExecType)
  BY DEF TypeOK, ExecType
<1>2. ExecIndices = 1 .. Len(exec_ps) /\ Len(exec_ps) \in Nat
  BY <1>1, LenProperties DEF ExecIndices
<1>3. \A n \in ExecIndices : exec_ps[n] \in ExecType
  BY <1>1, <1>2, ElementOfSeq
<1>4. QED
  BY <1>1, <1>2, <1>3 DEF ExecType

(* ChildrenAreHeld is its parts.                                           *)
LEMMA HeldIsHeld ==
  ASSUME TypeOK, ChildWhenUsed, HeldOnce, HeldAll
  PROVE  ChildrenAreHeld
<1> DEFINE held == [c \in UsedClients |-> ChildOf(c)]
           exec == {exec_ps[n].child : n \in ExecIndices}
<1>1. \A c \in UsedClients : /\ c = <<c[1], c[2]>>
                            /\ c[1] \in Progs /\ c[2] \in Commands
                            /\ Used(c[1], c[2])
                            /\ held[c] = Child(c[1], c[2])
                            /\ held[c] \in Pids
  BY DEF UsedClients, Clients, Used, ChildOf, Child, TypeOK, PipestatType, ChildWhenUsed
<1>2. \A g \in Progs, k \in Commands : Used(g, k) =>
        <<g, k>> \in UsedClients /\ held[<<g, k>>] = Child(g, k)
  BY DEF UsedClients, Clients, Used, ChildOf, Child
<1>3. \A n \in ExecIndices : exec_ps[n].child \in Pids
  BY Entries
<1>4. \A c, d \in UsedClients : held[c] = held[d] => c = d
  BY <1>1 DEF HeldOnce
<1>5. \A m, n \in ExecIndices : exec_ps[m].child = exec_ps[n].child => m = n
  BY DEF HeldOnce
<1>6. exec \cap {held[c] : c \in UsedClients} = {}
  BY <1>1, <1>3 DEF HeldOnce, ByCommand, ByEntry
<1>7. exec \cup {held[c] : c \in UsedClients}
        = {p \in Pids : proc[p] \in {"running", "ended"}}
  <2>1. \A p : p \in exec <=> p \in Pids /\ ByEntry(p)
    BY <1>3 DEF ByEntry
  <2>2. \A p : p \in {held[c] : c \in UsedClients} <=> p \in Pids /\ ByCommand(p)
    <3> HIDE DEF held
    <3>1. ASSUME NEW c \in UsedClients
          PROVE  held[c] \in Pids /\ ByCommand(held[c])
      BY <1>1 DEF ByCommand
    <3>2. ASSUME NEW p, ByCommand(p)
          PROVE  \E c \in UsedClients : p = held[c]
      BY <1>2, <3>2 DEF ByCommand
    <3>3. QED
      BY <3>1, <3>2
  <2>3. QED
    BY <2>1, <2>2 DEF HeldAll, NotReaped
<1>8. QED
  BY <1>4, <1>5, <1>6, <1>7 DEF ChildrenAreHeld

-----------------------------------------------------------------------------
(* The first state.                                                        *)
LEMMA InitCInv == Init => CInv
<1> SUFFICES ASSUME Init PROVE CInv
  OBVIOUS
<1> USE DEF Init, OptionsInit
<1>1. TypeOK
  BY CommandsAssumption, ProcessAssumption, OldAgeType, EmptySeq
     DEF TypeOK, PipestatType, Unused, NoPid, NoFd
<1>2. MoreTypes
  BY EmptySeq DEF MoreTypes
<1>3. HeldOnce /\ HeldAll
  BY <1>1 DEF HeldOnce, HeldAll, NotReaped, ByCommand, ByEntry, Used, Unused, ExecIndices, Commands, Progs
<1>4. ChildWhenUsed
  BY DEF ChildWhenUsed, Used, Child, Unused, NoPid
<1>5. RunsInChain
  BY DEF RunsInChain, Used, Unused
<1>6. PipeOfOpen
  BY DEF PipeOfOpen, NoOwner, Progs
<1>7. AskedBeforeKill
  BY DEF AskedBeforeKill, ExecIndices, Used, Unused
<1>8. InPlace
  BY DEF InPlace, Passes
<1>9. QED
  BY <1>1, <1>2, <1>3, <1>4, <1>5, <1>6, <1>7, <1>8 DEF CInv, DataInv

-----------------------------------------------------------------------------
(* A step that only goes on in a hook, or from one to the next.            *)
OnlyMoves == UNCHANGED <<pipecmds, stage, ps, exec_ps, proc, asked, pipes>>

LEMMA MovesKeepData ==
  ASSUME DataInv, OnlyMoves
  PROVE  DataInv'
<1> USE DEF OnlyMoves
<1>1. HeldOnce' /\ HeldAll'
  BY DEF DataInv, HeldOnce, HeldAll, NotReaped, ByCommand, ByEntry, Used, Child, ExecIndices
<1>2. ChildWhenUsed'
  BY DEF DataInv, ChildWhenUsed, Used, Child
<1>3. RunsInChain'
  BY DEF DataInv, RunsInChain, Used, Tops, Chain, IsTop, HasDownstream, NPipecmds
<1>4. PipeOfOpen'
  BY DEF DataInv, PipeOfOpen, Used, Tops, IsTop, HasDownstream, NPipecmds
<1>5. AskedBeforeKill'
  BY DEF DataInv, AskedBeforeKill, Used, Child, ExecIndices, Tops, Chain, IsTop, HasDownstream, NPipecmds
<1>6. QED
  BY <1>1, <1>2, <1>3, <1>4, <1>5 DEF DataInv

(* A programme that is not there has no command that runs.                 *)
LEMMA IdleProgramme ==
  ASSUME CInv, NEW g \in Progs \ live, NEW k \in Commands
  PROVE  stage[g][k] = "none" /\ ~ Used(g, k)
<1>1. \A l \in Commands : stage[g][l] = "none"
  BY DEF CInv, InPlace
<1>2. Tops \subseteq Commands
  BY ChainsAreCommands DEF CInv
<1>3. QED
  BY <1>1, <1>2 DEF CInv, DataInv, RunsInChain, Active

(* Each hook is entered and left at its own place.                         *)
LEMMA MovesAreCInv ==
  ASSUME CInv,
         \/ HookTick \/ PrecloseModule \/ CloseModule \/ CheckEnd
         \/ \E p \in Pids : CheckNothing(p)
         \/ CreateEnd \/ NotConnected \/ ExecCmdFails
         \/ \E g \in Progs : Precreate(g) \/ Postclose(g)
         \/ UNCHANGED vars
  PROVE  CInv'
<1> USE DEF BeginPass, programmes, system, where, options
<1>1. OnlyMoves /\ UNCHANGED <<open_connect, n_execcmds>>
  BY DEF OnlyMoves, HookTick, PrecloseModule, CloseModule, CheckEnd, CheckNothing, CreateEnd,
         NotConnected, ExecCmdFails, Precreate, Postclose, vars
<1>2. DataInv'
  BY <1>1, MovesKeepData DEF CInv
<1>3. NPipecmds \in Nat
  BY DEF CInv, MoreTypes, NPipecmds
<1>4. TypeOK'
  <2>1. phase' \in {"options", "refused", "aborted", "running", "closing", "collecting", "closed"}
    BY DEF CInv, TypeOK, HookTick, PrecloseModule, CloseModule, CheckEnd, CheckNothing, CreateEnd,
         NotConnected, ExecCmdFails, Precreate, Postclose, vars
  <2>2. live' \subseteq Progs
    BY DEF CInv, TypeOK, HookTick, PrecloseModule, CloseModule, CheckEnd, CheckNothing, CreateEnd,
         NotConnected, ExecCmdFails, Precreate, Postclose, vars
  <2>3. QED
    BY <1>1, <2>1, <2>2 DEF CInv, TypeOK, OnlyMoves
<1>5. MoreTypes'
  <2>1. at' \in {"idle", "create", "postclose"} \cup Passes /\ i' \in Nat
    BY <1>3 DEF CInv, MoreTypes, HookTick, PrecloseModule, CloseModule, CheckEnd, CheckNothing,
         CreateEnd, NotConnected, ExecCmdFails, Precreate, Postclose, vars, Passes
  <2>2. QED
    BY <1>1, <2>1 DEF CInv, MoreTypes, OnlyMoves
<1>6. InPlace'
  <2>1. CASE HookTick \/ PrecloseModule \/ CloseModule \/ CheckEnd
    BY <1>1, <2>1 DEF CInv, InPlace, HookTick, PrecloseModule, CloseModule, CheckEnd, OnlyMoves, Passes
  <2>2. CASE \E p \in Pids : CheckNothing(p)
    BY <1>1, <2>2 DEF CInv, InPlace, MoreTypes, CheckNothing, Checks, OnlyMoves, Passes
  <2>3. CASE CreateEnd \/ NotConnected \/ ExecCmdFails
    <3>1. CASE CreateEnd
      BY <1>1, <3>1 DEF CInv, InPlace, CreateEnd, OnlyMoves, Passes
    <3>2. CASE NotConnected
      BY <1>1, <1>3, <3>2 DEF CInv, InPlace, MoreTypes, NotConnected, InCreate, OnlyMoves, Passes, Used, Commands
    <3>3. CASE ExecCmdFails
      BY <1>1, <3>3 DEF CInv, InPlace, ExecCmdFails, InPostclose, OnlyMoves, Passes, Used
    <3>4. QED
      BY <2>3, <3>1, <3>2, <3>3
  <2>4. ASSUME NEW g \in Progs, Precreate(g)
        PROVE  InPlace'
    <3>1. \A k \in Commands : stage[g][k] = "none" /\ ~ Used(g, k)
      BY <2>4, IdleProgramme DEF CInv, Precreate
    <3>2. CASE NoPipeHasNoInput
      BY <1>1, <2>4, <3>1, <3>2 DEF CInv, InPlace, Precreate, OnlyMoves, Passes, Used, TypeOK
    <3>3. CASE ~ NoPipeHasNoInput
      BY <1>1, <2>4, <3>3 DEF CInv, InPlace, Precreate, OnlyMoves, Passes, Used
    <3>4. QED
      BY <3>2, <3>3
  <2>5. ASSUME NEW g \in Progs, Postclose(g)
        PROVE  InPlace'
    BY <1>1, <2>5 DEF CInv, InPlace, Postclose, OnlyMoves, Passes, Used
  <2>6. CASE UNCHANGED vars
    BY <2>6 DEF CInv, InPlace, vars, Used
  <2>7. QED
    BY <2>1, <2>2, <2>3, <2>4, <2>5, <2>6
<1>7. QED
  BY <1>2, <1>4, <1>5, <1>6 DEF CInv

(* Before the recorder runs the module has nothing but its options.        *)
LEMMA OptionsAreCInv ==
  ASSUME CInv, Options
  PROVE  CInv'
<1> USE DEF programmes, system, where
<1>1. phase = "options" /\ live = {} /\ live' = {} /\ at = "idle" /\ at' = "idle"
  BY DEF CInv, InPlace, Options, OptionsNext, SetPipeCmd, SetConnect, SetNoPipe, SetCmd, PostConfig
<1>2. UNCHANGED <<stage, ps, exec_ps, proc, asked, pipes, who, i>>
  BY DEF Options
<1>3. \A g \in Progs, k \in Commands : stage[g][k] = "none" /\ ~ Used(g, k)
  BY <1>1, IdleProgramme
<1> DEFINE Cmd == [has_downstream : BOOLEAN, no_pipe : BOOLEAN]
<1>11. /\ pipecmds \in Seq(Cmd) /\ NPipecmds = Len(pipecmds) /\ NPipecmds \in Nat
      /\ Len(pipecmds) <= MaxPipecmds /\ open_connect \in BOOLEAN /\ n_execcmds \in 0 .. MaxCmds
  BY LenProperties DEF CInv, TypeOK, MoreTypes, NPipecmds
<1>4. /\ pipecmds' \in Seq(Cmd)
      /\ Len(pipecmds') <= MaxPipecmds
      /\ open_connect' \in BOOLEAN /\ n_execcmds' \in 0 .. MaxCmds
      /\ phase' \in {"options", "refused", "running"}
  <2>1. CASE Refuse
    BY <1>11, <2>1 DEF Refuse
  <2>2. CASE SetPipeCmd /\ ~ Refuse
    <3>1. [has_downstream |-> FALSE, no_pipe |-> FALSE] \in Cmd
      OBVIOUS
    <3>2. /\ Append(pipecmds, [has_downstream |-> FALSE, no_pipe |-> FALSE]) \in Seq(Cmd)
          /\ Len(Append(pipecmds, [has_downstream |-> FALSE, no_pipe |-> FALSE])) = Len(pipecmds) + 1
      BY <1>11, <3>1, AppendProperties
    <3>3. /\ pipecmds' = Append(pipecmds, [has_downstream |-> FALSE, no_pipe |-> FALSE])
          /\ open_connect' = FALSE /\ UNCHANGED <<phase, n_execcmds>>
          /\ ~ (NPipecmds >= MaxPipecmds)
      BY <2>2 DEF SetPipeCmd
    <3>4. pipecmds' \in Seq(Cmd) /\ Len(pipecmds') <= MaxPipecmds
      BY <1>11, <3>2, <3>3, CommandsAssumption
    <3> HIDE DEF Cmd
    <3>5. QED
      BY <1>1, <1>11, <3>3, <3>4
  <2>3. CASE (SetConnect \/ SetNoPipe) /\ ~ Refuse
    <3>1. NPipecmds >= 1 /\ NPipecmds \in 1 .. Len(pipecmds)
      BY <1>11, <2>3 DEF SetConnect, SetNoPipe
    <3>2. pipecmds[NPipecmds] \in Cmd
      BY <1>11, <3>1, ElementOfSeq
    <3>3. \E e \in Cmd : pipecmds' = [pipecmds EXCEPT ![NPipecmds] = e]
      <4>1. /\ [pipecmds[NPipecmds] EXCEPT !.has_downstream = TRUE] \in Cmd
            /\ [pipecmds[NPipecmds] EXCEPT !.no_pipe = TRUE] \in Cmd
        BY <3>2
      <4> HIDE DEF Cmd
      <4>2. QED
        BY <2>3, <4>1 DEF SetConnect, SetNoPipe
    <3>4. pipecmds' \in Seq(Cmd) /\ Len(pipecmds') = Len(pipecmds)
      <4> HIDE DEF Cmd
      <4>1. QED
        BY <1>11, <3>1, <3>3, ExceptSeq
    <3>5. open_connect' \in BOOLEAN /\ UNCHANGED <<phase, n_execcmds>>
      BY <1>11, <2>3 DEF SetConnect, SetNoPipe
    <3> HIDE DEF Cmd
    <3>6. QED
      BY <1>1, <1>11, <3>4, <3>5
  <2>4. CASE (SetCmd \/ PostConfig) /\ ~ Refuse
    <3> HIDE DEF Cmd
    <3>1. QED
      BY <1>1, <1>11, <2>4, CommandsAssumption DEF SetCmd, PostConfig
  <2>5. QED
    BY <2>1, <2>2, <2>3, <2>4 DEF Options, OptionsNext
<1>5. TypeOK' /\ MoreTypes'
  BY <1>1, <1>2, <1>4 DEF CInv, TypeOK, MoreTypes
<1>6. HeldOnce' /\ HeldAll' /\ ChildWhenUsed'
  BY <1>2 DEF CInv, DataInv, HeldOnce, HeldAll, ChildWhenUsed, NotReaped, ByCommand, ByEntry,
     Used, Child, ExecIndices
<1>7. RunsInChain' /\ PipeOfOpen'
  BY <1>2, <1>3 DEF CInv, DataInv, RunsInChain, PipeOfOpen, Used
<1>8. AskedBeforeKill'
  BY <1>2, <1>3, ChainsAreCommands DEF CInv, DataInv, AskedBeforeKill, Used, ExecIndices
<1>9. InPlace'
  BY <1>1, <1>2, <1>3 DEF CInv, InPlace, Passes
<1>10. QED
  BY <1>5, <1>6, <1>7, <1>8, <1>9 DEF CInv, DataInv

(* Time passes, and a child ends: what is held does not change.            *)
LEMMA TickIsCInv ==
  ASSUME CInv, Tick
  PROVE  CInv'
<1> USE DEF programmes, system, where, options
<1>1. UNCHANGED <<phase, pipecmds, open_connect, n_execcmds, live, stage, ps, proc, asked, pipes, at, who, i>>
  BY DEF Tick
<1>2. /\ exec_ps' \in Seq(ExecType) /\ Len(exec_ps') = Len(exec_ps)
      /\ ExecIndices' = ExecIndices
      /\ \A n \in ExecIndices : /\ exec_ps'[n].child = exec_ps[n].child
                               /\ exec_ps'[n].killmode = exec_ps[n].killmode
  <2> DEFINE older(n) == [exec_ps[n] EXCEPT !.age = IF @ < OldAge THEN @ + 1 ELSE @]
  <2>1. exec_ps' = [n \in 1 .. Len(exec_ps) |-> older(n)]
    BY Entries DEF Tick, CInv, ExecIndices
  <2>2. \A n \in 1 .. Len(exec_ps) : older(n) \in ExecType
    BY Entries, OldAgeType DEF CInv, ExecType
  <2>3. Len(exec_ps) \in Nat
    BY Entries DEF CInv
  <2>4. [n \in 1 .. Len(exec_ps) |-> older(n)] \in Seq(ExecType)
    BY <2>2, <2>3, IsASeq
  <2>5. exec_ps' \in Seq(ExecType) /\ Len(exec_ps') = Len(exec_ps)
    BY <2>1, <2>3, <2>4
  <2>6. QED
    BY <2>1, <2>5, Entries DEF CInv, ExecIndices, ExecType
<1>3. TypeOK' /\ MoreTypes'
  BY <1>1, <1>2 DEF CInv, TypeOK, MoreTypes, ExecType
<1>4. HeldOnce' /\ HeldAll' /\ ChildWhenUsed'
  BY <1>1, <1>2 DEF CInv, DataInv, HeldOnce, HeldAll, ChildWhenUsed, NotReaped, ByCommand, ByEntry, Used, Child
<1>5. RunsInChain' /\ PipeOfOpen'
  BY <1>1 DEF CInv, DataInv, RunsInChain, PipeOfOpen, Used, Tops, Chain, IsTop, HasDownstream, NPipecmds
<1>6. AskedBeforeKill'
  BY <1>1, <1>2 DEF CInv, DataInv, AskedBeforeKill, Used, Child, Tops, Chain, IsTop, HasDownstream, NPipecmds
<1>7. InPlace'
  BY <1>1 DEF CInv, InPlace, Used
<1>8. QED
  BY <1>3, <1>4, <1>5, <1>6, <1>7 DEF CInv, DataInv

LEMMA ChildEndsIsCInv ==
  ASSUME CInv, NEW p \in Pids, ChildEnds(p)
  PROVE  CInv'
<1> USE DEF programmes, system, where, options
<1>1. UNCHANGED <<options, live, stage, ps, exec_ps, asked, pipes, at, who, i>>
  BY DEF ChildEnds
<1>2. \A q \in Pids : NotReaped(q)' <=> NotReaped(q)
  BY DEF ChildEnds, NotReaped, Running, CInv, TypeOK
<1>3. TypeOK' /\ MoreTypes'
  BY <1>1 DEF CInv, TypeOK, MoreTypes, ChildEnds
<1>4. HeldOnce' /\ HeldAll' /\ ChildWhenUsed'
  BY <1>1, <1>2 DEF CInv, DataInv, HeldOnce, HeldAll, ChildWhenUsed, ByCommand, ByEntry, Used, Child, ExecIndices
<1>5. RunsInChain' /\ PipeOfOpen'
  BY <1>1 DEF CInv, DataInv, RunsInChain, PipeOfOpen, Used, Tops, Chain, IsTop, HasDownstream, NPipecmds
<1>6. AskedBeforeKill'
  BY <1>1 DEF CInv, DataInv, AskedBeforeKill, Used, Child, ExecIndices, Tops, Chain, IsTop, HasDownstream, NPipecmds
<1>7. InPlace'
  BY <1>1 DEF CInv, InPlace, Used
<1>8. QED
  BY <1>3, <1>4, <1>5, <1>6, <1>7 DEF CInv, DataInv

-----------------------------------------------------------------------------
(* hook_pgoutput_create.                                                   *)
LEMMA InCreateFacts ==
  ASSUME CInv, InCreate
  PROVE  /\ who \in Progs /\ who \in live /\ i \in 1 .. NPipecmds /\ i \in Commands
         /\ ~ Used(who, i)
         /\ \A k \in Commands : k >= i => ~ Used(who, k)
         /\ \A k \in Commands : stage[who][k] \in {"none", "open"}
<1>1. i >= 1 /\ i \in Nat /\ NPipecmds \in Nat
  BY DEF CInv, InPlace, InCreate, MoreTypes, NPipecmds
<1>2. i \in 1 .. NPipecmds
  BY <1>1 DEF InCreate
<1>3. i \in Commands
  BY <1>2, ChainsAreCommands DEF CInv
<1>4. QED
  BY <1>1, <1>2, <1>3 DEF CInv, InPlace, InCreate, TypeOK

LEMMA ConnectsFacts ==
  ASSUME CInv, InCreate, Connects(i)
  PROVE  /\ stage' \in [Progs -> [Commands -> {"none", "open", "waiting", "asked", "done"}]]
         /\ \A g \in Progs, k \in Commands :
              stage'[g][k] = IF g = who /\ k = i /\ IsTop(i) THEN "open" ELSE stage[g][k]
BY InCreateFacts DEF Connects, CInv, TypeOK

LEMMA ExecChildFailsIsCInv ==
  ASSUME CInv, ExecChildFails
  PROVE  CInv'
<1> USE DEF options, system
<1>1. InCreate /\ Connects(i) /\ at = "create" /\ i' = i + 1
  BY DEF ExecChildFails, InCreate
<1>2. UNCHANGED <<options, live, ps, exec_ps, due, proc, asked, pipes, at, who>>
  BY DEF ExecChildFails
<1>3. \A g \in Progs, k \in Commands :
        stage'[g][k] = IF g = who /\ k = i /\ IsTop(i) THEN "open" ELSE stage[g][k]
  BY <1>1, ConnectsFacts
<1>4. TypeOK' /\ MoreTypes'
  BY <1>1, <1>2, ConnectsFacts DEF CInv, TypeOK, MoreTypes
<1>5. HeldOnce' /\ HeldAll' /\ ChildWhenUsed'
  BY <1>2 DEF CInv, DataInv, HeldOnce, HeldAll, ChildWhenUsed, NotReaped, ByCommand, ByEntry, Used, Child, ExecIndices
<1>6. Tops' = Tops /\ Tops \subseteq Commands /\ \A k : Chain(k)' = Chain(k)
  BY <1>2, ChainsAreCommands DEF CInv, Tops, Chain, IsTop, HasDownstream, NPipecmds
<1>7. RunsInChain' /\ PipeOfOpen'
  BY <1>2, <1>3, <1>6 DEF CInv, DataInv, RunsInChain, PipeOfOpen, Used, Active
<1>8. AskedBeforeKill'
  BY <1>2, <1>3, <1>6 DEF CInv, DataInv, AskedBeforeKill, Used, Child, ExecIndices
<1>9. InPlace'
  <2>1. /\ \A k \in Commands : stage'[who][k] \in {"none", "open"}
        /\ \A k \in Commands : k >= i + 1 => ~ Used(who, k)
        /\ \A g \in Progs \ live, k \in Commands : stage'[g][k] = "none"
        /\ i + 1 >= 1
    BY <1>1, <1>3, InCreateFacts DEF CInv, InPlace, Commands
  <2>2. QED
    BY <1>1, <1>2, <2>1 DEF CInv, InPlace, Used, Passes
<1>10. QED
  BY <1>4, <1>5, <1>7, <1>8, <1>9 DEF CInv, DataInv

LEMMA ExecChildIsCInv ==
  ASSUME CInv, ExecChild
  PROVE  CInv'
<1> USE DEF options, system
<1>1. InCreate /\ Connects(i) /\ Startable(i) /\ at = "create" /\ i' = i + 1
  BY DEF ExecChild, InCreate
<1>2. UNCHANGED <<options, live, exec_ps, due, asked, at, who>>
  BY DEF ExecChild
<1>3. PICK p \in Pids, f \in Fds \cup {NoFd} :
        /\ FirstFree(p)
        /\ IF GetsPipe(i) THEN f # NoFd /\ LowestFd(f) ELSE f = NoFd
        /\ proc' = Forked(p)
        /\ pipes' = IF f = NoFd THEN pipes ELSE [pipes EXCEPT ![f] = <<who, i>>]
        /\ ps' = [ps EXCEPT ![who][i] =
                     [used |-> TRUE, aborted |-> FALSE, child |-> p, write_pipe |-> f]]
  BY DEF ExecChild
<1>4. \A g \in Progs, k \in Commands :
        stage'[g][k] = IF g = who /\ k = i /\ IsTop(i) THEN "open" ELSE stage[g][k]
  BY <1>1, ConnectsFacts
<1>5. /\ who \in Progs /\ i \in Commands /\ i \in 1 .. NPipecmds /\ ~ Used(who, i)
  BY <1>1, InCreateFacts
<1>6. /\ ps' \in [Progs -> [Commands -> PipestatType]]
      /\ \A g \in Progs, k \in Commands :
           ps'[g][k] = IF g = who /\ k = i
                       THEN [used |-> TRUE, aborted |-> FALSE, child |-> p, write_pipe |-> f]
                       ELSE ps[g][k]
  <2> DEFINE new == [used |-> TRUE, aborted |-> FALSE, child |-> p, write_pipe |-> f]
  <2>1. new \in PipestatType
    BY DEF PipestatType
  <2>2. ps' = [ps EXCEPT ![who][i] = new]
    BY <1>3, <2>1
  <2> HIDE DEF new
  <2>3. /\ ps' \in [Progs -> [Commands -> PipestatType]]
        /\ \A g \in Progs, k \in Commands : ps'[g][k] = IF g = who /\ k = i THEN new ELSE ps[g][k]
    BY <1>5, <2>1, <2>2 DEF CInv, TypeOK
  <2>4. QED
    BY <2>3 DEF new
<1>7. \A g \in Progs, k \in Commands :
        /\ Used(g, k)' = (Used(g, k) \/ (g = who /\ k = i))
        /\ Child(g, k)' = IF g = who /\ k = i THEN p ELSE Child(g, k)
  BY <1>5, <1>6 DEF Used, Child, CInv, TypeOK, PipestatType
<1>8. /\ proc[p] = "free" /\ p # NoPid
      /\ proc' \in [Pids -> {"free", "running", "ended", "lost"}]
      /\ \A q \in Pids : proc'[q] = IF q = p THEN "running" ELSE proc[q]
  BY <1>3 DEF FirstFree, Forked, CInv, TypeOK, Pids, NoPid
<1>9. ~ ByCommand(p) /\ ~ ByEntry(p)
  BY <1>8 DEF CInv, DataInv, HeldAll, NotReaped
<1>10. /\ pipes' \in [Fds -> Clients \cup {NoOwner}]
       /\ \A h \in Fds : pipes'[h] = IF GetsPipe(i) /\ h = f THEN <<who, i>> ELSE pipes[h]
       /\ GetsPipe(i) => f \in Fds
  BY <1>3, <1>5 DEF CInv, TypeOK, NoFd, Fds, Clients
<1>11. TypeOK' /\ MoreTypes'
  BY <1>1, <1>2, <1>6, <1>8, <1>10, ConnectsFacts DEF CInv, TypeOK, MoreTypes
<1>12. HeldOnce'
  <2>1. \A g \in Progs, k \in Commands : Used(g, k) => Child(g, k) # p
    BY <1>9 DEF ByCommand
  <2>2. \A g, h \in Progs, k, l \in Commands :
          Used(g, k)' /\ Used(h, l)' /\ Child(g, k)' = Child(h, l)' => g = h /\ k = l
    <3>1. ASSUME NEW g \in Progs, NEW h \in Progs, NEW k \in Commands, NEW l \in Commands,
                 Used(g, k)', Used(h, l)', Child(g, k)' = Child(h, l)'
          PROVE  g = h /\ k = l
      <4>1. CASE g = who /\ k = i
        BY <1>7, <2>1, <3>1, <4>1
      <4>2. CASE h = who /\ l = i
        BY <1>7, <2>1, <3>1, <4>2
      <4>3. CASE ~ (g = who /\ k = i) /\ ~ (h = who /\ l = i)
        <5>1. Used(g, k) /\ Used(h, l) /\ Child(g, k) = Child(h, l)
          BY <1>7, <3>1, <4>3
        <5>2. QED
          BY <5>1 DEF CInv, DataInv, HeldOnce
      <4>4. QED
        BY <4>1, <4>2, <4>3
    <3>2. QED
      BY <3>1
  <2>3. \A q : ByEntry(q)' <=> ByEntry(q)
    BY <1>2 DEF ByEntry, ExecIndices
  <2>4. \A q : ByCommand(q)' => ByCommand(q) \/ q = p
    BY <1>7 DEF ByCommand
  <2>5. \A q \in Pids : ~ (ByCommand(q)' /\ ByEntry(q)')
    BY <1>9, <2>3, <2>4 DEF CInv, DataInv, HeldOnce
  <2>6. QED
    BY <1>2, <2>2, <2>5 DEF CInv, DataInv, HeldOnce, ExecIndices
<1>13. HeldAll'
  <2>1. \A q : ByEntry(q)' <=> ByEntry(q)
    BY <1>2 DEF ByEntry, ExecIndices
  <2>2. \A q : ByCommand(q)' <=> ByCommand(q) \/ q = p
    BY <1>5, <1>7 DEF ByCommand
  <2>3. \A q \in Pids : NotReaped(q)' <=> NotReaped(q) \/ q = p
    BY <1>8 DEF NotReaped
  <2>4. QED
    BY <2>1, <2>2, <2>3 DEF CInv, DataInv, HeldAll
<1>14. ChildWhenUsed'
  BY <1>7, <1>8 DEF CInv, DataInv, ChildWhenUsed
<1>15. Tops' = Tops /\ Tops \subseteq Commands /\ \A k : Chain(k)' = Chain(k)
  BY <1>2, ChainsAreCommands DEF CInv, Tops, Chain, IsTop, HasDownstream, NPipecmds
<1>16. RunsInChain'
  <2>1. ASSUME NEW g \in Progs, NEW l \in Commands, Used(g, l), NEW k \in Tops,
               l \in Chain(k), stage[g][k] \in Active
        PROVE  stage'[g][k] \in Active
    BY <1>4, <1>15, <2>1 DEF Active
  <2>2. \E k \in Tops : i \in Chain(k) /\ stage'[who][k] \in Active
    <3>1. CASE IsTop(i)
      <4>1. i \in Tops /\ i \in Chain(i)
        BY <1>5, <3>1, OwnChain DEF CInv, Tops
      <4>2. QED
        BY <1>4, <1>5, <3>1, <4>1 DEF Active
    <3>2. CASE ~ IsTop(i)
      <4>1. i - 1 \in 1 .. NPipecmds /\ i - 1 \in Commands
        BY <1>5, <3>2, FirstIsTop, ChainsAreCommands DEF CInv, MoreTypes, NPipecmds
      <4>2. Used(who, i - 1)
        BY <1>1, <1>5, <3>2, <4>1 DEF Startable, CInv, DataInv, ChildWhenUsed, Child
      <4>3. PICK k \in Tops : i - 1 \in Chain(k) /\ stage[who][k] \in Active
        BY <1>5, <4>1, <4>2 DEF CInv, DataInv, RunsInChain
      <4>4. i \in Chain(k)
        BY <1>5, <3>2, <4>3, ChainGoesOn DEF CInv
      <4>5. QED
        BY <1>5, <2>1, <4>1, <4>2, <4>3, <4>4
    <3>3. QED
      BY <3>1, <3>2
  <2>3. QED
    BY <1>7, <1>15, <2>1, <2>2 DEF CInv, DataInv, RunsInChain
<1>17. PipeOfOpen'
  <2>1. GetsPipe(i) => i \in Tops /\ IsTop(i) /\ ~ pipecmds[i].no_pipe
    BY <1>5 DEF GetsPipe, Tops
  <2>2. ASSUME NEW h \in Fds, NEW g \in Progs, NEW k \in Commands, pipes'[h] = <<g, k>>
        PROVE  /\ stage'[g][k] = "open" /\ k \in Tops
               /\ Used(g, k)' /\ ~ ps'[g][k].aborted /\ ~ pipecmds[k].no_pipe
               /\ ps'[g][k].write_pipe = h
    <3>1. CASE GetsPipe(i) /\ h = f
      <4>1. g = who /\ k = i
        BY <1>10, <2>2, <3>1
      <4>2. ps'[g][k] = [used |-> TRUE, aborted |-> FALSE, child |-> p, write_pipe |-> f]
        BY <1>6, <4>1
      <4>3. stage'[g][k] = "open" /\ Used(g, k)'
        BY <1>4, <1>7, <2>1, <3>1, <4>1
      <4>4. QED
        BY <2>1, <3>1, <4>1, <4>2, <4>3
    <3>2. CASE ~ (GetsPipe(i) /\ h = f)
      <4>1. pipes[h] = <<g, k>>
        BY <1>10, <2>2, <3>2
      <4>2. Used(g, k)
        BY <4>1 DEF CInv, DataInv, PipeOfOpen
      <4>3. ~ (g = who /\ k = i)
        BY <1>5, <4>2
      <4>4. QED
        <5>1. /\ stage[g][k] = "open" /\ k \in Tops
              /\ Used(g, k) /\ ~ ps[g][k].aborted /\ ~ pipecmds[k].no_pipe
              /\ ps[g][k].write_pipe = h
          BY <4>1 DEF CInv, DataInv, PipeOfOpen
        <5>2. stage'[g][k] = stage[g][k] /\ ps'[g][k] = ps[g][k] /\ (Used(g, k)' <=> Used(g, k))
          BY <1>4, <1>6, <1>7, <4>3
        <5>3. QED
          BY <5>1, <5>2
    <3>3. QED
      BY <3>1, <3>2
  <2>3. QED
    BY <1>2, <1>15, <2>2 DEF PipeOfOpen
<1>18. AskedBeforeKill'
  <2>1. ASSUME NEW g \in Progs, NEW k \in Tops, NEW l \in Commands,
               stage'[g][k] = "asked", l \in Chain(k), Used(g, l)'
        PROVE  Child(g, l)' \in asked
    <3>1. stage[g][k] = "asked" /\ g # who
      BY <1>1, <1>4, <1>15, <2>1, InCreateFacts
    <3>2. QED
      BY <1>7, <2>1, <3>1 DEF CInv, DataInv, AskedBeforeKill
  <2>2. QED
    BY <1>2, <1>15, <2>1 DEF CInv, DataInv, AskedBeforeKill, ExecIndices
<1>19. InPlace'
  <2>1. /\ \A k \in Commands : stage'[who][k] \in {"none", "open"}
        /\ \A k \in Commands : k >= i + 1 => ~ Used(who, k)'
        /\ \A g \in Progs \ live, k \in Commands : stage'[g][k] = "none"
        /\ i + 1 >= 1
    <3>1. \A k \in Commands : stage'[who][k] \in {"none", "open"}
      BY <1>1, <1>4, InCreateFacts
    <3>2. \A k \in Commands : k >= i + 1 => ~ Used(who, k)'
      <4>1. \A k \in Commands : k >= i + 1 => k # i /\ k >= i
        BY <1>5 DEF Commands
      <4>2. QED
        BY <1>1, <1>2, <1>5, <1>7, <4>1, InCreateFacts
    <3>3. \A g \in Progs \ live, k \in Commands : stage'[g][k] = "none"
      BY <1>1, <1>4, InCreateFacts DEF CInv, InPlace
    <3>4. QED
      BY <1>2, <1>5, <3>1, <3>2, <3>3 DEF Commands
  <2>2. QED
    BY <1>1, <1>2, <2>1 DEF CInv, InPlace, Used, Passes
<1>20. QED
  BY <1>11, <1>12, <1>13, <1>14, <1>16, <1>17, <1>18, <1>19 DEF CInv, DataInv

-----------------------------------------------------------------------------
(* What the hooks of a client do to the commands of its chain.             *)
ChainsStay == Tops' = Tops /\ Tops \subseteq Commands /\ \A k : Chain(k)' = Chain(k)

LEMMA OptionsKeepChains ==
  ASSUME CInv, UNCHANGED pipecmds
  PROVE  ChainsStay
BY ChainsAreCommands DEF CInv, ChainsStay, Tops, Chain, IsTop, HasDownstream, NPipecmds

(* A client is one of a programme that is there.                           *)
LEMMA ClientFacts ==
  ASSUME CInv, NEW g \in Progs, NEW k \in Commands, NEW s, Client(g, k, s), s # "none"
  PROVE  /\ g \in live /\ k \in Tops /\ at = "idle" /\ stage[g][k] = s
         /\ phase \notin {"options", "refused"}
BY DEF Client, CInv, InPlace

(* The clients' hooks run between those of the programmes.                 *)
LEMMA ClientsStayInPlace ==
  ASSUME CInv, NEW g \in Progs, NEW k \in Commands, NEW s, Client(g, k, s), s # "none",
         UNCHANGED <<phase, live, at>>,
         \A h \in Progs, l \in Commands : ~ (h = g /\ l = k) => stage'[h][l] = stage[h][l]
  PROVE  InPlace'
BY ClientFacts DEF CInv, InPlace, Passes

LEMMA WriteFailsIsCInv ==
  ASSUME CInv, NEW g \in Progs, NEW k \in Commands, WriteFails(g, k)
  PROVE  CInv'
<1> USE DEF options, where
<1>1. /\ UNCHANGED <<options, live, stage, exec_ps, due, proc, asked, at, who, i>>
      /\ Client(g, k, "open") /\ pipes' = Closed(ps[g][k].write_pipe)
  BY DEF WriteFails
<1>2. /\ ps' \in [Progs -> [Commands -> PipestatType]]
      /\ \A h \in Progs, l \in Commands :
           /\ Used(h, l)' = Used(h, l) /\ Child(h, l)' = Child(h, l)
           /\ ~ (h = g /\ l = k) => ps'[h][l] = ps[h][l]
  <2> DEFINE new == [ps[g][k] EXCEPT !.aborted = TRUE, !.write_pipe = NoFd]
  <2>1. ps[g][k] \in PipestatType
    BY DEF CInv, TypeOK
  <2>2. new \in PipestatType /\ new.used = ps[g][k].used /\ new.child = ps[g][k].child
    BY <2>1 DEF PipestatType
  <2>3. ps' = [ps EXCEPT ![g][k] = new]
    BY DEF WriteFails
  <2> HIDE DEF new
  <2>4. QED
    BY <2>2, <2>3 DEF CInv, TypeOK, Used, Child
<1>3. \A f \in Fds : pipes'[f] = IF f = ps[g][k].write_pipe THEN NoOwner ELSE pipes[f]
  BY <1>1 DEF Closed
<1>4. TypeOK' /\ MoreTypes'
  BY <1>1, <1>2 DEF CInv, TypeOK, MoreTypes, Closed
<1>5. ChainsStay
  BY <1>1, OptionsKeepChains
<1>6. HeldOnce' /\ HeldAll' /\ ChildWhenUsed'
  BY <1>1, <1>2 DEF CInv, DataInv, HeldOnce, HeldAll, ChildWhenUsed, NotReaped, ByCommand, ByEntry, ExecIndices
<1>7. RunsInChain' /\ AskedBeforeKill'
  BY <1>1, <1>2, <1>5 DEF CInv, DataInv, RunsInChain, AskedBeforeKill, ExecIndices, ChainsStay
<1>8. PipeOfOpen'
  <2>1. ASSUME NEW f \in Fds, NEW h \in Progs, NEW l \in Commands, pipes'[f] = <<h, l>>
        PROVE  pipes[f] = <<h, l>> /\ ~ (h = g /\ l = k)
    <3>1. pipes[f] = <<h, l>> /\ f # ps[g][k].write_pipe
      BY <1>3, <2>1 DEF NoOwner, Progs
    <3>2. QED
      BY <3>1 DEF CInv, DataInv, PipeOfOpen
  <2>2. QED
    BY <1>1, <1>2, <1>5, <2>1 DEF CInv, DataInv, PipeOfOpen, ChainsStay
<1>9. InPlace'
  BY <1>1, ClientsStayInPlace
<1>10. QED
  BY <1>4, <1>6, <1>7, <1>8, <1>9 DEF CInv, DataInv

LEMMA CloseIsCInv ==
  ASSUME CInv, NEW g \in Progs, NEW k \in Commands, Close(g, k)
  PROVE  CInv'
<1> USE DEF options, where
<1>1. /\ UNCHANGED <<options, live, exec_ps, due, proc, asked, at, who, i>>
      /\ Client(g, k, "open")
  BY DEF Close
<1>2. /\ ps' \in [Progs -> [Commands -> PipestatType]]
      /\ \A h \in Progs, l \in Commands :
           /\ Used(h, l)' = Used(h, l) /\ Child(h, l)' = Child(h, l)
           /\ ~ (h = g /\ l = k) => ps'[h][l] = ps[h][l]
  <2> DEFINE new == [ps[g][k] EXCEPT !.aborted = FALSE, !.write_pipe = NoFd]
  <2>1. ps[g][k] \in PipestatType
    BY DEF CInv, TypeOK
  <2>2. new \in PipestatType /\ new.used = ps[g][k].used /\ new.child = ps[g][k].child
    BY <2>1 DEF PipestatType
  <2>3. ps' = [ps EXCEPT ![g][k] = new]
    BY DEF Close
  <2> HIDE DEF new
  <2>4. QED
    BY <2>2, <2>3 DEF CInv, TypeOK, Used, Child
<1>3. PICK f \in Fds \cup {NoFd} :
        /\ Initialised(ps[g][k]) => f = ps[g][k].write_pipe
        /\ pipes' = IF ps[g][k].aborted \/ pipecmds[k].no_pipe THEN pipes ELSE Closed(f)
  BY DEF Close
<1>4. /\ stage' \in [Progs -> [Commands -> {"none", "open", "waiting", "asked", "done"}]]
      /\ \A h \in Progs, l \in Commands :
           stage'[h][l] = IF h = g /\ l = k THEN "waiting" ELSE stage[h][l]
  BY DEF Close, CInv, TypeOK
<1>5. stage[g][k] = "open"
  BY <1>1, ClientFacts
<1>6. TypeOK' /\ MoreTypes'
  BY <1>1, <1>2, <1>3, <1>4 DEF CInv, TypeOK, MoreTypes, Closed
<1>7. ChainsStay
  BY <1>1, OptionsKeepChains
<1>8. HeldOnce' /\ HeldAll' /\ ChildWhenUsed'
  BY <1>1, <1>2 DEF CInv, DataInv, HeldOnce, HeldAll, ChildWhenUsed, NotReaped, ByCommand, ByEntry, ExecIndices
<1>9. RunsInChain'
  BY <1>2, <1>4, <1>7 DEF CInv, DataInv, RunsInChain, ChainsStay, Active
<1>10. AskedBeforeKill'
  BY <1>1, <1>2, <1>4, <1>7 DEF CInv, DataInv, AskedBeforeKill, ExecIndices, ChainsStay
<1>11. PipeOfOpen'
  <2>1. ASSUME NEW h \in Fds, NEW a \in Progs, NEW l \in Commands, pipes'[h] = <<a, l>>
        PROVE  pipes[h] = <<a, l>> /\ ~ (a = g /\ l = k)
    <3>1. pipes[h] = <<a, l>>
      BY <1>3, <2>1 DEF Closed, NoOwner, Progs
    <3>2. CASE a = g /\ l = k
      <4>1. Used(g, k) /\ ~ ps[g][k].aborted /\ ~ pipecmds[k].no_pipe /\ ps[g][k].write_pipe = h
        BY <3>1, <3>2 DEF CInv, DataInv, PipeOfOpen
      <4>2. pipes' = Closed(h)
        BY <1>3, <4>1 DEF Initialised, Used
      <4>3. QED
        BY <2>1, <4>2 DEF Closed, NoOwner, Progs
    <3>3. QED
      BY <3>1, <3>2
  <2>2. QED
    BY <1>1, <1>2, <1>4, <1>7, <2>1 DEF CInv, DataInv, PipeOfOpen, ChainsStay
<1>12. InPlace'
  BY <1>1, <1>4, ClientsStayInPlace
<1>13. QED
  BY <1>6, <1>8, <1>9, <1>10, <1>11, <1>12 DEF CInv, DataInv

-----------------------------------------------------------------------------
(* Commands of a programme are over, all of those in S, and have been      *)
(* waited for: what is held is what it was, less these.                    *)
CommandsOver(g, S) ==
  /\ S \subseteq {l \in Commands : Used(g, l)}
  /\ ps' \in [Progs -> [Commands -> PipestatType]]
  /\ \A h \in Progs, l \in Commands :
       ps'[h][l] = IF h = g /\ l \in S THEN Over(ps[h][l]) ELSE ps[h][l]
  /\ proc' \in [Pids -> {"free", "running", "ended", "lost"}]
  /\ \A q \in Pids : NotReaped(q)' <=> NotReaped(q) /\ q \notin PidsOf(g, S)
  /\ UNCHANGED <<exec_ps, pipecmds>>

LEMMA OverFacts ==
  ASSUME CInv, NEW g \in Progs, NEW S, CommandsOver(g, S)
  PROVE  /\ HeldOnce' /\ HeldAll' /\ ChildWhenUsed'
         /\ \A h \in Progs, l \in Commands :
              /\ Used(h, l)' <=> Used(h, l) /\ ~ (h = g /\ l \in S)
              /\ Used(h, l)' => Child(h, l)' = Child(h, l) /\ Child(h, l) \notin PidsOf(g, S)
              /\ ps'[h][l].aborted = ps[h][l].aborted
              /\ ps'[h][l].write_pipe = ps[h][l].write_pipe
         /\ \A n \in ExecIndices : exec_ps[n].child \notin PidsOf(g, S)
<1>1. \A h \in Progs, l \in Commands :
        LET r == Over(ps[h][l])
        IN  /\ ~ r.used /\ r.child = NoPid
            /\ r.aborted = ps[h][l].aborted /\ r.write_pipe = ps[h][l].write_pipe
  BY DEF CInv, TypeOK, PipestatType, Over
<1>2. \A h \in Progs, l \in Commands :
        /\ Used(h, l)' <=> Used(h, l) /\ ~ (h = g /\ l \in S)
        /\ Used(h, l)' => Child(h, l)' = Child(h, l)
        /\ ~ Used(h, l)' => Child(h, l)' = NoPid
        /\ ps'[h][l].aborted = ps[h][l].aborted
        /\ ps'[h][l].write_pipe = ps[h][l].write_pipe
  <2>1. ASSUME NEW h \in Progs, NEW l \in Commands, h = g /\ l \in S
        PROVE  /\ Used(h, l) /\ ~ Used(h, l)' /\ Child(h, l)' = NoPid
               /\ ps'[h][l].aborted = ps[h][l].aborted
               /\ ps'[h][l].write_pipe = ps[h][l].write_pipe
    BY <1>1, <2>1 DEF CommandsOver, Used, Child
  <2>2. ASSUME NEW h \in Progs, NEW l \in Commands, ~ (h = g /\ l \in S)
        PROVE  /\ Used(h, l)' = Used(h, l) /\ Child(h, l)' = Child(h, l)
               /\ ~ Used(h, l) => Child(h, l) = NoPid
               /\ ps'[h][l].aborted = ps[h][l].aborted
               /\ ps'[h][l].write_pipe = ps[h][l].write_pipe
    BY <2>2 DEF CommandsOver, Used, Child, CInv, DataInv, ChildWhenUsed
  <2>3. QED
    BY <2>1, <2>2
<1>3. \A q : q \in PidsOf(g, S) <=> \E l \in S : q = Child(g, l)
  BY DEF PidsOf, Child
<1>4. \A l \in S : Used(g, l) /\ l \in Commands
  BY DEF CommandsOver
<1>5. \A h \in Progs, l \in Commands : Used(h, l)' => Child(h, l) \notin PidsOf(g, S)
  <2> SUFFICES ASSUME NEW h \in Progs, NEW l \in Commands, Used(h, l)', NEW m \in S,
                      Child(h, l) = Child(g, m)
               PROVE  FALSE
    BY <1>3
  <2>1. Used(h, l) /\ ~ (h = g /\ l \in S)
    BY <1>2
  <2>2. QED
    BY <1>4, <2>1 DEF CInv, DataInv, HeldOnce
<1>6. \A n \in ExecIndices : exec_ps[n].child \notin PidsOf(g, S)
  <2> SUFFICES ASSUME NEW n \in ExecIndices, NEW m \in S, exec_ps[n].child = Child(g, m)
               PROVE  FALSE
    BY <1>3
  <2>1. Child(g, m) \in Pids
    BY Entries DEF CInv
  <2>2. QED
    BY <1>4, <2>1 DEF CInv, DataInv, HeldOnce, ByCommand, ByEntry
<1>7. \A q \in Pids : /\ ByEntry(q)' <=> ByEntry(q)
                      /\ ByCommand(q)' <=> ByCommand(q) /\ q \notin PidsOf(g, S)
                      /\ ByEntry(q) => q \notin PidsOf(g, S)
  <2> SUFFICES ASSUME NEW q \in Pids
               PROVE  /\ ByEntry(q)' <=> ByEntry(q)
                      /\ ByCommand(q)' <=> ByCommand(q) /\ q \notin PidsOf(g, S)
                      /\ ByEntry(q) => q \notin PidsOf(g, S)
    OBVIOUS
  <2>1. ByEntry(q)' <=> ByEntry(q)
    BY DEF CommandsOver, ByEntry, ExecIndices
  <2>2. ByCommand(q)' => ByCommand(q) /\ q \notin PidsOf(g, S)
    BY <1>2, <1>5 DEF ByCommand
  <2>3. ByCommand(q) /\ q \notin PidsOf(g, S) => ByCommand(q)'
    <3> SUFFICES ASSUME NEW h \in Progs, NEW l \in Commands, Used(h, l), Child(h, l) = q,
                        q \notin PidsOf(g, S)
                 PROVE  ByCommand(q)'
      BY DEF ByCommand
    <3>1. ~ (h = g /\ l \in S)
      BY <1>3
    <3>2. Used(h, l)' /\ Child(h, l)' = q
      BY <1>2, <3>1
    <3>3. QED
      BY <3>2 DEF ByCommand
  <2>4. ByEntry(q) => q \notin PidsOf(g, S)
    BY <1>6 DEF ByEntry
  <2>5. QED
    BY <2>1, <2>2, <2>3, <2>4
<1>8. HeldOnce'
  <2>1. \A h, a \in Progs, k, l \in Commands :
          Used(h, k)' /\ Used(a, l)' /\ Child(h, k)' = Child(a, l)' => h = a /\ k = l
    <3> SUFFICES ASSUME NEW h \in Progs, NEW a \in Progs, NEW k \in Commands, NEW l \in Commands,
                        Used(h, k)', Used(a, l)', Child(h, k)' = Child(a, l)'
                 PROVE  h = a /\ k = l
      OBVIOUS
    <3>1. Used(h, k) /\ Used(a, l) /\ Child(h, k) = Child(a, l)
      BY <1>2
    <3>2. QED
      BY <3>1 DEF CInv, DataInv, HeldOnce
  <2>2. \A q \in Pids : ~ (ByCommand(q)' /\ ByEntry(q)')
    BY <1>7 DEF CInv, DataInv, HeldOnce
  <2>3. QED
    BY <2>1, <2>2 DEF CInv, DataInv, HeldOnce, CommandsOver, ExecIndices
<1>9. HeldAll'
  BY <1>7 DEF CInv, DataInv, HeldAll, CommandsOver
<1>10. ChildWhenUsed'
  <2>1. \A h \in Progs, l \in Commands : Used(h, l) => Child(h, l) # NoPid
    BY DEF CInv, DataInv, ChildWhenUsed
  <2>2. QED
    BY <1>2, <2>1 DEF ChildWhenUsed
<1>11. QED
  BY <1>2, <1>5, <1>6, <1>8, <1>9, <1>10

(* Commands of a client's chain are over, and the client is at another     *)
(* stage; one whose commands are all over may be at any.                   *)
LEMMA OverIsCInv ==
  ASSUME CInv, NEW g \in Progs, NEW k \in Commands, NEW s, Client(g, k, s), s # "none",
         NEW S, CommandsOver(g, S), S \subseteq Chain(k),
         NEW t \in {"open", "waiting", "asked", "done"},
         t \in Active \/ \A l \in Chain(k) \cap Commands : Used(g, l) => l \in S,
         stage' = [stage EXCEPT ![g][k] = t],
         s = "open" => t = "open" /\ \A f \in Fds : pipes[f] # <<g, k>>,
         t = "open" => s = "open",
         asked' \subseteq Pids, asked \ PidsOf(g, S) \subseteq asked',
         t = "asked" => \A l \in Chain(k) \cap Commands :
                          Used(g, l) /\ l \notin S => Child(g, l) \in asked',
         UNCHANGED <<options, live, pipes, at, who, i>>
  PROVE  CInv'
<1> USE DEF options
<1>1. /\ stage' \in [Progs -> [Commands -> {"none", "open", "waiting", "asked", "done"}]]
      /\ \A h \in Progs, l \in Commands :
           stage'[h][l] = IF h = g /\ l = k THEN t ELSE stage[h][l]
  BY DEF CInv, TypeOK
<1>2. k \in Tops /\ stage[g][k] = s
  BY ClientFacts
<1>3. ChainsStay
  BY OptionsKeepChains
<1>4. TypeOK' /\ MoreTypes'
  BY <1>1 DEF CInv, TypeOK, MoreTypes, CommandsOver
<1>5. RunsInChain'
  <2> SUFFICES ASSUME NEW h \in Progs, NEW l \in Commands, Used(h, l)'
               PROVE  \E m \in Tops : l \in Chain(m) /\ stage'[h][m] \in Active
    BY <1>3 DEF RunsInChain, ChainsStay
  <2>1. Used(h, l) /\ ~ (h = g /\ l \in S)
    BY OverFacts
  <2>2. PICK m \in Tops : l \in Chain(m) /\ stage[h][m] \in Active
    BY <2>1 DEF CInv, DataInv, RunsInChain
  <2>3. stage'[h][m] \in Active
    BY <1>1, <1>3, <2>1, <2>2 DEF ChainsStay
  <2>4. QED
    BY <2>2, <2>3
<1>6. PipeOfOpen'
  <2> SUFFICES ASSUME NEW f \in Fds, NEW h \in Progs, NEW l \in Commands, pipes[f] = <<h, l>>
               PROVE  /\ stage'[h][l] = "open" /\ l \in Tops
                      /\ Used(h, l)' /\ ~ ps'[h][l].aborted /\ ~ pipecmds[l].no_pipe
                      /\ ps'[h][l].write_pipe = f
    BY <1>3 DEF PipeOfOpen, ChainsStay
  <2>1. /\ stage[h][l] = "open" /\ l \in Tops
        /\ Used(h, l) /\ ~ ps[h][l].aborted /\ ~ pipecmds[l].no_pipe /\ ps[h][l].write_pipe = f
    BY DEF CInv, DataInv, PipeOfOpen
  <2>2. ~ (h = g /\ l = k)
    BY <1>2, <2>1
  <2>3. ~ (h = g /\ l \in S)
    BY <1>2, <2>1, <2>2, OneTop DEF CInv
  <2>4. QED
    BY <1>1, <2>1, <2>2, <2>3, OverFacts
<1>7. AskedBeforeKill'
  <2>1. ASSUME NEW h \in Progs, NEW m \in Tops, NEW l \in Commands,
               stage'[h][m] = "asked", l \in Chain(m), Used(h, l)'
        PROVE  Child(h, l)' \in asked'
    <3>1. /\ Used(h, l) /\ ~ (h = g /\ l \in S)
          /\ Child(h, l)' = Child(h, l) /\ Child(h, l) \notin PidsOf(g, S)
      BY <2>1, OverFacts
    <3>2. CASE h = g /\ m = k
      BY <1>1, <1>2, <2>1, <3>1, <3>2
    <3>3. CASE ~ (h = g /\ m = k)
      <4>1. stage[h][m] = "asked"
        BY <1>1, <1>3, <2>1, <3>3 DEF ChainsStay
      <4>2. Child(h, l) \in asked
        BY <2>1, <3>1, <4>1 DEF CInv, DataInv, AskedBeforeKill
      <4>3. QED
        BY <3>1, <4>2
    <3>4. QED
      BY <3>2, <3>3
  <2>2. \A n \in ExecIndices : exec_ps[n].killmode => exec_ps[n].child \in asked'
    BY OverFacts DEF CInv, DataInv, AskedBeforeKill
  <2>3. QED
    BY <1>3, <2>1, <2>2 DEF AskedBeforeKill, ChainsStay, CommandsOver, ExecIndices
<1>8. InPlace'
  BY <1>1, ClientsStayInPlace
<1>9. QED
  BY <1>4, <1>5, <1>6, <1>7, <1>8, OverFacts DEF CInv, DataInv

(* What waitpid has done to the processes.                                 *)
LEMMA AfterFacts ==
  ASSUME CInv, NEW reaped, NEW lost, lost \subseteq reaped, proc' = After(reaped, lost)
  PROVE  /\ proc' \in [Pids -> {"free", "running", "ended", "lost"}]
         /\ \A q \in Pids : NotReaped(q)' <=> NotReaped(q) /\ q \notin reaped
BY DEF After, NotReaped, CInv, TypeOK

LEMMA OverType ==
  ASSUME NEW r \in PipestatType
  PROVE  Over(r) \in PipestatType
BY DEF PipestatType, Over, NoPid

LEMMA OutputFindsEndedIsCInv ==
  ASSUME CInv, NEW g \in Progs, NEW k \in Commands, OutputFindsEnded(g, k)
  PROVE  CInv'
<1> USE DEF where
<1>1. /\ Client(g, k, "open") /\ Used(g, k)
      /\ ps[g][k].aborted \/ pipecmds[k].no_pipe
      /\ ps' = [ps EXCEPT ![g][k] = Over(@)]
      /\ proc' = After({ps[g][k].child}, {})
      /\ asked' = asked \ {ps[g][k].child}
      /\ UNCHANGED <<options, live, stage, exec_ps, pipes, at, who, i>>
  BY DEF OutputFindsEnded, Used
<1>2. PidsOf(g, {k}) = {ps[g][k].child}
  BY DEF PidsOf
<1>3. CommandsOver(g, {k})
  <2>1. \A h \in Progs, l \in Commands : ps[h][l] \in PipestatType /\ Over(ps[h][l]) \in PipestatType
    BY OverType DEF CInv, TypeOK
  <2>2. /\ ps' \in [Progs -> [Commands -> PipestatType]]
        /\ \A h \in Progs, l \in Commands :
             ps'[h][l] = IF h = g /\ l \in {k} THEN Over(ps[h][l]) ELSE ps[h][l]
    BY <1>1, <2>1 DEF CInv, TypeOK
  <2>3. /\ proc' \in [Pids -> {"free", "running", "ended", "lost"}]
        /\ \A q \in Pids : NotReaped(q)' <=> NotReaped(q) /\ q \notin {ps[g][k].child}
    <3> DEFINE reaped == {ps[g][k].child}
    <3>1. {} \subseteq reaped /\ proc' = After(reaped, {})
      BY <1>1
    <3> HIDE DEF reaped
    <3>2. /\ proc' \in [Pids -> {"free", "running", "ended", "lost"}]
          /\ \A q \in Pids : NotReaped(q)' <=> NotReaped(q) /\ q \notin reaped
      BY <3>1, AfterFacts
    <3>3. QED
      BY <3>2 DEF reaped
  <2>4. QED
    BY <1>1, <1>2, <2>2, <2>3 DEF CommandsOver, options
<1>4. k \in Tops /\ stage[g][k] = "open"
  BY <1>1, ClientFacts
<1>5. {k} \subseteq Chain(k)
  BY <1>4, OwnChain DEF CInv
<1>6. \A f \in Fds : pipes[f] # <<g, k>>
  BY <1>1 DEF CInv, DataInv, PipeOfOpen
<1>7. stage' = [stage EXCEPT ![g][k] = "open"]
  BY <1>1, <1>4 DEF CInv, TypeOK
<1>8. asked' \subseteq Pids /\ asked \ PidsOf(g, {k}) \subseteq asked'
  BY <1>1, <1>2 DEF CInv, TypeOK
<1>9. QED
  BY <1>1, <1>3, <1>5, <1>6, <1>7, <1>8, OverIsCInv DEF Active

(* The commands of a chain that have ended, or all of them, in one call.   *)
LEMMA AllOverFacts ==
  ASSUME CInv, NEW g \in Progs, NEW S, S \subseteq {l \in Commands : Used(g, l)},
         ps' = AllOver(g, S), NEW lost, lost \subseteq PidsOf(g, S),
         proc' = After(PidsOf(g, S), lost), UNCHANGED <<exec_ps, pipecmds>>
  PROVE  CommandsOver(g, S)
<1>1. \A h \in Progs, l \in Commands : ps[h][l] \in PipestatType /\ Over(ps[h][l]) \in PipestatType
  BY OverType DEF CInv, TypeOK
<1>2. /\ ps' \in [Progs -> [Commands -> PipestatType]]
      /\ \A h \in Progs, l \in Commands :
           ps'[h][l] = IF h = g /\ l \in S THEN Over(ps[h][l]) ELSE ps[h][l]
  BY <1>1 DEF AllOver, CInv, TypeOK
<1>3. QED
  BY <1>2, AfterFacts DEF CommandsOver

LEMMA ChainSets ==
  ASSUME CInv, NEW g \in Progs, NEW k \in Tops
  PROVE  /\ Chain(k) \subseteq Commands
         /\ UsedOf(g, k) = {l \in Chain(k) : Used(g, l)}
         /\ UsedOf(g, k) = EndedOf(g, k) \cup RunningOf(g, k)
         /\ \A l \in UsedOf(g, k) : Child(g, l) \in Pids /\ NotReaped(Child(g, l))
         /\ \A l \in RunningOf(g, k) : Running(Child(g, l))
         /\ \A l \in EndedOf(g, k) : Ended(Child(g, l))
<1>1. Chain(k) \subseteq Commands
  BY ChainsAreCommands DEF CInv
<1>2. UsedOf(g, k) = {l \in Chain(k) : Used(g, l)}
  BY DEF UsedOf, Used
<1>3. ASSUME NEW l \in UsedOf(g, k)
      PROVE  Child(g, l) \in Pids /\ NotReaped(Child(g, l))
  <2>1. l \in Commands /\ Used(g, l)
    BY <1>1, <1>2
  <2>2. Child(g, l) \in Pids
    BY <2>1 DEF CInv, DataInv, ChildWhenUsed, TypeOK, PipestatType, Child
  <2>3. QED
    BY <2>1, <2>2 DEF CInv, DataInv, HeldAll, ByCommand
<1>4. QED
  BY <1>1, <1>2, <1>3 DEF UsedOf, EndedOf, RunningOf, Child, NotReaped, Ended, Running

LEMMA ForcecloseIsCInv ==
  ASSUME CInv, NEW g \in Progs, NEW k \in Commands, NEW late \in BOOLEAN, Forceclose(g, k, late)
  PROVE  CInv'
<1> USE DEF where
<1>1. Client(g, k, "waiting")
  BY DEF Forceclose
<1>2. k \in Tops
  BY <1>1, ClientFacts
<1> DEFINE S == EndedOf(g, k)
           t == IF RunningOf(g, k) = {} THEN "done" ELSE IF late THEN "asked" ELSE "waiting"
<1>3. S \subseteq Chain(k) /\ S \subseteq {l \in Commands : Used(g, l)}
  BY <1>2, ChainSets
<1>4. CommandsOver(g, S)
  BY <1>3, AllOverFacts DEF Forceclose, options
<1>5. stage[g][k] = "waiting" /\ stage' = [stage EXCEPT ![g][k] = t]
  BY <1>1, ClientFacts DEF Forceclose
<1>6. t \in Active \/ \A l \in Chain(k) \cap Commands : Used(g, l) => l \in S
  BY <1>2, ChainSets DEF Active
<1>7. asked' \subseteq Pids /\ asked \ PidsOf(g, S) \subseteq asked'
  BY <1>2, ChainSets DEF Forceclose, CInv, TypeOK, PidsOf, Child
<1>8. t = "asked" => \A l \in Chain(k) \cap Commands :
                       Used(g, l) /\ l \notin S => Child(g, l) \in asked'
  <2> SUFFICES ASSUME late, NEW l \in Chain(k) \cap Commands, Used(g, l), l \notin S
               PROVE  Child(g, l) \in asked'
    OBVIOUS
  <2>1. l \in RunningOf(g, k)
    BY <1>2, ChainSets
  <2>2. Child(g, l) \in PidsOf(g, RunningOf(g, k))
    BY <2>1 DEF PidsOf, Child
  <2>3. Child(g, l) \notin PidsOf(g, S)
    <3>1. Running(Child(g, l)) /\ \A m \in S : Ended(Child(g, m))
      BY <1>2, <2>1, ChainSets
    <3>2. QED
      BY <3>1 DEF Running, Ended, PidsOf, Child
  <2>4. QED
    BY <2>2, <2>3 DEF Forceclose
<1>9. /\ UNCHANGED <<options, live, pipes, at, who, i>>
      /\ t \in {"open", "waiting", "asked", "done"} /\ t # "open"
  BY DEF Forceclose
<1> HIDE DEF S, t
<1>10. QED
  BY <1>1, <1>3, <1>4, <1>5, <1>6, <1>7, <1>8, <1>9, OverIsCInv

LEMMA ForcecloseNowIsCInv ==
  ASSUME CInv, NEW g \in Progs, NEW k \in Commands, ForcecloseNow(g, k)
  PROVE  CInv'
<1> USE DEF where
<1>1. Client(g, k, "asked")
  BY DEF ForcecloseNow
<1>2. k \in Tops
  BY <1>1, ClientFacts
<1> DEFINE S == UsedOf(g, k)
<1>3. S \subseteq Chain(k) /\ S \subseteq {l \in Commands : Used(g, l)}
  BY <1>2, ChainSets
<1>4. CommandsOver(g, S)
  <2>1. PICK lost \in SUBSET PidsOf(g, RunningOf(g, k)) : proc' = After(PidsOf(g, S), lost)
    BY DEF ForcecloseNow
  <2>2. lost \subseteq PidsOf(g, S)
    BY <1>2, <2>1, ChainSets DEF PidsOf
  <2>3. QED
    BY <1>3, <2>1, <2>2, AllOverFacts DEF ForcecloseNow, options
<1>5. stage' = [stage EXCEPT ![g][k] = "done"]
  BY DEF ForcecloseNow
<1>6. \A l \in Chain(k) \cap Commands : Used(g, l) => l \in S
  BY <1>2, ChainSets
<1>7. asked' \subseteq Pids /\ asked \ PidsOf(g, S) \subseteq asked'
  BY DEF ForcecloseNow, CInv, TypeOK
<1>8. UNCHANGED <<options, live, pipes, at, who, i>>
  BY DEF ForcecloseNow
<1>9. /\ "asked" # "none" /\ "asked" # "open" /\ "done" # "open" /\ "done" # "asked"
      /\ "done" \in {"open", "waiting", "asked", "done"}
  OBVIOUS
<1> HIDE DEF S
<1>10. QED
  BY <1>1, <1>3, <1>4, <1>5, <1>6, <1>7, <1>8, <1>9, OverIsCInv

-----------------------------------------------------------------------------
(* A step that changes exec_ps and the processes alone, with the places    *)
(* and the programmes as they are: chains, pipes and clients are not       *)
(* disturbed where nothing that a command holds is waited for.             *)
LEMMA EntriesOnly ==
  ASSUME CInv, UNCHANGED <<options, live, stage, ps, pipes, at, who>>,
         i' = i + 1, at # "create",
         exec_ps' \in Seq(ExecType), Len(exec_ps') <= MaxExec,
         proc' \in [Pids -> {"free", "running", "ended", "lost"}],
         HeldOnce', HeldAll', asked' \subseteq Pids,
         \A p \in asked : ByCommand(p) => p \in asked',
         \A n \in ExecIndices' : exec_ps'[n].killmode => exec_ps'[n].child \in asked'
  PROVE  CInv'
<1> USE DEF options
<1>1. ChainsStay
  BY OptionsKeepChains
<1>2. TypeOK' /\ MoreTypes'
  BY DEF CInv, TypeOK, MoreTypes, ExecType
<1>3. ChildWhenUsed' /\ RunsInChain' /\ PipeOfOpen'
  BY <1>1 DEF CInv, DataInv, ChildWhenUsed, RunsInChain, PipeOfOpen, Used, Child, ChainsStay
<1>4. AskedBeforeKill'
  <2>1. \A g \in Progs, k \in Tops, l \in Commands :
          stage[g][k] = "asked" /\ l \in Chain(k) /\ Used(g, l) => Child(g, l) \in asked'
    BY DEF CInv, DataInv, AskedBeforeKill, ByCommand
  <2>2. QED
    BY <1>1, <2>1 DEF AskedBeforeKill, Used, Child, ChainsStay
<1>5. InPlace'
  BY DEF CInv, InPlace, MoreTypes, Used
<1>6. QED
  BY <1>2, <1>3, <1>4, <1>5 DEF CInv, DataInv

(* One entry is deleted, and its process is over.                          *)
LEMMA RemovedIsCInv ==
  ASSUME CInv, UNCHANGED <<options, live, stage, ps, pipes, at, who>>,
         i' = i + 1, at # "create",
         NEW n \in 1 .. Len(exec_ps), exec_ps' = RemoveAt(exec_ps, n),
         NEW lost, lost \subseteq {exec_ps[n].child},
         proc' = After({exec_ps[n].child}, lost),
         asked' = asked \ {exec_ps[n].child}
  PROVE  CInv'
<1> DEFINE p == exec_ps[n].child
           N == Len(exec_ps)
<1>1. exec_ps \in Seq(ExecType) /\ N \in Nat /\ ExecIndices = 1 .. N /\ p \in Pids
  BY Entries DEF CInv
<1>2. /\ exec_ps' \in Seq(ExecType) /\ Len(exec_ps') = N - 1 /\ ExecIndices' = 1 .. N - 1
      /\ \A m \in 1 .. N - 1 : exec_ps'[m] = IF m < n THEN exec_ps[m] ELSE exec_ps[m + 1]
  <2>1. /\ exec_ps' \in Seq(ExecType) /\ Len(exec_ps') = N - 1
        /\ \A m \in 1 .. N - 1 : exec_ps'[m] = IF m < n THEN exec_ps[m] ELSE exec_ps[m + 1]
    BY <1>1, RemoveAtProperties
  <2>2. DOMAIN exec_ps' = 1 .. N - 1
    BY <2>1, LenProperties
  <2>3. QED
    BY <2>1, <2>2 DEF ExecIndices
<1>3. /\ proc' \in [Pids -> {"free", "running", "ended", "lost"}]
      /\ \A q \in Pids : NotReaped(q)' <=> NotReaped(q) /\ q # p
  <2> DEFINE reaped == {p}
  <2>1. lost \subseteq reaped /\ proc' = After(reaped, lost)
    OBVIOUS
  <2> HIDE DEF reaped
  <2>2. /\ proc' \in [Pids -> {"free", "running", "ended", "lost"}]
        /\ \A q \in Pids : NotReaped(q)' <=> NotReaped(q) /\ q \notin reaped
    BY <2>1, AfterFacts
  <2>3. QED
    BY <2>2 DEF reaped
<1>4. n \in 1 .. N /\ \A m \in 1 .. N : exec_ps[m].child = p => m = n
  BY <1>1 DEF CInv, DataInv, HeldOnce
<1> HIDE DEF p, N
<1>5. ByEntry(p) /\ ~ ByCommand(p)
  <2>1. ByEntry(p)
    BY <1>1 DEF ByEntry, p, N
  <2>2. QED
    BY <1>1, <2>1 DEF CInv, DataInv, HeldOnce
<1>6. \A m \in 1 .. N - 1 : \E l \in 1 .. N : l # n /\ exec_ps'[m] = exec_ps[l]
                                              /\ l = (IF m < n THEN m ELSE m + 1)
  BY <1>1, <1>2
<1>7. \A q \in Pids : /\ ByCommand(q)' <=> ByCommand(q)
                      /\ ByEntry(q)' <=> ByEntry(q) /\ q # p
  <2>1. \A q : ByCommand(q)' <=> ByCommand(q)
    BY DEF ByCommand, Used, Child
  <2>2. ASSUME NEW q, ByEntry(q)'
        PROVE  ByEntry(q) /\ q # p
    <3>1. PICK m \in 1 .. N - 1 : exec_ps'[m].child = q
      BY <1>2, <2>2 DEF ByEntry
    <3>2. PICK l \in 1 .. N : l # n /\ exec_ps[l].child = q
      BY <1>6, <3>1
    <3>3. QED
      BY <1>1, <1>4, <3>2 DEF ByEntry
  <2>3. ASSUME NEW q, ByEntry(q), q # p
        PROVE  ByEntry(q)'
    <3>1. PICK l \in 1 .. N : exec_ps[l].child = q
      BY <1>1, <2>3 DEF ByEntry
    <3>2. l # n
      BY <2>3, <3>1 DEF p
    <3>3. CASE l < n
      <4>1. l \in 1 .. N - 1 /\ exec_ps'[l].child = q
        BY <1>1, <1>2, <1>4, <3>1, <3>3
      <4>2. QED
        BY <1>2, <4>1 DEF ByEntry
    <3>4. CASE l > n
      <4>1. l - 1 \in 1 .. N - 1 /\ ~ (l - 1 < n) /\ l - 1 + 1 = l
        BY <1>1, <3>4
      <4>2. exec_ps'[l - 1].child = q
        BY <1>2, <3>1, <4>1
      <4>3. QED
        BY <1>2, <4>1, <4>2 DEF ByEntry
    <3>5. QED
      BY <3>2, <3>3, <3>4
  <2>4. QED
    BY <2>1, <2>2, <2>3
<1>8. HeldOnce'
  <2>1. \A m, l \in ExecIndices' : exec_ps'[m].child = exec_ps'[l].child => m = l
    <3> SUFFICES ASSUME NEW m \in 1 .. N - 1, NEW l \in 1 .. N - 1, exec_ps'[m].child = exec_ps'[l].child
                 PROVE  m = l
      BY <1>2
    <3>1. PICK a \in 1 .. N : exec_ps'[m] = exec_ps[a] /\ a = (IF m < n THEN m ELSE m + 1)
      BY <1>6
    <3>2. PICK b \in 1 .. N : exec_ps'[l] = exec_ps[b] /\ b = (IF l < n THEN l ELSE l + 1)
      BY <1>6
    <3>3. a = b
      BY <1>1, <3>1, <3>2 DEF CInv, DataInv, HeldOnce
    <3>4. QED
      BY <1>1, <1>4, <3>1, <3>2, <3>3
  <2>2. \A q \in Pids : ~ (ByCommand(q)' /\ ByEntry(q)')
    BY <1>7 DEF CInv, DataInv, HeldOnce
  <2>3. QED
    BY <2>1, <2>2 DEF CInv, DataInv, HeldOnce, Used, Child
<1>9. HeldAll'
  BY <1>3, <1>5, <1>7 DEF CInv, DataInv, HeldAll
<1>10. \A q \in asked : ByCommand(q) => q \in asked'
  BY <1>5 DEF p
<1>11. \A m \in ExecIndices' : exec_ps'[m].killmode => exec_ps'[m].child \in asked'
  <2> SUFFICES ASSUME NEW m \in 1 .. N - 1, exec_ps'[m].killmode
               PROVE  exec_ps'[m].child \in asked'
    BY <1>2
  <2>1. PICK l \in 1 .. N : l # n /\ exec_ps'[m] = exec_ps[l]
    BY <1>6
  <2>2. exec_ps[l].child \in asked /\ exec_ps[l].child # p
    BY <1>1, <1>4, <2>1 DEF CInv, DataInv, AskedBeforeKill
  <2>3. QED
    BY <2>1, <2>2 DEF p
<1>12. Len(exec_ps') <= MaxExec /\ asked' \subseteq Pids
  BY <1>1, <1>2, ProcessAssumption DEF CInv, TypeOK, N
<1>13. QED
  BY <1>2, <1>3, <1>8, <1>9, <1>10, <1>11, <1>12, EntriesOnly

-----------------------------------------------------------------------------
(* check_exec_child_processes.                                             *)
LEMMA PassFacts ==
  ASSUME CInv, NEW p, Checks(p)
  PROVE  i \in 1 .. Len(exec_ps) /\ p = exec_ps[i].child /\ at # "create" /\ at # "postclose"
BY Entries DEF CInv, InPlace, MoreTypes, Checks, Passes

LEMMA CheckRemovesIsCInv ==
  ASSUME CInv, NEW p \in Pids, CheckEnded(p) \/ CheckHard(p)
  PROVE  CInv'
<1> USE DEF options, programmes
<1>1. Checks(p) /\ exec_ps' = RemoveAt(exec_ps, i) /\ i' = i + 1 /\ asked' = asked \ {p}
  BY DEF CheckEnded, CheckHard
<1>2. UNCHANGED <<options, live, stage, ps, pipes, at, who>>
  BY DEF CheckEnded, CheckHard
<1>3. i \in 1 .. Len(exec_ps) /\ p = exec_ps[i].child /\ at # "create"
  BY <1>1, PassFacts
<1>4. \E lost \in SUBSET {p} : proc' = After({p}, lost)
  BY DEF CheckEnded, CheckHard
<1>5. QED
  BY <1>1, <1>2, <1>3, <1>4, RemovedIsCInv

LEMMA CheckSoftIsCInv ==
  ASSUME CInv, NEW p \in Pids, CheckSoft(p)
  PROVE  CInv'
<1> USE DEF options, programmes
<1>1. /\ exec_ps' = [exec_ps EXCEPT ![i] = SoftKilled(@)] /\ i' = i + 1
      /\ asked' = asked \cup {p}
      /\ UNCHANGED <<options, live, stage, ps, proc, pipes, at, who>>
  BY DEF CheckSoft
<1>2. i \in 1 .. Len(exec_ps) /\ p = exec_ps[i].child /\ at # "create"
  BY PassFacts DEF CheckSoft
<1>3. exec_ps \in Seq(ExecType) /\ exec_ps[i] \in ExecType /\ ExecIndices = 1 .. Len(exec_ps)
  BY <1>2, Entries DEF CInv
<1>4. SoftKilled(exec_ps[i]) \in ExecType /\ SoftKilled(exec_ps[i]).child = p
  <2>1. ASSUME NEW e \in ExecType
        PROVE  SoftKilled(e) \in ExecType /\ SoftKilled(e).child = e.child
    <3>1. [e EXCEPT !.killmode = TRUE] \in ExecType /\ [e EXCEPT !.killmode = TRUE].child = e.child
      BY DEF ExecType
    <3>2. ASSUME NEW d \in ExecType
          PROVE  [d EXCEPT !.age = 0] \in ExecType /\ [d EXCEPT !.age = 0].child = d.child
      BY OldAgeType DEF ExecType
    <3>3. SoftKilled(e) = [[e EXCEPT !.killmode = TRUE] EXCEPT !.age = 0]
      BY DEF SoftKilled, ExecType
    <3>4. QED
      BY <3>1, <3>2, <3>3
  <2>2. QED
    BY <1>2, <1>3, <2>1
<1>5. /\ exec_ps' \in Seq(ExecType) /\ Len(exec_ps') = Len(exec_ps)
      /\ \A n \in 1 .. Len(exec_ps) :
           exec_ps'[n] = IF n = i THEN SoftKilled(exec_ps[i]) ELSE exec_ps[n]
  <2> DEFINE e == SoftKilled(exec_ps[i])
  <2>1. exec_ps' = [exec_ps EXCEPT ![i] = e] /\ e \in ExecType
    BY <1>1, <1>4
  <2> HIDE DEF e
  <2>2. /\ exec_ps' \in Seq(ExecType) /\ Len(exec_ps') = Len(exec_ps)
        /\ \A n \in 1 .. Len(exec_ps) : exec_ps'[n] = IF n = i THEN e ELSE exec_ps[n]
    BY <1>2, <1>3, <2>1, ExceptSeq
  <2>3. QED
    BY <2>2 DEF e
<1>6. ExecIndices' = ExecIndices
  BY <1>3, <1>5, LenProperties DEF ExecIndices
<1>7. \A n \in ExecIndices : exec_ps'[n].child = exec_ps[n].child
  BY <1>2, <1>3, <1>4, <1>5
<1>8. HeldOnce' /\ HeldAll'
  BY <1>1, <1>6, <1>7 DEF CInv, DataInv, HeldOnce, HeldAll, NotReaped, ByCommand, ByEntry, Used, Child
<1>9. \A n \in ExecIndices' : exec_ps'[n].killmode => exec_ps'[n].child \in asked'
  BY <1>1, <1>2, <1>3, <1>4, <1>5, <1>6 DEF CInv, DataInv, AskedBeforeKill
<1>10. /\ Len(exec_ps') <= MaxExec /\ asked' \subseteq Pids
       /\ proc' \in [Pids -> {"free", "running", "ended", "lost"}]
       /\ \A q \in asked : ByCommand(q) => q \in asked'
  BY <1>1, <1>5 DEF CInv, TypeOK
<1>11. QED
  BY <1>1, <1>2, <1>5, <1>8, <1>9, <1>10, EntriesOnly

-----------------------------------------------------------------------------
(* hook_pgoutput_postclose: a command of the end is started, and takes the *)
(* place of the oldest where there is no room for it.                      *)
LEMMA ExecCmdIsCInv ==
  ASSUME CInv, ExecCmd
  PROVE  CInv'
<1> USE DEF options, programmes
<1> DEFINE N == Len(exec_ps)
           d == IF Full THEN 1 ELSE 0
           gone == IF Full THEN {exec_ps[1].child} ELSE {}
           old == IF Full THEN Tail(exec_ps) ELSE exec_ps
<1>1. /\ i' = i + 1 /\ at # "create"
      /\ UNCHANGED <<options, live, stage, ps, pipes, at, who>>
  BY DEF ExecCmd, InPostclose
<1>2. exec_ps \in Seq(ExecType) /\ N \in Nat /\ ExecIndices = 1 .. N /\ N <= MaxExec
  BY Entries DEF CInv, TypeOK
<1>3. PICK p \in Pids :
        /\ proc[p] = "free"
        /\ exec_ps' = Append(old, NewExec(p))
        /\ proc' \in [Pids -> {"free", "running", "ended", "lost"}]
        /\ \A q \in Pids : NotReaped(q)' <=> (NotReaped(q) /\ q \notin gone) \/ q = p
        /\ asked' = asked \ gone
  <2>1. PICK p \in Pids :
          /\ FirstFree(p)
          /\ IF Full
             THEN LET oldest == exec_ps[1].child IN
                  /\ exec_ps' = Append(Tail(exec_ps), NewExec(p))
                  /\ \E lost \in {{}} \cup (IF Running(oldest) THEN {{oldest}} ELSE {}) :
                       proc' = [After({oldest}, lost) EXCEPT ![p] = "running"]
                  /\ asked' = asked \ {oldest}
             ELSE /\ exec_ps' = Append(exec_ps, NewExec(p))
                  /\ proc' = Forked(p)
                  /\ UNCHANGED asked
    BY DEF ExecCmd
  <2>2. proc[p] = "free"
    BY <2>1 DEF FirstFree
  <2>3. CASE Full
    <3>1. exec_ps' = Append(old, NewExec(p)) /\ asked' = asked \ gone
      BY <2>1, <2>3
    <3>2. PICK lost \in SUBSET {exec_ps[1].child} :
            proc' = [After({exec_ps[1].child}, lost) EXCEPT ![p] = "running"]
      BY <2>1, <2>3
    <3>3. /\ proc' \in [Pids -> {"free", "running", "ended", "lost"}]
          /\ \A q \in Pids : NotReaped(q)' <=> (NotReaped(q) /\ q \notin gone) \/ q = p
      BY <2>2, <2>3, <3>2 DEF After, NotReaped, CInv, TypeOK
    <3>4. QED
      BY <2>2, <3>1, <3>3
  <2>4. CASE ~ Full
    <3>1. exec_ps' = Append(old, NewExec(p)) /\ asked' = asked \ gone
      BY <2>1, <2>4
    <3>2. /\ proc' \in [Pids -> {"free", "running", "ended", "lost"}]
          /\ \A q \in Pids : NotReaped(q)' <=> (NotReaped(q) /\ q \notin gone) \/ q = p
      BY <2>1, <2>2, <2>4 DEF Forked, NotReaped, CInv, TypeOK
    <3>3. QED
      BY <2>2, <3>1, <3>2
  <2>5. QED
    BY <2>3, <2>4
<1>4. Full => exec_ps # << >> /\ N >= 1
  BY <1>2, ProcessAssumption, EmptySeq DEF Full
<1>5. /\ old \in Seq(ExecType) /\ Len(old) = N - d /\ N - d \in Nat /\ N - d + 1 <= MaxExec
      /\ \A m \in 1 .. N - d : old[m] = exec_ps[m + d]
  <2>1. CASE Full
    BY <1>2, <1>4, <2>1, HeadTailProperties
  <2>2. CASE ~ Full
    BY <1>2, <2>2, ProcessAssumption DEF Full
  <2>3. QED
    BY <2>1, <2>2
<1>6. \A m \in 1 .. N : exec_ps[m].child \in gone <=> m <= d
  <2>1. CASE Full
    BY <1>2, <1>4, <2>1 DEF CInv, DataInv, HeldOnce
  <2>2. CASE ~ Full
    BY <2>2
  <2>3. QED
    BY <2>1, <2>2
<1>7. NewExec(p) \in ExecType /\ NewExec(p).child = p /\ ~ NewExec(p).killmode
  BY OldAgeType DEF NewExec, ExecType
<1>8. d \in 0 .. 1
  OBVIOUS
<1>9. \A q \in gone : ByEntry(q) /\ q \in Pids
  BY <1>2, <1>4, Entries DEF ByEntry, CInv
<1> HIDE DEF N, d, gone, old
<1>10. /\ exec_ps' \in Seq(ExecType) /\ Len(exec_ps') = N - d + 1 /\ ExecIndices' = 1 .. N - d + 1
       /\ \A m \in 1 .. N - d : exec_ps'[m] = exec_ps[m + d]
       /\ exec_ps'[N - d + 1] = NewExec(p)
  <2>1. /\ exec_ps' \in Seq(ExecType) /\ Len(exec_ps') = Len(old) + 1
        /\ \A m \in 1 .. Len(old) : exec_ps'[m] = old[m]
        /\ exec_ps'[Len(old) + 1] = NewExec(p)
    BY <1>3, <1>5, <1>7, AppendProperties
  <2>2. ExecIndices' = 1 .. Len(exec_ps')
    BY <2>1, LenProperties DEF ExecIndices
  <2>3. QED
    BY <1>5, <2>1, <2>2
<1>11. ~ ByCommand(p) /\ ~ ByEntry(p)
  BY <1>3 DEF CInv, DataInv, HeldAll, NotReaped
<1>12. \A q : ByCommand(q)' <=> ByCommand(q)
  BY <1>1 DEF ByCommand, Used, Child
<1>13. \A q \in Pids : ByEntry(q)' <=> (ByEntry(q) /\ q \notin gone) \/ q = p
  <2>1. ASSUME NEW q \in Pids, ByEntry(q)', q # p
        PROVE  ByEntry(q) /\ q \notin gone
    <3>1. PICK m \in 1 .. N - d + 1 : exec_ps'[m].child = q
      BY <1>10, <2>1 DEF ByEntry
    <3>2. m \in 1 .. N - d
      BY <1>2, <1>5, <1>7, <1>10, <2>1, <3>1
    <3>3. m + d \in 1 .. N /\ ~ (m + d <= d) /\ exec_ps[m + d].child = q
      BY <1>2, <1>8, <1>10, <3>1, <3>2
    <3>4. QED
      BY <1>2, <1>6, <3>3 DEF ByEntry
  <2>2. ASSUME NEW q \in Pids, ByEntry(q), q \notin gone
        PROVE  ByEntry(q)'
    <3>1. PICK m \in 1 .. N : exec_ps[m].child = q
      BY <1>2, <2>2 DEF ByEntry
    <3>2. m - d \in 1 .. N - d /\ m - d + d = m
      BY <1>2, <1>6, <1>8, <2>2, <3>1
    <3>3. exec_ps'[m - d].child = q /\ m - d \in 1 .. N - d + 1
      BY <1>2, <1>5, <1>8, <1>10, <3>1, <3>2, SMTT(30)
    <3>4. QED
      BY <1>10, <3>3 DEF ByEntry
  <2>3. ByEntry(p)'
    <3>1. N - d + 1 \in 1 .. N - d + 1
      BY <1>5
    <3>2. QED
      BY <1>7, <1>10, <3>1 DEF ByEntry
  <2>4. QED
    BY <2>1, <2>2, <2>3
<1>14. HeldOnce'
  <2>1. ASSUME NEW m \in ExecIndices', NEW l \in ExecIndices', exec_ps'[m].child = exec_ps'[l].child
        PROVE  m = l
    <3>1. \A k \in 1 .. N - d : /\ k + d \in 1 .. N /\ exec_ps'[k] = exec_ps[k + d]
                                /\ exec_ps'[k].child # p
      <4> SUFFICES ASSUME NEW k \in 1 .. N - d
                   PROVE  k + d \in 1 .. N /\ exec_ps'[k] = exec_ps[k + d] /\ exec_ps'[k].child # p
        OBVIOUS
      <4>1. k + d \in 1 .. N /\ exec_ps'[k] = exec_ps[k + d]
        BY <1>2, <1>8, <1>10
      <4>2. QED
        BY <1>2, <1>11, <4>1 DEF ByEntry
    <3>2. CASE m \in 1 .. N - d /\ l \in 1 .. N - d
      <4>1. m + d = l + d
        BY <1>2, <2>1, <3>1, <3>2 DEF CInv, DataInv, HeldOnce
      <4>2. QED
        BY <1>8, <3>2, <4>1
    <3>3. CASE ~ (m \in 1 .. N - d /\ l \in 1 .. N - d)
      <4>1. \A k \in 1 .. N - d + 1 : k \in 1 .. N - d \/ k = N - d + 1
        BY <1>5
      <4>2. m = N - d + 1 \/ l = N - d + 1
        BY <1>10, <3>3, <4>1
      <4>3. QED
        BY <1>7, <1>10, <2>1, <3>1, <4>1, <4>2
    <3>4. QED
      BY <3>2, <3>3
  <2>2. \A q \in Pids : ~ (ByCommand(q)' /\ ByEntry(q)')
    BY <1>11, <1>12, <1>13 DEF CInv, DataInv, HeldOnce
  <2>3. QED
    BY <1>1, <2>1, <2>2 DEF CInv, DataInv, HeldOnce, Used, Child
<1>15. HeldAll'
  BY <1>3, <1>9, <1>12, <1>13 DEF CInv, DataInv, HeldAll, HeldOnce
<1>16. \A q \in asked : ByCommand(q) => q \in asked'
  BY <1>3, <1>9 DEF CInv, DataInv, HeldOnce
<1>17. \A m \in ExecIndices' : exec_ps'[m].killmode => exec_ps'[m].child \in asked'
  <2> SUFFICES ASSUME NEW m \in 1 .. N - d + 1, exec_ps'[m].killmode
               PROVE  exec_ps'[m].child \in asked'
    BY <1>10
  <2>1. m \in 1 .. N - d
    BY <1>5, <1>7, <1>10
  <2>2. m + d \in 1 .. N /\ ~ (m + d <= d) /\ exec_ps'[m] = exec_ps[m + d]
    BY <1>2, <1>8, <1>10, <2>1
  <2>3. QED
    BY <1>2, <1>3, <1>6, <2>2 DEF CInv, DataInv, AskedBeforeKill
<1>18. Len(exec_ps') <= MaxExec /\ asked' \subseteq Pids
  BY <1>3, <1>5, <1>10 DEF CInv, TypeOK
<1>19. QED
  BY <1>1, <1>3, <1>10, <1>14, <1>15, <1>16, <1>17, <1>18, EntriesOnly

(* The programme is over, and leaves nothing that runs or is open.         *)
LEMMA PostcloseEndIsCInv ==
  ASSUME CInv, PostcloseEnd
  PROVE  CInv'
<1> USE DEF options, system
<1>1. /\ at = "postclose" /\ who \in Progs /\ who \in live
      /\ at' = "idle" /\ i' = 0 /\ live' = live \ {who}
      /\ UNCHANGED <<options, exec_ps, proc, asked, pipes>>
  BY DEF PostcloseEnd, CInv, InPlace, TypeOK
<1>2. /\ stage' \in [Progs -> [Commands -> {"none", "open", "waiting", "asked", "done"}]]
      /\ \A h \in Progs, l \in Commands :
           stage'[h][l] = IF h = who THEN "none" ELSE stage[h][l]
  BY DEF PostcloseEnd, CInv, TypeOK
<1>3. /\ ps' \in [Progs -> [Commands -> PipestatType]]
      /\ \A h \in Progs, l \in Commands : ps'[h][l] = IF h = who THEN Unused ELSE ps[h][l]
  <2>1. [k \in Commands |-> Unused] \in [Commands -> PipestatType]
    BY DEF Unused, PipestatType
  <2>2. QED
    BY <1>1, <2>1 DEF PostcloseEnd, CInv, TypeOK
<1>4. \A k \in Commands : /\ stage[who][k] \notin Active /\ ~ Used(who, k)
                          /\ \A f \in Fds : pipes[f] # <<who, k>>
  <2> SUFFICES ASSUME NEW k \in Commands
               PROVE  /\ stage[who][k] \notin Active /\ ~ Used(who, k)
                      /\ \A f \in Fds : pipes[f] # <<who, k>>
    OBVIOUS
  <2>1. \A l \in Commands : stage[who][l] \in {"none", "done"}
    BY <1>1 DEF CInv, InPlace
  <2>2. Tops \subseteq Commands
    BY ChainsAreCommands DEF CInv
  <2>3. ~ Used(who, k)
    BY <1>1, <2>1, <2>2 DEF CInv, DataInv, RunsInChain, Active
  <2>4. \A f \in Fds : pipes[f] # <<who, k>>
    BY <1>1, <2>3 DEF CInv, DataInv, PipeOfOpen
  <2>5. QED
    BY <2>1, <2>3, <2>4 DEF Active
<1>5. \A h \in Progs, l \in Commands :
        Used(h, l)' = Used(h, l) /\ Child(h, l)' = Child(h, l) /\ (h # who => ps'[h][l] = ps[h][l])
  <2>1. ASSUME NEW h \in Progs, NEW l \in Commands, h # who
        PROVE  Used(h, l)' = Used(h, l) /\ Child(h, l)' = Child(h, l) /\ ps'[h][l] = ps[h][l]
    BY <1>3, <2>1 DEF Used, Child
  <2>2. ASSUME NEW l \in Commands
        PROVE  Used(who, l) = FALSE /\ Child(who, l) = NoPid /\ ps'[who][l] = Unused
    BY <1>1, <1>3, <1>4 DEF CInv, DataInv, ChildWhenUsed, Used, TypeOK, PipestatType
  <2>3. ASSUME NEW h \in Progs, NEW l \in Commands, h = who
        PROVE  Used(h, l)' = Used(h, l) /\ Child(h, l)' = Child(h, l)
    <3>1. ps'[h][l] = [used |-> FALSE, aborted |-> FALSE, child |-> NoPid, write_pipe |-> NoFd]
      BY <2>2, <2>3 DEF Unused
    <3>2. Used(h, l) = FALSE /\ Child(h, l) = NoPid
      BY <2>2, <2>3
    <3>3. Used(h, l)' = FALSE /\ Child(h, l)' = NoPid
      BY <3>1 DEF Used, Child
    <3>4. QED
      BY <3>2, <3>3
  <2>4. QED
    BY <2>1, <2>3
<1>6. TypeOK' /\ MoreTypes'
  BY <1>1, <1>2, <1>3 DEF CInv, TypeOK, MoreTypes
<1>7. ChainsStay
  BY <1>1, OptionsKeepChains
<1>8. HeldOnce' /\ HeldAll' /\ ChildWhenUsed'
  BY <1>1, <1>5 DEF CInv, DataInv, HeldOnce, HeldAll, ChildWhenUsed, NotReaped, ByCommand, ByEntry, ExecIndices
<1>9. RunsInChain'
  <2> SUFFICES ASSUME NEW h \in Progs, NEW l \in Commands, Used(h, l)
               PROVE  \E m \in Tops : l \in Chain(m) /\ stage'[h][m] \in Active
    BY <1>5, <1>7 DEF RunsInChain, ChainsStay
  <2>1. h # who
    BY <1>4
  <2>2. QED
    BY <1>2, <1>7, <2>1 DEF CInv, DataInv, RunsInChain, ChainsStay
<1>10. PipeOfOpen'
  <2> SUFFICES ASSUME NEW f \in Fds, NEW h \in Progs, NEW l \in Commands, pipes[f] = <<h, l>>
               PROVE  /\ stage'[h][l] = "open" /\ l \in Tops
                      /\ Used(h, l)' /\ ~ ps'[h][l].aborted /\ ~ pipecmds[l].no_pipe
                      /\ ps'[h][l].write_pipe = f
    BY <1>1, <1>7 DEF PipeOfOpen, ChainsStay
  <2>1. h # who
    BY <1>4
  <2>2. QED
    BY <1>2, <1>5, <2>1 DEF CInv, DataInv, PipeOfOpen
<1>11. AskedBeforeKill'
  <2>1. \A g \in Progs, k \in Tops, l \in Commands :
          stage'[g][k] = "asked" /\ l \in Chain(k) /\ Used(g, l)' => Child(g, l)' \in asked
    BY <1>2, <1>5, <1>7 DEF CInv, DataInv, AskedBeforeKill, ChainsStay
  <2>2. QED
    BY <1>1, <1>7, <2>1 DEF CInv, DataInv, AskedBeforeKill, ChainsStay, ExecIndices
<1>12. InPlace'
  BY <1>1, <1>2 DEF CInv, InPlace, Passes
<1>13. QED
  BY <1>6, <1>8, <1>9, <1>10, <1>11, <1>12 DEF CInv, DataInv

-----------------------------------------------------------------------------
LEMMA NextCInv == CInv /\ [Next]_vars => CInv'
<1> SUFFICES ASSUME CInv, [Next]_vars PROVE CInv'
  OBVIOUS
<1>1. CASE Options
  BY <1>1, OptionsAreCInv
<1>2. CASE Tick
  BY <1>2, TickIsCInv
<1>3. CASE HookTick \/ PrecloseModule \/ CloseModule \/ CheckEnd \/ CreateEnd \/ NotConnected
           \/ ExecCmdFails \/ Stopped \/ UNCHANGED vars
  BY <1>3, MovesAreCInv DEF Stopped
<1>4. ASSUME NEW p \in Pids, CheckEnded(p) \/ CheckSoft(p) \/ CheckHard(p) \/ CheckNothing(p)
      PROVE  CInv'
  BY <1>4, CheckRemovesIsCInv, CheckSoftIsCInv, MovesAreCInv
<1>5. CASE ExecChild \/ ExecChildFails
  BY <1>5, ExecChildIsCInv, ExecChildFailsIsCInv
<1>6. CASE PostcloseEnd \/ ExecCmd
  BY <1>6, PostcloseEndIsCInv, ExecCmdIsCInv
<1>7. ASSUME NEW g \in Progs, Precreate(g) \/ Postclose(g)
      PROVE  CInv'
  BY <1>7, MovesAreCInv
<1>8. ASSUME NEW g \in Progs, NEW k \in Commands, ClientStep(g, k)
      PROVE  CInv'
  BY <1>8, WriteFailsIsCInv, OutputFindsEndedIsCInv, CloseIsCInv, ForcecloseIsCInv, ForcecloseNowIsCInv
     DEF ClientStep
<1>9. ASSUME NEW p \in Pids, ChildEnds(p)
      PROVE  CInv'
  BY <1>9, ChildEndsIsCInv
<1>10. QED
  BY <1>1, <1>2, <1>3, <1>4, <1>5, <1>6, <1>7, <1>8, <1>9 DEF Next, Check, Create, PostcloseStep

(* CInv is inductive, for any command lines, processes and limits.         *)
THEOREM CInvAlways == Spec => []CInv
<1>1. Init => CInv
  BY InitCInv
<1>2. CInv /\ [Next]_vars => CInv'
  BY NextCInv
<1>3. QED
  BY <1>1, <1>2, PTL DEF Spec

(* The tables of mod_cmdexec.c keep their types, and the running processes *)
(* their number.                                                           *)
THEOREM CmdTypeCorrect == Spec => []TypeOK
<1>1. CInv => TypeOK
  BY DEF CInv
<1>2. QED
  BY <1>1, CInvAlways, PTL

(* The numbers of processes mod_cmdexec.c signals and waits for are those  *)
(* of children it has not waited for, each held once, and no child but one *)
(* that outlived SIGKILL is forgotten.                                     *)
THEOREM EveryChildIsHeld == Spec => []ChildrenAreHeld
<1>1. CInv => ChildrenAreHeld
  BY HeldIsHeld DEF CInv, DataInv
<1>2. QED
  BY <1>1, CInvAlways, PTL

(* hook_pgoutput_postclose runs the last commands of a programme when its  *)
(* pipe commands are over and their pipes are closed.                      *)
THEOREM PipesAreOver == Spec => []PipesOverAtPostclose
<1>1. CInv => PipesOverAtPostclose
  <2> SUFFICES ASSUME CInv, NEW c \in Clients, c[1] \notin live \/ (at = "postclose" /\ c[1] = who)
               PROVE  c \notin UsedClients /\ \A f \in Fds : pipes[f] # c
    BY DEF PipesOverAtPostclose
  <2>1. c = <<c[1], c[2]>> /\ c[1] \in Progs /\ c[2] \in Commands
    BY DEF Clients
  <2>2. \A k \in Commands : stage[c[1]][k] \in {"none", "done"}
    BY <2>1 DEF CInv, InPlace
  <2>3. Tops \subseteq Commands
    BY ChainsAreCommands DEF CInv
  <2>4. ~ Used(c[1], c[2])
    BY <2>1, <2>2, <2>3 DEF CInv, DataInv, RunsInChain, Active
  <2>5. \A f \in Fds : pipes[f] # <<c[1], c[2]>>
    BY <2>1, <2>4 DEF CInv, DataInv, PipeOfOpen
  <2>6. QED
    BY <2>1, <2>4, <2>5 DEF UsedClients, Used
<1>2. QED
  BY <1>1, CInvAlways, PTL

(* mod_cmdexec.c kills a process only after it asked it to end, other than *)
(* the oldest entry of a full table.                                       *)
THEOREM OnlyTheAskedAreKilled == Spec => KillsOnlyTheAsked
<1> DEFINE Asked(p) == Running(p) /\ proc'[p] \in {"free", "lost"} => p \in asked \/ MakesRoom(p)
<1>1. ASSUME CInv, [Next]_vars, NEW p \in Pids, Running(p), proc'[p] \in {"free", "lost"}
      PROVE  p \in asked \/ MakesRoom(p)
  <2>1. proc'[p] # proc[p] /\ proc[p] = "running"
    BY <1>1 DEF Running
  <2>2. CASE ExecChild
    BY <1>1, <2>1, <2>2 DEF ExecChild, Forked, FirstFree, CInv, TypeOK
  <2>3. CASE ExecCmd
    <3>1. CASE Full
      <4>1. PICK q \in Pids, lost \in SUBSET {exec_ps[1].child} :
              proc' = [After({exec_ps[1].child}, lost) EXCEPT ![q] = "running"]
        BY <2>3, <3>1 DEF ExecCmd
      <4>2. p = exec_ps[1].child
        BY <1>1, <2>1, <4>1 DEF After
      <4>3. Len(exec_ps) = MaxExec
        BY <1>1, <3>1, Entries, ProcessAssumption DEF Full, CInv, TypeOK
      <4>4. QED
        BY <2>3, <4>2, <4>3 DEF MakesRoom, ExecCmd, InPostclose
    <3>2. CASE ~ Full
      BY <1>1, <2>1, <2>3, <3>2 DEF ExecCmd, Forked, FirstFree, CInv, TypeOK
    <3>3. QED
      BY <3>1, <3>2
  <2>4. ASSUME NEW q \in Pids, CheckEnded(q)
        PROVE  FALSE
    BY <1>1, <2>1, <2>4 DEF CheckEnded, Ended, After, CInv, TypeOK
  <2>5. ASSUME NEW q \in Pids, CheckHard(q)
        PROVE  p \in asked
    <3>1. p = q
      BY <1>1, <2>1, <2>5 DEF CheckHard, After
    <3>2. i \in ExecIndices /\ q = exec_ps[i].child /\ exec_ps[i].killmode
      BY <1>1, <2>5, PassFacts, Entries DEF CheckHard, ToKill, CInv
    <3>3. QED
      BY <1>1, <3>1, <3>2 DEF CInv, DataInv, AskedBeforeKill
  <2>6. ASSUME NEW g \in Progs, NEW k \in Commands, OutputFindsEnded(g, k)
        PROVE  FALSE
    BY <1>1, <2>1, <2>6 DEF OutputFindsEnded, Ended, After, CInv, TypeOK
  <2>7. ASSUME NEW g \in Progs, NEW k \in Commands, NEW late \in BOOLEAN, Forceclose(g, k, late)
        PROVE  FALSE
    <3>1. proc' = After(PidsOf(g, EndedOf(g, k)), {})
      BY <2>7 DEF Forceclose
    <3>2. p \in PidsOf(g, EndedOf(g, k))
      BY <1>1, <2>1, <3>1 DEF After
    <3>3. QED
      BY <2>1, <3>2 DEF PidsOf, EndedOf, Ended
  <2>8. ASSUME NEW g \in Progs, NEW k \in Commands, ForcecloseNow(g, k)
        PROVE  p \in asked
    <3>1. k \in Tops /\ stage[g][k] = "asked"
      BY <1>1, <2>8, ClientFacts DEF ForcecloseNow
    <3>2. PICK lost \in SUBSET PidsOf(g, RunningOf(g, k)) : proc' = After(PidsOf(g, UsedOf(g, k)), lost)
      BY <2>8 DEF ForcecloseNow
    <3>3. p \in PidsOf(g, UsedOf(g, k))
      BY <1>1, <2>1, <3>2 DEF After, PidsOf, RunningOf
    <3>4. PICK l \in UsedOf(g, k) : p = Child(g, l)
      BY <3>3 DEF PidsOf, Child
    <3>5. l \in Commands /\ l \in Chain(k) /\ Used(g, l)
      BY <1>1, <3>1, <3>4, ChainSets
    <3>6. QED
      BY <1>1, <3>1, <3>4, <3>5 DEF CInv, DataInv, AskedBeforeKill
  <2>9. ASSUME NEW q \in Pids, ChildEnds(q)
        PROVE  FALSE
    BY <1>1, <2>1, <2>9 DEF ChildEnds, CInv, TypeOK
  <2>10. CASE UNCHANGED proc
    BY <2>1, <2>10
  <2>11. \/ UNCHANGED proc \/ ExecChild \/ ExecCmd
         \/ \E q \in Pids : CheckEnded(q) \/ CheckHard(q) \/ ChildEnds(q)
         \/ \E g \in Progs, k \in Commands :
              \/ OutputFindsEnded(g, k) \/ ForcecloseNow(g, k)
              \/ \E late \in BOOLEAN : Forceclose(g, k, late)
    <3> USE DEF system, vars
    <3>1. CASE Options \/ Tick \/ HookTick \/ PrecloseModule \/ CloseModule \/ CheckEnd
               \/ CreateEnd \/ NotConnected \/ ExecChildFails \/ PostcloseEnd \/ ExecCmdFails \/ Stopped
      BY <3>1 DEF Options, Tick, HookTick, PrecloseModule, CloseModule, BeginPass, CheckEnd,
         CreateEnd, NotConnected, ExecChildFails, PostcloseEnd, ExecCmdFails, Stopped
    <3>2. ASSUME NEW q \in Pids, CheckSoft(q) \/ CheckNothing(q)
          PROVE  UNCHANGED proc
      BY <3>2 DEF CheckSoft, CheckNothing
    <3>3. ASSUME NEW g \in Progs, Precreate(g) \/ Postclose(g)
          PROVE  UNCHANGED proc
      BY <3>3 DEF Precreate, Postclose
    <3>4. ASSUME NEW g \in Progs, NEW k \in Commands, WriteFails(g, k) \/ Close(g, k)
          PROVE  UNCHANGED proc
      BY <3>4 DEF WriteFails, Close
    <3>5. QED
      BY <1>1, <3>1, <3>2, <3>3, <3>4 DEF Next, Check, Create, PostcloseStep, ClientStep
  <2>12. QED
    BY <2>2, <2>3, <2>4, <2>5, <2>6, <2>7, <2>8, <2>9, <2>10, <2>11
<1>2. CInv /\ [Next]_vars => [\A p \in Pids : Asked(p)]_vars
  BY <1>1
<1>3. QED
  BY <1>2, CInvAlways, PTL DEF Spec, KillsOnlyTheAsked

=============================================================================
