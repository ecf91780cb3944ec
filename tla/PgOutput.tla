------------------------------ MODULE PgOutput ------------------------------
(***************************************************************************)
(* core/ts_output.c: the outputs of the programmes of one service.         *)
(*                                                                         *)
(* A programme owns one of MAX_PGOVERLAP slots (output_status_prog_t) from *)
(* the moment it begins until every module has closed every output         *)
(* (client) it opened for it.  Each client is a downstream of the service's*)
(* buffer, of which only what its disconnection and closing depend on is   *)
(* kept here; module AdvancedBuffer has the rest.  The modules' hooks are  *)
(* the environment: they open any of the numbers of clients in Asks, and a *)
(* forceclose hook says at any call that it is done or that it is not.     *)
(*                                                                         *)
(* Times are kept relative to the clock: overdue[p] is how long ago the    *)
(* programme's closetime was, waited[c] how long ago the client's was.     *)
(***************************************************************************)
EXTENDS Integers, FiniteSets

CONSTANTS
  MaxPgOverlap,  \* MAX_PGOVERLAP
  NModules,      \* n_modules
  Asks,          \* the numbers of clients the precreate hooks may ask for
  MaxAsk,        \* the largest number of clients a module asks for
  Forceclosing,  \* the modules with a forceclose hook
  MaxClients,    \* the downstreams of a buffer that its history leaves free
  Overlap,       \* OVERLAP_SEC, in ticks of the model's clock
  OutputDelay,   \* MAX_OUTPUT_DELAY_SEC while running
  CloseDelay,    \* MAX_CLOSE_DELAY_SEC / 2 while running
  LastOutputDelay, LastCloseDelay \* the same at shutdown

Pgs     == 0 .. MaxPgOverlap - 1
Modules == 0 .. NModules - 1
Slots   == 0 .. MaxClients - 1
Clients == Pgs \X Modules \X (0 .. MaxAsk - 1)

ASSUME CountAssumption ==
  /\ MaxPgOverlap \in Nat \ {0}
  /\ NModules \in Nat \ {0}
  /\ MaxAsk \in Nat
  /\ MaxClients \in Nat
  /\ Asks \subseteq [Modules -> 0 .. MaxAsk]
  /\ Forceclosing \subseteq Modules

ASSUME DelayAssumption ==
  /\ Overlap \in Nat /\ OutputDelay \in Nat /\ CloseDelay \in Nat
  /\ LastOutputDelay \in 0 .. OutputDelay
  /\ LastCloseDelay \in 0 .. CloseDelay

VARIABLES
  phase,            \* "running", "closing" (after the main loop), "closed"
  n_pgos,           \* tos->n_pgos
  curr_pgos,        \* tos->curr_pgos
  refcount,         \* pgos->refcount, the modules not yet finished
  overdue,          \* the time since pgos->closetime, or Never
  close_flag1,      \* the programmes with close_flag1 set
  close_flag2,      \* the programmes with close_flag2 set
  mod_refcount,     \* mod_status->refcount, its clients not yet closed
  n_clients,        \* mod_status->n_clients
  allocated,        \* the modules' client arrays that are not NULL, not freed
  downstream_id,    \* status->downstream_id
  close_waiting, disconnect_tried, soft_closed, closed, \* clients with the flag
  waited,           \* the time since status->closetime
  param,            \* the client each downstream's handlers are called with
  draining,         \* the downstreams with close_flg set
  cut,              \* those with nothing left to hand out, for certain
  at,               \* where ts_output is: its loop, a programme, the buffer
  i, j              \* the counters of its loop

tos   == <<phase, n_pgos, curr_pgos>>
pgos  == <<refcount, overdue, close_flag1, close_flag2>>
mods  == <<mod_refcount, n_clients, allocated>>
flags == <<close_waiting, disconnect_tried, soft_closed, closed, waited>>
ab    == <<param, draining, cut>>
loop  == <<at, i, j>>
vars  == <<tos, pgos, mods, downstream_id, flags, ab, loop>>

NoPg     == -1
NoSlot   == -1
NoClient == <<-1, -1, -1>>
Never    == -(Overlap + 1)     \* pgos->closetime = -1

Pg(c)  == c[1]
Mod(c) == c[2]

(* The client_array of module m of programme p, as far as it is in use.    *)
Array(p, m) == {<<p, m, k>> : k \in 0 .. n_clients[p][m] - 1}

Live == {p \in Pgs : refcount[p] > 0}

NoModules == [m \in Modules |-> 0]

-----------------------------------------------------------------------------
(* init_tos                                                                *)
Init ==
  /\ phase = "running" /\ n_pgos = 0 /\ curr_pgos = NoPg
  /\ refcount = [p \in Pgs |-> 0]
  /\ overdue = [p \in Pgs |-> Never]
  /\ close_flag1 = {} /\ close_flag2 = {}
  /\ mod_refcount = [p \in Pgs |-> NoModules]
  /\ n_clients = [p \in Pgs |-> NoModules]
  /\ allocated = {}
  /\ downstream_id = [c \in Clients |-> NoSlot]
  /\ close_waiting = {} /\ disconnect_tried = {} /\ soft_closed = {} /\ closed = {}
  /\ waited = [c \in Clients |-> 0]
  /\ param = [s \in Slots |-> NoClient]
  /\ draining = {} /\ cut = {}
  /\ at = "idle" /\ i = 0 /\ j = 0

-----------------------------------------------------------------------------
(***************************************************************************)
(* do_pgoutput_create: the clients are connected one by one, in the order  *)
(* of the modules, each to the lowest free downstream, until there is none.*)
(***************************************************************************)
FreeSlots == {s \in Slots : param[s] = NoClient}

Asked(p, ask) == {c \in Clients : Pg(c) = p /\ c[3] < ask[Mod(c)]}

Before(c, d) == \/ Mod(c) < Mod(d)
                \/ Mod(c) = Mod(d) /\ c[3] < d[3]

Rank(c, ask) == Cardinality({b \in Asked(Pg(c), ask) : Before(b, c)})

Connected(p, ask) == {c \in Asked(p, ask) : Rank(c, ask) < Cardinality(FreeSlots)}

(* Mutant of Gets: the first downstream is not marked as taken.            *)
GetsTheFirst(c, ask, s) == s \in FreeSlots /\ \A t \in FreeSlots : s <= t

Gets(c, ask, s) ==
  s \in FreeSlots /\ Cardinality({t \in FreeSlots : t < s}) = Rank(c, ask)

NConnected(p, ask) ==
  [m \in Modules |-> Cardinality({c \in Connected(p, ask) : Mod(c) = m})]

(***************************************************************************)
(* ts_prog_changed, when a slot is left: the programme recorded so far is  *)
(* to be closed OVERLAP_SEC from now, and the new one takes the first free *)
(* slot among the first n_pgos + 1.                                        *)
(***************************************************************************)
FirstFree(p) ==
  /\ p \in 0 .. n_pgos /\ p \in Pgs /\ refcount[p] = 0
  /\ \A q \in 0 .. p - 1 : refcount[q] # 0

ProgChanged(p, ask) ==
  /\ phase = "running" /\ at = "idle"
  /\ n_pgos < MaxPgOverlap
  /\ FirstFree(p)
  /\ n_pgos' = n_pgos + 1
  /\ curr_pgos' = p
  /\ overdue' = [q \in Pgs |-> IF q = p THEN Never
                               ELSE IF q = curr_pgos THEN - Overlap
                               ELSE overdue[q]]
  /\ close_flag1' = close_flag1 \ {p}
  /\ close_flag2' = close_flag2 \ {p}
  /\ refcount' = [refcount EXCEPT ![p] = NModules]
  /\ mod_refcount' = [mod_refcount EXCEPT ![p] = NConnected(p, ask)]
  /\ n_clients' = [n_clients EXCEPT ![p] = NConnected(p, ask)]
  /\ allocated' = allocated \cup {<<p, m>> : m \in {k \in Modules : ask[k] > 0}}
  /\ downstream_id' =
       [c \in Clients |-> IF c \in Connected(p, ask)
                          THEN CHOOSE s \in Slots : Gets(c, ask, s)
                          ELSE downstream_id[c]]
  /\ param' = [s \in Slots |->
       IF \E c \in Connected(p, ask) : Gets(c, ask, s)
       THEN CHOOSE c \in Connected(p, ask) : Gets(c, ask, s)
       ELSE param[s]]
  /\ UNCHANGED <<phase, flags, draining, cut, loop>>

(* prepare_close_tos: everything is to be closed now, and is waited for    *)
(* less long.                                                              *)
PrepareClose ==
  /\ phase = "running" /\ at = "idle"
  /\ phase' = "closing"
  /\ overdue' = [p \in Pgs |-> IF p \in Live THEN 0 ELSE overdue[p]]
  /\ UNCHANGED <<n_pgos, curr_pgos, refcount, close_flag1, close_flag2, mods,
                 downstream_id, flags, ab, loop>>

(* close_tos, after the loop that waits until nothing is left to close.    *)
CloseTos ==
  /\ phase = "closing" /\ at = "idle"
  /\ n_pgos = 0
  /\ phase' = "closed"
  /\ UNCHANGED <<n_pgos, curr_pgos, pgos, mods, downstream_id, flags, ab, loop>>

(* The clock; an age beyond which nothing changes any more is not counted. *)
Older(t, bound) == IF t < bound THEN t + 1 ELSE t

Tick ==
  /\ phase # "closed" /\ at = "idle"
  /\ overdue' = [p \in Pgs |-> IF overdue[p] = Never THEN Never
                               ELSE Older(overdue[p], OutputDelay + 1)]
  /\ waited' = [c \in Clients |->
       IF c \in close_waiting \ closed THEN Older(waited[c], CloseDelay) ELSE waited[c]]
  /\ UNCHANGED <<tos, refcount, close_flag1, close_flag2, mods, downstream_id,
                 close_waiting, disconnect_tried, soft_closed, closed, ab, loop>>

-----------------------------------------------------------------------------
(***************************************************************************)
(* ts_output: a loop over the programmes, then ab_output_buf.  The loop    *)
(* ends when it has seen n_pgos of them, and closing one lowers n_pgos.    *)
(* At shutdown it is called until n_pgos is 0.                             *)
(***************************************************************************)
BeginOutput ==
  /\ at = "idle"
  /\ \/ phase = "running"
     \/ phase = "closing" /\ n_pgos > 0
  /\ at' = "loop" /\ i' = 0 /\ j' = 0
  /\ UNCHANGED <<tos, pgos, mods, downstream_id, flags, ab>>

(* The next programme in use.                                              *)
Found(p) == p \in Live /\ p >= j /\ \A q \in Live : q >= j => p <= q

(* The loop turns to p, and then does what step says.                      *)
At(p, step) ==
  /\ at = "loop" /\ i < n_pgos
  /\ Found(p)
  /\ at' = step
  /\ i' = i + 1
  /\ j' = IF step = "loop" THEN p + 1 ELSE p

Delay(running, last) == IF phase = "running" THEN running ELSE last

(* Whether closetime is set and has passed; mutant: whether it has passed. *)
DueUnset(p) == overdue[p] > 0 \/ overdue[p] = Never

Due(p) == overdue[p] > 0

(* Mutant of Late: only at shutdown is there an end to the waiting.        *)
LateAtShutdown(p) == phase = "closing" /\ overdue[p] > LastOutputDelay

Late(p) == overdue[p] > Delay(OutputDelay, LastOutputDelay)

NotDue(p) ==
  /\ At(p, "loop")
  /\ ~Due(p)
  /\ UNCHANGED <<tos, pgos, mods, downstream_id, flags, ab>>

(***************************************************************************)
(* do_pgoutput_close1: the downstreams are told to finish, and the modules *)
(* without clients are done.  What free(client_array) gives back is reset  *)
(* here to what Init has.                                                  *)
(***************************************************************************)

Silent(p) == {m \in Modules : n_clients[p][m] <= 0}

Close1(p) ==
  /\ At(p, "check")
  /\ Due(p) /\ p \notin close_flag1
  /\ refcount' = [refcount EXCEPT ![p] = @ - Cardinality(Silent(p))]
  /\ IF refcount'[p] <= 0
     THEN /\ n_pgos' = n_pgos - 1
          /\ close_flag1' = close_flag1
          /\ overdue' = [overdue EXCEPT ![p] = Never]
          /\ allocated' = {a \in allocated : a[1] # p}
     ELSE /\ close_flag1' = close_flag1 \cup {p}
          /\ UNCHANGED <<n_pgos, overdue, allocated>>
  /\ draining' = draining \cup
       {downstream_id[c] : c \in {d \in Clients :
          /\ d \in Array(p, Mod(d))
          /\ downstream_id[d] >= 0
          /\ d \notin close_waiting}}
  /\ UNCHANGED <<phase, curr_pgos, close_flag2, mod_refcount, n_clients,
                 downstream_id, flags, param, cut>>

(***************************************************************************)
(* do_pgoutput_close2: the clients that are still connected are cut off.   *)
(***************************************************************************)
(* Mutant of StillConnected: whether the buffer has closed the client      *)
(* before is not looked at.                                                *)
OnceConnected(p) ==
  {c \in Clients :
     /\ c \in Array(p, Mod(c))
     /\ mod_refcount[p][Mod(c)] > 0
     /\ downstream_id[c] >= 0
     /\ c \notin disconnect_tried}

StillConnected(p) ==
  {c \in Clients :
     /\ c \in Array(p, Mod(c))
     /\ mod_refcount[p][Mod(c)] > 0
     /\ downstream_id[c] >= 0
     /\ c \notin close_waiting
     /\ c \notin disconnect_tried}

Close2(p) ==
  /\ At(p, "check")
  /\ Due(p) /\ p \in close_flag1
  /\ Late(p) /\ p \notin close_flag2
  /\ close_flag2' = close_flag2 \cup {p}
  /\ disconnect_tried' = disconnect_tried \cup StillConnected(p)
  /\ draining' = draining \cup {downstream_id[c] : c \in StillConnected(p)}
  /\ cut' = cut \cup {downstream_id[c] : c \in StillConnected(p)}
  /\ UNCHANGED <<tos, refcount, overdue, close_flag1, mods, downstream_id,
                 close_waiting, soft_closed, closed, waited, param>>

NeitherClose(p) ==
  /\ At(p, "check")
  /\ Due(p) /\ p \in close_flag1
  /\ Late(p) => p \in close_flag2
  /\ UNCHANGED <<tos, pgos, mods, downstream_id, flags, ab>>

(***************************************************************************)
(* do_pgoutput_check_close_completed.  quiet are the clients whose         *)
(* forceclose hook answers that nothing of theirs runs any more.           *)
(***************************************************************************)

Waiting(p) ==
  {c \in close_waiting \ closed : Pg(c) = p /\ mod_refcount[p][Mod(c)] > 0}

Expired(c) == waited[c] >= Delay(CloseDelay, LastCloseDelay)

AskedToClose(p) == {c \in Waiting(p) : Mod(c) \in Forceclosing /\ c \notin soft_closed}

(* Mutant of Closing: nothing is closed by force.                          *)
ClosingGently(p, quiet) ==
  {c \in Waiting(p) : Mod(c) \notin Forceclosing \/ c \in quiet}

Closing(p, quiet) ==
  {c \in Waiting(p) : \/ Mod(c) \notin Forceclosing
                      \/ c \in soft_closed /\ Expired(c)
                      \/ c \in quiet}

ModRef(p, quiet) ==
  [m \in Modules |->
     mod_refcount[p][m] - Cardinality({c \in Closing(p, quiet) : Mod(c) = m})]

(* Mutants of Completing: a module completes with its first client, or     *)
(* again at every call.                                                    *)
CompletingWithFirst(p, quiet) ==
  {m \in Modules : ModRef(p, quiet)[m] < mod_refcount[p][m]}

CompletingAgain(p, quiet) == {m \in Modules : ModRef(p, quiet)[m] <= 0}

(* The modules whose last client is closed.                                *)
Completing(p, quiet) ==
  {m \in Modules : mod_refcount[p][m] > 0 /\ ModRef(p, quiet)[m] <= 0}

(* Mutant of Ends: the programme ends one module early.                    *)
EndsEarly(p, quiet) == refcount[p] - Cardinality(Completing(p, quiet)) <= 1

(* The last module has finished: the programme's slot becomes free.        *)
Ends(p, quiet) ==
  /\ Completing(p, quiet) # {}
  /\ refcount[p] - Cardinality(Completing(p, quiet)) <= 0

CheckReturns ==
  /\ at = "check"
  /\ refcount[j] <= 0
  /\ at' = "loop" /\ j' = j + 1
  /\ UNCHANGED <<tos, pgos, mods, downstream_id, flags, ab, i>>

CheckCloseCompleted(quiet) ==
  /\ at = "check"
  /\ refcount[j] > 0
  /\ LET p == j
         soft == {c \in AskedToClose(p) : Expired(c)}
         gone == {c \in Clients : Pg(c) = p /\ Mod(c) \in Completing(p, quiet)}
     IN /\ refcount' = [refcount EXCEPT ![p] = @ - Cardinality(Completing(p, quiet))]
        /\ mod_refcount' = [mod_refcount EXCEPT ![p] = ModRef(p, quiet)]
        /\ closed' = (closed \cup Closing(p, quiet)) \ gone
        /\ soft_closed' = (soft_closed \cup soft) \ gone
        /\ close_waiting' = close_waiting \ gone
        /\ disconnect_tried' = disconnect_tried \ gone
        /\ waited' = [c \in Clients |-> IF c \in soft \cup gone \cup closed' THEN 0
                                        ELSE waited[c]]
        /\ downstream_id' = [c \in Clients |-> IF c \in gone THEN NoSlot
                                               ELSE downstream_id[c]]
        /\ allocated' = allocated \ {<<p, m>> : m \in Completing(p, quiet)}
        /\ IF Ends(p, quiet)
           THEN /\ n_pgos' = n_pgos - 1
                /\ overdue' = [overdue EXCEPT ![p] = Never]
                /\ close_flag1' = close_flag1 \ {p}
                /\ close_flag2' = close_flag2 \ {p}
                /\ n_clients' = [n_clients EXCEPT ![p] = NoModules]
           ELSE UNCHANGED <<n_pgos, overdue, close_flag1, close_flag2, n_clients>>
  /\ at' = "loop" /\ j' = j + 1
  /\ UNCHANGED <<phase, curr_pgos, ab, i>>

(***************************************************************************)
(* ab_output_buf: of the downstreams told to finish, some have handed out  *)
(* their last byte, and are closed (module_buffer_close).  One that was    *)
(* cut off has nothing to hand out and is never busy.                      *)
(***************************************************************************)
OutputBuf(drained) ==
  /\ at = "loop" /\ i >= n_pgos
  /\ cut \subseteq drained
  /\ close_waiting' = close_waiting \cup {param[s] : s \in drained}
  /\ param' = [s \in Slots |-> IF s \in drained THEN NoClient ELSE param[s]]
  /\ draining' = draining \ drained
  /\ cut' = cut \ drained
  /\ at' = "idle" /\ i' = 0 /\ j' = 0
  /\ UNCHANGED <<tos, pgos, mods, downstream_id, disconnect_tried, soft_closed,
                 closed, waited>>

(* The process has ended.                                                  *)
Terminated == phase = "closed" /\ UNCHANGED vars

-----------------------------------------------------------------------------
Output ==
  \/ BeginOutput
  \/ \E p \in Pgs : NotDue(p) \/ Close1(p) \/ Close2(p) \/ NeitherClose(p)
  \/ CheckReturns
  \/ \E quiet \in SUBSET AskedToClose(j) : CheckCloseCompleted(quiet)
  \/ \E drained \in SUBSET draining : OutputBuf(drained)

Next ==
  \/ \E p \in Pgs, ask \in Asks : ProgChanged(p, ask)
  \/ PrepareClose
  \/ CloseTos
  \/ Tick
  \/ Output
  \/ Terminated

Spec == Init /\ [][Next]_vars

(* The main loop calls ts_output again and again, and so does the loop at  *)
(* shutdown, which ends when nothing is left; the clock goes on.           *)
FairSpec ==
  /\ Spec
  /\ WF_vars(Output)
  /\ WF_vars(CloseTos)
  /\ SF_vars(Tick)
-----------------------------------------------------------------------------
(* The state the definitions above describe.                               *)
TypeOK ==
  /\ phase \in {"running", "closing", "closed"}
  /\ n_pgos \in 0 .. MaxPgOverlap
  /\ curr_pgos \in Pgs \cup {NoPg}
  /\ refcount \in [Pgs -> 0 .. NModules]
  /\ overdue \in [Pgs -> Never .. OutputDelay + 1]
  /\ close_flag1 \subseteq Pgs /\ close_flag2 \subseteq Pgs
  /\ mod_refcount \in [Pgs -> [Modules -> 0 .. MaxAsk]]
  /\ n_clients \in [Pgs -> [Modules -> 0 .. MaxAsk]]
  /\ allocated \subseteq Pgs \X Modules
  /\ downstream_id \in [Clients -> Slots \cup {NoSlot}]
  /\ close_waiting \subseteq Clients /\ disconnect_tried \subseteq Clients
  /\ soft_closed \subseteq Clients /\ closed \subseteq Clients
  /\ waited \in [Clients -> 0 .. CloseDelay]
  /\ param \in [Slots -> Clients \cup {NoClient}]
  /\ draining \subseteq Slots /\ cut \subseteq Slots
  /\ at \in {"idle", "loop", "check"}
  /\ i \in 0 .. MaxPgOverlap /\ j \in 0 .. MaxPgOverlap

(* The counts are what they count, at every step of every close: n_pgos    *)
(* the programmes in use, a programme's refcount the modules that have not *)
(* finished with it, a module's refcount its clients not yet closed.  One  *)
(* decrement missed keeps the slot for ever, one too many frees it early.  *)
Unfinished(p) ==
  {m \in Modules : \/ mod_refcount[p][m] > 0
                   \/ n_clients[p][m] = 0 /\ p \notin close_flag1}

CountsAgree ==
  /\ n_pgos = Cardinality(Live)
  /\ \A p \in Live :
       /\ refcount[p] = Cardinality(Unfinished(p))
       /\ \A m \in Modules :
            mod_refcount[p][m] > 0 =>
              mod_refcount[p][m] = Cardinality(Array(p, m) \ closed)

(* module_buffer_close is called with a client that still exists, and the  *)
(* four assertions it begins with hold; when the buffer is closed none is  *)
(* connected to it any more, and all has been freed.                       *)
HandlersHaveClients ==
  /\ \A s \in Slots : param[s] # NoClient =>
       LET c == param[s]
       IN  /\ <<Pg(c), Mod(c)>> \in allocated
           /\ c \in Array(Pg(c), Mod(c))
           /\ mod_refcount[Pg(c)][Mod(c)] > 0
           /\ refcount[Pg(c)] > 0
           /\ c \notin close_waiting
           /\ c \notin closed
  /\ phase = "closed" => allocated = {} /\ \A s \in Slots : param[s] = NoClient

(* A client that has not been closed by the buffer is the one its          *)
(* downstream belongs to, and at most one client uses a downstream.        *)
OwnsDownstream ==
  \A p \in Live : \A m \in Modules : \A c \in Array(p, m) :
    mod_refcount[p][m] > 0 /\ c \notin close_waiting =>
      downstream_id[c] \in Slots /\ param[downstream_id[c]] = c

(* A downstream is told to finish, or cut off, only for a programme whose  *)
(* closetime has passed: the number of a downstream that was closed and    *)
(* given to another client since is not used.                              *)
DisconnectsOnlyTheLate ==
  [][\A s \in (draining' \ draining) \cup (cut' \ cut) :
       param[s] # NoClient /\ overdue[Pg(param[s])] > 0]_vars

(* The searches of the programme slots end inside the array: ts_output has *)
(* found every programme it counts on before the end (its assertion on j), *)
(* and ts_prog_changed finds a free one (its assertion on pgos).           *)
SearchesSucceed ==
  /\ at = "loop" /\ i < n_pgos => \E p \in Pgs : Found(p)
  /\ n_pgos < MaxPgOverlap => \E p \in Pgs : FirstFree(p)

(* While the recorder runs, the latest programme and only that one has no  *)
(* time to be closed at, and nothing of it is closed.                      *)
OneIsRecorded ==
  phase = "running" =>
    /\ curr_pgos # NoPg => curr_pgos \in Live
    /\ \A p \in Live : overdue[p] = Never <=> p = curr_pgos
    /\ \A c \in close_waiting : Pg(c) # curr_pgos
    /\ \A s \in draining : Pg(param[s]) # curr_pgos

(* Every slot is found, and is the right one's.                            *)
SlotsAgree == SearchesSucceed /\ OneIsRecorded

(* The loop over pgos->client_array in do_pgoutput_check_close_completed   *)
(* is over when that array is freed.                                       *)
FinishesLast(p, m) ==
  mod_refcount[p][m] > 0 /\ \A k \in Modules : mod_refcount[p][k] > 0 => k <= m

NothingReadAfterExpire ==
  [][\A p \in Pgs : at = "check" /\ refcount[p] > 0 /\ refcount'[p] = 0 =>
       FinishesLast(p, NModules - 1)]_vars

(* At shutdown every output is closed in the end and the recorder goes on, *)
(* whatever the modules answer, and however long their outputs stall.      *)
ShutdownEnds == phase = "closing" ~> phase = "closed"

(* While running, a programme that has been followed by another is closed  *)
(* in the end, so that its slot is free for one to come.                   *)
ProgrammesEnd ==
  \A p \in Pgs : (p \in Live /\ overdue[p] # Never) ~> p \notin Live
=============================================================================
