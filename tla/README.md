# A verification of tsdump

tsdump records a Japanese digital television stream (MPEG-TS): a *generator*
module delivers packets, an optional *decoder* module descrambles them, and for
every programme that is broadcast *output* modules open files, pipes or
commands that get the stream from a little before the programme's start to a
little after its end. This directory holds TLA+ specifications of the parts of
tsdump where that is hard to get right, the TLC runs that check them on small
instances, and proofs of what holds for every instance.

## 1. Inventory

| component | state | operations | what is hard |
|---|---|---|---|
| ring buffer `utils/advanced_buffer.c` | the data in a ring mapped twice, up to 64 downstreams each with a position, a close point, the rest of a packet begun | connect, input, clear, output pass, disconnect (gentle, immediate), close | partial writes, packet alignment, skips, closing at a point fixed earlier, slots reused |
| history `utils/advanced_buffer.c` | records of bytes per 250 ms, their sum over 15 s; two downstreams of its own | output handler of one, pre_output of the other, connection at a distance | two downstreams that must agree within and between output passes; overruns |
| programme outputs `core/ts_output.c` | up to four programmes in overlap, per programme and module the clients, three levels of reference counts, close flags and times | programme change, close 1, close 2, completion, the buffer's handlers, shutdown | reuse of slots, time-outs, hooks that never answer, order of freeing |
| programme detection `core/ts_output.c` | what was last known of the service, retries of missing information, PCR and TOT, the hour of the last change | a check every 250 ms (`ts_check_pi`, or `ts_check_si` where the stream is not split) | tables that come in parts or not at all, versions, three time sources that differ, changes that are skipped |
| service selection `core/ts_output.c` | the list of services with the PIDs of their PMTs, an output for each that was asked for | PAT, PMT, choice of the outputs, packet filter, PAT rewriting | services that share streams, move or go while recording; what was received is parsed as a whole before it is copied; PIDs that are compared before they are set |
| main loop `core/tsdump.c` | the list of services, statistics, the signal flag | wait, read, decode, count, parse, copy, check, output; shutdown | the end against what is still to be read |
| module registry `core/load_modules.c` | modules loaded, hooks registered, command options | load, unload, hook registration, dispatch | dependencies, failures half way |
| default decoder `core/default_decoder.c` | an incomplete packet, continuity counters | align, count | bytes missing anywhere, payload that looks like a sync byte, packets cut by a read |
| PSI/SI parser `utils/arib_parser.c` | a section in assembly and the beginning of the next, parsed tables | per packet | sections over several packets, several in one, counters that jump or hide a loss |
| command output `modules/mod_cmdexec.c` | the commands of the options, per programme their pipes and child processes, a table of 128 processes started at the programmes' ends | options, create, write, close, forced close, postclose, tick, shutdown | processes that end at any time or never, some of a chain not started, a table at its limit and shifted while it is walked, two time-outs |
| file output `modules/mod_fileout.c` | a descriptor per file (Windows: one overlapped write) | open, write, check, close | a file that could not be opened, short writes |
| file input `modules/mod_filein.c` | a read buffer, a time stamp with what it is reckoned from, end of file | open, wait, read, close | the end against a block that waits for its time; PCRs that wrap, jump or go back |
| other modules, strings, build | | | see PROJECT.json: device drivers, external libraries, formatting |

How they interact: the main loop (one thread) calls the generator, the decoder,
then for every service the PSI parser, the packet filter and `ab_input_buf`;
every 250 ms `ts_check_pi`, which may call `ts_prog_changed`; and `ts_output`,
which closes what is due and ends in `ab_output_buf`. That calls the handlers
of `ts_output.c` (`module_buffer_*`), and those the hooks of the modules. After
each round it calls the modules' tick hooks, and at the shutdown their preclose
and close hooks. There are no threads anywhere: what interleaves with the loop
are the answers of the hooks and of the operating system, the child processes
of `mod_cmdexec`, the clock, and the order in which things end.

What makes the modelled parts correct:

* ring buffer: every byte stays at its address until it is cleared; every
  downstream gets every byte from its start to its close point, in order, once,
  except what it was told it missed; it misses something only when it alone is
  a buffer behind; packets stay whole; what was disconnected is closed.
* history: what it counts is in the buffer; it covers the overlap, however the
  clock goes.
* programme detection: what the last check went by is what the modules of the
  recorded programme know; nothing is cut in two by tables that are late for
  less than 15 seconds; a new event and new information are taken up; without
  information there is one split in an hour, and one when an hour is over.
* PSI parser: no length leaves its buffer; what is handed on was sent, in whole,
  once and in order; it is handed on in time.
* input: a packet that is whole in the file reaches the buffer whole, once and in
  order, whatever the reads cut; what is missing is counted; the end comes after
  the last packet; the pace is the stream's own.
* service selection: each service asked for has an output and a PAT of its own;
  once the PMTs that tell the program have come, it gets all that is its own and
  nothing that is known to be only others', whatever memory held before.
* command output: every child process is held until it was waited for, and is
  not signalled after that; none is killed that was not asked to end first;
  when a programme is over, so are all its pipe commands, those of a chain
  without a client of their own too; the shutdown ends.
* programme outputs: the counts agree with what is open; no handler is called
  with a freed client; no downstream is disconnected for a client it does not
  belong to; exactly the latest programme is recorded; everything ends.

## 2. Modules

| module | models |
|---|---|
| `AdvancedBuffer` | `advanced_buffer.c` without the history. One action per function; `ab_output_buf` is an action per visit of a downstream (`BeginOutput`, `VisitHeldBack`, `VisitBusy`, `VisitWrite`, `EndOutput` for `check_close`), because the local variable `remain_unaligned` is carried from one visit to the next |
| `StreamTap` | abstract: readers on a growing stream |
| `BufferTap` | the refinement mapping from `AdvancedBuffer` to `StreamTap` |
| `AdvancedBuffer_proofs` | its inductive invariant and theorems, and that it implements `StreamTap` |
| `AbHistory` | `ab_set_history` and its handlers, on top of `AdvancedBuffer` (its actions are conjoined, not copied) |
| `AbHistory_proofs` | its inductive invariant and theorems; extends `AdvancedBuffer_proofs` |
| `PgOutput` | the life of a programme's outputs in `ts_output.c` |
| `PgOutput_proofs` | its inductive invariant and theorems |
| `ProgInfo` | what `arib_parser.c` keeps of one service: the flags of `proginfo_t`, the event, PCR and TOT; and the air they come from |
| `ProgCheck` | `ts_check_pi`, `ts_check_si` and what they call in `ts_output.c`; extends `ProgInfo` |
| `ProgCheck_proofs` | its inductive invariant and theorems |
| `CmdOptions` | the options of `mod_cmdexec`, and the chains its precreate hook makes of them |
| `CmdExec` | `mod_cmdexec.c` in the POSIX build: pipe commands, child processes, the table of the commands at the programmes' ends; extends `CmdOptions` |
| `CmdExec_proofs` | its inductive invariant and theorems |
| `PsiSection` | `parse_PSI`, and what `parse_PMT` and the other tables' parsers do with it, with the broadcaster's packets as the environment |
| `PsiSection_proofs` | its inductive invariants and theorems |
| `FilePace` | the time stamps of `mod_filein.c`: operators on the record of its fields, without variables |
| `InputPath` | the reads of `mod_filein.c` (POSIX), the alignment filter and the packet counter of `default_decoder.c`, and the receive loop of `tsdump.c` around them; extends `FilePace` |
| `InputPath_proofs` | its inductive invariant and theorems |
| `ServiceSelect` | `pat_handler` and the parsing and copying loops of `tsdump.c`, and of `ts_output.c` the choice of the outputs, the packet filter and the rewriting of the PAT |
| `ServiceSelect_proofs` | its inductive invariant and theorems |
| `MC...` | instances for TLC |

**AdvancedBuffer.** Bytes are counted: byte *n* is the *n*-th ever given to
`ab_input_buf`. `input_total`, `buf_used`, `n_downstreams` and the fields of
`ab_downstream_t` have the code's names; the flags are sets of slots; `buf_off`
is `buf - buf_orig`; `scan` and `carry` are where `ab_output_buf` is and its
`remain_unaligned`. `start`, `stop`, `delivered` and `dropped` are history
variables: the first byte of a downstream, its close point, what its output
handler accepted and what `notify_skip` was called with. A handler answers what
its type allows: `pre_output` says busy or not, `output` takes any part of what
it is offered (modules with `pgoutput_use_retval`, the Linux build) or all of
it and may be busy afterwards (the Windows build). The fields of a closed slot
are reset in the model; the code does not read them again.

**AbHistory.** The history's two downstreams are slots 0 and 1; their handlers
replace the free answers of the environment by the code's. A tick of the clock
is `history->resolution`; `now` is what the clock shows, and may be set back,
`passed` how many ticks have passed. `given` and `revived` are history variables.
`BytesInWindow` is the sum that the code keeps incrementally, over the records in
the window (`SumOf`, a fold by a recursive function).

**PgOutput.** A client is a triple (programme slot, module, index). Of the
buffer it keeps what the disconnection and the close need: which client a
downstream calls its handlers with (`param`), whether it is draining and
whether it was cut off; any draining downstream may be drained by an output
pass, and one that was cut off is (the buffer's `Drained`). The flags of
`output_status_t` are sets of clients, `allocated` tells which client arrays
have been allocated and not freed. The clock is kept as ages: `overdue` is how
long ago a programme's `closetime` was, `waited` a client's.

**ProgInfo, ProgCheck.** The air is the environment: `on_air` is the present
event, `stream` what is carried at all, `sys` and `air` are the hours that the
system's and the stream's clock show, `breaks` counts how often the PCR began
anew. A whole table is one action (`ParsePat`, `ParseSdt`, `ParseEit`, `ParseTot`,
`ParsePcr`); an EIT comes with its short event descriptor or without, so that an
event's information can be half there when a check comes. `proginfo.status` is
the set of flags with the code's names; an event's times and texts are one
version. Of `last_proginfo` the event and the version are kept, no event standing
for one that is not ready. `Wait` and `Decide` are the two ways through
`ts_check_pi`; `curr_pgos` is what the latest programme's modules know: the event
they were created for and the version they were last told. `Ended` stands for
the closing of an earlier programme, which is `PgOutput`'s subject. `quiet`,
`split_at`, `skipped` and `astray` are history variables. A PCR that began anew
while the last TOT still has the old one dates a change with the difference of two
unrelated counts (`parse_PCR` does not clear `VALID_TOT_PCR`): the hour is then
any hour (`CurrHours`).

**CmdOptions, CmdExec.** `options` is the state the option handlers build up
(`pipecmds`, `open_connect`, `n_execcmds`); a behaviour begins with the parsing
of a command line. A chain is a pipe command and those joined to it by
`--pipeconn`; its first command (the top) has the client. `programmes` holds,
for each programme, its `pipestat_t` of every command with the code's fields,
what the creation or the postclose hook is at, and which of the module's clients
are still open; `system` is the operating system: the processes alive, ended and
not waited for yet, and the open descriptors; `exec_ps` is the table of the
processes started at the programmes' ends, `where` the position of the walk over
it. The calls the core makes (create, output, close, forced close, postclose,
tick, preclose, close of the module) come in the orders `PgOutput` allows.
`exec_child` is one action that may fail; a process may end on its own
whenever the program is between two hooks, on request or not.

**PsiSection.** A byte is a section and a position in it, so that a CRC fits just
when all bytes are the section's own. `ps` is the `PSI_parse_t` with the code's
fields; `Left`, `Started`, `NextKept`, `Extended` and `Checked` are the parts of
`parse_PSI` in their order, `Used` what `parse_PMT` adds. The broadcaster
(`current`, `counter`) cuts its sections into packets as ISO 13818-1 allows, two
beginnings in one packet included; a packet may be lost, carry no payload or
have a beginning so late that its length field is not in it. `pending` and
`genuine` record what was sent and whether what was handed on had been. A packet
sent twice (which the standard allows) is not modelled.

**FilePace, InputPath.** A byte is a packet, a position and whether it has the
value of a sync byte. `buf` is the read buffer, `kept` the alignment filter's
remainder, `pcr_kept` that of the second filter, by which the module finds the
PCRs. `Turn` is one turn of the receive loop: the wait hook, the read, the end of
the file, what is handed out, the decoder, the counter and the copy into the
buffer. A file is paced by its PCRs, by a rate or not at all; `pace.ahead` is
`timestamp - now`, and any of `TimeSteps` may pass before the wait and in it. The
PCR of a packet is part of the input (`clock`), as are the packets before the PMT
that have none. `since` is the time since the first PCR was due or the file was
opened, `held` how long a block has waited, `same_clock` whether the time stamp
is still reckoned from the PCR that it was before the turn; `since` stops where
the PCRs have gone through all of their values once (`PcrRound`, 26 hours), as
they tell no more. `excused` says which packets may be lost or damaged: those behind
a hole in the file, before the filter could find the packets again, and those it
is given together with a hole that comes soon, when one of the bytes it looks at
first has the value of a sync byte and is none (section 6). `IsInput` is what a
file is: bytes in the order they were sent, with a sync byte at the head of every
packet that has its head.

**ServiceSelect.** `list` is `service_list`, `tos` the outputs, `air` what is
broadcast. A turn receives up to two packets, parses all (`ParsedAll`) and then
copies all (`CopiedAll`), as the main loop does. `Found` and `IsTheirs` are the
two answers of `ts_is_mypid`; `Simplified` is the new PAT. Tables come in one
packet each (`PsiSection` has the rest). The broadcaster has the NIT first in its
PAT, at least one service and none twice (`ServiceSelectAssumption`). The PIDs of a
service are read from the turn on in which the PAT came, and are not initialised
until its first PMT (section 6): up to then they are what the memory held
(`Leftovers`, any sets of PIDs, streams' or PMTs'; the PID of a PMT stands under its
service's name). As memory is not looked at before the PAT puts the service in the
list, its contents are chosen there (`Turn`). `last_pmt` is a history variable, empty
until the first PMT: it says what the program was told (`IsTold`, `Knows`), and that
is what `EachGetsItsOwn` goes by. Before that it promises little: a service's own
PMT is recorded from the turn of the PAT on. The loops of
the code that go over packets, entries or services are functions on 0, 1, ... up to
the number of turns: `Listed`, `Chosen`, `ParsedAll`, `CopiedAll`.

## 3. Runs

| run | instance | shows |
|---|---|---|
| `buffer` | one downstream that reports what it took, packets of 3 bytes, a ring of 8, a stream of 12, room for 4 bytes made at any time, with fairness | type invariant; nothing is read, written or skipped outside the data (`StaysInBuffer`); the account balances up to the close point (`AccountBalances`); packets stay whole (`PacketsWhole`); that the buffer implements `StreamTap`; that a disconnected downstream is closed |
| `two` | two downstreams that take everything and are busy afterwards (the Windows build's kind of module), packets of 2, a ring of 5, a stream of 6 | the slot count; that only the overflow is dropped, and only by the one who lags |
| `history` | packets of 2, a ring of 7, three records, a window of two ticks, 3 ticks, a clock that is set back once, one recording | what the history counts is in the buffer, the window is covered, recordings begin on packets |
| `pgoutput` | two programmes, a file and up to two pipes, with fairness | the searches, the counts, the one recorded, ownership of downstreams, the handlers' assertions, nothing left at the end; programmes and the shutdown end |
| `progcheck` | two events with two versions, or three hours with one break of the PCR; two programmes at a time, with fairness | what the check went by is what the modules know; nothing is cut in two too early; one split in an hour, and one for each; recording begins; the broadcast is followed |
| `cmdexec` | five command lines out of all those of two pipe commands and an end command, one programme at a time, three process numbers, two descriptors, a table of two, with fairness | children are held until waited for, none killed that was not asked, nothing alive after a programme's postclose; the shutdown ends |
| `psi` | a section that fits a packet and one of three packets, sent in any order, three faults, a counter of two values, the PMT's parser and another's | no length leaves its buffer; what is handed on was sent, once and in order (`Genuine`); it is handed on with its last packet or the one after it (`OnTime`) |
| `input` | files of five packets of 3 bytes with a hole of 2 or 4 bytes anywhere and no byte that looks like a sync byte, one, or one in every packet, read in pieces of any size; two of them at a rate and with four kinds of PCRs | packets survive reads, holes and lookalikes (`Intact`); drops are counted; the file is recorded to its end; the pace is kept (`KeepsPace`) |
| `services` | three services, room for two, a shared stream, three PATs, five requests, two contents of the memory, a PAT or a PMT that changes at any time | the outputs are those asked for (`EachServed`); each gets its own, once the PMTs that tell it have come, and nothing that is then known to be others' (`EachGetsItsOwn`); what is written is in the order received, with the PATs rewritten and counted (`PatsAreRewritten`) |
| `cut`, `expire`, `midnight` | small | three disagreements of the code with its own assertions and comments (section 6) |

*Bounds.* A packet of 3 bytes is the smallest with two different partial
writes, a packet of 2 the smallest with one. The ring holds two packets and a
bit (the code's holds 96 MiB and needs room for an input and two packets begun,
which is `InputAssumption`), the stream is longer than the ring, so that the
start of the data wraps, a downstream can lag, skip, be closed and have its
slot taken by another. Two downstreams suffice where they interact (the count,
the clearing, the local variable): the code treats each alike and relates at
most two at a time. Two programme slots suffice for a programme
that closes before or after the current one in the array, and for a change
that finds the array full; two clients of a module distinguish its first close
from its last; the delays are 0 or 1, the least that tells before, at and after
a deadline. `MaxTotal` and `MaxTick` bound the stream and the history's clock
and are named in the guards; ages stop growing where nothing depends on them.
In `progcheck` two events and two versions give every order of news and checks;
the stream carries either tables or a clock, because the clocks matter only where
there are no tables. 15 seconds are three checks (`ReadyRetries` 2), PCR and TOT
are lost after two, so that every retry count is below, at and past its
limit. The clocks go through three hours of one day; `MaxBreaks` is 1. They
differ by minutes in reality: the model lets each be ahead by one hour, and lets
the second hour begin only after a check has found them agreeing (`settled`).
In `cmdexec` a table of two is full with the programme's command of the second
end, and an entry is before and after another; three numbers let one be used
again while two are held; the five command lines that are followed to their end
are those with a chain, without one, without a pipe and with commands at the
end; the others are parsed only. `LimitSec` is 1 and the other delays 0, so that
an age is before, at and after it.

In `history` the three records are one more than the window has whole ticks, so
that a record can be out of the window and still there when the clock is set back;
one set-back is enough, as each only adds a record (`CoversOverlap` allows for as
many as there were). In `psi` the counter has two values, so that a loss of two
packets is not seen, as one of sixteen is not in reality; the long section spans
three packets with every placement of its beginning. In `input` a packet of 3
bytes has a sync byte, one that may look like it and one that does not, `MaxSyncs`
is 3 (the code's 4), and a block is three packets, so that reads, blocks and
packets are cut against each other in every way. A hole of 2 bytes moves the
alignment, one of 4 also loses a packet; with 2 bytes and three sync bytes to look
for, the row of a lookalike before and after a hole can be longer than that of the
sync bytes, as it can be with the code's four. The counter's four values are fewer
than the packets. The PCRs wrap at 64, go 3 ticks a packet,
so that a half unit of time is carried on, and jump or go back by more than
`ValidTicks` and `ResetTime`; the steps of time are none, one shorter and one
longer than `ResetTime`. In `services` two packets at once are the least in which
one is parsed before the other is copied. Before the first PMT the memory claims the
stream and the PMT of the other service for the first place in the list, and nothing
for the second, or the PMT of a third for the first and the stream for the second: so
it claims for a service what is its own, another's or nobody's. The PATs have the
services asked for first, last, beyond the room of the list, or not at all.

*Fairness.* The main loop calls `ab_output_buf` (through `ts_output`) in every
round, so an output pass always goes on (weak fairness of `Output`). `buffer`
assumes in addition that a handler that is offered bytes again and again takes
some again and again, and is not busy for ever (strong fairness): without it
the code closes only what is cut off, which is `pgoutput`'s subject. `pgoutput`
assumes
that the loops call `ts_output`, that the clock goes on (strong fairness: it
can tick only between two calls), and nothing of the modules: a forceclose hook
may never answer, a downstream that is only disconnected may never drain.

`progcheck` assumes that the main loop goes on checking and that an earlier
programme ends (`pgoutput` shows it), that PAT and SDT come, and that an EIT with
its short event descriptor comes again and again (strong fairness, as it can be
received only after the PAT): all are sent every few seconds. Nothing is assumed
of the order in which they come, nor of the clocks.

`cmdexec` assumes that the clock goes on and the tick hook is called again and
again, that a walk, a creation or a postclose that has begun goes on, and that
the loop that closes the module is entered; nothing of the processes: one may
ignore the request to end for ever, and dies only of the kill.

`history`, `psi`, `input` and `services` state no fairness: they check safety
only. What `OnTime` and `FileIsRecorded` say is bound to a packet and to the end.

Deadlock is checked in every run. `Terminated` steps stand for a buffer that
was deleted and for the end of the process.

Every property of a passing run has a mutant: an operator next to the one it
replaces, with a plausible slip in it, for which TLC finds the property
violated.

## 4. Proofs

Every theorem holds for all values of the constants that the named assumptions
of its module allow; TLC has checked each inductive invariant on the instance of
the component's run before it was proved.

**The ring buffer.** `AdvancedBuffer_proofs` proves, for every number of
downstreams, size of the ring, alignment, set of options and stream: `TypeOK`,
`RingAddress`, `CountedInUse`, `ReadsInBuffer`, `WritesInBuffer`, `Accounting`,
`StopsAtClosePoint`, `Framing`, `WritesPackets` are invariants, and so are their
conjunctions `StaysInBuffer`, `AccountBalances` and `PacketsWhole`, which the runs
check; `ClosesComplete` (proved only) and `DropsOnlyTheOverflow` hold of every
step.

None of these is inductive. That the next write of a downstream stays inside
the data depends on the packet it has begun being there in whole (`Inside`);
that this survives a skip depends on less than a packet being left
(`Settings`) and on the buffer keeping two packets' room after an input
(`InputAssumption`); that it survives the approach of the close point depends on
that point being a packet boundary of the downstream (`Closing`); and that the
account balances after the downstream was cut off depends on a negative
remainder being covered by what was skipped (`Books`). `IInv` is their
conjunction with the type invariant, the ring (`Ring`) and the slot count. The
proof of its invariance has a lemma per action, and rests on a few lemmas about
division: what `alignment_floor` and `alignment_ceil` return (`FloorFacts`,
`CeilFacts`), that multiples are closed under addition (`ModAdd`) and have gaps
(`ModGap`); `ClearSizeFacts` says what is cleared, `SkipFacts` what is skipped,
`WriteSizeFacts` what is offered, `TakenFacts` what is left of a packet.

The assumptions: sizes are positive (`SizeAssumption`); inputs are whole packets
and leave room for two packets begun (`InputAssumption`: the main loop feeds whole
packets, of at most a few hundred kilobytes, into 96 MiB); no build mixes modules
that report what they took with ones that do not (`RetvalAssumption`: it is where
the local variable `remain_unaligned` would be carried to the wrong downstream).

**The buffer as a stream.** `AdvancedBuffer_proofs` also proves, under the same
assumptions, that `AdvancedBuffer` implements `StreamTap`
(`BufferImplementsTap`): the initial state is one of `StreamTap`, and each action
is a step of it or a stutter, with a lemma for each (`ConnectTap`, `ClearBufTap`,
`InputBufTap`, `VisitWriteTap`, `EndOutputTap`, `DisconnectTap`,
`DisconnectNowTap`, `CloseBufTap`). The mapping is a step simulation only where
`IInv` and the bound of the stream hold (`TInv`): where a reader is, is told by
the position of its downstream, its remainder and its close point together
(`NextByteFacts`), and that these agree is `Closing` and `Books`. The skip of one
downstream is `SkippedTap`, of all that are too far behind `OvertakesTap`. The
proof needed a step that `StreamTap` did not have: a build without the magic ring
makes room in advance (`ab_clear_buf` with `require`, `ts_output.c:134`), and that can
make several downstreams skip while nothing comes in (`MakeRoom`). The run
`buffer` now takes this step.

**History.** `AbHistory_proofs` proves, for any window, number of records, stream,
downstreams and settings of the clock, `HistoryKept`, `CoversOverlap` and
`BeginsOnPacket`, and that what is proved of the buffer's positions and counts holds of a
buffer with a history (`HistoryLeavesBuffer`): the actions of `AbHistory` are those
of `AdvancedBuffer` with more conjuncts, so `IInv` is kept, but for the keeper,
which its own handler lets on. `HInv` adds to `IInv` the type of the records
(`HTypeOK`) and five facts. The counter and the keeper are connected to the end, and
from the counter's visit to the end of an output pass it has been given all there is, so
that the keeper lets go of nothing that was not counted (`Pair`). What is counted is the
sum of the records that were in the window when the newest was opened (`Summed`). That
much lies between the keeper and the end of the data (`HistoryKept`). What came in during
the last *n* ticks is in the newest *n* records, or in one more for each time the clock
was set back (`Recent`), from which `CoversOverlap` follows. And a recording that is connected in
the past begins where the keeper is, which is a packet's beginning (`BeginsOnPacket`).
The sums are dealt with by lemmas on `SumOf`: that it is what its recursion says
(`SumIs`, by `Climbing`), and what it is when a record is put before the others
(`SumShift`), when one grows (`SumRaised`) and when some are left out (`SumCompare`). It assumes
`HistoryAssumption` and those of the buffer.

**Programme outputs.** `PgOutput_proofs` proves, for any number of programmes,
modules, outputs and downstreams, any delays and any answers of the hooks,
`TypeOK`, `CountsAgree`, `OwnsDownstream`, `SlotsAgree`, and of every step that
`DisconnectsOnlyTheLate`. The invariant `PInv` has
five parts besides the type. A client is *owned* from its connection until its
module has finished with the programme; a downstream belongs to an owned client
whose buffer is not closed, and to it alone (`Connections`); a flag is set only for
an owned client of a programme in the first close (`Flags`); each count is the
number of what it counts (`Counts`); a pass of `ts_output` has as many programmes
still before it as it goes on to look for (`Pass`), which is what keeps its search
inside the array although programmes are removed while it goes on; the programme
recorded is the only one without a close time (`Recorded`). Each holds the
others up: a downstream is closed with the right client only because the flags
tell whose it is, and the counts go to zero with the last client only because
the flags are set once. The lemmas are about finite sets: what is left when a
part is taken away (`PartSizes`), the least and the greatest of a set of numbers
(`Least`, `Greatest`), the place of a client among those connected (`Rank`).

`HandlersHaveClients` has a premise, `Enough`: whatever the programmes ask for, the
first client of each module that wants one still finds a downstream. It is not
decoration: where a module got none, its client array is kept and the assertion
of `do_pgoutput_close1` fails (section 6). With the
64 downstreams and four programmes of the code, it holds of a file and up to
fifteen pipe commands; `mod_cmdexec` allows 32. In the run it holds with three
clients a programme.
`HInv` adds to `PInv` that each programme has at most that many (`Few`) and that
every array has a client in it (`AllGet`).

**Programme detection.** `ProgCheck_proofs` proves `TypeOK`, `RecordsWhatItKnows`,
`SplitsOnlyOnNews` and `HourlyOnce`, for any number of events, versions, hours, slots and
retries and any stream. `RecordsWhatItKnows` is inductive only together with two
facts: an event that was received has a number other than the one that stands
for none (`Numbered`), and knowing of no event is knowing nothing (`Unknown`): a
check that finds no information, as the one before, tells the modules nothing,
and both must then mean the same. `KInv` is their conjunction with `TypeOK`. The
proof has a lemma per action (`AirKeeps`, `ParseKeeps`, `WaitKeeps`, `DecideKeeps`,
`CheckSiKeeps`), and under `DecideKeeps` one for a change (`ChangedKeeps`) and one
for news of the same event (`SameKeeps`).

That a recording is cut in two only on news (`SplitsOnlyOnNews`) needs what the
retries have to do with time (`WInv`): the count of retries never runs ahead of
the checks without news (`Patient`); `READY_UPDATED` is set only while all the
information is there (`Fresh`); events only follow one another, on the air, in
what was received and in what is recorded, so that one that was left never comes
back (`Ordered`); and a programme that is still recorded although the last check
knew of no event is one whose end was skipped, which takes as many checks
(`LeftWaiting`).

That without information there is one split in an hour (`HourlyOnce`) has a premise,
`OneDay`: the hours are those of one day. Over midnight it is false, as the run
`midnight` shows (section 6). Within a day the code's decimal numbers of date and hour
are as far apart as the hours (`HoursOfADay`). The present is the later of the two
clocks; each clock, and each time that was received, shows it or the hour before, and
the present one once the clocks were found to agree (`Clocks`, `Near`). As long as nothing
is known of any event, the last change is dated by the hour before the present, the present or
the next, and not before the hour of the last split (`Dated`); no split is of a later hour
than the present (`SplitKnown`). An hour that passed then is the present one (`PassedIs`), and
as long as the present one has not, the last change is dated by it or a later one
(`NotPassedIs`).
`Dated` excepts what a PCR dates that began anew (`astray`), as `HourlyOnce` does.

It assumes `ProgInfoAssumption` and `ProgCheckAssumption` (the
bounds are natural numbers, there is a slot).

**Command output.** `CmdExec_proofs` proves, for any number of commands,
programmes, process numbers and descriptors, any command lines and limits,
`TypeOK`, `ChildrenAreHeld`, `PipesOverAtPostclose`, and of every step
`KillsOnlyTheAsked`. `CInv` holds six facts together. Each process number is
held by one command or one entry of `exec_ps`, and never by two (`HeldOnce`), and
those held are just those not waited for (`HeldAll`): a number is used again as
soon as it was waited for, so that one held twice would be killed for another's
sake. A command has a number just while it is used (`ChildWhenUsed`) and only
while the top of its chain is a client (`RunsInChain`), which is why nothing of a
chain is left when its top has closed; a descriptor is open only for a client that
gets the stream (`PipeOfOpen`); what is about to be killed was asked to end
(`AskedBeforeKill`), and this survives the shifting of `exec_ps` while it is
walked. `InPlace` says that a programme is at the stage the hook it is in belongs
to.

**PSI parser.** `PsiSection_proofs` proves `StaysInSection`, `Genuine` and `OnTime`
for any sections, lengths, sizes of packets and buffers, tables, and any number of
faults. `StaysInSection` is inductive only with what the broadcaster is at (`Sent`): the
section in transmission has bytes left, so that a pointer field points into its
packet. `Sane` says of any `PSI_parse_t` what `StaysInSection` says of the parser's;
`NextKeptSane` keeps it although the second half of `StaysInSection` (nothing is
kept while a section goes on) does not hold between `NextKept` and `Extended`. A
lemma per part of `parse_PSI` leads to `ParseSane`, a lemma per kind of packet to
its lengths (`Packet`), and `ReceiveKeeps` brings them together.

`Genuine` needs to know where the bytes in the parser come from (`Traced`): the first is
the beginning of a section that is being sent, of which no more is held than was
sent, or that was sent in whole and not handed on yet; or filler of a packet
without payload is among them. A CRC that fits tells that all bytes are those of one section,
and so what is handed on was sent and had not been handed on; that it comes in
the order sent follows as everything sent before it is forgotten with it
(`Only`, a subsequence, by induction with `Climbing`). `GInv` is `SInv`, the invariant of
`StaysInSection`, with `Traced`, `Genuine` and the types.

`OnTime` is about what was sent and must be handed on. `OInv` adds that no two sections
that are waited for have a number in common (`Numbers`), that while no fault happened
the parser's counter is one behind the broadcaster's and what it holds is exactly as
much as was sent, of the section in transmission or of the last one that is due
(`Whole`), and that at most one section that must be handed on is not held, and this of a PMT only
(`FewLate`). `HeldGrows` says that while all is well the assembly gets the next packet,
`HandedSettles` that handing on settles all that was due, `FreshIs` and `KeptBehind` what
is held of a section that begins in a packet, and `Closes` brings them together. It assumes `PsiAssumption` (a section
has a header and fits the buffer).

**Service selection.** `ServiceSelect_proofs` proves `EachServed`,
`EachGetsItsOwn` and `PatsAreRewritten` for any services and streams, any PATs, any
request and any number of packets a turn. What the four loops compute is shown by
induction on the number of their turns: `Climbing` says that a set with 0 in it, and
with m + 1 if with m, has all numbers up to a bound (it follows from the least
element of a set of naturals, `FirstOne`). With it `Listing`, `Choosing`, `Parsing`
and `Copies` show that the function a loop is written as exists, and `ListedFacts`,
`ChosenFacts`, `ParsedAllKeeps` and `CopyFacts` what it returns: that the places of
what was chosen and of what was copied are in order (`Embeddings`), and that the
counter moves on by one for each PAT (`Counted`, which rests on `NextCount`).

`SInv` is what holds from turn to turn: the list has no service twice; once a service
had a PMT its PIDs are those its last PMT named, and none that it never had
(`Sound`, which says nothing of a service that had none: its PIDs are any);
nothing that waits to be parsed will say otherwise (`Backed`); the outputs
are those asked for (`Fits`), which depends only on the services of the list and
their order, and these a PMT leaves alone (`FitsStill`). That a packet is found for
another service and not for this one then says something about the air:
`OwnPassStep` and `OthersAreWithheldStep` go from `ts_is_mypid` to what the
services send. Each says what has to be known. A service's own PMT, and the streams
of its present PMT, pass whatever is thought of the others, as they are found to be
the service's (`Mine`). A stream that no other service has or had passes
when all others in the list had a PMT (`OthersAreTold`). What is others' is withheld
only when the service's own PIDs are told, too, as memory may claim anything for it.
Where these premises fail the code may do otherwise (section 6).
It assumes `ServiceSelectAssumption`, which lets the memory hold any PIDs.

**Input.** `InputPath_proofs` proves `Intact`, `DropsAreCounted`,
`FileIsRecorded` and `KeepsPace`, for any files, any lengths of packets, blocks and reads, any
number of sync bytes the filter looks for, any PCRs and any times. Everything that
is read, kept or delivered is a part of the file from one byte to another
(`Slice`); `Handed` is how much was handed out of the read buffer, `Gone` how much
the filter is done with. What the filter does is said by a few lemmas. It begins
at the first of the longest rows of sync bytes (`SkipIs`). In step and without a
hole it skips nothing, and nothing with a hole that does not mislead it
(`InStepSkip`, `UpToSkip`); out of step it begins at the first head of a packet, if
what it is given suffices for that (`FindsSkip`). So without a hole it stays on the
packets or gets onto them (`KeepsStep`), and every whole packet in what it passes
is one of those it hands on, unless `ExcusedBy` says that it may not be
(`FilterFinds`). The counter goes on by one from a packet to the next
(`NextCounter`), and a drop is counted when it does not (`CountedIs`,
`CountedAllTracks`); the loop over the packets is shown by induction on their
number (`Counting`, by `Climbing`).

`IInv` says where everything is (`Placed`), that what was delivered are parts of
the file before `Gone`, in order (`Delivery`), and that a whole packet before
`Gone` was delivered (`Survival`). The last is not inductive without `insync`
meaning that `Gone` is where a packet begins: this is what a hole that the filter did
not see would break. Of an undamaged file it says more (`Steady`): the filter
never searches and keeps nothing, which is why no drop is counted
(`Drops`) and why nothing of the file is left over at its end (`Ending`). `Drops` also
says that the counter is that of the last packet delivered as long as nothing was
counted. `Pacing` and `Given` are the types of the pace and of the file.

`KeepsPace` holds of every step from `IInv` and four more facts (`PaceInv`). A block that
waits is due within `ResetTime` of when it began to (`Waiting`). At a rate, what was
handed on was due, or the time stamp is as far ahead (`AtRate`); this is where the
premise `RateFits` is needed, that a block takes less than `ResetTime` at the rate
(with the code's values, more than 9.6 kB/s; slower ones are not kept, section 6). By
PCRs, the ticks from the first to the last, over any number of wraps, are
what the time stamp has gone on and the remainder (`Reckoned`, `AtPcr`): no part of a
unit is lost from one PCR to the next (`AdvancedIs`), whatever they are
(`AfterPcrFollows`, `StampedFollows`, by `Climbing` over the packets). And the time stamp
is never kept further back than `LongAgo`. What the two looks at it
and the time between them do to it in a turn is one relation (`Falls`), which is
transitive: it falls by no more than the time, and by just the time if it is still
ahead or still reckoned from the same PCR. The difference of two PCRs modulo
`PCR_BASE_MAX` tells the time only while less than a round has passed
(`StreamedIs`), and so the property says no more. It assumes
`InputPathAssumption` (a file's bytes are in the order sent, every head has its sync
byte; a block is whole packets) and `FilePaceAssumption`.

**Only model-checked.** Liveness, which is out of the prover's reach:
`ClosingCloses`, `ProgrammesEnd`, the two `ShutdownEnds`, and what `progcheck` says
must happen in the end (`HourlySplits`, `FollowsBroadcast`). Every safety
property and action property that a passing run checks is a theorem.

## 5. Plan

Done: `AdvancedBuffer` with `StreamTap`, `AbHistory`, `ProgCheck`, `PsiSection`,
`PgOutput`, `CmdExec`, `ServiceSelect` and `InputPath`, with proofs of all of their
safety properties.

1. `ModuleRegistry`: loading, dependencies and unloading of modules, and the
   dispatch of the hooks, which the other modules take for granted.
2. The main loop's remaining states: a stream that cannot be opened yet
   (`--wait-stream`), the statistics.
3. Proofs: `HourlyOnce` over midnight, once hours are compared as such; liveness by
   measures that fall, as far as steps go.

Abstract specifications worth stating: the buffer as a stream (done), the input
path as a stream of packets (stated as `Intact`), `PgOutput` as a set of programmes that are open,
closing, closed.

## 6. Where the code disagrees with itself

* **Cut in a packet** (`cut`). An immediate disconnection sets the close point
  to where the downstream is, which may be inside a packet; the next pass fails
  the assertion on the write size. `WriteEndsAtPacket` proves that no other
  downstream can.
* **Freed while walked** (`expire`). Unless the last module of a programme is
  the last of all modules, the loop that completes them goes on in freed memory.
* **An hour before midnight** (`midnight`). Hours are compared as decimal numbers
  of date and hour, so that a clock behind by an hour at midnight is 77 behind:
  without programme information the recording is split twice more, although a
  comment says that an hour back is no reason to.

Seen while modelling, without a run.

*Programme outputs and commands.* The drop counters of a module are read when all
modules of a programme have finished, and freed when that one has
(`ts_output.c:197`, `292`, `296`). The close hook of an output whose command was
not started reads fields that only a start sets (`mod_cmdexec.c:1334`; the change
log, line 48, records a related correction: a pipe handle was closed twice). `--nopipe` looks at whether the next
command will have an input instead of whether its own has (`mod_cmdexec.c:1503`).
When all 64 downstreams are taken `do_pgoutput_close1`'s assertion that a module
without clients has no array fails. At the shutdown the latest programme's final
information is `*tos->proginfo`, which may be the next event's already, where a
programme change takes `last_proginfo`.

*History.* When it was overrun in the middle of a packet a recording may begin
inside a packet. So it may when the clock is set back after a pause in the stream:
a record that was out of the window, and whose bytes are gone, is counted again
(`BeginsOnPacket` says under which condition it does not happen). Each set-back
costs the window one record.

*PSI parser.* Of two sections that begin in one packet the second is lost, as is one
that begins in the last three bytes, with the one after it. A section that ends
with its packet is handed on one packet late. `parse_PMT` starts anew after each
section and so loses one that began behind it. A TDT has no CRC and never passes
`parse_PSI`'s check of it. `parse_PMT`'s loop over the streams goes one past
`MAX_PIDS_PER_SERVICE`.

*Input.* The alignment filter chooses anew at each call, also when it is in step: it
takes the longest row of sync bytes, of at most four. When a hole follows within
three packets, and moves the alignment, a byte of the payload that looks like a sync
byte can have the longer row, half before and half behind the hole, and the whole
packets before the hole are lost with those behind it (`Misleads`). With a pace and
`--eof` the last block is lost: the end is noticed while it
waits. A last read that is not a whole packet is never handed on, so that a file
whose packets are not aligned to its beginning loses its last one. A FIFO whose
writer has not come yet counts as ended, for good. A rate so low that a block takes
more than five seconds is not kept at all, and one that cannot be kept for five
seconds is caught up with at full speed, as `set_timpstamp_bytes` reckons from the
beginning. After its own wait, the wait hook waits for readable data for the rest
of the time to the time stamp, not of its timeout (`mod_filein.c:421`).

*Service selection.* The PIDs of a service are read before they are set. `service_list`
is a local variable of `main_loop` (`tsdump.c:512`), and `init_service_list`
(`tsdump.c:396`), `init_proginfo` (`arib_parser.c:654`) and `store_PAT`
(`arib_parser.c:1279`) leave `n_service_pids` and `service_pids` as they are; only
`parse_PMT` sets them (`arib_parser.c:1256`), but `ts_is_mypid` (`ts_output.c:41`) compares
them from the turn on in which the PAT came. Up to a service's first PMT a recording may
therefore lose what is nobody else's, although the comment at `ts_output.c:165` says that
only what belongs to other services is skipped, and may have what is another's.
Without the premise `OthersAreTold` in `OwnPass`, TLC shows the loss in four states: the
PAT and a packet of a stream of no service are received together, and the memory of the
second service's entry names its PID. Where the memory is zero, because nothing used
that part of the stack before, there is no harm; a large `n_service_pids` would make the
loop read beyond its array, which is more than the model's sets of PIDs show.

A service asked for twice gets two outputs. If none of the
services asked for is in the first PAT there is no output, for good. A PAT without a
NIT, or with one entry, is not rewritten; one without the service keeps another's
entry. A shared stream may be withheld from a service until its own PMT came. `PCR_pid`
is not initialised either: before the first PMT of a service
`find_curr_service_pcr_pid` (`tsdump.c:431`) may take any packet for its PCR, or
find the wrong service of two. `ProgInfo` does not have this: its service gets its
own PCRs or none, with gaps and with a count that begins anew (`breaks`). Services
beyond `MAX_SERVICES_PER_CH` pass into all outputs. Of services that share a PCR
only the first is told of it. Duplicates in a PAT would overrun the outputs' array:
the loop that counts them stops at the first, the one that fills does not.

## 7. Not modelled

Input devices, descrambling libraries, messages, file names, character sets,
the Windows console: PROJECT.json names each with the reason. In the modelled
parts: the contents of packets; allocation failures; the buffer without a magic
ring (`memmove` instead of an offset); and
`ab_disconnect_downstream` with `immediate` before a gentle disconnection,
which no caller does; of `mod_cmdexec` the commands' arguments, redirection to
files, return codes, and the overlapped writes of the Windows build; of the programme
detection the end time that is filled in for an event of unknown duration, the
extended texts and `ts_check_extended_text`, and the PMT (PAT and PMT count as one);
of the PSI parser packets sent twice and the decoding of the fields; of the file
input the overlapped reads of the Windows build and errors of `read`; of the packet
counter all PIDs but one, and its reset when the services are known; of the
service selection tables of more than one packet.
