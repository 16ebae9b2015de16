# Verification of the broker and its windows

TLA+ models of the AIBender broker (`core/`), the stores it keeps
(`packages/schema`) and the cockpit windows that talk to it (`app/`). The models
are checked with TLC on small instances; every safety property a passing run checks
is also proved with TLAPS, for every instance. `PROJECT.json` lists every run, the
mutant that each checked property catches, the source lines each definition
stands for, and the hazards the properties were written against.

Contents: 1 inventory, 2 modules and how they correspond to the code, 3 runs,
4 fairness, 5 proofs, 6 where code and documentation disagree, 7 observations
without a run, 8 what is not modelled, 9 plan.

## 1. Inventory

The system is one broker process per machine (Node, single event loop) and any
number of cockpit windows (Tauri web views). The broker starts Claude Code
sessions for several accounts, either through the SDK (a child process whose
messages are pumped) or as a terminal (a PTY child), and mirrors everything that
happens to the windows over one WebSocket per window. Concurrency in the broker is
interleaving at `await`s, timers and callbacks; between processes it is real.

| Part | State | Operations | Talks to | What is hard |
|---|---|---|---|---|
| Session kernel `kernel/sessionKernel.ts` | `live` map, `shuttingDown` | launch, resume (in place, fork, repair fork), abort, pump, shutdown | ledger, runners, read models | awaits between guard and effect; broker death; shutdown against spawn |
| Resume ledger `schema/kernel.ts` | one SQLite row per session | insertBeforeSpawn, transition, backfill | kernel, PTY host | shared by two writers; the only thing that survives a crash |
| PTY host `kernel/pty/ptyHost.ts` | records with child, generation, ring, consumer, `recycling`, `settled` | launch, login, recycle, fork-recycle, attach, ack, replay, kill, shutdown | ledger, gateway port, recorder | child replaced under a stream that stays; kill, exit, timer and shutdown inside the await of a recycle |
| Host ring `kernel/pty/flowControl.ts` | three byte counters, `paused` | push, deliver, ack, replay | PTY host | two water marks, cap |
| Gateway PTY stream `gateway/ptyStream.ts` | head, floor, chunks, cursor per consumer | push, attach, ack, replayFrom, detach | gateway port, sockets | several consumers gate one producer |
| Gateway journal and server `gateway/journal.ts`, `server.ts` | seq and retained envelopes per channel, connections | broadcast, replay, accept, drop, control verbs | every producer, windows | live flow against replay; eviction |
| Window client `app/lib/ws/wsClient.ts` | boot identity, watermark per channel | discover, connect, open, receive, drop | gateway, stores | reconnect across broker boots |
| Approval broker `kernel/approvals.ts` | pending entries with timers | request, decide, expire, supersede, close | sessions, hooks, gates, windows | many racing resolvers, one answer |
| Approval inbox `app/lib/stores/approvalsStore.ts` | rows, `deciding` | applyServer, markDeciding | gateway | fire-and-forget decisions |
| Pipelines `pipelines/engine.ts`, `runner.ts`, `schema/pipelines.ts` | run row, attempt journal; per walk: remaining, dispositions, outputs, flags | launch, resume, pause, cancel; walk, memoize, retry, gate | executor, approvals, store | crash anywhere, resume from the journal, parallel iterations |
| Planner, DAG validation, templates | none (pure) | plan, validate, resolve | runner | cycles, conditions |
| Supervision `supervision/` | registered sessions, activity, hibernated set, band and window per session, pressure, red ticks | tick (sample, recycle, measure, shed, hibernate), register, deregister, activity, admission | PTY host, local model | a tick spans awaits and the timer may overlap it; hysteresis and sustained windows |
| Workstreams `workstreams/`, `schema/lineage.ts` | nodes, edges, briefs; `produced` keys, handlers under way | record launch, fork, resume, recycle, merge; reconcile; SessionEnd, PreCompact, SessionStart; merge; assign | kernel, hook server, ledger, transcripts | four writers without a lock; briefs written after an await; retried posts; restarts |
| Collector `collector/`, `main/collectors.ts` | file cursors, directory mtimes, pending halves | walk, poll, offer, flush, OTLP post, stop | files, OTLP, event store | torn lines, late halves, rewrites, throwing inserts, restarts |
| OpenCode feed `adapters/opencode/sse.ts`, `collector/opencode/` | seen ids, watermarks, healed numbers | parse, consume, repair, scrape | OpenCode server, event store | what is sent while the stream is down is not sent again |
| Read models `readmodels/` | last published snapshots | compute, publish | event store, gateway | coalescing |
| Other adapters `adapters/` | serve child, resident models | start, stop, load, evict | OpenCode, LM Studio | start, exit and deadline race |
| Composition `main/` | bootstrap file, component graph | boot, close | all | close order |
| Cockpit stores, islands, features | projections of channels | apply, render | window client | bounded buffers, stale worker answers |

Interactions that matter for correctness:

* the kernel and the PTY host write **one ledger**. A row is inserted before a child
  exists, so that no child can be untracked; on restart the rows are all there is;
* host ring and gateway stream are **two flow controls in series** on one child: the
  gateway port (`kernel/pty/gatewayPort.ts`) passes bytes up and pause/resume down;
* every component publishes through the **journal**, which numbers payloads per
  channel. A window deduplicates by number and asks for what it missed;
* approvals have **five kinds of waiters** (SDK tool call, two hook postures, strict
  and lenient pipeline gate), one broker, and as many deciders as there are windows;
* a pipeline run is driven by a walk in memory and **rebuilt from the journal**
  after a crash, a pause or a failure.

What makes each part correct, and the property that says so, is in section 3.

## 2. Modules

| Module | Models | Size of state |
|---|---|---|
| `PtyStream` | `PtySessionStream` and the producer's end of its lever | one stream, a set of consumers |
| `AckRing` | `BoundedAckRing` as `ptyHost.ts` drives it, recycle included | one ring, one child |
| `LedgerFsm` | abstract specification: what the ledger promises | rows |
| `SessionKernel` | kernel and PTY host on one ledger, crash and restart | sessions, children |
| `GatewayReplay` | journal, fan-out, window client for one channel | one broker, a set of windows |
| `Approvals` | broker, waiters, channel, inbox | ids, sessions, windows |
| `PipelineRun`, `MCPipelineRun` | engine, runner and journal of one run; the document | one run, a set of steps |
| `PtyHost` | lifecycle of the terminal sessions of `ptyHost.ts`; implements `LedgerFsm` | sessions, child generations, recycle calls |
| `Supervision`, `MCSupervision` | governor, watchdog, pressure monitor, shed and idle plans | sessions, overlapping ticks |
| `Collector` | walk, tailer, joiner, OTLP receiver, events insert | one transcript, requests, overlapping ticks |
| `OpencodeFeed` | SSE transport, gap repair, scrape | one OpenCode session |
| `Workstreams` | lineage store, recorder, reconciler, hook automation, merge | sessions, three tables |
| `PtyStreamProofs` | theorems of the two flow controls, `PtyStream` and `AckRing` | |
| `ServicesProofs` | theorems of `Supervision` and `Workstreams` | |
| other `…Proofs` | theorems of the module they extend | |

Two modules carry a prefix (`RingInit`, `RingSpec`; `LineageInit`, `LineageSpec`), so that one proof
module can extend them beside another component; they share no state with it.

**PtyStream.** A byte is its absolute offset and a chunk an interval. `Push`, `Attach`,
`Ack`, `ReplayFrom`, `Detach` and `MarkExited` are the public methods, each with
everything it calls: `#recomputeFloor` (floor, collection of released chunks,
resume at the low mark) and `#deliver` (fill the window). The refusals (watermark out of
bounds, ack beyond delivery, stale ack) are guards, since they change nothing.
`producerPaused` is the other end of the lever: what the child was last told.

**AckRing.** The chunks of the ring are exactly the bytes between `bytesAcked` and
`bytesIn`, so the counters are the state. The gateway's consumer is one flag; `Pump`
hands over all there is. `RecycleKill` and `Respawn` are the two halves of a recycle
around its await: acks in between find no child to resume. `FacadePause` and `FacadeResume`
are the lever as the gateway's stream pulls it (gatewayPort.ts:89-90): on the same child, by
its own marks, without asking the ring. `Overflow` is the push that throws in the data
listener, where nobody catches it: the broker is gone (`crashed`). Two history variables:
`chances` counts how often a child was set running since the ring paused, `held` says that the
gateway was the last to pause.

**LedgerFsm and SessionKernel.** `LedgerFsm` is the table `LEGAL_TRANSITIONS`, birth of
a row, and the write-once native id; nothing about who moves a row. In
`SessionKernel` a child and the call that starts it are one entry of `proc` whose
phases are the awaits: `inserted` (after the row insert, hook awaited), `starting`
(`runner.start` awaited), `up`. `Spawn` is the re-check of `shuttingDown`;
`StartOk` sets `live` and the pid; `PumpInit` backfills the native id; `PumpEnd`
removes from `live` and settles the row. The three branches of `resume` are three
actions with the guards of their branch. `Restart(survivors)` is a crash of the
broker at any point: memory is lost, SDK children die with their stdin, a PTY child may
survive. `ConcurrentCalls` says whether a second resume of one session may begin while
one is awaited, `ResumeRecycled` whether clients resume a recycled PTY row; the code
checks neither.

**GatewayReplay.** One replayable channel. `Broadcast` appends, evicts and fans out to
every accepted socket; a window is *accepted* from the moment the server registered
it, *open* once its own open handler ran and asked for a replay; the gap between is
where live payloads overtake. `Discover` reads the bootstrap file and forgets the
watermarks of another boot. `excuse` is a history variable: why a window may
lawfully lack a payload (refused, overtaken, unmarked).

**Approvals.** `Resolve` is the single place where an entry is settled, shared by
decision, expiry, abort, session end and close. `Mapped` is what each kind of waiter
makes of each outcome. A waiter goes on in a step of its own (`Resume`), as the promise
does. A window's click, its wire and the channel back to it are separate steps, and
what is on the wire dies with the connection. The channel is a sequence of positions (`sent`;
`requestedAt` and `resolvedAt` of an approval): a window has a watermark, and a connection
delivers in order from `from` on. It has the holes of every replayable channel, which
`GatewayReplay` shows in detail: a live payload between accept and replay overtakes the older
ones (`Overtaken`), a window that was open and has no watermark never asks again (`Asks`), and
below the retention floor the replay is refused (`Answerable`). The history variable `holed` says
that a window met one of them.

**PipelineRun.** The walk runs on the event loop: `Quiet` says that all its
synchronous work is done, and only then may a verb arrive. `NextGeneration` claims
the ready steps, `RunExecutable` starts the workers of a step (`Lanes`), each iteration
goes through memo lookup, attempt row, executor, retry sleep. `journal` is per step and
iteration the sequence of attempt rows, `InputHash` the outputs the templates find,
and a cache hit is journaled as the code does it: a new `memoized` row *without*
output. `Crash` may fall anywhere. Loops (`until`) are left out.

**PtyHost.** A child is a generation number of its session; what the operating system knows of it
(`up`, hung up, killed, gone) is apart from what `record.proc` says, and `OneChild` relates the
two. `Launch` ends at the await after the row insert, `Spawned` and `NotSpawned` go on from there
with the second test of the shutdown flag. `Recycle` ends at `await generation`; its four
continuations are the resume, the throwing spawn, the throwing ledger transition and the fork.
Everything else may fall into that await: exits, `Kill`, the timer of `escalateAfterGrace`, a
launch, `Shutdown`, and a second recycle of the same session, which the code does not test for
either. `GoesOn` is the end of the await: the call goes on when the child *it* waited for is gone,
whatever the record holds by then. The history variable `overtaken` names the sessions with which a
call went on although another one had already replaced that child. The three modules about the host divide it:
`AckRing` has its bytes, `SessionKernel` its rows beside those of the kernel across broker
crashes, `PtyHost` its calls.

**Supervision.** The thread is explicit: `thread` names the tick that runs, and a tick gives it up
only where the code awaits a port (`Await`), so that register, deregister, activity, the clock and
another tick fall exactly into the awaits. `tick[t].live` is the snapshot the code takes on its
first line and keeps; `hibernated` is read again by each plan. Readings of the probes are choices;
`InSlotOrder` is the sorted sequence of a set of slots; the four pressure signals are reduced to
the worst digital and the worst analog one, which is what each of the code's disjunctions tests.
The history variables `hot`, `recent`, `excused` and `stale` record what the properties compare with;
`stale` are the sessions marked hibernated by a call that activity or a deregistration had overtaken
(`late`), so that the mark says nothing about their child.

**Collector.** A transcript line is two parts, so a poll can see half of one. `Scan` is the
end of the awaited walk with the poll that follows at once: the walk yields the file if it is
a full one or sees another mtime, otherwise only if it is already known. `TakeLine` is one
iteration of the loop over the lines, `FinishTick` the flush. `Buffer`, `Join` and `Renew` are
the three outcomes of `offerJsonl` and `offerOtel`; `Insert` is `ON CONFLICT DO NOTHING`.
`LineThrows`, `FlushThrows` and `OfferThrows` are the paths of a throwing insert: the entry is
deleted before the insert, and the lines behind it are gone for this run of the broker. `Stop`
drains, `Crash` does not.

**OpencodeFeed.** The server sends each event twice, plain and as a sync wrapper with its
durable number; a disconnect loses what is on the wire. `ParseSync` and `ParsePlain` are the
transport, `Consume`, `RepairGaps`, `ReplayNext`, `ReplayEnd` the collector, `Scrape` the
read of the database.

**Workstreams.** The tables are sequences (insertion order is `created_at_ms` order; ties
within a millisecond are broken by id in the code and by place here). A session has one name
in the model; `node.session` and `node.native` say whether a node was recorded for its ledger
row or carries its native id. `Post` is a hook handler up to its await and `Distilled` the rest,
from the row read before: a `Job` keeps the node, its state and its workstream, and the snapshot of
a compaction joins *that* workstream, also when the operator has moved the session since.
`Ensured` is `ensureNode`, which heals a missing endpoint from its ledger row in two writes (row,
then native id) and resolves the workstream its hint names. `RecordMerge` is the recorder's merge:
one edge insert after the other, so that any part of them may be left when one fails. `ForkFails`
and `RecordFails` are the failing writes of the others. `InitMessage` fills the ledger row and not
the node: no caller of the
recorder's `backfillNativeSessionId` exists. `Room`, `Reserved` and `FirstRecorded` (the
recorder writes the edges of one merge) are bounds only.

## 3. Runs

Ten runs pass, two show a disagreement (section 6). All bounds are constants and are
guards of the actions they bound.

**pty_stream** (`PtyStream.cfg`). Two consumers, 6 bytes, chunks of 1 and 2, cap 5,
marks 4 and 1, window 2, three attaches. Small enough to enumerate and large enough
for: a pause and a resume, a chunk that straddles the floor, a window smaller than
the backlog, a consumer that returns. Shows that a producer that honours the lever never meets the cap
(`PushAccepted`; the cap is tight: mark + chunk = cap + 1), that the slowest consumer gates
release (`FloorNeverOutrunsAcks`), and that every byte is acked in the end (`EveryByteAcked`:
no pause without end, no stalled window). `IInv` is the proved invariant; it contains that no byte
above the floor is lost (`RetainedCovers`), the water marks, the gated floor and the filled windows.
`PushAccepted` is about one child: a recycle puts another in its place (section 7).

**ack_ring** (`AckRing.cfg`). Cap 8, marks 3 and 1, events of up to 2 bytes, 16 bytes, up to four
times during one pause that a child is set running, by a respawn or by the gateway. The cap is met in this
instance: two such chances fit between mark and cap and the third does not, so that
`RingAccepts` is checked on both sides: an overflow needs more chances in one pause than the room above the
high mark holds events. `RingInv`: the counters stay in order, at most one event per chance is above
the mark, and a lever that disagrees with the ring has a reason (a chance, or the gateway's hold).
`PauseEnds`: the ring's pause ends while the attached consumer acks, through kills, respawns and the
gateway's pulls.

**kernel** (`SessionKernel.cfg`). Two sessions, four children, two broker crashes, one
recycle, one call per session at a time. Two sessions are needed for a fork and its
parent; four children for resume after crash after resume. `LedgerLegal` is the
refinement of `LedgerFsm`; `NoDoubleDrive`: no native session has two living
children, across crashes; `ChildTracked`: a child that runs or is being started has
an active row, and `live`, where abort and shutdown look, is exactly the set of running SDK
children (a child still being started is not in it; section 7); `ShutdownResolves`;
`KernelInv` is the proved invariant.

**pty_host** (`PtyHost.cfg`). Two sessions, three generations each, two recycle calls, of two
sessions or overlapping on one: enough for a recycle, its fork, a launch or kill inside the await,
and a call that spawns over the child of another. `HostInv`: a row that claims to be alive has a child or a
recycle that will replace it, a settled session has an exited row, every continuation has its edge,
all without exception; and a session has one child, which is `record.proc`, and none when it is
settled, except a session whose recycle went on behind another one's child (`overtaken`; what
happens then is in section 7). `ShutdownSettles`: "shutdown force-kills live children and settles
every row", for good, from any point of a launch, kill, recycle or fork. `LedgerSpec`: the host
implements `LedgerFsm`.

**gateway_replay** (`GatewayReplay.cfg`). Two windows, three payloads, retention two, one
drop, one broker restart. Eviction, refusal, overtaking and a stale watermark all
happen within these bounds. `ReplayInv` contains that nothing reaches a store twice and that no
request carries the watermark of a dead boot;
`SettledIsCurrent`: a quiet open window has everything or one of the three excuses;
`CaughtUp`: every window gets there.

**approvals** (`Approvals.cfg`). One approval of any source, two windows, of which one connects late
and may lose its connection once, a retention of two payloads and one payload about another
approval: within these bounds a window meets each of the three holes. Ids are independent in broker
and store, so a second one adds interleavings without new cases; the proofs cover any number.
`ProceedsByHuman`, `OutcomeFinal`, `EveryWaitEnds`; `InboxConverges`: every window that met no hole
ends up without the rows of settled approvals and without their "sent" marks. One that did may keep
them (section 6).

**pipeline** (`PipelineRun.cfg`). `first`, then a forEach of three items with two lanes
and `onError: continue` beside a lenient gate, then a conditional join with one retry;
launched and resumed once. `JournalOrder`: whatever the crashes, no step has a row
before its needs are journaled; `CompletedOnce`: same inputs are never executed
after they completed; `RunReports`: the row tells what happened; `CancelStops`; `WalkEnds`;
`PipelineInv` ties the walk's memory to the journal. A second resume is a third walk; for it
`CompletedOnce` rests on the theorem. The run
checks for deadlock; a run that is settled for good stutters explicitly.

**supervision** (`Supervision.cfg`, constants in `MCSupervision`). An account session of a
debounced class with both lines, on an axis where each zone of the watchdog is one value, a
non-account session, two overlapping ticks, a gate of two red evaluations. `SupervisionInv`: the
recycle band belongs to the child it was measured on, across hysteresis, recycles and
re-registration. `AccountsOnlyAtSustainedRed`: an account session is planned for hibernation only
if the last `RedGate` evaluations were all red, whichever of the overlapping ticks made them.
`RedPassIsComplete`: a pass that measured red puts to sleep every non-account session it saw, idle
or active as the code does it (section 6), by a call that nothing overtook; except those whose port
failed, that went or woke meanwhile, or that bore a stale mark when the pass was planned. The
recycle line concerns the sampled session only (`Sampled`).

**collector** (`Collector.cfg`). Two requests, one of them also exported over OTLP, a map of
one entry (so that eviction happens), a transcript of up to four parts, two faults. `CollectorInv`:
what the joiner took is in its map or in the table, and the map keeps its bound. `TokenTruth`:
"JSONL wins for token truth" - a stored row is final, and a request is stored from its OTel half
alone only if its transcript line was not taken in this run of the broker. `EveryLineCounted`:
a line that stays in the file is counted in the end, over torn reads, unnoticed directory
changes, rewrites, crashes and stops. The run has one tick; with two overlapping ones it passes
as well (1.4 million states, close to four minutes) and the theorems cover any number.

**workstreams** (`Workstreams.cfg`). Two kernel sessions, one started outside, one workstream,
three nodes, two briefs, one fault (a failing write or a restart), one merge by the recorder.
`WorkstreamsInv`: one brief per hook event and session in a broker run although posts are retried
around an await; a merge node of the engine has all its edges and its brief whatever failed, a merge
of the recorder perhaps not all of its edges but on each of them a brief that exists; one node per
session and origin; what a session's hooks wrote is about the node its native id resolves to.
`PostsBriefed`: a consumed key gets its brief unless the handler failed.

Deadlock checking is on for pipeline and collector and off elsewhere: those systems really may
stop, when the bounds are used up or the broker has closed.

The violation runs are `kernel_double_resume` and `opencode_gap`; each checks one sentence of
the repository.

## 4. Fairness

| Run | Assumed | Why the code gives it |
|---|---|---|
| pty_stream, ack_ring | an attached consumer with delivered, unacked bytes acks some of them | the terminal island acks from its write callback |
| kernel | a started call goes on; `runner.start` settles; the pump of an *aborted* child ends; `shutdown` goes on | promises of the event loop; the abort controller ends the SDK's iterator. A child that is not aborted may run forever |
| gateway_replay | discovery, connect, accept, open, replay and delivery go on | retry timers and sockets. Nothing forces a broadcast, and drops and restarts are bounded |
| approvals | the expiry timer fires, promises resume, sockets reconnect and deliver | no caller sets the TTL to null, so every request arms a timer; `wsClient` reconnects for ever. Nobody has to click |
| pipeline | internal steps, executors, retry sleeps and gates end | a step's `wallClockSec` aborts its executor (runner.ts:481-489); it is optional, and for a step without one the end of the executor is assumed. A gate has a deadline. No fairness on any verb |
| pty_host | a child that was sent SIGKILL dies, escalation timers fire, a launch and a recycle go on after their await | operating system, `setTimeout`, promises. A child that was only hung up may ignore it |
| collector | time passes, ticks start, walks end, lines are taken, the flush runs | `armInterval`, promises of the file system, the thread. No fairness on the writer, the exporter, or any fault |
| workstreams | a distillation under way ends | the drafter has a time limit. No fairness on hooks, the kernel, the operator or the reconciler, which the composed broker does not start |

`supervision` has no liveness property: a tick waits for ports without a deadline. Only weak
fairness is used.

## 5. Proofs

Eight modules hold theorems. The assumptions are those named in the modules (`ASSUME`), which
TLC evaluates in the runs, and the hypotheses named below. Each inductive invariant was checked
with TLC on the instance of its run before it was proved.

**PtyStreamProofs.** `StreamInvariant`: `Spec => []IInv` for every set of consumers and every
cap, marks, window and chunk with low < high <= cap and high + chunk <= cap + 1.
`RetainedCovers` alone is not inductive: that releasing a chunk is safe needs the
floor to be below every ack (`FloorGated`), that delivery fills a window needs
`RetainedCovers`, and that a pause comes before the cap needs both marks and agreement on
the lever. One lemma per action, over two about the helpers: `DeliverEndFull`
(delivery over covered offsets reaches its limit) and `RecomputeFloorSafe` (the new
floor keeps coverage and the marks). Corollaries: `NeverOverflows`, `NeverDropsUnacked`, and
the action property `FloorFollowsAcks`.

Of the host's ring: `RingInvariant`, `RingSpec => []RingInv`, from the constructor's check alone. That the
cap is respected is not inductive by itself: each time a child is set running under a paused ring,
by a recycle or by the gateway, it may emit once, so `Overshoot` charges one event to every chance
so far, the current one only once it was used. `RingNeverOverflows`: the ring overflows only if
the chances of one pause exceed the room above the mark. Nothing in the code bounds them, so no
stronger bound is claimed.

**SessionKernelProofs.** `KernelInvariant`: row before spawn. Every child, every call that
starts one and every repair parent has a row. It is what makes each `transition` a
move of an existing row, and so gives `KernelImplementsLedger`: `Spec => Ledger!Spec`, step by
step, with no assumption on concurrency: the calls that break `NoDoubleDrive` still move rows
legally, which is why the ledger does not notice them.
`DoubleResumeBlocked` and `ChildrenTracked` are `NoDoubleDrive` and `ChildTracked`, for any number of
sessions, children, recycles and crashes, under two hypotheses: `~ConcurrentCalls` and
`~ResumeRecycled`. Both name what the code leaves to its callers, and neither can be dropped:
`kernel_double_resume` refutes the conclusion without the first, section 7 has the second. The
invariant is `DriveInv`: at most one child of a session runs *or is being started*
(`OneEngaged`; a running child alone is not enough, the call in flight becomes one), only a PTY child
outlives a broker and the row has its pid, which is what the probe of resume asks about
(`HostKnown`), and the parent a repair fork will settle has no SDK child (`ParentIdle`), since
settling it would untrack that child.

**PtyHostProofs.** `HostImplementsLedger`: `Spec => LedgerSpec` with overlapping recycles allowed;
the invariant `RowInv` is that a session between its row and its child has nothing else yet, and
that calls and children belong to sessions with a record. `HostKeepsChildren`: `HostInv` for any
number of sessions, generations and recycle calls, without a hypothesis on their overlap. `HostIInv`
strengthens `HostInv` by the order of the generations (`GenShape`: those before the recorded child
are gone, unless the session was overtaken), by what row, settlement and launch say of each other
(`RowShape`), and by `FlagHeld`: while `recycling` is up some call is under way, which is what makes
a live row without a child one that will be driven again. `GoesOnHost` and `GoesOnFrom` are what the
four continuations share.

**GatewayReplayProofs.** `ReplayInvariant`: wires, requests and watermarks of a window that
knows this boot stay below the running journal, and rows exist only at or below the
watermark. `NeverDuplicates` follows since only a seq above the watermark is handed
on.
`SettledWindowsCurrent` is `SettledIsCurrent`. What holds of a quiet window follows from what holds
of every window without an excuse (`CurrentInv`): its rows are the payloads up to its watermark, the
wire continues them without a gap, once the replay was served the wire has all that is missing, and
a request does not skip a payload. Retention enters nowhere: eviction is a refusal and so an
excuse.

**ApprovalsProofs.** `ApprovalsInvariant`: what is on the wire was clicked, a human outcome was
clicked, a proceed is what the settled outcome maps to. Gives `HumanInTheLoop`
(nothing proceeds that no human allowed, but a lenient gate that expired) and the action
property `FirstOutcomeWins`, for any number of ids, windows and sessions.

**PipelineRunProofs.** `CompletedWorkIsKept`: `Spec => []CompletedOnce` for every acyclic
document. The journal alone does not carry the argument: between the memo lookup and the
end of an attempt (executor, retry sleep) other steps of the walk go on. The invariant
`MemoInv` adds that work is in flight only for claimed, unsettled steps whose needs are settled
(`ClaimInv`), so that nothing the inputs depend on can change meanwhile; that an iteration
in flight has no completed row for its inputs and runs its newest row (`AttemptInv`); and
that a gate has one row (`GateInv`). One lemma per action, `IterationStep` for what
all steps of an iteration share.
On top of it `RunInv` ties each disposition and each iteration of the walk to rows of the
journal, and says that an active step has its needs journaled, in this walk or an earlier one.
It gives `WalkIsConsistent` (`PipelineInv`), `JournalRespectsGraph` (`JournalOrder`), `RunRowReports`
(`RunReports`) and the action property `CancelIsFinal` (`CancelStops`), for every acyclic document, any
number of items, lanes, attempts, crashes and resumes.

**CollectorProofs.** `CollectorSafe`: `Spec => []CollectorInv` for any set of requests and ticks,
any map size, window and number of faults; `CollectorInv` is inductive as it stands. The argument
about `Kept` is one lemma per way an entry leaves the map (eviction, join, flush): it is inserted, or
`gap` is raised. The bound on the map is arithmetic on finite sets (`FiniteSetTheorems`): an
entry is added only after one was removed from a full map. `TokenTruthHolds` is the action
property, from `Kept`: a row that changes was empty, and a transcript half that was taken is
either stored or the pending half, so only that half can become the row.

**ServicesProofs, supervision.** `BandBelongsToChild` (`SupervisionInv`), `AccountsAreLast`
(`AccountsOnlyAtSustainedRed`) and `RedPassSheds` (`RedPassIsComplete`), for any sessions, any
number of overlapping ticks, every gate and all lines of the watchdog. The invariant
`SupervisionIInv` has three ideas: the counter of red ticks is the length of the red
run at the end of the evaluations (`RedRun`), although several ticks write it; a tick away from the
thread awaits the port of the first item of its queue (`QueueShape`); and what a red pass still owes
is ahead of it in that queue, put to sleep in time or excused (`ShedAhead`). That a plan names all
its victims needs that every finite set of slots has a sorted sequence. This is induction over
sets, made without an induction theorem: the library proves the strict subset relation of a
finite set well-founded, so a set without such a sequence would give a smallest one,
and taking out its greatest slot leaves a smaller one.

**ServicesProofs, workstreams.** `LineageKeepsItsWord`: `LineageSpec => []WorkstreamsInv`, for any
sessions and workstreams, any number of failing writes and restarts. `LineageIInv` replaces the
cardinalities by what makes them true: whose session a row may name depends on who wrote it
(`RowShape`: only the recorder writes ledger sessions, with a ledger row and under their own native
id), no two rows of one origin name the same session (`RowsDiffer`), a handler under way
holds its key and has written nothing (`KeysOnce`), and the row it read before its await is
still the one its session resolves to (`JobsCurrent`; of the workstream it read nothing is claimed,
the operator may have changed it). The last is the heart of it: tables only
grow at the end and the columns that say whose a row is are never updated (`Grown`), so the first
row of a native id stays the first (`ByNativeStable`). `StepKeeps` collects what every step owes
the three tables, and each action has one lemma that pays it; the lemmas about `Healed` and
`Unfinished` carry the failing writes, and of a merge by the recorder any part of the edges will do.

Only model-checked: all liveness (`EveryByteAcked`, `PauseEnds`, `ShutdownResolves`,
`ShutdownSettles`, `CaughtUp`, `EveryWaitEnds`, `InboxConverges`, `WalkEnds`, `EveryLineCounted`,
`PostsBriefed`), since fairness is out of the prover's reach; and the two violation
runs, where the counterexample is the result. `OpencodeFeed` has no passing run and no theorem.
The bounds of the models (`MaxHead`, `MaxProc`, `MaxNodes` and the like) are constants of the theorems,
so they hold for every bound.

## 6. Where code and documentation disagree

Two are runs of their own; `PROJECT.json` quotes the sentence.

1. **kernel_double_resume.** `live` is tested before and set after `await runner.start`. A
   second un-forked resume in between passes every guard.
2. **opencode_gap.** A sync wrapper raises the transport's watermark whether or not the plain
   event of the same number arrived. If the stream breaks between the two, `repairGaps` takes
   the watermark over as healed and replays from behind it; the event is in neither key of the
   table until a scrape. The sentence quoted stands at the same take-over in the consume loop
   (sseSource.ts:210-212); the trace takes the one of `repairGaps` (219-220).

The others are modelled as the code has them, and a property names the exception:

3. server.ts:642 says of a late decision "The decider converges via the fan-out". It does not when
   its window met a hole of the replay (wsClient.ts:387-393 and 534, server.ts:375): the row stays
   hidden as "sent", or stays shown. `InboxConverges` excuses exactly these windows (`holed`).
4. scheduler.ts:84-85 says "force-hibernate idle NON-account sessions", and pressureProbe.ts:15-16
   "force-hibernate idle sessions". The plan takes every non-account session that is not hibernated,
   active ones too. `RedPassIsComplete` states what the code does.
5. recorder.ts:19-20 says of a merge "N `merge_parent` edges [...], one transaction". Lines 220-262
   insert them one by one; a failure in between leaves some. A parent equal to the target makes the
   store refuse that edge and ends the loop wherever it stands. `GraphIntact` promises all
   edges for merges of the engine only.
6. reconciler.ts:16-20 and 213-215 say that kernel-driven sessions are deduplicated and that the
   reconciler "NEVER writes nodes or edges for these". It knows them by the native id of the
   ledger row, and a session whose transcript exists before its first message was pumped, or
   whose broker died before, has none: it is registered as an external one, and when the recorder
   heals its node later there are two. `OneNodePerSession` allows one node per origin for this case.
7. flowControl.ts:14 says "occupancy [...] is HARD-bounded". The bound holds by the throw, which
   ends the broker; `RingAccepts` says when it comes to that.

## 7. Observations without a run

Sessions and terminals:

* `PtySessionStream` remembers that it paused the child (ptyStream.ts:238). A recycle puts an
  unpaused child in its place (ptyHost.ts:749); the stream never pulls the lever again and the cap
  is breached by a child that ignored nothing.
* A session whose `runner.start` is awaited when `shutdown()` collects `live` comes up after it
  resolved (sessionKernel.ts:672; line 192 says "abort live sessions, await their pumps").
* A crash between row insert and spawn leaves a `spawning` row. Resume refuses it
  (sessionKernel.ts:514) and nothing reconciles it.
* The pid probe of resume is made for `running` rows (sessionKernel.ts:560). A recycled PTY
  row is `resumed`; with `ResumeRecycled = TRUE` the surviving child and the new one
  violate `NoDoubleDrive`.
* `recycle` does not test that one is under way (ptyHost.ts:735), and `governor.tick` has no guard
  against an overlapping tick that sees the same band (governor.ts:199-230). Both calls await the
  same exit and both spawn: the second child takes `record.proc`, the first runs on, tracked by
  nobody; neither `kill` nor `shutdown` reaches it. Two overlapping forks make two continuations of one
  native session. In `PtyHost` these are the `overtaken` sessions; rows and edges stay right all
  the same. A shutdown during the await is safe: the row is settled, the transition to `resumed`
  throws.
* Ring and gateway pull one lever by different marks. An ack that drains the ring resumes a child
  that the gateway has paused (ptyHost.ts:579-582), and the gateway's resume sets one running under
  a paused ring (614). The composed broker acks the ring at once (gatewayPort.ts:74), so there the
  first needs one data event as large as the ring's high mark.
* A `kill` during a recycle ends the child and not the session: the recycle brings up the next
  generation. A listener that subscribes during a recycle (`onSession`) is not told of it.

Windows, approvals, pipelines:

* A payload broadcast between the accept of a socket and its replay request raises the
  watermark; the replayed older ones are dropped as duplicates (wsClient.ts:534, server.ts:375,
  ws-protocol.md:397). This is the excuse `overtaken` of `SettledIsCurrent`.
* A channel that had no watermark when the first connection of a boot dropped is never asked
  for again (wsClient.ts:387): the excuse `unmarked`.
* A click without a connection hides the row as "sent" (ApprovalInbox.tsx:60,
  approvalsStore.ts:36); the approval ends by expiry.
* A cache hit is journaled without output and is the newest row (runner.ts:608,
  schema/pipelines.ts:611); a second resume gives successors no output, their hash changes and they
  run again. `CompletedOnce` speaks of the same inputs and holds.
* `runGate` always journals attempt 0 (runner.ts:533). Resuming a run whose gate was reached
  violates the unique index, the walk rejects, and the row stays `running` while sibling
  steps go on. `PipelineRun` has it as `RunGateRejected`.
* `engine.resume` (engine.ts:311) tests neither `live` nor the row; two walks of one run are
  possible. `cancel` of a paused run changes nothing (engine.ts:372).
* A manual `retry` of the window client during an awaited discovery starts a second one
  (wsClient.ts:249).
* On close the store is closed before the approvals (main/index.ts:1111-1126), so gates
  superseded by the close find a closed store.

Supervision, collector, workstreams:

* Activity or deregistration while a hibernation is awaited is overwritten when it resolves
  (governor.ts:282): the session is in the hibernated set although it is awake or gone, and later
  passes skip it. The history variable `stale` marks it; `SupervisionInv` does not speak of it.
* An insert that throws in the middle of a poll loses the lines behind it until a restart
  (accountWatcher.ts:251): the offset has moved. The history variable `gap` stands for it.
* A transcript that is rewritten shorter and regrows past the old offset between two polls is read
  from the old offset. The tailer is not dropped on rotation as tailer.ts:14-17 says.
* A poll that ends inside a multi-byte character decodes both halves on their own (tailer.ts:96).
* The fleet's pump has no guard against overlapping ticks (collectors.ts:284); they are harmless
  (`CollectorSafe`).
* A durable event that was repaired under its `oc-durable` key and scraped later has two rows.
* `backfillNativeSessionId` of the recorder has no caller (recorder.ts:60-64; main/index.ts:777-785
  wires the tap without it), so the hooks of a kernel session do not resolve to its node, unless
  its node was healed after the ledger row was complete.
* A second compaction of one session, and a second end after a resume, are suppressed by the key
  of the first; the lineage state stays `completed` after a resume; `produced` does not survive a
  restart.
* A merge whose transaction fails leaves its brief behind (engine.ts:165-206; lines 5-8 say
  atomically), and `latestBriefFor` may offer it to the next start of a parent.
* The snapshot of a compaction joins the workstream its session was in at the post
  (automation.ts:312), also when the operator has moved the session during the distillation.
* `sweepRetention`, the governor's `noteActivity`, the reconciler and the OpenCode collector are
  exported and not called by the composed broker; they are modelled as their modules offer them.

## 8. Not modelled

Rendering, text and shapes: cockpit features, islands, chrome, theme, the desktop shell,
protocol validators, redaction, logging, environment assembly, brief texts, SQL text. About half
of the repository's implementation lines are of this kind or test doubles and golden messages.
Inside the modelled parts: frame splitting inside a delivery, per-source approval limits, control
request correlation, input and resize of a terminal, loops, cost and lineage of a pipeline, several
transcripts and accounts (they share nothing but the joiner's map), rows that are not halves of a
request, workstream names and tags, and the contents of payloads, prompts and outputs beyond what
the properties tell apart. External programs (SDK, PTY backend, SQLite, `ws`, OpenCode) appear as
what the code uses of them.

Read models, quota, AWS and graph feeds poll a source and insert or publish; their machines are
one step deep. The OpenCode serve process, LM Studio residency, the bootstrap file and DAG validation
have logic of their own and are open (section 9).

## 9. Plan

1. *Done.* `PtyStream`, `AckRing`, `SessionKernel` and `PtyHost` over `LedgerFsm`,
   `GatewayReplay`, `Approvals`, `PipelineRun`, `Supervision`, `Collector`, `OpencodeFeed`,
   `Workstreams`.
2. *Done.* Proofs of every safety property the passing runs check (section 5).
   Next, abstract specifications to be implemented beside `LedgerFsm`: a byte pipe per consumer
   for `PtyStream` (what is delivered is what was pushed, in order, from the point of attachment)
   and a once-only execution of each step and input for `PipelineRun`.
3. The serve process (ready line, exit and deadline), the bootstrap file of a dying broker against
   its successor's, the window client's manual retry.
4. Pure functions against reference definitions: the DAG cycle check and generations,
   conditions, block windows.
5. `PipelineRun`: a second walk of the same run, loops.
