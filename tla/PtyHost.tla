------------------------------ MODULE PtyHost ------------------------------
(***************************************************************************)
(* The lifecycle of attended sessions in core/src/kernel/pty/ptyHost.ts:   *)
(* launch (the row before the child), exit and settlement, graceful kill   *)
(* with escalation, the recycle loop, fork-recycles and shutdown.  The     *)
(* bytes of a session are AckRing's subject; here a child is a generation  *)
(* number of its session.                                                  *)
(*                                                                         *)
(* Handlers run to their next await.  What may happen meanwhile: other     *)
(* calls, exits of children, the escalation timer.                         *)
(***************************************************************************)
EXTENDS Integers, FiniteSets

CONSTANTS
  Sessions,    \* harness session ids
  Recycles,    \* recycle calls that may be in progress together
  MaxGen       \* bound: child generations of one session

ASSUME HostAssumption == MaxGen \in Nat \ {0}

VARIABLES
  row,           \* resume-ledger row state, "none" before insertBeforeSpawn
  native,        \* native_session_id of the row was backfilled
  launch,        \* insertRowAndSpawn between the row and the child: its kind
  known,         \* ids in `records`
  gen,           \* latest generation; generationExit is its promise
  proc,          \* record.proc: a generation, 0 when undefined
  child,         \* child[s][g]: "none", "up", "hup", "kill" (signalled), "gone"
  recycling,     \* record.recycling
  settled,       \* record.settled
  timers,        \* escalation timers: <<session, generation>>
  call,          \* recycle calls that await a generation
  edges,         \* continue edges emitted to a session
  shuttingDown,
  overtaken      \* history: sessions that a recycle went on with although
                 \* another one had replaced the child it waited for

vars == <<row, native, launch, known, gen, proc, child, recycling, settled,
          timers, call, edges, shuttingDown, overtaken>>

Gens == 1..MaxGen
Kinds == {"attended", "login", "fork"}
NoCall == [busy |-> FALSE]
Call(s, g, fork) == [busy |-> TRUE, session |-> s, gen |-> g, fork |-> fork]
Calls == {NoCall} \cup {Call(s, g, fork) : s \in Sessions, g \in Gens,
                                           fork \in BOOLEAN}
Rows == {"none", "spawning", "running", "resumed", "orphan_detected",
         "orphan_killed", "exited"}

TypeOK ==
  /\ row \in [Sessions -> Rows]
  /\ native \in [Sessions -> BOOLEAN]
  /\ launch \in [Sessions -> Kinds \cup {"none"}]
  /\ known \subseteq Sessions
  /\ gen \in [Sessions -> 0..MaxGen] /\ proc \in [Sessions -> 0..MaxGen]
  /\ child \in [Sessions -> [Gens -> {"none", "up", "hup", "kill", "gone"}]]
  /\ recycling \in [Sessions -> BOOLEAN] /\ settled \in [Sessions -> BOOLEAN]
  /\ timers \subseteq (Sessions \X Gens)
  /\ call \in [Recycles -> Calls]
  /\ edges \in [Sessions -> Nat]
  /\ shuttingDown \in BOOLEAN /\ overtaken \subseteq Sessions

Init ==
  /\ row = [s \in Sessions |-> "none"] /\ native = [s \in Sessions |-> FALSE]
  /\ launch = [s \in Sessions |-> "none"] /\ known = {}
  /\ gen = [s \in Sessions |-> 0] /\ proc = [s \in Sessions |-> 0]
  /\ child = [s \in Sessions |-> [g \in Gens |-> "none"]]
  /\ recycling = [s \in Sessions |-> FALSE]
  /\ settled = [s \in Sessions |-> FALSE]
  /\ timers = {} /\ call = [r \in Recycles |-> NoCall]
  /\ edges = [s \in Sessions |-> 0] /\ shuttingDown = FALSE
  /\ overtaken = {}

Alive(s) == {g \in Gens : child[s][g] \in {"up", "hup", "kill"}}

\* PtyProcess.kill: SIGKILL is never taken back by a later hangup.
Signalled(s, g, signal) ==
  [child EXCEPT ![s][g] = IF @ \in {"gone", "kill"} THEN @ ELSE signal]

\* settleExited on rows r: the row ends in exited unless it is already there
Settle(r, s) ==
  /\ settled' = [settled EXCEPT ![s] = TRUE]
  /\ row' = [r EXCEPT ![s] =
               IF ~ settled[s] /\ @ \in {"spawning", "running", "resumed"}
               THEN "exited" ELSE @]

\* launchAttended, launchLoginBootstrap: the row is inserted, then an await.
Launch(s, kind) ==
  /\ ~ shuttingDown
  /\ row[s] = "none" /\ kind \in {"attended", "login"}
  /\ row' = [row EXCEPT ![s] = "spawning"]
  /\ launch' = [launch EXCEPT ![s] = kind]
  /\ UNCHANGED <<native, known, gen, proc, child, recycling, settled, timers,
                 call, edges, shuttingDown, overtaken>>

\* A child is forked: spawnGeneration sets proc, pid and generationExit.
Forked(s) ==
  /\ gen' = [gen EXCEPT ![s] = @ + 1]
  /\ proc' = [proc EXCEPT ![s] = gen[s] + 1]
  /\ child' = [child EXCEPT ![s][gen[s] + 1] = "up"]

\* Mutant: the row of a fork child is born resumed.
ForkResumed(s) == IF launch[s] = "fork" THEN "resumed" ELSE "running"

\* The new row moves from spawning to running, forks included.
RowOfNew(s) == "running"

\* The rest of insertRowAndSpawn, the child forked.  The shutdown flag is read
\* again after the await.  Only an attended launch pins its native id; the
\* recycle call behind a fork emits its edge.
Spawned(s) ==
  /\ launch[s] # "none" /\ ~ shuttingDown
  /\ Forked(s)
  /\ native' = [native EXCEPT ![s] = launch[s] = "attended"]
  /\ row' = [row EXCEPT ![s] = RowOfNew(s)]
  /\ known' = known \cup {s}
  /\ edges' = [edges EXCEPT ![s] = IF launch[s] = "fork" THEN @ + 1 ELSE @]
  /\ launch' = [launch EXCEPT ![s] = "none"]
  /\ UNCHANGED <<recycling, settled, timers, call, shuttingDown, overtaken>>

\* The rest of insertRowAndSpawn, no child: a shutdown came in between, or
\* the backend threw.
NotSpawned(s) ==
  /\ launch[s] # "none"
  /\ launch' = [launch EXCEPT ![s] = "none"]
  /\ Settle(row, s)
  /\ UNCHANGED <<native, known, gen, proc, child, recycling, timers, call,
                 edges, shuttingDown, overtaken>>

\* A child exits by itself or obeys a signal: the handler of onExit, which
\* clears record.proc whatever generation it belongs to, resolves the
\* generation's promise and so drops its timer.  A recycle in progress
\* keeps the settlement to itself.
ChildExits(s, g) ==
  /\ g \in Alive(s)
  /\ child' = [child EXCEPT ![s][g] = "gone"]
  /\ proc' = [proc EXCEPT ![s] = 0]
  /\ timers' = timers \ {<<s, g>>}
  /\ IF recycling[s] THEN UNCHANGED <<row, settled>> ELSE Settle(row, s)
  /\ UNCHANGED <<native, launch, known, gen, recycling, call, edges,
                 shuttingDown, overtaken>>

\* facade.kill: force signals the group, graceful hangs up and arms a timer.
Kill(s, force) ==
  /\ proc[s] # 0
  /\ child' = Signalled(s, proc[s], IF force THEN "kill" ELSE "hup")
  /\ timers' = IF force THEN timers ELSE timers \cup {<<s, gen[s]>>}
  /\ UNCHANGED <<row, native, launch, known, gen, proc, recycling, settled,
                 call, edges, shuttingDown, overtaken>>

\* escalateAfterGrace: the timer compares generations before it forces.
Escalate(s, g) ==
  /\ <<s, g>> \in timers
  /\ timers' = timers \ {<<s, g>>}
  /\ child' = IF proc[s] # 0 /\ gen[s] = g THEN Signalled(s, proc[s], "kill")
                ELSE child
  /\ UNCHANGED <<row, native, launch, known, gen, proc, recycling, settled,
                 call, edges, shuttingDown, overtaken>>

\* The session a recycle call in progress is about.
Recycled(r, s) == call[r].busy /\ call[r].session = s

\* recycle up to `await generation`.  The recycling flag is not tested: calls
\* for one session may overlap.
Recycle(r, s, fork) ==
  /\ ~ call[r].busy /\ ~ shuttingDown
  /\ s \in known /\ proc[s] # 0 /\ native[s]
  /\ recycling' = [recycling EXCEPT ![s] = TRUE]
  /\ child' = Signalled(s, proc[s], "hup")
  /\ timers' = timers \cup {<<s, gen[s]>>}
  /\ call' = [call EXCEPT ![r] = Call(s, gen[s], fork)]
  /\ UNCHANGED <<row, native, launch, known, gen, proc, settled, edges,
                 shuttingDown, overtaken>>

\* Mutant: the recycle does not wait for the old child.
AwaitNothing(r) == call[r].busy

Awaited(r) == call[r].busy /\ child[call[r].session][call[r].gen] = "gone"

\* The call goes on: it takes the flag down and is over.  The child it waited
\* for is gone, but may have been replaced meanwhile.
GoesOn(r) ==
  LET s == call[r].session IN
  /\ Awaited(r)
  /\ recycling' = [recycling EXCEPT ![s] = FALSE]
  /\ call' = [call EXCEPT ![r] = NoCall]
  /\ overtaken' = overtaken \cup IF call[r].gen = gen[s] THEN {} ELSE {s}

\* The ledger edge to `resumed` exists from these states; from any other
\* one ledger.transition throws.
Resumable(s) == row[s] \in {"running", "resumed", "orphan_killed"}

\* recycle after the await, same node: row, new child, edge.
RecycleResumes(r) ==
  LET s == call[r].session IN
  /\ GoesOn(r) /\ ~ call[r].fork /\ Resumable(s)
  /\ gen[s] < MaxGen
  /\ row' = [row EXCEPT ![s] = "resumed"]
  /\ Forked(s)
  /\ edges' = [edges EXCEPT ![s] = @ + 1]
  /\ UNCHANGED <<native, launch, known, settled, timers, shuttingDown>>

\* recycle after the await, same node, the spawn throws.
RecycleSpawnFails(r) ==
  LET s == call[r].session IN
  /\ GoesOn(r) /\ ~ call[r].fork /\ Resumable(s)
  /\ Settle([row EXCEPT ![s] = "resumed"], s)
  /\ UNCHANGED <<native, launch, known, gen, proc, child, timers, edges,
                 shuttingDown>>

\* recycle after the await: the row was settled meanwhile, transition throws.
RecycleRefused(r) ==
  /\ GoesOn(r) /\ ~ call[r].fork /\ ~ Resumable(call[r].session)
  /\ UNCHANGED <<row, native, launch, known, gen, proc, child, settled, timers,
                 edges, shuttingDown>>

\* recycle after the await, fork: the parent settles, the row of a
\* continuation child is inserted and insertRowAndSpawn awaits.  (The flag
\* comes down once more after that; of a settled session nobody reads it.)
RecycleForks(r, c) ==
  /\ GoesOn(r) /\ call[r].fork /\ row[c] = "none"
  /\ Settle([row EXCEPT ![c] = "spawning"], call[r].session)
  /\ launch' = [launch EXCEPT ![c] = "fork"]
  /\ UNCHANGED <<native, known, gen, proc, child, timers, edges, shuttingDown>>

\* Mutant: shutdown leaves the recycling flag of a live session up.
KeepFlag(s) == recycling[s]

\* shutdown takes the settlement back from a recycle whose child is alive.
FlagAtShutdown(s) == recycling[s] /\ ~ (s \in known /\ proc[s] # 0)

\* shutdown: every record with a child is force-killed, one between two
\* children is settled on the spot.
Shutdown ==
  /\ ~ shuttingDown /\ shuttingDown' = TRUE
  /\ recycling' = [s \in Sessions |-> FlagAtShutdown(s)]
  /\ child' = [s \in Sessions |-> [g \in Gens |->
                 IF s \in known /\ g = proc[s] /\ g \in Alive(s)
                 THEN "kill" ELSE child[s][g]]]
  /\ settled' = [s \in Sessions |-> settled[s] \/ (s \in known /\ proc[s] = 0)]
  /\ row' = [s \in Sessions |->
               IF s \in known /\ proc[s] = 0 /\ ~ settled[s]
                  /\ row[s] \in {"spawning", "running", "resumed"}
               THEN "exited" ELSE row[s]]
  /\ UNCHANGED <<native, launch, known, gen, proc, timers, call, edges,
                 overtaken>>

Next ==
  \/ \E s \in Sessions, kind \in Kinds : Launch(s, kind)
  \/ \E s \in Sessions : Spawned(s) \/ NotSpawned(s)
  \/ \E s \in Sessions, g \in Gens : ChildExits(s, g) \/ Escalate(s, g)
  \/ \E s \in Sessions, force \in BOOLEAN : Kill(s, force)
  \/ \E r \in Recycles, s \in Sessions, fork \in BOOLEAN : Recycle(r, s, fork)
  \/ \E r \in Recycles : RecycleResumes(r) \/ RecycleSpawnFails(r)
                           \/ RecycleRefused(r)
  \/ \E r \in Recycles, c \in Sessions : RecycleForks(r, c)
  \/ Shutdown

Spec == Init /\ [][Next]_vars

\* A killed child dies, timers fire, and what an await waits for goes on.
KilledDies(s, g) == child[s][g] = "kill" /\ ChildExits(s, g)
Continue(r) == RecycleResumes(r) \/ RecycleSpawnFails(r) \/ RecycleRefused(r)
                 \/ \E c \in Sessions : RecycleForks(r, c)
Fairness ==
  /\ \A s \in Sessions : WF_vars(Spawned(s) \/ NotSpawned(s))
  /\ \A s \in Sessions, g \in Gens :
       WF_vars(KilledDies(s, g)) /\ WF_vars(Escalate(s, g))
  /\ \A r \in Recycles : WF_vars(Continue(r))
FairSpec == Spec /\ Fairness

-----------------------------------------------------------------------------
\* A session has at most one child, and record.proc is that child: input,
\* kill and the levers never reach a stale generation, nothing runs untracked.
\* Two recycles of one session keep to that until the second goes on behind a
\* child that the first has brought up.
OneChild == \A s \in Sessions \ overtaken : Alive(s) = {proc[s]} \ {0}

\* A settled session has an exited row and nothing running.
SettledIsOver ==
  \A s \in Sessions : settled[s] =>
    row[s] = "exited" /\ (s \in overtaken \/ Alive(s) = {})

\* A row that claims to be alive has a child, or a recycle call that will
\* replace it: no row is left behind by kill, failure, shutdown or recycles,
\* overlapping ones included.
RowDriven ==
  \A s \in Sessions : row[s] \in {"running", "resumed"} =>
    \/ proc[s] # 0
    \/ recycling[s] /\ \E r \in Recycles : Recycled(r, s)

\* Every child that continues another one has its continue edge.
EdgePerContinuation == \A s \in Sessions : gen[s] - edges[s] \in {0, 1}

\* The host keeps children, records, rows and edges together.
HostInv ==
  TypeOK /\ OneChild /\ SettledIsOver /\ RowDriven /\ EdgePerContinuation

\* "shutdown force-kills live children and settles every row", also the ones
\* that were being launched, killed, recycled or forked when it was called.
\* It does not find the child that an overtaking recycle left behind.
Quiet == \A s \in Sessions : /\ row[s] \in {"none", "exited"}
                             /\ s \in overtaken \/ Alive(s) = {}
ShutdownSettles == shuttingDown ~> []Quiet

\* The host moves ledger rows only as the resume ledger allows.
Ledger == INSTANCE LedgerFsm WITH state <- row, native <- native,
                                  Sessions <- Sessions
LedgerSpec == Ledger!Spec
=============================================================================
