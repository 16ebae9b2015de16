--------------------------- MODULE SessionKernel ---------------------------
(***************************************************************************)
(* The session kernel (core/src/kernel/sessionKernel.ts) over the resume   *)
(* ledger, in the broker that also runs the PTY host on the same ledger.   *)
(*                                                                         *)
(* Every await of the kernel is a boundary between actions: the hook after *)
(* the row insert, runner.start, the message pump and shutdown.  A broker  *)
(* crash keeps the ledger and loses everything else; SDK children die with *)
(* the broker (their stdin closes), PTY children may survive it.           *)
(***************************************************************************)
EXTENDS Integers, FiniteSets

CONSTANTS
  Sessions,         \* session ids
  NoSession,        \* model value outside Sessions
  ConcurrentCalls,  \* may a resume of s start while one of s is in flight?
  ResumeRecycled,   \* do clients resume PTY rows that are in state resumed?
  MaxProc,          \* bound: child processes ever started
  MaxRecycle,       \* bound: recycles of PTY sessions
  MaxCrash          \* bound: broker crashes and restarts

ASSUME KernelAssumption ==
  /\ NoSession \notin Sessions
  /\ ConcurrentCalls \in BOOLEAN /\ ResumeRecycled \in BOOLEAN
  /\ MaxProc \in Nat /\ MaxRecycle \in Nat /\ MaxCrash \in Nat

VARIABLES
  state,         \* ledger: row state, "none" before the row exists
  native,        \* ledger: native_session_id is backfilled
  pid,           \* ledger: the recorded child (0: NULL)
  pty,           \* ledger: the row has substrate pty
  proc,          \* child processes and the calls that start them
  started,       \* how many entries of proc are in use
  live,          \* kernel map `live`: session -> child (0: no entry)
  shuttingDown,  \* kernel flag
  closing,       \* children whose pumps shutdown() awaits
  closed,        \* shutdown() has resolved
  recycles,      \* history: PTY recycles (bounded)
  crashes        \* history: crashes (bounded)

rows == <<state, native, pid, pty>>
broker == <<live, shuttingDown, closing, closed>>
vars == <<state, native, pid, pty, proc, started, live, shuttingDown,
          closing, closed, recycles, crashes>>

Procs == 1..MaxProc
Phases == {"absent", "inserted", "starting", "up", "orphan", "down"}
Active == {"spawning", "running", "resumed"}
Redrivable == {"running", "resumed", "orphan_killed"}

Ledger == INSTANCE LedgerFsm

\* A child process, or the call that is starting it.
ProcRecord == [sid : Sessions \cup {NoSession}, phase : Phases,
               repairs : Sessions \cup {NoSession},
               host : {"sdk", "pty"}, aborted : BOOLEAN]

TypeOK ==
  /\ state \in [Sessions -> Ledger!States \cup {"none"}]
  /\ native \in [Sessions -> BOOLEAN] /\ pty \in [Sessions -> BOOLEAN]
  /\ pid \in [Sessions -> 0..MaxProc] /\ live \in [Sessions -> 0..MaxProc]
  /\ proc \in [Procs -> ProcRecord]
  /\ started \in 0..MaxProc
  /\ shuttingDown \in BOOLEAN /\ closed \in BOOLEAN /\ closing \subseteq Procs
  /\ recycles \in 0..MaxRecycle /\ crashes \in 0..MaxCrash

NoProc == [sid |-> NoSession, phase |-> "absent", repairs |-> NoSession,
           host |-> "sdk", aborted |-> FALSE]

Init ==
  /\ state = [s \in Sessions |-> "none"]
  /\ native = [s \in Sessions |-> FALSE]
  /\ pid = [s \in Sessions |-> 0] /\ pty = [s \in Sessions |-> FALSE]
  /\ proc = [p \in Procs |-> NoProc] /\ started = 0
  /\ live = [s \in Sessions |-> 0]
  /\ shuttingDown = FALSE /\ closing = {} /\ closed = FALSE
  /\ recycles = 0 /\ crashes = 0

-----------------------------------------------------------------------------
(* Helpers. *)

Alive(p) == proc[p].phase \in {"up", "orphan"}

\* A call is in flight that will start, or is starting, a child of s.
Busy(s) == \E p \in Procs : /\ proc[p].phase \in {"inserted", "starting"}
                            /\ s \in {proc[p].sid, proc[p].repairs}

CallAllowed(s) ==
  /\ ~ shuttingDown
  /\ ConcurrentCalls \/ ~ Busy(s)
  /\ ResumeRecycled \/ ~ (pty[s] /\ state[s] = "resumed")

NewProc(s, ph, rep, h) ==
  /\ started < MaxProc /\ started' = started + 1
  /\ proc' = [proc EXCEPT ![started + 1] =
       [sid |-> s, phase |-> ph, repairs |-> rep, host |-> h,
        aborted |-> FALSE]]

\* ledger.transition to exited; an illegal one throws and changes nothing.
Settle(s, st) == IF Ledger!Legal(st[s], "exited")
                 THEN [st EXCEPT ![s] = "exited"] ELSE st

\* resume: no handle of this broker runs the session.
NotLive(s) == live[s] = 0

\* Mutant: a running row is re-driven without the probe.
PidUnchecked(s) == TRUE

\* resume's PID-LIVENESS GUARD with isSameProcessAlive: only `running` rows
\* with a recorded pid are probed; the spawn nonce rules out a reused pid.
PidClear(s) == ~ (state[s] = "running" /\ pid[s] # 0 /\ Alive(pid[s]))

-----------------------------------------------------------------------------
(* launch, resume. *)

\* Mutant: the spawn is set going before its row is written.
SpawnBeforeRow(c, rep) ==
  /\ state[c] = "none"
  /\ NewProc(c, "inserted", rep, "sdk")
  /\ UNCHANGED <<rows, broker, recycles, crashes>>

\* insertRowAndSpawn up to its first await: the row before the child.
InsertRow(c, rep) ==
  /\ state[c] = "none"
  /\ state' = [state EXCEPT ![c] = "spawning"]
  /\ NewProc(c, "inserted", rep, "sdk")
  /\ UNCHANGED <<native, pid, pty, broker, recycles, crashes>>

Launch(s) == ~ shuttingDown /\ InsertRow(s, NoSession)

\* resume with fork: of a live session, of an exited one, or of a dead one
\* whose transcript tail is safe.
ResumeFork(s, c) ==
  /\ CallAllowed(s) /\ native[s]
  /\ ~ NotLive(s) \/ state[s] \in Redrivable \cup {"exited"}
  /\ InsertRow(c, NoSession)

\* resume of a dead session whose transcript tail is unsafe but has a
\* coherent anchor: a repair fork, with or without the fork flag.  The parent
\* is settled once the child has started.
ResumeRepair(s, c) ==
  /\ CallAllowed(s) /\ native[s]
  /\ NotLive(s) /\ state[s] \in Redrivable
  /\ InsertRow(c, s)

\* resume without fork of a dead session with a safe tail.
ResumeInPlace(s) ==
  /\ CallAllowed(s) /\ native[s]
  /\ NotLive(s) /\ state[s] \in Redrivable /\ PidClear(s)
  /\ state' = [state EXCEPT ![s] = "resumed"]
  /\ NewProc(s, "starting", NoSession, "sdk")
  /\ UNCHANGED <<native, pid, pty, broker, recycles, crashes>>

\* Mutant: the raced row is settled and the child is started all the same.
SpawnAnyway(p) ==
  /\ proc[p].phase = "inserted"
  /\ proc' = [proc EXCEPT ![p].phase = "starting"]
  /\ state' = IF shuttingDown THEN [state EXCEPT ![proc[p].sid] = "exited"]
              ELSE state
  /\ UNCHANGED <<native, pid, pty, started, broker, recycles, crashes>>

\* insertRowAndSpawn after the hook: shutdown raced the spawn window, or
\* startAndPump calls runner.start.
Spawn(p) ==
  /\ proc[p].phase = "inserted"
  /\ IF shuttingDown
     THEN /\ proc' = [proc EXCEPT ![p].phase = "down"]
          /\ state' = Settle(proc[p].sid, state)
     ELSE /\ proc' = [proc EXCEPT ![p].phase = "starting"]
          /\ UNCHANGED state
  /\ UNCHANGED <<native, pid, pty, started, broker, recycles, crashes>>

-----------------------------------------------------------------------------
(* startAndPump. *)

\* runner.start threw.
StartFail(p) ==
  /\ proc[p].phase = "starting"
  /\ proc' = [proc EXCEPT ![p].phase = "down"]
  /\ state' = Settle(proc[p].sid, state)
  /\ UNCHANGED <<native, pid, pty, started, broker, recycles, crashes>>

\* Mutant: every started row becomes `running`.
MarkRunningAlways(s) == [state EXCEPT ![s] = "running"]

\* Fresh rows advance to running, re-driven ones stay in `resumed`.
MarkRunning(s) == IF state[s] = "spawning"
                  THEN [state EXCEPT ![s] = "running"] ELSE state

\* runner.start resolved: the child runs, its handle goes into `live`, and a
\* repair fork settles its parent.
StartOk(p) ==
  LET s == proc[p].sid  par == proc[p].repairs IN
  /\ proc[p].phase = "starting"
  /\ proc' = [proc EXCEPT ![p].phase = "up"]
  /\ live' = [live EXCEPT ![s] = p]
  /\ state' = IF par = NoSession THEN MarkRunning(s)
              ELSE Settle(par, MarkRunning(s))
  /\ UNCHANGED <<native, pid, pty, started, shuttingDown, closing, closed,
                 recycles, crashes>>

\* The pump sees the init message: the native id is backfilled once.
PumpInit(p) ==
  /\ proc[p].phase = "up" /\ proc[p].host = "sdk" /\ ~ native[proc[p].sid]
  /\ native' = [native EXCEPT ![proc[p].sid] = TRUE]
  /\ UNCHANGED <<state, pid, pty, proc, started, broker, recycles, crashes>>

\* The message stream ends (normally, in error, or aborted): the pump's
\* finally deletes the live entry and settles the row.
PumpEnd(p) ==
  LET s == proc[p].sid IN
  /\ proc[p].phase = "up" /\ proc[p].host = "sdk"
  /\ proc' = [proc EXCEPT ![p].phase = "down"]
  /\ live' = [live EXCEPT ![s] = 0]
  /\ state' = IF state[s] \in Active
              THEN [state EXCEPT ![s] = "exited"] ELSE state
  /\ UNCHANGED <<native, pid, pty, started, shuttingDown, closing, closed,
                 recycles, crashes>>

\* abort of a session that is live in this broker.
Abort(s) ==
  /\ ~ NotLive(s) /\ ~ proc[live[s]].aborted
  /\ proc' = [proc EXCEPT ![live[s]].aborted = TRUE]
  /\ UNCHANGED <<rows, started, broker, recycles, crashes>>

-----------------------------------------------------------------------------
(* shutdown, crash, restart. *)

\* Mutant: shutdown awaits the pumps without aborting them.
ShutdownNoAbort ==
  /\ ~ shuttingDown /\ shuttingDown' = TRUE
  /\ closing' = {p \in Procs : \E s \in Sessions : live[s] = p}
  /\ UNCHANGED <<rows, proc, started, live, closed, recycles, crashes>>

\* shutdown: refuse new calls, abort what is in `live` now.
Shutdown ==
  /\ ~ shuttingDown /\ shuttingDown' = TRUE
  /\ closing' = {p \in Procs : \E s \in Sessions : live[s] = p}
  /\ proc' = [p \in Procs |-> [proc[p] EXCEPT !.aborted = @ \/ p \in closing']]
  /\ UNCHANGED <<rows, started, live, closed, recycles, crashes>>

\* The awaited pumps have settled: shutdown() resolves.
ShutdownDone ==
  /\ shuttingDown /\ ~ closed
  /\ \A p \in closing : proc[p].phase = "down"
  /\ closed' = TRUE
  /\ UNCHANGED <<rows, proc, started, live, shuttingDown, closing, recycles,
                 crashes>>

\* The broker dies, at any point, and a new one starts on the same ledger.
\* PTY children in `survivors` outlive it.
Restart(survivors) ==
  /\ crashes < MaxCrash /\ crashes' = crashes + 1
  /\ \A p \in survivors : Alive(p) /\ proc[p].host = "pty"
  /\ proc' = [p \in Procs |->
       IF p \in survivors THEN [proc[p] EXCEPT !.phase = "orphan"]
       ELSE IF proc[p].phase = "absent" THEN proc[p]
       ELSE [proc[p] EXCEPT !.phase = "down"]]
  /\ live' = [s \in Sessions |-> 0]
  /\ shuttingDown' = FALSE /\ closing' = {} /\ closed' = FALSE
  /\ UNCHANGED <<rows, started, recycles>>

OrphanDies(p) ==
  /\ proc[p].phase = "orphan"
  /\ proc' = [proc EXCEPT ![p].phase = "down"]
  /\ UNCHANGED <<rows, started, broker, recycles, crashes>>

-----------------------------------------------------------------------------
(* The PTY host on the same ledger: one step per operation. *)

\* launchAttended: row, child, pid and native id in one tick.
PtyLaunch(s) ==
  /\ ~ shuttingDown /\ state[s] = "none"
  /\ state' = [state EXCEPT ![s] = "running"]
  /\ native' = [native EXCEPT ![s] = TRUE]
  /\ pty' = [pty EXCEPT ![s] = TRUE]
  /\ pid' = [pid EXCEPT ![s] = started + 1]
  /\ NewProc(s, "up", NoSession, "pty")
  /\ UNCHANGED <<broker, recycles, crashes>>

\* recycle without fork: the old child is dead, the row goes to `resumed`,
\* the new child's pid is recorded.
PtyRecycle(p) ==
  LET s == proc[p].sid IN
  /\ ~ shuttingDown /\ recycles < MaxRecycle
  /\ proc[p].phase = "up" /\ proc[p].host = "pty"
  /\ Ledger!Legal(state[s], "resumed")
  /\ started < MaxProc /\ started' = started + 1
  /\ proc' = [proc EXCEPT ![p].phase = "down",
       ![started + 1] = [sid |-> s, phase |-> "up", repairs |-> NoSession,
                         host |-> "pty", aborted |-> FALSE]]
  /\ state' = [state EXCEPT ![s] = "resumed"]
  /\ pid' = [pid EXCEPT ![s] = started + 1]
  /\ recycles' = recycles + 1
  /\ UNCHANGED <<native, pty, broker, crashes>>

\* onExit of the recorded child outside a recycle: settleExited.
PtyExit(p) ==
  LET s == proc[p].sid IN
  /\ proc[p].phase = "up" /\ proc[p].host = "pty"
  /\ proc' = [proc EXCEPT ![p].phase = "down"]
  /\ state' = IF state[s] \in Active
              THEN [state EXCEPT ![s] = "exited"] ELSE state
  /\ UNCHANGED <<native, pid, pty, started, broker, recycles, crashes>>

-----------------------------------------------------------------------------
Next ==
  \/ \E s \in Sessions : Launch(s) \/ ResumeInPlace(s) \/ Abort(s)
                         \/ PtyLaunch(s)
  \/ \E s, c \in Sessions : ResumeFork(s, c) \/ ResumeRepair(s, c)
  \/ \E p \in Procs : Spawn(p) \/ StartOk(p) \/ StartFail(p) \/ PumpInit(p)
                      \/ PumpEnd(p) \/ OrphanDies(p) \/ PtyRecycle(p)
                      \/ PtyExit(p)
  \/ Shutdown \/ ShutdownDone
  \/ \E sv \in SUBSET Procs : Restart(sv)

Spec == Init /\ [][Next]_vars

\* Promises resolve: the hook and runner.start come back, an aborted pump
\* ends, shutdown resolves once what it awaits has.
FairSpec ==
  /\ Spec
  /\ \A p \in Procs :
       /\ WF_vars(Spawn(p)) /\ WF_vars(StartOk(p) \/ StartFail(p))
       /\ WF_vars(proc[p].aborted /\ PumpEnd(p))
  /\ WF_vars(ShutdownDone)

-----------------------------------------------------------------------------
\* Every step of the kernel and of the PTY host moves ledger rows only along
\* legal edges, never revives an exited row and never rewrites a native id.
LedgerLegal == Ledger!Spec

\* The inductive invariant behind LedgerLegal: whatever was started, and
\* whatever has a native id, has a ledger row.
KernelInv ==
  /\ TypeOK
  /\ \A p \in Procs : proc[p].phase # "absent" =>
       /\ proc[p].sid \in Sessions /\ state[proc[p].sid] # "none"
       /\ proc[p].repairs \in Sessions => state[proc[p].repairs] # "none"
  /\ \A s \in Sessions : native[s] => state[s] # "none"

\* UN-FORKED DOUBLE-RESUME BLOCK: two children never drive the same native
\* session at once, across crashes and restarts of the broker.
NoDoubleDrive ==
  \A p, q \in Procs :
    (p # q /\ Alive(p) /\ Alive(q)) => proc[p].sid # proc[q].sid

\* ROW BEFORE SPAWN, and no child out of reach: each SDK child that runs or is
\* being started has a row that still says so, also when shutdown races the
\* spawn, and the live map, where abort and shutdown look, is exactly the
\* running SDK children of this broker (one still being started is not in it).
ChildTracked ==
  /\ \A p \in Procs :
       /\ proc[p].phase \in {"inserted", "starting", "up"}
       /\ proc[p].host = "sdk"
       => state[proc[p].sid] \in Active
  /\ \A s \in Sessions : live[s] # 0 =>
       /\ proc[live[s]].phase = "up" /\ proc[live[s]].sid = s
       /\ state[s] \in {"running", "resumed"}
  /\ \A p \in Procs : (proc[p].phase = "up" /\ live[proc[p].sid] # p)
                        => proc[p].host = "pty"

\* shutdown() always resolves: no pump it awaits is waited for forever.
ShutdownResolves == shuttingDown ~> (closed \/ ~ shuttingDown)
=============================================================================
