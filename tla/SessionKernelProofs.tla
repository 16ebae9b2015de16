------------------------ MODULE SessionKernelProofs ------------------------
(***************************************************************************)
(* The session kernel and the PTY host implement the ledger's state        *)
(* machine, for every set of sessions, every number of children, crashes   *)
(* and concurrent calls.  Where calls on one session do not overlap and no *)
(* client resumes a recycled PTY row, no session is ever driven twice and  *)
(* every child is in reach.                                                *)
(***************************************************************************)
EXTENDS SessionKernel, TLAPS

\* What a step may do to the rows, in the ledger's terms.
RowsStep ==
  /\ state' \in [Sessions -> Ledger!States \cup {"none"}]
  /\ native' \in [Sessions -> BOOLEAN]
  /\ \A s \in Sessions : /\ \/ state'[s] = state[s]
                            \/ Ledger!RowBorn(s)
                            \/ Ledger!RowMoves(s)
                         /\ native[s] => native'[s]
                         /\ native'[s] => state'[s] # "none"

\* Changing the phase, or the abort flag, of a child keeps its record well
\* formed.
LEMMA PhaseRecord ==
  ASSUME NEW r \in ProcRecord, NEW ph \in Phases
  PROVE  /\ [r EXCEPT !.phase = ph] \in ProcRecord
         /\ [r EXCEPT !.phase = ph].sid = r.sid
         /\ [r EXCEPT !.phase = ph].repairs = r.repairs
         /\ [r EXCEPT !.phase = ph].phase = ph
BY DEF ProcRecord

LEMMA AbortRecord ==
  ASSUME NEW r \in ProcRecord, NEW b \in BOOLEAN
  PROVE  /\ [r EXCEPT !.aborted = b] \in ProcRecord
         /\ [r EXCEPT !.aborted = b].sid = r.sid
         /\ [r EXCEPT !.aborted = b].repairs = r.repairs
         /\ [r EXCEPT !.aborted = b].phase = r.phase
BY DEF ProcRecord

LEMMA InitKernelInv == Init => KernelInv
<1> SUFFICES ASSUME Init PROVE KernelInv
  OBVIOUS
<1>1. NoProc \in ProcRecord
      /\ NoProc.phase = "absent"
  BY DEF NoProc, Phases, ProcRecord
<1>2. TypeOK
  <2>1. /\ 0 \in 0..MaxProc /\ 0 \in 0..MaxRecycle /\ 0 \in 0..MaxCrash
    BY KernelAssumption
  <2>2. proc \in [Procs -> ProcRecord]
    BY <1>1 DEF Init
  <2> QED BY <2>1, <2>2 DEF Init, TypeOK
<1> QED BY <1>1, <1>2 DEF Init, KernelInv

\* A step that leaves the ledger alone keeps the rows.
LEMMA SameRows ==
  ASSUME KernelInv, UNCHANGED <<state, native>>
  PROVE  RowsStep
BY DEF KernelInv, TypeOK, RowsStep

\* ledger.transition to exited takes a legal edge or throws.
LEMMA SettleLegal ==
  ASSUME NEW st \in [Sessions -> Ledger!States \cup {"none"}],
         NEW s \in Sessions, st[s] # "none"
  PROVE  /\ Settle(s, st) \in [Sessions -> Ledger!States \cup {"none"}]
         /\ \A t \in Sessions : t # s => Settle(s, st)[t] = st[t]
         /\ \/ Settle(s, st)[s] = st[s]
            \/ Settle(s, st)[s] = "exited" /\ Ledger!Legal(st[s], "exited")
         /\ Settle(s, st)[s] # "none"
BY DEF Settle, Ledger!States

LEMMA InsertRowStep ==
  ASSUME KernelInv, NEW c \in Sessions, NEW rep \in Sessions \cup {NoSession},
         rep \in Sessions => state[rep] # "none",
         InsertRow(c, rep)
  PROVE  KernelInv' /\ RowsStep
<1> USE KernelAssumption
<1>1. started + 1 \in Procs
  BY DEF InsertRow, NewProc, KernelInv, TypeOK, Procs
<1>2. RowsStep
  BY DEF InsertRow, KernelInv, TypeOK, RowsStep, Ledger!RowBorn, Ledger!States
<1>3. TypeOK'
  BY <1>1 DEF InsertRow, NewProc, KernelInv, TypeOK, ProcRecord, Phases, Procs,
              Ledger!States, broker
<1>4. \A p \in Procs : proc'[p].phase # "absent" =>
        /\ proc'[p].sid \in Sessions /\ state'[proc'[p].sid] # "none"
        /\ proc'[p].repairs \in Sessions => state'[proc'[p].repairs] # "none"
  BY <1>1 DEF InsertRow, NewProc, KernelInv, TypeOK
<1> QED BY <1>2, <1>3, <1>4 DEF KernelInv, RowsStep

\* Steps that only mark one child, in the ledger's eyes: nothing moves.
LEMMA MarkStep ==
  ASSUME KernelInv, UNCHANGED <<rows, started>>, live' \in [Sessions -> 0..MaxProc],
         shuttingDown' \in BOOLEAN, closed' \in BOOLEAN, closing' \subseteq Procs,
         recycles' \in 0..MaxRecycle, crashes' \in 0..MaxCrash,
         proc' \in [Procs -> ProcRecord],
         \A p \in Procs : /\ proc'[p].sid = proc[p].sid
                          /\ proc'[p].repairs = proc[p].repairs
                          /\ proc'[p].phase # "absent" => proc[p].phase # "absent"
  PROVE  KernelInv' /\ RowsStep
<1>1. UNCHANGED <<state, native, pid, pty>>
  BY DEF rows
<1>2. TypeOK'
  BY <1>1 DEF KernelInv, TypeOK
<1>3. \A p \in Procs : proc'[p].phase # "absent" =>
        /\ proc'[p].sid \in Sessions /\ state'[proc'[p].sid] # "none"
        /\ proc'[p].repairs \in Sessions => state'[proc'[p].repairs] # "none"
  BY <1>1 DEF KernelInv
<1> QED BY <1>1, <1>2, <1>3, SameRows DEF KernelInv

LEMMA ResumeInPlaceStep ==
  ASSUME KernelInv, NEW s \in Sessions, ResumeInPlace(s)
  PROVE  KernelInv' /\ RowsStep
<1> USE KernelAssumption
<1>1. started + 1 \in Procs /\ state[s] \in Redrivable
  BY DEF ResumeInPlace, NewProc, KernelInv, TypeOK, Procs
<1>2. Ledger!Legal(state[s], "resumed") /\ state[s] # "none"
  BY <1>1 DEF Redrivable, Ledger!Legal, Ledger!LegalTransitions
<1>3. RowsStep
  BY <1>2 DEF ResumeInPlace, KernelInv, TypeOK, RowsStep, Ledger!RowMoves,
              Ledger!States
<1>4. TypeOK'
  BY <1>1 DEF ResumeInPlace, NewProc, KernelInv, TypeOK, ProcRecord, Phases, Procs,
              Ledger!States, broker
<1>5. \A p \in Procs : proc'[p].phase # "absent" =>
        /\ proc'[p].sid \in Sessions /\ state'[proc'[p].sid] # "none"
        /\ proc'[p].repairs \in Sessions => state'[proc'[p].repairs] # "none"
  BY <1>1 DEF ResumeInPlace, NewProc, KernelInv, TypeOK
<1> QED BY <1>3, <1>4, <1>5 DEF KernelInv, RowsStep

\* A step of one child p that moves the row of p along legal edges only.
LEMMA ChildStep ==
  ASSUME KernelInv, NEW p \in Procs, NEW ph \in Phases, ph # "absent",
         proc[p].phase # "absent",
         proc' = [proc EXCEPT ![p].phase = ph],
         UNCHANGED <<pid, pty, started, shuttingDown, closing, closed,
                     recycles, crashes>>,
         live' \in [Sessions -> 0..MaxProc],
         RowsStep
  PROVE  KernelInv'
<1>0. proc[p] \in ProcRecord /\ [proc[p] EXCEPT !.phase = ph] \in ProcRecord
  BY PhaseRecord DEF KernelInv, TypeOK
<1>1. TypeOK'
  BY <1>0 DEF KernelInv, TypeOK, RowsStep
<1>2. \A q \in Procs : proc'[q].phase # "absent" =>
        /\ proc'[q].sid = proc[q].sid /\ proc[q].phase # "absent"
        /\ proc'[q].repairs = proc[q].repairs
        /\ proc[q].sid \in Sessions /\ state[proc[q].sid] # "none"
        /\ proc[q].repairs \in Sessions => state[proc[q].repairs] # "none"
  BY <1>0, PhaseRecord DEF KernelInv, TypeOK
<1>3. \A s \in Sessions : state[s] # "none" => state'[s] # "none"
  BY DEF RowsStep, Ledger!RowBorn, Ledger!RowMoves, Ledger!Legal,
         Ledger!LegalTransitions, KernelInv, TypeOK, Ledger!States
<1> QED BY <1>1, <1>2, <1>3 DEF KernelInv, RowsStep

\* Settling one row is a step of the rows.
LEMMA SettleStep ==
  ASSUME KernelInv, NEW s \in Sessions, state[s] # "none",
         state' = Settle(s, state), UNCHANGED native
  PROVE  RowsStep
<1>1. state \in [Sessions -> Ledger!States \cup {"none"}]
  BY DEF KernelInv, TypeOK
<1>2. /\ state' \in [Sessions -> Ledger!States \cup {"none"}]
      /\ \A t \in Sessions : t # s => state'[t] = state[t]
      /\ \/ state'[s] = state[s]
         \/ state'[s] = "exited" /\ Ledger!Legal(state[s], "exited")
      /\ state'[s] # "none"
  BY <1>1, SettleLegal
<1> QED BY <1>2 DEF KernelInv, TypeOK, RowsStep, Ledger!RowMoves

LEMMA PumpEndStep ==
  ASSUME KernelInv, NEW s \in Sessions, UNCHANGED native,
         state' = IF state[s] \in Active
                  THEN [state EXCEPT ![s] = "exited"] ELSE state
  PROVE  RowsStep
BY DEF KernelInv, TypeOK, RowsStep, Active, Ledger!RowMoves, Ledger!Legal,
       Ledger!LegalTransitions, Ledger!States

\* The two rows of a repair fork move in one step, each along a legal edge.
LEMMA StartOkRows ==
  ASSUME KernelInv, NEW s \in Sessions, state[s] # "none", UNCHANGED native,
         NEW par \in Sessions \cup {NoSession},
         par \in Sessions => state[par] # "none",
         state' = IF par = NoSession THEN MarkRunning(s)
                  ELSE Settle(par, MarkRunning(s))
  PROVE  RowsStep
<1> DEFINE st == MarkRunning(s)
<1>1. /\ st \in [Sessions -> Ledger!States \cup {"none"}]
      /\ \A t \in Sessions : t # s => st[t] = state[t]
      /\ st[s] = IF state[s] = "spawning" THEN "running" ELSE state[s]
  BY DEF MarkRunning, KernelInv, TypeOK, Ledger!States
<1>2. \A t \in Sessions : state[t] # "none" => st[t] # "none"
  BY <1>1
<1> HIDE DEF st
<1>3. CASE par = NoSession
  BY <1>1, <1>2, <1>3 DEF st, KernelInv, TypeOK, RowsStep, Ledger!RowMoves,
     Ledger!Legal, Ledger!LegalTransitions
<1>4. CASE par # NoSession
  <2>1. par \in Sessions /\ st[par] # "none" /\ state' = Settle(par, st)
    BY <1>2, <1>4 DEF st
  <2>2. /\ state' \in [Sessions -> Ledger!States \cup {"none"}]
        /\ \A t \in Sessions : t # par => state'[t] = st[t]
        /\ \/ state'[par] = st[par]
           \/ state'[par] = "exited" /\ Ledger!Legal(st[par], "exited")
        /\ state'[par] # "none"
    BY <1>1, <2>1, SettleLegal
  <2> QED BY <1>1, <1>2, <2>1, <2>2 DEF KernelInv, TypeOK, RowsStep,
             Ledger!RowMoves, Ledger!Legal, Ledger!LegalTransitions
<1> QED BY <1>3, <1>4

LEMMA SpawnStep ==
  ASSUME KernelInv, NEW p \in Procs, Spawn(p)
  PROVE  KernelInv' /\ RowsStep
<1>1. proc[p].phase # "absent" /\ proc[p].sid \in Sessions
      /\ state[proc[p].sid] # "none"
  BY DEF Spawn, KernelInv
<1>2. RowsStep
  BY <1>1, SettleStep, SameRows DEF Spawn
<1>3. /\ UNCHANGED <<pid, pty, started, shuttingDown, closing, closed,
                     recycles, crashes, live>>
      /\ live' \in [Sessions -> 0..MaxProc]
  BY DEF Spawn, broker, KernelInv, TypeOK
<1>4. CASE shuttingDown
  BY <1>1, <1>2, <1>3, <1>4, ChildStep DEF Spawn, Phases
<1>5. CASE ~ shuttingDown
  BY <1>1, <1>2, <1>3, <1>5, ChildStep DEF Spawn, Phases
<1> QED BY <1>2, <1>4, <1>5

LEMMA StartFailStep ==
  ASSUME KernelInv, NEW p \in Procs, StartFail(p)
  PROVE  KernelInv' /\ RowsStep
<1>1. proc[p].phase # "absent" /\ proc[p].sid \in Sessions
      /\ state[proc[p].sid] # "none"
  BY DEF StartFail, KernelInv
<1>2. RowsStep
  BY <1>1, SettleStep DEF StartFail
<1>3. /\ UNCHANGED <<pid, pty, started, shuttingDown, closing, closed,
                     recycles, crashes, live>>
      /\ live' \in [Sessions -> 0..MaxProc]
  BY DEF StartFail, broker, KernelInv, TypeOK
<1> QED BY <1>1, <1>2, <1>3, ChildStep DEF StartFail, Phases

LEMMA StartOkStep ==
  ASSUME KernelInv, NEW p \in Procs, StartOk(p)
  PROVE  KernelInv' /\ RowsStep
<1>1. /\ proc[p].phase # "absent" /\ proc[p].sid \in Sessions
      /\ state[proc[p].sid] # "none"
      /\ proc[p].repairs \in Sessions \cup {NoSession}
      /\ proc[p].repairs \in Sessions => state[proc[p].repairs] # "none"
  BY DEF StartOk, KernelInv, TypeOK, ProcRecord
<1>2. RowsStep
  BY <1>1, StartOkRows DEF StartOk
<1>3. /\ UNCHANGED <<pid, pty, started, shuttingDown, closing, closed,
                     recycles, crashes>>
      /\ live' \in [Sessions -> 0..MaxProc]
  <2>1. p \in 0..MaxProc
    BY KernelAssumption DEF Procs
  <2> QED BY <2>1 DEF StartOk, KernelInv, TypeOK
<1> QED BY <1>1, <1>2, <1>3, ChildStep DEF StartOk, Phases

LEMMA PumpInitStep ==
  ASSUME KernelInv, NEW p \in Procs, PumpInit(p)
  PROVE  KernelInv' /\ RowsStep
<1>1. proc[p].phase # "absent" /\ proc[p].sid \in Sessions
      /\ state[proc[p].sid] # "none"
  BY DEF PumpInit, KernelInv
<1>2. RowsStep
  BY <1>1 DEF PumpInit, RowsStep, KernelInv, TypeOK
<1>3. TypeOK'
  BY DEF PumpInit, broker, KernelInv, TypeOK
<1> QED BY <1>2, <1>3 DEF PumpInit, KernelInv, RowsStep

LEMMA PumpEndKernelStep ==
  ASSUME KernelInv, NEW p \in Procs, PumpEnd(p)
  PROVE  KernelInv' /\ RowsStep
<1>1. proc[p].phase # "absent" /\ proc[p].sid \in Sessions
  BY DEF PumpEnd, KernelInv
<1>2. RowsStep
  BY <1>1, PumpEndStep DEF PumpEnd
<1>3. /\ UNCHANGED <<pid, pty, started, shuttingDown, closing, closed,
                     recycles, crashes>>
      /\ live' \in [Sessions -> 0..MaxProc]
  <2>1. 0 \in 0..MaxProc
    BY KernelAssumption
  <2> QED BY <2>1 DEF PumpEnd, KernelInv, TypeOK
<1> QED BY <1>1, <1>2, <1>3, ChildStep DEF PumpEnd, Phases

LEMMA PtyExitStep ==
  ASSUME KernelInv, NEW p \in Procs, PtyExit(p)
  PROVE  KernelInv' /\ RowsStep
<1>1. proc[p].phase # "absent" /\ proc[p].sid \in Sessions
  BY DEF PtyExit, KernelInv
<1>2. RowsStep
  BY <1>1, PumpEndStep DEF PtyExit
<1>3. /\ UNCHANGED <<pid, pty, started, shuttingDown, closing, closed,
                     recycles, crashes, live>>
      /\ live' \in [Sessions -> 0..MaxProc]
  BY DEF PtyExit, broker, KernelInv, TypeOK
<1> QED BY <1>1, <1>2, <1>3, ChildStep DEF PtyExit, Phases

LEMMA OrphanDiesStep ==
  ASSUME KernelInv, NEW p \in Procs, OrphanDies(p)
  PROVE  KernelInv' /\ RowsStep
<1>1. proc[p].phase # "absent" /\ UNCHANGED <<state, native>>
  BY DEF OrphanDies, rows
<1>2. RowsStep
  BY <1>1, SameRows
<1>3. /\ UNCHANGED <<pid, pty, started, shuttingDown, closing, closed,
                     recycles, crashes, live>>
      /\ live' \in [Sessions -> 0..MaxProc]
  BY DEF OrphanDies, rows, broker, KernelInv, TypeOK
<1> QED BY <1>1, <1>2, <1>3, ChildStep DEF OrphanDies, Phases

LEMMA PtyLaunchStep ==
  ASSUME KernelInv, NEW s \in Sessions, PtyLaunch(s)
  PROVE  KernelInv' /\ RowsStep
<1> USE KernelAssumption
<1>1. started + 1 \in Procs /\ started + 1 \in 0..MaxProc /\ started' \in 0..MaxProc
  BY DEF PtyLaunch, NewProc, KernelInv, TypeOK, Procs
<1>2. RowsStep
  BY DEF PtyLaunch, KernelInv, TypeOK, RowsStep, Ledger!RowBorn, Ledger!States
<1>3. TypeOK'
  BY <1>1 DEF PtyLaunch, NewProc, KernelInv, TypeOK, ProcRecord, Phases,
              Ledger!States, broker
<1>4. \A p \in Procs : proc'[p].phase # "absent" =>
        /\ proc'[p].sid \in Sessions /\ state'[proc'[p].sid] # "none"
        /\ proc'[p].repairs \in Sessions => state'[proc'[p].repairs] # "none"
  BY <1>1 DEF PtyLaunch, NewProc, KernelInv, TypeOK
<1> QED BY <1>2, <1>3, <1>4 DEF KernelInv, RowsStep

LEMMA PtyRecycleStep ==
  ASSUME KernelInv, NEW p \in Procs, PtyRecycle(p)
  PROVE  KernelInv' /\ RowsStep
<1> USE KernelAssumption
<1> DEFINE s == proc[p].sid
<1>1. started + 1 \in Procs /\ started + 1 \in 0..MaxProc /\ started' \in 0..MaxProc
      /\ recycles' \in 0..MaxRecycle
  BY DEF PtyRecycle, KernelInv, TypeOK, Procs
<1>2. s \in Sessions /\ state[s] # "none" /\ Ledger!Legal(state[s], "resumed")
  BY DEF PtyRecycle, KernelInv
<1>3. RowsStep
  BY <1>2 DEF PtyRecycle, KernelInv, TypeOK, RowsStep, Ledger!RowMoves,
              Ledger!States
<1>4. TypeOK'
  BY <1>1, <1>2 DEF PtyRecycle, KernelInv, TypeOK, ProcRecord, Phases, Ledger!States, broker
<1>5. \A q \in Procs : proc'[q].phase # "absent" =>
        /\ proc'[q].sid \in Sessions /\ state'[proc'[q].sid] # "none"
        /\ proc'[q].repairs \in Sessions => state'[proc'[q].repairs] # "none"
  BY <1>1, <1>2 DEF PtyRecycle, KernelInv, TypeOK, ProcRecord
<1> QED BY <1>3, <1>4, <1>5 DEF KernelInv, RowsStep

LEMMA AbortStep ==
  ASSUME KernelInv, NEW s \in Sessions, Abort(s)
  PROVE  KernelInv' /\ RowsStep
<1>0. live[s] \in Procs /\ proc[live[s]] \in ProcRecord
  BY KernelAssumption DEF Abort, NotLive, KernelInv, TypeOK, Procs
<1>a. [proc[live[s]] EXCEPT !.aborted = TRUE] \in ProcRecord
  BY <1>0, AbortRecord
<1>1. /\ proc' \in [Procs -> ProcRecord]
      /\ \A p \in Procs : /\ proc'[p].sid = proc[p].sid
                          /\ proc'[p].repairs = proc[p].repairs
                          /\ proc'[p].phase = proc[p].phase
  BY <1>0, <1>a, AbortRecord DEF Abort, KernelInv, TypeOK
<1> QED BY <1>1, MarkStep DEF Abort, broker, KernelInv, TypeOK

LEMMA ShutdownStep ==
  ASSUME KernelInv, Shutdown \/ ShutdownDone
  PROVE  KernelInv' /\ RowsStep
<1>1. CASE Shutdown
  <2>1. \A p \in Procs : (p \in closing') \in BOOLEAN
    OBVIOUS
  <2>2. closing' \subseteq Procs
    BY <1>1 DEF Shutdown
  <2>3. /\ proc' \in [Procs -> ProcRecord]
        /\ \A p \in Procs : /\ proc'[p].sid = proc[p].sid
                            /\ proc'[p].repairs = proc[p].repairs
                            /\ proc'[p].phase = proc[p].phase
    <3> DEFINE b(p) == proc[p].aborted \/ p \in closing'
               r(p) == [proc[p] EXCEPT !.aborted = b(p)]
    <3>1. \A p \in Procs : b(p) \in BOOLEAN /\ proc[p] \in ProcRecord
      BY DEF KernelInv, TypeOK
    <3>2. proc' = [p \in Procs |-> r(p)]
      BY <1>1 DEF Shutdown
    <3> HIDE DEF b
    <3>3. \A p \in Procs : /\ r(p) \in ProcRecord
                           /\ r(p).sid = proc[p].sid
                           /\ r(p).repairs = proc[p].repairs
                           /\ r(p).phase = proc[p].phase
      BY <3>1, AbortRecord
    <3> HIDE DEF r
    <3> QED BY <3>2, <3>3
  <2> QED BY <1>1, <2>2, <2>3, MarkStep DEF Shutdown, KernelInv, TypeOK
<1>2. CASE ShutdownDone
  BY <1>2, MarkStep DEF ShutdownDone, KernelInv, TypeOK
<1> QED BY <1>1, <1>2

LEMMA RestartStep ==
  ASSUME KernelInv, NEW sv \in SUBSET Procs, Restart(sv)
  PROVE  KernelInv' /\ RowsStep
<1>1. /\ proc' \in [Procs -> ProcRecord]
      /\ \A p \in Procs : /\ proc'[p].sid = proc[p].sid
                          /\ proc'[p].repairs = proc[p].repairs
                          /\ proc'[p].phase # "absent" => proc[p].phase # "absent"
  BY DEF Restart, Alive, Phases, KernelInv, TypeOK, ProcRecord
<1>2. 0 \in 0..MaxProc /\ crashes' \in 0..MaxCrash
  BY KernelAssumption DEF Restart, KernelInv, TypeOK
<1>3. live' \in [Sessions -> 0..MaxProc]
  BY <1>2 DEF Restart
<1> QED BY <1>1, <1>2, <1>3, MarkStep DEF Restart, KernelInv, TypeOK

\* Every step of the kernel and of the PTY host keeps the invariant and is a
\* step of the ledger's rows.
LEMMA NextStep ==
  ASSUME KernelInv, Next
  PROVE  KernelInv' /\ RowsStep
<1>1. ASSUME NEW s \in Sessions, Launch(s) PROVE KernelInv' /\ RowsStep
  BY <1>1, InsertRowStep, KernelAssumption DEF Launch
<1>2. ASSUME NEW s \in Sessions, NEW c \in Sessions, ResumeFork(s, c)
      PROVE  KernelInv' /\ RowsStep
  BY <1>2, InsertRowStep, KernelAssumption DEF ResumeFork
<1>3. ASSUME NEW s \in Sessions, NEW c \in Sessions, ResumeRepair(s, c)
      PROVE  KernelInv' /\ RowsStep
  <2>1. state[s] # "none" /\ InsertRow(c, s)
    BY <1>3 DEF ResumeRepair, Redrivable
  <2> QED BY <2>1, InsertRowStep
<1> QED BY <1>1, <1>2, <1>3, ResumeInPlaceStep, AbortStep, PtyLaunchStep,
           SpawnStep, StartOkStep, StartFailStep, PumpInitStep,
           PumpEndKernelStep, OrphanDiesStep, PtyRecycleStep, PtyExitStep,
           ShutdownStep, RestartStep DEF Next

\* Whatever was started, and whatever has a native id, has a ledger row: ROW
\* BEFORE SPAWN for every interleaving of launches, resumes, crashes and PTY
\* operations.
THEOREM KernelInvariant == Spec => []KernelInv
<1>1. KernelInv /\ UNCHANGED vars => KernelInv'
  BY DEF vars, KernelInv, TypeOK
<1>2. KernelInv /\ [Next]_vars => KernelInv'
  BY <1>1, NextStep
<1> QED BY <1>2, InitKernelInv, PTL DEF Spec

\* The kernel and the PTY host implement the ledger's state machine.
THEOREM KernelImplementsLedger == Spec => LedgerLegal
<1>1. Init => Ledger!Init
  BY DEF Init, Ledger!Init
<1>2. KernelInv /\ [Next]_vars => [Ledger!Next]_(Ledger!vars)
  <2>1. ASSUME KernelInv, UNCHANGED vars PROVE UNCHANGED Ledger!vars
    BY <2>1 DEF vars, Ledger!vars
  <2>2. ASSUME KernelInv, Next PROVE Ledger!Next
    <3>1. RowsStep
      BY <2>2, NextStep
    <3> QED BY <3>1 DEF RowsStep, Ledger!Next, Ledger!RowStep
  <2> QED BY <2>1, <2>2
<1> QED BY <1>1, <1>2, KernelInvariant, PTL DEF Spec, LedgerLegal, Ledger!Spec

-----------------------------------------------------------------------------
(* The double-resume block. *)

\* A call that has not got its child yet.
InFlight(p) == proc[p].phase \in {"inserted", "starting"}

\* A child that drives its session, or is about to.
Engaged(p) == InFlight(p) \/ Alive(p)

UnusedAbsent == \A p \in Procs : p > started => proc[p].phase = "absent"

OneEngaged ==
  \A p, q \in Procs :
    (p # q /\ Engaged(p) /\ Engaged(q)) => proc[p].sid # proc[q].sid

\* Only PTY children survive a broker, and the pid of the row is theirs: what
\* the probe of resume asks about is what runs.
HostKnown ==
  \A p \in Procs :
    /\ InFlight(p) => proc[p].host = "sdk"
    /\ proc[p].phase = "orphan" => proc[p].host = "pty"
    /\ (Alive(p) /\ proc[p].host = "pty") =>
         /\ pid[proc[p].sid] = p /\ pty[proc[p].sid]
         /\ state[proc[p].sid] \in {"running", "resumed", "exited"}

LiveIsSdk == \A s \in Sessions : live[s] # 0 => proc[live[s]].host = "sdk"

\* The parent a repair fork will settle has no SDK child of its own.
ParentIdle ==
  \A p, q \in Procs :
    (InFlight(p) /\ Engaged(q) /\ proc[q].host = "sdk")
      => proc[p].repairs # proc[q].sid

DriveInv ==
  /\ UnusedAbsent /\ OneEngaged /\ HostKnown /\ LiveIsSdk /\ ParentIdle
  /\ ChildTracked

LEMMA InitDriveInv == Init => DriveInv
BY KernelAssumption
DEF Init, NoProc, Procs, DriveInv, UnusedAbsent, OneEngaged, HostKnown,
    LiveIsSdk, ParentIdle, ChildTracked, Engaged, InFlight, Alive

LEMMA DriveGivesNoDouble == DriveInv => NoDoubleDrive
BY DEF DriveInv, OneEngaged, Engaged, NoDoubleDrive

\* What is the same, and what is not, when one child changes its phase.
LEMMA PhaseChange ==
  ASSUME KernelInv, NEW p \in Procs, NEW ph \in Phases,
         proc' = [proc EXCEPT ![p].phase = ph]
  PROVE  /\ proc'[p].phase = ph
         /\ \A q \in Procs : /\ proc'[q].sid = proc[q].sid
                             /\ proc'[q].repairs = proc[q].repairs
                             /\ proc'[q].host = proc[q].host
                             /\ q # p => proc'[q].phase = proc[q].phase
BY DEF KernelInv, TypeOK, ProcRecord

\* A child that goes down, with its row if that is not exited yet.
LEMMA ChildEndsDrive ==
  ASSUME KernelInv, DriveInv, NEW p \in Procs, Engaged(p),
         proc' = [proc EXCEPT ![p].phase = "down"],
         UNCHANGED <<pid, pty, started>>,
         state' \in [Sessions -> Ledger!States \cup {"none"}],
         \A s \in Sessions : \/ state'[s] = state[s]
                             \/ s = proc[p].sid /\ state'[s] = "exited",
         \/ live' = [live EXCEPT ![proc[p].sid] = 0]
         \/ live' = live /\ live[proc[p].sid] # p
  PROVE  DriveInv'
<1>1. /\ proc'[p].phase = "down" /\ UNCHANGED <<pid, pty, started>>
      /\ \A q \in Procs : /\ proc'[q].sid = proc[q].sid
                          /\ proc'[q].repairs = proc[q].repairs
                          /\ proc'[q].host = proc[q].host
                          /\ q # p => proc'[q].phase = proc[q].phase
  BY PhaseChange DEF Phases
<1>2. proc[p].sid \in Sessions
  BY DEF Engaged, InFlight, Alive, KernelInv
<1>3. \A s \in Sessions : live[s] \in Procs \/ live[s] = 0
  BY KernelAssumption DEF KernelInv, TypeOK, Procs
<1>4. \A q \in Procs : Engaged(q)' => /\ q # p /\ Engaged(q)
                                      /\ proc[q].sid \in Sessions
                                      /\ proc[q].sid # proc[p].sid
                                      /\ proc'[q].phase = proc[q].phase
                                      /\ state'[proc[q].sid] = state[proc[q].sid]
                                      /\ live'[proc[q].sid] = live[proc[q].sid]
  BY <1>1, <1>2 DEF Engaged, InFlight, Alive, DriveInv, OneEngaged, KernelInv,
                    TypeOK
<1>5. \A s \in Sessions : live'[s] # 0 => /\ live'[s] = live[s] /\ live[s] # p
                                          /\ live[s] \in Procs
                                          /\ s # proc[p].sid
  BY <1>1, <1>2, <1>3 DEF DriveInv, ChildTracked, KernelInv, TypeOK, OneEngaged, Engaged,
     Alive
<1>6. UnusedAbsent'
  BY <1>1 DEF DriveInv, UnusedAbsent, Engaged, InFlight, Alive
<1>7. OneEngaged'
  BY <1>1, <1>4 DEF DriveInv, OneEngaged
<1>8. HostKnown'
  BY <1>1, <1>4 DEF DriveInv, HostKnown, Engaged, InFlight, Alive
<1>9. LiveIsSdk'
  BY <1>1, <1>5 DEF DriveInv, LiveIsSdk
<1>10. ParentIdle'
  BY <1>1, <1>4 DEF DriveInv, ParentIdle, Engaged, InFlight
<1>11. ChildTracked'
  <2>1. \A q \in Procs :
          /\ proc'[q].phase \in {"inserted", "starting", "up"}
          /\ proc'[q].host = "sdk"
          => state'[proc'[q].sid] \in Active
    BY <1>1, <1>4 DEF DriveInv, ChildTracked, Engaged, InFlight, Alive
  <2>2. \A s \in Sessions : live'[s] # 0 =>
          /\ proc'[live'[s]].phase = "up" /\ proc'[live'[s]].sid = s
          /\ state'[s] \in {"running", "resumed"}
    BY <1>1, <1>5 DEF DriveInv, ChildTracked
  <2>3. \A q \in Procs : (proc'[q].phase = "up" /\ live'[proc'[q].sid] # q)
                            => proc'[q].host = "pty"
    BY <1>1, <1>4 DEF DriveInv, ChildTracked, Engaged, InFlight, Alive
  <2> QED BY <2>1, <2>2, <2>3 DEF ChildTracked
<1> QED BY <1>6, <1>7, <1>8, <1>9, <1>10, <1>11 DEF DriveInv

\* A new entry of proc for session s, which nothing drives.
LEMMA NewChildDrive ==
  ASSUME KernelInv, DriveInv, NEW s \in Sessions,
         NEW ph \in {"inserted", "starting", "up"}, NEW h \in {"sdk", "pty"},
         NEW rep \in Sessions \cup {NoSession},
         NewProc(s, ph, rep, h), UNCHANGED live,
         \A q \in Procs : Engaged(q) => proc[q].sid # s,
         h = "sdk" => ph # "up" /\ \A q \in Procs : InFlight(q) => proc[q].repairs # s,
         ph # "up" => h = "sdk",
         rep # s,
         \A q \in Procs : (Engaged(q) /\ proc[q].host = "sdk")
                             => proc[q].sid # rep,
         state' \in [Sessions -> Ledger!States \cup {"none"}],
         pid' \in [Sessions -> 0..MaxProc], pty' \in [Sessions -> BOOLEAN],
         \A t \in Sessions : t # s => /\ state'[t] = state[t]
                                      /\ pid'[t] = pid[t] /\ pty'[t] = pty[t],
         state'[s] \in Active,
         h = "pty" => /\ pid'[s] = started + 1 /\ pty'[s]
                      /\ state'[s] \in {"running", "resumed"}
  PROVE  DriveInv'
<1>0. PICK n \in Procs : n = started + 1
  BY KernelAssumption DEF NewProc, KernelInv, TypeOK, Procs
<1>1. /\ n > started /\ started' = n
      /\ proc[n].phase = "absent" /\ n # 0
  BY <1>0, KernelAssumption
  DEF NewProc, KernelInv, TypeOK, Procs, DriveInv, UnusedAbsent
<1>2. /\ proc'[n].sid = s /\ proc'[n].phase = ph /\ proc'[n].host = h
      /\ proc'[n].repairs = rep
      /\ \A q \in Procs : q # n => proc'[q] = proc[q]
  BY <1>0, <1>1 DEF NewProc, KernelInv, TypeOK
<1>3. \A t \in Sessions : live[t] \in Procs \/ live[t] = 0
  BY KernelAssumption DEF KernelInv, TypeOK, Procs
<1>4. \A q \in Procs : q # n /\ Engaged(q) =>
        /\ proc[q].sid \in Sessions /\ proc[q].sid # s
        /\ state'[proc[q].sid] = state[proc[q].sid]
        /\ pid'[proc[q].sid] = pid[proc[q].sid]
        /\ pty'[proc[q].sid] = pty[proc[q].sid]
  BY DEF Engaged, InFlight, Alive, KernelInv
<1>5. \A q \in Procs : q # n => /\ Engaged(q)' <=> Engaged(q)
                                /\ InFlight(q)' <=> InFlight(q)
                                /\ Alive(q)' <=> Alive(q)
  BY <1>2 DEF Engaged, InFlight, Alive
<1>6. \A t \in Sessions : live[t] # 0 => live[t] # n /\ t # s
  BY <1>1, <1>3 DEF DriveInv, ChildTracked, Engaged, Alive
<1>7. /\ InFlight(n)' <=> ph # "up"
      /\ Alive(n)' <=> ph = "up"
      /\ proc'[n].phase # "orphan"
  BY <1>2 DEF InFlight, Alive
<1>8. UnusedAbsent'
  <2> SUFFICES ASSUME NEW q \in Procs, q > started' PROVE proc'[q].phase = "absent"
    BY DEF UnusedAbsent
  <2>1. q # n /\ q > started
    BY <1>0, <1>1 DEF Procs, KernelInv, TypeOK
  <2> QED BY <1>2, <2>1 DEF DriveInv, UnusedAbsent
<1>9. OneEngaged'
  <2> SUFFICES ASSUME NEW q \in Procs, NEW r \in Procs, q # r,
                      Engaged(q)', Engaged(r)'
               PROVE  proc'[q].sid # proc'[r].sid
    BY DEF OneEngaged
  <2>1. CASE q = n
    BY <1>2, <1>4, <2>1 DEF Engaged, InFlight, Alive
  <2>2. CASE r = n
    BY <1>2, <1>4, <2>2 DEF Engaged, InFlight, Alive
  <2>3. CASE q # n /\ r # n
    BY <1>2, <2>3 DEF DriveInv, OneEngaged, Engaged, InFlight, Alive
  <2> QED BY <2>1, <2>2, <2>3
<1>10. HostKnown'
  <2> SUFFICES ASSUME NEW q \in Procs
               PROVE /\ InFlight(q)' => proc'[q].host = "sdk"
                     /\ proc'[q].phase = "orphan" => proc'[q].host = "pty"
                     /\ (Alive(q)' /\ proc'[q].host = "pty") =>
                          /\ pid'[proc'[q].sid] = q /\ pty'[proc'[q].sid]
                          /\ state'[proc'[q].sid] \in {"running", "resumed", "exited"}
    BY DEF HostKnown
  <2>1. CASE q = n
    BY <1>0, <1>2, <1>7, <2>1
  <2>2. CASE q # n
    BY <1>2, <1>4, <1>5, <2>2 DEF DriveInv, HostKnown, Engaged
  <2> QED BY <2>1, <2>2
<1>11. LiveIsSdk'
  BY <1>2, <1>3, <1>6 DEF DriveInv, LiveIsSdk
<1>12. ParentIdle'
  <2> SUFFICES ASSUME NEW q \in Procs, NEW r \in Procs,
                      InFlight(q)', Engaged(r)', proc'[r].host = "sdk"
               PROVE  proc'[q].repairs # proc'[r].sid
    BY DEF ParentIdle
  <2>1. CASE q = n /\ r = n
    BY <1>2, <2>1 DEF Engaged, InFlight, Alive
  <2>2. CASE q = n /\ r # n
    BY <1>2, <2>2 DEF Engaged, InFlight, Alive
  <2>3. CASE q # n /\ r = n
    BY <1>2, <2>3 DEF Engaged, InFlight, Alive
  <2>4. CASE q # n /\ r # n
    BY <1>2, <2>4 DEF DriveInv, ParentIdle, Engaged, InFlight, Alive
  <2> QED BY <2>1, <2>2, <2>3, <2>4
<1>13. ChildTracked'
  <2>1. \A q \in Procs :
          /\ proc'[q].phase \in {"inserted", "starting", "up"}
          /\ proc'[q].host = "sdk"
          => state'[proc'[q].sid] \in Active
    BY <1>2, <1>4 DEF DriveInv, ChildTracked, Engaged, InFlight, Alive
  <2>2. \A t \in Sessions : live'[t] # 0 =>
          /\ proc'[live'[t]].phase = "up" /\ proc'[live'[t]].sid = t
          /\ state'[t] \in {"running", "resumed"}
    BY <1>2, <1>3, <1>6 DEF DriveInv, ChildTracked
  <2>3. \A q \in Procs : (proc'[q].phase = "up" /\ live'[proc'[q].sid] # q)
                            => proc'[q].host = "pty"
    BY <1>2 DEF DriveInv, ChildTracked
  <2> QED BY <2>1, <2>2, <2>3 DEF ChildTracked
<1> QED BY <1>8, <1>9, <1>10, <1>11, <1>12, <1>13 DEF DriveInv

\* A session without a row has neither a child nor a repair that names it.
LEMMA NoRowNoChild ==
  ASSUME KernelInv, NEW s \in Sessions, state[s] = "none"
  PROVE  \A q \in Procs : Engaged(q) => proc[q].sid # s /\ proc[q].repairs # s
BY DEF KernelInv, Engaged, InFlight, Alive

\* A row a client may re-drive or repair has no SDK child and no call.
LEMMA ResumableIdle ==
  ASSUME KernelInv, DriveInv, ~ ConcurrentCalls, NEW s \in Sessions,
         CallAllowed(s), NotLive(s)
  PROVE  \A q \in Procs :
           /\ InFlight(q) => proc[q].sid # s /\ proc[q].repairs # s
           /\ (Engaged(q) /\ proc[q].host = "sdk") => proc[q].sid # s
<1> SUFFICES ASSUME NEW q \in Procs
             PROVE /\ InFlight(q) => proc[q].sid # s /\ proc[q].repairs # s
                   /\ (Engaged(q) /\ proc[q].host = "sdk") => proc[q].sid # s
  OBVIOUS
<1>1. InFlight(q) => proc[q].sid # s /\ proc[q].repairs # s
  BY DEF CallAllowed, Busy, InFlight
<1>2. (Alive(q) /\ proc[q].host = "sdk") => proc[q].sid # s
  <2> SUFFICES ASSUME Alive(q), proc[q].host = "sdk", proc[q].sid = s
               PROVE  FALSE
    OBVIOUS
  <2>1. proc[q].phase = "up"
    BY DEF Alive, DriveInv, HostKnown
  <2>2. live[s] = q
    BY <2>1 DEF DriveInv, ChildTracked
  <2> QED BY <2>2 DEF NotLive, Procs
<1> QED BY <1>1, <1>2 DEF Engaged

LEMMA InsertRowDrive ==
  ASSUME KernelInv, DriveInv, NEW c \in Sessions,
         NEW rep \in Sessions \cup {NoSession},
         rep \in Sessions => state[rep] # "none",
         \A q \in Procs : (Engaged(q) /\ proc[q].host = "sdk")
                             => proc[q].sid # rep,
         InsertRow(c, rep)
  PROVE  DriveInv'
<1>1. \A q \in Procs : Engaged(q) => proc[q].sid # c /\ proc[q].repairs # c
  BY NoRowNoChild DEF InsertRow
<1>2. /\ UNCHANGED <<pid, pty, live>> /\ NewProc(c, "inserted", rep, "sdk")
      /\ state' = [state EXCEPT ![c] = "spawning"]
      /\ rep # c
  BY KernelAssumption DEF InsertRow, broker
<1>3. /\ state' \in [Sessions -> Ledger!States \cup {"none"}]
      /\ \A t \in Sessions : t # c => state'[t] = state[t]
      /\ state'[c] \in Active
  BY <1>2 DEF KernelInv, TypeOK, Ledger!States, Active
<1> QED BY <1>1, <1>2, <1>3, NewChildDrive DEF KernelInv, TypeOK, Engaged

LEMMA LaunchDrive ==
  ASSUME KernelInv, DriveInv, NEW s \in Sessions, Launch(s)
  PROVE  DriveInv'
<1>1. \A q \in Procs : Engaged(q) => proc[q].sid # NoSession
  BY KernelAssumption DEF KernelInv, Engaged, InFlight, Alive
<1> QED BY <1>1, InsertRowDrive, KernelAssumption DEF Launch

LEMMA ResumeForkDrive ==
  ASSUME KernelInv, DriveInv, NEW s \in Sessions, NEW c \in Sessions,
         ResumeFork(s, c)
  PROVE  DriveInv'
<1>1. \A q \in Procs : Engaged(q) => proc[q].sid # NoSession
  BY KernelAssumption DEF KernelInv, Engaged, InFlight, Alive
<1> QED BY <1>1, InsertRowDrive, KernelAssumption DEF ResumeFork

LEMMA ResumeRepairDrive ==
  ASSUME KernelInv, DriveInv, ~ ConcurrentCalls, NEW s \in Sessions,
         NEW c \in Sessions, ResumeRepair(s, c)
  PROVE  DriveInv'
<1>1. \A q \in Procs : (Engaged(q) /\ proc[q].host = "sdk") => proc[q].sid # s
  BY ResumableIdle DEF ResumeRepair
<1>2. state[s] # "none" /\ InsertRow(c, s)
  BY DEF ResumeRepair, Redrivable
<1> QED BY <1>1, <1>2, InsertRowDrive

\* The heart of the block: what the guards of resume look at (the live map,
\* the recorded pid of a running row) leaves no child of the session out.
LEMMA ResumeInPlaceDrive ==
  ASSUME KernelInv, DriveInv, ~ ConcurrentCalls, ~ ResumeRecycled,
         NEW s \in Sessions, ResumeInPlace(s)
  PROVE  DriveInv'
<1>1. CallAllowed(s) /\ NotLive(s) /\ state[s] \in Redrivable /\ PidClear(s)
  BY DEF ResumeInPlace
<1>2. \A q \in Procs :
        /\ InFlight(q) => proc[q].sid # s /\ proc[q].repairs # s
        /\ (Engaged(q) /\ proc[q].host = "sdk") => proc[q].sid # s
  BY <1>1, ResumableIdle
<1>3. \A q \in Procs : Engaged(q) => proc[q].sid # s
  <2> SUFFICES ASSUME NEW q \in Procs, Alive(q), proc[q].sid = s,
                      proc[q].host = "pty"
               PROVE  FALSE
    BY <1>2 DEF Engaged, KernelInv, TypeOK, ProcRecord
  <2>1. pid[s] = q /\ pty[s] /\ state[s] \in {"running", "resumed", "exited"}
    BY DEF DriveInv, HostKnown
  <2>2. state[s] # "resumed"
    BY <1>1, <2>1 DEF CallAllowed
  <2>3. state[s] = "running"
    BY <1>1, <2>1, <2>2 DEF Redrivable
  <2> QED BY <1>1, <2>1, <2>3 DEF PidClear, Procs
<1>4. /\ UNCHANGED <<pid, pty, live>>
      /\ NewProc(s, "starting", NoSession, "sdk")
      /\ state' = [state EXCEPT ![s] = "resumed"]
      /\ NoSession # s
      /\ \A q \in Procs : Engaged(q) => proc[q].sid # NoSession
  BY KernelAssumption DEF ResumeInPlace, broker, KernelInv, Engaged, InFlight,
     Alive
<1>5. /\ state' \in [Sessions -> Ledger!States \cup {"none"}]
      /\ \A t \in Sessions : t # s => state'[t] = state[t]
      /\ state'[s] \in Active
  BY <1>4 DEF KernelInv, TypeOK, Ledger!States, Active
<1> QED BY <1>2, <1>3, <1>4, <1>5, NewChildDrive DEF KernelInv, TypeOK

LEMMA PtyLaunchDrive ==
  ASSUME KernelInv, DriveInv, NEW s \in Sessions, PtyLaunch(s)
  PROVE  DriveInv'
<1>1. \A q \in Procs : Engaged(q) => proc[q].sid # s /\ proc[q].repairs # s
  BY NoRowNoChild DEF PtyLaunch
<1>2. /\ UNCHANGED live /\ NewProc(s, "up", NoSession, "pty")
      /\ started + 1 \in 0..MaxProc
      /\ NoSession # s
      /\ \A q \in Procs : Engaged(q) => proc[q].sid # NoSession
  BY KernelAssumption DEF PtyLaunch, NewProc, broker, KernelInv, TypeOK,
     Engaged, InFlight, Alive
<1>3. /\ state' \in [Sessions -> Ledger!States \cup {"none"}]
      /\ pid' \in [Sessions -> 0..MaxProc] /\ pty' \in [Sessions -> BOOLEAN]
      /\ \A t \in Sessions : t # s => /\ state'[t] = state[t]
                                      /\ pid'[t] = pid[t] /\ pty'[t] = pty[t]
      /\ state'[s] = "running" /\ pid'[s] = started + 1 /\ pty'[s]
  BY <1>2 DEF PtyLaunch, KernelInv, TypeOK, Ledger!States
<1>4. state'[s] \in Active
  BY <1>3 DEF Active
<1> QED BY <1>1, <1>2, <1>3, <1>4, NewChildDrive

\* Steps that touch neither rows nor phases nor the live map.
LEMMA FlagsDrive ==
  ASSUME DriveInv, UNCHANGED <<state, pid, pty, started, live>>,
         \A q \in Procs : /\ proc'[q].sid = proc[q].sid
                          /\ proc'[q].repairs = proc[q].repairs
                          /\ proc'[q].host = proc[q].host
                          /\ proc'[q].phase = proc[q].phase,
         \A s \in Sessions : live[s] \in Procs \/ live[s] = 0
  PROVE  DriveInv'
<1>1. UnusedAbsent' /\ OneEngaged' /\ HostKnown' /\ LiveIsSdk' /\ ParentIdle'
  BY DEF DriveInv, UnusedAbsent, OneEngaged, HostKnown, LiveIsSdk, ParentIdle,
         Engaged, InFlight, Alive
<1>2. ChildTracked'
  BY DEF DriveInv, ChildTracked
<1> QED BY <1>1, <1>2 DEF DriveInv

LEMMA LiveInProcs ==
  ASSUME KernelInv
  PROVE  \A s \in Sessions : live[s] \in Procs \/ live[s] = 0
BY KernelAssumption DEF KernelInv, TypeOK, Procs

LEMMA FlagStepsDrive ==
  ASSUME KernelInv, DriveInv,
         \/ \E s \in Sessions : Abort(s)
         \/ \E p \in Procs : PumpInit(p)
         \/ Shutdown \/ ShutdownDone
  PROVE  DriveInv'
<1>1. UNCHANGED <<state, pid, pty, started, live>>
  BY DEF Abort, PumpInit, Shutdown, ShutdownDone, rows, broker
<1>2. \A q \in Procs : /\ proc'[q].sid = proc[q].sid
                       /\ proc'[q].repairs = proc[q].repairs
                       /\ proc'[q].host = proc[q].host
                       /\ proc'[q].phase = proc[q].phase
  <2>1. ASSUME NEW s \in Sessions, Abort(s)
        PROVE  \A q \in Procs : /\ proc'[q].sid = proc[q].sid
                                /\ proc'[q].repairs = proc[q].repairs
                                /\ proc'[q].host = proc[q].host
                                /\ proc'[q].phase = proc[q].phase
    BY <2>1 DEF Abort, KernelInv, TypeOK, ProcRecord
  <2>2. ASSUME Shutdown
        PROVE  \A q \in Procs : /\ proc'[q].sid = proc[q].sid
                                /\ proc'[q].repairs = proc[q].repairs
                                /\ proc'[q].host = proc[q].host
                                /\ proc'[q].phase = proc[q].phase
    BY <2>2 DEF Shutdown, KernelInv, TypeOK, ProcRecord
  <2> QED BY <2>1, <2>2 DEF PumpInit, ShutdownDone
<1> QED BY <1>1, <1>2, LiveInProcs, FlagsDrive

\* The ways a child, or the call that starts it, ends.
LEMMA EndsDrive ==
  ASSUME KernelInv, DriveInv, NEW p \in Procs,
         \/ Spawn(p) /\ shuttingDown
         \/ StartFail(p) \/ PumpEnd(p) \/ OrphanDies(p) \/ PtyExit(p)
  PROVE  DriveInv'
<1>1. Engaged(p) /\ proc[p].sid \in Sessions /\ state[proc[p].sid] # "none"
  BY DEF Spawn, StartFail, PumpEnd, OrphanDies, PtyExit, Engaged, InFlight,
         Alive, KernelInv
<1>2. /\ proc' = [proc EXCEPT ![p].phase = "down"]
      /\ UNCHANGED <<pid, pty, started>>
  BY DEF Spawn, StartFail, PumpEnd, OrphanDies, PtyExit, rows
<1>3. state \in [Sessions -> Ledger!States \cup {"none"}]
  BY DEF KernelInv, TypeOK
<1>4. /\ state' \in [Sessions -> Ledger!States \cup {"none"}]
      /\ \A s \in Sessions : \/ state'[s] = state[s]
                             \/ s = proc[p].sid /\ state'[s] = "exited"
  <2>1. CASE state' = Settle(proc[p].sid, state)
    BY <1>1, <1>3, <2>1, SettleLegal
  <2>2. CASE state' = IF state[proc[p].sid] \in Active
                      THEN [state EXCEPT ![proc[p].sid] = "exited"] ELSE state
    BY <1>1, <1>3, <2>2 DEF Ledger!States
  <2>3. CASE UNCHANGED state
    BY <1>3, <2>3
  <2> QED BY <2>1, <2>2, <2>3 DEF Spawn, StartFail, PumpEnd, OrphanDies, PtyExit,
             rows
<1>5. \/ live' = [live EXCEPT ![proc[p].sid] = 0]
      \/ live' = live /\ live[proc[p].sid] # p
  <2>1. CASE PumpEnd(p)
    BY <2>1 DEF PumpEnd
  <2>2. CASE (Spawn(p) /\ shuttingDown) \/ StartFail(p)
    <3>1. proc[p].phase \in {"inserted", "starting"} /\ UNCHANGED live
      BY <2>2 DEF Spawn, StartFail, broker
    <3>2. p # 0
      BY DEF Procs
    <3> QED BY <1>1, <3>1, <3>2 DEF DriveInv, ChildTracked
  <2>3. CASE OrphanDies(p) \/ PtyExit(p)
    <3>1. proc[p].host = "pty" /\ UNCHANGED live
      BY <2>3 DEF OrphanDies, PtyExit, broker, DriveInv, HostKnown
    <3>2. p # 0
      BY DEF Procs
    <3>3. live[proc[p].sid] = p => proc[p].host = "sdk"
      BY <1>1, <3>2 DEF DriveInv, LiveIsSdk
    <3> QED BY <3>1, <3>3
  <2> QED BY <2>1, <2>2, <2>3
<1> QED BY <1>1, <1>2, <1>4, <1>5, ChildEndsDrive

LEMMA SpawnDrive ==
  ASSUME KernelInv, DriveInv, NEW p \in Procs, Spawn(p)
  PROVE  DriveInv'
<1>1. CASE shuttingDown
  BY <1>1, EndsDrive
<1>2. CASE ~ shuttingDown
  <2>1. UNCHANGED <<state, pid, pty, started, live>> /\ proc[p].phase = "inserted"
        /\ proc' = [proc EXCEPT ![p].phase = "starting"]
    BY <1>2 DEF Spawn, broker
  <2>2. /\ proc'[p].phase = "starting"
        /\ \A q \in Procs : /\ proc'[q].sid = proc[q].sid
                            /\ proc'[q].repairs = proc[q].repairs
                            /\ proc'[q].host = proc[q].host
                            /\ q # p => proc'[q].phase = proc[q].phase
    BY <2>1, PhaseChange DEF Phases
  <2>3. UnusedAbsent' /\ OneEngaged' /\ HostKnown' /\ ParentIdle'
    BY <2>1, <2>2 DEF DriveInv, UnusedAbsent, OneEngaged, HostKnown, ParentIdle,
       Engaged, InFlight, Alive
  <2>4. LiveIsSdk'
    BY <2>1, <2>2, LiveInProcs DEF DriveInv, LiveIsSdk
  <2>5. ChildTracked'
    BY <2>1, <2>2, LiveInProcs DEF DriveInv, ChildTracked
  <2> QED BY <2>3, <2>4, <2>5 DEF DriveInv
<1> QED BY <1>1, <1>2

\* runner.start resolves.  The parent of a repair is settled although a PTY
\* child of it may still run; it has no SDK child, so nothing loses its row.
LEMMA StartOkDrive ==
  ASSUME KernelInv, DriveInv, NEW p \in Procs, StartOk(p)
  PROVE  DriveInv'
<1> DEFINE s == proc[p].sid
           par == proc[p].repairs
           st == MarkRunning(s)
<1>1. /\ proc[p].phase = "starting" /\ UNCHANGED <<pid, pty, started>>
      /\ proc' = [proc EXCEPT ![p].phase = "up"]
      /\ live' = [live EXCEPT ![s] = p]
      /\ state' = IF par = NoSession THEN st ELSE Settle(par, st)
  BY DEF StartOk
<1>2. /\ s \in Sessions /\ par \in Sessions \cup {NoSession}
      /\ par \in Sessions => state[par] # "none"
      /\ proc[p].host = "sdk" /\ par # s /\ state[s] \in Active
      /\ live \in [Sessions -> 0..MaxProc] /\ p # 0
  BY <1>1 DEF KernelInv, TypeOK, ProcRecord, DriveInv, HostKnown, ParentIdle, InFlight,
     Engaged, ChildTracked, Procs
<1>3. \A q \in Procs : (Engaged(q) /\ proc[q].host = "sdk") => proc[q].sid # par
  BY <1>1 DEF DriveInv, ParentIdle, InFlight
<1>4. /\ proc'[p].phase = "up"
      /\ \A q \in Procs : /\ proc'[q].sid = proc[q].sid
                          /\ proc'[q].repairs = proc[q].repairs
                          /\ proc'[q].host = proc[q].host
                          /\ q # p => proc'[q].phase = proc[q].phase
  BY <1>1, PhaseChange DEF Phases
<1>5. /\ st \in [Sessions -> Ledger!States \cup {"none"}]
      /\ \A t \in Sessions : t # s => st[t] = state[t]
      /\ st[s] \in {"running", "resumed"}
  BY <1>2 DEF MarkRunning, KernelInv, TypeOK, Ledger!States, Active
<1> HIDE DEF st
<1>6. /\ \A t \in Sessions : (t # s /\ t # par) => state'[t] = state[t]
      /\ par \in Sessions => state'[par] \in {state[par], "exited"}
      /\ state'[s] \in {"running", "resumed"}
  <2>1. CASE par = NoSession
    BY <1>1, <1>2, <1>5, <2>1, KernelAssumption
  <2>2. CASE par \in Sessions
    <3>1. st[par] # "none"
      BY <1>2, <1>5, <2>2
    <3>2. par # NoSession
      BY <2>2, KernelAssumption
    <3>3. /\ state' = Settle(par, st)
          /\ \A t \in Sessions : t # par => state'[t] = st[t]
          /\ state'[par] \in {st[par], "exited"}
      BY <1>1, <1>5, <2>2, <3>1, <3>2, SettleLegal
    <3> QED BY <1>2, <1>5, <3>3
  <2> QED BY <1>2, <2>1, <2>2
<1> HIDE DEF s, par
<1>7. \A q \in Procs : q # p /\ Engaged(q) => proc[q].sid \in Sessions /\ proc[q].sid # s
  BY <1>1 DEF s, DriveInv, OneEngaged, Engaged, InFlight, Alive, KernelInv
<1>8. UnusedAbsent'
  BY <1>1, <1>4 DEF DriveInv, UnusedAbsent
<1>9. OneEngaged'
  BY <1>1, <1>4 DEF DriveInv, OneEngaged, Engaged, InFlight, Alive
<1>10. HostKnown'
  <2> SUFFICES ASSUME NEW q \in Procs
               PROVE /\ InFlight(q)' => proc'[q].host = "sdk"
                     /\ proc'[q].phase = "orphan" => proc'[q].host = "pty"
                     /\ (Alive(q)' /\ proc'[q].host = "pty") =>
                          /\ pid'[proc'[q].sid] = q /\ pty'[proc'[q].sid]
                          /\ state'[proc'[q].sid] \in {"running", "resumed", "exited"}
    BY DEF HostKnown
  <2>1. CASE q = p
    BY <1>2, <1>4, <2>1 DEF InFlight, Alive
  <2>2. CASE q # p
    <3>1. proc[q].sid \in Sessions /\ Alive(q) =>
            state'[proc[q].sid] \in {state[proc[q].sid], "exited"}
      BY <1>6, <1>7, <2>2 DEF Engaged
    <3> QED BY <1>1, <1>4, <1>7, <2>2, <3>1 DEF DriveInv, HostKnown, InFlight,
               Alive, Engaged
  <2> QED BY <2>1, <2>2
<1>11. LiveIsSdk'
  <2>1. \A t \in Sessions : live'[t] = IF t = s THEN p ELSE live[t]
    BY <1>1, <1>2 DEF s
  <2> QED BY <1>2, <1>4, <2>1, LiveInProcs DEF DriveInv, LiveIsSdk
<1>12. ParentIdle'
  BY <1>1, <1>4 DEF DriveInv, ParentIdle, Engaged, InFlight, Alive
<1>13. ChildTracked'
  <2>1. \A t \in Sessions : live'[t] = IF t = s THEN p ELSE live[t]
    BY <1>1, <1>2 DEF s
  <2>2. \A q \in Procs :
          /\ proc'[q].phase \in {"inserted", "starting", "up"}
          /\ proc'[q].host = "sdk"
          => state'[proc'[q].sid] \in Active
    <3> SUFFICES ASSUME NEW q \in Procs, proc'[q].host = "sdk",
                        proc'[q].phase \in {"inserted", "starting", "up"}
                 PROVE  state'[proc'[q].sid] \in Active
      OBVIOUS
    <3>1. CASE q = p
      BY <1>4, <1>6, <3>1 DEF s, Active
    <3>2. CASE q # p
      <4>1. /\ proc[q].phase \in {"inserted", "starting", "up"}
            /\ proc[q].host = "sdk" /\ Engaged(q)
        BY <1>4, <3>2 DEF Engaged, InFlight, Alive
      <4>2. proc[q].sid \in Sessions /\ proc[q].sid # s /\ proc[q].sid # par
        BY <1>3, <1>7, <3>2, <4>1
      <4> QED BY <1>4, <1>6, <4>1, <4>2 DEF DriveInv, ChildTracked
    <3> QED BY <3>1, <3>2
  <2>3. \A t \in Sessions : live'[t] # 0 =>
          /\ proc'[live'[t]].phase = "up" /\ proc'[live'[t]].sid = t
          /\ state'[t] \in {"running", "resumed"}
    <3> SUFFICES ASSUME NEW t \in Sessions, live'[t] # 0
                 PROVE  /\ proc'[live'[t]].phase = "up" /\ proc'[live'[t]].sid = t
                        /\ state'[t] \in {"running", "resumed"}
      OBVIOUS
    <3>1. CASE t = s
      BY <1>4, <1>6, <2>1, <3>1 DEF s
    <3>2. CASE t # s
      <4>1. /\ live'[t] = live[t] /\ live[t] \in Procs /\ proc[live[t]].phase = "up"
            /\ proc[live[t]].sid = t /\ state[t] \in {"running", "resumed"}
            /\ proc[live[t]].host = "sdk"
        BY <2>1, <3>2, LiveInProcs DEF DriveInv, ChildTracked, LiveIsSdk
      <4>2. t # par /\ live[t] # p
        BY <1>1, <1>3, <4>1 DEF Engaged, Alive
      <4> QED BY <1>4, <1>6, <3>2, <4>1, <4>2
    <3> QED BY <3>1, <3>2
  <2>4. \A q \in Procs : (proc'[q].phase = "up" /\ live'[proc'[q].sid] # q)
                            => proc'[q].host = "pty"
    BY <1>2, <1>4, <1>7, <2>1 DEF s, DriveInv, ChildTracked, Engaged, Alive
  <2> QED BY <2>2, <2>3, <2>4 DEF ChildTracked
<1> QED BY <1>8, <1>9, <1>10, <1>11, <1>12, <1>13 DEF DriveInv

\* The PTY host replaces its child: the old one is gone when the new one is
\* entered, and the pid of the row follows.
LEMMA PtyRecycleDrive ==
  ASSUME KernelInv, DriveInv, NEW p \in Procs, PtyRecycle(p)
  PROVE  DriveInv'
<1>0. PICK n \in Procs : n = started + 1
  BY KernelAssumption DEF PtyRecycle, KernelInv, TypeOK, Procs
<1>s. PICK s \in Sessions : s = proc[p].sid
  BY DEF PtyRecycle, KernelInv
<1>1. /\ proc[p].phase = "up" /\ proc[p].host = "pty"
      /\ started' = n /\ n > started /\ UNCHANGED <<pty, live>>
      /\ n \in 0..MaxProc /\ pty[s]
  BY <1>0, <1>s, KernelAssumption
  DEF PtyRecycle, broker, Procs, KernelInv, TypeOK, DriveInv, HostKnown, Alive
<1>2. proc[n].phase = "absent" /\ n # p
  BY <1>1 DEF DriveInv, UnusedAbsent
<1>3. /\ proc'[n].sid = s /\ proc'[n].phase = "up" /\ proc'[n].host = "pty"
      /\ proc'[n].repairs = NoSession
      /\ proc'[p].phase = "down" /\ proc'[p].sid = s /\ proc'[p].host = "pty"
      /\ proc'[p].repairs = proc[p].repairs
      /\ \A q \in Procs : (q # n /\ q # p) => proc'[q] = proc[q]
  <2> DEFINE rec == [sid |-> s, phase |-> "up", repairs |-> NoSession,
                     host |-> "pty", aborted |-> FALSE]
  <2>1. proc' = [proc EXCEPT ![p].phase = "down", ![n] = rec]
    BY <1>0, <1>s DEF PtyRecycle
  <2>2. rec.sid = s /\ rec.phase = "up" /\ rec.host = "pty" /\ rec.repairs = NoSession
    OBVIOUS
  <2> HIDE DEF rec
  <2> QED BY <1>1, <1>2, <1>s, <2>1, <2>2 DEF KernelInv, TypeOK, ProcRecord
<1>4. /\ \A t \in Sessions : t # s => state'[t] = state[t] /\ pid'[t] = pid[t]
      /\ state'[s] = "resumed" /\ pid'[s] = n
  BY <1>0, <1>s DEF PtyRecycle, KernelInv, TypeOK
<1>5. \A q \in Procs : (q # p /\ Engaged(q)) => proc[q].sid \in Sessions \ {s}
  BY <1>1, <1>s DEF DriveInv, OneEngaged, Engaged, InFlight, Alive, KernelInv
<1>6. \A t \in Sessions : live[t] # 0 => /\ live[t] \in Procs /\ t # s
                                         /\ live[t] # p /\ live[t] # n
  <2> SUFFICES ASSUME NEW t \in Sessions, live[t] # 0
               PROVE  /\ live[t] \in Procs /\ t # s
                      /\ live[t] # p /\ live[t] # n
    OBVIOUS
  <2>1. /\ live[t] \in Procs /\ proc[live[t]].phase = "up"
        /\ proc[live[t]].sid = t /\ proc[live[t]].host = "sdk"
    BY LiveInProcs DEF DriveInv, ChildTracked, LiveIsSdk
  <2>2. live[t] # p /\ live[t] # n
    BY <1>1, <1>2, <2>1
  <2> QED BY <1>5, <2>1, <2>2 DEF Engaged, Alive
<1>7. UnusedAbsent'
  <2> SUFFICES ASSUME NEW q \in Procs, q > started' PROVE proc'[q].phase = "absent"
    BY DEF UnusedAbsent
  <2>1. q # n /\ q > started
    BY <1>0, <1>1 DEF Procs, KernelInv, TypeOK
  <2>2. proc[q].phase = "absent" /\ q # p
    BY <1>1, <2>1 DEF DriveInv, UnusedAbsent
  <2> QED BY <1>3, <2>1, <2>2
<1>8. OneEngaged'
  BY <1>3, <1>5 DEF DriveInv, OneEngaged, Engaged, InFlight, Alive
<1>9. HostKnown'
  <2> SUFFICES ASSUME NEW q \in Procs
               PROVE /\ InFlight(q)' => proc'[q].host = "sdk"
                     /\ proc'[q].phase = "orphan" => proc'[q].host = "pty"
                     /\ (Alive(q)' /\ proc'[q].host = "pty") =>
                          /\ pid'[proc'[q].sid] = q /\ pty'[proc'[q].sid]
                          /\ state'[proc'[q].sid] \in {"running", "resumed", "exited"}
    BY DEF HostKnown
  <2>1. CASE q = p
    BY <1>3, <2>1 DEF InFlight, Alive
  <2>2. CASE q = n
    BY <1>1, <1>3, <1>4, <2>2 DEF InFlight, Alive
  <2>3. CASE q # p /\ q # n
    BY <1>1, <1>3, <1>4, <1>5, <2>3 DEF DriveInv, HostKnown, InFlight, Alive, Engaged
  <2> QED BY <2>1, <2>2, <2>3
<1>10. LiveIsSdk'
  BY <1>1, <1>3, <1>6 DEF DriveInv, LiveIsSdk
<1>11. ParentIdle'
  BY <1>3 DEF DriveInv, ParentIdle, Engaged, InFlight, Alive
<1>12. ChildTracked'
  <2>1. \A q \in Procs :
          /\ proc'[q].phase \in {"inserted", "starting", "up"}
          /\ proc'[q].host = "sdk"
          => state'[proc'[q].sid] \in Active
    BY <1>3, <1>4, <1>5 DEF DriveInv, ChildTracked, Engaged, InFlight, Alive
  <2>2. \A t \in Sessions : live'[t] # 0 =>
          /\ proc'[live'[t]].phase = "up" /\ proc'[live'[t]].sid = t
          /\ state'[t] \in {"running", "resumed"}
    <3> SUFFICES ASSUME NEW t \in Sessions, live'[t] # 0
                 PROVE  /\ proc'[live'[t]].phase = "up" /\ proc'[live'[t]].sid = t
                        /\ state'[t] \in {"running", "resumed"}
      OBVIOUS
    <3>1. /\ live'[t] = live[t] /\ proc[live[t]].phase = "up"
          /\ proc[live[t]].sid = t /\ state[t] \in {"running", "resumed"}
      BY <1>1 DEF DriveInv, ChildTracked
    <3> QED BY <1>3, <1>4, <1>6, <3>1
  <2>3. \A q \in Procs : (proc'[q].phase = "up" /\ live'[proc'[q].sid] # q)
                           => proc'[q].host = "pty"
    <3> SUFFICES ASSUME NEW q \in Procs, proc'[q].phase = "up",
                        live'[proc'[q].sid] # q
                 PROVE  proc'[q].host = "pty"
      OBVIOUS
    <3>1. CASE q = n
      BY <1>3, <3>1
    <3>2. CASE q # n
      <4>1. proc'[q] = proc[q]
        BY <1>3, <3>2
      <4>2. proc[q].phase = "up" /\ live[proc[q].sid] # q
        BY <1>1, <4>1
      <4>3. proc[q].host = "pty"
        BY <4>2 DEF DriveInv, ChildTracked
      <4> QED BY <4>1, <4>3
    <3> QED BY <3>1, <3>2
  <2> QED BY <2>1, <2>2, <2>3 DEF ChildTracked
<1> QED BY <1>7, <1>8, <1>9, <1>10, <1>11, <1>12 DEF DriveInv

\* A crash ends every SDK child and every call; what survives is a PTY child,
\* which the row still names.
LEMMA RestartDrive ==
  ASSUME KernelInv, DriveInv, NEW sv \in SUBSET Procs, Restart(sv)
  PROVE  DriveInv'
<1>1. /\ UNCHANGED <<state, pid, pty, started>>
      /\ \A s \in Sessions : live'[s] = 0
      /\ \A q \in sv : Alive(q) /\ proc[q].host = "pty"
  BY DEF Restart, rows
<1>2. \A q \in Procs : /\ proc'[q].sid = proc[q].sid
                       /\ proc'[q].repairs = proc[q].repairs
                       /\ proc'[q].host = proc[q].host
                       /\ q \in sv => proc'[q].phase = "orphan"
                       /\ (q \notin sv /\ proc[q].phase = "absent")
                            => proc'[q].phase = "absent"
                       /\ (q \notin sv /\ proc[q].phase # "absent")
                            => proc'[q].phase = "down"
  BY DEF Restart, KernelInv, TypeOK, ProcRecord
<1>3. \A q \in Procs : proc'[q].phase \in {"inserted", "starting", "up", "orphan"}
                         => q \in sv /\ proc'[q].phase = "orphan"
  BY <1>2
<1>4. UnusedAbsent'
  BY <1>1, <1>2 DEF DriveInv, UnusedAbsent, Alive
<1>5. OneEngaged'
  BY <1>1, <1>2, <1>3 DEF DriveInv, OneEngaged, Engaged, InFlight, Alive
<1>6. HostKnown'
  BY <1>1, <1>2, <1>3 DEF DriveInv, HostKnown, InFlight, Alive
<1>7. LiveIsSdk'
  BY <1>1 DEF LiveIsSdk
<1>8. ParentIdle'
  BY <1>3 DEF ParentIdle, InFlight
<1>9. ChildTracked'
  BY <1>1, <1>3 DEF ChildTracked
<1> QED BY <1>4, <1>5, <1>6, <1>7, <1>8, <1>9 DEF DriveInv

LEMMA NextDrive ==
  ASSUME KernelInv, DriveInv, ~ ConcurrentCalls, ~ ResumeRecycled, Next
  PROVE  DriveInv'
BY LaunchDrive, ResumeForkDrive, ResumeRepairDrive, ResumeInPlaceDrive,
   PtyLaunchDrive, FlagStepsDrive, EndsDrive, SpawnDrive, StartOkDrive,
   PtyRecycleDrive, RestartDrive DEF Next

LEMMA DriveInvariant ==
  ASSUME ~ ConcurrentCalls, ~ ResumeRecycled
  PROVE  Spec => []DriveInv
<1>1. KernelInv /\ DriveInv /\ UNCHANGED vars => DriveInv'
  BY LiveInProcs, FlagsDrive DEF vars
<1>2. KernelInv /\ DriveInv /\ [Next]_vars => DriveInv'
  BY <1>1, NextDrive
<1> QED BY <1>2, InitDriveInv, KernelInvariant, PTL DEF Spec

\* UN-FORKED DOUBLE-RESUME BLOCK: the guards of resume (live map, recorded pid,
\* row state) keep two children from driving one session, for every number of
\* sessions, children, recycles and crashes, as long as a client waits for its
\* call on a session and does not resume a recycled PTY row.  The runs show
\* that the first hypothesis is needed: the code itself does not enforce it.
THEOREM DoubleResumeBlocked ==
  ASSUME ~ ConcurrentCalls, ~ ResumeRecycled
  PROVE  Spec => []NoDoubleDrive
BY DriveInvariant, DriveGivesNoDouble, PTL

\* Under the same hypotheses every SDK child that runs or is being started has
\* an active row, and the live map is exactly the running SDK children: abort
\* and shutdown reach each of them, also after a shutdown that raced a spawn.
THEOREM ChildrenTracked ==
  ASSUME ~ ConcurrentCalls, ~ ResumeRecycled
  PROVE  Spec => []ChildTracked
<1>1. DriveInv => ChildTracked
  BY DEF DriveInv
<1> QED BY <1>1, DriveInvariant, PTL

=============================================================================
