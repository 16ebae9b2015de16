--------------------------- MODULE PtyHostProofs ---------------------------
(***************************************************************************)
(* The PTY host moves ledger rows only as the ledger allows, and keeps     *)
(* children, records, rows and edges together, with any number of recycle  *)
(* calls that overlap, of one session too: only a session where one of     *)
(* them goes on behind the child of another may have a child too many.     *)
(* Both for every set of sessions and every number of generations.         *)
(***************************************************************************)
EXTENDS PtyHost, TLAPS

Childless(s) == \A g \in Gens : child[s][g] = "none"

\* What is not launched yet has nothing but its row.
LaunchFresh ==
  \A s \in Sessions :
    /\ launch[s] # "none" => row[s] = "spawning"
    /\ launch[s] # "none" \/ row[s] = "none" =>
         /\ ~ native[s] /\ s \notin known
         /\ gen[s] = 0 /\ proc[s] = 0 /\ Childless(s)

\* Calls and children belong to sessions with a record.
CallKnown ==
  /\ \A r \in Recycles : call[r].busy => call[r].session \in known
  /\ \A s \in Sessions : proc[s] # 0 => gen[s] # 0 /\ child[s][proc[s]] # "none"

RowInv == TypeOK /\ LaunchFresh /\ CallKnown

\* What a step may do to the rows, in the ledger's terms.
RowsStep ==
  /\ row' \in [Sessions -> Rows]
  /\ native' \in [Sessions -> BOOLEAN]
  /\ \A s \in Sessions : Ledger!RowStep(s)

LEMMA InitRowInv == Init => RowInv
<1> SUFFICES ASSUME Init PROVE RowInv
  OBVIOUS
<1>1. 0 \in 0..MaxGen /\ NoCall \in Calls /\ ~ NoCall.busy
  BY HostAssumption DEF Calls, NoCall
<1>2. call \in [Recycles -> Calls] /\ \A r \in Recycles : ~ call[r].busy
  BY <1>1 DEF Init
<1>3. TypeOK
  BY <1>1, <1>2 DEF Init, TypeOK, Rows, Kinds
<1>4. LaunchFresh
  BY DEF Init, LaunchFresh, Childless
<1>5. CallKnown
  BY <1>2 DEF Init, CallKnown
<1> QED BY <1>3, <1>4, <1>5 DEF RowInv

\* A signal changes nothing but a child that has not been killed for good.
LEMMA SignalledShape ==
  ASSUME TypeOK, NEW s \in Sessions, NEW g \in Gens, NEW sig \in {"hup", "kill"},
         child[s][g] # "none", child' = Signalled(s, g, sig)
  PROVE  /\ child' \in [Sessions -> [Gens -> {"none", "up", "hup", "kill", "gone"}]]
         /\ \A t \in Sessions, h \in Gens :
              /\ child'[t][h] = "none" <=> child[t][h] = "none"
              /\ child'[t][h] = "gone" <=> child[t][h] = "gone"
BY DEF TypeOK, Signalled

\* settleExited leaves every other row alone.
LEMMA SettleShape ==
  ASSUME NEW r \in [Sessions -> Rows], NEW s \in Sessions, TypeOK, Settle(r, s)
  PROVE  /\ row' \in [Sessions -> Rows] /\ settled' \in [Sessions -> BOOLEAN]
         /\ settled' = [settled EXCEPT ![s] = TRUE]
         /\ \A t \in Sessions : t # s => row'[t] = r[t] /\ settled'[t] = settled[t]
         /\ settled'[s]
         /\ row'[s] = IF ~ settled[s] /\ r[s] \in {"spawning", "running", "resumed"}
                      THEN "exited" ELSE r[s]
BY DEF Settle, TypeOK, Rows

\* Rows that stay are a step of the ledger.
LEMMA SameRowsStep ==
  ASSUME RowInv, UNCHANGED <<row, native>>
  PROVE  RowsStep
BY DEF RowInv, TypeOK, LaunchFresh, RowsStep, Ledger!RowStep

LEMMA SettleRowsStep ==
  ASSUME RowInv, NEW s \in Sessions, Settle(row, s), UNCHANGED native
  PROVE  RowsStep
<1>1. row \in [Sessions -> Rows] /\ TypeOK
  BY DEF RowInv, TypeOK
<1>2. /\ row' \in [Sessions -> Rows]
      /\ \A t \in Sessions : t # s => row'[t] = row[t]
      /\ row'[s] = IF ~ settled[s] /\ row[s] \in {"spawning", "running", "resumed"}
                   THEN "exited" ELSE row[s]
  BY <1>1, SettleShape
<1> QED BY <1>2 DEF RowInv, TypeOK, LaunchFresh, RowsStep, Ledger!RowStep,
           Ledger!RowMoves, Ledger!Legal, Ledger!LegalTransitions

\* record.proc is never a child that was not forked.
LEMMA ProcKnown ==
  ASSUME RowInv, NEW s \in Sessions, proc[s] # 0
  PROVE  proc[s] \in Gens /\ gen[s] \in Gens /\ child[s][proc[s]] # "none"
BY HostAssumption DEF RowInv, TypeOK, CallKnown, Gens

LEMMA LaunchStep ==
  ASSUME RowInv, NEW s \in Sessions, NEW kind \in Kinds, Launch(s, kind)
  PROVE  RowInv' /\ RowsStep
<1>1. TypeOK'
  BY DEF RowInv, TypeOK, Launch, Rows, Kinds
<1>2. LaunchFresh'
  BY DEF RowInv, TypeOK, LaunchFresh, Launch, Childless, Kinds
<1>3. CallKnown'
  BY DEF RowInv, CallKnown, Launch
<1>4. RowsStep
  BY DEF RowInv, TypeOK, LaunchFresh, Launch, Rows, RowsStep, Ledger!RowStep, Ledger!RowBorn
<1> QED BY <1>1, <1>2, <1>3, <1>4 DEF RowInv

LEMMA SpawnedStep ==
  ASSUME RowInv, NEW s \in Sessions, Spawned(s)
  PROVE  RowInv' /\ RowsStep
<1>1. /\ row[s] = "spawning" /\ ~ native[s] /\ s \notin known
      /\ gen[s] = 0 /\ 1 \in Gens /\ 1 \in 0..MaxGen
  BY HostAssumption DEF RowInv, LaunchFresh, Spawned, Gens
<1>2. /\ gen' = [gen EXCEPT ![s] = 1] /\ proc' = [proc EXCEPT ![s] = 1]
      /\ child' = [child EXCEPT ![s][1] = "up"]
  BY <1>1 DEF Spawned, Forked, RowInv, TypeOK
<1>3. TypeOK'
  BY <1>1, <1>2 DEF RowInv, TypeOK, Spawned, RowOfNew, Rows, Kinds
<1>4. LaunchFresh'
  BY <1>1, <1>2 DEF RowInv, TypeOK, LaunchFresh, Childless, Spawned, RowOfNew
<1>5. CallKnown'
  <2>1. \A r \in Recycles : call'[r].busy => call'[r].session \in known'
    BY DEF RowInv, CallKnown, Spawned
  <2>2. \A t \in Sessions : proc'[t] # 0 => gen'[t] # 0 /\ child'[t][proc'[t]] # "none"
    BY <1>1, <1>2, HostAssumption, ProcKnown DEF RowInv, TypeOK, CallKnown
  <2> QED BY <2>1, <2>2 DEF CallKnown
<1>6. RowsStep
  BY <1>1, <1>3 DEF RowInv, TypeOK, LaunchFresh, Spawned, RowOfNew, RowsStep,
     Ledger!RowStep, Ledger!RowMoves, Ledger!Legal, Ledger!LegalTransitions
<1> QED BY <1>3, <1>4, <1>5, <1>6 DEF RowInv

LEMMA NotSpawnedStep ==
  ASSUME RowInv, NEW s \in Sessions, NotSpawned(s)
  PROVE  RowInv' /\ RowsStep
<1>1. /\ TypeOK /\ row \in [Sessions -> Rows] /\ Settle(row, s) /\ row[s] = "spawning"
      /\ ~ native[s] /\ s \notin known
  BY DEF RowInv, TypeOK, LaunchFresh, NotSpawned
<1>2. /\ row' \in [Sessions -> Rows] /\ settled' \in [Sessions -> BOOLEAN]
      /\ \A t \in Sessions : t # s => row'[t] = row[t]
      /\ row'[s] # "none"
  BY <1>1, SettleShape
<1>3. TypeOK'
  BY <1>2 DEF RowInv, TypeOK, NotSpawned, Kinds
<1>4. LaunchFresh'
  BY <1>2 DEF RowInv, TypeOK, LaunchFresh, Childless, NotSpawned
<1>5. CallKnown'
  BY DEF RowInv, CallKnown, NotSpawned
<1>6. RowsStep
  BY <1>1, SettleRowsStep DEF NotSpawned
<1> QED BY <1>3, <1>4, <1>5, <1>6 DEF RowInv

LEMMA ChildExitsStep ==
  ASSUME RowInv, NEW s \in Sessions, NEW g \in Gens, ChildExits(s, g)
  PROVE  RowInv' /\ RowsStep
<1>1. /\ TypeOK /\ row \in [Sessions -> Rows] /\ child[s][g] # "none"
      /\ launch[s] = "none" /\ row[s] # "none" /\ 0 \in 0..MaxGen
  BY HostAssumption DEF RowInv, TypeOK, LaunchFresh, Childless, ChildExits, Alive
<1>2. /\ row' \in [Sessions -> Rows] /\ settled' \in [Sessions -> BOOLEAN]
      /\ \A t \in Sessions : t # s => row'[t] = row[t]
      /\ row'[s] # "none"
      /\ RowsStep
  <2>1. CASE recycling[s]
    BY <1>1, <2>1, SameRowsStep DEF ChildExits, TypeOK
  <2>2. CASE ~ recycling[s]
    <3>1. Settle(row, s) /\ UNCHANGED native
      BY <2>2 DEF ChildExits
    <3> QED BY <1>1, <3>1, SettleShape, SettleRowsStep
  <2> QED BY <2>1, <2>2
<1>3. TypeOK'
  BY <1>1, <1>2 DEF TypeOK, ChildExits
<1>4. LaunchFresh'
  BY <1>1, <1>2 DEF RowInv, TypeOK, LaunchFresh, Childless, ChildExits
<1>5. CallKnown'
  BY <1>1 DEF RowInv, TypeOK, CallKnown, ChildExits
<1> QED BY <1>2, <1>3, <1>4, <1>5 DEF RowInv

\* Steps that leave rows and records alone and only signal children, arm
\* timers or enter a call.
LEMMA QuietRowStep ==
  ASSUME RowInv, UNCHANGED <<row, native, launch, known, gen, proc, settled, edges,
                             shuttingDown>>,
         child' \in [Sessions -> [Gens -> {"none", "up", "hup", "kill", "gone"}]],
         \A t \in Sessions, h \in Gens : child'[t][h] = "none" <=> child[t][h] = "none",
         recycling' \in [Sessions -> BOOLEAN], overtaken' \subseteq Sessions,
         timers' \subseteq (Sessions \X Gens),
         call' \in [Recycles -> Calls],
         \A r \in Recycles : call'[r].busy => call'[r].session \in known
  PROVE  RowInv' /\ RowsStep
<1>1. TypeOK'
  BY DEF RowInv, TypeOK
<1>2. LaunchFresh'
  BY DEF RowInv, LaunchFresh, Childless
<1>3. CallKnown'
  BY ProcKnown DEF RowInv, CallKnown
<1> QED BY <1>1, <1>2, <1>3, SameRowsStep DEF RowInv

LEMMA KillStep ==
  ASSUME RowInv, NEW s \in Sessions, NEW force \in BOOLEAN, Kill(s, force)
  PROVE  RowInv' /\ RowsStep
<1>1. proc[s] \in Gens /\ gen[s] \in Gens /\ child[s][proc[s]] # "none"
  BY ProcKnown DEF Kill
<1>2. TypeOK /\ (IF force THEN "kill" ELSE "hup") \in {"hup", "kill"}
  BY DEF RowInv
<1>3. /\ child' \in [Sessions -> [Gens -> {"none", "up", "hup", "kill", "gone"}]]
      /\ \A t \in Sessions, h \in Gens : child'[t][h] = "none" <=> child[t][h] = "none"
  BY <1>1, <1>2, SignalledShape DEF Kill
<1>4. timers' \subseteq (Sessions \X Gens)
  BY <1>1, <1>2 DEF Kill, TypeOK
<1>5. /\ UNCHANGED <<row, native, launch, known, gen, proc, settled, edges,
                     shuttingDown, recycling, call, overtaken>>
      /\ \A r \in Recycles : call[r].busy => call[r].session \in known
  BY DEF Kill, RowInv, CallKnown
<1> QED BY <1>2, <1>3, <1>4, <1>5, QuietRowStep DEF TypeOK

LEMMA EscalateStep ==
  ASSUME RowInv, NEW s \in Sessions, NEW g \in Gens, Escalate(s, g)
  PROVE  RowInv' /\ RowsStep
<1>1. TypeOK
  BY DEF RowInv
<1>2. /\ child' \in [Sessions -> [Gens -> {"none", "up", "hup", "kill", "gone"}]]
      /\ \A t \in Sessions, h \in Gens : child'[t][h] = "none" <=> child[t][h] = "none"
  <2>1. CASE proc[s] # 0 /\ gen[s] = g
    <3>1. proc[s] \in Gens /\ child[s][proc[s]] # "none"
      BY <2>1, ProcKnown
    <3> QED BY <1>1, <2>1, <3>1, SignalledShape DEF Escalate
  <2>2. CASE ~ (proc[s] # 0 /\ gen[s] = g)
    BY <1>1, <2>2 DEF Escalate, TypeOK
  <2> QED BY <2>1, <2>2
<1>3. /\ UNCHANGED <<row, native, launch, known, gen, proc, settled, edges,
                     shuttingDown, recycling, call, overtaken>>
      /\ timers' \subseteq (Sessions \X Gens)
      /\ \A r \in Recycles : call[r].busy => call[r].session \in known
  BY <1>1 DEF Escalate, TypeOK, RowInv, CallKnown
<1> QED BY <1>1, <1>2, <1>3, QuietRowStep DEF TypeOK

\* What a recycle call remembers.
LEMMA CallRecord ==
  ASSUME NEW s \in Sessions, NEW g \in Gens, NEW fork \in BOOLEAN
  PROVE  /\ Call(s, g, fork) \in Calls /\ Call(s, g, fork).busy
         /\ Call(s, g, fork).session = s /\ Call(s, g, fork).gen = g
         /\ Call(s, g, fork).fork = fork
<1>1. /\ Call(s, g, fork).busy /\ Call(s, g, fork).session = s
      /\ Call(s, g, fork).gen = g /\ Call(s, g, fork).fork = fork
  BY DEF Call
<1>2. \E t \in Sessions, h \in Gens, f \in BOOLEAN : Call(s, g, fork) = Call(t, h, f)
  OBVIOUS
<1> QED BY <1>1, <1>2 DEF Calls

LEMMA NoCallRecord == NoCall \in Calls /\ ~ NoCall.busy
BY DEF NoCall, Calls

LEMMA BusyCall ==
  ASSUME TypeOK, NEW r \in Recycles, call[r].busy
  PROVE  /\ call[r].session \in Sessions /\ call[r].gen \in Gens
         /\ call[r].fork \in BOOLEAN
<1>1. call[r] \in Calls
  BY DEF TypeOK
<1>2. call[r] # NoCall
  BY NoCallRecord
<1>3. PICK s \in Sessions, g \in Gens, fork \in BOOLEAN : call[r] = Call(s, g, fork)
  BY <1>1, <1>2 DEF Calls
<1> QED BY <1>3, CallRecord

LEMMA RecycleStep ==
  ASSUME RowInv, NEW r \in Recycles, NEW s \in Sessions, NEW fork \in BOOLEAN,
         Recycle(r, s, fork)
  PROVE  RowInv' /\ RowsStep
<1>1. proc[s] \in Gens /\ gen[s] \in Gens /\ child[s][proc[s]] # "none"
  BY ProcKnown DEF Recycle
<1>2. TypeOK
  BY DEF RowInv
<1>3. /\ child' \in [Sessions -> [Gens -> {"none", "up", "hup", "kill", "gone"}]]
      /\ \A t \in Sessions, h \in Gens : child'[t][h] = "none" <=> child[t][h] = "none"
  BY <1>1, <1>2, SignalledShape DEF Recycle
<1>4. /\ timers' \subseteq (Sessions \X Gens) /\ overtaken' \subseteq Sessions
      /\ recycling' \in [Sessions -> BOOLEAN]
  BY <1>1, <1>2 DEF Recycle, TypeOK
<1>5. /\ UNCHANGED <<row, native, launch, known, gen, proc, settled, edges,
                     shuttingDown>>
      /\ s \in known /\ call' = [call EXCEPT ![r] = Call(s, gen[s], fork)]
  BY DEF Recycle
<1>6. /\ call' \in [Recycles -> Calls]
      /\ \A q \in Recycles : call'[q].busy => call'[q].session \in known
  BY <1>1, <1>2, <1>5, CallRecord DEF TypeOK, RowInv, CallKnown
<1> QED BY <1>3, <1>4, <1>5, <1>6, QuietRowStep

\* A call that ends leaves the others as they were.
LEMMA CallEnds ==
  ASSUME RowInv, NEW r \in Recycles, call' = [call EXCEPT ![r] = NoCall]
  PROVE  /\ call' \in [Recycles -> Calls] /\ ~ call'[r].busy
         /\ \A q \in Recycles : q # r => call'[q] = call[q]
         /\ \A q \in Recycles : call'[q].busy => call'[q].session \in known
BY NoCallRecord DEF RowInv, TypeOK, CallKnown

\* Where a recycle call goes on, its session has a record, hence a row.
LEMMA AwaitedSession ==
  ASSUME RowInv, NEW r \in Recycles, Awaited(r)
  PROVE  /\ call[r].session \in Sessions /\ call[r].session \in known
         /\ launch[call[r].session] = "none" /\ row[call[r].session] # "none"
<1>1. TypeOK /\ call[r].busy
  BY DEF RowInv, Awaited
<1>2. call[r].session \in Sessions /\ call[r].session \in known
  BY <1>1, BusyCall DEF RowInv, CallKnown
<1> QED BY <1>2 DEF RowInv, LaunchFresh

LEMMA RecycleResumesStep ==
  ASSUME RowInv, NEW r \in Recycles, RecycleResumes(r)
  PROVE  RowInv' /\ RowsStep
<1>s. PICK s \in Sessions : s = call[r].session
  BY AwaitedSession DEF RecycleResumes, GoesOn
<1>0. /\ TypeOK /\ launch[s] = "none" /\ row[s] # "none" /\ s \in known
      /\ overtaken' \subseteq Sessions
  BY <1>s, AwaitedSession DEF RecycleResumes, GoesOn, RowInv, TypeOK
<1>1. /\ Resumable(s) /\ row' = [row EXCEPT ![s] = "resumed"]
      /\ gen' = [gen EXCEPT ![s] = gen[s] + 1]
      /\ proc' = [proc EXCEPT ![s] = gen[s] + 1]
      /\ child' = [child EXCEPT ![s][gen[s] + 1] = "up"]
      /\ recycling' = [recycling EXCEPT ![s] = FALSE]
      /\ edges' = [edges EXCEPT ![s] = @ + 1]
      /\ call' = [call EXCEPT ![r] = NoCall]
      /\ UNCHANGED <<native, launch, known, settled, timers, shuttingDown>>
  BY <1>0, <1>s DEF RecycleResumes, GoesOn, Forked, TypeOK
<1>2. gen[s] + 1 \in Gens /\ gen[s] + 1 \in 0..MaxGen /\ gen[s] + 1 # 0
  BY <1>0, <1>s, HostAssumption DEF RecycleResumes, TypeOK, Gens
<1>3. /\ call' \in [Recycles -> Calls]
      /\ \A q \in Recycles : call'[q].busy => call'[q].session \in known
  BY <1>1, CallEnds
<1>4. TypeOK'
  BY <1>0, <1>1, <1>2, <1>3 DEF TypeOK, Rows
<1>5. LaunchFresh'
  BY <1>0, <1>1, <1>2 DEF RowInv, TypeOK, LaunchFresh, Childless
<1>6. CallKnown'
  BY <1>0, <1>1, <1>2, <1>3 DEF RowInv, TypeOK, CallKnown
<1>7. RowsStep
  BY <1>0, <1>1, <1>4 DEF RowInv, TypeOK, LaunchFresh, Resumable, RowsStep,
     Ledger!RowStep, Ledger!RowMoves, Ledger!Legal, Ledger!LegalTransitions
<1> QED BY <1>4, <1>5, <1>6, <1>7 DEF RowInv

\* The new child of a recycle cannot be forked: the row takes the edge to
\* resumed and the one to exited in one step of the host.
LEMMA RecycleSpawnFailsStep ==
  ASSUME RowInv, NEW r \in Recycles, RecycleSpawnFails(r)
  PROVE  RowInv' /\ RowsStep
<1>s. PICK s \in Sessions : s = call[r].session
  BY AwaitedSession DEF RecycleSpawnFails, GoesOn
<1>0. /\ TypeOK /\ launch[s] = "none" /\ row[s] # "none" /\ s \in known
      /\ overtaken' \subseteq Sessions
  BY <1>s, AwaitedSession DEF RecycleSpawnFails, GoesOn, RowInv, TypeOK
<1>1. /\ Resumable(s) /\ Settle([row EXCEPT ![s] = "resumed"], s)
      /\ recycling' = [recycling EXCEPT ![s] = FALSE]
      /\ call' = [call EXCEPT ![r] = NoCall]
      /\ UNCHANGED <<native, launch, known, gen, proc, child, timers, edges,
                     shuttingDown>>
  BY <1>s DEF RecycleSpawnFails, GoesOn
<1>2. [row EXCEPT ![s] = "resumed"] \in [Sessions -> Rows]
  BY <1>0 DEF TypeOK, Rows
<1>3. /\ row' \in [Sessions -> Rows] /\ settled' \in [Sessions -> BOOLEAN]
      /\ \A t \in Sessions : t # s => row'[t] = [row EXCEPT ![s] = "resumed"][t]
      /\ row'[s] \in {"resumed", "exited"}
  BY <1>0, <1>1, <1>2, SettleShape, ZenonT(60) DEF TypeOK
<1>4. \A t \in Sessions : t # s => row'[t] = row[t]
  BY <1>0, <1>3 DEF TypeOK
<1>5. /\ call' \in [Recycles -> Calls]
      /\ \A q \in Recycles : call'[q].busy => call'[q].session \in known
  BY <1>1, CallEnds
<1>6. TypeOK'
  BY <1>0, <1>1, <1>3, <1>5 DEF TypeOK
<1>7. LaunchFresh'
  BY <1>0, <1>1, <1>3, <1>4 DEF RowInv, TypeOK, LaunchFresh, Childless
<1>8. CallKnown'
  BY <1>1, <1>5 DEF RowInv, CallKnown
<1>9. RowsStep
  <2>1. Ledger!RowMoves(s)
    BY <1>0, <1>1, <1>3 DEF Resumable, Ledger!RowMoves, Ledger!Legal,
       Ledger!LegalTransitions
  <2>2. \A t \in Sessions : native[t] => row'[t] # "none"
    BY <1>3, <1>4 DEF RowInv, LaunchFresh
  <2>3. native' \in [Sessions -> BOOLEAN]
    BY <1>0, <1>1 DEF TypeOK
  <2> QED BY <1>1, <1>3, <1>4, <2>1, <2>2, <2>3 DEF RowsStep, Ledger!RowStep
<1> QED BY <1>6, <1>7, <1>8, <1>9 DEF RowInv

LEMMA RecycleRefusedStep ==
  ASSUME RowInv, NEW r \in Recycles, RecycleRefused(r)
  PROVE  RowInv' /\ RowsStep
<1>s. PICK s \in Sessions : s = call[r].session
  BY AwaitedSession DEF RecycleRefused, GoesOn
<1>1. /\ TypeOK /\ recycling' = [recycling EXCEPT ![s] = FALSE]
      /\ overtaken' \subseteq Sessions
      /\ call' = [call EXCEPT ![r] = NoCall]
      /\ UNCHANGED <<row, native, launch, known, gen, proc, child, settled,
                     timers, edges, shuttingDown>>
  BY <1>s DEF RecycleRefused, GoesOn, RowInv, TypeOK
<1>2. /\ call' \in [Recycles -> Calls]
      /\ \A q \in Recycles : call'[q].busy => call'[q].session \in known
  BY <1>1, CallEnds
<1> QED BY <1>1, <1>2, QuietRowStep DEF TypeOK

LEMMA RecycleForksStep ==
  ASSUME RowInv, NEW r \in Recycles, NEW c \in Sessions, RecycleForks(r, c)
  PROVE  RowInv' /\ RowsStep
<1>s. PICK s \in Sessions : s = call[r].session
  BY AwaitedSession DEF RecycleForks, GoesOn
<1>0. /\ TypeOK /\ launch[s] = "none" /\ row[s] # "none" /\ s \in known
      /\ overtaken' \subseteq Sessions
  BY <1>s, AwaitedSession DEF RecycleForks, GoesOn, RowInv, TypeOK
<1>1. /\ row[c] = "none" /\ c # s /\ Settle([row EXCEPT ![c] = "spawning"], s)
      /\ launch' = [launch EXCEPT ![c] = "fork"]
      /\ recycling' = [recycling EXCEPT ![s] = FALSE]
      /\ call' = [call EXCEPT ![r] = NoCall]
      /\ UNCHANGED <<native, known, gen, proc, child, timers, edges, shuttingDown>>
  BY <1>0, <1>s DEF RecycleForks, GoesOn
<1>2. [row EXCEPT ![c] = "spawning"] \in [Sessions -> Rows]
  BY <1>0 DEF TypeOK, Rows
<1>3. /\ row' \in [Sessions -> Rows] /\ settled' \in [Sessions -> BOOLEAN]
      /\ \A t \in Sessions : t # s => row'[t] = [row EXCEPT ![c] = "spawning"][t]
      /\ row'[s] = IF ~ settled[s] /\ row[s] \in {"spawning", "running", "resumed"}
                   THEN "exited" ELSE row[s]
  BY <1>0, <1>1, <1>2, SettleShape, ZenonT(60) DEF TypeOK
<1>4. /\ \A t \in Sessions : (t # s /\ t # c) => row'[t] = row[t]
      /\ row'[c] = "spawning" /\ row'[s] # "none"
  BY <1>0, <1>1, <1>3 DEF TypeOK
<1>5. /\ call' \in [Recycles -> Calls]
      /\ \A q \in Recycles : call'[q].busy => call'[q].session \in known
  BY <1>1, CallEnds
<1>6. TypeOK'
  BY <1>0, <1>1, <1>3, <1>5 DEF TypeOK, Kinds
<1>7. LaunchFresh'
  BY <1>0, <1>1, <1>4 DEF RowInv, TypeOK, LaunchFresh, Childless
<1>8. CallKnown'
  BY <1>1, <1>5 DEF RowInv, CallKnown
<1>9. RowsStep
  <2>1. row'[s] = row[s] \/ Ledger!RowMoves(s)
    BY <1>3 DEF Ledger!RowMoves, Ledger!Legal, Ledger!LegalTransitions
  <2>2. Ledger!RowBorn(c)
    BY <1>1, <1>4 DEF Ledger!RowBorn
  <2>3. \A t \in Sessions : native[t] => row'[t] # "none"
    BY <1>4 DEF RowInv, LaunchFresh
  <2>4. native' \in [Sessions -> BOOLEAN]
    BY <1>0, <1>1 DEF TypeOK
  <2> QED BY <1>1, <1>3, <1>4, <2>1, <2>2, <2>3, <2>4 DEF RowsStep, Ledger!RowStep
<1> QED BY <1>6, <1>7, <1>8, <1>9 DEF RowInv

LEMMA ShutdownRowStep ==
  ASSUME RowInv, Shutdown
  PROVE  RowInv' /\ RowsStep
<1>1. /\ UNCHANGED <<native, launch, known, gen, proc, timers, call, edges,
                     overtaken>>
      /\ shuttingDown' = TRUE /\ TypeOK
  BY DEF Shutdown, RowInv
<1>2. /\ row' \in [Sessions -> Rows]
      /\ \A s \in Sessions :
           row'[s] = IF s \in known /\ proc[s] = 0 /\ ~ settled[s]
                        /\ row[s] \in {"spawning", "running", "resumed"}
                     THEN "exited" ELSE row[s]
  BY <1>1 DEF Shutdown, TypeOK, Rows
<1>3. settled' \in [Sessions -> BOOLEAN] /\ recycling' \in [Sessions -> BOOLEAN]
  BY <1>1 DEF Shutdown, TypeOK, FlagAtShutdown
<1>4. /\ child' \in [Sessions -> [Gens -> {"none", "up", "hup", "kill", "gone"}]]
      /\ \A s \in Sessions, g \in Gens : child'[s][g] = "none" <=> child[s][g] = "none"
  BY <1>1 DEF Shutdown, TypeOK, Alive
<1>5. TypeOK'
  BY <1>1, <1>2, <1>3, <1>4 DEF TypeOK
<1>6. LaunchFresh'
  BY <1>1, <1>2, <1>4 DEF RowInv, LaunchFresh, Childless
<1>7. CallKnown'
  BY <1>1, <1>4, ProcKnown DEF RowInv, CallKnown
<1>8. RowsStep
  BY <1>1, <1>2 DEF RowInv, TypeOK, LaunchFresh, RowsStep, Ledger!RowStep,
     Ledger!RowMoves, Ledger!Legal, Ledger!LegalTransitions
<1> QED BY <1>5, <1>6, <1>7, <1>8 DEF RowInv

LEMMA NextRowStep ==
  ASSUME RowInv, Next
  PROVE  RowInv' /\ RowsStep
BY LaunchStep, SpawnedStep, NotSpawnedStep, ChildExitsStep, EscalateStep,
   KillStep, RecycleStep, RecycleResumesStep, RecycleSpawnFailsStep,
   RecycleRefusedStep, RecycleForksStep, ShutdownRowStep DEF Next

LEMMA StutterRow ==
  ASSUME RowInv, UNCHANGED vars
  PROVE  RowInv'
<1>1. UNCHANGED <<row, native, launch, known, gen, proc, child, recycling, settled,
                  timers, call, edges, shuttingDown, overtaken>>
  BY DEF vars
<1> QED BY <1>1 DEF RowInv, TypeOK, LaunchFresh, CallKnown, Childless

\* Rows before children: a session that is being launched has nothing but its
\* spawning row, and a recycle call only waits for a session with a record.
LEMMA RowInvariant == Spec => []RowInv
<1>1. RowInv /\ [Next]_vars => RowInv'
  BY NextRowStep, StutterRow
<1> QED BY <1>1, InitRowInv, PTL DEF Spec

\* The PTY host implements the resume ledger, also when recycles of one session
\* overlap: every row is born in spawning, takes legal edges only, is never
\* deleted, and its native id is written once.
THEOREM HostImplementsLedger == Spec => LedgerSpec
<1>1. Init => Ledger!Init
  BY DEF Init, Ledger!Init
<1>2. RowInv /\ [Next]_vars => [Ledger!Next]_(Ledger!vars)
  <2>1. ASSUME UNCHANGED vars PROVE UNCHANGED Ledger!vars
    BY <2>1 DEF vars, Ledger!vars
  <2>2. ASSUME RowInv, Next PROVE Ledger!Next
    <3>1. RowsStep
      BY <2>2, NextRowStep
    <3> QED BY <3>1 DEF RowsStep, Ledger!Next, Ledger!States, Rows
  <2> QED BY <2>1, <2>2
<1> QED BY <1>1, <1>2, RowInvariant, PTL DEF Spec, LedgerSpec, Ledger!Spec

-----------------------------------------------------------------------------
(* Children, records, rows and edges. *)

\* record.proc is the latest generation or nothing.  Where no recycle was
\* overtaken, generations are used in order and the ones before the recorded
\* child are gone.
GenShape ==
  \A s \in Sessions :
    /\ proc[s] \in {0, gen[s]}
    /\ s \notin overtaken => \A g \in Gens :
         /\ g > gen[s] => child[s][g] = "none"
         /\ (g <= gen[s] /\ g # proc[s]) => child[s][g] = "gone"
         /\ g = proc[s] => child[s][g] \in {"up", "hup", "kill"}

\* The row of a session, its settlement and its launch go together.
RowShape ==
  \A s \in Sessions :
    /\ row[s] \in {"none", "spawning", "running", "resumed", "exited"}
    /\ row[s] = "spawning" => launch[s] # "none"
    /\ settled[s] <=> row[s] = "exited"
    /\ settled[s] => s \in overtaken \/ proc[s] = 0
    /\ launch[s] # "none" \/ row[s] = "none" => edges[s] = 0 /\ ~ recycling[s]

\* The flag of a session is up for a call that is still under way.
FlagHeld ==
  \A s \in Sessions : recycling[s] => \E r \in Recycles : Recycled(r, s)

HostIInv ==
  /\ GenShape /\ RowShape /\ FlagHeld /\ RowDriven /\ EdgePerContinuation

LEMMA InitHostIInv == Init => HostIInv
<1> SUFFICES ASSUME Init PROVE HostIInv
  OBVIOUS
<1>1. \A r \in Recycles : ~ call[r].busy
  BY NoCallRecord DEF Init
<1>2. GenShape
  BY HostAssumption DEF Init, GenShape, Gens
<1>3. RowShape /\ RowDriven /\ EdgePerContinuation
  BY DEF Init, RowShape, RowDriven, EdgePerContinuation
<1>4. FlagHeld
  BY <1>1 DEF Init, FlagHeld
<1> QED BY <1>2, <1>3, <1>4 DEF HostIInv

LEMMA InvariantGivesHostInv ==
  ASSUME RowInv, HostIInv
  PROVE  HostInv
<1>1. TypeOK /\ RowDriven /\ EdgePerContinuation
  BY DEF RowInv, HostIInv
<1>2. OneChild
  <2> SUFFICES ASSUME NEW s \in Sessions, s \notin overtaken
               PROVE  Alive(s) = {proc[s]} \ {0}
    BY DEF OneChild
  <2>1. \A g \in Gens : g \in Alive(s) <=> g = proc[s]
    <3>1. \A g \in Gens : g > gen[s] \/ g <= gen[s]
      BY <1>1, HostAssumption DEF Gens, TypeOK
    <3> QED BY <3>1 DEF HostIInv, GenShape, Alive
  <2>2. proc[s] = 0 \/ proc[s] \in Gens
    BY ProcKnown
  <2>3. Alive(s) \subseteq Gens /\ 0 \notin Gens
    BY DEF Alive, Gens
  <2> QED BY <2>1, <2>2, <2>3
<1>3. SettledIsOver
  BY <1>2 DEF HostIInv, RowShape, SettledIsOver, OneChild
<1> QED BY <1>1, <1>2, <1>3 DEF HostInv

LEMMA LaunchHost ==
  ASSUME RowInv, HostIInv, NEW s \in Sessions, NEW kind \in Kinds, Launch(s, kind)
  PROVE  HostIInv'
<1>1. /\ UNCHANGED <<gen, proc, child, recycling, settled, call, edges, overtaken>>
      /\ row' = [row EXCEPT ![s] = "spawning"] /\ row[s] = "none"
      /\ launch' = [launch EXCEPT ![s] = kind] /\ kind # "none" /\ TypeOK
  BY DEF Launch, RowInv
<1>2. /\ \A t \in Sessions : t # s => row'[t] = row[t] /\ launch'[t] = launch[t]
      /\ row'[s] = "spawning" /\ launch'[s] # "none"
  BY <1>1 DEF TypeOK
<1>3. GenShape' /\ EdgePerContinuation' /\ FlagHeld'
  BY <1>1 DEF HostIInv, GenShape, EdgePerContinuation, FlagHeld, Recycled
<1>4. RowShape'
  BY <1>1, <1>2 DEF HostIInv, RowShape, RowInv, LaunchFresh
<1>5. RowDriven'
  BY <1>1, <1>2 DEF HostIInv, RowDriven, Recycled
<1> QED BY <1>3, <1>4, <1>5 DEF HostIInv

LEMMA SpawnedHost ==
  ASSUME RowInv, HostIInv, NEW s \in Sessions, Spawned(s)
  PROVE  HostIInv'
<1>1. /\ TypeOK /\ launch[s] # "none" /\ row[s] = "spawning" /\ s \notin known
      /\ gen[s] = 0 /\ Childless(s) /\ 1 \in Gens
      /\ edges[s] = 0 /\ ~ settled[s] /\ ~ recycling[s]
  BY HostAssumption
  DEF RowInv, LaunchFresh, Spawned, Gens, HostIInv, RowShape
<1>2. /\ gen' = [gen EXCEPT ![s] = 1] /\ proc' = [proc EXCEPT ![s] = 1]
      /\ child' = [child EXCEPT ![s][1] = "up"]
      /\ row' = [row EXCEPT ![s] = "running"]
      /\ launch' = [launch EXCEPT ![s] = "none"]
      /\ edges' = [edges EXCEPT ![s] = IF launch[s] = "fork" THEN @ + 1 ELSE @]
      /\ UNCHANGED <<recycling, settled, timers, call, shuttingDown, overtaken>>
  BY <1>1 DEF Spawned, Forked, RowOfNew, TypeOK
<1>3. /\ gen'[s] = 1 /\ proc'[s] = 1 /\ row'[s] = "running" /\ launch'[s] = "none"
      /\ edges'[s] \in {0, 1} /\ child'[s][1] = "up"
      /\ \A g \in Gens : g # 1 => child'[s][g] = "none"
      /\ \A t \in Sessions : t # s =>
           /\ gen'[t] = gen[t] /\ proc'[t] = proc[t] /\ child'[t] = child[t]
           /\ row'[t] = row[t] /\ launch'[t] = launch[t] /\ edges'[t] = edges[t]
  BY <1>1, <1>2 DEF TypeOK, Childless
<1>4. GenShape'
  BY <1>2, <1>3 DEF HostIInv, GenShape, Gens
<1>5. RowShape'
  BY <1>1, <1>2, <1>3 DEF HostIInv, RowShape
<1>6. FlagHeld'
  BY <1>2 DEF HostIInv, FlagHeld, Recycled
<1>7. RowDriven'
  BY <1>2, <1>3 DEF HostIInv, RowDriven, Recycled
<1>8. EdgePerContinuation'
  BY <1>3 DEF HostIInv, EdgePerContinuation
<1> QED BY <1>4, <1>5, <1>6, <1>7, <1>8 DEF HostIInv

LEMMA NotSpawnedHost ==
  ASSUME RowInv, HostIInv, NEW s \in Sessions, NotSpawned(s)
  PROVE  HostIInv'
<1>1. /\ TypeOK /\ row \in [Sessions -> Rows] /\ launch[s] # "none" /\ row[s] = "spawning"
      /\ proc[s] = 0 /\ edges[s] = 0 /\ ~ settled[s] /\ ~ recycling[s]
  BY DEF RowInv, TypeOK, LaunchFresh, NotSpawned, HostIInv, RowShape
<1>2. /\ UNCHANGED <<gen, proc, child, recycling, call, edges, overtaken>>
      /\ Settle(row, s)
      /\ launch' = [launch EXCEPT ![s] = "none"]
  BY DEF NotSpawned
<1>3. /\ \A t \in Sessions : t # s => /\ row'[t] = row[t] /\ settled'[t] = settled[t]
                                      /\ launch'[t] = launch[t]
      /\ settled'[s] /\ row'[s] = "exited" /\ launch'[s] = "none"
  <2>1. /\ \A t \in Sessions : t # s => row'[t] = row[t] /\ settled'[t] = settled[t]
        /\ settled'[s]
        /\ row'[s] = IF ~ settled[s] /\ row[s] \in {"spawning", "running", "resumed"}
                     THEN "exited" ELSE row[s]
    BY <1>1, <1>2, SettleShape
  <2>2. launch'[s] = "none" /\ \A t \in Sessions : t # s => launch'[t] = launch[t]
    BY <1>1, <1>2 DEF TypeOK
  <2> QED BY <1>1, <2>1, <2>2
<1>4. GenShape' /\ EdgePerContinuation' /\ FlagHeld'
  BY <1>2 DEF HostIInv, GenShape, EdgePerContinuation, FlagHeld, Recycled
<1>5. RowShape'
  BY <1>1, <1>2, <1>3 DEF HostIInv, RowShape
<1>6. RowDriven'
  BY <1>2, <1>3 DEF HostIInv, RowDriven, Recycled
<1> QED BY <1>4, <1>5, <1>6 DEF HostIInv

\* What SIGHUP, SIGKILL and the escalation do not disturb: the signal reaches
\* the recorded child, which is alive and stays so until it exits.
LEMMA SignalHost ==
  ASSUME RowInv, HostIInv, NEW s \in Sessions, proc[s] # 0,
         NEW sig \in {"hup", "kill"}, child' = Signalled(s, proc[s], sig),
         UNCHANGED <<gen, proc, overtaken>>
  PROVE  GenShape'
<1>1. /\ proc[s] \in Gens /\ TypeOK
      /\ s \notin overtaken => child[s][proc[s]] \in {"up", "hup", "kill"}
  BY ProcKnown DEF RowInv, HostIInv, GenShape
<1>2. /\ s \notin overtaken => child'[s][proc[s]] \in {"up", "hup", "kill"}
      /\ \A t \in Sessions, h \in Gens :
           (t # s \/ h # proc[s]) => child'[t][h] = child[t][h]
  BY <1>1 DEF Signalled, TypeOK
<1> QED BY <1>1, <1>2 DEF HostIInv, GenShape

LEMMA KillHost ==
  ASSUME RowInv, HostIInv, NEW s \in Sessions, NEW force \in BOOLEAN, Kill(s, force)
  PROVE  HostIInv'
<1>1. GenShape'
  <2>1. (IF force THEN "kill" ELSE "hup") \in {"hup", "kill"}
    OBVIOUS
  <2> QED BY <2>1, SignalHost DEF Kill
<1> QED BY <1>1 DEF Kill, HostIInv, RowShape, FlagHeld, RowDriven,
           EdgePerContinuation, Recycled

LEMMA EscalateHost ==
  ASSUME RowInv, HostIInv, NEW s \in Sessions, NEW g \in Gens, Escalate(s, g)
  PROVE  HostIInv'
<1>1. GenShape'
  <2>1. CASE proc[s] # 0 /\ gen[s] = g
    BY <2>1, SignalHost DEF Escalate
  <2>2. CASE ~ (proc[s] # 0 /\ gen[s] = g)
    BY <2>2 DEF Escalate, HostIInv, GenShape
  <2> QED BY <2>1, <2>2
<1> QED BY <1>1 DEF Escalate, HostIInv, RowShape, FlagHeld, RowDriven,
           EdgePerContinuation, Recycled

\* The recorded child exits.  A recycle keeps the row alive because its call
\* will go on; otherwise the row is settled here.
LEMMA ChildExitsHost ==
  ASSUME RowInv, HostIInv, NEW s \in Sessions, NEW g \in Gens, ChildExits(s, g)
  PROVE  HostIInv'
<1>1. /\ TypeOK /\ row \in [Sessions -> Rows]
      /\ s \notin overtaken => g = proc[s] /\ g = gen[s]
  <2>1. g > gen[s] \/ g <= gen[s]
    BY HostAssumption DEF RowInv, TypeOK, Gens
  <2>2. g # 0
    BY DEF Gens
  <2> QED BY <2>1, <2>2 DEF RowInv, TypeOK, HostIInv, GenShape, ChildExits, Alive
<1>2. /\ row[s] \in {"running", "resumed", "exited"} /\ launch[s] = "none"
      /\ settled[s] <=> row[s] = "exited"
  <2>1. ~ Childless(s)
    BY DEF ChildExits, Alive, Childless
  <2>2. row[s] # "none" /\ launch[s] = "none"
    BY <2>1 DEF RowInv, LaunchFresh
  <2> QED BY <2>2 DEF HostIInv, RowShape
<1>3. /\ child' = [child EXCEPT ![s][g] = "gone"] /\ proc' = [proc EXCEPT ![s] = 0]
      /\ UNCHANGED <<launch, gen, recycling, call, edges, overtaken>>
  BY DEF ChildExits
<1>4. /\ child'[s][g] = "gone" /\ proc'[s] = 0
      /\ \A h \in Gens : h # g => child'[s][h] = child[s][h]
      /\ \A t \in Sessions : t # s => proc'[t] = proc[t] /\ child'[t] = child[t]
  BY <1>1, <1>3 DEF TypeOK
<1>5. /\ \A t \in Sessions : t # s => row'[t] = row[t] /\ settled'[t] = settled[t]
      /\ \/ recycling[s] /\ row'[s] = row[s] /\ settled'[s] = settled[s]
         \/ row'[s] = "exited" /\ settled'[s]
  <2>1. CASE recycling[s]
    BY <2>1 DEF ChildExits
  <2>2. CASE ~ recycling[s]
    <3>1. /\ \A t \in Sessions : t # s => row'[t] = row[t] /\ settled'[t] = settled[t]
          /\ settled'[s]
          /\ row'[s] = IF ~ settled[s] /\ row[s] \in {"spawning", "running", "resumed"}
                       THEN "exited" ELSE row[s]
      BY <1>1, <2>2, SettleShape DEF ChildExits
    <3> QED BY <1>2, <3>1
  <2> QED BY <2>1, <2>2
<1>6. GenShape'
  <2>1. ASSUME s \notin overtaken, NEW h \in Gens, h # g
        PROVE  /\ h > gen[s] => child'[s][h] = "none"
               /\ h <= gen[s] => child'[s][h] = "gone"
    <3>1. child'[s][h] = child[s][h] /\ h # proc[s]
      BY <1>1, <1>4, <2>1
    <3> QED BY <2>1, <3>1 DEF HostIInv, GenShape
  <2>2. 0 \notin Gens /\ (s \notin overtaken => ~ (g > gen[s]))
    BY <1>1 DEF Gens
  <2> QED BY <1>1, <1>3, <1>4, <2>1, <2>2 DEF HostIInv, GenShape
<1>7. RowShape'
  BY <1>2, <1>3, <1>4, <1>5 DEF HostIInv, RowShape
<1>8. FlagHeld' /\ EdgePerContinuation'
  BY <1>3 DEF HostIInv, FlagHeld, EdgePerContinuation, Recycled
<1>9. RowDriven'
  BY <1>3, <1>4, <1>5 DEF HostIInv, RowDriven, FlagHeld, Recycled
<1> QED BY <1>6, <1>7, <1>8, <1>9 DEF HostIInv

LEMMA RecycleHost ==
  ASSUME RowInv, HostIInv, NEW r \in Recycles, NEW s \in Sessions,
         NEW fork \in BOOLEAN, Recycle(r, s, fork)
  PROVE  HostIInv'
<1>1. /\ TypeOK /\ proc[s] # 0 /\ gen[s] \in Gens /\ s \in known /\ ~ call[r].busy
      /\ recycling' = [recycling EXCEPT ![s] = TRUE]
      /\ call' = [call EXCEPT ![r] = Call(s, gen[s], fork)]
      /\ UNCHANGED <<row, launch, gen, proc, settled, edges, overtaken>>
  BY ProcKnown DEF Recycle, RowInv
<1>2. /\ call'[r].busy /\ call'[r].session = s
      /\ \A q \in Recycles : q # r => call'[q] = call[q]
      /\ recycling'[s] /\ \A t \in Sessions : t # s => recycling'[t] = recycling[t]
  BY <1>1, CallRecord DEF TypeOK
<1>3. GenShape'
  BY <1>1, SignalHost DEF Recycle
<1>4. RowShape'
  BY <1>1, <1>2 DEF HostIInv, RowShape, RowInv, LaunchFresh
<1>5. FlagHeld'
  <2> SUFFICES ASSUME NEW t \in Sessions, recycling'[t]
               PROVE  \E q \in Recycles : call'[q].busy /\ call'[q].session = t
    BY DEF FlagHeld, Recycled
  <2>1. CASE t = s
    BY <1>2, <2>1
  <2>2. CASE t # s
    <3>1. PICK q \in Recycles : call[q].busy /\ call[q].session = t
      BY <1>2, <2>2 DEF HostIInv, FlagHeld, Recycled
    <3> QED BY <1>1, <1>2, <3>1
  <2> QED BY <2>1, <2>2
<1>6. RowDriven'
  <2> SUFFICES ASSUME NEW t \in Sessions, row'[t] \in {"running", "resumed"},
                      proc'[t] = 0
               PROVE  /\ recycling'[t]
                      /\ \E q \in Recycles : call'[q].busy /\ call'[q].session = t
    BY DEF RowDriven, Recycled
  <2>1. t # s /\ recycling[t]
    BY <1>1 DEF HostIInv, RowDriven
  <2>2. recycling'[t]
    BY <1>2, <2>1
  <2> QED BY <1>5, <2>2 DEF FlagHeld, Recycled
<1>7. EdgePerContinuation'
  BY <1>1 DEF HostIInv, EdgePerContinuation
<1> QED BY <1>3, <1>4, <1>5, <1>6, <1>7 DEF HostIInv

\* The call of session s goes on and takes the flag of s down; what the others
\* are about is not touched.
LEMMA GoesOnHost ==
  ASSUME RowInv, HostIInv, NEW r \in Recycles, NEW s \in Sessions,
         s = call[r].session, GoesOn(r)
  PROVE  /\ FlagHeld' /\ ~ recycling'[s]
         /\ \A t \in Sessions : t # s => recycling'[t] = recycling[t]
         /\ overtaken \subseteq overtaken'
         /\ \A t \in Sessions : t # s => (t \in overtaken' <=> t \in overtaken)
<1>1. /\ TypeOK /\ ~ recycling'[s]
      /\ \A t \in Sessions : t # s => recycling'[t] = recycling[t]
      /\ overtaken \subseteq overtaken'
      /\ \A t \in Sessions : t # s => (t \in overtaken' <=> t \in overtaken)
  BY DEF RowInv, TypeOK, GoesOn
<1>2. ~ call'[r].busy /\ \A q \in Recycles : q # r => call'[q] = call[q]
  BY CallEnds DEF GoesOn
<1>3. ASSUME NEW t \in Sessions, recycling'[t]
      PROVE  \E q \in Recycles : call'[q].busy /\ call'[q].session = t
  <2>1. t # s /\ recycling[t]
    BY <1>1, <1>3
  <2>2. PICK q \in Recycles : call[q].busy /\ call[q].session = t
    BY <2>1 DEF HostIInv, FlagHeld, Recycled
  <2> QED BY <1>2, <2>1, <2>2
<1> QED BY <1>1, <1>3 DEF FlagHeld, Recycled

\* When the await of a recycle resolves, its session has no child, or the
\* child of another recycle: then it has been overtaken.
LEMMA GoesOnFrom ==
  ASSUME RowInv, HostIInv, NEW r \in Recycles, GoesOn(r), NEW s \in Sessions,
         s = call[r].session
  PROVE  /\ TypeOK /\ call[r].busy /\ launch[s] = "none"
         /\ s \notin overtaken' => proc[s] = 0 /\ s \notin overtaken
         /\ row[s] \in {"running", "resumed", "exited"}
         /\ settled[s] <=> row[s] = "exited"
<1>1. /\ TypeOK /\ call[r].busy /\ child[s][call[r].gen] = "gone" /\ Awaited(r)
  BY DEF RowInv, GoesOn, Awaited
<1>2. ASSUME s \notin overtaken'
      PROVE  proc[s] = 0 /\ s \notin overtaken
  <2>1. s \notin overtaken /\ call[r].gen = gen[s]
    BY <1>2 DEF GoesOn
  <2>2. gen[s] \in Gens
    BY <1>1, <2>1, BusyCall
  <2> QED BY <1>1, <2>1, <2>2 DEF HostIInv, GenShape
<1>3. launch[s] = "none" /\ row[s] # "none"
  BY <1>1, AwaitedSession
<1> QED BY <1>1, <1>2, <1>3 DEF HostIInv, RowShape

\* Rows that are driven stay so when only session s changes and s is driven
\* or settled.
LEMMA RowDrivenElsewhere ==
  ASSUME HostIInv, FlagHeld', NEW s \in Sessions,
         row'[s] \in {"running", "resumed"} => proc'[s] # 0,
         \A t \in Sessions : t # s =>
           /\ row'[t] \in {"running", "resumed"} => row'[t] = row[t]
           /\ proc'[t] = proc[t] /\ recycling'[t] = recycling[t]
  PROVE  RowDriven'
<1> SUFFICES ASSUME NEW t \in Sessions, row'[t] \in {"running", "resumed"},
                    proc'[t] = 0
             PROVE  /\ recycling'[t]
                    /\ \E q \in Recycles : call'[q].busy /\ call'[q].session = t
  BY DEF RowDriven, Recycled
<1>1. t # s /\ recycling[t]
  BY DEF HostIInv, RowDriven
<1>2. recycling'[t]
  BY <1>1
<1> QED BY <1>2 DEF FlagHeld, Recycled

LEMMA RecycleResumesHost ==
  ASSUME RowInv, HostIInv, NEW r \in Recycles, RecycleResumes(r)
  PROVE  HostIInv'
<1>s. PICK s \in Sessions : s = call[r].session
  BY AwaitedSession DEF RecycleResumes, GoesOn
<1>g. GoesOn(r)
  BY DEF RecycleResumes
<1>0. /\ TypeOK
      /\ s \notin overtaken' => proc[s] = 0 /\ s \notin overtaken
      /\ row[s] \in {"running", "resumed"} /\ ~ settled[s] /\ launch[s] = "none"
  <2>1. row[s] # "exited"
    BY <1>s DEF RecycleResumes, Resumable
  <2> QED BY <1>g, <1>s, <2>1, GoesOnFrom
<1>n. PICK n \in Gens : n = gen[s] + 1
  BY <1>0, <1>s, HostAssumption DEF RecycleResumes, TypeOK, Gens
<1>1. /\ row' = [row EXCEPT ![s] = "resumed"]
      /\ gen' = [gen EXCEPT ![s] = n] /\ proc' = [proc EXCEPT ![s] = n]
      /\ child' = [child EXCEPT ![s][n] = "up"]
      /\ edges' = [edges EXCEPT ![s] = @ + 1]
      /\ UNCHANGED <<launch, settled>>
  BY <1>0, <1>s, <1>n DEF RecycleResumes, Forked, TypeOK
<1>2. /\ row'[s] = "resumed" /\ gen'[s] = n /\ proc'[s] = n /\ edges'[s] = edges[s] + 1
      /\ child'[s][n] = "up" /\ \A h \in Gens : h # n => child'[s][h] = child[s][h]
      /\ \A t \in Sessions : t # s =>
           /\ row'[t] = row[t] /\ gen'[t] = gen[t] /\ proc'[t] = proc[t]
           /\ child'[t] = child[t] /\ edges'[t] = edges[t]
  BY <1>0, <1>1 DEF TypeOK
<1>3. /\ FlagHeld' /\ ~ recycling'[s]
      /\ \A t \in Sessions : t # s => recycling'[t] = recycling[t]
      /\ \A t \in Sessions : t # s => (t \in overtaken' <=> t \in overtaken)
  BY <1>g, <1>s, GoesOnHost
<1>4. GenShape'
  <2>1. ASSUME s \notin overtaken', NEW h \in Gens, h # n
        PROVE  /\ h > n => child'[s][h] = "none"
               /\ h <= n => child'[s][h] = "gone"
    <3>0. s \notin overtaken /\ proc[s] = 0
      BY <1>0, <2>1
    <3>1. /\ child'[s][h] = child[s][h] /\ h # proc[s]
          /\ h > n => h > gen[s]
          /\ h <= n => h <= gen[s]
      BY <1>0, <1>2, <1>n, <2>1, <3>0 DEF Gens, TypeOK
    <3> QED BY <3>0, <3>1 DEF HostIInv, GenShape
  <2>2. ~ (n > n)
    BY DEF Gens
  <2> QED BY <1>2, <1>3, <2>1, <2>2 DEF HostIInv, GenShape
<1>5. RowShape'
  BY <1>0, <1>1, <1>2, <1>3 DEF HostIInv, RowShape
<1>6. RowDriven'
  <2>1. proc'[s] # 0
    BY <1>2 DEF Gens
  <2> QED BY <1>2, <1>3, <2>1, RowDrivenElsewhere
<1>7. EdgePerContinuation'
  <2>1. gen'[s] - edges'[s] = gen[s] - edges[s]
    BY <1>0, <1>2, <1>n DEF TypeOK
  <2> QED BY <1>2, <2>1 DEF HostIInv, EdgePerContinuation
<1> QED BY <1>3, <1>4, <1>5, <1>6, <1>7 DEF HostIInv

\* A recycle that ends without a child leaves an exited row behind; a child of
\* another recycle it may leave too, untracked.
LEMMA CallSettlesHost ==
  ASSUME RowInv, HostIInv, NEW r \in Recycles, NEW s \in Sessions, GoesOn(r),
         s = call[r].session, UNCHANGED <<gen, proc, child, edges, launch>>,
         row'[s] = "exited", settled'[s],
         \A t \in Sessions : t # s => row'[t] = row[t] /\ settled'[t] = settled[t]
  PROVE  HostIInv'
<1>1. /\ s \notin overtaken' => proc[s] = 0 /\ s \notin overtaken
      /\ launch[s] = "none"
  BY GoesOnFrom
<1>2. /\ FlagHeld' /\ ~ recycling'[s] /\ overtaken \subseteq overtaken'
      /\ \A t \in Sessions : t # s => recycling'[t] = recycling[t]
      /\ \A t \in Sessions : t # s => (t \in overtaken' <=> t \in overtaken)
  BY GoesOnHost
<1>3. GenShape' /\ EdgePerContinuation'
  BY <1>2 DEF HostIInv, GenShape, EdgePerContinuation
<1>4. RowShape'
  BY <1>1, <1>2 DEF HostIInv, RowShape
<1>5. RowDriven'
  BY <1>2, RowDrivenElsewhere
<1> QED BY <1>2, <1>3, <1>4, <1>5 DEF HostIInv

LEMMA RecycleSpawnFailsHost ==
  ASSUME RowInv, HostIInv, NEW r \in Recycles, RecycleSpawnFails(r)
  PROVE  HostIInv'
<1>s. PICK s \in Sessions : s = call[r].session
  BY AwaitedSession DEF RecycleSpawnFails, GoesOn
<1>1. /\ Settle([row EXCEPT ![s] = "resumed"], s) /\ GoesOn(r)
      /\ UNCHANGED <<gen, proc, child, edges, launch>>
  BY <1>s DEF RecycleSpawnFails
<1>0. TypeOK /\ ~ settled[s]
  <2>1. row[s] # "exited"
    BY <1>s DEF RecycleSpawnFails, Resumable
  <2> QED BY <1>s, <1>1, <2>1, GoesOnFrom
<1>2. /\ [row EXCEPT ![s] = "resumed"] \in [Sessions -> Rows]
      /\ [row EXCEPT ![s] = "resumed"][s] = "resumed"
      /\ \A t \in Sessions : t # s => [row EXCEPT ![s] = "resumed"][t] = row[t]
  BY <1>0 DEF TypeOK, Rows
<1>3. /\ row'[s] = "exited" /\ settled'[s]
      /\ \A t \in Sessions : t # s => row'[t] = row[t] /\ settled'[t] = settled[t]
  BY <1>0, <1>1, <1>2, SettleShape
<1> QED BY <1>s, <1>1, <1>3, CallSettlesHost

LEMMA RecycleRefusedHost ==
  ASSUME RowInv, HostIInv, NEW r \in Recycles, RecycleRefused(r)
  PROVE  HostIInv'
<1>s. PICK s \in Sessions : s = call[r].session
  BY AwaitedSession DEF RecycleRefused, GoesOn
<1>1. GoesOn(r) /\ UNCHANGED <<row, settled, gen, proc, child, edges, launch>>
  BY DEF RecycleRefused
<1>0. row[s] = "exited" /\ settled[s]
  <2>1. row[s] \notin {"running", "resumed"}
    BY <1>s DEF RecycleRefused, Resumable
  <2> QED BY <1>s, <1>1, <2>1, GoesOnFrom
<1> QED BY <1>s, <1>0, <1>1, CallSettlesHost

\* A fork: the parent is over, the continuation has its row and waits.
LEMMA RecycleForksHost ==
  ASSUME RowInv, HostIInv, NEW r \in Recycles, NEW c \in Sessions, RecycleForks(r, c)
  PROVE  HostIInv'
<1>s. PICK s \in Sessions : s = call[r].session
  BY AwaitedSession DEF RecycleForks, GoesOn
<1>1. /\ Settle([row EXCEPT ![c] = "spawning"], s) /\ GoesOn(r)
      /\ launch' = [launch EXCEPT ![c] = "fork"]
      /\ UNCHANGED <<gen, proc, child, edges>>
  BY <1>s DEF RecycleForks
<1>0. /\ TypeOK /\ row[s] \in {"running", "resumed", "exited"}
      /\ s \notin overtaken' => proc[s] = 0 /\ s \notin overtaken
      /\ launch[s] = "none"
      /\ settled[s] <=> row[s] = "exited"
      /\ row[c] = "none" /\ c # s /\ ~ settled[c] /\ edges[c] = 0 /\ ~ recycling[c]
  <2>1. /\ TypeOK /\ row[s] \in {"running", "resumed", "exited"}
        /\ s \notin overtaken' => proc[s] = 0 /\ s \notin overtaken
        /\ launch[s] = "none"
        /\ settled[s] <=> row[s] = "exited"
    BY <1>s, <1>1, GoesOnFrom
  <2>2. row[c] = "none"
    BY DEF RecycleForks
  <2>3. ~ settled[c] /\ edges[c] = 0 /\ ~ recycling[c]
    BY <2>2 DEF HostIInv, RowShape
  <2> QED BY <2>1, <2>2, <2>3
<1>2. /\ [row EXCEPT ![c] = "spawning"] \in [Sessions -> Rows]
      /\ [row EXCEPT ![c] = "spawning"][c] = "spawning"
      /\ \A t \in Sessions : t # c => [row EXCEPT ![c] = "spawning"][t] = row[t]
      /\ launch'[c] = "fork" /\ \A t \in Sessions : t # c => launch'[t] = launch[t]
  BY <1>0, <1>1 DEF TypeOK, Rows
<1>3. /\ row'[s] = "exited" /\ settled'[s] /\ row'[c] = "spawning"
      /\ \A t \in Sessions : t # s => settled'[t] = settled[t]
      /\ \A t \in Sessions : (t # s /\ t # c) => row'[t] = row[t]
  <2> DEFINE rr == [row EXCEPT ![c] = "spawning"]
  <2>1. rr[s] = row[s] /\ rr \in [Sessions -> Rows] /\ Settle(rr, s)
    BY <1>0, <1>1, <1>2
  <2> HIDE DEF rr
  <2>2. /\ \A t \in Sessions : t # s => row'[t] = rr[t] /\ settled'[t] = settled[t]
        /\ settled'[s]
        /\ row'[s] = IF ~ settled[s] /\ rr[s] \in {"spawning", "running", "resumed"}
                     THEN "exited" ELSE rr[s]
    BY <1>0, <2>1, SettleShape
  <2>3. row'[s] = "exited"
    BY <1>0, <2>1, <2>2
  <2> QED BY <1>0, <1>2, <2>2, <2>3 DEF rr
<1>4. /\ FlagHeld' /\ ~ recycling'[s] /\ overtaken \subseteq overtaken'
      /\ \A t \in Sessions : t # s => recycling'[t] = recycling[t]
      /\ \A t \in Sessions : t # s => (t \in overtaken' <=> t \in overtaken)
  BY <1>1, <1>s, GoesOnHost
<1>5. GenShape' /\ EdgePerContinuation'
  BY <1>1, <1>4 DEF HostIInv, GenShape, EdgePerContinuation
<1>6. RowShape'
  BY <1>0, <1>1, <1>2, <1>3, <1>4 DEF HostIInv, RowShape
<1>7. RowDriven'
  <2>1. \A t \in Sessions : t # s => (row'[t] \in {"running", "resumed"} => row'[t] = row[t])
    BY <1>3
  <2> QED BY <1>1, <1>3, <1>4, <2>1, RowDrivenElsewhere
<1> QED BY <1>4, <1>5, <1>6, <1>7 DEF HostIInv

LEMMA ShutdownHost ==
  ASSUME RowInv, HostIInv, Shutdown
  PROVE  HostIInv'
<1>1. TypeOK /\ UNCHANGED <<launch, known, gen, proc, call, edges, overtaken>>
  BY DEF Shutdown, RowInv
<1>2. \A s \in Sessions :
        /\ recycling'[s] <=> (recycling[s] /\ ~ (s \in known /\ proc[s] # 0))
        /\ settled'[s] <=> (settled[s] \/ (s \in known /\ proc[s] = 0))
        /\ row'[s] = IF s \in known /\ proc[s] = 0 /\ ~ settled[s]
                        /\ row[s] \in {"spawning", "running", "resumed"}
                     THEN "exited" ELSE row[s]
  BY <1>1 DEF Shutdown, FlagAtShutdown, TypeOK
<1>3. \A s \in Sessions, g \in Gens :
        /\ child'[s][g] \in {child[s][g], "kill"}
        /\ child[s][g] \notin {"up", "hup", "kill"} => child'[s][g] = child[s][g]
  BY <1>1 DEF Shutdown, Alive
<1>4. GenShape'
  <2> SUFFICES ASSUME NEW s \in Sessions, s \notin overtaken, NEW g \in Gens
               PROVE  /\ g > gen[s] => child'[s][g] = "none"
                      /\ (g <= gen[s] /\ g # proc[s]) => child'[s][g] = "gone"
                      /\ g = proc[s] => child'[s][g] \in {"up", "hup", "kill"}
    BY <1>1 DEF GenShape, HostIInv
  <2>1. /\ g > gen[s] => child[s][g] = "none"
        /\ (g <= gen[s] /\ g # proc[s]) => child[s][g] = "gone"
        /\ g = proc[s] => child[s][g] \in {"up", "hup", "kill"}
    BY DEF GenShape, HostIInv
  <2> QED BY <1>3, <2>1
<1>5. \A s \in Sessions :
        /\ s \in known => row[s] \in {"running", "resumed", "exited"}
        /\ (s \notin known /\ row[s] \in {"running", "resumed"}) => proc[s] # 0
  <2> SUFFICES ASSUME NEW s \in Sessions
               PROVE  /\ s \in known => row[s] \in {"running", "resumed", "exited"}
                      /\ (s \notin known /\ row[s] \in {"running", "resumed"})
                           => proc[s] # 0
    OBVIOUS
  <2>1. s \in known => row[s] \in {"running", "resumed", "exited"}
    BY DEF RowInv, LaunchFresh, HostIInv, RowShape
  <2>2. (\E r \in Recycles : Recycled(r, s)) => s \in known
    BY DEF RowInv, CallKnown, Recycled
  <2> QED BY <2>1, <2>2 DEF HostIInv, RowDriven
<1>6. RowShape'
  BY <1>1, <1>2, <1>5 DEF HostIInv, RowShape
<1>7. FlagHeld' /\ EdgePerContinuation'
  BY <1>1, <1>2 DEF HostIInv, FlagHeld, EdgePerContinuation, Recycled
<1>8. RowDriven'
  <2>1. \A s \in Sessions : settled[s] => row[s] = "exited"
    BY DEF HostIInv, RowShape
  <2>2. \A s \in Sessions : row'[s] \in {"running", "resumed"} => proc'[s] # 0
    BY <1>1, <1>2, <1>5, <2>1
  <2> QED BY <2>2 DEF RowDriven
<1> QED BY <1>4, <1>6, <1>7, <1>8 DEF HostIInv

LEMMA NextHost ==
  ASSUME RowInv, HostIInv, Next
  PROVE  HostIInv'
BY LaunchHost, SpawnedHost, NotSpawnedHost, ChildExitsHost, EscalateHost,
   KillHost, RecycleHost, RecycleResumesHost, RecycleSpawnFailsHost,
   RecycleRefusedHost, RecycleForksHost, ShutdownHost DEF Next

\* The host keeps children, records, rows and edges together, for any number
\* of sessions, generations and recycle calls, overlapping ones of one session
\* included (the code sets its recycling flag and never tests it): a row that
\* claims life has a child or a recycle that will replace it, a settled
\* session has an exited row, each continuation has its edge.  One child per
\* session, which is record.proc, and none when the session is settled: that
\* holds of every session until a recycle of it goes on although another has
\* replaced the child it waited for.
THEOREM HostKeepsChildren == Spec => []HostInv
<1>1. RowInv /\ HostIInv /\ UNCHANGED vars => HostIInv'
  BY DEF vars, HostIInv, GenShape, RowShape, FlagHeld, RowDriven,
         EdgePerContinuation, Recycled
<1>2. RowInv /\ HostIInv /\ [Next]_vars => HostIInv'
  BY <1>1, NextHost
<1>3. RowInv /\ HostIInv => HostInv
  BY InvariantGivesHostInv
<1> QED BY <1>2, <1>3, InitHostIInv, RowInvariant, PTL DEF Spec

=============================================================================
