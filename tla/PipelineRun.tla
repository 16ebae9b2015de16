---------------------------- MODULE PipelineRun ----------------------------
(* One pipeline run: the walk over the step graph and its journal.           *)
(*                                                                           *)
(* pipelines/engine.ts starts, pauses, cancels and resumes a run;            *)
(* pipelines/runner.ts walks the graph generation by generation; every       *)
(* attempt is a row of the journal (packages/schema/src/pipelines.ts), which *)
(* is all that survives a broker crash and all that a resume goes by.        *)
(*                                                                           *)
(* The walk runs on the event loop: between two awaits (executor, retry      *)
(* sleep, gate) nothing else happens, so a client verb arrives only when the *)
(* walk is Quiet. The process may die anywhere. The output of an execution   *)
(* is named by its iteration and attempt; the input hash of a step is the    *)
(* outputs its template finds.                                               *)
EXTENDS Naturals, Sequences, FiniteSets, FiniteSetsExt

CONSTANTS
    Steps,        \* step ids of the document
    Gates,        \* steps of kind approval
    Lenient,      \* gates with onTimeout: continue
    Needs,        \* step -> the steps it needs (and whose outputs it templates)
    Continue,     \* steps with onError: continue
    Conditional,  \* steps whose `when` tests an output of a need
    Fan,          \* steps whose forEach takes its array from a need's output
    Items,        \* step -> length of that array, 1 for the other steps
    MaxParallel,  \* step -> maxParallel
    MaxRetries,   \* step -> retry.max
    MaxWalks      \* bound: launch and resumes of the run

Iterations == UNION {0..(Items[s] - 1) : s \in Steps}
Key        == Steps \X Iterations

VARIABLES
    row,        \* status of the pipeline_run row, "none" before the launch
    journal,    \* step_attempt rows of each (step, iteration), by attempt
    walk,       \* off, walking, or rejected (runPipeline threw)
    walks,      \* walks begun
    cancelled,  \* the walk's cancel flag
    paused,     \* the walk's pause flag
    remaining,  \* steps not claimed
    gen,        \* steps of the current generation whose runStep is due
    disp,       \* disposition, "none" while not settled
    slot,       \* where each iteration is
    tries,      \* attempts this walk made of each iteration
    out         \* stepOutputs, NoOutput where undefined

volatile == <<cancelled, paused, remaining, gen, disp, slot, tries, out>>
vars     == <<row, journal, walk, walks, volatile>>

NoOutput == <<>>
Done     == {"completed", "memoized"}
Busy     == {"queued", "running", "backoff", "waiting"}
Ended    == {"ok", "bad"}
RowStates == {"running", "awaiting", "completed", "memoized", "failed",
              "cancelled"}
Dispositions == {"completed", "failed", "skipped", "cancelled"}

\* Static validation of the document (no cycle, known needs) and the clamps
\* runStep applies to maxParallel.
ASSUME DocumentAssumption ==
    /\ Gates \subseteq Steps /\ Lenient \subseteq Gates
    /\ Continue \subseteq Steps \ Gates
    /\ Fan \subseteq Steps \ Gates /\ Conditional \subseteq Steps
    /\ Needs \in [Steps -> SUBSET Steps]
    /\ \A S \in SUBSET Steps : S # {} => \E s \in S : Needs[s] \cap S = {}
    /\ Items \in [Steps -> Nat \ {0}]
    /\ \A s \in Steps \ Fan : Items[s] = 1
    /\ MaxParallel \in [Steps -> 1..16]
    /\ MaxRetries \in [Steps -> Nat]
    /\ MaxWalks \in Nat \ {0}

Output == {NoOutput} \cup (Iterations \X Nat)

TypeOK ==
    /\ row \in {"none", "pending", "running", "paused", "completed",
                "failed", "cancelled"}
    /\ DOMAIN journal = Key
    /\ \A k \in Key : \A a \in DOMAIN journal[k] :
          journal[k][a].status \in RowStates /\ journal[k][a].out \in Output
    /\ walk \in {"off", "walking", "rejected"}
    /\ walks \in 0..MaxWalks
    /\ cancelled \in BOOLEAN /\ paused \in BOOLEAN
    /\ remaining \subseteq Steps /\ gen \subseteq remaining
    /\ disp \in [Steps -> Dispositions \cup {"none"}]
    /\ slot \in [Key -> Busy \cup Ended \cup {"idle"}]
    /\ tries \in [Key -> Nat]
    /\ out \in [Steps -> Output]

----------------------------------------------------------------------------
(* The journal.                                                              *)

NewRow(h, st) == [hash |-> h, status |-> st, out |-> NoOutput]

\* record: attempt numbers continue the journal, so a row is appended.
Record(s, i, h, st) ==
    journal' = [journal EXCEPT ![<<s, i>>] = Append(@, NewRow(h, st))]

\* complete: the newest row of the iteration, the one its slot runs.
Complete(s, i, st, o) ==
    journal' = [journal EXCEPT ![<<s, i>>][Len(journal[<<s, i>>])] =
                    [hash |-> @.hash, status |-> st, out |-> o]]

GateHash == <<>>

\* computeInputHash of the rendered invocation.
InputHash(s) == [n \in Needs[s] |-> out[n]]

\* Mutant: a cache hit is only looked for among earlier cache hits.
MemoSkipsCompleted(s, i) == {a \in DOMAIN journal[<<s, i>>] :
                  /\ journal[<<s, i>>][a].hash = InputHash(s)
                  /\ journal[<<s, i>>][a].status = "memoized"}

\* Attempts findMemoized matches; it returns the newest.
Memo(s, i) == {a \in DOMAIN journal[<<s, i>>] :
                  /\ journal[<<s, i>>][a].hash = InputHash(s)
                  /\ journal[<<s, i>>][a].status \in Done}

----------------------------------------------------------------------------
(* Starting a walk.                                                          *)

Unsettled == [s \in Steps |-> "none"]
IdleSlots == [k \in Key |-> "idle"]
NoTries   == [k \in Key |-> 0]
NoOutputs == [s \in Steps |-> NoOutput]

Init ==
    /\ row = "none" /\ walk = "off" /\ walks = 0
    /\ journal = [k \in Key |-> <<>>]
    /\ cancelled = FALSE /\ paused = FALSE
    /\ remaining = Steps /\ gen = {} /\ disp = Unsettled
    /\ slot = IdleSlots /\ tries = NoTries /\ out = NoOutputs

\* The locals of runPipeline are those of a new call.
FreshWalk ==
    /\ cancelled' = FALSE /\ paused' = FALSE
    /\ remaining' = Steps /\ gen' = {} /\ disp' = Unsettled
    /\ slot' = IdleSlots /\ tries' = NoTries /\ out' = NoOutputs

\* launch: the row is inserted before any work.
Launch ==
    /\ row = "none"
    /\ row' = "pending"
    /\ UNCHANGED <<journal, walk, walks, volatile>>

\* startRun and the head of runPipeline. `resume` itself accepts any run; the
\* guard is the cockpit's, which resumes a run published as paused or failed
\* (runControlsFor), and that of a restarted broker, in which a run left
\* pending or running has no walk.
Begin ==
    /\ walk = "off"
    /\ row \in {"pending", "running", "paused", "failed"}
    /\ walks < MaxWalks
    /\ walks' = walks + 1
    /\ row' = "running"
    /\ walk' = "walking"
    /\ FreshWalk
    /\ UNCHANGED journal

\* The broker dies; rows stay as they are.
Crash ==
    /\ walk # "off"
    /\ walk' = "off"
    /\ FreshWalk
    /\ UNCHANGED <<row, journal, walks>>

----------------------------------------------------------------------------
(* The walk.                                                                 *)

Active == {s \in Steps \ remaining : disp[s] = "none"}

\* Needs settled, in whatever way.
Ready == {s \in remaining : \A n \in Needs[s] : disp[n] # "none"}

\* A claimed step with nothing in flight is about to settle.
Settling(s) == s \in Active /\ \A i \in Iterations : slot[<<s, i>>] \notin Busy

\* Every await of the walk is on an executor, a sleep or a gate.
Quiet ==
    /\ gen = {}
    /\ Active # {}
    /\ \A k \in Key : slot[k] # "queued"
    /\ \A s \in Steps : ~Settling(s)

\* runReady: the next generation, all of it before the one after.
NextGeneration ==
    /\ walk = "walking"
    /\ gen = {} /\ Active = {}
    /\ ~cancelled /\ ~paused
    /\ Ready # {}
    /\ gen' = Ready
    /\ UNCHANGED <<row, journal, walk, walks, cancelled, paused, remaining,
                   disp, slot, tries, out>>

\* Mutant: skip only when every need is blocked.
SkipWhenAllBlocked(s) ==
    /\ Needs[s] # {}
    /\ \A n \in Needs[s] : /\ disp[n] # "completed"
                           /\ ~(disp[n] = "failed" /\ n \in Continue)

\* A dependent runs only when every need completed, or failed with
\* onError: continue.
SkipByUpstream(s) ==
    \E n \in Needs[s] : /\ disp[n] # "completed"
                        /\ ~(disp[n] = "failed" /\ n \in Continue)

Starved(s) == Needs[s] # {} /\ \A n \in Needs[s] : out[n] = NoOutput

\* Skipped by its needs, by a false `when`, or by an empty forEach.
Skipped(s) ==
    \/ SkipByUpstream(s)
    \/ s \in Conditional \cup Fan /\ Starved(s)

\* Iterations runBounded starts at once.
Lanes(s) == 0..(Min({Items[s], MaxParallel[s]}) - 1)

Claim(s) ==
    /\ s \in gen
    /\ gen' = gen \ {s}
    /\ remaining' = remaining \ {s}

SkipStep(s) ==
    /\ Claim(s)
    /\ Skipped(s)
    /\ disp' = [disp EXCEPT ![s] = "skipped"]
    /\ UNCHANGED <<row, journal, walk, walks, cancelled, paused, slot, tries,
                   out>>

RunExecutable(s) ==
    /\ Claim(s)
    /\ s \notin Gates /\ ~Skipped(s)
    /\ slot' = [k \in Key |-> IF k[1] = s /\ k[2] \in Lanes(s)
                              THEN "queued" ELSE slot[k]]
    /\ UNCHANGED <<row, journal, walk, walks, cancelled, paused, disp, tries,
                   out>>

\* runGate: attempt 0 is journaled, then the gate is asked.
RunGate(s) ==
    /\ Claim(s)
    /\ s \in Gates /\ ~Skipped(s)
    /\ journal[<<s, 0>>] = <<>>
    /\ Record(s, 0, GateHash, "awaiting")
    /\ slot' = [slot EXCEPT ![<<s, 0>>] = "waiting"]
    /\ UNCHANGED <<row, walk, walks, cancelled, paused, disp, tries, out>>

\* Attempt 0 exists already: record throws, Promise.all rejects, the run row
\* stays `running` and the run leaves `live`. Steps in flight go on.
RunGateRejected(s) ==
    /\ Claim(s)
    /\ s \in Gates /\ ~Skipped(s)
    /\ journal[<<s, 0>>] # <<>>
    /\ walk' = "rejected"
    /\ UNCHANGED <<row, journal, walks, cancelled, paused, disp, slot, tries,
                   out>>

\* The worker of a finished iteration takes the next item, if any is left.
Advance(s, i, res) ==
    LET left == {j \in 0..(Items[s] - 1) : slot[<<s, j>>] = "idle"}
    IN  slot' = [k \in Key |->
                    IF k = <<s, i>> THEN res
                    ELSE IF left # {} /\ k = <<s, Min(left)>> THEN "queued"
                    ELSE slot[k]]

\* runIterations stops before the attempt once the walk is to end.
IterationStopped(s, i) ==
    /\ slot[<<s, i>>] = "queued"
    /\ cancelled \/ paused
    /\ Advance(s, i, "bad")
    /\ UNCHANGED <<row, journal, walk, walks, cancelled, paused, remaining,
                   gen, disp, tries, out>>

\* applyMemoHit: journaled as a fresh attempt; the cached output, if the
\* matched row holds one, becomes the step's output.
MemoHit(s, i) ==
    /\ slot[<<s, i>>] = "queued"
    /\ ~cancelled /\ ~paused
    /\ \E newest \in Memo(s, i) :
         /\ \A a \in Memo(s, i) : a <= newest
         /\ LET memo == journal[<<s, i>>][newest]
            IN  /\ Record(s, i, memo.hash, "memoized")
                /\ out' = IF memo.out = NoOutput THEN out
                          ELSE [out EXCEPT ![s] = memo.out]
    /\ Advance(s, i, "ok")
    /\ UNCHANGED <<row, walk, walks, cancelled, paused, remaining, gen, disp,
                   tries>>

\* First attempt: the running row, then the executor.
StartAttempt(s, i) ==
    /\ slot[<<s, i>>] = "queued"
    /\ ~cancelled /\ ~paused
    /\ Memo(s, i) = {}
    /\ Record(s, i, InputHash(s), "running")
    /\ slot' = [slot EXCEPT ![<<s, i>>] = "running"]
    /\ tries' = [tries EXCEPT ![<<s, i>>] = 1]
    /\ UNCHANGED <<row, walk, walks, cancelled, paused, remaining, gen, disp,
                   out>>

\* The executor answered ok, with or without an output.
ExecutorOk(s, i, o) ==
    /\ slot[<<s, i>>] = "running"
    /\ o \in {NoOutput, <<i, Len(journal[<<s, i>>])>>}
    /\ Complete(s, i, "completed", o)
    /\ out' = IF o = NoOutput THEN out ELSE [out EXCEPT ![s] = o]
    /\ Advance(s, i, "ok")
    /\ UNCHANGED <<row, walk, walks, cancelled, paused, remaining, gen, disp,
                   tries>>

\* The executor failed, threw, was aborted, or broke its budget, even when a
\* late success followed. A retryable failure is retried within the policy.
Retries(s, i, retryable) ==
    retryable /\ tries[<<s, i>>] < 1 + MaxRetries[s] /\ ~cancelled

ExecutorFailed(s, i, retryable) ==
    /\ slot[<<s, i>>] = "running"
    /\ Complete(s, i, "failed", NoOutput)
    /\ IF Retries(s, i, retryable)
       THEN slot' = [slot EXCEPT ![<<s, i>>] = "backoff"]
       ELSE Advance(s, i, "bad")
    /\ UNCHANGED <<row, walk, walks, cancelled, paused, remaining, gen, disp,
                   tries, out>>

\* Mutant: the cancel flag is not read again after the sleep.
RetryUnchecked(s, i) ==
    /\ slot[<<s, i>>] = "backoff"
    /\ Record(s, i, InputHash(s), "running")
    /\ slot' = [slot EXCEPT ![<<s, i>>] = "running"]
    /\ tries' = [tries EXCEPT ![<<s, i>>] = @ + 1]
    /\ UNCHANGED <<row, walk, walks, cancelled, paused, remaining, gen, disp,
                   out>>

\* The sleep is over: a cancelled walk journals that, another tries again
\* (also a paused one).
Retry(s, i) ==
    /\ slot[<<s, i>>] = "backoff"
    /\ IF cancelled
       THEN /\ Record(s, i, InputHash(s), "cancelled")
            /\ Advance(s, i, "bad")
            /\ UNCHANGED tries
       ELSE /\ Record(s, i, InputHash(s), "running")
            /\ slot' = [slot EXCEPT ![<<s, i>>] = "running"]
            /\ tries' = [tries EXCEPT ![<<s, i>>] = @ + 1]
    /\ UNCHANGED <<row, walk, walks, cancelled, paused, remaining, gen, disp,
                   out>>

\* Mutant: one good item completes the step.
StepDoneAny(s) ==
    /\ s \notin Gates
    /\ Settling(s)
    /\ disp' = [disp EXCEPT ![s] =
                   IF \E i \in 0..(Items[s] - 1) : slot[<<s, i>>] = "ok"
                   THEN "completed" ELSE "failed"]
    /\ UNCHANGED <<row, journal, walk, walks, cancelled, paused, remaining,
                   gen, slot, tries, out>>

\* markStepDone after the iterations: every item must have succeeded.
StepDone(s) ==
    /\ s \notin Gates
    /\ Settling(s)
    /\ disp' = [disp EXCEPT ![s] =
                   IF \A i \in 0..(Items[s] - 1) : slot[<<s, i>>] = "ok"
                   THEN "completed" ELSE "failed"]
    /\ UNCHANGED <<row, journal, walk, walks, cancelled, paused, remaining,
                   gen, slot, tries, out>>

\* What a gate's outcome means for its branch. The broker supersedes a gate
\* only when it closes, with the store already closed.
GateDisposition(s, outcome) ==
    CASE outcome = "allowed"    -> "completed"
      [] outcome = "expired"    -> IF s \in Lenient THEN "completed" ELSE "failed"
      [] outcome = "denied"     -> "failed"
      [] outcome = "superseded" -> "cancelled"

GateResolved(s, outcome) ==
    /\ slot[<<s, 0>>] = "waiting"
    /\ slot' = [slot EXCEPT ![<<s, 0>>] = "ok"]
    /\ disp' = [disp EXCEPT ![s] = GateDisposition(s, outcome)]
    /\ Complete(s, 0, GateDisposition(s, outcome), NoOutput)
    /\ UNCHANGED <<row, walk, walks, cancelled, paused, remaining, gen, tries,
                   out>>

\* Mutant: failed steps do not fail the run.
OutcomeIgnoresFailures ==
    CASE cancelled -> "cancelled"
      [] ~cancelled /\ paused -> "paused"
      [] OTHER -> "completed"

\* Terminal run state: cancelled over paused over failed.
Outcome ==
    CASE cancelled -> "cancelled"
      [] ~cancelled /\ paused -> "paused"
      [] OTHER -> IF \E s \in Steps : disp[s] = "failed"
                  THEN "failed" ELSE "completed"

\* Mutant: a paused or cancelled walk waits for its ready steps.
SettleWhenDrained ==
    /\ walk = "walking"
    /\ gen = {} /\ Active = {}
    /\ Ready = {}
    /\ row' = Outcome
    /\ walk' = "off"
    /\ slot' = IdleSlots /\ tries' = NoTries /\ out' = NoOutputs
    /\ UNCHANGED <<journal, walks, cancelled, paused, remaining, gen, disp>>

Settle ==
    /\ walk = "walking"
    /\ gen = {} /\ Active = {}
    /\ cancelled \/ paused \/ Ready = {}
    /\ row' = Outcome
    /\ walk' = "off"
    /\ slot' = IdleSlots /\ tries' = NoTries /\ out' = NoOutputs
    /\ UNCHANGED <<journal, walks, cancelled, paused, remaining, gen, disp>>

\* pause and cancel reach the walk through `live`; on a run that is not live
\* they change nothing.
Pause ==
    /\ walk = "walking" /\ Quiet
    /\ ~paused
    /\ paused' = TRUE
    /\ UNCHANGED <<row, journal, walk, walks, cancelled, remaining, gen, disp,
                   slot, tries, out>>

Cancel ==
    /\ walk = "walking" /\ Quiet
    /\ ~cancelled
    /\ cancelled' = TRUE
    /\ UNCHANGED <<row, journal, walk, walks, paused, remaining, gen, disp,
                   slot, tries, out>>

\* The run is settled for good, or the bound on walks is reached.
Terminated ==
    /\ walk = "off"
    /\ row \in {"completed", "cancelled"} \/ walks = MaxWalks
    /\ UNCHANGED vars

Internal ==
    \/ NextGeneration
    \/ \E s \in Steps : \/ SkipStep(s)
                        \/ RunExecutable(s)
                        \/ RunGate(s)
                        \/ RunGateRejected(s)
                        \/ StepDone(s)
    \/ \E s \in Steps, i \in Iterations : \/ IterationStopped(s, i)
                                          \/ MemoHit(s, i)
                                          \/ StartAttempt(s, i)
    \/ Settle

ExecutorEnds(s, i) ==
    \/ \E o \in {NoOutput, <<i, Len(journal[<<s, i>>])>>} : ExecutorOk(s, i, o)
    \/ \E retryable \in BOOLEAN : ExecutorFailed(s, i, retryable)

GateEnds(s) ==
    \E outcome \in {"allowed", "denied", "expired"} : GateResolved(s, outcome)

Next ==
    \/ Launch \/ Begin \/ Crash \/ Pause \/ Cancel
    \/ Internal
    \/ \E s \in Steps, i \in Iterations : ExecutorEnds(s, i) \/ Retry(s, i)
    \/ \E s \in Gates : GateEnds(s)
    \/ Terminated

Spec == Init /\ [][Next]_vars

\* The event loop runs what is due, sleeps end, executors return (a step's
\* wallClockSec aborts them; without one this is assumed) and a gate is
\* decided or expires.
FairSpec ==
    /\ Spec
    /\ WF_vars(Internal)
    /\ \A s \in Steps, i \in Iterations :
          WF_vars(ExecutorEnds(s, i)) /\ WF_vars(Retry(s, i))
    /\ \A s \in Gates : WF_vars(GateEnds(s))

----------------------------------------------------------------------------
(* Properties.                                                               *)

\* Some attempt of every iteration of the step is journaled as done.
JournaledDone(s) ==
    \A i \in 0..(Items[s] - 1) :
        \E a \in DOMAIN journal[<<s, i>>] : journal[<<s, i>>][a].status \in Done

JournaledFailed(s) ==
    \E i \in Iterations : \E a \in DOMAIN journal[<<s, i>>] :
        journal[<<s, i>>][a].status = "failed"

\* Types, and how the walk's local state hangs together: only claimed,
\* unsettled steps have work in flight, and only while a walk runs.
PipelineInv ==
    /\ TypeOK
    /\ \A k \in Key : slot[k] \in Busy => k[1] \in Active /\ walk # "off"
    /\ \A k \in Key : slot[k] = "running" =>
          journal[k] # <<>> /\ journal[k][Len(journal[k])].status = "running"
    /\ walk # "off" => row = "running"
    /\ \A s \in Steps : walk # "off" /\ disp[s] = "completed" => JournaledDone(s)

\* Whatever the crashes and resumes, the journal respects the graph: a step
\* that has any row has all its needs journaled done, or failed where
\* onError: continue allows that. Nothing ran past an unapproved gate.
JournalOrder ==
    \A s \in Steps, i \in Iterations : journal[<<s, i>>] # <<>> =>
        \A n \in Needs[s] :
            JournaledDone(n) \/ (n \in Continue /\ JournaledFailed(n))

\* A completed attempt is never executed again on the same inputs: later rows
\* of the iteration with the same hash are cache hits.
CompletedOnce ==
    \A k \in Key : \A a, b \in DOMAIN journal[k] :
        (/\ a < b
         /\ journal[k][a].status \in Done
         /\ journal[k][a].hash = journal[k][b].hash)
        => journal[k][b].status = "memoized"

\* A run row says completed only when every step was settled without failure
\* and what counts as completed is in the journal; failed names a failed step.
RunReports ==
    /\ row = "completed" =>
          \A s \in Steps : \/ disp[s] = "completed" /\ JournaledDone(s)
                           \/ disp[s] = "skipped"
    /\ row = "failed" => \E s \in Steps : disp[s] = "failed"

\* After a cancel nothing starts: the rows the walk still adds are cancelled.
CancelStops ==
    [][cancelled /\ cancelled' =>
          \A k \in Key : Len(journal'[k]) > Len(journal[k]) =>
              journal'[k][Len(journal'[k])].status = "cancelled"]_vars

\* Every walk ends: it settles the row, or throws.
WalkEnds == walk = "walking" ~> walk # "walking"
=============================================================================
