----------------------------- MODULE LedgerFsm -----------------------------
(***************************************************************************)
(* What the resume ledger promises (packages/schema/src/kernel.ts): a row  *)
(* is born in `spawning`, moves only along LEGAL_TRANSITIONS, is never     *)
(* deleted, and its native session id is written once.  Everything that    *)
(* drives sessions implements this specification.                          *)
(***************************************************************************)
CONSTANT Sessions

VARIABLES
  state,    \* row state, "none" before the row exists
  native    \* native_session_id was backfilled

vars == <<state, native>>

States == {"spawning", "running", "resumed", "orphan_detected",
           "orphan_killed", "exited"}

LegalTransitions ==
  [spawning        |-> {"running", "exited"},
   running         |-> {"resumed", "orphan_detected", "exited"},
   resumed         |-> {"resumed", "orphan_detected", "exited"},
   orphan_detected |-> {"orphan_killed"},
   orphan_killed   |-> {"resumed", "exited"},
   exited          |-> {}]

\* isLegalTransition
Legal(from, to) == to \in LegalTransitions[from]

Init ==
  /\ state = [s \in Sessions |-> "none"]
  /\ native = [s \in Sessions |-> FALSE]

\* insertBeforeSpawn.  A host that forks its child before it yields leaves
\* the row in `running` in the same step.
RowBorn(s) == state[s] = "none" /\ state'[s] \in {"spawning", "running"}

\* transition, at most one legal edge per row and step
RowMoves(s) == state[s] # "none" /\ Legal(state[s], state'[s])

RowStep(s) ==
  /\ state'[s] = state[s] \/ RowBorn(s) \/ RowMoves(s)
  /\ native[s] => native'[s]
  /\ native'[s] => state'[s] # "none"

Next ==
  /\ state' \in [Sessions -> States \cup {"none"}]
  /\ native' \in [Sessions -> BOOLEAN]
  /\ \A s \in Sessions : RowStep(s)

Spec == Init /\ [][Next]_vars
=============================================================================
