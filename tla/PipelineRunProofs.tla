------------------------- MODULE PipelineRunProofs -------------------------
(* Completed work is not executed again on the same inputs, for every        *)
(* document and any number of crashes, resumes, pauses and cancels.          *)
EXTENDS PipelineRun, WellFoundedInduction, TLAPS

Hashes == {GateHash} \cup UNION {[Needs[s] -> Output] : s \in Steps}
Row    == [hash : Hashes, status : RowStates, out : Output]
Slots  == Busy \cup Ended \cup {"idle"}

\* Types, as far as the argument needs them.
WalkTypes ==
    /\ journal \in [Key -> Seq(Row)]
    /\ remaining \subseteq Steps /\ gen \subseteq remaining
    /\ disp \in [Steps -> Dispositions \cup {"none"}]
    /\ slot \in [Key -> Slots]
    /\ out \in [Steps -> Output]

\* Work is in flight only for claimed steps that are not settled, and a step
\* that is claimed, or about to be, has its needs settled: while it runs, no
\* output it depends on can change.
ClaimInv ==
    /\ \A s \in remaining : disp[s] = "none"
    /\ \A s \in Steps, i \in Iterations : slot[<<s, i>>] \in Busy => s \in Active
    /\ \A s \in Steps : s \in gen \/ s \notin remaining =>
           \A n \in Needs[s] : disp[n] # "none"

\* Gates wait, once, in iteration 0; other steps never do.
GateOk(s, i) ==
    IF s \in Gates
    THEN /\ slot[<<s, i>>] \in {"idle", "waiting", "ok"}
         /\ slot[<<s, i>>] = "waiting" => i = 0 /\ Len(journal[<<s, i>>]) = 1
         /\ Len(journal[<<s, i>>]) <= 1
    ELSE slot[<<s, i>>] # "waiting"
GateInv == \A s \in Steps, i \in Iterations : GateOk(s, i)

\* An iteration that runs or sleeps has no completed row for its inputs; the
\* row it runs is the newest and carries these inputs.
AttemptOk(s, i) ==
    /\ slot[<<s, i>>] \in {"running", "backoff"} => Memo(s, i) = {}
    /\ slot[<<s, i>>] = "running" =>
          /\ Len(journal[<<s, i>>]) > 0
          /\ journal[<<s, i>>][Len(journal[<<s, i>>])].hash = InputHash(s)
AttemptInv == \A s \in Steps, i \in Iterations : AttemptOk(s, i)

MemoInv == WalkTypes /\ ClaimInv /\ GateInv /\ AttemptInv /\ CompletedOnce

----------------------------------------------------------------------------
(* The journal.                                                              *)

LEMMA HashTyped ==
    ASSUME WalkTypes, NEW s \in Steps
    PROVE  InputHash(s) \in Hashes
<1>1. \A n \in Needs[s] : n \in Steps
  BY DocumentAssumption
<1>2. InputHash(s) \in [Needs[s] -> Output]
  BY <1>1 DEF InputHash, WalkTypes
<1> QED BY <1>2 DEF Hashes

\* record appends one row to one iteration and leaves the others alone.
LEMMA RecordFacts ==
    ASSUME journal \in [Key -> Seq(Row)], NEW s \in Steps, NEW i \in Iterations,
           NEW h \in Hashes, NEW st \in RowStates, Record(s, i, h, st)
    PROVE  /\ journal' \in [Key -> Seq(Row)]
           /\ \A k \in Key : k # <<s, i>> => journal'[k] = journal[k]
           /\ Len(journal'[<<s, i>>]) = Len(journal[<<s, i>>]) + 1
           /\ \A a \in 1..Len(journal[<<s, i>>]) : journal'[<<s, i>>][a] = journal[<<s, i>>][a]
           /\ journal'[<<s, i>>][Len(journal[<<s, i>>]) + 1] = NewRow(h, st)
<1> DEFINE k0 == <<s, i>>
<1>1. k0 \in Key
  BY DEF Key
<1>2. NewRow(h, st) \in Row
  BY DEF NewRow, Row, Output
<1>3. journal' = [journal EXCEPT ![k0] = Append(journal[k0], NewRow(h, st))]
  BY DEF Record
<1>4. journal[k0] \in Seq(Row)
  BY <1>1
<1> HIDE DEF k0
<1>5. Append(journal[k0], NewRow(h, st)) \in Seq(Row)
  BY <1>2, <1>4
<1>6. journal' \in [Key -> Seq(Row)] /\ \A k \in Key : k # k0 => journal'[k] = journal[k]
  BY <1>1, <1>3, <1>5
<1>7. journal'[k0] = Append(journal[k0], NewRow(h, st))
  BY <1>1, <1>3
<1>8. /\ Len(journal'[k0]) = Len(journal[k0]) + 1
      /\ \A a \in 1..Len(journal[k0]) : journal'[k0][a] = journal[k0][a]
      /\ journal'[k0][Len(journal[k0]) + 1] = NewRow(h, st)
  BY <1>2, <1>4, <1>7
<1> QED BY <1>6, <1>8 DEF k0

\* complete changes the newest row of one iteration, but not its hash.
LEMMA CompleteFacts ==
    ASSUME journal \in [Key -> Seq(Row)], NEW s \in Steps, NEW i \in Iterations,
           NEW st \in RowStates, NEW o \in Output, Len(journal[<<s, i>>]) > 0,
           Complete(s, i, st, o)
    PROVE  /\ journal' \in [Key -> Seq(Row)]
           /\ \A k \in Key : k # <<s, i>> => journal'[k] = journal[k]
           /\ Len(journal'[<<s, i>>]) = Len(journal[<<s, i>>])
           /\ \A a \in 1..Len(journal[<<s, i>>]) :
                 /\ a # Len(journal[<<s, i>>]) => journal'[<<s, i>>][a] = journal[<<s, i>>][a]
                 /\ journal'[<<s, i>>][a].hash = journal[<<s, i>>][a].hash
           /\ journal'[<<s, i>>][Len(journal[<<s, i>>])].status = st
<1> DEFINE k0 == <<s, i>>
           last == Len(journal[k0])
           done == [hash |-> journal[k0][last].hash, status |-> st, out |-> o]
           rows == [journal[k0] EXCEPT ![last] = done]
<1>1. k0 \in Key /\ journal[k0] \in Seq(Row) /\ last \in 1..Len(journal[k0])
  BY DEF Key
<1>2. journal[k0][last] \in Row
  BY <1>1
<1>3. done \in Row /\ done.hash = journal[k0][last].hash /\ done.status = st
  BY <1>2 DEF Row
<1>4. journal' = [journal EXCEPT ![k0] = rows]
  BY DEF Complete
<1> HIDE DEF k0, done
<1>5. /\ rows \in Seq(Row) /\ Len(rows) = Len(journal[k0])
      /\ \A a \in 1..Len(journal[k0]) : a # last => rows[a] = journal[k0][a]
      /\ rows[last] = done
  BY <1>1, <1>3
<1> HIDE DEF rows
<1>6. /\ journal' \in [Key -> Seq(Row)] /\ journal'[k0] = rows
      /\ \A k \in Key : k # k0 => journal'[k] = journal[k]
  BY <1>1, <1>4, <1>5
<1>7. /\ Len(journal'[k0]) = Len(journal[k0])
      /\ \A a \in 1..Len(journal[k0]) :
            /\ a # last => journal'[k0][a] = journal[k0][a]
            /\ journal'[k0][a].hash = journal[k0][a].hash
      /\ journal'[k0][last].status = st
  BY <1>1, <1>3, <1>5, <1>6
<1> QED BY <1>6, <1>7 DEF k0

\* CompletedOnce of one iteration.
OnceIn(q) == \A a, b \in 1..Len(q) :
    (a < b /\ q[a].status \in Done /\ q[a].hash = q[b].hash)
    => q[b].status = "memoized"

LEMMA OncePerKey ==
    ASSUME NEW J \in [Key -> Seq(Row)]
    PROVE  (\A k \in Key : OnceIn(J[k]))
           <=> \A k \in Key : \A a, b \in DOMAIN J[k] :
                 (a < b /\ J[k][a].status \in Done /\ J[k][a].hash = J[k][b].hash)
                 => J[k][b].status = "memoized"
<1>1. \A k \in Key : DOMAIN J[k] = 1..Len(J[k])
  BY SMT
<1> QED BY <1>1 DEF OnceIn

LEMMA MemoOf ==
    ASSUME journal \in [Key -> Seq(Row)], NEW s \in Steps, NEW i \in Iterations
    PROVE  Memo(s, i) = {a \in 1..Len(journal[<<s, i>>]) :
                           /\ journal[<<s, i>>][a].hash = InputHash(s)
                           /\ journal[<<s, i>>][a].status \in Done}
<1>1. <<s, i>> \in Key
  BY DEF Key
<1>2. DOMAIN journal[<<s, i>>] = 1..Len(journal[<<s, i>>])
  BY <1>1
<1> QED BY <1>2 DEF Memo

\* Appending a row for inputs that have no completed row, or a cache hit.
LEMMA RecordOnce ==
    ASSUME NEW q \in Seq(Row), NEW r, r \in Seq(Row), NEW e \in Row, OnceIn(q),
           Len(r) = Len(q) + 1, \A a \in 1..Len(q) : r[a] = q[a],
           r[Len(q) + 1] = e,
           \/ e.status = "memoized"
           \/ \A a \in 1..Len(q) : ~ (q[a].hash = e.hash /\ q[a].status \in Done)
    PROVE  OnceIn(r)
<1> SUFFICES ASSUME NEW a \in 1..Len(r), NEW b \in 1..Len(r), a < b,
                    r[a].status \in Done, r[a].hash = r[b].hash
             PROVE  r[b].status = "memoized"
  BY DEF OnceIn
<1>1. Len(q) \in Nat /\ a \in 1..Len(q) /\ r[a] = q[a]
  OBVIOUS
<1>2. CASE b \in 1..Len(q)
  BY <1>1, <1>2 DEF OnceIn
<1>3. CASE b = Len(q) + 1
  BY <1>1, <1>3
<1> QED BY <1>1, <1>2, <1>3

\* Settling the newest row, when its inputs have no completed row.
LEMMA CompleteOnce ==
    ASSUME NEW q \in Seq(Row), NEW r, r \in Seq(Row), OnceIn(q), Len(q) > 0,
           Len(r) = Len(q),
           \A a \in 1..Len(q) : /\ a # Len(q) => r[a] = q[a]
                                /\ r[a].hash = q[a].hash,
           \A a \in 1..(Len(q) - 1) : ~ (/\ q[a].hash = q[Len(q)].hash
                                        /\ q[a].status \in Done)
    PROVE  OnceIn(r)
<1> SUFFICES ASSUME NEW a \in 1..Len(r), NEW b \in 1..Len(r), a < b,
                    r[a].status \in Done, r[a].hash = r[b].hash
             PROVE  r[b].status = "memoized"
  BY DEF OnceIn
<1>1. Len(q) \in Nat /\ a \in 1..(Len(q) - 1) /\ a \in 1..Len(q) /\ r[a] = q[a]
  OBVIOUS
<1>2. b \in 1..Len(q) /\ r[b].hash = q[b].hash
  OBVIOUS
<1>3. b # Len(q)
  BY <1>1, <1>2
<1> QED BY <1>1, <1>2, <1>3 DEF OnceIn

----------------------------------------------------------------------------
(* Inputs in flight do not change.                                           *)

\* A step leaves the attempts of the other iterations alone if it changes the
\* journal of one iteration only, and outputs of its own, unsettled step only.
LEMMA OthersKept ==
    ASSUME MemoInv, NEW s \in Steps, NEW i \in Iterations,
           disp[s] = "none",
           journal' \in [Key -> Seq(Row)],
           \A k \in Key : k # <<s, i>> => journal'[k] = journal[k],
           \A k \in Key : k # <<s, i>> /\ slot'[k] \in {"running", "backoff", "waiting"}
              => slot'[k] = slot[k],
           \A n \in Steps : n # s => out'[n] = out[n]
    PROVE  /\ \A t \in Steps \ remaining : InputHash(t)' = InputHash(t)
           /\ \A t \in Steps, j \in Iterations :
                 <<t, j>> # <<s, i>> => AttemptOk(t, j)'
<1>1. ASSUME NEW t \in Steps \ remaining PROVE InputHash(t)' = InputHash(t)
  <2>1. \A n \in Needs[t] : n \in Steps /\ n # s
    BY DocumentAssumption DEF MemoInv, ClaimInv
  <2> QED BY <2>1 DEF InputHash
<1>2. ASSUME NEW t \in Steps, NEW j \in Iterations, <<t, j>> # <<s, i>>
      PROVE  AttemptOk(t, j)'
  <2> DEFINE k == <<t, j>>
  <2>1. k \in Key /\ journal'[k] = journal[k]
    BY <1>2 DEF Key
  <2>2. ASSUME slot'[k] \in {"running", "backoff"}
        PROVE  /\ slot'[k] = slot[k] /\ t \in Steps \ remaining
               /\ AttemptOk(t, j) /\ InputHash(t)' = InputHash(t)
    <3>1. slot'[k] = slot[k]
      BY <1>2, <2>1, <2>2
    <3>2. t \in Steps \ remaining
      BY <2>2, <3>1 DEF MemoInv, ClaimInv, Active, Busy
    <3>3. AttemptOk(t, j)
      BY DEF MemoInv, AttemptInv
    <3> QED BY <1>1, <3>1, <3>2, <3>3
  <2>3. ASSUME slot'[k] \in {"running", "backoff"} PROVE Memo(t, j)' = {}
    BY <2>1, <2>2, <2>3 DEF AttemptOk, Memo
  <2> QED BY <2>1, <2>2, <2>3 DEF AttemptOk
<1> QED BY <1>1, <1>2

----------------------------------------------------------------------------
(* The steps of one iteration.                                               *)

\* The worker ends one iteration and may queue another of the same step.
LEMMA AdvanceFacts ==
    ASSUME WalkTypes, NEW s \in Steps, NEW i \in Iterations, NEW res \in Ended,
           Advance(s, i, res)
    PROVE  /\ slot' \in [Key -> Slots] /\ slot'[<<s, i>>] = res
           /\ \A t \in Steps, j \in Iterations : <<t, j>> # <<s, i>> =>
                 \/ slot'[<<t, j>>] = slot[<<t, j>>]
                 \/ slot'[<<t, j>>] = "queued" /\ t = s
<1> DEFINE left == {j \in 0..(Items[s] - 1) : slot[<<s, j>>] = "idle"}
           next == Min(left)
<1>1. slot' = [k \in Key |-> IF k = <<s, i>> THEN res
                             ELSE IF left # {} /\ k = <<s, next>> THEN "queued"
                             ELSE slot[k]]
  BY DEF Advance
<1> HIDE DEF left, next
<1>2. "queued" \in Slots /\ res \in Slots /\ \A k \in Key : slot[k] \in Slots
  BY DEF Slots, Busy, Ended, WalkTypes
<1>3. slot' \in [Key -> Slots]
  BY <1>1, <1>2
<1>4. <<s, i>> \in Key /\ \A t \in Steps, j \in Iterations : <<t, j>> \in Key
  BY DEF Key
<1>5. slot'[<<s, i>>] = res
  BY <1>1, <1>4
<1>6. ASSUME NEW t \in Steps, NEW j \in Iterations, <<t, j>> # <<s, i>>
      PROVE  \/ slot'[<<t, j>>] = slot[<<t, j>>]
             \/ slot'[<<t, j>>] = "queued" /\ t = s
  BY <1>1, <1>4, <1>6
<1> QED BY <1>3, <1>5, <1>6

\* What every step of an iteration has in common: the rest of the walk stays
\* as it is, so only its own attempt and its own rows need an argument.
LEMMA IterationStep ==
    ASSUME MemoInv, NEW s \in Steps, NEW i \in Iterations,
           slot[<<s, i>>] \in {"queued", "running", "backoff"},
           UNCHANGED <<remaining, gen, disp>>,
           journal' \in [Key -> Seq(Row)],
           \A k \in Key : k # <<s, i>> => journal'[k] = journal[k],
           slot' \in [Key -> Slots], slot'[<<s, i>>] # "waiting",
           \A t \in Steps, j \in Iterations : <<t, j>> # <<s, i>> =>
              \/ slot'[<<t, j>>] = slot[<<t, j>>]
              \/ slot'[<<t, j>>] = "queued" /\ t = s,
           out' \in [Steps -> Output], \A n \in Steps : n # s => out'[n] = out[n],
           InputHash(s)' = InputHash(s) => AttemptOk(s, i)',
           OnceIn(journal'[<<s, i>>])
    PROVE  MemoInv'
<1>1. WalkTypes'
  BY DEF MemoInv, WalkTypes
<1>2. s \in Active /\ disp[s] = "none" /\ s \in Steps \ remaining
  BY DEF MemoInv, ClaimInv, Busy, Active
<1>3. s \notin Gates
  BY DEF MemoInv, GateInv, GateOk
<1>4. ClaimInv'
  <2>1. ASSUME NEW t \in Steps, NEW j \in Iterations, slot'[<<t, j>>] \in Busy
        PROVE  t \in Active
    <3>1. CASE t = s
      BY <1>2, <3>1
    <3>2. CASE t # s
      <4>1. slot'[<<t, j>>] = slot[<<t, j>>]
        BY <3>2
      <4> QED BY <2>1, <4>1 DEF MemoInv, ClaimInv
    <3> QED BY <3>1, <3>2
  <2> QED BY <2>1 DEF MemoInv, ClaimInv, Active
<1>5. GateInv'
  <2> SUFFICES ASSUME NEW t \in Steps, NEW j \in Iterations PROVE GateOk(t, j)'
    BY DEF GateInv
  <2>1. <<t, j>> \in Key /\ GateOk(t, j)
    BY DEF Key, MemoInv, GateInv
  <2>2. CASE <<t, j>> = <<s, i>>
    BY <1>3, <2>2 DEF GateOk
  <2>3. CASE <<t, j>> # <<s, i>>
    BY <1>3, <2>1, <2>3 DEF GateOk
  <2> QED BY <2>2, <2>3
<1>6. /\ InputHash(s)' = InputHash(s)
      /\ \A t \in Steps, j \in Iterations : <<t, j>> # <<s, i>> => AttemptOk(t, j)'
  <2>1. \A k \in Key : k # <<s, i>> /\ slot'[k] \in {"running", "backoff", "waiting"}
           => slot'[k] = slot[k]
    BY DEF Key
  <2> QED BY <1>2, <2>1, OthersKept
<1>7. AttemptInv'
  <2>1. AttemptOk(s, i)'
    BY <1>6
  <2> QED BY <1>6, <2>1 DEF AttemptInv
<1>8. CompletedOnce'
  <2>1. \A k \in Key : OnceIn(journal[k])
    BY OncePerKey DEF MemoInv, WalkTypes, CompletedOnce
  <2>2. \A k \in Key : OnceIn(journal'[k])
    BY <2>1
  <2> QED BY <2>2, OncePerKey DEF CompletedOnce
<1> QED BY <1>1, <1>4, <1>5, <1>7, <1>8 DEF MemoInv

LEMMA RowsOf ==
    ASSUME MemoInv, NEW s \in Steps, NEW i \in Iterations
    PROVE  /\ <<s, i>> \in Key /\ journal[<<s, i>>] \in Seq(Row)
           /\ Len(journal[<<s, i>>]) \in Nat
           /\ OnceIn(journal[<<s, i>>])
<1>1. <<s, i>> \in Key
  BY DEF Key
<1>2. journal[<<s, i>>] \in Seq(Row)
  BY <1>1 DEF MemoInv, WalkTypes
<1> QED BY <1>1, <1>2, OncePerKey DEF MemoInv, WalkTypes, CompletedOnce

LEMMA StoppedMemo ==
    ASSUME MemoInv, NEW s \in Steps, NEW i \in Iterations, IterationStopped(s, i)
    PROVE  MemoInv'
<1>1. /\ slot' \in [Key -> Slots] /\ slot'[<<s, i>>] = "bad"
      /\ \A t \in Steps, j \in Iterations : <<t, j>> # <<s, i>> =>
            \/ slot'[<<t, j>>] = slot[<<t, j>>]
            \/ slot'[<<t, j>>] = "queued" /\ t = s
  BY AdvanceFacts DEF IterationStopped, MemoInv, Ended
<1>2. AttemptOk(s, i)'
  BY <1>1 DEF AttemptOk
<1>3. OnceIn(journal'[<<s, i>>])
  BY RowsOf DEF IterationStopped
<1> QED BY <1>1, <1>2, <1>3, IterationStep DEF IterationStopped, MemoInv, WalkTypes

LEMMA MemoHitMemo ==
    ASSUME MemoInv, NEW s \in Steps, NEW i \in Iterations, MemoHit(s, i)
    PROVE  MemoInv'
<1>1. /\ slot' \in [Key -> Slots] /\ slot'[<<s, i>>] = "ok"
      /\ \A t \in Steps, j \in Iterations : <<t, j>> # <<s, i>> =>
            \/ slot'[<<t, j>>] = slot[<<t, j>>]
            \/ slot'[<<t, j>>] = "queued" /\ t = s
  BY AdvanceFacts DEF MemoHit, MemoInv, Ended
<1> DEFINE q == journal[<<s, i>>]
<1>2. PICK newest \in Memo(s, i) :
        /\ Record(s, i, q[newest].hash, "memoized")
        /\ out' = IF q[newest].out = NoOutput THEN out
                  ELSE [out EXCEPT ![s] = q[newest].out]
  BY DEF MemoHit
<1>3. newest \in 1..Len(q)
  BY <1>2, MemoOf DEF MemoInv, WalkTypes
<1>4. q[newest] \in Row
  BY <1>3, RowsOf
<1>5. q[newest].hash \in Hashes /\ q[newest].out \in Output
  BY <1>4 DEF Row
<1>6. "memoized" \in RowStates /\ journal \in [Key -> Seq(Row)]
  BY DEF RowStates, MemoInv, WalkTypes
<1>7. out' \in [Steps -> Output] /\ \A n \in Steps : n # s => out'[n] = out[n]
  BY <1>2, <1>5 DEF MemoInv, WalkTypes
<1> DEFINE e == NewRow(q[newest].hash, "memoized")
<1>8. e \in Row /\ e.status = "memoized"
  BY <1>5, <1>6 DEF NewRow, Row, Output
<1> HIDE DEF e
<1>9. /\ journal' \in [Key -> Seq(Row)]
      /\ \A k \in Key : k # <<s, i>> => journal'[k] = journal[k]
      /\ Len(journal'[<<s, i>>]) = Len(q) + 1
      /\ \A a \in 1..Len(q) : journal'[<<s, i>>][a] = q[a]
      /\ journal'[<<s, i>>][Len(q) + 1] = e
  BY <1>2, <1>5, <1>6, RecordFacts DEF e
<1>10. OnceIn(journal'[<<s, i>>])
  BY <1>8, <1>9, RowsOf, RecordOnce
<1>11. AttemptOk(s, i)'
  BY <1>1 DEF AttemptOk
<1> QED BY <1>1, <1>7, <1>9, <1>10, <1>11, IterationStep DEF MemoHit

\* A new row for inputs without a completed row.
LEMMA RecordFresh ==
    ASSUME MemoInv, NEW s \in Steps, NEW i \in Iterations, NEW st \in RowStates,
           Memo(s, i) = {}, st \notin Done, Record(s, i, InputHash(s), st)
    PROVE  /\ journal' \in [Key -> Seq(Row)]
           /\ \A k \in Key : k # <<s, i>> => journal'[k] = journal[k]
           /\ OnceIn(journal'[<<s, i>>])
           /\ Len(journal'[<<s, i>>]) > 0
           /\ journal'[<<s, i>>][Len(journal'[<<s, i>>])].hash = InputHash(s)
           /\ \A a \in 1..Len(journal'[<<s, i>>]) :
                 ~ (/\ journal'[<<s, i>>][a].hash = InputHash(s)
                    /\ journal'[<<s, i>>][a].status \in Done)
<1> DEFINE q == journal[<<s, i>>]
           r == journal'[<<s, i>>]
           e == NewRow(InputHash(s), st)
<1>1. InputHash(s) \in Hashes /\ journal \in [Key -> Seq(Row)]
  BY HashTyped DEF MemoInv, WalkTypes
<1>2. e \in Row /\ e.hash = InputHash(s) /\ e.status = st
  BY <1>1 DEF NewRow, Row, Output
<1> HIDE DEF e
<1>3. /\ journal' \in [Key -> Seq(Row)]
      /\ \A k \in Key : k # <<s, i>> => journal'[k] = journal[k]
      /\ Len(r) = Len(q) + 1
      /\ \A a \in 1..Len(q) : r[a] = q[a]
      /\ r[Len(q) + 1] = e
  BY <1>1, RecordFacts DEF e
<1>4. \A a \in 1..Len(q) : ~ (q[a].hash = InputHash(s) /\ q[a].status \in Done)
  BY <1>1, MemoOf
<1>5. q \in Seq(Row) /\ r \in Seq(Row) /\ OnceIn(q) /\ Len(q) \in Nat
  BY <1>3, RowsOf
<1> HIDE DEF q, r
<1>6. OnceIn(r)
  BY <1>2, <1>3, <1>4, <1>5, RecordOnce
<1>7. \A a \in 1..Len(r) : ~ (r[a].hash = InputHash(s) /\ r[a].status \in Done)
  BY <1>2, <1>3, <1>4, <1>5
<1>8. Len(r) > 0 /\ r[Len(r)].hash = InputHash(s)
  BY <1>2, <1>3, <1>5
<1> QED BY <1>3, <1>6, <1>7, <1>8, Zenon DEF r

LEMMA StartAttemptMemo ==
    ASSUME MemoInv, NEW s \in Steps, NEW i \in Iterations, StartAttempt(s, i)
    PROVE  MemoInv'
<1> DEFINE r == journal'[<<s, i>>]
<1>1. "running" \in RowStates /\ "running" \notin Done
  BY DEF RowStates, Done
<1>2. /\ journal' \in [Key -> Seq(Row)]
      /\ \A k \in Key : k # <<s, i>> => journal'[k] = journal[k]
      /\ OnceIn(r) /\ Len(r) > 0 /\ r[Len(r)].hash = InputHash(s)
      /\ \A a \in 1..Len(r) : ~ (r[a].hash = InputHash(s) /\ r[a].status \in Done)
  BY <1>1, RecordFresh DEF StartAttempt
<1>3. <<s, i>> \in Key /\ slot' = [slot EXCEPT ![<<s, i>>] = "running"]
      /\ slot \in [Key -> Slots] /\ "running" \in Slots
  BY RowsOf DEF StartAttempt, MemoInv, WalkTypes, Slots, Busy
<1>4. /\ slot' \in [Key -> Slots] /\ slot'[<<s, i>>] = "running"
      /\ \A t \in Steps, j \in Iterations :
            <<t, j>> # <<s, i>> => slot'[<<t, j>>] = slot[<<t, j>>]
  BY <1>3 DEF Key
<1>5. DOMAIN r = 1..Len(r)
  BY <1>2, <1>3
<1>6. ASSUME InputHash(s)' = InputHash(s) PROVE AttemptOk(s, i)'
  BY <1>2, <1>5, <1>6 DEF AttemptOk, Memo
<1>7. /\ slot[<<s, i>>] = "queued" /\ UNCHANGED <<remaining, gen, disp, out>>
      /\ out \in [Steps -> Output] /\ slot'[<<s, i>>] # "waiting"
  BY <1>4 DEF StartAttempt, MemoInv, WalkTypes
<1> QED BY <1>2, <1>4, <1>6, <1>7, IterationStep

LEMMA RetryMemo ==
    ASSUME MemoInv, NEW s \in Steps, NEW i \in Iterations, Retry(s, i)
    PROVE  MemoInv'
<1> DEFINE r == journal'[<<s, i>>]
<1>1. PICK st \in {"running", "cancelled"} : Record(s, i, InputHash(s), st)
  BY DEF Retry
<1>2. st \in RowStates /\ st \notin Done
  BY DEF RowStates, Done
<1>3. Memo(s, i) = {} /\ slot[<<s, i>>] = "backoff"
  BY DEF Retry, MemoInv, AttemptInv, AttemptOk
<1>4. /\ journal' \in [Key -> Seq(Row)]
      /\ \A k \in Key : k # <<s, i>> => journal'[k] = journal[k]
      /\ OnceIn(r) /\ Len(r) > 0 /\ r[Len(r)].hash = InputHash(s)
      /\ \A a \in 1..Len(r) : ~ (r[a].hash = InputHash(s) /\ r[a].status \in Done)
  BY <1>1, <1>2, <1>3, RecordFresh
<1>5. <<s, i>> \in Key /\ DOMAIN r = 1..Len(r)
  BY <1>4, RowsOf
<1>6. ASSUME InputHash(s)' = InputHash(s) PROVE AttemptOk(s, i)'
  BY <1>4, <1>5, <1>6 DEF AttemptOk, Memo
<1>7. /\ slot' \in [Key -> Slots] /\ slot'[<<s, i>>] # "waiting"
      /\ \A t \in Steps, j \in Iterations : <<t, j>> # <<s, i>> =>
            \/ slot'[<<t, j>>] = slot[<<t, j>>]
            \/ slot'[<<t, j>>] = "queued" /\ t = s
  <2>1. CASE slot' = [slot EXCEPT ![<<s, i>>] = "running"]
    BY <1>5, <2>1 DEF MemoInv, WalkTypes, Slots, Busy, Key
  <2>2. CASE Advance(s, i, "bad")
    BY <2>2, AdvanceFacts DEF MemoInv, Ended
  <2> QED BY <2>1, <2>2 DEF Retry
<1> QED BY <1>3, <1>4, <1>6, <1>7, IterationStep DEF Retry, MemoInv, WalkTypes

\* The executor's row is settled; its inputs had no completed row before.
LEMMA CompleteRunning ==
    ASSUME MemoInv, NEW s \in Steps, NEW i \in Iterations, NEW st \in RowStates,
           NEW o \in Output, slot[<<s, i>>] = "running", Complete(s, i, st, o)
    PROVE  /\ journal' \in [Key -> Seq(Row)]
           /\ \A k \in Key : k # <<s, i>> => journal'[k] = journal[k]
           /\ OnceIn(journal'[<<s, i>>])
           /\ st \notin Done =>
                \A a \in 1..Len(journal'[<<s, i>>]) :
                   ~ (/\ journal'[<<s, i>>][a].hash = InputHash(s)
                      /\ journal'[<<s, i>>][a].status \in Done)
<1> DEFINE q == journal[<<s, i>>]
           r == journal'[<<s, i>>]
<1>1. Len(q) > 0 /\ q[Len(q)].hash = InputHash(s) /\ Memo(s, i) = {}
  BY DEF MemoInv, AttemptInv, AttemptOk
<1>2. /\ journal' \in [Key -> Seq(Row)]
      /\ \A k \in Key : k # <<s, i>> => journal'[k] = journal[k]
      /\ Len(r) = Len(q)
      /\ \A a \in 1..Len(q) : /\ a # Len(q) => r[a] = q[a]
                              /\ r[a].hash = q[a].hash
      /\ r[Len(q)].status = st
  BY <1>1, CompleteFacts DEF MemoInv, WalkTypes
<1>3. \A a \in 1..Len(q) : ~ (q[a].hash = InputHash(s) /\ q[a].status \in Done)
  BY <1>1, MemoOf DEF MemoInv, WalkTypes
<1>4. q \in Seq(Row) /\ r \in Seq(Row) /\ OnceIn(q) /\ Len(q) \in Nat
  BY <1>2, RowsOf
<1> HIDE DEF q, r
<1>5. \A a \in 1..(Len(q) - 1) : ~ (q[a].hash = q[Len(q)].hash /\ q[a].status \in Done)
  BY <1>1, <1>3, <1>4
<1>6. OnceIn(r)
  BY <1>1, <1>2, <1>4, <1>5, CompleteOnce
<1>7. ASSUME st \notin Done
      PROVE  \A a \in 1..Len(r) : ~ (r[a].hash = InputHash(s) /\ r[a].status \in Done)
  BY <1>2, <1>3, <1>4, <1>7
<1> QED BY <1>2, <1>6, <1>7, Zenon DEF r

LEMMA ExecutorOkMemo ==
    ASSUME MemoInv, NEW s \in Steps, NEW i \in Iterations, NEW o,
           ExecutorOk(s, i, o)
    PROVE  MemoInv'
<1>1. /\ slot' \in [Key -> Slots] /\ slot'[<<s, i>>] = "ok"
      /\ \A t \in Steps, j \in Iterations : <<t, j>> # <<s, i>> =>
            \/ slot'[<<t, j>>] = slot[<<t, j>>]
            \/ slot'[<<t, j>>] = "queued" /\ t = s
  BY AdvanceFacts DEF ExecutorOk, MemoInv, Ended
<1>2. o \in Output /\ "completed" \in RowStates
  BY RowsOf DEF ExecutorOk, Output, RowStates
<1>3. /\ journal' \in [Key -> Seq(Row)]
      /\ \A k \in Key : k # <<s, i>> => journal'[k] = journal[k]
      /\ OnceIn(journal'[<<s, i>>])
  BY <1>2, CompleteRunning DEF ExecutorOk
<1>4. out' \in [Steps -> Output] /\ \A n \in Steps : n # s => out'[n] = out[n]
  BY <1>2 DEF ExecutorOk, MemoInv, WalkTypes
<1>5. AttemptOk(s, i)'
  BY <1>1 DEF AttemptOk
<1> QED BY <1>1, <1>3, <1>4, <1>5, IterationStep DEF ExecutorOk

LEMMA ExecutorFailedMemo ==
    ASSUME MemoInv, NEW s \in Steps, NEW i \in Iterations, NEW retryable,
           ExecutorFailed(s, i, retryable)
    PROVE  MemoInv'
<1> DEFINE r == journal'[<<s, i>>]
<1>1. "failed" \in RowStates /\ "failed" \notin Done /\ NoOutput \in Output
  BY DEF RowStates, Done, Output
<1>2. /\ journal' \in [Key -> Seq(Row)]
      /\ \A k \in Key : k # <<s, i>> => journal'[k] = journal[k]
      /\ OnceIn(r)
      /\ \A a \in 1..Len(r) : ~ (r[a].hash = InputHash(s) /\ r[a].status \in Done)
  BY <1>1, CompleteRunning DEF ExecutorFailed
<1>3. <<s, i>> \in Key /\ DOMAIN r = 1..Len(r)
  BY <1>2, RowsOf
<1>4. /\ slot' \in [Key -> Slots] /\ slot'[<<s, i>>] \in {"backoff", "bad"}
      /\ \A t \in Steps, j \in Iterations : <<t, j>> # <<s, i>> =>
            \/ slot'[<<t, j>>] = slot[<<t, j>>]
            \/ slot'[<<t, j>>] = "queued" /\ t = s
  <2>1. CASE slot' = [slot EXCEPT ![<<s, i>>] = "backoff"]
    BY <1>3, <2>1 DEF MemoInv, WalkTypes, Slots, Busy, Key
  <2>2. CASE Advance(s, i, "bad")
    BY <2>2, AdvanceFacts DEF MemoInv, Ended
  <2> QED BY <2>1, <2>2 DEF ExecutorFailed
<1>5. ASSUME InputHash(s)' = InputHash(s) PROVE AttemptOk(s, i)'
  BY <1>2, <1>3, <1>4, <1>5 DEF AttemptOk, Memo
<1>6. /\ slot[<<s, i>>] = "running" /\ UNCHANGED <<remaining, gen, disp, out>>
      /\ out \in [Steps -> Output] /\ slot'[<<s, i>>] # "waiting"
  BY <1>4 DEF ExecutorFailed, MemoInv, WalkTypes
<1> QED BY <1>2, <1>4, <1>5, <1>6, IterationStep

----------------------------------------------------------------------------
(* The steps of the walk.                                                    *)

\* A step that touches neither journal nor outputs and puts nothing to work.
LEMMA SlotsOnly ==
    ASSUME MemoInv, UNCHANGED <<journal, out>>, WalkTypes', ClaimInv',
           \A k \in Key : slot'[k] \in {"running", "backoff", "waiting"}
                          => slot'[k] = slot[k],
           \A s \in Gates, i \in Iterations : slot'[<<s, i>>] = slot[<<s, i>>]
    PROVE  MemoInv'
<1>1. ASSUME NEW s \in Steps, NEW i \in Iterations
      PROVE  GateOk(s, i)' /\ AttemptOk(s, i)'
  <2>1. <<s, i>> \in Key /\ GateOk(s, i) /\ AttemptOk(s, i)
    BY DEF Key, MemoInv, GateInv, AttemptInv
  <2>2. GateOk(s, i)'
    BY <2>1 DEF GateOk
  <2>3. InputHash(s)' = InputHash(s) /\ Memo(s, i)' = Memo(s, i)
    BY DEF InputHash, Memo
  <2> QED BY <2>1, <2>2, <2>3 DEF AttemptOk
<1>2. CompletedOnce'
  BY DEF MemoInv, CompletedOnce
<1> QED BY <1>1, <1>2 DEF MemoInv, GateInv, AttemptInv

\* A walk that begins, settles or dies: nothing is in flight.
LEMMA NothingInFlight ==
    ASSUME MemoInv, UNCHANGED journal, WalkTypes', ClaimInv', slot' = IdleSlots
    PROVE  MemoInv'
<1>1. ASSUME NEW s \in Steps, NEW i \in Iterations
      PROVE  GateOk(s, i)' /\ AttemptOk(s, i)'
  <2>1. slot'[<<s, i>>] = "idle" /\ GateOk(s, i)
    BY DEF IdleSlots, Key, MemoInv, GateInv
  <2> QED BY <2>1 DEF GateOk, AttemptOk
<1>2. CompletedOnce'
  BY DEF MemoInv, CompletedOnce
<1> QED BY <1>1, <1>2 DEF MemoInv, GateInv, AttemptInv

LEMMA IdleTyped == IdleSlots \in [Key -> Slots] /\ NoOutputs \in [Steps -> Output]
                   /\ Unsettled \in [Steps -> Dispositions \cup {"none"}]
BY DEF IdleSlots, Slots, NoOutputs, Output, Unsettled

LEMMA FreshWalkMemo ==
    ASSUME MemoInv, UNCHANGED journal, FreshWalk
    PROVE  MemoInv'
<1>1. WalkTypes'
  BY IdleTyped DEF MemoInv, WalkTypes, FreshWalk
<1>2. ClaimInv'
  BY DEF ClaimInv, FreshWalk, IdleSlots, Unsettled, Busy, Key
<1> QED BY <1>1, <1>2, NothingInFlight DEF FreshWalk

LEMMA SettleMemo == ASSUME MemoInv, Settle PROVE MemoInv'
<1>1. WalkTypes'
  BY IdleTyped DEF MemoInv, WalkTypes, Settle
<1>2. ClaimInv'
  BY DEF MemoInv, ClaimInv, Settle, IdleSlots, Busy, Key
<1> QED BY <1>1, <1>2, NothingInFlight DEF Settle

LEMMA NextGenerationMemo == ASSUME MemoInv, NextGeneration PROVE MemoInv'
<1>1. WalkTypes'
  BY DEF MemoInv, WalkTypes, NextGeneration, Ready
<1>2. ClaimInv'
  BY DEF MemoInv, ClaimInv, NextGeneration, Ready, Active
<1> QED BY <1>1, <1>2, SlotsOnly DEF NextGeneration

\* Claiming a ready step, with whatever disposition it gets.
LEMMA ClaimKept ==
    ASSUME MemoInv, NEW s \in Steps, Claim(s),
           \A t \in Steps : t # s => disp'[t] = disp[t],
           \A t \in Steps, j \in Iterations :
              slot'[<<t, j>>] \in Busy =>
                 slot[<<t, j>>] \in Busy \/ (t = s /\ disp'[s] = "none")
    PROVE  ClaimInv'
<1>1. s \in gen /\ gen' = gen \ {s} /\ remaining' = remaining \ {s} /\ s \in remaining
      /\ disp[s] = "none"
  BY DEF Claim, MemoInv, WalkTypes, ClaimInv
<1>2. \A t \in Steps : disp[t] # "none" => disp'[t] # "none"
  BY <1>1
<1>3. \A t \in remaining' : disp'[t] = "none"
  BY <1>1 DEF MemoInv, WalkTypes, ClaimInv
<1>4. ASSUME NEW t \in Steps, NEW j \in Iterations, slot'[<<t, j>>] \in Busy
      PROVE  t \in Steps \ remaining' /\ disp'[t] = "none"
  BY <1>1, <1>4 DEF MemoInv, ClaimInv, Active
<1>5. ASSUME NEW t \in Steps, t \in gen' \/ t \notin remaining', NEW n \in Needs[t]
      PROVE  disp'[n] # "none"
  <2>1. n \in Steps
    BY DocumentAssumption
  <2>2. disp[n] # "none"
    BY <1>1, <1>5 DEF MemoInv, ClaimInv
  <2> QED BY <1>2, <2>1, <2>2
<1> QED BY <1>3, <1>4, <1>5 DEF ClaimInv, Active

LEMMA SkipStepMemo ==
    ASSUME MemoInv, NEW s \in Steps, SkipStep(s) PROVE MemoInv'
<1>1. WalkTypes'
  BY DEF MemoInv, WalkTypes, SkipStep, Claim, Dispositions
<1>2. ClaimInv'
  BY ClaimKept DEF SkipStep, MemoInv, WalkTypes
<1> QED BY <1>1, <1>2, SlotsOnly DEF SkipStep

LEMMA RunGateRejectedMemo ==
    ASSUME MemoInv, NEW s \in Steps, RunGateRejected(s) PROVE MemoInv'
<1>1. WalkTypes'
  BY DEF MemoInv, WalkTypes, RunGateRejected, Claim
<1>2. ClaimInv'
  BY ClaimKept DEF RunGateRejected
<1> QED BY <1>1, <1>2, SlotsOnly DEF RunGateRejected

LEMMA RunExecutableMemo ==
    ASSUME MemoInv, NEW s \in Steps, RunExecutable(s) PROVE MemoInv'
<1>1. slot' = [k \in Key |-> IF k[1] = s /\ k[2] \in Lanes(s)
                             THEN "queued" ELSE slot[k]]
  BY DEF RunExecutable
<1>2. /\ slot' \in [Key -> Slots]
      /\ \A k \in Key : slot'[k] = slot[k] \/ (slot'[k] = "queued" /\ k[1] = s)
  BY <1>1 DEF MemoInv, WalkTypes, Slots, Busy
<1>3. WalkTypes'
  BY <1>2 DEF MemoInv, WalkTypes, RunExecutable, Claim
<1>4. ClaimInv'
  <2>1. disp[s] = "none" /\ disp' = disp /\ Claim(s)
    BY DEF RunExecutable, Claim, MemoInv, WalkTypes, ClaimInv
  <2>2. \A t \in Steps, j \in Iterations :
           slot'[<<t, j>>] = slot[<<t, j>>] \/ t = s
    BY <1>2 DEF Key
  <2> QED BY <2>1, <2>2, ClaimKept
<1>5. \A k \in Key : slot'[k] \in {"running", "backoff", "waiting"}
                     => slot'[k] = slot[k]
  BY <1>2
<1>6. ASSUME NEW t \in Gates, NEW j \in Iterations
      PROVE  slot'[<<t, j>>] = slot[<<t, j>>]
  BY <1>2, DocumentAssumption DEF RunExecutable, Key
<1> QED BY <1>3, <1>4, <1>5, <1>6, SlotsOnly DEF RunExecutable

\* A step settles only when none of its iterations is in flight.
LEMMA StepDoneMemo ==
    ASSUME MemoInv, NEW s \in Steps, StepDone(s) PROVE MemoInv'
<1>1. s \in Active /\ s \notin remaining
      /\ \A i \in Iterations : slot[<<s, i>>] \notin Busy
  BY DEF StepDone, Settling, Active
<1>2. /\ disp' \in [Steps -> Dispositions \cup {"none"}] /\ disp'[s] # "none"
      /\ \A t \in Steps : t # s => disp'[t] = disp[t]
  BY DEF StepDone, MemoInv, WalkTypes, Dispositions
<1>3. UNCHANGED <<journal, remaining, gen, slot, out>>
  BY DEF StepDone
<1>4. WalkTypes'
  BY <1>2, <1>3 DEF MemoInv, WalkTypes
<1>5. ClaimInv'
  <2>1. \A t \in remaining' : disp'[t] = "none"
    BY <1>1, <1>2, <1>3 DEF MemoInv, ClaimInv, WalkTypes
  <2>2. ASSUME NEW t \in Steps, NEW j \in Iterations, slot'[<<t, j>>] \in Busy
        PROVE  t \in Steps \ remaining' /\ disp'[t] = "none"
    BY <1>1, <1>2, <1>3, <2>2 DEF MemoInv, ClaimInv, Active
  <2>3. ASSUME NEW t \in Steps, t \in gen' \/ t \notin remaining', NEW n \in Needs[t]
        PROVE  disp'[n] # "none"
    <3>1. n \in Steps /\ disp[n] # "none"
      BY <1>3, <2>3, DocumentAssumption DEF MemoInv, ClaimInv
    <3> QED BY <1>2, <3>1
  <2> QED BY <2>1, <2>2, <2>3 DEF ClaimInv, Active
<1> QED BY <1>3, <1>4, <1>5, SlotsOnly

----------------------------------------------------------------------------
(* Gates.                                                                    *)

LEMMA GateIteration == ASSUME NEW s \in Gates PROVE s \in Steps /\ 0 \in Iterations
<1>1. s \in Steps /\ Items[s] \in Nat \ {0}
  BY DocumentAssumption
<1>2. 0 \in 0..(Items[s] - 1)
  BY <1>1
<1> QED BY <1>1, <1>2 DEF Iterations

\* The journal of one iteration changed as a gate changes it.
LEMMA GateStep ==
    ASSUME MemoInv, NEW s \in Gates, disp[s] = "none", WalkTypes', ClaimInv',
           \A k \in Key : k # <<s, 0>> =>
              journal'[k] = journal[k] /\ slot'[k] = slot[k],
           out' = out, slot'[<<s, 0>>] \in {"waiting", "ok"},
           Len(journal'[<<s, 0>>]) = 1
    PROVE  MemoInv'
<1>1. s \in Steps /\ 0 \in Iterations /\ <<s, 0>> \in Key
  BY GateIteration DEF Key
<1>2. \A t \in Steps, j \in Iterations : <<t, j>> # <<s, 0>> => AttemptOk(t, j)'
  BY <1>1, OthersKept DEF WalkTypes
<1>3. AttemptOk(s, 0)'
  BY DEF AttemptOk
<1>4. GateInv'
  <2> SUFFICES ASSUME NEW t \in Steps, NEW j \in Iterations PROVE GateOk(t, j)'
    BY DEF GateInv
  <2>1. <<t, j>> \in Key /\ GateOk(t, j)
    BY DEF Key, MemoInv, GateInv
  <2>2. CASE <<t, j>> = <<s, 0>>
    <3>1. t = s /\ j = 0
      BY <2>2
    <3>2. /\ t \in Gates /\ slot'[<<t, j>>] \in {"waiting", "ok"}
          /\ Len(journal'[<<t, j>>]) = 1
      BY <2>2, <3>1, Zenon
    <3>3. slot'[<<t, j>>] \in {"idle", "waiting", "ok"} /\ Len(journal'[<<t, j>>]) <= 1
      BY <3>2
    <3> QED BY <3>1, <3>2, <3>3, Zenon DEF GateOk
  <2>3. CASE <<t, j>> # <<s, 0>>
    BY <2>1, <2>3 DEF GateOk
  <2> QED BY <2>2, <2>3
<1>5. CompletedOnce'
  <2>1. \A k \in Key : OnceIn(journal[k])
    BY OncePerKey DEF MemoInv, WalkTypes, CompletedOnce
  <2>2. OnceIn(journal'[<<s, 0>>])
    BY DEF OnceIn
  <2>3. \A k \in Key : OnceIn(journal'[k])
    BY <2>1, <2>2
  <2> QED BY <2>3, OncePerKey DEF WalkTypes, CompletedOnce
<1> QED BY <1>2, <1>3, <1>4, <1>5 DEF MemoInv, AttemptInv

LEMMA RunGateMemo ==
    ASSUME MemoInv, NEW s \in Steps, RunGate(s) PROVE MemoInv'
<1>1. s \in Gates /\ 0 \in Iterations /\ <<s, 0>> \in Key
  BY GateIteration DEF RunGate, Key
<1>2. GateHash \in Hashes /\ "awaiting" \in RowStates
  BY DEF Hashes, RowStates
<1>3. /\ journal' \in [Key -> Seq(Row)]
      /\ \A k \in Key : k # <<s, 0>> => journal'[k] = journal[k]
      /\ Len(journal'[<<s, 0>>]) = Len(journal[<<s, 0>>]) + 1
  BY <1>1, <1>2, RecordFacts DEF RunGate, MemoInv, WalkTypes
<1>4. Len(journal[<<s, 0>>]) = 0
  BY DEF RunGate
<1>5. /\ slot' \in [Key -> Slots] /\ slot'[<<s, 0>>] = "waiting"
      /\ \A k \in Key : k # <<s, 0>> => slot'[k] = slot[k]
  BY <1>1 DEF RunGate, MemoInv, WalkTypes, Slots, Busy
<1>6. WalkTypes'
  BY <1>3, <1>5 DEF MemoInv, WalkTypes, RunGate, Claim
<1>7. disp[s] = "none" /\ disp' = disp /\ Claim(s) /\ out' = out
  BY DEF RunGate, Claim, MemoInv, WalkTypes, ClaimInv
<1>8. ClaimInv'
  <2>1. \A t \in Steps, j \in Iterations :
           slot'[<<t, j>>] = slot[<<t, j>>] \/ t = s
    BY <1>5 DEF Key
  <2> QED BY <1>7, <2>1, ClaimKept
<1> QED BY <1>1, <1>3, <1>4, <1>5, <1>6, <1>7, <1>8, GateStep

LEMMA GateResolvedMemo ==
    ASSUME MemoInv, NEW s \in Gates, NEW outcome \in {"allowed", "denied", "expired"},
           GateResolved(s, outcome)
    PROVE  MemoInv'
<1>1. s \in Steps /\ 0 \in Iterations /\ <<s, 0>> \in Key
  BY GateIteration DEF Key
<1> DEFINE d == GateDisposition(s, outcome)
<1>2. d \in {"completed", "failed"}
  BY DEF GateDisposition
<1>3. d \in RowStates /\ d \in Dispositions /\ d # "none" /\ NoOutput \in Output
  BY <1>2 DEF RowStates, Dispositions, Output
<1> HIDE DEF d
<1>4. slot[<<s, 0>>] = "waiting" /\ Len(journal[<<s, 0>>]) = 1
  BY <1>1 DEF GateResolved, MemoInv, GateInv, GateOk
<1>5. /\ journal' \in [Key -> Seq(Row)]
      /\ \A k \in Key : k # <<s, 0>> => journal'[k] = journal[k]
      /\ Len(journal'[<<s, 0>>]) = Len(journal[<<s, 0>>])
  <2>1. Complete(s, 0, d, NoOutput)
    BY DEF GateResolved, d
  <2>2. journal \in [Key -> Seq(Row)] /\ Len(journal[<<s, 0>>]) > 0
    BY <1>4 DEF MemoInv, WalkTypes
  <2> QED BY <1>1, <1>3, <2>1, <2>2, CompleteFacts
<1>6. /\ slot' \in [Key -> Slots] /\ slot'[<<s, 0>>] = "ok"
      /\ \A k \in Key : k # <<s, 0>> => slot'[k] = slot[k]
  BY <1>1 DEF GateResolved, MemoInv, WalkTypes, Slots, Ended
<1>7. /\ disp' \in [Steps -> Dispositions \cup {"none"}] /\ disp'[s] # "none"
      /\ \A t \in Steps : t # s => disp'[t] = disp[t]
  BY <1>1, <1>3 DEF GateResolved, MemoInv, WalkTypes, d
<1>8. UNCHANGED <<remaining, gen, out>>
  BY DEF GateResolved
<1>9. WalkTypes'
  BY <1>5, <1>6, <1>7, <1>8 DEF MemoInv, WalkTypes
<1>10. s \in Active /\ disp[s] = "none" /\ s \notin remaining
  BY <1>1, <1>4 DEF MemoInv, ClaimInv, Active, Busy
<1>11. ClaimInv'
  <2>1. \A t \in remaining' : disp'[t] = "none"
    BY <1>7, <1>8, <1>10 DEF MemoInv, ClaimInv, WalkTypes
  <2>2. ASSUME NEW t \in Steps, NEW j \in Iterations, slot'[<<t, j>>] \in Busy
        PROVE  t \in Steps \ remaining' /\ disp'[t] = "none"
    <3>1. t # s
      <4>1. SUFFICES ASSUME t = s PROVE FALSE
        OBVIOUS
      <4>2. j # 0
        BY <1>6, <2>2, <4>1 DEF Busy
      <4>3. <<s, j>> \in Key /\ <<s, j>> # <<s, 0>>
        BY <1>1, <4>2 DEF Key
      <4>4. slot'[<<s, j>>] = slot[<<s, j>>]
        BY <1>6, <4>3
      <4>5. slot[<<s, j>>] \in {"idle", "ok"}
        BY <1>1, <4>2 DEF MemoInv, GateInv, GateOk
      <4> QED BY <2>2, <4>1, <4>4, <4>5 DEF Busy
    <3>2. slot'[<<t, j>>] = slot[<<t, j>>]
      BY <1>6, <3>1 DEF Key
    <3>3. t \in Active
      BY <2>2, <3>2 DEF MemoInv, ClaimInv
    <3> QED BY <1>7, <1>8, <3>1, <3>3 DEF Active
  <2>3. ASSUME NEW t \in Steps, t \in gen' \/ t \notin remaining', NEW n \in Needs[t]
        PROVE  disp'[n] # "none"
    <3>1. n \in Steps /\ disp[n] # "none"
      BY <1>8, <2>3, DocumentAssumption DEF MemoInv, ClaimInv
    <3> QED BY <1>7, <3>1
  <2> QED BY <2>1, <2>2, <2>3 DEF ClaimInv, Active
<1> QED BY <1>4, <1>5, <1>6, <1>8, <1>9, <1>10, <1>11, GateStep

----------------------------------------------------------------------------
(* The theorem.                                                              *)

LEMMA MemoInit == Init => MemoInv
<1> SUFFICES ASSUME Init PROVE MemoInv
  OBVIOUS
<1>1. journal = [k \in Key |-> <<>>] /\ journal \in [Key -> Seq(Row)]
  BY DEF Init
<1>2. WalkTypes
  BY <1>1, IdleTyped DEF Init, WalkTypes
<1>3. ClaimInv
  BY DEF Init, ClaimInv, IdleSlots, Unsettled, Busy, Key
<1>4. ASSUME NEW s \in Steps, NEW i \in Iterations
      PROVE  GateOk(s, i) /\ AttemptOk(s, i)
  <2>1. slot[<<s, i>>] = "idle" /\ Len(journal[<<s, i>>]) = 0
    BY <1>1 DEF Init, IdleSlots, Key
  <2> QED BY <2>1 DEF GateOk, AttemptOk
<1>5. CompletedOnce
  BY <1>1 DEF CompletedOnce
<1> QED BY <1>2, <1>3, <1>4, <1>5 DEF MemoInv, GateInv, AttemptInv

LEMMA MemoStutter ==
    ASSUME MemoInv, UNCHANGED <<journal, remaining, gen, disp, slot, out>>
    PROVE  MemoInv'
<1>1. WalkTypes'
  BY DEF MemoInv, WalkTypes
<1>2. ClaimInv'
  BY DEF MemoInv, ClaimInv, Active
<1> QED BY <1>1, <1>2, SlotsOnly

LEMMA MemoStep == MemoInv /\ [Next]_vars => MemoInv'
<1> SUFFICES ASSUME MemoInv, [Next]_vars PROVE MemoInv'
  OBVIOUS
<1>1. CASE Begin \/ Crash
  BY <1>1, FreshWalkMemo DEF Begin, Crash
<1>2. CASE Launch \/ Pause \/ Cancel \/ Terminated \/ UNCHANGED vars
  BY <1>2, MemoStutter DEF Launch, Pause, Cancel, Terminated, vars, volatile
<1>3. CASE Internal
  <2>1. CASE NextGeneration \/ Settle
    BY <2>1, NextGenerationMemo, SettleMemo
  <2>2. ASSUME NEW s \in Steps,
               \/ SkipStep(s) \/ RunExecutable(s) \/ RunGate(s)
               \/ RunGateRejected(s) \/ StepDone(s)
        PROVE  MemoInv'
    BY <2>2, SkipStepMemo, RunExecutableMemo, RunGateMemo, RunGateRejectedMemo,
       StepDoneMemo
  <2>3. ASSUME NEW s \in Steps, NEW i \in Iterations,
               IterationStopped(s, i) \/ MemoHit(s, i) \/ StartAttempt(s, i)
        PROVE  MemoInv'
    BY <2>3, StoppedMemo, MemoHitMemo, StartAttemptMemo
  <2> QED BY <1>3, <2>1, <2>2, <2>3, Zenon DEF Internal
<1>4. ASSUME NEW s \in Steps, NEW i \in Iterations, ExecutorEnds(s, i) \/ Retry(s, i)
      PROVE  MemoInv'
  BY <1>4, ExecutorOkMemo, ExecutorFailedMemo, RetryMemo DEF ExecutorEnds
<1>5. ASSUME NEW s \in Gates, GateEnds(s) PROVE MemoInv'
  BY <1>5, GateResolvedMemo DEF GateEnds
<1> QED BY <1>1, <1>2, <1>3, <1>4, <1>5 DEF Next

\* What makes a cache hit sound: while an attempt runs or sleeps its inputs
\* cannot change and have no completed row (runOneAttempt, findMemoized).
THEOREM MemoInvariant == Spec => []MemoInv
BY MemoInit, MemoStep, PTL DEF Spec

\* A completed attempt is never executed again on the same inputs, for every
\* document and any number of walks, crashes, pauses, retries and cancels.
THEOREM CompletedWorkIsKept == Spec => []CompletedOnce
<1>1. MemoInv => CompletedOnce
  BY DEF MemoInv
<1> QED BY <1>1, MemoInvariant, PTL

----------------------------------------------------------------------------
(* The run and its journal.                                                  *)

HasRow(s, i, S) ==
    \E a \in DOMAIN journal[<<s, i>>] : journal[<<s, i>>][a].status \in S

RunTypes ==
    /\ row \in {"none", "pending", "running", "paused", "completed",
                "failed", "cancelled"}
    /\ walk \in {"off", "walking", "rejected"} /\ walks \in 0..MaxWalks
    /\ cancelled \in BOOLEAN /\ paused \in BOOLEAN /\ tries \in [Key -> Nat]

\* Without a walk nothing is claimed; a walk that is to end claims no more.
WalkLives ==
    /\ walk = "off" => gen = {} /\ Active = {}
    /\ walk # "off" => row = "running"
    /\ gen # {} => ~cancelled /\ ~paused

\* An ended iteration left a row that says so, unless the walk was told to end.
SlotJournaled(s, i) ==
    /\ slot[<<s, i>>] = "running" =>
          journal[<<s, i>>][Len(journal[<<s, i>>])].status = "running"
    /\ slot[<<s, i>>] = "waiting" =>
          journal[<<s, i>>][Len(journal[<<s, i>>])].status = "awaiting"
    /\ s \notin Gates /\ slot[<<s, i>>] = "ok" => HasRow(s, i, Done)
    /\ s \notin Gates /\ slot[<<s, i>>] = "bad" =>
          cancelled \/ paused \/ HasRow(s, i, {"failed"})

\* No item is forgotten: while one is left, a worker of the step is busy.
Attended(s) ==
    s \in Active \ Gates /\ (\E i \in 0..(Items[s] - 1) : slot[<<s, i>>] = "idle")
    => \E i \in Iterations : slot[<<s, i>>] \in Busy

\* What counts as completed is journaled done, and as failed, journaled failed.
DispositionJournaled(s) ==
    /\ disp[s] = "completed" => JournaledDone(s)
    /\ s \notin Gates /\ disp[s] = "failed" =>
          cancelled \/ paused \/ JournaledFailed(s)
    /\ disp[s] # "cancelled"

NeedsJournaled(s) ==
    \A n \in Needs[s] : JournaledDone(n) \/ (n \in Continue /\ JournaledFailed(n))

RunInv ==
    /\ RunTypes /\ WalkLives
    /\ \A s \in Steps, i \in Iterations : SlotJournaled(s, i)
    /\ \A s \in Steps : Attended(s) /\ DispositionJournaled(s)
    /\ \A s \in Steps : s \in Active => NeedsJournaled(s)
    /\ JournalOrder /\ RunReports

\* No row is lost, and a settled one stays as it is.
JournalKept ==
    \A k \in Key : \A a \in DOMAIN journal[k] :
        /\ a \in DOMAIN journal'[k]
        /\ journal[k][a].status \in Done \cup {"failed"} =>
              journal'[k][a].status = journal[k][a].status

LEMMA ItemIteration ==
    ASSUME NEW s \in Steps, NEW i \in 0..(Items[s] - 1) PROVE i \in Iterations
BY DEF Iterations

LEMMA MinMember == ASSUME NEW S \in SUBSET Nat, S # {} PROVE Min(S) \in S
<1>1. PICK x \in S : \A y \in S : ~ (<<y, x>> \in OpToRel(<, Nat))
  BY NatLessThanWellFounded, WFMin, Zenon
<1>2. \A y \in S : ~ (y < x)
  BY <1>1, Zenon DEF OpToRel
<1>3. \A y \in S : x <= y
  BY <1>2
<1> QED BY <1>3, Zenon DEF Min

\* What the journal once says of a step, it keeps saying.
LEMMA KeptFacts ==
    ASSUME JournalKept, NEW s \in Steps
    PROVE  /\ \A i \in Iterations : HasRow(s, i, Done) => HasRow(s, i, Done)'
           /\ \A i \in Iterations : HasRow(s, i, {"failed"}) => HasRow(s, i, {"failed"})'
           /\ JournaledDone(s) => JournaledDone(s)'
           /\ JournaledFailed(s) => JournaledFailed(s)'
<1>1. \A i \in Iterations : <<s, i>> \in Key
  BY DEF Key
<1>2. \A i \in Iterations : HasRow(s, i, Done) => HasRow(s, i, Done)'
  BY <1>1 DEF JournalKept, HasRow, Done
<1>3. \A i \in Iterations : HasRow(s, i, {"failed"}) => HasRow(s, i, {"failed"})'
  BY <1>1 DEF JournalKept, HasRow
<1>4. JournaledDone(s) => JournaledDone(s)'
  BY <1>2, ItemIteration DEF JournaledDone, HasRow
<1>5. JournaledFailed(s) => JournaledFailed(s)'
  BY <1>3 DEF JournaledFailed, HasRow
<1> QED BY <1>2, <1>3, <1>4, <1>5

LEMMA NeedsKept ==
    ASSUME JournalKept, NEW s \in Steps, NeedsJournaled(s) PROVE NeedsJournaled(s)'
<1>1. \A n \in Needs[s] : n \in Steps
  BY DocumentAssumption
<1> QED BY <1>1, KeptFacts DEF NeedsJournaled

LEMMA RecordKept ==
    ASSUME MemoInv, NEW s \in Steps, NEW i \in Iterations, NEW h \in Hashes,
           NEW st \in RowStates, Record(s, i, h, st)
    PROVE  /\ JournalKept /\ HasRow(s, i, {st})'
           /\ journal'[<<s, i>>][Len(journal'[<<s, i>>])].status = st
           /\ \A k \in Key : k # <<s, i>> => journal'[k] = journal[k]
<1> DEFINE q == journal[<<s, i>>]
           r == journal'[<<s, i>>]
<1>1. /\ journal' \in [Key -> Seq(Row)]
      /\ \A k \in Key : k # <<s, i>> => journal'[k] = journal[k]
      /\ Len(r) = Len(q) + 1
      /\ \A a \in 1..Len(q) : r[a] = q[a]
      /\ r[Len(q) + 1] = NewRow(h, st)
  BY RecordFacts DEF MemoInv, WalkTypes
<1>2. q \in Seq(Row) /\ r \in Seq(Row) /\ Len(q) \in Nat /\ <<s, i>> \in Key
  BY <1>1, RowsOf
<1>3. DOMAIN q = 1..Len(q) /\ DOMAIN r = 1..(Len(q) + 1)
  BY <1>1, <1>2
<1>4. JournalKept
  <2> SUFFICES ASSUME NEW k \in Key, NEW a \in DOMAIN journal[k]
               PROVE  a \in DOMAIN journal'[k] /\ journal'[k][a] = journal[k][a]
    BY DEF JournalKept
  <2>1. CASE k = <<s, i>>
    <3>1. a \in 1..Len(q)
      BY <1>3, <2>1
    <3>2. a \in 1..(Len(q) + 1)
      BY <1>2, <3>1
    <3>3. a \in DOMAIN r /\ r[a] = q[a]
      BY <1>1, <1>3, <3>1, <3>2, Zenon
    <3> QED BY <2>1, <3>3
  <2>2. CASE k # <<s, i>>
    BY <1>1, <2>2
  <2> QED BY <2>1, <2>2
<1>5. r[Len(r)].status = st /\ Len(r) \in DOMAIN r
  BY <1>1, <1>2, <1>3 DEF NewRow
<1> QED BY <1>1, <1>4, <1>5 DEF HasRow

LEMMA CompleteKept ==
    ASSUME MemoInv, NEW s \in Steps, NEW i \in Iterations,
           NEW st \in RowStates, NEW o \in Output, Len(journal[<<s, i>>]) > 0,
           journal[<<s, i>>][Len(journal[<<s, i>>])].status \in {"running", "awaiting"},
           Complete(s, i, st, o)
    PROVE  /\ JournalKept /\ HasRow(s, i, {st})' /\ journal[<<s, i>>] # <<>>
           /\ \A k \in Key : k # <<s, i>> => journal'[k] = journal[k]
<1> DEFINE q == journal[<<s, i>>]
           r == journal'[<<s, i>>]
<1>1. /\ journal' \in [Key -> Seq(Row)]
      /\ \A k \in Key : k # <<s, i>> => journal'[k] = journal[k]
      /\ Len(r) = Len(q)
      /\ \A a \in 1..Len(q) : a # Len(q) => r[a] = q[a]
      /\ r[Len(q)].status = st
  BY CompleteFacts DEF MemoInv, WalkTypes
<1>2. q \in Seq(Row) /\ r \in Seq(Row) /\ Len(q) \in Nat /\ <<s, i>> \in Key
  BY <1>1, RowsOf
<1>3. DOMAIN q = 1..Len(q) /\ DOMAIN r = 1..Len(q) /\ Len(q) \in 1..Len(q) /\ q # <<>>
  BY <1>1, <1>2
<1>4. q[Len(q)].status \notin Done \cup {"failed"}
  BY DEF Done
<1>5. JournalKept
  BY <1>1, <1>2, <1>3, <1>4 DEF JournalKept
<1> QED BY <1>1, <1>3, <1>5 DEF HasRow

\* A step preserves the invariant if it keeps the journal and accounts for
\* every slot, disposition, claim and row it changes.
LEMMA RunFrame ==
    ASSUME RunInv, JournalKept, RunTypes', WalkLives',
           cancelled => cancelled', paused => paused',
           \A s \in Steps, i \in Iterations :
              \/ slot'[<<s, i>>] = slot[<<s, i>>] /\ journal'[<<s, i>>] = journal[<<s, i>>]
              \/ SlotJournaled(s, i)',
           \A s \in Steps : Attended(s)',
           \A s \in Steps : disp'[s] = disp[s] \/ DispositionJournaled(s)',
           \A s \in Steps : s \in Active' => s \in Active \/ NeedsJournaled(s),
           \A s \in Steps, i \in Iterations : journal'[<<s, i>>] # <<>> =>
              journal[<<s, i>>] # <<>> \/ NeedsJournaled(s),
           \/ row' = row /\ disp' = disp
           \/ row' = "running"
           \/ RunReports'
    PROVE  RunInv'
<1>1. ASSUME NEW s \in Steps, NEW i \in Iterations PROVE SlotJournaled(s, i)'
  <2>1. CASE slot'[<<s, i>>] = slot[<<s, i>>] /\ journal'[<<s, i>>] = journal[<<s, i>>]
    <3>1. SlotJournaled(s, i)
      BY DEF RunInv
    <3>2. HasRow(s, i, Done)' = HasRow(s, i, Done)
          /\ HasRow(s, i, {"failed"})' = HasRow(s, i, {"failed"})
      BY <2>1 DEF HasRow
    <3> QED BY <2>1, <3>1, <3>2 DEF SlotJournaled
  <2> QED BY <2>1
<1>2. ASSUME NEW s \in Steps PROVE DispositionJournaled(s)'
  <2>1. CASE disp'[s] = disp[s]
    <3>1. DispositionJournaled(s)
      BY DEF RunInv
    <3> QED BY <2>1, <3>1, KeptFacts DEF DispositionJournaled
  <2> QED BY <2>1
<1>3. ASSUME NEW s \in Steps, s \in Active' PROVE NeedsJournaled(s)'
  BY <1>3, NeedsKept DEF RunInv
<1>4. JournalOrder'
  <2> SUFFICES ASSUME NEW s \in Steps, NEW i \in Iterations, journal'[<<s, i>>] # <<>>
               PROVE  NeedsJournaled(s)'
    BY DEF JournalOrder, NeedsJournaled
  <2>1. NeedsJournaled(s)
    BY DEF RunInv, JournalOrder, NeedsJournaled
  <2> QED BY <2>1, NeedsKept
<1>5. RunReports'
  <2>1. CASE row' = row /\ disp' = disp
    BY <2>1, KeptFacts DEF RunInv, RunReports
  <2>2. CASE row' = "running"
    BY <2>2 DEF RunReports
  <2> QED BY <2>1, <2>2
<1> QED BY <1>1, <1>2, <1>3, <1>4, <1>5 DEF RunInv

\* A step of one iteration: its step is claimed, so it may write rows, and its
\* own slot is all that needs an argument.
LEMMA IterationRun ==
    ASSUME MemoInv, RunInv, NEW s \in Steps, NEW i \in Iterations,
           slot[<<s, i>>] \in {"queued", "running", "backoff"}, JournalKept,
           \A k \in Key : k # <<s, i>> => journal'[k] = journal[k],
           UNCHANGED <<row, walk, walks, cancelled, paused, remaining, gen, disp>>,
           tries' \in [Key -> Nat],
           \A t \in Steps, j \in Iterations : <<t, j>> # <<s, i>> =>
              \/ slot'[<<t, j>>] = slot[<<t, j>>]
              \/ slot'[<<t, j>>] = "queued" /\ t = s,
           SlotJournaled(s, i)',
           \/ slot'[<<s, i>>] \in Busy
           \/ (\E j \in 0..(Items[s] - 1) : slot'[<<s, j>>] = "idle") =>
                 \E j \in Iterations : slot'[<<s, j>>] = "queued"
    PROVE  RunInv'
<1>1. s \in Active
  BY DEF MemoInv, ClaimInv, Busy
<1>2. RunTypes' /\ WalkLives' /\ Active' = Active
  BY DEF RunInv, RunTypes, WalkLives, Active
<1>3. ASSUME NEW t \in Steps, NEW j \in Iterations
      PROVE  \/ slot'[<<t, j>>] = slot[<<t, j>>] /\ journal'[<<t, j>>] = journal[<<t, j>>]
             \/ SlotJournaled(t, j)'
  <2>1. CASE <<t, j>> = <<s, i>>
    <3>1. t = s /\ j = i
      BY <2>1
    <3> QED BY <3>1
  <2>2. CASE <<t, j>> # <<s, i>>
    <3>1. <<t, j>> \in Key /\ journal'[<<t, j>>] = journal[<<t, j>>]
      BY <2>2 DEF Key
    <3>2. slot'[<<t, j>>] = "queued" => SlotJournaled(t, j)'
      BY DEF SlotJournaled
    <3> QED BY <2>2, <3>1, <3>2
  <2> QED BY <2>1, <2>2
<1>4. ASSUME NEW t \in Steps PROVE Attended(t)'
  <2>1. CASE t = s
    BY <2>1 DEF Attended, Busy
  <2>2. CASE t # s
    <3>1. \A j \in Iterations : slot'[<<t, j>>] = slot[<<t, j>>]
      BY <2>2
    <3>2. Attended(t)
      BY DEF RunInv
    <3> QED BY <1>2, <3>1, <3>2, ItemIteration DEF Attended
  <2> QED BY <2>1, <2>2
<1>5. ASSUME NEW t \in Steps, NEW j \in Iterations, journal'[<<t, j>>] # <<>>
      PROVE  journal[<<t, j>>] # <<>> \/ NeedsJournaled(t)
  <2>1. CASE <<t, j>> = <<s, i>>
    <3>1. t = s
      BY <2>1
    <3> QED BY <1>1, <3>1 DEF RunInv
  <2>2. CASE <<t, j>> # <<s, i>>
    BY <1>5, <2>2 DEF Key
  <2> QED BY <2>1, <2>2
<1> QED BY <1>2, <1>3, <1>4, <1>5, RunFrame

\* runBounded: a worker that ends takes the next item, while one is left.
LEMMA AdvanceAttended ==
    ASSUME WalkTypes, NEW s \in Steps, NEW i \in Iterations, NEW res \in Ended,
           slot[<<s, i>>] \in Busy, Advance(s, i, res),
           NEW j \in 0..(Items[s] - 1), slot'[<<s, j>>] = "idle"
    PROVE  \E m \in Iterations : slot'[<<s, m>>] = "queued"
<1> DEFINE left == {m \in 0..(Items[s] - 1) : slot[<<s, m>>] = "idle"}
           next == Min(left)
<1>1. slot' = [k \in Key |-> IF k = <<s, i>> THEN res
                             ELSE IF left # {} /\ k = <<s, next>> THEN "queued"
                             ELSE slot[k]]
  BY DEF Advance
<1>2. left \in SUBSET Nat
  BY DocumentAssumption
<1>3. j \in Iterations /\ <<s, j>> \in Key
  BY ItemIteration DEF Key
<1>4. slot[<<s, j>>] = "idle" /\ left # {}
  <2>1. <<s, j>> # <<s, i>>
    BY <1>1, <1>3 DEF Ended
  <2>2. slot'[<<s, j>>] = IF left # {} /\ <<s, j>> = <<s, next>> THEN "queued"
                          ELSE slot[<<s, j>>]
    BY <1>1, <1>3, <2>1, Zenon
  <2>3. slot[<<s, j>>] = "idle"
    BY <2>2
  <2> QED BY <2>3
<1>5. next \in left
  BY <1>2, <1>4, MinMember
<1>6. next \in Iterations /\ slot[<<s, next>>] = "idle"
  BY <1>5, ItemIteration
<1> HIDE DEF left, next
<1>7. <<s, next>> \in Key /\ <<s, next>> # <<s, i>>
  BY <1>6 DEF Key, Busy
<1>8. slot'[<<s, next>>] = "queued"
  BY <1>1, <1>4, <1>7
<1> QED BY <1>6, <1>8

\* An iteration that ends as `res` by Advance, with its row in the journal.
LEMMA EndedRun ==
    ASSUME MemoInv, RunInv, NEW s \in Steps, NEW i \in Iterations, NEW res \in Ended,
           slot[<<s, i>>] \in {"queued", "running", "backoff"}, JournalKept,
           \A k \in Key : k # <<s, i>> => journal'[k] = journal[k],
           UNCHANGED <<row, walk, walks, cancelled, paused, remaining, gen, disp>>,
           tries' = tries, Advance(s, i, res),
           res = "ok" => HasRow(s, i, Done)',
           res = "bad" => cancelled \/ paused \/ HasRow(s, i, {"failed"})'
    PROVE  RunInv'
<1>1. /\ slot'[<<s, i>>] = res
      /\ \A t \in Steps, j \in Iterations : <<t, j>> # <<s, i>> =>
            \/ slot'[<<t, j>>] = slot[<<t, j>>]
            \/ slot'[<<t, j>>] = "queued" /\ t = s
  BY AdvanceFacts DEF MemoInv
<1>2. SlotJournaled(s, i)'
  BY <1>1 DEF SlotJournaled, Ended
<1>3. (\E j \in 0..(Items[s] - 1) : slot'[<<s, j>>] = "idle") =>
         \E j \in Iterations : slot'[<<s, j>>] = "queued"
  BY AdvanceAttended DEF MemoInv, Busy
<1>4. tries' \in [Key -> Nat]
  BY DEF RunInv, RunTypes
<1> QED BY <1>1, <1>2, <1>3, <1>4, IterationRun

LEMMA UnchangedKept == ASSUME UNCHANGED journal PROVE JournalKept
BY DEF JournalKept

LEMMA StoppedRun ==
    ASSUME MemoInv, RunInv, NEW s \in Steps, NEW i \in Iterations, IterationStopped(s, i)
    PROVE  RunInv'
BY EndedRun, UnchangedKept DEF IterationStopped, Ended

LEMMA MemoHitRun ==
    ASSUME MemoInv, RunInv, NEW s \in Steps, NEW i \in Iterations, MemoHit(s, i)
    PROVE  RunInv'
<1>1. PICK newest \in Memo(s, i) : Record(s, i, journal[<<s, i>>][newest].hash, "memoized")
  BY DEF MemoHit
<1>2. newest \in 1..Len(journal[<<s, i>>])
  BY <1>1, MemoOf DEF MemoInv, WalkTypes
<1>3. journal[<<s, i>>][newest] \in Row
  BY <1>2, RowsOf
<1>4. journal[<<s, i>>][newest].hash \in Hashes /\ "memoized" \in RowStates
  BY <1>3 DEF Row, RowStates
<1>5. /\ JournalKept /\ HasRow(s, i, {"memoized"})'
      /\ \A k \in Key : k # <<s, i>> => journal'[k] = journal[k]
  BY <1>1, <1>4, RecordKept
<1>6. HasRow(s, i, Done)'
  BY <1>5 DEF HasRow, Done
<1> QED BY <1>5, <1>6, EndedRun DEF MemoHit, Ended

\* The running row of a first or a further attempt.
LEMMA AttemptRun ==
    ASSUME MemoInv, RunInv, NEW s \in Steps, NEW i \in Iterations, NEW n \in Nat,
           slot[<<s, i>>] \in {"queued", "backoff"}, Record(s, i, InputHash(s), "running"),
           slot' = [slot EXCEPT ![<<s, i>>] = "running"],
           tries' = [tries EXCEPT ![<<s, i>>] = n],
           UNCHANGED <<row, walk, walks, cancelled, paused, remaining, gen, disp>>
    PROVE  RunInv'
<1>1. <<s, i>> \in Key /\ slot \in [Key -> Slots] /\ tries \in [Key -> Nat]
  BY RowsOf DEF MemoInv, WalkTypes, RunInv, RunTypes
<1>2. "running" \in RowStates /\ InputHash(s) \in Hashes
  BY HashTyped DEF RowStates, MemoInv
<1>3. /\ JournalKept
      /\ journal'[<<s, i>>][Len(journal'[<<s, i>>])].status = "running"
      /\ \A k \in Key : k # <<s, i>> => journal'[k] = journal[k]
  BY <1>2, RecordKept
<1>4. /\ slot'[<<s, i>>] = "running" /\ tries' \in [Key -> Nat]
      /\ \A t \in Steps, j \in Iterations :
            <<t, j>> # <<s, i>> => slot'[<<t, j>>] = slot[<<t, j>>]
  BY <1>1 DEF Key
<1>5. SlotJournaled(s, i)' /\ slot'[<<s, i>>] \in Busy
  BY <1>3, <1>4 DEF SlotJournaled, Busy
<1> QED BY <1>3, <1>4, <1>5, IterationRun

LEMMA StartAttemptRun ==
    ASSUME MemoInv, RunInv, NEW s \in Steps, NEW i \in Iterations, StartAttempt(s, i)
    PROVE  RunInv'
BY AttemptRun DEF StartAttempt

LEMMA RetryRun ==
    ASSUME MemoInv, RunInv, NEW s \in Steps, NEW i \in Iterations, Retry(s, i)
    PROVE  RunInv'
<1>1. CASE cancelled
  <2>1. "cancelled" \in RowStates /\ InputHash(s) \in Hashes
    BY HashTyped DEF RowStates, MemoInv
  <2>2. Record(s, i, InputHash(s), "cancelled")
    BY <1>1 DEF Retry
  <2>3. JournalKept /\ \A k \in Key : k # <<s, i>> => journal'[k] = journal[k]
    BY <2>1, <2>2, RecordKept
  <2> QED BY <1>1, <2>3, EndedRun DEF Retry, Ended
<1>2. CASE ~cancelled
  <2>1. tries[<<s, i>>] + 1 \in Nat
    BY RowsOf DEF RunInv, RunTypes
  <2> QED BY <1>2, <2>1, AttemptRun DEF Retry
<1> QED BY <1>1, <1>2

\* The executor answered for the row that runs.
LEMMA AnsweredRun ==
    ASSUME MemoInv, RunInv, NEW s \in Steps, NEW i \in Iterations, NEW st \in RowStates,
           NEW o \in Output, slot[<<s, i>>] = "running", Complete(s, i, st, o)
    PROVE  /\ JournalKept /\ HasRow(s, i, {st})'
           /\ \A k \in Key : k # <<s, i>> => journal'[k] = journal[k]
<1>1. /\ Len(journal[<<s, i>>]) > 0
      /\ journal[<<s, i>>][Len(journal[<<s, i>>])].status = "running"
  BY DEF MemoInv, AttemptInv, AttemptOk, RunInv, SlotJournaled
<1> QED BY <1>1, CompleteKept

LEMMA ExecutorOkRun ==
    ASSUME MemoInv, RunInv, NEW s \in Steps, NEW i \in Iterations, NEW o,
           ExecutorOk(s, i, o)
    PROVE  RunInv'
<1>1. o \in Output /\ "completed" \in RowStates
  BY RowsOf DEF ExecutorOk, Output, RowStates
<1>2. /\ JournalKept /\ HasRow(s, i, {"completed"})'
      /\ \A k \in Key : k # <<s, i>> => journal'[k] = journal[k]
  BY <1>1, AnsweredRun DEF ExecutorOk
<1>3. HasRow(s, i, Done)'
  BY <1>2 DEF HasRow, Done
<1> QED BY <1>2, <1>3, EndedRun DEF ExecutorOk, Ended

LEMMA ExecutorFailedRun ==
    ASSUME MemoInv, RunInv, NEW s \in Steps, NEW i \in Iterations, NEW retryable,
           ExecutorFailed(s, i, retryable)
    PROVE  RunInv'
<1>1. NoOutput \in Output /\ "failed" \in RowStates
  BY DEF Output, RowStates
<1>2. /\ JournalKept /\ HasRow(s, i, {"failed"})'
      /\ \A k \in Key : k # <<s, i>> => journal'[k] = journal[k]
  BY <1>1, AnsweredRun DEF ExecutorFailed
<1>3. CASE Retries(s, i, retryable)
  <2>1. slot' = [slot EXCEPT ![<<s, i>>] = "backoff"]
    BY <1>3 DEF ExecutorFailed
  <2>2. /\ slot'[<<s, i>>] = "backoff" /\ tries' \in [Key -> Nat]
        /\ \A t \in Steps, j \in Iterations :
              <<t, j>> # <<s, i>> => slot'[<<t, j>>] = slot[<<t, j>>]
    BY <2>1, RowsOf DEF ExecutorFailed, MemoInv, WalkTypes, RunInv, RunTypes, Key
  <2>3. SlotJournaled(s, i)' /\ slot'[<<s, i>>] \in Busy
    BY <2>2 DEF SlotJournaled, Busy
  <2> QED BY <1>2, <2>2, <2>3, IterationRun DEF ExecutorFailed
<1>4. CASE ~Retries(s, i, retryable)
  BY <1>2, <1>4, EndedRun DEF ExecutorFailed, Ended
<1> QED BY <1>3, <1>4

\* A step is claimed while its walk lives and was not told to end.
LEMMA ClaimLives ==
    ASSUME MemoInv, RunInv, NEW s \in Steps, Claim(s)
    PROVE  /\ walk # "off" /\ row = "running" /\ ~cancelled /\ ~paused
           /\ s \in remaining /\ disp[s] = "none"
           /\ gen' \subseteq gen /\ remaining' = remaining \ {s}
<1>1. s \in gen /\ gen' = gen \ {s} /\ remaining' = remaining \ {s}
  BY DEF Claim
<1>2. walk # "off" /\ row = "running" /\ ~cancelled /\ ~paused
  BY <1>1 DEF RunInv, WalkLives
<1>3. s \in remaining /\ disp[s] = "none"
  BY <1>1 DEF MemoInv, WalkTypes, ClaimInv
<1> QED BY <1>1, <1>2, <1>3

\* Whatever runs has its needs in the journal.
LEMMA ClaimedNeeds ==
    ASSUME MemoInv, RunInv, NEW s \in Steps, Claim(s), ~Skipped(s)
    PROVE  NeedsJournaled(s)
<1> SUFFICES ASSUME NEW n \in Needs[s]
             PROVE  JournaledDone(n) \/ (n \in Continue /\ JournaledFailed(n))
  BY DEF NeedsJournaled
<1>1. n \in Steps /\ ~cancelled /\ ~paused
  BY DocumentAssumption, ClaimLives
<1>2. disp[n] = "completed" \/ (disp[n] = "failed" /\ n \in Continue)
  BY DEF Skipped, SkipByUpstream
<1>3. DispositionJournaled(n)
  BY <1>1 DEF RunInv
<1>4. n \in Continue => n \notin Gates
  BY DocumentAssumption
<1> QED BY <1>1, <1>2, <1>3, <1>4 DEF DispositionJournaled

LEMMA SkipStepRun ==
    ASSUME MemoInv, RunInv, NEW s \in Steps, SkipStep(s) PROVE RunInv'
<1>0. Claim(s) /\ UNCHANGED <<row, journal, walk, walks, cancelled, paused, slot, tries>>
  BY DEF SkipStep
<1>1. /\ walk # "off" /\ row = "running" /\ ~cancelled /\ ~paused
      /\ s \in remaining /\ disp[s] = "none"
      /\ gen' \subseteq gen /\ remaining' = remaining \ {s}
  BY <1>0, ClaimLives
<1>2. disp'[s] = "skipped" /\ \A t \in Steps : t # s => disp'[t] = disp[t]
  BY DEF SkipStep, MemoInv, WalkTypes
<1>3. \A t \in Steps : t \in Active' => t \in Active
  BY <1>1, <1>2 DEF Active
<1>4. RunTypes' /\ WalkLives'
  BY <1>0, <1>1 DEF RunInv, RunTypes, WalkLives
<1>5. ASSUME NEW t \in Steps PROVE Attended(t)'
  BY <1>0, <1>3 DEF RunInv, Attended
<1>6. ASSUME NEW t \in Steps PROVE disp'[t] = disp[t] \/ DispositionJournaled(t)'
  <2>1. CASE t = s
    BY <1>2, <2>1 DEF DispositionJournaled
  <2> QED BY <1>2, <2>1
<1> QED BY <1>0, <1>1, <1>3, <1>4, <1>5, <1>6, UnchangedKept, RunFrame

\* A step that starts: its needs are journaled, and a worker takes item 0.
LEMMA StartedRun ==
    ASSUME MemoInv, RunInv, NEW s \in Steps, Claim(s), ~Skipped(s), JournalKept,
           UNCHANGED <<row, walks, cancelled, paused, disp, tries>>,
           walk' \in {walk, "rejected"},
           \A t \in Steps, j \in Iterations :
              \/ slot'[<<t, j>>] = slot[<<t, j>>] /\ journal'[<<t, j>>] = journal[<<t, j>>]
              \/ t = s /\ SlotJournaled(t, j)',
           s \in Gates \/ slot'[<<s, 0>>] = "queued"
    PROVE  RunInv'
<1>1. /\ walk # "off" /\ row = "running" /\ ~cancelled /\ ~paused
      /\ s \in remaining /\ disp[s] = "none"
      /\ gen' \subseteq gen /\ remaining' = remaining \ {s}
  BY ClaimLives
<1>2. NeedsJournaled(s)
  BY ClaimedNeeds
<1>3. \A t \in Steps : t \in Active' => t \in Active \/ t = s
  BY <1>1 DEF Active
<1>4. RunTypes' /\ WalkLives'
  BY <1>1 DEF RunInv, RunTypes, WalkLives
<1>5. ASSUME NEW t \in Steps PROVE Attended(t)'
  <2>1. CASE t = s
    <3>1. Items[s] \in Nat \ {0}
      BY DocumentAssumption
    <3>2. 0 \in 0..(Items[s] - 1)
      BY <3>1
    <3>3. 0 \in Iterations
      BY <3>2, ItemIteration
    <3> QED BY <2>1, <3>3 DEF Attended, Busy
  <2>2. CASE t # s
    <3>1. \A j \in Iterations : slot'[<<t, j>>] = slot[<<t, j>>]
      BY <2>2
    <3>2. Attended(t) /\ (t \in Active' => t \in Active)
      BY <1>3, <2>2 DEF RunInv
    <3> QED BY <3>1, <3>2, ItemIteration DEF Attended
  <2> QED BY <2>1, <2>2
<1>6. \A t \in Steps : t \in Active' => t \in Active \/ NeedsJournaled(t)
  BY <1>2, <1>3
<1>7. \A t \in Steps, j \in Iterations : journal'[<<t, j>>] # <<>> =>
         journal[<<t, j>>] # <<>> \/ NeedsJournaled(t)
  BY <1>2
<1> QED BY <1>1, <1>4, <1>5, <1>6, <1>7, RunFrame

LEMMA RunExecutableRun ==
    ASSUME MemoInv, RunInv, NEW s \in Steps, RunExecutable(s) PROVE RunInv'
<1>1. slot' = [k \in Key |-> IF k[1] = s /\ k[2] \in Lanes(s)
                             THEN "queued" ELSE slot[k]]
  BY DEF RunExecutable
<1>2. ASSUME NEW t \in Steps, NEW j \in Iterations
      PROVE  \/ slot'[<<t, j>>] = slot[<<t, j>>]
             \/ t = s /\ slot'[<<t, j>>] = "queued"
  BY <1>1 DEF Key
<1>3. ASSUME NEW t \in Steps, NEW j \in Iterations
      PROVE  slot'[<<t, j>>] = "queued" => SlotJournaled(t, j)'
  BY DEF SlotJournaled
<1>4. slot'[<<s, 0>>] = "queued"
  <2>1. Items[s] \in Nat \ {0} /\ MaxParallel[s] \in 1..16
    BY DocumentAssumption
  <2> DEFINE m == Min({Items[s], MaxParallel[s]})
  <2>2. m \in {Items[s], MaxParallel[s]}
    BY <2>1, MinMember
  <2> HIDE DEF m
  <2>3. 0 \in 0..(m - 1) /\ 0 \in 0..(Items[s] - 1)
    BY <2>1, <2>2
  <2>4. 0 \in Lanes(s) /\ <<s, 0>> \in Key
    BY <2>3, ItemIteration DEF Lanes, m, Key
  <2> QED BY <1>1, <2>4
<1>5. /\ Claim(s) /\ ~Skipped(s) /\ UNCHANGED journal
      /\ UNCHANGED <<row, walk, walks, cancelled, paused, disp, tries>>
  BY DEF RunExecutable
<1> QED BY <1>2, <1>3, <1>4, <1>5, UnchangedKept, StartedRun

LEMMA RunGateRejectedRun ==
    ASSUME MemoInv, RunInv, NEW s \in Steps, RunGateRejected(s) PROVE RunInv'
BY UnchangedKept, StartedRun DEF RunGateRejected

LEMMA RunGateRun ==
    ASSUME MemoInv, RunInv, NEW s \in Steps, RunGate(s) PROVE RunInv'
<1>1. s \in Gates /\ 0 \in Iterations /\ <<s, 0>> \in Key
  BY GateIteration DEF RunGate, Key
<1>2. GateHash \in Hashes /\ "awaiting" \in RowStates
  BY DEF Hashes, RowStates
<1>3. /\ JournalKept
      /\ journal'[<<s, 0>>][Len(journal'[<<s, 0>>])].status = "awaiting"
      /\ \A k \in Key : k # <<s, 0>> => journal'[k] = journal[k]
  BY <1>1, <1>2, RecordKept DEF RunGate
<1>4. slot'[<<s, 0>>] = "waiting" /\ \A k \in Key : k # <<s, 0>> => slot'[k] = slot[k]
  BY <1>1 DEF RunGate, MemoInv, WalkTypes
<1>5. SlotJournaled(s, 0)'
  BY <1>3, <1>4 DEF SlotJournaled
<1>6. ASSUME NEW t \in Steps, NEW j \in Iterations
      PROVE  \/ slot'[<<t, j>>] = slot[<<t, j>>] /\ journal'[<<t, j>>] = journal[<<t, j>>]
             \/ t = s /\ SlotJournaled(t, j)'
  <2>1. CASE <<t, j>> = <<s, 0>>
    <3>1. t = s /\ j = 0
      BY <2>1
    <3> QED BY <1>5, <3>1
  <2>2. CASE <<t, j>> # <<s, 0>>
    BY <1>3, <1>4, <2>2 DEF Key
  <2> QED BY <2>1, <2>2
<1> QED BY <1>1, <1>3, <1>6, StartedRun DEF RunGate

\* A step that settles with a disposition the journal bears out.
LEMMA SettledStepRun ==
    ASSUME MemoInv, RunInv, NEW s \in Steps, s \in Active, JournalKept,
           UNCHANGED <<row, walk, walks, cancelled, paused, remaining, gen, tries>>,
           disp'[s] # "none", DispositionJournaled(s)',
           \A t \in Steps : t # s => disp'[t] = disp[t],
           \A t \in Steps, j \in Iterations :
              \/ slot'[<<t, j>>] = slot[<<t, j>>] /\ journal'[<<t, j>>] = journal[<<t, j>>]
              \/ t = s /\ SlotJournaled(t, j)' /\ journal[<<t, j>>] # <<>>
    PROVE  RunInv'
<1>1. walk # "off" /\ row = "running"
  BY DEF RunInv, WalkLives
<1>2. \A t \in Steps : t \in Active' => t \in Active /\ t # s
  BY DEF Active
<1>3. RunTypes' /\ WalkLives'
  BY <1>1 DEF RunInv, RunTypes, WalkLives
<1>4. ASSUME NEW t \in Steps PROVE Attended(t)'
  <2>1. CASE t = s
    BY <1>2, <2>1 DEF Attended
  <2>2. CASE t # s
    <3>1. \A j \in Iterations : slot'[<<t, j>>] = slot[<<t, j>>]
      BY <2>2
    <3>2. Attended(t)
      BY DEF RunInv
    <3> QED BY <1>2, <3>1, <3>2, ItemIteration DEF Attended
  <2> QED BY <2>1, <2>2
<1>5. ASSUME NEW t \in Steps PROVE disp'[t] = disp[t] \/ DispositionJournaled(t)'
  <2>1. CASE t = s
    BY <2>1
  <2> QED BY <2>1
<1> QED BY <1>1, <1>2, <1>3, <1>4, <1>5, RunFrame

\* markStepDone: all items ok means all are journaled done; otherwise one is
\* bad, since none was left out.
LEMMA StepDoneRun ==
    ASSUME MemoInv, RunInv, NEW s \in Steps, StepDone(s) PROVE RunInv'
<1>1. /\ s \in Active /\ s \notin Gates /\ \A i \in Iterations : slot[<<s, i>>] \notin Busy
      /\ UNCHANGED <<row, journal, walk, walks, cancelled, paused, remaining, gen,
                     slot, tries>>
  BY DEF StepDone, Settling
<1>2. \A t \in Steps : t # s => disp'[t] = disp[t]
  BY DEF StepDone, MemoInv, WalkTypes
<1>3. \A i \in Iterations : SlotJournaled(s, i)
  BY DEF RunInv
<1>4. DispositionJournaled(s)' /\ disp'[s] # "none"
  <2>1. CASE \A i \in 0..(Items[s] - 1) : slot[<<s, i>>] = "ok"
    <3>1. disp'[s] = "completed"
      BY <2>1 DEF StepDone, MemoInv, WalkTypes
    <3>2. JournaledDone(s)
      BY <1>1, <1>3, <2>1, ItemIteration DEF SlotJournaled, JournaledDone, HasRow
    <3>3. JournaledDone(s)'
      BY <1>1, <3>2 DEF JournaledDone
    <3> QED BY <3>1, <3>3 DEF DispositionJournaled
  <2>2. CASE ~ \A i \in 0..(Items[s] - 1) : slot[<<s, i>>] = "ok"
    <3>1. disp'[s] = "failed"
      BY <2>2 DEF StepDone, MemoInv, WalkTypes
    <3>2. PICK i \in 0..(Items[s] - 1) : slot[<<s, i>>] # "ok"
      BY <2>2
    <3>3. i \in Iterations /\ <<s, i>> \in Key
      BY ItemIteration DEF Key
    <3>4. slot[<<s, i>>] # "idle"
      BY <1>1 DEF RunInv, Attended
    <3>5. slot[<<s, i>>] = "bad"
      BY <1>1, <3>2, <3>3, <3>4 DEF MemoInv, WalkTypes, Slots, Ended
    <3>6. cancelled \/ paused \/ HasRow(s, i, {"failed"})
      BY <1>1, <1>3, <3>3, <3>5 DEF SlotJournaled
    <3>7. cancelled' \/ paused' \/ JournaledFailed(s)'
      BY <1>1, <3>3, <3>6 DEF JournaledFailed, HasRow
    <3> QED BY <3>1, <3>7 DEF DispositionJournaled
  <2> QED BY <2>1, <2>2
<1> QED BY <1>1, <1>2, <1>4, UnchangedKept, SettledStepRun

LEMMA GateResolvedRun ==
    ASSUME MemoInv, RunInv, NEW s \in Gates,
           NEW outcome \in {"allowed", "denied", "expired"}, GateResolved(s, outcome)
    PROVE  RunInv'
<1>1. s \in Steps /\ 0 \in Iterations /\ <<s, 0>> \in Key
  BY GateIteration DEF Key
<1> DEFINE d == GateDisposition(s, outcome)
<1>2. d \in {"completed", "failed"}
  BY DEF GateDisposition
<1>3. Complete(s, 0, d, NoOutput) /\ disp' = [disp EXCEPT ![s] = d]
  BY DEF GateResolved
<1> HIDE DEF d
<1>4. d \in RowStates /\ NoOutput \in Output
  BY <1>2 DEF RowStates, Output
<1>5. /\ slot[<<s, 0>>] = "waiting" /\ Len(journal[<<s, 0>>]) > 0
      /\ journal[<<s, 0>>][Len(journal[<<s, 0>>])].status = "awaiting"
  BY <1>1 DEF GateResolved, MemoInv, GateInv, GateOk, RunInv, SlotJournaled
<1>6. /\ JournalKept /\ HasRow(s, 0, {d})' /\ journal[<<s, 0>>] # <<>>
      /\ \A k \in Key : k # <<s, 0>> => journal'[k] = journal[k]
  BY <1>1, <1>3, <1>4, <1>5, CompleteKept
<1>7. slot'[<<s, 0>>] = "ok" /\ \A k \in Key : k # <<s, 0>> => slot'[k] = slot[k]
  BY <1>1 DEF GateResolved, MemoInv, WalkTypes
<1>8. disp'[s] = d /\ \A t \in Steps : t # s => disp'[t] = disp[t]
  BY <1>1, <1>3 DEF MemoInv, WalkTypes
<1>9. DispositionJournaled(s)'
  <2>1. Items[s] = 1
    BY <1>1, DocumentAssumption
  <2>2. d = "completed" => JournaledDone(s)'
    BY <1>6, <2>1 DEF JournaledDone, HasRow, Done
  <2> QED BY <1>2, <1>8, <2>2 DEF DispositionJournaled
<1>10. SlotJournaled(s, 0)'
  BY <1>7 DEF SlotJournaled
<1>11. ASSUME NEW t \in Steps, NEW j \in Iterations
       PROVE  \/ slot'[<<t, j>>] = slot[<<t, j>>] /\ journal'[<<t, j>>] = journal[<<t, j>>]
              \/ t = s /\ SlotJournaled(t, j)' /\ journal[<<t, j>>] # <<>>
  <2>1. CASE <<t, j>> = <<s, 0>>
    <3>1. t = s /\ j = 0
      BY <2>1
    <3> QED BY <1>6, <1>10, <3>1
  <2>2. CASE <<t, j>> # <<s, 0>>
    BY <1>6, <1>7, <2>2 DEF Key
  <2> QED BY <2>1, <2>2
<1>12. s \in Active
  BY <1>1, <1>5 DEF MemoInv, ClaimInv, Busy
<1>13. UNCHANGED <<row, walk, walks, cancelled, paused, remaining, gen, tries>>
  BY DEF GateResolved
<1>14. disp'[s] # "none"
  BY <1>2, <1>8
<1> QED BY <1>1, <1>6, <1>8, <1>9, <1>11, <1>12, <1>13, <1>14, SettledStepRun

\* When a walk runs dry, every step is settled: in an acyclic document a step
\* that is left over would have one before it that is ready.
LEMMA DrySettled ==
    ASSUME MemoInv, Active = {}, Ready = {}, NEW s \in Steps
    PROVE  disp[s] # "none"
<1>1. remaining \subseteq Steps
  BY DEF MemoInv, WalkTypes
<1>2. ASSUME remaining # {} PROVE FALSE
  <2>1. PICK t \in remaining : Needs[t] \cap remaining = {}
    BY <1>1, <1>2, DocumentAssumption
  <2>2. ASSUME NEW n \in Needs[t] PROVE disp[n] # "none"
    <3>1. n \in Steps \ remaining
      BY <1>1, <2>1, DocumentAssumption
    <3> QED BY <3>1 DEF Active
  <2> QED BY <2>1, <2>2 DEF Ready
<1> QED BY <1>2 DEF Active

LEMMA SettleRun == ASSUME MemoInv, RunInv, Settle PROVE RunInv'
<1>1. /\ gen = {} /\ Active = {} /\ (cancelled \/ paused \/ Ready = {})
      /\ UNCHANGED <<journal, walks, cancelled, paused, remaining, gen, disp>>
      /\ walk' = "off" /\ row' = Outcome /\ slot' = IdleSlots /\ tries' = NoTries
  BY DEF Settle
<1>2. RunTypes'
  <2>1. row' \in {"cancelled", "paused", "failed", "completed"}
    BY <1>1 DEF Outcome
  <2>2. tries' \in [Key -> Nat]
    BY <1>1 DEF NoTries
  <2> QED BY <1>1, <2>1, <2>2 DEF RunInv, RunTypes
<1>3. Active' = Active /\ WalkLives'
  BY <1>1 DEF Active, WalkLives
<1>4. ASSUME NEW s \in Steps, NEW i \in Iterations PROVE SlotJournaled(s, i)'
  <2>1. slot'[<<s, i>>] = "idle"
    BY <1>1 DEF IdleSlots, Key
  <2> QED BY <2>1 DEF SlotJournaled
<1>5. ASSUME NEW s \in Steps PROVE Attended(s)'
  BY <1>1, <1>3 DEF Attended
<1>6. RunReports'
  <2>1. ASSUME row' = "completed", NEW s \in Steps
        PROVE  (disp'[s] = "completed" /\ JournaledDone(s)') \/ disp'[s] = "skipped"
    <3>1. ~cancelled /\ ~paused /\ Ready = {} /\ disp[s] # "failed"
      BY <1>1, <2>1 DEF Outcome
    <3>2. disp[s] # "none" /\ disp[s] \in Dispositions \cup {"none"}
      BY <1>1, <3>1, DrySettled DEF MemoInv, WalkTypes
    <3>3. DispositionJournaled(s)
      BY DEF RunInv
    <3>4. disp[s] = "skipped" \/ (disp[s] = "completed" /\ JournaledDone(s))
      BY <3>1, <3>2, <3>3 DEF DispositionJournaled, Dispositions
    <3> QED BY <1>1, <3>4 DEF JournaledDone
  <2>2. row' = "failed" => \E s \in Steps : disp'[s] = "failed"
    BY <1>1 DEF Outcome
  <2> QED BY <2>1, <2>2 DEF RunReports
<1> QED BY <1>1, <1>2, <1>3, <1>4, <1>5, <1>6, UnchangedKept, RunFrame

\* A new walk, or none: nothing is claimed and nothing believed.
LEMMA FreshWalkRun ==
    ASSUME MemoInv, RunInv, Begin \/ Crash PROVE RunInv'
<1>1. /\ UNCHANGED journal /\ FreshWalk
      /\ walk' \in {"off", "walking"} /\ walks' \in 0..MaxWalks /\ row' = "running"
  <2>1. walks \in 0..MaxWalks /\ MaxWalks \in Nat
    BY DocumentAssumption DEF RunInv, RunTypes
  <2>2. CASE Begin
    <3>1. walks' = walks + 1 /\ walks < MaxWalks
      BY <2>2 DEF Begin
    <3>2. walks' \in 0..MaxWalks
      BY <2>1, <3>1
    <3> QED BY <2>2, <3>2 DEF Begin
  <2>3. CASE Crash
    BY <2>1, <2>3 DEF Crash, RunInv, WalkLives
  <2> QED BY <2>2, <2>3
<1>2. tries' \in [Key -> Nat]
  BY <1>1 DEF FreshWalk, NoTries
<1>3. RunTypes'
  BY <1>1, <1>2 DEF RunTypes, FreshWalk
<1>4. Active' = {} /\ WalkLives'
  BY <1>1 DEF FreshWalk, Active, WalkLives
<1>5. ASSUME NEW s \in Steps, NEW i \in Iterations PROVE SlotJournaled(s, i)'
  <2>1. slot'[<<s, i>>] = "idle"
    BY <1>1 DEF FreshWalk, IdleSlots, Key
  <2> QED BY <2>1 DEF SlotJournaled
<1>6. ASSUME NEW s \in Steps PROVE Attended(s)' /\ DispositionJournaled(s)'
  <2>1. disp'[s] = "none"
    BY <1>1 DEF FreshWalk, Unsettled
  <2>2. DispositionJournaled(s)'
    BY <2>1 DEF DispositionJournaled
  <2>3. Attended(s)'
    BY <1>4 DEF Attended
  <2> QED BY <2>2, <2>3
<1>7. JournalOrder'
  BY <1>1 DEF RunInv, JournalOrder, JournaledDone, JournaledFailed
<1>8. RunReports'
  BY <1>1 DEF RunReports
<1>9. \A s \in Steps : s \in Active' => NeedsJournaled(s)'
  BY <1>4
<1> QED BY <1>3, <1>4, <1>5, <1>6, <1>7, <1>8, <1>9 DEF RunInv

\* Steps that change only what the row, the flags or the generation say.
LEMMA QuietRun ==
    ASSUME MemoInv, RunInv,
           \/ Launch \/ Pause \/ Cancel \/ NextGeneration \/ Terminated
           \/ UNCHANGED vars
    PROVE  RunInv'
<1>1. /\ UNCHANGED <<journal, walk, walks, remaining, disp, slot, tries>>
      /\ cancelled => cancelled'
      /\ paused => paused'
  BY DEF Launch, Pause, Cancel, NextGeneration, Terminated, vars, volatile
<1>2. Active' = Active
  BY <1>1 DEF Active
<1>3. RunTypes'
  BY <1>1 DEF RunInv, RunTypes, Launch, Pause, Cancel, NextGeneration, Terminated,
     vars, volatile
<1>4. WalkLives' /\ (row' = row \/ row' = "pending")
  <2>1. WalkLives
    BY DEF RunInv
  <2>2. CASE Launch
    <3>1. walk = "off" /\ row' = "pending" /\ UNCHANGED <<gen, cancelled, paused>>
      BY <2>1, <2>2 DEF Launch, WalkLives, volatile
    <3> QED BY <1>1, <1>2, <2>1, <3>1 DEF WalkLives
  <2>3. CASE Pause \/ Cancel
    <3>1. UNCHANGED <<row, gen>> /\ gen = {}
      BY <2>3 DEF Pause, Cancel, Quiet
    <3> QED BY <1>1, <1>2, <2>1, <3>1 DEF WalkLives
  <2>4. CASE NextGeneration
    <3>1. UNCHANGED <<row, cancelled, paused>> /\ walk = "walking" /\ ~cancelled /\ ~paused
      BY <2>4 DEF NextGeneration
    <3> QED BY <1>1, <1>2, <2>1, <3>1 DEF WalkLives
  <2>5. CASE Terminated \/ UNCHANGED vars
    <3>1. UNCHANGED <<row, gen, cancelled, paused>>
      BY <2>5 DEF Terminated, vars, volatile
    <3> QED BY <1>1, <1>2, <2>1, <3>1 DEF WalkLives
  <2> QED BY <2>2, <2>3, <2>4, <2>5
<1>5. ASSUME NEW s \in Steps PROVE Attended(s)'
  BY <1>1, <1>2 DEF RunInv, Attended
<1>6. row' = "pending" => RunReports'
  BY DEF RunReports
<1> QED BY <1>1, <1>2, <1>3, <1>4, <1>5, <1>6, UnchangedKept, RunFrame

LEMMA RunInit == ASSUME Init PROVE RunInv
<1>1. \A s \in Steps, i \in Iterations :
         slot[<<s, i>>] = "idle" /\ journal[<<s, i>>] = <<>>
  BY DEF Init, IdleSlots, Key
<1>2. Active = {} /\ \A s \in Steps : disp[s] = "none"
  BY DEF Init, Active, Unsettled
<1>3. tries \in [Key -> Nat]
  BY DEF Init, NoTries
<1>4. 0 \in 0..MaxWalks
  BY DocumentAssumption
<1>5. RunTypes /\ WalkLives /\ RunReports
  BY <1>2, <1>3, <1>4 DEF Init, RunTypes, WalkLives, RunReports
<1>6. JournalOrder
  BY <1>1 DEF JournalOrder
<1>7. \A s \in Steps, i \in Iterations : SlotJournaled(s, i)
  BY <1>1 DEF SlotJournaled
<1>8. \A s \in Steps : Attended(s) /\ DispositionJournaled(s)
  BY <1>2 DEF Attended, DispositionJournaled
<1> QED BY <1>2, <1>5, <1>6, <1>7, <1>8 DEF RunInv

LEMMA RunStep == MemoInv /\ RunInv /\ [Next]_vars => RunInv'
<1> SUFFICES ASSUME MemoInv, RunInv, [Next]_vars PROVE RunInv'
  OBVIOUS
<1>1. CASE Begin \/ Crash
  BY <1>1, FreshWalkRun
<1>2. CASE Launch \/ Pause \/ Cancel \/ NextGeneration \/ Terminated \/ UNCHANGED vars
  BY <1>2, QuietRun
<1>3. CASE Internal
  <2>1. CASE NextGeneration \/ Settle
    BY <2>1, QuietRun, SettleRun
  <2>2. ASSUME NEW s \in Steps,
               \/ SkipStep(s) \/ RunExecutable(s) \/ RunGate(s)
               \/ RunGateRejected(s) \/ StepDone(s)
        PROVE  RunInv'
    BY <2>2, SkipStepRun, RunExecutableRun, RunGateRun, RunGateRejectedRun, StepDoneRun
  <2>3. ASSUME NEW s \in Steps, NEW i \in Iterations,
               IterationStopped(s, i) \/ MemoHit(s, i) \/ StartAttempt(s, i)
        PROVE  RunInv'
    BY <2>3, StoppedRun, MemoHitRun, StartAttemptRun
  <2> QED BY <1>3, <2>1, <2>2, <2>3, Zenon DEF Internal
<1>4. ASSUME NEW s \in Steps, NEW i \in Iterations, ExecutorEnds(s, i) \/ Retry(s, i)
      PROVE  RunInv'
  BY <1>4, ExecutorOkRun, ExecutorFailedRun, RetryRun DEF ExecutorEnds
<1>5. ASSUME NEW s \in Gates, GateEnds(s) PROVE RunInv'
  BY <1>5, GateResolvedRun DEF GateEnds
<1> QED BY <1>1, <1>2, <1>3, <1>4, <1>5 DEF Next

\* What the walk believes of a step is in the journal, so that a resume finds
\* it: the invariant behind the next four theorems.
THEOREM RunInvariant == Spec => []RunInv
<1>1. Init => RunInv
  BY RunInit
<1> QED BY <1>1, RunStep, MemoInvariant, PTL DEF Spec

\* The walk's local state hangs together (runPipeline, runIterations): work is
\* in flight only for claimed steps of a live walk, a running slot has its row,
\* and a step counted as completed is journaled done.
THEOREM WalkIsConsistent == Spec => []PipelineInv
<1>1. MemoInv /\ RunInv => PipelineInv
  <2> SUFFICES ASSUME MemoInv, RunInv PROVE PipelineInv
    OBVIOUS
  <2>1. TypeOK
    <3>1. \A k \in Key : \A a \in DOMAIN journal[k] :
             journal[k][a].status \in RowStates /\ journal[k][a].out \in Output
      <4> SUFFICES ASSUME NEW k \in Key, NEW a \in DOMAIN journal[k]
                   PROVE  journal[k][a] \in Row
        BY DEF Row
      <4> QED BY DEF MemoInv, WalkTypes
    <3> QED BY <3>1 DEF TypeOK, MemoInv, WalkTypes, RunInv, RunTypes, Slots
  <2>2. ASSUME NEW k \in Key
        PROVE  /\ slot[k] \in Busy => k[1] \in Active /\ walk # "off"
               /\ slot[k] = "running" =>
                    journal[k] # <<>> /\ journal[k][Len(journal[k])].status = "running"
    <3>1. PICK s \in Steps, i \in Iterations : k = <<s, i>>
      BY DEF Key
    <3>2. slot[<<s, i>>] \in Busy => s \in Active /\ walk # "off"
      BY DEF MemoInv, ClaimInv, RunInv, WalkLives
    <3>3. slot[<<s, i>>] = "running" =>
            /\ journal[<<s, i>>] # <<>>
            /\ journal[<<s, i>>][Len(journal[<<s, i>>])].status = "running"
      BY DEF MemoInv, AttemptInv, AttemptOk, RunInv, SlotJournaled
    <3> QED BY <3>1, <3>2, <3>3
  <2>3. walk # "off" => row = "running"
    BY DEF RunInv, WalkLives
  <2>4. \A s \in Steps : disp[s] = "completed" => JournaledDone(s)
    BY DEF RunInv, DispositionJournaled
  <2> QED BY <2>1, <2>2, <2>3, <2>4 DEF PipelineInv
<1> QED BY <1>1, MemoInvariant, RunInvariant, PTL

\* runStep's upstream test survives crashes and resumes: no step has a row
\* before its needs are journaled done, or failed where the document allows.
THEOREM JournalRespectsGraph == Spec => []JournalOrder
<1>1. RunInv => JournalOrder
  BY DEF RunInv
<1> QED BY <1>1, RunInvariant, PTL

\* The run row (setStatus at the end of runPipeline) tells the truth: completed
\* only over an acyclic document with every step settled and none failed.
THEOREM RunRowReports == Spec => []RunReports
<1>1. RunInv => RunReports
  BY DEF RunInv
<1> QED BY <1>1, RunInvariant, PTL

----------------------------------------------------------------------------
(* Cancelling.                                                               *)

\* Settling a row adds none.
LEMMA CompleteAddsNone ==
    ASSUME MemoInv, NEW s \in Steps, NEW i \in Iterations, NEW st \in RowStates,
           NEW o \in Output, Len(journal[<<s, i>>]) > 0, Complete(s, i, st, o),
           NEW k \in Key
    PROVE  Len(journal'[k]) = Len(journal[k])
<1>1. CASE k = <<s, i>>
  BY <1>1, CompleteFacts DEF MemoInv, WalkTypes
<1>2. CASE k # <<s, i>>
  BY <1>2, CompleteFacts DEF MemoInv, WalkTypes
<1> QED BY <1>1, <1>2

LEMMA CancelledAdds ==
    ASSUME MemoInv, RunInv, Next, cancelled, NEW k \in Key,
           Len(journal'[k]) > Len(journal[k])
    PROVE  journal'[k][Len(journal'[k])].status = "cancelled"
<1>0. Len(journal[k]) \in Nat
  BY DEF MemoInv, WalkTypes
<1>1. ASSUME UNCHANGED journal PROVE FALSE
  BY <1>0, <1>1
<1>2. ASSUME Len(journal'[k]) = Len(journal[k]) PROVE FALSE
  BY <1>0, <1>2
<1>3. ASSUME NEW s \in Steps, NEW i \in Iterations, Retry(s, i)
      PROVE  journal'[k][Len(journal'[k])].status = "cancelled"
  <2>1. Record(s, i, InputHash(s), "cancelled")
    BY <1>3 DEF Retry
  <2>2. "cancelled" \in RowStates /\ InputHash(s) \in Hashes
    BY HashTyped DEF RowStates, MemoInv
  <2>3. /\ journal'[<<s, i>>][Len(journal'[<<s, i>>])].status = "cancelled"
        /\ \A q \in Key : q # <<s, i>> => journal'[q] = journal[q]
    BY <2>1, <2>2, RecordKept
  <2>4. k = <<s, i>>
    BY <1>2, <2>3
  <2> QED BY <2>3, <2>4
<1>4. ASSUME NEW s \in Steps, NEW i \in Iterations, ExecutorEnds(s, i) PROVE FALSE
  <2>1. PICK st \in RowStates, o \in Output : Complete(s, i, st, o)
    <3>1. "completed" \in RowStates /\ "failed" \in RowStates /\ NoOutput \in Output
          /\ <<i, Len(journal[<<s, i>>])>> \in Output
      BY RowsOf DEF RowStates, Output
    <3> QED BY <1>4, <3>1 DEF ExecutorEnds, ExecutorOk, ExecutorFailed
  <2>2. Len(journal[<<s, i>>]) > 0
    BY <1>4 DEF ExecutorEnds, ExecutorOk, ExecutorFailed, MemoInv, AttemptInv, AttemptOk
  <2> QED BY <1>2, <2>1, <2>2, CompleteAddsNone
<1>5. ASSUME NEW s \in Gates, GateEnds(s) PROVE FALSE
  <2>1. s \in Steps /\ 0 \in Iterations
    BY GateIteration
  <2>2. PICK outcome \in {"allowed", "denied", "expired"} : GateResolved(s, outcome)
    BY <1>5 DEF GateEnds
  <2>3. GateDisposition(s, outcome) \in RowStates /\ NoOutput \in Output
    BY DEF GateDisposition, RowStates, Output
  <2>4. Len(journal[<<s, 0>>]) > 0
    BY <2>1, <2>2 DEF GateResolved, MemoInv, GateInv, GateOk
  <2> QED BY <1>2, <2>1, <2>2, <2>3, <2>4, CompleteAddsNone DEF GateResolved
<1>6. ASSUME NEW s \in Steps, RunGate(s) PROVE FALSE
  BY <1>6, ClaimLives DEF RunGate
<1>7. ASSUME NEW s \in Steps, NEW i \in Iterations, MemoHit(s, i) \/ StartAttempt(s, i)
      PROVE  FALSE
  BY <1>7 DEF MemoHit, StartAttempt
<1>8. CASE Internal
  <2>1. CASE NextGeneration \/ Settle
    BY <1>1, <2>1 DEF NextGeneration, Settle
  <2>2. ASSUME NEW s \in Steps,
               SkipStep(s) \/ RunExecutable(s) \/ RunGateRejected(s) \/ StepDone(s)
        PROVE  FALSE
    BY <1>1, <2>2 DEF SkipStep, RunExecutable, RunGateRejected, StepDone
  <2>3. ASSUME NEW s \in Steps, NEW i \in Iterations, IterationStopped(s, i) PROVE FALSE
    BY <1>1, <2>3 DEF IterationStopped
  <2> QED BY <1>6, <1>7, <1>8, <2>1, <2>2, <2>3, Zenon DEF Internal
<1>9. CASE Launch \/ Begin \/ Crash \/ Pause \/ Cancel \/ Terminated
  BY <1>1, <1>9 DEF Launch, Begin, Crash, Pause, Cancel, Terminated, vars
<1> QED BY <1>3, <1>4, <1>5, <1>8, <1>9, Zenon DEF Next

\* cancel: from then on a walk starts no attempt, takes no cache hit and asks
\* no gate; an attempt that slept is journaled as cancelled and nothing else is.
THEOREM CancelIsFinal == Spec => CancelStops
<1>1. MemoInv /\ RunInv /\ [Next]_vars =>
        [cancelled /\ cancelled' =>
           \A k \in Key : Len(journal'[k]) > Len(journal[k]) =>
              journal'[k][Len(journal'[k])].status = "cancelled"]_vars
  BY CancelledAdds
<1> QED BY <1>1, MemoInvariant, RunInvariant, PTL DEF Spec, CancelStops

=============================================================================
