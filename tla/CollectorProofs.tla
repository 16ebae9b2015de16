-------------------------- MODULE CollectorProofs --------------------------
(***************************************************************************)
(* For any set of requests and of overlapping ticks: what the joiner takes *)
(* from a transcript is kept, the map stays within maxPending, and no OTel *)
(* half is counted alone once the transcript's was taken.                  *)
(***************************************************************************)
EXTENDS Collector, FiniteSetTheorems, TLAPS

USE CollectorAssumption

KeptIn(S) == \A r \in S : row[r] # None \/ pending[r].side = "jsonl"

\* A step of the joiner that loses nothing: its state stays well formed, and
\* what was kept of S is kept.
Keeps(S) == JoinerOK' /\ (KeptIn(S) => KeptIn(S)') /\ Bounded'

LEMMA WithoutType ==
  ASSUME JoinerOK, NEW R
  PROVE  /\ Without(R) \in [Requests -> Half \cup {NoHalf}]
         /\ \A r \in Requests :
              Without(R)[r] = IF r \in R THEN NoHalf ELSE pending[r]
BY DEF Without, JoinerOK

LEMMA HalfFacts ==
  /\ NoHalf \notin Half /\ NoHalf.side = None
  /\ \A h \in Half : h.side \in Sides /\ h # NoHalf
  /\ None \notin Sides
BY DEF Half, NoHalf, Sides, None

LEMMA SingleFacts ==
  ASSUME JoinerOK
  PROVE  \A r \in Held : Single[r] \in Sides /\ Single[r] = pending[r].side
BY HalfFacts DEF JoinerOK, Held, Single

\* Rows of sources are rows of the table, and a stored row stays.
LEMMA InsertFacts ==
  ASSUME JoinerOK, NEW R, NEW src, \A r \in R : src[r] \in Sides \cup {"merged"}
  PROVE  /\ Insert(row, R, src) \in [Requests -> Sides \cup {None, "merged"}]
         /\ \A r \in Requests : row[r] # None => Insert(row, R, src)[r] = row[r]
         /\ \A r \in Requests \cap R : Insert(row, R, src)[r] # None
BY HalfFacts DEF JoinerOK, Insert, None, Sides

\* Entries leave the map: it stays within its bound.
LEMMA BoundedShrinks ==
  ASSUME JoinerOK, Bounded, NEW R, pending' = Without(R)
  PROVE  Bounded'
<1>1. Held' \subseteq Held
  BY DEF Held, Without
<1>2. IsFiniteSet(Held') /\ Cardinality(Held') <= Cardinality(Held)
  BY <1>1, FS_Subset DEF Bounded
<1>3. Cardinality(Held') \in Nat /\ Cardinality(Held) \in Nat
  BY <1>2, FS_CardinalityType DEF Bounded
<1> QED
  BY <1>2, <1>3 DEF Bounded

\* Flushing entries of the map keeps everything.
LEMMA FlushKeeps ==
  ASSUME JoinerOK, Bounded, NEW S \in SUBSET Requests, NEW R \in SUBSET Held,
         pending' = Without(R), row' = Insert(row, R, Single)
  PROVE  Keeps(S)
<1>1. JoinerOK'
  BY WithoutType, SingleFacts, InsertFacts DEF JoinerOK
<1>2. KeptIn(S) => KeptIn(S)'
  BY WithoutType, SingleFacts, InsertFacts DEF KeptIn, Held
<1> QED
  BY <1>1, <1>2, BoundedShrinks DEF Keeps

\* A new entry after the eviction, if one is due, fits the map.
LEMMA BufferBounded ==
  ASSUME JoinerOK, Bounded, NEW r \in Requests, NEW side \in Sides,
         Buffer(r, side)
  PROVE  Bounded'
<1>1. PICK evicted \in IF Cardinality(Held) < MaxPending
                       THEN {{}} ELSE {{o} : o \in Oldest} :
        pending' = [Without(evicted) EXCEPT ![r] = [side |-> side, age |-> 0]]
  BY DEF Buffer
<1>2. Held' \subseteq (Held \ evicted) \cup {r}
  BY <1>1, WithoutType DEF Held, Without
<1>3. IsFiniteSet(Held) /\ Cardinality(Held) \in Nat
      /\ Cardinality(Held) <= MaxPending
  BY FS_CardinalityType DEF Bounded
<1>4. /\ IsFiniteSet(Held \ evicted)
      /\ Cardinality(Held \ evicted) \in Nat
      /\ Cardinality(Held \ evicted) + 1 <= MaxPending
  <2>1. CASE Cardinality(Held) < MaxPending
    <3>1. Held \ evicted = Held
      BY <1>1, <2>1
    <3>2. IsFiniteSet(Held \ evicted)
      BY <1>3, FS_Subset
    <3>3. Cardinality(Held \ evicted) = Cardinality(Held)
      BY <3>1
    <3> QED
      BY <3>2, <3>3, <1>3, <2>1
  <2>2. CASE ~(Cardinality(Held) < MaxPending)
    <3>1. PICK o \in Held : evicted = {o}
      BY <1>1, <2>2 DEF Oldest
    <3>2. Cardinality(Held \ {o}) = Cardinality(Held) - 1
          /\ IsFiniteSet(Held \ {o})
      BY <3>1, <1>3, FS_RemoveElement
    <3>3. Cardinality(Held \ {o}) \in Nat
      BY <3>2, FS_CardinalityType
    <3> QED
      BY <3>1, <3>2, <3>3, <1>3
  <2> QED
    BY <2>1, <2>2
<1>5. /\ IsFiniteSet((Held \ evicted) \cup {r})
      /\ Cardinality((Held \ evicted) \cup {r}) <= MaxPending
      /\ Cardinality((Held \ evicted) \cup {r}) \in Nat
  <2>1. /\ IsFiniteSet((Held \ evicted) \cup {r})
        /\ Cardinality((Held \ evicted) \cup {r}) =
             IF r \in Held \ evicted THEN Cardinality(Held \ evicted)
             ELSE Cardinality(Held \ evicted) + 1
    BY <1>4, FS_AddElement
  <2> QED
    BY <2>1, <1>4
<1>6. /\ IsFiniteSet(Held')
      /\ Cardinality(Held') <= Cardinality((Held \ evicted) \cup {r})
  BY <1>2, <1>5, FS_Subset
<1>7. Cardinality(Held') \in Nat
  BY <1>6, FS_CardinalityType
<1> QED
  BY <1>5, <1>6, <1>7 DEF Bounded

LEMMA BufferKeeps ==
  ASSUME JoinerOK, Bounded, NEW S \in SUBSET Requests,
         NEW r \in Requests, NEW side \in Sides, Buffer(r, side)
  PROVE  Keeps(S) /\ pending'[r].side = side
<1>1. PICK evicted \in IF Cardinality(Held) < MaxPending
                       THEN {{}} ELSE {{o} : o \in Oldest} :
        /\ pending' = [Without(evicted) EXCEPT ![r] = [side |-> side, age |-> 0]]
        /\ row' = Insert(row, evicted, Single)
  BY DEF Buffer
<1>2. evicted \subseteq Held
  BY <1>1 DEF Oldest
<1>3. [side |-> side, age |-> 0] \in Half
  BY DEF Half
<1>4. pending' \in [Requests -> Half \cup {NoHalf}] /\ pending'[r].side = side
  BY <1>1, <1>3, WithoutType
<1>5. JoinerOK'
  BY <1>1, <1>2, <1>4, SingleFacts, InsertFacts DEF JoinerOK
<1>6. \A q \in Requests \ {r} : pending'[q] = Without(evicted)[q]
  BY <1>1, WithoutType
<1>7. pending[r] = NoHalf
  BY DEF Buffer
<1>8. ASSUME NEW q \in S, row[q] # None \/ pending[q].side = "jsonl"
      PROVE  row'[q] # None \/ pending'[q].side = "jsonl"
  <2>1. CASE row[q] # None
    BY <2>1, <1>1, <1>2, SingleFacts, InsertFacts
  <2>2. CASE pending[q].side = "jsonl" /\ q \in evicted
    BY <2>2, <1>1, <1>2, SingleFacts, InsertFacts
  <2>3. CASE pending[q].side = "jsonl" /\ q \notin evicted
    <3>1. q # r
      BY <2>3, <1>7 DEF NoHalf, None
    <3> QED
      BY <3>1, <2>3, <1>6, WithoutType
  <2> QED
    BY <1>8, <2>1, <2>2, <2>3
<1>9. KeptIn(S) => KeptIn(S)'
  BY <1>8 DEF KeptIn
<1> QED
  BY <1>4, <1>5, <1>9, BufferBounded DEF Keeps

\* offerJsonl, offerOtel: nothing is lost, and a transcript half is kept.
LEMMA OfferKeeps ==
  ASSUME JoinerOK, Bounded, NEW S \in SUBSET Requests,
         NEW r \in Requests, NEW side \in Sides, Offer(r, side)
  PROVE  Keeps(S) /\ (side = "jsonl" => KeptIn({r})')
<1>1. CASE Buffer(r, side)
  BY <1>1, BufferKeeps DEF KeptIn
<1>2. CASE Join(r, side)
  <2>1. /\ pending' = Without({r}) /\ row' = Insert(row, {r}, Merged)
        /\ \A q \in {r} : Merged[q] \in Sides \cup {"merged"}
    BY <1>2 DEF Join, Merged
  <2>2. JoinerOK'
    BY <2>1, WithoutType, InsertFacts DEF JoinerOK
  <2>3. row'[r] # None
    BY <2>1, InsertFacts
  <2>4. KeptIn(S) => KeptIn(S)'
    BY <2>1, <2>3, WithoutType, InsertFacts DEF KeptIn
  <2> QED
    BY <2>1, <2>2, <2>3, <2>4, BoundedShrinks DEF Keeps, KeptIn
<1>3. CASE Renew(r, side)
  <2>1. pending' = pending /\ row' = row /\ pending[r].side = side
    BY <1>3 DEF Renew
  <2>2. JoinerOK' /\ (KeptIn(S) => KeptIn(S)')
    BY <2>1 DEF JoinerOK, KeptIn
  <2>3. Bounded'
    BY <2>1 DEF Bounded, Held
  <2> QED
    BY <2>1, <2>2, <2>3 DEF Keeps, KeptIn
<1> QED
  BY <1>1, <1>2, <1>3 DEF Offer

\* An insert that throws loses an entry; the map and the table stay sound.
LEMMA ThrowsSound ==
  ASSUME JoinerOK, Bounded, NEW r \in Requests, NEW side \in Sides,
         OfferThrows(r, side)
  PROVE  JoinerOK' /\ Bounded'
<1>1. PICK R : pending' = Without(R)
  BY DEF OfferThrows
<1>2. JoinerOK'
  BY <1>1, WithoutType DEF OfferThrows, JoinerOK
<1> QED
  BY <1>1, <1>2, BoundedShrinks

LEMMA FlushThrowsSound ==
  ASSUME JoinerOK, Bounded, NEW age, FlushThrows(age)
  PROVE  JoinerOK' /\ Bounded'
<1>1. PICK done \in SUBSET Expired(age), lost \in Expired(age) :
        /\ pending' = Without(done \cup {lost})
        /\ row' = Insert(row, done, Single)
  BY DEF FlushThrows
<1>2. done \subseteq Held
  BY <1>1 DEF Expired
<1>3. JoinerOK'
  BY <1>1, <1>2, WithoutType, SingleFacts, InsertFacts DEF JoinerOK
<1> QED
  BY <1>1, <1>3, BoundedShrinks

LEMMA PartsAfter ==
  ASSUME NEW s \in Seq(Part), NEW m \in Nat, NEW n \in Nat, n <= Len(s)
  PROVE  SubSeq(s, m + 1, n) \in Seq(Part)
<1> DEFINE q == SubSeq(s, m + 1, n)
<1>1. \A i \in 1..Len(q) : q[i] \in Part
  OBVIOUS
<1> QED
  OBVIOUS

\* A fault, and the insert that is one.
LEMMA ThrowsFacts ==
  ASSUME PumpOK, Throws
  PROVE  faults' \in Nat /\ gap' = TRUE
BY DEF PumpOK, Throws, Fault

\* A broker starts with an empty map and an empty table.
THEOREM CollectorInit == Init => CollectorInv
<1> SUFFICES ASSUME Init PROVE CollectorInv
  OBVIOUS
<1>1. TypeOK
  <2>1. TailOK
    <3>1. <<>> \in Seq(Part)
      OBVIOUS
    <3> QED
      BY <3>1 DEF Init, TailOK
  <2>2. PumpOK
    <3>1. Reconcile \in 0..Reconcile
      OBVIOUS
    <3> QED
      BY <3>1 DEF Init, PumpOK, Phases
  <2>3. JoinerOK
    BY DEF Init, JoinerOK
  <2>4. HistoryOK
    BY DEF Init, HistoryOK
  <2> QED
    BY <2>1, <2>2, <2>3, <2>4 DEF TypeOK
<1>2. Kept
  BY DEF Init, Kept
<1>3. Held = {}
  BY DEF Init, Held
<1>4. Bounded
  BY <1>3, FS_EmptySet DEF Bounded
<1> QED
  BY <1>1, <1>2, <1>4 DEF CollectorInv

\* One tick's step.
LEMMA StartTickKeeps ==
  ASSUME CollectorInv, NEW t \in Ticks, StartTick(t)
  PROVE  CollectorInv'
<1>1. JoinerOK' /\ TailOK' /\ HistoryOK' /\ Bounded' /\ Kept'
  BY DEF StartTick, CollectorInv, TypeOK, JoinerOK, TailOK, HistoryOK, disk,
     tailer, history, Bounded, Kept, Held
<1>2. PumpOK'
  BY DEF StartTick, CollectorInv, TypeOK, PumpOK, Phases
<1> QED
  BY <1>1, <1>2 DEF CollectorInv, TypeOK

LEMMA ScanKeeps ==
  ASSUME CollectorInv, NEW t \in Ticks, Scan(t)
  PROVE  CollectorInv'
<1> USE DEF CollectorInv, TypeOK
<1>1. JoinerOK' /\ Bounded' /\ Kept'
  BY DEF Scan, JoinerOK, tailer, Bounded, Kept, Held
<1>2. PumpOK'
  BY DEF Scan, PumpOK, Phases
<1>3. HistoryOK'
  BY DEF Scan, HistoryOK, tailer
<1>4. text' \in Seq(Part) /\ offset' \in Nat
  <2>1. CASE Found(t)
    <3>1. Len(file) \in Nat /\ SubSeq(file, offset + 1, Len(file)) \in Seq(Part)
      BY PartsAfter DEF TailOK
    <3>2. text \o SubSeq(file, offset + 1, Len(file)) \in Seq(Part)
      BY <3>1 DEF TailOK
    <3> QED
      BY <2>1, <3>1, <3>2 DEF Scan, Poll, TailOK
  <2>2. CASE ~Found(t)
    BY <2>2 DEF Scan, TailOK, tailer
  <2> QED
    BY <2>1, <2>2
<1>5. file' \in Seq(Part) /\ dirty' \in BOOLEAN
  BY DEF Scan, TailOK
<1>6. known' \in BOOLEAN
  BY DEF Scan, TailOK
<1> QED
  BY <1>1, <1>2, <1>3, <1>4, <1>5, <1>6 DEF TailOK

LEMMA TakeLineKeeps ==
  ASSUME CollectorInv, NEW t \in Ticks, TakeLine(t)
  PROVE  CollectorInv'
<1> USE DEF CollectorInv, TypeOK
<1>1. PICK k \in 1..Len(text) :
        /\ text' = After(k)
        /\ IF WellFormed(k)
             THEN /\ Offer(text[k].req, "jsonl")
                  /\ offered' = offered \cup {text[k].req}
             ELSE UNCHANGED <<pending, row, offered>>
  BY DEF TakeLine
<1>2. TailOK' /\ PumpOK' /\ gap' = gap /\ rewritten' = rewritten
  <2>1. text' \in Seq(Part)
    BY <1>1, PartsAfter DEF TailOK, After
  <2> QED
    BY <2>1 DEF TakeLine, TailOK, PumpOK, disk
<1>3. text[k].req \in Requests
  <2>1. text[k] \in Part
    BY DEF TailOK
  <2> QED
    BY <2>1 DEF Part
<1>4. CASE WellFormed(k)
  <2>1. PICK r \in Requests : r = text[k].req
    BY <1>3
  <2>2. PICK S \in SUBSET Requests : S = offered
    BY DEF HistoryOK
  <2>3. Offer(r, "jsonl") /\ offered' = S \cup {r}
    BY <1>1, <1>4, <2>1, <2>2
  <2>4. Keeps(S) /\ KeptIn({r})'
    BY <2>3, OfferKeeps DEF Sides
  <2>5. HistoryOK'
    BY <2>3, <1>2 DEF HistoryOK
  <2>6. Kept'
    BY <2>2, <2>3, <2>4, <1>2 DEF Kept, Keeps, KeptIn
  <2> QED
    BY <2>4, <2>5, <2>6, <1>2 DEF Keeps
<1>5. CASE ~WellFormed(k)
  <2>1. pending' = pending /\ row' = row /\ offered' = offered
    BY <1>1, <1>5
  <2>2. JoinerOK' /\ HistoryOK' /\ Kept' /\ Bounded'
    BY <2>1, <1>2 DEF JoinerOK, HistoryOK, Kept, Bounded, Held
  <2> QED
    BY <2>2, <1>2
<1> QED
  BY <1>4, <1>5

LEMMA LineThrowsKeeps ==
  ASSUME CollectorInv, NEW t \in Ticks, LineThrows(t)
  PROVE  CollectorInv'
<1> USE DEF CollectorInv, TypeOK
<1>1. gap' = TRUE /\ faults' \in Nat
  BY ThrowsFacts DEF LineThrows
<1>2. text' \in Seq(Part)
  BY PartsAfter DEF LineThrows, After, TailOK
<1>3. TailOK' /\ PumpOK' /\ rewritten' = rewritten
  BY <1>1, <1>2 DEF LineThrows, TailOK, PumpOK, disk
<1>4. PICK k \in 1..Len(text) :
        \/ OfferThrows(text[k].req, "jsonl") /\ offered' = offered
        \/ /\ Offer(text[k].req, "jsonl")
           /\ offered' = offered \cup {text[k].req}
  BY DEF LineThrows
<1>5. PICK r \in Requests : r = text[k].req
  <2>1. text[k] \in Part
    BY DEF TailOK
  <2> QED
    BY <2>1 DEF Part
<1>6. JoinerOK' /\ Bounded'
  <2>1. CASE Offer(r, "jsonl")
    BY <2>1, OfferKeeps DEF Sides, Keeps
  <2>2. CASE OfferThrows(r, "jsonl")
    BY <2>2, ThrowsSound DEF Sides
  <2> QED
    BY <1>4, <1>5, <2>1, <2>2
<1>7. HistoryOK'
  BY <1>1, <1>3, <1>4, <1>5 DEF HistoryOK
<1>8. Kept'
  BY <1>1 DEF Kept
<1> QED
  BY <1>3, <1>6, <1>7, <1>8

LEMMA FinishTickKeeps ==
  ASSUME CollectorInv, NEW t \in Ticks, FinishTick(t)
  PROVE  CollectorInv'
<1> USE DEF CollectorInv, TypeOK
<1>1. /\ TailOK' /\ rewritten' = rewritten /\ offered' = offered
      /\ tick' \in [Ticks -> Phases] /\ sinceFull' = sinceFull
  BY DEF FinishTick, TailOK, PumpOK, disk, tailer, Phases
<1>2. CASE Flush(Window) /\ faults' = faults /\ gap' = gap
  <2>1. PICK S \in SUBSET Requests : S = offered
    BY DEF HistoryOK
  <2>2. PICK R \in SUBSET Held :
          pending' = Without(R) /\ row' = Insert(row, R, Single)
    BY <1>2 DEF Flush, Expired
  <2>3. Keeps(S)
    BY <2>2, FlushKeeps
  <2>4. Kept'
    BY <2>1, <2>3, <1>1, <1>2 DEF Kept, Keeps, KeptIn
  <2> QED
    BY <2>3, <2>4, <1>1, <1>2 DEF Keeps, PumpOK, HistoryOK
<1>3. CASE FlushThrows(Window) /\ Throws
  <2>1. JoinerOK' /\ Bounded' /\ gap' = TRUE /\ faults' \in Nat
    BY <1>3, FlushThrowsSound, ThrowsFacts
  <2>2. Kept'
    BY <2>1 DEF Kept
  <2> QED
    BY <2>1, <2>2, <1>1 DEF PumpOK, HistoryOK
<1> QED
  BY <1>2, <1>3 DEF FinishTick

LEMMA OtlpPostKeeps ==
  ASSUME CollectorInv, NEW r \in Requests, OtlpPost(r)
  PROVE  CollectorInv'
<1> USE DEF CollectorInv, TypeOK
<1>1. /\ TailOK' /\ rewritten' = rewritten /\ offered' = offered
      /\ tick' = tick /\ sinceFull' = sinceFull
  BY DEF OtlpPost, TailOK, disk, tailer
<1>2. CASE Offer(r, "otel") /\ faults' = faults /\ gap' = gap
  <2>1. PICK S \in SUBSET Requests : S = offered
    BY DEF HistoryOK
  <2>2. Keeps(S)
    BY <1>2, OfferKeeps DEF Sides
  <2>3. Kept'
    BY <2>1, <2>2, <1>1, <1>2 DEF Kept, Keeps, KeptIn
  <2> QED
    BY <2>2, <2>3, <1>1, <1>2 DEF Keeps, PumpOK, HistoryOK
<1>3. CASE OfferThrows(r, "otel") /\ Throws
  <2>1. JoinerOK' /\ Bounded' /\ gap' = TRUE /\ faults' \in Nat
    BY <1>3, ThrowsSound, ThrowsFacts DEF Sides
  <2>2. Kept'
    BY <2>1 DEF Kept
  <2> QED
    BY <2>1, <2>2, <1>1 DEF PumpOK, HistoryOK
<1> QED
  BY <1>2, <1>3 DEF OtlpPost

LEMMA AdvanceKeeps ==
  ASSUME CollectorInv, Advance
  PROVE  CollectorInv'
<1> USE DEF CollectorInv, TypeOK
<1>1. \A r \in Requests :
        /\ pending'[r] \in Half \cup {NoHalf}
        /\ pending'[r].side = pending[r].side
        /\ pending'[r] = NoHalf <=> pending[r] = NoHalf
  <2> SUFFICES ASSUME NEW r \in Requests
               PROVE  /\ pending'[r] \in Half \cup {NoHalf}
                      /\ pending'[r].side = pending[r].side
                      /\ pending'[r] = NoHalf <=> pending[r] = NoHalf
    OBVIOUS
  <2>1. pending'[r] = Older(pending[r]) /\ pending[r] \in Half \cup {NoHalf}
    BY DEF Advance, JoinerOK
  <2>2. ASSUME NEW h \in Half, h.age # Window
        PROVE  /\ [h EXCEPT !.age = @ + 1] \in Half
               /\ [h EXCEPT !.age = @ + 1].side = h.side
    BY <2>2 DEF Half
  <2> QED
    BY <2>1, <2>2, HalfFacts DEF Older
<1>2. JoinerOK'
  BY <1>1 DEF Advance, JoinerOK
<1>3. Held' = Held
  BY <1>1 DEF Held
<1>4. Kept' /\ Bounded'
  BY <1>1, <1>3 DEF Advance, Kept, Bounded, history, HistoryOK
<1>5. TailOK' /\ HistoryOK'
  BY DEF Advance, TailOK, HistoryOK, disk, tailer, history
<1>6. PumpOK'
  BY DEF Advance, PumpOK
<1> QED
  BY <1>2, <1>4, <1>5, <1>6

LEMMA BootKeeps ==
  ASSUME CollectorInv, Boot, JoinerOK', Bounded'
  PROVE  CollectorInv'
<1> USE DEF CollectorInv, TypeOK
<1>1. TailOK'
  <2>1. <<>> \in Seq(Part)
    OBVIOUS
  <2> QED
    BY <2>1 DEF Boot, TailOK
<1>2. PumpOK'
  <2>1. Reconcile \in 0..Reconcile
    OBVIOUS
  <2> QED
    BY <2>1 DEF Boot, Fault, PumpOK, Phases
<1>3. HistoryOK' /\ Kept'
  BY DEF Boot, HistoryOK, Kept
<1> QED
  BY <1>1, <1>2, <1>3

LEMMA CrashKeeps ==
  ASSUME CollectorInv, Crash
  PROVE  CollectorInv'
<1>1. JoinerOK'
  BY DEF CollectorInv, TypeOK, Crash, JoinerOK
<1>2. Held' = {}
  BY DEF Crash, Held
<1>3. IsFiniteSet(Held') /\ Cardinality(Held') = 0
  BY <1>2, FS_EmptySet
<1> QED
  BY <1>1, <1>3, BootKeeps DEF Crash, Bounded

LEMMA StopKeeps ==
  ASSUME CollectorInv, Stop
  PROVE  CollectorInv'
<1>1. PICK R \in SUBSET Held :
        pending' = Without(R) /\ row' = Insert(row, R, Single)
  BY DEF Stop, Flush, Expired
<1>2. Keeps({})
  BY <1>1, FlushKeeps DEF CollectorInv, TypeOK
<1> QED
  BY <1>2, BootKeeps DEF Stop, Keeps

\* The writer's steps.
LEMMA WriterKeeps ==
  ASSUME CollectorInv, \/ \E p \in Part : Append_(p)
                       \/ \E n \in 0..Len(file) - 1 : Cut(n)
  PROVE  CollectorInv'
<1> USE DEF CollectorInv, TypeOK
<1>1. CASE \E p \in Part : Append_(p)
  <2>1. file' \in Seq(Part)
    BY <1>1 DEF Append_, TailOK
  <2>2. dirty' \in BOOLEAN
    BY <1>1 DEF Append_, TailOK
  <2>3. TailOK'
    BY <1>1, <2>1, <2>2 DEF Append_, TailOK, tailer
  <2>4. /\ PumpOK' /\ JoinerOK' /\ HistoryOK' /\ Kept' /\ Bounded'
    BY <1>1 DEF Append_, PumpOK, JoinerOK, HistoryOK, Kept, Bounded, Held,
       history
  <2> QED
    BY <2>3, <2>4
<1>2. CASE \E n \in 0..Len(file) - 1 : Cut(n)
  <2>1. file' \in Seq(Part)
    BY <1>2, PartsAfter DEF Cut, TailOK
  <2>2. dirty' \in BOOLEAN
    BY <1>2 DEF Cut, TailOK
  <2>3. TailOK'
    BY <1>2, <2>1, <2>2 DEF Cut, TailOK, tailer
  <2>4. /\ PumpOK' /\ JoinerOK' /\ HistoryOK' /\ Kept' /\ Bounded'
    BY <1>2 DEF Cut, Fault, PumpOK, JoinerOK, HistoryOK, Kept, Bounded, Held
  <2> QED
    BY <2>3, <2>4
<1> QED
  BY <1>1, <1>2

\* Every step of the collector and of its surroundings keeps the invariant.
THEOREM CollectorStep == CollectorInv /\ [Next]_vars => CollectorInv'
<1> SUFFICES ASSUME CollectorInv, [Next]_vars PROVE CollectorInv'
  OBVIOUS
<1>1. CASE UNCHANGED vars
  BY <1>1 DEF vars, CollectorInv, TypeOK, TailOK, PumpOK, JoinerOK, HistoryOK,
     Kept, Bounded, Held
<1>2. ASSUME NEW t \in Ticks,
             \/ StartTick(t) \/ Scan(t) \/ TakeLine(t)
             \/ LineThrows(t) \/ FinishTick(t)
      PROVE  CollectorInv'
  BY <1>2, StartTickKeeps, ScanKeeps, TakeLineKeeps, LineThrowsKeeps,
     FinishTickKeeps
<1>3. ASSUME NEW r \in Exported, OtlpPost(r) PROVE CollectorInv'
  BY <1>3, OtlpPostKeeps
<1>4. CASE Advance \/ Crash \/ Stop
  BY <1>4, AdvanceKeeps, CrashKeeps, StopKeeps
<1>5. CASE \/ \E p \in Part : Append_(p)
           \/ \E n \in 0..Len(file) - 1 : Cut(n)
  BY <1>5, WriterKeeps
<1> QED
  BY <1>1, <1>2, <1>3, <1>4, <1>5 DEF Next

\* For every instance: a transcript half that was taken is in the map or in
\* the table, and the joiner's map is within its bound (ingest.ts).
THEOREM CollectorSafe == Spec => []CollectorInv
BY CollectorInit, CollectorStep, PTL DEF Spec

(***************************************************************************)
(* Token truth                                                             *)
(***************************************************************************)
Truthful ==
  \A r \in Requests :
    row'[r] # row[r] =>
      /\ row[r] = None
      /\ row'[r] = "otel" => gap \/ r \notin offered

\* Entries that leave the map as rows of their own.
LEMMA SingleTruthful ==
  ASSUME CollectorInv, NEW R \in SUBSET Held, row' = Insert(row, R, Single)
  PROVE  Truthful
<1> SUFFICES ASSUME NEW r \in Requests, row'[r] # row[r]
             PROVE  /\ row[r] = None
                    /\ row'[r] = "otel" => gap \/ r \notin offered
  BY DEF Truthful
<1>1. row[r] = None /\ r \in R /\ row'[r] = Single[r]
  BY DEF Insert
<1>2. row'[r] = pending[r].side
  BY <1>1, SingleFacts DEF CollectorInv, TypeOK
<1> QED
  BY <1>1, <1>2 DEF CollectorInv, Kept

LEMMA OfferTruthful ==
  ASSUME CollectorInv, NEW r \in Requests, NEW side \in Sides, Offer(r, side)
  PROVE  Truthful
<1>1. CASE Buffer(r, side)
  <2>1. PICK R \in SUBSET Held : row' = Insert(row, R, Single)
    BY <1>1 DEF Buffer, Oldest
  <2> QED
    BY <2>1, SingleTruthful
<1>2. CASE Join(r, side)
  BY <1>2 DEF Join, Insert, Merged, Truthful
<1>3. CASE Renew(r, side)
  BY <1>3 DEF Renew, Truthful
<1> QED
  BY <1>1, <1>2, <1>3 DEF Offer

LEMMA LineOffered ==
  ASSUME CollectorInv, NEW k \in 1..Len(text)
  PROVE  text[k].req \in Requests
<1>1. text[k] \in Part
  BY DEF CollectorInv, TypeOK, TailOK
<1> QED
  BY <1>1 DEF Part

LEMMA FlushTruthful ==
  ASSUME CollectorInv, NEW age, Flush(age) \/ FlushThrows(age)
  PROVE  Truthful
<1>1. PICK R \in SUBSET Held : row' = Insert(row, R, Single)
  BY DEF Flush, FlushThrows, Expired
<1> QED
  BY <1>1, SingleTruthful

LEMMA StepTruthful ==
  ASSUME CollectorInv, Next
  PROVE  Truthful
<1>1. ASSUME row' = row PROVE Truthful
  BY <1>1 DEF Truthful
<1>2. ASSUME NEW t \in Ticks, TakeLine(t) PROVE Truthful
  <2>1. \/ row' = row
        \/ \E k \in 1..Len(text) : Offer(text[k].req, "jsonl")
    BY <1>2 DEF TakeLine
  <2> QED
    BY <2>1, <1>1, LineOffered, OfferTruthful DEF Sides
<1>3. ASSUME NEW t \in Ticks, LineThrows(t) PROVE Truthful
  <2>1. \/ row' = row
        \/ \E k \in 1..Len(text) : Offer(text[k].req, "jsonl")
    BY <1>3 DEF LineThrows, OfferThrows
  <2> QED
    BY <2>1, <1>1, LineOffered, OfferTruthful DEF Sides
<1>4. ASSUME NEW t \in Ticks, FinishTick(t) PROVE Truthful
  BY <1>4, FlushTruthful DEF FinishTick
<1>5. ASSUME NEW r \in Exported, OtlpPost(r) PROVE Truthful
  BY <1>5, <1>1, OfferTruthful DEF OtlpPost, OfferThrows, Sides
<1>6. CASE Stop
  BY <1>6, FlushTruthful DEF Stop
<1>7. ASSUME NEW t \in Ticks, StartTick(t) \/ Scan(t) PROVE Truthful
  BY <1>7, <1>1 DEF StartTick, Scan
<1>8. CASE Advance \/ Crash
  BY <1>8, <1>1 DEF Advance, Crash
<1>9. CASE \/ \E p \in Part : Append_(p)
           \/ \E n \in 0..Len(file) - 1 : Cut(n)
  BY <1>9, <1>1 DEF Append_, Cut
<1> QED
  BY <1>2, <1>3, <1>4, <1>5, <1>6, <1>7, <1>8, <1>9 DEF Next

\* For every instance: a row is final, and the OTel half alone is counted
\* only for a request of which no transcript line was taken (ingest.ts).
THEOREM TokenTruthHolds == Spec => TokenTruth
<1>1. CollectorInv /\ [Next]_vars => [Truthful]_vars
  BY StepTruthful
<1>2. [Truthful]_vars =>
        [\A r \in Requests :
           row'[r] # row[r] =>
             /\ row[r] = None
             /\ row'[r] = "otel" => gap \/ r \notin offered]_vars
  BY DEF Truthful
<1> QED
  BY <1>1, <1>2, CollectorSafe, PTL DEF Spec, TokenTruth
=============================================================================
