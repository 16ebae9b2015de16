----------------------------- MODULE Collector -----------------------------
(***************************************************************************)
(* The collector's path from an account's transcript and the OTLP receiver *)
(* to the events table: the directory walk and the tailer of one           *)
(* transcript (collector/jsonl), the JSONL/OTel joiner (collector/ingest)  *)
(* and the deduplicating insert (schema/events), driven by the ticks of    *)
(* the collector fleet (main/collectors).                                  *)
(*                                                                         *)
(* A request reaches the collector twice: as a transcript line, whose      *)
(* token counts are the truth, and as an OTel record, whose attribution    *)
(* is.  The joiner holds the first half in memory until its twin arrives,  *)
(* the window ends, or the map is full.  The transcript is re-read after a *)
(* restart; an OTel record is not sent again once it was acknowledged.     *)
(*                                                                         *)
(* A line is two parts, so that a poll may find it half written.  The      *)
(* empty transcript is one that does not exist.                            *)
(***************************************************************************)
EXTENDS Integers, FiniteSets, Sequences

CONSTANTS
  Requests,    \* request ids
  Exported,    \* those whose session exports OTel records
  Ticks,       \* fleet ticks that may overlap: the pump has no guard
  MaxPending,  \* maxPending of the joiner
  Window,      \* windowMs, in steps of the clock
  Reconcile,   \* fullReconcileMs, in steps of the clock
  MaxSize,     \* bound: parts in the transcript
  MaxFaults    \* bound: inserts that throw, rewrites, stops and crashes

ASSUME CollectorAssumption ==
  /\ Exported \subseteq Requests
  /\ MaxPending \in Nat \ {0} /\ Window \in Nat \ {0}
  /\ Reconcile \in Nat \ {0} /\ MaxSize \in Nat
  /\ MaxFaults \in Nat

VARIABLES
  file,       \* the transcript on disk
  dirty,      \* the directory's mtime differs from the one remembered
  known,      \* the transcript is in knownJsonlFiles
  offset,     \* #offset of its tailer
  text,       \* #partial of its tailer, and what a poll has added to it
  tick,       \* where each tick is
  sinceFull,  \* time since lastFullMs, up to Reconcile
  pending,    \* the joiner's map
  row,        \* events table: the source of api_request:<id>
  faults,     \* faults so far
  offered,    \* history: transcript halves the joiner took in this run
  rewritten,  \* history: cut below the offset since the last poll
  gap         \* history: something read in this run was not kept

vars == <<file, dirty, known, offset, text, tick, sinceFull,
          pending, row, faults, offered, rewritten, gap>>
disk == <<file, dirty>>
tailer == <<offset, text>>
history == <<offered, rewritten, gap>>

None == "none"
Sides == {"jsonl", "otel"}
Part == [req : Requests, end : BOOLEAN]
NoHalf == [side |-> None, age |-> 0]
Half == [side : Sides, age : 0..Window]
Phases == {"idle", "scoped", "full", "reading"}

\* The transcript and its tailer, the pump, the joiner and its table.
TailOK ==
  /\ file \in Seq(Part) /\ dirty \in BOOLEAN /\ known \in BOOLEAN
  /\ offset \in Nat /\ text \in Seq(Part)
PumpOK ==
  /\ tick \in [Ticks -> Phases] /\ sinceFull \in 0..Reconcile
  /\ faults \in Nat
JoinerOK ==
  /\ pending \in [Requests -> Half \cup {NoHalf}]
  /\ row \in [Requests -> Sides \cup {None, "merged"}]
HistoryOK ==
  /\ offered \subseteq Requests
  /\ rewritten \in BOOLEAN /\ gap \in BOOLEAN
TypeOK == TailOK /\ PumpOK /\ JoinerOK /\ HistoryOK

Init ==
  /\ file = <<>> /\ dirty = TRUE
  /\ known = FALSE /\ offset = 0 /\ text = <<>>
  /\ tick = [t \in Ticks |-> "idle"]
  /\ sinceFull = Reconcile
  /\ pending = [r \in Requests |-> NoHalf]
  /\ row = [r \in Requests |-> None]
  /\ faults = 0
  /\ offered = {} /\ rewritten = FALSE /\ gap = FALSE

(***************************************************************************)
(* The joiner and the table                                                *)
(***************************************************************************)
\* Mutant: ON CONFLICT DO UPDATE.
Upsert(table, R, src) ==
  [r \in Requests |-> IF r \in R THEN src[r] ELSE table[r]]

\* INSERT ... ON CONFLICT (backend, raw_ref) DO NOTHING, for the rows of R.
Insert(table, R, src) ==
  [r \in Requests |-> IF r \in R /\ table[r] = None THEN src[r] ELSE table[r]]

\* flushSingle: the one half an entry holds names the row's source.
Single == [r \in Requests |-> pending[r].side]
Merged == [r \in Requests |-> "merged"]

Held == {r \in Requests : pending[r] # NoHalf}
Without(R) == [r \in Requests |-> IF r \in R THEN NoHalf ELSE pending[r]]

\* The first key of the map: it was buffered first, so no entry is older.
Oldest == {r \in Held : \A o \in Held : pending[o].age <= pending[r].age}

\* Mutant: the evicted half is dropped, not flushed.
BufferDropping(r, side) ==
  /\ pending[r] = NoHalf
  /\ \E evicted \in IF Cardinality(Held) < MaxPending
                    THEN {{}} ELSE {{o} : o \in Oldest} :
       pending' = [Without(evicted) EXCEPT ![r] = [side |-> side, age |-> 0]]
  /\ UNCHANGED row

\* evictIfFull, then set.
Buffer(r, side) ==
  /\ pending[r] = NoHalf
  /\ \E evicted \in IF Cardinality(Held) < MaxPending
                    THEN {{}} ELSE {{o} : o \in Oldest} :
       /\ pending' = [Without(evicted) EXCEPT ![r] = [side |-> side, age |-> 0]]
       /\ row' = Insert(row, evicted, Single)

\* The twin is waiting: one merged row.
Join(r, side) ==
  /\ pending[r].side \in Sides \ {side}
  /\ pending' = Without({r})
  /\ row' = Insert(row, {r}, Merged)

\* The same side again: the entry keeps its place and its age.
Renew(r, side) ==
  /\ pending[r].side = side
  /\ UNCHANGED <<pending, row>>

\* offerJsonl, offerOtel
Offer(r, side) == Buffer(r, side) \/ Join(r, side) \/ Renew(r, side)

\* The insert of a join or of an eviction throws: the entry is already gone.
OfferThrows(r, side) ==
  /\ \/ pending[r].side \in Sides \ {side} /\ pending' = Without({r})
     \/ /\ pending[r] = NoHalf /\ Cardinality(Held) >= MaxPending
        /\ \E o \in Oldest : pending' = Without({o})
  /\ UNCHANGED row

Fault == faults < MaxFaults /\ faults' = faults + 1
Throws == Fault /\ gap' = TRUE

\* flush(maxAgeMs): the entries at least that old.
Expired(age) == {r \in Held : pending[r].age >= age}
Flush(age) ==
  /\ pending' = Without(Expired(age))
  /\ row' = Insert(row, Expired(age), Single)

\* An insert throws on the way: its entry is gone, the later ones stay.
FlushThrows(age) ==
  \E done \in SUBSET Expired(age), lost \in Expired(age) :
    /\ lost \notin done
    /\ pending' = Without(done \cup {lost})
    /\ row' = Insert(row, done, Single)

(***************************************************************************)
(* The tailer                                                              *)
(***************************************************************************)
\* poll: a file shorter than the offset is read from the top.
Restarts == Len(file) < offset
Poll ==
  /\ text' = IF Restarts THEN file
             ELSE text \o SubSeq(file, offset + 1, Len(file))
  /\ offset' = Len(file)

\* The first line of the text ends at k; it normalises when it is whole.
LineEnds(k) == text[k].end /\ \A j \in 1..k - 1 : ~text[j].end
WellFormed(k) == k = 2 /\ text[1].req = text[2].req
After(k) == SubSeq(text, k + 1, Len(text))

\* What follows the last complete line.
LastLineEnds(k) == /\ k > 0 => text[k].end
                   /\ \A j \in k + 1..Len(text) : ~text[j].end

(***************************************************************************)
(* Ticks of the fleet                                                      *)
(***************************************************************************)
Reading == {t \in Ticks : tick[t] = "reading"}
ThreadFree == Reading = {}

\* tick begins: it decides whether its walk is a full one, and awaits it.
StartTick(t) ==
  /\ ThreadFree /\ tick[t] = "idle"
  /\ tick' = [tick EXCEPT ![t] = IF sinceFull >= Reconcile
                                 THEN "full" ELSE "scoped"]
  /\ sinceFull' = IF sinceFull >= Reconcile THEN 0 ELSE sinceFull
  /\ UNCHANGED <<disk, tailer, known, pending, row, faults,
                 history>>

\* Mutant: no walk is a full one.
FoundByMtime(t) == IF dirty THEN file # <<>> ELSE known

\* listJsonlFilesAsyncScoped: a full walk, or one that sees another mtime,
\* yields the files that exist; any other yields the known ones.
Found(t) == IF tick[t] = "full" \/ dirty THEN file # <<>> ELSE known

\* The walk is over: a transcript it yields is polled and the thread is kept.
\* A known file that it does not yield is forgotten if it has no tailer.
Scan(t) ==
  /\ ThreadFree /\ tick[t] \in {"scoped", "full"}
  /\ tick' = [tick EXCEPT ![t] = "reading"]
  /\ dirty' = FALSE
  /\ IF Found(t)
       THEN /\ Poll
            /\ known' = TRUE
            /\ gap' = (gap \/ (rewritten /\ ~Restarts))
            /\ rewritten' = FALSE
       ELSE /\ known' = (known /\ offset > 0)
            /\ UNCHANGED <<tailer, rewritten, gap>>
  /\ UNCHANGED <<file, sinceFull, pending, row, faults, offered>>

\* pollTranscript: the next line is offered to the joiner; a malformed one
\* is skipped.
TakeLine(t) ==
  /\ t \in Reading
  /\ \E k \in 1..Len(text) :
       /\ LineEnds(k)
       /\ text' = After(k)
       /\ IF WellFormed(k)
            THEN /\ Offer(text[k].req, "jsonl")
                 /\ offered' = offered \cup {text[k].req}
            ELSE UNCHANGED <<pending, row, offered>>
  /\ UNCHANGED <<disk, offset, known, tick, sinceFull, faults, rewritten, gap>>

\* An insert throws while a line is taken: the lines behind it are dropped,
\* the offset has moved past them, and the tick goes on to the flush.
LineThrows(t) ==
  /\ t \in Reading
  /\ Throws
  /\ \E k \in 1..Len(text) :
       /\ LineEnds(k) /\ WellFormed(k)
       /\ \/ /\ OfferThrows(text[k].req, "jsonl")
             /\ UNCHANGED offered
          \/ /\ Offer(text[k].req, "jsonl")
             /\ offered' = offered \cup {text[k].req}
  /\ \E k \in 1..Len(text) : LastLineEnds(k) /\ text' = After(k)
  /\ UNCHANGED <<disk, offset, known, tick, sinceFull, rewritten>>

\* No complete line is left: the tick flushes what has outlived the window.
FinishTick(t) ==
  /\ t \in Reading /\ LastLineEnds(0)
  /\ tick' = [tick EXCEPT ![t] = "idle"]
  /\ \/ Flush(Window) /\ UNCHANGED <<faults, gap>>
     \/ FlushThrows(Window) /\ Throws
  /\ UNCHANGED <<disk, tailer, known, sinceFull, offered, rewritten>>

(***************************************************************************)
(* The receiver, the clock, the broker's end                               *)
(***************************************************************************)
\* ingestLogs: an exporter delivers, or delivers again, a request's record.
OtlpPost(r) ==
  /\ ThreadFree
  /\ \/ Offer(r, "otel") /\ UNCHANGED <<faults, gap>>
     \/ OfferThrows(r, "otel") /\ Throws
  /\ UNCHANGED <<disk, tailer, known, tick, sinceFull, offered,
                 rewritten>>

Older(h) == IF h = NoHalf \/ h.age = Window THEN h
            ELSE [h EXCEPT !.age = @ + 1]
Advance ==
  /\ pending' = [r \in Requests |-> Older(pending[r])]
  /\ sinceFull' = IF sinceFull < Reconcile THEN sinceFull + 1 ELSE sinceFull
  /\ UNCHANGED <<disk, tailer, known, tick, row, faults, history>>

\* A new broker: empty maps, tailers at the top, the first walk a full one.
Boot ==
  /\ Fault
  /\ dirty' = TRUE /\ known' = FALSE /\ offset' = 0 /\ text' = <<>>
  /\ tick' = [t \in Ticks |-> "idle"]
  /\ sinceFull' = Reconcile
  /\ offered' = {} /\ rewritten' = FALSE /\ gap' = FALSE
  /\ UNCHANGED file

Crash ==
  /\ pending' = [r \in Requests |-> NoHalf]
  /\ UNCHANGED row
  /\ Boot

\* stop: the receiver is closed and every half is flushed, whatever its age.
Stop ==
  /\ ThreadFree
  /\ Flush(0)
  /\ Boot

(***************************************************************************)
(* The transcript's writer (external)                                      *)
(***************************************************************************)
Torn == file # <<>> /\ ~file[Len(file)].end

\* An append; one that creates the file changes the directory's mtime, which
\* the walk cannot tell when it falls into the millisecond it remembers.
Append_(p) ==
  /\ Len(file) < MaxSize
  /\ IF Torn THEN p = [req |-> file[Len(file)].req, end |-> TRUE]
             ELSE ~p.end
  /\ file' = Append(file, p)
  /\ dirty' \in IF file = <<>> THEN {TRUE, dirty} ELSE {dirty}
  /\ UNCHANGED <<tailer, known, tick, sinceFull, pending, row, faults, history>>

\* The file is rewritten shorter, or removed, which changes the directory.
Cut(n) ==
  /\ Fault
  /\ n > 0 => file[n].end
  /\ file' = SubSeq(file, 1, n)
  /\ dirty' \in IF n = 0 THEN {TRUE, dirty} ELSE {dirty}
  /\ rewritten' = (rewritten \/ n < offset)
  /\ UNCHANGED <<tailer, known, tick, sinceFull, pending, row,
                 offered, gap>>

Next ==
  \/ \E t \in Ticks : \/ StartTick(t) \/ Scan(t) \/ TakeLine(t)
                      \/ LineThrows(t) \/ FinishTick(t)
  \/ \E r \in Exported : OtlpPost(r)
  \/ Advance \/ Crash \/ Stop
  \/ \E p \in Part : Append_(p)
  \/ \E n \in 0..Len(file) - 1 : Cut(n)

Spec == Init /\ [][Next]_vars

\* The pump's timer, the walk's promise and the thread go on; time passes.
Fairness ==
  /\ WF_vars(Advance)
  /\ \A t \in Ticks : /\ WF_vars(StartTick(t)) /\ WF_vars(Scan(t))
                      /\ WF_vars(TakeLine(t)) /\ WF_vars(FinishTick(t))
FairSpec == Spec /\ Fairness

(***************************************************************************)
(* Properties                                                              *)
(***************************************************************************)
\* What the joiner took from the transcript is in the map or in the table,
\* unless an insert threw or the file was rewritten unnoticed, and the map
\* never outgrows maxPending.
Kept == gap \/ \A r \in offered : row[r] # None \/ pending[r].side = "jsonl"
Bounded == IsFiniteSet(Held) /\ Cardinality(Held) <= MaxPending
CollectorInv == TypeOK /\ Kept /\ Bounded

\* "JSONL wins for token truth" (ingest.ts): a stored row is final, and a
\* request is counted from its OTel half alone only if no transcript line of
\* it was taken in this run of the broker.
TokenTruth ==
  [][\A r \in Requests :
       row'[r] # row[r] =>
         /\ row[r] = None
         /\ row'[r] = "otel" => gap \/ r \notin offered]_vars

\* Every transcript line that stays in the file is counted in the end, over
\* torn reads, evictions, rewrites the tailer can see, crashes and stops.
Recorded(r) == \E i \in 1..Len(file) : file[i] = [req |-> r, end |-> TRUE]
EveryLineCounted ==
  \A r \in Requests : []<>(row[r] # None \/ gap \/ ~Recorded(r))
=============================================================================
