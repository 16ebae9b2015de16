----------------------------- MODULE PtyStream -----------------------------
(***************************************************************************)
(* The gateway side of the ack-watermark flow control of one attended PTY  *)
(* session (core/src/gateway/ptyStream.ts, class PtySessionStream).        *)
(*                                                                         *)
(* OUTPUT bytes get absolute offsets, are retained until every attached    *)
(* consumer has acked past them, are delivered to each consumer inside its *)
(* own window, and the producer is paused and resumed on the high and low  *)
(* water marks.  A byte is its offset; a retained chunk is the interval    *)
(* [offset, end) of offsets it holds.  Frame boundaries inside a delivery  *)
(* are layout and are left out.                                            *)
(***************************************************************************)
EXTENDS Integers, FiniteSets

CONSTANTS
  Consumers,   \* connections that may attach to the session
  Cap,         \* capBytes: hard cap on retained bytes
  HighWater,   \* occupancy at or above which the producer is paused
  LowWater,    \* occupancy at or below which a paused producer resumes
  Window,      \* deliveryWindowBytes: unacked bytes in flight per consumer
  MaxChunk,    \* longest chunk the producer emits in one data event
  MaxHead,     \* bound: bytes ever produced
  MaxAttach    \* bound: attach calls that succeed

\* The constructor's checks (0 <= low < high <= cap, window >= 1) ...
ASSUME WatermarkAssumption ==
  /\ Cap \in Nat /\ HighWater \in Nat /\ LowWater \in Nat
  /\ LowWater < HighWater /\ HighWater <= Cap
  /\ Window \in Nat /\ Window >= 1
\* ... and what the deployment guarantees: one data event fits between the
\* high water mark and the cap (64 KiB reads, 2 MiB and 4 MiB marks).
ASSUME ChunkAssumption ==
  MaxChunk \in Nat /\ MaxChunk >= 1 /\ HighWater + MaxChunk <= Cap + 1
ASSUME BoundAssumption == MaxHead \in Nat /\ MaxAttach \in Nat

VARIABLES
  head,            \* #head: offset of the next byte
  floor,           \* #floor: first offset that is not released
  chunks,          \* #chunks: the retained chunks
  paused,          \* #paused: what the stream believes about the producer
  exited,          \* #exited
  attached,        \* #consumers: the attached ones
  deliveredTo,     \* per consumer: next offset to deliver
  acked,           \* per consumer: monotonic ack watermark
  producerPaused,  \* the producer's side of the pause()/resume() lever
  attaches         \* history: attach calls that succeeded (bounded)

vars == <<head, floor, chunks, paused, exited, attached, deliveredTo,
          acked, producerPaused, attaches>>

Chunk == [offset : Nat, end : Nat]

TypeOK ==
  /\ head \in Nat /\ floor \in Nat
  /\ chunks \subseteq Chunk
  /\ paused \in BOOLEAN /\ exited \in BOOLEAN
  /\ attached \subseteq Consumers
  /\ deliveredTo \in [Consumers -> Nat]
  /\ acked \in [Consumers -> Nat]
  /\ producerPaused \in BOOLEAN
  /\ attaches \in Nat

Init ==
  /\ head = 0 /\ floor = 0 /\ chunks = {}
  /\ paused = FALSE /\ exited = FALSE
  /\ attached = {}
  /\ deliveredTo = [c \in Consumers |-> 0]
  /\ acked = [c \in Consumers |-> 0]
  /\ producerPaused = FALSE
  /\ attaches = 0

Occupancy == head - floor

-----------------------------------------------------------------------------
(* Internals shared by the operations. *)

Retained(chs, o) == \E ch \in chs : ch.offset <= o /\ o < ch.end

\* #deliverMore with #sliceAt: where the delivery loop that starts at `from`
\* stops - at `limit`, or at the first offset that no retained chunk holds.
DeliverEnd(chs, from, limit) ==
  IF limit <= from THEN from
  ELSE CHOOSE e \in from..limit :
         /\ \A o \in from..(e - 1) : Retained(chs, o)
         /\ e < limit => ~ Retained(chs, e)

\* min(head, acked + window): how far a consumer may be delivered to.
DeliverLimit(h, ack) == IF h <= ack + Window THEN h ELSE ack + Window

\* Mutant: pause above, not at, the high water mark.
PastHigh(occ) == occ > HighWater

\* The two water-mark tests.
AtHigh(occ) == occ >= HighWater

AtLow(occ) == occ <= LowWater

\* m is the ack watermark of the slowest consumer in att.
IsMinAck(m, att, ack) ==
  m \in {ack[c] : c \in att} /\ \A c \in att : m <= ack[c]

\* Mutant: a chunk goes with its first released byte.
CollectByOffset(chs, m) == {ch \in chs : ch.offset >= m}

\* Fully released chunks are dropped.
Collect(chs, m) == {ch \in chs : ch.end > m}

\* #recomputeFloor over the new consumer set and ack watermarks.  With no
\* consumer the floor freezes.  A floor that rises releases the chunks that
\* end below it and resumes a paused producer at or below the low water mark.
RecomputeFloor(att, ack) ==
  \/ /\ att = {}
     /\ UNCHANGED <<floor, chunks, paused, producerPaused>>
  \/ \E m \in {ack[c] : c \in att} :
       /\ IsMinAck(m, att, ack)
       /\ \/ /\ m <= floor
             /\ UNCHANGED <<floor, chunks, paused, producerPaused>>
          \/ /\ m > floor
             /\ floor' = m
             /\ chunks' = Collect(chunks, m)
             /\ paused' = (paused /\ ~ AtLow(head - m))
             /\ producerPaused' =
                  (producerPaused /\ ~ (paused /\ AtLow(head - m) /\ ~ exited))

-----------------------------------------------------------------------------
(* Operations of PtySessionStream. *)

\* push: retain, advance the head, pause at the high water mark, then deliver
\* to every consumer.  A paused producer emits nothing.  A push past the cap
\* throws PtyBufferOverflowError before any state changes (a stutter here);
\* PushAccepted says that it never comes to that.
Push(n) ==
  /\ ~ producerPaused /\ ~ exited
  /\ head + n <= MaxHead
  /\ Occupancy + n <= Cap
  /\ head' = head + n
  /\ chunks' = chunks \cup {[offset |-> head, end |-> head + n]}
  /\ paused' = (paused \/ AtHigh(Occupancy + n))
  /\ producerPaused' = (~ paused /\ AtHigh(Occupancy + n))
  /\ deliveredTo' = [c \in Consumers |->
       IF c \in attached
       THEN DeliverEnd(chunks', deliveredTo[c], DeliverLimit(head', acked[c]))
       ELSE deliveredTo[c]]
  /\ UNCHANGED <<floor, exited, attached, acked, attaches>>

\* markExited: later pushes are ignored, the retained window stays.
MarkExited ==
  /\ ~ exited
  /\ exited' = TRUE
  /\ UNCHANGED <<head, floor, chunks, paused, attached, deliveredTo, acked,
                 producerPaused, attaches>>

\* attach at a watermark inside the retained window (#checkWatermarkBounds).
Attach(c, w) ==
  /\ c \notin attached /\ attaches < MaxAttach
  /\ floor <= w /\ w <= head
  /\ attached' = attached \cup {c}
  /\ acked' = [acked EXCEPT ![c] = w]
  /\ RecomputeFloor(attached', acked')
  /\ deliveredTo' = [deliveredTo EXCEPT
       ![c] = DeliverEnd(chunks', w, DeliverLimit(head, w))]
  /\ attaches' = attaches + 1
  /\ UNCHANGED <<head, exited>>

\* Mutant: the ack opens the window but delivers nothing more.
AckNoDeliver(c, w) ==
  /\ c \in attached
  /\ acked[c] < w /\ w <= deliveredTo[c]
  /\ acked' = [acked EXCEPT ![c] = w]
  /\ RecomputeFloor(attached, acked')
  /\ UNCHANGED <<head, exited, attached, deliveredTo, attaches>>

\* ack: beyond the delivered offset is refused, stale is ignored.
Ack(c, w) ==
  /\ c \in attached
  /\ acked[c] < w /\ w <= deliveredTo[c]
  /\ acked' = [acked EXCEPT ![c] = w]
  /\ RecomputeFloor(attached, acked')
  /\ deliveredTo' = [deliveredTo EXCEPT
       ![c] = DeliverEnd(chunks', @, DeliverLimit(head, w))]
  /\ UNCHANGED <<head, exited, attached, attaches>>

\* replayFrom of an attached consumer: the cursor moves, the ack does not.
ReplayFrom(c, w) ==
  /\ c \in attached
  /\ floor <= w /\ w <= head
  /\ deliveredTo' = [deliveredTo EXCEPT
       ![c] = DeliverEnd(chunks, w, DeliverLimit(head, acked[c]))]
  /\ UNCHANGED <<head, floor, chunks, paused, exited, attached, acked,
                 producerPaused, attaches>>

\* Mutant: without a consumer the floor does not freeze.
DetachReleases(c) ==
  /\ c \in attached
  /\ attached' = attached \ {c}
  /\ \/ attached' # {} /\ RecomputeFloor(attached', acked)
     \/ attached' = {} /\ floor' = head /\ chunks' = {}
        /\ UNCHANGED <<paused, producerPaused>>
  /\ UNCHANGED <<head, exited, deliveredTo, acked, attaches>>

\* detach: the connection closed.
Detach(c) ==
  /\ c \in attached
  /\ attached' = attached \ {c}
  /\ RecomputeFloor(attached', acked)
  /\ UNCHANGED <<head, exited, deliveredTo, acked, attaches>>

Next ==
  \/ \E n \in 1..MaxChunk : Push(n)
  \/ MarkExited
  \/ \E c \in Consumers, w \in 0..MaxHead : Attach(c, w)
  \/ \E c \in Consumers, w \in 0..MaxHead : Ack(c, w)
  \/ \E c \in Consumers, w \in 0..MaxHead : ReplayFrom(c, w)
  \/ \E c \in Consumers : Detach(c)

Spec == Init /\ [][Next]_vars

\* A consumer that is attached and has unacked bytes acks eventually (the
\* terminal island acks what it has written to the screen).
AckSome(c) == \E w \in 0..MaxHead : Ack(c, w)

FairSpec == Spec /\ \A c \in Consumers : WF_vars(AckSome(c))

-----------------------------------------------------------------------------
(* Safety. *)

\* Bytes are never dropped before every attached consumer acked them: each
\* offset between the release floor and the head is in a retained chunk, so
\* a replay inside the window never meets a gap (#sliceAt's undefined).
RetainedCovers == \A o \in floor..(head - 1) : Retained(chunks, o)

\* A producer that honours pause() never runs into the cap: whenever it may
\* emit, the longest chunk still fits (no PtyBufferOverflowError).
PushAccepted == ~ producerPaused /\ ~ exited => Occupancy + MaxChunk <= Cap

\* The pause lever follows the water marks with hysteresis: a running stream
\* is below the high mark and a paused one above the low mark, so no ack
\* sequence leaves the producer paused on a drained buffer.
WaterMarks ==
  /\ ~ paused => Occupancy < HighWater
  /\ paused => Occupancy > LowWater

\* The stream's belief and the producer's lever never part while the session
\* lives: each pause() is matched by one resume().
LeverAgrees == ~ exited => producerPaused = paused

\* The slowest attached consumer gates release: nothing above any attached
\* consumer's ack is released, and no ack runs ahead of what was delivered.
FloorGated ==
  /\ floor <= head
  /\ \A c \in attached : floor <= acked[c] /\ acked[c] <= deliveredTo[c]
                         /\ deliveredTo[c] <= head

\* No stalled window: every attached consumer has been delivered all that its
\* window allows, after any interleaving of pushes, acks and replays.
WindowFilled ==
  \A c \in attached : deliveredTo[c] >= DeliverLimit(head, acked[c])

\* The inductive invariant: chunks also never hold bytes past the head.
IInv ==
  /\ TypeOK /\ RetainedCovers /\ WaterMarks /\ LeverAgrees
  /\ FloorGated /\ WindowFilled

(* What a step may never do. *)

\* The floor never falls, and rises only while somebody is attached and only
\* to an offset every consumer attached after the step has acked: a detach of
\* the last consumer freezes it, so its reconnect finds every unacked byte.
FloorStep ==
  /\ floor' >= floor
  /\ floor' > floor => /\ attached' # {}
                       /\ \A c \in attached' : floor' <= acked'[c]
FloorNeverOutrunsAcks == [][FloorStep]_vars

(* Liveness. *)

\* Every byte produced reaches every consumer that stays attached.
EveryByteAcked ==
  \A c \in Consumers, o \in 0..(MaxHead - 1) :
    (c \in attached /\ o < head) ~> (c \notin attached \/ acked[c] > o)
=============================================================================
