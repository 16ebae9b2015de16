---------------------------- MODULE OpencodeFeed ----------------------------
(***************************************************************************)
(* The events of one OpenCode session on their way to the events table.    *)
(* The server keeps them in its durable store, numbered, and sends each    *)
(* twice on /global/event: as a plain event and as a sync wrapper that     *)
(* carries its number.  The SSE transport (adapters/opencode/sse) dedupes  *)
(* the plain ones and keeps the highest number it has seen; the collector  *)
(* (collector/opencode/sseSource) stores them and keeps the number up to   *)
(* which it takes the session to be covered, from where repairGaps asks    *)
(* the durable store again.  The scrape of opencode.db reads all of it.    *)
(*                                                                         *)
(* What the server sends while the stream is down is never sent again.     *)
(* Event ids are the numbers; 0 stands for none.  The collector's          *)
(* correlation sets are smaller than their window here.                    *)
(***************************************************************************)
EXTENDS Integers, FiniteSets, Sequences

CONSTANTS
  MaxEvents,   \* bound: events of the session
  SeenWindow,  \* dedupeWindow of the transport
  MaxMishaps   \* bound: disconnects, events sent again, failures, restarts

VARIABLES
  durable,    \* events in the server's store
  connected,  \* the transport's stream is open
  wire,       \* frames sent and not yet parsed
  seen,       \* transport: recent event ids, oldest first
  watermark,  \* transport: highest number of a sync wrapper
  queue,      \* transport: events the collector has not taken
  known,      \* collector: the session is in knownSessions
  healed,     \* collector: healed number
  early,      \* collector: sync wrappers that came before their event
  ingested,   \* collector: events whose sync wrapper has not come
  live,       \* events table: rows under the event's id
  repaired,   \* events table: rows under the oc-durable ref
  repair,     \* the number a replay has reached, -1 when none runs
  mishaps

vars == <<durable, connected, wire, seen, watermark, queue,
          known, healed, early, ingested, live, repaired, repair, mishaps>>
server == <<durable, connected>>
transport == <<seen, watermark, queue>>
correlation == <<early, ingested>>
table == <<live, repaired>>

Event == 1..MaxEvents
Frame == [kind : {"plain", "sync"}, event : Event]
Larger(a, b) == IF a > b THEN a ELSE b

TypeOK ==
  /\ durable \in 0..MaxEvents /\ connected \in BOOLEAN
  /\ wire \in Seq(Frame) /\ queue \in Seq(Event)
  /\ seen \in Seq(Event) /\ Len(seen) <= SeenWindow
  /\ watermark \in 0..MaxEvents /\ healed \in 0..MaxEvents
  /\ known \in BOOLEAN
  /\ early \subseteq Event /\ ingested \subseteq Event
  /\ live \subseteq Event /\ repaired \subseteq Event
  /\ repair \in -1..MaxEvents /\ mishaps \in 0..MaxMishaps

Init ==
  /\ durable = 0 /\ connected = TRUE /\ wire = <<>>
  /\ seen = <<>> /\ watermark = 0 /\ queue = <<>>
  /\ known = FALSE /\ healed = 0 /\ early = {} /\ ingested = {}
  /\ live = {} /\ repaired = {} /\ repair = -1 /\ mishaps = 0

Mishap == mishaps < MaxMishaps /\ mishaps' = mishaps + 1

Plain(e) == [kind |-> "plain", event |-> e]
Sync(e) == [kind |-> "sync", event |-> e]

\* The server stores an event and sends its two frames, in either order.
Emit ==
  /\ durable < MaxEvents
  /\ durable' = durable + 1
  /\ IF connected
     THEN \E frames \in {<<Plain(durable'), Sync(durable')>>,
                         <<Sync(durable'), Plain(durable')>>} :
            wire' = wire \o frames
     ELSE UNCHANGED wire
  /\ UNCHANGED <<connected, transport, known, healed, correlation,
                 table, repair, mishaps>>

\* The server sends an event it has sent before.
Reemit(e) ==
  /\ connected /\ e <= durable
  /\ wire' = Append(wire, Plain(e)) /\ Mishap
  /\ UNCHANGED <<server, transport, known, healed, correlation, table, repair>>

\* startEventStream: the stream ends or breaks, and the pump opens another.
Disconnect ==
  /\ connected /\ connected' = FALSE
  /\ wire' = <<>> /\ Mishap
  /\ UNCHANGED <<durable, transport, known, healed, correlation,
                 table, repair>>

Connect ==
  /\ ~connected /\ connected' = TRUE
  /\ UNCHANGED <<durable, wire, transport, known, healed, correlation,
                 table, repair, mishaps>>

\* rememberId: a new id enters the window and may push out the oldest.
Remember(e) ==
  IF Len(seen) < SeenWindow THEN Append(seen, e) ELSE Append(Tail(seen), e)

\* toEvent for a plain event: queued unless its id is in the window.
ParsePlain ==
  /\ wire # <<>> /\ Head(wire).kind = "plain"
  /\ wire' = Tail(wire)
  /\ LET e == Head(wire).event IN
       IF \E i \in DOMAIN seen : seen[i] = e
       THEN UNCHANGED <<seen, queue>>
       ELSE seen' = Remember(e) /\ queue' = Append(queue, e)
  /\ UNCHANGED <<server, watermark, known, healed, correlation,
                 table, repair, mishaps>>

\* captureWatermark, and onSyncCorrelation of the collector: the slot is
\* healed when its event was stored, else it waits for the event.
ParseSync ==
  /\ wire # <<>> /\ Head(wire).kind = "sync"
  /\ wire' = Tail(wire)
  /\ known' = TRUE
  /\ LET e == Head(wire).event IN
       /\ watermark' = Larger(watermark, e)
       /\ IF e \in ingested
          THEN /\ ingested' = ingested \ {e} /\ healed' = Larger(healed, e)
               /\ UNCHANGED early
          ELSE early' = early \cup {e} /\ UNCHANGED <<ingested, healed>>
  /\ UNCHANGED <<server, seen, queue, table, repair, mishaps>>

\* The loop of start: insert, onLiveIdIngested, snapshotWatermarks.
Consume ==
  /\ queue # <<>>
  /\ queue' = Tail(queue)
  /\ known' = TRUE
  /\ LET e == Head(queue) IN
       /\ live' = live \cup {e}
       /\ IF e \in early
          THEN early' = early \ {e} /\ UNCHANGED ingested
          ELSE ingested' = ingested \cup {e} /\ UNCHANGED early
       /\ healed' = Larger(watermark,
                           IF e \in early THEN Larger(healed, e) ELSE healed)
  /\ UNCHANGED <<server, wire, seen, watermark, repaired, repair, mishaps>>

\* repairGaps: the watermarks are taken over, then the replay is opened.
RepairGaps ==
  /\ repair = -1 /\ (known \/ watermark > 0)
  /\ known' = TRUE
  /\ healed' = Larger(healed, watermark)
  /\ repair' = healed'
  /\ UNCHANGED <<server, wire, transport, correlation, table, mishaps>>

\* repairSession: one durable event, and the end of the replay.
ReplayNext ==
  /\ repair >= 0 /\ repair < durable
  /\ repair' = repair + 1
  /\ repaired' = repaired \cup {repair'}
  /\ UNCHANGED <<server, wire, transport, known, healed, correlation,
                 live, mishaps>>

ReplayEnd ==
  /\ repair >= 0
  /\ \/ healed' = Larger(healed, repair) /\ UNCHANGED mishaps
     \/ UNCHANGED healed /\ Mishap
  /\ repair' = -1
  /\ UNCHANGED <<server, wire, transport, known, correlation, table>>

\* scrape: every row of the durable table, under the event's own id.
Scrape ==
  /\ live' = 1..durable
  /\ UNCHANGED <<server, wire, transport, known, healed, correlation,
                 repaired, repair, mishaps>>

\* The broker restarts: the table stays, the memory does not.
Restart ==
  /\ connected' = FALSE /\ wire' = <<>>
  /\ seen' = <<>> /\ watermark' = 0 /\ queue' = <<>>
  /\ known' = FALSE /\ healed' = 0 /\ early' = {} /\ ingested' = {}
  /\ repair' = -1 /\ Mishap
  /\ UNCHANGED <<durable, table>>

Next ==
  \/ Emit \/ Disconnect \/ Connect \/ ParsePlain \/ ParseSync \/ Consume
  \/ RepairGaps \/ ReplayNext \/ ReplayEnd \/ Scrape \/ Restart
  \/ \E e \in Event : Reemit(e)

Spec == Init /\ [][Next]_vars

\* sseSource.ts: everything up to the number the collector calls healed is
\* covered: stored under one of its two keys, or on its way, so that a replay
\* that starts after it misses nothing.
OnItsWay == {queue[i] : i \in DOMAIN queue} \cup
            {wire[i].event : i \in {j \in DOMAIN wire : wire[j].kind = "plain"}}
HealedIsCovered == 1..healed \subseteq live \cup repaired \cup OnItsWay
=============================================================================
