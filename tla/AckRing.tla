------------------------------ MODULE AckRing ------------------------------
(***************************************************************************)
(* The host side of the PTY flow control: BoundedAckRing                   *)
(* (core/src/kernel/pty/flowControl.ts) with the levers that ptyHost.ts    *)
(* wires to it - onData, pump, attach, detach, ack, replay - the recycle   *)
(* loop that replaces the child under a ring that stays, and the pause and *)
(* resume of the facade, which the gateway's stream pulls on the same      *)
(* child by its own marks (gatewayPort.ts).                                *)
(*                                                                         *)
(* The retained chunks are the bytes from bytesAcked to bytesIn, so the    *)
(* three counters are the whole state of the ring.  Names that the stream  *)
(* of the gateway has too (PtyStream) carry the prefix Ring.               *)
(***************************************************************************)
EXTENDS Integers

CONSTANTS
  RingCap,        \* capBytes
  RingHighWater,  \* highWaterBytes
  RingLowWater,   \* lowWaterBytes
  RingMaxChunk,   \* longest data event of a child
  MaxIn,          \* bound: bytes ever produced
  MaxChance       \* bound: children set running during one pause of the ring

\* The constructor's check.
ASSUME RingAssumption ==
  /\ RingCap \in Nat /\ RingHighWater \in Nat /\ RingLowWater \in Nat
  /\ RingLowWater < RingHighWater /\ RingHighWater <= RingCap
  /\ RingMaxChunk \in Nat /\ RingMaxChunk >= 1
  /\ MaxIn \in Nat /\ MaxChance \in Nat

VARIABLES
  bytesIn,         \* #bytesIn: absolute end of the produced stream
  bytesDelivered,  \* #bytesDelivered: end of what a consumer was handed
  bytesAcked,      \* #bytesAcked: the release floor
  ringPaused,      \* #paused
  consumer,        \* record.consumer is set
  alive,           \* record.proc is set
  childPaused,     \* the lever of the current child
  crashed,         \* push threw in the data listener; nobody catches it
  chances,         \* history: how often a child was set running since the
                   \* ring paused, by a respawn or by the facade's resume
  held             \* history: the facade's pause is the last pull of the lever

counters == <<bytesIn, bytesDelivered, bytesAcked>>
ringVars == <<counters, ringPaused, consumer, alive, childPaused, crashed,
              chances, held>>

RingTypeOK ==
  /\ bytesIn \in Nat /\ bytesDelivered \in Nat /\ bytesAcked \in Nat
  /\ ringPaused \in BOOLEAN /\ consumer \in BOOLEAN
  /\ alive \in BOOLEAN /\ childPaused \in BOOLEAN /\ crashed \in BOOLEAN
  /\ chances \in Nat /\ held \in BOOLEAN

RingInit ==
  /\ bytesIn = 0 /\ bytesDelivered = 0 /\ bytesAcked = 0
  /\ ringPaused = FALSE /\ consumer = FALSE
  /\ alive = TRUE /\ childPaused = FALSE /\ crashed = FALSE
  /\ chances = 0 /\ held = FALSE

RingOccupancy == bytesIn - bytesAcked

\* Mutant: push reports only the edge, as the gateway's stream does.
MustPauseOnEdge(occ) == ~ ringPaused /\ occ >= RingHighWater

\* push returns #paused: a paused ring pauses again on every data event.
MustPause(occ) == ringPaused \/ occ >= RingHighWater

\* Mutant: the attached consumer is not pumped.
NoPump(in, att) == bytesDelivered

\* pump: an attached consumer is handed everything not yet delivered.
Pump(in, att) == IF att THEN in ELSE bytesDelivered

\* onData: ring.push, the pause lever, pump.
OnData(n) ==
  /\ alive /\ ~ childPaused
  /\ bytesIn + n <= MaxIn
  /\ RingOccupancy + n <= RingCap
  /\ bytesIn' = bytesIn + n
  /\ ringPaused' = (ringPaused \/ RingOccupancy + n >= RingHighWater)
  /\ childPaused' = MustPause(RingOccupancy + n)
  /\ bytesDelivered' = Pump(bytesIn', consumer)
  /\ UNCHANGED <<bytesAcked, consumer, alive, crashed, chances, held>>

\* onData when push throws AckRingOverflowError: no handler, the broker dies.
Overflow(n) ==
  /\ alive /\ ~ childPaused
  /\ bytesIn + n <= MaxIn
  /\ RingOccupancy + n > RingCap
  /\ crashed' = TRUE
  /\ UNCHANGED <<counters, ringPaused, consumer, alive, childPaused, chances, held>>

\* ack: monotonic, bounded by the delivered offset; draining to the low mark
\* resumes the child, if there is one, whoever paused it.
RingAck(w) ==
  /\ bytesAcked < w /\ w <= bytesDelivered
  /\ bytesAcked' = w
  /\ LET drained == ringPaused /\ bytesIn - w <= RingLowWater IN
     /\ ringPaused' = (ringPaused /\ ~ drained)
     /\ childPaused' = (childPaused /\ ~ (alive /\ drained))
     /\ held' = (held /\ ~ (alive /\ drained))
     /\ chances' = IF drained THEN 0 ELSE chances
  /\ UNCHANGED <<bytesIn, bytesDelivered, consumer, alive, crashed>>

\* attach, with or without replayFrom: both end with nothing undelivered.
RingAttach ==
  /\ consumer' = TRUE
  /\ bytesDelivered' = Pump(bytesIn, TRUE)
  /\ UNCHANGED <<bytesIn, bytesAcked, ringPaused, alive, childPaused, crashed,
                 chances, held>>

RingDetach ==
  /\ consumer /\ consumer' = FALSE
  /\ UNCHANGED <<counters, ringPaused, alive, childPaused, crashed, chances, held>>

\* replay(w): the caller gets the retained bytes from w; the delivered
\* cursor moves to the stream end.
Replay(w) ==
  /\ bytesAcked <= w /\ w <= bytesIn
  /\ bytesDelivered' = bytesIn
  /\ UNCHANGED <<bytesIn, bytesAcked, ringPaused, consumer, alive, childPaused,
                 crashed, chances, held>>

\* facade.pause, pulled by the gateway's stream at its own high mark.
FacadePause ==
  /\ alive /\ childPaused' = TRUE /\ held' = TRUE
  /\ UNCHANGED <<counters, ringPaused, consumer, alive, crashed, chances>>

\* facade.resume does not ask the ring: the child may run under a paused one.
FacadeResume ==
  /\ alive /\ childPaused /\ childPaused' = FALSE /\ held' = FALSE
  /\ ringPaused => chances < MaxChance
  /\ chances' = IF ringPaused THEN chances + 1 ELSE chances
  /\ UNCHANGED <<counters, ringPaused, consumer, alive, crashed>>

\* recycle kills the child; acks that come before the respawn find no proc.
RecycleKill ==
  /\ alive /\ (ringPaused => chances < MaxChance)
  /\ alive' = FALSE
  /\ UNCHANGED <<counters, ringPaused, consumer, childPaused, crashed, chances, held>>

\* Mutant: the lever of the killed child is taken over.
RespawnKeepsLever ==
  /\ ~ alive /\ alive' = TRUE
  /\ UNCHANGED <<counters, ringPaused, consumer, childPaused, crashed, chances, held>>

\* spawnGeneration: the new child runs unpaused on the same ring.
Respawn ==
  /\ ~ alive /\ alive' = TRUE /\ childPaused' = FALSE /\ held' = FALSE
  /\ chances' = IF ringPaused THEN chances + 1 ELSE chances
  /\ UNCHANGED <<counters, ringPaused, consumer, crashed>>

RingNext ==
  /\ ~ crashed
  /\ \/ \E n \in 1..RingMaxChunk : OnData(n) \/ Overflow(n)
     \/ \E w \in 0..MaxIn : RingAck(w)
     \/ RingAttach \/ RingDetach
     \/ \E w \in 0..MaxIn : Replay(w)
     \/ FacadePause \/ FacadeResume
     \/ RecycleKill \/ Respawn

RingSpec == RingInit /\ [][RingNext]_ringVars

\* An attached consumer acks.
RingAckSome == ~ crashed /\ \E w \in 0..MaxIn : RingAck(w)
RingFairSpec == RingSpec /\ WF_ringVars(RingAckSome)

-----------------------------------------------------------------------------
\* AckRingOverflowError needs more than one burst: nothing bounds how often a
\* recycle or the gateway sets a child running under a paused ring, and each
\* time adds one data event; but the cap is met only when during one pause it
\* happened more often than the room above the high mark holds events.
RingAccepts ==
  crashed => RingHighWater + RingMaxChunk * (chances + 1) > RingCap + 1

\* A child that may emit under a paused ring has not used its chance yet.
MayEmit == alive /\ ~ childPaused

\* The occupancy stays below the high mark, one event for the push that met
\* it, and one for each later chance that was used.
Overshoot ==
  RingOccupancy < RingHighWater + RingMaxChunk
    * (IF ringPaused /\ ~ MayEmit THEN chances + 1 ELSE chances)

\* The inductive invariant behind RingAccepts: counters in order, the bound
\* on what a pause lets through, a child that runs under a paused ring was set
\* running after the pause, and one that is paused without the ring is held by
\* the gateway (also when the ack falls between the kill and the respawn).
RingInv ==
  /\ RingTypeOK
  /\ bytesAcked <= bytesDelivered /\ bytesDelivered <= bytesIn
  /\ ~ ringPaused => chances = 0
  /\ Overshoot
  /\ ringPaused /\ MayEmit => chances > 0
  /\ alive /\ childPaused => ringPaused \/ held
  /\ consumer => bytesDelivered = bytesIn

\* The ring's pause ends as long as somebody attached acks, through kills,
\* respawns and the gateway's own pulls of the lever.
PauseEnds == (ringPaused /\ consumer) ~> (~ ringPaused \/ ~ consumer \/ crashed)
=============================================================================
