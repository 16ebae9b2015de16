-------------------------- MODULE PtyStreamProofs --------------------------
(***************************************************************************)
(* The two flow controls on the child of a terminal.  The safety           *)
(* properties of PtyStream for every number of consumers, every admissible *)
(* setting of the water marks and windows, and every bound; then those of  *)
(* AckRing for every setting of its marks and any number of recycles.      *)
(***************************************************************************)
EXTENDS PtyStream, AckRing, TLAPS

\* #deliverMore stops at the limit when nothing up to it is missing.
LEMMA DeliverEndFull ==
  ASSUME NEW chs, NEW from \in Nat, NEW limit \in Nat,
         \A o \in from..(limit - 1) : Retained(chs, o)
  PROVE  DeliverEnd(chs, from, limit) = IF limit <= from THEN from ELSE limit
<1>1. CASE limit <= from
  BY <1>1 DEF DeliverEnd
<1>2. CASE ~ (limit <= from)
  <2> DEFINE Stop(e) == /\ \A o \in from..(e - 1) : Retained(chs, o)
                        /\ e < limit => ~ Retained(chs, e)
  <2>1. limit \in from..limit /\ Stop(limit)
    BY <1>2
  <2>2. \A e \in from..limit : Stop(e) => e = limit
    BY <1>2
  <2>3. (CHOOSE e \in from..limit : Stop(e)) = limit
    <3> HIDE DEF Stop
    <3> QED BY <2>1, <2>2
  <2> QED BY <1>2, <2>3 DEF DeliverEnd
<1> QED BY <1>1, <1>2

\* The window limit is the smaller of the head and ack + Window.
LEMMA DeliverLimitMin ==
  ASSUME NEW h \in Nat, NEW a \in Nat, a <= h
  PROVE  /\ DeliverLimit(h, a) \in Nat
         /\ a <= DeliverLimit(h, a) /\ DeliverLimit(h, a) <= h
BY WatermarkAssumption DEF DeliverLimit

\* #recomputeFloor keeps everything the operations that call it rely on.
LEMMA RecomputeFloorSafe ==
  ASSUME IInv, NEW att \in SUBSET Consumers, NEW ack \in [Consumers -> Nat],
         \A c \in att : floor <= ack[c] /\ ack[c] <= head,
         RecomputeFloor(att, ack)
  PROVE  /\ floor' \in Nat /\ floor <= floor' /\ floor' <= head
         /\ chunks' \subseteq Chunk
         /\ paused' \in BOOLEAN /\ producerPaused' \in BOOLEAN
         /\ \A c \in att : floor' <= ack[c]
         /\ \A o \in floor'..(head - 1) : Retained(chunks', o)
         /\ ~ paused' => head - floor' < HighWater
         /\ paused' => head - floor' > LowWater
         /\ ~ exited => producerPaused' = paused'
<1> USE WatermarkAssumption
<1>1. CASE UNCHANGED <<floor, chunks, paused, producerPaused>> /\ att = {}
  BY <1>1 DEF IInv, TypeOK, RetainedCovers, Retained, WaterMarks, LeverAgrees,
              FloorGated, Occupancy
<1>2. CASE \E m \in {ack[c] : c \in att} :
             /\ IsMinAck(m, att, ack) /\ m <= floor
             /\ UNCHANGED <<floor, chunks, paused, producerPaused>>
  BY <1>2 DEF IInv, TypeOK, RetainedCovers, Retained, WaterMarks, LeverAgrees,
              FloorGated, Occupancy
<1>3. CASE \E m \in {ack[c] : c \in att} :
             /\ IsMinAck(m, att, ack) /\ m > floor
             /\ floor' = m
             /\ chunks' = Collect(chunks, m)
             /\ paused' = (paused /\ ~ AtLow(head - m))
             /\ producerPaused' =
                  (producerPaused /\ ~ (paused /\ AtLow(head - m) /\ ~ exited))
  <2>1. PICK m \in {ack[c] : c \in att} :
             /\ IsMinAck(m, att, ack) /\ m > floor
             /\ floor' = m
             /\ chunks' = Collect(chunks, m)
             /\ paused' = (paused /\ ~ AtLow(head - m))
             /\ producerPaused' =
                  (producerPaused /\ ~ (paused /\ AtLow(head - m) /\ ~ exited))
    BY <1>3
  <2>2. m \in Nat /\ m <= head /\ head \in Nat /\ floor \in Nat
    BY <2>1 DEF IInv, TypeOK
  <2>3. \A c \in att : floor' <= ack[c]
    BY <2>1 DEF IsMinAck
  <2>4. chunks' \subseteq Chunk
    BY <2>1 DEF Collect, IInv, TypeOK
  <2>5. \A o \in floor'..(head - 1) : Retained(chunks', o)
    <3> SUFFICES ASSUME NEW o \in floor'..(head - 1) PROVE Retained(chunks', o)
      OBVIOUS
    <3>1. o \in floor..(head - 1) /\ m <= o
      BY <2>1, <2>2
    <3>2. PICK ch \in chunks : ch.offset <= o /\ o < ch.end
      BY <3>1 DEF IInv, RetainedCovers, Retained
    <3>3. ch.end \in Nat /\ ch.offset \in Nat
      BY DEF IInv, TypeOK, Chunk
    <3>4. ch \in chunks'
      BY <2>1, <2>2, <3>1, <3>2, <3>3 DEF Collect
    <3> QED BY <3>2, <3>4 DEF Retained
  <2>6. /\ paused' \in BOOLEAN /\ producerPaused' \in BOOLEAN
        /\ ~ exited => producerPaused' = paused'
    BY <2>1 DEF IInv, TypeOK, LeverAgrees
  <2>7. /\ ~ paused' => head - floor' < HighWater
        /\ paused' => head - floor' > LowWater
    <3>1. /\ ~ paused => head - floor < HighWater
          /\ paused => head - floor > LowWater
          /\ paused \in BOOLEAN
      BY DEF IInv, TypeOK, WaterMarks, Occupancy
    <3>2. CASE paused /\ ~ AtLow(head - m)
      <4>1. paused' /\ floor' = m
        BY <2>1, <3>2
      <4>2. head - m > LowWater
        BY <2>2, <3>2 DEF AtLow
      <4> QED BY <4>1, <4>2
    <3>3. CASE paused /\ AtLow(head - m)
      <4>1. ~ paused' /\ floor' = m
        BY <2>1, <3>3
      <4>2. head - m < HighWater
        BY <2>2, <3>3 DEF AtLow
      <4> QED BY <4>1, <4>2
    <3>4. CASE ~ paused
      <4>1. ~ paused'
        BY <2>1, <3>4
      <4>2. floor' = m /\ m > floor /\ head - floor < HighWater
        BY <2>1, <3>1, <3>4
      <4> QED BY <2>2, <4>1, <4>2
    <3> QED BY <3>1, <3>2, <3>3, <3>4
  <2> QED BY <2>1, <2>2, <2>3, <2>4, <2>5, <2>6, <2>7
<1> QED BY <1>1, <1>2, <1>3 DEF RecomputeFloor

\* What is retained above the floor is all a delivery from w needs.
LEMMA DeliveryReachesLimit ==
  ASSUME NEW chs, NEW f \in Nat, NEW h \in Nat,
         \A o \in f..(h - 1) : Retained(chs, o),
         NEW w \in Nat, f <= w, w <= h, NEW a \in Nat, a <= h
  PROVE  LET d == DeliverEnd(chs, w, DeliverLimit(h, a))
         IN  /\ d \in Nat /\ w <= d /\ d <= h
             /\ DeliverLimit(h, a) <= d /\ a <= d
<1>1. /\ DeliverLimit(h, a) \in Nat
      /\ a <= DeliverLimit(h, a) /\ DeliverLimit(h, a) <= h
  BY DeliverLimitMin
<1>2. \A o \in w..(DeliverLimit(h, a) - 1) : Retained(chs, o)
  BY <1>1
<1>3. DeliverEnd(chs, w, DeliverLimit(h, a))
        = IF DeliverLimit(h, a) <= w THEN w ELSE DeliverLimit(h, a)
  BY <1>1, <1>2, DeliverEndFull
<1> QED BY <1>1, <1>3

LEMMA InitIInv == Init => IInv
<1> SUFFICES ASSUME Init PROVE IInv
  OBVIOUS
<1>1. TypeOK
  BY DEF Init, TypeOK
<1>2. head = 0 /\ floor = 0 /\ paused = FALSE /\ attached = {}
      /\ producerPaused = FALSE
  BY DEF Init
<1>3. RetainedCovers /\ FloorGated /\ WindowFilled
  BY <1>2 DEF RetainedCovers, FloorGated, WindowFilled
<1>4. LeverAgrees
  BY <1>2 DEF LeverAgrees
<1>5. WaterMarks
  <2>1. ~ paused /\ Occupancy = 0
    BY <1>2 DEF Occupancy
  <2> QED BY <2>1, WatermarkAssumption DEF WaterMarks
<1> QED BY <1>1, <1>3, <1>4, <1>5 DEF IInv

LEMMA PushIInv ==
  ASSUME IInv, NEW n \in 1..MaxChunk, Push(n)
  PROVE  IInv'
<1> USE WatermarkAssumption, ChunkAssumption
<1>1. n \in Nat /\ n >= 1 /\ head \in Nat /\ floor \in Nat /\ floor <= head
  BY DEF IInv, TypeOK, FloorGated
<1>2. head' = head + n /\ head' \in Nat /\ floor' = floor
  BY <1>1 DEF Push
<1>3. \A o \in floor..(head' - 1) : Retained(chunks', o)
  <2> SUFFICES ASSUME NEW o \in floor..(head' - 1) PROVE Retained(chunks', o)
    OBVIOUS
  <2> DEFINE new == [offset |-> head, end |-> head + n]
  <2>1. chunks' = chunks \cup {new}
    BY DEF Push
  <2>2. CASE o < head
    BY <1>1, <1>2, <2>1, <2>2 DEF IInv, RetainedCovers, Retained
  <2>3. CASE o >= head
    <3>1. new.offset <= o /\ o < new.end
      BY <1>1, <1>2, <2>3
    <3> QED BY <2>1, <3>1 DEF Retained
  <2> QED BY <1>1, <1>2, <2>2, <2>3
<1>4. RetainedCovers'
  BY <1>2, <1>3 DEF RetainedCovers
<1>5. \A c \in attached :
        /\ deliveredTo'[c] \in Nat /\ deliveredTo[c] <= deliveredTo'[c]
        /\ deliveredTo'[c] <= head'
        /\ DeliverLimit(head', acked[c]) <= deliveredTo'[c]
  <2> SUFFICES ASSUME NEW c \in attached
               PROVE  /\ deliveredTo'[c] \in Nat
                      /\ deliveredTo[c] <= deliveredTo'[c]
                      /\ deliveredTo'[c] <= head'
                      /\ DeliverLimit(head', acked[c]) <= deliveredTo'[c]
    OBVIOUS
  <2>1. c \in Consumers /\ deliveredTo[c] \in Nat /\ acked[c] \in Nat
    BY DEF IInv, TypeOK
  <2>2. floor <= acked[c] /\ acked[c] <= deliveredTo[c] /\ deliveredTo[c] <= head
    BY DEF IInv, FloorGated
  <2>3. deliveredTo'[c] = DeliverEnd(chunks', deliveredTo[c],
                                     DeliverLimit(head', acked[c]))
    BY <2>1 DEF Push
  <2>4. floor <= deliveredTo[c] /\ deliveredTo[c] <= head' /\ acked[c] <= head'
    BY <1>1, <1>2, <2>1, <2>2
  <2> DEFINE d == DeliverEnd(chunks', deliveredTo[c],
                             DeliverLimit(head', acked[c]))
  <2>5. /\ d \in Nat /\ deliveredTo[c] <= d /\ d <= head'
        /\ DeliverLimit(head', acked[c]) <= d
    <3>1. floor \in Nat /\ head' \in Nat
      BY <1>1, <1>2
    <3> QED BY <1>3, <2>1, <2>4, <3>1, DeliveryReachesLimit
  <2> QED BY <2>3, <2>5
<1>6. deliveredTo' \in [Consumers -> Nat]
  <2>1. \A c \in Consumers : deliveredTo'[c] \in Nat
    BY <1>5 DEF Push, IInv, TypeOK
  <2> QED BY <2>1 DEF Push
<1>7. TypeOK'
  <2>1. [offset |-> head, end |-> head + n] \in Chunk
    BY <1>1 DEF Chunk
  <2>2. chunks' \subseteq Chunk
    BY <2>1 DEF Push, IInv, TypeOK
  <2>3. paused' \in BOOLEAN /\ producerPaused' \in BOOLEAN
    BY DEF Push, IInv, TypeOK
  <2> QED BY <1>2, <1>6, <2>2, <2>3 DEF Push, IInv, TypeOK
<1>8. WaterMarks' /\ LeverAgrees'
  <2>1. ~ paused
    BY DEF Push, IInv, LeverAgrees
  <2>2. head' - floor' = Occupancy + n /\ Occupancy \in Int
    BY <1>1, <1>2 DEF Occupancy
  <2>3. /\ paused' = AtHigh(Occupancy + n)
        /\ producerPaused' = AtHigh(Occupancy + n)
    BY <2>1 DEF Push, AtHigh
  <2>4. LeverAgrees'
    <3>1. producerPaused' = paused'
      BY <2>3, Zenon
    <3> QED BY <3>1 DEF LeverAgrees
  <2>5. CASE AtHigh(Occupancy + n)
    <3>1. paused'
      BY <2>3, <2>5, Zenon
    <3>2. head' - floor' > LowWater
      BY <1>1, <2>2, <2>5 DEF AtHigh
    <3> QED BY <2>4, <3>1, <3>2 DEF WaterMarks, Occupancy
  <2>6. CASE ~ AtHigh(Occupancy + n)
    <3>1. ~ paused'
      BY <2>3, <2>6
    <3>2. head' - floor' < HighWater
      BY <1>1, <2>2, <2>6 DEF AtHigh
    <3> QED BY <2>4, <3>1, <3>2 DEF WaterMarks, Occupancy
  <2> QED BY <2>5, <2>6
<1>9. FloorGated'
  <2>1. attached' = attached /\ acked' = acked
    BY DEF Push
  <2>2. \A c \in attached : c \in Consumers /\ acked[c] \in Nat
                            /\ deliveredTo[c] \in Nat
    BY DEF IInv, TypeOK
  <2> QED BY <1>1, <1>2, <1>5, <2>1, <2>2 DEF IInv, FloorGated
<1>10. WindowFilled'
  BY <1>5 DEF Push, WindowFilled, DeliverLimit
<1> QED BY <1>4, <1>7, <1>8, <1>9, <1>10 DEF IInv

LEMMA AttachIInv ==
  ASSUME IInv, NEW c \in Consumers, NEW w \in 0..MaxHead, Attach(c, w)
  PROVE  IInv'
<1> USE BoundAssumption
<1>1. w \in Nat /\ floor <= w /\ w <= head /\ head \in Nat /\ head' = head
  BY DEF Attach, IInv, TypeOK
<1>2. attached' \in SUBSET Consumers /\ acked' \in [Consumers -> Nat]
  BY <1>1 DEF Attach, IInv, TypeOK
<1>3. \A d \in attached' : floor <= acked'[d] /\ acked'[d] <= head
  BY <1>1 DEF Attach, IInv, TypeOK, FloorGated
<1>4. /\ floor' \in Nat /\ floor <= floor' /\ floor' <= head
      /\ chunks' \subseteq Chunk
      /\ paused' \in BOOLEAN /\ producerPaused' \in BOOLEAN
      /\ \A d \in attached' : floor' <= acked'[d]
      /\ \A o \in floor'..(head - 1) : Retained(chunks', o)
      /\ ~ paused' => head - floor' < HighWater
      /\ paused' => head - floor' > LowWater
      /\ ~ exited => producerPaused' = paused'
  BY <1>2, <1>3, RecomputeFloorSafe DEF Attach
<1>5. c \in attached' /\ acked'[c] = w /\ floor' <= w
  BY <1>4 DEF Attach, IInv, TypeOK
<1>6. /\ deliveredTo'[c] \in Nat /\ w <= deliveredTo'[c]
      /\ deliveredTo'[c] <= head
      /\ DeliverLimit(head, w) <= deliveredTo'[c]
  <2>1. deliveredTo'[c] = DeliverEnd(chunks', w, DeliverLimit(head, w))
    BY DEF Attach, IInv, TypeOK
  <2>2. /\ DeliverEnd(chunks', w, DeliverLimit(head, w)) \in Nat
        /\ w <= DeliverEnd(chunks', w, DeliverLimit(head, w))
        /\ DeliverEnd(chunks', w, DeliverLimit(head, w)) <= head
        /\ DeliverLimit(head, w)
             <= DeliverEnd(chunks', w, DeliverLimit(head, w))
    <3>1. /\ floor' \in Nat /\ head \in Nat /\ w \in Nat
          /\ floor' <= w /\ w <= head
      BY <1>1, <1>4, <1>5
    <3>2. \A o \in floor'..(head - 1) : Retained(chunks', o)
      BY <1>4
    <3> QED BY <3>1, <3>2, DeliveryReachesLimit
  <2> QED BY <2>1, <2>2
<1>7. deliveredTo' \in [Consumers -> Nat]
      /\ \A d \in attached : d # c /\ deliveredTo'[d] = deliveredTo[d]
                             /\ acked'[d] = acked[d]
  BY <1>6 DEF Attach, IInv, TypeOK
<1>8. TypeOK'
  BY <1>2, <1>4, <1>7 DEF Attach, IInv, TypeOK
<1>9. RetainedCovers' /\ WaterMarks' /\ LeverAgrees'
  BY <1>1, <1>4 DEF Attach, RetainedCovers, WaterMarks, LeverAgrees, Occupancy
<1>10. FloorGated' /\ WindowFilled'
  BY <1>1, <1>4, <1>5, <1>6, <1>7
  DEF Attach, IInv, FloorGated, WindowFilled, DeliverLimit
<1> QED BY <1>8, <1>9, <1>10 DEF IInv

LEMMA AckIInv ==
  ASSUME IInv, NEW c \in Consumers, NEW w \in 0..MaxHead, Ack(c, w)
  PROVE  IInv'
<1> USE BoundAssumption
<1>1. /\ w \in Nat /\ head \in Nat /\ head' = head /\ floor \in Nat
      /\ acked[c] \in Nat /\ deliveredTo[c] \in Nat
      /\ acked[c] < w /\ w <= deliveredTo[c] /\ deliveredTo[c] <= head
      /\ floor <= w
  BY DEF Ack, IInv, TypeOK, FloorGated
<1>2. attached' = attached /\ attached \in SUBSET Consumers
      /\ acked' \in [Consumers -> Nat]
  BY <1>1 DEF Ack, IInv, TypeOK
<1>3. \A d \in attached : floor <= acked'[d] /\ acked'[d] <= head
  <2> TAKE d \in attached
  <2>1. d \in Consumers /\ floor <= acked[d] /\ acked[d] <= deliveredTo[d]
        /\ deliveredTo[d] <= head /\ acked[d] \in Nat /\ deliveredTo[d] \in Nat
    BY DEF IInv, TypeOK, FloorGated
  <2>2. acked'[d] = IF d = c THEN w ELSE acked[d]
    BY <2>1 DEF Ack, IInv, TypeOK
  <2> QED BY <1>1, <2>1, <2>2
<1>4. /\ floor' \in Nat /\ floor <= floor' /\ floor' <= head
      /\ chunks' \subseteq Chunk
      /\ paused' \in BOOLEAN /\ producerPaused' \in BOOLEAN
      /\ \A d \in attached : floor' <= acked'[d]
      /\ \A o \in floor'..(head - 1) : Retained(chunks', o)
      /\ ~ paused' => head - floor' < HighWater
      /\ paused' => head - floor' > LowWater
      /\ ~ exited => producerPaused' = paused'
  BY <1>2, <1>3, RecomputeFloorSafe DEF Ack
<1>5. c \in attached /\ acked'[c] = w /\ floor' <= w
  BY <1>4 DEF Ack, IInv, TypeOK
<1>6. /\ deliveredTo'[c] \in Nat /\ w <= deliveredTo'[c]
      /\ deliveredTo'[c] <= head
      /\ DeliverLimit(head, w) <= deliveredTo'[c]
  <2>1. deliveredTo'[c] = DeliverEnd(chunks', deliveredTo[c],
                                     DeliverLimit(head, w))
    BY DEF Ack, IInv, TypeOK
  <2>2. floor' <= deliveredTo[c] /\ w <= head
    BY <1>1, <1>4, <1>5
  <2> QED BY <1>1, <1>4, <2>1, <2>2, DeliveryReachesLimit
<1>7. deliveredTo' \in [Consumers -> Nat]
      /\ \A d \in attached \ {c} : deliveredTo'[d] = deliveredTo[d]
                                   /\ acked'[d] = acked[d]
  BY <1>6 DEF Ack, IInv, TypeOK
<1>8. TypeOK'
  BY <1>2, <1>4, <1>7 DEF Ack, IInv, TypeOK
<1>9. RetainedCovers' /\ WaterMarks' /\ LeverAgrees'
  BY <1>1, <1>4 DEF Ack, RetainedCovers, WaterMarks, LeverAgrees, Occupancy
<1>10. FloorGated' /\ WindowFilled'
  BY <1>1, <1>2, <1>4, <1>5, <1>6, <1>7
  DEF IInv, FloorGated, WindowFilled, DeliverLimit
<1> QED BY <1>8, <1>9, <1>10 DEF IInv

LEMMA ReplayFromIInv ==
  ASSUME IInv, NEW c \in Consumers, NEW w \in 0..MaxHead, ReplayFrom(c, w)
  PROVE  IInv'
<1> USE BoundAssumption
<1>1. /\ w \in Nat /\ head \in Nat /\ floor \in Nat /\ floor <= w /\ w <= head
      /\ acked[c] \in Nat /\ acked[c] <= head
      /\ UNCHANGED <<head, floor, chunks, paused, exited, attached, acked,
                     producerPaused, attaches>>
  BY DEF ReplayFrom, IInv, TypeOK, FloorGated
<1>2. /\ deliveredTo'[c] \in Nat /\ w <= deliveredTo'[c]
      /\ deliveredTo'[c] <= head
      /\ DeliverLimit(head, acked[c]) <= deliveredTo'[c]
      /\ acked[c] <= deliveredTo'[c]
  <2>1. deliveredTo'[c] = DeliverEnd(chunks, w, DeliverLimit(head, acked[c]))
    BY DEF ReplayFrom, IInv, TypeOK
  <2>2. \A o \in floor..(head - 1) : Retained(chunks, o)
    BY DEF IInv, RetainedCovers
  <2> DEFINE d == DeliverEnd(chunks, w, DeliverLimit(head, acked[c]))
  <2>3. /\ d \in Nat /\ w <= d /\ d <= head
        /\ DeliverLimit(head, acked[c]) <= d /\ acked[c] <= d
    <3>1. /\ w \in Nat /\ head \in Nat /\ floor \in Nat /\ floor <= w
          /\ w <= head /\ acked[c] \in Nat /\ acked[c] <= head
      BY <1>1
    <3> QED BY <2>2, <3>1, DeliveryReachesLimit
  <2> QED BY <2>1, <2>3
<1>3. deliveredTo' \in [Consumers -> Nat]
      /\ \A d \in attached \ {c} : deliveredTo'[d] = deliveredTo[d]
  BY <1>2 DEF ReplayFrom, IInv, TypeOK
<1>4. TypeOK'
  BY <1>1, <1>3 DEF IInv, TypeOK
<1>5. RetainedCovers' /\ WaterMarks' /\ LeverAgrees'
  BY <1>1 DEF IInv, RetainedCovers, Retained, WaterMarks, LeverAgrees, Occupancy
<1>6. FloorGated' /\ WindowFilled'
  BY <1>1, <1>2, <1>3 DEF IInv, FloorGated, WindowFilled, DeliverLimit
<1> QED BY <1>4, <1>5, <1>6 DEF IInv

LEMMA DetachIInv ==
  ASSUME IInv, NEW c \in Consumers, Detach(c)
  PROVE  IInv'
<1>1. /\ attached' \in SUBSET Consumers /\ attached' \subseteq attached
      /\ acked \in [Consumers -> Nat]
      /\ UNCHANGED <<head, exited, deliveredTo, acked, attaches>>
  BY DEF Detach, IInv, TypeOK
<1>2. \A d \in attached' : floor <= acked[d] /\ acked[d] <= head
  BY <1>1 DEF IInv, TypeOK, FloorGated
<1>3. /\ floor' \in Nat /\ floor <= floor' /\ floor' <= head
      /\ chunks' \subseteq Chunk
      /\ paused' \in BOOLEAN /\ producerPaused' \in BOOLEAN
      /\ \A d \in attached' : floor' <= acked[d]
      /\ \A o \in floor'..(head - 1) : Retained(chunks', o)
      /\ ~ paused' => head - floor' < HighWater
      /\ paused' => head - floor' > LowWater
      /\ ~ exited => producerPaused' = paused'
  BY <1>1, <1>2, RecomputeFloorSafe DEF Detach
<1>4. TypeOK'
  BY <1>1, <1>3 DEF IInv, TypeOK
<1>5. RetainedCovers' /\ WaterMarks' /\ LeverAgrees'
  BY <1>1, <1>3 DEF RetainedCovers, WaterMarks, LeverAgrees, Occupancy
<1>6. FloorGated' /\ WindowFilled'
  BY <1>1, <1>3 DEF IInv, FloorGated, WindowFilled, DeliverLimit
<1> QED BY <1>4, <1>5, <1>6 DEF IInv

\* markExited and stuttering steps touch nothing the invariant relates.
LEMMA QuietIInv ==
  ASSUME IInv, MarkExited \/ UNCHANGED vars
  PROVE  IInv'
<1>1. /\ UNCHANGED <<head, floor, chunks, paused, attached, deliveredTo, acked,
                     producerPaused, attaches>>
      /\ exited' = exited \/ exited' = TRUE
  BY DEF MarkExited, vars
<1>2. TypeOK'
  BY <1>1 DEF IInv, TypeOK
<1> QED BY <1>1, <1>2
        DEF IInv, RetainedCovers, Retained, WaterMarks, LeverAgrees, Occupancy,
            FloorGated, WindowFilled, DeliverLimit

\* Every operation of PtySessionStream preserves the inductive invariant.
LEMMA NextIInv == IInv /\ [Next]_vars => IInv'
BY PushIInv, AttachIInv, AckIInv, ReplayFromIInv, DetachIInv, QuietIInv
DEF Next

\* The inductive invariant of the stream holds for every set of consumers,
\* window and water marks the constructor of PtySessionStream accepts.
THEOREM StreamInvariant == Spec => []IInv
BY InitIInv, NextIInv, PTL DEF Spec

\* A producer that honours pause() never provokes PtyBufferOverflowError.
THEOREM NeverOverflows == Spec => []PushAccepted
<1>1. IInv => PushAccepted
  <2> SUFFICES ASSUME IInv, ~ producerPaused, ~ exited
               PROVE  Occupancy + MaxChunk <= Cap
    BY DEF PushAccepted
  <2>1. Occupancy < HighWater /\ Occupancy \in Int
    BY DEF IInv, LeverAgrees, WaterMarks, Occupancy, TypeOK
  <2> QED BY <2>1, WatermarkAssumption, ChunkAssumption
<1> QED BY <1>1, StreamInvariant, PTL

\* Nothing is released that some attached consumer has not acked, whatever
\* the interleaving of pushes, acks, replays, attaches and detaches.
THEOREM NeverDropsUnacked == Spec => [](RetainedCovers /\ FloorGated)
<1>1. IInv => RetainedCovers /\ FloorGated
  BY DEF IInv
<1> QED BY <1>1, StreamInvariant, PTL

\* #recomputeFloor raises the floor only to what everyone it looked at acked.
LEMMA RecomputeFloorRaises ==
  ASSUME TypeOK, NEW att \in SUBSET Consumers, NEW ack \in [Consumers -> Nat],
         RecomputeFloor(att, ack)
  PROVE  /\ floor' >= floor
         /\ floor' > floor => att # {} /\ \A c \in att : floor' <= ack[c]
<1>1. CASE floor' = floor
  BY <1>1 DEF TypeOK
<1>2. CASE \E m \in {ack[c] : c \in att} :
             IsMinAck(m, att, ack) /\ m > floor /\ floor' = m
  BY <1>2 DEF TypeOK, IsMinAck
<1> QED BY <1>1, <1>2 DEF RecomputeFloor

\* The release floor never falls, freezes while nobody is attached, and rises
\* only to what every attached consumer has acked.
THEOREM FloorFollowsAcks == Spec => FloorNeverOutrunsAcks
<1>1. IInv /\ [Next]_vars => [FloorStep]_vars
  <2> SUFFICES ASSUME IInv, Next PROVE FloorStep
    OBVIOUS
  <2>0. TypeOK
    BY DEF IInv
  <2>1. ASSUME NEW n \in 1..MaxChunk, Push(n) PROVE FloorStep
    BY <2>0, <2>1 DEF Push, FloorStep, TypeOK
  <2>2. CASE MarkExited
    BY <2>0, <2>2 DEF MarkExited, FloorStep, TypeOK
  <2>3. ASSUME NEW c \in Consumers, NEW w \in 0..MaxHead, Attach(c, w)
        PROVE  FloorStep
    <3>1. attached' \in SUBSET Consumers /\ acked' \in [Consumers -> Nat]
      BY <2>0, <2>3, BoundAssumption DEF Attach, TypeOK
    <3>2. RecomputeFloor(attached', acked')
      BY <2>3 DEF Attach
    <3> QED BY <2>0, <3>1, <3>2, RecomputeFloorRaises DEF FloorStep
  <2>4. ASSUME NEW c \in Consumers, NEW w \in 0..MaxHead, Ack(c, w)
        PROVE  FloorStep
    <3>1. attached' = attached /\ attached \in SUBSET Consumers
          /\ acked' \in [Consumers -> Nat]
      BY <2>0, <2>4, BoundAssumption DEF Ack, TypeOK
    <3>2. RecomputeFloor(attached, acked')
      BY <2>4 DEF Ack
    <3> QED BY <2>0, <3>1, <3>2, RecomputeFloorRaises DEF FloorStep
  <2>5. ASSUME NEW c \in Consumers, NEW w \in 0..MaxHead, ReplayFrom(c, w)
        PROVE  FloorStep
    BY <2>0, <2>5 DEF ReplayFrom, FloorStep, TypeOK
  <2>6. ASSUME NEW c \in Consumers, Detach(c) PROVE FloorStep
    <3>1. attached' \in SUBSET Consumers /\ acked' = acked
          /\ acked \in [Consumers -> Nat]
      BY <2>0, <2>6 DEF Detach, TypeOK
    <3>2. RecomputeFloor(attached', acked)
      BY <2>6 DEF Detach
    <3> QED BY <2>0, <3>1, <3>2, RecomputeFloorRaises DEF FloorStep
  <2> QED BY <2>1, <2>2, <2>3, <2>4, <2>5, <2>6 DEF Next
<1> QED BY <1>1, StreamInvariant, PTL DEF Spec, FloorNeverOutrunsAcks

-----------------------------------------------------------------------------
(* The host's ring, the other flow control on the same child. *)

\* What k data events under a paused ring can add.
Overshot(k) == RingMaxChunk * k

\* One more chance adds one more event.
LEMMA OvershotGrows ==
  ASSUME NEW k \in Nat
  PROVE  Overshot(k) \in Nat /\ Overshot(k + 1) = Overshot(k) + RingMaxChunk
<1> USE RingAssumption DEF Overshot
<1>1. RingMaxChunk * (k + 1) = RingMaxChunk * k + RingMaxChunk
  OBVIOUS
<1>2. RingMaxChunk * k \in Nat
  OBVIOUS
<1> QED BY <1>1, <1>2

LEMMA OvershotNone == Overshot(0) = 0
BY RingAssumption DEF Overshot

\* RingInv with the product named, so that no leaf multiplies.
Room(o, p, e, c) ==
  o < RingHighWater + IF p /\ ~ e THEN Overshot(c + 1) ELSE Overshot(c)

LEMMA OvershootAs ==
  /\ Overshoot <=> Room(bytesIn - bytesAcked, ringPaused, MayEmit, chances)
  /\ Overshoot' <=> Room(bytesIn' - bytesAcked', ringPaused', MayEmit', chances')
BY DEF Overshoot, Overshot, Room, RingOccupancy

\* What every step below starts from.
LEMMA RingFacts ==
  ASSUME RingInv
  PROVE  /\ RingTypeOK /\ bytesAcked <= bytesDelivered /\ bytesDelivered <= bytesIn
         /\ ~ ringPaused => chances = 0
         /\ Room(bytesIn - bytesAcked, ringPaused, MayEmit, chances)
         /\ ringPaused /\ MayEmit => chances > 0
         /\ alive /\ childPaused => ringPaused \/ held
         /\ consumer => bytesDelivered = bytesIn
         /\ Overshot(chances) \in Nat
         /\ Overshot(chances + 1) = Overshot(chances) + RingMaxChunk
<1>1. chances \in Nat
  BY DEF RingInv, RingTypeOK
<1>2. Overshot(chances) \in Nat /\ Overshot(chances + 1) = Overshot(chances) + RingMaxChunk
  BY <1>1, OvershotGrows
<1> QED BY <1>2, OvershootAs DEF RingInv

\* A data event is the only step that fills the ring.
LEMMA OnDataKeeps ==
  ASSUME RingInv, NEW n \in 1..RingMaxChunk, OnData(n)
  PROVE  RingInv'
<1> USE RingAssumption
<1>t. /\ RingTypeOK /\ bytesAcked <= bytesDelivered /\ bytesDelivered <= bytesIn
      /\ ~ ringPaused => chances = 0
      /\ Room(bytesIn - bytesAcked, ringPaused, MayEmit, chances)
      /\ consumer => bytesDelivered = bytesIn
      /\ Overshot(chances) \in Nat
      /\ Overshot(chances + 1) = Overshot(chances) + RingMaxChunk
  BY RingFacts
<1>1. /\ alive /\ ~ childPaused
      /\ UNCHANGED <<bytesAcked, consumer, alive, crashed, chances, held>>
      /\ bytesIn' = bytesIn + n
      /\ bytesDelivered' = (IF consumer THEN bytesIn + n ELSE bytesDelivered)
  BY DEF OnData, Pump
<1>2. bytesIn - bytesAcked < RingHighWater + Overshot(chances)
  BY <1>t, <1>1 DEF Room, MayEmit
<1>3. /\ childPaused' <=> ringPaused'
      /\ ~ ringPaused' => ~ ringPaused /\ bytesIn + n - bytesAcked < RingHighWater
      /\ ringPaused' \in BOOLEAN /\ childPaused' \in BOOLEAN
  <2> DEFINE full == RingOccupancy + n >= RingHighWater
  <2>1. ringPaused' = (ringPaused \/ full) /\ childPaused' = (ringPaused \/ full)
    BY DEF OnData, MustPause
  <2>2. ~ full => bytesIn + n - bytesAcked < RingHighWater
    BY <1>t DEF RingOccupancy, RingTypeOK
  <2> HIDE DEF full
  <2> QED BY <2>1, <2>2, Zenon
<1>4. Overshoot'
  <2>1. CASE ringPaused'
    <3>1. ringPaused' /\ ~ MayEmit'
      BY <1>1, <1>3, <2>1 DEF MayEmit
    <3>2. bytesIn' - bytesAcked' < RingHighWater + Overshot(chances + 1)
      BY <1>t, <1>1, <1>2 DEF RingTypeOK
    <3> QED BY <1>1, <3>1, <3>2, OvershootAs DEF Room
  <2>2. CASE ~ ringPaused'
    <3>1. bytesIn' - bytesAcked' < RingHighWater + Overshot(chances)
      BY <1>t, <1>1, <1>3, <2>2 DEF RingTypeOK
    <3> QED BY <1>1, <2>2, <3>1, OvershootAs DEF Room
  <2> QED BY <2>1, <2>2
<1>5. RingTypeOK'
  BY <1>t, <1>1, <1>3 DEF RingTypeOK
<1>6. /\ bytesAcked' <= bytesDelivered' /\ bytesDelivered' <= bytesIn'
      /\ consumer' => bytesDelivered' = bytesIn'
  BY <1>t, <1>1 DEF RingTypeOK
<1>7. /\ ~ ringPaused' => chances' = 0
      /\ ringPaused' /\ MayEmit' => chances' > 0
      /\ alive' /\ childPaused' => ringPaused' \/ held'
  BY <1>t, <1>1, <1>3 DEF MayEmit
<1> QED BY <1>4, <1>5, <1>6, <1>7 DEF RingInv

\* An ack empties the ring; when it ends the pause, the chances of that pause
\* are over.
LEMMA RingAckKeeps ==
  ASSUME RingInv, NEW w \in 0..MaxIn, RingAck(w)
  PROVE  RingInv'
<1> USE RingAssumption
<1>t. /\ RingTypeOK /\ bytesAcked <= bytesDelivered /\ bytesDelivered <= bytesIn
      /\ ~ ringPaused => chances = 0
      /\ Room(bytesIn - bytesAcked, ringPaused, MayEmit, chances)
      /\ ringPaused /\ MayEmit => chances > 0
      /\ alive /\ childPaused => ringPaused \/ held
      /\ consumer => bytesDelivered = bytesIn
      /\ Overshot(chances) \in Nat
      /\ Overshot(chances + 1) = Overshot(chances) + RingMaxChunk
  BY RingFacts
<1>1. /\ bytesAcked < w /\ w <= bytesDelivered /\ bytesAcked' = w
      /\ UNCHANGED <<bytesIn, bytesDelivered, consumer, alive, crashed>>
  BY DEF RingAck
<1>2. CASE ringPaused /\ bytesIn - w <= RingLowWater
  <2>1. /\ ringPaused' = FALSE /\ chances' = 0
        /\ alive => childPaused' = FALSE /\ held' = FALSE
        /\ ~ alive => childPaused' = childPaused /\ held' = held
    BY <1>2, <1>t DEF RingAck, RingTypeOK
  <2>2. Overshoot'
    BY <1>t, <1>1, <1>2, <2>1, OvershootAs, OvershotNone DEF Room, RingTypeOK
  <2>3. childPaused' \in BOOLEAN /\ held' \in BOOLEAN
    BY <2>1, <1>t DEF RingTypeOK
  <2>4. RingTypeOK'
    <3>1. w \in Nat /\ 0 \in Nat /\ FALSE \in BOOLEAN
      OBVIOUS
    <3> QED BY <1>t, <1>1, <2>1, <2>3, <3>1, Zenon DEF RingTypeOK
  <2> QED BY <1>t, <1>1, <2>1, <2>2, <2>4 DEF RingInv, MayEmit, RingTypeOK
<1>3. CASE ~ (ringPaused /\ bytesIn - w <= RingLowWater)
  <2>1. UNCHANGED <<ringPaused, childPaused, held, chances>>
    BY <1>3, <1>t DEF RingAck, RingTypeOK
  <2>2. UNCHANGED MayEmit
    BY <1>1, <2>1 DEF MayEmit
  <2>3. bytesIn' - bytesAcked' < bytesIn - bytesAcked
    BY <1>t, <1>1 DEF RingTypeOK
  <2>4. Overshoot'
    BY <1>t, <1>1, <2>1, <2>2, <2>3, OvershootAs DEF Room, RingTypeOK
  <2>5. RingTypeOK'
    BY <1>t, <1>1, <2>1 DEF RingTypeOK
  <2> QED BY <1>t, <1>1, <2>1, <2>2, <2>4, <2>5 DEF RingInv, RingTypeOK
<1> QED BY <1>2, <1>3

\* Setting a child running under a paused ring is one more chance, which the
\* bound counts before it is used.
LEMMA LeverKeeps ==
  ASSUME RingInv, FacadePause \/ FacadeResume \/ RecycleKill \/ Respawn
  PROVE  RingInv'
<1> USE RingAssumption
<1>t. /\ RingTypeOK /\ bytesAcked <= bytesDelivered /\ bytesDelivered <= bytesIn
      /\ ~ ringPaused => chances = 0
      /\ Room(bytesIn - bytesAcked, ringPaused, MayEmit, chances)
      /\ ringPaused /\ MayEmit => chances > 0
      /\ alive /\ childPaused => ringPaused \/ held
      /\ consumer => bytesDelivered = bytesIn
      /\ Overshot(chances) \in Nat
      /\ Overshot(chances + 1) = Overshot(chances) + RingMaxChunk
  BY RingFacts
<1>1. UNCHANGED <<bytesIn, bytesDelivered, bytesAcked, ringPaused, consumer, crashed>>
  BY DEF FacadePause, FacadeResume, RecycleKill, Respawn, counters
<1>2. CASE FacadePause \/ RecycleKill
  <2>1. /\ chances' = chances /\ ~ MayEmit'
        /\ alive' \in BOOLEAN /\ childPaused' \in BOOLEAN /\ held' \in BOOLEAN
        /\ alive' => held'
    <3>1. alive \in BOOLEAN /\ childPaused \in BOOLEAN /\ held \in BOOLEAN
      BY <1>t DEF RingTypeOK
    <3>2. CASE FacadePause
      BY <3>1, <3>2, Zenon DEF FacadePause, MayEmit
    <3>3. CASE RecycleKill
      BY <3>1, <3>3, Zenon DEF RecycleKill, MayEmit
    <3> QED BY <1>2, <3>2, <3>3
  <2>2. Overshoot'
    BY <1>t, <1>1, <2>1, OvershootAs DEF Room, RingTypeOK
  <2>3. RingTypeOK'
    BY <1>t, <1>1, <2>1 DEF RingTypeOK
  <2> QED BY <1>t, <1>1, <2>1, <2>2, <2>3 DEF RingInv
<1>3. CASE FacadeResume \/ Respawn
  <2>1. /\ alive' = TRUE /\ childPaused' = FALSE /\ held' = FALSE /\ ~ MayEmit
        /\ chances' = IF ringPaused THEN chances + 1 ELSE chances
    BY <1>3, <1>t DEF FacadeResume, Respawn, MayEmit, RingTypeOK
  <2>2. MayEmit' /\ chances' \in Nat /\ (ringPaused => chances' > 0)
    BY <1>t, <2>1 DEF MayEmit, RingTypeOK
  <2>3. Overshoot'
    BY <1>t, <1>1, <2>1, <2>2, OvershootAs DEF Room, RingTypeOK
  <2>4. RingTypeOK'
    BY <1>t, <1>1, <2>1, <2>2 DEF RingTypeOK
  <2> QED BY <1>t, <1>1, <2>1, <2>2, <2>3, <2>4 DEF RingInv
<1> QED BY <1>2, <1>3

\* Consumers only move the delivered cursor.
LEMMA ConsumerKeeps ==
  ASSUME RingInv,
         \/ RingAttach \/ RingDetach \/ UNCHANGED ringVars
         \/ \E w \in 0..MaxIn : Replay(w)
         \/ \E n \in 1..RingMaxChunk : Overflow(n)
  PROVE  RingInv'
<1>t. /\ RingTypeOK /\ bytesAcked <= bytesDelivered /\ bytesDelivered <= bytesIn
      /\ ~ ringPaused => chances = 0
      /\ Room(bytesIn - bytesAcked, ringPaused, MayEmit, chances)
      /\ ringPaused /\ MayEmit => chances > 0
      /\ alive /\ childPaused => ringPaused \/ held
      /\ consumer => bytesDelivered = bytesIn
  BY RingFacts
<1>1. UNCHANGED <<bytesIn, bytesAcked, ringPaused, alive, childPaused, chances, held>>
  BY DEF RingAttach, RingDetach, Replay, Overflow, counters, ringVars
<1>2. /\ bytesDelivered' = bytesDelivered \/ bytesDelivered' = bytesIn
      /\ consumer' => bytesDelivered' = bytesIn
      /\ consumer' \in BOOLEAN /\ crashed' \in BOOLEAN
  <2>1. consumer \in BOOLEAN /\ crashed \in BOOLEAN
    BY <1>t DEF RingTypeOK
  <2>2. CASE RingAttach
    BY <2>1, <2>2, Zenon DEF RingAttach, Pump
  <2>3. CASE RingDetach
    BY <2>1, <2>3, Zenon DEF RingDetach, counters
  <2>4. CASE UNCHANGED ringVars
    BY <1>t, <2>1, <2>4 DEF ringVars, counters
  <2>5. ASSUME NEW w \in 0..MaxIn, Replay(w)
        PROVE  bytesDelivered' = bytesIn /\ consumer' = consumer /\ crashed' = crashed
    BY <2>5 DEF Replay
  <2>6. ASSUME NEW n \in 1..RingMaxChunk, Overflow(n)
        PROVE  bytesDelivered' = bytesDelivered /\ consumer' = consumer /\ crashed' = TRUE
    BY <2>6 DEF Overflow, counters
  <2> QED BY <1>t, <2>1, <2>2, <2>3, <2>4, <2>5, <2>6, Zenon
<1>3. Overshoot' /\ (MayEmit' <=> MayEmit)
  BY <1>t, <1>1, OvershootAs DEF MayEmit
<1>4. RingTypeOK'
  BY <1>t, <1>1, <1>2 DEF RingTypeOK
<1> QED BY <1>t, <1>1, <1>2, <1>3, <1>4 DEF RingInv, RingTypeOK

LEMMA RingStep == RingInv /\ [RingNext]_ringVars => RingInv'
BY OnDataKeeps, RingAckKeeps, LeverKeeps, ConsumerKeeps DEF RingNext

LEMMA RingInitInv == RingInit => RingInv
<1> SUFFICES ASSUME RingInit PROVE RingInv
  OBVIOUS
<1>1. bytesIn - bytesAcked = 0 /\ chances = 0 /\ ~ ringPaused
  BY DEF RingInit
<1>2. Overshoot
  BY <1>1, OvershotNone, OvershootAs, RingAssumption DEF Room
<1>3. RingTypeOK
  <2>1. 0 \in Nat
    OBVIOUS
  <2> QED BY <2>1, Zenon DEF RingInit, RingTypeOK
<1> QED BY <1>2, <1>3 DEF RingInit, RingInv, MayEmit

\* Counters in order, at most one data event per chance above the high mark,
\* and a known reason for every lever that disagrees with the ring, for every
\* cap and marks and any number of recycles and of pulls by the gateway
\* (flowControl.ts, ptyHost.ts, gatewayPort.ts).
THEOREM RingInvariant == RingSpec => []RingInv
BY RingInitInv, RingStep, PTL DEF RingSpec

\* AckRingOverflowError is met only when, during one pause, more children were
\* set running than the room above the high mark holds data events.
THEOREM RingNeverOverflows == RingSpec => []RingAccepts
<1>1. RingInit => RingAccepts
  BY DEF RingInit, RingAccepts
<1>2. RingInv /\ RingAccepts /\ [RingNext]_ringVars => RingAccepts'
  <2> SUFFICES ASSUME RingInv, RingAccepts, [RingNext]_ringVars, crashed'
               PROVE  RingHighWater + Overshot(chances' + 1) > RingCap + 1
    BY DEF RingAccepts, Overshot
  <2> USE RingAssumption
  <2>1. CASE UNCHANGED ringVars
    BY <2>1 DEF ringVars, RingAccepts, Overshot
  <2>2. ASSUME NEW n \in 1..RingMaxChunk, Overflow(n)
        PROVE  RingHighWater + Overshot(chances' + 1) > RingCap + 1
    <3>1. /\ bytesIn \in Nat /\ bytesAcked \in Nat /\ chances' = chances /\ MayEmit
          /\ bytesIn - bytesAcked + n > RingCap
      BY <2>2 DEF Overflow, RingInv, RingTypeOK, MayEmit, RingOccupancy
    <3>2. bytesIn - bytesAcked < RingHighWater + Overshot(chances)
      BY <3>1, RingFacts DEF Room
    <3>3. Overshot(chances) \in Nat /\ Overshot(chances + 1) = Overshot(chances) + RingMaxChunk
      BY RingFacts
    <3> QED BY <3>1, <3>2, <3>3
  <2>3. CASE RingNext /\ ~ \E n \in 1..RingMaxChunk : Overflow(n)
    BY <2>3 DEF RingNext, OnData, RingAck, RingAttach, RingDetach, Replay, FacadePause,
                FacadeResume, RecycleKill, Respawn
  <2> QED BY <2>1, <2>2, <2>3
<1> QED BY <1>1, <1>2, RingInvariant, PTL DEF RingSpec
=============================================================================
