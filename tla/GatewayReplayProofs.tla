------------------------ MODULE GatewayReplayProofs ------------------------
(* Machine-checked proof that reconnect-replay never duplicates a row and    *)
(* never uses a watermark of a dead boot, for any number of windows, any     *)
(* retention window and any bounds.                                          *)
EXTENDS GatewayReplay, SequenceTheorems, TLAPS

(* What the wire carries after a replay: the old frames, then the retained   *)
(* seqs from the requested one up to the last broadcast.                     *)
LEMMA RetainedRange ==
    ASSUME nextSeq \in 0..MaxSeq, NEW from \in Nat, from <= nextSeq, MaxSeq \in Nat
    PROVE  /\ Retained(from) \in Seq(Seqs)
           /\ \A i \in 1..Len(Retained(from)) : Retained(from)[i] < nextSeq
<1> DEFINE n == nextSeq - from
<1>1. n \in Nat
  OBVIOUS
<1>2. \A i \in 1..n : from + i - 1 \in Seqs /\ from + i - 1 < nextSeq
  BY DEF Seqs
<1>3. Retained(from) \in [1..n -> Seqs]
  BY <1>1, <1>2 DEF Retained
<1>4. Retained(from) \in Seq(Seqs) /\ Len(Retained(from)) = n
  BY <1>1, <1>3
<1> QED
  BY <1>2, <1>4 DEF Retained

(* TypeOK, one window at a time. *)
LEMMA WindowTypes ==
    ASSUME TypeOK, NEW c \in Clients
    PROVE  /\ conn[c] \in Conns /\ known[c] \in Int /\ mark[c] \in -1..(MaxSeq - 1)
           /\ mark[c] \in Int /\ request[c] \in Int /\ rows[c] \in [Seqs -> Nat]
           /\ toClient[c] \in Seq(Seqs) /\ nextSeq \in Int /\ boot \in Int
<1> USE ReplayAssumption
<1>1. conn[c] \in Conns /\ toClient[c] \in Seq(Seqs) /\ rows[c] \in [Seqs -> Nat]
  BY DEF TypeOK
<1>2. known[c] \in -1..MaxBoot /\ mark[c] \in -1..(MaxSeq - 1) /\ request[c] \in -1..MaxSeq
  BY DEF TypeOK
<1>3. nextSeq \in 0..MaxSeq /\ boot \in 0..MaxBoot
  BY DEF TypeOK
<1> QED
  BY <1>1, <1>2, <1>3

(* The initial states satisfy the invariant. *)
LEMMA ReplayInvInit == ASSUME Init PROVE ReplayInv
BY ReplayAssumption DEF Init, ReplayInv, TypeOK, Bounded, RowsBelowMark,
   NoDuplicateRows, Live, NoMark, NoRows, Seqs, Conns

(* A broadcast appends a seq below the new nextSeq to every live wire. *)
LEMMA BroadcastKeeps == ASSUME ReplayInv, Broadcast PROVE ReplayInv'
<1> USE ReplayAssumption
<1>1. nextSeq \in Seqs /\ nextSeq' = nextSeq + 1 /\ nextSeq' \in 0..MaxSeq
  BY DEF ReplayInv, TypeOK, Broadcast, Seqs
<1>2. floor' \in 0..nextSeq'
  BY <1>1 DEF ReplayInv, TypeOK, Broadcast, Evicted
<1>3. ASSUME NEW c \in Clients
      PROVE  /\ toClient'[c] \in Seq(Seqs)
             /\ \A i \in 1..Len(toClient'[c]) : toClient'[c][i] < nextSeq'
             /\ ~Live(c) => toClient'[c] = toClient[c]
  <2>1. toClient[c] \in Seq(Seqs)
    BY DEF ReplayInv, TypeOK
  <2>2. \A i \in 1..Len(toClient[c]) : toClient[c][i] < nextSeq /\ toClient[c][i] \in Int
    BY <2>1 DEF ReplayInv, Bounded, Seqs
  <2>3. CASE Live(c)
    <3>1. toClient'[c] = Append(toClient[c], nextSeq)
      BY <2>3 DEF Broadcast
    <3> QED
      BY <1>1, <2>1, <2>2, <2>3, <3>1 DEF Seqs
  <2>4. CASE ~Live(c)
    <3>1. toClient'[c] = toClient[c]
      BY <2>4 DEF Broadcast
    <3> QED
      BY <1>1, <2>1, <2>2, <2>4, <3>1 DEF Seqs
  <2> QED
    BY <2>3, <2>4
<1>4. toClient' \in [Clients -> Seq(Seqs)]
  BY <1>3 DEF Broadcast
<1>5. UNCHANGED <<boot, conn, known, mark, first, request, rows, drops>>
  BY DEF Broadcast, window
<1>e. excuse' \in [Clients -> SUBSET Excuses]
  BY DEF ReplayInv, TypeOK, Broadcast, Excuses
<1>6. TypeOK'
  BY <1>1, <1>2, <1>4, <1>5, <1>e DEF ReplayInv, TypeOK
<1>7. ASSUME NEW c \in Clients PROVE Bounded(c)' /\ RowsBelowMark(c)'
  <2>1. Bounded(c) /\ RowsBelowMark(c) /\ TypeOK
    BY DEF ReplayInv
  <2>2. Bounded(c)'
    BY <1>1, <1>3, <1>5, <2>1, WindowTypes, SMTT(20) DEF Bounded, Live
  <2>3. RowsBelowMark(c)'
    BY <1>5, <2>1 DEF RowsBelowMark
  <2> QED
    BY <2>2, <2>3
<1>8. NoDuplicateRows'
  BY <1>5 DEF ReplayInv, NoDuplicateRows
<1> QED
  BY <1>6, <1>7, <1>8 DEF ReplayInv

(* A restart empties every wire and every journal; watermarks of the dead    *)
(* boot stay behind their old identity.                                      *)
LEMMA RestartKeeps == ASSUME ReplayInv, Restart PROVE ReplayInv'
<1> USE ReplayAssumption
<1>1. TypeOK'
  BY DEF ReplayInv, TypeOK, Restart, window, NoMark, Conns
<1>2. ASSUME NEW c \in Clients PROVE Bounded(c)' /\ RowsBelowMark(c)'
  BY DEF ReplayInv, TypeOK, Bounded, RowsBelowMark, Live, Restart, window, NoMark, Conns
<1>3. NoDuplicateRows'
  BY DEF ReplayInv, NoDuplicateRows, Restart, window
<1> QED
  BY <1>1, <1>2, <1>3 DEF ReplayInv

(* A replay only re-sends seqs of this boot. *)
LEMMA ReplayKeeps == ASSUME ReplayInv, NEW c \in Clients, Replay(c) PROVE ReplayInv'
<1> USE ReplayAssumption
<1>1. UNCHANGED <<boot, nextSeq, floor, conn, known, mark, first, rows, drops>>
  BY DEF Replay, broker, window
<1>2. request' \in [Clients -> -1..MaxSeq] /\ excuse' \in [Clients -> SUBSET Excuses]
      /\ \A d \in Clients : request'[d] = request[d] \/ request'[d] = NoMark
  <2>1. request \in [Clients -> -1..MaxSeq] /\ excuse \in [Clients -> SUBSET Excuses]
    BY DEF ReplayInv, TypeOK
  <2>2. request' = [request EXCEPT ![c] = NoMark]
        /\ (excuse' = excuse \/ excuse' = [excuse EXCEPT ![c] = @ \cup {"refused"}])
    BY DEF Replay
  <2>3. NoMark \in -1..MaxSeq /\ "refused" \in Excuses
    BY DEF NoMark, Excuses
  <2> QED
    BY <2>1, <2>2, <2>3
<1>3. ASSUME NEW d \in Clients
      PROVE  /\ toClient'[d] \in Seq(Seqs)
             /\ \A i \in 1..Len(toClient'[d]) : toClient'[d][i] < nextSeq
             /\ ~Live(d) => toClient'[d] = toClient[d]
  <2>1. toClient[d] \in Seq(Seqs)
        /\ \A i \in 1..Len(toClient[d]) : toClient[d][i] < nextSeq
    BY DEF ReplayInv, TypeOK, Bounded
  <2>2. CASE toClient'[d] = toClient[d]
    BY <2>1, <2>2
  <2>3. CASE d = c /\ Answerable(request[c])
    <3>1. request[c] \in Nat /\ request[c] <= nextSeq /\ nextSeq \in 0..MaxSeq
      BY <2>3 DEF ReplayInv, TypeOK, Replay, Answerable, NoMark
    <3> DEFINE t == Retained(request[c])
    <3>2. t \in Seq(Seqs) /\ \A i \in 1..Len(t) : t[i] < nextSeq
      BY <3>1, RetainedRange
    <3>3. toClient'[d] = toClient[d] \o t
      BY <2>3 DEF Replay, ReplayInv, TypeOK
    <3>4. Live(d)
      BY <2>3 DEF Replay, Live
    <3> HIDE DEF t
    <3>5. toClient[d] \o t \in Seq(Seqs) /\ Len(toClient[d] \o t) = Len(toClient[d]) + Len(t)
      BY <2>1, <3>2
    <3>6. ASSUME NEW i \in 1..Len(toClient[d] \o t)
          PROVE  (toClient[d] \o t)[i] < nextSeq
      <4>1. Len(toClient[d]) \in Nat /\ Len(t) \in Nat
        BY <2>1, <3>2
      <4>2. CASE i <= Len(toClient[d])
        BY <2>1, <3>2, <3>5, <4>1, <4>2
      <4>3. CASE i > Len(toClient[d])
        <5>1. i - Len(toClient[d]) \in 1..Len(t)
          BY <3>5, <4>1, <4>3
        <5>2. (toClient[d] \o t)[i] = t[i - Len(toClient[d])]
          BY <2>1, <3>2, <3>5, <4>1, <4>3
        <5> QED
          BY <3>2, <5>1, <5>2
      <4> QED
        BY <4>1, <4>2, <4>3
    <3> QED
      BY <3>3, <3>4, <3>5, <3>6
  <2> QED
    BY <2>2, <2>3 DEF Replay, ReplayInv, TypeOK
<1>4. toClient' \in [Clients -> Seq(Seqs)]
  BY <1>3 DEF Replay, ReplayInv, TypeOK
<1>5. TypeOK'
  BY <1>1, <1>2, <1>4 DEF ReplayInv, TypeOK
<1>6. ASSUME NEW d \in Clients PROVE Bounded(d)' /\ RowsBelowMark(d)'
  <2>1. Bounded(d) /\ RowsBelowMark(d) /\ TypeOK
    BY DEF ReplayInv
  <2>2. Bounded(d)'
    <3>1. nextSeq \in Nat /\ request[d] \in Int
      BY <2>1, WindowTypes DEF TypeOK
    <3>2. request'[d] = request[d] \/ request'[d] = NoMark
      BY <1>2
    <3>3. known[d] = boot => request'[d] <= nextSeq
      BY <2>1, <3>1, <3>2 DEF Bounded, NoMark
    <3> QED
      BY <1>1, <1>3, <2>1, <3>2, <3>3 DEF Bounded, Live
  <2>3. RowsBelowMark(d)'
    BY <1>1, <2>1 DEF RowsBelowMark
  <2> QED
    BY <2>2, <2>3
<1>7. NoDuplicateRows'
  BY <1>1 DEF ReplayInv, NoDuplicateRows
<1> QED
  BY <1>5, <1>6, <1>7 DEF ReplayInv

(* Only a seq above the watermark reaches the stores, and none above it had  *)
(* reached them before.                                                      *)
LEMMA ReceiveKeeps == ASSUME ReplayInv, NEW c \in Clients, Receive(c) PROVE ReplayInv'
<1> USE ReplayAssumption
<1> DEFINE s == Head(toClient[c])
<1>1. UNCHANGED <<boot, nextSeq, floor, conn, known, first, request, excuse, drops>>
  BY DEF Receive, broker
<1>2. toClient[c] \in Seq(Seqs) /\ toClient[c] # <<>>
  BY DEF Receive, ReplayInv, TypeOK
<1>3. s \in Seqs /\ s < nextSeq
  BY <1>2 DEF ReplayInv, Bounded
<1>4. ASSUME NEW d \in Clients
      PROVE  /\ toClient'[d] \in Seq(Seqs)
             /\ \A i \in 1..Len(toClient'[d]) : toClient'[d][i] < nextSeq
             /\ toClient[d] = <<>> => toClient'[d] = <<>>
  <2>1. toClient[d] \in Seq(Seqs)
        /\ \A i \in 1..Len(toClient[d]) : toClient[d][i] < nextSeq
    BY DEF ReplayInv, TypeOK, Bounded
  <2>2. CASE d = c
    <3>1. toClient'[d] = Tail(toClient[d])
      BY <2>2 DEF Receive, ReplayInv, TypeOK
    <3> QED
      BY <1>2, <2>1, <2>2, <3>1
  <2>3. CASE d # c
    <3>1. toClient'[d] = toClient[d]
      BY <2>3 DEF Receive, ReplayInv, TypeOK
    <3> QED
      BY <2>1, <3>1
  <2> QED
    BY <2>2, <2>3
<1>5. toClient' \in [Clients -> Seq(Seqs)]
  BY <1>4 DEF Receive, ReplayInv, TypeOK
<1>6. Live(c) /\ known[c] = boot
  BY DEF Receive, Live, ReplayInv, Bounded
<1>7. CASE Duplicate(c, s)
  <2>1. UNCHANGED <<mark, rows>>
    BY <1>7 DEF Receive
  <2>2. TypeOK'
    BY <1>1, <1>5, <2>1 DEF ReplayInv, TypeOK
  <2>3. ASSUME NEW d \in Clients PROVE Bounded(d)' /\ RowsBelowMark(d)'
    BY <1>1, <1>4, <2>1 DEF ReplayInv, Bounded, RowsBelowMark, Live
  <2> QED
    BY <2>1, <2>2, <2>3 DEF ReplayInv, NoDuplicateRows
<1>8. CASE ~Duplicate(c, s)
  <2>1. mark' = [mark EXCEPT ![c] = s] /\ rows' = [rows EXCEPT ![c][s] = @ + 1]
    BY <1>8 DEF Receive
  <2>2. s > mark[c]
    BY <1>3, <1>8 DEF Duplicate, NoMark, Seqs, ReplayInv, TypeOK
  <2>3. rows[c][s] = 0
    <3>1. rows[c][s] \in Nat /\ mark[c] \in Int /\ s \in Int
      BY <1>3, WindowTypes DEF ReplayInv, Seqs
    <3>2. rows[c][s] > 0 => s <= mark[c]
      BY <1>3 DEF ReplayInv, RowsBelowMark
    <3> QED
      BY <2>2, <3>1, <3>2
  <2>4. \A d \in Clients : d # c => mark'[d] = mark[d] /\ rows'[d] = rows[d]
    BY <2>1 DEF ReplayInv, TypeOK
  <2>5. mark'[c] = s
    BY <2>1 DEF ReplayInv, TypeOK
  <2>6. rows'[c] = [rows[c] EXCEPT ![s] = rows[c][s] + 1]
    BY <1>3, <2>1 DEF ReplayInv, TypeOK
  <2>7. rows[c] \in [Seqs -> Nat]
    BY DEF ReplayInv, TypeOK
  <2>8. rows'[c] \in [Seqs -> Nat] /\ \A r \in Seqs :
          rows'[c][r] = IF r = s THEN 1 ELSE rows[c][r]
    BY <1>3, <2>3, <2>6, <2>7
  <2>9. mark' \in [Clients -> -1..(MaxSeq - 1)]
    <3>1. mark \in [Clients -> -1..(MaxSeq - 1)]
      BY DEF ReplayInv, TypeOK
    <3>2. s \in -1..(MaxSeq - 1)
      BY <1>3 DEF Seqs
    <3> QED
      BY <2>1, <3>1, <3>2
  <2>10. rows' \in [Clients -> [Seqs -> Nat]]
    BY <1>3, <2>1, <2>8 DEF ReplayInv, TypeOK
  <2>11. TypeOK'
    BY <1>1, <1>5, <2>9, <2>10 DEF ReplayInv, TypeOK
  <2>12. ASSUME NEW d \in Clients PROVE Bounded(d)'
    <3>1. Bounded(d) /\ TypeOK
      BY DEF ReplayInv
    <3>2. s \in Nat /\ boot \in Nat
      BY <1>3, <3>1 DEF Seqs, TypeOK
    <3>3. known[c] # -1
      BY <1>6, <3>2
    <3> HIDE DEF s
    <3> QED
      BY <1>1, <1>3, <1>4, <1>6, <2>4, <2>5, <3>1, <3>3 DEF Bounded, Live
  <2>13. ASSUME NEW d \in Clients PROVE RowsBelowMark(d)'
    <3>1. CASE d = c
      <4> SUFFICES ASSUME NEW r \in Seqs, rows'[c][r] > 0 PROVE r <= mark'[c]
        BY <3>1 DEF RowsBelowMark
      <4>1. r = s \/ r <= mark[c]
        BY <2>8 DEF ReplayInv, RowsBelowMark
      <4> QED
        <5>1. s \in Int /\ r \in Int /\ mark[c] \in Int
          BY <1>3, WindowTypes DEF ReplayInv, Seqs
        <5> QED
          BY <2>2, <2>5, <4>1, <5>1
    <3>2. CASE d # c
      BY <2>4, <3>2 DEF ReplayInv, RowsBelowMark
    <3> QED
      BY <3>1, <3>2
  <2>14. NoDuplicateRows'
    BY <2>4, <2>8 DEF ReplayInv, NoDuplicateRows
  <2> QED
    BY <2>11, <2>12, <2>13, <2>14 DEF ReplayInv
<1> QED
  BY <1>7, <1>8

(* Connecting, opening, failing and dropping move no payload. *)
LEMMA ConnectionKeeps ==
    ASSUME ReplayInv, NEW c \in Clients,
           Discover(c) \/ Accept(c) \/ ConnectFail(c) \/ Open(c) \/ Drop(c)
    PROVE  ReplayInv'
<1> USE ReplayAssumption DEF broker, window, wire
<1>1. CASE Discover(c)
  <2>1. CASE ForgetsBoot(c)
    <3> DEFINE fresh == NoRows
    <3>0. fresh \in [Seqs -> Nat] /\ \A q \in Seqs : fresh[q] = 0
      BY DEF NoRows
    <3>a. /\ conn' = [conn EXCEPT ![c] = "connecting"]
          /\ known' = [known EXCEPT ![c] = boot]
          /\ mark' = [mark EXCEPT ![c] = NoMark]
          /\ first' = [first EXCEPT ![c] = TRUE]
          /\ rows' = [rows EXCEPT ![c] = fresh]
          /\ excuse' = [excuse EXCEPT ![c] = {}]
          /\ UNCHANGED <<boot, nextSeq, floor, toClient, request, drops>>
      BY <1>1, <2>1 DEF Discover
    <3> HIDE DEF fresh
    <3>1. TypeOK'
      BY <3>0, <3>a DEF ReplayInv, TypeOK, Conns, NoMark
    <3>b. conn[c] = "down"
      BY <1>1 DEF Discover
    <3>2. ASSUME NEW d \in Clients PROVE Bounded(d)' /\ RowsBelowMark(d)'
      <4>1. Bounded(d) /\ RowsBelowMark(d) /\ TypeOK
        BY DEF ReplayInv
      <4>2. CASE d = c
        <5>1. ~Live(c) /\ ~Live(c)' /\ known'[c] = boot /\ mark'[c] = NoMark /\ rows'[c] = fresh
          BY <3>a, <3>b, <4>1 DEF TypeOK, Live
        <5>2. boot \in Nat /\ nextSeq \in Nat /\ request[c] = NoMark /\ toClient[c] = <<>>
          BY <4>1, <4>2, <5>1 DEF TypeOK, Bounded
        <5>3. Bounded(c)'
          BY <3>a, <5>1, <5>2 DEF Bounded, NoMark
        <5>4. RowsBelowMark(c)'
          BY <3>0, <5>1 DEF RowsBelowMark
        <5> QED
          BY <4>2, <5>3, <5>4
      <4>3. CASE d # c
        <5>1. UNCHANGED <<conn[d], known[d], mark[d], rows[d]>>
          BY <3>a, <4>1, <4>3 DEF TypeOK
        <5> QED
          BY <3>a, <4>1, <5>1 DEF Bounded, RowsBelowMark, Live
      <4> QED
        BY <4>2, <4>3
    <3>3. NoDuplicateRows'
      <4>1. \A d \in Clients : rows'[d] = rows[d] \/ rows'[d] = fresh
        BY <3>a DEF ReplayInv, TypeOK
      <4> QED
        BY <3>0, <4>1 DEF ReplayInv, NoDuplicateRows
    <3> QED
      BY <3>1, <3>2, <3>3 DEF ReplayInv
  <2>2. CASE ~ForgetsBoot(c)
    <3>1. TypeOK'
      BY <1>1, <2>2 DEF ReplayInv, TypeOK, Discover, Conns
    <3>2. ASSUME NEW d \in Clients PROVE Bounded(d)' /\ RowsBelowMark(d)'
      BY <1>1, <2>2, <3>2 DEF ReplayInv, TypeOK, Discover, ForgetsBoot, Bounded, RowsBelowMark, Live, NoMark
    <3> QED
      BY <1>1, <2>2, <3>1, <3>2 DEF ReplayInv, Discover, NoDuplicateRows
  <2> QED
    BY <2>1, <2>2
<1>2. CASE Accept(c)
  <2>1. TypeOK'
    BY <1>2 DEF ReplayInv, TypeOK, Accept, Conns
  <2>2. ASSUME NEW d \in Clients PROVE Bounded(d)' /\ RowsBelowMark(d)'
    BY <1>2, <2>2 DEF ReplayInv, TypeOK, Accept, Bounded, RowsBelowMark, Live
  <2> QED
    BY <1>2, <2>1, <2>2 DEF ReplayInv, Accept, NoDuplicateRows
<1>3. CASE ConnectFail(c)
  <2>1. TypeOK'
    BY <1>3 DEF ReplayInv, TypeOK, ConnectFail, Conns
  <2>2. ASSUME NEW d \in Clients PROVE Bounded(d)' /\ RowsBelowMark(d)'
    BY <1>3, <2>2 DEF ReplayInv, TypeOK, ConnectFail, Bounded, RowsBelowMark, Live
  <2> QED
    BY <1>3, <2>1, <2>2 DEF ReplayInv, ConnectFail, NoDuplicateRows
<1>4. CASE Open(c)
  <2>1. ReplayPoint(c) \in -1..MaxSeq /\ ReplayPoint(c) <= nextSeq
    BY <1>4 DEF ReplayInv, TypeOK, Open, Bounded, Live, ReplayPoint, NoMark
  <2>2. TypeOK'
    BY <1>4, <2>1 DEF ReplayInv, TypeOK, Open, Conns
  <2>3. ASSUME NEW d \in Clients PROVE Bounded(d)' /\ RowsBelowMark(d)'
    BY <1>4, <2>1, <2>3 DEF ReplayInv, TypeOK, Open, Bounded, RowsBelowMark, Live
  <2> QED
    BY <1>4, <2>2, <2>3 DEF ReplayInv, Open, NoDuplicateRows
<1>5. CASE Drop(c)
  <2>0. excuse' \in [Clients -> SUBSET Excuses]
    BY <1>5 DEF ReplayInv, TypeOK, Drop, Excuses
  <2>1. TypeOK'
    BY <1>5, <2>0, SMTT(20) DEF ReplayInv, TypeOK, Drop, Conns, NoMark
  <2>2. ASSUME NEW d \in Clients PROVE Bounded(d)' /\ RowsBelowMark(d)'
    BY <1>5, <2>2 DEF ReplayInv, TypeOK, Drop, Bounded, RowsBelowMark, Live, NoMark
  <2> QED
    BY <1>5, <2>1, <2>2 DEF ReplayInv, Drop, NoDuplicateRows
<1> QED
  BY <1>1, <1>2, <1>3, <1>4, <1>5

(* ReplayInv is an invariant: types, wires and watermarks bounded by the     *)
(* journal of the running boot, and rows only at or below the watermark.     *)
THEOREM ReplayInvariant == Spec => []ReplayInv
<1>1. Init => ReplayInv
  BY ReplayInvInit
<1>2. ReplayInv /\ [Next]_vars => ReplayInv'
  <2> SUFFICES ASSUME ReplayInv, [Next]_vars PROVE ReplayInv'
    OBVIOUS
  <2>1. CASE Broadcast
    BY <2>1, BroadcastKeeps
  <2>2. CASE Restart
    BY <2>2, RestartKeeps
  <2>3. CASE \E c \in Clients : ClientStep(c) \/ Drop(c)
    BY <2>3, ReplayKeeps, ReceiveKeeps, ConnectionKeeps DEF ClientStep
  <2>4. CASE UNCHANGED vars
    BY <2>4 DEF vars, broker, window, wire, ReplayInv, TypeOK, Bounded,
       RowsBelowMark, NoDuplicateRows, Live
  <2> QED
    BY <2>1, <2>2, <2>3, <2>4 DEF Next
<1> QED
  BY <1>1, <1>2, PTL DEF Spec

(* handleFrame's duplicate drop: no payload reaches a store twice, for every *)
(* interleaving of drops, replays, restarts and live flow.                   *)
THEOREM NeverDuplicates == Spec => []NoDuplicateRows
<1>1. ReplayInv => NoDuplicateRows
  BY DEF ReplayInv
<1> QED
  BY <1>1, ReplayInvariant, PTL

----------------------------------------------------------------------------
(* A settled window is current. *)

(* What the stores hold is a prefix of the broadcasts.                       *)
RowsArePrefix(c) == \A s \in Seqs : s <= mark[c] => rows[c][s] = 1

(* No frame overtakes one the window still lacks.                            *)
WireGapless(c) ==
    \A i \in 1..Len(toClient[c]) : \A s \in Seqs :
        (mark[c] < s /\ s < toClient[c][i]) => \E j \in 1..(i - 1) : toClient[c][j] = s

(* After the replay, what the window lacks is on the wire.                   *)
WireComplete(c) ==
    (conn[c] = "open" /\ request[c] = NoMark) =>
        \A s \in Seqs : (mark[c] < s /\ s < nextSeq)
                          => \E i \in 1..Len(toClient[c]) : toClient[c][i] = s

(* A request never skips a payload, and is not left out unless a connection  *)
(* was lost before the first payload.                                        *)
AsksEnough(c) ==
    /\ request[c] # NoMark => request[c] <= mark[c] + 1
    /\ (known[c] = boot /\ conn[c] # "open" /\ mark[c] = NoMark) => first[c]

Current(c) ==
    /\ known[c] = -1 => first[c]
    /\ excuse[c] = {} => /\ RowsArePrefix(c) /\ WireGapless(c)
                         /\ WireComplete(c) /\ AsksEnough(c)

CurrentInv == \A c \in Clients : Current(c)

LEMMA CurrentInit == ASSUME Init PROVE CurrentInv
<1> SUFFICES ASSUME NEW c \in Clients PROVE Current(c)
  BY DEF CurrentInv
<1>1. /\ mark[c] = -1 /\ toClient[c] = <<>> /\ first[c]
      /\ request[c] = NoMark /\ conn[c] = "down"
  BY DEF Init, NoMark
<1>2. RowsArePrefix(c)
  BY <1>1 DEF RowsArePrefix, Seqs
<1>3. WireGapless(c)
  BY <1>1 DEF WireGapless
<1>4. WireComplete(c) /\ AsksEnough(c)
  BY <1>1 DEF WireComplete, AsksEnough
<1> QED
  BY <1>1, <1>2, <1>3, <1>4 DEF Current

(* A window whose own state does not change stays current within a boot. *)
LEMMA CurrentElsewhere ==
    ASSUME NEW d \in Clients, Current(d), UNCHANGED <<boot, nextSeq>>,
           UNCHANGED <<conn[d], known[d], mark[d], first[d], toClient[d],
                       request[d], rows[d], excuse[d]>>
    PROVE  Current(d)'
BY DEF Current, RowsArePrefix, WireGapless, WireComplete, AsksEnough

(* A window between two connections has nothing on the wire. *)
LEMMA CurrentOffline ==
    ASSUME NEW d \in Clients, Current(d), conn'[d] # "open", toClient'[d] = <<>>,
           request'[d] = NoMark, known'[d] = -1 => first'[d],
           excuse'[d] = {} =>
             /\ \A s \in Seqs : s <= mark'[d] => rows'[d][s] = 1
             /\ (known'[d] = boot' /\ mark'[d] = NoMark) => first'[d]
    PROVE  Current(d)'
BY DEF Current, RowsArePrefix, WireGapless, WireComplete, AsksEnough

(* A broadcast reaches a window whose replay is answered behind all it lacks, *)
(* and a window that still handshakes only when it lacks nothing.            *)
LEMMA BroadcastCurrent == ASSUME ReplayInv, CurrentInv, Broadcast PROVE CurrentInv'
<1> SUFFICES ASSUME NEW c \in Clients PROVE Current(c)'
  BY DEF CurrentInv
<1>0. TypeOK /\ Current(c) /\ nextSeq \in Seqs /\ nextSeq \in Nat
  BY ReplayAssumption, SMTT(20) DEF ReplayInv, CurrentInv, Broadcast, TypeOK, Seqs
<1>1. /\ nextSeq' = nextSeq + 1
      /\ UNCHANGED <<boot, conn, known, mark, first, request, rows>>
      /\ mark[c] \in Int /\ toClient[c] \in Seq(Seqs)
  BY <1>0, WindowTypes DEF Broadcast, window
<1>2. excuse'[c] = {} => excuse[c] = {} /\ ~(Handshaking(c) /\ mark[c] < nextSeq - 1)
  BY DEF Broadcast
<1>3. CASE ~Live(c)
  <2>1. toClient'[c] = toClient[c] /\ conn[c] # "open"
    BY <1>3 DEF Broadcast, Live
  <2> QED
    BY <1>0, <1>1, <1>2, <2>1 DEF Current, RowsArePrefix, WireGapless,
       WireComplete, AsksEnough
<1>4. CASE Live(c)
  <2> DEFINE q == toClient[c]
             r == Append(q, nextSeq)
  <2>1. toClient'[c] = r
    BY <1>4 DEF Broadcast
  <2>2. /\ Len(q) \in Nat /\ Len(r) = Len(q) + 1 /\ r[Len(q) + 1] = nextSeq
        /\ \A i \in 1..Len(q) : r[i] = q[i]
    BY <1>0, <1>1
  <2> HIDE DEF r
  <2>3. ASSUME excuse'[c] = {}
        PROVE  RowsArePrefix(c)' /\ WireGapless(c)' /\ WireComplete(c)' /\ AsksEnough(c)'
    <3>1. /\ RowsArePrefix(c) /\ WireGapless(c) /\ WireComplete(c) /\ AsksEnough(c)
          /\ ~(Handshaking(c) /\ mark[c] < nextSeq - 1)
      BY <1>0, <1>2, <2>3 DEF Current
    <3>2. \A s \in Seqs : (mark[c] < s /\ s < nextSeq) => \E j \in 1..Len(q) : q[j] = s
      <4>1. CASE Handshaking(c)
        BY <1>0, <1>1, <3>1, <4>1 DEF Seqs
      <4>2. CASE ~Handshaking(c)
        BY <1>4, <3>1, <4>2 DEF Handshaking, Live, WireComplete
      <4> QED
        BY <4>1, <4>2
    <3>3. WireGapless(c)'
      <4> SUFFICES ASSUME NEW i \in 1..Len(r), NEW s \in Seqs, mark[c] < s, s < r[i]
                   PROVE  \E j \in 1..(i - 1) : r[j] = s
        BY <1>1, <2>1 DEF WireGapless
      <4>1. CASE i \in 1..Len(q)
        <5>1. PICK j \in 1..(i - 1) : q[j] = s
          BY <2>2, <3>1, <4>1 DEF WireGapless
        <5> QED
          BY <2>2, <4>1, <5>1
      <4>2. CASE i = Len(q) + 1
        <5>1. PICK j \in 1..Len(q) : q[j] = s
          BY <2>2, <3>2, <4>2
        <5> QED
          BY <2>2, <4>2, <5>1
      <4> QED
        BY <2>2, <4>1, <4>2
    <3>4. WireComplete(c)'
      <4> SUFFICES ASSUME NEW s \in Seqs, mark[c] < s, s < nextSeq + 1
                   PROVE  \E i \in 1..Len(r) : r[i] = s
        BY <1>1, <2>1 DEF WireComplete
      <4>1. CASE s = nextSeq
        BY <2>2, <4>1
      <4>2. CASE s < nextSeq
        <5>1. PICK j \in 1..Len(q) : q[j] = s
          BY <3>2, <4>2
        <5> QED
          BY <2>2, <5>1, SMTT(20)
      <4> QED
        BY <1>0, <4>1, <4>2 DEF Seqs
    <3> QED
      BY <1>1, <3>1, <3>3, <3>4 DEF RowsArePrefix, AsksEnough
  <2> QED
    BY <1>0, <1>1, <2>3 DEF Current
<1> QED
  BY <1>3, <1>4

LEMMA RestartCurrent == ASSUME ReplayInv, CurrentInv, Restart PROVE CurrentInv'
<1> SUFFICES ASSUME NEW c \in Clients PROVE Current(c)'
  BY DEF CurrentInv
<1>1. /\ TypeOK /\ Bounded(c) /\ Current(c) /\ boot \in Int /\ known[c] \in Int
  BY WindowTypes DEF ReplayInv, CurrentInv
<1>2. /\ boot' = boot + 1 /\ conn'[c] # "open" /\ toClient'[c] = <<>>
      /\ request'[c] = NoMark /\ UNCHANGED <<known, mark, first, rows, excuse>>
  BY DEF Restart, Live, window
<1>3. known'[c] # boot'
  BY <1>1, <1>2 DEF Bounded
<1> QED
  BY <1>1, <1>2, <1>3, CurrentOffline DEF Current, RowsArePrefix

(* A replay fills the wire from at or below the first payload the window     *)
(* lacks to the last broadcast; one that is refused is excused.              *)
LEMMA ReplayCurrent ==
    ASSUME ReplayInv, CurrentInv, NEW c \in Clients, Replay(c) PROVE CurrentInv'
<1> SUFFICES ASSUME NEW d \in Clients PROVE Current(d)'
  BY DEF CurrentInv
<1>0. TypeOK /\ Current(d) /\ Current(c)
  BY DEF ReplayInv, CurrentInv
<1>1. UNCHANGED <<boot, nextSeq, conn, known, mark, first, rows>>
  BY DEF Replay, broker, window
<1>2. CASE d # c
  <2>1. UNCHANGED <<toClient[d], request[d], excuse[d]>>
    BY <1>0, <1>2 DEF Replay, TypeOK
  <2> QED
    BY <1>0, <1>1, <2>1, CurrentElsewhere
<1>3. CASE d = c /\ ~Answerable(request[c])
  <2>1. excuse'[d] # {}
    BY <1>0, <1>3 DEF Replay, TypeOK
  <2> QED
    BY <1>0, <1>1, <1>3, <2>1 DEF Current
<1>4. CASE d = c /\ Answerable(request[c])
  <2>1. PICK from : from = request[c]
    OBVIOUS
  <2>2. PICK n : n = nextSeq - from
    OBVIOUS
  <2>3. PICK q : q = toClient[c]
    OBVIOUS
  <2>4. PICK t : t = Retained(from)
    OBVIOUS
  <2>5. /\ from \in Nat /\ nextSeq \in 0..MaxSeq /\ nextSeq \in Nat /\ n \in Nat
        /\ mark[c] \in Int /\ q \in Seq(Seqs) /\ Len(q) \in Nat
    BY <1>0, <1>4, <2>1, <2>2, <2>3, ReplayAssumption
       DEF Answerable, TypeOK, Replay, NoMark
  <2>6. /\ t \in Seq(Seqs) /\ Len(t) = n
        /\ \A i \in 1..n : t[i] = from + i - 1
    <3>1. t \in Seq(Seqs)
      BY <1>4, <2>1, <2>4, <2>5, RetainedRange, ReplayAssumption DEF Answerable
    <3> QED
      BY <2>2, <2>4, <2>5, <3>1 DEF Retained
  <2>7. PICK r : r = q \o t
    OBVIOUS
  <2>8. /\ Len(r) = Len(q) + n
        /\ \A i \in 1..Len(q) : r[i] = q[i]
        /\ \A i \in 1..n : r[Len(q) + i] = from + i - 1
    <3>1. /\ Len(r) = Len(q) + n
          /\ \A i \in 1..Len(q) : r[i] = q[i]
      BY <2>5, <2>6, <2>7
    <3>2. ASSUME NEW i \in 1..n PROVE r[Len(q) + i] = t[i]
      <4>1. Len(q) + i \in 1..(Len(q) + Len(t)) /\ ~(Len(q) + i <= Len(q))
            /\ (Len(q) + i) - Len(q) = i
        BY <2>5, <2>6
      <4> QED
        BY <2>5, <2>6, <2>7, <4>1
    <3> QED
      BY <2>6, <3>1, <3>2
  <2>9. toClient'[c] = r /\ excuse'[c] = excuse[c] /\ request'[c] = NoMark
    BY <1>0, <1>4, <2>1, <2>3, <2>4, <2>7 DEF Replay, TypeOK
  <2>10. ASSUME excuse[c] = {}
         PROVE  RowsArePrefix(c)' /\ WireGapless(c)' /\ WireComplete(c)' /\ AsksEnough(c)'
    <3>1. RowsArePrefix(c) /\ WireGapless(c) /\ AsksEnough(c) /\ from <= mark[c] + 1
      BY <1>0, <2>1, <2>10 DEF Current, AsksEnough, Replay
    <3>2. WireGapless(c)'
      <4> SUFFICES ASSUME NEW i \in 1..Len(r), NEW s \in Seqs, mark[c] < s, s < r[i]
                   PROVE  \E j \in 1..(i - 1) : r[j] = s
        BY <1>1, <2>9 DEF WireGapless
      <4>1. CASE i \in 1..Len(q)
        <5>1. PICK j \in 1..(i - 1) : q[j] = s
          BY <2>3, <2>8, <3>1, <4>1 DEF WireGapless
        <5>2. j \in 1..Len(q)
          BY <2>5, <4>1, <5>1
        <5> QED
          BY <2>8, <5>1, <5>2
      <4>2. CASE i \notin 1..Len(q)
        <5>1. PICK k \in 1..n : i = Len(q) + k
          <6>1. i - Len(q) \in 1..n /\ i = Len(q) + (i - Len(q))
            BY <2>5, <2>8, <4>2
          <6> QED
            BY <6>1
        <5>2. s \in Int /\ from <= s /\ s < from + k - 1
          BY <2>5, <2>8, <3>1, <5>1 DEF Seqs
        <5>3. s - from + 1 \in 1..n /\ s - from + 1 < k
          BY <2>5, <5>1, <5>2
        <5>4. r[Len(q) + (s - from + 1)] = from + (s - from + 1) - 1
          BY <2>8, <5>3
        <5>5. Len(q) + (s - from + 1) \in 1..(i - 1)
          BY <2>5, <5>1, <5>2, <5>3
        <5>6. from + (s - from + 1) - 1 = s
          BY <2>5, <5>2
        <5> QED
          BY <5>4, <5>5, <5>6
      <4> QED
        BY <4>1, <4>2
    <3>3. WireComplete(c)'
      <4> SUFFICES ASSUME NEW s \in Seqs, mark[c] < s, s < nextSeq
                   PROVE  \E i \in 1..Len(r) : r[i] = s
        BY <1>1, <2>9 DEF WireComplete
      <4>1. s \in Int /\ from <= s
        BY <2>5, <3>1 DEF Seqs
      <4>2. s - from + 1 \in 1..n
        BY <2>2, <2>5, <4>1
      <4>3. r[Len(q) + (s - from + 1)] = from + (s - from + 1) - 1
        BY <2>8, <4>2
      <4>4. Len(q) + (s - from + 1) \in 1..Len(r) /\ from + (s - from + 1) - 1 = s
        BY <2>5, <2>8, <4>1, <4>2
      <4> QED
        BY <4>3, <4>4
    <3>4. RowsArePrefix(c)'
      BY <1>1, <3>1 DEF RowsArePrefix
    <3>5. AsksEnough(c)'
      BY <1>1, <2>9, <3>1 DEF AsksEnough, NoMark
    <3> QED
      BY <3>2, <3>3, <3>4, <3>5
  <2> QED
    BY <1>0, <1>1, <1>4, <2>9, <2>10 DEF Current
<1> QED
  BY <1>2, <1>3, <1>4

(* The first frame on the wire is at most one above the watermark, so it     *)
(* extends the prefix in the stores or repeats it.                           *)
LEMMA ReceiveCurrent ==
    ASSUME ReplayInv, CurrentInv, NEW c \in Clients, Receive(c) PROVE CurrentInv'
<1> SUFFICES ASSUME NEW d \in Clients PROVE Current(d)'
  BY DEF CurrentInv
<1>0. TypeOK /\ Current(d) /\ Current(c)
  BY DEF ReplayInv, CurrentInv
<1>1. UNCHANGED <<boot, nextSeq, conn, known, first, request, excuse>>
  BY DEF Receive, broker
<1>2. CASE d # c
  <2>1. UNCHANGED <<toClient[d], mark[d], rows[d]>>
    BY <1>0, <1>2 DEF Receive, TypeOK
  <2> QED
    BY <1>0, <1>1, <2>1, CurrentElsewhere
<1>3. CASE d = c
  <2>1. PICK q : q = toClient[c]
    OBVIOUS
  <2>2. PICK h : h = Head(q)
    OBVIOUS
  <2>3. PICK r : r = Tail(q)
    OBVIOUS
  <2>4. /\ q \in Seq(Seqs) /\ q # <<>> /\ toClient'[c] = r
        /\ conn[c] = "open" /\ mark[c] \in Int /\ rows[c] \in [Seqs -> Nat]
    BY <1>0, <2>1, <2>3, WindowTypes DEF Receive, TypeOK
  <2>5. /\ Len(q) \in Nat /\ 1 <= Len(q) /\ Len(r) = Len(q) - 1 /\ h = q[1] /\ h \in Seqs
        /\ \A i \in 1..Len(r) : r[i] = q[i + 1]
    BY <2>2, <2>3, <2>4
  <2>6. h \in Nat /\ \A s \in Seqs : s \in Int
    BY <2>5 DEF Seqs
  <2>7. /\ mark'[c] \in Int /\ mark[c] <= mark'[c] /\ h <= mark'[c]
        /\ mark'[c] \in {mark[c], h}
        /\ mark'[c] = mark[c] => rows'[c] = rows[c]
        /\ mark'[c] # mark[c] =>
             rows'[c][h] = rows[c][h] + 1 /\ \A s \in Seqs \ {h} : rows'[c][s] = rows[c][s]
    <3>1. CASE Duplicate(c, h)
      <4>1. mark' = mark /\ rows' = rows
        BY <2>1, <2>2, <3>1 DEF Receive
      <4> QED
        BY <2>4, <2>6, <3>1, <4>1 DEF Duplicate
    <3>2. CASE ~Duplicate(c, h)
      <4>1. mark[c] < h
        BY <1>0, <2>4, <2>6, <3>2 DEF Duplicate, NoMark
      <4>2. mark' = [mark EXCEPT ![c] = h] /\ rows' = [rows EXCEPT ![c][h] = @ + 1]
        BY <2>1, <2>2, <3>2 DEF Receive
      <4>3. mark'[c] = h /\ rows'[c] = [rows[c] EXCEPT ![h] = rows[c][h] + 1]
        BY <1>0, <2>5, <4>2 DEF TypeOK
      <4> QED
        BY <2>4, <2>5, <2>6, <4>1, <4>3
    <3> QED
      BY <3>1, <3>2
  <2>8. ASSUME excuse[c] = {}
        PROVE  RowsArePrefix(c)' /\ WireGapless(c)' /\ WireComplete(c)' /\ AsksEnough(c)'
    <3>1. RowsArePrefix(c) /\ WireGapless(c) /\ WireComplete(c) /\ AsksEnough(c)
      BY <1>0, <2>8 DEF Current
    <3>2. \A s \in Seqs : ~(mark[c] < s /\ s < h)
      <4> SUFFICES ASSUME NEW s \in Seqs, mark[c] < s, s < h PROVE FALSE
        OBVIOUS
      <4>1. \E j \in 1..(1 - 1) : q[j] = s
        BY <2>1, <2>5, <3>1 DEF WireGapless
      <4> QED
        BY <4>1
    <3>3. RowsArePrefix(c)'
      <4> SUFFICES ASSUME NEW s \in Seqs, s <= mark'[c] PROVE rows'[c][s] = 1
        BY DEF RowsArePrefix
      <4>1. CASE mark'[c] = mark[c]
        BY <2>7, <3>1, <4>1 DEF RowsArePrefix
      <4>2. CASE mark'[c] # mark[c] /\ s # h
        <5>1. s <= mark[c]
          <6>1. s \in Int /\ s <= h
            BY <2>6, <2>7, <4>2
          <6>2. s < h
            BY <2>6, <4>2, <6>1
          <6>3. ~(mark[c] < s)
            BY <3>2, <6>2
          <6> QED
            BY <2>4, <6>1, <6>3
        <5> QED
          BY <2>7, <3>1, <4>2, <5>1 DEF RowsArePrefix
      <4>3. CASE mark'[c] # mark[c] /\ s = h
        <5>1. ~(h <= mark[c]) /\ rows[c][h] \in Nat
          BY <2>4, <2>5, <2>6, <2>7, <4>3
        <5>2. rows[c][h] > 0 => h <= mark[c]
          BY <2>5 DEF ReplayInv, RowsBelowMark
        <5>3. rows[c][h] = 0
          BY <5>1, <5>2
        <5> QED
          BY <2>7, <4>3, <5>3
      <4> QED
        BY <4>1, <4>2, <4>3
    <3>4. WireGapless(c)'
      <4> SUFFICES ASSUME NEW i \in 1..Len(r), NEW s \in Seqs, mark'[c] < s, s < r[i]
                   PROVE  \E j \in 1..(i - 1) : r[j] = s
        BY <2>4 DEF WireGapless
      <4>1. mark[c] < s /\ h < s
        BY <2>4, <2>6, <2>7
      <4>2. i + 1 \in 1..Len(q) /\ s < q[i + 1]
        BY <2>5
      <4>3. PICK j \in 1..((i + 1) - 1) : q[j] = s
        BY <2>1, <3>1, <4>1, <4>2 DEF WireGapless
      <4>4. j # 1
        BY <2>5, <2>6, <4>1, <4>3
      <4>5. j - 1 \in 1..(i - 1) /\ j - 1 \in 1..Len(r) /\ (j - 1) + 1 = j
        BY <2>5, <4>3, <4>4
      <4> QED
        BY <2>5, <4>3, <4>5
    <3>5. WireComplete(c)'
      <4> SUFFICES ASSUME request[c] = NoMark, NEW s \in Seqs, mark'[c] < s, s < nextSeq
                   PROVE  \E i \in 1..Len(r) : r[i] = s
        BY <1>1, <2>4 DEF WireComplete
      <4>1. mark[c] < s /\ h < s
        BY <2>4, <2>6, <2>7
      <4>2. PICK j \in 1..Len(q) : q[j] = s
        BY <2>1, <2>4, <3>1, <4>1 DEF WireComplete
      <4>3. j # 1
        BY <2>5, <2>6, <4>1, <4>2
      <4>4. j - 1 \in 1..Len(r) /\ (j - 1) + 1 = j
        BY <2>5, <4>2, <4>3
      <4> QED
        BY <2>5, <4>2, <4>4
    <3>6. AsksEnough(c)'
      <4>1. request[c] # NoMark => request[c] <= mark'[c] + 1
        <5>1. request[c] \in Int /\ (request[c] # NoMark => request[c] <= mark[c] + 1)
          BY <1>0, <3>1, WindowTypes DEF AsksEnough
        <5> QED
          BY <2>4, <2>7, <5>1
      <4> QED
        BY <1>1, <2>4, <4>1 DEF AsksEnough
    <3> QED
      BY <3>3, <3>4, <3>5, <3>6
  <2> QED
    BY <1>0, <1>1, <1>3, <2>8 DEF Current
<1> QED
  BY <1>2, <1>3

(* Connecting and losing a connection: a request asks for all the window     *)
(* lacks, and a window that will not ask any more is excused.                *)
LEMMA ConnectionCurrent ==
    ASSUME ReplayInv, CurrentInv, NEW c \in Clients,
           Discover(c) \/ Accept(c) \/ ConnectFail(c) \/ Open(c) \/ Drop(c)
    PROVE  CurrentInv'
<1> SUFFICES ASSUME NEW d \in Clients PROVE Current(d)'
  BY DEF CurrentInv
<1> USE DEF broker, window
<1>0. TypeOK /\ Current(d) /\ Current(c) /\ Bounded(c)
  BY DEF ReplayInv, CurrentInv
<1>1. CASE d # c
  <2>1. /\ UNCHANGED <<boot, nextSeq>>
        /\ UNCHANGED <<conn[d], known[d], mark[d], first[d], toClient[d],
                       request[d], rows[d], excuse[d]>>
    BY <1>0, <1>1 DEF TypeOK, Discover, Accept, ConnectFail, Open, Drop
  <2> QED
    BY <1>0, <2>1, CurrentElsewhere
<1>2. CASE d = c /\ Discover(c)
  <2>1. /\ conn[c] = "down" /\ conn'[c] = "connecting" /\ known'[c] = boot
        /\ boot' = boot /\ boot \in Nat
        /\ toClient'[c] = toClient[c] /\ request'[c] = request[c]
    BY <1>0, <1>2, ReplayAssumption DEF Discover, TypeOK
  <2>2. toClient[c] = <<>> /\ request[c] = NoMark
    BY <1>0, <2>1 DEF Bounded, Live
  <2>3. CASE ForgetsBoot(c)
    <3>1. mark'[c] = -1 /\ first'[c]
      BY <1>0, <1>2, <2>3 DEF Discover, TypeOK, NoMark
    <3>2. \A s \in Seqs : ~(s <= -1)
      BY DEF Seqs
    <3> QED
      BY <1>0, <1>2, <2>1, <2>2, <3>1, <3>2, CurrentOffline
  <2>4. CASE ~ForgetsBoot(c)
    <3>1. UNCHANGED <<mark[c], first[c], rows[c], excuse[c]>>
      BY <1>2, <2>4 DEF Discover
    <3>2. known[c] = -1 \/ known[c] = boot
      BY <2>4 DEF ForgetsBoot
    <3>3. excuse[c] = {} => (mark[c] = NoMark => first[c])
      BY <1>0, <2>1, <3>2 DEF Current, AsksEnough
    <3>4. known'[c] # -1
      BY <2>1
    <3> QED
      BY <1>0, <1>2, <2>1, <2>2, <3>1, <3>3, <3>4, CurrentOffline
         DEF Current, RowsArePrefix
  <2> QED
    BY <2>3, <2>4
<1>3. CASE d = c /\ (Accept(c) \/ ConnectFail(c))
  <2>1. /\ conn[c] = "connecting" /\ conn'[c] # "open"
        /\ UNCHANGED <<boot, known, mark, first, rows, toClient, request, excuse>>
    BY <1>0, <1>3 DEF Accept, ConnectFail, TypeOK
  <2>2. toClient[c] = <<>> /\ request[c] = NoMark
    BY <1>0, <2>1 DEF Bounded, Live
  <2> QED
    BY <1>0, <1>3, <2>1, <2>2, CurrentOffline DEF Current, RowsArePrefix, AsksEnough
<1>4. CASE d = c /\ Open(c)
  <2>1. /\ conn[c] = "accepted" /\ conn'[c] = "open" /\ request'[c] = ReplayPoint(c)
        /\ UNCHANGED <<boot, nextSeq, known, mark, rows, toClient, excuse>>
    BY <1>0, <1>4 DEF Open, TypeOK
  <2>2. known[c] = boot /\ boot \in Nat /\ mark[c] \in -1..(MaxSeq - 1) /\ mark[c] \in Int
    BY <1>0, <2>1, ReplayAssumption, WindowTypes DEF Bounded, Live, TypeOK
  <2>3. ASSUME excuse[c] = {}
        PROVE  ReplayPoint(c) # NoMark /\ ReplayPoint(c) <= mark[c] + 1
    <3>1. mark[c] = NoMark => first[c]
      BY <1>0, <2>1, <2>2, <2>3 DEF Current, AsksEnough
    <3>2. CASE mark[c] = NoMark
      <4>1. ReplayPoint(c) = 0
        BY <3>1, <3>2 DEF ReplayPoint
      <4> QED
        BY <3>2, <4>1 DEF NoMark
    <3>3. CASE mark[c] # NoMark
      <4>1. ReplayPoint(c) = mark[c] + 1
        BY <3>3 DEF ReplayPoint
      <4> QED
        BY <2>2, <3>3, <4>1, ReplayAssumption DEF NoMark
    <3> QED
      BY <3>2, <3>3
  <2>4. ASSUME excuse'[c] = {}
        PROVE  RowsArePrefix(c)' /\ WireGapless(c)' /\ WireComplete(c)' /\ AsksEnough(c)'
    <3>1. excuse[c] = {} /\ RowsArePrefix(c) /\ WireGapless(c)
      BY <1>0, <2>1, <2>4 DEF Current
    <3> QED
      BY <2>1, <2>3, <3>1 DEF RowsArePrefix, WireGapless, WireComplete, AsksEnough
  <2>5. known'[c] # -1
    BY <2>1, <2>2
  <2> QED
    BY <1>4, <2>4, <2>5 DEF Current
<1>5. CASE d = c /\ Drop(c)
  <2>1. /\ conn'[c] = "down" /\ toClient'[c] = <<>> /\ request'[c] = NoMark
        /\ UNCHANGED <<boot, known, mark, first, rows>>
    BY <1>0, <1>5 DEF Drop, TypeOK
  <2>2. excuse'[c] = {} => excuse[c] = {} /\ (mark[c] = NoMark => first[c])
    BY <1>0, <1>5 DEF Drop, TypeOK
  <2> QED
    BY <1>0, <1>5, <2>1, <2>2, CurrentOffline DEF Current, RowsArePrefix
<1> QED
  BY <1>1, <1>2, <1>3, <1>4, <1>5

(* With no drop unmarked, no refusal and no payload overtaking the replay,   *)
(* the stores hold a prefix of the broadcasts, the wire the rest of what was *)
(* sent without a gap, and a request in flight asks for everything missing.  *)
THEOREM CurrentInvariant == Spec => []CurrentInv
<1>1. Init => CurrentInv
  BY CurrentInit
<1>2. ReplayInv /\ CurrentInv /\ [Next]_vars => CurrentInv'
  <2> SUFFICES ASSUME ReplayInv, CurrentInv, [Next]_vars PROVE CurrentInv'
    OBVIOUS
  <2>1. CASE Broadcast
    BY <2>1, BroadcastCurrent
  <2>2. CASE Restart
    BY <2>2, RestartCurrent
  <2>3. CASE \E c \in Clients : ClientStep(c) \/ Drop(c)
    BY <2>3, ReplayCurrent, ReceiveCurrent, ConnectionCurrent DEF ClientStep
  <2>4. CASE UNCHANGED vars
    BY <2>4, CurrentElsewhere DEF vars, broker, window, wire, CurrentInv
  <2> QED
    BY <2>1, <2>2, <2>3, <2>4 DEF Next
<1> QED
  BY <1>1, <1>2, ReplayInvariant, PTL DEF Spec

(* A window that is connected, answered and has nothing on the wire shows    *)
(* every payload of this boot exactly once, unless it was refused, overtaken *)
(* or dropped unmarked: sendReplayRequests, replayFrom and handleFrame leave *)
(* no fourth way to miss one.                                                *)
THEOREM SettledWindowsCurrent == Spec => []SettledIsCurrent
<1>1. ReplayInv /\ CurrentInv => SettledIsCurrent
  <2> SUFFICES ASSUME ReplayInv, CurrentInv, NEW c \in Clients, Settled(c),
                      excuse[c] = {}, NEW s \in 0..(nextSeq - 1)
               PROVE  rows[c][s] = 1
    BY DEF SettledIsCurrent, HasAll
  <2>1. /\ TypeOK /\ Current(c) /\ mark[c] \in Int /\ nextSeq \in 0..MaxSeq
        /\ conn[c] = "open" /\ request[c] = NoMark /\ toClient[c] = <<>>
    BY WindowTypes DEF ReplayInv, CurrentInv, Settled, TypeOK
  <2>2. s \in Seqs /\ s < nextSeq /\ s \in Int
    BY <2>1, ReplayAssumption DEF Seqs
  <2>3. RowsArePrefix(c) /\ WireComplete(c)
    BY <2>1 DEF Current
  <2>4. ~(mark[c] < s)
    <3>1. mark[c] < s => \E i \in 1..Len(toClient[c]) : toClient[c][i] = s
      BY <2>1, <2>2, <2>3 DEF WireComplete
    <3>2. Len(toClient[c]) = 0
      BY <2>1
    <3> QED
      BY <3>1, <3>2
  <2> QED
    BY <2>1, <2>2, <2>3, <2>4 DEF RowsArePrefix
<1> QED
  BY <1>1, ReplayInvariant, CurrentInvariant, PTL

=============================================================================
