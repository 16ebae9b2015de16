--------------------------- MODULE ApprovalsProofs ---------------------------
(* Machine-checked proofs about the approval broker, for any number of       *)
(* approvals, sessions and windows.                                          *)
EXTENDS Approvals, TLAPS

(* What the channel and the connections of the windows are; nothing in the   *)
(* fail-safe depends on more than that.                                      *)
LinkOK ==
    /\ sent \in Nat
    /\ requestedAt \in [Ids -> Nat] /\ resolvedAt \in [Ids -> Nat]
    /\ conn \in [Windows -> {"down", "joining", "open"}]
    /\ first \in [Windows -> BOOLEAN]
    /\ mark \in [Windows -> Nat] /\ from \in [Windows -> Nat]
    /\ holed \in [Windows -> BOOLEAN]
    /\ drops \in 0..MaxDrops /\ others \in 0..MaxOther

(* The rest of the state. *)
CoreOK ==
    /\ source \in [Ids -> Sources \cup {"none"}]
    /\ owner \in [Ids -> Sessions \cup {NoSession}]
    /\ status \in [Ids -> Outcomes \cup {"unasked", "pending"}]
    /\ answer \in [Ids -> Answers \cup {"none"}]
    /\ closed \in BOOLEAN
    /\ told \in [Windows -> [Ids -> {"no", "shown", "settled"}]]
    /\ deciding \in [Windows -> SUBSET Ids]
    /\ outbox \in [Windows -> SUBSET Decision]
    /\ clicked \in [Ids -> SUBSET Verdicts]

LEMMA TypeParts == /\ TypeOK <=> CoreOK /\ LinkOK
                   /\ TypeOK' <=> CoreOK' /\ LinkOK'
BY DEF TypeOK, CoreOK, LinkOK

(* Fan-out moves the channel on and may leave holes, and nothing else. *)
LEMMA BroadcastKeeps ==
    ASSUME LinkOK, UNCHANGED link,
           \/ \E a \in Ids : FanOutRequest(a)
           \/ \E S \in SUBSET Ids : FanOutResolved(S)
           \/ UNCHANGED <<channel, holed>>
    PROVE  LinkOK'
<1> USE DEF link, channel
<1>1. ASSUME NEW a \in Ids, FanOutRequest(a) PROVE LinkOK'
  <2>1. sent' = sent + 1 /\ requestedAt' = [requestedAt EXCEPT ![a] = sent + 1]
        /\ UNCHANGED <<resolvedAt, others>>
    BY <1>1 DEF FanOutRequest, Broadcast
  <2>2. holed' \in [Windows -> BOOLEAN]
    BY <1>1 DEF FanOutRequest, Broadcast, LinkOK, Overtaken
  <2> QED
    BY <2>1, <2>2 DEF LinkOK
<1>2. ASSUME NEW S \in SUBSET Ids, FanOutResolved(S) PROVE LinkOK'
  <2> DEFINE hit == {a \in S : status[a] = "pending"}
  <2>1. CASE UNCHANGED <<channel, holed>>
    BY <2>1 DEF LinkOK
  <2>2. CASE /\ Broadcast /\ UNCHANGED <<requestedAt, others>>
             /\ resolvedAt' = [a \in Ids |-> IF a \in hit THEN sent + 1 ELSE resolvedAt[a]]
    <3>1. sent' \in Nat /\ resolvedAt' \in [Ids -> Nat]
      BY <2>2 DEF Broadcast, LinkOK
    <3>2. holed' \in [Windows -> BOOLEAN]
      BY <2>2 DEF Broadcast, LinkOK, Overtaken
    <3> QED
      BY <2>2, <3>1, <3>2 DEF LinkOK
  <2> QED
    BY <1>2, <2>1, <2>2 DEF FanOutResolved
<1>3. CASE UNCHANGED <<channel, holed>>
  BY <1>3 DEF LinkOK
<1> QED
  BY <1>1, <1>2, <1>3

(* resolveEntry turns pending entries into one outcome and leaves every      *)
(* other entry alone.                                                        *)
LEMMA ResolveOnlyPending ==
    ASSUME TypeOK, NEW S, NEW o \in Outcomes, Resolve(S, o)
    PROVE  /\ status' \in [Ids -> Outcomes \cup {"unasked", "pending"}]
           /\ \A a \in Ids : status'[a] = status[a]
                             \/ (status[a] = "pending" /\ status'[a] = o /\ a \in S)
BY DEF Resolve, TypeOK

(* An expiry, an abort, a session end or a close claims no human verdict, so *)
(* the invariant survives it.                                                *)
LEMMA SilentResolveKeeps ==
    ASSUME ApprovalsInv, NEW S, NEW o \in {"expired", "superseded"}, Resolve(S, o),
           UNCHANGED <<source, owner, answer, told, deciding, clicked>>,
           closed' \in BOOLEAN, closed => closed', LinkOK',
           outbox' \in [Windows -> SUBSET Decision],
           \A w \in Windows : outbox'[w] \subseteq outbox[w]
    PROVE  ApprovalsInv'
<1>1. TypeOK /\ o \in Outcomes
  BY DEF ApprovalsInv, Outcomes
<1>2. /\ status' \in [Ids -> Outcomes \cup {"unasked", "pending"}]
      /\ \A a \in Ids : status'[a] = status[a]
                        \/ (status[a] = "pending" /\ status'[a] = o /\ a \in S)
  BY <1>1, ResolveOnlyPending
<1>3. TypeOK'
  <2>1. CoreOK'
    BY <1>1, <1>2 DEF TypeOK, CoreOK
  <2> QED
    BY <2>1, TypeParts
<1>4. \A w \in Windows : \A d \in outbox'[w] : d.verdict \in clicked'[d.id]
  BY DEF ApprovalsInv
<1>5. ASSUME NEW a \in Ids
      PROVE  /\ status'[a] = "allowed" => "allow" \in clicked'[a]
             /\ status'[a] = "denied" => "deny" \in clicked'[a]
             /\ status'[a] = "unasked" /\ ~closed' => answer'[a] = "none"
             /\ status'[a] = "pending" => answer'[a] \in {"none", "noOpinion"}
             /\ answer'[a] = "proceed" => Settled(a)' /\ Mapped(source[a], status[a])' = "proceed"
  BY <1>2 DEF ApprovalsInv, Settled, Outcomes, Mapped
<1> QED
  BY <1>3, <1>4, <1>5 DEF ApprovalsInv

(* Steps of the broker and of its waiters. *)
LEMMA BrokerKeeps ==
    ASSUME ApprovalsInv,
           \/ \E a \in Ids, k \in Sources : RequestRefused(a, k)
                 \/ \E s \in Sessions \cup {NoSession} : Request(a, k, s)
           \/ \E a \in Ids : Expire(a) \/ AbortWait(a) \/ Resume(a)
           \/ \E s \in Sessions : SessionEnded(s)
           \/ Close \/ OtherPayload
    PROVE  ApprovalsInv'
<1> USE DEF asked, inbox
<1>0. CoreOK /\ LinkOK
  BY TypeParts DEF ApprovalsInv
<1>1. ASSUME NEW a \in Ids, NEW k \in Sources, NEW s \in Sessions \cup {NoSession}, Request(a, k, s)
      PROVE  ApprovalsInv'
  <2>1. /\ source' = [source EXCEPT ![a] = k] /\ owner' = [owner EXCEPT ![a] = s]
        /\ status' = [status EXCEPT ![a] = "pending"]
        /\ answer' = [answer EXCEPT ![a] = IF k = "observe" THEN "noOpinion" ELSE answer[a]]
        /\ ~closed /\ status[a] = "unasked"
        /\ UNCHANGED <<closed, told, deciding, outbox, clicked>>
    BY <1>1 DEF Request
  <2>2. answer[a] = "none" /\ answer[a] \in Answers \cup {"none"}
    BY <2>1 DEF ApprovalsInv, TypeOK
  <2>3. TypeOK'
    <3>1. CoreOK'
      BY <1>0, <2>1, <2>2 DEF CoreOK, Answers
    <3>2. LinkOK'
      BY <1>0, <1>1, BroadcastKeeps DEF Request
    <3> QED
      BY <3>1, <3>2, TypeParts
  <2>4. ASSUME NEW b \in Ids, b # a
        PROVE  UNCHANGED <<source[b], status[b], answer[b]>>
    BY <2>1, <2>4 DEF ApprovalsInv, TypeOK
  <2>5. status'[a] = "pending" /\ answer'[a] \in {"none", "noOpinion"}
    BY <2>1, <2>2 DEF ApprovalsInv, TypeOK
  <2> QED
    BY <2>1, <2>3, <2>4, <2>5 DEF ApprovalsInv, Settled, Mapped
<1>2. ASSUME NEW a \in Ids, NEW k \in Sources, RequestRefused(a, k) PROVE ApprovalsInv'
  <2>1. TypeOK'
    <3>1. CoreOK'
      BY <1>0, <1>2 DEF CoreOK, RequestRefused, Answers
    <3>2. LinkOK'
      BY <1>0, <1>2, BroadcastKeeps DEF RequestRefused
    <3> QED
      BY <3>1, <3>2, TypeParts
  <2> QED
    BY <1>2, <2>1 DEF ApprovalsInv, TypeOK, RequestRefused, Settled, Outcomes, Mapped
<1>3. ASSUME NEW a \in Ids, Expire(a) PROVE ApprovalsInv'
  <2>1. {a} \in SUBSET Ids /\ FanOutResolved({a}) /\ UNCHANGED link
    BY <1>3 DEF Expire
  <2>2. LinkOK'
    BY <1>0, <2>1, BroadcastKeeps
  <2> QED
    BY <1>3, <2>2, SilentResolveKeeps DEF Expire, ApprovalsInv, TypeOK
<1>4. ASSUME NEW a \in Ids, AbortWait(a) PROVE ApprovalsInv'
  <2>1. {a} \in SUBSET Ids /\ FanOutResolved({a}) /\ UNCHANGED link
    BY <1>4 DEF AbortWait
  <2>2. LinkOK'
    BY <1>0, <2>1, BroadcastKeeps
  <2> QED
    BY <1>4, <2>2, SilentResolveKeeps DEF AbortWait, ApprovalsInv, TypeOK
<1>5. ASSUME NEW a \in Ids, Resume(a) PROVE ApprovalsInv'
  <2>1. Mapped(source[a], status[a]) \in Answers
    BY DEF Mapped, Answers
  <2>2. TypeOK'
    <3>1. CoreOK'
      BY <1>0, <1>5, <2>1 DEF CoreOK, Resume
    <3>2. LinkOK'
      BY <1>0, <1>5, BroadcastKeeps DEF Resume
    <3> QED
      BY <3>1, <3>2, TypeParts
  <2> QED
    BY <1>5, <2>2 DEF ApprovalsInv, TypeOK, Resume, Settled, Outcomes
<1>6. ASSUME NEW s \in Sessions, SessionEnded(s) PROVE ApprovalsInv'
  <2>1. OwnedBy(s) \in SUBSET Ids /\ FanOutResolved(OwnedBy(s)) /\ UNCHANGED link
    BY <1>6 DEF SessionEnded, OwnedBy
  <2>2. LinkOK'
    BY <1>0, <2>1, BroadcastKeeps
  <2> QED
    BY <1>6, <2>2, SilentResolveKeeps DEF SessionEnded, ApprovalsInv, TypeOK
<1>7. CASE Close
  <2>1. outbox' \in [Windows -> SUBSET Decision]
        /\ \A w \in Windows : outbox'[w] \subseteq outbox[w]
    BY <1>7 DEF Close
  <2>2. LinkOK'
    BY <1>0, <1>7 DEF Close, channel, LinkOK
  <2> QED
    BY <1>7, <2>1, <2>2, SilentResolveKeeps DEF Close, ApprovalsInv, TypeOK
<1>8. CASE OtherPayload
  <2>1. LinkOK'
    <3>1. sent' = sent + 1 /\ others' = others + 1 /\ others < MaxOther
          /\ UNCHANGED <<requestedAt, resolvedAt, conn, first, mark, from, drops>>
      BY <1>8 DEF OtherPayload, Broadcast, link
    <3>2. others' \in 0..MaxOther /\ sent' \in Nat
      BY <1>0, <3>1, ApprovalsAssumption DEF LinkOK
    <3>3. holed' \in [Windows -> BOOLEAN]
      BY <1>0, <1>8 DEF OtherPayload, Broadcast, LinkOK, Overtaken
    <3> QED
      BY <1>0, <3>1, <3>2, <3>3 DEF LinkOK
  <2>2. UNCHANGED <<source, owner, status, answer, closed, told, deciding, outbox, clicked>>
    BY <1>8 DEF OtherPayload
  <2>3. TypeOK'
    BY <1>0, <2>1, <2>2, TypeParts DEF CoreOK
  <2> QED
    BY <2>2, <2>3 DEF ApprovalsInv, Settled, Mapped
<1> QED
  BY <1>1, <1>2, <1>3, <1>4, <1>5, <1>6, <1>7, <1>8

(* A decision that reached the broker was clicked, so the outcome it sets    *)
(* is a human's.                                                             *)
LEMMA DecideKeeps ==
    ASSUME ApprovalsInv, NEW w \in Windows, NEW d \in outbox[w], Decide(w, d)
    PROVE  ApprovalsInv'
<1>1. TypeOK /\ d \in Decision /\ OutcomeOf(d.verdict) \in Outcomes
  BY DEF ApprovalsInv, TypeOK, OutcomeOf, Outcomes
<1>2. /\ status' \in [Ids -> Outcomes \cup {"unasked", "pending"}]
      /\ \A a \in Ids : status'[a] = status[a]
            \/ (status[a] = "pending" /\ status'[a] = OutcomeOf(d.verdict) /\ a = d.id)
  BY <1>1, ResolveOnlyPending DEF Decide
<1>3. d.verdict \in clicked[d.id] /\ d.verdict \in Verdicts
  BY <1>1 DEF ApprovalsInv, Decision
<1>4. UNCHANGED <<source, owner, answer, closed, told, deciding, clicked>>
      /\ outbox' = [outbox EXCEPT ![w] = @ \ {d}]
  BY DEF Decide, asked
<1>5. TypeOK'
  <2>1. CoreOK /\ LinkOK
    BY <1>1, TypeParts
  <2>2. CoreOK'
    BY <1>2, <1>4, <2>1 DEF CoreOK
  <2>3. {d.id} \in SUBSET Ids /\ FanOutResolved({d.id}) /\ UNCHANGED link
    BY <1>1 DEF Decide, Decision
  <2>4. LinkOK'
    BY <2>1, <2>3, BroadcastKeeps
  <2> QED
    BY <2>2, <2>4, TypeParts
<1>6. \A v \in Windows : \A e \in outbox'[v] : e.verdict \in clicked'[e.id]
  BY <1>1, <1>4 DEF ApprovalsInv, TypeOK
<1>7. ASSUME NEW a \in Ids
      PROVE  /\ status'[a] = "allowed" => "allow" \in clicked'[a]
             /\ status'[a] = "denied" => "deny" \in clicked'[a]
             /\ status'[a] = "unasked" /\ ~closed' => answer'[a] = "none"
             /\ status'[a] = "pending" => answer'[a] \in {"none", "noOpinion"}
             /\ answer'[a] = "proceed" => Settled(a)' /\ Mapped(source[a], status[a])' = "proceed"
  <2>1. CASE status'[a] = status[a]
    BY <1>4, <2>1 DEF ApprovalsInv, Settled, Mapped
  <2>2. CASE status[a] = "pending" /\ status'[a] = OutcomeOf(d.verdict) /\ a = d.id
    BY <1>3, <1>4, <2>2 DEF ApprovalsInv, Settled, Mapped, OutcomeOf, Verdicts, Outcomes
  <2> QED
    BY <1>2, <2>1, <2>2
<1> QED
  BY <1>5, <1>6, <1>7 DEF ApprovalsInv

(* A window changes no entry; a click only adds a verdict to what was        *)
(* clicked before it reaches the wire.                                       *)
LEMMA WindowKeeps ==
    ASSUME ApprovalsInv, NEW w \in Windows,
           \/ Reconnect(w) \/ Replayed(w) \/ Receive(w) \/ Disconnect(w)
           \/ \E a \in Ids, v \in Verdicts : Click(w, a, v)
    PROVE  ApprovalsInv'
<1> USE DEF asked, channel, inbox
<1>0. CoreOK /\ LinkOK
  BY TypeParts DEF ApprovalsInv
<1>1. CASE Receive(w)
  <2>1. UNCHANGED <<source, owner, status, answer, closed, outbox, clicked>>
    BY <1>1 DEF Receive
  <2>2. told' \in [Windows -> [Ids -> {"no", "shown", "settled"}]]
    <3>1. told \in [Windows -> [Ids -> {"no", "shown", "settled"}]]
      BY <1>0 DEF CoreOK
    <3>2. PICK f \in [Ids -> {"no", "shown", "settled"}] : told' = [told EXCEPT ![w] = f]
      <4> DEFINE f == [a \in Ids |->
                         IF resolvedAt[a] = Upcoming(w) THEN "settled"
                         ELSE IF requestedAt[a] = Upcoming(w) THEN "shown" ELSE told[w][a]]
      <4>1. f \in [Ids -> {"no", "shown", "settled"}]
        BY <3>1
      <4>2. told' = [told EXCEPT ![w] = f]
        BY <1>1 DEF Receive
      <4> QED
        BY <4>1, <4>2
    <3> QED
      BY <3>1, <3>2
  <2>3. deciding' \in [Windows -> SUBSET Ids]
    <3>1. deciding \in [Windows -> SUBSET Ids]
      BY <1>0 DEF CoreOK
    <3>2. Undecided(w, Upcoming(w)) \in SUBSET Ids
      BY <3>1 DEF Undecided
    <3> QED
      BY <1>1, <3>1, <3>2 DEF Receive
  <2>4. Upcoming(w) \in Nat
    BY <1>0 DEF LinkOK, Upcoming
  <2>5. LinkOK'
    BY <1>0, <1>1, <2>4 DEF Receive, LinkOK
  <2>6. TypeOK'
    BY <1>0, <2>1, <2>2, <2>3, <2>5, TypeParts DEF CoreOK
  <2> QED
    BY <2>1, <2>6 DEF ApprovalsInv, Settled, Mapped
<1>2. ASSUME NEW a \in Ids, NEW v \in Verdicts, Click(w, a, v) PROVE ApprovalsInv'
  <2> DEFINE d == [id |-> a, verdict |-> v]
  <2>1. d \in Decision /\ d.id = a /\ d.verdict = v
    BY DEF Decision
  <2>2. UNCHANGED <<source, owner, status, answer, closed, told, channel, link, holed>>
    BY <1>2 DEF Click
  <2>3. clicked' = [clicked EXCEPT ![a] = @ \cup {v}] /\ deciding' = [deciding EXCEPT ![w] = @ \cup {a}]
    BY <1>2 DEF Click
  <2>4. \/ outbox' = [outbox EXCEPT ![w] = @ \cup {d}]
        \/ UNCHANGED outbox
    BY <1>2 DEF Click
  <2> HIDE DEF d
  <2>5. TypeOK'
    <3>1. clicked' \in [Ids -> SUBSET Verdicts] /\ deciding' \in [Windows -> SUBSET Ids]
      BY <1>0, <2>3 DEF CoreOK
    <3>2. outbox' \in [Windows -> SUBSET Decision]
      <4>1. outbox \in [Windows -> SUBSET Decision]
        BY <1>0 DEF CoreOK
      <4> QED
        BY <2>1, <2>4, <4>1
    <3> QED
      <4>1. CoreOK'
        BY <1>0, <2>2, <3>1, <3>2 DEF CoreOK
      <4>2. LinkOK'
        BY <1>0, <2>2 DEF LinkOK, link
      <4> QED
        BY <4>1, <4>2, TypeParts
  <2>6. \A b \in Ids : clicked[b] \subseteq clicked'[b]
    BY <2>3 DEF ApprovalsInv, TypeOK
  <2>7. v \in clicked'[a]
    BY <2>3 DEF ApprovalsInv, TypeOK
  <2>8. ASSUME NEW u \in Windows, NEW e \in outbox'[u] PROVE e.verdict \in clicked'[e.id]
    <3>0. outbox \in [Windows -> SUBSET Decision]
      BY DEF ApprovalsInv, TypeOK
    <3>1. e \in outbox[u] \/ e = d
      BY <2>4, <3>0
    <3>2. CASE e \in outbox[u]
      <4>1. e \in Decision /\ e.verdict \in clicked[e.id]
        BY <3>2 DEF ApprovalsInv, TypeOK
      <4>2. e.id \in Ids
        BY <4>1 DEF Decision
      <4> QED
        BY <2>6, <4>1, <4>2
    <3>3. CASE e = d
      BY <2>1, <2>7, <3>3
    <3> QED
      BY <3>1, <3>2, <3>3
  <2> QED
    BY <2>2, <2>5, <2>6, <2>8 DEF ApprovalsInv, Settled, Mapped
<1>3. CASE Disconnect(w)
  <2>1. LinkOK'
    <3>1. drops' \in 0..MaxDrops
      BY <1>0, <1>3, ApprovalsAssumption DEF LinkOK, Disconnect
    <3>2. first' \in [Windows -> BOOLEAN]
      BY <1>0, <1>3 DEF LinkOK, Disconnect
    <3>3. holed' = [holed EXCEPT ![w] = holed[w] \/ (mark[w] = 0 /\ ~first'[w])]
      BY <1>3 DEF Disconnect
    <3>4. holed' \in [Windows -> BOOLEAN]
      BY <1>0, <3>2, <3>3 DEF LinkOK
    <3>5. conn' = [conn EXCEPT ![w] = "down"] /\ from' = [from EXCEPT ![w] = 0]
          /\ UNCHANGED <<sent, requestedAt, resolvedAt, others, mark>>
      BY <1>3 DEF Disconnect
    <3> QED
      BY <1>0, <3>1, <3>2, <3>4, <3>5 DEF LinkOK
  <2>2. UNCHANGED <<source, owner, status, answer, closed, told, deciding, clicked>>
        /\ outbox' = [outbox EXCEPT ![w] = {}]
    BY <1>3 DEF Disconnect
  <2>3. TypeOK'
    BY <1>0, <2>1, <2>2, TypeParts DEF CoreOK
  <2> QED
    BY <2>2, <2>3 DEF ApprovalsInv, TypeOK, Settled, Mapped
<1>4. CASE Reconnect(w) \/ Replayed(w)
  <2>1. UNCHANGED <<source, owner, status, answer, closed, told, deciding, outbox, clicked>>
    BY <1>4 DEF Reconnect, Replayed
  <2>2. LinkOK'
    <3>1. CASE Reconnect(w)
      BY <1>0, <3>1 DEF Reconnect, LinkOK
    <3>2. CASE Replayed(w)
      <4>1. holed' \in [Windows -> BOOLEAN]
        BY <1>0, <3>2 DEF Replayed, LinkOK, Asks, Answerable
      <4>2. from' \in [Windows -> Nat]
        BY <1>0, <3>2 DEF Replayed, LinkOK
      <4> QED
        BY <1>0, <3>2, <4>1, <4>2 DEF Replayed, LinkOK
    <3> QED
      BY <1>4, <3>1, <3>2
  <2>3. TypeOK'
    BY <1>0, <2>1, <2>2, TypeParts DEF CoreOK
  <2> QED
    BY <2>1, <2>3 DEF ApprovalsInv, Settled, Mapped
<1> QED
  BY <1>1, <1>2, <1>3, <1>4

(* ApprovalsInv is an invariant of the broker with any number of windows. *)
THEOREM ApprovalsInvariant == Spec => []ApprovalsInv
<1>1. Init => ApprovalsInv
  <2> SUFFICES ASSUME Init PROVE ApprovalsInv
    OBVIOUS
  <2>1. drops \in 0..MaxDrops /\ others \in 0..MaxOther
    BY ApprovalsAssumption DEF Init
  <2>2. TypeOK
    <3>1. CoreOK
      BY DEF Init, CoreOK
    <3>2. LinkOK
      BY <2>1 DEF Init, LinkOK
    <3> QED
      BY <3>1, <3>2, TypeParts
  <2> QED
    BY <2>2 DEF Init, ApprovalsInv, Settled, Outcomes
<1>2. ApprovalsInv /\ [Next]_vars => ApprovalsInv'
  <2> SUFFICES ASSUME ApprovalsInv, [Next]_vars PROVE ApprovalsInv'
    OBVIOUS
  <2>1. CASE UNCHANGED vars
    BY <2>1 DEF vars, asked, channel, link, inbox, ApprovalsInv, TypeOK, Settled, Mapped
  <2>2. CASE \E w \in Windows : Deliver(w) \/ Disconnect(w) \/ Reconnect(w)
    BY <2>2, DecideKeeps, WindowKeeps DEF Deliver
  <2>3. CASE \E w \in Windows, a \in Ids, v \in Verdicts : Click(w, a, v)
    BY <2>3, WindowKeeps
  <2> QED
    BY <2>1, <2>2, <2>3, BrokerKeeps DEF Next
<1> QED
  BY <1>1, <1>2, PTL DEF Spec

(* The fail-safe of createCanUseToolBridge, relayPermissionRequest and       *)
(* runGate: nothing proceeds that no human allowed.                          *)
THEOREM HumanInTheLoop == Spec => []ProceedsByHuman
<1>1. ApprovalsInv => ProceedsByHuman
  BY DEF ApprovalsInv, ProceedsByHuman, Mapped
<1> QED
  BY <1>1, ApprovalsInvariant, PTL

(* resolveEntry runs once per approval: a settled outcome and a given answer *)
(* never change, whoever else decides, expires, aborts or ends.              *)
THEOREM FirstOutcomeWins == Spec => OutcomeFinal
<1>1. ApprovalsInv /\ [Next]_vars =>
        [\A a \in Ids : /\ Settled(a) => status'[a] = status[a]
                        /\ answer[a] # "none" => answer'[a] = answer[a]]_vars
  <2> SUFFICES ASSUME ApprovalsInv, Next, NEW a \in Ids
               PROVE  /\ Settled(a) => status'[a] = status[a]
                      /\ answer[a] # "none" => answer'[a] = answer[a]
    BY DEF vars
  <2> USE DEF asked, channel, inbox, Settled, Outcomes
  <2>1. CASE \E b \in Ids, k \in Sources : RequestRefused(b, k)
               \/ \E s \in Sessions \cup {NoSession} : Request(b, k, s)
    BY <2>1 DEF ApprovalsInv, TypeOK, RequestRefused, Request
  <2>2. CASE \E b \in Ids : Expire(b) \/ AbortWait(b) \/ Resume(b)
    BY <2>2 DEF ApprovalsInv, TypeOK, Expire, AbortWait, Resume, Resolve
  <2>3. CASE (\E s \in Sessions : SessionEnded(s)) \/ Close \/ OtherPayload
    BY <2>3 DEF OtherPayload, SessionEnded, Close, Resolve
  <2>4. CASE \E w \in Windows : Deliver(w) \/ Disconnect(w) \/ Reconnect(w)
    BY <2>4 DEF Deliver, Decide, Replayed, Receive, Disconnect, Reconnect, Resolve
  <2>5. CASE \E w \in Windows, b \in Ids, v \in Verdicts : Click(w, b, v)
    BY <2>5 DEF Click
  <2> QED
    BY <2>1, <2>2, <2>3, <2>4, <2>5 DEF Next
<1> QED
  BY <1>1, ApprovalsInvariant, PTL DEF Spec, OutcomeFinal
=============================================================================
