----------------------------- MODULE Approvals -----------------------------
(* The approval inbox, from escalation to answer.                            *)
(*                                                                           *)
(* A session's tool call, a hook post or a pipeline gate asks the broker     *)
(* (kernel/approvals.ts) and waits; the gateway fans the request out to the  *)
(* windows; a human clicks in some window (approvalsStore.ts,                *)
(* ApprovalInbox.tsx); the first decision, the expiry timer, an abort, the   *)
(* end of the session or the broker's close settles it, and the waiter goes  *)
(* on. Requests and resolutions travel on the replayable approvals channel,  *)
(* with its holes: what a window missed while it was away comes back only if *)
(* the reconnect asks for it, the journal still has it, and nothing live     *)
(* overtakes it (GatewayReplay has the wire and the journal in detail).      *)
EXTENDS Naturals, FiniteSets

CONSTANTS
    Ids,        \* approval ids
    Sessions,   \* harness sessions that escalate
    NoSession,  \* owner of an approval that no session end supersedes
    Windows,    \* user interfaces
    Flaky,      \* bound: the windows that connect late or lose a connection
    MaxEntries, \* retention window of the channel's journal
    MaxDrops,   \* bound: connections lost over the whole behaviour
    MaxOther    \* bound: payloads of the channel about other approvals

ASSUME ApprovalsAssumption ==
    /\ NoSession \notin Sessions
    /\ MaxEntries \in Nat \ {0} /\ MaxDrops \in Nat /\ MaxOther \in Nat

VARIABLES
    source,   \* who asked: see Sources
    owner,    \* request.sessionId
    status,   \* the broker's entry: unasked, pending, or its outcome
    answer,   \* what the waiter went on with, "none" while it waits
    closed,   \* broker closed
    sent,     \* payloads the gateway journaled on the channel
    requestedAt, \* position of the approval-request of each id, 0 when none
    resolvedAt,  \* position of its approval-resolved
    conn,     \* of each window: down, joining (no replay yet), open
    first,    \* firstConnectOfBoot
    mark,     \* watermark of the channel in the window, 0 when absent
    from,     \* what this connection brings begins after this position
    drops,    \* connections lost so far
    others,   \* payloads about other approvals so far
    told,     \* how far the window processed the id: no, shown, settled
    deciding, \* approvalsStore.deciding of each window
    outbox,   \* decisions on the wire from each window
    clicked,  \* history: verdicts humans clicked for each id
    holed     \* history: the window met a hole of the replay

asked   == <<source, owner>>
channel == <<sent, requestedAt, resolvedAt, others>>
link    == <<conn, first, mark, from, drops>>
inbox   == <<told, deciding, outbox, clicked>>
vars    == <<asked, status, answer, closed, channel, link, inbox, holed>>

\* tool: canUseTool bridge. floor, observe: PermissionRequest hook, with the
\* escalate or the observe posture. gate, lenient: pipeline approval step,
\* lenient when onTimeout is continue.
Sources  == {"tool", "floor", "observe", "gate", "lenient"}
Outcomes == {"allowed", "denied", "expired", "superseded"}
Verdicts == {"allow", "deny"}
Answers  == {"proceed", "refuse", "noOpinion", "error"}
Decision == [id : Ids, verdict : Verdicts]

TypeOK ==
    /\ source \in [Ids -> Sources \cup {"none"}]
    /\ owner \in [Ids -> Sessions \cup {NoSession}]
    /\ status \in [Ids -> Outcomes \cup {"unasked", "pending"}]
    /\ answer \in [Ids -> Answers \cup {"none"}]
    /\ closed \in BOOLEAN
    /\ sent \in Nat
    /\ requestedAt \in [Ids -> Nat] /\ resolvedAt \in [Ids -> Nat]
    /\ conn \in [Windows -> {"down", "joining", "open"}]
    /\ first \in [Windows -> BOOLEAN]
    /\ mark \in [Windows -> Nat] /\ from \in [Windows -> Nat]
    /\ holed \in [Windows -> BOOLEAN]
    /\ drops \in 0..MaxDrops /\ others \in 0..MaxOther
    /\ told \in [Windows -> [Ids -> {"no", "shown", "settled"}]]
    /\ deciding \in [Windows -> SUBSET Ids]
    /\ outbox \in [Windows -> SUBSET Decision]
    /\ clicked \in [Ids -> SUBSET Verdicts]

Init ==
    /\ source = [a \in Ids |-> "none"] /\ owner = [a \in Ids |-> NoSession]
    /\ status = [a \in Ids |-> "unasked"] /\ answer = [a \in Ids |-> "none"]
    /\ closed = FALSE
    /\ sent = 0
    /\ requestedAt = [a \in Ids |-> 0] /\ resolvedAt = [a \in Ids |-> 0]
    /\ conn = [w \in Windows |-> IF w \in Flaky THEN "down" ELSE "open"]
    /\ first = [w \in Windows |-> w \in Flaky]
    /\ mark = [w \in Windows |-> 0] /\ from = [w \in Windows |-> 0]
    /\ drops = 0 /\ others = 0 /\ holed = [w \in Windows |-> FALSE]
    /\ told = [w \in Windows |-> [a \in Ids |-> "no"]]
    /\ deciding = [w \in Windows |-> {}] /\ outbox = [w \in Windows |-> {}]
    /\ clicked = [a \in Ids |-> {}]

----------------------------------------------------------------------------
(* The channel *)

\* broadcast: one more payload. A window between the accept of its socket and
\* the answer to its replay-request gets it before the older ones it lacks,
\* which its watermark then drops.
Overtaken(w) == conn[w] = "joining" /\ mark[w] < from[w]
Broadcast ==
    /\ sent' = sent + 1
    /\ holed' = [w \in Windows |-> holed[w] \/ Overtaken(w)]

\* onRequest, onResolved of the gateway: one position for what one synchronous
\* step of the broker settles.
FanOutRequest(a) ==
    /\ Broadcast
    /\ requestedAt' = [requestedAt EXCEPT ![a] = sent + 1]
    /\ UNCHANGED <<resolvedAt, others>>
FanOutResolved(S) ==
    LET hit == {a \in S : status[a] = "pending"} IN
    \/ hit = {} /\ UNCHANGED <<channel, holed>>
    \/ /\ hit # {} /\ Broadcast
       /\ resolvedAt' = [a \in Ids |-> IF a \in hit THEN sent + 1 ELSE resolvedAt[a]]
       /\ UNCHANGED <<requestedAt, others>>

\* A payload about an approval outside Ids moves the watermarks.
OtherPayload ==
    /\ ~closed /\ others < MaxOther
    /\ others' = others + 1
    /\ Broadcast
    /\ UNCHANGED <<asked, status, answer, closed, requestedAt, resolvedAt, link, inbox>>

----------------------------------------------------------------------------
(* The broker *)

\* Gates name a run, not a session; a hook post may name a native session id
\* that the harness does not know.
OwnersOf(k) ==
    IF k = "tool" THEN Sessions
    ELSE IF k \in {"gate", "lenient"} THEN {NoSession} ELSE Sessions \cup {NoSession}

\* request, then the waiter awaits; the observe posture answers 204 at once.
Request(a, k, s) ==
    /\ ~closed /\ status[a] = "unasked" /\ s \in OwnersOf(k)
    /\ source' = [source EXCEPT ![a] = k]
    /\ owner' = [owner EXCEPT ![a] = s]
    /\ status' = [status EXCEPT ![a] = "pending"]
    /\ answer' = [answer EXCEPT ![a] = IF k = "observe" THEN "noOpinion" ELSE @]
    /\ FanOutRequest(a)
    /\ UNCHANGED <<closed, link, inbox>>

\* A closed broker throws: the hook server swallows it, the others see it.
RequestRefused(a, k) ==
    /\ closed /\ status[a] = "unasked" /\ answer[a] = "none"
    /\ source' = [source EXCEPT ![a] = k]
    /\ answer' = [answer EXCEPT ![a] =
                    IF k \in {"floor", "observe"} THEN "noOpinion" ELSE "error"]
    /\ UNCHANGED <<owner, status, closed, channel, link, inbox, holed>>

\* resolveEntry for every pending entry of S.
ResolveAny(S, outcome) ==
    status' = [a \in Ids |-> IF a \in S THEN outcome ELSE status[a]]
Resolve(S, outcome) ==
    status' = [a \in Ids |-> IF a \in S /\ status[a] = "pending"
                             THEN outcome ELSE status[a]]

AlwaysAllowed(verdict) == "allowed"
OutcomeOf(verdict) == IF verdict = "allow" THEN "allowed" ELSE "denied"

\* decide for a decision that reached the gateway; not pending is answered
\* with approval-not-pending and changes nothing.
Decide(w, d) ==
    /\ conn[w] # "down" /\ ~closed /\ d \in outbox[w]
    /\ outbox' = [outbox EXCEPT ![w] = @ \ {d}]
    /\ Resolve({d.id}, OutcomeOf(d.verdict)) /\ FanOutResolved({d.id})
    /\ UNCHANGED <<asked, answer, closed, link, told, deciding, clicked>>

\* The expiry timer of request.
Expire(a) ==
    /\ status[a] = "pending"
    /\ Resolve({a}, "expired") /\ FanOutResolved({a})
    /\ UNCHANGED <<asked, answer, closed, link, inbox>>

\* The SDK aborts the wait of a tool call.
AbortWait(a) ==
    /\ source[a] = "tool" /\ status[a] = "pending"
    /\ Resolve({a}, "superseded") /\ FanOutResolved({a})
    /\ UNCHANGED <<asked, answer, closed, link, inbox>>

\* sessionEnded of the kernel relay.
OwnedBy(s) == {a \in Ids : owner[a] = s}
SessionEnded(s) ==
    /\ Resolve(OwnedBy(s), "superseded") /\ FanOutResolved(OwnedBy(s))
    /\ UNCHANGED <<asked, answer, closed, link, inbox>>

\* Broker shutdown: the gateway is down before approvals.close supersedes, so
\* nobody is told.
Close ==
    /\ ~closed /\ closed' = TRUE
    /\ Resolve(Ids, "superseded")
    /\ conn' = [w \in Windows |-> "down"]
    /\ outbox' = [w \in Windows |-> {}]
    /\ UNCHANGED <<asked, answer, channel, first, mark, from, drops, told, deciding,
                   clicked, holed>>

\* How each waiter maps an outcome: deny is the fail-safe of the bridge, an
\* opinionless 204 that of the hook floor, a failed branch that of a gate.
MappedExpiredProceeds(k, outcome) ==
    IF outcome \in {"allowed", "expired"} THEN "proceed" ELSE "refuse"
Mapped(k, outcome) ==
    IF outcome = "allowed" \/ (k = "lenient" /\ outcome = "expired") THEN "proceed"
    ELSE IF k \in {"floor", "observe"} /\ outcome # "denied" THEN "noOpinion"
    ELSE "refuse"
Settled(a) == status[a] \in Outcomes

ResumeUnlessSuperseded(a) ==
    /\ answer[a] = "none" /\ Settled(a) /\ status[a] # "superseded"
    /\ answer' = [answer EXCEPT ![a] = Mapped(source[a], status[a])]
    /\ UNCHANGED <<asked, status, closed, channel, link, inbox, holed>>

\* The waiter resumes after its promise.
Resume(a) ==
    /\ answer[a] = "none" /\ Settled(a)
    /\ answer' = [answer EXCEPT ![a] = Mapped(source[a], status[a])]
    /\ UNCHANGED <<asked, status, closed, channel, link, inbox, holed>>

----------------------------------------------------------------------------
(* A window *)

\* The gateway accepts the socket: from now on the window gets what is
\* broadcast, and nothing older yet.
Reconnect(w) ==
    /\ conn[w] = "down" /\ ~closed
    /\ conn' = [conn EXCEPT ![w] = "joining"]
    /\ from' = [from EXCEPT ![w] = sent]
    /\ UNCHANGED <<asked, status, answer, closed, channel, first, mark, drops, inbox, holed>>

\* sendReplayRequests and its answer: after the watermark, or everything on
\* the first connect of a boot, or not at all; refused below the retention
\* floor. The replay is of use only if nothing live came before it.
Asks(w) == mark[w] > 0 \/ first[w]
Answerable(w) == sent - mark[w] <= MaxEntries
Replayed(w) ==
    /\ conn[w] = "joining"
    /\ conn' = [conn EXCEPT ![w] = "open"]
    /\ first' = [first EXCEPT ![w] = FALSE]
    /\ from' = [from EXCEPT ![w] = IF Asks(w) /\ Answerable(w) /\ sent = @
                                   THEN mark[w] ELSE @]
    /\ holed' = [holed EXCEPT ![w] = @ \/ (Asks(w) /\ ~Answerable(w))]
    /\ UNCHANGED <<asked, status, answer, closed, channel, mark, drops, inbox>>

\* The next payload of this connection that handleFrame does not drop.
Upcoming(w) == 1 + IF mark[w] < from[w] THEN from[w] ELSE mark[w]

KeepsDeciding(w, i) == deciding[w]
Undecided(w, i) == {a \in deciding[w] : resolvedAt[a] # i}

\* handleFrame and applyServer: a request shows its row, a resolution removes
\* the row and the in-flight mark.
Receive(w) ==
    /\ conn[w] # "down" /\ Upcoming(w) <= sent
    /\ mark' = [mark EXCEPT ![w] = Upcoming(w)]
    /\ told' = [told EXCEPT ![w] = [a \in Ids |->
                  IF resolvedAt[a] = Upcoming(w) THEN "settled"
                  ELSE IF requestedAt[a] = Upcoming(w) THEN "shown" ELSE told[w][a]]]
    /\ deciding' = [deciding EXCEPT ![w] = Undecided(w, Upcoming(w))]
    /\ from' = [from EXCEPT ![w] = 0]
    /\ UNCHANGED <<asked, status, answer, closed, channel, conn, first, drops,
                   outbox, clicked, holed>>

\* pendingApprovals: an id whose decision is in flight has no row.
Visible(w, a) == told[w][a] = "shown" /\ a \notin deciding[w]

\* decide of the inbox: mark, then a fire-and-forget send that is skipped
\* without an open socket.
Click(w, a, v) ==
    /\ Visible(w, a)
    /\ deciding' = [deciding EXCEPT ![w] = @ \cup {a}]
    /\ clicked' = [clicked EXCEPT ![a] = @ \cup {v}]
    /\ \/ /\ conn[w] # "down"
          /\ outbox' = [outbox EXCEPT ![w] = @ \cup {[id |-> a, verdict |-> v]}]
       \/ conn[w] # "open" /\ UNCHANGED outbox
    /\ UNCHANGED <<asked, status, answer, closed, channel, link, told, holed>>

\* What is on the wire dies with the connection and is not sent again. A
\* window that was open and still has no watermark never asks again.
Disconnect(w) ==
    /\ w \in Flaky /\ conn[w] # "down" /\ drops < MaxDrops
    /\ conn' = [conn EXCEPT ![w] = "down"]
    /\ drops' = drops + 1
    /\ outbox' = [outbox EXCEPT ![w] = {}]
    /\ \/ UNCHANGED first
       \/ conn[w] = "joining" /\ first' = [first EXCEPT ![w] = FALSE]
    /\ holed' = [holed EXCEPT ![w] = @ \/ (mark[w] = 0 /\ ~first'[w])]
    /\ from' = [from EXCEPT ![w] = 0]
    /\ UNCHANGED <<asked, status, answer, closed, channel, mark, told, deciding, clicked>>

----------------------------------------------------------------------------

Deliver(w) ==
    \/ \E d \in outbox[w] : Decide(w, d)
    \/ Replayed(w) \/ Receive(w)

Next ==
    \/ \E a \in Ids, k \in Sources : RequestRefused(a, k) \/ \E s \in Sessions \cup {NoSession} : Request(a, k, s)
    \/ \E a \in Ids : Expire(a) \/ AbortWait(a) \/ Resume(a)
    \/ \E s \in Sessions : SessionEnded(s)
    \/ Close \/ OtherPayload
    \/ \E w \in Windows : Deliver(w) \/ Disconnect(w) \/ Reconnect(w)
    \/ \E w \in Windows, a \in Ids, v \in Verdicts : Click(w, a, v)

\* Timers fire, promises resume, sockets reconnect and deliver. Nobody has to
\* click, and nobody has to end a session.
Fairness ==
    /\ \A a \in Ids : WF_vars(Expire(a)) /\ WF_vars(Resume(a))
    /\ \A w \in Windows : WF_vars(Reconnect(w)) /\ WF_vars(Deliver(w))

Spec == Init /\ [][Next]_vars
FairSpec == Spec /\ Fairness

----------------------------------------------------------------------------
(* Properties *)

\* Fail-safe: a waiter proceeds only if a human clicked allow for that very
\* id, or it is a gate whose step says to continue on timeout and it expired.
ProceedsByHuman ==
    \A a \in Ids : answer[a] = "proceed" =>
        "allow" \in clicked[a] \/ (source[a] = "lenient" /\ status[a] = "expired")

\* The inductive part: what is on the wire was clicked, an allowed or denied
\* entry was clicked so, and every answer that was given is the one the settled
\* outcome maps to.
ApprovalsInv ==
    /\ TypeOK
    /\ \A w \in Windows : \A d \in outbox[w] : d.verdict \in clicked[d.id]
    /\ \A a \in Ids :
         /\ status[a] = "allowed" => "allow" \in clicked[a]
         /\ status[a] = "denied" => "deny" \in clicked[a]
         /\ status[a] = "unasked" /\ ~closed => answer[a] = "none"
         /\ status[a] = "pending" => answer[a] \in {"none", "noOpinion"}
         /\ answer[a] = "proceed" => Settled(a) /\ Mapped(source[a], status[a]) = "proceed"

\* A settled approval keeps its outcome: of two windows, a timer, an abort and
\* a session end, the first wins and the others change nothing; nor does the
\* answer of a waiter change.
OutcomeFinal ==
    [][\A a \in Ids : /\ Settled(a) => status'[a] = status[a]
                      /\ answer[a] # "none" => answer'[a] = answer[a]]_vars

\* Every escalation is answered: the session, the hook or the run goes on.
EveryWaitEnds == \A a \in Ids : status[a] = "pending" ~> answer[a] # "none"

\* While the broker lives, every window ends up without the rows of settled
\* approvals and without their in-flight marks, also of those that another
\* window or the timer settled (the convergence that handleApprovalsPayload
\* counts on), unless the window met one of the three holes: overtaken by a
\* live payload, dropped before its first watermark, or below the retention
\* floor.
InboxConverges ==
    <>[](~closed => \A w \in Windows, a \in Ids :
                      Settled(a) /\ ~holed[w] =>
                          told[w][a] = "settled" /\ a \notin deciding[w])
=============================================================================
