--------------------------- MODULE GatewayReplay ---------------------------
(* Reconnect-replay of one replayable JSON channel, end to end.              *)
(*                                                                           *)
(* The broker journals every payload it broadcasts (gateway/journal.ts) and  *)
(* fans it out to the accepted sockets (gateway/server.ts). A window finds   *)
(* the broker through the bootstrap file, connects, asks for what it missed  *)
(* and drops what it already processed (app/src/lib/ws/wsClient.ts).         *)
(* Payloads are abstracted to their seq: the stores only see each one once   *)
(* or not. A WebSocket is a FIFO queue that dies with the connection.        *)
EXTENDS Integers, Sequences

CONSTANTS
    Clients,        \* the windows
    MaxEntries,     \* journal retention window (maxEntriesPerChannel)
    MaxSeq,         \* bound: payloads broadcast per broker boot
    MaxDrops,       \* bound: connections lost over the whole behaviour
    MaxBoot         \* bound: broker restarts

ASSUME ReplayAssumption ==
    /\ MaxEntries \in Nat \ {0} /\ MaxSeq \in Nat
    /\ MaxDrops \in Nat /\ MaxBoot \in Nat

VARIABLES
    boot,     \* identity of the running broker (token, pid, startedAt)
    nextSeq,  \* ChannelJournal.#nextSeq
    floor,    \* ChannelJournal.#floorSeq
    conn,     \* connection of each window: down, connecting, accepted, open
    known,    \* boot identity each window last discovered
    mark,     \* watermark of the channel in each window, NoMark when absent
    first,    \* firstConnectOfBoot
    toClient, \* seqs on the wire to each window, oldest first
    request,  \* fromSeq of the replay-request on the wire, NoMark when none
    rows,     \* how often each seq was handed to the window's stores
    excuse,   \* history: why the window may lack a payload of this boot
    drops     \* connections lost so far

broker == <<boot, nextSeq, floor>>
window == <<known, mark, first, rows>>
wire   == <<conn, toClient, request>>
vars   == <<broker, window, wire, excuse, drops>>

NoMark == -1
Seqs   == 0..(MaxSeq - 1)
Conns  == {"down", "connecting", "accepted", "open"}
NoRows == [s \in Seqs |-> 0]

\* refused: the broker answered watermark-out-of-range. overtaken: a payload
\* was broadcast between the accept and the replay of a window that lacked an
\* earlier one. unmarked: a connection dropped after the request from zero and
\* before the first payload.
Excuses == {"refused", "overtaken", "unmarked"}

TypeOK ==
    /\ boot \in 0..MaxBoot
    /\ nextSeq \in 0..MaxSeq
    /\ floor \in 0..nextSeq
    /\ conn \in [Clients -> Conns]
    /\ known \in [Clients -> -1..MaxBoot]
    /\ mark \in [Clients -> -1..(MaxSeq - 1)]
    /\ first \in [Clients -> BOOLEAN]
    /\ toClient \in [Clients -> Seq(Seqs)]
    /\ request \in [Clients -> -1..MaxSeq]
    /\ rows \in [Clients -> [Seqs -> Nat]]
    /\ excuse \in [Clients -> SUBSET Excuses]
    /\ drops \in 0..MaxDrops

Init ==
    /\ boot = 0 /\ nextSeq = 0 /\ floor = 0 /\ drops = 0
    /\ conn = [c \in Clients |-> "down"]
    /\ known = [c \in Clients |-> -1]
    /\ mark = [c \in Clients |-> NoMark]
    /\ first = [c \in Clients |-> TRUE]
    /\ toClient = [c \in Clients |-> <<>>]
    /\ request = [c \in Clients |-> NoMark]
    /\ rows = [c \in Clients |-> NoRows]
    /\ excuse = [c \in Clients |-> {}]

----------------------------------------------------------------------------
(* The broker *)

Live(c) == conn[c] \in {"accepted", "open"}

\* A window between the broker's accept and the answer to its replay-request.
Handshaking(c) == conn[c] = "accepted" \/ request[c] # NoMark

\* ChannelJournal.append: the window is bounded, the oldest entry is evicted.
Evicted(retained) == IF retained > MaxEntries THEN 1 ELSE 0

Broadcast ==
    /\ nextSeq < MaxSeq
    /\ nextSeq' = nextSeq + 1
    /\ floor' = floor + Evicted(nextSeq' - floor)
    /\ toClient' = [c \in Clients |->
                      IF Live(c) THEN Append(toClient[c], nextSeq) ELSE toClient[c]]
    /\ excuse' = [c \in Clients |->
                    IF Handshaking(c) /\ mark[c] < nextSeq - 1
                    THEN excuse[c] \cup {"overtaken"} ELSE excuse[c]]
    /\ UNCHANGED <<boot, conn, request, window, drops>>

\* ChannelJournal.replayFrom: between the retention floor and lastSeq + 1.
Answerable(from) == floor <= from /\ from <= nextSeq

\* The retained seqs from `from` on, in order, with their original values.
Retained(from) == [i \in 1..(nextSeq - from) |-> from + i - 1]

Replay(c) ==
    /\ conn[c] = "open" /\ request[c] # NoMark
    /\ request' = [request EXCEPT ![c] = NoMark]
    /\ \/ /\ Answerable(request[c])
          /\ toClient' = [toClient EXCEPT ![c] = @ \o Retained(request[c])]
          /\ UNCHANGED excuse
       \/ /\ ~Answerable(request[c])
          /\ excuse' = [excuse EXCEPT ![c] = @ \cup {"refused"}]
          /\ UNCHANGED toClient
    /\ UNCHANGED <<broker, conn, window, drops>>

\* The gateway accepts a socket that presents the token of this boot.
Accept(c) ==
    /\ conn[c] = "connecting" /\ known[c] = boot
    /\ conn' = [conn EXCEPT ![c] = "accepted"]
    /\ UNCHANGED <<broker, window, toClient, request, excuse, drops>>

\* A new boot has a new port, a new token and empty journals.
Restart ==
    /\ boot < MaxBoot
    /\ boot' = boot + 1 /\ nextSeq' = 0 /\ floor' = 0
    /\ conn' = [c \in Clients |-> IF Live(c) THEN "down" ELSE conn[c]]
    /\ toClient' = [c \in Clients |-> <<>>]
    /\ request' = [c \in Clients |-> NoMark]
    /\ UNCHANGED <<window, excuse, drops>>

----------------------------------------------------------------------------
(* A window *)

\* handleBrokerRestart: a changed identity voids the watermark and the stores.
NeverForgetsBoot(c) == FALSE
ForgetsBoot(c) == known[c] # -1 /\ known[c] # boot

Discover(c) ==
    /\ conn[c] = "down"
    /\ conn' = [conn EXCEPT ![c] = "connecting"]
    /\ known' = [known EXCEPT ![c] = boot]
    /\ \/ /\ ForgetsBoot(c)
          /\ mark' = [mark EXCEPT ![c] = NoMark]
          /\ first' = [first EXCEPT ![c] = TRUE]
          /\ rows' = [rows EXCEPT ![c] = NoRows]
          /\ excuse' = [excuse EXCEPT ![c] = {}]
       \/ /\ ~ForgetsBoot(c)
          /\ UNCHANGED <<mark, first, rows, excuse>>
    /\ UNCHANGED <<broker, toClient, request, drops>>

\* Nobody listens on the port of a dead boot: scheduleReconnect.
ConnectFail(c) ==
    /\ conn[c] = "connecting" /\ known[c] # boot
    /\ conn' = [conn EXCEPT ![c] = "down"]
    /\ UNCHANGED <<broker, window, toClient, request, excuse, drops>>

\* sendReplayRequests: after the watermark, or from zero on a boot's first
\* connect, or not at all.
ReplaySkipsOne(c) ==
    IF mark[c] # NoMark THEN mark[c] + 2
    ELSE IF first[c] THEN 0 ELSE NoMark
ReplayOnlyFirst(c) == IF first[c] THEN 0 ELSE NoMark
ReplayPoint(c) ==
    IF mark[c] # NoMark THEN mark[c] + 1
    ELSE IF first[c] THEN 0 ELSE NoMark

Open(c) ==
    /\ conn[c] = "accepted"
    /\ conn' = [conn EXCEPT ![c] = "open"]
    /\ request' = [request EXCEPT ![c] = ReplayPoint(c)]
    /\ first' = [first EXCEPT ![c] = FALSE]
    /\ UNCHANGED <<broker, known, mark, rows, toClient, excuse, drops>>

\* handleFrame: a seq at or below the watermark was already processed.
Duplicate(c, s) == mark[c] # NoMark /\ s <= mark[c]

Receive(c) ==
    /\ conn[c] = "open" /\ toClient[c] # <<>>
    /\ toClient' = [toClient EXCEPT ![c] = Tail(@)]
    /\ LET s == Head(toClient[c]) IN
       \/ /\ Duplicate(c, s)
          /\ UNCHANGED <<mark, rows>>
       \/ /\ ~Duplicate(c, s)
          /\ mark' = [mark EXCEPT ![c] = s]
          /\ rows' = [rows EXCEPT ![c][s] = @ + 1]
    /\ UNCHANGED <<broker, conn, request, known, first, excuse, drops>>

\* socket.onclose in the window and dropConnection in the broker: whatever was
\* on the wire, in either direction, is gone.
Drop(c) ==
    /\ Live(c) /\ drops < MaxDrops
    /\ drops' = drops + 1
    /\ conn' = [conn EXCEPT ![c] = "down"]
    /\ toClient' = [toClient EXCEPT ![c] = <<>>]
    /\ request' = [request EXCEPT ![c] = NoMark]
    /\ excuse' = IF mark[c] = NoMark /\ ~first[c]
                 THEN [excuse EXCEPT ![c] = @ \cup {"unmarked"}] ELSE excuse
    /\ UNCHANGED <<broker, window>>

----------------------------------------------------------------------------

ClientStep(c) ==
    Discover(c) \/ Accept(c) \/ ConnectFail(c) \/ Open(c) \/ Replay(c) \/ Receive(c)

Next == Broadcast \/ Restart \/ \E c \in Clients : ClientStep(c) \/ Drop(c)

\* Timers and socket events fire: reconnecting, accepting, answering and
\* receiving do not stop. Broadcasts, drops and restarts need not happen.
Fairness == \A c \in Clients : WF_vars(ClientStep(c))

Spec == Init /\ [][Next]_vars
FairSpec == Spec /\ Fairness

----------------------------------------------------------------------------
(* Properties *)

\* The inductive part: a connection belongs to the running boot, nothing on
\* the wire or in a watermark of this boot is beyond the journal (so a refused
\* replay-request always means eviction, never a watermark of a dead boot), and
\* only seqs at or below the watermark reached the stores.
Bounded(c) ==
    /\ Live(c) => known[c] = boot
    /\ known[c] <= boot
    /\ known[c] = -1 => mark[c] = NoMark
    /\ known[c] = boot => mark[c] < nextSeq
    /\ known[c] = boot => request[c] <= nextSeq
    /\ \A i \in 1..Len(toClient[c]) : toClient[c][i] < nextSeq
    /\ ~Live(c) => toClient[c] = <<>> /\ request[c] = NoMark

RowsBelowMark(c) == \A s \in Seqs : rows[c][s] > 0 => s <= mark[c]

\* A payload reaches a window's stores at most once per broker boot, however
\* drops, replays and live flow interleave ("no duplicate rows").
NoDuplicateRows == \A c \in Clients, s \in Seqs : rows[c][s] <= 1

ReplayInv ==
    /\ TypeOK
    /\ \A c \in Clients : Bounded(c) /\ RowsBelowMark(c)
    /\ NoDuplicateRows

\* What a window lacks once it is connected and nothing is on the wire.
Settled(c) == conn[c] = "open" /\ request[c] = NoMark /\ toClient[c] = <<>>
HasAll(c) == \A s \in 0..(nextSeq - 1) : rows[c][s] = 1

\* A settled window shows every payload of this boot unless it was refused,
\* overtaken or dropped unmarked: these three are the only ways to miss one.
SettledIsCurrent == \A c \in Clients : Settled(c) /\ excuse[c] = {} => HasAll(c)

\* Once drops and restarts stop, every window is connected and at the head of
\* the journal, unless its replay was refused or never asked for.
CaughtUp ==
    <>[](\A c \in Clients :
           /\ conn[c] = "open"
           /\ excuse[c] \subseteq {"overtaken"} => mark[c] = nextSeq - 1)
=============================================================================
