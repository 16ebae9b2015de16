----------------------------- MODULE Workstreams -----------------------------
(***************************************************************************)
(* The workstream lineage of core/src/workstreams: session nodes, edges    *)
(* and briefs in the kernel database, written by four parts that share no  *)
(* lock.  The recorder writes at the kernel's launches, forks and resumes; *)
(* the reconciler registers sessions it finds on disk; the hook automation *)
(* turns SessionEnd and PreCompact posts into briefs, after an awaited     *)
(* distillation, and answers SessionStart with the latest one; the merge   *)
(* engine joins nodes.                                                     *)
(*                                                                         *)
(* A hook and a transcript name a session by its native id, the kernel by  *)
(* its ledger row.  Here both are the same model value: node.session is    *)
(* the row a node was recorded for, node.native the native_session_id      *)
(* column.  A node or a brief is known by its place in the table, so       *)
(* created_at order is the order of the sequence.                          *)
(***************************************************************************)
EXTENDS Integers, FiniteSets, Sequences, SequencesExt

CONSTANTS
  Kernel,     \* sessions the kernel launches
  Outside,    \* sessions started outside the harness
  Streams,    \* workstreams the operator has created
  None,       \* SQL NULL
  MaxNodes,   \* bound: rows of session_node
  MaxBriefs,  \* bound: rows of brief
  MaxFaults   \* bound: failed writes and distillations, and crashes

Native == Kernel \cup Outside
PostAck == {"SessionEnd", "PreCompact"}
Events == PostAck \cup {"SessionStart"}
Key == Events \X Native

ASSUME WorkstreamsAssumption ==
  /\ Kernel \cap Outside = {} /\ None \notin Native \cup Streams \cup Key
  /\ MaxNodes \in Nat /\ MaxBriefs \in Nat /\ MaxFaults \in Nat

VARIABLES
  ledger,    \* resume ledger: no row, a row, a row with its native id, a row
             \* whose broker died before the id arrived
  disk,      \* sessions with a transcript in an account's projects tree
  nodes,     \* session_node
  edges,     \* session_edge
  briefs,    \* brief
  produced,  \* automation: idempotence keys consumed in this broker run
  work,      \* automation: handlers past the ack, awaiting a distillation
  boots,     \* broker starts so far
  faults,    \* faults so far
  lost       \* history: keys of this run whose handler failed

lineageVars == <<ledger, disk, nodes, edges, briefs,
                 produced, work, boots, faults, lost>>
store == <<nodes, edges, briefs>>
automation == <<produced, work, lost>>

States == {"running", "idle", "completed", "external"}
Node == [origin : {"harness", "reconciled", "snapshot", "merge"},
         session : Kernel \cup {None}, native : Native \cup {None},
         stream : Streams \cup {None}, state : States]
Edge == [type : {"continue", "fork", "compact", "merge_parent"},
         from : Nat, to : Nat, brief : Nat]
Brief == [key : Key \cup {None}, about : SUBSET Nat, boot : Nat]
Job == [key : PostAck \X Native, node : Nat, state : States,
        stream : Streams \cup {None}]

LineageTypeOK ==
  /\ ledger \in [Kernel -> {"none", "row", "native", "dead"}]
  /\ disk \subseteq Native
  /\ nodes \in Seq(Node) /\ edges \subseteq Edge /\ briefs \in Seq(Brief)
  /\ produced \subseteq Key /\ lost \subseteq Key /\ work \subseteq Job
  /\ boots \in Nat /\ faults \in 0..MaxFaults

LineageInit ==
  /\ ledger = [k \in Kernel |-> "none"] /\ disk = {}
  /\ nodes = <<>> /\ edges = {} /\ briefs = <<>>
  /\ produced = {} /\ work = {} /\ lost = {}
  /\ boots = 1 /\ faults = 0

Fault == faults < MaxFaults /\ faults' = faults + 1
NoFault == UNCHANGED faults

(***************************************************************************)
(* The lineage store                                                       *)
(***************************************************************************)
NodeOf(table, k) == {i \in DOMAIN table : table[i].session = k}
Named(table, n) == {i \in DOMAIN table : table[i].native = n}

\* byNativeSessionId: ORDER BY created_at_ms LIMIT 1, 0 when there is none.
ByNative(table, n) ==
  IF Named(table, n) = {} THEN 0
  ELSE CHOOSE i \in Named(table, n) : \A j \in Named(table, n) : i <= j

KernelNode(k, native, stream) ==
  [origin |-> "harness", session |-> k, native |-> native,
   stream |-> stream, state |-> "running"]

NewBrief(key, about) == [key |-> key, about |-> about, boot |-> boots]
NewEdge(type, from, to, brief) ==
  [type |-> type, from |-> from, to |-> to, brief |-> brief]

(***************************************************************************)
(* The recorder                                                            *)
(***************************************************************************)
\* ensureNode: an endpoint without a node is healed from its ledger row; the
\* hint of the row names workstream w by then, and the native id is filled in
\* by a second write.
Healed(table, k, native, w) ==
  IF NodeOf(table, k) # {} THEN table ELSE Append(table, KernelNode(k, native, w))
Ensured(table, k, w) ==
  Healed(table, k, IF ledger[k] = "native" THEN k ELSE None, w)

\* What ensureNode may leave when a write fails in it or right behind it.
Unfinished(table, k, w) ==
  {table, Healed(table, k, None, w), Ensured(table, k, w)}

\* insertEdge between the nodes of two sessions.
WithEdge(table, type, from, to) ==
  edges \cup {NewEdge(type, i, j, 0) : i \in NodeOf(table, from),
                                      j \in NodeOf(table, to)}

\* The kernel's row before the spawn, then record(launch).
Launch(k, stream) ==
  /\ ledger[k] = "none"
  /\ ledger' = [ledger EXCEPT ![k] = "row"]
  /\ nodes' = Append(nodes, KernelNode(k, None, stream))
  /\ UNCHANGED <<disk, edges, briefs, automation, boots>> /\ NoFault

\* The write of the node fails: record swallows it and the launch goes on.
LaunchDropped(k) ==
  /\ ledger[k] = "none"
  /\ ledger' = [ledger EXCEPT ![k] = "row"]
  /\ UNCHANGED <<disk, store, automation, boots>> /\ Fault

\* A fork: the child is launched with the hint of its parent, then the edge
\* between them is recorded.
Fork(p, k, w) ==
  /\ ledger[p] = "native" /\ ledger[k] = "none"
  /\ ledger' = [ledger EXCEPT ![k] = "row"]
  /\ nodes' = Ensured(Append(nodes, KernelNode(k, None, w)), p, w)
  /\ edges' = WithEdge(nodes', "fork", p, k)
  /\ UNCHANGED <<disk, briefs, automation, boots>> /\ NoFault

\* A write fails: that of the child's node, and the edge heals it; or one of
\* those behind it, and the edge is lost.
ForkFails(p, k, w) ==
  /\ ledger[p] = "native" /\ ledger[k] = "none"
  /\ ledger' = [ledger EXCEPT ![k] = "row"]
  /\ \/ /\ nodes' = Ensured(Ensured(nodes, p, w), k, w)
        /\ edges' = WithEdge(nodes', "fork", p, k)
     \/ /\ nodes' \in Unfinished(Append(nodes, KernelNode(k, None, w)), p, w)
        /\ UNCHANGED edges
  /\ UNCHANGED <<disk, briefs, automation, boots>> /\ Fault

\* record(resume) and record(recycle): the session continues as itself.
Continue(k, w) ==
  /\ ledger[k] = "native"
  /\ nodes' = Ensured(nodes, k, w)
  /\ edges' = WithEdge(nodes', "continue", k, k)
  /\ UNCHANGED <<ledger, disk, briefs, automation, boots>> /\ NoFault

\* record(merge) into a session of the kernel, of parents that have nodes: one
\* insert after the other, outside of any transaction.  The store refuses an
\* edge with an unknown brief, and one from the session itself, which ends
\* the loop wherever it stands in the list.
RecordMerge(k, parents, b, w) ==
  /\ ledger[k] # "none" /\ parents # {}
  /\ nodes' = Ensured(nodes, k, w)
  /\ LET to == NodeOf(nodes', k) IN
     \E done \in SUBSET (parents \ to) :
       /\ b \in DOMAIN briefs \/ done = {}
       /\ edges' = edges \cup
            {NewEdge("merge_parent", i, j, b) : i \in done, j \in to}
       /\ IF done = parents \/ to \subseteq parents \/ b \notin DOMAIN briefs
          THEN NoFault ELSE Fault
  /\ UNCHANGED <<ledger, disk, briefs, automation, boots>>

\* record of any of the three, when a write fails before their first edge.
RecordFails(k, w) ==
  /\ ledger[k] # "none"
  /\ nodes' \in Unfinished(nodes, k, w)
  /\ UNCHANGED <<ledger, disk, edges, briefs, automation, boots>> /\ Fault

\* The first message of a session: the kernel's pump completes the ledger
\* row.  The node keeps its empty column: no caller completes that one.
InitMessage(k) ==
  /\ ledger[k] = "row"
  /\ ledger' = [ledger EXCEPT ![k] = "native"]
  /\ UNCHANGED <<disk, store, automation, boots>> /\ NoFault

\* The agent writes a transcript; a kernel session needs its spawn first.
Transcript(n) ==
  /\ n \notin disk
  /\ n \in Kernel => ledger[n] # "none"
  /\ disk' = disk \cup {n}
  /\ UNCHANGED <<ledger, store, automation, boots>> /\ NoFault

\* assignNode
Assign(i, stream) ==
  /\ nodes[i].stream # stream
  /\ nodes' = [nodes EXCEPT ![i].stream = stream]
  /\ UNCHANGED <<ledger, disk, edges, briefs, automation, boots>> /\ NoFault

(***************************************************************************)
(* The reconciler                                                          *)
(***************************************************************************)
\* A session of the kernel is known by the native id its ledger row has got:
\* before that it counts as an external one.
IsKernelDriven(n) == n \in Kernel /\ ledger[n] = "native"

Orphan(n) == [origin |-> "reconciled", session |-> None, native |-> n,
              stream |-> None, state |-> "external"]

Unregistered == {n \in disk : ByNative(nodes, n) = 0 /\ ~IsKernelDriven(n)}

\* runCycle: every unknown transcript; one whose insert fails is skipped.
RunCycle ==
  /\ Unregistered # {}
  /\ \E skipped \in SUBSET Unregistered :
       /\ IF skipped = {} THEN NoFault ELSE Fault
       /\ nodes' = nodes \o
            [i \in 1..Cardinality(Unregistered \ skipped) |->
               Orphan(SetToSeq(Unregistered \ skipped)[i])]
  /\ UNCHANGED <<ledger, disk, edges, briefs, automation, boots>>

(***************************************************************************)
(* The hook automation                                                     *)
(***************************************************************************)
\* The handler keeps the row it read before the await.
JobOf(e, n) == LET i == ByNative(nodes, n)
               IN [key |-> <<e, n>>, node |-> i, state |-> nodes[i].state,
                   stream |-> nodes[i].stream]

\* Mutant: the key is consumed before the node is resolved.
PostBurning(e, n) ==
  /\ <<e, n>> \notin produced
  /\ produced' = produced \cup {<<e, n>>}
  /\ work' = work \cup IF ByNative(nodes, n) = 0 THEN {} ELSE {JobOf(e, n)}
  /\ UNCHANGED <<ledger, disk, store, lost, boots>> /\ NoFault

\* Mutant: the key is not consumed until the brief is written.
PostUnmarked(e, n) ==
  /\ ByNative(nodes, n) # 0 /\ <<e, n>> \notin produced
  /\ work' = work \cup {JobOf(e, n)}
  /\ UNCHANGED <<ledger, disk, store, produced, lost, boots>> /\ NoFault

\* onSessionEnd, onPreCompact up to the await.  A duplicate and an unknown
\* session change nothing.
Post(e, n) ==
  /\ <<e, n>> \notin produced /\ ByNative(nodes, n) # 0
  /\ produced' = produced \cup {<<e, n>>}
  /\ work' = work \cup {JobOf(e, n)}
  /\ UNCHANGED <<ledger, disk, store, lost, boots>> /\ NoFault

\* The distillation is back: the brief of the session's end, then its state.
Ended(j) ==
  /\ j.key[1] = "SessionEnd"
  /\ briefs' = Append(briefs, NewBrief(j.key, {j.node}))
  /\ nodes' = IF j.state \in {"running", "idle"}
              THEN [nodes EXCEPT ![j.node].state = "completed"] ELSE nodes
  /\ UNCHANGED edges

\* The snapshot joins the workstream that the session was in at the post.
Snapshot(j) == [origin |-> "snapshot", session |-> None, native |-> None,
                stream |-> j.stream, state |-> "completed"]

\* The brief of the compaction, its snapshot node and the edge between them.
Compacted(j) ==
  /\ j.key[1] = "PreCompact"
  /\ briefs' = Append(briefs, NewBrief(j.key, {j.node}))
  /\ nodes' = Append(nodes, Snapshot(j))
  /\ edges' = edges \cup
       {NewEdge("compact", Len(nodes'), j.node, Len(briefs'))}

Distilled(j) ==
  /\ j \in work /\ work' = work \ {j}
  /\ Ended(j) \/ Compacted(j)
  /\ UNCHANGED <<ledger, disk, produced, lost, boots>> /\ NoFault

\* The distillation fails, or one of the writes: those before it stay.
DistilledThrows(j) ==
  /\ j \in work /\ work' = work \ {j}
  /\ lost' = lost \cup {j.key}
  /\ \/ UNCHANGED store
     \/ /\ briefs' = Append(briefs, NewBrief(j.key, {j.node}))
        /\ UNCHANGED edges
        /\ \/ UNCHANGED nodes
           \/ /\ j.key[1] = "PreCompact"
              /\ nodes' = Append(nodes, Snapshot(j))
  /\ UNCHANGED <<ledger, disk, produced, boots>> /\ Fault

\* latestBriefFor: briefs about the node, or about a node of its workstream;
\* what was injected before does not count.
Scope(i) ==
  IF nodes[i].stream = None THEN {i}
  ELSE {j \in DOMAIN nodes : nodes[j].stream = nodes[i].stream}
Latest(i) == {b \in DOMAIN briefs :
                /\ briefs[b].about \cap Scope(i) # {}
                /\ briefs[b].key \in {None} \cup (PostAck \X Native)}

\* onSessionStart, which awaits nothing: the injection is recorded once.
SessionStart(n) ==
  LET i == ByNative(nodes, n) IN
  /\ i # 0 /\ <<"SessionStart", n>> \notin produced
  /\ Latest(i) # {}
  /\ produced' = produced \cup {<<"SessionStart", n>>}
  /\ \/ /\ briefs' = Append(briefs, NewBrief(<<"SessionStart", n>>, {i}))
        /\ UNCHANGED lost /\ NoFault
     \/ /\ lost' = lost \cup {<<"SessionStart", n>>}
        /\ UNCHANGED briefs /\ Fault
  /\ UNCHANGED <<ledger, disk, nodes, edges, work, boots>>

(***************************************************************************)
(* The merge engine                                                        *)
(***************************************************************************)
MergeNode(stream) ==
  [origin |-> "merge", session |-> None, native |-> None,
   stream |-> stream, state |-> "idle"]

\* The brief in a statement of its own, then recordMerge in a transaction.
Merge(parents, stream) ==
  /\ Cardinality(parents) >= 2
  /\ briefs' = Append(briefs, NewBrief(None, parents))
  /\ nodes' = Append(nodes, MergeNode(stream))
  /\ edges' = edges \cup
       {NewEdge("merge_parent", i, Len(nodes'), Len(briefs')) : i \in parents}
  /\ UNCHANGED <<ledger, disk, automation, boots>> /\ NoFault

\* recordMerge fails and rolls back; the brief stays.
MergeFails(parents) ==
  /\ Cardinality(parents) >= 2
  /\ briefs' = Append(briefs, NewBrief(None, parents))
  /\ UNCHANGED <<ledger, disk, nodes, edges, automation, boots>> /\ Fault

\* The broker dies, or stops (which settles the work first), and starts
\* again: the tables stay, the automation's memory does not.
Crash ==
  /\ boots' = boots + 1
  /\ produced' = {} /\ work' = {} /\ lost' = {}
  /\ ledger' = [k \in Kernel |->
                  IF ledger[k] = "row" THEN "dead" ELSE ledger[k]]
  /\ UNCHANGED <<disk, store>> /\ Fault

Room(n, b) == Len(nodes) + n <= MaxNodes /\ Len(briefs) + b <= MaxBriefs

\* The rows that handlers under way will still write are reserved.
Reserved == Cardinality(work)
PostInRoom(e, n) == Room(Reserved + 1, Reserved + 1) /\ Post(e, n)

\* Bound: the recorder writes the edges of one merge.
FirstRecorded ==
  \A e \in edges : e.type = "merge_parent" => nodes[e.to].origin = "merge"

LineageNext ==
  \/ \E k \in Kernel : \/ InitMessage(k) \/ LaunchDropped(k)
  \/ \E k \in Kernel, w \in Streams \cup {None} :
       \/ /\ Room(Reserved + 1, Reserved)
          /\ \/ Launch(k, w) \/ Continue(k, w) \/ RecordFails(k, w)
             \/ /\ FirstRecorded
                /\ \E parents \in SUBSET DOMAIN nodes, b \in 1..MaxBriefs :
                     RecordMerge(k, parents, b, w)
       \/ /\ Room(Reserved + 2, Reserved)
          /\ \E p \in Kernel : Fork(p, k, w) \/ ForkFails(p, k, w)
  \/ \E n \in Native : \/ Transcript(n)
                       \/ \E e \in PostAck : PostInRoom(e, n)
                       \/ Room(Reserved, Reserved + 1) /\ SessionStart(n)
  \/ \E i \in DOMAIN nodes, w \in Streams \cup {None} : Assign(i, w)
  \/ RunCycle
  \/ \E j \in work : Distilled(j) \/ DistilledThrows(j)
  \/ \E parents \in SUBSET DOMAIN nodes :
       /\ Room(Reserved + 1, Reserved + 1)
       /\ \/ \E w \in Streams \cup {None} : Merge(parents, w)
          \/ MergeFails(parents)
  \/ Crash

LineageSpec == LineageInit /\ [][LineageNext]_lineageVars

\* A distillation ends: the drafter has a time limit.
LineageFairSpec ==
  /\ LineageSpec
  /\ \A key \in PostAck \X Native :
       WF_lineageVars(\E j \in work : j.key = key /\ Distilled(j))

(***************************************************************************)
(* Properties                                                              *)
(***************************************************************************)
Briefed(key) ==
  {b \in DOMAIN briefs : briefs[b].key = key /\ briefs[b].boot = boots}

\* One hook event of one session makes at most one brief in a broker run,
\* although posts are retried and the brief is written after an await; and
\* a handler under way has not written its brief.
OneBriefPerEvent ==
  /\ \A key \in Key : Cardinality(Briefed(key)) <= 1
  /\ \A j \in work : Briefed(j.key) = {} /\ j.key \in produced
  /\ \A j, l \in work : j.key = l.key => j = l

\* The edges into a node are those of one brief, from all it is about.
Joined(i) ==
  \E b \in DOMAIN briefs :
    /\ Cardinality(briefs[b].about) >= 2
    /\ {<<e.from, e.brief>> : e \in {f \in edges : f.to = i}}
         = {<<p, b>> : p \in briefs[b].about}

\* A merge node of the engine has the edges and the brief of all its parents,
\* whatever failed before; a merge that the recorder writes may have lost some
\* of its edges, but none stands without a brief.  An edge and a brief name
\* rows that exist; no session is its own parent except by continuing; and
\* nothing makes a session that was found on disk the child of another but
\* its own compaction.
GraphIntact ==
  /\ \A e \in edges : /\ e.from \in DOMAIN nodes /\ e.to \in DOMAIN nodes
                      /\ e.from = e.to => e.type = "continue"
                      /\ e.type = "merge_parent" => e.brief \in DOMAIN briefs
                      /\ nodes[e.to].origin = "reconciled" => e.type = "compact"
  /\ \A b \in DOMAIN briefs : briefs[b].about \subseteq DOMAIN nodes
  /\ \A i \in DOMAIN nodes : nodes[i].origin = "merge" => Joined(i)

\* Two nodes stand for one native id only where a session was found on disk
\* before its ledger row had the id; then the older row answers every hook.
Twins(n) == {nodes[i].origin : i \in Named(nodes, n)}
OneNodePerSession ==
  /\ \A k \in Kernel : Cardinality(NodeOf(nodes, k)) <= 1
  /\ \A n \in Native : Cardinality(Named(nodes, n)) = Cardinality(Twins(n))

\* What a session's hooks wrote is about the node the session resolves to,
\* so that its next start finds it; and a completed session has its brief.
BriefsFollowSession ==
  /\ \A b \in DOMAIN briefs : briefs[b].key # None =>
       briefs[b].about = {ByNative(nodes, briefs[b].key[2])}
  /\ \A i \in DOMAIN nodes :
       nodes[i].state = "completed" /\ nodes[i].origin # "snapshot" =>
         \E b \in DOMAIN briefs : briefs[b].about = {i}

WorkstreamsInv ==
  /\ LineageTypeOK /\ OneBriefPerEvent /\ GraphIntact
  /\ OneNodePerSession /\ BriefsFollowSession

\* Every key consumed gets its brief, unless its handler failed or the
\* broker restarted: a post for a session not yet known does not use it up.
PostsBriefed ==
  []<>(\A key \in produced : Briefed(key) # {} \/ key \in lost)
=============================================================================
