--------------------------- MODULE ServicesProofs ---------------------------
(***************************************************************************)
(* Two services of the broker that work beside the kernel, and share       *)
(* nothing with each other but what is proved about finite sets.           *)
(*                                                                         *)
(* Supervision: the governor keeps its promises whatever falls into the    *)
(* awaits of its ticks, for every set of sessions and overlapping ticks,   *)
(* every gate and all lines of the watchdog.                               *)
(*                                                                         *)
(* Workstreams: the lineage tables stay whole under retried hooks, failing *)
(* writes and restarts, for every set of sessions and workstreams.         *)
(***************************************************************************)
EXTENDS Supervision, Workstreams, FiniteSetTheorems, WellFoundedInduction,
        SequenceTheorems, TLAPS

Pressures == {"normal", "amber", "red"}
Items == Sessions \cup {EvictModel}

TickRecord ==
  [phase : Phases, now : 0..MaxTime, live : SUBSET Sessions,
   queue : Seq(Items), red : BOOLEAN, excused : SUBSET Sessions,
   late : BOOLEAN]

\* A tick away from the thread awaits the port of its first item; only the
\* shed plan names the model, and it names no account session.
QueueShape ==
  \A t \in Ticks :
    /\ tick[t].phase = "idle" => tick[t].queue = <<>>
    /\ tick[t].phase # "idle" /\ thread # t => tick[t].queue # <<>>
    /\ tick[t].phase = "shed" => ToSet(tick[t].queue) \cap Account = {}
    /\ tick[t].phase # "shed" => EvictModel \notin ToSet(tick[t].queue)

\* What a red pass still owes is ahead of it in its queue.
ShedAhead ==
  \A t \in Ticks : tick[t].phase = "shed" /\ tick[t].red =>
    tick[t].live \ Account
      \subseteq (hibernated \ stale) \cup tick[t].excused \cup ToSet(tick[t].queue)

\* A call of a shed pass that was overtaken is for a session that the pass
\* saw, and need not answer for any more.
LateExcused ==
  \A t \in Ticks :
    /\ tick[t].late => tick[t].phase \in {"shed", "hibernate"}
    /\ tick[t].phase = "shed" =>
         /\ ToSet(tick[t].queue) \subseteq tick[t].live \cup {EvictModel}
         /\ tick[t].late => Head(tick[t].queue) \in tick[t].excused

\* The counter is the length of the red run at the end of the evaluations.
RedRun ==
  /\ recent \in Seq(Pressures) /\ Len(recent) <= RedGate
  /\ redTicks <= Len(recent)
  /\ \A i \in 1..Len(recent) : i > Len(recent) - redTicks => recent[i] = "red"

\* Sessions come one at a time, so what a tick saw can be put in order.
SessionPart ==
  /\ registered \subseteq Sessions /\ IsFiniteSet(registered)
  /\ hibernated \subseteq Sessions /\ stale \subseteq hibernated
  /\ lastActivity \in [Sessions -> {Never} \cup 0..MaxTime]
  /\ clock \in 0..MaxTime /\ thread \in Ticks \cup {Free}

WatchdogPart ==
  /\ band \in [Sessions -> Bands]
  /\ since \in [Debounced -> {Never} \cup 0..MaxTime]
  /\ hot \in [Sessions -> BOOLEAN]
  /\ BandIsEarned

PressurePart == pressure \in Pressures /\ redTicks \in 0..RedGate /\ RedRun

TickPart ==
  /\ tick \in [Ticks -> TickRecord]
  /\ \A t \in Ticks : IsFiniteSet(tick[t].live)
  /\ QueueShape /\ ShedAhead /\ LateExcused

SupervisionIInv == SessionPart /\ WatchdogPart /\ PressurePart /\ TickPart

-----------------------------------------------------------------------------
(* Slot order.  Every finite set of slots has its sorted sequence: the     *)
(* smallest set without one would be a sorted set and a greatest slot.     *)

Sorted(q, n) == \A i, j \in 1..n : i < j => q[i] < q[j]
Ordered(S) == \E q \in [1..Cardinality(S) -> S] : Sorted(q, Cardinality(S))

Minimal(S, T) == \A R \in T : R \subseteq S => R = S

LEMMA MinimalSet ==
  ASSUME NEW U, IsFiniteSet(U), NEW T \in SUBSET (SUBSET U), NEW S0 \in T
  PROVE  \E S \in T : Minimal(S, T)
<1>1. IsWellFoundedOn(StrictSubsetOrdering(U), FiniteSubsetsOf(U))
  BY FS_StrictSubsetOrderingWellFounded
<1>a. T \subseteq FiniteSubsetsOf(U) /\ T # {}
  BY FS_FiniteSubsetsOfFinite
<1>2. PICK S \in T : \A R \in T : ~ (<<R, S>> \in StrictSubsetOrdering(U))
  BY <1>1, <1>a, WFMin, Zenon
<1>3. \A R \in T : R \in SUBSET U /\ S \in SUBSET U
  BY DEF FiniteSubsetsOf
<1>4. ASSUME NEW R \in T, R \subseteq S PROVE R = S
  BY <1>2, <1>3, <1>4 DEF StrictSubsetOrdering
<1> QED BY <1>4 DEF Minimal

LEMMA GreatestSlot ==
  ASSUME NEW S \in SUBSET Nat, IsFiniteSet(S), S # {}
  PROVE  \E m \in S : \A x \in S : x <= m
<1> DEFINE Tops == {R \in SUBSET S : R # {} /\ ~ \E m \in R : \A x \in R : x <= m}
<1>1. SUFFICES ASSUME NEW S0 \in Tops PROVE FALSE
  BY <1>1
<1>2. Tops \in SUBSET (SUBSET S)
  OBVIOUS
<1> HIDE DEF Tops
<1>a. PICK R \in Tops : Minimal(R, Tops)
  BY <1>1, <1>2, MinimalSet
<1>3. R \in Tops /\ \A Q \in Tops : Q \subseteq R => Q = R
  BY <1>a DEF Minimal
<1> USE DEF Tops
<1>4. PICK a \in R : TRUE
  BY <1>3
<1> DEFINE Q == R \ {a}
<1>5. Q # {}
  BY <1>3, <1>4
<1>6. Q \notin Tops
  BY <1>3, <1>4
<1>7. PICK m \in Q : \A x \in Q : x <= m
  BY <1>3, <1>5, <1>6
<1>8. a \in Nat /\ m \in Nat /\ m \in R
  BY <1>3, <1>4, <1>7
<1>9. CASE a <= m
  BY <1>3, <1>7, <1>8, <1>9
<1>10. CASE m <= a
  <2>1. \A x \in R : x <= a
    BY <1>3, <1>7, <1>8, <1>10
  <2> QED BY <2>1, <1>3, <1>4
<1> QED BY <1>8, <1>9, <1>10

LEMMA AllOrdered ==
  ASSUME NEW S \in SUBSET Nat, IsFiniteSet(S)
  PROVE  Ordered(S)
<1> DEFINE Odd == {R \in SUBSET S : ~ Ordered(R)}
<1>1. SUFFICES ASSUME NEW S0 \in Odd PROVE FALSE
  BY <1>1
<1>2. Odd \in SUBSET (SUBSET S)
  OBVIOUS
<1> HIDE DEF Odd
<1>a. PICK R \in Odd : Minimal(R, Odd)
  BY <1>1, <1>2, MinimalSet
<1>3. R \in Odd /\ \A Q \in Odd : Q \subseteq R => Q = R
  BY <1>a DEF Minimal
<1> USE DEF Odd
<1>4. R \in SUBSET Nat /\ IsFiniteSet(R)
  BY <1>3, FS_Subset
<1>5. R # {}
  <2>1. SUFFICES ASSUME R = {} PROVE FALSE
    BY <2>1
  <2>2. Cardinality(R) = 0
    BY <2>1, FS_EmptySet
  <2>3. <<>> \in [1..0 -> R] /\ Sorted(<<>>, 0)
    BY <2>1 DEF Sorted
  <2> QED BY <2>2, <2>3, <1>3 DEF Ordered
<1>6. PICK m \in R : \A x \in R : x <= m
  BY <1>4, <1>5, GreatestSlot
<1> DEFINE Q == R \ {m}
           n == Cardinality(Q)
<1>7. /\ IsFiniteSet(Q) /\ n \in Nat /\ Cardinality(R) = n + 1
  <2>1. Cardinality(R) \in Nat /\ Cardinality(Q) \in Nat /\ IsFiniteSet(Q)
    BY <1>4, FS_RemoveElement, FS_CardinalityType
  <2>2. Cardinality(Q) = Cardinality(R) - 1
    BY <1>4, <1>6, FS_RemoveElement
  <2> QED BY <2>1, <2>2
<1>8. Ordered(Q)
  BY <1>3, <1>6
<1>9. PICK q \in [1..n -> Q] : Sorted(q, n)
  BY <1>8 DEF Ordered
<1> DEFINE p == [i \in 1..(n + 1) |-> IF i = n + 1 THEN m ELSE q[i]]
<1> HIDE DEF n, Q
<1>10. \A i \in 1..(n + 1) : i # n + 1 => i \in 1..n
  BY <1>7
<1>11. p \in [1..(n + 1) -> R]
  BY <1>6, <1>9, <1>10 DEF Q
<1>12. \A i \in 1..n : q[i] \in Nat /\ q[i] < m
  <2>1. \A i \in 1..n : q[i] \in R /\ q[i] # m
    BY <1>9 DEF Q
  <2>2. SUFFICES ASSUME NEW i \in 1..n PROVE q[i] \in Nat /\ q[i] < m
    BY <2>2
  <2>3. q[i] \in Nat /\ m \in Nat
    BY <2>1, <1>4, <1>6
  <2>4. q[i] <= m /\ q[i] # m
    BY <2>1, <1>6
  <2> QED BY <2>3, <2>4
<1>13. Sorted(p, n + 1)
  <2>1. SUFFICES ASSUME NEW i \in 1..(n + 1), NEW j \in 1..(n + 1), i < j
                 PROVE  p[i] < p[j]
    BY <2>1 DEF Sorted
  <2>2. i \in 1..n
    BY <2>1, <1>7
  <2>3. CASE j = n + 1
    BY <2>2, <2>3, <1>7, <1>12
  <2>4. CASE j # n + 1
    BY <2>1, <2>2, <2>4, <1>7, <1>9, <1>10 DEF Sorted
  <2> QED BY <2>3, <2>4
<1> QED BY <1>3, <1>7, <1>11, <1>13 DEF Ordered

LEMMA SortedIsOneToOne ==
  ASSUME NEW S \in SUBSET Nat, NEW n \in Nat, NEW q \in [1..n -> S], Sorted(q, n)
  PROVE  q \in Injection(1..n, S)
<1>1. ASSUME NEW i \in 1..n, NEW j \in 1..n, q[i] = q[j] PROVE i = j
  <2>1. q[i] \in Nat /\ q[j] \in Nat
    OBVIOUS
  <2>2. ~ (i < j) /\ ~ (j < i)
    BY <2>1, <1>1 DEF Sorted
  <2> QED BY <2>2
<1> QED BY <1>1 DEF Injection, IsInjective

\* InSlotOrder names every session of a plan, and no other.
LEMMA SlotOrder ==
  ASSUME NEW S \in SUBSET Nat, IsFiniteSet(S)
  PROVE  InSlotOrder(S) \in Seq(S) /\ ToSet(InSlotOrder(S)) = S
<1>1. /\ Cardinality(S) \in Nat
      /\ IsFiniteSet(1..Cardinality(S))
      /\ Cardinality(1..Cardinality(S)) = Cardinality(S)
  BY FS_CardinalityType, FS_Interval
<1>2. PICK n \in Nat : n = Cardinality(S)
  BY <1>1
<1>3. \E r \in [1..n -> S] : \A i, j \in 1..n : i < j => r[i] < r[j]
  BY <1>2, AllOrdered DEF Ordered, Sorted
<1>4. PICK q \in [1..n -> S] : q = InSlotOrder(S) /\ Sorted(q, n)
  BY <1>2, <1>3, Zenon DEF InSlotOrder, Sorted
<1>5. q \in Injection(1..n, S)
  BY <1>4, SortedIsOneToOne
<1>6. q \in Surjection(1..n, S)
  BY <1>1, <1>2, <1>5, FS_Injection
<1>7. DOMAIN q = 1..n /\ q \in Seq(S)
  BY <1>4
<1>8. ToSet(q) = S
  BY <1>6, <1>7 DEF Surjection, ToSet
<1> QED BY <1>4, <1>7, <1>8

LEMMA PopSet ==
  ASSUME NEW X, NEW q \in Seq(X), q # <<>>
  PROVE  /\ Head(q) \in X /\ Tail(q) \in Seq(X)
         /\ ToSet(q) = {Head(q)} \cup ToSet(Tail(q))
<1>1. Len(q) \in Nat \ {0} /\ DOMAIN q = 1..Len(q) /\ Head(q) = q[1]
  OBVIOUS
<1>2. /\ Tail(q) \in Seq(X) /\ Len(Tail(q)) = Len(q) - 1
      /\ \A i \in 1..(Len(q) - 1) : Tail(q)[i] = q[i + 1]
  BY <1>1
<1>3. DOMAIN Tail(q) = 1..(Len(q) - 1)
  BY <1>2
<1>4. ASSUME NEW x \in ToSet(q) PROVE x \in {Head(q)} \cup ToSet(Tail(q))
  <2>1. PICK i \in 1..Len(q) : x = q[i]
    BY <1>1, <1>4 DEF ToSet
  <2>2. CASE i = 1
    BY <1>1, <2>1, <2>2
  <2>3. CASE i # 1
    <3>1. i - 1 \in 1..(Len(q) - 1) /\ (i - 1) + 1 = i
      BY <1>1, <2>3
    <3>2. Tail(q)[i - 1] = q[i]
      BY <1>2, <3>1
    <3> QED BY <1>3, <2>1, <3>1, <3>2 DEF ToSet
  <2> QED BY <2>2, <2>3
<1>5. ASSUME NEW x \in ToSet(Tail(q)) PROVE x \in ToSet(q)
  <2>1. PICK i \in 1..(Len(q) - 1) : x = Tail(q)[i]
    BY <1>3, <1>5 DEF ToSet
  <2>2. i + 1 \in 1..Len(q) /\ x = q[i + 1]
    BY <1>1, <1>2, <2>1
  <2> QED BY <1>1, <2>2 DEF ToSet
<1>6. Head(q) \in ToSet(q) /\ Head(q) \in X
  BY <1>1 DEF ToSet
<1> QED BY <1>2, <1>4, <1>5, <1>6

LEMMA JoinSet ==
  ASSUME NEW X, NEW p \in Seq(X), NEW q \in Seq(X)
  PROVE  p \o q \in Seq(X) /\ ToSet(p \o q) = ToSet(p) \cup ToSet(q)
<1>1. /\ p \o q \in Seq(X) /\ Len(p) \in Nat /\ Len(q) \in Nat
      /\ Len(p \o q) = Len(p) + Len(q)
      /\ DOMAIN p = 1..Len(p) /\ DOMAIN q = 1..Len(q)
      /\ DOMAIN (p \o q) = 1..(Len(p) + Len(q))
  OBVIOUS
<1>2. \A i \in 1..Len(p) : i \in 1..(Len(p) + Len(q)) /\ (p \o q)[i] = p[i]
  BY <1>1
<1>3. \A i \in 1..Len(q) : /\ Len(p) + i \in 1..(Len(p) + Len(q))
                           /\ (p \o q)[Len(p) + i] = q[i]
  BY <1>1
<1>4. ASSUME NEW x \in ToSet(p \o q) PROVE x \in ToSet(p) \cup ToSet(q)
  <2>1. PICK i \in 1..(Len(p) + Len(q)) : x = (p \o q)[i]
    BY <1>1, <1>4 DEF ToSet
  <2>2. CASE i <= Len(p)
    <3>1. i \in 1..Len(p)
      BY <1>1, <2>2
    <3> QED BY <1>1, <1>2, <2>1, <3>1 DEF ToSet
  <2>3. CASE i > Len(p)
    <3>1. i - Len(p) \in 1..Len(q) /\ Len(p) + (i - Len(p)) = i
      BY <1>1, <2>3
    <3>2. x = q[i - Len(p)]
      BY <1>3, <2>1, <3>1
    <3> QED BY <1>1, <3>1, <3>2 DEF ToSet
  <2> QED BY <1>1, <2>2, <2>3
<1>5. ToSet(p) \subseteq ToSet(p \o q) /\ ToSet(q) \subseteq ToSet(p \o q)
  BY <1>1, <1>2, <1>3 DEF ToSet
<1> QED BY <1>1, <1>4, <1>5

\* A plan over sessions that a tick saw names exactly those it is made for.
LEMMA PlanSet ==
  ASSUME NEW live \in SUBSET Sessions, IsFiniteSet(live), NEW S \in SUBSET live
  PROVE  InSlotOrder(S) \in Seq(Items) /\ ToSet(InSlotOrder(S)) = S
<1>1. S \in SUBSET Nat /\ IsFiniteSet(S) /\ S \subseteq Items
  BY SupervisionAssumption, FS_Subset DEF Items
<1>2. InSlotOrder(S) \in Seq(S) /\ ToSet(InSlotOrder(S)) = S
  BY <1>1, SlotOrder
<1>3. ASSUME NEW q \in Seq(S) PROVE q \in Seq(Items)
  <2>1. Len(q) \in Nat /\ q \in [1..Len(q) -> S]
    OBVIOUS
  <2>2. q \in [1..Len(q) -> Items]
    BY <1>1, <2>1
  <2> QED BY <2>1, <2>2
<1> QED BY <1>2, <1>3

\* A plan may be <<>> or one item.
LEMMA ShortPlans ==
  /\ <<>> \in Seq(Items) /\ ToSet(<<>>) = {}
  /\ <<EvictModel>> \in Seq(Items) /\ ToSet(<<EvictModel>>) = {EvictModel}
BY DEF ToSet, Items

LEMMA EvictIsNoSession == EvictModel \notin Sessions /\ Account \subseteq Sessions
BY SupervisionAssumption DEF EvictModel

LEMMA ShedPlan ==
  ASSUME NEW p, NEW resident \in BOOLEAN, NEW now,
         NEW live \in SUBSET Sessions, IsFiniteSet(live)
  PROVE  /\ PlanShed(p, resident, live, now) \in Seq(Items)
         /\ ToSet(PlanShed(p, resident, live, now)) \cap Account = {}
         /\ p = "red" => live \ (Account \cup hibernated)
                           \subseteq ToSet(PlanShed(p, resident, live, now))
         /\ ToSet(PlanShed(p, resident, live, now)) \subseteq live \cup {EvictModel}
<1> DEFINE V == Victims(live, now)
           first == IF resident THEN <<EvictModel>> ELSE <<>>
<1>1. V = live \ (Account \cup hibernated) /\ V \in SUBSET live
  BY DEF Victims
<1>2. InSlotOrder(V) \in Seq(Items) /\ ToSet(InSlotOrder(V)) = V
  BY <1>1, PlanSet
<1>3. first \in Seq(Items) /\ ToSet(first) \subseteq {EvictModel}
  BY ShortPlans
<1>4. PlanShed(p, resident, live, now)
        = IF p # "red" THEN <<>> ELSE first \o InSlotOrder(V)
  BY DEF PlanShed
<1> HIDE DEF V, first
<1>5. /\ first \o InSlotOrder(V) \in Seq(Items)
      /\ ToSet(first \o InSlotOrder(V)) = ToSet(first) \cup V
  BY <1>2, <1>3, JoinSet
<1> QED BY <1>1, <1>3, <1>4, <1>5, ShortPlans, EvictIsNoSession

LEMMA IdlePlan ==
  ASSUME NEW now, NEW live \in SUBSET Sessions, IsFiniteSet(live)
  PROVE  /\ PlanIdle(live, now) \in Seq(Items)
         /\ ToSet(PlanIdle(live, now)) \subseteq live
         /\ ~ AllowAccount => ToSet(PlanIdle(live, now)) \cap Account = {}
<1> DEFINE idle == {s \in live \ hibernated :
                     lastActivity[s] # Never /\ now - lastActivity[s] >= IdleWindow}
           late == IF AllowAccount THEN InSlotOrder(idle \cap Account) ELSE <<>>
<1>1. idle \ Account \in SUBSET live /\ idle \cap Account \in SUBSET live
  OBVIOUS
<1>2. /\ InSlotOrder(idle \ Account) \in Seq(Items)
      /\ ToSet(InSlotOrder(idle \ Account)) = idle \ Account
      /\ InSlotOrder(idle \cap Account) \in Seq(Items)
      /\ ToSet(InSlotOrder(idle \cap Account)) = idle \cap Account
  <2> HIDE DEF idle
  <2> QED BY <1>1, PlanSet
<1>3. late \in Seq(Items) /\ ToSet(late) = IF AllowAccount THEN idle \cap Account ELSE {}
  BY <1>2, ShortPlans
<1>4. PlanIdle(live, now) = InSlotOrder(idle \ Account) \o late
  BY DEF PlanIdle
<1> HIDE DEF idle, late
<1>5. /\ InSlotOrder(idle \ Account) \o late \in Seq(Items)
      /\ ToSet(InSlotOrder(idle \ Account) \o late)
           = (idle \ Account) \cup ToSet(late)
  <2>1. PICK q \in Seq(Items) :
          q = InSlotOrder(idle \ Account) /\ ToSet(q) = idle \ Account
    BY <1>2
  <2>2. late \in Seq(Items)
    BY <1>3
  <2>3. q \o late \in Seq(Items) /\ ToSet(q \o late) = ToSet(q) \cup ToSet(late)
    BY <2>2, JoinSet
  <2> QED BY <2>1, <2>3
<1> QED BY <1>1, <1>3, <1>4, <1>5

LEMMA InitIInv == Init => SupervisionIInv
<1> SUFFICES ASSUME Init PROVE SupervisionIInv
  OBVIOUS
<1>1. SessionPart
  BY SupervisionAssumption, FS_EmptySet DEF Init, SessionPart
<1>2. WatchdogPart
  BY DEF Init, WatchdogPart, Bands, BandIsEarned
<1>3. PressurePart
  BY SupervisionAssumption DEF Init, PressurePart, Pressures, RedRun
<1>4. TickPart
  <2>1. Idle \in TickRecord
    BY SupervisionAssumption, ShortPlans DEF Idle, TickRecord, Phases
  <2>2. tick \in [Ticks -> TickRecord] /\ \A t \in Ticks : tick[t] = Idle
    BY <2>1 DEF Init
  <2>3. /\ Idle.phase = "idle" /\ Idle.queue = <<>> /\ Idle.live = {}
        /\ Idle.late = FALSE
    BY DEF Idle
  <2>4. QueueShape /\ ShedAhead /\ LateExcused
    BY <2>2, <2>3, ShortPlans DEF QueueShape, ShedAhead, LateExcused
  <2> QED BY <2>2, <2>3, <2>4, FS_EmptySet DEF TickPart
<1> QED BY <1>1, <1>2, <1>3, <1>4 DEF SupervisionIInv

LEMMA WatchdogFrame ==
  ASSUME SupervisionIInv, UNCHANGED watchdogVars
  PROVE  WatchdogPart'
BY DEF SupervisionIInv, watchdogVars, WatchdogPart, BandIsEarned

LEMMA PressureFrame ==
  ASSUME SupervisionIInv, UNCHANGED pressureVars
  PROVE  PressurePart'
BY DEF SupervisionIInv, pressureVars, PressurePart, RedRun

\* The watchdog forgets a session together with what it was measured at.
LEMMA ForgetWatchdog ==
  ASSUME SupervisionIInv, NEW s, Forget(s), hot' = [hot EXCEPT ![s] = FALSE]
  PROVE  WatchdogPart'
<1>1. /\ band' = [band EXCEPT ![s] = "ok"]
      /\ since' = [d \in Debounced |-> IF d = s THEN Never ELSE since[d]]
      /\ WatchdogPart
  BY DEF Forget, SupervisionIInv
<1>2. band' \in [Sessions -> Bands] /\ hot' \in [Sessions -> BOOLEAN]
  BY <1>1 DEF WatchdogPart, Bands
<1>3. since' \in [Debounced -> {Never} \cup 0..MaxTime]
  BY <1>1 DEF WatchdogPart
<1>4. ASSUME NEW x \in Sessions
      PROVE  /\ band'[x] = "recycle" => hot'[x]
             /\ RecycleAt[x] = NoLine => band'[x] # "recycle"
  <2>1. CASE x = s
    BY <1>1, <2>1 DEF WatchdogPart
  <2>2. CASE x # s
    BY <1>1, <2>2 DEF WatchdogPart, BandIsEarned
  <2> QED BY <2>1, <2>2
<1> QED BY <1>2, <1>3, <1>4 DEF WatchdogPart, BandIsEarned

\* A tick takes the first item off its queue, whose call is over, and changes
\* nothing else but whom it excuses.
Pops(t) ==
  /\ tick' \in [Ticks -> TickRecord]
  /\ \A u \in Ticks \ {t} : tick'[u] = tick[u]
  /\ tick'[t].phase = tick[t].phase /\ tick'[t].live = tick[t].live
  /\ tick'[t].red = tick[t].red
  /\ tick[t].excused \subseteq tick'[t].excused
  /\ tick'[t].queue = Tail(tick[t].queue) /\ ~ tick'[t].late

LEMMA Awaiting ==
  ASSUME SupervisionIInv, NEW t \in Ticks, thread = Free, tick[t].phase # "idle"
  PROVE  /\ tick[t].queue \in Seq(Items) /\ tick[t].queue # <<>>
         /\ Head(tick[t].queue) \in Items
         /\ Tail(tick[t].queue) \in Seq(Items)
         /\ ToSet(tick[t].queue)
              = {Head(tick[t].queue)} \cup ToSet(Tail(tick[t].queue))
<1>1. tick[t] \in TickRecord /\ thread # t
  BY SupervisionAssumption DEF SupervisionIInv, TickPart
<1>2. tick[t].queue \in Seq(Items) /\ tick[t].queue # <<>>
  BY <1>1 DEF SupervisionIInv, TickPart, QueueShape, TickRecord
<1> QED BY <1>2, PopSet

LEMMA DonePops ==
  ASSUME SupervisionIInv, NEW t \in Ticks, thread = Free,
         tick[t].phase # "idle", Done(t)
  PROVE  Pops(t)
<1>1. tick \in [Ticks -> TickRecord] /\ tick[t] \in TickRecord
  BY DEF SupervisionIInv, TickPart
<1>2. Tail(tick[t].queue) \in Seq(Items)
  BY Awaiting
<1> DEFINE r == [tick[t] EXCEPT !.queue = Tail(tick[t].queue), !.late = FALSE]
<1>3. tick' = [tick EXCEPT ![t] = r]
  BY <1>1 DEF Done, TickRecord
<1>4. r \in TickRecord
  BY <1>1, <1>2 DEF TickRecord
<1>5. tick' \in [Ticks -> TickRecord]
  BY <1>1, <1>3, <1>4
<1>6. tick'[t] = r
  BY <1>1, <1>3
<1> QED BY <1>1, <1>3, <1>5, <1>6 DEF Pops, TickRecord

\* What is off the queue of a shed pass is asleep, excused or the model.
LEMMA PopTicks ==
  ASSUME SupervisionIInv, NEW t \in Ticks, thread = Free,
         tick[t].phase # "idle", Pops(t), thread' = t,
         hibernated \ stale \subseteq hibernated' \ stale',
         tick[t].phase = "shed" =>
           Head(tick[t].queue)
             \in (hibernated' \ stale') \cup tick'[t].excused \cup {EvictModel}
  PROVE  TickPart'
<1> USE DEF SupervisionIInv, TickPart
<1>1. ToSet(tick[t].queue)
        = {Head(tick[t].queue)} \cup ToSet(Tail(tick[t].queue))
  BY Awaiting
<1>2. \A u \in Ticks : u # t => tick'[u] = tick[u] /\ thread # u
  BY SupervisionAssumption DEF Pops
<1>3. \A u \in Ticks : tick'[u].live = tick[u].live
  BY <1>2 DEF Pops
<1>4. QueueShape'
  <2> SUFFICES ASSUME NEW u \in Ticks
               PROVE  /\ tick'[u].phase = "idle" => tick'[u].queue = <<>>
                      /\ tick'[u].phase # "idle" /\ thread' # u => tick'[u].queue # <<>>
                      /\ tick'[u].phase = "shed" => ToSet(tick'[u].queue) \cap Account = {}
                      /\ tick'[u].phase # "shed" => EvictModel \notin ToSet(tick'[u].queue)
    BY DEF QueueShape
  <2>1. CASE u = t
    BY <1>1, <2>1 DEF QueueShape, Pops
  <2>2. CASE u # t
    BY <1>2, <2>2 DEF QueueShape
  <2> QED BY <2>1, <2>2
<1>5. ShedAhead'
  <2> SUFFICES ASSUME NEW u \in Ticks, tick'[u].phase = "shed", tick'[u].red
               PROVE  tick'[u].live \ Account
                        \subseteq (hibernated' \ stale') \cup tick'[u].excused
                                    \cup ToSet(tick'[u].queue)
    BY DEF ShedAhead
  <2>1. CASE u = t
    <3>1. /\ tick[t].phase = "shed" /\ tick[t].red
          /\ tick[t].live \subseteq Sessions
      BY <2>1 DEF Pops, TickRecord
    <3>2. tick[t].live \ Account
            \subseteq (hibernated \ stale) \cup tick[t].excused
                        \cup ToSet(tick[t].queue)
      BY <3>1 DEF ShedAhead
    <3> QED BY <1>1, <2>1, <3>1, <3>2, EvictIsNoSession DEF Pops
  <2>2. CASE u # t
    BY <1>2, <2>2 DEF ShedAhead
  <2> QED BY <2>1, <2>2
<1>6. LateExcused'
  <2>1. ASSUME NEW u \in Ticks, u # t
        PROVE  tick'[u] = tick[u]
    BY <1>2, <2>1
  <2> QED BY <1>1, <2>1 DEF LateExcused, Pops
<1> QED BY <1>3, <1>4, <1>5, <1>6 DEF Pops

-----------------------------------------------------------------------------
(* One lemma per action. *)

\* A band of recycle after a sample is the band before or a sample at the line.
LEMMA BandStep ==
  ASSUME NEW s, NEW now, NEW mb, band[s] \in Bands
  PROVE  /\ BandAfter(s, mb, now) \in Bands
         /\ BandAfter(s, mb, now) = "recycle" =>
              band[s] = "recycle" \/ (mb # NoReading /\ mb >= RecycleAt[s])
<1>1. Target(s, mb, now) \in Bands
  BY DEF Target, Bands
<1>2. Target(s, mb, now) = "recycle" => mb >= RecycleAt[s]
  BY DEF Target
<1>3. WithMargin(s, band[s], Target(s, mb, now), mb)
        \in {Target(s, mb, now), "warn"} \cup ({band[s]} \cap {"recycle"})
  BY DEF WithMargin
<1> QED BY <1>1, <1>2, <1>3 DEF BandAfter, Bands

LEMMA EvaluateStep ==
  ASSUME SupervisionIInv, NEW sample \in [registered -> NoReading..MaxFootprint],
         Evaluate(registered, sample, clock)
  PROVE  WatchdogPart'
<1>1. WatchdogPart /\ SessionPart
  BY DEF SupervisionIInv
<1>2. \A s \in Sessions : band'[s] =
        IF s \in registered THEN BandAfter(s, sample[s], clock) ELSE band[s]
  BY DEF Evaluate
<1>3. band' \in [Sessions -> Bands]
  <2>1. \A s \in Sessions : band[s] \in Bands
    BY <1>1 DEF WatchdogPart
  <2>2. \A s \in Sessions : band'[s] \in Bands
    BY <1>2, <2>1, BandStep
  <2>3. band' = [s \in Sessions |->
          IF s \in registered THEN BandAfter(s, sample[s], clock) ELSE band[s]]
    BY DEF Evaluate
  <2> QED BY <2>2, <2>3
<1>4. since' \in [Debounced -> {Never} \cup 0..MaxTime]
  <2>1. \A s \in Debounced : since[s] \in {Never} \cup 0..MaxTime
    BY <1>1 DEF WatchdogPart
  <2>2. \A s \in Debounced : \A mb : SinceAfter(s, mb, clock) \in {Never} \cup 0..MaxTime
    BY <2>1, <1>1 DEF SinceAfter, SessionPart
  <2> QED BY <2>1, <2>2 DEF Evaluate
<1>5. /\ hot' \in [Sessions -> BOOLEAN]
      /\ \A s \in Sessions :
           hot'[s] = (hot[s] \/ (s \in registered /\ sample[s] >= RecycleAt[s]))
  BY <1>1 DEF Evaluate, WatchdogPart
<1>6. ASSUME NEW s \in Sessions, band'[s] = "recycle"
      PROVE  hot'[s] /\ RecycleAt[s] # NoLine
  <2>1. CASE band[s] = "recycle"
    BY <1>1, <1>5, <2>1 DEF WatchdogPart, BandIsEarned
  <2>2. CASE band[s] # "recycle"
    <3>1. band[s] \in Bands
      BY <1>1 DEF WatchdogPart
    <3>2. s \in registered
      BY <1>2, <1>6, <2>2
    <3>3. sample[s] >= RecycleAt[s] /\ sample[s] \in NoReading..MaxFootprint
      BY <1>2, <1>6, <2>2, <3>1, <3>2, BandStep
    <3>4. RecycleAt[s] # NoLine
      BY <3>3, SupervisionAssumption DEF NoReading
    <3> QED BY <1>5, <3>2, <3>3, <3>4
  <2> QED BY <2>1, <2>2
<1> QED BY <1>3, <1>4, <1>5, <1>6 DEF WatchdogPart, BandIsEarned

\* The tick record that a tick moves to keeps the shape of all of them.
LEMMA SetTick ==
  ASSUME SupervisionIInv, NEW t \in Ticks, NEW r \in TickRecord,
         tick' = [tick EXCEPT ![t] = r], IsFiniteSet(r.live),
         thread' = t \/ r.phase = "idle",
         \A u \in Ticks : u # t => thread # u,
         UNCHANGED sleepVars, ~ r.late,
         r.phase = "idle" => r.queue = <<>>,
         r.phase = "shed" => ToSet(r.queue) \cap Account = {},
         r.phase = "shed" => ToSet(r.queue) \subseteq r.live \cup {EvictModel},
         r.phase # "shed" => EvictModel \notin ToSet(r.queue),
         r.phase = "shed" /\ r.red =>
           r.live \ Account
             \subseteq (hibernated \ stale) \cup r.excused \cup ToSet(r.queue)
  PROVE  TickPart'
<1> USE DEF SupervisionIInv, TickPart, sleepVars
<1>1. /\ tick' \in [Ticks -> TickRecord] /\ tick'[t] = r
      /\ \A u \in Ticks : u # t => tick'[u] = tick[u]
  OBVIOUS
<1>2. QueueShape'
  <2> SUFFICES ASSUME NEW u \in Ticks
               PROVE  /\ tick'[u].phase = "idle" => tick'[u].queue = <<>>
                      /\ tick'[u].phase # "idle" /\ thread' # u => tick'[u].queue # <<>>
                      /\ tick'[u].phase = "shed" => ToSet(tick'[u].queue) \cap Account = {}
                      /\ tick'[u].phase # "shed" => EvictModel \notin ToSet(tick'[u].queue)
    BY DEF QueueShape
  <2>1. CASE u = t
    BY <1>1, <2>1
  <2>2. CASE u # t
    BY <1>1, <2>2 DEF QueueShape
  <2> QED BY <2>1, <2>2
<1>3. ShedAhead'
  <2> SUFFICES ASSUME NEW u \in Ticks, tick'[u].phase = "shed", tick'[u].red
               PROVE  tick'[u].live \ Account
                        \subseteq (hibernated' \ stale') \cup tick'[u].excused
                                    \cup ToSet(tick'[u].queue)
    BY DEF ShedAhead
  <2>1. CASE u = t
    BY <1>1, <2>1
  <2>2. CASE u # t
    BY <1>1, <2>2 DEF ShedAhead
  <2> QED BY <2>1, <2>2
<1>4. \A u \in Ticks : IsFiniteSet(tick'[u].live)
  BY <1>1
<1>5. LateExcused'
  BY <1>1 DEF LateExcused
<1> QED BY <1>1, <1>2, <1>3, <1>4, <1>5

LEMMA BeginStep ==
  ASSUME SupervisionIInv, NEW t \in Ticks,
         NEW sample \in [registered -> NoReading..MaxFootprint], Begin(t, sample)
  PROVE  SupervisionIInv'
<1> DEFINE due == {s \in registered : band'[s] = "recycle"}
           r == [phase |-> "recycle", now |-> clock, live |-> registered,
                 queue |-> InSlotOrder(due), red |-> FALSE, excused |-> {},
                 late |-> FALSE]
<1>1. SessionPart
  BY DEF SupervisionIInv
<1>2. SessionPart' /\ PressurePart'
  BY <1>1, PressureFrame DEF Begin, SessionPart, sessionVars, sleepVars
<1>3. WatchdogPart'
  BY EvaluateStep DEF Begin
<1>4. InSlotOrder(due) \in Seq(Items) /\ ToSet(InSlotOrder(due)) = due
  BY <1>1, PlanSet DEF SessionPart
<1>5. tick' = [tick EXCEPT ![t] = r] /\ thread = Free /\ thread' = t /\ UNCHANGED sleepVars
  BY DEF Begin
<1>6. due \subseteq Sessions
  BY <1>1 DEF SessionPart
<1> HIDE DEF due
<1>7. /\ r \in TickRecord /\ r.phase = "recycle" /\ r.live = registered
      /\ r.queue = InSlotOrder(due) /\ ~ r.late
  BY <1>1, <1>4 DEF TickRecord, Phases, SessionPart
<1>8. IsFiniteSet(registered)
  BY <1>1 DEF SessionPart
<1> HIDE DEF r
<1>9. \A u \in Ticks : u # t => thread # u
  BY <1>5, SupervisionAssumption
<1>10. TickPart'
  BY <1>4, <1>5, <1>6, <1>7, <1>8, <1>9, EvictIsNoSession, SetTick
<1> QED BY <1>2, <1>3, <1>10 DEF SupervisionIInv

LEMMA AwaitStep ==
  ASSUME SupervisionIInv, NEW t \in Ticks, Await(t)
  PROVE  SupervisionIInv'
<1>1. SessionPart' /\ WatchdogPart' /\ PressurePart'
  BY WatchdogFrame, PressureFrame DEF Await, SupervisionIInv, SessionPart, sessionVars, sleepVars
<1>2. /\ UNCHANGED <<tick, hibernated, stale>> /\ thread = t /\ thread' = Free
      /\ tick[t].queue # <<>> /\ TickPart
  BY DEF Await, SupervisionIInv, sleepVars
<1>3. QueueShape' /\ ShedAhead' /\ LateExcused'
  BY <1>2 DEF TickPart, QueueShape, ShedAhead, LateExcused
<1>4. TickPart'
  BY <1>2, <1>3 DEF TickPart
<1> QED BY <1>1, <1>4 DEF SupervisionIInv

LEMMA RecycledStep ==
  ASSUME SupervisionIInv, NEW t \in Ticks, Recycled(t)
  PROVE  SupervisionIInv'
<1>1. /\ thread = Free /\ tick[t].phase = "recycle" /\ thread' = t /\ Done(t)
      /\ hibernated' = hibernated /\ stale' = stale
      /\ UNCHANGED <<sessionVars, pressureVars, clock>>
  BY DEF Recycled, Resumes, sleepVars
<1>2. SessionPart' /\ PressurePart'
  BY <1>1, PressureFrame DEF SupervisionIInv, SessionPart, sessionVars, sleepVars
<1>3. WatchdogPart'
  BY ForgetWatchdog DEF Recycled
<1>4. TickPart'
  BY <1>1, DonePops, PopTicks
<1> QED BY <1>2, <1>3, <1>4 DEF SupervisionIInv

LEMMA RecycleFailedStep ==
  ASSUME SupervisionIInv, NEW t \in Ticks, RecycleFailed(t)
  PROVE  SupervisionIInv'
<1>1. /\ thread = Free /\ tick[t].phase = "recycle" /\ thread' = t /\ Done(t)
      /\ hibernated' = hibernated /\ stale' = stale
      /\ UNCHANGED <<sessionVars, watchdogVars, pressureVars, clock>>
  BY DEF RecycleFailed, Resumes, sleepVars
<1>2. SessionPart' /\ PressurePart' /\ WatchdogPart'
  BY <1>1, PressureFrame, WatchdogFrame DEF SupervisionIInv, SessionPart, sessionVars, sleepVars
<1>3. TickPart'
  BY <1>1, DonePops, PopTicks
<1> QED BY <1>2, <1>3 DEF SupervisionIInv

LEMMA EvictedStep ==
  ASSUME SupervisionIInv, NEW t \in Ticks, Evicted(t)
  PROVE  SupervisionIInv'
<1>1. /\ thread = Free /\ tick[t].phase = "shed" /\ thread' = t /\ Done(t)
      /\ hibernated' = hibernated /\ stale' = stale /\ Head(tick[t].queue) = EvictModel
      /\ UNCHANGED <<sessionVars, watchdogVars, pressureVars, clock>>
  BY DEF Evicted, Resumes, sleepVars
<1>2. SessionPart' /\ PressurePart' /\ WatchdogPart'
  BY <1>1, PressureFrame, WatchdogFrame DEF SupervisionIInv, SessionPart, sessionVars, sleepVars
<1>3. TickPart'
  BY <1>1, DonePops, PopTicks
<1> QED BY <1>2, <1>3 DEF SupervisionIInv

LEMMA HibernatedStep ==
  ASSUME SupervisionIInv, NEW t \in Ticks, Hibernated(t)
  PROVE  SupervisionIInv'
<1>1. /\ thread = Free /\ tick[t].phase # "idle" /\ thread' = t /\ Done(t)
      /\ Head(tick[t].queue) # EvictModel
      /\ hibernated' = hibernated \cup {Head(tick[t].queue)}
      /\ stale' = IF tick[t].late
                  THEN stale \cup ({Head(tick[t].queue)} \ hibernated)
                  ELSE stale \ {Head(tick[t].queue)}
      /\ UNCHANGED <<sessionVars, watchdogVars, pressureVars, clock>>
  BY DEF Hibernated, Resumes
<1>2. Head(tick[t].queue) \in Sessions
  BY <1>1, Awaiting DEF Items
<1>3. SessionPart' /\ PressurePart' /\ WatchdogPart'
  BY <1>1, <1>2, PressureFrame, WatchdogFrame
     DEF SupervisionIInv, SessionPart, sessionVars, sleepVars
<1>4. TickPart'
  <2>1. Pops(t) /\ hibernated \ stale \subseteq hibernated' \ stale'
    BY <1>1, DonePops
  <2>2. ASSUME tick[t].phase = "shed"
        PROVE  Head(tick[t].queue) \in (hibernated' \ stale') \cup tick'[t].excused
    <3>1. CASE tick[t].late
      BY <2>1, <2>2, <3>1 DEF SupervisionIInv, TickPart, LateExcused, Pops
    <3>2. CASE ~ tick[t].late
      BY <1>1, <3>2
    <3> QED BY <3>1, <3>2
  <2> QED BY <1>1, <2>1, <2>2, PopTicks
<1> QED BY <1>3, <1>4 DEF SupervisionIInv

LEMMA HibernateFailedStep ==
  ASSUME SupervisionIInv, NEW t \in Ticks, HibernateFailed(t)
  PROVE  SupervisionIInv'
<1>1. /\ thread = Free /\ tick[t].phase # "idle" /\ thread' = t
      /\ Head(tick[t].queue) # EvictModel /\ hibernated' = hibernated
      /\ stale' = stale
      /\ UNCHANGED <<sessionVars, watchdogVars, pressureVars, clock>>
  BY DEF HibernateFailed, Resumes, sleepVars
<1>2. Head(tick[t].queue) \in Sessions /\ Tail(tick[t].queue) \in Seq(Items)
  BY <1>1, Awaiting DEF Items
<1>3. SessionPart' /\ PressurePart' /\ WatchdogPart'
  BY <1>1, PressureFrame, WatchdogFrame DEF SupervisionIInv, SessionPart, sessionVars, sleepVars
<1> DEFINE ex == IF tick[t].phase = "shed"
                 THEN tick[t].excused \cup {Head(tick[t].queue)}
                 ELSE tick[t].excused
           r == [tick[t] EXCEPT !.queue = Tail(tick[t].queue), !.late = FALSE,
                                !.excused = ex]
<1>4. tick \in [Ticks -> TickRecord] /\ tick[t] \in TickRecord
  BY DEF SupervisionIInv, TickPart
<1>5. tick' = [tick EXCEPT ![t] = r]
  BY <1>4 DEF HibernateFailed, TickRecord
<1>6. ex \in SUBSET Sessions
  BY <1>2, <1>4 DEF TickRecord
<1>7. r \in TickRecord
  <2> HIDE DEF ex
  <2> QED BY <1>2, <1>4, <1>6 DEF TickRecord
<1>8. /\ r.phase = tick[t].phase /\ r.live = tick[t].live /\ r.red = tick[t].red
      /\ r.queue = Tail(tick[t].queue) /\ r.excused = ex /\ ~ r.late
  BY <1>4 DEF TickRecord
<1> HIDE DEF r
<1>9. tick'[t] = r /\ Pops(t)
  BY <1>4, <1>5, <1>7, <1>8 DEF Pops
<1>10. TickPart'
  BY <1>1, <1>8, <1>9, PopTicks
<1> QED BY <1>3, <1>10 DEF SupervisionIInv

LEMMA AppendFacts ==
  ASSUME NEW X, NEW q \in Seq(X), NEW x \in X
  PROVE  /\ Append(q, x) \in Seq(X) /\ Len(Append(q, x)) = Len(q) + 1
         /\ \A i \in 1..Len(q) : Append(q, x)[i] = q[i]
         /\ Append(q, x)[Len(q) + 1] = x
OBVIOUS

\* The counter and the evaluations it counts move together.
LEMMA CountStep ==
  ASSUME SupervisionIInv, NEW p \in Pressures, pressure' = p,
         redTicks' = RedCount(p),
         recent' = IF RedGate = 0 THEN <<>>
                   ELSE Append(IF Len(recent) = RedGate THEN Tail(recent)
                               ELSE recent, p)
  PROVE  PressurePart'
<1>1. /\ RedGate \in Nat /\ redTicks \in 0..RedGate /\ recent \in Seq(Pressures)
      /\ Len(recent) \in Nat /\ Len(recent) <= RedGate /\ redTicks <= Len(recent)
      /\ \A i \in 1..Len(recent) : i > Len(recent) - redTicks => recent[i] = "red"
  BY SupervisionAssumption DEF SupervisionIInv, PressurePart, RedRun
<1>2. /\ redTicks' \in 0..RedGate /\ redTicks' <= redTicks + 1
      /\ p # "red" => redTicks' = 0
  BY <1>1 DEF RedCount
<1>3. CASE RedGate = 0
  <2>1. recent' = <<>> /\ redTicks' = 0
    BY <1>2, <1>3
  <2> QED BY <1>2, <1>3, <2>1 DEF PressurePart, RedRun
<1>4. CASE RedGate # 0
  <2> DEFINE kept == IF Len(recent) = RedGate THEN Tail(recent) ELSE recent
             off == IF Len(recent) = RedGate THEN 1 ELSE 0
  <2>1. Len(recent) = RedGate => recent # <<>>
    BY <1>1, <1>4
  <2>2. /\ kept \in Seq(Pressures) /\ Len(kept) = Len(recent) - off
        /\ \A i \in 1..Len(kept) : kept[i] = recent[i + off]
    <3>1. CASE Len(recent) = RedGate
      BY <1>1, <2>1, <3>1
    <3>2. CASE Len(recent) # RedGate
      BY <1>1, <3>2
    <3> QED BY <3>1, <3>2
  <2>3. recent' = Append(kept, p)
    BY <1>4
  <2>4. off \in {0, 1} /\ Len(recent) - off + 1 <= RedGate /\ Len(recent) - off \in Nat
        /\ redTicks' <= Len(recent) - off + 1
    BY <1>1, <1>2, <1>4
  <2> HIDE DEF kept, off
  <2>5. /\ recent' \in Seq(Pressures) /\ Len(recent') = Len(kept) + 1
        /\ \A i \in 1..Len(kept) : recent'[i] = kept[i]
        /\ recent'[Len(kept) + 1] = p
    <3>1. PICK k \in Seq(Pressures) : k = kept
      BY <2>2
    <3>2. /\ Append(k, p) \in Seq(Pressures) /\ Len(Append(k, p)) = Len(k) + 1
          /\ \A i \in 1..Len(k) : Append(k, p)[i] = k[i]
          /\ Append(k, p)[Len(k) + 1] = p
      BY AppendFacts
    <3>3. recent' = Append(k, p)
      BY <2>3, <3>1
    <3> QED BY <3>1, <3>2, <3>3
  <2>6. ASSUME NEW i \in 1..Len(recent'), i > Len(recent') - redTicks'
        PROVE  recent'[i] = "red"
    <3>1. p = "red"
      BY <1>2, <2>2, <2>4, <2>5, <2>6
    <3>2. CASE i = Len(kept) + 1
      BY <2>5, <3>1, <3>2
    <3>3. CASE i # Len(kept) + 1
      <4>1. i \in 1..Len(kept) /\ recent'[i] = recent[i + off]
        BY <2>2, <2>4, <2>5, <2>6, <3>3
      <4>2. /\ i \in Nat /\ i >= 1 /\ i <= Len(recent) - off
            /\ i > Len(recent) - off + 1 - redTicks'
        <5>1. Len(kept) = Len(recent) - off /\ Len(recent') = Len(recent) - off + 1
          BY <2>2, <2>5
        <5>2. redTicks' \in Nat
          BY <1>1, <1>2
        <5> QED BY <2>4, <2>6, <4>1, <5>1, <5>2, SMTT(20)
      <4>3. /\ off \in Nat /\ Len(recent) \in Nat
            /\ redTicks \in Nat /\ redTicks' \in Nat /\ redTicks' <= redTicks + 1
        BY <1>1, <1>2, <2>4
      <4>4. i + off \in 1..Len(recent) /\ i + off > Len(recent) - redTicks
        BY <4>2, <4>3
      <4> QED BY <1>1, <4>1, <4>4
    <3> QED BY <3>2, <3>3
  <2> QED BY <1>2, <2>2, <2>4, <2>5, <2>6 DEF PressurePart, RedRun
<1> QED BY <1>3, <1>4

LEMMA MeasureStep ==
  ASSUME SupervisionIInv, NEW t \in Ticks, NEW p \in Pressures,
         NEW resident \in BOOLEAN, Measure(t, p, resident)
  PROVE  SupervisionIInv'
<1> DEFINE plan == PlanShed(p, resident, tick[t].live, tick[t].now)
           r == [tick[t] EXCEPT !.phase = "shed", !.red = (p = "red"),
                                !.excused = stale, !.queue = plan]
<1>1. /\ thread = t /\ thread' = t /\ UNCHANGED sleepVars
      /\ UNCHANGED <<sessionVars, watchdogVars, clock>>
  BY DEF Measure
<1>2. SessionPart' /\ WatchdogPart'
  BY <1>1, WatchdogFrame DEF SupervisionIInv, SessionPart, sessionVars, sleepVars
<1>3. PressurePart'
  BY CountStep DEF Measure
<1>4. /\ tick \in [Ticks -> TickRecord] /\ tick[t] \in TickRecord
      /\ IsFiniteSet(tick[t].live) /\ tick[t].live \in SUBSET Sessions
      /\ ~ tick[t].late /\ stale \in SUBSET Sessions
  BY DEF SupervisionIInv, TickPart, TickRecord, LateExcused, SessionPart, Measure
<1>5. /\ plan \in Seq(Items) /\ ToSet(plan) \cap Account = {}
      /\ p = "red" => tick[t].live \ (Account \cup hibernated) \subseteq ToSet(plan)
      /\ ToSet(plan) \subseteq tick[t].live \cup {EvictModel}
  BY <1>4, ShedPlan
<1>6. tick' = [tick EXCEPT ![t] = r]
  BY <1>4 DEF Measure, TickRecord
<1> HIDE DEF plan
<1>7. r \in TickRecord
  BY <1>4, <1>5 DEF TickRecord, Phases
<1>8. /\ r.phase = "shed" /\ r.live = tick[t].live /\ r.red = (p = "red")
      /\ r.queue = plan /\ r.excused = stale /\ ~ r.late
  BY <1>4 DEF TickRecord
<1> HIDE DEF r
<1>9. r.red => r.live \ Account
                 \subseteq (hibernated \ stale) \cup r.excused \cup ToSet(r.queue)
  BY <1>5, <1>8
<1>10. \A u \in Ticks : u # t => thread # u
  BY <1>1
<1>11. TickPart'
  BY <1>1, <1>4, <1>5, <1>6, <1>7, <1>8, <1>9, <1>10, SetTick
<1> QED BY <1>2, <1>3, <1>11 DEF SupervisionIInv

LEMMA PlanHibernationStep ==
  ASSUME SupervisionIInv, NEW t \in Ticks, PlanHibernation(t)
  PROVE  SupervisionIInv'
<1> DEFINE plan == PlanIdle(tick[t].live, tick[t].now)
           r == [phase |-> "hibernate", now |-> 0, live |-> {}, queue |-> plan,
                 red |-> FALSE, excused |-> {}, late |-> FALSE]
<1>1. /\ thread = t /\ thread' = t /\ UNCHANGED sleepVars
      /\ UNCHANGED <<sessionVars, watchdogVars, pressureVars, clock>>
  BY DEF PlanHibernation
<1>2. SessionPart' /\ WatchdogPart' /\ PressurePart'
  BY <1>1, WatchdogFrame, PressureFrame DEF SupervisionIInv, SessionPart, sessionVars, sleepVars
<1>3. /\ tick \in [Ticks -> TickRecord] /\ tick[t] \in TickRecord
      /\ IsFiniteSet(tick[t].live) /\ tick[t].live \in SUBSET Sessions
  BY DEF SupervisionIInv, TickPart, TickRecord
<1>4. plan \in Seq(Items) /\ ToSet(plan) \subseteq tick[t].live
  BY <1>3, IdlePlan
<1>5. tick' = [tick EXCEPT ![t] = r]
  BY DEF PlanHibernation
<1> HIDE DEF plan
<1>6. /\ r \in TickRecord /\ r.phase = "hibernate" /\ r.queue = plan
      /\ ~ r.late /\ r.live = {}
  BY <1>4, SupervisionAssumption DEF TickRecord, Phases
<1>7. IsFiniteSet(r.live)
  BY <1>6, FS_EmptySet
<1> HIDE DEF r
<1>8. \A u \in Ticks : u # t => thread # u
  BY <1>1
<1>9. EvictModel \notin ToSet(r.queue)
  BY <1>3, <1>4, <1>6, EvictIsNoSession
<1>10. TickPart'
  BY <1>1, <1>5, <1>6, <1>7, <1>8, <1>9, SetTick
<1> QED BY <1>2, <1>10 DEF SupervisionIInv

LEMMA FinishStep ==
  ASSUME SupervisionIInv, NEW t \in Ticks, Finish(t)
  PROVE  SupervisionIInv'
<1>1. /\ thread = t /\ thread' = Free /\ UNCHANGED sleepVars
      /\ UNCHANGED <<sessionVars, watchdogVars, pressureVars, clock>>
      /\ tick' = [tick EXCEPT ![t] = Idle]
  BY DEF Finish
<1>2. SessionPart' /\ WatchdogPart' /\ PressurePart'
  BY <1>1, WatchdogFrame, PressureFrame DEF SupervisionIInv, SessionPart, sessionVars, sleepVars
<1>3. Idle \in TickRecord
  BY SupervisionAssumption, ShortPlans DEF Idle, TickRecord, Phases
<1>4. Idle.phase = "idle" /\ Idle.queue = <<>> /\ Idle.live = {} /\ ~ Idle.late
  BY DEF Idle
<1>5. EvictModel \notin ToSet(Idle.queue) /\ IsFiniteSet(Idle.live)
  BY <1>4, ShortPlans, FS_EmptySet
<1>6. \A u \in Ticks : u # t => thread # u
  BY <1>1
<1>7. TickPart'
  BY <1>1, <1>3, <1>4, <1>5, <1>6, SetTick
<1> QED BY <1>2, <1>7 DEF SupervisionIInv

LEMMA RegisterStep ==
  ASSUME SupervisionIInv, NEW s \in Sessions, Register(s)
  PROVE  SupervisionIInv'
<1>1. /\ registered' = registered \cup {s}
      /\ UNCHANGED <<lastActivity, hibernated, stale, watchdogVars, pressureVars,
                     clock, tick, thread>>
  BY DEF Register, sleepVars
<1>2. SessionPart'
  BY <1>1, FS_AddElement DEF SupervisionIInv, SessionPart
<1>3. WatchdogPart' /\ PressurePart'
  BY <1>1, WatchdogFrame, PressureFrame
<1>4. TickPart'
  BY <1>1 DEF SupervisionIInv, TickPart, QueueShape, ShedAhead, LateExcused
<1> QED BY <1>2, <1>3, <1>4 DEF SupervisionIInv

\* Every pass that sheds a session answers for it no longer once it is gone
\* or awake.
LEMMA OvertakenTicks ==
  ASSUME SupervisionIInv, NEW s \in Sessions, Overtakes(s), thread = Free,
         hibernated' = hibernated \ {s}, stale' = stale \ {s}, UNCHANGED thread
  PROVE  TickPart'
<1> USE DEF SupervisionIInv, TickPart
<1>1. \A t \in Ticks : tick[t] \in TickRecord
  OBVIOUS
<1>2. ASSUME NEW t \in Ticks
      PROVE  /\ tick'[t] \in TickRecord
             /\ tick'[t].phase = tick[t].phase /\ tick'[t].live = tick[t].live
             /\ tick'[t].queue = tick[t].queue /\ tick'[t].red = tick[t].red
             /\ tick[t].excused \subseteq tick'[t].excused
             /\ tick[t].phase = "shed" /\ s \in tick[t].live \ Account
                  => s \in tick'[t].excused
             /\ tick'[t].late => \/ tick[t].late
                                 \/ /\ tick[t].phase \in {"shed", "hibernate"}
                                    /\ s = Head(tick[t].queue) /\ s \notin Account
  <2>1. CASE s \in Account
    BY <1>1, <2>1 DEF Overtakes
  <2>2. CASE s \notin Account
    <3> DEFINE ex == IF tick[t].phase = "shed" /\ s \in tick[t].live
                     THEN tick[t].excused \cup {s} ELSE tick[t].excused
               lt == IF /\ tick[t].phase \in {"shed", "hibernate"}
                        /\ s = Head(tick[t].queue)
                     THEN TRUE ELSE tick[t].late
               r == [tick[t] EXCEPT !.excused = ex, !.late = lt]
    <3>1. tick'[t] = r
      BY <2>2 DEF Overtakes
    <3>2. ex \in SUBSET Sessions /\ lt \in BOOLEAN
      BY <1>1 DEF TickRecord
    <3>3. /\ tick[t].excused \subseteq ex
          /\ tick[t].phase = "shed" /\ s \in tick[t].live => s \in ex
      OBVIOUS
    <3>4. lt => \/ tick[t].late
                \/ tick[t].phase \in {"shed", "hibernate"} /\ s = Head(tick[t].queue)
      OBVIOUS
    <3> HIDE DEF ex, lt
    <3>5. /\ r \in TickRecord /\ r.phase = tick[t].phase /\ r.live = tick[t].live
          /\ r.queue = tick[t].queue /\ r.red = tick[t].red
          /\ r.excused = ex /\ r.late = lt
      BY <1>1, <3>2 DEF TickRecord
    <3> HIDE DEF r
    <3> QED BY <2>2, <3>1, <3>3, <3>4, <3>5
  <2> QED BY <2>1, <2>2
<1>3. tick' \in [Ticks -> TickRecord]
  <2>1. CASE s \in Account
    BY <2>1 DEF Overtakes
  <2>2. CASE s \notin Account
    <3>1. tick' = [t \in Ticks |-> tick'[t]]
      BY <2>2 DEF Overtakes
    <3> QED BY <1>2, <3>1
  <2> QED BY <2>1, <2>2
<1>4. QueueShape'
  BY <1>2 DEF QueueShape
<1>5. ShedAhead'
  <2> SUFFICES ASSUME NEW t \in Ticks, tick'[t].phase = "shed", tick'[t].red,
                      NEW x \in tick'[t].live \ Account
               PROVE  x \in (hibernated' \ stale') \cup tick'[t].excused
                              \cup ToSet(tick'[t].queue)
    BY DEF ShedAhead
  <2>1. x \in (hibernated \ stale) \cup tick[t].excused \cup ToSet(tick[t].queue)
    BY <1>2 DEF ShedAhead
  <2> QED BY <1>2, <2>1
<1>6. LateExcused'
  <2> SUFFICES ASSUME NEW t \in Ticks
               PROVE  /\ tick'[t].late => tick'[t].phase \in {"shed", "hibernate"}
                      /\ tick'[t].phase = "shed" =>
                           /\ ToSet(tick'[t].queue) \subseteq tick'[t].live \cup {EvictModel}
                           /\ tick'[t].late => Head(tick'[t].queue) \in tick'[t].excused
    BY DEF LateExcused
  <2>1. ASSUME tick[t].phase = "shed"
        PROVE  Head(tick[t].queue) \in tick[t].live \cup {EvictModel}
    BY <2>1, Awaiting DEF LateExcused
  <2> QED BY <1>2, <2>1, EvictIsNoSession DEF LateExcused
<1> QED BY <1>2, <1>3, <1>4, <1>5, <1>6

LEMMA DeregisterStep ==
  ASSUME SupervisionIInv, NEW s \in Sessions, Deregister(s)
  PROVE  SupervisionIInv'
<1>1. /\ registered' = registered \ {s} /\ hibernated' = hibernated \ {s}
      /\ stale' = stale \ {s} /\ thread = Free
      /\ lastActivity' = [lastActivity EXCEPT ![s] = Never]
      /\ UNCHANGED <<pressureVars, clock, thread>>
  BY DEF Deregister
<1>2. SessionPart'
  BY <1>1, FS_RemoveElement DEF SupervisionIInv, SessionPart
<1>3. WatchdogPart' /\ PressurePart'
  BY <1>1, ForgetWatchdog, PressureFrame DEF Deregister
<1>4. TickPart'
  BY <1>1, OvertakenTicks DEF Deregister
<1> QED BY <1>2, <1>3, <1>4 DEF SupervisionIInv

LEMMA NoteActivityStep ==
  ASSUME SupervisionIInv, NEW s \in Sessions, NoteActivity(s)
  PROVE  SupervisionIInv'
<1>1. /\ hibernated' = hibernated \ {s} /\ stale' = stale \ {s} /\ thread = Free
      /\ lastActivity' = [lastActivity EXCEPT ![s] = clock]
      /\ UNCHANGED <<registered, watchdogVars, pressureVars, clock, thread>>
  BY DEF NoteActivity
<1>2. SessionPart'
  BY <1>1 DEF SupervisionIInv, SessionPart
<1>3. WatchdogPart' /\ PressurePart'
  BY <1>1, WatchdogFrame, PressureFrame
<1>4. TickPart'
  BY <1>1, OvertakenTicks DEF NoteActivity
<1> QED BY <1>2, <1>3, <1>4 DEF SupervisionIInv

LEMMA AdvanceStep ==
  ASSUME SupervisionIInv, Advance
  PROVE  SupervisionIInv'
<1>1. /\ clock < MaxTime /\ clock' = clock + 1
      /\ UNCHANGED <<sessionVars, hibernated, stale, watchdogVars, pressureVars,
                     tick, thread>>
  BY DEF Advance, sleepVars
<1>2. SessionPart'
  BY <1>1, SupervisionAssumption DEF SupervisionIInv, SessionPart, sessionVars, sleepVars
<1>3. WatchdogPart' /\ PressurePart'
  BY <1>1, WatchdogFrame, PressureFrame
<1>4. TickPart'
  BY <1>1 DEF SupervisionIInv, TickPart, QueueShape, ShedAhead, LateExcused
<1> QED BY <1>2, <1>3, <1>4 DEF SupervisionIInv

LEMMA StutterStep ==
  ASSUME SupervisionIInv, UNCHANGED vars
  PROVE  SupervisionIInv'
<1>1. UNCHANGED <<registered, lastActivity, hibernated, band, since, pressure,
                  redTicks, clock, tick, thread, hot, recent, stale>>
  BY DEF vars
<1>2. SessionPart' /\ WatchdogPart' /\ PressurePart'
  BY <1>1, WatchdogFrame, PressureFrame
     DEF SupervisionIInv, SessionPart, watchdogVars, pressureVars
<1>3. TickPart'
  BY <1>1 DEF SupervisionIInv, TickPart, QueueShape, ShedAhead, LateExcused
<1> QED BY <1>2, <1>3 DEF SupervisionIInv

LEMMA NextStep ==
  ASSUME SupervisionIInv, [Next]_vars
  PROVE  SupervisionIInv'
<1>1. CASE UNCHANGED vars
  BY <1>1, StutterStep
<1>2. CASE \E t \in Ticks, sample \in Footprints(registered) : Begin(t, sample)
  <2>1. Footprints(registered) \subseteq [registered -> NoReading..MaxFootprint]
    BY SupervisionAssumption DEF Footprints, NoReading
  <2> QED BY <1>2, <2>1, BeginStep
<1>3. CASE \E t \in Ticks :
             Await(t) \/ Recycled(t) \/ RecycleFailed(t) \/ Evicted(t)
  BY <1>3, AwaitStep, RecycledStep, RecycleFailedStep, EvictedStep
<1>4. CASE \E t \in Ticks, p \in Pressures, resident \in BOOLEAN :
             Measure(t, p, resident)
  BY <1>4, MeasureStep
<1>5. CASE \E t \in Ticks :
             Hibernated(t) \/ HibernateFailed(t) \/ PlanHibernation(t) \/ Finish(t)
  BY <1>5, HibernatedStep, HibernateFailedStep, PlanHibernationStep, FinishStep
<1>6. CASE \E s \in Sessions : Register(s) \/ Deregister(s) \/ NoteActivity(s)
  BY <1>6, RegisterStep, DeregisterStep, NoteActivityStep
<1>7. CASE Advance
  BY <1>7, AdvanceStep
<1> QED BY <1>1, <1>2, <1>3, <1>4, <1>5, <1>6, <1>7, Zenon DEF Next, Pressures

\* Only its own plan ends a tick's shed pass.
LEMMA PhaseStep ==
  ASSUME SupervisionIInv, Next, NEW t \in Ticks, tick[t].phase = "shed",
         tick'[t].phase = "hibernate"
  PROVE  PlanHibernation(t)
<1>1. tick \in [Ticks -> TickRecord] /\ \A u \in Ticks : tick[u] \in TickRecord
  BY DEF SupervisionIInv, TickPart
<1>2. ASSUME NEW u \in Ticks, NEW sample, Begin(u, sample) PROVE FALSE
  BY <1>1, <1>2 DEF Begin
<1>3. ASSUME NEW u \in Ticks, Done(u) PROVE FALSE
  BY <1>1, <1>3 DEF Done, TickRecord
<1>4. ASSUME NEW u \in Ticks, HibernateFailed(u) PROVE FALSE
  BY <1>1, <1>4 DEF HibernateFailed, TickRecord
<1>5. ASSUME NEW u \in Ticks, NEW p, NEW resident, Measure(u, p, resident) PROVE FALSE
  BY <1>1, <1>5 DEF Measure, TickRecord
<1>6. ASSUME NEW u \in Ticks, Finish(u) PROVE FALSE
  BY <1>1, <1>6 DEF Finish, Idle
<1>7. ASSUME NEW s, Overtakes(s) PROVE FALSE
  <2>1. CASE s \in Account
    BY <1>7, <2>1 DEF Overtakes
  <2>2. CASE s \notin Account
    <3>1. \E e, l : tick'[t] = [tick[t] EXCEPT !.excused = e, !.late = l]
      BY <1>7, <2>2 DEF Overtakes
    <3> QED BY <1>1, <3>1 DEF TickRecord
  <2> QED BY <2>1, <2>2
<1>8. ASSUME UNCHANGED tick PROVE FALSE
  BY <1>8
<1>9. ASSUME NEW u \in Ticks, u # t, PlanHibernation(u) PROVE FALSE
  BY <1>1, <1>9 DEF PlanHibernation
<1>10. \A u \in Ticks : /\ ~ Recycled(u) /\ ~ RecycleFailed(u) /\ ~ Evicted(u)
                        /\ ~ Hibernated(u) /\ ~ Await(u)
  BY <1>3, <1>8 DEF Recycled, RecycleFailed, Evicted, Hibernated, Await
<1>11. \A s \in Sessions : ~ Register(s) /\ ~ Deregister(s) /\ ~ NoteActivity(s)
  BY <1>7, <1>8 DEF Register, Deregister, NoteActivity
<1>12. ~ Advance
  BY <1>8 DEF Advance
<1> QED BY <1>2, <1>4, <1>5, <1>6, <1>9, <1>10, <1>11, <1>12, Zenon DEF Next

-----------------------------------------------------------------------------
(* Theorems *)

LEMMA AlwaysIInv == Spec => []SupervisionIInv
<1>1. Init => SupervisionIInv
  BY InitIInv
<1>2. SupervisionIInv /\ [Next]_vars => SupervisionIInv'
  BY NextStep
<1> QED BY <1>1, <1>2, PTL DEF Spec

\* The recycle band of a session belongs to the child it was measured on, at
\* every await of every overlapping tick, across recycles, deregistration and
\* hysteresis; a class without a recycle line never gets there.
THEOREM BandBelongsToChild == Spec => []SupervisionInv
<1>1. SupervisionIInv => SupervisionInv
  <2> SUFFICES ASSUME SupervisionIInv PROVE SupervisionInv
    OBVIOUS
  <2>1. /\ registered \subseteq Sessions /\ hibernated \subseteq Sessions
        /\ stale \subseteq hibernated
        /\ lastActivity \in [Sessions -> {Never} \cup 0..MaxTime]
        /\ clock \in 0..MaxTime /\ thread \in Ticks \cup {Free}
    BY DEF SupervisionIInv, SessionPart
  <2>2. /\ band \in [Sessions -> Bands]
        /\ since \in [Debounced -> {Never} \cup 0..MaxTime]
        /\ hot \in [Sessions -> BOOLEAN] /\ BandIsEarned
    BY DEF SupervisionIInv, WatchdogPart
  <2>3. pressure \in Pressures /\ redTicks \in 0..RedGate
    BY DEF SupervisionIInv, PressurePart
  <2>4. \A t \in Ticks : tick[t].phase \in Phases /\ tick[t].live \subseteq Sessions
    BY DEF SupervisionIInv, TickPart, TickRecord
  <2> QED BY <2>1, <2>2, <2>3, <2>4 DEF SupervisionInv, TypeOK, Pressures
<1> QED BY <1>1, AlwaysIInv, PTL

\* No tick plans an account session for hibernation unless the last RedGate
\* evaluations, whichever ticks made them, were all red.
THEOREM AccountsAreLast == Spec => AccountsOnlyAtSustainedRed
<1> DEFINE Late(t) ==
      ToSet(tick'[t].queue) \cap Account # {} =>
        \/ tick'[t].phase = "recycle"
        \/ /\ tick'[t].phase = "hibernate"
           /\ tick[t].phase = "shed" => SustainedRed
<1>1. SupervisionIInv /\ SupervisionIInv' /\ [Next]_vars
        => [\A t \in Ticks : Late(t)]_vars
  <2> SUFFICES ASSUME SupervisionIInv, SupervisionIInv', Next,
                      NEW t \in Ticks, ToSet(tick'[t].queue) \cap Account # {},
                      tick'[t].phase # "recycle"
               PROVE  /\ tick'[t].phase = "hibernate"
                      /\ tick[t].phase = "shed" => SustainedRed
    OBVIOUS
  <2>1. tick'[t].phase = "hibernate"
    <3>1. tick'[t] \in TickRecord /\ tick'[t].phase # "shed"
      BY DEF SupervisionIInv, TickPart, QueueShape
    <3>2. tick'[t].phase # "idle"
      BY ShortPlans DEF SupervisionIInv, TickPart, QueueShape
    <3> QED BY <3>1, <3>2 DEF TickRecord, Phases
  <2>2. ASSUME tick[t].phase = "shed" PROVE SustainedRed
    <3>1. PlanHibernation(t)
      BY <2>1, <2>2, PhaseStep
    <3>2. tick'[t].queue = PlanIdle(tick[t].live, tick[t].now)
      BY <3>1 DEF PlanHibernation, SupervisionIInv, TickPart, Idle
    <3>3. AllowAccount
      BY <3>2, IdlePlan DEF SupervisionIInv, TickPart, TickRecord
    <3>4. /\ RedGate \in Nat /\ RedGate > 0 /\ redTicks >= RedGate
          /\ redTicks \in 0..RedGate /\ RedRun
      BY <3>3, SupervisionAssumption DEF AllowAccount, SupervisionIInv, PressurePart
    <3>5. /\ Len(recent) = RedGate /\ DOMAIN recent = 1..RedGate
          /\ \A i \in 1..RedGate : recent[i] = "red"
      BY <3>4 DEF RedRun
    <3>6. ToSet(recent) = {"red"}
      BY <3>4, <3>5 DEF ToSet
    <3> QED BY <3>5, <3>6 DEF SustainedRed
  <2> QED BY <2>1, <2>2
<1> QED BY <1>1, AlwaysIInv, PTL DEF Spec, AccountsOnlyAtSustainedRed

\* A tick that measured red does not leave its shed pass before every
\* non-account session it saw was put to sleep by a call that nothing overtook
\* or is excused, whatever the other ticks, ports and sessions do meanwhile.
THEOREM RedPassSheds == Spec => RedPassIsComplete
<1> DEFINE Shed(t) ==
      tick[t].phase = "shed" /\ tick'[t].phase = "hibernate" /\ tick[t].red
        => tick[t].live \ Account
             \subseteq (hibernated \ stale) \cup tick[t].excused
<1>1. SupervisionIInv /\ [Next]_vars => [\A t \in Ticks : Shed(t)]_vars
  <2> SUFFICES ASSUME SupervisionIInv, Next, NEW t \in Ticks,
                      tick[t].phase = "shed", tick'[t].phase = "hibernate",
                      tick[t].red
               PROVE  tick[t].live \ Account
                        \subseteq (hibernated \ stale) \cup tick[t].excused
    OBVIOUS
  <2>1. PlanHibernation(t) /\ tick[t].queue = <<>>
    BY PhaseStep DEF PlanHibernation
  <2> QED BY <2>1, ShortPlans DEF SupervisionIInv, TickPart, ShedAhead
<1> QED BY <1>1, AlwaysIInv, PTL DEF Spec, RedPassIsComplete

-----------------------------------------------------------------------------
(* Workstreams: the rows of the lineage store, in the order of their       *)
(* creation, and what they keep.                                           *)

\* The columns of a session_node that nothing updates.
SameRow(a, b) ==
  a.origin = b.origin /\ a.session = b.session /\ a.native = b.native

\* Which sessions a row may stand for, by the part that wrote it: only the
\* recorder writes ledger sessions, and names one by its own native id; the
\* reconciler writes native ids only; the others write neither.  A row of
\* the recorder has its ledger row.
RowShape(t, l) ==
  \A i \in DOMAIN t :
    /\ t[i].origin = "harness" =>
         /\ t[i].session \in Kernel /\ l[t[i].session] # "none"
         /\ t[i].native \in {None, t[i].session}
    /\ t[i].origin = "reconciled" => t[i].session = None
    /\ t[i].origin \in {"snapshot", "merge"} =>
         t[i].session = None /\ t[i].native = None

\* No two rows of one origin name the same session.
RowsDiffer(t) ==
  \A i, j \in DOMAIN t :
    /\ t[i].session # None /\ t[i].session = t[j].session => i = j
    /\ /\ t[i].native # None /\ t[i].native = t[j].native
       /\ t[i].origin = t[j].origin
       => i = j

\* A brief of this broker run consumed its key, and one key makes one brief
\* in each run; a handler under way holds its key and has written nothing.
KeysOnce ==
  /\ \A b \in DOMAIN briefs :
       /\ briefs[b].boot <= boots
       /\ briefs[b].key # None /\ briefs[b].boot = boots =>
            briefs[b].key \in produced
  /\ \A b, d \in DOMAIN briefs :
       /\ briefs[b].key # None /\ briefs[b].key = briefs[d].key
       /\ briefs[b].boot = briefs[d].boot
       => b = d
  /\ \A j \in work :
       /\ j.key \in produced
       /\ \A b \in DOMAIN briefs :
            ~ (briefs[b].key = j.key /\ briefs[b].boot = boots)
  /\ \A j, l \in work : j.key = l.key => j = l

\* The row that a handler read is still the one its session resolves to;
\* the workstream and the state that it read may have moved on.
JobsCurrent ==
  \A j \in work : j.node # 0 /\ j.node = ByNative(nodes, j.key[2])

LineageIInv ==
  /\ LineageTypeOK /\ IsFiniteSet(disk)
  /\ RowShape(nodes, ledger) /\ RowsDiffer(nodes)
  /\ KeysOnce /\ JobsCurrent
  /\ GraphIntact /\ BriefsFollowSession

-----------------------------------------------------------------------------
(* The rows of a native id.  A finite set of row numbers has a least one:  *)
(* take a smallest initial segment.                                        *)

LEMMA LeastRow ==
  ASSUME NEW m \in Nat, NEW S \in SUBSET (1..m), S # {}
  PROVE  \E i \in S : \A j \in S : i <= j
<1> DEFINE Below(i) == {j \in S : j <= i}
           Segments == {R \in SUBSET S : \E i \in S : R = Below(i)}
<1>1. PICK a \in S : TRUE
  OBVIOUS
<1>2. IsFiniteSet(S)
  <2>1. IsFiniteSet(1..m)
    BY FS_Interval
  <2> QED BY <2>1, FS_Subset
<1>3. Segments \in SUBSET (SUBSET S) /\ \A i \in S : Below(i) \in Segments
  <2>1. \A i \in S : Below(i) \in SUBSET S
    OBVIOUS
  <2> HIDE DEF Below
  <2> QED BY <2>1
<1>4. PICK R \in Segments : Minimal(R, Segments)
  <2> HIDE DEF Segments
  <2> QED BY <1>1, <1>2, <1>3, MinimalSet
<1>5. PICK i \in S : R = Below(i)
  BY <1>4
<1>6. ASSUME NEW j \in S, ~ (i <= j) PROVE FALSE
  <2>1. i \in Nat /\ j \in Nat /\ j < i
    BY <1>6
  <2>2. Below(j) \in Segments /\ Below(j) \subseteq R
    <3>1. Below(j) \subseteq Below(i)
      <4>1. ASSUME NEW x \in S, x <= j PROVE x <= i
        BY <2>1, <4>1
      <4> QED BY <4>1
    <3> QED BY <1>3, <1>5, <3>1
  <2>3. Below(j) = R
    BY <1>4, <2>2 DEF Minimal
  <2>4. i \in R /\ i \notin Below(j)
    BY <1>5, <2>1
  <2> QED BY <2>3, <2>4
<1> QED BY <1>6

LEMMA ByNativeLeast ==
  ASSUME NEW t \in Seq(Node), NEW n, ByNative(t, n) # 0
  PROVE  /\ ByNative(t, n) \in DOMAIN t /\ t[ByNative(t, n)].native = n
         /\ \A j \in DOMAIN t : t[j].native = n => ByNative(t, n) <= j
<1>1. Named(t, n) # {}
  BY DEF ByNative
<1>2. DOMAIN t = 1..Len(t) /\ Len(t) \in Nat
  BY LenProperties
<1>3. \E i \in Named(t, n) : \A j \in Named(t, n) : i <= j
  <2>1. Named(t, n) \in SUBSET (1..Len(t))
    BY <1>2 DEF Named
  <2> QED BY <1>1, <1>2, <2>1, LeastRow
<1>4. /\ ByNative(t, n) \in Named(t, n)
      /\ \A j \in Named(t, n) : ByNative(t, n) <= j
  <2>1. ByNative(t, n)
          = CHOOSE i \in Named(t, n) : \A j \in Named(t, n) : i <= j
    BY <1>1 DEF ByNative
  <2> QED BY <1>3, <2>1
<1> QED BY <1>4 DEF Named

LEMMA ByNativeNone ==
  ASSUME NEW t \in Seq(Node), NEW n
  PROVE  ByNative(t, n) = 0 <=> \A j \in DOMAIN t : t[j].native # n
<1>1. CASE Named(t, n) = {}
  <2>1. ByNative(t, n) = 0
    BY <1>1 DEF ByNative
  <2> QED BY <1>1, <2>1 DEF Named
<1>2. CASE Named(t, n) # {}
  <2>1. ByNative(t, n) # 0
    <3>1. \E i \in Named(t, n) : \A j \in Named(t, n) : i <= j
      <4>1. Named(t, n) \in SUBSET (1..Len(t)) /\ Len(t) \in Nat
        BY LenProperties DEF Named
      <4> QED BY <1>2, <4>1, LeastRow
    <3>2. ByNative(t, n)
            = CHOOSE i \in Named(t, n) : \A j \in Named(t, n) : i <= j
      BY <1>2 DEF ByNative
    <3>3. ByNative(t, n) \in Named(t, n)
      BY <3>1, <3>2
    <3>4. 0 \notin Named(t, n)
      BY LenProperties DEF Named
    <3> QED BY <3>3, <3>4
  <2> QED BY <1>2, <2>1 DEF Named
<1> QED BY <1>1, <1>2

\* The table t grows to u: rows are added behind, and the old ones keep
\* the columns that say whose they are.
Grown(t, u) ==
  /\ u \in Seq(Node) /\ Len(t) <= Len(u)
  /\ \A i \in DOMAIN t : SameRow(t[i], u[i])

LEMMA ByNativeStable ==
  ASSUME NEW t \in Seq(Node), NEW u, Grown(t, u), NEW n, ByNative(t, n) # 0
  PROVE  ByNative(u, n) = ByNative(t, n)
<1> DEFINE i == ByNative(t, n)
           k == ByNative(u, n)
<1>1. /\ i \in DOMAIN t /\ t[i].native = n
      /\ \A j \in DOMAIN t : t[j].native = n => i <= j
  BY ByNativeLeast
<1>2. /\ u \in Seq(Node) /\ Len(t) <= Len(u) /\ Len(t) \in Nat
      /\ DOMAIN t = 1..Len(t) /\ DOMAIN u = 1..Len(u) /\ Len(u) \in Nat
      /\ \A j \in DOMAIN t : u[j].native = t[j].native
  BY LenProperties DEF Grown, SameRow
<1>3. i \in DOMAIN u /\ u[i].native = n
  BY <1>1, <1>2
<1>4. k # 0
  BY <1>2, <1>3, ByNativeNone
<1>5. /\ k \in DOMAIN u /\ u[k].native = n
      /\ \A j \in DOMAIN u : u[j].native = n => k <= j
  BY <1>2, <1>4, ByNativeLeast
<1> HIDE DEF i, k
<1>6. k <= i
  BY <1>3, <1>5
<1>7. k \in DOMAIN t /\ t[k].native = n
  BY <1>1, <1>2, <1>5, <1>6
<1>8. i <= k
  BY <1>1, <1>7
<1>9. i = k
  BY <1>1, <1>2, <1>5, <1>6, <1>8
<1> QED BY <1>9 DEF i, k

LEMMA GrownByAppend ==
  ASSUME NEW t \in Seq(Node), NEW r \in Node
  PROVE  /\ Grown(t, Append(t, r))
         /\ Len(Append(t, r)) = Len(t) + 1 /\ Len(t) \in Nat
         /\ DOMAIN Append(t, r) = 1..(Len(t) + 1) /\ DOMAIN t = 1..Len(t)
         /\ \A i \in DOMAIN t : Append(t, r)[i] = t[i]
         /\ Append(t, r)[Len(t) + 1] = r
  BY DEF Grown, SameRow

LEMMA GrownTwice ==
  ASSUME NEW t \in Seq(Node), NEW u, NEW v, Grown(t, u), Grown(u, v)
  PROVE  Grown(t, v)
  BY LenProperties DEF Grown, SameRow

-----------------------------------------------------------------------------
(* The invariant gives the properties.                                     *)

LEMMA AtMostOne ==
  ASSUME NEW S, \A x, y \in S : x = y
  PROVE  Cardinality(S) <= 1
<1>1. CASE S = {}
  BY <1>1, FS_EmptySet
<1>2. ASSUME NEW x \in S PROVE Cardinality(S) <= 1
  <2>1. S = {x}
    OBVIOUS
  <2>2. Cardinality(S) = 1
    BY <2>1, FS_Singleton, Zenon
  <2> QED BY <2>2
<1> QED BY <1>1, <1>2

LEMMA IInvGivesInv ==
  ASSUME LineageIInv
  PROVE  WorkstreamsInv
<1> USE DEF LineageIInv
<1> USE WorkstreamsAssumption
<1>1. OneBriefPerEvent
  <2>1. ASSUME NEW key \in Key PROVE Cardinality(Briefed(key)) <= 1
    <3>1. \A b, d \in Briefed(key) : b = d
      <4>1. key # None
        OBVIOUS
      <4> QED BY <4>1 DEF KeysOnce, Briefed
    <3> QED BY <3>1, AtMostOne
  <2>2. \A j \in work : Briefed(j.key) = {} /\ j.key \in produced
    BY DEF KeysOnce, Briefed
  <2>3. \A j, l \in work : j.key = l.key => j = l
    BY DEF KeysOnce
  <2> QED BY <2>1, <2>2, <2>3 DEF OneBriefPerEvent
<1>2. OneNodePerSession
  <2>1. ASSUME NEW k \in Kernel PROVE Cardinality(NodeOf(nodes, k)) <= 1
    <3>1. \A i, j \in NodeOf(nodes, k) : i = j
      <4>1. k # None
        BY DEF Native
      <4> QED BY <4>1 DEF RowsDiffer, NodeOf
    <3> QED BY <3>1, AtMostOne
  <2>2. ASSUME NEW n \in Native
        PROVE  Cardinality(Named(nodes, n)) = Cardinality(Twins(n))
    <3> DEFINE S == Named(nodes, n)
               T == Twins(n)
               f == [i \in S |-> nodes[i].origin]
    <3>1. IsFiniteSet(S)
      <4>1. DOMAIN nodes = 1..Len(nodes) /\ Len(nodes) \in Nat
        BY LenProperties DEF LineageTypeOK
      <4>2. IsFiniteSet(1..Len(nodes))
        BY <4>1, FS_Interval
      <4>3. S \in SUBSET (1..Len(nodes))
        BY <4>1 DEF Named
      <4> QED BY <4>2, <4>3, FS_Subset
    <3>2. f \in [S -> T] /\ \A o \in T : \E i \in S : f[i] = o
      BY DEF Twins
    <3>3. \A i, j \in S : f[i] = f[j] => i = j
      <4>1. n # None
        OBVIOUS
      <4> QED BY <4>1 DEF RowsDiffer, Named
    <3> HIDE DEF S, T, f
    <3>4. f \in Bijection(S, T)
      <4>1. f \in Injection(S, T)
        BY <3>2, <3>3, Zenon DEF Injection, IsInjective
      <4>2. f \in Surjection(S, T)
        BY <3>2, Zenon DEF Surjection
      <4> QED BY <4>1, <4>2 DEF Bijection
    <3>5. ExistsBijection(S, T)
      BY <3>4 DEF ExistsBijection
    <3>6. Cardinality(T) = Cardinality(S)
      BY <3>1, <3>5, FS_Bijection
    <3> QED BY <3>6 DEF S, T
  <2> QED BY <2>1, <2>2 DEF OneNodePerSession
<1> QED BY <1>1, <1>2 DEF WorkstreamsInv

LEMMA LineageInitInv == LineageInit => LineageIInv
<1> SUFFICES ASSUME LineageInit PROVE LineageIInv
  OBVIOUS
<1> USE DEF LineageInit
<1>1. LineageTypeOK
  BY WorkstreamsAssumption DEF LineageTypeOK
<1>2. IsFiniteSet(disk)
  BY FS_EmptySet
<1>3. DOMAIN nodes = {} /\ DOMAIN briefs = {} /\ edges = {} /\ work = {}
  OBVIOUS
<1> QED
  BY <1>1, <1>2, <1>3
  DEF LineageIInv, RowShape, RowsDiffer, KeysOnce, JobsCurrent,
      GraphIntact, BriefsFollowSession

-----------------------------------------------------------------------------
(* What a step adds to the three tables, and that it keeps the invariant.  *)

RowsAdded ==
  /\ Grown(nodes, nodes')
  /\ \A i \in DOMAIN nodes' :
       nodes'[i].state = "completed" /\ nodes'[i].origin # "snapshot" =>
         \/ i \in DOMAIN nodes /\ nodes[i].state = "completed"
         \/ \E b \in DOMAIN briefs' : briefs'[b].about = {i}
  /\ \A i \in DOMAIN nodes' \ DOMAIN nodes :
       nodes'[i].origin = "merge" => Joined(i)'

BriefsAdded ==
  /\ briefs' \in Seq(Brief) /\ Len(briefs) <= Len(briefs')
  /\ \A b \in DOMAIN briefs : briefs'[b] = briefs[b]
  /\ \A b \in DOMAIN briefs' \ DOMAIN briefs :
       /\ briefs'[b].about \subseteq DOMAIN nodes'
       /\ briefs'[b].key # None =>
            briefs'[b].about = {ByNative(nodes', briefs'[b].key[2])}

EdgesAdded ==
  /\ edges \subseteq edges'
  /\ \A e \in edges' \ edges :
       /\ e.from \in DOMAIN nodes' /\ e.to \in DOMAIN nodes'
       /\ e.from = e.to => e.type = "continue"
       /\ e.type = "merge_parent" => e.brief \in DOMAIN briefs'
       /\ nodes'[e.to].origin = "merge" => e.to \notin DOMAIN nodes
       /\ nodes'[e.to].origin = "reconciled" => e.type = "compact"

LEMMA TablesGrow ==
  ASSUME LineageIInv, Grown(nodes, nodes'), BriefsAdded
  PROVE  /\ DOMAIN nodes \subseteq DOMAIN nodes'
         /\ DOMAIN briefs \subseteq DOMAIN briefs'
         /\ \A i \in DOMAIN nodes : nodes'[i].origin = nodes[i].origin
<1>1. nodes \in Seq(Node) /\ briefs \in Seq(Brief)
  BY DEF LineageIInv, LineageTypeOK
<1> QED BY <1>1, LenProperties DEF Grown, BriefsAdded, SameRow

LEMMA GraphKept ==
  ASSUME LineageIInv, RowsAdded, BriefsAdded, EdgesAdded
  PROVE  GraphIntact'
<1>1. /\ DOMAIN nodes \subseteq DOMAIN nodes'
      /\ DOMAIN briefs \subseteq DOMAIN briefs'
      /\ \A i \in DOMAIN nodes : nodes'[i].origin = nodes[i].origin
  BY TablesGrow DEF RowsAdded
<1>2. \A e \in edges : e.from \in DOMAIN nodes /\ e.to \in DOMAIN nodes
  BY DEF LineageIInv, GraphIntact
<1>3. \A e \in edges' : /\ e.from \in DOMAIN nodes' /\ e.to \in DOMAIN nodes'
                        /\ e.from = e.to => e.type = "continue"
                        /\ e.type = "merge_parent" => e.brief \in DOMAIN briefs'
  BY <1>1, <1>2 DEF LineageIInv, GraphIntact, EdgesAdded
<1>4. \A b \in DOMAIN briefs' : briefs'[b].about \subseteq DOMAIN nodes'
  BY <1>1 DEF LineageIInv, GraphIntact, BriefsAdded
<1>5. ASSUME NEW i \in DOMAIN nodes', nodes'[i].origin = "merge"
      PROVE  Joined(i)'
  <2>1. CASE i \notin DOMAIN nodes
    BY <1>5, <2>1 DEF RowsAdded
  <2>2. CASE i \in DOMAIN nodes
    <3>1. Joined(i)
      BY <1>1, <1>5, <2>2 DEF LineageIInv, GraphIntact
    <3>2. PICK b \in DOMAIN briefs :
            /\ Cardinality(briefs[b].about) >= 2
            /\ {<<e.from, e.brief>> : e \in {f \in edges : f.to = i}}
                 = {<<p, b>> : p \in briefs[b].about}
      BY <3>1 DEF Joined
    <3>3. {f \in edges' : f.to = i} = {f \in edges : f.to = i}
      BY <1>5, <2>2 DEF EdgesAdded
    <3>4. b \in DOMAIN briefs' /\ briefs'[b] = briefs[b]
      BY <1>1 DEF BriefsAdded
    <3> QED BY <3>2, <3>3, <3>4 DEF Joined
  <2> QED BY <2>1, <2>2
<1>6. \A e \in edges' : nodes'[e.to].origin = "reconciled" => e.type = "compact"
  BY <1>1, <1>2 DEF LineageIInv, GraphIntact, EdgesAdded
<1> QED BY <1>3, <1>4, <1>5, <1>6 DEF GraphIntact

LEMMA FollowKept ==
  ASSUME LineageIInv, RowsAdded, BriefsAdded
  PROVE  BriefsFollowSession'
<1>1. /\ DOMAIN nodes \subseteq DOMAIN nodes'
      /\ DOMAIN briefs \subseteq DOMAIN briefs'
      /\ \A i \in DOMAIN nodes : nodes'[i].origin = nodes[i].origin
  BY TablesGrow DEF RowsAdded
<1>2. ASSUME NEW b \in DOMAIN briefs', briefs'[b].key # None
      PROVE  briefs'[b].about = {ByNative(nodes', briefs'[b].key[2])}
  <2>1. CASE b \notin DOMAIN briefs
    BY <1>2, <2>1 DEF BriefsAdded
  <2>2. CASE b \in DOMAIN briefs
    <3>1. briefs'[b] = briefs[b]
      BY <2>2 DEF BriefsAdded
    <3>2. /\ briefs[b].about = {ByNative(nodes, briefs[b].key[2])}
          /\ briefs[b].about \subseteq DOMAIN nodes
      BY <1>2, <2>2, <3>1
      DEF LineageIInv, BriefsFollowSession, GraphIntact
    <3>3. nodes \in Seq(Node) /\ 0 \notin DOMAIN nodes
      BY LenProperties DEF LineageIInv, LineageTypeOK
    <3>4. ByNative(nodes, briefs[b].key[2]) # 0
      BY <3>2, <3>3
    <3>5. ByNative(nodes', briefs[b].key[2]) = ByNative(nodes, briefs[b].key[2])
      BY <3>3, <3>4, ByNativeStable DEF RowsAdded
    <3> QED BY <3>1, <3>2, <3>5
  <2> QED BY <2>1, <2>2
<1>3. ASSUME NEW i \in DOMAIN nodes',
             nodes'[i].state = "completed", nodes'[i].origin # "snapshot"
      PROVE  \E b \in DOMAIN briefs' : briefs'[b].about = {i}
  <2>1. CASE i \in DOMAIN nodes /\ nodes[i].state = "completed"
    <3>1. PICK b \in DOMAIN briefs : briefs[b].about = {i}
      BY <1>1, <1>3, <2>1 DEF LineageIInv, BriefsFollowSession
    <3> QED BY <1>1, <3>1 DEF BriefsAdded
  <2> QED BY <1>3, <2>1 DEF RowsAdded
<1> QED BY <1>2, <1>3 DEF BriefsFollowSession

LEMMA StepKeeps ==
  ASSUME LineageIInv, LineageTypeOK', IsFiniteSet(disk'),
         RowShape(nodes', ledger'), RowsDiffer(nodes'),
         RowsAdded, BriefsAdded, EdgesAdded, KeysOnce',
         \A j \in work' :
           \/ j \in work
           \/ j.node # 0 /\ j.node = ByNative(nodes', j.key[2])
  PROVE  LineageIInv'
<1>1. JobsCurrent'
  <2>1. nodes \in Seq(Node) /\ Grown(nodes, nodes')
    BY DEF LineageIInv, LineageTypeOK, RowsAdded
  <2>2. \A j \in work : j.node # 0 /\ j.node = ByNative(nodes, j.key[2])
    BY DEF LineageIInv, JobsCurrent
  <2>3. \A j \in work : j.node = ByNative(nodes', j.key[2])
    BY <2>1, <2>2, ByNativeStable
  <2> QED BY <2>2, <2>3 DEF JobsCurrent
<1> QED BY <1>1, GraphKept, FollowKept DEF LineageIInv

-----------------------------------------------------------------------------
(* Rows the parts write.                                                   *)

Sound(t, l) == t \in Seq(Node) /\ RowShape(t, l) /\ RowsDiffer(t)

\* The rows of t as they were, and behind them rows of sessions at work.
Extended(t, u) ==
  /\ Grown(t, u) /\ \A i \in DOMAIN t : u[i] = t[i]
  /\ \A i \in DOMAIN u \ DOMAIN t :
       u[i].origin # "merge" /\ u[i].state # "completed"

LEMMA SoundLedger ==
  ASSUME NEW t, NEW l, NEW m, Sound(t, l),
         \A k \in Kernel : l[k] # "none" => m[k] # "none"
  PROVE  Sound(t, m)
  BY DEF Sound, RowShape

LEMMA AddKernelRow ==
  ASSUME NEW t, NEW l, Sound(t, l), NEW k \in Kernel, l[k] # "none",
         NodeOf(t, k) = {}, NEW nat \in {None, k},
         NEW w \in Streams \cup {None}
  PROVE  LET u == Append(t, KernelNode(k, nat, w))
         IN  Sound(u, l) /\ Extended(t, u)
<1> DEFINE r == KernelNode(k, nat, w)
           u == Append(t, r)
<1>1. r \in Node /\ t \in Seq(Node)
  BY DEF Sound, KernelNode, Node, Native, States
<1>2. /\ r.origin = "harness" /\ r.session = k /\ r.native = nat
      /\ r.state = "running"
  BY DEF KernelNode
<1>3. k # None
  BY WorkstreamsAssumption DEF Native
<1> HIDE DEF r
<1>4. /\ Grown(t, u) /\ DOMAIN u = 1..(Len(t) + 1) /\ DOMAIN t = 1..Len(t)
      /\ Len(t) \in Nat /\ u[Len(t) + 1] = r
      /\ \A i \in DOMAIN t : u[i] = t[i]
  BY <1>1, GrownByAppend
<1> HIDE DEF u
<1>5. \A i \in DOMAIN u : i \in DOMAIN t \/ i = Len(t) + 1
  BY <1>4
<1>6. RowShape(u, l)
  BY <1>2, <1>4, <1>5 DEF Sound, RowShape
<1>7. \A i \in DOMAIN t :
        /\ t[i].session # k
        /\ t[i].native = nat /\ nat # None => t[i].origin # "harness"
  BY <1>3 DEF Sound, RowShape, NodeOf
<1>8. RowsDiffer(u)
  <2>1. ASSUME NEW i \in DOMAIN u, NEW j \in DOMAIN u
        PROVE  /\ u[i].session # None /\ u[i].session = u[j].session => i = j
               /\ /\ u[i].native # None /\ u[i].native = u[j].native
                  /\ u[i].origin = u[j].origin
                  => i = j
    <3>1. CASE i \in DOMAIN t /\ j \in DOMAIN t
      BY <1>4, <3>1 DEF Sound, RowsDiffer
    <3>2. CASE i = Len(t) + 1 /\ j \in DOMAIN t
      BY <1>2, <1>4, <1>7, <3>2
    <3>3. CASE i \in DOMAIN t /\ j = Len(t) + 1
      BY <1>2, <1>4, <1>7, <3>3
    <3> QED BY <1>5, <3>1, <3>2, <3>3
  <2> QED BY <2>1 DEF RowsDiffer
<1>9. Extended(t, u)
  BY <1>2, <1>4, <1>5 DEF Extended
<1>10. u \in Seq(Node)
  BY <1>4 DEF Grown
<1> QED BY <1>6, <1>8, <1>9, <1>10 DEF Sound, u, r

\* Snapshots and merge nodes name no session.
LEMMA AddPlainRow ==
  ASSUME NEW t, NEW l, Sound(t, l), NEW r \in Node,
         r.origin \in {"snapshot", "merge"}, r.session = None, r.native = None
  PROVE  Sound(Append(t, r), l) /\ Grown(t, Append(t, r))
<1> DEFINE u == Append(t, r)
<1>1. t \in Seq(Node)
  BY DEF Sound
<1>2. /\ Grown(t, u) /\ DOMAIN u = 1..(Len(t) + 1) /\ DOMAIN t = 1..Len(t)
      /\ Len(t) \in Nat /\ u[Len(t) + 1] = r
      /\ \A i \in DOMAIN t : u[i] = t[i]
  BY <1>1, GrownByAppend
<1> HIDE DEF u
<1>3. \A i \in DOMAIN u : i \in DOMAIN t \/ i = Len(t) + 1
  BY <1>2
<1>4. RowShape(u, l)
  BY <1>2, <1>3 DEF Sound, RowShape
<1>5. RowsDiffer(u)
  BY <1>2, <1>3 DEF Sound, RowsDiffer
<1>6. u \in Seq(Node)
  BY <1>2 DEF Grown
<1> QED BY <1>2, <1>4, <1>5, <1>6 DEF Sound, u

\* Workstream and state are columns that say nothing about the session.
LEMMA Relabelled ==
  ASSUME NEW t, NEW l, Sound(t, l), NEW u, Grown(t, u), DOMAIN u = DOMAIN t
  PROVE  Sound(u, l)
<1>1. \A i \in DOMAIN t : SameRow(t[i], u[i])
  BY DEF Grown
<1>2. RowShape(u, l)
  BY <1>1 DEF Sound, RowShape, SameRow
<1>3. RowsDiffer(u)
  BY <1>1 DEF Sound, RowsDiffer, SameRow
<1> QED BY <1>2, <1>3 DEF Sound, Grown

LEMMA ExtendedTwice ==
  ASSUME NEW t \in Seq(Node), NEW u, NEW v, Extended(t, u), Extended(u, v)
  PROVE  Extended(t, v)
<1>1. Grown(t, v)
  BY GrownTwice DEF Extended
<1>2. u \in Seq(Node) /\ DOMAIN t \subseteq DOMAIN u
  BY LenProperties DEF Extended, Grown
<1> QED BY <1>1, <1>2 DEF Extended

LEMMA ExtendedSelf ==
  ASSUME NEW t \in Seq(Node)
  PROVE  Extended(t, t)
  BY DEF Extended, Grown, SameRow

LEMMA HealedSound ==
  ASSUME NEW t, NEW l, Sound(t, l), NEW k \in Kernel, l[k] # "none",
         NEW nat \in {None, k}, NEW w \in Streams \cup {None}
  PROVE  /\ Sound(Healed(t, k, nat, w), l)
         /\ Extended(t, Healed(t, k, nat, w))
<1>1. CASE NodeOf(t, k) # {}
  <2>1. Healed(t, k, nat, w) = t
    BY <1>1 DEF Healed
  <2> QED BY <2>1, ExtendedSelf DEF Sound
<1>2. CASE NodeOf(t, k) = {}
  <2>1. Healed(t, k, nat, w) = Append(t, KernelNode(k, nat, w))
    BY <1>2 DEF Healed
  <2> QED BY <1>2, <2>1, AddKernelRow
<1> QED BY <1>1, <1>2

LEMMA EnsuredSound ==
  ASSUME NEW t, NEW l, Sound(t, l), NEW k \in Kernel, l[k] # "none",
         NEW w \in Streams \cup {None}
  PROVE  Sound(Ensured(t, k, w), l) /\ Extended(t, Ensured(t, k, w))
<1> DEFINE nat == IF ledger[k] = "native" THEN k ELSE None
<1>1. nat \in {None, k} /\ Ensured(t, k, w) = Healed(t, k, nat, w)
  BY DEF Ensured
<1> HIDE DEF nat
<1> QED BY <1>1, HealedSound

LEMMA UnfinishedSound ==
  ASSUME NEW t, NEW l, Sound(t, l), NEW k \in Kernel, l[k] # "none",
         NEW w \in Streams \cup {None}, NEW u \in Unfinished(t, k, w)
  PROVE  Sound(u, l) /\ Extended(t, u)
<1>1. CASE u = t
  BY <1>1, ExtendedSelf DEF Sound
<1>2. CASE u = Healed(t, k, None, w)
  <2>1. None \in {None, k}
    OBVIOUS
  <2> QED BY <1>2, <2>1, HealedSound
<1>3. CASE u = Ensured(t, k, w)
  BY <1>3, EnsuredSound
<1> QED BY <1>1, <1>2, <1>3 DEF Unfinished

-----------------------------------------------------------------------------
(* The recorder and the reconciler.                                        *)

LEMMA FaultsCounted ==
  ASSUME LineageIInv, Fault \/ NoFault
  PROVE  faults' \in 0..MaxFaults
  BY WorkstreamsAssumption DEF LineageIInv, LineageTypeOK, Fault, NoFault

\* Steps that leave briefs and hooks alone.
LEMMA RecorderStep ==
  ASSUME LineageIInv,
         ledger' \in [Kernel -> {"none", "row", "native", "dead"}],
         disk' \subseteq Native, IsFiniteSet(disk'),
         Sound(nodes', ledger'), Extended(nodes, nodes'),
         edges' \subseteq Edge, EdgesAdded,
         UNCHANGED <<briefs, automation, boots>>, Fault \/ NoFault
  PROVE  LineageIInv'
<1>1. UNCHANGED <<briefs, produced, work, lost, boots>>
  BY DEF automation
<1>2. LineageTypeOK'
  BY <1>1, FaultsCounted DEF LineageIInv, LineageTypeOK, Sound
<1>3. RowsAdded
  BY DEF RowsAdded, Extended
<1>4. BriefsAdded
  <2>1. briefs \in Seq(Brief) /\ Len(briefs) \in Nat
    BY LenProperties DEF LineageIInv, LineageTypeOK
  <2> QED BY <1>1, <2>1 DEF BriefsAdded
<1>5. KeysOnce'
  BY <1>1 DEF LineageIInv, KeysOnce
<1>6. \A j \in work' : j \in work
  BY <1>1
<1> QED BY <1>2, <1>3, <1>4, <1>5, <1>6, StepKeeps DEF Sound

LEMMA NoEdges ==
  ASSUME LineageIInv, UNCHANGED edges
  PROVE  edges' \subseteq Edge /\ EdgesAdded
  BY DEF LineageIInv, LineageTypeOK, EdgesAdded

\* The row of a session is one that the recorder wrote.
LEMMA HarnessRow ==
  ASSUME NEW t, NEW l, Sound(t, l), NEW k \in Kernel, NEW i \in NodeOf(t, k)
  PROVE  /\ i \in DOMAIN t /\ i \in Nat
         /\ t[i].session = k /\ t[i].origin = "harness"
<1>1. i \in DOMAIN t /\ t[i].session = k /\ k # None
  BY WorkstreamsAssumption DEF NodeOf, Native
<1>2. t[i] \in Node /\ i \in Nat
  BY <1>1, LenProperties DEF Sound
<1> QED BY <1>1, <1>2 DEF Sound, RowShape, Node

LEMMA RecordedEdges ==
  ASSUME LineageIInv, NEW l, Sound(nodes', l),
         NEW p \in Kernel, NEW k \in Kernel, NEW type \in {"fork", "continue"},
         p = k => type = "continue",
         edges' = WithEdge(nodes', type, p, k)
  PROVE  edges' \subseteq Edge /\ EdgesAdded
<1>1. edges \subseteq Edge /\ edges \subseteq edges'
  BY DEF LineageIInv, LineageTypeOK, WithEdge
<1>2. ASSUME NEW e \in edges' \ edges
      PROVE  /\ e \in Edge /\ e.type = type
             /\ e.from \in DOMAIN nodes' /\ e.to \in DOMAIN nodes'
             /\ e.from = e.to => type = "continue"
             /\ nodes'[e.to].origin = "harness"
  <2>1. PICK i \in NodeOf(nodes', p), j \in NodeOf(nodes', k) :
          e = NewEdge(type, i, j, 0)
    BY <1>2 DEF WithEdge
  <2>2. /\ i \in DOMAIN nodes' /\ i \in Nat /\ nodes'[i].session = p
        /\ j \in DOMAIN nodes' /\ j \in Nat /\ nodes'[j].session = k
        /\ nodes'[j].origin = "harness"
    BY HarnessRow
  <2> QED BY <2>1, <2>2 DEF NewEdge, Edge
<1> QED BY <1>1, <1>2 DEF EdgesAdded

LEMMA SoundNow ==
  ASSUME LineageIInv
  PROVE  /\ Sound(nodes, ledger) /\ nodes \in Seq(Node)
         /\ ledger \in [Kernel -> {"none", "row", "native", "dead"}]
         /\ disk \subseteq Native /\ IsFiniteSet(disk)
  BY DEF LineageIInv, LineageTypeOK, Sound

LEMMA NoRowBeforeLaunch ==
  ASSUME LineageIInv, NEW k \in Kernel, ledger[k] = "none"
  PROVE  NodeOf(nodes, k) = {}
<1>1. ASSUME NEW i \in DOMAIN nodes PROVE nodes[i].session # k
  <2>1. nodes[i] \in Node /\ k # None
    BY WorkstreamsAssumption, LenProperties
    DEF LineageIInv, LineageTypeOK, Native
  <2> QED BY <2>1 DEF LineageIInv, RowShape, Node
<1> QED BY <1>1 DEF NodeOf

\* A ledger row that is there stays there.
LEMMA LedgerRow ==
  ASSUME LineageIInv, NEW k \in Kernel, NEW s \in {"row", "native"},
         ledger' = [ledger EXCEPT ![k] = s]
  PROVE  /\ ledger' \in [Kernel -> {"none", "row", "native", "dead"}]
         /\ ledger'[k] = s /\ Sound(nodes, ledger')
         /\ \A p \in Kernel : ledger[p] # "none" => ledger'[p] # "none"
<1>1. /\ ledger' \in [Kernel -> {"none", "row", "native", "dead"}]
      /\ ledger'[k] = s
      /\ \A p \in Kernel : ledger[p] # "none" => ledger'[p] # "none"
  BY SoundNow
<1>2. Sound(nodes, ledger')
  BY <1>1, SoundNow, SoundLedger
<1> QED BY <1>1, <1>2

LEMMA LaunchKeeps ==
  ASSUME LineageIInv, NEW k \in Kernel, NEW w \in Streams \cup {None},
         Launch(k, w)
  PROVE  LineageIInv'
<1> USE DEF Launch
<1>1. /\ ledger' \in [Kernel -> {"none", "row", "native", "dead"}]
      /\ ledger'[k] # "none" /\ Sound(nodes, ledger')
  BY LedgerRow
<1>2. NodeOf(nodes, k) = {}
  BY NoRowBeforeLaunch
<1>3. Sound(nodes', ledger') /\ Extended(nodes, nodes')
  BY <1>1, <1>2, AddKernelRow
<1> QED BY <1>1, <1>3, SoundNow, NoEdges, RecorderStep

LEMMA LaunchDroppedKeeps ==
  ASSUME LineageIInv, NEW k \in Kernel, LaunchDropped(k)
  PROVE  LineageIInv'
<1> USE DEF LaunchDropped, store
<1>1. /\ ledger' \in [Kernel -> {"none", "row", "native", "dead"}]
      /\ Sound(nodes, ledger')
  BY LedgerRow
<1>2. Sound(nodes', ledger') /\ Extended(nodes, nodes')
  BY <1>1, SoundNow, ExtendedSelf
<1> QED BY <1>1, <1>2, SoundNow, NoEdges, RecorderStep

LEMMA InitMessageKeeps ==
  ASSUME LineageIInv, NEW k \in Kernel, InitMessage(k)
  PROVE  LineageIInv'
<1> USE DEF InitMessage, store
<1>1. /\ ledger' \in [Kernel -> {"none", "row", "native", "dead"}]
      /\ Sound(nodes, ledger')
  BY LedgerRow
<1>2. Sound(nodes', ledger') /\ Extended(nodes, nodes')
  BY <1>1, SoundNow, ExtendedSelf
<1> QED BY <1>1, <1>2, SoundNow, NoEdges, RecorderStep

LEMMA ContinueKeeps ==
  ASSUME LineageIInv, NEW k \in Kernel, NEW w \in Streams \cup {None},
         Continue(k, w)
  PROVE  LineageIInv'
<1> USE DEF Continue
<1>1. Sound(nodes', ledger') /\ Extended(nodes, nodes')
  BY SoundNow, EnsuredSound
<1>2. edges' \subseteq Edge /\ EdgesAdded
  BY <1>1, RecordedEdges
<1> QED BY <1>1, <1>2, SoundNow, RecorderStep

LEMMA RecordFailsKeeps ==
  ASSUME LineageIInv, NEW k \in Kernel, NEW w \in Streams \cup {None},
         RecordFails(k, w)
  PROVE  LineageIInv'
<1> USE DEF RecordFails
<1>1. Sound(nodes', ledger') /\ Extended(nodes, nodes')
  BY SoundNow, UnfinishedSound
<1> QED BY <1>1, SoundNow, NoEdges, RecorderStep

\* Some of the parents get their edge: never the session itself, and none
\* without the brief.
LEMMA RecordMergeKeeps ==
  ASSUME LineageIInv, NEW k \in Kernel, NEW w \in Streams \cup {None},
         NEW parents \in SUBSET DOMAIN nodes, NEW b, RecordMerge(k, parents, b, w)
  PROVE  LineageIInv'
<1> DEFINE to == NodeOf(nodes', k)
<1>1. /\ ledger[k] # "none" /\ nodes' = Ensured(nodes, k, w)
      /\ UNCHANGED <<ledger, disk, briefs, automation, boots>>
  BY DEF RecordMerge
<1>2. PICK done \in SUBSET (parents \ to) :
        /\ b \in DOMAIN briefs \/ done = {}
        /\ edges' = edges \cup
             {NewEdge("merge_parent", i, j, b) : i \in done, j \in to}
        /\ Fault \/ NoFault
  BY DEF RecordMerge
<1>3. Sound(nodes', ledger) /\ Extended(nodes, nodes')
  BY <1>1, SoundNow, EnsuredSound
<1>4. DOMAIN nodes \subseteq DOMAIN nodes' /\ DOMAIN nodes' \subseteq Nat
  BY <1>3, SoundNow, LenProperties DEF Extended, Grown
<1>5. b \in DOMAIN briefs => b \in Nat
  BY LenProperties DEF LineageIInv, LineageTypeOK
<1>6. ASSUME NEW e \in edges' \ edges
      PROVE  /\ e \in Edge /\ e.type = "merge_parent" /\ e.from # e.to
             /\ e.from \in DOMAIN nodes' /\ e.to \in DOMAIN nodes'
             /\ e.brief \in DOMAIN briefs'
             /\ nodes'[e.to].origin = "harness"
  <2>1. PICK i \in done, j \in to : e = NewEdge("merge_parent", i, j, b)
    BY <1>2, <1>6
  <2>2. j \in DOMAIN nodes' /\ j \in Nat /\ nodes'[j].origin = "harness"
    BY <1>3, HarnessRow
  <2>3. i \in DOMAIN nodes' /\ i \in Nat /\ i # j
    BY <1>2, <1>4
  <2>4. b \in DOMAIN briefs' /\ b \in Nat
    BY <1>1, <1>2, <1>5
  <2> QED BY <2>1, <2>2, <2>3, <2>4 DEF NewEdge, Edge
<1>7. edges' \subseteq Edge /\ EdgesAdded
  <2>1. edges \subseteq Edge /\ edges \subseteq edges'
    BY <1>2 DEF LineageIInv, LineageTypeOK
  <2> QED BY <1>6, <2>1 DEF EdgesAdded
<1> QED BY <1>1, <1>2, <1>3, <1>7, SoundNow, RecorderStep

\* The child of a fork and its row.
LEMMA ForkedRow ==
  ASSUME LineageIInv, NEW p \in Kernel, NEW k \in Kernel,
         NEW w \in Streams \cup {None},
         ledger[p] = "native", ledger[k] = "none",
         ledger' = [ledger EXCEPT ![k] = "row"]
  PROVE  /\ ledger' \in [Kernel -> {"none", "row", "native", "dead"}]
         /\ ledger'[k] # "none" /\ ledger'[p] # "none" /\ p # k
         /\ Sound(nodes, ledger')
         /\ Sound(Append(nodes, KernelNode(k, None, w)), ledger')
         /\ Extended(nodes, Append(nodes, KernelNode(k, None, w)))
<1>1. /\ ledger' \in [Kernel -> {"none", "row", "native", "dead"}]
      /\ ledger'[k] # "none" /\ ledger'[p] # "none" /\ p # k
      /\ Sound(nodes, ledger')
  BY LedgerRow
<1>2. NodeOf(nodes, k) = {}
  BY NoRowBeforeLaunch
<1>3. None \in {None, k}
  OBVIOUS
<1> QED BY <1>1, <1>2, <1>3, AddKernelRow

LEMMA ForkKeeps ==
  ASSUME LineageIInv, NEW p \in Kernel, NEW k \in Kernel,
         NEW w \in Streams \cup {None}, Fork(p, k, w)
  PROVE  LineageIInv'
<1> DEFINE t == Append(nodes, KernelNode(k, None, w))
<1>1. /\ ledger[p] = "native" /\ ledger[k] = "none"
      /\ ledger' = [ledger EXCEPT ![k] = "row"]
      /\ nodes' = Ensured(t, p, w) /\ edges' = WithEdge(nodes', "fork", p, k)
      /\ UNCHANGED <<disk, briefs, automation, boots>> /\ NoFault
  BY DEF Fork
<1>2. /\ ledger' \in [Kernel -> {"none", "row", "native", "dead"}]
      /\ ledger'[p] # "none" /\ p # k
      /\ Sound(t, ledger') /\ Extended(nodes, t)
  BY <1>1, ForkedRow
<1> HIDE DEF t
<1>3. Sound(nodes', ledger') /\ Extended(t, nodes')
  BY <1>1, <1>2, EnsuredSound
<1>4. Extended(nodes, nodes')
  BY <1>2, <1>3, SoundNow, ExtendedTwice
<1>5. edges' \subseteq Edge /\ EdgesAdded
  BY <1>1, <1>2, <1>3, RecordedEdges
<1> QED BY <1>1, <1>2, <1>3, <1>4, <1>5, SoundNow, RecorderStep

LEMMA ForkFailsKeeps ==
  ASSUME LineageIInv, NEW p \in Kernel, NEW k \in Kernel,
         NEW w \in Streams \cup {None}, ForkFails(p, k, w)
  PROVE  LineageIInv'
<1> DEFINE t == Append(nodes, KernelNode(k, None, w))
           v == Ensured(nodes, p, w)
<1>1. /\ ledger[p] = "native" /\ ledger[k] = "none"
      /\ ledger' = [ledger EXCEPT ![k] = "row"]
      /\ UNCHANGED <<disk, briefs, automation, boots>> /\ Fault
  BY DEF ForkFails
<1>2. /\ ledger' \in [Kernel -> {"none", "row", "native", "dead"}]
      /\ ledger'[k] # "none" /\ ledger'[p] # "none" /\ p # k
      /\ Sound(nodes, ledger') /\ Sound(t, ledger') /\ Extended(nodes, t)
  BY <1>1, ForkedRow
<1>3. CASE nodes' = Ensured(v, k, w) /\ edges' = WithEdge(nodes', "fork", p, k)
  <2>1. Sound(v, ledger') /\ Extended(nodes, v)
    BY <1>2, EnsuredSound
  <2> HIDE DEF v
  <2>2. Sound(nodes', ledger') /\ Extended(v, nodes')
    BY <1>2, <1>3, <2>1, EnsuredSound
  <2>3. Extended(nodes, nodes')
    BY <2>1, <2>2, SoundNow, ExtendedTwice
  <2>4. edges' \subseteq Edge /\ EdgesAdded
    BY <1>2, <1>3, <2>2, RecordedEdges
  <2> QED BY <1>1, <1>2, <2>2, <2>3, <2>4, SoundNow, RecorderStep
<1>4. CASE nodes' \in Unfinished(t, p, w) /\ UNCHANGED edges
  <2> HIDE DEF t
  <2>1. Sound(nodes', ledger') /\ Extended(t, nodes')
    BY <1>2, <1>4, UnfinishedSound
  <2>2. Extended(nodes, nodes')
    BY <1>2, <2>1, SoundNow, ExtendedTwice
  <2> QED BY <1>1, <1>2, <1>4, <2>1, <2>2, SoundNow, NoEdges, RecorderStep
<1> QED BY <1>3, <1>4 DEF ForkFails

LEMMA TranscriptKeeps ==
  ASSUME LineageIInv, NEW n \in Native, Transcript(n)
  PROVE  LineageIInv'
<1> USE DEF Transcript, store
<1>1. disk' \subseteq Native /\ IsFiniteSet(disk')
  BY SoundNow, FS_AddElement
<1>2. Sound(nodes', ledger') /\ Extended(nodes, nodes')
  BY SoundNow, ExtendedSelf
<1> QED BY <1>1, <1>2, SoundNow, NoEdges, RecorderStep

LEMMA SetToSeqInjective ==
  ASSUME NEW S, IsFiniteSet(S)
  PROVE  /\ Cardinality(S) \in Nat
         /\ SetToSeq(S) \in [1..Cardinality(S) -> S]
         /\ \A i, j \in 1..Cardinality(S) :
              SetToSeq(S)[i] = SetToSeq(S)[j] => i = j
<1>1. Cardinality(S) \in Nat /\ ExistsBijection(1..Cardinality(S), S)
  BY FS_CardinalityType
<1>2. PICK f \in [1..Cardinality(S) -> S] : IsInjective(f)
  BY <1>1 DEF ExistsBijection, Bijection, Injection
<1>3. /\ SetToSeq(S) \in [1..Cardinality(S) -> S]
      /\ IsInjective(SetToSeq(S))
  BY <1>2 DEF SetToSeq
<1> QED BY <1>1, <1>3 DEF IsInjective

LEMMA RunCycleKeeps ==
  ASSUME LineageIInv, RunCycle
  PROVE  LineageIInv'
<1>1. PICK skipped \in SUBSET Unregistered :
        /\ IF skipped = {} THEN NoFault ELSE Fault
        /\ nodes' = nodes \o
             [i \in 1..Cardinality(Unregistered \ skipped) |->
                Orphan(SetToSeq(Unregistered \ skipped)[i])]
  BY DEF RunCycle
<1> DEFINE U == Unregistered \ skipped
           c == Cardinality(U)
           s == SetToSeq(U)
           v == [i \in 1..c |-> Orphan(s[i])]
           m == Len(nodes)
<1>2. /\ U \subseteq Native /\ IsFiniteSet(U)
      /\ \A n \in U : ByNative(nodes, n) = 0
  <2>1. U \in SUBSET disk /\ \A n \in U : ByNative(nodes, n) = 0
    BY DEF Unregistered
  <2> HIDE DEF U
  <2> QED BY <2>1, SoundNow, FS_Subset
<1>3. nodes' = nodes \o v
  BY <1>1
<1> HIDE DEF U
<1>4. /\ c \in Nat /\ s \in [1..c -> U]
      /\ \A i, j \in 1..c : s[i] = s[j] => i = j
  BY <1>2, SetToSeqInjective
<1> HIDE DEF c, s
<1>5. nodes \in Seq(Node) /\ m \in Nat /\ DOMAIN nodes = 1..m
  BY SoundNow, LenProperties
<1>6. v \in Seq(Node) /\ Len(v) = c
  <2>1. \A i \in 1..c : v[i] \in Node
    BY <1>2, <1>4 DEF Orphan, Node, States
  <2>2. v \in [1..c -> Node]
    BY <2>1
  <2> QED BY <1>4, <2>2
<1>7. \A i \in 1..c : /\ v[i] = Orphan(s[i])
                      /\ v[i].origin = "reconciled" /\ v[i].session = None
                      /\ v[i].native = s[i] /\ v[i].state = "external"
  BY DEF Orphan
<1> HIDE DEF v, m
<1>8. /\ nodes' \in Seq(Node) /\ Len(nodes') = m + c /\ DOMAIN nodes' = 1..(m + c)
      /\ \A i \in 1..m : nodes'[i] = nodes[i]
      /\ \A i \in (m + 1)..(m + c) : i - m \in 1..c /\ nodes'[i] = v[i - m]
  BY <1>3, <1>4, <1>5, <1>6, ConcatProperties, LenProperties DEF m
<1>9. Extended(nodes, nodes')
  <2>1. Grown(nodes, nodes')
    BY <1>4, <1>5, <1>8 DEF Grown, SameRow, m
  <2>2. ASSUME NEW i \in DOMAIN nodes' \ DOMAIN nodes
        PROVE  nodes'[i].origin = "reconciled" /\ nodes'[i].state = "external"
    <3>1. i \in (m + 1)..(m + c)
      BY <1>4, <1>5, <1>8
    <3> QED BY <1>7, <1>8, <3>1
  <2> QED BY <1>5, <1>8, <2>1, <2>2 DEF Extended
<1>10. RowShape(nodes', ledger)
  <2>1. RowShape(nodes, ledger)
    BY DEF LineageIInv
  <2>2. \A i \in DOMAIN nodes' : i \in DOMAIN nodes \/ i \in (m + 1)..(m + c)
    BY <1>4, <1>5, <1>8
  <2> QED BY <1>5, <1>7, <1>8, <2>1, <2>2 DEF RowShape
<1>11. \A i \in (m + 1)..(m + c), j \in 1..m :
         nodes'[i].session = None /\ nodes'[i].native # nodes'[j].native
  <2>1. \A n \in U : \A j \in DOMAIN nodes : nodes[j].native # n
    BY <1>2, <1>5, ByNativeNone
  <2>2. ASSUME NEW i \in (m + 1)..(m + c), NEW j \in 1..m
        PROVE  nodes'[i].session = None /\ nodes'[i].native # nodes'[j].native
    <3>1. i - m \in 1..c /\ nodes'[i] = v[i - m]
      BY <1>8
    <3>2. nodes'[i].session = None /\ nodes'[i].native \in U
      BY <1>4, <1>7, <3>1
    <3> QED BY <1>5, <1>8, <2>1, <3>2
  <2> QED BY <2>2
<1>12. \A i, j \in (m + 1)..(m + c) :
         nodes'[i].native = nodes'[j].native => i = j
  BY <1>4, <1>5, <1>7, <1>8
<1>13. RowsDiffer(nodes')
  <2>1. ASSUME NEW i \in DOMAIN nodes', NEW j \in DOMAIN nodes'
        PROVE  /\ nodes'[i].session # None /\ nodes'[i].session = nodes'[j].session
                    => i = j
               /\ /\ nodes'[i].native # None /\ nodes'[i].native = nodes'[j].native
                  /\ nodes'[i].origin = nodes'[j].origin
                  => i = j
    <3>1. CASE i \in 1..m /\ j \in 1..m
      BY <1>5, <1>8, <3>1 DEF LineageIInv, RowsDiffer
    <3>2. CASE i \in (m + 1)..(m + c) /\ j \in 1..m
      BY <1>11, <3>2
    <3>3. CASE i \in 1..m /\ j \in (m + 1)..(m + c)
      BY <1>11, <3>3
    <3>4. CASE i \in (m + 1)..(m + c) /\ j \in (m + 1)..(m + c)
      <4>1. nodes'[i].session = None
        BY <1>7, <1>8, <3>4
      <4> QED BY <1>12, <3>4, <4>1
    <3>5. i \in 1..m \/ i \in (m + 1)..(m + c)
      BY <1>4, <1>5, <1>8
    <3>6. j \in 1..m \/ j \in (m + 1)..(m + c)
      BY <1>4, <1>5, <1>8
    <3> QED BY <3>1, <3>2, <3>3, <3>4, <3>5, <3>6
  <2> QED BY <2>1 DEF RowsDiffer
<1>14. UNCHANGED <<ledger, disk, edges, briefs, automation, boots>>
  BY DEF RunCycle
<1>15. Sound(nodes', ledger')
  BY <1>8, <1>10, <1>13, <1>14 DEF Sound
<1>16. Fault \/ NoFault
  BY <1>1
<1> QED BY <1>9, <1>14, <1>15, <1>16, SoundNow, NoEdges, RecorderStep

-----------------------------------------------------------------------------
(* The hook automation, the merge engine and the restart.                  *)

LEMMA KeysNoBrief ==
  ASSUME LineageIInv, UNCHANGED <<briefs, boots>>,
         produced \subseteq produced', work' \subseteq work
  PROVE  KeysOnce'
<1>1. KeysOnce
  BY DEF LineageIInv
<1> QED BY <1>1 DEF KeysOnce

\* A brief is added: its key was consumed, made none before in this run,
\* and no handler under way holds it.
LEMMA BriefAppended ==
  ASSUME LineageIInv, Grown(nodes, nodes'), UNCHANGED boots,
         NEW key \in Key \cup {None}, NEW S \in SUBSET (DOMAIN nodes'),
         key # None => S = {ByNative(nodes', key[2])},
         briefs' = Append(briefs, NewBrief(key, S)),
         produced \subseteq produced', work' \subseteq work,
         key # None =>
           /\ key \in produced'
           /\ \A b \in DOMAIN briefs :
                ~ (briefs[b].key = key /\ briefs[b].boot = boots)
           /\ \A j \in work' : j.key # key
  PROVE  /\ BriefsAdded /\ KeysOnce' /\ briefs' \in Seq(Brief)
         /\ Len(briefs') \in DOMAIN briefs'
         /\ briefs'[Len(briefs')].about = S
<1> DEFINE r == NewBrief(key, S)
           m == Len(briefs)
<1>1. briefs \in Seq(Brief) /\ nodes' \in Seq(Node) /\ boots \in Nat
  BY DEF LineageIInv, LineageTypeOK, Grown
<1>2. S \subseteq Nat
  BY <1>1, LenProperties
<1>3. r \in Brief /\ r.key = key /\ r.about = S /\ r.boot = boots
  BY <1>1, <1>2 DEF NewBrief, Brief
<1> HIDE DEF r
<1>4. briefs' = Append(briefs, r)
  BY DEF r
<1>5. /\ m \in Nat /\ DOMAIN briefs = 1..m /\ DOMAIN briefs' = 1..(m + 1)
      /\ Len(briefs') = m + 1 /\ briefs' \in Seq(Brief)
      /\ briefs'[m + 1] = r /\ \A b \in 1..m : briefs'[b] = briefs[b]
  BY <1>1, <1>3, <1>4
<1> HIDE DEF m
<1>6. \A b \in DOMAIN briefs' : b \in DOMAIN briefs \/ b = m + 1
  BY <1>5
<1>7. BriefsAdded
  BY <1>3, <1>5, <1>6 DEF BriefsAdded, m
<1>8. KeysOnce'
  <2>1. KeysOnce
    BY DEF LineageIInv
  <2>2. \A b \in DOMAIN briefs' :
          /\ briefs'[b].boot <= boots'
          /\ briefs'[b].key # None /\ briefs'[b].boot = boots' =>
               briefs'[b].key \in produced'
    BY <1>1, <1>3, <1>5, <1>6, <2>1 DEF KeysOnce
  <2>3. ASSUME NEW b \in DOMAIN briefs', NEW d \in DOMAIN briefs',
               briefs'[b].key # None, briefs'[b].key = briefs'[d].key,
               briefs'[b].boot = briefs'[d].boot
        PROVE  b = d
    <3>1. CASE b \in DOMAIN briefs /\ d \in DOMAIN briefs
      BY <1>5, <2>1, <2>3, <3>1 DEF KeysOnce
    <3>2. CASE b = m + 1 /\ d \in DOMAIN briefs
      BY <1>3, <1>5, <2>3, <3>2
    <3>3. CASE b \in DOMAIN briefs /\ d = m + 1
      BY <1>3, <1>5, <2>3, <3>3
    <3> QED BY <1>6, <3>1, <3>2, <3>3
  <2>4. ASSUME NEW j \in work'
        PROVE  /\ j.key \in produced'
               /\ \A b \in DOMAIN briefs' :
                    ~ (briefs'[b].key = j.key /\ briefs'[b].boot = boots')
    <3>1. j \in work /\ j.key # None
      BY WorkstreamsAssumption
      DEF LineageIInv, LineageTypeOK, Job, Key, Events
    <3> QED BY <1>3, <1>5, <1>6, <2>1, <3>1 DEF KeysOnce
  <2>5. \A j, l \in work' : j.key = l.key => j = l
    BY <2>1 DEF KeysOnce
  <2> QED BY <2>2, <2>3, <2>4, <2>5 DEF KeysOnce
<1> QED BY <1>3, <1>5, <1>7, <1>8

LEMMA NoBriefs ==
  ASSUME LineageIInv, UNCHANGED briefs
  PROVE  BriefsAdded /\ briefs' \in Seq(Brief)
<1>1. briefs \in Seq(Brief) /\ Len(briefs) \in Nat
  BY LenProperties DEF LineageIInv, LineageTypeOK
<1> QED BY <1>1 DEF BriefsAdded

LEMMA NoRows ==
  ASSUME LineageIInv, UNCHANGED nodes
  PROVE  RowsAdded /\ Grown(nodes, nodes') /\ Sound(nodes', ledger)
<1>1. Extended(nodes, nodes) /\ Sound(nodes, ledger)
  BY SoundNow, ExtendedSelf
<1> QED BY <1>1 DEF RowsAdded, Extended

\* What a handler knows: its key, and the first row of its session.
LEMMA JobFacts ==
  ASSUME LineageIInv, NEW j \in work
  PROVE  /\ j.key \in Key /\ j.key \in PostAck \X Native /\ j.key # None
         /\ j.key \in produced
         /\ j.node = ByNative(nodes, j.key[2]) /\ j.node # 0
         /\ j.node \in DOMAIN nodes /\ nodes[j.node] \in Node
         /\ nodes[j.node].origin \in {"harness", "reconciled"}
         /\ \A l \in work \ {j} : l.key # j.key
         /\ \A b \in DOMAIN briefs :
              ~ (briefs[b].key = j.key /\ briefs[b].boot = boots)
<1>1. j.key \in PostAck \X Native /\ nodes \in Seq(Node)
  BY DEF LineageIInv, LineageTypeOK, Job
<1>2. j.key \in Key /\ j.key # None
  BY <1>1, WorkstreamsAssumption DEF Key, Events
<1>3. j.node = ByNative(nodes, j.key[2]) /\ j.node # 0
  BY DEF LineageIInv, JobsCurrent
<1>4. j.node \in DOMAIN nodes /\ nodes[j.node].native = j.key[2]
  BY <1>1, <1>3, ByNativeLeast
<1>5. nodes[j.node] \in Node /\ j.key[2] # None
  BY <1>1, <1>4, LenProperties, WorkstreamsAssumption
<1>6. nodes[j.node].origin \in {"harness", "reconciled"}
  BY <1>4, <1>5 DEF LineageIInv, RowShape, Node
<1> QED BY <1>1, <1>2, <1>3, <1>4, <1>5, <1>6 DEF LineageIInv, KeysOnce

LEMMA RowReplaced ==
  ASSUME NEW t \in Seq(Node), NEW i \in DOMAIN t, NEW r \in Node,
         SameRow(t[i], r)
  PROVE  LET u == [t EXCEPT ![i] = r]
         IN  /\ Grown(t, u) /\ DOMAIN u = DOMAIN t
             /\ \A k \in DOMAIN t : u[k] = IF k = i THEN r ELSE t[k]
<1> DEFINE u == [t EXCEPT ![i] = r]
<1>1. DOMAIN t = 1..Len(t) /\ Len(t) \in Nat
  BY LenProperties
<1>2. /\ u \in Seq(Node) /\ Len(u) = Len(t)
      /\ \A k \in 1..Len(t) : u[k] = IF k = i THEN r ELSE t[k]
  BY <1>1, ExceptSeq
<1> HIDE DEF u
<1>3. \A k \in DOMAIN t : SameRow(t[k], u[k])
  BY <1>1, <1>2 DEF SameRow
<1>4. DOMAIN u = DOMAIN t
  BY <1>1, <1>2, LenProperties
<1> QED BY <1>1, <1>2, <1>3, <1>4 DEF Grown, u

LEMMA AssignKeeps ==
  ASSUME LineageIInv, NEW i \in DOMAIN nodes, NEW w \in Streams \cup {None},
         Assign(i, w)
  PROVE  LineageIInv'
<1> USE DEF Assign, automation
<1> DEFINE r == [nodes[i] EXCEPT !.stream = w]
<1>1. nodes \in Seq(Node) /\ nodes[i] \in Node
  BY LenProperties DEF LineageIInv, LineageTypeOK
<1>2. r \in Node /\ SameRow(nodes[i], r) /\ r.state = nodes[i].state
  BY <1>1 DEF Node, SameRow
<1>a. nodes' = [nodes EXCEPT ![i] = r]
  OBVIOUS
<1> HIDE DEF r
<1>b. /\ Grown(nodes, nodes') /\ DOMAIN nodes' = DOMAIN nodes
      /\ \A k \in DOMAIN nodes : nodes'[k] = IF k = i THEN r ELSE nodes[k]
  <2> HIDE DEF Assign
  <2> QED BY <1>1, <1>2, <1>a, RowReplaced
<1>3. /\ Grown(nodes, nodes') /\ DOMAIN nodes' = DOMAIN nodes
      /\ \A k \in DOMAIN nodes : nodes'[k].state = nodes[k].state
  BY <1>2, <1>b
<1>4. RowsAdded
  BY <1>3 DEF RowsAdded
<1>5. Sound(nodes', ledger')
  BY <1>3, SoundNow, Relabelled
<1>6. LineageTypeOK'
  BY <1>3, FaultsCounted DEF LineageIInv, LineageTypeOK, Grown
<1>7. KeysOnce' /\ IsFiniteSet(disk') /\ \A j \in work' : j \in work
  BY KeysNoBrief, SoundNow
<1> QED BY <1>4, <1>5, <1>6, <1>7, NoBriefs, NoEdges, StepKeeps DEF Sound

LEMMA PostKeeps ==
  ASSUME LineageIInv, NEW e \in PostAck, NEW n \in Native, Post(e, n)
  PROVE  LineageIInv'
<1> USE DEF Post, store
<1> DEFINE i == ByNative(nodes, n)
           j == JobOf(e, n)
<1>1. nodes \in Seq(Node) /\ i # 0
  BY DEF LineageIInv, LineageTypeOK
<1>2. i \in DOMAIN nodes
  BY <1>1, ByNativeLeast
<1>3. nodes[i] \in Node /\ i \in Nat
  BY <1>1, <1>2, LenProperties
<1>4. j.key = <<e, n>> /\ j.node = i /\ j \in Job
  BY <1>3 DEF JobOf, Job, Node
<1>5. work' = work \cup {j} /\ produced' = produced \cup {<<e, n>>}
      /\ <<e, n>> \in Key /\ <<e, n>> # None /\ <<e, n>> \notin produced
  BY WorkstreamsAssumption DEF Key, Events
<1> HIDE DEF j, i
<1>6. LineageTypeOK'
  BY <1>4, <1>5, FaultsCounted DEF LineageIInv, LineageTypeOK
<1>7. KeysOnce'
  <2>1. KeysOnce
    BY DEF LineageIInv
  <2>2. \A b \in DOMAIN briefs :
          ~ (briefs[b].key = <<e, n>> /\ briefs[b].boot = boots)
    BY <1>5, <2>1 DEF KeysOnce
  <2>3. \A l \in work : l.key # <<e, n>>
    BY <1>5, <2>1 DEF KeysOnce
  <2> QED BY <1>4, <1>5, <2>1, <2>2, <2>3 DEF KeysOnce
<1>8. \A l \in work' :
        \/ l \in work
        \/ l.node # 0 /\ l.node = ByNative(nodes', l.key[2])
  BY <1>1, <1>4, <1>5 DEF i
<1>9. IsFiniteSet(disk') /\ Sound(nodes', ledger')
  BY SoundNow
<1> QED BY <1>6, <1>7, <1>8, <1>9, NoRows, NoBriefs, NoEdges, StepKeeps
        DEF Sound

LEMMA CrashKeeps ==
  ASSUME LineageIInv, Crash
  PROVE  LineageIInv'
<1> USE DEF Crash, store
<1>1. /\ ledger' \in [Kernel -> {"none", "row", "native", "dead"}]
      /\ \A k \in Kernel : ledger[k] # "none" => ledger'[k] # "none"
  BY SoundNow
<1>2. Sound(nodes', ledger')
  BY <1>1, SoundNow, SoundLedger
<1>3. LineageTypeOK' /\ boots \in Nat /\ boots' = boots + 1
  BY <1>1, FaultsCounted DEF LineageIInv, LineageTypeOK
<1>4. KeysOnce'
  <2>1. KeysOnce /\ \A b \in DOMAIN briefs : briefs[b].boot \in Nat
    <3>1. KeysOnce /\ briefs \in Seq(Brief)
      BY DEF LineageIInv, LineageTypeOK
    <3>2. \A b \in DOMAIN briefs : briefs[b] \in Brief
      BY <3>1, LenProperties
    <3> QED BY <3>1, <3>2 DEF Brief
  <2>2. \A b \in DOMAIN briefs : briefs[b].boot < boots'
    BY <1>3, <2>1 DEF KeysOnce
  <2> QED BY <1>3, <2>1, <2>2 DEF KeysOnce
<1>5. IsFiniteSet(disk')
  BY SoundNow
<1> QED BY <1>2, <1>3, <1>4, <1>5, NoRows, NoBriefs, NoEdges, StepKeeps
        DEF Sound

\* A handler's brief follows its session, wherever the rows went meanwhile.
LEMMA JobBrief ==
  ASSUME LineageIInv, NEW j \in work, Grown(nodes, nodes'),
         briefs' = Append(briefs, NewBrief(j.key, {j.node})),
         work' = work \ {j}, UNCHANGED <<produced, boots>>
  PROVE  /\ BriefsAdded /\ KeysOnce' /\ briefs' \in Seq(Brief)
         /\ Len(briefs') \in DOMAIN briefs'
         /\ briefs'[Len(briefs')].about = {j.node}
<1>1. /\ j.key \in Key /\ j.key \in produced
      /\ j.node = ByNative(nodes, j.key[2]) /\ j.node # 0
      /\ \A l \in work' : l.key # j.key
      /\ \A b \in DOMAIN briefs :
           ~ (briefs[b].key = j.key /\ briefs[b].boot = boots)
  BY JobFacts
<1>2. nodes \in Seq(Node)
  BY SoundNow
<1>3. j.node = ByNative(nodes', j.key[2])
  BY <1>1, <1>2, ByNativeStable
<1>4. j.node \in DOMAIN nodes'
  BY <1>1, <1>3, ByNativeLeast DEF Grown
<1>5. {j.node} \in SUBSET (DOMAIN nodes')
  BY <1>4
<1>6. j.key # None => {j.node} = {ByNative(nodes', j.key[2])}
  BY <1>3
<1>7. produced \subseteq produced' /\ work' \subseteq work /\ j.key \in produced'
  BY <1>1
<1> QED BY <1>1, <1>5, <1>6, <1>7, BriefAppended

\* What all steps of a handler share.
LEMMA HookStep ==
  ASSUME LineageIInv, UNCHANGED <<ledger, disk, boots>>, Fault \/ NoFault,
         work' \subseteq work, produced' \subseteq Key, lost' \subseteq Key,
         Sound(nodes', ledger), RowsAdded,
         briefs' \in Seq(Brief), BriefsAdded, KeysOnce',
         edges' \subseteq Edge, EdgesAdded
  PROVE  LineageIInv'
<1>1. LineageTypeOK'
  BY FaultsCounted DEF LineageIInv, LineageTypeOK, Sound
<1>2. IsFiniteSet(disk') /\ \A j \in work' : j \in work
  BY SoundNow
<1> QED BY <1>1, <1>2, StepKeeps DEF Sound

LEMMA EndedRow ==
  ASSUME LineageIInv, NEW j \in work, Ended(j)
  PROVE  /\ Grown(nodes, nodes') /\ Sound(nodes', ledger)
         /\ DOMAIN nodes' = DOMAIN nodes
         /\ \A k \in DOMAIN nodes :
              k # j.node => nodes'[k].state = nodes[k].state
<1>1. CASE j.state \notin {"running", "idle"}
  BY <1>1, NoRows DEF Ended
<1>2. CASE j.state \in {"running", "idle"}
  <2> DEFINE r == [nodes[j.node] EXCEPT !.state = "completed"]
  <2>1. nodes \in Seq(Node) /\ j.node \in DOMAIN nodes /\ nodes[j.node] \in Node
    BY JobFacts, SoundNow
  <2>2. r \in Node /\ SameRow(nodes[j.node], r)
    BY <2>1 DEF Node, SameRow, States
  <2>3. nodes' = [nodes EXCEPT ![j.node] = r]
    BY <1>2 DEF Ended
  <2> HIDE DEF r
  <2>4. /\ Grown(nodes, nodes') /\ DOMAIN nodes' = DOMAIN nodes
        /\ \A k \in DOMAIN nodes :
             nodes'[k] = IF k = j.node THEN r ELSE nodes[k]
    BY <2>1, <2>2, <2>3, RowReplaced
  <2>5. Sound(nodes', ledger)
    BY <2>4, SoundNow, Relabelled
  <2> QED BY <2>4, <2>5
<1> QED BY <1>1, <1>2

LEMMA SnapshotRow ==
  ASSUME LineageIInv, NEW j \in work,
         nodes' = Append(nodes, Snapshot(j))
  PROVE  /\ RowsAdded /\ Grown(nodes, nodes') /\ Sound(nodes', ledger)
         /\ Len(nodes') \in DOMAIN nodes'
         /\ Len(nodes') \notin DOMAIN nodes
         /\ Len(nodes') \in Nat /\ DOMAIN nodes \subseteq DOMAIN nodes'
         /\ \A k \in DOMAIN nodes : nodes'[k] = nodes[k]
<1> DEFINE r == Snapshot(j)
<1>1. /\ nodes \in Seq(Node) /\ Sound(nodes, ledger)
      /\ j.stream \in Streams \cup {None}
  BY SoundNow DEF LineageIInv, LineageTypeOK, Job
<1>2. /\ r \in Node /\ r.origin = "snapshot"
      /\ r.session = None /\ r.native = None
  BY <1>1 DEF Snapshot, Node, States
<1> HIDE DEF r
<1>3. nodes' = Append(nodes, r)
  BY DEF r
<1>4. Sound(nodes', ledger) /\ Grown(nodes, nodes')
  BY <1>1, <1>2, <1>3, AddPlainRow
<1>5. /\ Len(nodes') = Len(nodes) + 1 /\ Len(nodes) \in Nat
      /\ DOMAIN nodes' = 1..(Len(nodes) + 1) /\ DOMAIN nodes = 1..Len(nodes)
      /\ \A k \in DOMAIN nodes : nodes'[k] = nodes[k]
      /\ nodes'[Len(nodes) + 1] = r
  BY <1>1, <1>2, <1>3, GrownByAppend
<1>6. \A k \in DOMAIN nodes' : k \in DOMAIN nodes \/ k = Len(nodes) + 1
  BY <1>5
<1>7. RowsAdded
  BY <1>2, <1>4, <1>5, <1>6 DEF RowsAdded
<1> QED BY <1>4, <1>5, <1>7

LEMMA DistilledKeeps ==
  ASSUME LineageIInv, NEW j \in work, Distilled(j)
  PROVE  LineageIInv'
<1>1. /\ work' = work \ {j} /\ NoFault
      /\ UNCHANGED <<ledger, disk, produced, lost, boots>>
  BY DEF Distilled
<1>2. work' \subseteq work /\ produced' \subseteq Key /\ lost' \subseteq Key
  BY <1>1 DEF LineageIInv, LineageTypeOK
<1>3. CASE Ended(j)
  <2>1. briefs' = Append(briefs, NewBrief(j.key, {j.node})) /\ UNCHANGED edges
    BY <1>3 DEF Ended
  <2>2. /\ Grown(nodes, nodes') /\ Sound(nodes', ledger)
        /\ DOMAIN nodes' = DOMAIN nodes
        /\ \A k \in DOMAIN nodes :
             k # j.node => nodes'[k].state = nodes[k].state
    BY <1>3, EndedRow
  <2>3. /\ BriefsAdded /\ KeysOnce' /\ briefs' \in Seq(Brief)
        /\ Len(briefs') \in DOMAIN briefs'
        /\ briefs'[Len(briefs')].about = {j.node}
    BY <1>1, <2>1, <2>2, JobBrief
  <2>4. RowsAdded
    BY <2>2, <2>3 DEF RowsAdded
  <2> QED BY <1>1, <1>2, <2>1, <2>2, <2>3, <2>4, NoEdges, HookStep
<1>4. CASE Compacted(j)
  <2>1. /\ briefs' = Append(briefs, NewBrief(j.key, {j.node}))
        /\ nodes' = Append(nodes, Snapshot(j))
    BY <1>4 DEF Compacted
  <2>2. /\ j.node \in DOMAIN nodes
        /\ nodes[j.node].origin \in {"harness", "reconciled"}
    BY JobFacts
  <2>3. /\ RowsAdded /\ Grown(nodes, nodes') /\ Sound(nodes', ledger)
        /\ Len(nodes') \in DOMAIN nodes' /\ Len(nodes') \in Nat
        /\ Len(nodes') \notin DOMAIN nodes
        /\ DOMAIN nodes \subseteq DOMAIN nodes'
        /\ \A k \in DOMAIN nodes : nodes'[k] = nodes[k]
    BY <2>1, SnapshotRow
  <2>4. BriefsAdded /\ KeysOnce' /\ briefs' \in Seq(Brief)
    BY <1>1, <2>1, <2>3, JobBrief
  <2> DEFINE e == NewEdge("compact", Len(nodes'), j.node, Len(briefs'))
  <2>5. /\ e.type = "compact" /\ e.from = Len(nodes') /\ e.to = j.node
        /\ e \in Edge
    <3>1. Len(briefs') \in Nat /\ j.node \in Nat
      BY <2>4, LenProperties DEF LineageIInv, LineageTypeOK, Job
    <3> QED BY <2>3, <3>1 DEF NewEdge, Edge
  <2>6. edges' = edges \cup {e}
    BY <1>4 DEF Compacted
  <2> HIDE DEF e
  <2>7. edges' \subseteq Edge /\ EdgesAdded
    BY <2>2, <2>3, <2>5, <2>6 DEF EdgesAdded, LineageIInv, LineageTypeOK
  <2> QED BY <1>1, <1>2, <2>3, <2>4, <2>7, HookStep
<1> QED BY <1>3, <1>4 DEF Distilled

LEMMA DistilledThrowsKeeps ==
  ASSUME LineageIInv, NEW j \in work, DistilledThrows(j)
  PROVE  LineageIInv'
<1>1. /\ work' = work \ {j} /\ Fault /\ lost' = lost \cup {j.key}
      /\ UNCHANGED <<ledger, disk, produced, boots>>
  BY DEF DistilledThrows
<1>2. work' \subseteq work /\ produced' \subseteq Key /\ lost' \subseteq Key
  BY <1>1, JobFacts DEF LineageIInv, LineageTypeOK
<1>3. UNCHANGED edges
  BY DEF DistilledThrows, store
<1>4. CASE UNCHANGED store
  <2>1. UNCHANGED <<nodes, briefs>>
    BY <1>4 DEF store
  <2>2. KeysOnce'
    BY <1>1, <2>1, KeysNoBrief
  <2> QED BY <1>1, <1>2, <1>3, <2>1, <2>2, NoRows, NoBriefs, NoEdges, HookStep
<1>5. CASE /\ briefs' = Append(briefs, NewBrief(j.key, {j.node}))
           /\ \/ UNCHANGED nodes
              \/ nodes' = Append(nodes, Snapshot(j))
  <2>1. RowsAdded /\ Grown(nodes, nodes') /\ Sound(nodes', ledger)
    <3>1. CASE UNCHANGED nodes
      BY <3>1, NoRows
    <3>2. CASE nodes' = Append(nodes, Snapshot(j))
      BY <3>2, SnapshotRow
    <3> QED BY <1>5, <3>1, <3>2
  <2>2. BriefsAdded /\ KeysOnce' /\ briefs' \in Seq(Brief)
    BY <1>1, <1>5, <2>1, JobBrief
  <2> QED BY <1>1, <1>2, <1>3, <2>1, <2>2, NoEdges, HookStep
<1> QED BY <1>4, <1>5 DEF DistilledThrows

LEMMA SessionStartKeeps ==
  ASSUME LineageIInv, NEW n \in Native, SessionStart(n)
  PROVE  LineageIInv'
<1> DEFINE i == ByNative(nodes, n)
           key == <<"SessionStart", n>>
<1>1. /\ i # 0 /\ key \notin produced /\ produced' = produced \cup {key}
      /\ UNCHANGED <<ledger, disk, nodes, edges, work, boots>>
  BY DEF SessionStart
<1>2. key \in Key /\ key[2] = n
  BY DEF Key, Events
<1>3. work' \subseteq work /\ produced' \subseteq Key /\ produced \subseteq produced'
  BY <1>1, <1>2 DEF LineageIInv, LineageTypeOK
<1>4. i \in DOMAIN nodes'
  BY <1>1, SoundNow, ByNativeLeast
<1>5. KeysOnce
  BY DEF LineageIInv
<1> HIDE DEF key
<1>6. CASE /\ briefs' = Append(briefs, NewBrief(key, {i}))
           /\ UNCHANGED lost /\ NoFault
  <2>1. {i} \in SUBSET (DOMAIN nodes') /\ {i} = {ByNative(nodes', key[2])}
    BY <1>1, <1>2, <1>4
  <2>2. /\ key \in produced'
        /\ \A b \in DOMAIN briefs :
             ~ (briefs[b].key = key /\ briefs[b].boot = boots)
        /\ \A j \in work' : j.key # key
    <3>1. key # None
      BY <1>2, WorkstreamsAssumption
    <3> QED BY <1>1, <1>5, <3>1 DEF KeysOnce
  <2>3. Grown(nodes, nodes')
    BY <1>1, NoRows
  <2> HIDE DEF i
  <2>4. BriefsAdded /\ KeysOnce' /\ briefs' \in Seq(Brief)
    BY <1>1, <1>2, <1>3, <1>6, <2>1, <2>2, <2>3, BriefAppended
  <2>5. lost' \subseteq Key
    BY <1>6 DEF LineageIInv, LineageTypeOK
  <2> QED BY <1>1, <1>3, <1>6, <2>4, <2>5, NoRows, NoEdges, HookStep
<1>7. CASE lost' = lost \cup {key} /\ UNCHANGED briefs /\ Fault
  <2>1. KeysOnce'
    BY <1>1, <1>3, <1>7, KeysNoBrief
  <2>2. lost' \subseteq Key
    BY <1>2, <1>7 DEF LineageIInv, LineageTypeOK
  <2> QED BY <1>1, <1>3, <1>7, <2>1, <2>2, NoRows, NoBriefs, NoEdges, HookStep
<1> QED BY <1>6, <1>7 DEF SessionStart, key

LEMMA ParentsBrief ==
  ASSUME LineageIInv, Grown(nodes, nodes'), UNCHANGED <<boots, automation>>,
         NEW parents \in SUBSET DOMAIN nodes,
         briefs' = Append(briefs, NewBrief(None, parents))
  PROVE  /\ BriefsAdded /\ KeysOnce' /\ briefs' \in Seq(Brief)
         /\ Len(briefs') \in DOMAIN briefs'
         /\ briefs'[Len(briefs')].about = parents
         /\ work' \subseteq work /\ produced' \subseteq Key /\ lost' \subseteq Key
<1>1. parents \in SUBSET (DOMAIN nodes')
  <2>1. nodes \in Seq(Node) /\ nodes' \in Seq(Node)
    BY SoundNow DEF Grown
  <2> QED BY <2>1, LenProperties DEF Grown
<1>2. UNCHANGED <<work, produced, lost>>
  BY DEF automation
<1>3. produced \subseteq produced' /\ work' \subseteq work
  BY <1>2
<1>4. /\ BriefsAdded /\ KeysOnce' /\ briefs' \in Seq(Brief)
      /\ Len(briefs') \in DOMAIN briefs'
      /\ briefs'[Len(briefs')].about = parents
  BY <1>1, <1>3, BriefAppended
<1>5. produced' \subseteq Key /\ lost' \subseteq Key
  BY <1>2 DEF LineageIInv, LineageTypeOK
<1> QED BY <1>3, <1>4, <1>5

LEMMA MergeFailsKeeps ==
  ASSUME LineageIInv, NEW parents \in SUBSET DOMAIN nodes, MergeFails(parents)
  PROVE  LineageIInv'
<1>1. /\ briefs' = Append(briefs, NewBrief(None, parents)) /\ Fault
      /\ UNCHANGED <<ledger, disk, nodes, edges, automation, boots>>
  BY DEF MergeFails
<1>2. RowsAdded /\ Grown(nodes, nodes') /\ Sound(nodes', ledger)
  BY <1>1, NoRows
<1>3. /\ BriefsAdded /\ KeysOnce' /\ briefs' \in Seq(Brief)
      /\ work' \subseteq work /\ produced' \subseteq Key /\ lost' \subseteq Key
  BY <1>1, <1>2, ParentsBrief
<1> QED BY <1>1, <1>2, <1>3, NoEdges, HookStep

LEMMA MergeKeeps ==
  ASSUME LineageIInv, NEW parents \in SUBSET DOMAIN nodes,
         NEW w \in Streams \cup {None}, Merge(parents, w)
  PROVE  LineageIInv'
<1> DEFINE r == MergeNode(w)
           m == Len(nodes')
           c == Len(briefs')
           added == {NewEdge("merge_parent", i, m, c) : i \in parents}
<1>1. /\ briefs' = Append(briefs, NewBrief(None, parents)) /\ NoFault
      /\ nodes' = Append(nodes, r) /\ edges' = edges \cup added
      /\ UNCHANGED <<ledger, disk, automation, boots>>
      /\ Cardinality(parents) >= 2
  BY DEF Merge
<1>2. nodes \in Seq(Node) /\ Sound(nodes, ledger)
  BY SoundNow
<1>3. /\ r \in Node /\ r.origin = "merge" /\ r.state = "idle"
      /\ r.session = None /\ r.native = None
  BY DEF MergeNode, Node, States
<1> HIDE DEF r
<1>4. Sound(nodes', ledger) /\ Grown(nodes, nodes')
  BY <1>1, <1>2, <1>3, AddPlainRow
<1>5. /\ m = Len(nodes) + 1 /\ Len(nodes) \in Nat
      /\ DOMAIN nodes' = 1..(Len(nodes) + 1) /\ DOMAIN nodes = 1..Len(nodes)
      /\ \A k \in DOMAIN nodes : nodes'[k] = nodes[k]
      /\ nodes'[Len(nodes) + 1] = r
  BY <1>1, <1>2, <1>3, GrownByAppend
<1>6. /\ BriefsAdded /\ KeysOnce' /\ briefs' \in Seq(Brief)
      /\ c \in DOMAIN briefs' /\ briefs'[c].about = parents
      /\ work' \subseteq work /\ produced' \subseteq Key /\ lost' \subseteq Key
  BY <1>1, <1>4, ParentsBrief
<1>7. c \in Nat
  BY <1>6, LenProperties
<1> HIDE DEF m, c
<1>8. \A k \in DOMAIN nodes' : k \in DOMAIN nodes \/ k = m
  BY <1>5
<1>9. m \notin DOMAIN nodes /\ m \in Nat /\ m \in DOMAIN nodes'
  BY <1>5
<1>10. \A e \in added : /\ e \in Edge /\ e.to = m /\ e.brief = c
                        /\ e.from \in parents /\ e.from # m
  BY <1>5, <1>7, <1>9 DEF NewEdge, Edge
<1>11. {f \in edges' : f.to = m} = added
  <2>1. \A e \in edges : e.to # m
    BY <1>9 DEF LineageIInv, GraphIntact
  <2> HIDE DEF added
  <2> QED BY <1>1, <1>10, <2>1
<1>12. {<<e.from, e.brief>> : e \in added} = {<<p, c>> : p \in parents}
  <2>1. ASSUME NEW p \in parents PROVE \E e \in added : e.from = p
    <3>1. NewEdge("merge_parent", p, m, c) \in added
      OBVIOUS
    <3>2. NewEdge("merge_parent", p, m, c).from = p
      BY DEF NewEdge
    <3> QED BY <3>1, <3>2
  <2> HIDE DEF added
  <2>2. \A p \in parents : <<p, c>> \in {<<e.from, e.brief>> : e \in added}
    BY <1>10, <2>1
  <2>3. \A e \in added : <<e.from, e.brief>> \in {<<p, c>> : p \in parents}
    BY <1>10
  <2> QED BY <2>2, <2>3
<1> HIDE DEF added
<1>13. ASSUME NEW i, i = m
       PROVE  Joined(i)'
  <2>1. Cardinality(briefs'[c].about) >= 2
    BY <1>1, <1>6
  <2>2. {<<e.from, e.brief>> : e \in {f \in edges' : f.to = i}}
          = {<<p, c>> : p \in briefs'[c].about}
    BY <1>6, <1>11, <1>12, <1>13
  <2> QED BY <1>6, <2>1, <2>2 DEF Joined
<1>14. RowsAdded
  <2>1. \A i \in DOMAIN nodes' \ DOMAIN nodes : Joined(i)'
    BY <1>8, <1>13
  <2>2. \A i \in DOMAIN nodes' : nodes'[i].state = "completed" =>
          i \in DOMAIN nodes /\ nodes[i].state = "completed"
    BY <1>3, <1>5, <1>8
  <2> QED BY <1>4, <2>1, <2>2 DEF RowsAdded
<1>15. edges' \subseteq Edge /\ EdgesAdded
  <2>1. \A e \in edges' \ edges :
          /\ e.from \in DOMAIN nodes' /\ e.to = m /\ e.from # m
          /\ nodes'[e.to].origin = "merge" /\ e.brief \in DOMAIN briefs'
    BY <1>1, <1>3, <1>5, <1>6, <1>10 DEF m
  <2>2. edges' \subseteq Edge
    BY <1>1, <1>10 DEF LineageIInv, LineageTypeOK
  <2> QED BY <1>1, <1>9, <2>1, <2>2 DEF EdgesAdded
<1> QED BY <1>1, <1>4, <1>6, <1>14, <1>15, HookStep

-----------------------------------------------------------------------------
(* The specification.                                                      *)

LEMMA LineageStutters ==
  ASSUME LineageIInv, UNCHANGED lineageVars
  PROVE  LineageIInv'
<1>1. UNCHANGED <<ledger, disk, nodes, edges, briefs, produced, work, boots,
                  faults, lost>>
  BY DEF lineageVars
<1>2. LineageTypeOK' /\ IsFiniteSet(disk')
  BY <1>1 DEF LineageIInv, LineageTypeOK
<1>3. KeysOnce' /\ \A j \in work' : j \in work
  BY <1>1 DEF LineageIInv, KeysOnce
<1>4. Sound(nodes', ledger')
  BY <1>1, SoundNow
<1> QED BY <1>1, <1>2, <1>3, <1>4, NoRows, NoBriefs, NoEdges, StepKeeps
        DEF Sound

\* Whatever is retried, fails or restarts, the lineage tables keep what the
\* cockpit reads from them: one hook event, one brief in a broker run; a
\* merge node of the engine with all its parents, and a merge of the recorder
\* with its brief on the edges that were written; one node per session and
\* origin; and briefs about the node their session resolves to, although the
\* handler read it before its await.  Of the workstream that it read there
\* nothing is claimed.  For every set of sessions and workstreams and every
\* bound.
THEOREM LineageInvariant == LineageSpec => []LineageIInv
<1>1. LineageInit => LineageIInv
  BY LineageInitInv
<1>2. LineageIInv /\ [LineageNext]_lineageVars => LineageIInv'
  <2> SUFFICES ASSUME LineageIInv, [LineageNext]_lineageVars PROVE LineageIInv'
    OBVIOUS
  <2>1. ASSUME NEW k \in Kernel, InitMessage(k) PROVE LineageIInv'
    BY <2>1, InitMessageKeeps
  <2>2. ASSUME NEW k \in Kernel, LaunchDropped(k) PROVE LineageIInv'
    BY <2>2, LaunchDroppedKeeps
  <2>3. ASSUME NEW k \in Kernel, NEW w \in Streams \cup {None}, Launch(k, w)
        PROVE  LineageIInv'
    BY <2>3, LaunchKeeps
  <2>4. ASSUME NEW k \in Kernel, NEW w \in Streams \cup {None},
               Continue(k, w) \/ RecordFails(k, w)
        PROVE  LineageIInv'
    BY <2>4, ContinueKeeps, RecordFailsKeeps
  <2>5. ASSUME NEW k \in Kernel, NEW p \in Kernel,
               NEW w \in Streams \cup {None}, Fork(p, k, w) \/ ForkFails(p, k, w)
        PROVE  LineageIInv'
    BY <2>5, ForkKeeps, ForkFailsKeeps
  <2>6. ASSUME NEW n \in Native, Transcript(n) PROVE LineageIInv'
    BY <2>6, TranscriptKeeps
  <2>7. ASSUME NEW n \in Native, NEW e \in PostAck, PostInRoom(e, n)
        PROVE  LineageIInv'
    BY <2>7, PostKeeps DEF PostInRoom
  <2>8. ASSUME NEW n \in Native, SessionStart(n) PROVE LineageIInv'
    BY <2>8, SessionStartKeeps
  <2>9. ASSUME NEW i \in DOMAIN nodes, NEW w \in Streams \cup {None},
               Assign(i, w)
        PROVE  LineageIInv'
    BY <2>9, AssignKeeps
  <2>10. CASE RunCycle
    BY <2>10, RunCycleKeeps
  <2>11. ASSUME NEW j \in work, Distilled(j) PROVE LineageIInv'
    BY <2>11, DistilledKeeps
  <2>12. ASSUME NEW j \in work, DistilledThrows(j) PROVE LineageIInv'
    BY <2>12, DistilledThrowsKeeps
  <2>13. ASSUME NEW parents \in SUBSET DOMAIN nodes,
                NEW w \in Streams \cup {None}, Merge(parents, w)
         PROVE  LineageIInv'
    BY <2>13, MergeKeeps
  <2>14. ASSUME NEW parents \in SUBSET DOMAIN nodes, MergeFails(parents)
         PROVE  LineageIInv'
    BY <2>14, MergeFailsKeeps
  <2>15. CASE Crash
    BY <2>15, CrashKeeps
  <2>16. ASSUME NEW k \in Kernel, NEW w \in Streams \cup {None},
                NEW parents \in SUBSET DOMAIN nodes, NEW b \in 1..MaxBriefs,
                RecordMerge(k, parents, b, w)
         PROVE  LineageIInv'
    BY <2>16, RecordMergeKeeps
  <2>17. CASE UNCHANGED lineageVars
    BY <2>17, LineageStutters
  <2> QED
    BY <2>1, <2>2, <2>3, <2>4, <2>5, <2>6, <2>7, <2>8, <2>9, <2>10, <2>11,
       <2>12, <2>13, <2>14, <2>15, <2>16, <2>17
    DEF LineageNext
<1> QED BY <1>1, <1>2, PTL DEF LineageSpec

\* The invariant the run checks, from the inductive one.
THEOREM LineageKeepsItsWord == LineageSpec => []WorkstreamsInv
<1>1. LineageIInv => WorkstreamsInv
  BY IInvGivesInv
<1> QED BY <1>1, LineageInvariant, PTL
=============================================================================
