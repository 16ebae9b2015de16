---------------------------- MODULE Supervision ----------------------------
(***************************************************************************)
(* The resource governor (core/src/supervision): footprint watchdog,       *)
(* pressure monitor, the shed order of the scheduler, idle hibernation and *)
(* spawn admission, driven by governor.tick.                               *)
(*                                                                         *)
(* A tick works on the sessions it saw at its start and awaits a port for  *)
(* every recycle, eviction and hibernation.  Between two awaits it holds   *)
(* the JavaScript thread; while it awaits, sessions come, go and become    *)
(* active, and the timer may have started another tick.                    *)
(***************************************************************************)
EXTENDS Integers, FiniteSets, Sequences, SequencesExt

CONSTANTS
  Sessions,     \* supervised sessions, numbered in slot order
  Account,      \* isAccountSession
  Ticks,        \* ticks that may overlap
  WarnAt,       \* warnMb of the session's class
  RecycleAt,    \* recycleMb of the session's class, NoLine when it has none
  NoLine,
  Margin,       \* hysteresisMb
  Sustain,      \* sustainedSeconds of the session's class
  MaxFootprint, \* bound: largest sample
  Sampled,      \* bound: sessions of which the probe may know a footprint
  IdleWindow,   \* idleWindowMs
  RedGate,      \* sustainedRedTicksForAccountHibernation
  MaxTime       \* bound: clock

Free == "free"

ASSUME SupervisionAssumption ==
  /\ Sessions \subseteq Nat \ {0} /\ Account \subseteq Sessions
  /\ Free \notin Ticks
  /\ {NoLine, MaxFootprint, RedGate, MaxTime} \subseteq Nat
  /\ \A s \in Sessions : RecycleAt[s] = NoLine \/ WarnAt[s] < RecycleAt[s]
  /\ NoLine > MaxFootprint

VARIABLES
  registered,    \* keys of `sessions`
  lastActivity,  \* lastActivityMs, Never when absent
  hibernated,    \* the `hibernated` set
  band,          \* watchdog state: band
  since,         \* watchdog state: sustainedSinceMs, where the class reads it
  pressure,      \* current of the monitor = lastPressure of the governor
  redTicks,      \* consecutiveRedTicks, counted up to RedGate
  clock,
  tick,          \* per tick: phase, nowMs, live and the work ahead of it
  thread,        \* the tick that holds the thread, Free when none does
  hot,           \* history: sampled at the recycle line in this generation
  recent,        \* history: the pressure of the latest RedGate evaluations
  stale          \* history: non-account, marked by a call that was overtaken

vars == <<registered, lastActivity, hibernated, band, since, pressure,
          redTicks, clock, tick, thread, hot, recent, stale>>
sessionVars == <<registered, lastActivity>>
sleepVars == <<hibernated, stale>>
watchdogVars == <<band, since, hot>>
pressureVars == <<pressure, redTicks, recent>>

Never == -1
Debounced == {s \in Sessions : Sustain[s] > 0}
NoReading == -1
EvictModel == 0
Idle == [phase |-> "idle", now |-> 0, live |-> {}, queue |-> <<>>,
         red |-> FALSE, excused |-> {}, late |-> FALSE]
Bands == {"ok", "warn", "recycle"}
Phases == {"idle", "recycle", "shed", "hibernate"}

TypeOK ==
  /\ registered \subseteq Sessions /\ hibernated \subseteq Sessions
  /\ stale \subseteq hibernated
  /\ lastActivity \in [Sessions -> {Never} \cup 0..MaxTime]
  /\ band \in [Sessions -> Bands]
  /\ since \in [Debounced -> {Never} \cup 0..MaxTime]
  /\ pressure \in {"normal", "amber", "red"} /\ redTicks \in 0..RedGate
  /\ clock \in 0..MaxTime
  /\ \A t \in Ticks :
       tick[t].phase \in Phases /\ tick[t].live \subseteq Sessions
  /\ thread \in Ticks \cup {Free}
  /\ hot \in [Sessions -> BOOLEAN]

Init ==
  /\ registered = {} /\ lastActivity = [s \in Sessions |-> Never]
  /\ hibernated = {} /\ stale = {}
  /\ band = [s \in Sessions |-> "ok"] /\ since = [s \in Debounced |-> Never]
  /\ pressure = "normal" /\ redTicks = 0 /\ clock = 0
  /\ tick = [t \in Ticks |-> Idle] /\ thread = Free
  /\ hot = [s \in Sessions |-> FALSE] /\ recent = <<>>

-----------------------------------------------------------------------------
(* Watchdog *)

Rank == [ok |-> 0, warn |-> 1, recycle |-> 2]

\* What the footprint probe may say of the live sessions.
Footprints(live) ==
  {[s \in live |-> IF s \in Sampled THEN mb[s] ELSE NoReading] :
     mb \in [live \cap Sampled -> NoReading..MaxFootprint]}

\* sustainedSinceMs after a sample: a dip below the warn line resets it.
SinceAfter(s, mb, now) ==
  IF mb < WarnAt[s] THEN Never ELSE IF since[s] = Never THEN now ELSE since[s]

\* rawBand, and the sustained window that holds a debounced class at ok.
Target(s, mb, now) ==
  IF mb < WarnAt[s]
     \/ (s \in Debounced /\ now - SinceAfter(s, mb, now) < Sustain[s])
  THEN "ok"
  ELSE IF mb >= RecycleAt[s] THEN "recycle" ELSE "warn"

\* applyHysteresis: up at once, down only clear of the line by the margin.
WithMargin(s, prior, target, mb) ==
  IF Rank[target] >= Rank[prior] THEN target
  ELSE IF prior = "recycle" /\ mb >= RecycleAt[s] - Margin THEN "recycle"
  ELSE IF mb >= WarnAt[s] - Margin THEN "warn" ELSE target

\* evaluate of one session; a missing reading keeps everything.
BandAfter(s, mb, now) ==
  IF mb = NoReading THEN band[s]
  ELSE WithMargin(s, band[s], Target(s, mb, now), mb)

\* evaluate of the live sessions with the given samples.
Evaluate(live, sample, now) ==
  /\ band' = [s \in Sessions |->
                IF s \in live THEN BandAfter(s, sample[s], now) ELSE band[s]]
  /\ since' = [s \in Debounced |->
                IF s \in live /\ sample[s] # NoReading
                THEN SinceAfter(s, sample[s], now) ELSE since[s]]
  /\ hot' = [s \in Sessions |->
               hot[s] \/ (s \in live /\ sample[s] >= RecycleAt[s])]

\* Mutant: a recycled session keeps its watchdog state.
Remember(s) == band' = band /\ since' = since

\* forget
Forget(s) == /\ band' = [band EXCEPT ![s] = "ok"]
             /\ since' = [d \in Debounced |-> IF d = s THEN Never ELSE since[d]]

-----------------------------------------------------------------------------
(* Pressure.  A reading is the worst of its two digital signals (level and *)
(* pageout rate: 0 calm, 1 amber, 2 red) and the worst of its two analog   *)
(* ones (free RAM and swap: 0 clear, 1 in the margin of amber, 2 amber,    *)
(* 3 in the margin of red, 4 red); every test of the code is a disjunction *)
(* over the signals of a kind.                                             *)

Readings == [digital : 0..2, analog : 0..4]
Severity == [normal |-> 0, amber |-> 1, red |-> 2]

RawState(r) ==
  IF r.digital = 2 \/ r.analog = 4 THEN "red"
  ELSE IF r.digital >= 1 \/ r.analog >= 2 THEN "amber" ELSE "normal"

\* withHysteresis
PressureAfter(r) ==
  IF Severity[RawState(r)] >= Severity[pressure] THEN RawState(r)
  ELSE IF pressure = "red" /\ (r.digital = 2 \/ r.analog >= 3) THEN "red"
  ELSE IF r.digital >= 1 \/ r.analog >= 1 THEN "amber" ELSE "normal"

\* Mutant: a calm evaluation in between does not reset the count.
RedCountOn(p) ==
  IF p = "red" /\ redTicks < RedGate THEN redTicks + 1 ELSE redTicks

RedCount(p) ==
  IF p # "red" THEN 0 ELSE IF redTicks < RedGate THEN redTicks + 1 ELSE redTicks

-----------------------------------------------------------------------------
(* Plans *)

\* The sessions of S by their slot.
InSlotOrder(S) ==
  CHOOSE q \in [1..Cardinality(S) -> S] :
    \A i, j \in 1..Cardinality(S) : i < j => q[i] < q[j]

\* Mutant: an idle session is left to the idle planner.
VictimsNotIdle(live, now) ==
  {s \in live \ (Account \cup hibernated) : lastActivity[s] = now}

\* The victims of hibernate-non-account: never an account session.  The
\* filter reads no activity, so an active session is taken too, where the
\* comment of planShed speaks of idle ones; and it trusts the hibernated
\* mark, also a stale one.
Victims(live, now) == live \ (Account \cup hibernated)

\* planShed, the steps that await a port; the levers without a port state
\* (model context, frontend weight, scrollback) leave the governor alone.
PlanShed(p, resident, live, now) ==
  IF p # "red" THEN <<>>
  ELSE (IF resident THEN <<EvictModel>> ELSE <<>>)
       \o InSlotOrder(Victims(live, now))

\* allowAccountUnderRed
AllowAccount == RedGate > 0 /\ pressure = "red" /\ redTicks >= RedGate

\* planIdleHibernation: a session never active is not idle; non-account first.
PlanIdle(live, now) ==
  LET idle == {s \in live \ hibernated :
                 lastActivity[s] # Never /\ now - lastActivity[s] >= IdleWindow}
  IN  InSlotOrder(idle \ Account)
        \o (IF AllowAccount THEN InSlotOrder(idle \cap Account) ELSE <<>>)

-----------------------------------------------------------------------------
(* The tick *)

\* Steps 1 and 2: sample, band, and queue the recycles.
Begin(t, sample) ==
  LET live == registered IN
  /\ thread = Free /\ tick[t].phase = "idle"
  /\ Evaluate(live, sample, clock)
  /\ thread' = t
  /\ tick' = [tick EXCEPT ![t] =
       [phase |-> "recycle", now |-> clock, live |-> live,
        queue |-> InSlotOrder({s \in live : band'[s] = "recycle"}),
        red |-> FALSE, excused |-> {}, late |-> FALSE]]
  /\ UNCHANGED <<sessionVars, sleepVars, pressureVars, clock>>

\* The tick calls the port of its next item and awaits it.
Await(t) ==
  /\ thread = t /\ tick[t].queue # <<>>
  /\ thread' = Free
  /\ UNCHANGED <<sessionVars, sleepVars, watchdogVars, pressureVars,
                 clock, tick>>

\* A port that t awaits settles; the tick takes the thread back.
Resumes(t, phase) == thread = Free /\ tick[t].phase = phase

Done(t) == tick' = [tick EXCEPT ![t].queue = Tail(@), ![t].late = FALSE]

\* recycle resolved: the new child starts with a fresh watchdog window.
Recycled(t) ==
  LET s == Head(tick[t].queue) IN
  /\ Resumes(t, "recycle") /\ thread' = t /\ Done(t)
  /\ Forget(s) /\ hot' = [hot EXCEPT ![s] = FALSE]
  /\ UNCHANGED <<sessionVars, sleepVars, pressureVars, clock>>

\* recycle rejected: logged, nothing forgotten.
RecycleFailed(t) ==
  /\ Resumes(t, "recycle") /\ thread' = t /\ Done(t)
  /\ UNCHANGED <<sessionVars, sleepVars, watchdogVars, pressureVars,
                 clock>>

\* Step 3 and the plan of step 4; the port says if a model is resident.
\* Without a reading the state is held, and a held red counts as a red tick.
Measure(t, p, resident) ==
  /\ thread = t /\ tick[t].phase = "recycle" /\ tick[t].queue = <<>>
  /\ p \in {PressureAfter(r) : r \in Readings} \cup {pressure}
  /\ pressure' = p /\ redTicks' = RedCount(p)
  /\ recent' = IF RedGate = 0 THEN <<>>
               ELSE Append(IF Len(recent) = RedGate THEN Tail(recent)
                           ELSE recent, p)
  /\ tick' = [tick EXCEPT ![t].phase = "shed", ![t].red = (p = "red"),
       ![t].excused = stale,
       ![t].queue = PlanShed(p, resident, tick[t].live, tick[t].now)]
  /\ UNCHANGED <<sessionVars, sleepVars, watchdogVars, clock, thread>>

\* evictAll settles, or fails and is logged: the same to the governor.
Evicted(t) ==
  /\ Resumes(t, "shed") /\ thread' = t /\ Done(t)
  /\ Head(tick[t].queue) = EvictModel
  /\ UNCHANGED <<sessionVars, sleepVars, watchdogVars, pressureVars, clock>>

\* hibernate resolved, in step 4 or step 5: the mark is set without a look at
\* what became of the session since the call.
Hibernated(t) ==
  /\ Resumes(t, tick[t].phase) /\ tick[t].phase \in {"shed", "hibernate"}
  /\ Head(tick[t].queue) # EvictModel
  /\ thread' = t /\ Done(t)
  /\ hibernated' = hibernated \cup {Head(tick[t].queue)}
  /\ stale' = IF tick[t].late
              THEN stale \cup ({Head(tick[t].queue)} \ hibernated)
              ELSE stale \ {Head(tick[t].queue)}
  /\ UNCHANGED <<sessionVars, watchdogVars, pressureVars, clock>>

\* hibernate rejected: logged.
HibernateFailed(t) ==
  /\ Resumes(t, tick[t].phase) /\ tick[t].phase \in {"shed", "hibernate"}
  /\ Head(tick[t].queue) # EvictModel
  /\ thread' = t
  /\ tick' = [tick EXCEPT ![t].queue = Tail(@), ![t].late = FALSE,
                          ![t].excused = IF tick[t].phase = "shed"
                                         THEN @ \cup {Head(tick[t].queue)}
                                         ELSE @]
  /\ UNCHANGED <<sessionVars, sleepVars, watchdogVars, pressureVars,
                 clock>>

\* The plan of step 5, from the state as it is after the awaits of step 4.
\* Nothing after it depends on what the tick saw or on its time.
PlanHibernation(t) ==
  /\ thread = t /\ tick[t].phase = "shed" /\ tick[t].queue = <<>>
  /\ tick' = [tick EXCEPT ![t] =
       [phase |-> "hibernate", now |-> 0, live |-> {},
        queue |-> PlanIdle(tick[t].live, tick[t].now),
        red |-> FALSE, excused |-> {}, late |-> FALSE]]
  /\ UNCHANGED <<sessionVars, sleepVars, watchdogVars, pressureVars,
                 clock, thread>>

\* Step 6: the snapshot is assembled and published.
Finish(t) ==
  /\ thread = t /\ tick[t].phase = "hibernate" /\ tick[t].queue = <<>>
  /\ tick' = [tick EXCEPT ![t] = Idle] /\ thread' = Free
  /\ UNCHANGED <<sessionVars, sleepVars, watchdogVars, pressureVars,
                 clock>>

-----------------------------------------------------------------------------
(* What others do while no tick holds the thread *)

\* admitSpawn: an account spawn always, another one unless at red.
Admit(s) == s \in Account \/ pressure # "red"

\* History: s goes or wakes.  If it is a session that red passes answer for,
\* one in progress does so no longer, and a call out to hibernate it is late.
Overtakes(s) ==
  tick' = IF s \in Account THEN tick ELSE
    [t \in Ticks |-> [tick[t] EXCEPT
       !.excused = IF tick[t].phase = "shed" /\ s \in tick[t].live
                   THEN @ \cup {s} ELSE @,
       !.late = IF /\ tick[t].phase \in {"shed", "hibernate"}
                   /\ s = Head(tick[t].queue)
                THEN TRUE ELSE @]]

\* An admitted spawn registers its session.
Register(s) ==
  /\ thread = Free /\ s \notin registered /\ Admit(s)
  /\ registered' = registered \cup {s}
  /\ UNCHANGED <<lastActivity, sleepVars, watchdogVars, pressureVars,
                 clock, tick, thread>>

\* deregister clears every table of the session.
Deregister(s) ==
  /\ thread = Free /\ s \in registered
  /\ registered' = registered \ {s} /\ hibernated' = hibernated \ {s}
  /\ stale' = stale \ {s}
  /\ lastActivity' = [lastActivity EXCEPT ![s] = Never]
  /\ Forget(s) /\ hot' = [hot EXCEPT ![s] = FALSE]
  /\ Overtakes(s)
  /\ UNCHANGED <<pressureVars, clock, thread>>

\* noteActivity wakes the session.
NoteActivity(s) ==
  /\ thread = Free /\ s \in registered
  /\ lastActivity' = [lastActivity EXCEPT ![s] = clock]
  /\ hibernated' = hibernated \ {s} /\ stale' = stale \ {s}
  /\ Overtakes(s)
  /\ UNCHANGED <<registered, watchdogVars, pressureVars, clock, thread>>

Advance ==
  /\ thread = Free /\ clock < MaxTime /\ clock' = clock + 1
  /\ UNCHANGED <<sessionVars, sleepVars, watchdogVars, pressureVars,
                 tick, thread>>

Next ==
  \/ \E t \in Ticks :
       \/ \E sample \in Footprints(registered) : Begin(t, sample)
       \/ Await(t) \/ Recycled(t) \/ RecycleFailed(t)
       \/ \E p \in {"normal", "amber", "red"}, resident \in BOOLEAN :
            Measure(t, p, resident)
       \/ Evicted(t)
       \/ Hibernated(t) \/ HibernateFailed(t)
       \/ PlanHibernation(t) \/ Finish(t)
  \/ \E s \in Sessions : Register(s) \/ Deregister(s) \/ NoteActivity(s)
  \/ Advance

Spec == Init /\ [][Next]_vars

-----------------------------------------------------------------------------
\* A session stands at the recycle band only for its current child: that
\* child was sampled at the line, and hysteresis never carries the band over
\* a recycle or a new registration.
BandIsEarned ==
  \A s \in Sessions : /\ band[s] = "recycle" => hot[s]
                      /\ RecycleAt[s] = NoLine => band[s] # "recycle"

SupervisionInv == TypeOK /\ BandIsEarned

\* No account session is planned for hibernation, by any of the overlapping
\* ticks, unless the last RedGate pressure evaluations were all red.
SustainedRed == Len(recent) = RedGate /\ ToSet(recent) = {"red"}
AccountsOnlyAtSustainedRed ==
  [][\A t \in Ticks : ToSet(tick'[t].queue) \cap Account # {}
       => \/ tick'[t].phase = "recycle"
          \/ /\ tick'[t].phase = "hibernate"
             /\ tick[t].phase = "shed" => SustainedRed]_vars

\* A tick that measured red ends its shed pass with every non-account session
\* it saw, idle or active, put to sleep: marked by a call that nothing
\* overtook.  Left out are those that went or became active meanwhile, those
\* whose port failed, and those that bore a stale mark when the pass was
\* planned, which the filter of planShed takes for asleep.  Another tick that
\* sheds at the same time takes nobody away from the pass.
RedPassIsComplete ==
  [][\A t \in Ticks :
       tick[t].phase = "shed" /\ tick'[t].phase = "hibernate" /\ tick[t].red
         => tick[t].live \ Account
              \subseteq (hibernated \ stale) \cup tick[t].excused]_vars
=============================================================================
