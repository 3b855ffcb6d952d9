------------------------------- MODULE Prober -------------------------------
(***************************************************************************)
(* internal/health/prober.go, and how bootstrap runs it: one blocking seed *)
(* round before any server listens, then a goroutine that runs a round on  *)
(* every tick until the context is cancelled.  A round probes the backends *)
(* of one ListBackends concurrently, waits for all of them, and only then  *)
(* folds the results, in registration order, into the signed streaks; the  *)
(* management API registers and deregisters backends meanwhile, and the    *)
(* backends come and go.                                                   *)
(*                                                                         *)
(* history is a history variable: the last results recorded for a backend, *)
(* newest first.  The registry is BackendPool, which Registry implements.  *)
(***************************************************************************)
EXTENDS BackendPool, Integers

CONSTANTS
  HealthyThreshold,    \* cfg.HealthyThreshold, after withDefaults
  UnhealthyThreshold,  \* cfg.UnhealthyThreshold, after withDefaults
  MaxConcurrent        \* cfg.MaxConcurrent; 0 is unbounded

\* Validate rejects negative values and withDefaults replaces zero thresholds.
ASSUME ProberAssumption ==
  /\ HealthyThreshold \in Nat \ {0}
  /\ UnhealthyThreshold \in Nat \ {0}
  /\ MaxConcurrent \in Nat

VARIABLES
  up,         \* environment: the backends that answer a probe 2xx in time
  cancelled,  \* the context: SIGINT or SIGTERM arrived
  tick,       \* the ticker's channel holds a tick
  phase,      \* "seed": before ProbeOnce; "round"; "select"; "stopped"
  initial,    \* probeRound's argument: the seed round is not over
  backends,   \* the round's ListBackends
  launched,   \* how many of the round's probes have been started
  results,    \* the results that are in, by index
  cursor,     \* index of the record loop
  streak,     \* p.streak
  history     \* history: the last results recorded for each backend

roundVars == <<phase, initial, backends, launched, results, cursor>>
envVars   == <<up, cancelled, tick>>
vars      == <<poolVars, roundVars, envVars, streak, history>>

Depth == IF HealthyThreshold > UnhealthyThreshold
           THEN HealthyThreshold ELSE UnhealthyThreshold

StreakOf(b) == IF b \in DOMAIN streak THEN streak[b] ELSE 0

InFlight == { i \in 1..launched : i \notin DOMAIN results }

AllIn == launched = Len(backends) /\ InFlight = {}       \* g.Wait() returns

----------------------------------------------------------------------------

ProberInit ==
  /\ Init
  /\ up \in SUBSET Backend
  /\ cancelled = FALSE
  /\ tick = FALSE
  /\ phase = "seed"
  /\ initial = TRUE
  /\ backends = << >>
  /\ launched = 0
  /\ results = << >>
  /\ cursor = 1
  /\ streak = << >>
  /\ history = [b \in Backend |-> [i \in 0..(Depth - 1) |-> "none"]]

\* Mutant: the streaks of backends that left are kept.
StreaksKept == streak

\* the loop that deletes from p.streak what is not listed any more
StreaksLeft == [b \in DOMAIN streak \cap Members(pool) |-> streak[b]]

\* ProbeOnce, or the ticker case of Run's select.  The select may take it
\* although the context is cancelled.  Streaks of backends that left are
\* dropped; an empty pool ends the round at once.
StartRound ==
  /\ phase = "seed" \/ (phase = "select" /\ tick)
  /\ tick' = FALSE
  /\ backends' = pool
  /\ streak' = StreaksLeft
  /\ IF pool = << >>
       THEN phase' = "select" /\ initial' = FALSE
       ELSE phase' = "round" /\ UNCHANGED initial
  /\ UNCHANGED <<poolVars, launched, results, cursor, up, cancelled, history>>

\* g.Go blocks while SetLimit's number of probes is running.
Launch ==
  /\ phase = "round"
  /\ launched < Len(backends)
  /\ MaxConcurrent > 0 => Cardinality(InFlight) < MaxConcurrent
  /\ launched' = launched + 1
  /\ UNCHANGED <<poolVars, phase, initial, backends, results, cursor, envVars,
                 streak, history>>

\* Mutant: the probes share the group's context, which the first failure
\* cancels.
SucceedsTogether(i) ==
  backends[i] \in up /\ ~cancelled /\ \A j \in DOMAIN results : results[j]

\* The probes run on Run's context, not on the group's.
Succeeds(i) == backends[i] \in up /\ ~cancelled

\* probe returns: a 2xx in time, or a failure; a cancelled context fails it.
Answer(i) ==
  /\ i \in InFlight
  /\ results' = [j \in DOMAIN results \cup {i} |->
                   IF j = i THEN Succeeds(i) ELSE results[j]]
  /\ UNCHANGED <<poolVars, phase, initial, backends, launched, cursor, envVars,
                 streak, history>>

\* Mutant: a result of the other sign only counts the streak down.
RestartNever(s, ok) == s

\* record's arithmetic: a result of the other sign restarts the streak, and
\* the streak is clamped at its threshold.
Restart(s, ok) == IF ok THEN (IF s < 0 THEN 0 ELSE s) ELSE (IF s > 0 THEN 0 ELSE s)

\* Mutant: the clamp comes one success early.
ClampedEarly(s, ok) ==
  IF ok THEN Restart(s, ok) + 1 >= HealthyThreshold
        ELSE Restart(s, ok) <= -UnhealthyThreshold

Clamped(s, ok) ==
  IF ok THEN Restart(s, ok) >= HealthyThreshold
        ELSE Restart(s, ok) <= -UnhealthyThreshold

\* Mutant: no clamp.
NextStreakEndless(s, ok) == IF ok THEN Restart(s, ok) + 1 ELSE Restart(s, ok) - 1

NextStreak(s, ok) ==
  IF Clamped(s, ok) THEN Restart(s, ok)
  ELSE IF ok THEN Restart(s, ok) + 1 ELSE Restart(s, ok) - 1

\* Mutants: every success is reported; the seed round is like any other.
ReportsEagerly(s, ok, seeding) ==
  ~Clamped(s, ok) /\ (ok \/ NextStreak(s, ok) = -UnhealthyThreshold)

ReportsUnseeded(s, ok, seeding) ==
  ~Clamped(s, ok) /\ NextStreak(s, ok) \in {HealthyThreshold, -UnhealthyThreshold}

\* whether record calls SetHealthy
Reports(s, ok, seeding) ==
  /\ ~Clamped(s, ok)
  /\ IF ok THEN NextStreak(s, ok) = HealthyThreshold \/ seeding
           ELSE NextStreak(s, ok) = -UnhealthyThreshold

Shifted(h, ok) ==
  [i \in 0..(Depth - 1) |->
     IF i > 0 THEN h[i - 1] ELSE IF ok THEN "ok" ELSE "fail"]

\* One turn of the record loop.  SetHealthy finds only registered backends.
Record ==
  /\ phase = "round" /\ AllIn
  /\ cursor <= Len(backends)
  /\ LET b  == backends[cursor]
         ok == results[cursor]
         s  == StreakOf(b)
     IN  /\ streak' = [x \in DOMAIN streak \cup {b} |->
                         IF x = b THEN NextStreak(s, ok) ELSE streak[x]]
         /\ healthy' = IF Reports(s, ok, initial) /\ b \in Members(pool)
                         THEN [healthy EXCEPT ![b] = ok] ELSE healthy
         /\ history' = [history EXCEPT ![b] = Shifted(@, ok)]
  /\ cursor' = cursor + 1
  /\ UNCHANGED <<pool, created, phase, initial, backends, launched, results, envVars>>

\* probeRound returns; after the seed round Run's goroutine and the servers
\* are started.
EndRound ==
  /\ phase = "round" /\ AllIn
  /\ cursor > Len(backends)
  /\ phase' = "select"
  /\ initial' = FALSE
  /\ launched' = 0 /\ results' = << >> /\ cursor' = 1
  /\ UNCHANGED <<poolVars, backends, envVars, streak, history>>

\* Mutant: the context is looked at only when no tick is waiting.
DoneBetweenTicks == cancelled /\ ~tick

\* ctx.Done() is ready, whether a tick waits or not.
Done == cancelled

\* the ctx.Done case of Run's select
Stop ==
  /\ phase = "select"
  /\ Done
  /\ phase' = "stopped"
  /\ UNCHANGED <<poolVars, initial, backends, launched, results, cursor, envVars,
                 streak, history>>

\* The ticker drops ticks while one is waiting to be taken.
Tick ==
  /\ ~initial /\ phase # "stopped" /\ ~tick
  /\ tick' = TRUE
  /\ UNCHANGED <<poolVars, roundVars, up, cancelled, streak, history>>

Cancel ==
  /\ ~cancelled
  /\ cancelled' = TRUE
  /\ UNCHANGED <<poolVars, roundVars, up, tick, streak, history>>

\* A backend starts or stops answering.
Flip(b) ==
  /\ up' = IF b \in up THEN up \ {b} ELSE up \cup {b}
  /\ UNCHANGED <<poolVars, roundVars, cancelled, tick, streak, history>>

\* The management server listens only after the seed round.
Manage(b) ==
  /\ ~initial
  /\ Register(b) \/ Deregister(b)
  /\ UNCHANGED <<roundVars, envVars, streak, history>>

ProberStep ==
  \/ StartRound \/ Launch \/ Record \/ EndRound \/ Stop
  \/ \E i \in 1..Len(backends) : Answer(i)

ProberNext ==
  \/ ProberStep
  \/ Tick
  \/ Cancel
  \/ \E b \in Backend : Flip(b) \/ Manage(b)

ProberSafety == ProberInit /\ [][ProberNext]_vars

\* The goroutines run, a probe ends by its timeout, the ticker ticks, and
\* select chooses among its ready cases at random, so a cancelled context is
\* not overlooked for ever.
ProberSpec ==
  /\ ProberSafety
  /\ WF_vars(ProberStep) /\ WF_vars(Tick) /\ SF_vars(Stop)

----------------------------------------------------------------------------

Recent(b, n, r) == \A i \in 0..(n - 1) : history[b][i] = r

\* Types; a streak stays between its two thresholds.
ProberTypeOK ==
  /\ TypeOK
  /\ up \in SUBSET Backend
  /\ cancelled \in BOOLEAN /\ tick \in BOOLEAN /\ initial \in BOOLEAN
  /\ phase \in {"seed", "round", "select", "stopped"}
  /\ backends \in Seq(Backend)
  /\ launched \in 0..Len(backends)
  /\ DOMAIN results \subseteq 1..launched
  /\ \A i \in DOMAIN results : results[i] \in BOOLEAN
  /\ cursor \in 1..(Len(backends) + 1)
  /\ DOMAIN streak \subseteq Backend
  /\ \A b \in DOMAIN streak :
       streak[b] \in (-UnhealthyThreshold)..HealthyThreshold
  /\ history \in [Backend -> [0..(Depth - 1) -> {"none", "ok", "fail"}]]

\* The flag the balancer routes by agrees with what was last seen of a
\* registered backend: up to UnhealthyThreshold failures in a row leave it
\* out, HealthyThreshold successes in a row let it in, and a backend nobody
\* has probed yet gets no traffic -- whatever joined, left or was cancelled
\* between the round's listing, its probes and its records.
FlagFollowsProbes ==
  \A b \in Members(pool) :
    /\ Recent(b, UnhealthyThreshold, "fail") => ~healthy[b]
    /\ Recent(b, HealthyThreshold, "ok") => healthy[b]
    /\ history[b][0] = "none" => ~healthy[b]

\* "a single blip does not flap a backend in or out of rotation": a flag goes
\* down only at the end of UnhealthyThreshold failures in a row, and up only
\* at the end of HealthyThreshold successes, but for the seed round.
NoFlapping ==
  [][\A b \in Backend :
       /\ healthy[b] /\ ~healthy'[b] => Recent(b, UnhealthyThreshold, "fail")'
       /\ ~healthy[b] /\ healthy'[b] => initial \/ Recent(b, HealthyThreshold, "ok")']_vars

\* When the servers start, the baseline backends that answered are routable
\* and only those: no baseline backend is treated as down for an interval.
SeededBeforeServing ==
  [][initial /\ ~initial' =>
       \A b \in Members(pool) : healthy'[b] <=> history'[b][0] = "ok"]_vars

\* The streak map does not grow with the backends that ever existed: it holds
\* at most those the last round listed, even if one leaves while its probe
\* is under way and is recorded after that.
StreakBounded == DOMAIN streak \subseteq Members(backends)

\* A registered backend that keeps answering is admitted and stays in, and
\* one that keeps failing is evicted and stays out, while the prober runs.
SteadyBackendSettles ==
  \A b \in Backend :
    /\ <>[](b \in Members(pool) /\ b \in up /\ ~cancelled) => <>[]healthy[b]
    /\ <>[](b \in Members(pool) /\ b \notin up /\ ~cancelled) => <>[]~healthy[b]

\* A backend that answers every probe pays for nothing but the signal: until
\* then no failure is counted against it, whoever fails beside it in a round,
\* and one of the baseline is routable from the seed round on.  After the
\* signal its probes fail with the context, and nothing is promised.
AnswererStaysIn ==
  \A b \in Backend :
    [](b \in up) =>
      [](\/ cancelled
         \/ StreakOf(b) >= 0 /\ (b \in Members(Baseline) /\ ~initial => healthy[b]))

\* Once the context is cancelled the prober's goroutine ends.
ProberStops == cancelled ~> phase = "stopped"

-----------------------------------------------------------------------------
(***************************************************************************)
(* The inductive invariant: a streak says exactly what the newest results  *)
(* were, and at a threshold what the flag is.                              *)
(***************************************************************************)

Consistent(s, h, flag) ==
  /\ s \in (-UnhealthyThreshold)..HealthyThreshold
  /\ \A i \in 0..(s - 1) : h[i] = "ok"
  /\ 0 <= s /\ s < HealthyThreshold => h[s] # "ok"
  /\ \A i \in 0..(-s - 1) : h[i] = "fail"
  /\ -UnhealthyThreshold < s /\ s <= 0 => h[-s] # "fail"
  /\ s = HealthyThreshold => flag
  /\ s = -UnhealthyThreshold => ~flag
  /\ s = 0 => ~flag

StreakInv ==
  \A b \in Members(pool) : Consistent(StreakOf(b), history[b], healthy[b])

FreshInv ==
  /\ Members(backends) \subseteq created
  /\ \A b \in Backend \ created :
       ~healthy[b] /\ b \notin DOMAIN streak /\ \A i \in 0..(Depth - 1) : history[b][i] = "none"

RoundInv ==
  /\ phase # "round" => launched = 0 /\ results = << >> /\ cursor = 1
  /\ cursor > 1 => AllIn

SeedInv ==
  initial =>
    /\ pool = Baseline
    /\ phase \in {"seed", "round"}
    /\ phase = "round" => backends = pool
    /\ \A i \in 1..Len(pool) :
         IF i < cursor THEN healthy[pool[i]] <=> history[pool[i]][0] = "ok"
                       ELSE history[pool[i]][0] = "none"

ProberInv ==
  /\ ProberTypeOK
  /\ StreakInv
  /\ FreshInv
  /\ RoundInv
  /\ SeedInv
  /\ StreakBounded

=============================================================================
