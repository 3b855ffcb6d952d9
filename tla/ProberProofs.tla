---------------------------- MODULE ProberProofs ----------------------------
(***************************************************************************)
(* Proofs about Prober, for any thresholds, any pool and any concurrency.  *)
(***************************************************************************)
EXTENDS Prober, ListProofs

LEMMA DepthType ==
  /\ Depth \in Nat \ {0}
  /\ Depth >= HealthyThreshold
  /\ Depth >= UnhealthyThreshold
  BY ProberAssumption DEF Depth

Histories == [0..(Depth - 1) -> {"none", "ok", "fail"}]

\* record keeps streak, recent results and flag consistent, whatever the
\* result and whether or not it is the seed round.
LEMMA RecordConsistent ==
  ASSUME NEW s, NEW h \in Histories, NEW flag \in BOOLEAN,
         NEW ok \in BOOLEAN, NEW seeding \in BOOLEAN,
         Consistent(s, h, flag)
  PROVE  /\ Shifted(h, ok) \in Histories
         /\ Consistent(NextStreak(s, ok), Shifted(h, ok),
                       IF Reports(s, ok, seeding) THEN ok ELSE flag)
<1> DEFINE t == NextStreak(s, ok)
           g == Shifted(h, ok)
           f == IF Reports(s, ok, seeding) THEN ok ELSE flag
<1>1. g \in Histories
  BY DepthType DEF Shifted, Histories
<1>2. /\ \A i \in 1..(Depth - 1) : g[i] = h[i - 1]
      /\ g[0] = IF ok THEN "ok" ELSE "fail"
  BY DepthType DEF Shifted
<1>3. s \in Int
  BY ProberAssumption DEF Consistent
<1>4. CASE ok
  <2>1. t \in 1..HealthyThreshold
    BY <1>3, <1>4, ProberAssumption
    DEF Consistent, NextStreak, Restart, Clamped
  <2>2. t = IF s < 0 THEN 1
           ELSE IF s < HealthyThreshold THEN s + 1 ELSE s
    BY <1>3, <1>4, ProberAssumption
    DEF NextStreak, Restart, Clamped
  <2>3. \A i \in 0..(t - 1) : g[i] = "ok"
    <3> SUFFICES ASSUME NEW i \in 0..(t - 1), i # 0
                 PROVE  g[i] = "ok"
      BY <1>2, <1>4
    <3>1. s >= 0 /\ i - 1 \in 0..(s - 1)
      BY <1>3, <2>1, <2>2, ProberAssumption
    <3>2. i \in 1..(Depth - 1)
      BY <2>1, DepthType, ProberAssumption
    <3> QED
      BY <1>2, <3>1, <3>2 DEF Consistent
  <2>4. t < HealthyThreshold => g[t] # "ok"
    <3> SUFFICES ASSUME t < HealthyThreshold
                 PROVE  g[t] # "ok"
      OBVIOUS
    <3>1. g[t] = h[t - 1]
      BY <1>2, <2>1, DepthType, ProberAssumption
    <3>2. CASE s < 0
      BY <1>3, <2>2, <3>1, <3>2, ProberAssumption DEF Consistent
    <3>3. CASE s >= 0
      BY <1>3, <2>1, <2>2, <3>1, <3>3, ProberAssumption DEF Consistent
    <3> QED
      BY <1>3, <3>2, <3>3
  <2>5. t = HealthyThreshold => f
    BY <1>3, <1>4, ProberAssumption
    DEF Consistent, Reports, NextStreak, Restart, Clamped
  <2>6. Consistent(t, g, f)
    <3> HIDE DEF t, g, f
    <3>1. t \in Int
      BY <2>1
    <3> QED
      BY <2>1, <2>3, <2>4, <2>5, <3>1, ProberAssumption DEF Consistent
  <2> QED
    BY <1>1, <2>6
<1>5. CASE ~ok
  <2>1. t \in (-UnhealthyThreshold)..(-1)
    BY <1>3, <1>5, ProberAssumption
    DEF Consistent, NextStreak, Restart, Clamped
  <2>2. t = IF s > 0 THEN -1
           ELSE IF s > -UnhealthyThreshold THEN s - 1 ELSE s
    BY <1>3, <1>5, ProberAssumption
    DEF NextStreak, Restart, Clamped
  <2>3. \A i \in 0..(-t - 1) : g[i] = "fail"
    <3> SUFFICES ASSUME NEW i \in 0..(-t - 1), i # 0
                 PROVE  g[i] = "fail"
      BY <1>2, <1>5
    <3>1. s <= 0 /\ i - 1 \in 0..(-s - 1)
      BY <1>3, <2>1, <2>2, ProberAssumption
    <3>2. i \in 1..(Depth - 1)
      BY <2>1, DepthType, ProberAssumption
    <3> QED
      BY <1>2, <3>1, <3>2 DEF Consistent
  <2>4. -UnhealthyThreshold < t =>
          g[-t] # "fail"
    <3> SUFFICES ASSUME -UnhealthyThreshold < t
                 PROVE  g[-t] # "fail"
      OBVIOUS
    <3>1. g[-t] = h[-t - 1]
      BY <1>2, <2>1, DepthType, ProberAssumption
    <3>2. CASE s > 0
      BY <1>3, <2>2, <3>1, <3>2, ProberAssumption DEF Consistent
    <3>3. CASE s <= 0
      BY <1>3, <2>1, <2>2, <3>1, <3>3, ProberAssumption DEF Consistent
    <3> QED
      BY <1>3, <3>2, <3>3
  <2>5. t = -UnhealthyThreshold => ~f
    BY <1>3, <1>5, ProberAssumption
    DEF Consistent, Reports, NextStreak, Restart, Clamped
  <2>6. Consistent(t, g, f)
    <3> HIDE DEF t, g, f
    <3>1. t \in Int
      BY <2>1
    <3> QED
      BY <2>1, <2>3, <2>4, <2>5, <3>1, ProberAssumption DEF Consistent
  <2> QED
    BY <1>1, <2>6
<1> QED
  BY <1>1, <1>4, <1>5 DEF t, g, f

-----------------------------------------------------------------------------

LEMMA MembersType ==
  ASSUME NEW list \in Seq(Backend)
  PROVE  /\ Len(list) \in Nat
         /\ Members(list) \in SUBSET Backend
         /\ \A i \in 1..Len(list) : list[i] \in Members(list)
  BY LenProperties DEF Members

LEMMA EmptyFunction == DOMAIN << >> = {}
  OBVIOUS

LEMMA ProberInitInv == ProberInit => ProberInv
<1> SUFFICES ASSUME ProberInit PROVE ProberInv
  OBVIOUS
<1> USE DEF ProberInit, Init
<1>1. Members(Baseline) \in SUBSET Backend /\ Len(Baseline) \in Nat
  BY BackendAssumption, MembersType
<1>2. ProberTypeOK
  <2>1. TypeOK
    BY <1>1, BackendAssumption DEF TypeOK
  <2>2. history \in [Backend -> [0..(Depth - 1) -> {"none", "ok", "fail"}]]
    OBVIOUS
  <2>3. backends \in Seq(Backend) /\ Len(backends) = 0
    OBVIOUS
  <2>4. /\ launched \in 0..Len(backends)
        /\ cursor \in 1..(Len(backends) + 1)
    BY <2>3
  <2>5. DOMAIN results = {} /\ DOMAIN streak = {}
    BY EmptyFunction
  <2> QED
    BY <2>1, <2>2, <2>3, <2>4, <2>5 DEF ProberTypeOK
<1>3. StreakInv
  BY <1>1, DepthType, ProberAssumption DEF StreakInv, StreakOf, Consistent
<1>4. FreshInv
  BY <1>1 DEF FreshInv, Members
<1>5. RoundInv
  BY DEF RoundInv
<1>6. SeedInv
  <2>1. \A i \in 1..Len(pool) : ~(i < cursor)
    BY <1>1
  <2>2. \A i \in 1..Len(pool) : history[pool[i]][0] = "none"
    BY <1>1, DepthType DEF Members
  <2> QED
    BY <2>1, <2>2 DEF SeedInv
<1>7. StreakBounded
  BY DEF StreakBounded, Members
<1> QED
  BY <1>2, <1>3, <1>4, <1>5, <1>6, <1>7 DEF ProberInv

LEMMA StartRoundInv == ProberInv /\ StartRound => ProberInv'
<1> SUFFICES ASSUME ProberInv, StartRound PROVE ProberInv'
  OBVIOUS
<1> USE DEF ProberInv, StartRound, StreaksLeft, poolVars
<1>1. pool \in Seq(Backend) /\ Len(pool) \in Nat /\ Members(pool) \subseteq created
  BY LenProperties DEF ProberTypeOK, TypeOK
<1>2. launched = 0 /\ results = << >> /\ cursor = 1
  BY DEF RoundInv
<1>3. ProberTypeOK'
  <2>1. TypeOK'
    BY DEF ProberTypeOK, TypeOK
  <2>2. /\ DOMAIN streak' \subseteq Backend
        /\ \A b \in DOMAIN streak' :
             streak'[b] \in (-UnhealthyThreshold)..HealthyThreshold
    BY DEF ProberTypeOK
  <2>3. /\ launched' \in 0..Len(backends')
        /\ DOMAIN results' \subseteq 1..launched'
        /\ \A i \in DOMAIN results' : results'[i] \in BOOLEAN
        /\ cursor' \in 1..(Len(backends') + 1)
    BY <1>1, <1>2, EmptyFunction
  <2>4. phase' \in {"seed", "round", "select", "stopped"} /\ initial' \in BOOLEAN
    BY DEF ProberTypeOK
  <2> QED
    BY <1>1, <2>1, <2>2, <2>3, <2>4 DEF ProberTypeOK
<1>4. StreakInv'
  BY DEF StreakInv, StreakOf
<1>5. FreshInv'
  BY <1>1 DEF FreshInv
<1>6. RoundInv'
  BY <1>2 DEF RoundInv
<1>7. SeedInv'
  BY DEF SeedInv
<1>8. StreakBounded'
  BY DEF StreakBounded
<1> QED
  BY <1>3, <1>4, <1>5, <1>6, <1>7, <1>8

LEMMA LaunchInv == ProberInv /\ Launch => ProberInv'
<1> SUFFICES ASSUME ProberInv, Launch PROVE ProberInv'
  OBVIOUS
<1> USE DEF ProberInv, Launch, poolVars, envVars
<1>1. Len(backends) \in Nat /\ launched \in Nat
  BY LenProperties DEF ProberTypeOK
<1>2. cursor = 1
  BY <1>1 DEF RoundInv, AllIn, ProberTypeOK
<1>3. ProberTypeOK'
  BY <1>1 DEF ProberTypeOK, TypeOK
<1>4. RoundInv'
  BY <1>2 DEF RoundInv
<1> QED
  BY <1>3, <1>4 DEF StreakInv, StreakOf, FreshInv, SeedInv, StreakBounded

LEMMA AnswerInv ==
  ASSUME ProberInv, NEW i \in 1..Len(backends), Answer(i)
  PROVE  ProberInv'
<1> USE DEF ProberInv, Answer, Succeeds, poolVars, envVars
<1>1. Len(backends) \in Nat /\ launched \in Nat
  BY LenProperties DEF ProberTypeOK
<1>2. cursor = 1 /\ phase = "round"
  BY <1>1 DEF RoundInv, AllIn, InFlight, ProberTypeOK
<1>3. ProberTypeOK'
  BY <1>1 DEF ProberTypeOK, TypeOK, InFlight
<1>4. RoundInv'
  BY <1>2 DEF RoundInv
<1> QED
  BY <1>3, <1>4 DEF StreakInv, StreakOf, FreshInv, SeedInv, StreakBounded

LEMMA RecordInv == ProberInv /\ Record => ProberInv'
<1> SUFFICES ASSUME ProberInv, Record PROVE ProberInv'
  OBVIOUS
<1> USE DEF ProberInv, poolVars, envVars
<1> DEFINE b  == backends[cursor]
           ok == results[cursor]
           s  == StreakOf(b)
<1>1. /\ Len(backends) \in Nat
      /\ cursor \in 1..Len(backends)
      /\ b \in Members(backends) /\ b \in Backend /\ b \in created
      /\ ok \in BOOLEAN
      /\ phase = "round"
  BY MembersType DEF Record, ProberTypeOK, AllIn, InFlight, FreshInv
<1>2. /\ streak' = [x \in DOMAIN streak \cup {b} |->
                     IF x = b THEN NextStreak(s, ok) ELSE streak[x]]
      /\ healthy' = IF Reports(s, ok, initial) /\ b \in Members(pool)
                     THEN [healthy EXCEPT ![b] = ok] ELSE healthy
      /\ history' = [history EXCEPT ![b] = Shifted(history[b], ok)]
      /\ cursor' = cursor + 1
      /\ UNCHANGED <<pool, created, phase, initial, backends, launched, results, envVars>>
  BY DEF Record
<1>3. s \in (-UnhealthyThreshold)..HealthyThreshold
  BY ProberAssumption DEF StreakOf, ProberTypeOK
<1>4. Shifted(history[b], ok) \in [0..(Depth - 1) -> {"none", "ok", "fail"}]
  BY <1>1, DepthType DEF Shifted, ProberTypeOK
<1>5. NextStreak(s, ok) \in (-UnhealthyThreshold)..HealthyThreshold
  BY <1>1, <1>3, ProberAssumption DEF NextStreak, Restart, Clamped
<1> HIDE DEF b, ok, s
<1>6. ASSUME b \in Members(pool)
      PROVE  Consistent(NextStreak(s, ok), history'[b], healthy'[b])
  <2>1. Consistent(s, history[b], healthy[b])
    BY <1>6 DEF StreakInv, s
  <2>2. /\ history[b] \in Histories
        /\ healthy[b] \in BOOLEAN /\ initial \in BOOLEAN
    BY <1>1 DEF ProberTypeOK, TypeOK, Histories
  <2>3. Consistent(NextStreak(s, ok), Shifted(history[b], ok),
                   IF Reports(s, ok, initial) THEN ok ELSE healthy[b])
    BY <1>1, <2>1, <2>2, RecordConsistent
  <2>4. history'[b] = Shifted(history[b], ok)
    BY <1>1, <1>2 DEF ProberTypeOK
  <2>5. healthy'[b] = IF Reports(s, ok, initial) THEN ok ELSE healthy[b]
    BY <1>1, <1>2, <1>6 DEF ProberTypeOK, TypeOK
  <2> QED
    BY <2>3, <2>4, <2>5
<1>7. ASSUME NEW x \in Backend, x # b
      PROVE  /\ history'[x] = history[x]
             /\ healthy'[x] = healthy[x]
             /\ StreakOf(x)' = StreakOf(x)
             /\ x \in DOMAIN streak' <=> x \in DOMAIN streak
  BY <1>2, <1>7 DEF StreakOf, ProberTypeOK, TypeOK
<1>8. ProberTypeOK'
  <2>1. TypeOK'
    BY <1>1, <1>2 DEF ProberTypeOK, TypeOK
  <2>2. /\ DOMAIN streak' \subseteq Backend
        /\ \A x \in DOMAIN streak' :
             streak'[x] \in (-UnhealthyThreshold)..HealthyThreshold
    BY <1>1, <1>2, <1>5 DEF ProberTypeOK
  <2>3. history' \in [Backend -> [0..(Depth - 1) -> {"none", "ok", "fail"}]]
    BY <1>1, <1>2, <1>4 DEF ProberTypeOK
  <2>4. cursor' \in 1..(Len(backends') + 1)
    BY <1>1, <1>2
  <2> QED
    BY <1>2, <2>1, <2>2, <2>3, <2>4 DEF ProberTypeOK
<1>9. StreakInv'
  <2> SUFFICES ASSUME NEW x \in Members(pool)
               PROVE  Consistent(StreakOf(x)', history'[x], healthy'[x])
    BY <1>2 DEF StreakInv
  <2>1. x \in Backend
    BY MembersType DEF ProberTypeOK, TypeOK
  <2>2. CASE x = b
    BY <1>2, <1>6, <2>2 DEF StreakOf
  <2>3. CASE x # b
    BY <1>7, <2>1, <2>3 DEF StreakInv
  <2> QED
    BY <2>2, <2>3
<1>10. FreshInv'
  BY <1>1, <1>2, <1>7 DEF FreshInv
<1>11. RoundInv'
  BY <1>1, <1>2 DEF RoundInv, Record, AllIn, InFlight
<1>12. StreakBounded'
  BY <1>1, <1>2 DEF StreakBounded
<1>13. SeedInv'
  <2> SUFFICES ASSUME initial
               PROVE  \A i \in 1..Len(pool) :
                        IF i < cursor + 1
                          THEN healthy'[pool[i]] <=> history'[pool[i]][0] = "ok"
                          ELSE history'[pool[i]][0] = "none"
    BY <1>1, <1>2 DEF SeedInv
  <2>1. /\ backends = pool /\ pool = Baseline
        /\ pool \in Seq(Backend)
        /\ cursor \in 1..Len(pool) /\ pool[cursor] = b
        /\ b \in Members(pool)
        /\ history[b][0] = "none"
    BY <1>1 DEF SeedInv, b, ProberTypeOK, TypeOK
  <2>2. \A i \in 1..Len(pool) : i # cursor => pool[i] # b
    BY <2>1, BackendAssumption DEF NoRepeats
  <2>3. Consistent(s, history[b], healthy[b])
    BY <2>1 DEF StreakInv, s
  <2>4. s = 0
    BY <1>3, <2>1, <2>3, ProberAssumption DEF Consistent
  <2>5. /\ history'[b][0] = IF ok THEN "ok" ELSE "fail"
    BY <1>1, <1>2, DepthType DEF ProberTypeOK, Shifted
  <2>6. healthy'[b] <=> ok
    <3>1. ~healthy[b]
      BY <2>3, <2>4 DEF Consistent
    <3>2. CASE ok
      <4>1. Reports(s, ok, initial)
        BY <2>4, <3>2, ProberAssumption DEF Reports, Clamped, Restart
      <4> QED
        BY <1>1, <1>2, <2>1, <3>2, <4>1 DEF ProberTypeOK, TypeOK
    <3>3. CASE ~ok
      BY <1>1, <1>2, <3>1, <3>3 DEF ProberTypeOK, TypeOK
    <3> QED
      BY <3>2, <3>3
  <2> SUFFICES ASSUME NEW i \in 1..Len(pool)
               PROVE  IF i < cursor + 1
                        THEN healthy'[pool[i]] <=> history'[pool[i]][0] = "ok"
                        ELSE history'[pool[i]][0] = "none"
    OBVIOUS
  <2>7. CASE i = cursor
    BY <1>1, <2>1, <2>5, <2>6, <2>7
  <2>8. CASE i # cursor
    <3>1. pool[i] # b /\ pool[i] \in Backend
      BY <2>1, <2>2, <2>8, MembersType
    <3>2. /\ healthy'[pool[i]] = healthy[pool[i]]
          /\ history'[pool[i]] = history[pool[i]]
      BY <1>7, <3>1
    <3>3. i < cursor + 1 <=> i < cursor
      BY <1>1, <2>8
    <3> QED
      BY <3>2, <3>3 DEF SeedInv
  <2> QED
    BY <2>7, <2>8
<1> QED
  BY <1>8, <1>9, <1>10, <1>11, <1>12, <1>13

LEMMA EndRoundInv == ProberInv /\ EndRound => ProberInv'
<1> SUFFICES ASSUME ProberInv, EndRound PROVE ProberInv'
  OBVIOUS
<1> USE DEF ProberInv, EndRound, poolVars, envVars
<1>1. Len(backends) \in Nat
  BY LenProperties DEF ProberTypeOK
<1>2. ProberTypeOK'
  <2>1. TypeOK'
    BY DEF ProberTypeOK, TypeOK
  <2>2. /\ launched' \in 0..Len(backends')
        /\ DOMAIN results' = {}
        /\ cursor' \in 1..(Len(backends') + 1)
    BY <1>1, EmptyFunction
  <2> QED
    BY <2>1, <2>2 DEF ProberTypeOK
<1> QED
  BY <1>2 DEF StreakInv, StreakOf, FreshInv, RoundInv, SeedInv, StreakBounded

LEMMA ManageInv ==
  ASSUME ProberInv, NEW b \in Backend, Manage(b)
  PROVE  ProberInv'
<1> USE DEF ProberInv, roundVars, envVars
<1>1. /\ pool \in Seq(Backend)
      /\ ~initial
      /\ UNCHANGED <<phase, initial, backends, launched, results, cursor, up,
                     cancelled, tick, streak, history, healthy>>
  BY DEF ProberTypeOK, TypeOK, Manage, Register, Deregister
<1>2. CASE Register(b)
  <2>1. /\ pool' = Append(pool, b)
        /\ pool' \in Seq(Backend)
        /\ Members(pool') = Members(pool) \cup {b}
        /\ b \notin created
        /\ created' = created \cup {b}
    BY <1>1, <1>2, MembersAppend DEF Register
  <2>2. ProberTypeOK'
    BY <1>1, <2>1 DEF ProberTypeOK, TypeOK
  <2>3. Consistent(StreakOf(b), history[b], healthy[b])
    <3>1. StreakOf(b) = 0 /\ ~healthy[b] /\ history[b][0] = "none"
      BY <2>1, DepthType DEF FreshInv, StreakOf
    <3> QED
      BY <3>1, ProberAssumption DEF Consistent
  <2>4. StreakInv'
    BY <1>1, <2>1, <2>3 DEF StreakInv, StreakOf
  <2> QED
    BY <1>1, <2>1, <2>2, <2>4
    DEF FreshInv, RoundInv, AllIn, InFlight, SeedInv, StreakBounded
<1>3. CASE Deregister(b)
  <2>1. /\ pool' = Without(pool, b)
        /\ pool' \in Seq(Backend)
        /\ created' = created
    BY <1>1, <1>3, WithoutProperties DEF Deregister
  <2>2. Members(pool') \subseteq Members(pool)
    BY <1>1, <1>3, <2>1, WithoutSubset DEF Deregister
  <2>3. ProberTypeOK'
    BY <1>1, <2>1, <2>2 DEF ProberTypeOK, TypeOK
  <2>4. StreakInv'
    BY <1>1, <2>2 DEF StreakInv, StreakOf
  <2> QED
    BY <1>1, <2>1, <2>3, <2>4
    DEF FreshInv, RoundInv, AllIn, InFlight, SeedInv, StreakBounded
<1> QED
  BY <1>2, <1>3 DEF Manage

\* The steps that change neither the pool nor what was recorded.
LEMMA QuietInv ==
  ASSUME ProberInv,
         \/ Stop \/ Tick \/ Cancel \/ (\E b \in Backend : Flip(b)) \/ UNCHANGED vars
  PROVE  ProberInv'
<1> USE DEF ProberInv, Stop, Tick, Cancel, Flip, vars, poolVars, roundVars, envVars
<1>1. ProberTypeOK'
  BY DEF ProberTypeOK, TypeOK
<1>2. StreakInv' /\ FreshInv' /\ StreakBounded'
  BY DEF StreakInv, StreakOf, FreshInv, StreakBounded
<1>3. RoundInv'
  BY DEF RoundInv, AllIn, InFlight
<1>4. SeedInv'
  BY DEF SeedInv
<1> QED
  BY <1>1, <1>2, <1>3, <1>4

LEMMA ProberStepInv == ProberInv /\ [ProberNext]_vars => ProberInv'
  BY StartRoundInv, LaunchInv, AnswerInv, RecordInv, EndRoundInv, ManageInv, QuietInv
  DEF ProberNext, ProberStep

-----------------------------------------------------------------------------

\* The inductive invariant holds whatever probes, clock and management do.
THEOREM ProberInvariance == ProberSafety => []ProberInv
  BY ProberInitInv, ProberStepInv, PTL DEF ProberSafety

\* Types; above all, no streak leaves the range its thresholds give it.
THEOREM ProberTypeCorrect == ProberSafety => []ProberTypeOK
<1>1. ProberInv => ProberTypeOK
  BY DEF ProberInv
<1> QED
  BY <1>1, ProberInvariance, PTL

\* prober.go's streak map only holds backends of the last round.
THEOREM StreaksBounded == ProberSafety => []StreakBounded
<1>1. ProberInv => StreakBounded
  BY DEF ProberInv
<1> QED
  BY <1>1, ProberInvariance, PTL

\* The flag the balancer routes by agrees with the newest probe results of
\* every registered backend, for all thresholds.
THEOREM FlagsFollowProbes == ProberSafety => []FlagFollowsProbes
<1>1. ProberInv => FlagFollowsProbes
  <2> SUFFICES ASSUME ProberInv, NEW b \in Members(pool)
               PROVE  /\ Recent(b, UnhealthyThreshold, "fail") => ~healthy[b]
                      /\ Recent(b, HealthyThreshold, "ok") => healthy[b]
                      /\ history[b][0] = "none" => ~healthy[b]
    BY DEF FlagFollowsProbes
  <2> DEFINE s == StreakOf(b)
  <2>1. Consistent(s, history[b], healthy[b])
    BY DEF ProberInv, StreakInv
  <2>2. s \in Int
    BY <2>1, ProberAssumption DEF Consistent
  <2> HIDE DEF s
  <2>3. /\ s > 0 => history[b][0] = "ok"
        /\ s < 0 => history[b][0] = "fail"
    BY <2>1, <2>2 DEF Consistent
  <2>4. ASSUME Recent(b, UnhealthyThreshold, "fail") PROVE ~healthy[b]
    <3>1. history[b][0] = "fail"
      BY <2>4, ProberAssumption DEF Recent
    <3>2. s <= 0
      BY <2>2, <2>3, <3>1
    <3>3. CASE s > -UnhealthyThreshold
      <4>1. history[b][-s] # "fail" /\ -s \in 0..(UnhealthyThreshold - 1)
        BY <2>1, <2>2, <3>2, <3>3, ProberAssumption DEF Consistent
      <4> QED
        BY <2>4, <4>1 DEF Recent
    <3>4. CASE s = -UnhealthyThreshold
      BY <2>1, <3>4 DEF Consistent
    <3> QED
      BY <2>1, <2>2, <3>3, <3>4, ProberAssumption DEF Consistent
  <2>5. ASSUME Recent(b, HealthyThreshold, "ok") PROVE healthy[b]
    <3>1. history[b][0] = "ok"
      BY <2>5, ProberAssumption DEF Recent
    <3>2. s >= 0
      BY <2>2, <2>3, <3>1
    <3>3. CASE s < HealthyThreshold
      <4>1. history[b][s] # "ok" /\ s \in 0..(HealthyThreshold - 1)
        BY <2>1, <2>2, <3>2, <3>3, ProberAssumption DEF Consistent
      <4> QED
        BY <2>5, <4>1 DEF Recent
    <3>4. CASE s = HealthyThreshold
      BY <2>1, <3>4 DEF Consistent
    <3> QED
      BY <2>1, <2>2, <3>3, <3>4, ProberAssumption DEF Consistent
  <2>6. ASSUME history[b][0] = "none" PROVE ~healthy[b]
    <3>1. s = 0
      BY <2>2, <2>3, <2>6
    <3> QED
      BY <2>1, <3>1 DEF Consistent
  <2> QED
    BY <2>4, <2>5, <2>6
<1> QED
  BY <1>1, ProberInvariance, PTL

\* A flag changes only at the end of a run of equal results as long as the
\* threshold, but for admissions by the seed round.
THEOREM FlagsDoNotFlap == ProberSafety => NoFlapping
<1> DEFINE Justified(x) ==
      /\ healthy[x] /\ ~healthy'[x] => Recent(x, UnhealthyThreshold, "fail")'
      /\ ~healthy[x] /\ healthy'[x] => initial \/ Recent(x, HealthyThreshold, "ok")'
<1>1. ASSUME ProberInv, ProberInv', Record, NEW x \in Backend
      PROVE  Justified(x)
  <2> DEFINE b  == backends[cursor]
             ok == results[cursor]
             t  == NextStreak(StreakOf(b), ok)
  <2>1. /\ b \in Members(backends) /\ ok \in BOOLEAN
        /\ streak'[b] = t /\ b \in DOMAIN streak'
    BY <1>1, MembersType
    DEF Record, ProberInv, ProberTypeOK, AllIn, InFlight
  <2>2. b \in Backend
    BY <1>1, <2>1, MembersType DEF ProberInv, ProberTypeOK
  <2>3. CASE healthy'[x] = healthy[x]
    BY <2>3
  <2>4. CASE healthy'[x] # healthy[x]
    <3>1. /\ x = b /\ b \in Members(pool') /\ healthy'[x] = ok
          /\ Reports(StreakOf(b), ok, initial)
      BY <1>1, <2>2, <2>4 DEF Record, ProberInv, ProberTypeOK, TypeOK
    <3>2. Consistent(t, history'[b], healthy'[b])
      BY <1>1, <2>1, <3>1 DEF ProberInv, StreakInv, StreakOf
    <3> HIDE DEF b, t, ok
    <3>3. CASE ok
      <4>1. initial \/ t = HealthyThreshold
        BY <3>1, <3>3 DEF Reports, t
      <4>2. t = HealthyThreshold => Recent(x, HealthyThreshold, "ok")'
        BY <3>1, <3>2, ProberAssumption DEF Consistent, Recent
      <4> QED
        BY <2>4, <3>1, <3>3, <4>1, <4>2
    <3>4. CASE ~ok
      <4>1. t = -UnhealthyThreshold
        BY <3>1, <3>4 DEF Reports, t
      <4>2. Recent(x, UnhealthyThreshold, "fail")'
        BY <3>1, <3>2, <4>1, ProberAssumption DEF Consistent, Recent
      <4> QED
        BY <2>4, <3>1, <3>4, <4>2
    <3> QED
      BY <2>1, <3>3, <3>4
  <2> QED
    BY <2>3, <2>4
<1>2. ASSUME NEW x \in Backend, healthy' = healthy PROVE Justified(x)
  BY <1>2
<1>3. ProberNext => Record \/ healthy' = healthy
  BY DEF ProberNext, ProberStep, StartRound, Launch, Answer, Succeeds, EndRound, Stop,
         Tick, Cancel, Flip, Manage, Register, Deregister, poolVars
<1>4. ProberInv /\ ProberInv' /\ [ProberNext]_vars =>
        [\A b \in Backend :
           /\ healthy[b] /\ ~healthy'[b] => Recent(b, UnhealthyThreshold, "fail")'
           /\ ~healthy[b] /\ healthy'[b] => initial \/ Recent(b, HealthyThreshold, "ok")']_vars
  BY <1>1, <1>2, <1>3
<1> QED
  BY <1>4, ProberInvariance, PTL DEF ProberSafety, NoFlapping

\* When the seed round ends and the servers start, the routable backends are
\* those that answered it.
THEOREM SeedDecides == ProberSafety => SeededBeforeServing
<1>1. ProberInv /\ [ProberNext]_vars =>
        [initial /\ ~initial' =>
           \A b \in Members(pool) : healthy'[b] <=> history'[b][0] = "ok"]_vars
  <2> SUFFICES ASSUME ProberInv, ProberNext, initial, ~initial',
                      NEW b \in Members(pool)
               PROVE  healthy'[b] <=> history'[b][0] = "ok"
    OBVIOUS
  <2> USE DEF ProberInv
  <2>1. \/ EndRound
        \/ pool = << >>
    BY DEF ProberNext, ProberStep, StartRound, Launch, Answer, Succeeds, Record, Stop,
           Tick, Cancel, Flip, Manage, roundVars
  <2>2. PICK i \in 1..Len(pool) : pool[i] = b
    BY DEF Members
  <2>3. CASE EndRound
    <3>1. i < cursor
      BY <2>2, <2>3, MembersType DEF EndRound, SeedInv, ProberTypeOK, TypeOK
    <3> QED
      BY <2>2, <2>3, <3>1 DEF EndRound, SeedInv, poolVars
  <2>4. CASE pool = << >>
    BY <2>2, <2>4
  <2> QED
    BY <2>1, <2>3, <2>4
<1> QED
  BY <1>1, ProberInvariance, PTL DEF ProberSafety, SeededBeforeServing

\* What holds of a backend that answers every probe, until the signal.
Blameless(b) ==
  \/ cancelled
  \/ /\ StreakOf(b) >= 0
     /\ \A i \in DOMAIN results : backends[i] = b => results[i]
     /\ b \in Members(Baseline) =>
          IF initial THEN \A i \in 1..(cursor - 1) : backends[i] = b => healthy[b]
                     ELSE healthy[b]

LEMMA RecordBlameless ==
  ASSUME NEW b \in Backend, ProberInv, Blameless(b), ~cancelled, Record
  PROVE  Blameless(b)'
<1> DEFINE x  == backends[cursor]
           ok == results[cursor]
           s  == StreakOf(x)
<1>1. /\ Len(backends) \in Nat
      /\ cursor \in 1..Len(backends)
      /\ x \in Backend
      /\ ok \in BOOLEAN
      /\ cursor \in DOMAIN results
  BY MembersType DEF Record, ProberInv, ProberTypeOK, AllIn, InFlight
<1>2. /\ streak' = [y \in DOMAIN streak \cup {x} |->
                     IF y = x THEN NextStreak(s, ok) ELSE streak[y]]
      /\ healthy' = IF Reports(s, ok, initial) /\ x \in Members(pool)
                     THEN [healthy EXCEPT ![x] = ok] ELSE healthy
      /\ cursor' = cursor + 1
      /\ UNCHANGED <<pool, initial, backends, results, cancelled>>
  BY DEF Record, envVars
<1>3. s \in (-UnhealthyThreshold)..HealthyThreshold
  BY ProberAssumption DEF StreakOf, ProberInv, ProberTypeOK
<1>4. healthy \in [Backend -> BOOLEAN] /\ initial \in BOOLEAN
  BY DEF ProberInv, ProberTypeOK, TypeOK
<1>5. /\ StreakOf(b) >= 0
      /\ \A i \in DOMAIN results : backends[i] = b => results[i]
  BY DEF Blameless
<1> HIDE DEF x, ok, s
<1>6. CASE x # b
  <2>1. StreakOf(b)' = StreakOf(b) /\ healthy'[b] = healthy[b]
    BY <1>1, <1>2, <1>4, <1>6 DEF StreakOf
  <2>2. \A i \in 1..(cursor' - 1) : backends'[i] = b => i \in 1..(cursor - 1)
    BY <1>1, <1>2, <1>6 DEF x
  <2> QED
    BY <1>2, <1>5, <2>1, <2>2 DEF Blameless
<1>7. CASE x = b
  <2>1. ok /\ s >= 0
    BY <1>1, <1>5, <1>7 DEF x, ok, s
  <2>2. NextStreak(s, ok) >= 0
    BY <1>3, <2>1, ProberAssumption DEF NextStreak, Clamped, Restart
  <2>3. StreakOf(b)' >= 0
    BY <1>2, <1>7, <2>2 DEF StreakOf
  <2>4. healthy[b] => healthy'[b]
    BY <1>1, <1>2, <1>4, <1>7, <2>1
  <2>5. initial /\ b \in Members(Baseline) => healthy'[b]
    <3> SUFFICES ASSUME initial, b \in Members(Baseline)
                 PROVE  healthy'[b]
      OBVIOUS
    <3>1. b \in Members(pool)
      BY DEF ProberInv, SeedInv
    <3>2. Consistent(s, history[b], healthy[b])
      BY <1>7, <3>1 DEF ProberInv, StreakInv, s
    <3>3. CASE s = HealthyThreshold
      BY <2>4, <3>2, <3>3 DEF Consistent
    <3>4. CASE s # HealthyThreshold
      <4>1. Reports(s, ok, initial)
        BY <1>3, <2>1, <3>4, ProberAssumption DEF Reports, Clamped, Restart
      <4> QED
        BY <1>1, <1>2, <1>4, <1>7, <2>1, <3>1, <4>1
    <3> QED
      BY <3>3, <3>4
  <2> QED
    BY <1>2, <1>5, <2>3, <2>4, <2>5 DEF Blameless
<1> QED
  BY <1>6, <1>7

LEMMA BlamelessStep ==
  ASSUME NEW b \in Backend
  PROVE  ProberInv /\ b \in up /\ Blameless(b) /\ [ProberNext]_vars => Blameless(b)'
<1> SUFFICES ASSUME ProberInv, b \in up, Blameless(b), [ProberNext]_vars
             PROVE  Blameless(b)'
  OBVIOUS
<1>1. CASE cancelled
  <2>1. cancelled'
    BY <1>1
    DEF ProberNext, ProberStep, StartRound, Launch, Answer, Record, EndRound, Stop,
        Tick, Cancel, Flip, Manage, vars, envVars
  <2> QED
    BY <2>1 DEF Blameless
<1>2. CASE ~cancelled
  <2> USE <1>2
  <2>1. /\ StreakOf(b) >= 0
        /\ \A i \in DOMAIN results : backends[i] = b => results[i]
    BY DEF Blameless
  <2>2. phase # "round" => results = << >> /\ cursor = 1
    BY DEF ProberInv, RoundInv
  <2>3. CASE StartRound
    <3>1. StreakOf(b)' >= 0
      BY <2>1, <2>3 DEF StartRound, StreaksLeft, StreakOf
    <3>2. DOMAIN results' = {} /\ cursor' = 1 /\ healthy' = healthy
      BY <2>2, <2>3, EmptyFunction DEF StartRound, poolVars
    <3>3. b \in Members(Baseline) => (~initial' => healthy[b])
      <4>1. CASE initial
        <5>1. CASE pool = << >>
          <6>1. Members(Baseline) = {}
            BY <4>1, <5>1 DEF ProberInv, SeedInv, Members
          <6> QED
            BY <6>1
        <5>2. CASE pool # << >>
          BY <2>3, <4>1, <5>2 DEF StartRound
        <5> QED
          BY <5>1, <5>2
      <4>2. CASE ~initial
        BY <4>2 DEF Blameless
      <4> QED
        BY <4>1, <4>2
    <3> QED
      BY <3>1, <3>2, <3>3 DEF Blameless
  <2>4. ASSUME NEW i \in 1..Len(backends), Answer(i)
        PROVE  Blameless(b)'
    <3>1. \A j \in DOMAIN results' : backends'[j] = b => results'[j]
      BY <2>1, <2>4 DEF Answer, Succeeds
    <3> QED
      BY <2>4, <3>1 DEF Answer, Blameless, StreakOf, poolVars, envVars
  <2>5. CASE Record
    BY <2>5, RecordBlameless
  <2>6. CASE EndRound
    <3>1. b \in Members(Baseline) => healthy[b]
      <4>1. CASE initial
        <5> SUFFICES ASSUME b \in Members(Baseline) PROVE healthy[b]
          OBVIOUS
        <5>1. PICK i \in 1..Len(backends) : backends[i] = b
          BY <2>6, <4>1 DEF EndRound, ProberInv, SeedInv, Members
        <5>2. i \in 1..(cursor - 1)
          BY <2>6, MembersType DEF EndRound, ProberInv, ProberTypeOK
        <5> QED
          BY <4>1, <5>1, <5>2 DEF Blameless
      <4>2. CASE ~initial
        BY <4>2 DEF Blameless
      <4> QED
        BY <4>1, <4>2
    <3>2. DOMAIN results' = {} /\ StreakOf(b)' >= 0 /\ ~initial' /\ healthy' = healthy
      BY <2>1, <2>6, EmptyFunction DEF EndRound, StreakOf, poolVars
    <3> QED
      BY <3>1, <3>2 DEF Blameless
  <2>7. ASSUME NEW x \in Backend, Manage(x)
        PROVE  Blameless(b)'
    BY <2>7 DEF Manage, Register, Deregister, Blameless, StreakOf, roundVars, envVars
  <2>8. CASE Cancel
    BY <2>8 DEF Cancel, Blameless
  <2>9. ASSUME \/ Launch \/ Stop \/ Tick \/ (\E x \in Backend : Flip(x)) \/ UNCHANGED vars
        PROVE  Blameless(b)'
    BY <2>9
    DEF Launch, Stop, Tick, Flip, Blameless, StreakOf, vars, poolVars, roundVars, envVars
  <2> QED
    BY <2>3, <2>4, <2>5, <2>6, <2>7, <2>8, <2>9 DEF ProberNext, ProberStep
<1> QED
  BY <1>1, <1>2

\* Until the signal a backend that answers every probe has no failure counted
\* against it, and one of the baseline stays routable from the seed round on,
\* for any pool, thresholds and concurrency.
THEOREM AnswererKept == ProberSafety => AnswererStaysIn
<1> SUFFICES ASSUME NEW b \in Backend
             PROVE  ProberSafety =>
                      ([](b \in up) =>
                         [](\/ cancelled
                            \/ StreakOf(b) >= 0 /\ (b \in Members(Baseline) /\ ~initial => healthy[b])))
  BY DEF AnswererStaysIn
<1>1. ProberInit => Blameless(b)
  BY EmptyFunction DEF ProberInit, Blameless, StreakOf
<1>2. ProberInv /\ b \in up /\ Blameless(b) /\ [ProberNext]_vars => Blameless(b)'
  BY BlamelessStep
<1>3. Blameless(b) =>
        \/ cancelled
        \/ StreakOf(b) >= 0 /\ (b \in Members(Baseline) /\ ~initial => healthy[b])
  BY DEF Blameless
<1> QED
  BY <1>1, <1>2, <1>3, ProberInvariance, PTL DEF ProberSafety

\* The prober and its surroundings use the pool only as BackendPool allows,
\* so what is proved here holds over any implementation of it.
THEOREM ProberUsesPool == ProberSafety => Spec
<1>1. ProberInv /\ [ProberNext]_vars => [Next]_poolVars
  <2> SUFFICES ASSUME ProberInv, ProberNext PROVE Next \/ UNCHANGED poolVars
    BY DEF vars
  <2>1. CASE Record
    <3> DEFINE b  == backends[cursor]
               ok == results[cursor]
    <3>1. b \in Backend /\ b \in created /\ ok \in BOOLEAN
      BY <2>1, MembersType
      DEF Record, ProberInv, ProberTypeOK, AllIn, InFlight, FreshInv
    <3>2. SetHealth(b, ok) \/ UNCHANGED poolVars
      BY <2>1, <3>1 DEF Record, SetHealth, poolVars
    <3> QED
      BY <3>1, <3>2 DEF Next
  <2>2. ASSUME NEW b \in Backend, Manage(b) PROVE Next
    BY <2>2 DEF Manage, Next
  <2> QED
    BY <2>1, <2>2
    DEF ProberNext, ProberStep, StartRound, Launch, Answer, Succeeds, EndRound, Stop,
        Tick, Cancel, Flip
<1>2. ProberInit => Init
  BY DEF ProberInit
<1> QED
  BY <1>1, <1>2, ProberInvariance, PTL DEF ProberSafety, Spec

=============================================================================
