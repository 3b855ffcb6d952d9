-------------------------- MODULE LifecycleProofs --------------------------
(***************************************************************************)
(* Proofs about Lifecycle, for any number of servers and requests, any     *)
(* pool and any thresholds; what is proved of the prober carries over.     *)
(***************************************************************************)
EXTENDS Lifecycle, ProberProofs

\* The steps that are the prober's or its surroundings'.
Around ==
  \/ ProberStep \/ Tick \/ Cancel
  \/ \E b \in Backend : Flip(b) \/ Handle(b)

LEMMA ServerNames ==
  /\ Balancer \in Server /\ Registrar \in Server
  /\ Len(StartOrder) \in Nat
  /\ \A k \in 1..Len(StartOrder) : StartOrder[k] \in Server
  BY LifecycleAssumption DEF Server, Members

\* The signal is not taken back and the seed round does not come back.
LEMMA AroundMonotone ==
  ASSUME Around
  PROVE  (cancelled => cancelled') /\ (~initial => ~initial')
<1>1. CASE ProberStep
  <2>1. CASE StartRound
    BY <2>1 DEF StartRound
  <2>2. CASE EndRound
    BY <2>2 DEF EndRound, envVars
  <2>3. CASE Record
    BY <2>3 DEF Record, envVars
  <2>4. CASE Launch \/ Stop
    BY <2>4 DEF Launch, Stop, envVars
  <2>5. ASSUME NEW i, Answer(i) PROVE UNCHANGED <<cancelled, initial>>
    BY <2>5 DEF Answer, Succeeds, envVars
  <2> QED
    BY <1>1, <2>1, <2>2, <2>3, <2>4, <2>5 DEF ProberStep
<1>2. CASE Tick \/ Cancel
  BY <1>2 DEF Tick, Cancel, roundVars
<1>3. ASSUME NEW b \in Backend, Flip(b) \/ Handle(b)
      PROVE  UNCHANGED <<cancelled, initial>>
  BY <1>3 DEF Flip, Handle, roundVars, envVars
<1> QED
  BY <1>1, <1>2, <1>3 DEF Around

LEMMA LifeInitInv == LifeInit => LifeInv
  BY ServerNames, LifecycleAssumption
  DEF LifeInit, ProberInit, LifeInv, LifeTypeOK, StartInv, DrainInv,
      NoServerMissing, DrainedBeforeExit

\* A step of the prober leaves the servers alone.
LEMMA AroundInv ==
  ASSUME LifeInv, Around, UNCHANGED serverVars
  PROVE  LifeInv'
  BY AroundMonotone
  DEF LifeInv, LifeTypeOK, StartInv, DrainInv, NoServerMissing,
      DrainedBeforeExit, serverVars

LEMMA StartServerInv ==
  ASSUME LifeInv, process = "running", StartServer, UNCHANGED vars
  PROVE  LifeInv'
<1> DEFINE s == StartOrder[started + 1]
<1>1. started + 1 \in 1..Len(StartOrder) /\ s \in Server
  BY ServerNames DEF LifeInv, LifeTypeOK, StartServer
<1>2. LifeTypeOK'
  BY <1>1 DEF LifeInv, LifeTypeOK, StartServer
<1>3. UNCHANGED <<cancelled, initial>>
  BY DEF vars, envVars, roundVars
<1>4. StartInv'
  BY <1>1, <1>3 DEF LifeInv, LifeTypeOK, StartInv, StartServer, Seeded
<1>5. DrainInv'
  BY <1>1, <1>3 DEF LifeInv, LifeTypeOK, DrainInv, StartServer
<1>6. NoServerMissing' /\ DrainedBeforeExit'
  BY <1>1, <1>3
  DEF LifeInv, LifeTypeOK, NoServerMissing, DrainedBeforeExit, StartServer
<1> QED
  BY <1>2, <1>4, <1>5, <1>6 DEF LifeInv

\* The goroutines of one server.
LEMMA GoroutineInv ==
  ASSUME LifeInv, process = "running", UNCHANGED vars, NEW s \in Server,
         \/ Listen(s) \/ ListenFails(s) \/ BeginShutdown(s)
         \/ ListenerReturns(s) \/ Drained(s) \/ Expire(s)
  PROVE  LifeInv'
<1>1. UNCHANGED <<cancelled, initial>>
  BY DEF vars, envVars, roundVars
<1>2. CASE Listen(s)
  BY <1>1, <1>2
  DEF LifeInv, LifeTypeOK, StartInv, DrainInv, NoServerMissing,
      DrainedBeforeExit, Listen
<1>3. CASE ListenFails(s)
  BY <1>1, <1>3
  DEF LifeInv, LifeTypeOK, StartInv, DrainInv, NoServerMissing,
      DrainedBeforeExit, ListenFails, Fatal
<1>4. CASE BeginShutdown(s)
  BY <1>1, <1>4
  DEF LifeInv, LifeTypeOK, StartInv, DrainInv, NoServerMissing,
      DrainedBeforeExit, BeginShutdown
<1>5. CASE ListenerReturns(s)
  BY <1>1, <1>5
  DEF LifeInv, LifeTypeOK, StartInv, DrainInv, NoServerMissing,
      DrainedBeforeExit, ListenerReturns
<1>6. CASE Drained(s)
  BY <1>1, <1>6
  DEF LifeInv, LifeTypeOK, StartInv, DrainInv, NoServerMissing,
      DrainedBeforeExit, Drained
<1>7. CASE Expire(s)
  BY <1>1, <1>7
  DEF LifeInv, LifeTypeOK, StartInv, DrainInv, NoServerMissing,
      DrainedBeforeExit, Expire
<1> QED
  BY <1>2, <1>3, <1>4, <1>5, <1>6, <1>7

\* Requests come, go and are upgraded.
LEMMA TrafficInv ==
  ASSUME LifeInv, process = "running", UNCHANGED vars,
         \/ Upgrade \/ HangUp
         \/ \E s \in Server : Accept(s) \/ Finish(s)
  PROVE  LifeInv'
<1>1. UNCHANGED <<cancelled, initial>>
  BY DEF vars, envVars, roundVars
<1>2. CASE Upgrade
  BY <1>1, <1>2, ServerNames, LifecycleAssumption
  DEF LifeInv, LifeTypeOK, StartInv, DrainInv, NoServerMissing,
      DrainedBeforeExit, Upgrade
<1>3. CASE HangUp
  BY <1>1, <1>3, LifecycleAssumption
  DEF LifeInv, LifeTypeOK, StartInv, DrainInv, NoServerMissing,
      DrainedBeforeExit, HangUp
<1>4. ASSUME NEW s \in Server, Accept(s) PROVE LifeInv'
  BY <1>1, <1>4, LifecycleAssumption
  DEF LifeInv, LifeTypeOK, StartInv, DrainInv, NoServerMissing,
      DrainedBeforeExit, Accept
<1>5. ASSUME NEW s \in Server, Finish(s) PROVE LifeInv'
  BY <1>1, <1>5, LifecycleAssumption
  DEF LifeInv, LifeTypeOK, StartInv, DrainInv, NoServerMissing,
      DrainedBeforeExit, Finish
<1> QED
  BY <1>2, <1>3, <1>4, <1>5

LEMMA ExitInv ==
  ASSUME LifeInv, Exit, UNCHANGED vars
  PROVE  LifeInv'
<1>1. UNCHANGED <<cancelled, initial>>
  BY DEF vars, envVars, roundVars
<1> QED
  BY <1>1
  DEF LifeInv, LifeTypeOK, StartInv, DrainInv, NoServerMissing,
      DrainedBeforeExit, Exit, AllDone

LEMMA LifeStepInv == LifeInv /\ [LifeNext]_lifeVars => LifeInv'
<1> SUFFICES ASSUME LifeInv, [LifeNext]_lifeVars PROVE LifeInv'
  OBVIOUS
<1>1. CASE UNCHANGED lifeVars
  BY <1>1
  DEF LifeInv, LifeTypeOK, StartInv, DrainInv, NoServerMissing,
      DrainedBeforeExit, lifeVars, serverVars, vars, envVars, roundVars
<1>2. CASE LifeNext
  <2>1. CASE (Bootstrap \/ Deadline \/ Outside) /\ UNCHANGED vars
    BY <1>2, <2>1, StartServerInv, GoroutineInv, TrafficInv, ExitInv
    DEF LifeNext, Bootstrap, Deadline, Outside
  <2>2. CASE Around /\ UNCHANGED serverVars
    BY <2>2, AroundInv
  <2> QED
    BY <1>2, <2>1, <2>2 DEF LifeNext, Around
<1> QED
  BY <1>1, <1>2

\* The inductive invariant holds through starts, requests, signal and drain.
THEOREM LifeInvariance == LifeSafety => []LifeInv
<1> QED
  BY LifeInitInv, LifeStepInv, PTL DEF LifeSafety

\* The life cycle's variables keep their types, whatever the number of servers.
THEOREM LifeTypeCorrect == LifeSafety => []LifeTypeOK
<1>1. LifeInv => LifeTypeOK
  BY DEF LifeInv
<1> QED
  BY <1>1, LifeInvariance, PTL

\* wg.Wait returns only when no server has a request left that Shutdown knows of
\* and has not given up by its deadline.
THEOREM DrainComplete == LifeSafety => []DrainedBeforeExit
<1>1. LifeInv => DrainedBeforeExit
  BY DEF LifeInv
<1> QED
  BY <1>1, LifeInvariance, PTL

\* A listener stops after the signal or with the process.
THEOREM ServersStay == LifeSafety => []NoServerMissing
<1>1. LifeInv => NoServerMissing
  BY DEF LifeInv
<1> QED
  BY <1>1, LifeInvariance, PTL

\* Run is a surrounding as the prober assumes it: a request to the management
\* server is being handled only once the seed round is over.
THEOREM LifeUsesProber == LifeSafety => FitsProber
<1>1. LifeInv /\ [LifeNext]_lifeVars => [ProberNext]_vars
  <2> SUFFICES ASSUME LifeInv, LifeNext PROVE ProberNext \/ UNCHANGED vars
    BY DEF lifeVars
  <2>1. ASSUME NEW b \in Backend, Handle(b) PROVE Manage(b)
    <3>1. inflight[Registrar] > 0
      BY <2>1 DEF Handle
    <3>2. ~initial
      BY <3>1, ServerNames DEF LifeInv, StartInv
    <3> QED
      BY <2>1, <3>2 DEF Handle, Manage
  <2> QED
    BY <2>1 DEF LifeNext, ProberNext
<1>2. LifeInit => ProberInit
  BY DEF LifeInit
<1> QED
  BY <1>1, <1>2, LifeInvariance, PTL DEF LifeSafety, FitsProber, ProberSafety

\* So the flags of the running program follow the probes, through starts,
\* management requests, the signal and the drain.
THEOREM LifeFlagsFollowProbes == LifeSafety => []FlagFollowsProbes
<1> QED
  BY LifeUsesProber, FlagsFollowProbes, PTL DEF FitsProber

=============================================================================
