---------------------------- MODULE BackendPool ----------------------------
(***************************************************************************)
(* What the backend registry (internal/backend) promises its callers: an   *)
(* ordered pool of backends in which every registration, deregistration    *)
(* and health update takes effect at one instant.                          *)
(***************************************************************************)
EXTENDS Backends

VARIABLES
  pool,       \* the registered backends, in registration order
  healthy,    \* the health flag of every object
  created     \* the objects made so far

poolVars == <<pool, healthy, created>>

----------------------------------------------------------------------------

Init ==
  /\ pool = Baseline
  /\ healthy = [b \in Backend |-> FALSE]
  /\ created = Members(Baseline)

Register(b) ==
  /\ b \notin created
  /\ ~UrlTaken(pool, b)
  /\ pool' = Append(pool, b)
  /\ created' = created \cup {b}
  /\ UNCHANGED healthy

Deregister(b) ==
  /\ b \in Members(pool)
  /\ pool' = Without(pool, b)
  /\ UNCHANGED <<healthy, created>>

\* The flag lives in the object, so an update that began before a
\* deregistration may still land on an object that has left the pool.
SetHealth(b, v) ==
  /\ b \in created
  /\ healthy' = [healthy EXCEPT ![b] = v]
  /\ UNCHANGED <<pool, created>>

Next ==
  \E b \in Backend :
    \/ Register(b)
    \/ Deregister(b)
    \/ \E v \in BOOLEAN : SetHealth(b, v)

Spec == Init /\ [][Next]_poolVars

----------------------------------------------------------------------------

\* Types, and an object is listed only after it was made.
TypeOK ==
  /\ pool \in Seq(Backend)
  /\ healthy \in [Backend -> BOOLEAN]
  /\ created \in SUBSET Backend
  /\ Members(pool) \subseteq created

\* No object is listed twice, and two listed backends share a URL only if
\* config.yaml itself listed that URL twice (AddNewBackend's duplicate test).
UniqueRegistration ==
  \A i, j \in 1..Len(pool) :
    i # j =>
      /\ pool[i] # pool[j]
      /\ UrlOf[pool[i]] = UrlOf[pool[j]] =>
           {pool[i], pool[j]} \subseteq Members(Baseline)

============================================================================
