------------------------------ MODULE Registry ------------------------------
(***************************************************************************)
(* internal/backend/registry.go: the copy-on-write backend registry, at    *)
(* the grain of its atomic steps.                                          *)
(*                                                                         *)
(* Writers are the management API's request goroutines (POST /backends and *)
(* DELETE /backends/{id}); they take r.mu.  The health prober is one       *)
(* goroutine; its SetHealthy takes no lock: it loads the slice, finds the  *)
(* object and stores the flag in two separate steps.  slices is the heap   *)
(* of backing arrays: one element for each slice a Store ever published,   *)
(* so that a reader's old slice stays observable after later mutations.    *)
(***************************************************************************)
EXTENDS Backends

CONSTANTS
  Writer,     \* the management requests in flight
  NoWriter,   \* r.mu is free
  NoBackend   \* the argument of a writer that runs no operation

ASSUME RegistryAssumption ==
  /\ NoWriter \notin Writer
  /\ NoBackend \notin Backend

VARIABLES
  mu,         \* r.mu: its holder, or NoWriter
  slices,     \* the slices published so far
  backends,   \* r.backends: which of them the atomic pointer points to
  healthy,    \* each object's atomic health flag
  created,    \* the objects NewBackend has made
  pc,         \* where each writer is
  op,         \* the operation each writer runs
  arg,        \* its argument
  cur,        \* the slice the writer loaded (the local cur)
  reply,      \* the status it will answer with
  pending     \* the prober's flag update between find and store

poolVars   == <<slices, backends, healthy, created>>
writerVars == <<pc, op, arg, cur, reply>>
vars       == <<mu, poolVars, writerVars, pending>>

Current == slices[backends]     \* what ListBackends returns now

Pool == INSTANCE BackendPool WITH pool <- Current

----------------------------------------------------------------------------

Init ==                                             \* NewRegistry
  /\ mu = NoWriter
  /\ slices = <<Baseline>>
  /\ backends = 1
  /\ healthy = [b \in Backend |-> FALSE]
  /\ created = Members(Baseline)
  /\ pc = [w \in Writer |-> "idle"]
  /\ op = [w \in Writer |-> "none"]
  /\ arg = [w \in Writer |-> NoBackend]
  /\ cur = [w \in Writer |-> 1]
  /\ reply = [w \in Writer |-> "none"]
  /\ pending = {}

Goto(w, l) == pc' = [pc EXCEPT ![w] = l]

\* Mutant: the list is changed in the backing array that readers hold.
PublishInPlace(list) ==
  /\ slices' = [slices EXCEPT ![backends] = list]
  /\ UNCHANGED backends

\* Mutant: the clone is made with one nil slot too many.
PublishPadded(list) ==
  /\ slices' = Append(slices, Append(list, NoBackend))
  /\ backends' = Len(slices) + 1

\* r.backends.Store(&updated): the slice is a fresh clone, never modified
\* again.
Publish(list) ==
  /\ slices' = Append(slices, list)
  /\ backends' = Len(slices) + 1

\* The object an AddNewBackend call will make if it succeeds: a UUID no other
\* object has, nor any other call in flight will draw.
Fresh(b) ==
  /\ b \notin created
  /\ \A w \in Writer : arg[w] # b

\* POST /backends for the URL UrlOf[b], or DELETE /backends/{id of b}.  An ID
\* is known to clients once the object exists, whether it is still listed or
\* not.
Begin(w, kind, b) ==
  /\ pc[w] = "idle"
  /\ IF kind = "add" THEN Fresh(b) ELSE b \in created
  /\ op' = [op EXCEPT ![w] = kind]
  /\ arg' = [arg EXCEPT ![w] = b]
  /\ Goto(w, "lock")
  /\ UNCHANGED <<mu, poolVars, cur, reply, pending>>

\* Mutant: a writer takes the lock as if it were shared.
FreeForAll == TRUE

Free == mu = NoWriter

Lock(w) ==
  /\ pc[w] = "lock"
  /\ Free
  /\ mu' = w
  /\ Goto(w, "check")
  /\ UNCHANGED <<poolVars, op, arg, cur, reply, pending>>

\* cur := r.ListBackends(); an already registered URL is a 409
AddCheck(w) ==
  /\ pc[w] = "check" /\ op[w] = "add"
  /\ cur' = [cur EXCEPT ![w] = backends]
  /\ IF UrlTaken(Current, arg[w])
       THEN /\ reply' = [reply EXCEPT ![w] = "conflict"]
            /\ Goto(w, "unlock")
       ELSE /\ Goto(w, "store")
            /\ UNCHANGED reply
  /\ UNCHANGED <<mu, poolVars, op, arg, pending>>

\* b := NewBackend; r.backends.Store(append(Clone(cur), b))
AddStore(w) ==
  /\ pc[w] = "store" /\ op[w] = "add"
  /\ Publish(Append(slices[cur[w]], arg[w]))
  /\ created' = created \cup {arg[w]}
  /\ reply' = [reply EXCEPT ![w] = "created"]
  /\ Goto(w, "unlock")
  /\ UNCHANGED <<mu, healthy, op, arg, cur, pending>>

\* ok := ContainsFunc(*r.backends.Load(), ...); an unknown ID is a 404
RemoveCheck(w) ==
  /\ pc[w] = "check" /\ op[w] = "remove"
  /\ IF arg[w] \in Members(Current)
       THEN /\ Goto(w, "copy")
            /\ UNCHANGED reply
       ELSE /\ reply' = [reply EXCEPT ![w] = "notFound"]
            /\ Goto(w, "unlock")
  /\ UNCHANGED <<mu, poolVars, op, arg, cur, pending>>

\* slices.Clone(r.ListBackends()): a second load of the pointer
RemoveCopy(w) ==
  /\ pc[w] = "copy"
  /\ cur' = [cur EXCEPT ![w] = backends]
  /\ Goto(w, "store")
  /\ UNCHANGED <<mu, poolVars, op, arg, reply, pending>>

RemoveStore(w) ==
  /\ pc[w] = "store" /\ op[w] = "remove"
  /\ Publish(Without(slices[cur[w]], arg[w]))
  /\ reply' = [reply EXCEPT ![w] = "ok"]
  /\ Goto(w, "unlock")
  /\ UNCHANGED <<mu, healthy, created, op, arg, cur, pending>>

\* Mutant: the early returns forget the lock.
HolderAfterSuccess(w) == IF reply[w] \in {"created", "ok"} THEN NoWriter ELSE w

\* r.mu.Unlock() is deferred, so it runs on every return.
HolderAfter(w) == NoWriter

\* The call returns its reply, its locals vanish.
Unlock(w) ==
  /\ pc[w] = "unlock"
  /\ mu' = HolderAfter(w)
  /\ op' = [op EXCEPT ![w] = "none"]
  /\ arg' = [arg EXCEPT ![w] = NoBackend]
  /\ Goto(w, "idle")
  /\ cur' = [cur EXCEPT ![w] = 1]
  /\ reply' = [reply EXCEPT ![w] = "none"]
  /\ UNCHANGED <<poolVars, pending>>

\* SetHealthy's loop finds the object in the slice it loaded; an object that
\* has left the pool is not found and nothing happens.
SetFind(b, v) ==
  /\ pending = {}
  /\ b \in Members(Current)
  /\ pending' = {<<b, v>>}
  /\ UNCHANGED <<mu, poolVars, writerVars>>

\* b.SetHealthy(healthy): the atomic store, with no lock held
SetStore(b, v) ==
  /\ <<b, v>> \in pending
  /\ healthy' = [healthy EXCEPT ![b] = v]
  /\ pending' = {}
  /\ UNCHANGED <<mu, slices, backends, created, writerVars>>

Step(w) ==
  \/ Lock(w) \/ AddCheck(w) \/ AddStore(w)
  \/ RemoveCheck(w) \/ RemoveCopy(w) \/ RemoveStore(w) \/ Unlock(w)

Next ==
  \/ \E w \in Writer :
       \/ \E kind \in {"add", "remove"}, b \in Backend : Begin(w, kind, b)
       \/ Step(w)
  \/ \E b \in Backend, v \in BOOLEAN : SetFind(b, v) \/ SetStore(b, v)

Safety == Init /\ [][Next]_vars

\* Go runs every runnable goroutine, and sync.Mutex hands itself to the
\* longest waiter once it has waited a millisecond (starvation mode), so a
\* waiting Lock that is enabled again and again is eventually taken.
Fairness == \A w \in Writer : WF_vars(Step(w)) /\ SF_vars(Lock(w))

Spec == Safety /\ Fairness

-----------------------------------------------------------------------------

Registered(b) == b \in Members(Current)

\* Types, and the sequence indices stay inside the heap of slices.
TypeOK ==
  /\ mu \in Writer \cup {NoWriter}
  /\ slices \in Seq(Seq(Backend))
  /\ backends \in 1..Len(slices)
  /\ healthy \in [Backend -> BOOLEAN]
  /\ created \in SUBSET Backend
  /\ pc \in [Writer -> {"idle", "lock", "check", "copy", "store", "unlock"}]
  /\ op \in [Writer -> {"none", "add", "remove"}]
  /\ arg \in [Writer -> Backend \cup {NoBackend}]
  /\ cur \in [Writer -> 1..Len(slices)]
  /\ reply \in [Writer -> {"none", "created", "conflict", "ok", "notFound"}]
  /\ pending \in SUBSET (Backend \X BOOLEAN)

\* Whatever writers interleave, no instance ID is listed twice, and no URL
\* is, but for URLs config.yaml itself repeats: the duplicate test and the
\* store it guards are two steps, and r.mu must make them one.
UniqueRegistration == Pool!UniqueRegistration

\* Whoever holds a slice returned by ListBackends may go on reading it: no
\* later mutation changes, moves or drops a published slice ("replaced
\* wholesale on every mutation and never modified in place").
PublishedImmutable ==
  [][\A i \in 1..Len(slices) :
       i \in 1..Len(slices') /\ slices'[i] = slices[i]]_vars

\* Every answer a management call has decided on is still true of the pool
\* when the call lets go of r.mu: 201 listed, 409 taken, 200 gone, 404 absent.
AnswerStands ==
  \A w \in Writer : pc[w] = "unlock" =>
    /\ reply[w] = "created"  => Registered(arg[w])
    /\ reply[w] = "conflict" => UrlTaken(Current, arg[w])
    /\ reply[w] \in {"ok", "notFound"} => ~Registered(arg[w])

\* Of all the DELETEs of one instance ID at most one is answered 200: that
\* answer comes with the step that takes the backend out, and a backend that
\* left never comes back.
DeregisteredOnce ==
  [][ /\ \A w \in Writer : reply'[w] = "ok" /\ reply[w] # "ok" =>
          Registered(arg[w]) /\ ~(Registered(arg[w]))'
      /\ \A b \in created : ~Registered(b) => ~Registered(b)' ]_vars

\* The registry implements the atomic pool of BackendPool: Load and Store
\* of the pointer, spread over several steps, are one registration or
\* deregistration each, and nothing is lost.
ImplementsPool == Pool!Spec

\* Every management call that was received gets an answer, however many
\* others compete for r.mu.
CallsReturn == \A w \in Writer : pc[w] # "idle" ~> pc[w] = "idle"

-----------------------------------------------------------------------------
(***************************************************************************)
(* The inductive invariant behind the safety properties: r.mu excludes the *)
(* writers from each other, so what one has read under the lock still      *)
(* holds when it stores.                                                   *)
(***************************************************************************)

Critical(w) == pc[w] \in {"check", "copy", "store", "unlock"}

LockInv ==
  /\ \A w \in Writer : Critical(w) <=> mu = w
  /\ \A w \in Writer : pc[w] = "copy" => op[w] = "remove"
  /\ \A w \in Writer : pc[w] = "store" => cur[w] = backends

ArgInv ==
  /\ \A w \in Writer : pc[w] = "idle" <=> op[w] = "none"
  /\ \A w \in Writer : pc[w] # "idle" => arg[w] \in Backend
  /\ \A w \in Writer : op[w] = "remove" => arg[w] \in created
  /\ \A w \in Writer : op[w] = "add" /\ pc[w] # "unlock" => arg[w] \notin created
  /\ \A w, x \in Writer : op[w] = "add" /\ arg[x] = arg[w] /\ op[x] = "add" => w = x

DecisionInv ==
  \A w \in Writer :
    /\ pc[w] = "store" /\ op[w] = "add" => ~UrlTaken(Current, arg[w])
    /\ pc[w] \in {"copy", "store"} /\ op[w] = "remove" => Registered(arg[w])
    /\ pc[w] \notin {"unlock"} => reply[w] = "none"

PoolInv ==
  /\ Members(Current) \subseteq created
  /\ \A b \in Backend, v \in BOOLEAN : <<b, v>> \in pending => b \in created

IndInv ==
  /\ TypeOK
  /\ LockInv
  /\ ArgInv
  /\ DecisionInv
  /\ PoolInv
  /\ UniqueRegistration
  /\ AnswerStands

=============================================================================
