---------------------------- MODULE RegistryReads ----------------------------
(***************************************************************************)
(* The registry with its lock-free readers: the balancer's Select and the  *)
(* readiness endpoint call ListHealthyBackends, which loads the pointer    *)
(* once and then reads one health flag after the other while writers and   *)
(* the prober go on.                                                       *)
(*                                                                         *)
(* The history variables record, from a call's load of the pointer on,     *)
(* which flags have been up at some instant, which have been up at every   *)
(* instant, and whether there was an instant without any routable backend. *)
(***************************************************************************)
EXTENDS Registry

CONSTANTS
  Reader,         \* the goroutines that list backends
  MaxPublished    \* bound on the slices published in one behaviour

VARIABLES
  rpc,        \* where each reader is
  snap,       \* the slice its call loaded
  pos,        \* the range loop's index
  found,      \* the slice it is filling
  everUp,     \* history: flags seen up since the load
  alwaysUp,   \* history: flags never down since the load
  dry,        \* history: an instant since the load had no routable backend
  raised      \* history: a flag went up since the load

readerVars  == <<rpc, snap, pos, found>>
historyVars == <<everUp, alwaysUp, dry, raised>>
readsVars   == <<vars, readerVars, historyVars>>

Up == { b \in Backend : healthy[b] }

Routable == Up \cap Members(Current)

----------------------------------------------------------------------------

ReadsInit ==
  /\ Init
  /\ rpc = [r \in Reader |-> "idle"]
  /\ snap = [r \in Reader |-> 1]
  /\ pos = [r \in Reader |-> 1]
  /\ found = [r \in Reader |-> << >>]
  /\ everUp = [r \in Reader |-> {}]
  /\ alwaysUp = [r \in Reader |-> {}]
  /\ dry = [r \in Reader |-> FALSE]
  /\ raised = [r \in Reader |-> FALSE]

\* p := r.backends.Load()
Load(r) ==
  /\ rpc[r] = "idle"
  /\ rpc' = [rpc EXCEPT ![r] = "scan"]
  /\ snap' = [snap EXCEPT ![r] = backends]
  /\ pos' = [pos EXCEPT ![r] = 1]
  /\ found' = [found EXCEPT ![r] = << >>]
  /\ UNCHANGED vars

\* Mutants: every turn indexes the list that is current by then; the loop stops
\* at the first backend that is down.
TurnReloaded(r) == (IF pos[r] \in DOMAIN Current THEN Current ELSE slices[snap[r]])[pos[r]]

KeptUnlessDown(r, b) ==
  IF healthy[b] /\ Len(found[r]) = pos[r] - 1 THEN <<b>> ELSE << >>

Turn(r) == slices[snap[r]][pos[r]]

\* if b.Healthy() { append }
Kept(r, b) == IF healthy[b] THEN <<b>> ELSE << >>

\* one turn of the range loop
Scan(r) ==
  /\ rpc[r] = "scan"
  /\ pos[r] \in 1..Len(slices[snap[r]])
  /\ found' = [found EXCEPT ![r] = @ \o Kept(r, Turn(r))]
  /\ pos' = [pos EXCEPT ![r] = @ + 1]
  /\ UNCHANGED <<vars, rpc, snap>>

\* the loop is over; found is the caller's
Finish(r) ==
  /\ rpc[r] = "scan"
  /\ pos[r] > Len(slices[snap[r]])
  /\ rpc' = [rpc EXCEPT ![r] = "done"]
  /\ UNCHANGED <<vars, snap, pos, found>>

Consume(r) ==
  /\ rpc[r] = "done"
  /\ rpc' = [rpc EXCEPT ![r] = "idle"]
  /\ snap' = [snap EXCEPT ![r] = 1]
  /\ pos' = [pos EXCEPT ![r] = 1]
  /\ found' = [found EXCEPT ![r] = << >>]
  /\ UNCHANGED vars

\* A history value over the window of r's call: unset between calls, first in
\* the state after the load, then next until the range loop is over.
InWindow(r, unset, first, next, old) ==
  CASE rpc'[r] = "idle" -> unset
    [] rpc[r] = "idle"  -> first
    [] rpc[r] = "scan"  -> next
    [] OTHER            -> old

Track ==
  /\ everUp' = [r \in Reader |->
       InWindow(r, {}, Up', everUp[r] \cup Up', everUp[r])]
  /\ alwaysUp' = [r \in Reader |->
       InWindow(r, {}, Up', alwaysUp[r] \cap Up', alwaysUp[r])]
  /\ dry' = [r \in Reader |->
       InWindow(r, FALSE, Routable' = {}, dry[r] \/ Routable' = {}, dry[r])]
  /\ raised' = [r \in Reader |->
       InWindow(r, FALSE, FALSE, raised[r] \/ Up' \ Up # {}, raised[r])]

Read(r) == Load(r) \/ Scan(r) \/ Finish(r) \/ Consume(r)

ReadsNext ==
  /\ \/ /\ Next
        /\ Len(slices') <= MaxPublished
        /\ UNCHANGED readerVars
     \/ \E r \in Reader : Read(r)
  /\ Track

ReadsSpec == ReadsInit /\ [][ReadsNext]_readsVars

----------------------------------------------------------------------------

\* ListHealthyBackends is not a snapshot, but it keeps within its window: it
\* returns backends of one registered pool, in registration order and each
\* once, no backend whose flag was down all along, and every backend whose
\* flag was up all along, whatever was registered, removed or flipped during
\* the scan.
ReadWithinWindow ==
  \A r \in Reader : rpc[r] = "done" =>
    /\ InOrderOf(found[r], slices[snap[r]])
    /\ Members(found[r]) \subseteq everUp[r]
    /\ alwaysUp[r] \cap Members(slices[snap[r]]) \subseteq Members(found[r])

\* readyz reports 503 if the scan finds nothing, and a balancer then has no
\* backend to offer.  If at every instant of the call some registered backend
\* was healthy, an empty result has one excuse only: a backend came up behind
\* the scan (and another went down ahead of it).  Registrations and removals
\* are no excuse, as a new backend starts out unhealthy.
EmptyJustified ==
  \A r \in Reader : rpc[r] = "done" /\ found[r] = << >> => dry[r] \/ raised[r]

-----------------------------------------------------------------------------
(***************************************************************************)
(* The inductive invariant behind the two: what the loop has collected and *)
(* what it has passed over, related to the flags as they are by now.       *)
(***************************************************************************)

\* Objects are created down, and a published slice has no object twice.
HeapInv ==
  /\ Up \subseteq created
  /\ \A i \in 1..Len(slices) : NoRepeats(slices[i])

ReadsTypeOK ==
  /\ rpc \in [Reader -> {"idle", "scan", "done"}]
  /\ snap \in [Reader -> 1..Len(slices)]
  /\ pos \in [Reader -> Nat \ {0}]
  /\ found \in [Reader -> Seq(Backend)]
  /\ everUp \in [Reader -> SUBSET Backend]
  /\ alwaysUp \in [Reader -> SUBSET Backend]
  /\ dry \in [Reader -> BOOLEAN]
  /\ raised \in [Reader -> BOOLEAN]

\* The turns taken so far: found has them in order, and all that never fell.
ScanInv(r) ==
  LET list == slices[snap[r]] IN
  /\ pos[r] <= Len(list) + 1
  /\ rpc[r] = "done" => pos[r] = Len(list) + 1
  /\ InOrderOf(found[r], list)
  /\ EndsBefore(found[r], list, pos[r])
  /\ Members(found[r]) \subseteq everUp[r]
  /\ \A i \in 1..(pos[r] - 1) : list[i] \in alwaysUp[r] => list[i] \in Members(found[r])

\* The history is up to date while the loop runs.
WindowInv(r) ==
  LET list == slices[snap[r]] IN
  /\ alwaysUp[r] \subseteq Up /\ Up \subseteq everUp[r]
  /\ Routable = {} => dry[r]
  /\ raised[r] \/ Routable \subseteq Members(list)
  /\ raised[r] \/ found[r] # << >> \/ \A i \in 1..(pos[r] - 1) : list[i] \notin Up

ReadsInv ==
  /\ IndInv
  /\ HeapInv
  /\ ReadsTypeOK
  /\ \A r \in Reader : rpc[r] # "idle" => ScanInv(r)
  /\ \A r \in Reader : rpc[r] = "scan" => WindowInv(r)
  /\ EmptyJustified

=============================================================================
