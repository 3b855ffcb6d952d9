------------------------------ MODULE Lifecycle ------------------------------
(***************************************************************************)
(* internal/bootstrap/runner.go and server.go around the prober: Run seeds *)
(* the health flags, starts the servers one after the other, and waits     *)
(* for the two goroutines of each: one listens, the other waits for the    *)
(* signal and lets Shutdown drain the server for at most ten seconds.      *)
(* main returns when all of them are done and takes the prober with it; a  *)
(* server that cannot listen ends the process at once (log.Fatalf).        *)
(* http.Server is external: Shutdown closes the listener and waits for the *)
(* requests in flight, but not for connections that were upgraded, which   *)
(* the proxy has hijacked; ListenAndServe then returns ErrServerClosed,    *)
(* also if it is called after Shutdown.                                    *)
(***************************************************************************)
EXTENDS Prober

CONSTANTS
  StartOrder,    \* the servers in the order Run starts them
  Registrar,     \* the server of the management API
  Balancer,      \* the server of the proxy
  MaxInFlight    \* bound on the requests a server handles at once

Server == Members(StartOrder)

ASSUME LifecycleAssumption ==
  /\ StartOrder \in Seq(Server)
  /\ \A i, j \in 1..Len(StartOrder) : StartOrder[i] = StartOrder[j] => i = j
  /\ {Registrar, Balancer} \subseteq Server
  /\ MaxInFlight \in Nat

VARIABLES
  process,    \* "running", "exited" (main returned), "fatal" (os.Exit(1))
  started,    \* how many servers Run has started
  listener,   \* of each server: "none", "starting", "open", "closing", "closed"
  drainer,    \* of each server: "none", "waiting", "draining", "done"
  inflight,   \* the requests each server is handling and Shutdown waits for
  upgraded,   \* the upgraded connections the proxy is copying
  expired     \* the servers whose drain ran into its deadline

serverVars == <<process, started, listener, drainer, inflight, upgraded, expired>>
lifeVars   == <<vars, serverVars>>

-----------------------------------------------------------------------------

LifeInit ==
  /\ ProberInit
  /\ process = "running"
  /\ started = 0
  /\ listener = [s \in Server |-> "none"]
  /\ drainer = [s \in Server |-> "none"]
  /\ inflight = [s \in Server |-> 0]
  /\ upgraded = 0
  /\ expired = {}

\* Mutant: the seed round runs in the prober's goroutine.
SeedInBackground == TRUE

\* runProber has returned: ProbeOnce blocks.
Seeded == ~initial

\* startServer spawns both goroutines, whether the signal has come or not.
StartServer ==
  /\ Seeded
  /\ started < Len(StartOrder)
  /\ started' = started + 1
  /\ listener' = [listener EXCEPT ![StartOrder[started + 1]] = "starting"]
  /\ drainer' = [drainer EXCEPT ![StartOrder[started + 1]] = "waiting"]
  /\ UNCHANGED <<process, inflight, upgraded, expired>>

\* ListenAndServe opens the port.
Listen(s) ==
  /\ listener[s] = "starting"
  /\ drainer[s] = "waiting"
  /\ listener' = [listener EXCEPT ![s] = "open"]
  /\ UNCHANGED <<process, started, drainer, inflight, upgraded, expired>>

\* Mutant: an error of ListenAndServe is only logged.
Logged == "running"

\* log.Fatalf exits without waiting for anybody.
Fatal == "fatal"

\* ListenAndServe fails: the port is taken, or may not be opened.
ListenFails(s) ==
  /\ listener[s] = "starting"
  /\ listener' = [listener EXCEPT ![s] = "closed"]
  /\ process' = Fatal
  /\ UNCHANGED <<started, drainer, inflight, upgraded, expired>>

\* The shutdown goroutine gets past <-ctx.Done() and calls Shutdown.
BeginShutdown(s) ==
  /\ cancelled
  /\ drainer[s] = "waiting"
  /\ drainer' = [drainer EXCEPT ![s] = "draining"]
  /\ listener' = [listener EXCEPT ![s] = IF @ = "open" THEN "closing" ELSE @]
  /\ UNCHANGED <<process, started, inflight, upgraded, expired>>

\* ListenAndServe returns ErrServerClosed, though requests are still served.
ListenerReturns(s) ==
  /\ listener[s] = "closing" \/ (listener[s] = "starting" /\ drainer[s] \in {"draining", "done"})
  /\ listener' = [listener EXCEPT ![s] = "closed"]
  /\ UNCHANGED <<process, started, drainer, inflight, upgraded, expired>>

Accept(s) ==
  /\ listener[s] = "open"
  /\ inflight[s] < MaxInFlight
  /\ inflight' = [inflight EXCEPT ![s] = @ + 1]
  /\ UNCHANGED <<process, started, listener, drainer, upgraded, expired>>

Finish(s) ==
  /\ inflight[s] > 0
  /\ inflight' = [inflight EXCEPT ![s] = @ - 1]
  /\ UNCHANGED <<process, started, listener, drainer, upgraded, expired>>

\* A 101: ReverseProxy hijacks the connection through statusRecorder and copies
\* until one side closes it.
Upgrade ==
  /\ inflight[Balancer] > 0 /\ upgraded < MaxInFlight
  /\ inflight' = [inflight EXCEPT ![Balancer] = @ - 1]
  /\ upgraded' = upgraded + 1
  /\ UNCHANGED <<process, started, listener, drainer, expired>>

HangUp ==
  /\ upgraded > 0
  /\ upgraded' = upgraded - 1
  /\ UNCHANGED <<process, started, listener, drainer, inflight, expired>>

\* Shutdown returns once the listener is gone and no request is left.
Drained(s) ==
  /\ drainer[s] = "draining"
  /\ listener[s] # "closing" /\ inflight[s] = 0
  /\ drainer' = [drainer EXCEPT ![s] = "done"]
  /\ UNCHANGED <<process, started, listener, inflight, upgraded, expired>>

\* Mutant: Shutdown gets a context without a deadline.
NoDeadline(s) == FALSE

\* shutCtx may run out while there is something to wait for.
Overdue(s) == inflight[s] > 0

Expire(s) ==
  /\ drainer[s] = "draining"
  /\ Overdue(s)
  /\ drainer' = [drainer EXCEPT ![s] = "done"]
  /\ expired' = expired \cup {s}
  /\ UNCHANGED <<process, started, listener, inflight, upgraded>>

\* Mutant: the wait group tracks the listeners only.
ListenersDone == \A s \in Server : listener[s] = "closed"

\* wg.Wait() returns
AllDone == \A s \in Server : listener[s] = "closed" /\ drainer[s] = "done"

Exit ==
  /\ started = Len(StartOrder)
  /\ AllDone
  /\ process' = "exited"
  /\ UNCHANGED <<started, listener, drainer, inflight, upgraded, expired>>

\* A request the management server is handling changes the pool.
Handle(b) ==
  /\ inflight[Registrar] > 0
  /\ Register(b) \/ Deregister(b)
  /\ UNCHANGED <<roundVars, envVars, streak, history>>

\* The steps of main and of the goroutines the wait group tracks.
Bootstrap ==
  \/ StartServer
  \/ Exit
  \/ \E s \in Server :
       Listen(s) \/ BeginShutdown(s) \/ ListenerReturns(s) \/ Drained(s)

Deadline == \E s \in Server : Expire(s)

Outside ==
  \/ Upgrade
  \/ HangUp
  \/ \E s \in Server : ListenFails(s) \/ Accept(s) \/ Finish(s)

LifeNext ==
  /\ process = "running"
  /\ \/ (Bootstrap \/ Deadline \/ Outside) /\ UNCHANGED vars
     \/ /\ \/ ProberStep \/ Tick \/ Cancel
           \/ \E b \in Backend : Flip(b) \/ Handle(b)
        /\ UNCHANGED serverVars

LifeSafety == LifeInit /\ [][LifeNext]_lifeVars

\* The goroutines run, the seed's probes end by their timeouts, and the drain's
\* deadline comes.  A request need not ever finish.
LifeSpec ==
  /\ LifeSafety
  /\ WF_lifeVars(LifeNext /\ Bootstrap)
  /\ WF_lifeVars(LifeNext /\ Deadline)
  /\ WF_lifeVars(LifeNext /\ ProberStep)

-----------------------------------------------------------------------------

\* Types.
LifeTypeOK ==
  /\ process \in {"running", "exited", "fatal"}
  /\ started \in 0..Len(StartOrder)
  /\ listener \in [Server -> {"none", "starting", "open", "closing", "closed"}]
  /\ drainer \in [Server -> {"none", "waiting", "draining", "done"}]
  /\ inflight \in [Server -> 0..MaxInFlight]
  /\ upgraded \in 0..MaxInFlight
  /\ expired \in SUBSET Server

\* "wg tracks both the listener and the shutdown goroutine, so it is only done
\* once in-flight requests have drained (or the drain timed out)": whatever order
\* signal, starts and requests come in, main does not return in mid-drain.  Of
\* upgraded connections this says nothing.
DrainedBeforeExit ==
  process = "exited" => \A s \in Server : inflight[s] > 0 => s \in expired

\* The same comment of every request the proxy is still serving, those on an
\* upgraded connection included.
UpgradesDrainedToo ==
  process = "exited" /\ upgraded > 0 => Balancer \in expired

\* The process never runs on without one of its servers: a listener is gone only
\* after the signal or together with the process.
NoServerMissing ==
  \A s \in Server : listener[s] \in {"closing", "closed"} => cancelled \/ process = "fatal"

\* Run gives the prober the surroundings Prober assumes: above all, the seed
\* round is over before the management API can change the pool.
FitsProber == ProberSafety

\* After the signal the process ends, though requests may hang for ever and the
\* signal may come before a server listens or during the seed round.
SignalEndsProcess == cancelled ~> process # "running"

-----------------------------------------------------------------------------
(***************************************************************************)
(* The inductive invariant: a server that has started is past the seed     *)
(* round, and a drain that is done has left no request behind unwillingly. *)
(***************************************************************************)

StartInv ==
  /\ started > 0 => ~initial
  /\ \A s \in Server : listener[s] # "none" => started > 0
  /\ \A s \in Server : inflight[s] > 0 => listener[s] # "none"

DrainInv ==
  \A s \in Server :
    /\ drainer[s] \in {"draining", "done"} => cancelled
    /\ drainer[s] \in {"none", "waiting"} => listener[s] # "closing"
    /\ drainer[s] = "none" <=> listener[s] = "none"
    /\ drainer[s] \in {"draining", "done"} => listener[s] # "open"
    /\ drainer[s] = "done" /\ inflight[s] > 0 => s \in expired

LifeInv ==
  /\ LifeTypeOK
  /\ StartInv
  /\ DrainInv
  /\ NoServerMissing
  /\ DrainedBeforeExit

=============================================================================
