-------------------------------- MODULE Proxy --------------------------------
(***************************************************************************)
(* internal/proxy: the retry loop of ServeHTTP and its attempts, under the *)
(* requestMetrics middleware of internal/bootstrap, for concurrent         *)
(* requests, while the prober flips health flags and the management API    *)
(* changes the pool.  The backends, the clients and the standard library's *)
(* ReverseProxy are the environment: an attempt is answered, or fails      *)
(* before a response (ErrorHandler), may forward informational 1xx         *)
(* responses first, and may be cut off in the body, which ReverseProxy     *)
(* turns into a panic with http.ErrAbortHandler.                           *)
(***************************************************************************)
EXTENDS BackendPool, Selectors

CONSTANTS
  Request,      \* the requests that may arrive
  Once,         \* those with method POST or PATCH
  MaxRetries,   \* balancing.max-retries
  Strategy,     \* balancing.strategy
  Weight,       \* each backend's weight
  KeyHash,      \* the hash of each request's client IP
  NoTarget,     \* no backend is selected
  MaxBursts     \* bound on the 1xx responses to one request

ASSUME ProxyAssumption ==
  /\ Once \subseteq Request
  /\ MaxRetries \in Nat
  /\ Strategy \in {"round-robin", "least-connections", "random", "ip-hash"}
  /\ Weight \in [Backend -> Nat \ {0}]
  /\ KeyHash \in [Request -> Nat]
  /\ NoTarget \notin Backend
  /\ MaxBursts \in Nat

VARIABLES
  pc,         \* "idle", "body", "loop", "select", "connect", "sent",
              \* "leave", "closing", "done"
  attempt,    \* ServeHTTP's loop variable
  target,     \* the backend Select returned last
  body,       \* the request body: "unread", "fresh" (rewound) or "spent"
  outcome,    \* of the attempt: "open", "served", "failed" or "aborted"
  conns,      \* each backend's ActiveConnectionsNo
  gone,       \* environment: the clients that went away
  rec,        \* statusRecorder.status
  wrote,      \* statusRecorder.wroteHeader
  sent,       \* the statuses written to the client's connection
  observed,   \* the statuses ObserveRequest was called with
  tries,      \* history: how many attempts the request has cost the backends
  late        \* history: the attempts begun after the client had gone

serveVars  == <<pc, attempt, target, body, outcome, conns>>
answerVars == <<rec, wrote, sent>>
vars == <<poolVars, serveVars, answerVars, gone, observed, tries, late>>

BackendStatus == {200, 502}     \* what a backend answers is passed on
Final == BackendStatus \cup {400, 503}

Goto(r, l) == pc' = [pc EXCEPT ![r] = l]

\* Mutant: the status is sent but not recorded.
WriteHeaderUnrecorded(r, code) ==
  /\ wrote' = [wrote EXCEPT ![r] = TRUE]
  /\ sent' = [sent EXCEPT ![r] = Append(@, code)]
  /\ UNCHANGED rec

\* statusRecorder.WriteHeader: the first code is recorded, each is sent.
WriteHeader(r, code) ==
  /\ rec' = IF wrote[r] THEN rec ELSE [rec EXCEPT ![r] = code]
  /\ wrote' = [wrote EXCEPT ![r] = TRUE]
  /\ sent' = [sent EXCEPT ![r] = Append(@, code)]

\* The places of the final statuses among those sent.
Finals(codes) == { k \in 1..Len(codes) : codes[k] \in Final }

Answered(r) == Finals(sent[r]) # {}

-----------------------------------------------------------------------------

ProxyInit ==
  /\ Init
  /\ pc = [r \in Request |-> "idle"]
  /\ attempt = [r \in Request |-> 0]
  /\ target = [r \in Request |-> NoTarget]
  /\ body = [r \in Request |-> "unread"]
  /\ outcome = [r \in Request |-> "open"]
  /\ conns = [b \in Backend |-> 0]
  /\ gone = {}
  /\ rec = [r \in Request |-> 200]
  /\ wrote = [r \in Request |-> FALSE]
  /\ sent = [r \in Request |-> << >>]
  /\ observed = [r \in Request |-> << >>]
  /\ tries = [r \in Request |-> 0]
  /\ late = [r \in Request |-> 0]

\* requestMetrics calls the handler with a recorder that says 200.
Arrive(r) ==
  /\ pc[r] = "idle"
  /\ Goto(r, "body")
  /\ UNCHANGED <<attempt, target, body, outcome, conns, answerVars, observed, tries, late>>

\* io.ReadAll of the body; a 400 if it breaks off or exceeds the limit
ReadBody(r) ==
  /\ pc[r] = "body"
  /\ \/ Goto(r, "loop") /\ UNCHANGED answerVars
     \/ Goto(r, "closing") /\ WriteHeader(r, 400)
  /\ UNCHANGED <<attempt, target, body, outcome, conns, observed, tries, late>>

\* Mutant: a POST is retried too.
RetriesForAll(r) == MaxRetries

\* maxRetriesFor
RetriesFor(r) == IF r \in Once THEN 0 ELSE MaxRetries

\* Mutant: the context is not looked at.
ContextIgnored(r) == FALSE

\* r.Context().Err() != nil
ContextErr(r) == r \in gone

\* Mutant: only the first attempt gets the body.
RewindOnce(r) == body' = IF attempt[r] = 0 THEN [body EXCEPT ![r] = "fresh"] ELSE body

\* r.Body = r.GetBody(), a new reader over the buffered bytes
Rewind(r) == body' = [body EXCEPT ![r] = "fresh"]

\* The head of the loop: give up after the last retry, stop if the client is
\* gone, else rewind the body.
Loop(r) ==
  /\ pc[r] = "loop"
  /\ \/ /\ attempt[r] > RetriesFor(r)
        /\ WriteHeader(r, 503)
        /\ Goto(r, "closing")
        /\ UNCHANGED body
     \/ /\ attempt[r] <= RetriesFor(r) /\ ContextErr(r)
        /\ Goto(r, "closing")
        /\ UNCHANGED <<answerVars, body>>
     \/ /\ attempt[r] <= RetriesFor(r) /\ ~ContextErr(r)
        /\ Rewind(r)
        /\ Goto(r, "select")
        /\ UNCHANGED answerVars
  /\ UNCHANGED <<attempt, target, outcome, conns, observed, tries, late>>

Routable == SelectSeq(pool, LAMBDA b : healthy[b])

\* What balancer.Select may return; the order in which round-robin and random
\* visit the routable backends is left open here.
Selectable(r) ==
  CASE Strategy = "least-connections" -> {LeastLoaded(Routable, conns, Weight)}
    [] Strategy = "ip-hash"           -> {ForHash(Routable, KeyHash[r], Weight)}
    [] OTHER                          -> Members(Routable)

\* Mutant: Select waits until a backend is healthy.
NeverRefused == FALSE

\* Select's ErrNoBackends
Refused == Routable = << >>

\* Select; a 503 if no backend is healthy
Select(r) ==
  /\ pc[r] = "select"
  /\ \/ /\ Refused
        /\ WriteHeader(r, 503)
        /\ Goto(r, "closing")
        /\ UNCHANGED target
     \/ /\ ~Refused
        /\ \E b \in Selectable(r) : target' = [target EXCEPT ![r] = b]
        /\ Goto(r, "connect")
        /\ UNCHANGED answerVars
  /\ UNCHANGED <<attempt, body, outcome, conns, observed, tries, late>>

\* proxyOnce counts the connection and sends the request out.  The target may
\* have been evicted or deregistered since Select.
Connect(r) ==
  /\ pc[r] = "connect"
  /\ conns' = [conns EXCEPT ![target[r]] = @ + 1]
  /\ tries' = [tries EXCEPT ![r] = @ + 1]
  /\ late' = IF r \in gone THEN [late EXCEPT ![r] = @ + 1] ELSE late
  /\ outcome' = [outcome EXCEPT ![r] = "open"]
  /\ Goto(r, "sent")
  /\ UNCHANGED <<attempt, target, body, answerVars, observed>>

\* The backend sends 103 Early Hints or another 1xx ahead of its answer.
Inform(r) ==
  /\ pc[r] = "sent"
  /\ Len(sent[r]) < MaxBursts
  /\ WriteHeader(r, 103)
  /\ UNCHANGED <<serveVars, observed, tries, late>>

\* The attempt ends: served to the end, cut off after the header was passed
\* on, or failed before a header came, for whatever reason, above all a
\* backend that is down or a client that is gone.
End(r) ==
  /\ pc[r] = "sent"
  /\ \/ \E how \in {"served", "aborted"}, code \in BackendStatus :
          /\ outcome' = [outcome EXCEPT ![r] = how]
          /\ WriteHeader(r, code)
     \/ /\ outcome' = [outcome EXCEPT ![r] = "failed"]
        /\ UNCHANGED answerVars
  /\ body' = [body EXCEPT ![r] = "spent"]
  /\ Goto(r, "leave")
  /\ UNCHANGED <<attempt, target, conns, observed, tries, late>>

\* Mutants: the decrement is not deferred, so that a panic skips it; a cut-off
\* answer is recovered from and retried.
ReleasedUndeferred(r) == IF outcome[r] = "aborted" THEN 0 ELSE 1

AfterRecovered(r) == IF outcome[r] = "served" THEN "closing" ELSE "loop"

\* The deferred decrement runs, on the panic's way out too.
Released(r) == 1

\* A panic passes requestMetrics by; a failed attempt is followed by the next.
After(r) == CASE outcome[r] = "served"  -> "closing"
              [] outcome[r] = "aborted" -> "done"
              [] outcome[r] = "failed"  -> "loop"

Leave(r) ==
  /\ pc[r] = "leave"
  /\ conns' = [conns EXCEPT ![target[r]] = @ - Released(r)]
  /\ Goto(r, After(r))
  /\ \/ After(r) = "loop"  /\ attempt' = [attempt EXCEPT ![r] = @ + 1] /\ UNCHANGED target
     \/ After(r) # "loop" /\ target' = [target EXCEPT ![r] = NoTarget] /\ UNCHANGED attempt
  /\ UNCHANGED <<body, outcome, answerVars, observed, tries, late>>

\* requestMetrics reports the recorded status; net/http sends 200 for a
\* handler that wrote nothing.
Close(r) ==
  /\ pc[r] = "closing"
  /\ observed' = [observed EXCEPT ![r] = Append(@, rec[r])]
  /\ sent' = IF Answered(r) THEN sent ELSE [sent EXCEPT ![r] = Append(@, 200)]
  /\ Goto(r, "done")
  /\ UNCHANGED <<attempt, target, body, outcome, conns, rec, wrote, tries, late>>

\* The client goes away while its request is under way.
Depart(r) ==
  /\ pc[r] \notin {"idle", "done"}
  /\ r \notin gone
  /\ gone' = gone \cup {r}
  /\ UNCHANGED <<poolVars, serveVars, answerVars, observed, tries, late>>

Run(r) == ReadBody(r) \/ Loop(r) \/ Select(r) \/ Connect(r) \/ Leave(r) \/ Close(r)

Serve(r) == Run(r) /\ UNCHANGED <<poolVars, gone>>

ProxyNext ==
  \/ \E r \in Request :
       \/ Serve(r)
       \/ (Arrive(r) \/ Inform(r) \/ End(r)) /\ UNCHANGED <<poolVars, gone>>
       \/ Depart(r)
  \/ Next /\ UNCHANGED <<serveVars, answerVars, gone, observed, tries, late>>

ProxySafety == ProxyInit /\ [][ProxyNext]_vars

\* The request's goroutine runs; io.ReadAll of the client's body ends by the
\* listener's ReadTimeout, which is set unless the file says "0s".  A backend
\* need not ever answer: no timeout of the proxy bounds an attempt.
ProxySpec == ProxySafety /\ \A r \in Request : WF_vars(Serve(r))

-----------------------------------------------------------------------------

\* The requests with an attempt under way to b.
Under(b) == { r \in Request : pc[r] \in {"sent", "leave"} /\ target[r] = b }

\* ActiveConnectionsNo, which least-connections decides by, is exactly the
\* number of attempts under way to the backend, whichever way attempts end,
\* retries, panics and departures included, and after a deregistration too.
ConnsExact ==
  \A b \in Backend :
    conns[b] = Cardinality(Under(b))

\* A request is attempted at most 1 + max-retries times, a POST or PATCH at
\* most once, and never again after its client got a final status.
AttemptsBounded ==
  /\ \A r \in Request : tries[r] <= IF r \in Once THEN 1 ELSE 1 + MaxRetries
  /\ \A r \in Request : Answered(r) => pc[r] \in {"leave", "closing", "done"}

\* A finished request got exactly one final status; a request got none before
\* its backend answered or the proxy gave up.
OneFinalStatus ==
  \A r \in Request :
    /\ \A j, k \in Finals(sent[r]) : j = k
    /\ pc[r] = "done" => Answered(r)

\* Every attempt sends the whole body, though the attempts before it have
\* consumed theirs.
WholeBody == \A r \in Request : pc[r] = "sent" => body[r] = "fresh"

\* A departed client costs the backends at most one attempt more: the one
\* that was past the context check.
GoneStopsRetries == \A r \in Request : late[r] <= 1

\* A request is reported to the metrics at most once, and unless it was
\* aborted or had a 1xx response, exactly once with the status it got.
MetricsFaithful ==
  \A r \in Request :
    /\ Len(observed[r]) <= 1
    /\ pc[r] = "done" /\ outcome[r] # "aborted" /\ Len(sent[r]) = 1
         => observed[r] = sent[r]

\* Every request is done in the end or waits for one backend for ever: the
\* retry loop itself neither hangs nor goes round without end.
RequestsSettle ==
  \A r \in Request : <>[](pc[r] = "idle") \/ <>[](pc[r] = "sent") \/ <>(pc[r] = "done")

\* "requestMetrics returns middleware that reports each request to m."
EveryRequestReported ==
  \A r \in Request : pc[r] = "done" => Len(observed[r]) = 1

\* statusRecorder "capture[s] the response status code".
ReportedStatusIsFinal ==
  \A r \in Request : pc[r] = "done" /\ observed[r] # << >> =>
    \E k \in Finals(sent[r]) : observed[r] = <<sent[r][k]>>

\* Roadmap: "If a chosen backend fails mid-request, try the next one": a retry
\* goes elsewhere if another backend is routable.
FailoverMoves ==
  [][\A r \in Request :
       pc[r] = "select" /\ pc'[r] = "connect" /\ tries[r] > 0
         /\ (\E b \in Members(Routable) : b # target[r])
       => target'[r] # target[r]]_vars

-----------------------------------------------------------------------------
(***************************************************************************)
(* The inductive invariant behind the safety properties, by aspect of one  *)
(* request; what the selectors return plays no part in it.                 *)
(***************************************************************************)

\* Types.
ProxyTypeOK ==
  /\ pc \in [Request -> {"idle", "body", "loop", "select", "connect", "sent",
                         "leave", "closing", "done"}]
  /\ attempt \in [Request -> Nat]
  /\ DOMAIN target = Request /\ target = [r \in Request |-> target[r]]
  /\ body \in [Request -> {"unread", "fresh", "spent"}]
  /\ outcome \in [Request -> {"open", "served", "failed", "aborted"}]
  /\ conns \in [Backend -> Nat]
  /\ gone \in SUBSET Request
  /\ rec \in [Request -> Final \cup {103}]
  /\ wrote \in [Request -> BOOLEAN]
  /\ sent \in [Request -> Seq(Final \cup {103})]
  /\ observed \in [Request -> Seq(Final \cup {103})]
  /\ tries \in [Request -> Nat]
  /\ late \in [Request -> Nat]

\* The loop variable counts the attempts, the one under way excepted.
LoopInv(r) ==
  /\ pc[r] \in {"idle", "body"} => tries[r] = 0 /\ attempt[r] = 0
  /\ pc[r] \in {"loop", "select", "connect"} => tries[r] = attempt[r]
  /\ pc[r] \in {"sent", "leave"} => tries[r] = attempt[r] + 1
  /\ pc[r] \in {"select", "connect", "sent", "leave"} => attempt[r] <= RetriesFor(r)
  /\ tries[r] <= RetriesFor(r) + 1

\* The final status comes with an answered attempt or with the loop's end.
StatusInv(r) ==
  /\ pc[r] \notin {"leave", "closing", "done"} => ~Answered(r)
  /\ pc[r] = "leave" => outcome[r] # "open" /\ (Answered(r) <=> outcome[r] # "failed")
  /\ \A j, k \in Finals(sent[r]) : j = k
  /\ pc[r] = "done" => Answered(r)

\* The recorder holds the first status sent, which is reported at the end.
RecorderInv(r) ==
  /\ pc[r] # "done" =>
       /\ wrote[r] <=> sent[r] # << >>
       /\ rec[r] = IF sent[r] = << >> THEN 200 ELSE sent[r][1]
       /\ observed[r] = << >>
  /\ Len(observed[r]) <= 1
  /\ pc[r] = "done" /\ outcome[r] # "aborted" /\ Len(sent[r]) = 1 => observed[r] = sent[r]

BodyInv(r) == pc[r] \in {"select", "connect", "sent"} => body[r] = "fresh"

\* No attempt begins after one that began too late.
GoneInv(r) ==
  /\ pc[r] \in {"idle", "body", "select", "connect"} => late[r] = 0
  /\ late[r] <= 1
  /\ late[r] > 0 => r \in gone

RequestInv(r) == LoopInv(r) /\ StatusInv(r) /\ RecorderInv(r) /\ BodyInv(r) /\ GoneInv(r)

ConnsInv == \A b \in Backend : IsFiniteSet(Under(b)) /\ conns[b] = Cardinality(Under(b))

ProxyInv == ProxyTypeOK /\ ConnsInv /\ \A r \in Request : RequestInv(r)

=============================================================================
