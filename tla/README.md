# golancer in TLA+

golancer is an HTTP load balancer: a reverse proxy that spreads requests over a
pool of backends, a management API that changes the pool while the proxy uses
it, and a prober that decides which backends are routable. This directory holds
TLA+ models of it, TLC configurations that check them on small instances, and
proofs for every instance, checked by TLAPS. `PROJECT.json` lists runs, mutants,
findings, hazards, theorems and, definition by definition, the source lines a
model stands for.

    tlc -workers 2 -config MCRegistry.cfg MCRegistry      # any run of the table below
    tlapm RegistryProofs.tla                              # any module of proofs

## Inventory

| part (src/internal) | state | operations | who calls it |
|---|---|---|---|
| `backend`, `domain`: registry | atomic pointer to a slice of backends, mutex, a health flag and a connection count in each object | `AddNewBackend`, `RemoveInstanceByID`, `SetHealthy`, `ListBackends`, `ListHealthyBackends` | management API, prober, balancers, `/readyz` |
| `health`: prober | signed streak per instance ID | seed round, rounds on a ticker, concurrent probes, `record` | `bootstrap` |
| `balancer`: four strategies | round-robin's 32-bit counter | `GetServer`, `GetServerForKey` | proxy, for each attempt |
| `proxy` | buffered body, attempt number; the connection counts | retry loop, one attempt, forwarding headers | the balancer's HTTP server |
| `bootstrap`: middleware | recorded status | `requestMetrics`, `limitBody`, `bearerAuth` | every server |
| `handlers` | none | `/backends`, `/healthz`, `/readyz`, `/metrics` | clients |
| `bootstrap`: life cycle, `server` | context, wait group | seed, start three servers, drain on a signal | `main` |
| `config`, `metrics` | none after start; the Prometheus library's counters | load, validate, defaults; `ObserveRequest` | `bootstrap`; middleware |

How they interact: everything shares the registry. Writers (management
requests) exclude each other with a mutex and publish a fresh slice; readers
(balancer, prober, `/readyz`) load the pointer and take no lock; the prober
stores health flags in the objects without a lock; the proxy counts connections
in the same objects, and least-connections reads those counts. Nothing is
persisted, so a crash loses the pool and needs no recovery.

What is hard here:

- *interleaving*: test-then-store under the mutex against lock-free readers and
  the prober's lock-free store; a scan of flags that mixes instants; a backend
  that leaves between `Select` and the attempt, or between a round's listing and
  its `record`;
- *sequences*: streaks and flags are related over many probes; a retry loop with
  failed, aborted and departed attempts shares connection counts, one body and
  one ResponseWriter;
- *stale reads*: least-connections compares counts that move while it compares;
- *boundaries*: clamped streaks, weight bands, a 32-bit counter that wraps,
  settings that are unset, zero or negative;
- *progress*: the mutex, the prober's select between ticker and context, the
  retry loop, the drain after a signal.

What makes each part correct is said at each property, in the modules. The
hazards with their lines, and which property watches each, are in
`PROJECT.json`.

## Modules

| module | models | state and actions |
|---|---|---|
| `Lists` | what the program does with a slice of backends | operators: members, position, removal, order |
| `Backends` | backend objects, baseline | constants only. A member of `Backend` is one instance ID (a fresh UUID), not a URL |
| `BackendPool` | *abstract*: what the registry promises | `pool`, `healthy`, `created`; `Register`, `Deregister`, `SetHealth`, each at one instant |
| `Registry` | `registry.go` at the grain of its atomic steps, driven by `handlers/backends.go` | `slices` is the heap of published slices, `backends` the pointer, `mu` the mutex; a management call is `Begin`, `Lock`, check, (copy,) store, `Unlock`; `SetHealthy` is `SetFind`, `SetStore` |
| `RegistryReads` | the same with `ListHealthyBackends` callers (`Select`, `/readyz`) | a reader is `Load`, `Scan` for each element, `Finish`; history variables record what was true in its window |
| `Prober` | `prober.go`, and the order of seed and servers in `runner.go` | `StartRound`, `Launch`, `Answer`, `Record`, `EndRound`, `Stop`; environment: `Tick`, `Cancel`, `Flip`, `Manage` |
| `Lifecycle` | `runner.go`, `server.go`, `main.go` around the prober; `statusRecorder.Hijack` | `process`, and for each server a listener, a drainer and the requests in flight; `StartServer`, `Listen`, `BeginShutdown`, `ListenerReturns`, `Drained`, `Expire`, `Exit`; environment: `ListenFails`, `Accept`, `Finish`, `Upgrade`, `HangUp`; `Handle` is a management request |
| `RoundRobin` | `round_robin.go` with concurrent callers | `List`, `Draw`, `Scan`, `Return`; the counter is modulo `CounterMod` (2^32 in the code) |
| `Selectors` | the choices of `least_connections.go`, `random.go`, `hash.go` | operators; `random` is the band walk for an arbitrary pick, `ForHash` takes the hash as a number |
| `LeastConnections` | `least_connections.go` with concurrent callers and `proxyOnce`'s counts | `List`, then `Load` and `Compare` for each comparison of `MinFunc`, `Connect`, `Leave` |
| `Proxy` | `ServeHTTP`, `maxRetriesFor`, `proxyOnce`, `requestMetrics`, `statusRecorder` | a request is `Arrive`, `ReadBody`, then `Loop`, `Select`, `Connect`, `End`, `Leave` for each attempt, `Close`; environment: `Inform` (1xx), `End`'s outcome, `Depart` |
| `Forwarding` | `ClientIP`, `contains`, `peerIP`, `setForwarded` | functions of the peer and the inbound headers; a hop is an address or malformed |
| `Config` | `validate.go`, and what `load.go` gives the rest of the program | `Validate`; `HealthConfig`, `ServerConfig`, `DomainWeight`, `ProxySelector`, `ProxyBodyLimit` as functions of a settings record |
| `Admission` | `parseRegisterBackendReq`, `register`, and the middlewares of the management server | a handler is a function from requests to outcomes, a middleware makes one of another, `Chain` is `chain` |
| `...Proofs` | proofs about the module they are named after; `ListProofs` about `Lists`, and what all share; `FunctionsProofs` about the sequential parts | the theorems below |
| `MC...` | small instances | constants; `MCFunctions` also the inputs of the sequential parts and what is checked of them |

How they fit together: `RegistryReads` extends `Registry`. `Prober`,
`RoundRobin` and `Proxy` extend `BackendPool`, the abstraction that `Registry` is
*proved* to implement, so what they say of an atomic pool holds of the
copy-on-write one. `Lifecycle` extends `Prober`: in `Prober` the environment may
manage the pool at any moment once the servers run; in `Lifecycle` that takes a
request in flight at the management server, and `FitsProber` (proved) says that
this is one of the environments `Prober` was checked in. `Admission` extends
`Config`: file and API bring in backends by different code, which must agree.
The code's own words are kept where TLA+ allows it (`cur`, `streak`, `initial`,
`launched` for the loop with `g.Go`, `start`, `current`, `attempt`, `target`).

Every definition whose comment starts with *Mutant* is a plausible bug in the
definition after it. None is used by a specification: for each property of a
passing run there is one that makes the property fail when it takes the place of
the original (`PROJECT.json`, `mutants`), so that no property holds for empty
reasons.

## Runs

| cfg | instance | question |
|---|---|---|
| `MCRegistry` | 2 writers, 3 objects, 2 of them competing for one URL | Is the registry an atomic pool: no duplicate, no lost update, answers that are true, published slices that never change, every call answered? |
| `MCRegistryReads` | 1 reader, 1 writer, 3 objects, 3 published slices | What may a torn `ListHealthyBackends` contain, and when may `/readyz` find it empty? |
| `MCProber` | 2 backends (one in the baseline, one that joins), thresholds 2 and 3, one probe at a time | Do flags follow the probes, never flap, start seeded, settle; is a backend that answers blamed for nobody else's failure; does a cancelled prober stop? |
| `MCLifecycle` | 2 servers, 1 baseline backend that flips and may be deregistered, 1 request and 1 upgraded connection each | Is the drain waited for, is no server missing, does the prober get the surroundings it assumes, does the process end after a signal at any moment? |
| `MCLifecycleUpgrade` | the same | *violated*: does the drain cover upgraded connections? |
| `MCRoundRobin` | 2 callers, 2 backends, counter modulo 3 | Are tickets exact, is nobody's turn skipped, is a miss justified? |
| `MCLeastConnections` | 3 callers, 3 backends of weights 3, 1, 2, at most 2 attempts that begin during the watched call | How far from the least loaded is a pick made from counts that move; is it the least when they do not? |
| `MCFunctions` | one input per state: selections, forwarding headers, settings, requests | Are the choices the least and the shares the weights; is the client the one that cannot be made up, and the same for a second balancer; does an accepted configuration run; do file and API agree; is every answer reported? |
| `MCProxy` | a GET with one retry, a POST, 2 backends that join and leave, one 1xx each | Are counts, attempts, statuses, bodies and reports right however attempts end, and does the retry loop end unless a backend never answers? |
| `MCProxyFailover` | least-connections, 2 backends | *violated*: does a retry go to another routable backend? |
| `MCProxyAborted` | one GET | *violated*: is every request reported to the metrics? |
| `MCProxyEarly` | one GET, one 1xx | *violated*: is a request reported with its final status? |

The four violated properties state what a comment or the roadmap says;
`PROJECT.json` quotes the line of each. In words:

1. The comment on `startServer` says the wait group is done only once in-flight
   requests have drained. An upgraded connection (a WebSocket), which
   `statusRecorder.Hijack` exists for, is hijacked and out of `Shutdown`'s sight:
   the process exits in the middle of it, deadline or no deadline.
2. With least-connections a retry goes back to the backend that just failed:
   its connection count is released before the next selection.
3. A response cut off in its body is not counted: `ReverseProxy` panics with
   `http.ErrAbortHandler`, and `ObserveRequest` is not deferred.
4. A request answered after `103 Early Hints` is counted as a 103.

Four properties hold only with a reservation that is part of the statement, and
would be false without it:

- `EmptyJustified`: `/readyz` may answer 503 although at every instant some
  backend was healthy. The scan reads a down flag that then comes up, then
  another flag that has meanwhile gone down. That a backend came up behind the
  scan is the one excuse the property grants.
- `MissMeansAllDown`: `start+i` is a `uint32` sum. When it wraps in the middle of
  a scan and the pool's size does not divide 2^32, the scan visits one backend
  twice and another never, and may return `ErrNoBackends` with a healthy backend.
  It takes 2^32 selections to get there.
- `AnswererStaysIn` ends with the signal. A cancelled context fails the probes in
  flight, and `Run`'s `select` may still take a tick that waits: these failures
  are counted like any other, and with a low threshold live backends lose their
  flags while requests still drain. Nothing in the repository promises otherwise,
  and `FlagFollowsProbes` and `NoFlapping` take such a failure for what `record`
  takes it for.
- `PickNearLeast`: `MinFunc` never compares its best again with what that has
  beaten, so a pick may be heavier than another listed backend was at any instant
  of the call, but only by the attempts that began meanwhile.

### Bounds, and why they are enough

- *Backends and URLs*: two or three objects. Two that share a URL are the least
  for a duplicate registration and for a URL that returns with a new ID; a third
  makes positions in the middle of a list, and torn scans, possible.
- *Writers*: two, since the mutex lets at most one in; the proofs are for any
  number.
- `MaxPublished` (3) bounds the slices published while `RegistryReads` runs: a
  scan can be overtaken by two mutations.
- *Thresholds* 2 and 3 are the least two different ones with a streak strictly
  between zero and either end; the proofs are for all. `MCLifecycle` takes 1 and
  2, as the streaks are the other run's matter.
- `MaxConcurrent` 1 with two backends makes `g.Go` block. `Depth` is not a bound:
  it is how much history the properties look at.
- `StartOrder` has two of the three servers, the management server and the proxy:
  the third, for the metrics, takes no part in a property and behaves like them.
  `MaxInFlight` (1) bounds the requests a server handles and the upgraded
  connections: a drain waits for none or for some.
- `CounterMod` 3 with two backends wraps in mid rotation, as 2^32 does with three.
- `Watched`: `LeastConnections` keeps its history for one caller; the callers are
  alike, and the other two are declared symmetric. `MaxJoins` (2) bounds the
  attempts that begin during a watched call, which are enough to overtake each
  comparison; outside such a call nothing is bounded.
- `MaxBursts` (1) bounds the messages before which a 1xx response may come, so a
  1xx response comes first or, after a failed attempt, not again. The proofs are
  for every bound.
- `MaxWeight`, `MaxConns`, `HashMod` bound the selections: with weights to 3 and
  counts to 2, ties, multiples and incomplete rounds of the hash occur. A weight
  is at most 10^6 and a count an int32 that is never negative (`ConnsExact`), so
  no product reaches 2^64 and integers stand for uint64.
- `MaxHops` (4) bounds an inbound X-Forwarded-For, with two untrusted addresses,
  two trusted ones and a malformed hop: long enough for a trusted run on both
  sides of an untrusted or malformed hop.
- *Settings* are varied two at a time in an otherwise empty file, the three
  ports counting as one: `Validate` and the derivations look at every other
  setting on its own. A value is unset, malformed, negative, zero or positive, a
  port also a default of another server or out of range. `MaxWeight` is 3 here
  too; `AcceptedRuns` and `SameBackends` are for every bound, the code's 10^6
  included.
- `MCLifecycle` has one backend, so nothing can be registered in it; that the
  prober's surroundings are as assumed when backends join, too, is the theorem
  `LifeUsesProber`.

### Fairness

- `Registry`: weak fairness of each call's next step (Go runs every goroutine)
  and strong fairness of `Lock`: `sync.Mutex` hands itself over to the longest
  waiter once that has waited a millisecond. Without it a writer could be
  overtaken for ever.
- `Prober`: weak fairness of the goroutine's steps, among them the answers to
  probes, as `http.Client.Timeout` bounds each; weak fairness of the ticker;
  strong fairness of `Stop`, as `select` chooses at random among the ready cases.
  Rounds may last longer than the interval, so that a tick is always waiting.
- `Lifecycle`: weak fairness of the goroutines of `Run` and of the prober (so the
  seed round ends, its probes being bounded), and of the drain's ten-second
  deadline. None of `Finish`: a request may hang for ever, and the process must
  end all the same. The process stops, so `MCLifecycle` is checked without
  deadlock.
- `Proxy`: weak fairness of each request's own steps. For `ReadBody`, which waits
  for the client, it rests on the listener's `ReadTimeout`: 5s by default
  (`config/types.go`), but an accepted `read-timeout: "0s"` takes it away, and a
  slow client may then hold its request for ever. None of `End`: the transport
  has no response timeout, so a backend may keep a request for ever, and the
  property says so.
- `RegistryReads`, `RoundRobin` and `LeastConnections` are checked for safety
  only: each call is a loop over a finite slice.

### What is assumed and abstracted

- Fresh UUIDs never repeat, also not among calls in flight.
- `Prober`, `RoundRobin` and `Proxy` use the atomic pool. In `Proxy` a selection
  reads list, flags and counts at one instant; `RegistryReads` says what a torn
  reading of flags can be, `LeastConnections` what counts that move during the
  comparison can lead to. A 503 for a torn or wrapped scan is therefore absent
  from `Proxy`; it differs from the 503 it has only in when it is given.
- In `Proxy`, round-robin and random may return any routable backend: which one
  is the matter of `RoundRobin` and `Selectors`. The theorems about `Proxy` use
  nothing of what a selection returns.
- `LeastConnections` takes any sublist of the pool for what
  `ListHealthyBackends` returns, and its pool does not change: a backend that
  leaves keeps its object and its count.
- A probe is a boolean: up, answered in time and 2xx; a cancelled context fails
  it. An attempt is served, cut off after the header, or failed before it.
  Backend statuses are 200 and 502, which are passed on alike.
- `net/http`'s server is modelled from its use: `Shutdown` closes the listener,
  waits for the requests in flight and not for hijacked connections, and a
  `ListenAndServe` that comes after it returns at once.
- A duration is a number, unset or unparsable; a URL is what `url.Parse` says of
  it; an X-Forwarded-For is the sequence of its hops; a request body decodes or
  does not, and is within the limit as far as the decoder reads it. The syntax behind these is the standard library's.
- The `GetBody` error in `ServeHTTP` is left out: the function it calls returns
  nil always.

## Proofs

`ListProofs` has the facts the others share. On lists: appending, and removing
the one element with a given ID, keep an injective list injective and change the
set of members by one element. On induction: `NatSetInduction` is induction over
a *set* of naturals, which the provers can instantiate where an operator is out of
their reach. On folds: `FoldLeft` and `FoldRight` are defined by the choice of a
recursive function on sets of positions; `FoldExists` proves, by induction on the
size of the set, that such a function exists for any step on any set of values,
and `MaxOfPrefix` and `MinOfSuffix` that it takes the elements one after the other,
from either end. With these four, what a fold computes is proved for lists of any
length. On numbers: division with remainder, how often a band of residues occurs
among the first `m` numbers, and the order of ratios compared by products.

**Registry** (`RegistryProofs`), for every set of writers and backends and every
baseline. The safety properties are not inductive: that a store keeps URLs
unique rests on what the writer read some steps before. `IndInv` adds

- `LockInv`: a writer between `Lock` and `Unlock` holds `mu`, and at its store
  the slice it loaded is still the current one;
- `ArgInv`: the object a registration will make is not made yet, and no other
  call in flight has it;
- `DecisionInv`: what the check found (URL free, ID listed) still holds at the
  store;
- `PoolInv`: listed objects and pending flag updates are of made objects.

One lemma for each action, one step for each conjunct it can disturb; `StepInd`
combines them. From it: `TypeCorrect`, `RegistrationUnique`, `AnswersTrue`; and,
as step properties, `SlicesImmutable`, `DeregistrationOnce` and `Refinement`:
`AddStore`, `RemoveStore` and `SetStore` are `Register`, `Deregister` and
`SetHealth` of `BackendPool`, and every other step stutters.

**Reads** (`RegistryProofs`), for any readers, writers and flags. The two
properties speak of a finished scan; `ReadsInv` says of one under way what makes
them true at its end: `ScanInv` that what is collected has the order of the
slice, ends before the place the loop has reached, was up at some instant, and
leaves out nothing passed that was up all along; `WindowInv` that the history is
up to date while the loop runs, and that, unless something was collected or a
flag came up since, all that was passed is down and all that is routable is in
the slice. The latter is what `EmptyIsJustified` rests on: a scan that collects
nothing and sees no flag come up ends with nothing routable. `WithinWindow` is the
other. Both need that no step changes a slice the reader may hold, as
`SlicesImmutable` says.

**Prober** (`ProberProofs`), for all thresholds, concurrency limits and pools.
`ProberInv` relates three things at once: `StreakInv` says that a streak of `s`
means the newest `s` results were successes and the one before was not (and
likewise for failures), and that at a threshold the flag is what the streak
says. `RecordConsistent` is the arithmetic core, a lemma on `NextStreak`,
`Reports` and `Shifted`. `FreshInv` says that an object nobody made has no
streak and no flag, `RoundInv` that results are recorded only when all are in,
`SeedInv` that during the seed round the pool is the baseline and everything
recorded so far has its flag. From these: `FlagsFollowProbes`, `FlagsDoNotFlap`,
`SeedDecides`, `StreaksBounded`, `ProberTypeCorrect`; and `ProberUsesPool`: the
prober is a client of the abstract pool and nothing else. `AnswererKept` is about
a backend that answers every probe: `Blameless` says that until the signal its
streak is not negative, its results that are in are successes, and, if it is of
the baseline, that it is routable once the seed round has recorded it; every step
keeps that as long as the backend answers, on top of `ProberInv`.

**Life cycle** (`LifecycleProofs`), for any servers and any number of requests.
`LifeInv` adds `StartInv` (a server that has started is past the seed round, and
a server that handles requests has started) and `DrainInv` (how a listener and
its drainer may stand to each other; a drain that is done leaves no request
behind but by its deadline). From it: `LifeTypeCorrect`, `DrainComplete`,
`ServersStay`; and `LifeUsesProber`, that every step of the program is a step of
`Prober` or leaves it alone. `LifeFlagsFollowProbes` is the prober's main theorem
carried over to the whole program by that refinement.

**Round-robin** (`RoundRobinProofs`), for any callers, pools that change
meanwhile, and a counter of any width. `RRInv` adds to the properties that a call
returns `ErrNoBackends` only after a full turn (`RoundInv`). `TicketsExact` rests
on `OneMoreTurn`, that a draw moves a caller's clock and the counter alike;
`MissMeansAllDown` on `RotationReaches`, that the slots of a full turn without a
wrap are all the places of the list, by the uniqueness of division with remainder.
From it: `NoTicketLost`, `NobodyPassedOver`, `MissIsTrue`.

**Least-connections** (`LeastConnectionsProofs`), for any callers, backends,
weights and number of attempts. `PickNearLeast` is not inductive: what is known of
the best so far has to survive that its own count rises after the comparison, and
that the challenger's has risen between its load and the comparison.
`NearLeastSoFar` bounds the best against each backend passed by the attempts that
began *less* those on the challenger since it was loaded (`Risen`): they are not
spent yet, for they are needed if the challenger becomes the best, and by then
its count is what it was loaded as, and these. `QuietSoFar` says of a call during
which no count has moved that the best so far is `FirstLeast` of what was passed.
From these: `PickNear`; and `QuietPick`, by `LeastLoadedFirst`, that the fold of
`Selectors` returns the same backend.

**Sequential parts** (`FunctionsProofs`), for every input. `LeastLoadedRight` is
`LeastLoadedFirst` once more. `SharesRight`: `Edges` are the sums of the weights;
`BandHit` says that the walk ends in the band the pick falls into, `PicksOfBand`
that it is the band of one backend only, and `ResidueShare` counts the hashes.
`ClientRight`: `Origin` is the place of the chain where a walk from its right end
stops, and `ClientIPOrigin` carries the walk over any number of hops to it.
`OriginKept` follows since there is one such place only (`OneOrigin`) and what the
next balancer's chain has on top is trusted. `AnyPortsApart` unrolls `validateServer`
over the three servers (`ClaimsApart`), `EveryAnswerReported` and `SameBackends`
the three middlewares. The runs' files set two settings at a time;
`AnyAcceptedRuns` and `AnyPortsApart` say the two parts of `AcceptedConfigRuns` of
every settings record whose fields have the types the decoder gives them, and
`AcceptedRuns` follows. Chains, lists, weights and counts are bounded by the constants of
`MCFunctions`, which are arbitrary.

**Proxy** (`ProxyProofs`), for any requests, any max-retries, any strategy, any
pool. `ProxyInv` has one part for each aspect of a request: `LoopInv` (the loop
variable against the attempts made), `StatusInv` (a final status is there after
an answered attempt or at the loop's end, and nowhere earlier), `RecorderInv`
(the recorder holds the first status sent), `BodyInv`, `GoneInv` (no attempt
begins after one that began too late); and `ConnsInv`, that a count is the number
of requests with an attempt under way, for which the prover needs that this
number is finite. `Written` says what a `WriteHeader` does to all of them;
`OthersUntouched` and `ConnsUntouched` reduce a step to the request that makes
it. From it: all safety properties of the run, `ConnectionsExact`,
`RetriesBounded`, `AnsweredOnce`, `BodyRewound`, `DepartureStops`,
`ReportsFaithful`.

The assumptions are those the modules name: `BackendAssumption` (the baseline is
a list of distinct objects; URLs may repeat, as `Validate` does not compare
them), `RegistryAssumption`, `RoundRobinAssumption` (markers are not members, a
counter has a width), `ProberAssumption`, `ProxyAssumption` (`Validate` and the
defaults make thresholds and weights positive and retries a number: what
`AcceptedConfigRuns` checks), `LifecycleAssumption` (the servers are distinct).

Every safety property of a passing run is a theorem. Only model-checked are the
liveness properties (`CallsReturn`, `SteadyBackendSettles`, `ProberStops`,
`SignalEndsProcess`, `RequestsSettle`), which are out of the prover's reach. The
inductive invariants `ReadsInv` and `LCInv` hold on the instances of their runs, too:
name one in the cfg in place of the properties to see it.

## Not modelled

- Reading the configuration file, and the syntax of YAML, JSON, URLs, CIDRs and
  durations: conversions by libraries. An error in any of them ends the process
  before anything runs, or is an input of `Config` and `Admission`.
- The FNV hash of the client's address: `Selectors` takes its value as a number
  and says how the numbers are shared out.
- `X-Forwarded-Host`, which is always the Host header; the labels of the metrics,
  `Flush`, logging, command-line flags and the mux.
- The Prometheus exporter, which mounts the library's handler.
- The development scripts, the containers and the Helm chart.

## Plan

Done: the registry with its refinement and its reads, the prober, the life cycle
around it, the four strategies, the retry loop with the metrics around it,
forwarding, configuration and admission; proofs of the safety properties of all of
them.

Next, in this order:

1. A composition of `Proxy` with round-robin's own steps in place of the open
   choice, and with torn reads, so that a 503 carries its reason.
2. `Proxy` inside `Lifecycle`: what a request in the retry loop may expect of the
   ten seconds after the signal.
