---------------------------- MODULE MCFunctions ----------------------------
(***************************************************************************)
(* The sequential parts against what their callers rely on, for every      *)
(* input within the bounds: the weighted choices of Selectors, the headers *)
(* of Forwarding, the settings of Config and the requests of Admission.    *)
(* Each state is one input.                                                *)
(***************************************************************************)
EXTENDS Selectors, Forwarding, Admission, FiniteSets

CONSTANTS
  Backend,
  MaxConns,     \* bound on the connection counts
  HashMod,      \* number of hash values; 2^32 in the code
  Client,       \* addresses outside Trusted
  Self,         \* the balancer's own address, which the next one trusts
  MaxHops       \* bound on the inbound chain

ASSUME FunctionsAssumption ==
  /\ IsFiniteSet(Backend)
  /\ Client \cap Trusted = {} /\ Garbled \notin Client /\ Self \in Trusted
  /\ MaxConns \in Nat /\ HashMod \in Nat /\ MaxHops \in Nat

VARIABLE in

HealthyLists == { s \in UNION { [1..n -> Backend] : n \in 1..Cardinality(Backend) } :
             \A i, j \in DOMAIN s : s[i] = s[j] => i = j }

Selections ==
  [kind : {"selection"}, list : HealthyLists,
   conns : [Backend -> 0..MaxConns], weight : [Backend -> 1..MaxWeight]]

Headers ==
  [kind : {"headers"}, peer : Client \cup Trusted, proto : {NoProto, "http", "https"},
   hops : UNION { [1..n -> Client \cup Trusted \cup {Garbled}] : n \in 0..MaxHops }]

\* An empty file.
Default ==
  [strategy |-> "", retries |-> 0, backends |-> << >>, interval |-> Unset, timeout |-> Unset,
   healthy |-> 0, unhealthy |-> 0, concurrent |-> 0, ports |-> <<0, 0, 0>>,
   durations |-> <<{Unset}, {Unset}, {Unset}>>, proxies |-> << >>, bodyLimit |-> 0]

Durations == {Unset, Unparsable, -1, 0, 7}

Values ==
  [strategy |-> Strategies \cup {"", "other"}, retries |-> {-1, 0, 2},
   backends |-> { <<[url |-> u, weight |-> w]>> : u \in UrlKinds, w \in 0..(MaxWeight + 1) },
   interval |-> Durations, timeout |-> Durations,
   healthy |-> {-1, 0, 2}, unhealthy |-> {-1, 0, 2}, concurrent |-> {-1, 0, 2},
   ports |-> [1..3 -> {-1, 0, 2112, 8080, 8081, MaxPort + 1}],
   durations |-> { <<{d}, {Unset}, {Unset, e}>> : d, e \in Durations },
   proxies |-> {<<TRUE>>, <<TRUE, FALSE>>}, bodyLimit |-> {-1, 0, 5}]

\* Any two settings in the file; Validate looks at each on its own, but for the
\* ports, which are one setting here.
Settings ==
  UNION { { [kind |-> "settings", c |-> [[Default EXCEPT ![f] = v] EXCEPT ![g] = w]] :
              v \in Values[f], w \in Values[g] } : f, g \in DOMAIN Default }

Requests == [kind : {"request"}, token : {NoToken} \cup Credential, request : Request]

Init == in \in Selections \cup Headers \cup Settings \cup Requests

Next == UNCHANGED in

Spec == Init /\ [][Next]_in

-----------------------------------------------------------------------------

\* Least-connections returns the backend of the smallest load relative to its
\* weight, the first registered of several: every other one is at least as
\* loaded, every earlier one is more loaded.
LeastLoadedIsLeast ==
  in.kind = "selection" =>
    LET best == LeastLoaded(in.list, in.conns, in.weight)
        place == CHOOSE i \in DOMAIN in.list : in.list[i] = best
    IN  \A i \in DOMAIN in.list :
          LET b == in.list[i] IN
            IF i < place
              THEN in.conns[b] * in.weight[best] > in.conns[best] * in.weight[b]
              ELSE in.conns[b] * in.weight[best] >= in.conns[best] * in.weight[b]

\* "a backend with weight 3 is three times as likely": the picks below the total
\* weight give each backend exactly its weight; so do the hashes, once for each
\* full round of the total in HashMod, with at most one weight on top.
SharesMatchWeights ==
  in.kind = "selection" =>
    LET total == TotalWeight(in.list, in.weight)
        rounds == HashMod \div total
    IN  \A i \in DOMAIN in.list :
          LET b == in.list[i]
              picks == { p \in 0..(total - 1) : InBand(in.list, p, in.weight) = b }
              hashes == { h \in 0..(HashMod - 1) : ForHash(in.list, h, in.weight) = b }
          IN  /\ Cardinality(picks) = in.weight[b]
              /\ Cardinality(hashes) \in (rounds * in.weight[b])..((rounds + 1) * in.weight[b])

\* "the first address outside the trusted set wins", and the caller cannot make
\* it up: every party to the right of the client is trusted, and the client is
\* not, unless the chain ends or is malformed to its left.
ClientIsLastUntrusted ==
  in.kind = "headers" =>
    LET way == Append(in.hops, in.peer)
        told(i) == \A j \in (i + 1)..Len(way) : way[j] \in Trusted
    IN  \E i \in DOMAIN way :
          /\ ClientIP(in.peer, in.hops) = way[i]
          /\ way[i] # Garbled /\ told(i)
          /\ \/ way[i] \notin Trusted
             \/ i = 1
             \/ way[i - 1] = Garbled

\* "so backends see the real client and scheme": a second balancer that trusts
\* the first and the same proxies takes the same client for the client and hands
\* on the same scheme, whatever the first was sent.
SameOriginDownstream ==
  in.kind = "headers" =>
    LET out == SetForwarded(in.peer, in.hops, in.proto)
    IN  /\ ClientIP(Self, out.hops) = ClientIP(in.peer, in.hops)
        /\ SetForwarded(Self, out.hops, out.proto).proto = out.proto

\* What Validate accepts runs: time.NewTicker and rand.Uint64N do not panic on it,
\* no timeout is negative, the prober gets thresholds it is defined for, every
\* backend a weight the selectors can carry, the body limit lets a body through,
\* a strategy that was named is the one that is used, and the servers listen on
\* three ports, defaults included ("so two servers resolving to the same port fail
\* validation instead of crashing").
AcceptedConfigRuns ==
  in.kind = "settings" /\ Validate(in.c) =>
    LET health == HealthConfig(in.c)
    IN  /\ health.interval > 0 /\ health.timeout > 0
        /\ health.healthy > 0 /\ health.unhealthy > 0 /\ health.concurrent >= 0
        /\ \A i \in DOMAIN in.c.backends : DomainWeight(in.c.backends[i]) \in 1..MaxWeight
        /\ \A i \in 1..3 : \A d \in ServerConfig(in.c, i).durations : d >= 0
        /\ ProxyBodyLimit(in.c) > 0
        /\ in.c.strategy \in {"", ProxySelector(in.c)}
        /\ Cardinality({ ServerConfig(in.c, i).port : i \in 1..3 } \cap 1..MaxPort) = 3

\* "matching config-loaded backends": a backend the file may name may also be
\* registered, and the other way round, with the same weight.
SameBackendsEitherWay ==
  in.kind = "request" =>
    LET r == [in.request EXCEPT !.taken = FALSE, !.fits = TRUE, !.json = TRUE]
        entry == [url |-> r.url, weight |-> r.weight]
        answer == RegistryServer(NoToken)[r]
    IN  answer.weight = IF BackendOK(entry) THEN DomainWeight(entry) ELSE 0

\* Each answer of the management server is reported once and with its status, the
\* refusals of the middlewares too ("auth inside metrics"); and only a request
\* with the token gets past them.
AnswersReported ==
  in.kind = "request" =>
    LET answer == RegistryServer(in.token)[in.request]
    IN  /\ answer.observed = <<answer.status>>
        /\ answer.weight > 0 => in.token \in {NoToken, in.request.auth}

============================================================================
