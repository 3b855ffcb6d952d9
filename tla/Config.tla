------------------------------- MODULE Config -------------------------------
(***************************************************************************)
(* internal/config: which settings Validate accepts, and what the program  *)
(* then runs with.  A duration is a number of milliseconds, Unset ("") or  *)
(* Unparsable; any other field that is not in the file is 0, "" or empty.  *)
(* A URL is what url.Parse says of it.  A settings record c has the fields *)
(*   strategy, retries, backends (a sequence of [url, weight]),            *)
(*   interval, timeout, healthy, unhealthy, concurrent  (health),          *)
(*   ports, durations  (of the balancer's, the registry's and the metrics  *)
(*   server: the port, and the read and write timeout),                    *)
(*   proxies (a sequence: does the entry parse), bodyLimit  (proxy).       *)
(***************************************************************************)
EXTENDS Integers, Sequences, SequencesExt

CONSTANTS Unset, Unparsable, MaxWeight

ASSUME ConfigAssumption == MaxWeight \in Nat \ {0}

Strategies == {"ip-hash", "least-connections", "random", "round-robin"}

UrlKinds == {"unparsable", "relative", "otherScheme", "http"}

DefaultPort == <<8080, 8081, 2112>>

MaxPort == 65535

\* time.ParseDuration with the error dropped
Parsed(d) == IF d \in {Unset, Unparsable} THEN 0 ELSE d

OrElse(x, default) == IF x = 0 THEN default ELSE x

PortOr(c, i) == OrElse(c.ports[i], DefaultPort[i])

-----------------------------------------------------------------------------
(* Validate *)

\* url.Parse succeeds, with a scheme and a host; the scheme is http or https.
UrlOK(url) == url \notin {"unparsable", "relative", "otherScheme"}

BackendOK(b) == UrlOK(b.url) /\ ~(b.weight > MaxWeight)

\* Mutant: the sign is not looked at.
DurationParses(d) == d # Unparsable

\* validateDuration
DurationOK(d) == d = Unset \/ (d # Unparsable /\ ~(d < 0))

HealthOK(c) ==
  /\ DurationOK(c.interval) /\ DurationOK(c.timeout)
  /\ c.healthy >= 0 /\ c.unhealthy >= 0 /\ c.concurrent >= 0

\* Mutant: the ports are compared as configured.
ClaimedAsWritten(c, i) == c.ports[i]

\* usedPorts holds effective ports.
Claimed(c, i) == PortOr(c, i)

\* validateServer, called for one server after the other
Claim(c, walk, i) ==
  IF c.ports[i] \notin 0..MaxPort \/ Claimed(c, i) \in walk.used
    THEN [walk EXCEPT !.ok = FALSE]
    ELSE [walk EXCEPT !.used = @ \cup {Claimed(c, i)}]

ServersOK(c) ==
  /\ FoldLeft(LAMBDA walk, i : Claim(c, walk, i), [used |-> {}, ok |-> TRUE], <<1, 2, 3>>).ok
  /\ \A i \in 1..3 : \A d \in c.durations[i] : DurationOK(d)

\* No check appends an error.
Validate(c) ==
  /\ c.strategy \in Strategies \cup {""}
  /\ \A i \in DOMAIN c.backends : BackendOK(c.backends[i])
  /\ HealthOK(c)
  /\ ServersOK(c)
  /\ c.retries >= 0
  /\ \A i \in DOMAIN c.proxies : c.proxies[i]
  /\ c.bodyLimit >= 0

-----------------------------------------------------------------------------
(* What Run makes of the settings *)

\* DomainBackends
DomainWeight(b) == OrElse(b.weight, 1)

\* ProxySelector: "" and anything unknown is round-robin.
ProxySelector(c) == IF c.strategy \in Strategies THEN c.strategy ELSE "round-robin"

\* HealthConfig, and withDefaults in NewProber
HealthConfig(c) ==
  [interval   |-> OrElse(Parsed(c.interval), 5000),
   timeout    |-> OrElse(Parsed(c.timeout), 2000),
   healthy    |-> OrElse(c.healthy, 1),
   unhealthy  |-> OrElse(c.unhealthy, 3),
   concurrent |-> c.concurrent]

\* serverConfig; the durations are those of the two timeouts that are set.
ServerConfig(c, i) ==
  [port |-> PortOr(c, i), durations |-> { Parsed(d) : d \in c.durations[i] \ {Unset} }]

ProxyBodyLimit(c) == OrElse(c.bodyLimit, 16 * 1024)

=============================================================================
