------------------------------ MODULE Admission ------------------------------
(***************************************************************************)
(* What a POST /backends goes through before it reaches the registry: the  *)
(* middlewares of internal/bootstrap around the management server, and the *)
(* checks of internal/handlers/backends.go.  A handler is a function from  *)
(* requests to outcomes, a middleware makes one handler of another.        *)
(*                                                                         *)
(* The registry's answer to a new URL is Registry's; here it is the input  *)
(* taken of the request.                                                   *)
(***************************************************************************)
EXTENDS Config

CONSTANTS
  Credential,    \* what an Authorization header may hold
  NoToken        \* GOLANCER_REGISTRY_TOKEN is not set

\* fits: what the decoder reads of the body is within the body limit; json: it
\* decodes.
Request ==
  [auth : Credential, fits : BOOLEAN, json : BOOLEAN,
   url : UrlKinds, weight : 0..(MaxWeight + 1), taken : BOOLEAN]

\* The status, the weight of the backend that was added (0: none was), and the
\* statuses ObserveRequest was called with.
Answer(status, weight) == [status |-> status, weight |-> weight, observed |-> << >>]

\* Mutant: the bound is exclusive.
WeightAtMost(w) == w >= MaxWeight

TooHeavy(w) == w > MaxWeight

\* parseRegisterBackendReq and register
Register(r) ==
  IF ~r.json \/ r.url \in {"unparsable", "relative", "otherScheme"} \/ TooHeavy(OrElse(r.weight, 1))
    THEN Answer(400, 0)
  ELSE IF r.taken THEN Answer(409, 0)
  ELSE Answer(201, OrElse(r.weight, 1))

\* http.MaxBytesReader fails the decoder that reads past the limit.  One Decode
\* stops after a complete value: what follows it may be too long unnoticed.
LimitBody(next) == [r \in Request |-> next[[r EXCEPT !.json = @ /\ r.fits]]]

RequestMetrics(next) ==
  [r \in Request |-> [next[r] EXCEPT !.observed = Append(@, next[r].status)]]

BearerAuth(token, next) ==
  IF token = NoToken THEN next
  ELSE [r \in Request |-> IF r.auth = token THEN next[r] ELSE Answer(401, 0)]

Wrap(mw, token, next) ==
  CASE mw = "metrics" -> RequestMetrics(next)
    [] mw = "limit"   -> LimitBody(next)
    [] mw = "auth"    -> BearerAuth(token, next)

\* Mutant: the first one listed is the innermost.
ChainForward(mws, token, handler) ==
  FoldLeft(LAMBDA next, mw : Wrap(mw, token, next), handler, mws)

Chain(mws, token, handler) ==
  FoldRight(LAMBDA mw, next : Wrap(mw, token, next), mws, handler)

\* chain(chain(metrics, limit), auth) around the mux
RegistryServer(token) ==
  Chain(<<"metrics", "limit", "auth">>, token, [r \in Request |-> Register(r)])

==============================================================================
