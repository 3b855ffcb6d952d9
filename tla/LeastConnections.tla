-------------------------- MODULE LeastConnections --------------------------
(***************************************************************************)
(* internal/balancer/least_connections.go with concurrent GetServer calls. *)
(* slices.MinFunc walks the list once; each of its comparisons loads two   *)
(* atomic counts, one after the other, while other calls raise and lower   *)
(* them, and the backend a call picks is counted only later, by proxyOnce. *)
(*                                                                         *)
(* What ListHealthyBackends returns is any sublist of the pool here, as    *)
(* RegistryReads has it.  The history covers the calls of one caller, from *)
(* the listing to the pick; the callers are alike, so what it says of one  *)
(* it says of each.                                                        *)
(***************************************************************************)
EXTENDS Integers, Backends, Selectors

CONSTANTS
  Caller,     \* the proxy attempts that select a backend
  Watched,    \* the one whose calls the history covers
  Weight,     \* each backend's weight
  NoPick,     \* ErrNoBackends, or no pick yet
  MaxJoins    \* bound on the attempts that begin during a watched call

ASSUME LeastConnectionsAssumption ==
  /\ Weight \in [Backend -> Nat \ {0}]
  /\ NoPick \notin Backend
  /\ Watched \in Caller
  /\ MaxJoins \in Nat

VARIABLES
  conns,      \* each backend's ActiveConnectionsNo
  pc,         \* "idle", "load", "compare", "picked", "attempt"
  list,       \* the call's healthy backends
  next,       \* MinFunc's loop index
  best,       \* MinFunc's m
  loaded,     \* the challenger's count, loaded first
  low, high,  \* history: the least and greatest count of each backend
  joins       \* history: how many counts were raised

callVars    == <<pc, list, next, best, loaded>>
historyVars == <<low, high, joins>>
vars        == <<conns, callVars, historyVars>>

Goto(c, l) == pc' = [pc EXCEPT ![c] = l]

InCall(c) == pc[c] \in {"load", "compare"}

Challenger(c) == list[c][next[c]]

-----------------------------------------------------------------------------

LCInit ==
  /\ conns = [b \in Backend |-> 0]
  /\ pc = [c \in Caller |-> "idle"]
  /\ list = [c \in Caller |-> << >>]
  /\ next = [c \in Caller |-> 1]
  /\ best = [c \in Caller |-> NoPick]
  /\ loaded = [c \in Caller |-> 0]
  /\ low = conns
  /\ high = conns
  /\ joins = 0

\* backends := lcs.reg.ListHealthyBackends(); m = backends[0].  An empty list is
\* ErrNoBackends: the call returns at once.
List(c) ==
  /\ pc[c] = "idle"
  /\ \E n \in 1..Len(Baseline) : \E healthy \in [1..n -> Members(Baseline)] :
       /\ InOrderOf(healthy, Baseline)
       /\ list' = [list EXCEPT ![c] = healthy]
       /\ best' = [best EXCEPT ![c] = Head(healthy)]
       /\ Goto(c, IF n = 1 THEN "picked" ELSE "load")
  /\ next' = [next EXCEPT ![c] = 2]
  /\ UNCHANGED <<conns, loaded>>

\* aConns: MinFunc passes the challenger first.
Load(c) ==
  /\ pc[c] = "load"
  /\ loaded' = [loaded EXCEPT ![c] = conns[Challenger(c)]]
  /\ Goto(c, "compare")
  /\ UNCHANGED <<conns, list, next, best>>

\* Mutants: the quotients are compared in integers; the counts alone are.
BeatsByQuotient(c) ==
  loaded[c] \div Weight[Challenger(c)] < conns[best[c]] \div Weight[best[c]]

BeatsUnweighted(c) == loaded[c] < conns[best[c]]

\* bConns, and the products' comparison
Beats(c) == loaded[c] * Weight[best[c]] < conns[best[c]] * Weight[Challenger(c)]

Compare(c) ==
  /\ pc[c] = "compare"
  /\ best' = [best EXCEPT ![c] = IF Beats(c) THEN Challenger(c) ELSE @]
  /\ next' = [next EXCEPT ![c] = @ + 1]
  /\ loaded' = [loaded EXCEPT ![c] = 0]
  /\ Goto(c, IF next[c] = Len(list[c]) THEN "picked" ELSE "load")
  /\ UNCHANGED <<conns, list>>

\* proxyOnce: target.ActiveConnectionsNo.Add(1)
Connect(c) ==
  /\ pc[c] = "picked"
  /\ InCall(Watched) => joins < MaxJoins
  /\ conns' = [conns EXCEPT ![best[c]] = @ + 1]
  /\ Goto(c, "attempt")
  /\ UNCHANGED <<list, next, best, loaded>>

\* the deferred Add(-1)
Leave(c) ==
  /\ pc[c] = "attempt"
  /\ conns' = [conns EXCEPT ![best[c]] = @ - 1]
  /\ Goto(c, "idle")
  /\ list' = [list EXCEPT ![c] = << >>]
  /\ best' = [best EXCEPT ![c] = NoPick]
  /\ next' = [next EXCEPT ![c] = 1]
  /\ UNCHANGED loaded

Lesser(m, n)  == IF m < n THEN m ELSE n
Greater(m, n) == IF m > n THEN m ELSE n

\* Unset outside a watched call.
Track ==
  CASE pc'[Watched] \in {"idle", "attempt"} ->
         low' = [b \in Backend |-> 0] /\ high' = [b \in Backend |-> 0] /\ joins' = 0
    [] pc[Watched] = "idle" /\ pc'[Watched] # "idle" ->
         low' = conns' /\ high' = conns' /\ joins' = 0
    [] InCall(Watched) ->
         /\ low' = [b \in Backend |-> Lesser(low[b], conns'[b])]
         /\ high' = [b \in Backend |-> Greater(high[b], conns'[b])]
         /\ joins' = joins + IF \E b \in Backend : conns'[b] > conns[b] THEN 1 ELSE 0
    [] OTHER -> UNCHANGED historyVars

LCNext ==
  /\ \E c \in Caller : List(c) \/ Load(c) \/ Compare(c) \/ Connect(c) \/ Leave(c)
  /\ Track

LCSpec == LCInit /\ [][LCNext]_vars

-----------------------------------------------------------------------------

\* However the counts move under a call, its pick is nearly the least loaded:
\* the load the picked backend had at some instant of the call exceeds the load
\* any other listed backend had at some instant by no more than the attempts
\* that began meanwhile.  (Without those it would not: MinFunc compares each
\* backend with the best so far only, whose own load may have risen since.)
PickNearLeast ==
  LET pick == best[Watched] IN
    pc[Watched] = "picked" =>
      \A b \in Members(list[Watched]) :
        low[pick] * Weight[b] <= high[b] * Weight[pick] + joins * Weight[b] * Weight[pick]

\* If no count moved during the call, the step-by-step comparison picks what the
\* choice at one instant picks, down to the order among equals.
QuietPickIsLeast ==
  pc[Watched] = "picked" /\ low = high =>
    best[Watched] = LeastLoaded(list[Watched], low, Weight)

-----------------------------------------------------------------------------
(* The inductive invariant behind both *)

LCTypeOK ==
  /\ conns \in [Backend -> Int]
  /\ pc \in [Caller -> {"idle", "load", "compare", "picked", "attempt"}]
  /\ list \in [Caller -> Seq(Backend)]
  /\ next \in [Caller -> Nat \ {0}]
  /\ best \in [Caller -> Backend \cup {NoPick}]
  /\ loaded \in [Caller -> Int]
  /\ low \in [Backend -> Int] /\ high \in [Backend -> Int] /\ joins \in Nat

\* best is one of the backends MinFunc has passed; list has no repeats.
CallInv(c) ==
  /\ pc[c] # "idle" => best[c] \in Backend
  /\ InCall(c) => next[c] <= Len(list[c])
  /\ pc[c] = "picked" => next[c] = Len(list[c]) + 1
  /\ InCall(c) \/ pc[c] = "picked" =>
       /\ NoRepeats(list[c])
       /\ \E i \in 1..(next[c] - 1) : best[c] = list[c][i]

\* how far the challenger's count has risen since MinFunc loaded it
Risen == IF pc[Watched] = "compare"
           THEN Greater(0, conns[Challenger(Watched)] - loaded[Watched]) ELSE 0

\* The best so far is at most as loaded as any backend passed has been, but for
\* the attempts that began; those on the challenger are spared for the case that
\* it becomes the best.
NearLeastSoFar ==
  LET m == best[Watched] IN
    /\ Risen <= joins
    /\ \A i \in 1..(next[Watched] - 1) :
         LET b == list[Watched][i] IN
           conns[m] * Weight[b] <= high[b] * Weight[m] + (joins - Risen) * Weight[b] * Weight[m]

HistoryInv ==
  /\ \A b \in Backend : low[b] <= conns[b] /\ conns[b] <= high[b]
  /\ pc[Watched] = "compare" =>
       LET c == Challenger(Watched) IN low[c] <= loaded[Watched] /\ loaded[Watched] <= high[c]

QuietSoFar ==
  low = high =>
    \E p \in 1..(next[Watched] - 1) :
      /\ FirstLeast(list[Watched], next[Watched] - 1, p, low, Weight)
      /\ best[Watched] = list[Watched][p]

LCInv ==
  /\ LCTypeOK
  /\ \A c \in Caller : CallInv(c)
  /\ InCall(Watched) => HistoryInv /\ NearLeastSoFar
  /\ InCall(Watched) \/ pc[Watched] = "picked" => QuietSoFar
  /\ PickNearLeast

=============================================================================
