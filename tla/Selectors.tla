----------------------------- MODULE Selectors -----------------------------
(***************************************************************************)
(* The choices of internal/balancer's weighted strategies, as functions of *)
(* the list ListHealthyBackends returned: least-connections, and the walk  *)
(* through the weight bands that random and hash share.  weight and conns  *)
(* are functions on Backend.  A weight is between 1 and 10^6 and a count   *)
(* is an int32, so no sum or product here leaves a uint64.                 *)
(***************************************************************************)
EXTENDS Naturals, Sequences, SequencesExt

\* Mutant: of equal loads the last one wins.
LighterOrEqual(a, b, conns, weight) == conns[a] * weight[b] <= conns[b] * weight[a]

\* slices.MinFunc keeps the first of the smallest; the loads conns/weight are
\* compared by cross-multiplication.
LighterThan(a, b, conns, weight) == conns[a] * weight[b] < conns[b] * weight[a]

LeastLoaded(list, conns, weight) ==
  FoldLeft(LAMBDA best, b : IF LighterThan(b, best, conns, weight) THEN b ELSE best,
           Head(list), Tail(list))

\* Of the first k of list, the one at p is the least loaded, and the first of several.
FirstLeast(list, k, p, conns, weight) ==
  /\ p \in 1..k
  /\ \A j \in 1..k : IF j < p THEN LighterThan(list[p], list[j], conns, weight)
                              ELSE ~LighterThan(list[j], list[p], conns, weight)

TotalWeight(list, weight) == FoldLeft(LAMBDA sum, b : sum + weight[b], 0, list)

\* Mutant: pick is not reduced by the bands that were passed.
InBandUnreduced(list, pick, weight) ==
  LET wide == SelectSeq(list, LAMBDA b : pick < weight[b])
  IN  IF wide = << >> THEN Last(list) ELSE Head(wide)

\* for _, b := range backends { if pick < b.Weight { return b }; pick -= b.Weight }
\* and the last backend if no band was hit.
InBand(list, pick, weight) ==
  LET walk == FoldLeft(
        LAMBDA acc, b :
          IF acc.hit THEN acc
          ELSE IF acc.pick < weight[b] THEN [hit |-> TRUE, pick |-> acc.pick, at |-> b]
          ELSE [hit |-> FALSE, pick |-> acc.pick - weight[b], at |-> b],
        [hit |-> FALSE, pick |-> pick, at |-> Head(list)], list)
  IN  walk.at

\* GetServerForKey: the key's 32-bit hash, reduced modulo the total weight
ForHash(list, hash, weight) ==
  InBand(list, hash % TotalWeight(list, weight), weight)

============================================================================
