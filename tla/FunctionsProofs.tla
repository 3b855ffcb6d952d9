--------------------------- MODULE FunctionsProofs ---------------------------
(***************************************************************************)
(* The sequential parts for every input, of any size: the choice of the    *)
(* least-connections selector, the ports and the defaults of an accepted   *)
(* configuration, the requests of the management server through its        *)
(* middlewares, and the walk over a chain of forwarding headers.  The      *)
(* folds are unrolled or carried to any length with FoldsBy, FoldExists    *)
(* and NatSetInduction of ListProofs.                                      *)
(***************************************************************************)
EXTENDS MCFunctions, ListProofs

\* Every state is one of the inputs.
LEMMA SpecInputs == Spec => [](in \in Selections \cup Headers \cup Settings \cup Requests)
<1> DEFINE Inv == in \in Selections \cup Headers \cup Settings \cup Requests
<1>1. Init => Inv
  BY DEF Init
<1>2. Inv /\ [Next]_in => Inv'
  BY DEF Next
<1> HIDE DEF Inv
<1>3. Spec => []Inv
  BY <1>1, <1>2, PTL DEF Spec
<1> QED
  BY <1>3 DEF Inv

\* The lists are of distinct backends, the weights are positive.
LEMMA SelectionInput ==
  ASSUME in \in Selections \cup Headers \cup Settings \cup Requests, in.kind = "selection"
  PROVE  /\ in.list \in Seq(Backend) /\ Len(in.list) \in Nat \ {0} /\ DOMAIN in.list = 1..Len(in.list)
         /\ \A i, j \in DOMAIN in.list : in.list[i] = in.list[j] => i = j
         /\ in.conns \in [Backend -> Int] /\ in.weight \in [Backend -> Nat \ {0}]
<1>1. in \in Selections
  BY DEF Selections, Headers, Settings, Requests
<1>2. PICK n \in 1..Cardinality(Backend) : in.list \in [1..n -> Backend]
  BY <1>1 DEF Selections, HealthyLists
<1>3. n \in Nat \ {0}
  BY <1>2, FS_CardinalityType, FunctionsAssumption DEF FunctionsAssumption
<1>4. in.list \in Seq(Backend) /\ Len(in.list) = n /\ DOMAIN in.list = 1..n
  BY <1>2, <1>3
<1>5. \A i, j \in DOMAIN in.list : in.list[i] = in.list[j] => i = j
  BY <1>1 DEF Selections, HealthyLists
<1>6. in.conns \in [Backend -> 0..MaxConns] /\ in.weight \in [Backend -> 1..MaxWeight]
  BY <1>1 DEF Selections
<1>7. 0..MaxConns \subseteq Int /\ 1..MaxWeight \subseteq Nat \ {0}
  BY FunctionsAssumption, ConfigAssumption DEF FunctionsAssumption, ConfigAssumption
<1> QED
  BY <1>3, <1>4, <1>5, <1>6, <1>7

\* slices.MinFunc with the products compared: the least loaded relative to its weight,
\* and of several the first registered, for lists, counts and weights of any size.
THEOREM LeastLoadedRight == Spec => []LeastLoadedIsLeast
<1>1. ASSUME in \in Selections \cup Headers \cup Settings \cup Requests
      PROVE  LeastLoadedIsLeast
  <2> SUFFICES ASSUME in.kind = "selection"
               PROVE  LeastLoadedIsLeast
    BY DEF LeastLoadedIsLeast
  <2> DEFINE list == in.list
             best == LeastLoaded(in.list, in.conns, in.weight)
             place == CHOOSE i \in DOMAIN in.list : in.list[i] = best
  <2>1. /\ list \in Seq(Backend) /\ Len(list) \in Nat \ {0} /\ DOMAIN list = 1..Len(list)
        /\ \A i, j \in DOMAIN list : list[i] = list[j] => i = j
        /\ in.conns \in [Backend -> Int] /\ in.weight \in [Backend -> Nat \ {0}]
    BY <1>1, SelectionInput
  <2>2. PICK p : FirstLeast(list, Len(list), p, in.conns, in.weight) /\ best = list[p]
    <3> DEFINE conns == in.conns
               weight == in.weight
    <3>1. /\ list \in Seq(Backend) /\ Len(list) > 0
          /\ conns \in [Backend -> Int] /\ weight \in [Backend -> Nat \ {0}]
      BY <2>1
    <3> HIDE DEF list, conns, weight
    <3>2. AnswerFirstLeast(list, conns, weight)
      BY ONLY <3>1, LeastLoadedFirst, Zenon
    <3> QED
      BY <3>2 DEF AnswerFirstLeast, list, conns, weight
  <2>3. p \in DOMAIN list /\ p = place
    BY <2>1, <2>2 DEF FirstLeast
  <2>4. ASSUME NEW i \in DOMAIN list
        PROVE  LET b == list[i] IN
                 IF i < place
                   THEN in.conns[b] * in.weight[best] > in.conns[best] * in.weight[b]
                   ELSE in.conns[b] * in.weight[best] >= in.conns[best] * in.weight[b]
    <3>1. list[i] \in Backend /\ best \in Backend
      <4>1. \A k \in 1..Len(list) : list[k] \in Backend
        BY <2>1, ElementOfSeq
      <4> HIDE DEF list, best
      <4> QED
        BY <2>1, <2>2, <2>3, <4>1
    <3>2. /\ in.conns[list[i]] * in.weight[best] \in Int
          /\ in.conns[best] * in.weight[list[i]] \in Int
      <4>1. /\ in.conns[list[i]] \in Int /\ in.conns[best] \in Int
            /\ in.weight[list[i]] \in Int /\ in.weight[best] \in Int
        <5> HIDE DEF best, list
        <5>1. in.conns \in [Backend -> Int] /\ in.weight \in [Backend -> Nat \ {0}]
          BY <2>1
        <5> QED
          BY ONLY <3>1, <5>1
      <4> HIDE DEF best, list
      <4> QED
        BY ONLY <4>1, TimesAssoc
    <3>3. IF i < place THEN LighterThan(best, list[i], in.conns, in.weight)
                       ELSE ~LighterThan(list[i], best, in.conns, in.weight)
      <4>1. i \in 1..Len(list) /\ p = place /\ best = list[p]
        BY <2>1, <2>2, <2>3
      <4> HIDE DEF list, best, place
      <4>2. IF i < p THEN LighterThan(list[p], list[i], in.conns, in.weight)
                     ELSE ~LighterThan(list[i], list[p], in.conns, in.weight)
        BY ONLY <2>2, <4>1 DEF FirstLeast
      <4> QED
        BY ONLY <4>1, <4>2
    <3> HIDE DEF best, place, list
    <3> QED
      BY <3>2, <3>3 DEF LighterThan
  <2> QED
    BY <2>4 DEF LeastLoadedIsLeast
<1> QED
  BY <1>1, SpecInputs, PTL

-----------------------------------------------------------------------------
(* The bands of random and ip-hash *)

\* sum[i] is the weight of the first i of list: the upper edge of the i-th band.
Edges(sum, list, weight) ==
  /\ sum \in [0..Len(list) -> Nat] /\ sum[0] = 0
  /\ \A i \in 1..Len(list) : sum[i] = sum[i - 1] + weight[list[i]]

\* The bands lie side by side.
LEMMA EdgesRise ==
  ASSUME NEW list, Len(list) \in Nat, NEW weight, NEW sum, Edges(sum, list, weight),
         \A i \in 1..Len(list) : weight[list[i]] \in Nat,
         NEW i \in 0..Len(list), NEW j \in i..Len(list)
  PROVE  sum[i] <= sum[j]
<1> DEFINE n == Len(list)
           T == { k \in Nat : i + k <= n => sum[i] <= sum[i + k] }
<1>1. n \in Nat /\ sum \in [0..n -> Nat]
  BY DEF Edges
<1> HIDE DEF n
<1>2. 0 \in T
  <2>1. sum[i] \in Nat /\ i + 0 = i
    BY <1>1 DEF n
  <2> QED
    BY <2>1
<1>3. ASSUME NEW k \in Nat, k \in T
      PROVE  k + 1 \in T
  <2> SUFFICES ASSUME i + (k + 1) <= n
               PROVE  sum[i] <= sum[i + (k + 1)]
    OBVIOUS
  <2>1. i + k <= n /\ sum[i] <= sum[i + k]
    BY <1>1, <1>3 DEF n
  <2>2. /\ i + (k + 1) \in 1..n /\ (i + (k + 1)) - 1 = i + k
        /\ i \in 0..n /\ i + k \in 0..n
    BY <1>1, <2>1 DEF n
  <2>3. sum[i + (k + 1)] = sum[i + k] + weight[list[i + (k + 1)]]
    BY <2>2 DEF Edges, n
  <2>4. weight[list[i + (k + 1)]] \in Nat
    BY <2>2 DEF n
  <2>5. sum[i] \in Nat /\ sum[i + k] \in Nat
    BY <1>1, <2>2
  <2> QED
    BY <2>1, <2>3, <2>4, <2>5
<1>4. j - i \in Nat /\ i + (j - i) = j /\ j <= n
  BY <1>1 DEF n
<1> HIDE DEF T
<1>5. j - i \in T
  BY <1>2, <1>3, <1>4, NatSetInduction
<1> QED
  BY <1>4, <1>5 DEF T

\* totalWeight, however many backends there are.
LEMMA TotalIsLastEdge ==
  ASSUME NEW B, NEW list \in Seq(B), NEW weight \in [B -> Nat]
  PROVE  \E sum : Edges(sum, list, weight) /\ TotalWeight(list, weight) = sum[Len(list)]
<1> DEFINE n == Len(list)
           iter == CHOOSE g : g = [s \in SUBSET (1..n) |->
                     IF s = {} THEN 0 ELSE g[s \ {Max(s)}] + weight[list[Max(s)]]]
           sum == [i \in 0..n |-> iter[1..i]]
<1>1. /\ n \in Nat /\ DOMAIN list = 1..n
      /\ \A i \in 1..n : list[i] \in B /\ weight[list[i]] \in Nat
  BY LenProperties, ElementOfSeq
<1>2. TotalWeight(list, weight) = iter[1..n]
  BY <1>1 DEF TotalWeight, FoldLeft, MapThenFoldSet
<1> HIDE DEF n
<1>3. iter = [s \in SUBSET (1..n) |->
                IF s = {} THEN 0 ELSE iter[s \ {Max(s)}] + weight[list[Max(s)]]]
  <2> DEFINE step == [i \in 1..n |-> [a \in Nat |-> a + weight[list[i]]]]
             pick == [s \in SUBSET (1..n) |-> Max(s)]
             S == Nat
             base == 0
  <2>1. step \in [1..n -> [S -> S]]
    BY <1>1
  <2>2. \A s \in SUBSET (1..n) : s # {} => pick[s] \in s
    BY <1>1, MaxOf
  <2>7. n \in Nat /\ base \in S
    BY <1>1
  <2> HIDE DEF step, pick, base, S
  <2>3. PICK g \in [SUBSET (1..n) -> S] : FoldsBy(g, n, base, step, pick)
    BY <2>1, <2>2, <2>7, FoldExists
  <2>4. ASSUME NEW s \in SUBSET (1..n), s # {}
        PROVE  step[pick[s]][g[s \ {pick[s]}]] = g[s \ {Max(s)}] + weight[list[Max(s)]]
    <3>1. pick[s] = Max(s)
      BY DEF pick
    <3>2. Max(s) \in 1..n /\ g[s \ {Max(s)}] \in S
      BY <2>2, <2>4, <3>1
    <3> QED
      BY <3>1, <3>2 DEF step, S
  <2>5. g = [s \in SUBSET (1..n) |->
               IF s = {} THEN 0 ELSE g[s \ {Max(s)}] + weight[list[Max(s)]]]
    BY <2>3, <2>4 DEF FoldsBy, base
  <2> QED
    BY <2>5
<1> HIDE DEF iter
<1>4. iter[1..0] = 0
  <2>1. 1..0 = {} /\ {} \in SUBSET (1..n)
    OBVIOUS
  <2> QED
    BY <1>3, <2>1
<1>5. ASSUME NEW i \in 1..n
      PROVE  iter[1..i] = iter[1..(i - 1)] + weight[list[i]]
  <2>1. 1..i # {} /\ Max(1..i) = i /\ (1..i) \ {Max(1..i)} = 1..(i - 1)
    BY MaxOfPrefix
  <2>2. 1..i \in SUBSET (1..n)
    BY <1>1
  <2> QED
    BY <1>3, <2>1, <2>2
<1> DEFINE T == { i \in Nat : i <= n => iter[1..i] \in Nat }
<1>6. 0 \in T
  BY <1>4
<1>7. ASSUME NEW i \in Nat, i \in T
      PROVE  i + 1 \in T
  <2>1. i + 1 \in Nat /\ (i + 1) - 1 = i /\ (i + 1 <= n => i + 1 \in 1..n /\ i <= n)
    BY <1>1
  <2>2. i + 1 <= n => iter[1..(i + 1)] = iter[1..i] + weight[list[i + 1]]
    BY <1>5, <2>1
  <2> QED
    BY <1>1, <1>7, <2>1, <2>2
<1> HIDE DEF T
<1>8. T = Nat
  <2>1. T \subseteq Nat
    BY DEF T
  <2>2. \A i \in Nat : i \in T
    BY <1>6, <1>7, NatSetInduction
  <2> QED
    BY <2>1, <2>2
<1>9. sum \in [0..n -> Nat]
  <2>1. \A i \in 0..n : i \in Nat /\ i <= n
    BY <1>1
  <2> QED
    BY <1>8, <2>1 DEF T
<1>10. Edges(sum, list, weight)
  <2>1. 0 \in 0..n /\ \A i \in 1..n : i \in 0..n /\ i - 1 \in 0..n
    BY <1>1
  <2>2. sum[0] = 0 /\ \A i \in 1..n : sum[i] = sum[i - 1] + weight[list[i]]
    BY <1>4, <1>5, <2>1
  <2> HIDE DEF sum
  <2> QED
    BY <1>9, <2>2 DEF Edges, n
<1>11. sum[n] = iter[1..n]
  BY <1>1
<1> QED
  BY <1>2, <1>10, <1>11 DEF n

\* One backend of the walk through the bands.
Bands(B) == [hit : BOOLEAN, pick : Nat, at : B]

Band(acc, b, weight) ==
  IF acc.hit THEN acc
  ELSE IF acc.pick < weight[b] THEN [hit |-> TRUE, pick |-> acc.pick, at |-> b]
  ELSE [hit |-> FALSE, pick |-> acc.pick - weight[b], at |-> b]

\* A backend is passed, taken, or reached after one was taken.
LEMMA BandProperties ==
  ASSUME NEW B, NEW acc \in Bands(B), NEW b \in B, NEW weight \in [B -> Nat]
  PROVE  /\ Band(acc, b, weight) \in Bands(B)
         /\ acc.hit => Band(acc, b, weight) = acc
         /\ ~acc.hit /\ acc.pick < weight[b] =>
              Band(acc, b, weight).hit /\ Band(acc, b, weight).at = b
         /\ ~acc.hit /\ acc.pick >= weight[b] =>
              /\ ~Band(acc, b, weight).hit
              /\ Band(acc, b, weight).pick = acc.pick - weight[b]
<1>1. /\ acc.hit \in BOOLEAN /\ acc.pick \in Nat /\ acc.at \in B
      /\ weight[b] \in Nat
  BY DEF Bands
<1>2. CASE acc.hit
  BY <1>2 DEF Band
<1>3. CASE ~acc.hit /\ acc.pick < weight[b]
  <2>1. Band(acc, b, weight) = [hit |-> TRUE, pick |-> acc.pick, at |-> b]
    BY <1>3 DEF Band
  <2> QED
    BY <1>1, <1>3, <2>1 DEF Bands
<1>4. CASE ~acc.hit /\ acc.pick >= weight[b]
  <2> DEFINE rest == acc.pick - weight[b]
  <2>1. rest \in Nat /\ ~(acc.pick < weight[b])
    BY <1>1, <1>4
  <2>2. Band(acc, b, weight) = [hit |-> FALSE, pick |-> rest, at |-> b]
    BY <1>4, <2>1 DEF Band
  <2> HIDE DEF rest
  <2>3. Band(acc, b, weight) \in Bands(B) /\ ~Band(acc, b, weight).hit /\ Band(acc, b, weight).pick = rest
    BY <2>1, <2>2 DEF Bands
  <2> QED
    BY <1>4, <2>3, <2>1 DEF rest
<1> QED
  BY <1>1, <1>2, <1>3, <1>4

\* The walk of random and ip-hash ends in the band the pick falls into.
LEMMA BandHit ==
  ASSUME NEW B, NEW list \in Seq(B), NEW weight \in [B -> Nat], NEW sum, Edges(sum, list, weight),
         NEW pick \in Nat, pick < sum[Len(list)]
  PROVE  \E i \in 1..Len(list) :
           sum[i - 1] <= pick /\ pick < sum[i] /\ InBand(list, pick, weight) = list[i]
<1> DEFINE n == Len(list)
           S == Bands(B)
           start == [hit |-> FALSE, pick |-> pick, at |-> Head(list)]
           iter == CHOOSE g : g = [s \in SUBSET (1..n) |->
                     IF s = {} THEN start ELSE Band(g[s \ {Max(s)}], list[Max(s)], weight)]
<1>1. /\ n \in Nat /\ DOMAIN list = 1..n
      /\ \A i \in 1..n : list[i] \in B /\ weight[list[i]] \in Nat
      /\ sum \in [0..n -> Nat] /\ sum[0] = 0
      /\ \A i \in 1..n : sum[i] = sum[i - 1] + weight[list[i]]
  BY LenProperties, ElementOfSeq DEF Edges
<1>2. InBand(list, pick, weight) = iter[1..n].at
  BY <1>1 DEF InBand, FoldLeft, MapThenFoldSet, Band
<1>3. n # 0 /\ Head(list) = list[1]
  <2>1. n # 0
    BY <1>1
  <2> QED
    BY <2>1, HeadTailProperties
<1>4. start \in S
  <2>1. list[1] \in B
    BY <1>1, <1>3
  <2> QED
    BY <1>3, <2>1 DEF Bands
<1> HIDE DEF n
<1>5. iter = [s \in SUBSET (1..n) |->
                IF s = {} THEN start ELSE Band(iter[s \ {Max(s)}], list[Max(s)], weight)]
  <2> DEFINE step == [i \in 1..n |-> [acc \in S |-> Band(acc, list[i], weight)]]
             last == [s \in SUBSET (1..n) |-> Max(s)]
  <2>0. \A acc \in S, i \in 1..n : Band(acc, list[i], weight) \in S
    BY <1>1, BandProperties
  <2> HIDE DEF S, start
  <2>1. step \in [1..n -> [S -> S]]
    BY <2>0
  <2>2. \A s \in SUBSET (1..n) : s # {} => last[s] \in s
    BY <1>1, MaxOf
  <2> HIDE DEF step, last
  <2>3. PICK g \in [SUBSET (1..n) -> S] : FoldsBy(g, n, start, step, last)
    BY <1>1, <1>4, <2>1, <2>2, FoldExists
  <2>4. ASSUME NEW s \in SUBSET (1..n), s # {}
        PROVE  step[last[s]][g[s \ {last[s]}]] = Band(g[s \ {Max(s)}], list[Max(s)], weight)
    <3>1. last[s] = Max(s)
      BY DEF last
    <3>2. Max(s) \in 1..n /\ g[s \ {Max(s)}] \in S
      BY <2>2, <2>4, <3>1
    <3> QED
      BY <3>1, <3>2 DEF step
  <2>5. g = [s \in SUBSET (1..n) |->
               IF s = {} THEN start ELSE Band(g[s \ {Max(s)}], list[Max(s)], weight)]
    BY <2>3, <2>4 DEF FoldsBy
  <2> QED
    BY <2>5
<1> HIDE DEF iter
<1>6. iter[1..0] = start
  <2>1. 1..0 = {} /\ {} \in SUBSET (1..n)
    OBVIOUS
  <2> QED
    BY <1>5, <2>1
<1>7. ASSUME NEW i \in 1..n
      PROVE  iter[1..i] = Band(iter[1..(i - 1)], list[i], weight)
  <2>1. 1..i # {} /\ Max(1..i) = i /\ (1..i) \ {Max(1..i)} = 1..(i - 1)
    BY MaxOfPrefix
  <2>2. 1..i \in SUBSET (1..n)
    BY <1>1
  <2> QED
    BY <1>5, <2>1, <2>2
<1> DEFINE At(acc, k) ==
             /\ acc \in S
             /\ ~acc.hit => sum[k] <= pick /\ acc.pick = pick - sum[k]
             /\ acc.hit => \E i \in 1..k : sum[i - 1] <= pick /\ pick < sum[i] /\ acc.at = list[i]
           T == { k \in Nat : k <= n => At(iter[1..k], k) }
<1>8. 0 \in T
  <2>1. At(start, 0)
    BY <1>1, <1>4
  <2> QED
    BY <1>6, <2>1
<1>9. ASSUME NEW k \in Nat, k \in T
      PROVE  k + 1 \in T
  <2> DEFINE m == k + 1
             acc == iter[1..k]
             next == iter[1..m]
             w == weight[list[m]]
  <2> SUFFICES ASSUME m <= n
               PROVE  At(next, m)
    OBVIOUS
  <2>1. m \in 1..n /\ m - 1 = k /\ k \in 0..n /\ m \in 0..n /\ k <= n
    BY <1>1
  <2>2. At(acc, k)
    <3> HIDE DEF At
    <3> QED
      BY <1>9, <2>1
  <2>3. next = Band(acc, list[m], weight)
    <3> HIDE DEF m
    <3> QED
      BY <1>7, <2>1
  <2>4. list[m] \in B /\ w \in Nat /\ sum[m] = sum[k] + w /\ sum[k] \in Nat /\ sum[m] \in Nat
    <3> HIDE DEF m
    <3> QED
      BY <1>1, <2>1
  <2> HIDE DEF acc, next, m, w
  <2>5. next \in S
    BY <2>2, <2>3, <2>4, BandProperties
  <2>6. CASE acc.hit
    <3>1. next = acc
      BY <2>2, <2>3, <2>4, <2>6, BandProperties
    <3>2. 1..k \subseteq 1..m
      BY <2>1
    <3> QED
      BY <2>2, <2>6, <3>1, <3>2
  <2>7. CASE ~acc.hit /\ acc.pick < w
    <3>1. next.hit /\ next.at = list[m]
      BY <2>2, <2>3, <2>4, <2>7, BandProperties DEF w
    <3>2. sum[m - 1] <= pick /\ pick < sum[m] /\ m \in 1..m
      BY <2>1, <2>2, <2>4, <2>7
    <3> QED
      BY <2>5, <3>1, <3>2
  <2>8. CASE ~acc.hit /\ acc.pick >= w
    <3>1. ~next.hit /\ next.pick = acc.pick - w
      BY <2>2, <2>3, <2>4, <2>8, BandProperties DEF w
    <3>2. sum[m] <= pick /\ next.pick = pick - sum[m]
      BY <2>2, <2>4, <2>8, <3>1
    <3> QED
      BY <2>5, <3>1, <3>2
  <2>9. acc.pick \in Nat /\ acc.hit \in BOOLEAN
    BY <2>2 DEF Bands
  <2> QED
    BY <2>4, <2>6, <2>7, <2>8, <2>9
<1>10. At(iter[1..n], n)
  <2> HIDE DEF At, T
  <2>1. n \in T
    BY <1>1, <1>8, <1>9, NatSetInduction
  <2> QED
    BY <1>1, <2>1 DEF T
<1>11. iter[1..n].hit
  <2>1. sum[n] \in Nat
    BY <1>1
  <2> QED
    BY <1>10, <2>1 DEF n
<1> QED
  BY <1>2, <1>10, <1>11 DEF n

\* Of distinct backends, the one at i is chosen by the picks in its band and no other.
LEMMA PicksOfBand ==
  ASSUME NEW B, NEW list \in Seq(B), NEW weight \in [B -> Nat], NEW sum, Edges(sum, list, weight),
         \A i, j \in 1..Len(list) : list[i] = list[j] => i = j,
         NEW i \in 1..Len(list), NEW pick \in Nat, pick < sum[Len(list)]
  PROVE  InBand(list, pick, weight) = list[i] <=> pick \in sum[i - 1]..(sum[i] - 1)
<1>1. /\ Len(list) \in Nat
      /\ \A k \in 1..Len(list) : weight[list[k]] \in Nat
      /\ \A k \in 0..Len(list) : sum[k] \in Nat
  BY LenProperties, ElementOfSeq DEF Edges
<1>2. PICK k \in 1..Len(list) :
        sum[k - 1] <= pick /\ pick < sum[k] /\ InBand(list, pick, weight) = list[k]
  BY BandHit, SMTT(30)
<1>3. InBand(list, pick, weight) = list[i] <=> i = k
  BY <1>2
<1>4. i - 1 \in 0..Len(list) /\ i \in 0..Len(list) /\ k - 1 \in 0..Len(list) /\ k \in 0..Len(list)
  BY <1>1
<1>5. i < k => sum[i] <= sum[k - 1]
  <2> SUFFICES ASSUME i < k PROVE sum[i] <= sum[k - 1]
    OBVIOUS
  <2>1. k - 1 \in i..Len(list)
    BY <1>4
  <2> QED
    BY <1>1, <1>4, <2>1, EdgesRise
<1>6. k < i => sum[k] <= sum[i - 1]
  <2> SUFFICES ASSUME k < i PROVE sum[k] <= sum[i - 1]
    OBVIOUS
  <2>1. i - 1 \in k..Len(list)
    BY <1>4
  <2> QED
    BY <1>1, <1>4, <2>1, EdgesRise
<1>7. sum[i] \in Nat /\ sum[i - 1] \in Nat /\ sum[k] \in Nat /\ sum[k - 1] \in Nat
  BY <1>1, <1>4
<1>8. i \in Int /\ k \in Int
  BY <1>4
<1>9. i = k <=> pick \in sum[i - 1]..(sum[i] - 1)
  <2>1. CASE i = k
    BY <1>2, <1>7, <2>1
  <2>2. CASE i < k
    BY <1>2, <1>5, <1>7, <2>2, SMTT(30)
  <2>3. CASE k < i
    BY <1>2, <1>6, <1>7, <2>3
  <2> QED
    BY <1>8, <2>1, <2>2, <2>3
<1> QED
  BY <1>3, <1>9

\* random and ip-hash: each backend is chosen by its weight's share of the picks and of
\* the hashes, for any list, any weights and any number of hash values.
THEOREM SharesRight == Spec => []SharesMatchWeights
<1>1. ASSUME in \in Selections \cup Headers \cup Settings \cup Requests
      PROVE  SharesMatchWeights
  <2> DEFINE list == in.list
             weight == in.weight
             total == TotalWeight(list, weight)
             rounds == HashMod \div total
             picks(b) == { p \in 0..(total - 1) : InBand(list, p, weight) = b }
             hashes(b) == { h \in 0..(HashMod - 1) : ForHash(list, h, weight) = b }
  <2> SUFFICES ASSUME in.kind = "selection", NEW i \in DOMAIN list
               PROVE  /\ Cardinality(picks(list[i])) = weight[list[i]]
                      /\ Cardinality(hashes(list[i])) \in
                           (rounds * weight[list[i]])..((rounds + 1) * weight[list[i]])
    BY DEF SharesMatchWeights
  <2>1. /\ list \in Seq(Backend) /\ Len(list) \in Nat \ {0} /\ DOMAIN list = 1..Len(list)
        /\ \A j, k \in DOMAIN list : list[j] = list[k] => j = k
        /\ weight \in [Backend -> Nat \ {0}]
    BY <1>1, SelectionInput
  <2> HIDE DEF list, weight
  <2>2. weight \in [Backend -> Nat]
    BY <2>1
  <2>3. PICK sum : Edges(sum, list, weight) /\ total = sum[Len(list)]
    BY <2>1, <2>2, TotalIsLastEdge
  <2>4. /\ i \in 1..Len(list) /\ i \in 0..Len(list) /\ i - 1 \in 0..Len(list)
        /\ 0 \in 0..Len(list) /\ Len(list) \in i..Len(list)
        /\ list[i] \in Backend /\ weight[list[i]] \in Nat \ {0}
        /\ \A j \in 1..Len(list) : weight[list[j]] \in Nat
    BY <2>1, ElementOfSeq
  <2> DEFINE a == sum[i - 1]
             b == sum[i]
  <2>5. /\ a \in Nat /\ b \in Nat /\ b = a + weight[list[i]]
        /\ sum[Len(list)] \in Nat /\ b <= sum[Len(list)]
    <3>1. \A j \in 0..Len(list) : sum[j] \in Nat
      BY <2>3 DEF Edges
    <3>2. sum[i] <= sum[Len(list)]
      BY <2>1, <2>3, <2>4, EdgesRise
    <3>3. sum[i] = sum[i - 1] + weight[list[i]]
      BY <2>3, <2>4 DEF Edges
    <3> QED
      BY <2>1, <2>4, <3>1, <3>2, <3>3
  <2>6. total \in Nat \ {0} /\ b <= total /\ a <= b /\ b - a = weight[list[i]]
    BY <2>3, <2>4, <2>5
  <2>7. \A p \in 0..(total - 1) : InBand(list, p, weight) = list[i] <=> p \in a..(b - 1)
    <3> SUFFICES ASSUME NEW p \in 0..(total - 1)
                 PROVE  InBand(list, p, weight) = list[i] <=> p \in a..(b - 1)
      OBVIOUS
    <3>1. p \in Nat /\ p < sum[Len(list)]
      BY <2>3, <2>6
    <3> QED
      <4>1. \A j, k \in 1..Len(list) : list[j] = list[k] => j = k
        BY <2>1
      <4>2. InBand(list, p, weight) = list[i] <=> p \in sum[i - 1]..(sum[i] - 1)
        <5>1. /\ list \in Seq(Backend) /\ weight \in [Backend -> Nat]
              /\ Edges(sum, list, weight) /\ i \in 1..Len(list)
          BY <2>1, <2>2, <2>3, <2>4
        <5> HIDE DEF picks, hashes, rounds, total, a, b
        <5> QED
          BY ONLY <3>1, <4>1, <5>1, PicksOfBand, SMTT(30)
      <4> QED
        BY <4>2
  <2> HIDE DEF total, a, b
  <2>8. Cardinality(picks(list[i])) = weight[list[i]]
    <3>1. picks(list[i]) = a..(b - 1)
      BY <2>5, <2>6, <2>7
    <3>2. Cardinality(a..(b - 1)) = b - a
      <4>1. a \in Int /\ b \in Int /\ a <= b
        BY <2>5, <2>6
      <4> QED
        BY <4>1, IntervalSize, Zenon
    <3> QED
      BY <2>6, <3>1, <3>2
  <2>9. Cardinality(hashes(list[i])) \in (rounds * weight[list[i]])..((rounds + 1) * weight[list[i]])
    <3> DEFINE R == { h \in 0..(HashMod - 1) : h % total \in a..(b - 1) }
    <3>1. HashMod \in Nat
      BY FunctionsAssumption DEF FunctionsAssumption
    <3>2. hashes(list[i]) = R
      <4> SUFFICES ASSUME NEW h \in 0..(HashMod - 1)
                   PROVE  ForHash(list, h, weight) = list[i] <=> h % total \in a..(b - 1)
        OBVIOUS
      <4>1. h \in Nat
        BY <3>1
      <4>2. h % total \in 0..(total - 1)
        BY <2>6, <4>1, DivMod
      <4> QED
        BY <2>7, <4>2 DEF ForHash, total
    <3>3. Cardinality(R) \in (rounds * (b - a))..((rounds + 1) * (b - a))
      BY <2>5, <2>6, <3>1, ResidueShare
    <3> QED
      BY <2>6, <3>2, <3>3
  <2> QED
    BY <2>8, <2>9
<1> QED
  BY <1>1, SpecInputs, PTL

-----------------------------------------------------------------------------
(* Settings *)

\* A field of the settings is either not in the file or one of its values.
LEMMA SettingsField ==
  ASSUME in \in Selections \cup Headers \cup Settings \cup Requests, in.kind = "settings",
         NEW h \in DOMAIN Default
  PROVE  in.c[h] = Default[h] \/ in.c[h] \in Values[h]
<1>1. in \in Settings
  BY DEF Selections, Headers, Requests
<1>2. PICK f \in DOMAIN Default, g \in DOMAIN Default :
        in \in { [kind |-> "settings", c |-> [[Default EXCEPT ![f] = v] EXCEPT ![g] = w]] :
                   v \in Values[f], w \in Values[g] }
  BY <1>1 DEF Settings
<1>3. PICK v \in Values[f], w \in Values[g] :
        in = [kind |-> "settings", c |-> [[Default EXCEPT ![f] = v] EXCEPT ![g] = w]]
  BY <1>2
<1>4. in.c = [[Default EXCEPT ![f] = v] EXCEPT ![g] = w]
  BY <1>3
<1>5. Default = [x \in DOMAIN Default |-> Default[x]]
  BY DEF Default
<1>6. in.c[h] = IF h = g THEN w ELSE IF h = f THEN v ELSE Default[h]
  BY <1>4, <1>5
<1> QED
  BY <1>6

\* The ports are integers, as YAML gives them.
LEMMA PortsInput ==
  ASSUME in \in Selections \cup Headers \cup Settings \cup Requests, in.kind = "settings"
  PROVE  in.c.ports \in [1..3 -> Int]
<1>1. "ports" \in DOMAIN Default /\ Default["ports"] = <<0, 0, 0>>
  BY DEF Default
<1>2. Values["ports"] = [1..3 -> {-1, 0, 2112, 8080, 8081, MaxPort + 1}]
  BY DEF Values
<1>3. in.c["ports"] = <<0, 0, 0>> \/ in.c["ports"] \in [1..3 -> Int]
  <2>1. MaxPort + 1 \in Int
    BY DEF MaxPort
  <2>2. {-1, 0, 2112, 8080, 8081, MaxPort + 1} \subseteq Int
    BY <2>1
  <2>3. Values["ports"] \subseteq [1..3 -> Int]
    BY <1>2, <2>2
  <2> QED
    BY <1>1, <2>3, SettingsField
<1> QED
  BY <1>3

Walks == [used : SUBSET Int, ok : BOOLEAN]

\* validateServer: a port that is accepted is in range and was not taken.
LEMMA ClaimProperties ==
  ASSUME NEW c, NEW walk \in Walks, NEW i \in 1..3, Claimed(c, i) \in Int
  PROVE  /\ Claim(c, walk, i) \in Walks
         /\ Claim(c, walk, i).ok =>
              /\ walk.ok /\ c.ports[i] \in 0..MaxPort /\ Claimed(c, i) \notin walk.used
              /\ Claim(c, walk, i).used = walk.used \cup {Claimed(c, i)}
<1>1. /\ walk = [used |-> walk.used, ok |-> walk.ok]
      /\ walk.used \in SUBSET Int /\ walk.ok \in BOOLEAN
  BY DEF Walks
<1>2. CASE c.ports[i] \notin 0..MaxPort \/ Claimed(c, i) \in walk.used
  <2>1. Claim(c, walk, i) = [used |-> walk.used, ok |-> FALSE]
    BY <1>1, <1>2 DEF Claim
  <2> QED
    BY <1>1, <2>1 DEF Walks
<1>3. CASE ~(c.ports[i] \notin 0..MaxPort \/ Claimed(c, i) \in walk.used)
  <2>1. Claim(c, walk, i) = [used |-> walk.used \cup {Claimed(c, i)}, ok |-> walk.ok]
    BY <1>1, <1>3 DEF Claim
  <2> QED
    BY <1>1, <1>3, <2>1 DEF Walks
<1> QED
  BY <1>2, <1>3

\* validateServer, one server after the other: a walk that ends with no error has found
\* three ports in range, each not yet claimed.
LEMMA ClaimsApart ==
  ASSUME NEW c, c.ports \in [1..3 -> Int], ServersOK(c)
  PROVE  /\ \A i \in 1..3 : c.ports[i] \in 0..MaxPort
         /\ \A i, j \in 1..3 : i # j => Claimed(c, i) # Claimed(c, j)
<1> DEFINE order == <<1, 2, 3>>
           start == [used |-> {}, ok |-> TRUE]
           iter == CHOOSE g : g = [s \in SUBSET (1..3) |->
                     IF s = {} THEN start ELSE Claim(c, g[s \ {Max(s)}], order[Max(s)])]
<1>0. DOMAIN order = 1..3
  OBVIOUS
<1>1. iter[1..3].ok
  <2> HIDE DEF order, start
  <2>1. FoldLeft(LAMBDA walk, i : Claim(c, walk, i), start, order) = iter[1..3]
    BY <1>0 DEF FoldLeft, MapThenFoldSet
  <2>2. ServersOK(c) => FoldLeft(LAMBDA walk, i : Claim(c, walk, i), start, order).ok
    BY DEF ServersOK, start, order
  <2> QED
    BY <2>1, <2>2
<1> DEFINE S == Walks
<1>2. /\ \A i \in 1..3 : Claimed(c, i) \in Int
      /\ \A i \in 1..3 : order[i] = i
  BY DEF Claimed, PortOr, OrElse, DefaultPort
<1>3. \A walk \in S, i \in 1..3 : Claim(c, walk, i) \in S
  BY <1>2, ClaimProperties
<1>4. start \in S
  BY DEF Walks
<1>5. iter = [s \in SUBSET (1..3) |->
                IF s = {} THEN start ELSE Claim(c, iter[s \ {Max(s)}], order[Max(s)])]
  <2> DEFINE step == [i \in 1..3 |-> [walk \in S |-> Claim(c, walk, order[i])]]
             pick == [s \in SUBSET (1..3) |-> Max(s)]
  <2> HIDE DEF S, order, start
  <2>1. step \in [1..3 -> [S -> S]]
    BY <1>2, <1>3
  <2>2. \A s \in SUBSET (1..3) : s # {} => pick[s] \in s
    BY MaxOf
  <2> HIDE DEF step, pick
  <2>3. PICK g \in [SUBSET (1..3) -> S] : FoldsBy(g, 3, start, step, pick)
    BY <1>4, <2>1, <2>2, FoldExists
  <2>4. ASSUME NEW s \in SUBSET (1..3), s # {}
        PROVE  step[pick[s]][g[s \ {pick[s]}]] = Claim(c, g[s \ {Max(s)}], order[Max(s)])
    <3>1. pick[s] = Max(s)
      BY DEF pick
    <3>2. Max(s) \in 1..3 /\ g[s \ {Max(s)}] \in S
      BY <2>2, <2>4, <3>1
    <3> QED
      BY <3>1, <3>2 DEF step
  <2>5. g = [s \in SUBSET (1..3) |->
               IF s = {} THEN start ELSE Claim(c, g[s \ {Max(s)}], order[Max(s)])]
    BY <2>3, <2>4 DEF FoldsBy
  <2> QED
    BY <2>5
<1> HIDE DEF iter, order
<1>6. /\ iter[1..1] = Claim(c, start, 1)
      /\ iter[1..2] = Claim(c, iter[1..1], 2)
      /\ iter[1..3] = Claim(c, iter[1..2], 3)
  <2>1. ASSUME NEW i \in 1..3
        PROVE  iter[1..i] = IF i = 1 THEN Claim(c, start, 1) ELSE Claim(c, iter[1..(i - 1)], i)
    <3>1. 1..i # {} /\ Max(1..i) = i /\ (1..i) \ {Max(1..i)} = 1..(i - 1)
      <4>1. i \in Nat \ {0}
        OBVIOUS
      <4> QED
        BY ONLY <4>1, MaxOfPrefix, Zenon
    <3>2. 1..i \in SUBSET (1..3) /\ 1..0 = {} /\ {} \in SUBSET (1..3)
      OBVIOUS
    <3>3. iter[1..i] = Claim(c, iter[1..(i - 1)], i)
      <4>1. i - 1 \in 0..2 /\ order[i] = i
        BY <1>2
      <4>2. iter[1..i] = Claim(c, iter[(1..i) \ {Max(1..i)}], order[Max(1..i)])
        BY <1>5, <3>1, <3>2
      <4> QED
        BY <3>1, <4>1, <4>2
    <3>4. iter[{}] = start
      BY <1>5, <3>2
    <3> QED
      BY <3>2, <3>3, <3>4
  <2> QED
    BY <2>1
<1> DEFINE one == iter[1..1]
           two == iter[1..2]
<1>7. one \in Walks /\ two \in Walks
  <2>1. 1 \in 1..3 /\ 2 \in 1..3
    OBVIOUS
  <2>2. one \in Walks
    BY <1>3, <1>4, <1>6, <2>1
  <2> QED
    BY <1>3, <1>6, <2>1, <2>2
<1> HIDE DEF one, two, start
<1>8. /\ two.ok /\ c.ports[3] \in 0..MaxPort /\ Claimed(c, 3) \notin two.used
  <2>1. 3 \in 1..3 /\ Claimed(c, 3) \in Int
    BY <1>2
  <2>2. Claim(c, two, 3).ok
    BY <1>1, <1>6 DEF two
  <2> QED
    BY <1>7, <2>1, <2>2, ClaimProperties
<1>9. /\ one.ok /\ c.ports[2] \in 0..MaxPort /\ Claimed(c, 2) \notin one.used
      /\ two.used = one.used \cup {Claimed(c, 2)}
  <2>1. 2 \in 1..3 /\ Claimed(c, 2) \in Int
    BY <1>2
  <2>2. Claim(c, one, 2) = two
    BY <1>6 DEF one, two
  <2> QED
    BY <1>7, <1>8, <2>1, <2>2, ClaimProperties
<1>10. c.ports[1] \in 0..MaxPort /\ one.used = {Claimed(c, 1)}
  <2>1. 1 \in 1..3 /\ Claimed(c, 1) \in Int
    BY <1>2
  <2>2. Claim(c, start, 1) = one /\ start.used = {} /\ start \in Walks
    BY <1>4, <1>6 DEF one, start
  <2> QED
    BY <1>9, <2>1, <2>2, ClaimProperties
<1>11. /\ Claimed(c, 2) # Claimed(c, 1) /\ Claimed(c, 3) # Claimed(c, 1)
       /\ Claimed(c, 3) # Claimed(c, 2)
  BY <1>8, <1>9, <1>10
<1>12. \A i \in 1..3 : i = 1 \/ i = 2 \/ i = 3
  OBVIOUS
<1> QED
  BY <1>8, <1>9, <1>10, <1>11, <1>12

\* Of all the settings a file can hold, the ones Validate accepts have the three
\* servers listen on three different ports, defaults included.
THEOREM AnyPortsApart ==
  ASSUME NEW c, c.ports \in [1..3 -> Int], Validate(c)
  PROVE  Cardinality({ ServerConfig(c, i).port : i \in 1..3 } \cap 1..MaxPort) = 3
<1> DEFINE p(i) == ServerConfig(c, i).port
<1>1. /\ \A i \in 1..3 : c.ports[i] \in 0..MaxPort
      /\ \A i, j \in 1..3 : i # j => Claimed(c, i) # Claimed(c, j)
  <2>1. ServersOK(c)
    BY DEF Validate
  <2> QED
    BY <2>1, ClaimsApart
<1>2. \A i \in 1..3 : p(i) = Claimed(c, i) /\ p(i) \in 1..MaxPort
  <2> SUFFICES ASSUME NEW i \in 1..3
               PROVE  p(i) = Claimed(c, i) /\ p(i) \in 1..MaxPort
    OBVIOUS
  <2>1. DefaultPort[i] \in 1..MaxPort
    <3>1. i = 1 \/ i = 2 \/ i = 3
      OBVIOUS
    <3>2. DefaultPort[i] \in Int /\ 1 <= DefaultPort[i] /\ DefaultPort[i] <= MaxPort
      BY <3>1 DEF DefaultPort, MaxPort
    <3>3. MaxPort \in Int
      BY DEF MaxPort
    <3> QED
      BY <3>2, <3>3
  <2>2. p(i) = PortOr(c, i) /\ Claimed(c, i) = PortOr(c, i)
    BY DEF ServerConfig, Claimed
  <2>3. c.ports[i] \in 0..MaxPort
    BY <1>1
  <2>4. PortOr(c, i) \in 1..MaxPort
    BY <2>1, <2>3 DEF PortOr, OrElse
  <2> QED
    BY <2>2, <2>4
<1>3. p(1) # p(2) /\ p(1) # p(3) /\ p(2) # p(3)
  <2>1. 1 \in 1..3 /\ 2 \in 1..3 /\ 3 \in 1..3
    OBVIOUS
  <2> HIDE DEF p
  <2> QED
    BY <1>1, <1>2, <2>1
<1>4. { p(i) : i \in 1..3 } \cap 1..MaxPort = ({p(1)} \cup {p(2)}) \cup {p(3)}
  <2> HIDE DEF p
  <2>1. { p(i) : i \in 1..3 } = {p(1), p(2), p(3)}
    <3>1. 1..3 = {1, 2, 3}
      OBVIOUS
    <3> QED
      BY <3>1
  <2> QED
    BY <1>2, <2>1
<1> HIDE DEF p
<1>5. IsFiniteSet({p(1)}) /\ Cardinality({p(1)}) = 1
  BY FS_Singleton
<1>6. IsFiniteSet({p(1)} \cup {p(2)}) /\ Cardinality({p(1)} \cup {p(2)}) = 2
  <2>1. p(2) \notin {p(1)}
    BY <1>3
  <2> QED
    BY ONLY <1>5, <2>1, FS_AddElement
<1>7. Cardinality(({p(1)} \cup {p(2)}) \cup {p(3)}) = 3
  <2>1. p(3) \notin {p(1)} \cup {p(2)}
    BY <1>3
  <2> QED
    BY ONLY <1>6, <2>1, FS_AddElement
<1> QED
  BY <1>4, <1>7 DEF p

\* The other settings Validate reads, each with its type.
LEMMA SettingsInput ==
  ASSUME in \in Selections \cup Headers \cup Settings \cup Requests, in.kind = "settings"
  PROVE  /\ in.c.interval \in Durations /\ in.c.timeout \in Durations
         /\ in.c.healthy \in Int /\ in.c.unhealthy \in Int /\ in.c.concurrent \in Int
         /\ in.c.bodyLimit \in Int
         /\ \A i \in DOMAIN in.c.backends : in.c.backends[i].weight \in Nat
         /\ \A i \in 1..3 : in.c.durations[i] \subseteq Durations
<1>1. \A h \in DOMAIN Default : in.c[h] = Default[h] \/ in.c[h] \in Values[h]
  BY SettingsField
<1>2. in.c.interval \in Durations /\ in.c.timeout \in Durations
  <2>1. "interval" \in DOMAIN Default /\ "timeout" \in DOMAIN Default
    BY DEF Default
  <2>2. Default["interval"] \in Durations /\ Default["timeout"] \in Durations
    BY DEF Default, Durations
  <2>3. Values["interval"] = Durations /\ Values["timeout"] = Durations
    BY DEF Values
  <2> QED
    BY <1>1, <2>1, <2>2, <2>3
<1>3. /\ in.c.healthy \in Int /\ in.c.unhealthy \in Int /\ in.c.concurrent \in Int
      /\ in.c.bodyLimit \in Int
  <2>1. /\ "healthy" \in DOMAIN Default /\ "unhealthy" \in DOMAIN Default
        /\ "concurrent" \in DOMAIN Default /\ "bodyLimit" \in DOMAIN Default
    BY DEF Default
  <2>2. /\ Default["healthy"] \in Int /\ Default["unhealthy"] \in Int
        /\ Default["concurrent"] \in Int /\ Default["bodyLimit"] \in Int
    BY DEF Default
  <2>3. /\ Values["healthy"] \subseteq Int /\ Values["unhealthy"] \subseteq Int
        /\ Values["concurrent"] \subseteq Int /\ Values["bodyLimit"] \subseteq Int
    BY DEF Values
  <2> QED
    BY <1>1, <2>1, <2>2, <2>3
<1>4. \A i \in DOMAIN in.c.backends : in.c.backends[i].weight \in Nat
  <2>1. "backends" \in DOMAIN Default /\ Default["backends"] = << >>
    BY DEF Default
  <2>2. Values["backends"] =
          { <<[url |-> u, weight |-> w]>> : u \in UrlKinds, w \in 0..(MaxWeight + 1) }
    BY DEF Values
  <2>3. CASE in.c["backends"] = << >>
    BY <2>3
  <2>4. CASE in.c["backends"] \in Values["backends"]
    <3>1. PICK u \in UrlKinds, w \in 0..(MaxWeight + 1) :
            in.c["backends"] = <<[url |-> u, weight |-> w]>>
      BY <2>2, <2>4
    <3>2. w \in Nat
      BY ConfigAssumption DEF ConfigAssumption
    <3> QED
      BY <3>1, <3>2
  <2> QED
    BY <1>1, <2>1, <2>3, <2>4
<1>5. \A i \in 1..3 : in.c.durations[i] \subseteq Durations
  <2>1. "durations" \in DOMAIN Default /\ Default["durations"] = <<{Unset}, {Unset}, {Unset}>>
    BY DEF Default
  <2>2. Values["durations"] = { <<{d}, {Unset}, {Unset, e}>> : d, e \in Durations }
    BY DEF Values
  <2>3. Unset \in Durations
    BY DEF Durations
  <2>4. \A i \in 1..3 : i = 1 \/ i = 2 \/ i = 3
    OBVIOUS
  <2>5. CASE in.c["durations"] = <<{Unset}, {Unset}, {Unset}>>
    BY <2>3, <2>4, <2>5
  <2>6. CASE in.c["durations"] \in Values["durations"]
    <3>1. PICK d \in Durations, e \in Durations :
            in.c["durations"] = <<{d}, {Unset}, {Unset, e}>>
      BY <2>2, <2>6
    <3> QED
      BY <2>3, <2>4, <3>1
  <2> QED
    BY <1>1, <2>1, <2>5, <2>6
<1> QED
  BY <1>2, <1>3, <1>4, <1>5

\* The types of the fields a file may set, as the decoder gives them.
Duration == Int \cup {Unset, Unparsable}

SettingsTyped(c) ==
  /\ c.interval \in Duration /\ c.timeout \in Duration
  /\ c.healthy \in Int /\ c.unhealthy \in Int /\ c.concurrent \in Int
  /\ c.bodyLimit \in Int
  /\ \A i \in DOMAIN c.backends : c.backends[i].weight \in Nat
  /\ \A i \in 1..3 : c.durations[i] \subseteq Duration

\* A duration that Validate accepts is not negative once parsed.
LEMMA DurationRuns ==
  ASSUME NEW d \in Duration, DurationOK(d)
  PROVE  Parsed(d) \in Nat
  BY DEF Duration, DurationOK, Parsed

\* Whatever a file says, if Validate accepts it then the program it configures has
\* positive intervals and thresholds, no negative timeout, weights the selectors can
\* carry, a body limit that lets a body through, and the strategy that was named.
THEOREM AnyAcceptedRuns ==
  ASSUME NEW c, SettingsTyped(c), Validate(c)
  PROVE  LET health == HealthConfig(c)
         IN  /\ health.interval > 0 /\ health.timeout > 0
             /\ health.healthy > 0 /\ health.unhealthy > 0 /\ health.concurrent >= 0
             /\ \A i \in DOMAIN c.backends : DomainWeight(c.backends[i]) \in 1..MaxWeight
             /\ \A i \in 1..3 : \A d \in ServerConfig(c, i).durations : d >= 0
             /\ ProxyBodyLimit(c) > 0
             /\ c.strategy \in {"", ProxySelector(c)}
<1> DEFINE health == HealthConfig(c)
<1>1. /\ c.interval \in Duration /\ c.timeout \in Duration
      /\ c.healthy \in Int /\ c.unhealthy \in Int /\ c.concurrent \in Int
      /\ c.bodyLimit \in Int
      /\ \A i \in DOMAIN c.backends : c.backends[i].weight \in Nat
      /\ \A i \in 1..3 : c.durations[i] \subseteq Duration
  BY DEF SettingsTyped
<1>2. /\ c.strategy \in Strategies \cup {""}
      /\ \A i \in DOMAIN c.backends : BackendOK(c.backends[i])
      /\ HealthOK(c) /\ ServersOK(c) /\ c.bodyLimit >= 0
  BY DEF Validate
<1>3. /\ health.interval > 0 /\ health.timeout > 0
      /\ health.healthy > 0 /\ health.unhealthy > 0 /\ health.concurrent >= 0
  <2>1. Parsed(c.interval) \in Nat /\ Parsed(c.timeout) \in Nat
    BY <1>1, <1>2, DurationRuns DEF HealthOK
  <2>2. c.healthy >= 0 /\ c.unhealthy >= 0 /\ c.concurrent >= 0
    BY <1>2 DEF HealthOK
  <2>3. /\ health.interval = OrElse(Parsed(c.interval), 5000)
        /\ health.timeout = OrElse(Parsed(c.timeout), 2000)
        /\ health.healthy = OrElse(c.healthy, 1) /\ health.unhealthy = OrElse(c.unhealthy, 3)
        /\ health.concurrent = c.concurrent
    BY DEF HealthConfig
  <2> HIDE DEF health
  <2> QED
    BY <1>1, <2>1, <2>2, <2>3 DEF OrElse
<1>4. ASSUME NEW i \in DOMAIN c.backends
      PROVE  DomainWeight(c.backends[i]) \in 1..MaxWeight
  <2> DEFINE w == c.backends[i].weight
  <2>1. w \in Nat /\ ~(w > MaxWeight)
    BY <1>1, <1>2 DEF BackendOK
  <2>2. DomainWeight(c.backends[i]) = IF w = 0 THEN 1 ELSE w
    BY DEF DomainWeight, OrElse
  <2> HIDE DEF w
  <2> QED
    BY <2>1, <2>2, ConfigAssumption DEF ConfigAssumption
<1>5. ASSUME NEW i \in 1..3, NEW d \in ServerConfig(c, i).durations
      PROVE  d >= 0
  <2>1. PICK e \in c.durations[i] : d = Parsed(e)
    BY DEF ServerConfig
  <2>2. e \in Duration /\ DurationOK(e)
    BY <1>1, <1>2 DEF ServersOK
  <2> QED
    BY <2>1, <2>2, DurationRuns
<1>6. ProxyBodyLimit(c) > 0
  <2>1. c.bodyLimit \in Int /\ c.bodyLimit >= 0
    BY <1>1, <1>2
  <2>2. ProxyBodyLimit(c) = IF c.bodyLimit = 0 THEN 16 * 1024 ELSE c.bodyLimit
    BY DEF ProxyBodyLimit, OrElse
  <2>3. 16 * 1024 > 0
    OBVIOUS
  <2> QED
    BY ONLY <2>1, <2>2, <2>3
<1>7. c.strategy \in {"", ProxySelector(c)}
  BY <1>2 DEF ProxySelector
<1> QED
  BY <1>3, <1>4, <1>5, <1>6, <1>7

\* What Validate accepts, of the files of the runs.
THEOREM AcceptedRuns == Spec => []AcceptedConfigRuns
<1>1. ASSUME in \in Selections \cup Headers \cup Settings \cup Requests, in.kind = "settings"
      PROVE  SettingsTyped(in.c)
  <2>1. Durations \subseteq Duration
    BY DEF Durations, Duration
  <2> QED
    BY <1>1, <2>1, SettingsInput DEF SettingsTyped
<1>2. ASSUME in \in Selections \cup Headers \cup Settings \cup Requests
      PROVE  AcceptedConfigRuns
  <2> SUFFICES ASSUME in.kind = "settings", Validate(in.c)
               PROVE  AcceptedConfigRuns
    BY DEF AcceptedConfigRuns
  <2> DEFINE c == in.c
  <2>1. SettingsTyped(c) /\ c.ports \in [1..3 -> Int] /\ Validate(c)
    BY <1>1, <1>2, PortsInput
  <2> HIDE DEF c
  <2>2. Cardinality({ ServerConfig(c, i).port : i \in 1..3 } \cap 1..MaxPort) = 3
    BY <2>1, AnyPortsApart
  <2>3. LET health == HealthConfig(c)
        IN  /\ health.interval > 0 /\ health.timeout > 0
            /\ health.healthy > 0 /\ health.unhealthy > 0 /\ health.concurrent >= 0
            /\ \A i \in DOMAIN c.backends : DomainWeight(c.backends[i]) \in 1..MaxWeight
            /\ \A i \in 1..3 : \A d \in ServerConfig(c, i).durations : d >= 0
            /\ ProxyBodyLimit(c) > 0
            /\ c.strategy \in {"", ProxySelector(c)}
    BY <2>1, AnyAcceptedRuns
  <2> QED
    BY <2>2, <2>3 DEF AcceptedConfigRuns, c
<1> QED
  BY <1>2, SpecInputs, PTL

-----------------------------------------------------------------------------
(* The management server *)

Outcome == [status : Nat, weight : Nat, observed : Seq(Nat)]

\* An answer that nobody has reported yet.
LEMMA AnswerTyped ==
  ASSUME NEW status \in Nat, NEW weight \in Nat
  PROVE  Answer(status, weight) \in Outcome
<1>1. << >> \in Seq(Nat)
  OBVIOUS
<1> QED
  BY <1>1 DEF Answer, Outcome

\* The register handler answers every request and reports nothing itself.
LEMMA RegisterTyped ==
  ASSUME NEW r \in Request
  PROVE  Register(r) \in Outcome /\ Register(r).observed = << >>
<1>1. r.weight \in Nat
  BY ConfigAssumption DEF ConfigAssumption, Request
<1>2. OrElse(r.weight, 1) \in Nat
  BY <1>1 DEF OrElse
<1>3. Register(r) \in {Answer(400, 0), Answer(409, 0), Answer(201, OrElse(r.weight, 1))}
  BY DEF Register
<1>4. /\ Answer(400, 0) \in Outcome /\ Answer(409, 0) \in Outcome
      /\ Answer(201, OrElse(r.weight, 1)) \in Outcome
  BY <1>2, AnswerTyped
<1>5. \A x, y : Answer(x, y).observed = << >>
  BY DEF Answer
<1> QED
  BY <1>3, <1>4, <1>5

\* What is left of a request once its body is limited.
Limited(r) == [r EXCEPT !.json = @ /\ r.fits]

\* limitBody leaves the token alone and the request a request.
LEMMA LimitedTyped ==
  ASSUME NEW r \in Request
  PROVE  Limited(r) \in Request /\ Limited(r).auth = r.auth
<1>1. r = [auth |-> r.auth, fits |-> r.fits, json |-> r.json, url |-> r.url,
           weight |-> r.weight, taken |-> r.taken]
  BY DEF Request
<1>2. Limited(r) = [auth |-> r.auth, fits |-> r.fits, json |-> r.json /\ r.fits, url |-> r.url,
                    weight |-> r.weight, taken |-> r.taken]
  BY <1>1 DEF Limited
<1> QED
  BY <1>2 DEF Request

\* Each middleware makes a handler of a handler.
LEMMA WrapTyped ==
  ASSUME NEW next \in [Request -> Outcome], NEW token,
         NEW mw \in {"metrics", "limit", "auth"}
  PROVE  Wrap(mw, token, next) \in [Request -> Outcome]
<1>1. CASE mw = "metrics"
  <2>1. ASSUME NEW r \in Request
        PROVE  [next[r] EXCEPT !.observed = Append(@, next[r].status)] \in Outcome
    <3>1. next[r] = [status |-> next[r].status, weight |-> next[r].weight,
                     observed |-> next[r].observed]
      BY DEF Outcome
    <3>2. /\ next[r].status \in Nat /\ next[r].weight \in Nat /\ next[r].observed \in Seq(Nat)
      BY DEF Outcome
    <3>3. Append(next[r].observed, next[r].status) \in Seq(Nat)
      BY <3>2
    <3>4. [next[r] EXCEPT !.observed = Append(@, next[r].status)] =
            [status |-> next[r].status, weight |-> next[r].weight,
             observed |-> Append(next[r].observed, next[r].status)]
      BY <3>1, SMTT(30)
    <3> QED
      BY <3>2, <3>3, <3>4 DEF Outcome
  <2> QED
    BY <1>1, <2>1 DEF Wrap, RequestMetrics
<1>2. CASE mw = "limit"
  <2>1. \A r \in Request : next[Limited(r)] \in Outcome
    BY LimitedTyped
  <2> QED
    BY <1>2, <2>1 DEF Wrap, LimitBody, Limited
<1>3. CASE mw = "auth"
  <2>1. Answer(401, 0) \in Outcome
    BY AnswerTyped
  <2> QED
    BY <1>3, <2>1 DEF Wrap, BearerAuth
<1> QED
  BY <1>1, <1>2, <1>3

\* chain, over the three middlewares of the management server: the first one listed is
\* the outermost.
LEMMA ChainOfThree ==
  ASSUME NEW token, NEW handler \in [Request -> Outcome]
  PROVE  Chain(<<"metrics", "limit", "auth">>, token, handler) =
           Wrap("metrics", token, Wrap("limit", token, Wrap("auth", token, handler)))
<1> DEFINE mws == <<"metrics", "limit", "auth">>
           S == [Request -> Outcome]
           iter == CHOOSE g : g = [s \in SUBSET (1..3) |->
                     IF s = {} THEN handler
                     ELSE Wrap(mws[Min(s)], token, g[s \ {Min(s)}])]
<1>0. DOMAIN mws = 1..3 /\ mws[1] = "metrics" /\ mws[2] = "limit" /\ mws[3] = "auth"
  OBVIOUS
<1>1. \A i \in 1..3 : mws[i] \in {"metrics", "limit", "auth"}
  OBVIOUS
<1> HIDE DEF mws
<1>2. Chain(mws, token, handler) = iter[1..3]
  BY <1>0 DEF Chain, FoldRight, MapThenFoldSet
<1>3. \A next \in S, i \in 1..3 : Wrap(mws[i], token, next) \in S
  BY <1>1, WrapTyped
<1>4. iter = [s \in SUBSET (1..3) |->
                IF s = {} THEN handler ELSE Wrap(mws[Min(s)], token, iter[s \ {Min(s)}])]
  <2> DEFINE step == [i \in 1..3 |-> [next \in S |-> Wrap(mws[i], token, next)]]
             pick == [s \in SUBSET (1..3) |-> Min(s)]
  <2>0. handler \in S
    OBVIOUS
  <2> HIDE DEF S
  <2>1. step \in [1..3 -> [S -> S]]
    BY <1>3
  <2>2. \A s \in SUBSET (1..3) : s # {} => pick[s] \in s
    BY MinOf
  <2> HIDE DEF step, pick
  <2>3. PICK g \in [SUBSET (1..3) -> S] : FoldsBy(g, 3, handler, step, pick)
    BY <2>0, <2>1, <2>2, FoldExists
  <2>4. ASSUME NEW s \in SUBSET (1..3), s # {}
        PROVE  step[pick[s]][g[s \ {pick[s]}]] = Wrap(mws[Min(s)], token, g[s \ {Min(s)}])
    <3>1. pick[s] = Min(s)
      BY DEF pick
    <3>2. Min(s) \in 1..3 /\ g[s \ {Min(s)}] \in S
      BY <2>2, <2>4, <3>1
    <3> QED
      BY <3>1, <3>2 DEF step
  <2>5. g = [s \in SUBSET (1..3) |->
               IF s = {} THEN handler ELSE Wrap(mws[Min(s)], token, g[s \ {Min(s)}])]
    BY <2>3, <2>4 DEF FoldsBy
  <2> QED
    BY <2>5
<1> HIDE DEF iter
<1>5. ASSUME NEW i \in 1..3
      PROVE  iter[i..3] = Wrap(mws[i], token, iter[(i + 1)..3])
  <2>1. i..3 # {} /\ i..3 \in SUBSET (1..3) /\ Min(i..3) = i /\ (i..3) \ {Min(i..3)} = (i + 1)..3
    BY MinOfSuffix
  <2>2. iter[i..3] = Wrap(mws[Min(i..3)], token, iter[(i..3) \ {Min(i..3)}])
    BY <1>4, <2>1
  <2> QED
    BY <2>1, <2>2
<1>6. iter[4..3] = handler
  <2>1. 4..3 = {} /\ {} \in SUBSET (1..3)
    OBVIOUS
  <2> QED
    BY <1>4, <2>1
<1>7. /\ iter[3..3] = Wrap("auth", token, handler)
      /\ iter[2..3] = Wrap("limit", token, iter[3..3])
      /\ iter[1..3] = Wrap("metrics", token, iter[2..3])
  <2>1. 1 \in 1..3 /\ 2 \in 1..3 /\ 3 \in 1..3 /\ 1 + 1 = 2 /\ 2 + 1 = 3 /\ 3 + 1 = 4
    OBVIOUS
  <2> QED
    BY <1>0, <1>5, <1>6, <2>1
<1> QED
  BY <1>2, <1>7 DEF mws

\* What the management server answers a request: what register or bearerAuth answers
\* it once its body is limited, reported.
LEMMA ServerAnswers ==
  ASSUME NEW token, NEW r \in Request
  PROVE  LET x == IF token = NoToken \/ r.auth = token THEN Register(Limited(r)) ELSE Answer(401, 0)
         IN  RegistryServer(token)[r] =
               [status |-> x.status, weight |-> x.weight, observed |-> <<x.status>>]
<1> DEFINE handler == [q \in Request |-> Register(q)]
           guarded == Wrap("auth", token, handler)
           limited == Wrap("limit", token, guarded)
           x == IF token = NoToken \/ r.auth = token THEN Register(Limited(r)) ELSE Answer(401, 0)
<1>1. handler \in [Request -> Outcome]
  BY RegisterTyped
<1>2. RegistryServer(token) = Wrap("metrics", token, limited)
  BY <1>1, ChainOfThree DEF RegistryServer
<1>3. Limited(r) \in Request /\ Limited(r).auth = r.auth
  BY LimitedTyped
<1>4. \A q \in Request :
        guarded[q] = IF token = NoToken \/ q.auth = token THEN Register(q) ELSE Answer(401, 0)
  BY DEF Wrap, BearerAuth
<1>5. guarded[Limited(r)] = x
  BY <1>3, <1>4
<1> HIDE DEF guarded
<1>6. limited[r] = guarded[Limited(r)]
  BY DEF Wrap, LimitBody, Limited
<1> HIDE DEF limited
<1>7. RegistryServer(token)[r] = [limited[r] EXCEPT !.observed = Append(@, limited[r].status)]
  BY <1>2 DEF Wrap, RequestMetrics
<1>8. x \in Outcome /\ x.observed = << >>
  <2>1. Answer(401, 0) \in Outcome /\ Answer(401, 0).observed = << >>
    BY AnswerTyped DEF Answer
  <2> QED
    BY <1>3, <2>1, RegisterTyped
<1> HIDE DEF x
<1>9. x = [status |-> x.status, weight |-> x.weight, observed |-> << >>]
  BY <1>8 DEF Outcome
<1>10. Append(<< >>, x.status) = <<x.status>>
  OBVIOUS
<1>11. [x EXCEPT !.observed = Append(@, x.status)] =
         [status |-> x.status, weight |-> x.weight, observed |-> <<x.status>>]
  BY <1>9, <1>10
<1> QED
  BY <1>5, <1>6, <1>7, <1>11 DEF x

\* The requests of the management server.
LEMMA RequestInput ==
  ASSUME in \in Selections \cup Headers \cup Settings \cup Requests, in.kind = "request"
  PROVE  in.request \in Request
<1>1. in \in Requests
  BY DEF Selections, Headers, Settings
<1> QED
  BY <1>1 DEF Requests

\* requestMetrics outside bearerAuth: every answer of the management server is reported
\* once, the refusals too, and only a request with the token adds a backend.
THEOREM EveryAnswerReported == Spec => []AnswersReported
<1>1. ASSUME in \in Selections \cup Headers \cup Settings \cup Requests
      PROVE  AnswersReported
  <2> DEFINE r == in.request
             token == in.token
             x == IF token = NoToken \/ r.auth = token THEN Register(Limited(r)) ELSE Answer(401, 0)
             answer == RegistryServer(token)[r]
  <2> SUFFICES ASSUME in.kind = "request"
               PROVE  /\ answer.observed = <<answer.status>>
                      /\ answer.weight > 0 => token \in {NoToken, r.auth}
    BY DEF AnswersReported
  <2>1. r \in Request
    BY <1>1, RequestInput
  <2>2. answer = [status |-> x.status, weight |-> x.weight, observed |-> <<x.status>>]
    <3> HIDE DEF r, token
    <3> QED
      BY <2>1, ServerAnswers
  <2>3. answer.observed = <<answer.status>> /\ answer.weight = x.weight
    <3> HIDE DEF x, answer
    <3> QED
      BY <2>2
  <2>4. Answer(401, 0).weight = 0
    BY DEF Answer
  <2> HIDE DEF answer, r, token
  <2> QED
    BY <2>3, <2>4
<1> QED
  BY <1>1, SpecInputs, PTL

\* parseRegisterBackendReq and Validate: the API registers what the configuration may
\* name, and nothing else, with the weight DomainBackends gives it.
THEOREM SameBackends == Spec => []SameBackendsEitherWay
<1>1. ASSUME in \in Selections \cup Headers \cup Settings \cup Requests
      PROVE  SameBackendsEitherWay
  <2> DEFINE r == [in.request EXCEPT !.taken = FALSE, !.fits = TRUE, !.json = TRUE]
             entry == [url |-> r.url, weight |-> r.weight]
             answer == RegistryServer(NoToken)[r]
  <2> SUFFICES ASSUME in.kind = "request"
               PROVE  answer.weight = IF BackendOK(entry) THEN DomainWeight(entry) ELSE 0
    BY DEF SameBackendsEitherWay
  <2>1. /\ r \in Request /\ r.weight \in Nat
        /\ Limited(r).json = TRUE /\ Limited(r).taken = FALSE
        /\ Limited(r).url = r.url /\ Limited(r).weight = r.weight
    <3> DEFINE q == in.request
    <3>1. q \in Request
      BY <1>1, RequestInput
    <3>2. q = [auth |-> q.auth, fits |-> q.fits, json |-> q.json, url |-> q.url,
               weight |-> q.weight, taken |-> q.taken]
      BY <3>1 DEF Request
    <3>7. r = [q EXCEPT !.taken = FALSE, !.fits = TRUE, !.json = TRUE]
      OBVIOUS
    <3> HIDE DEF q, r
    <3>3. r = [auth |-> q.auth, fits |-> TRUE, json |-> TRUE, url |-> q.url,
               weight |-> q.weight, taken |-> FALSE]
      BY <3>2, <3>7
    <3>4. r \in Request
      BY <3>1, <3>3 DEF Request
    <3>5. r.weight \in Nat
      BY <3>4, ConfigAssumption DEF ConfigAssumption, Request
    <3>6. Limited(r) = r
      BY <3>3 DEF Limited
    <3> QED
      BY <3>3, <3>4, <3>5, <3>6
  <2> HIDE DEF r
  <2>2. answer.weight = Register(Limited(r)).weight
    <3>1. answer = [status |-> Register(Limited(r)).status, weight |-> Register(Limited(r)).weight,
                    observed |-> <<Register(Limited(r)).status>>]
      BY <2>1, ServerAnswers
    <3> HIDE DEF answer
    <3> QED
      BY <3>1
  <2>3. \A s, w : Answer(s, w).weight = w
    BY DEF Answer
  <2>4. Register(Limited(r)).weight =
          IF r.url \in {"unparsable", "relative", "otherScheme"} \/ TooHeavy(OrElse(r.weight, 1))
            THEN 0 ELSE OrElse(r.weight, 1)
    BY <2>1, <2>3 DEF Register
  <2>5. TooHeavy(OrElse(r.weight, 1)) <=> r.weight > MaxWeight
    BY <2>1, ConfigAssumption DEF ConfigAssumption, TooHeavy, OrElse
  <2>6. BackendOK(entry) <=>
          r.url \notin {"unparsable", "relative", "otherScheme"} /\ ~(r.weight > MaxWeight)
    BY DEF BackendOK, UrlOK
  <2>7. DomainWeight(entry) = OrElse(r.weight, 1)
    BY DEF DomainWeight
  <2> HIDE DEF entry, answer
  <2> QED
    BY <2>2, <2>4, <2>5, <2>6, <2>7
<1> QED
  BY <1>1, SpecInputs, PTL

-----------------------------------------------------------------------------
(* Forwarding headers *)

Address == Client \cup Trusted \cup {Garbled}

\* A chain of hops, and a peer with an address.
LEMMA HeadersInput ==
  ASSUME in \in Selections \cup Headers \cup Settings \cup Requests, in.kind = "headers"
  PROVE  in.peer \in Client \cup Trusted /\ in.hops \in Seq(Address)
<1>1. in \in Headers
  BY DEF Selections, Requests, Settings
<1>2. PICK n \in 0..MaxHops : in.hops \in [1..n -> Address]
  BY <1>1 DEF Headers, Address
<1>3. n \in Nat
  BY FunctionsAssumption DEF FunctionsAssumption
<1>4. in.peer \in Client \cup Trusted
  BY <1>1 DEF Headers
<1> QED
  BY <1>2, <1>3, <1>4

\* The i-th of the way is where a walk from its end stops.
Origin(way, i) ==
  /\ i \in 1..Len(way)
  /\ way[i] # Garbled
  /\ \A j \in (i + 1)..Len(way) : way[j] \in Trusted
  /\ way[i] \notin Trusted \/ i = 1 \/ way[i - 1] = Garbled

\* There is only one such place.
LEMMA OneOrigin ==
  ASSUME NEW way \in Seq(Address), NEW i, NEW k, Origin(way, i), Origin(way, k)
  PROVE  i = k
<1>1. ASSUME NEW a, NEW b, Origin(way, a), Origin(way, b), a < b
      PROVE  FALSE
  <2>1. a \in 1..Len(way) /\ b \in 1..Len(way) /\ Len(way) \in Nat
    BY <1>1, LenProperties DEF Origin
  <2>2. way[b] \in Trusted /\ b # 1
    BY <1>1, <2>1 DEF Origin
  <2>3. way[b - 1] = Garbled
    BY <1>1, <2>2 DEF Origin
  <2>4. CASE b - 1 = a
    BY <1>1, <2>3, <2>4 DEF Origin
  <2>5. CASE b - 1 # a
    <3>1. b - 1 \in (a + 1)..Len(way)
      BY <1>1, <2>1, <2>5
    <3> QED
      BY <1>1, <2>3, <3>1, ForwardingAssumption DEF Origin, ForwardingAssumption
  <2> QED
    BY <2>4, <2>5
<1>2. i \in Int /\ k \in Int
  BY LenProperties DEF Origin
<1>3. ~(i < k) /\ ~(k < i)
  BY <1>1
<1> QED
  BY <1>2, <1>3

\* One hop of the walk: ended already, ended here, or one hop further.
LEMMA HopProperties ==
  ASSUME NEW hop \in Address, NEW walk \in [client : Address, done : BOOLEAN]
  PROVE  /\ Hop(hop, walk) \in [client : Address, done : BOOLEAN]
         /\ walk.done => Hop(hop, walk) = walk
         /\ ~walk.done /\ hop = Garbled =>
              Hop(hop, walk).client = walk.client /\ Hop(hop, walk).done
         /\ ~walk.done /\ hop # Garbled =>
              Hop(hop, walk).client = hop /\ (Hop(hop, walk).done <=> hop \notin Trusted)
<1>1. /\ walk = [client |-> walk.client, done |-> walk.done]
      /\ walk.client \in Address /\ walk.done \in BOOLEAN
  OBVIOUS
<1>2. CASE walk.done
  <2>1. Hop(hop, walk) = walk
    BY <1>2 DEF Hop
  <2> QED
    BY <1>2, <2>1
<1>3. CASE ~walk.done /\ hop = Garbled
  <2>1. Hop(hop, walk) = [client |-> walk.client, done |-> TRUE]
    BY <1>1, <1>3 DEF Hop
  <2> QED
    BY <1>1, <1>3, <2>1
<1>4. CASE ~walk.done /\ hop # Garbled
  <2> DEFINE found == hop \notin Trusted
  <2>1. Hop(hop, walk) = [client |-> hop, done |-> found]
    BY <1>4 DEF Hop
  <2>2. found \in BOOLEAN
    OBVIOUS
  <2>3. /\ Hop(hop, walk) \in [client : Address, done : BOOLEAN]
        /\ Hop(hop, walk).client = hop /\ Hop(hop, walk).done = found
    <3> HIDE DEF found
    <3> QED
      BY <2>1, <2>2
  <2> QED
    BY <1>4, <2>3
<1> QED
  BY <1>2, <1>3, <1>4

\* The walk of ClientIP, right to left over any number of hops.
LEMMA ClientIPOrigin ==
  ASSUME NEW peer \in Trusted, NEW hops \in Seq(Address)
  PROVE  \E i : Origin(Append(hops, peer), i) /\ ClientIP(peer, hops) = Append(hops, peer)[i]
<1> DEFINE n == Len(hops)
           way == Append(hops, peer)
           S == [client : Address, done : BOOLEAN]
           start == [client |-> peer, done |-> FALSE]
           iter == CHOOSE g : g = [s \in SUBSET (1..n) |->
                     IF s = {} THEN start ELSE Hop(hops[Min(s)], g[s \ {Min(s)}])]
<1>1. /\ n \in Nat /\ DOMAIN hops = 1..n
      /\ \A i \in 1..n : hops[i] \in Address
      /\ Len(way) = n + 1 /\ way[n + 1] = peer
      /\ \A i \in 1..n : way[i] = hops[i]
  BY LenProperties, ElementOfSeq, AppendProperties
<1> HIDE DEF n
<1>2. ClientIP(peer, hops) = iter[1..n].client
  BY <1>1 DEF ClientIP, FoldRight, MapThenFoldSet
<1>3. \A walk \in S, i \in 1..n : Hop(hops[i], walk) \in S
  BY <1>1, HopProperties
<1>4. start \in S
  BY DEF Address
<1>5. iter = [s \in SUBSET (1..n) |->
                IF s = {} THEN start ELSE Hop(hops[Min(s)], iter[s \ {Min(s)}])]
  <2> DEFINE step == [i \in 1..n |-> [walk \in S |-> Hop(hops[i], walk)]]
             pick == [s \in SUBSET (1..n) |-> Min(s)]
  <2> HIDE DEF S, start
  <2>1. step \in [1..n -> [S -> S]]
    BY <1>3
  <2>2. \A s \in SUBSET (1..n) : s # {} => pick[s] \in s
    BY <1>1, MinOf
  <2> HIDE DEF step, pick
  <2>3. PICK g \in [SUBSET (1..n) -> S] : FoldsBy(g, n, start, step, pick)
    BY <1>1, <1>4, <2>1, <2>2, FoldExists
  <2>4. ASSUME NEW s \in SUBSET (1..n), s # {}
        PROVE  step[pick[s]][g[s \ {pick[s]}]] = Hop(hops[Min(s)], g[s \ {Min(s)}])
    <3>1. pick[s] = Min(s)
      BY DEF pick
    <3>2. Min(s) \in 1..n /\ g[s \ {Min(s)}] \in S
      BY <2>2, <2>4, <3>1
    <3> QED
      BY <3>1, <3>2 DEF step
  <2>5. g = [s \in SUBSET (1..n) |->
               IF s = {} THEN start ELSE Hop(hops[Min(s)], g[s \ {Min(s)}])]
    BY <2>3, <2>4 DEF FoldsBy
  <2> QED
    BY <2>5
<1> HIDE DEF iter, way
<1> DEFINE At(walk, lo) ==
             /\ walk \in S
             /\ ~walk.done => /\ walk.client = way[lo]
                              /\ \A j \in lo..(n + 1) : way[j] \in Trusted
             /\ walk.done => \E i : Origin(way, i) /\ walk.client = way[i]
           T == { k \in Nat : k <= n => At(iter[(n + 1 - k)..n], n + 1 - k) }
<1>6. 0 \in T
  <2>1. (n + 1 - 0)..n = {} /\ {} \in SUBSET (1..n) /\ n + 1 - 0 = n + 1
    BY <1>1
  <2>2. iter[(n + 1 - 0)..n] = start
    BY <1>5, <2>1
  <2>3. At(start, n + 1)
    BY <1>1, <1>4
  <2> QED
    BY <2>1, <2>2, <2>3
<1>7. ASSUME NEW k \in Nat, k \in T
      PROVE  k + 1 \in T
  <2> DEFINE lo == n - k
             walk == iter[(lo + 1)..n]
             walk2 == iter[lo..n]
  <2> SUFFICES ASSUME k + 1 <= n
               PROVE  At(walk2, lo)
    <3>1. k + 1 <= n => n + 1 - (k + 1) = lo
      BY <1>1
    <3> QED
      BY <3>1
  <2>1. lo \in 1..n /\ lo + 1 = n + 1 - k
    BY <1>1
  <2>2. At(walk, lo + 1)
    <3> HIDE DEF At
    <3>1. k <= n
      BY <1>1
    <3> QED
      BY <1>7, <2>1, <3>1
  <2>3. walk2 = Hop(way[lo], walk)
    <3> HIDE DEF lo
    <3>1. lo..n # {} /\ lo..n \in SUBSET (1..n) /\ Min(lo..n) = lo /\ (lo..n) \ {Min(lo..n)} = (lo + 1)..n
      BY <1>1, <2>1, MinOfSuffix
    <3>2. iter[lo..n] = Hop(hops[Min(lo..n)], iter[(lo..n) \ {Min(lo..n)}])
      BY <1>5, <3>1
    <3> QED
      BY <1>1, <2>1, <3>1, <3>2
  <2>4. way[lo] \in Address
    BY <1>1, <2>1
  <2> HIDE DEF walk, walk2, lo
  <2>5. walk2 \in S
    BY <2>2, <2>3, <2>4, HopProperties
  <2>6. CASE walk.done
    <3>1. walk2 = walk
      BY <2>2, <2>3, <2>4, <2>6, HopProperties
    <3> QED
      BY <2>2, <2>6, <3>1
  <2>7. CASE ~walk.done /\ way[lo] = Garbled
    <3>1. walk2.client = way[lo + 1] /\ walk2.done
      BY <2>2, <2>3, <2>4, <2>7, HopProperties
    <3>2. Origin(way, lo + 1)
      <4>1. /\ lo + 1 \in 1..Len(way) /\ (lo + 1) - 1 = lo
            /\ lo + 1 \in (lo + 1)..(n + 1)
            /\ (lo + 1 + 1)..Len(way) \subseteq (lo + 1)..(n + 1)
        BY <1>1, <2>1
      <4>2. \A j \in (lo + 1)..(n + 1) : way[j] \in Trusted
        BY <2>2, <2>7
      <4>3. way[lo + 1] # Garbled
        BY <4>1, <4>2, ForwardingAssumption DEF ForwardingAssumption
      <4> QED
        BY <2>7, <4>1, <4>2, <4>3 DEF Origin
    <3> QED
      BY <2>5, <3>1, <3>2
  <2>8. CASE ~walk.done /\ way[lo] # Garbled /\ way[lo] \notin Trusted
    <3>1. walk2.client = way[lo] /\ walk2.done
      BY <2>2, <2>3, <2>4, <2>8, HopProperties
    <3>2. Origin(way, lo)
      BY <1>1, <2>1, <2>2, <2>8 DEF Origin
    <3> QED
      BY <2>5, <3>1, <3>2
  <2>9. CASE ~walk.done /\ way[lo] # Garbled /\ way[lo] \in Trusted
    <3>1. walk2.client = way[lo] /\ ~walk2.done
      BY <2>2, <2>3, <2>4, <2>9, HopProperties
    <3>2. \A j \in lo..(n + 1) : way[j] \in Trusted
      BY <1>1, <2>1, <2>2, <2>9
    <3> QED
      BY <2>5, <3>1, <3>2
  <2> QED
    BY <2>6, <2>7, <2>8, <2>9
<1>8. At(iter[1..n], 1)
  <2> HIDE DEF At, T
  <2>1. n \in T
    BY <1>1, <1>6, <1>7, NatSetInduction
  <2>2. n + 1 - n = 1
    BY <1>1
  <2> QED
    BY <1>1, <2>1, <2>2 DEF T
<1>9. CASE iter[1..n].done
  BY <1>2, <1>8, <1>9 DEF way
<1>10. CASE ~iter[1..n].done
  <2>1. Origin(way, 1)
    BY <1>1, <1>8, <1>10, ForwardingAssumption DEF Origin, ForwardingAssumption
  <2>2. ClientIP(peer, hops) = way[1]
    BY <1>2, <1>8, <1>10
  <2> QED
    BY <2>1, <2>2 DEF way
<1> QED
  BY <1>9, <1>10

\* An untrusted peer is the client itself, whatever chain it sends.
LEMMA UntrustedOrigin ==
  ASSUME NEW peer \in Client, NEW hops \in Seq(Address)
  PROVE  /\ Origin(Append(hops, peer), Len(hops) + 1)
         /\ ClientIP(peer, hops) = Append(hops, peer)[Len(hops) + 1]
<1>1. /\ Len(hops) \in Nat /\ Len(Append(hops, peer)) = Len(hops) + 1
      /\ Append(hops, peer)[Len(hops) + 1] = peer
  BY LenProperties, AppendProperties
<1>2. peer # Garbled /\ peer \notin Trusted
  BY FunctionsAssumption DEF FunctionsAssumption
<1>3. ClientIP(peer, hops) = peer
  BY <1>2 DEF ClientIP
<1> QED
  BY <1>1, <1>2, <1>3 DEF Origin

\* What the backend is sent: the chain that ends at the peer, with the client at the
\* place where a walk from its end stops.
LEMMA SentOrigin ==
  ASSUME NEW peer \in Client \cup Trusted, NEW hops \in Seq(Address)
  PROVE  /\ Append(KeptHops(peer, hops), peer) \in Seq(Address)
         /\ \E i : /\ Origin(Append(KeptHops(peer, hops), peer), i)
                   /\ ClientIP(peer, hops) = Append(KeptHops(peer, hops), peer)[i]
<1>1. peer \in Address
  BY DEF Address
<1>2. CASE peer \in Trusted
  <2>1. KeptHops(peer, hops) = hops
    BY <1>2 DEF KeptHops
  <2>2. Append(hops, peer) \in Seq(Address)
    BY <1>1, AppendProperties
  <2>3. \E i : Origin(Append(hops, peer), i) /\ ClientIP(peer, hops) = Append(hops, peer)[i]
    BY <1>2, ClientIPOrigin
  <2> QED
    BY <2>1, <2>2, <2>3
<1>3. CASE peer \notin Trusted
  <2>1. KeptHops(peer, hops) = << >>
    BY <1>3 DEF KeptHops
  <2>2. << >> \in Seq(Address) /\ peer \in Client
    BY <1>3
  <2>3. Append(<< >>, peer) \in Seq(Address)
    BY <1>1, <2>2, AppendProperties
  <2>4. /\ Origin(Append(<< >>, peer), Len(<< >>) + 1)
        /\ ClientIP(peer, << >>) = Append(<< >>, peer)[Len(<< >>) + 1]
    BY <2>2, UntrustedOrigin
  <2>5. ClientIP(peer, hops) = ClientIP(peer, << >>)
    BY <1>3 DEF ClientIP
  <2> QED
    BY <2>1, <2>3, <2>4, <2>5
<1> QED
  BY <1>2, <1>3

\* clientIP: the first address outside the trusted set from the right, for chains of any
\* length, malformed hops included.
THEOREM ClientRight == Spec => []ClientIsLastUntrusted
<1>1. ASSUME in \in Selections \cup Headers \cup Settings \cup Requests
      PROVE  ClientIsLastUntrusted
  <2> DEFINE peer == in.peer
             hops == in.hops
             way == Append(hops, peer)
  <2> SUFFICES ASSUME in.kind = "headers"
               PROVE  \E i \in DOMAIN way :
                        /\ ClientIP(peer, hops) = way[i]
                        /\ way[i] # Garbled /\ \A j \in (i + 1)..Len(way) : way[j] \in Trusted
                        /\ \/ way[i] \notin Trusted
                           \/ i = 1
                           \/ way[i - 1] = Garbled
    BY DEF ClientIsLastUntrusted
  <2>1. peer \in Client \cup Trusted /\ hops \in Seq(Address)
    BY <1>1, HeadersInput
  <2> HIDE DEF peer, hops
  <2>2. way \in Seq(Address)
    BY <2>1, AppendProperties DEF Address
  <2>3. PICK i : Origin(way, i) /\ ClientIP(peer, hops) = way[i]
    <3>1. CASE peer \in Trusted
      BY <2>1, <3>1, ClientIPOrigin
    <3>2. CASE peer \in Client
      BY <2>1, <3>2, UntrustedOrigin
    <3> QED
      BY <2>1, <3>1, <3>2
  <2> HIDE DEF way
  <2>4. i \in DOMAIN way
    BY <2>2, <2>3, LenProperties DEF Origin
  <2> QED
    BY <2>3, <2>4 DEF Origin
<1> QED
  BY <1>1, SpecInputs, PTL

\* setForwarded: a balancer behind this one that trusts it and the same proxies finds the
\* same client and hands on the same scheme.
THEOREM OriginKept == Spec => []SameOriginDownstream
<1>1. ASSUME in \in Selections \cup Headers \cup Settings \cup Requests
      PROVE  SameOriginDownstream
  <2> DEFINE peer == in.peer
             hops == in.hops
             proto == in.proto
             way == Append(KeptHops(peer, hops), peer)
             kept == KeptProto(peer, proto)
             out == SetForwarded(peer, hops, proto)
  <2> SUFFICES ASSUME in.kind = "headers"
               PROVE  /\ ClientIP(Self, out.hops) = ClientIP(peer, hops)
                      /\ SetForwarded(Self, out.hops, out.proto).proto = out.proto
    BY DEF SameOriginDownstream
  <2>1. peer \in Client \cup Trusted /\ hops \in Seq(Address)
    BY <1>1, HeadersInput
  <2> HIDE DEF peer, hops, proto
  <2>2. out.hops = way /\ out.proto = kept
    BY DEF SetForwarded
  <2>3. SetForwarded(Self, out.hops, out.proto).proto = KeptProto(Self, out.proto)
    BY DEF SetForwarded
  <2> HIDE DEF out
  <2>4. Self \in Trusted
    BY FunctionsAssumption DEF FunctionsAssumption
  <2>5. way \in Seq(Address)
    BY <2>1, SentOrigin
  <2>6. PICK i : Origin(way, i) /\ ClientIP(peer, hops) = way[i]
    BY <2>1, SentOrigin
  <2> HIDE DEF way
  <2> DEFINE way2 == Append(way, Self)
  <2>7. PICK k : Origin(way2, k) /\ ClientIP(Self, way) = way2[k]
    BY <2>4, <2>5, ClientIPOrigin
  <2>8. /\ way2 \in Seq(Address) /\ Len(way) \in Nat
        /\ Len(way2) = Len(way) + 1 /\ way2[Len(way) + 1] = Self
        /\ \A j \in 1..Len(way) : way2[j] = way[j]
    <3>1. Self \in Address
      BY <2>4 DEF Address
    <3> QED
      BY <2>5, <3>1, AppendProperties, LenProperties
  <2> HIDE DEF way2
  <2>9. Origin(way2, i)
    <3>1. i \in 1..Len(way2) /\ way2[i] = way[i] /\ i \in 1..Len(way)
      BY <2>6, <2>8 DEF Origin
    <3>2. \A j \in (i + 1)..Len(way2) : way2[j] \in Trusted
      BY <2>4, <2>6, <2>8 DEF Origin
    <3>3. i # 1 => way2[i - 1] = way[i - 1]
      BY <2>8, <3>1
    <3> QED
      BY <2>6, <3>1, <3>2, <3>3 DEF Origin
  <2>10. ClientIP(Self, way) = ClientIP(peer, hops)
    <3>1. i = k
      BY <2>7, <2>8, <2>9, OneOrigin
    <3> QED
      BY <2>6, <2>7, <2>8, <3>1 DEF Origin
  <2>11. KeptProto(Self, kept) = kept
    BY <2>4 DEF KeptProto
  <2> QED
    BY <2>2, <2>3, <2>10, <2>11
<1> QED
  BY <1>1, SpecInputs, PTL

=============================================================================
