----------------------- MODULE LeastConnectionsProofs -----------------------
(***************************************************************************)
(* Proofs about LeastConnections: how near the least loaded a pick is      *)
(* while the counts move, and that it is exact when they do not.           *)
(***************************************************************************)
EXTENDS LeastConnections, ListProofs

-----------------------------------------------------------------------------
(* Arithmetic of loads: a count times the other's weight *)

LEMMA ProductOrder ==
  ASSUME NEW a \in Int, NEW c \in Int, NEW h \in Int, NEW k \in Int,
         NEW s \in Int, NEW t \in Int, NEW wm \in Nat \ {0}, NEW wb \in Nat \ {0},
         c <= a, h <= k, s <= t, a * wb <= h * wm + s * wb * wm
  PROVE  c * wb <= k * wm + t * wb * wm
<1>1. c * wb <= a * wb /\ h * wm <= k * wm
  BY TimesLess
<1>2. s * wb <= t * wb /\ s * wb \in Int /\ t * wb \in Int
  BY TimesLess
<1>3. s * wb * wm <= t * wb * wm
  BY <1>2, TimesLess
<1>4. /\ c * wb \in Int /\ a * wb \in Int /\ h * wm \in Int /\ k * wm \in Int
      /\ s * wb * wm \in Int /\ t * wb * wm \in Int
  BY TimesAssoc
<1> QED
  BY <1>1, <1>3, <1>4

\* One more attempt on the best so far is one more join.
LEMMA ProductJoin ==
  ASSUME NEW a \in Int, NEW h \in Int, NEW s \in Int, NEW wm \in Nat \ {0}, NEW wb \in Nat \ {0},
         a * wb <= h * wm + s * wb * wm
  PROVE  (a + 1) * wb <= h * wm + (s + 1) * wb * wm
<1>1. (a + 1) * wb = a * wb + wb
  BY TimesAssoc
<1>2. (s + 1) * wb = s * wb + wb /\ s * wb \in Int
  BY TimesAssoc
<1>3. (s + 1) * wb * wm = s * wb * wm + wb * wm
  BY <1>2, TimesAssoc
<1>4. wb <= wb * wm
  BY TimesLess, 1 <= wm, 1 * wb = wb, TimesAssoc
<1>5. a * wb \in Int /\ h * wm \in Int /\ s * wb * wm \in Int /\ wb * wm \in Int
  BY TimesAssoc
<1> QED
  BY <1>1, <1>3, <1>4, <1>5

\* The challenger, loaded as a, beats the best, whose count is now n; since then k
\* attempts may have raised the challenger's count to c.
LEMMA ProductBeaten ==
  ASSUME NEW a \in Int, NEW c \in Int, NEW n \in Int, NEW h \in Int, NEW j \in Int, NEW k \in Nat,
         NEW wc \in Nat \ {0}, NEW wm \in Nat \ {0}, NEW wb \in Nat \ {0},
         a * wm < n * wc, c <= a + k, n * wb <= h * wm + (j - k) * wb * wm
  PROVE  c * wb <= h * wc + j * wb * wc
<1> DEFINE s == j - k
<1>0. s \in Int
  OBVIOUS
<1>1. (a * wm) * wb < (n * wc) * wb
  BY TimesLess
<1>2. (n * wb) * wc <= (h * wm + s * wb * wm) * wc
  BY TimesLess, TimesAssoc, <1>0
<1> HIDE DEF s
<1>3. (h * wm + s * wb * wm) * wc = (h * wc) * wm + (s * wb * wc) * wm
  <2>1. h * wm \in Int /\ s * wb \in Int /\ s * wb * wm \in Int
    BY <1>0, TimesAssoc
  <2>2. (h * wm + s * wb * wm) * wc = (h * wm) * wc + (s * wb * wm) * wc
    BY <2>1, TimesAssoc
  <2>3. (h * wm) * wc = (h * wc) * wm /\ (s * wb * wm) * wc = (s * wb * wc) * wm
    BY <2>1, TimesAssoc
  <2> QED
    BY <2>2, <2>3
<1>4. (a * wm) * wb = (a * wb) * wm /\ (n * wc) * wb = (n * wb) * wc
  BY TimesAssoc
<1>5. /\ h * wc \in Int /\ s * wb * wc \in Int /\ a * wb \in Int
      /\ (h * wc + s * wb * wc) * wm = (h * wc) * wm + (s * wb * wc) * wm
  BY <1>0, TimesAssoc
<1>6. (a * wb) * wm < (h * wc + s * wb * wc) * wm
  <2>1. /\ (a * wm) * wb \in Int /\ (n * wc) * wb \in Int /\ (n * wb) * wc \in Int
        /\ (h * wc) * wm + (s * wb * wc) * wm \in Int
    BY <1>0, TimesAssoc
  <2> QED
    BY <1>1, <1>2, <1>3, <1>4, <1>5, <2>1
<1>7. a * wb < h * wc + s * wb * wc
  BY <1>5, <1>6, TimesLess
<1>8. c * wb <= (a + k) * wb /\ (a + k) * wb = a * wb + k * wb
  BY TimesLess, TimesAssoc
<1>9. s * wb * wc + k * wb * wc = j * wb * wc
  <2>1. s * wb \in Int /\ k * wb \in Int /\ s * wb + k * wb = j * wb
    BY <1>0, TimesAssoc DEF s
  <2>2. (s * wb + k * wb) * wc = s * wb * wc + k * wb * wc
    BY <2>1, TimesAssoc
  <2> QED
    BY <2>1, <2>2
<1>10. k * wb \in Nat /\ k * wb <= k * wb * wc
  <2>1. k * wb \in Nat
    <3>1. 0 * wb <= k * wb
      BY TimesLess
    <3>2. 0 * wb = 0 /\ k * wb \in Int
      BY TimesAssoc
    <3> QED
      BY <3>1, <3>2
  <2>2. 1 * (k * wb) <= wc * (k * wb)
    BY <2>1
  <2> QED
    BY <2>1, <2>2, TimesAssoc
<1>11. c * wb \in Int /\ k * wb * wc \in Int /\ j * wb * wc \in Int /\ (a + k) * wb \in Int
  BY <1>10, TimesAssoc
<1> QED
  BY <1>5, <1>7, <1>8, <1>9, <1>10, <1>11

-----------------------------------------------------------------------------
(* The calls *)

LCActs(c) == List(c) \/ Load(c) \/ Compare(c) \/ Connect(c) \/ Leave(c)

\* What a call lists: backends, each once.
LEMMA ListedOnce ==
  ASSUME NEW n \in 1..Len(Baseline), NEW healthy \in [1..n -> Members(Baseline)],
         InOrderOf(healthy, Baseline)
  PROVE  /\ healthy \in Seq(Backend) /\ Len(healthy) = n
         /\ Head(healthy) = healthy[1] /\ healthy[1] \in Backend
         /\ NoRepeats(healthy)
<1>1. Baseline \in Seq(Backend) /\ Len(Baseline) \in Nat
  BY BackendAssumption, LenProperties DEF BackendAssumption
<1>2. Members(Baseline) \subseteq Backend
  BY <1>1, ElementOfSeq DEF Members
<1>3. healthy \in [1..n -> Backend] /\ n \in Nat \ {0}
  BY <1>1, <1>2
<1>4. healthy \in Seq(Backend) /\ Len(healthy) = n /\ healthy[1] \in Backend
  BY <1>3
<1>5. Head(healthy) = healthy[1]
  BY <1>4, HeadTailProperties
<1>6. NoRepeats(healthy)
  <2> SUFFICES ASSUME NEW i \in 1..n, NEW j \in 1..n, i < j, healthy[i] = healthy[j]
               PROVE  FALSE
    BY <1>3, <1>4 DEF NoRepeats
  <2>1. PositionOf(Baseline, healthy[i]) \in 1..Len(Baseline)
    BY <1>1, PositionProperties
  <2>2. PositionOf(Baseline, healthy[i]) < PositionOf(Baseline, healthy[j])
    BY <1>4 DEF InOrderOf
  <2> QED
    BY <1>1, <2>1, <2>2
<1> QED
  BY <1>4, <1>5, <1>6

\* A step of one caller leaves the calls of the others alone.
LEMMA OneCallMoves ==
  ASSUME NEW c \in Caller, NEW d \in Caller, d # c, LCActs(c), LCTypeOK
  PROVE  /\ pc'[d] = pc[d] /\ list'[d] = list[d] /\ next'[d] = next[d]
         /\ best'[d] = best[d] /\ loaded'[d] = loaded[d]
<1>1. CASE List(c)
  BY <1>1 DEF List, Goto, LCTypeOK
<1>2. CASE Load(c)
  BY <1>2 DEF Load, Goto, LCTypeOK
<1>3. CASE Compare(c)
  BY <1>3 DEF Compare, Goto, LCTypeOK
<1>4. CASE Connect(c)
  BY <1>4 DEF Connect, Goto, LCTypeOK
<1>5. CASE Leave(c)
  BY <1>5 DEF Leave, Goto, LCTypeOK
<1> QED
  BY <1>1, <1>2, <1>3, <1>4, <1>5 DEF LCActs

LEMMA SameCall ==
  ASSUME NEW d \in Caller, CallInv(d),
         pc'[d] = pc[d], list'[d] = list[d], next'[d] = next[d], best'[d] = best[d]
  PROVE  CallInv(d)'
  BY DEF CallInv, InCall

\* One step moves at most one count, by one.
LEMMA CountsMove ==
  ASSUME NEW c \in Caller, LCActs(c), LCTypeOK, CallInv(c)
  PROVE  \/ conns' = conns
         \/ \E x \in Backend : conns' = [conns EXCEPT ![x] = @ + 1]
         \/ \E x \in Backend : conns' = [conns EXCEPT ![x] = @ - 1]
<1>1. CASE List(c) \/ Load(c) \/ Compare(c)
  BY <1>1 DEF List, Load, Compare
<1>2. CASE Connect(c)
  <2>1. best[c] \in Backend
    BY <1>2 DEF Connect, CallInv
  <2> QED
    BY <1>2, <2>1 DEF Connect
<1>3. CASE Leave(c)
  <2>1. best[c] \in Backend
    BY <1>3 DEF Leave, CallInv
  <2> QED
    BY <1>3, <2>1 DEF Leave
<1> QED
  BY <1>1, <1>2, <1>3 DEF LCActs

LEMMA CountsTyped ==
  ASSUME NEW c \in Caller, LCActs(c), LCTypeOK, CallInv(c)
  PROVE  conns' \in [Backend -> Int]
<1>1. conns \in [Backend -> Int]
  BY DEF LCTypeOK
<1>2. \A x \in Backend : [conns EXCEPT ![x] = @ + 1] \in [Backend -> Int]
  BY <1>1
<1>3. \A x \in Backend : [conns EXCEPT ![x] = @ - 1] \in [Backend -> Int]
  BY <1>1
<1> QED
  BY <1>1, <1>2, <1>3, CountsMove

\* The acting caller's call keeps its invariant, and the types.
LEMMA CallStep ==
  ASSUME NEW c \in Caller, LCActs(c), LCTypeOK, CallInv(c)
  PROVE  /\ pc' \in [Caller -> {"idle", "load", "compare", "picked", "attempt"}]
         /\ list' \in [Caller -> Seq(Backend)]
         /\ next' \in [Caller -> Nat \ {0}]
         /\ best' \in [Caller -> Backend \cup {NoPick}]
         /\ loaded' \in [Caller -> Int]
         /\ CallInv(c)'
<1> USE DEF Goto
<1>0. /\ list[c] \in Seq(Backend) /\ Len(list[c]) \in Nat /\ next[c] \in Nat \ {0}
      /\ loaded[c] \in Int
  BY LenProperties DEF LCTypeOK
<1>1. CASE List(c)
  <2>0. PICK n \in 1..Len(Baseline) : \E healthy \in [1..n -> Members(Baseline)] :
          /\ InOrderOf(healthy, Baseline)
          /\ list' = [list EXCEPT ![c] = healthy]
          /\ best' = [best EXCEPT ![c] = Head(healthy)]
          /\ pc' = [pc EXCEPT ![c] = IF n = 1 THEN "picked" ELSE "load"]
    BY <1>1 DEF List
  <2>1. PICK healthy \in [1..n -> Members(Baseline)] :
          /\ InOrderOf(healthy, Baseline)
          /\ list' = [list EXCEPT ![c] = healthy]
          /\ best' = [best EXCEPT ![c] = Head(healthy)]
          /\ pc' = [pc EXCEPT ![c] = IF n = 1 THEN "picked" ELSE "load"]
    BY <2>0
  <2>2. /\ healthy \in Seq(Backend) /\ Len(healthy) = n
        /\ Head(healthy) = healthy[1] /\ healthy[1] \in Backend /\ NoRepeats(healthy)
    BY <2>1, ListedOnce
  <2>3. /\ next' = [next EXCEPT ![c] = 2] /\ loaded' = loaded
    BY <1>1 DEF List
  <2>4. n \in Nat \ {0}
    BY BackendAssumption, LenProperties DEF BackendAssumption
  <2>5. /\ list'[c] = healthy /\ next'[c] = 2 /\ best'[c] = healthy[1]
        /\ pc'[c] = IF n = 1 THEN "picked" ELSE "load"
    BY <2>1, <2>2, <2>3 DEF LCTypeOK
  <2>6. CallInv(c)'
    BY <2>2, <2>4, <2>5 DEF CallInv, InCall
  <2> QED
    BY <2>1, <2>2, <2>3, <2>6 DEF LCTypeOK
<1>2. CASE Load(c)
  <2>1. /\ next[c] \in 1..Len(list[c]) /\ pc[c] = "load"
    BY <1>0, <1>2 DEF Load, CallInv, InCall
  <2>2. Challenger(c) \in Backend
    BY <1>0, <2>1, ElementOfSeq DEF Challenger
  <2>3. CallInv(c)'
    BY <1>2 DEF Load, CallInv, InCall, LCTypeOK
  <2> QED
    BY <1>2, <2>2, <2>3 DEF Load, LCTypeOK
<1>3. CASE Compare(c)
  <2>1. /\ next[c] \in 1..Len(list[c]) /\ pc[c] = "compare" /\ NoRepeats(list[c])
        /\ best[c] \in Backend
        /\ \E i \in 1..(next[c] - 1) : best[c] = list[c][i]
    BY <1>0, <1>3 DEF Compare, CallInv, InCall
  <2>2. Challenger(c) \in Backend /\ Challenger(c) = list[c][next[c]]
    BY <1>0, <2>1, ElementOfSeq DEF Challenger
  <2>3. /\ list' = list /\ next'[c] = next[c] + 1
        /\ best'[c] \in {best[c], Challenger(c)}
        /\ pc'[c] = IF next[c] = Len(list[c]) THEN "picked" ELSE "load"
    BY <1>3 DEF Compare, LCTypeOK
  <2>4. \E i \in 1..(next'[c] - 1) : best'[c] = list'[c][i]
    <3>1. CASE best'[c] = best[c]
      BY <1>0, <2>1, <2>3, <3>1
    <3>2. CASE best'[c] = Challenger(c)
      BY <1>0, <2>1, <2>2, <2>3, <3>2
    <3> QED
      BY <2>3, <3>1, <3>2
  <2>5. best'[c] \in Backend
    BY <2>1, <2>2, <2>3
  <2>6. CallInv(c)'
    BY <1>0, <2>1, <2>3, <2>4, <2>5 DEF CallInv, InCall
  <2>7. /\ pc' \in [Caller -> {"idle", "load", "compare", "picked", "attempt"}]
        /\ next' \in [Caller -> Nat \ {0}] /\ loaded' \in [Caller -> Int]
    BY <1>0, <1>3 DEF Compare, Goto, LCTypeOK
  <2>8. best' \in [Caller -> Backend \cup {NoPick}]
    BY <1>0, <1>3, <2>2 DEF Compare, LCTypeOK
  <2> QED
    BY <1>0, <1>3, <2>6, <2>7, <2>8 DEF Compare, LCTypeOK
<1>4. CASE Connect(c)
  <2>1. CallInv(c)'
    BY <1>4 DEF Connect, CallInv, InCall, LCTypeOK
  <2> QED
    BY <1>4, <2>1 DEF Connect, LCTypeOK
<1>5. CASE Leave(c)
  <2>1. CallInv(c)'
    BY <1>5 DEF Leave, CallInv, InCall, LCTypeOK
  <2>2. << >> \in Seq(Backend)
    OBVIOUS
  <2> QED
    BY <1>5, <2>1, <2>2 DEF Leave, LCTypeOK
<1> QED
  BY <1>1, <1>2, <1>3, <1>4, <1>5 DEF LCActs

-----------------------------------------------------------------------------
(* The history *)

LEMMA TrackRest ==
  ASSUME pc'[Watched] \in {"idle", "attempt"}, Track,
         InCall(Watched) => pc'[Watched] \in {"load", "compare", "picked"},
         pc[Watched] = "idle" => pc'[Watched] = "idle"
  PROVE  low' = [b \in Backend |-> 0] /\ high' = [b \in Backend |-> 0] /\ joins' = 0
  BY DEF Track, InCall

LEMMA TrackStart ==
  ASSUME pc[Watched] = "idle", pc'[Watched] \in {"load", "picked"}, Track
  PROVE  low' = conns' /\ high' = conns' /\ joins' = 0
  BY DEF Track, InCall

LEMMA TrackPicked ==
  ASSUME pc[Watched] = "picked", pc'[Watched] = "picked", Track
  PROVE  low' = low /\ high' = high /\ joins' = joins
  BY DEF Track, InCall, historyVars

\* During a call low and high only ever move apart, around the counts.
LEMMA TrackCall ==
  ASSUME InCall(Watched), pc'[Watched] \in {"load", "compare", "picked"}, Track,
         LCTypeOK, conns' \in [Backend -> Int]
  PROVE  /\ low' \in [Backend -> Int] /\ high' \in [Backend -> Int] /\ joins' \in Nat
         /\ \A b \in Backend : /\ low'[b] <= low[b] /\ low'[b] <= conns'[b]
                               /\ high[b] <= high'[b] /\ conns'[b] <= high'[b]
         /\ joins <= joins'
         /\ \A b \in Backend : conns'[b] > conns[b] => joins' = joins + 1
<1>1. /\ low' = [b \in Backend |-> Lesser(low[b], conns'[b])]
      /\ high' = [b \in Backend |-> Greater(high[b], conns'[b])]
      /\ joins' = joins + IF \E b \in Backend : conns'[b] > conns[b] THEN 1 ELSE 0
  BY DEF Track, InCall
<1>2. \A b \in Backend : low[b] \in Int /\ high[b] \in Int /\ conns'[b] \in Int
  BY DEF LCTypeOK
<1>3. joins' \in Nat /\ joins <= joins'
      /\ \A b \in Backend : conns'[b] > conns[b] => joins' = joins + 1
  BY <1>1 DEF LCTypeOK
<1> QED
  BY <1>1, <1>2, <1>3 DEF Lesser, Greater

-----------------------------------------------------------------------------
(* What a step leaves of the watched call's comparisons *)

WeightOK == Weight \in [Backend -> Nat \ {0}]

LEMMA WatchedCall ==
  ASSUME LCTypeOK, CallInv(Watched), InCall(Watched)
  PROVE  /\ list[Watched] \in Seq(Backend) /\ Len(list[Watched]) \in Nat
         /\ next[Watched] \in 1..Len(list[Watched])
         /\ \A i \in 1..Len(list[Watched]) : list[Watched][i] \in Backend
         /\ best[Watched] \in Backend /\ Challenger(Watched) \in Backend
         /\ best[Watched] # Challenger(Watched)
         /\ loaded[Watched] \in Int
<1>1. /\ list[Watched] \in Seq(Backend) /\ next[Watched] \in Nat \ {0} /\ loaded[Watched] \in Int
  BY LeastConnectionsAssumption DEF LCTypeOK, LeastConnectionsAssumption
<1>2. /\ Len(list[Watched]) \in Nat
      /\ \A i \in 1..Len(list[Watched]) : list[Watched][i] \in Backend
  BY <1>1, LenProperties, ElementOfSeq
<1>3. /\ pc[Watched] # "idle" /\ next[Watched] <= Len(list[Watched]) /\ NoRepeats(list[Watched])
      /\ best[Watched] \in Backend
      /\ \E i \in 1..(next[Watched] - 1) : best[Watched] = list[Watched][i]
  BY DEF CallInv, InCall
<1>4. best[Watched] # Challenger(Watched)
  BY <1>1, <1>2, <1>3 DEF NoRepeats, Challenger
<1> QED
  BY <1>1, <1>2, <1>3, <1>4 DEF Challenger

\* Another caller's step: the counts move, the watched call does not.
LEMMA OthersMove ==
  ASSUME LCTypeOK, CallInv(Watched), InCall(Watched), HistoryInv, NearLeastSoFar, QuietSoFar,
         NEW c \in Caller \ {Watched}, LCActs(c), CallInv(c), Track
  PROVE  HistoryInv' /\ NearLeastSoFar' /\ QuietSoFar'
<1> DEFINE w == Watched
           m == best[Watched]
           L == list[Watched]
           ch == list[Watched][next[Watched]]
<1>1. /\ pc'[w] = pc[w] /\ list'[w] = L /\ next'[w] = next[w] /\ best'[w] = m
      /\ loaded'[w] = loaded[w]
  BY OneCallMoves, LeastConnectionsAssumption DEF LeastConnectionsAssumption
<1>2. conns' \in [Backend -> Int] /\ conns \in [Backend -> Int]
  BY CountsTyped DEF LCTypeOK
<1>3. /\ low' \in [Backend -> Int] /\ high' \in [Backend -> Int] /\ joins' \in Nat
      /\ \A b \in Backend : /\ low'[b] <= low[b] /\ low'[b] <= conns'[b]
                            /\ high[b] <= high'[b] /\ conns'[b] <= high'[b]
      /\ joins <= joins'
      /\ \A b \in Backend : conns'[b] > conns[b] => joins' = joins + 1
  BY <1>1, <1>2, TrackCall DEF InCall
<1>4. /\ L \in Seq(Backend) /\ Len(L) \in Nat /\ next[w] \in 1..Len(L)
      /\ \A i \in 1..Len(L) : L[i] \in Backend
      /\ m \in Backend /\ ch \in Backend /\ m # ch /\ loaded[w] \in Int
  BY WatchedCall DEF Challenger
<1>5. /\ low \in [Backend -> Int] /\ high \in [Backend -> Int] /\ joins \in Nat
      /\ \A b \in Backend : Weight[b] \in Nat \ {0}
  BY LeastConnectionsAssumption DEF LeastConnectionsAssumption, LCTypeOK
<1>6. HistoryInv'
  <2>1. \A b \in Backend : low'[b] <= conns'[b] /\ conns'[b] <= high'[b]
    BY <1>3
  <2>2. ASSUME pc[w] = "compare" PROVE low'[ch] <= loaded[w] /\ loaded[w] <= high'[ch]
    <3>1. low[ch] <= loaded[w] /\ loaded[w] <= high[ch]
      BY <2>2 DEF HistoryInv, Challenger
    <3>2. low'[ch] <= low[ch] /\ high[ch] <= high'[ch]
      BY <1>3, <1>4
    <3>3. low'[ch] \in Int /\ low[ch] \in Int /\ high'[ch] \in Int /\ high[ch] \in Int
      BY <1>3, <1>4, <1>5
    <3> QED
      BY <1>4, <3>1, <3>2, <3>3
  <2> QED
    BY <1>1, <2>1, <2>2 DEF HistoryInv, Challenger
<1> DEFINE n == conns[m]
           n1 == conns'[m]
           a == conns[ch]
           a1 == conns'[ch]
<1>7. /\ n \in Int /\ n1 \in Int /\ a \in Int /\ a1 \in Int /\ loaded[w] \in Int
      /\ joins \in Nat /\ joins' \in Nat /\ joins <= joins'
  BY <1>2, <1>3, <1>4, <1>5
<1>8. \/ n1 = n + 1 /\ a1 = a /\ joins' = joins + 1
      \/ n1 <= n /\ a1 <= a + 1 /\ joins' = joins + 1
      \/ n1 <= n /\ a1 <= a
  <2>1. CASE conns' = conns
    BY <1>7, <2>1
  <2>2. CASE \E x \in Backend : conns' = [conns EXCEPT ![x] = @ + 1]
    <3>1. PICK x \in Backend : conns' = [conns EXCEPT ![x] = @ + 1]
      BY <2>2
    <3>2. conns'[x] = conns[x] + 1 /\ conns[x] \in Int /\ conns'[x] \in Int
      BY <1>2, <3>1
    <3>3. joins' = joins + 1
      BY <1>3, <3>2
    <3>4. \A y \in Backend : conns'[y] = IF y = x THEN conns[y] + 1 ELSE conns[y]
      BY ONLY <1>2, <3>1, x \in Backend
    <3>5. /\ n1 = IF m = x THEN n + 1 ELSE n
          /\ a1 = IF ch = x THEN a + 1 ELSE a
      BY <1>4, <3>4
    <3> QED
      BY <1>4, <1>7, <3>3, <3>5
  <2>3. CASE \E x \in Backend : conns' = [conns EXCEPT ![x] = @ - 1]
    <3>1. PICK x \in Backend : conns' = [conns EXCEPT ![x] = @ - 1]
      BY <2>3
    <3>2. \A y \in Backend : conns'[y] = IF y = x THEN conns[y] - 1 ELSE conns[y]
      BY ONLY <1>2, <3>1, x \in Backend
    <3>3. n1 <= n /\ a1 <= a
      BY <1>4, <1>7, <3>2, SMTT(30)
    <3> QED
      BY <3>3
  <2> QED
    BY <2>1, <2>2, <2>3, CountsMove
<1>9. /\ Risen = IF pc[w] = "compare" THEN (IF 0 > a - loaded[w] THEN 0 ELSE a - loaded[w]) ELSE 0
      /\ Risen' = IF pc[w] = "compare" THEN (IF 0 > a1 - loaded[w] THEN 0 ELSE a1 - loaded[w]) ELSE 0
      /\ Risen <= joins
  BY <1>1 DEF Risen, Greater, Challenger, NearLeastSoFar
<1>10. ASSUME NEW i \in 1..(next[w] - 1)
       PROVE  /\ L[i] \in Backend
              /\ n * Weight[L[i]] <=
                   high[L[i]] * Weight[m] + (joins - Risen) * Weight[L[i]] * Weight[m]
  <2>1. L[i] \in Backend
    BY <1>4
  <2> QED
    BY <2>1 DEF NearLeastSoFar
<1> HIDE DEF n, n1, a, a1
<1>11. NearLeastSoFar'
  <2>1. /\ Risen \in Nat /\ Risen' \in Nat /\ Risen' <= joins'
        /\ \/ n1 = n + 1 /\ (joins - Risen) + 1 <= joins' - Risen'
           \/ n1 <= n /\ joins - Risen <= joins' - Risen'
    BY <1>7, <1>8, <1>9
  <2>2. ASSUME NEW i \in 1..(next[w] - 1)
        PROVE  n1 * Weight[L[i]] <=
                 high'[L[i]] * Weight[m] + (joins' - Risen') * Weight[L[i]] * Weight[m]
    <3> DEFINE b == L[i]
               s == joins - Risen
               t == joins' - Risen'
    <3>1. b \in Backend /\ n * Weight[b] <= high[b] * Weight[m] + s * Weight[b] * Weight[m]
      BY <1>10
    <3>2. s \in Int /\ t \in Int
      BY <1>7, <2>1
    <3>3. (n1 = n + 1 /\ s + 1 <= t) \/ (n1 <= n /\ s <= t)
      BY <2>1
    <3> SUFFICES n1 * Weight[b] <= high'[b] * Weight[m] + t * Weight[b] * Weight[m]
      OBVIOUS
    <3> HIDE DEF b, s, t
    <3>4. /\ high[b] \in Int /\ high'[b] \in Int /\ high[b] <= high'[b]
          /\ Weight[b] \in Nat \ {0} /\ Weight[m] \in Nat \ {0}
      BY <1>3, <1>4, <1>5, <3>1
    <3> HIDE DEF m
    <3>5. CASE n1 = n + 1 /\ s + 1 <= t
      <4>1. (n + 1) * Weight[b] <= high[b] * Weight[m] + (s + 1) * Weight[b] * Weight[m]
        BY <1>7, <3>1, <3>2, <3>4, ProductJoin
      <4>2. n + 1 \in Int /\ s + 1 \in Int /\ n1 <= n + 1
        BY <1>7, <3>2, <3>5
      <4> QED
        BY <1>7, <3>2, <3>4, <3>5, <4>1, <4>2, ProductOrder
    <3>6. CASE n1 <= n /\ s <= t
      BY <1>7, <3>1, <3>2, <3>4, <3>6, ProductOrder
    <3> QED
      BY <3>3, <3>5, <3>6
  <2> QED
    BY <1>1, <2>1, <2>2 DEF NearLeastSoFar, n1
<1>12. QuietSoFar'
  <2> SUFFICES ASSUME low' = high' PROVE QuietSoFar'
    BY DEF QuietSoFar
  <2>1. \A b \in Backend : low'[b] = low[b] /\ high[b] = low[b]
    BY <1>2, <1>3, <1>5 DEF HistoryInv
  <2>2. low' = low /\ low = high
    BY <1>3, <1>5, <2>1
  <2> QED
    BY <1>1, <2>2 DEF QuietSoFar
<1> QED
  BY <1>6, <1>11, <1>12

\* A step of the watched call itself leaves the counts alone.
LEMMA TrackStill ==
  ASSUME InCall(Watched), pc'[Watched] \in {"load", "compare", "picked"}, Track,
         LCTypeOK, conns' = conns, HistoryInv
  PROVE  low' = low /\ high' = high /\ joins' = joins
<1>1. /\ low' = [b \in Backend |-> Lesser(low[b], conns'[b])]
      /\ high' = [b \in Backend |-> Greater(high[b], conns'[b])]
      /\ joins' = joins + IF \E b \in Backend : conns'[b] > conns[b] THEN 1 ELSE 0
  BY DEF Track, InCall
<1>2. /\ conns \in [Backend -> Int] /\ low \in [Backend -> Int] /\ high \in [Backend -> Int]
      /\ joins \in Nat
      /\ \A b \in Backend : low[b] <= conns[b] /\ conns[b] <= high[b]
  BY DEF LCTypeOK, HistoryInv
<1>3. \A b \in Backend : low'[b] = low[b] /\ high'[b] = high[b]
  BY <1>1, <1>2 DEF Lesser, Greater
<1>4. joins' = joins
  BY <1>1, <1>2
<1>5. low' \in [Backend -> Int] /\ high' \in [Backend -> Int]
  BY <1>1, <1>2, <1>3
<1> QED
  BY <1>2, <1>3, <1>4, <1>5

LEMMA WatchedLists ==
  ASSUME LCTypeOK, List(Watched), Track
  PROVE  /\ InCall(Watched)' => HistoryInv' /\ NearLeastSoFar'
         /\ QuietSoFar' /\ PickNearLeast'
<1> DEFINE w == Watched
<1> USE DEF Goto
<1>0. /\ w \in Caller /\ conns \in [Backend -> Int]
      /\ \A b \in Backend : Weight[b] \in Nat \ {0} /\ conns[b] \in Int
  BY LeastConnectionsAssumption DEF LeastConnectionsAssumption, LCTypeOK
<1>1. PICK n \in 1..Len(Baseline) : \E healthy \in [1..n -> Members(Baseline)] :
        /\ InOrderOf(healthy, Baseline)
        /\ list' = [list EXCEPT ![w] = healthy]
        /\ best' = [best EXCEPT ![w] = Head(healthy)]
        /\ pc' = [pc EXCEPT ![w] = IF n = 1 THEN "picked" ELSE "load"]
  BY DEF List
<1>2. PICK healthy \in [1..n -> Members(Baseline)] :
        /\ InOrderOf(healthy, Baseline)
        /\ list' = [list EXCEPT ![w] = healthy]
        /\ best' = [best EXCEPT ![w] = Head(healthy)]
        /\ pc' = [pc EXCEPT ![w] = IF n = 1 THEN "picked" ELSE "load"]
  BY <1>1
<1>3. /\ healthy \in Seq(Backend) /\ Len(healthy) = n
      /\ Head(healthy) = healthy[1] /\ healthy[1] \in Backend
  BY <1>2, ListedOnce
<1>4. /\ list'[w] = healthy /\ best'[w] = healthy[1] /\ next'[w] = 2
      /\ pc'[w] = IF n = 1 THEN "picked" ELSE "load"
      /\ conns' = conns /\ pc[w] = "idle"
  BY <1>0, <1>2, <1>3 DEF List, LCTypeOK
<1>5. low' = conns /\ high' = conns /\ joins' = 0
  BY <1>4, TrackStart
<1> DEFINE x == healthy[1]
<1>6. Risen' = 0
  BY <1>4 DEF Risen
<1>7. conns[x] * Weight[x] <= conns[x] * Weight[x] + 0 * Weight[x] * Weight[x]
  <2>1. conns[x] * Weight[x] \in Int /\ 0 * Weight[x] = 0 /\ 0 * Weight[x] * Weight[x] = 0
    BY <1>0, <1>3, TimesAssoc
  <2> QED
    BY <2>1
<1>8. HistoryInv'
  BY <1>0, <1>4, <1>5 DEF HistoryInv
<1>9. NearLeastSoFar'
  <2>1. \A i \in 1..(next'[w] - 1) : list'[w][i] = x
    BY <1>4
  <2>2. joins' - Risen' = 0 /\ Risen' <= joins'
    BY <1>5, <1>6
  <2> QED
    BY <1>4, <1>5, <1>7, <2>1, <2>2 DEF NearLeastSoFar
<1>10. QuietSoFar'
  <2>1. ~LighterThan(x, x, conns, Weight)
    BY <1>0, <1>3 DEF LighterThan
  <2>2. FirstLeast(healthy, next'[w] - 1, 1, conns, Weight) /\ 1 \in 1..(next'[w] - 1)
    BY <1>4, <2>1 DEF FirstLeast
  <2> QED
    BY <1>4, <1>5, <2>2 DEF QuietSoFar
<1>11. PickNearLeast'
  <2> SUFFICES ASSUME pc'[w] = "picked", NEW b \in Members(healthy)
               PROVE  low'[x] * Weight[b] <= high'[b] * Weight[x] + joins' * Weight[b] * Weight[x]
    BY <1>4 DEF PickNearLeast
  <2>1. n = 1
    BY <1>4
  <2>2. b = x
    BY <1>3, <2>1 DEF Members
  <2> QED
    BY <1>5, <1>7, <2>2
<1> QED
  BY <1>8, <1>9, <1>10, <1>11

LEMMA WatchedLoads ==
  ASSUME LCTypeOK, CallInv(Watched), HistoryInv, NearLeastSoFar, QuietSoFar, Load(Watched), Track
  PROVE  HistoryInv' /\ NearLeastSoFar' /\ QuietSoFar' /\ PickNearLeast'
<1> DEFINE w == Watched
           ch == list[Watched][next[Watched]]
<1>0. w \in Caller /\ conns \in [Backend -> Int]
  BY LeastConnectionsAssumption DEF LeastConnectionsAssumption, LCTypeOK
<1>1. /\ pc[w] = "load" /\ pc'[w] = "compare" /\ loaded'[w] = conns[ch]
      /\ conns' = conns /\ list' = list /\ next' = next /\ best' = best
  BY <1>0 DEF Load, Goto, LCTypeOK, Challenger
<1>2. ch \in Backend
  BY <1>1, WatchedCall DEF InCall, Challenger
<1>3. low' = low /\ high' = high /\ joins' = joins
  BY <1>1, TrackStill DEF InCall
<1>4. HistoryInv'
  BY <1>0, <1>1, <1>2, <1>3 DEF HistoryInv, Challenger
<1>5. Risen = 0 /\ Risen' = 0
  <2>1. conns[ch] \in Int
    BY <1>0, <1>2
  <2>2. conns[ch] - conns[ch] = 0
    BY <2>1
  <2> QED
    BY <1>1, <2>2 DEF Risen, Greater, Challenger
<1>6. NearLeastSoFar'
  BY <1>1, <1>3, <1>5 DEF NearLeastSoFar
<1>7. QuietSoFar'
  BY <1>1, <1>3 DEF QuietSoFar
<1>8. PickNearLeast'
  BY <1>1 DEF PickNearLeast
<1> QED
  BY <1>4, <1>6, <1>7, <1>8

LEMMA WatchedCompares ==
  ASSUME LCTypeOK, CallInv(Watched), HistoryInv, NearLeastSoFar, QuietSoFar, Compare(Watched), Track
  PROVE  /\ InCall(Watched)' => HistoryInv' /\ NearLeastSoFar'
         /\ QuietSoFar' /\ PickNearLeast'
<1> DEFINE w == Watched
           L == list[Watched]
           m == best[Watched]
           ch == list[Watched][next[Watched]]
           new == IF Beats(Watched) THEN ch ELSE m
<1>0. /\ w \in Caller /\ conns \in [Backend -> Int] /\ joins \in Nat
      /\ low \in [Backend -> Int] /\ high \in [Backend -> Int]
      /\ Weight \in [Backend -> Nat \ {0}]
  BY LeastConnectionsAssumption DEF LeastConnectionsAssumption, LCTypeOK
<1>1. /\ pc[w] = "compare" /\ next'[w] = next[w] + 1 /\ best'[w] = new
      /\ pc'[w] = IF next[w] = Len(L) THEN "picked" ELSE "load"
      /\ conns' = conns /\ list' = list
  BY <1>0 DEF Compare, Goto, LCTypeOK, Challenger
<1>2. /\ L \in Seq(Backend) /\ Len(L) \in Nat /\ next[w] \in 1..Len(L)
      /\ \A i \in 1..Len(L) : L[i] \in Backend
      /\ m \in Backend /\ ch \in Backend /\ loaded[w] \in Int
  BY <1>1, WatchedCall DEF InCall, Challenger
<1>3. low' = low /\ high' = high /\ joins' = joins
  BY <1>1, TrackStill DEF InCall
<1>4. /\ \A b \in Backend : low[b] <= conns[b] /\ conns[b] <= high[b]
      /\ low[ch] <= loaded[w] /\ loaded[w] <= high[ch]
  BY <1>1 DEF HistoryInv, Challenger
<1>5. Beats(w) <=> loaded[w] * Weight[m] < conns[m] * Weight[ch]
  BY DEF Beats, Challenger
<1>6. Risen \in Nat /\ Risen <= joins /\ conns[ch] <= loaded[w] + Risen
  <2>1. /\ Risen = IF 0 > conns[ch] - loaded[w] THEN 0 ELSE conns[ch] - loaded[w]
        /\ Risen <= joins
    BY <1>1 DEF Risen, Greater, Challenger, NearLeastSoFar
  <2>2. conns[ch] \in Int
    BY <1>0, <1>2
  <2> QED
    BY <1>2, <2>1, <2>2
<1>7. ASSUME NEW i \in 1..next[w]
      PROVE  conns[new] * Weight[L[i]] <= high[L[i]] * Weight[new] + joins * Weight[L[i]] * Weight[new]
  <2> DEFINE b == L[i]
             s == joins - Risen
  <2>1. /\ b \in Backend /\ high[b] \in Int /\ high[ch] \in Int /\ s \in Int /\ s <= joins
        /\ conns[m] \in Int /\ conns[ch] \in Int /\ conns[ch] <= high[ch]
        /\ Weight[b] \in Nat \ {0} /\ Weight[m] \in Nat \ {0} /\ Weight[ch] \in Nat \ {0}
    <3>1. b \in Backend
      BY <1>2
    <3>2. s \in Int /\ s <= joins
      BY <1>0, <1>6
    <3> QED
      BY <1>0, <1>2, <1>4, <3>1, <3>2
  <2>2. i < next[w] =>
          conns[m] * Weight[b] <= high[b] * Weight[m] + s * Weight[b] * Weight[m]
    BY <1>2 DEF NearLeastSoFar
  <2>3. i = next[w] => b = ch
    OBVIOUS
  <2>4. i < next[w] \/ i = next[w]
    BY <1>2
  <2> SUFFICES conns[new] * Weight[b] <= high[b] * Weight[new] + joins * Weight[b] * Weight[new]
    OBVIOUS
  <2>5. CASE Beats(w) /\ i < next[w]
    <3>1. conns[ch] * Weight[b] <= high[b] * Weight[ch] + joins * Weight[b] * Weight[ch]
      <4>1. loaded[w] * Weight[m] < conns[m] * Weight[ch]
        BY <1>5, <2>5
      <4>2. conns[m] * Weight[b] <= high[b] * Weight[m] + (joins - Risen) * Weight[b] * Weight[m]
        BY <2>2, <2>5
      <4>3. joins \in Int /\ loaded[w] \in Int
        BY <1>0, <1>2
      <4> HIDE DEF b, ch, m, w
      <4> QED
        BY <1>6, <2>1, <4>1, <4>2, <4>3, ProductBeaten
    <3>2. new = ch
      BY <2>5
    <3> HIDE DEF new, b, ch
    <3> QED
      BY <3>1, <3>2
  <2>6. CASE Beats(w) /\ i = next[w]
    <3>1. new = ch /\ b = ch
      BY <2>3, <2>6
    <3> HIDE DEF new, b, ch, m
    <3>2. conns[ch] * Weight[ch] <= high[ch] * Weight[ch]
      BY <2>1, TimesLess
    <3>3. 0 <= joins * Weight[ch] * Weight[ch]
      <4>1. 0 * Weight[ch] <= joins * Weight[ch] /\ 0 * Weight[ch] = 0 /\ joins * Weight[ch] \in Int
        BY <1>0, <2>1, TimesLess, TimesAssoc
      <4>2. 0 * Weight[ch] <= joins * Weight[ch] * Weight[ch]
        BY <2>1, <4>1, TimesLess
      <4> QED
        BY <4>1, <4>2
    <3>4. /\ conns[ch] * Weight[ch] \in Int /\ high[ch] * Weight[ch] \in Int
          /\ joins * Weight[ch] * Weight[ch] \in Int
      BY <1>0, <2>1, TimesAssoc
    <3> QED
      BY <3>1, <3>2, <3>3, <3>4
  <2>7. CASE ~Beats(w) /\ i < next[w]
    <3>1. new = m
      BY <2>7
    <3> HIDE DEF new, b, m, s
    <3>2. conns[m] * Weight[b] <= high[b] * Weight[m] + joins * Weight[b] * Weight[m]
      <4>1. joins \in Int /\ conns[m] <= conns[m] /\ high[b] <= high[b]
        BY <1>0, <2>1
      <4> QED
        BY <2>1, <2>2, <2>7, <4>1, ProductOrder
    <3> QED
      BY <3>1, <3>2
  <2>8. CASE ~Beats(w) /\ i = next[w]
    <3>1. new = m /\ b = ch
      BY <2>3, <2>8
    <3>2. conns[m] * Weight[ch] <= loaded[w] * Weight[m]
      <4>1. conns[m] * Weight[ch] \in Int /\ loaded[w] * Weight[m] \in Int
        <5>1. conns[m] \in Int /\ Weight[ch] \in Int /\ loaded[w] \in Int /\ Weight[m] \in Int
          BY <1>2, <2>1
        <5> HIDE DEF m, ch
        <5> QED
          BY ONLY <5>1, TimesAssoc
      <4> HIDE DEF m, ch
      <4> QED
        BY <1>5, <2>8, <4>1
    <3> HIDE DEF new, b, ch, m
    <3>3. loaded[w] * Weight[m] <= high[ch] * Weight[m]
      BY <1>2, <1>4, <2>1, TimesLess
    <3>4. 0 <= joins * Weight[ch] * Weight[m]
      <4>1. 0 * Weight[ch] <= joins * Weight[ch] /\ 0 * Weight[ch] = 0 /\ joins * Weight[ch] \in Int
        BY <1>0, <2>1, TimesLess, TimesAssoc
      <4>2. 0 * Weight[m] <= joins * Weight[ch] * Weight[m] /\ 0 * Weight[m] = 0
        BY <2>1, <4>1, TimesLess
      <4> QED
        BY <4>2
    <3>6. joins \in Int /\ loaded[w] \in Int
      BY <1>0, <1>2
    <3>5. /\ conns[m] * Weight[ch] \in Int /\ loaded[w] * Weight[m] \in Int
          /\ high[ch] * Weight[m] \in Int /\ joins * Weight[ch] * Weight[m] \in Int
      BY <2>1, <3>6, TimesAssoc
    <3> QED
      BY <3>1, <3>2, <3>3, <3>4, <3>5
  <2> QED
    BY <2>4, <2>5, <2>6, <2>7, <2>8
<1>8. InCall(w)' => HistoryInv' /\ NearLeastSoFar'
  <2> SUFFICES ASSUME InCall(w)' PROVE HistoryInv' /\ NearLeastSoFar'
    OBVIOUS
  <2>1. pc'[w] = "load"
    BY <1>1 DEF InCall
  <2>2. HistoryInv'
    BY <1>1, <1>3, <1>4, <2>1 DEF HistoryInv
  <2>3. Risen' = 0
    BY <2>1 DEF Risen
  <2>4. joins' - Risen' = joins /\ Risen' <= joins'
    BY <1>0, <1>3, <2>3
  <2>5. 1..(next'[w] - 1) = 1..next[w]
    BY <1>1, <1>2
  <2> HIDE DEF new
  <2>6. NearLeastSoFar'
    BY <1>1, <1>3, <1>7, <2>4, <2>5 DEF NearLeastSoFar
  <2> QED
    BY <2>2, <2>6
<1>9. PickNearLeast'
  <2> SUFFICES ASSUME pc'[w] = "picked", NEW b \in Members(L)
               PROVE  low[new] * Weight[b] <= high[b] * Weight[new] + joins * Weight[b] * Weight[new]
    BY <1>1, <1>3 DEF PickNearLeast
  <2>1. PICK i \in 1..next[w] : b = L[i]
    BY <1>1, <1>2 DEF Members
  <2>2. conns[new] * Weight[b] <= high[b] * Weight[new] + joins * Weight[b] * Weight[new]
    BY <1>7, <2>1
  <2>3. new \in Backend /\ b \in Backend
    BY <1>2, <2>1
  <2> HIDE DEF new
  <2>4. /\ low[new] \in Int /\ conns[new] \in Int /\ low[new] <= conns[new] /\ high[b] \in Int
        /\ high[b] <= high[b] /\ joins \in Int /\ joins <= joins
        /\ Weight[b] \in Nat \ {0} /\ Weight[new] \in Nat \ {0}
    BY <1>0, <1>4, <2>3
  <2> QED
    BY <2>2, <2>4, ProductOrder
<1>10. QuietSoFar'
  <2> SUFFICES ASSUME low = high PROVE QuietSoFar'
    BY <1>3 DEF QuietSoFar
  <2>1. PICK p \in 1..(next[w] - 1) :
          FirstLeast(L, next[w] - 1, p, low, Weight) /\ m = L[p]
    BY DEF QuietSoFar
  <2>2. loaded[w] = low[ch] /\ conns[m] = low[m]
    <3>1. low[ch] \in Int /\ low[m] \in Int /\ conns[m] \in Int
      BY <1>0, <1>2
    <3> QED
      BY <1>2, <1>4, <3>1
  <2>3. Beats(w) <=> LighterThan(ch, m, low, Weight)
    BY <1>5, <2>2 DEF LighterThan
  <2>4. next[w] - 1 \in Nat /\ (next[w] - 1) + 1 = next[w] /\ next'[w] - 1 = next[w]
    BY <1>1, <1>2
  <2> DEFINE q == IF Beats(w) THEN next[w] ELSE p
  <2>5. FirstLeast(L, (next[w] - 1) + 1,
                   IF LighterThan(L[(next[w] - 1) + 1], L[p], low, Weight)
                     THEN (next[w] - 1) + 1 ELSE p, low, Weight)
    <3> DEFINE k == next[w] - 1
    <3>1. k \in Nat /\ k + 1 <= Len(L) /\ FirstLeast(L, k, p, low, Weight)
      BY <1>2, <2>1, <2>4
    <3> HIDE DEF k, L
    <3>2. FirstLeast(L, k + 1, IF LighterThan(L[k + 1], L[p], low, Weight) THEN k + 1 ELSE p,
                     low, Weight)
      BY <1>0, <1>2, <3>1, FirstLeastNext
    <3> QED
      BY <3>2 DEF k
  <2>6. FirstLeast(L, next'[w] - 1, q, low, Weight)
    BY <2>1, <2>3, <2>4, <2>5
  <2>7. q \in 1..(next'[w] - 1) /\ new = L[q]
    BY <1>2, <2>1, <2>4
  <2> HIDE DEF q, new
  <2> QED
    BY <1>1, <1>3, <2>6, <2>7 DEF QuietSoFar
<1> QED
  BY <1>8, <1>9, <1>10

-----------------------------------------------------------------------------
(* The invariant *)

LEMMA WatchedMoves ==
  ASSUME LCTypeOK, NEW c \in Caller, LCActs(c)
  PROVE  /\ InCall(Watched) => pc'[Watched] \in {"load", "compare", "picked"}
         /\ pc[Watched] = "idle" => pc'[Watched] \in {"idle", "load", "picked"}
         /\ pc[Watched] = "picked" => pc'[Watched] \in {"picked", "attempt"}
<1>1. Watched \in Caller
  BY LeastConnectionsAssumption DEF LeastConnectionsAssumption
<1>2. CASE c # Watched
  BY <1>1, <1>2, OneCallMoves DEF InCall
<1>3. CASE c = Watched
  <2>1. CASE List(c)
    BY <1>1, <1>3, <2>1 DEF List, Goto, InCall, LCTypeOK
  <2>2. CASE Load(c) \/ Compare(c) \/ Connect(c) \/ Leave(c)
    BY <1>1, <1>3, <2>2 DEF Load, Compare, Connect, Leave, Goto, InCall, LCTypeOK
  <2> QED
    BY <2>1, <2>2 DEF LCActs
<1> QED
  BY <1>2, <1>3

LEMMA LCTypeStep ==
  ASSUME LCTypeOK, \A d \in Caller : CallInv(d), NEW c \in Caller, LCActs(c), Track
  PROVE  LCTypeOK' /\ \A d \in Caller : CallInv(d)'
<1>0. Watched \in Caller
  BY LeastConnectionsAssumption DEF LeastConnectionsAssumption
<1>1. /\ pc' \in [Caller -> {"idle", "load", "compare", "picked", "attempt"}]
      /\ list' \in [Caller -> Seq(Backend)]
      /\ next' \in [Caller -> Nat \ {0}]
      /\ best' \in [Caller -> Backend \cup {NoPick}]
      /\ loaded' \in [Caller -> Int]
      /\ CallInv(c)'
  BY CallStep
<1>2. conns' \in [Backend -> Int]
  BY CountsTyped
<1>3. ASSUME NEW d \in Caller PROVE CallInv(d)'
  BY <1>1, OneCallMoves, SameCall
<1>4. low' \in [Backend -> Int] /\ high' \in [Backend -> Int] /\ joins' \in Nat
  <2>1. CASE pc'[Watched] \in {"idle", "attempt"}
    BY <2>1, TrackRest, WatchedMoves
  <2>2. CASE pc'[Watched] \in {"load", "compare", "picked"} /\ pc[Watched] = "idle"
    BY <1>2, <2>2, TrackStart, WatchedMoves
  <2>3. CASE pc'[Watched] \in {"load", "compare", "picked"} /\ InCall(Watched)
    BY <1>2, <2>3, TrackCall
  <2>4. CASE pc'[Watched] \in {"load", "compare", "picked"} /\ pc[Watched] = "picked"
    BY <2>4, TrackPicked, WatchedMoves DEF LCTypeOK
  <2>5. pc[Watched] # "attempt" \/ pc'[Watched] \in {"idle", "attempt"}
    <3>1. CASE c # Watched
      BY <1>0, <3>1, OneCallMoves
    <3>2. CASE c = Watched
      BY <1>0, <3>2 DEF LCActs, List, Load, Compare, Connect, Leave, Goto, LCTypeOK
    <3> QED
      BY <3>1, <3>2
  <2> QED
    BY <1>0, <1>1, <2>1, <2>2, <2>3, <2>4, <2>5 DEF LCTypeOK, InCall
<1> QED
  BY <1>1, <1>2, <1>3, <1>4 DEF LCTypeOK

LEMMA LCInitInv == LCInit => LCInv
<1> SUFFICES ASSUME LCInit PROVE LCInv
  OBVIOUS
<1>1. LCTypeOK
  BY DEF LCInit, LCTypeOK
<1>2. \A c \in Caller : pc[c] = "idle"
  BY DEF LCInit
<1>3. \A c \in Caller : CallInv(c)
  BY <1>2 DEF CallInv, InCall
<1>4. ~InCall(Watched) /\ pc[Watched] # "picked"
  BY <1>2, LeastConnectionsAssumption DEF LeastConnectionsAssumption, InCall
<1> QED
  BY <1>1, <1>3, <1>4 DEF LCInv, PickNearLeast

LEMMA LCStepInv == LCInv /\ [LCNext]_vars => LCInv'
<1> SUFFICES ASSUME LCInv, [LCNext]_vars PROVE LCInv'
  OBVIOUS
<1>0. Watched \in Caller
  BY LeastConnectionsAssumption DEF LeastConnectionsAssumption
<1>1. CASE UNCHANGED vars
  <2> USE <1>1 DEF vars, callVars, historyVars
  <2>1. LCTypeOK'
    BY DEF LCInv, LCTypeOK
  <2>2. \A c \in Caller : CallInv(c)'
    BY SameCall DEF LCInv
  <2>3. InCall(Watched)' => HistoryInv' /\ NearLeastSoFar'
    BY DEF LCInv, InCall, HistoryInv, NearLeastSoFar, Risen, Challenger
  <2>4. (InCall(Watched)' \/ pc'[Watched] = "picked") => QuietSoFar'
    BY DEF LCInv, InCall, QuietSoFar
  <2>5. PickNearLeast'
    BY DEF LCInv, PickNearLeast
  <2> QED
    BY <2>1, <2>2, <2>3, <2>4, <2>5 DEF LCInv
<1>2. CASE LCNext
  <2>1. PICK c \in Caller : LCActs(c)
    BY <1>2 DEF LCNext, LCActs
  <2>2. /\ Track /\ LCTypeOK /\ \A d \in Caller : CallInv(d)
        /\ InCall(Watched) => HistoryInv /\ NearLeastSoFar
        /\ InCall(Watched) \/ pc[Watched] = "picked" => QuietSoFar
        /\ PickNearLeast
    BY <1>2 DEF LCNext, LCInv
  <2>3. LCTypeOK' /\ \A d \in Caller : CallInv(d)'
    BY <2>1, <2>2, LCTypeStep
  <2>4. /\ InCall(Watched)' => HistoryInv' /\ NearLeastSoFar'
        /\ InCall(Watched)' \/ pc'[Watched] = "picked" => QuietSoFar'
        /\ PickNearLeast'
    <3>1. CASE pc'[Watched] \in {"idle", "attempt"}
      BY <3>1 DEF InCall, PickNearLeast
    <3>2. CASE c = Watched /\ List(Watched)
      BY <2>2, <3>2, WatchedLists
    <3>3. CASE c = Watched /\ Load(Watched)
      <4>1. InCall(Watched)
        BY <3>3 DEF Load, InCall
      <4> QED
        BY <1>0, <2>2, <3>3, <4>1, WatchedLoads
    <3>4. CASE c = Watched /\ Compare(Watched)
      <4>1. InCall(Watched)
        BY <3>4 DEF Compare, InCall
      <4> QED
        BY <1>0, <2>2, <3>4, <4>1, WatchedCompares
    <3>5. CASE c = Watched /\ (Connect(Watched) \/ Leave(Watched))
      <4>1. pc'[Watched] \in {"idle", "attempt"}
        BY <1>0, <2>2, <3>5 DEF Connect, Leave, Goto, LCTypeOK
      <4> QED
        BY <3>1, <4>1
    <3>6. CASE c # Watched /\ InCall(Watched)
      <4>1. HistoryInv' /\ NearLeastSoFar' /\ QuietSoFar'
        BY <1>0, <2>1, <2>2, <3>6, OthersMove
      <4>2. pc'[Watched] = pc[Watched]
        BY <1>0, <2>1, <2>2, <3>6, OneCallMoves
      <4> QED
        BY <3>6, <4>1, <4>2 DEF InCall, PickNearLeast
    <3>7. CASE c # Watched /\ pc[Watched] = "picked"
      <4>1. /\ pc'[Watched] = pc[Watched] /\ list'[Watched] = list[Watched]
            /\ next'[Watched] = next[Watched] /\ best'[Watched] = best[Watched]
        BY <1>0, <2>1, <2>2, <3>7, OneCallMoves
      <4>2. low' = low /\ high' = high /\ joins' = joins
        BY <2>2, <3>7, <4>1, TrackPicked
      <4>3. PickNearLeast'
        BY <2>2, <4>1, <4>2 DEF PickNearLeast
      <4>4. QuietSoFar'
        BY <2>2, <3>7, <4>1, <4>2 DEF QuietSoFar
      <4> QED
        BY <3>7, <4>1, <4>3, <4>4 DEF InCall
    <3>8. CASE c # Watched /\ pc[Watched] \in {"idle", "attempt"}
      BY <1>0, <2>1, <2>2, <3>1, <3>8, OneCallMoves
    <3>9. pc[Watched] \in {"idle", "load", "compare", "picked", "attempt"}
      BY <1>0, <2>2 DEF LCTypeOK
    <3> QED
      BY <2>1, <3>2, <3>3, <3>4, <3>5, <3>6, <3>7, <3>8, <3>9 DEF LCActs, InCall
  <2> QED
    BY <2>3, <2>4 DEF LCInv
<1> QED
  BY <1>1, <1>2

\* Types, the places of every call, and the watched call's comparisons against its
\* history, for any number of callers and backends and any weights.
THEOREM LCInvariance == LCSpec => []LCInv
  BY LCInitInv, LCStepInv, PTL DEF LCSpec

\* slices.MinFunc over counts that move: what GetServer returns was, at some instant
\* of the call, no more loaded than any other listed backend was at some instant,
\* but for the attempts that began meanwhile.
THEOREM PickNear == LCSpec => []PickNearLeast
<1>1. LCInv => PickNearLeast
  BY DEF LCInv
<1> QED
  BY <1>1, LCInvariance, PTL

\* If no count moved, GetServer returns what the choice at one instant returns, the
\* first registered of several.
THEOREM QuietPick == LCSpec => []QuietPickIsLeast
<1>1. LCInv => QuietPickIsLeast
  <2> DEFINE w == Watched
             L == list[Watched]
  <2> SUFFICES ASSUME LCInv, pc[w] = "picked", low = high
               PROVE  best[w] = LeastLoaded(L, low, Weight)
    BY DEF QuietPickIsLeast
  <2>1. /\ L \in Seq(Backend) /\ Len(L) \in Nat /\ next[w] = Len(L) + 1
        /\ low \in [Backend -> Int] /\ Weight \in [Backend -> Nat \ {0}]
    BY LeastConnectionsAssumption, LenProperties
       DEF LeastConnectionsAssumption, LCInv, LCTypeOK, CallInv
  <2>2. PICK p \in 1..(next[w] - 1) :
          FirstLeast(L, next[w] - 1, p, low, Weight) /\ best[w] = L[p]
    BY DEF LCInv, QuietSoFar
  <2>3. next[w] - 1 = Len(L) /\ Len(L) > 0
    BY <2>1, <2>2
  <2>6. FirstLeast(L, Len(L), p, low, Weight)
    BY <2>2, <2>3
  <2> HIDE DEF L
  <2>4. PICK q : FirstLeast(L, Len(L), q, low, Weight) /\ LeastLoaded(L, low, Weight) = L[q]
    <3>1. /\ L \in Seq(Backend) /\ Len(L) > 0
          /\ low \in [Backend -> Int] /\ Weight \in [Backend -> Nat \ {0}]
      BY <2>1, <2>3
    <3>2. AnswerFirstLeast(L, low, Weight)
      BY ONLY <3>1, LeastLoadedFirst, Zenon
    <3> QED
      BY <3>2 DEF AnswerFirstLeast
  <2>5. p = q
    <3> DEFINE k == Len(L)
    <3>1. k \in Nat /\ FirstLeast(L, k, p, low, Weight) /\ FirstLeast(L, k, q, low, Weight)
      BY <2>1, <2>4, <2>6
    <3> HIDE DEF k
    <3> QED
      BY <3>1, FirstLeastUnique
  <2> QED
    BY <2>2, <2>4, <2>5
<1> QED
  BY <1>1, LCInvariance, PTL

=============================================================================
