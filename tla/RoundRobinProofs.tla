-------------------------- MODULE RoundRobinProofs --------------------------
(***************************************************************************)
(* Proofs about RoundRobin, for any number of callers, any pool and any    *)
(* width of the counter.                                                   *)
(***************************************************************************)
EXTENDS RoundRobin, ListProofs, FiniteSetTheorems

\* A remainder taken early makes no difference to a sum.
LEMMA ModAdd ==
  ASSUME NEW a \in Nat, NEW b \in Nat, NEW n \in Nat \ {0}
  PROVE (a + (b % n)) % n = (a + b) % n
<1> DEFINE q == b \div n
           r == b % n
           p == (a + r) \div n
           s == (a + r) % n
<1>1. b = n * q + r /\ r \in 0..(n-1) /\ q \in Nat
  BY DivMod
<1>2. a + r \in Nat
  BY <1>1
<1>3. a + r = n * p + s /\ s \in 0..(n-1) /\ p \in Nat
  BY <1>2, DivMod
<1> HIDE DEF p, q, r, s
<1>4. a + b = n * (p + q) + s
  <2>1. n * (p + q) = n * p + n * q
    BY <1>1, <1>3
  <2>2. n * p \in Nat /\ n * q \in Nat
    BY <1>1, <1>3
  <2> QED
    BY <1>1, <1>3, <2>1, <2>2
<1>5. p + q \in Nat /\ a + b \in Nat
  BY <1>1, <1>3
<1>6. (a + b) % n = s
  BY <1>3, <1>4, <1>5, ModIs
<1> QED
  BY <1>6 DEF s, r

\* A draw moves a caller's clock and the counter alike: both sums count one more.
LEMMA OneMoreTurn ==
  ASSUME NEW t \in Nat, NEW l \in Nat, NEW n \in Nat \ {0}
  PROVE  (((t + 1 + l) % n) + 1) % n = (t + 1 + ((l + 1) % n)) % n
<1> DEFINE m == t + 1 + l
           a == t + 1
           b == l + 1
           x == m % n
           y == b % n
<1>1. m \in Nat /\ a \in Nat /\ b \in Nat /\ 1 \in Nat /\ 1 + m = a + b
  OBVIOUS
<1>2. x \in Nat /\ y \in Nat
  <2> HIDE DEF m, b
  <2> QED
    BY <1>1, DivMod
<1>3. (1 + x) % n = (1 + m) % n
  <2> HIDE DEF m
  <2> QED
    BY <1>1, ModAdd, ZenonT(30) DEF x
<1>4. (a + y) % n = (a + b) % n
  <2> HIDE DEF a, b
  <2> QED
    BY <1>1, ModAdd, ZenonT(30) DEF y
<1> HIDE DEF m, a, b, x, y
<1>5. x + 1 = 1 + x
  BY <1>2
<1>6. (x + 1) % n = (a + y) % n
  BY <1>1, <1>3, <1>4, <1>5
<1> QED
  BY ONLY <1>6, Zenon DEF m, a, b, x, y

\* Every place of the list comes up in the rotation, if the sum does not wrap.
LEMMA RotationReaches ==
  ASSUME NEW s \in Nat, NEW n \in Nat \ {0}, s + n <= CounterMod, NEW j \in 0..(n - 1)
  PROVE  \E k \in 0..(n - 1) : Slot(s, k, n) = j
<1> DEFINE p == s \div n
           r == s % n
           k == IF j >= r THEN j - r ELSE j + n - r
<1>1. s = n * p + r /\ r \in 0..(n - 1) /\ p \in Nat
  BY DivMod
<1> HIDE DEF p, r
<1>2. k \in 0..(n - 1)
  BY <1>1
<1>3. (s + k) % n = j
  <2>1. CASE j >= r
    <3>1. s + k = n * p + j
      BY <1>1, <2>1
    <3> QED
      BY <1>1, <1>2, <3>1, ModIs
  <2>2. CASE j < r
    <3>1. n * (p + 1) = n * p + n /\ p + 1 \in Nat /\ n * p \in Nat
      BY <1>1
    <3>2. s + k = n * (p + 1) + j
      BY <1>1, <2>2, <3>1
    <3> QED
      BY <1>1, <1>2, <3>1, <3>2, ModIs
  <2> QED
    BY <1>1, <2>1, <2>2
<1>4. (s + k) % CounterMod = s + k
  <2>1. s + k \in Nat /\ s + k \in 0..(CounterMod - 1) /\ s + k = CounterMod * 0 + (s + k)
    <3> HIDE DEF k
    <3> QED
      BY <1>2, RoundRobinAssumption
  <2> HIDE DEF k
  <2> QED
    BY <2>1, ModIs, RoundRobinAssumption
<1> HIDE DEF k
<1>5. Slot(s, k, n) = j
  BY <1>3, <1>4 DEF Slot
<1> QED
  BY <1>2, <1>5

\* A turn of the loop probes a backend of the list.
LEMMA ProbedListed ==
  ASSUME NEW c \in Caller, RRTypeOK, list[c] # << >>, NEW k \in Nat
  PROVE  Probed(c, k) \in Backend
<1> DEFINE n == Len(list[c])
           m == (start[c] + k) % CounterMod
<1>1. list[c] \in Seq(Backend) /\ n \in Nat \ {0} /\ start[c] \in Nat
  BY EmptySeq, RoundRobinAssumption DEF RRTypeOK
<1>2. m \in Nat
  <2>1. start[c] + k \in Nat
    BY <1>1
  <2>2. m \in 0..(CounterMod - 1)
    BY <2>1, DivMod, RoundRobinAssumption
  <2> QED
    BY <2>2, RoundRobinAssumption
<1>3. m % n \in 0..(n - 1)
  BY <1>1, <1>2, DivMod
<1>4. Slot(start[c], k, n) = m % n
  BY DEF Slot
<1> HIDE DEF n, m
<1>5. Slot(start[c], k, n) + 1 \in 1..n
  BY <1>1, <1>3, <1>4
<1> QED
  BY <1>1, <1>5 DEF Probed, n

LEMMA RRInitInv == RRInit => RRInv
<1> SUFFICES ASSUME RRInit PROVE RRInv
  OBVIOUS
<1>1. TypeOK
  <2>1. /\ pool = Baseline /\ created = Members(Baseline)
        /\ healthy = [b \in Backend |-> FALSE]
    BY DEF RRInit, Init
  <2>2. Baseline \in Seq(Backend) /\ Members(Baseline) \subseteq Backend
    BY BackendAssumption DEF Members
  <2> QED
    BY <2>1, <2>2 DEF TypeOK
<1>2. RRTypeOK
  BY <1>1, RoundRobinAssumption DEF RRInit, RRTypeOK
<1>3. \A c \in Caller : RoundInv(c)
  BY DEF RRInit, RoundInv
<1>4. TicketsExact /\ TurnKept
  BY DEF RRInit, TicketsExact, TurnKept, InCall
<1> QED
  BY <1>2, <1>3, <1>4 DEF RRInv

\* What the history keeps of the flags.
LEMMA SteadyStep ==
  ASSUME RRInv, Track
  PROVE  /\ steady' \in [Caller -> SUBSET Backend]
         /\ \A c \in Caller :
              pc[c] \in {"draw", "scan", "done"} /\ pc'[c] # "idle" =>
                /\ steady'[c] \subseteq steady[c]
                /\ pc[c] # "done" => \A b \in steady'[c] : healthy'[b]
  BY DEF RRInv, RRTypeOK, Track

\* A step in which nobody draws.
LEMMA NobodyDraws ==
  ASSUME RRInv, Track, \A c \in Caller : ~(pc[c] = "draw" /\ pc'[c] = "scan")
  PROVE  /\ later' \in [Caller -> 0..(CounterMod - 1)]
         /\ \A c \in Caller : pc[c] = "scan" /\ pc'[c] = "scan" => later'[c] = later[c]
<1> DEFINE drawing == { c \in Caller : pc[c] = "draw" /\ pc'[c] = "scan" }
<1>1. drawing = {} /\ Cardinality(drawing) = 0
  BY FS_EmptySet
<1>2. later' = [c \in Caller |-> IF pc[c] = "scan" /\ pc'[c] = "scan"
                                 THEN (later[c] + Cardinality(drawing)) % CounterMod ELSE 0]
  BY DEF Track
<1> HIDE DEF drawing
<1>3. \A c \in Caller : later[c] \in Nat /\ later[c] \in 0..(CounterMod - 1)
  BY RoundRobinAssumption DEF RRInv, RRTypeOK
<1>4. \A c \in Caller : (later[c] + 0) % CounterMod = later[c]
  BY <1>3, ModIs, RoundRobinAssumption
<1> QED
  BY <1>1, <1>2, <1>3, <1>4, RoundRobinAssumption

\* A step in which one caller draws.
LEMMA OneDraws ==
  ASSUME RRInv, Track, NEW c \in Caller, pc[c] = "draw", pc'[c] = "scan",
         \A d \in Caller \ {c} : pc'[d] = pc[d]
  PROVE  /\ later' \in [Caller -> 0..(CounterMod - 1)]
         /\ later'[c] = 0
         /\ \A d \in Caller \ {c} :
              pc[d] = "scan" => later'[d] = (later[d] + 1) % CounterMod
<1> DEFINE drawing == { d \in Caller : pc[d] = "draw" /\ pc'[d] = "scan" }
<1>1. drawing = {c} /\ Cardinality(drawing) = 1
  <2>1. drawing = {c}
    OBVIOUS
  <2> QED
    BY <2>1, FS_Singleton
<1>2. later' = [d \in Caller |-> IF pc[d] = "scan" /\ pc'[d] = "scan"
                                 THEN (later[d] + Cardinality(drawing)) % CounterMod ELSE 0]
  BY DEF Track
<1> HIDE DEF drawing
<1>3. \A d \in Caller : later[d] + 1 \in Nat
  BY RoundRobinAssumption DEF RRInv, RRTypeOK
<1>4. \A d \in Caller : (later[d] + 1) % CounterMod \in 0..(CounterMod - 1)
  BY <1>3, DivMod, RoundRobinAssumption
<1> QED
  BY <1>1, <1>2, <1>4, RoundRobinAssumption

\* What a step leaves of a caller it does not concern.
LEMMA CallerUntouched ==
  ASSUME RRInv, Track, NEW c \in Caller,
         pc'[c] = pc[c], list'[c] = list[c], start'[c] = start[c], i'[c] = i[c],
         picked'[c] = picked[c]
  PROVE  /\ RoundInv(c)'
         /\ InCall(c)' => \A k \in 0..(i[c] - 1) : Probed(c, k)' \notin steady'[c]
<1>1. RoundInv(c)'
  BY DEF RRInv, RoundInv
<1>2. ASSUME InCall(c)', NEW k \in 0..(i[c] - 1) PROVE Probed(c, k)' \notin steady'[c]
  <2>1. InCall(c) /\ Probed(c, k)' = Probed(c, k)
    BY <1>2 DEF InCall, Probed
  <2>2. Probed(c, k) \notin steady[c]
    BY <2>1 DEF RRInv, TurnKept
  <2>3. steady'[c] \subseteq steady[c]
    BY <1>2, <2>1, SteadyStep DEF InCall
  <2> QED
    BY <2>1, <2>2, <2>3
<1> QED
  BY <1>1, <1>2

\* The tickets when nobody draws.
LEMMA TicketsKept ==
  ASSUME RRInv, Track, current' = current,
         \A c \in Caller : ~(pc[c] = "draw" /\ pc'[c] = "scan"),
         \A c \in Caller : pc'[c] = "scan" => pc[c] = "scan" /\ start'[c] = start[c]
  PROVE  TicketsExact'
  BY NobodyDraws DEF RRInv, TicketsExact

LEMMA PoolInv ==
  ASSUME RRInv, Next, UNCHANGED <<current, callVars>>, Track
  PROVE  RRInv'
<1> USE DEF callVars
<1>1. TypeOK'
  <2> SUFFICES ASSUME NEW b \in Backend,
                      Register(b) \/ Deregister(b) \/ \E v \in BOOLEAN : SetHealth(b, v)
               PROVE  TypeOK'
    BY DEF Next
  <2>1. CASE Register(b)
    BY <2>1, MembersAppend DEF RRInv, RRTypeOK, TypeOK, Register
  <2>2. CASE Deregister(b)
    BY <2>2, WithoutProperties, WithoutSubset DEF RRInv, RRTypeOK, TypeOK, Deregister
  <2>3. CASE \E v \in BOOLEAN : SetHealth(b, v)
    BY <2>3 DEF RRInv, RRTypeOK, TypeOK, SetHealth
  <2> QED
    BY <2>1, <2>2, <2>3
<1>2. RRTypeOK'
  BY <1>1, SteadyStep, NobodyDraws DEF RRInv, RRTypeOK
<1>3. TicketsExact'
  BY TicketsKept
<1>4. TurnKept' /\ \A c \in Caller : RoundInv(c)'
  BY CallerUntouched DEF TurnKept
<1> QED
  BY <1>2, <1>3, <1>4 DEF RRInv

LEMMA PoolKept == ASSUME RRInv, UNCHANGED poolVars PROVE TypeOK'
  BY DEF RRInv, RRTypeOK, TypeOK, poolVars

LEMMA ListInv ==
  ASSUME RRInv, NEW c \in Caller, List(c), UNCHANGED poolVars, Track
  PROVE  RRInv'
<1>1. /\ pc[c] = "idle" /\ pc'[c] = IF pool = << >> THEN "done" ELSE "draw"
      /\ list'[c] = pool /\ pool \in Seq(Backend)
      /\ i[c] = 0 /\ i' = i /\ picked[c] = NoPick /\ picked' = picked
  BY DEF RRInv, RRTypeOK, TypeOK, RoundInv, List, Goto
<1>2. \A d \in Caller \ {c} : pc'[d] = pc[d] /\ list'[d] = list[d]
  BY DEF RRInv, RRTypeOK, List, Goto
<1>3. RRTypeOK'
  <2>1. /\ pc' \in [Caller -> {"idle", "draw", "scan", "done"}]
        /\ list' \in [Caller -> Seq(Backend)]
        /\ \A d \in Caller : i'[d] <= Len(list'[d])
    BY <1>1, <1>2 DEF RRInv, RRTypeOK, List, Goto
  <2>2. later' \in [Caller -> 0..(CounterMod - 1)]
    BY <1>1, <1>2, NobodyDraws
  <2> QED
    BY <2>1, <2>2, PoolKept, SteadyStep DEF RRInv, RRTypeOK, List
<1>4. TicketsExact'
  BY <1>1, <1>2, TicketsKept DEF List
<1>5. RoundInv(c)' /\ i'[c] = 0
  BY <1>1 DEF RoundInv
<1>6. TurnKept' /\ \A d \in Caller : RoundInv(d)'
  BY <1>2, <1>5, CallerUntouched DEF TurnKept, List
<1> QED
  BY <1>3, <1>4, <1>6 DEF RRInv

LEMMA DrawInv ==
  ASSUME RRInv, NEW c \in Caller, Draw(c), UNCHANGED poolVars, Track
  PROVE  RRInv'
<1>1. /\ pc[c] = "draw" /\ pc'[c] = "scan" /\ start'[c] = current /\ i'[c] = 0
      /\ list' = list /\ picked' = picked
  BY DEF RRInv, RRTypeOK, Draw, Goto, Ticket, FirstTurn
<1>2. \A d \in Caller \ {c} : pc'[d] = pc[d] /\ start'[d] = start[d] /\ i'[d] = i[d]
  BY DEF RRInv, RRTypeOK, Draw, Goto
<1>3. /\ current \in Nat /\ current' = (current + 1) % CounterMod
      /\ current' \in 0..(CounterMod - 1)
  <2>1. current \in Nat /\ current + 1 \in Nat
    BY RoundRobinAssumption DEF RRInv, RRTypeOK
  <2> QED
    BY <2>1, DivMod, RoundRobinAssumption DEF Draw
<1>4. RRTypeOK'
  <2>1. /\ pc' \in [Caller -> {"idle", "draw", "scan", "done"}]
        /\ start' \in [Caller -> 0..(CounterMod - 1)]
        /\ i' \in [Caller -> Nat]
    BY <1>1, <1>2 DEF RRInv, RRTypeOK, Draw, Goto, Ticket, FirstTurn
  <2>2. ASSUME NEW d \in Caller PROVE i'[d] <= Len(list'[d])
    <3>1. list[d] \in Seq(Backend) /\ Len(list[d]) \in Nat /\ i[d] <= Len(list[d])
      BY LenProperties DEF RRInv, RRTypeOK
    <3> QED
      BY <1>1, <1>2, <3>1
  <2>3. later' \in [Caller -> 0..(CounterMod - 1)]
    BY <1>1, <1>2, OneDraws
  <2> QED
    BY <1>1, <1>3, <2>1, <2>2, <2>3, PoolKept, SteadyStep DEF RRInv, RRTypeOK
<1>5. ASSUME NEW d \in Caller, pc'[d] = "scan"
      PROVE  current' = (start'[d] + 1 + later'[d]) % CounterMod
  <2>1. CASE d = c
    BY <1>1, <1>2, <1>3, <2>1, OneDraws
  <2>2. CASE d # c
    <3>1. start[d] \in Nat /\ later[d] \in Nat /\ CounterMod \in Nat \ {0}
      BY RoundRobinAssumption DEF RRInv, RRTypeOK
    <3>2. /\ current = (start[d] + 1 + later[d]) % CounterMod
          /\ later'[d] = (later[d] + 1) % CounterMod
      BY <1>1, <1>2, <1>5, <2>2, OneDraws DEF RRInv, TicketsExact
    <3>3. current' = (((start[d] + 1 + later[d]) % CounterMod) + 1) % CounterMod
      BY <1>3, <3>2
    <3>4. (((start[d] + 1 + later[d]) % CounterMod) + 1) % CounterMod
            = (start[d] + 1 + ((later[d] + 1) % CounterMod)) % CounterMod
      BY ONLY <3>1, OneMoreTurn
    <3>5. start'[d] = start[d]
      BY <1>2, <2>2
    <3> QED
      BY ONLY <3>2, <3>3, <3>4, <3>5
  <2> QED
    BY <2>1, <2>2
<1>6. RoundInv(c)'
  BY <1>1 DEF RRInv, RoundInv
<1>7. TurnKept' /\ \A d \in Caller : RoundInv(d)'
  BY <1>1, <1>2, <1>6, CallerUntouched DEF TurnKept
<1> QED
  BY <1>4, <1>5, <1>7 DEF RRInv, TicketsExact

LEMMA ScanInv ==
  ASSUME RRInv, NEW c \in Caller, Scan(c), UNCHANGED poolVars, Track
  PROVE  RRInv'
<1> DEFINE n == Len(list[c])
<1>1. /\ pc[c] = "scan" /\ pc'[c] \in {"scan", "done"}
      /\ list' = list /\ start' = start /\ current' = current
      /\ i[c] \in Nat /\ n \in Nat /\ i[c] <= n /\ picked[c] = NoPick
  BY LenProperties DEF RRInv, RRTypeOK, RoundInv, Scan, Goto
<1>2. \A d \in Caller \ {c} : pc'[d] = pc[d] /\ i'[d] = i[d] /\ picked'[d] = picked[d]
  BY DEF RRInv, RRTypeOK, Scan, Goto
<1>3. \/ /\ i[c] < n /\ pc'[c] = "done" /\ i' = i
         /\ picked' = [picked EXCEPT ![c] = Probed(c, i[c])] /\ Probed(c, i[c]) \in Backend
      \/ /\ i[c] < n /\ pc'[c] = "scan" /\ i' = [i EXCEPT ![c] = @ + 1]
         /\ ~healthy[Probed(c, i[c])] /\ picked' = picked
      \/ i[c] = n /\ pc'[c] = "done" /\ i' = i /\ picked' = picked
  <2>1. i[c] < n => list[c] # << >>
    BY <1>1
  <2>2. i[c] < n => Probed(c, i[c]) \in Backend
    BY <1>1, <2>1, ProbedListed DEF RRInv
  <2> QED
    BY <1>1, <2>2 DEF RRInv, RRTypeOK, Scan, Goto
<1>4. /\ i' \in [Caller -> Nat] /\ i'[c] <= n
      /\ picked' \in [Caller -> Backend \cup {NoPick}]
  <2>1. /\ i \in [Caller -> Nat] /\ picked \in [Caller -> Backend \cup {NoPick}]
        /\ i[c] + 1 \in Nat
    BY <1>1 DEF RRInv, RRTypeOK
  <2>2. i[c] < n => i[c] + 1 <= n
    BY <1>1
  <2> HIDE DEF n
  <2> QED
    BY <1>1, <1>3, <2>1, <2>2
<1>5. RRTypeOK'
  <2>1. /\ pc' \in [Caller -> {"idle", "draw", "scan", "done"}]
        /\ \A d \in Caller : i'[d] <= Len(list'[d])
    BY <1>1, <1>2, <1>4 DEF RRInv, RRTypeOK, Scan, Goto
  <2>2. later' \in [Caller -> 0..(CounterMod - 1)]
    BY <1>1, <1>2, NobodyDraws
  <2> QED
    BY <1>1, <1>4, <2>1, <2>2, PoolKept, SteadyStep DEF RRInv, RRTypeOK
<1>6. TicketsExact'
  BY <1>1, <1>2, TicketsKept
<1>7. RoundInv(c)'
  BY <1>1, <1>3, RoundRobinAssumption DEF RRInv, RRTypeOK, RoundInv
<1>8. ASSUME InCall(c)', NEW k \in 0..(i'[c] - 1) PROVE Probed(c, k)' \notin steady'[c]
  <2>1. Probed(c, k)' = Probed(c, k) /\ InCall(c)
    BY <1>1, <1>8 DEF Probed, InCall
  <2>2. steady'[c] \subseteq steady[c] /\ \A b \in steady'[c] : healthy'[b]
    BY <1>1, SteadyStep
  <2>3. CASE k \in 0..(i[c] - 1)
    BY <2>1, <2>2, <2>3 DEF RRInv, TurnKept
  <2>4. CASE k \notin 0..(i[c] - 1)
    <3>1. k = i[c] /\ ~healthy[Probed(c, k)]
      BY <1>1, <1>3, <1>8, <2>4 DEF RRInv, RRTypeOK
    <3> QED
      BY <2>1, <2>2, <3>1 DEF poolVars
  <2> QED
    BY <2>3, <2>4
<1>9. TurnKept' /\ \A d \in Caller : RoundInv(d)'
  BY <1>1, <1>2, <1>7, <1>8, CallerUntouched DEF TurnKept
<1> QED
  BY <1>5, <1>6, <1>9 DEF RRInv

LEMMA ReturnInv ==
  ASSUME RRInv, NEW c \in Caller, Return(c), UNCHANGED poolVars, Track
  PROVE  RRInv'
<1>1. /\ pc[c] = "done" /\ pc'[c] = "idle" /\ list'[c] = << >> /\ i'[c] = 0
      /\ picked'[c] = NoPick /\ current' = current
  BY DEF RRInv, RRTypeOK, Return, Goto
<1>2. \A d \in Caller \ {c} :
        /\ pc'[d] = pc[d] /\ list'[d] = list[d] /\ start'[d] = start[d]
        /\ i'[d] = i[d] /\ picked'[d] = picked[d]
  BY DEF RRInv, RRTypeOK, Return, Goto
<1>3. RRTypeOK'
  <2>1. /\ pc' \in [Caller -> {"idle", "draw", "scan", "done"}]
        /\ list' \in [Caller -> Seq(Backend)]
        /\ start' \in [Caller -> 0..(CounterMod - 1)]
        /\ i' \in [Caller -> Nat]
        /\ picked' \in [Caller -> Backend \cup {NoPick}]
    BY RoundRobinAssumption DEF RRInv, RRTypeOK, Return, Goto
  <2>2. ASSUME NEW d \in Caller PROVE i'[d] <= Len(list'[d])
    <3>1. i[d] <= Len(list[d]) /\ Len(<< >>) = 0
      BY DEF RRInv, RRTypeOK
    <3> QED
      BY <1>1, <1>2, <3>1
  <2>3. later' \in [Caller -> 0..(CounterMod - 1)]
    BY <1>1, <1>2, NobodyDraws
  <2> QED
    BY <1>1, <2>1, <2>2, <2>3, PoolKept, SteadyStep DEF RRInv, RRTypeOK
<1>4. TicketsExact'
  BY <1>1, <1>2, TicketsKept
<1>5. RoundInv(c)' /\ ~InCall(c)'
  BY <1>1 DEF RoundInv, InCall
<1>6. TurnKept' /\ \A d \in Caller : RoundInv(d)'
  BY <1>2, <1>5, CallerUntouched DEF TurnKept
<1> QED
  BY <1>3, <1>4, <1>6 DEF RRInv

LEMMA RRStepInv == RRInv /\ [RRNext]_vars => RRInv'
<1> SUFFICES ASSUME RRInv, [RRNext]_vars PROVE RRInv'
  OBVIOUS
<1>1. CASE UNCHANGED vars
  <2> USE <1>1 DEF vars, callVars, poolVars
  <2>1. RRTypeOK'
    BY DEF RRInv, RRTypeOK, TypeOK
  <2>2. TicketsExact' /\ TurnKept'
    BY DEF RRInv, TicketsExact, TurnKept, InCall, Probed
  <2>3. \A c \in Caller : RoundInv(c)'
    BY DEF RRInv, RoundInv
  <2> QED
    BY <2>1, <2>2, <2>3 DEF RRInv
<1>2. CASE Next /\ UNCHANGED <<current, callVars>> /\ Track
  BY <1>2, PoolInv
<1>3. ASSUME NEW c \in Caller, Call(c), UNCHANGED poolVars, Track PROVE RRInv'
  BY <1>3, ListInv, DrawInv, ScanInv, ReturnInv DEF Call
<1> QED
  BY <1>1, <1>2, <1>3 DEF RRNext

\* The inductive invariant holds of every call in every interleaving.
THEOREM RRInvariance == RRSpec => []RRInv
<1> QED
  BY RRInitInv, RRStepInv, PTL DEF RRSpec

\* No ticket is lost or drawn twice, for a counter of any width.
THEOREM NoTicketLost == RRSpec => []TicketsExact
<1>1. RRInv => TicketsExact
  BY DEF RRInv
<1> QED
  BY <1>1, RRInvariance, PTL

\* A backend is passed over only if it was seen down.
THEOREM NobodyPassedOver == RRSpec => []TurnKept
<1>1. RRInv => TurnKept
  BY DEF RRInv
<1> QED
  BY <1>1, RRInvariance, PTL

\* ErrNoBackends is true of the whole listed pool unless the counter wraps in
\* the scan.
THEOREM MissIsTrue == RRSpec => []MissMeansAllDown
<1>1. RRInv => MissMeansAllDown
  <2> SUFFICES ASSUME RRInv, NEW c \in Caller, InCall(c), pc[c] = "done",
                      picked[c] = NoPick, ~Wraps(c), NEW b \in Members(list[c])
               PROVE  b \notin steady[c]
    BY DEF MissMeansAllDown
  <2> DEFINE n == Len(list[c])
  <2>1. /\ list[c] \in Seq(Backend) /\ list[c] # << >> /\ n \in Nat \ {0}
        /\ start[c] \in Nat /\ i[c] = n
    BY EmptySeq, RoundRobinAssumption DEF RRInv, RRTypeOK, RoundInv, InCall
  <2>2. start[c] + n <= CounterMod
    BY <2>1, RoundRobinAssumption DEF Wraps
  <2>3. PICK j \in 1..n : list[c][j] = b
    BY DEF Members
  <2>4. PICK k \in 0..(n - 1) : Slot(start[c], k, n) = j - 1
    <3>1. j - 1 \in 0..(n - 1)
      BY <2>1
    <3> HIDE DEF n
    <3> QED
      BY <2>1, <2>2, <3>1, RotationReaches
  <2>5. Probed(c, k) = b
    BY <2>1, <2>3, <2>4 DEF Probed
  <2>6. Probed(c, k) \notin steady[c]
    BY <2>1 DEF RRInv, TurnKept
  <2> QED
    BY <2>5, <2>6
<1> QED
  BY <1>1, RRInvariance, PTL

=============================================================================
