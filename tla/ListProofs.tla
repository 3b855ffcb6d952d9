----------------------------- MODULE ListProofs -----------------------------
(***************************************************************************)
(* Lemmas on lists: what appending and deleting do to the members of a     *)
(* list, to their order and to the absence of repeats.                     *)
(***************************************************************************)
EXTENDS Lists, Selectors, TLAPS, SequenceTheorems, FiniteSetTheorems, WellFoundedInduction

\* The members of a list with one more at its end.
LEMMA MembersAppend ==
  ASSUME NEW S, NEW list \in Seq(S), NEW b \in S
  PROVE  /\ Append(list, b) \in Seq(S)
         /\ Members(Append(list, b)) = Members(list) \cup {b}
  BY AppendProperties DEF Members

\* PositionOf finds a member of the list.
LEMMA PositionProperties ==
  ASSUME NEW S, NEW list \in Seq(S), NEW b \in Members(list)
  PROVE  /\ PositionOf(list, b) \in 1..Len(list)
         /\ list[PositionOf(list, b)] = b
<1>1. \E i \in 1..Len(list) : list[i] = b
  BY DEF Members
<1> QED
  BY <1>1 DEF PositionOf

\* Removing a member closes the gap and keeps the rest in order.
LEMMA WithoutProperties ==
  ASSUME NEW S, NEW list \in Seq(S), NEW b \in Members(list)
  PROVE  /\ Without(list, b) \in Seq(S)
         /\ Len(Without(list, b)) = Len(list) - 1
         /\ \A i \in 1..(Len(list) - 1) :
              Without(list, b)[i] =
                IF i < PositionOf(list, b) THEN list[i] ELSE list[i + 1]
<1> DEFINE p == PositionOf(list, b)
           left == SubSeq(list, 1, p - 1)
           right == SubSeq(list, p + 1, Len(list))
<1>1. p \in 1..Len(list)
  BY PositionProperties
<1>2. Len(list) \in Nat
  BY LenProperties
<1> HIDE DEF p
<1>3. /\ left \in Seq(S) /\ Len(left) = p - 1
      /\ \A i \in 1..(p - 1) : left[i] = list[i]
  BY <1>1, <1>2, SubSeqProperties
<1>4. /\ right \in Seq(S) /\ Len(right) = Len(list) - p
      /\ \A i \in 1..(Len(list) - p) : right[i] = list[p + i]
  BY <1>1, <1>2, SubSeqProperties
<1> HIDE DEF left, right
<1>5. /\ left \o right \in Seq(S)
      /\ Len(left \o right) = Len(list) - 1
      /\ \A i \in 1..(Len(list) - 1) :
           (left \o right)[i] = IF i < p THEN left[i] ELSE right[i - (p - 1)]
  <2>1. /\ left \o right \in Seq(S)
        /\ Len(left \o right) = Len(left) + Len(right)
        /\ \A i \in 1..(Len(left) + Len(right)) :
             (left \o right)[i] =
               IF i <= Len(left) THEN left[i] ELSE right[i - Len(left)]
    BY <1>3, <1>4, ConcatProperties
  <2> QED
    BY <1>1, <1>2, <1>3, <1>4, <2>1
<1>6. Without(list, b) = left \o right
  BY DEF Without, RemoveAt, left, right, p
<1>7. \A i \in 1..(Len(list) - 1) :
        (left \o right)[i] = IF i < p THEN list[i] ELSE list[i + 1]
  <2> SUFFICES ASSUME NEW i \in 1..(Len(list) - 1)
               PROVE  (left \o right)[i] = IF i < p THEN list[i] ELSE list[i + 1]
    OBVIOUS
  <2>1. (left \o right)[i] = IF i < p THEN left[i] ELSE right[i - (p - 1)]
    BY <1>5
  <2>2. CASE i < p
    BY <1>1, <1>2, <1>3, <2>1, <2>2
  <2>3. CASE ~(i < p)
    <3>1. i - (p - 1) \in 1..(Len(list) - p) /\ p + (i - (p - 1)) = i + 1
      BY <1>1, <1>2, <2>3
    <3>2. right[i - (p - 1)] = list[i + 1]
      BY <1>4, <3>1
    <3> QED
      BY <2>1, <2>3, <3>2
  <2> QED
    BY <2>2, <2>3
<1> QED
  BY <1>5, <1>6, <1>7 DEF p

\* Removing adds nothing.
LEMMA WithoutSubset ==
  ASSUME NEW S, NEW list \in Seq(S), NEW b \in Members(list)
  PROVE  Members(Without(list, b)) \subseteq Members(list)
<1>1. Len(list) \in Nat
  BY LenProperties
<1>2. ASSUME NEW i \in 1..Len(Without(list, b))
      PROVE  Without(list, b)[i] \in Members(list)
  <2>1. \/ Without(list, b)[i] = list[i]
        \/ Without(list, b)[i] = list[i + 1]
    BY <1>1, WithoutProperties
  <2>2. i \in 1..Len(list) /\ i + 1 \in 1..Len(list)
    BY <1>1, WithoutProperties
  <2> QED
    BY <2>1, <2>2 DEF Members
<1> QED
  BY <1>2 DEF Members

\* Removing takes out exactly that member.
LEMMA WithoutMembers ==
  ASSUME NEW S, NEW list \in Seq(S), NEW b \in Members(list), NoRepeats(list)
  PROVE  /\ Members(Without(list, b)) = Members(list) \ {b}
         /\ NoRepeats(Without(list, b))
<1> DEFINE p == PositionOf(list, b)
           rest == Without(list, b)
<1>1. Len(list) \in Nat
  BY LenProperties
<1>2. p \in 1..Len(list) /\ list[p] = b
  BY PositionProperties
<1>3. /\ Len(rest) = Len(list) - 1
      /\ \A i \in 1..(Len(list) - 1) :
           rest[i] = IF i < p THEN list[i] ELSE list[i + 1]
  BY WithoutProperties
<1> HIDE DEF p, rest
<1>4. ASSUME NEW i \in 1..Len(list), i # p
      PROVE  list[i] \in Members(rest)
  <2>1. CASE i < p
    BY <1>1, <1>2, <1>3, <2>1 DEF Members
  <2>2. CASE i > p
    <3>1. i - 1 \in 1..Len(rest) /\ rest[i - 1] = list[i]
      BY <1>1, <1>2, <1>3, <2>2
    <3> QED
      BY <3>1 DEF Members
  <2> QED
    BY <1>1, <1>2, <1>4, <2>1, <2>2
<1>5. ASSUME NEW i \in 1..Len(rest)
      PROVE  /\ rest[i] \in Members(list)
             /\ rest[i] # b
  <2> DEFINE k == IF i < p THEN i ELSE i + 1
  <2>1. k \in 1..Len(list) /\ k # p /\ rest[i] = list[k]
    BY <1>1, <1>2, <1>3
  <2> QED
    BY <1>2, <2>1 DEF Members, NoRepeats
<1>6. Members(rest) = Members(list) \ {b}
  BY <1>2, <1>4, <1>5 DEF Members
<1>7. NoRepeats(rest)
  <2> SUFFICES ASSUME NEW i \in 1..Len(rest), NEW j \in 1..Len(rest), i # j
               PROVE  rest[i] # rest[j]
    BY DEF NoRepeats
  <2> DEFINE k == IF i < p THEN i ELSE i + 1
             l == IF j < p THEN j ELSE j + 1
  <2>1. k \in 1..Len(list) /\ rest[i] = list[k]
    BY <1>1, <1>2, <1>3
  <2>2. l \in 1..Len(list) /\ rest[j] = list[l]
    BY <1>1, <1>2, <1>3
  <2>3. k # l
    BY <1>1, <1>2
  <2> HIDE DEF k, l
  <2> QED
    BY <2>1, <2>2, <2>3 DEF NoRepeats
<1> QED
  BY <1>6, <1>7 DEF rest

\* A new member at the end repeats nothing.
LEMMA AppendNoRepeats ==
  ASSUME NEW S, NEW list \in Seq(S), NEW b \in S, NoRepeats(list), b \notin Members(list)
  PROVE  NoRepeats(Append(list, b))
<1> DEFINE longer == Append(list, b)
<1>1. /\ Len(list) \in Nat
      /\ Len(longer) = Len(list) + 1
      /\ \A i \in 1..Len(list) : longer[i] = list[i]
      /\ longer[Len(list) + 1] = b
  BY AppendProperties, LenProperties
<1> HIDE DEF longer
<1>2. \A i \in 1..Len(list) : list[i] # b
  BY DEF Members
<1>3. ASSUME NEW i \in 1..Len(longer)
      PROVE  i \in 1..Len(list) \/ (i = Len(list) + 1)
  BY <1>1
<1>4. ASSUME NEW i \in 1..Len(longer), NEW j \in 1..Len(longer), longer[i] = longer[j]
      PROVE  i = j
  BY <1>1, <1>2, <1>3, <1>4 DEF NoRepeats
<1> QED
  BY <1>4 DEF NoRepeats, longer

\* In a list without repeats an element's position is where it was found.
LEMMA PositionUnique ==
  ASSUME NEW S, NEW list \in Seq(S), NoRepeats(list), NEW i \in 1..Len(list)
  PROVE  PositionOf(list, list[i]) = i
<1>1. list[i] \in Members(list)
  BY DEF Members
<1> QED
  BY <1>1, PositionProperties DEF NoRepeats

\* A sublist goes on with an element behind all it has.
LEMMA AppendInOrder ==
  ASSUME NEW S, NEW list \in Seq(S), NoRepeats(list), NEW sub \in Seq(S),
         InOrderOf(sub, list), NEW p \in 1..Len(list), EndsBefore(sub, list, p),
         NEW longer, longer = sub \o <<list[p]>>
  PROVE  /\ InOrderOf(longer, list)
         /\ Members(longer) = Members(sub) \cup {list[p]}
         /\ EndsBefore(longer, list, p + 1)
<1>1. /\ Len(sub) \in Nat /\ Len(list) \in Nat
      /\ list[p] \in S
  BY LenProperties, ElementOfSeq
<1>2. /\ Len(longer) = Len(sub) + 1
      /\ \A i \in 1..Len(sub) : longer[i] = sub[i]
      /\ longer[Len(sub) + 1] = list[p]
  <2>1. <<list[p]>> \in Seq(S) /\ Len(<<list[p]>>) = 1 /\ <<list[p]>>[1] = list[p]
    BY <1>1
  <2>2. /\ Len(longer) = Len(sub) + 1
        /\ \A i \in 1..Len(longer) :
             longer[i] = IF i <= Len(sub) THEN sub[i] ELSE <<list[p]>>[i - Len(sub)]
    BY <1>1, <2>1, ConcatProperties
  <2>3. (Len(sub) + 1) - Len(sub) = 1 /\ Len(sub) + 1 \in 1..Len(longer)
    BY <1>1, <2>2
  <2> QED
    BY <1>1, <2>1, <2>2, <2>3
<1>3. Members(longer) = Members(sub) \cup {list[p]}
  BY <1>1, <1>2 DEF Members
<1>4. PositionOf(list, list[p]) = p
  BY PositionUnique
<1>5. ASSUME NEW i \in 1..Len(sub)
      PROVE  /\ PositionOf(list, sub[i]) \in 1..Len(list)
             /\ PositionOf(list, sub[i]) < p
  <2>1. sub[i] \in Members(list)
    BY DEF InOrderOf, Members
  <2> QED
    BY <2>1, PositionProperties DEF EndsBefore
<1>6. EndsBefore(longer, list, p + 1)
  <2> SUFFICES ASSUME NEW i \in 1..Len(longer)
               PROVE  PositionOf(list, longer[i]) < p + 1
    BY DEF EndsBefore
  <2>1. CASE i \in 1..Len(sub)
    BY <1>1, <1>2, <1>5, <2>1
  <2>2. CASE i = Len(sub) + 1
    BY <1>1, <1>2, <1>4, <2>2
  <2> QED
    BY <1>1, <1>2, <2>1, <2>2
<1>7. InOrderOf(longer, list)
  <2>1. Members(longer) \subseteq Members(list)
    BY <1>3 DEF InOrderOf, Members
  <2>2. ASSUME NEW i \in 1..Len(longer), NEW j \in 1..Len(longer), i < j
        PROVE  PositionOf(list, longer[i]) < PositionOf(list, longer[j])
    <3>1. i \in 1..Len(sub)
      BY <1>1, <1>2, <2>2
    <3>2. CASE j \in 1..Len(sub)
      BY <1>2, <2>2, <3>1, <3>2 DEF InOrderOf
    <3>3. CASE j = Len(sub) + 1
      BY <1>2, <1>4, <1>5, <3>1, <3>3
    <3> QED
      BY <1>1, <1>2, <3>2, <3>3
  <2> QED
    BY <2>1, <2>2 DEF InOrderOf
<1> QED
  BY <1>3, <1>6, <1>7

\* What a list in order ends before, it ends before one place later.
LEMMA EndsBeforeNext ==
  ASSUME NEW S, NEW list \in Seq(S), NEW sub, InOrderOf(sub, list),
         NEW p \in 1..Len(list), EndsBefore(sub, list, p)
  PROVE  EndsBefore(sub, list, p + 1)
<1> SUFFICES ASSUME NEW i \in 1..Len(sub)
             PROVE  PositionOf(list, sub[i]) < p + 1
  BY DEF EndsBefore
<1>1. sub[i] \in Members(list)
  BY DEF InOrderOf, Members
<1>2. PositionOf(list, sub[i]) \in 1..Len(list)
  BY <1>1, PositionProperties
<1> QED
  BY <1>2, LenProperties DEF EndsBefore

-----------------------------------------------------------------------------
(* Induction, and the folds of SequencesExt: the accumulator of a fold over a   *)
(* list of length n is a function on the sets of its positions.                 *)

\* Induction over a set of naturals; the hypothesis is a set, not an operator.
LEMMA NatSetInduction ==
  ASSUME NEW T, 0 \in T, \A n \in Nat : n \in T => n + 1 \in T
  PROVE  Nat \subseteq T
<1> SUFFICES ASSUME Nat \ T # {} PROVE FALSE
  OBVIOUS
<1> DEFINE R == OpToRel(<, Nat)
<1>1. IsWellFoundedOn(R, Nat)
  BY NatLessThanWellFounded
<1> HIDE DEF R
<1>2. PICK x \in Nat \ T : ~(\E y \in Nat \ T : <<y, x>> \in R)
  BY <1>1, WFMin
<1>3. x # 0
  OBVIOUS
<1>4. x - 1 \in Nat \ T
  BY <1>3
<1>5. <<x - 1, x>> \in R
  BY <1>3, <1>4 DEF R, OpToRel
<1> QED
  BY <1>2, <1>4, <1>5

\* Max of a nonempty set of positions is one of them, and the largest.
LEMMA MaxOf ==
  ASSUME NEW n \in Nat, NEW s \in SUBSET (1..n), s # {}
  PROVE  /\ Max(s) \in s
         /\ \A y \in s : Max(s) >= y
<1> DEFINE T == { k \in Nat : \A u \in SUBSET (1..k) : u # {} => \E x \in u : \A y \in u : x >= y }
<1>0. 1..0 = {}
  OBVIOUS
<1>1. 0 \in T
  BY <1>0
<1>2. ASSUME NEW k \in Nat, k \in T PROVE k + 1 \in T
  <2> SUFFICES ASSUME NEW u \in SUBSET (1..(k + 1)), u # {}
               PROVE  \E x \in u : \A y \in u : x >= y
    OBVIOUS
  <2>1. CASE k + 1 \in u
    BY <2>1
  <2>2. CASE k + 1 \notin u
    <3>1. u \in SUBSET (1..k)
      BY <2>2
    <3> QED
      BY <1>2, <3>1
  <2> QED
    BY <2>1, <2>2
<1> HIDE DEF T
<1>3. n \in T
  BY <1>1, <1>2, NatSetInduction
<1> QED
  BY <1>3 DEF T, Max

\* g is the accumulator of MapThenFoldSet over 1..n: on each set of positions
\* the one that pick gives is taken last.
FoldsBy(g, n, base, step, pick) ==
  g = [s \in SUBSET (1..n) |-> IF s = {} THEN base ELSE step[pick[s]][g[s \ {pick[s]}]]]

\* The accumulator a fold is defined by exists, for lists of any length.
LEMMA FoldExists ==
  ASSUME NEW n \in Nat, NEW S, NEW base \in S, NEW step \in [1..n -> [S -> S]],
         NEW pick, \A s \in SUBSET (1..n) : s # {} => pick[s] \in s
  PROVE  \E g \in [SUBSET (1..n) -> S] : FoldsBy(g, n, base, step, pick)
<1> DEFINE All == SUBSET (1..n)
           Value(g, s) == IF s = {} THEN base ELSE step[pick[s]][g[s \ {pick[s]}]]
           Holds(k) == \E g \in [All -> S] :
                         \A s \in All : Cardinality(s) <= k => g[s] = Value(g, s)
           T == { k \in Nat : Holds(k) }
<1>1. /\ Cardinality(1..n) = n
      /\ \A s \in All : Cardinality(s) \in Nat /\ Cardinality(s) <= n
      /\ \A s \in All : s # {} =>
           /\ pick[s] \in 1..n
           /\ s \ {pick[s]} \in All
           /\ Cardinality(s \ {pick[s]}) = Cardinality(s) - 1
      /\ \A s \in All : Cardinality(s) = 0 <=> s = {}
  <2>1. IsFiniteSet(1..n) /\ Cardinality(1..n) = n
    BY FS_Interval
  <2>2. \A s \in All : IsFiniteSet(s) /\ Cardinality(s) \in Nat /\ Cardinality(s) <= n
    <3> SUFFICES ASSUME NEW s \in SUBSET (1..n)
                 PROVE  IsFiniteSet(s) /\ Cardinality(s) \in Nat /\ Cardinality(s) <= n
      OBVIOUS
    <3>1. IsFiniteSet(s) /\ Cardinality(s) <= Cardinality(1..n)
      BY <2>1, FS_Subset, Zenon
    <3> QED
      BY <2>1, <3>1, FS_CardinalityType
  <2> QED
    BY <2>1, <2>2, FS_RemoveElement, FS_EmptySet
<1> HIDE DEF All
<1>2. Holds(0)
  <2> DEFINE g == [s \in All |-> base]
  <2>1. g \in [All -> S] /\ \A s \in All : g[s] = base
    OBVIOUS
  <2> HIDE DEF g
  <2>2. \A s \in All : Cardinality(s) <= 0 => s = {}
    BY <1>1
  <2> QED
    BY <2>1, <2>2
<1>3. ASSUME NEW k \in Nat, Holds(k)
      PROVE  Holds(k + 1)
  <2>1. PICK g \in [All -> S] : \A s \in All : Cardinality(s) <= k => g[s] = Value(g, s)
    BY <1>3
  <2> DEFINE h == [s \in All |-> Value(g, s)]
  <2>2. ASSUME NEW s \in All
        PROVE  Value(g, s) \in S
    <3>1. CASE s = {}
      BY <3>1
    <3>2. CASE s # {}
      <4>1. pick[s] \in 1..n /\ g[s \ {pick[s]}] \in S
        BY <1>1, <3>2
      <4>2. step[pick[s]] \in [S -> S]
        BY <4>1
      <4> QED
        BY <3>2, <4>1, <4>2
    <3> QED
      BY <3>1, <3>2
  <2>3. h \in [All -> S] /\ \A s \in All : h[s] = Value(g, s)
    BY <2>2
  <2> HIDE DEF h
  <2>4. \A s \in All : Cardinality(s) <= k => h[s] = g[s]
    BY <2>1, <2>3
  <2>5. \A s \in All : Cardinality(s) <= k + 1 => h[s] = Value(h, s)
    <3> SUFFICES ASSUME NEW s \in All, Cardinality(s) <= k + 1, s # {}
                 PROVE  Value(h, s) = Value(g, s)
      BY <2>3
    <3>1. s \ {pick[s]} \in All /\ Cardinality(s \ {pick[s]}) <= k
      BY <1>1
    <3>2. h[s \ {pick[s]}] = g[s \ {pick[s]}]
      BY <2>4, <3>1
    <3> QED
      BY <3>2
  <2> QED
    BY <2>3, <2>5
<1>4. Holds(n)
  <2> HIDE DEF Holds
  <2>1. 0 \in T /\ \A k \in Nat : k \in T => k + 1 \in T
    BY <1>2, <1>3
  <2> HIDE DEF T
  <2>2. n \in T
    BY <2>1, NatSetInduction
  <2> QED
    BY <2>2 DEF T
<1>5. PICK g \in [All -> S] : \A s \in All : g[s] = Value(g, s)
  BY <1>1, <1>4
<1> DEFINE f == [s \in All |-> Value(g, s)]
<1>6. \A s \in All : f[s] = g[s]
  BY <1>5
<1>7. f = [s \in All |-> f[s]] /\ g = [s \in All |-> g[s]]
  OBVIOUS
<1> HIDE DEF f
<1>8. g = f
  BY <1>6, <1>7
<1> QED
  BY <1>8 DEF f, All, FoldsBy

\* FoldLeft takes the last element of a prefix last.
LEMMA MaxOfPrefix ==
  ASSUME NEW i \in Nat \ {0}
  PROVE  /\ 1..i # {} /\ Max(1..i) = i
         /\ (1..i) \ {Max(1..i)} = 1..(i - 1)
<1>1. 1..i \in SUBSET (1..i) /\ i \in 1..i /\ 1..i # {}
  OBVIOUS
<1>3. Max(1..i) \in 1..i /\ \A y \in 1..i : Max(1..i) >= y
  BY <1>1, MaxOf
<1>2. Max(1..i) = i
  BY <1>1, <1>3
<1> QED
  BY <1>1, <1>2

\* Min of a nonempty set of positions is one of them, and the smallest.
LEMMA MinOf ==
  ASSUME NEW n \in Nat, NEW s \in SUBSET (1..n), s # {}
  PROVE  /\ Min(s) \in s
         /\ \A y \in s : Min(s) <= y
<1> DEFINE T == { k \in Nat : \A u \in SUBSET (1..k) : u # {} => \E x \in u : \A y \in u : x <= y }
<1>0. 1..0 = {}
  OBVIOUS
<1>1. 0 \in T
  BY <1>0
<1>2. ASSUME NEW k \in Nat, k \in T PROVE k + 1 \in T
  <2> SUFFICES ASSUME NEW u \in SUBSET (1..(k + 1)), u # {}
               PROVE  \E x \in u : \A y \in u : x <= y
    OBVIOUS
  <2>1. CASE u = {k + 1}
    BY <2>1
  <2>2. CASE u # {k + 1}
    <3>1. u \ {k + 1} \in SUBSET (1..k) /\ u \ {k + 1} # {}
      BY <2>2
    <3>2. PICK x \in u \ {k + 1} : \A y \in u \ {k + 1} : x <= y
      BY <1>2, <3>1
    <3> QED
      BY <3>1, <3>2
  <2> QED
    BY <2>1, <2>2
<1> HIDE DEF T
<1>3. n \in T
  BY <1>1, <1>2, NatSetInduction
<1> QED
  BY <1>3 DEF T, Min

\* FoldRight takes the first element of a suffix last.
LEMMA MinOfSuffix ==
  ASSUME NEW n \in Nat, NEW i \in 1..n
  PROVE  /\ i..n # {} /\ i..n \in SUBSET (1..n)
         /\ Min(i..n) = i /\ (i..n) \ {Min(i..n)} = (i + 1)..n
<1>1. i..n \in SUBSET (1..n) /\ i \in i..n /\ i..n # {}
  OBVIOUS
<1>2. Min(i..n) \in i..n /\ \A y \in i..n : Min(i..n) <= y
  BY <1>1, MinOf
<1>3. Min(i..n) = i
  BY <1>1, <1>2
<1> QED
  BY <1>1, <1>3

-----------------------------------------------------------------------------
(* Remainders *)

\* Division with remainder, and what determines the remainder.
LEMMA DivMod ==
  ASSUME NEW a \in Nat, NEW n \in Nat \ {0}
  PROVE /\ a = n * (a \div n) + (a % n) /\ a % n \in 0..(n-1) /\ a \div n \in Nat
  OBVIOUS

\* Quotient and remainder are determined.
LEMMA DivisionUnique ==
  ASSUME NEW q \in Nat, NEW p \in Nat, NEW n \in Nat \ {0},
         NEW r \in 0..(n-1), NEW s \in 0..(n-1),
         n * q + r = n * p + s
  PROVE r = s
<1>1. CASE q = p
  BY <1>1
<1>2. CASE q < p
  <2>1. PICK d \in Nat : d >= 1 /\ p = q + d
    <3>1. p - q \in Nat /\ p - q >= 1 /\ p = q + (p - q)
      BY <1>2
    <3> QED
      BY <3>1
  <2>2. n * p = n * q + n * d /\ n * d >= n
    <3>1. n * (q + d) = n * q + n * d
      OBVIOUS
    <3>2. PICK e \in Nat : d = 1 + e
      <4>1. d - 1 \in Nat /\ d = 1 + (d - 1)
        BY <2>1
      <4> QED
        BY <4>1
    <3>3. n * (1 + e) = n + n * e /\ n * e >= 0
      OBVIOUS
    <3> QED
      BY <2>1, <3>1, <3>2, <3>3
  <2> QED
    BY <2>2
<1>3. CASE p < q
  OBVIOUS
<1> QED
  BY <1>1, <1>2, <1>3

\* A remainder is known by its range and a quotient.
LEMMA ModIs ==
  ASSUME NEW a \in Nat, NEW n \in Nat \ {0}, NEW q \in Nat, NEW r \in 0..(n-1), a = n * q + r
  PROVE a % n = r
<1>1. /\ a = n * (a \div n) + (a % n) /\ a % n \in 0..(n-1) /\ a \div n \in Nat
  BY DivMod
<1> DEFINE p == a \div n
           s == a % n
<1>2. n * q + r = n * p + s /\ p \in Nat /\ s \in 0..(n-1)
  BY <1>1
<1> HIDE DEF p, s
<1>3. r = s
  BY <1>2, DivisionUnique
<1> QED
  BY <1>3 DEF s

\* The size of an interval that excludes its upper edge.
LEMMA IntervalSize ==
  ASSUME NEW a \in Int, NEW b \in Int, a <= b
  PROVE  IsFiniteSet(a..(b - 1)) /\ Cardinality(a..(b - 1)) = b - a
<1>1. b - 1 \in Int /\ (a > b - 1 <=> a = b) /\ (b - 1) - a + 1 = b - a
  OBVIOUS
<1>2. /\ IsFiniteSet(a..(b - 1))
      /\ Cardinality(a..(b - 1)) = IF a > b - 1 THEN 0 ELSE (b - 1) - a + 1
  BY <1>1, FS_Interval
<1> QED
  BY <1>1, <1>2

\* Of the first k * n numbers, those with a remainder in a..(b - 1).
LEMMA Residues ==
  ASSUME NEW n \in Nat \ {0}, NEW a \in Nat, NEW b \in Nat, a <= b, b <= n, NEW k \in Nat
  PROVE  LET R == { h \in 0..(k * n - 1) : h % n \in a..(b - 1) } IN
         IsFiniteSet(R) /\ Cardinality(R) = k * (b - a)
<1> DEFINE w == b - a
           R(j) == { h \in 0..(j * n - 1) : h % n \in a..(b - 1) }
           T == { j \in Nat : IsFiniteSet(R(j)) /\ Cardinality(R(j)) = j * w }
<1>1. 0 \in T
  <2>1. 0 * n = 0 /\ 0 * w = 0
    OBVIOUS
  <2>2. R(0) = {}
    BY <2>1
  <2> QED
    BY <2>1, <2>2, FS_EmptySet
<1>2. ASSUME NEW j \in Nat, j \in T
      PROVE  j + 1 \in T
  <2> DEFINE from == j * n
             Q == (from + a)..((from + b) - 1)
  <2>1. /\ from \in Nat /\ (j + 1) * n = from + n /\ n * j = from
        /\ j * w \in Int /\ (j + 1) * w = j * w + w
    <3>1. w \in Int
      OBVIOUS
    <3> HIDE DEF w
    <3> QED
      BY <3>1
  <2> HIDE DEF from
  <2>2. ASSUME NEW h \in from..(from + n - 1)
        PROVE  h % n = h - from
    <3>1. h - from \in 0..(n - 1) /\ h \in Nat /\ h = n * j + (h - from)
      BY <2>1
    <3> QED
      BY <3>1, ModIs
  <2>3. R(j + 1) = R(j) \cup Q
    <3>1. 0..((j + 1) * n - 1) = (0..(j * n - 1)) \cup (from..(from + n - 1))
      BY <2>1 DEF from
    <3>2. \A h \in from..(from + n - 1) : h % n \in a..(b - 1) <=> h \in Q
      <4> SUFFICES ASSUME NEW h \in from..(from + n - 1)
                   PROVE  h % n \in a..(b - 1) <=> h \in Q
        OBVIOUS
      <4>1. h % n = h - from
        BY <2>2, Zenon
      <4> QED
        BY <2>1, <4>1
    <3>3. Q \subseteq from..(from + n - 1)
      BY <2>1
    <3> QED
      BY <3>1, <3>2, <3>3
  <2>4. R(j) \cap Q = {}
    BY <2>1 DEF from
  <2>5. IsFiniteSet(Q) /\ Cardinality(Q) = w
    <3>1. from + a \in Int /\ from + b \in Int /\ from + a <= from + b /\ (from + b) - (from + a) = w
      BY <2>1
    <3>2. /\ IsFiniteSet((from + a)..((from + b) - 1))
          /\ Cardinality((from + a)..((from + b) - 1)) = (from + b) - (from + a)
      BY <3>1, IntervalSize, Zenon
    <3> QED
      BY <3>1, <3>2, Zenon
  <2>6. IsFiniteSet(R(j)) /\ Cardinality(R(j)) = j * w
    BY <1>2
  <2> HIDE DEF R, Q, w
  <2>7. /\ IsFiniteSet(R(j) \cup Q)
        /\ Cardinality(R(j) \cup Q) = Cardinality(R(j)) + Cardinality(Q) - Cardinality(R(j) \cap Q)
    BY <2>5, <2>6, FS_Union
  <2>8. Cardinality(R(j) \cap Q) = 0
    BY <2>4, FS_EmptySet
  <2>9. w \in Int
    BY DEF w
  <2>10. IsFiniteSet(R(j + 1)) /\ Cardinality(R(j + 1)) = (j + 1) * w
    BY <2>1, <2>3, <2>5, <2>6, <2>7, <2>8, <2>9
  <2> QED
    BY <2>10
<1> HIDE DEF T
<1>3. k \in T
  BY <1>1, <1>2, NatSetInduction
<1> QED
  BY <1>3 DEF T

\* Of the first m numbers, a residue band is met once in each full round, and at most
\* once more.
LEMMA ResidueShare ==
  ASSUME NEW n \in Nat \ {0}, NEW a \in Nat, NEW b \in Nat, a <= b, b <= n, NEW m \in Nat
  PROVE  LET R == { h \in 0..(m - 1) : h % n \in a..(b - 1) }
             rounds == m \div n
         IN  Cardinality(R) \in (rounds * (b - a))..((rounds + 1) * (b - a))
<1> DEFINE R(x) == { h \in 0..(x - 1) : h % n \in a..(b - 1) }
           rounds == m \div n
<1>1. m = n * rounds + (m % n) /\ m % n \in 0..(n - 1) /\ rounds \in Nat
  BY DivMod
<1> HIDE DEF rounds
<1>2. rounds * n <= m /\ m <= (rounds + 1) * n /\ rounds + 1 \in Nat
  <2>1. n * rounds = rounds * n /\ (rounds + 1) * n = rounds * n + n /\ rounds * n \in Nat
    BY <1>1
  <2> QED
    BY <1>1, <2>1
<1>3. /\ IsFiniteSet(R(rounds * n)) /\ Cardinality(R(rounds * n)) = rounds * (b - a)
      /\ IsFiniteSet(R((rounds + 1) * n)) /\ Cardinality(R((rounds + 1) * n)) = (rounds + 1) * (b - a)
  <2>1. ASSUME NEW k \in Nat
        PROVE  IsFiniteSet(R(k * n)) /\ Cardinality(R(k * n)) = k * (b - a)
    BY Residues, Zenon
  <2> HIDE DEF R
  <2> QED
    BY ONLY <1>1, <1>2, <2>1, Zenon
<1>4. R(rounds * n) \subseteq R(m) /\ R(m) \subseteq R((rounds + 1) * n)
  <2>1. rounds * n \in Int /\ (rounds + 1) * n \in Int
    BY <1>1
  <2>2. 0..(rounds * n - 1) \subseteq 0..(m - 1) /\ 0..(m - 1) \subseteq 0..((rounds + 1) * n - 1)
    BY <1>2, <2>1
  <2> QED
    BY <2>2
<1> HIDE DEF R
<1>5. IsFiniteSet(R(m)) /\ Cardinality(R(m)) <= Cardinality(R((rounds + 1) * n))
  BY <1>3, <1>4, FS_Subset
<1>6. Cardinality(R(rounds * n)) <= Cardinality(R(m))
  BY <1>4, <1>5, FS_Subset
<1>7. /\ Cardinality(R(m)) \in Nat
      /\ rounds * (b - a) \in Int /\ (rounds + 1) * (b - a) \in Int
  <2>1. b - a \in Int
    OBVIOUS
  <2> QED
    BY <1>1, <1>5, <2>1, FS_CardinalityType
<1>8. Cardinality(R(m)) \in (rounds * (b - a))..((rounds + 1) * (b - a))
  BY <1>3, <1>5, <1>6, <1>7
<1> QED
  BY <1>8 DEF R, rounds

-----------------------------------------------------------------------------
(* Loads, compared by cross-multiplication *)

\* The laws of products that the solver does not find by itself.
LEMMA TimesAssoc ==
  ASSUME NEW a \in Int, NEW b \in Int, NEW c \in Int
  PROVE  /\ (a * b) * c = (a * c) * b /\ (a * b) * c = a * (b * c) /\ a * b = b * a
         /\ a * b \in Int /\ (a * b) * c \in Int
         /\ (a + b) * c = a * c + b * c /\ (a - b) * c = a * c - b * c
  OBVIOUS

\* A positive factor keeps the order.
LEMMA TimesLess ==
  ASSUME NEW a \in Int, NEW b \in Int, NEW k \in Nat \ {0}
  PROVE  (a < b <=> a * k < b * k) /\ (a <= b <=> a * k <= b * k)
  OBVIOUS

\* The order of the ratios is transitive, compared by products.
LEMMA RatioTrans ==
  ASSUME NEW c \in Int, NEW m \in Int, NEW b \in Int,
         NEW wc \in Nat \ {0}, NEW wm \in Nat \ {0}, NEW wb \in Nat \ {0},
         c * wm < m * wc, m * wb <= b * wm
  PROVE  c * wb < b * wc
<1>1. (c * wm) * wb < (m * wc) * wb
  BY TimesLess
<1>2. (m * wb) * wc <= (b * wm) * wc
  BY TimesLess
<1>3. /\ (c * wm) * wb = (c * wb) * wm
      /\ (m * wc) * wb = (m * wb) * wc
      /\ (b * wm) * wc = (b * wc) * wm
  BY TimesAssoc
<1>4. (c * wb) * wm < (b * wc) * wm
  BY <1>1, <1>2, <1>3
<1> QED
  BY <1>4, TimesLess

\* One element more: either it is lighter than the least so far, or that stays.
LEMMA FirstLeastNext ==
  ASSUME NEW B, NEW list \in Seq(B), NEW conns \in [B -> Int], NEW weight \in [B -> Nat \ {0}],
         NEW k \in Nat, k + 1 <= Len(list), NEW p, FirstLeast(list, k, p, conns, weight)
  PROVE  FirstLeast(list, k + 1,
                    IF LighterThan(list[k + 1], list[p], conns, weight) THEN k + 1 ELSE p,
                    conns, weight)
<1> DEFINE c == list[k + 1]
           m == list[p]
           Lighter(a, b) == LighterThan(a, b, conns, weight)
<1>1. /\ Len(list) \in Nat /\ p \in 1..k
      /\ \A j \in 1..(k + 1) : list[j] \in B
      /\ \A j \in 1..(k + 1) : j \in 1..k \/ j = k + 1
  BY LenProperties, ElementOfSeq DEF FirstLeast
<1>2. \A a, b \in B : Lighter(a, b) => ~Lighter(b, a)
  BY DEF LighterThan
<1>3. CASE Lighter(c, m)
  <2>1. ASSUME NEW j \in 1..k
        PROVE  Lighter(c, list[j])
    <3>2. c \in B /\ m \in B /\ list[j] \in B
      BY <1>1
    <3>1. ~Lighter(list[j], m)
      <4>1. Lighter(m, list[j]) \/ ~Lighter(list[j], m)
        BY DEF FirstLeast
      <4> HIDE DEF Lighter, m, c
      <4> QED
        BY <1>2, <3>2, <4>1
    <3> HIDE DEF c, m
    <3>3. /\ conns[c] \in Int /\ conns[m] \in Int /\ conns[list[j]] \in Int
          /\ weight[c] \in Nat \ {0} /\ weight[m] \in Nat \ {0} /\ weight[list[j]] \in Nat \ {0}
      BY <3>2
    <3>4. /\ conns[c] * weight[m] < conns[m] * weight[c]
          /\ conns[m] * weight[list[j]] <= conns[list[j]] * weight[m]
      <4>1. conns[c] * weight[m] < conns[m] * weight[c]
        BY <1>3, Zenon DEF LighterThan
      <4>2. ~(conns[list[j]] * weight[m] < conns[m] * weight[list[j]])
        BY <3>1, Zenon DEF LighterThan
      <4>3. conns[list[j]] * weight[m] \in Int /\ conns[m] * weight[list[j]] \in Int
        BY ONLY <3>3, TimesAssoc, SMTT(30)
      <4> QED
        BY ONLY <4>1, <4>2, <4>3
    <3> QED
      BY <3>3, <3>4, RatioTrans DEF LighterThan
  <2>2. ~Lighter(c, c)
    <3>1. c \in B
      BY <1>1
    <3> HIDE DEF Lighter, c
    <3> QED
      BY <1>2, <3>1
  <2> QED
    BY <1>1, <1>3, <2>1, <2>2, SMTT(30) DEF FirstLeast
<1>4. CASE ~Lighter(c, m)
  BY <1>1, <1>4, SMTT(30) DEF FirstLeast
<1> QED
  BY <1>3, <1>4

\* Only one element is the first of the least.
LEMMA FirstLeastUnique ==
  ASSUME NEW list, NEW k \in Nat, NEW p, NEW q, NEW conns, NEW weight,
         FirstLeast(list, k, p, conns, weight), FirstLeast(list, k, q, conns, weight)
  PROVE  p = q
<1>1. p \in 1..k /\ q \in 1..k
  BY DEF FirstLeast
<1>2. CASE p < q
  BY <1>1, <1>2 DEF FirstLeast
<1>3. CASE q < p
  BY <1>1, <1>3 DEF FirstLeast
<1> QED
  BY <1>1, <1>2, <1>3

\* LeastLoaded's answer is the first of the least of list.
AnswerFirstLeast(list, conns, weight) ==
  \E p : /\ FirstLeast(list, Len(list), p, conns, weight)
         /\ LeastLoaded(list, conns, weight) = list[p]

\* slices.MinFunc returns the first of the least loaded, of however many.
LEMMA LeastLoadedFirst ==
  ASSUME NEW B, NEW list \in Seq(B), Len(list) > 0,
         NEW conns \in [B -> Int], NEW weight \in [B -> Nat \ {0}]
  PROVE  AnswerFirstLeast(list, conns, weight)
<1> DEFINE n == Len(list) - 1
           rest == Tail(list)
           Lighter(a, b) == LighterThan(a, b, conns, weight)
           Better(best, b) == IF Lighter(b, best) THEN b ELSE best
           iter == CHOOSE g : g = [s \in SUBSET (1..n) |->
                     IF s = {} THEN Head(list) ELSE Better(g[s \ {Max(s)}], rest[Max(s)])]
<1>1. /\ n \in Nat /\ DOMAIN rest = 1..n
      /\ Head(list) = list[1] /\ Head(list) \in B
      /\ \A i \in 1..n : rest[i] = list[i + 1] /\ rest[i] \in B
  BY HeadTailProperties, LenProperties, ElementOfSeq
<1>2. LeastLoaded(list, conns, weight) = iter[1..n]
  BY <1>1 DEF LeastLoaded, FoldLeft, MapThenFoldSet
<1> HIDE DEF n, rest, Lighter
<1>3. iter = [s \in SUBSET (1..n) |->
                IF s = {} THEN Head(list) ELSE Better(iter[s \ {Max(s)}], rest[Max(s)])]
  <2> DEFINE step == [i \in 1..n |-> [a \in B |-> Better(a, rest[i])]]
             pick == [s \in SUBSET (1..n) |-> Max(s)]
  <2>1. step \in [1..n -> [B -> B]]
    BY <1>1
  <2>2. \A s \in SUBSET (1..n) : s # {} => pick[s] \in s
    BY <1>1, MaxOf
  <2> HIDE DEF step, pick
  <2> DEFINE base == Head(list)
  <2>7. n \in Nat /\ base \in B
    BY <1>1
  <2> HIDE DEF base, Better
  <2>3. PICK g \in [SUBSET (1..n) -> B] : FoldsBy(g, n, base, step, pick)
    BY <2>1, <2>2, <2>7, FoldExists
  <2> USE DEF base, Better
  <2>4. ASSUME NEW s \in SUBSET (1..n), s # {}
        PROVE  step[pick[s]][g[s \ {pick[s]}]] = Better(g[s \ {Max(s)}], rest[Max(s)])
    <3>1. pick[s] = Max(s)
      BY DEF pick
    <3>2. Max(s) \in 1..n /\ g[s \ {Max(s)}] \in B
      BY <2>2, <2>4, <3>1
    <3> QED
      BY <3>1, <3>2 DEF step
  <2>5. g = [s \in SUBSET (1..n) |->
               IF s = {} THEN Head(list) ELSE Better(g[s \ {Max(s)}], rest[Max(s)])]
    BY <2>3, <2>4 DEF FoldsBy
  <2> QED
    BY <2>5
<1> HIDE DEF iter
<1> DEFINE Holds(i) == \E p : FirstLeast(list, i + 1, p, conns, weight) /\ iter[1..i] = list[p]
           T == { i \in Nat : i <= n => Holds(i) }
<1>4. 0 \in T
  <2>1. iter[1..0] = list[1]
    <3>1. 1..0 = {}
      OBVIOUS
    <3> QED
      BY <1>1, <1>3, <3>1
  <2>2. FirstLeast(list, 0 + 1, 1, conns, weight)
    BY <1>1 DEF FirstLeast, LighterThan
  <2> QED
    BY <2>1, <2>2
<1>5. ASSUME NEW i \in Nat, i \in T
      PROVE  i + 1 \in T
  <2>0. i + 1 \in Nat /\ i + 1 # 0 /\ (i + 1) - 1 = i
    OBVIOUS
  <2> SUFFICES ASSUME i + 1 <= n, Holds(i)
               PROVE  Holds(i + 1)
    <3> HIDE DEF Holds
    <3> QED
      BY <1>1, <1>5, <2>0
  <2>1. PICK p : FirstLeast(list, i + 1, p, conns, weight) /\ iter[1..i] = list[p]
    OBVIOUS
  <2>2. iter[1..(i + 1)] = Better(list[p], list[i + 2])
    <3>1. /\ 1..(i + 1) # {} /\ Max(1..(i + 1)) = i + 1
          /\ (1..(i + 1)) \ {Max(1..(i + 1))} = 1..i
      BY <2>0, MaxOfPrefix
    <3>2. 1..(i + 1) \in SUBSET (1..n) /\ rest[i + 1] = list[i + 2]
      <4>1. i + 1 \in 1..n /\ (i + 1) + 1 = i + 2 /\ 1..(i + 1) \subseteq 1..n
        BY <1>1, <2>0
      <4>2. rest[i + 1] = list[(i + 1) + 1]
        BY <1>1, <4>1
      <4> QED
        BY <4>1, <4>2
    <3> HIDE DEF Better
    <3>3. iter[1..(i + 1)] =
            Better(iter[(1..(i + 1)) \ {Max(1..(i + 1))}], rest[Max(1..(i + 1))])
      BY <1>3, <3>1, <3>2
    <3> QED
      BY <2>1, <3>1, <3>2, <3>3, Zenon
  <2>3. (i + 1) + 1 = i + 2 /\ i + 1 \in Nat /\ (i + 1) + 1 <= Len(list)
    BY LenProperties DEF n
  <2>4. FirstLeast(list, (i + 1) + 1,
                   IF Lighter(list[(i + 1) + 1], list[p]) THEN (i + 1) + 1 ELSE p, conns, weight)
    BY <2>1, <2>3, FirstLeastNext DEF Lighter
  <2> QED
    BY <2>2, <2>3, <2>4
<1> HIDE DEF T
<1>6. n \in T
  BY <1>1, <1>4, <1>5, NatSetInduction
<1>7. Holds(n) /\ n + 1 = Len(list)
  BY <1>1, <1>6, LenProperties DEF T, n
<1>8. LeastLoaded(list, conns, weight) = iter[1..n]
  BY <1>2
<1> QED
  BY <1>7, <1>8 DEF AnswerFirstLeast

=============================================================================
