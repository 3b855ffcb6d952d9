--------------------------- MODULE RegistryProofs ---------------------------
(***************************************************************************)
(* Proofs about Registry, for any number of writers, objects and URLs.     *)
(***************************************************************************)
EXTENDS RegistryReads, ListProofs

\* The pool after a Store, and the heap of slices it leaves.
LEMMA PublishEffect ==
  ASSUME TypeOK, NEW list \in Seq(Backend), Publish(list)
  PROVE  /\ slices' \in Seq(Seq(Backend))
         /\ Len(slices) \in Nat
         /\ Len(slices') = Len(slices) + 1
         /\ backends' = Len(slices')
         /\ Current' = list
         /\ \A i \in 1..Len(slices) : slices'[i] = slices[i]
  BY AppendProperties, LenProperties DEF TypeOK, Publish, Current

LEMMA CurrentType ==
  ASSUME TypeOK
  PROVE  /\ Current \in Seq(Backend)
         /\ \A w \in Writer : slices[cur[w]] \in Seq(Backend)
         /\ \A b \in Members(Current) : b \in Backend
  BY LenProperties DEF TypeOK, Current, Members

\* No object twice, no URL twice but those config.yaml repeats.
Unique(list) ==
  /\ NoRepeats(list)
  /\ \A a, b \in Members(list) :
       a # b /\ UrlOf[a] = UrlOf[b] => {a, b} \subseteq Members(Baseline)

LEMMA UniqueCurrent ==
  /\ UniqueRegistration <=> Unique(Current)
  /\ UniqueRegistration' <=> Unique(Current')
<1> DEFINE Spelled(list) ==
             \A i, j \in 1..Len(list) :
               i # j =>
                 /\ list[i] # list[j]
                 /\ UrlOf[list[i]] = UrlOf[list[j]] =>
                      {list[i], list[j]} \subseteq Members(Baseline)
<1>1. ASSUME NEW list PROVE Spelled(list) <=> Unique(list)
  BY DEF Unique, Members, NoRepeats
<1>2. /\ UniqueRegistration <=> Spelled(Current)
      /\ UniqueRegistration' <=> Spelled(Current')
  BY DEF UniqueRegistration, Pool!UniqueRegistration, Pool!Members, Members
<1> HIDE DEF Spelled
<1> QED
  BY <1>1, <1>2

LEMMA WithoutUnique ==
  ASSUME NEW list \in Seq(Backend), NEW b \in Members(list), Unique(list)
  PROVE  /\ Members(Without(list, b)) = Members(list) \ {b}
         /\ Unique(Without(list, b))
  BY WithoutMembers DEF Unique

LEMMA AppendUnique ==
  ASSUME NEW list \in Seq(Backend), NEW b \in Backend, Unique(list),
         b \notin Members(list), ~UrlTaken(list, b)
  PROVE  Unique(Append(list, b))
<1>1. NoRepeats(Append(list, b))
  BY AppendNoRepeats DEF Unique
<1>2. \A a \in Members(list) : UrlOf[a] # UrlOf[b]
  BY DEF UrlTaken, Members
<1>3. Members(Append(list, b)) = Members(list) \cup {b}
  BY MembersAppend
<1> QED
  BY <1>1, <1>2, <1>3 DEF Unique

LEMMA InitInd == Init => IndInv
<1> SUFFICES ASSUME Init PROVE IndInv
  OBVIOUS
<1>1. /\ Current = Baseline /\ Baseline \in Seq(Backend)
      /\ slices \in Seq(Seq(Backend)) /\ Len(slices) = 1 /\ backends = 1
      /\ Members(Baseline) \in SUBSET Backend
  BY BackendAssumption DEF Init, Current, Members
<1>2. TypeOK
  BY <1>1 DEF Init, TypeOK
<1>3. LockInv /\ ArgInv /\ DecisionInv /\ PoolInv /\ AnswerStands
  BY <1>1, RegistryAssumption
  DEF Init, LockInv, ArgInv, DecisionInv, PoolInv, AnswerStands, Critical
<1>4. UniqueRegistration
  BY <1>1, UniqueCurrent, BackendAssumption DEF Unique, Members, NoRepeats
<1> QED
  BY <1>2, <1>3, <1>4 DEF IndInv

LEMMA BeginInd ==
  ASSUME IndInv, NEW w \in Writer, NEW kind \in {"add", "remove"}, NEW b \in Backend, Begin(w, kind, b)
  PROVE  IndInv'
<1> USE DEF IndInv
<1>1. Current' = Current /\ created' = created
  BY DEF Current, Begin, Fresh, Goto, poolVars
<1>2. TypeOK'
  BY LenProperties, RegistryAssumption DEF TypeOK, Begin, Fresh, Goto, poolVars
<1>3. LockInv'
  BY RegistryAssumption DEF TypeOK, LockInv, ArgInv, Critical, Begin, Fresh, Goto, poolVars
<1>4. ArgInv'
  BY <1>1, RegistryAssumption DEF TypeOK, LockInv, ArgInv, Critical, Begin, Fresh, Goto, poolVars
<1>5. DecisionInv'
  BY <1>1 DEF TypeOK, LockInv, ArgInv, DecisionInv, Critical, Registered, Begin, Fresh, Goto, poolVars
<1>6. PoolInv'
  BY <1>1, CurrentType DEF PoolInv, Begin, Fresh, Goto, poolVars
<1>7. UniqueRegistration'
  BY <1>1, UniqueCurrent
<1>8. AnswerStands'
  BY <1>1 DEF TypeOK, LockInv, ArgInv, DecisionInv, AnswerStands, Registered, Begin, Fresh, Goto, poolVars
<1> QED
  BY <1>2, <1>3, <1>4, <1>5, <1>6, <1>7, <1>8

LEMMA LockInd ==
  ASSUME IndInv, NEW w \in Writer, Lock(w)
  PROVE  IndInv'
<1> USE DEF IndInv
<1>1. Current' = Current /\ created' = created
  BY DEF Current, Lock, Free, Goto, poolVars
<1>2. TypeOK'
  BY LenProperties, RegistryAssumption DEF TypeOK, Lock, Free, Goto, poolVars
<1>3. LockInv'
  BY RegistryAssumption DEF TypeOK, LockInv, ArgInv, Critical, Lock, Free, Goto, poolVars
<1>4. ArgInv'
  BY <1>1, RegistryAssumption DEF TypeOK, LockInv, ArgInv, Critical, Lock, Free, Goto, poolVars
<1>5. DecisionInv'
  BY <1>1 DEF TypeOK, LockInv, ArgInv, DecisionInv, Critical, Registered, Lock, Free, Goto, poolVars
<1>6. PoolInv'
  BY <1>1, CurrentType DEF PoolInv, Lock, Free, Goto, poolVars
<1>7. UniqueRegistration'
  BY <1>1, UniqueCurrent
<1>8. AnswerStands'
  BY <1>1 DEF TypeOK, LockInv, ArgInv, DecisionInv, AnswerStands, Registered, Lock, Free, Goto, poolVars
<1> QED
  BY <1>2, <1>3, <1>4, <1>5, <1>6, <1>7, <1>8

LEMMA AddCheckInd ==
  ASSUME IndInv, NEW w \in Writer, AddCheck(w)
  PROVE  IndInv'
<1> USE DEF IndInv
<1>1. Current' = Current /\ created' = created
  BY DEF Current, AddCheck, Goto, poolVars
<1>2. TypeOK'
  BY LenProperties, RegistryAssumption DEF TypeOK, AddCheck, Goto, poolVars
<1>3. LockInv'
  BY RegistryAssumption DEF TypeOK, LockInv, ArgInv, Critical, AddCheck, Goto, poolVars
<1>4. ArgInv'
  BY <1>1, RegistryAssumption DEF TypeOK, LockInv, ArgInv, Critical, AddCheck, Goto, poolVars
<1>5. DecisionInv'
  BY <1>1 DEF TypeOK, LockInv, ArgInv, DecisionInv, Critical, Registered, AddCheck, Goto, poolVars
<1>6. PoolInv'
  BY <1>1, CurrentType DEF PoolInv, AddCheck, Goto, poolVars
<1>7. UniqueRegistration'
  BY <1>1, UniqueCurrent
<1>8. AnswerStands'
  BY <1>1 DEF TypeOK, LockInv, ArgInv, DecisionInv, AnswerStands, Registered, AddCheck, Goto, poolVars
<1> QED
  BY <1>2, <1>3, <1>4, <1>5, <1>6, <1>7, <1>8

LEMMA RemoveCheckInd ==
  ASSUME IndInv, NEW w \in Writer, RemoveCheck(w)
  PROVE  IndInv'
<1> USE DEF IndInv
<1>1. Current' = Current /\ created' = created
  BY DEF Current, RemoveCheck, Goto, poolVars
<1>2. TypeOK'
  BY LenProperties, RegistryAssumption DEF TypeOK, RemoveCheck, Goto, poolVars
<1>3. LockInv'
  BY RegistryAssumption DEF TypeOK, LockInv, ArgInv, Critical, RemoveCheck, Goto, poolVars
<1>4. ArgInv'
  BY <1>1, RegistryAssumption DEF TypeOK, LockInv, ArgInv, Critical, RemoveCheck, Goto, poolVars
<1>5. DecisionInv'
  BY <1>1 DEF TypeOK, LockInv, ArgInv, DecisionInv, Critical, Registered, RemoveCheck, Goto, poolVars
<1>6. PoolInv'
  BY <1>1, CurrentType DEF PoolInv, RemoveCheck, Goto, poolVars
<1>7. UniqueRegistration'
  BY <1>1, UniqueCurrent
<1>8. AnswerStands'
  BY <1>1 DEF TypeOK, LockInv, ArgInv, DecisionInv, AnswerStands, Registered, RemoveCheck, Goto, poolVars
<1> QED
  BY <1>2, <1>3, <1>4, <1>5, <1>6, <1>7, <1>8

LEMMA RemoveCopyInd ==
  ASSUME IndInv, NEW w \in Writer, RemoveCopy(w)
  PROVE  IndInv'
<1> USE DEF IndInv
<1>1. Current' = Current /\ created' = created
  BY DEF Current, RemoveCopy, Goto, poolVars
<1>2. TypeOK'
  BY LenProperties, RegistryAssumption DEF TypeOK, RemoveCopy, Goto, poolVars
<1>3. LockInv'
  BY RegistryAssumption DEF TypeOK, LockInv, ArgInv, Critical, RemoveCopy, Goto, poolVars
<1>4. ArgInv'
  BY <1>1, RegistryAssumption DEF TypeOK, LockInv, ArgInv, Critical, RemoveCopy, Goto, poolVars
<1>5. DecisionInv'
  BY <1>1 DEF TypeOK, LockInv, ArgInv, DecisionInv, Critical, Registered, RemoveCopy, Goto, poolVars
<1>6. PoolInv'
  BY <1>1, CurrentType DEF PoolInv, RemoveCopy, Goto, poolVars
<1>7. UniqueRegistration'
  BY <1>1, UniqueCurrent
<1>8. AnswerStands'
  BY <1>1 DEF TypeOK, LockInv, ArgInv, DecisionInv, AnswerStands, Registered, RemoveCopy, Goto, poolVars
<1> QED
  BY <1>2, <1>3, <1>4, <1>5, <1>6, <1>7, <1>8

LEMMA UnlockInd ==
  ASSUME IndInv, NEW w \in Writer, Unlock(w)
  PROVE  IndInv'
<1> USE DEF IndInv
<1>1. Current' = Current /\ created' = created
  BY DEF Current, Unlock, HolderAfter, Goto, poolVars
<1>2. TypeOK'
  BY LenProperties, RegistryAssumption DEF TypeOK, Unlock, HolderAfter, Goto, poolVars
<1>3. LockInv'
  BY RegistryAssumption DEF TypeOK, LockInv, ArgInv, Critical, Unlock, HolderAfter, Goto, poolVars
<1>4. ArgInv'
  BY <1>1, RegistryAssumption DEF TypeOK, LockInv, ArgInv, Critical, Unlock, HolderAfter, Goto, poolVars
<1>5. DecisionInv'
  BY <1>1 DEF TypeOK, LockInv, ArgInv, DecisionInv, Critical, Registered, Unlock, HolderAfter, Goto, poolVars
<1>6. PoolInv'
  BY <1>1, CurrentType DEF PoolInv, Unlock, HolderAfter, Goto, poolVars
<1>7. UniqueRegistration'
  BY <1>1, UniqueCurrent
<1>8. AnswerStands'
  BY <1>1 DEF TypeOK, LockInv, ArgInv, DecisionInv, AnswerStands, Registered, Unlock, HolderAfter, Goto, poolVars
<1> QED
  BY <1>2, <1>3, <1>4, <1>5, <1>6, <1>7, <1>8

LEMMA SetFindInd ==
  ASSUME IndInv, NEW b \in Backend, NEW v \in BOOLEAN, SetFind(b, v)
  PROVE  IndInv'
<1> USE DEF IndInv
<1>1. Current' = Current /\ created' = created
  BY DEF Current, SetFind, writerVars, poolVars
<1>2. TypeOK'
  BY LenProperties, RegistryAssumption DEF TypeOK, SetFind, writerVars, poolVars
<1>3. LockInv'
  BY RegistryAssumption DEF TypeOK, LockInv, ArgInv, Critical, SetFind, writerVars, poolVars
<1>4. ArgInv'
  BY <1>1, RegistryAssumption DEF TypeOK, LockInv, ArgInv, Critical, SetFind, writerVars, poolVars
<1>5. DecisionInv'
  BY <1>1 DEF TypeOK, LockInv, ArgInv, DecisionInv, Critical, Registered, SetFind, writerVars, poolVars
<1>6. PoolInv'
  BY <1>1, CurrentType DEF PoolInv, SetFind, writerVars, poolVars
<1>7. UniqueRegistration'
  BY <1>1, UniqueCurrent
<1>8. AnswerStands'
  BY <1>1 DEF TypeOK, LockInv, ArgInv, DecisionInv, AnswerStands, Registered, SetFind, writerVars, poolVars
<1> QED
  BY <1>2, <1>3, <1>4, <1>5, <1>6, <1>7, <1>8

LEMMA SetStoreInd ==
  ASSUME IndInv, NEW b \in Backend, NEW v \in BOOLEAN, SetStore(b, v)
  PROVE  IndInv'
<1> USE DEF IndInv
<1>1. Current' = Current /\ created' = created
  BY DEF Current, SetStore, writerVars
<1>2. TypeOK'
  BY LenProperties, RegistryAssumption DEF TypeOK, SetStore, writerVars
<1>3. LockInv'
  BY RegistryAssumption DEF TypeOK, LockInv, ArgInv, Critical, SetStore, writerVars
<1>4. ArgInv'
  BY <1>1, RegistryAssumption DEF TypeOK, LockInv, ArgInv, Critical, SetStore, writerVars
<1>5. DecisionInv'
  BY <1>1 DEF TypeOK, LockInv, ArgInv, DecisionInv, Critical, Registered, SetStore, writerVars
<1>6. PoolInv'
  BY <1>1, CurrentType DEF PoolInv, SetStore, writerVars
<1>7. UniqueRegistration'
  BY <1>1, UniqueCurrent
<1>8. AnswerStands'
  BY <1>1 DEF TypeOK, LockInv, ArgInv, DecisionInv, AnswerStands, Registered, SetStore, writerVars
<1> QED
  BY <1>2, <1>3, <1>4, <1>5, <1>6, <1>7, <1>8

LEMMA AddStoreInd ==
  ASSUME IndInv, NEW w \in Writer, AddStore(w)
  PROVE  IndInv'
<1> USE DEF IndInv
<1> DEFINE b == arg[w]
<1>1. /\ mu = w
      /\ cur[w] = backends
      /\ b \in Backend /\ b \notin created
      /\ ~UrlTaken(Current, b)
      /\ b \notin Members(Current)
  BY DEF AddStore, LockInv, Critical, ArgInv, DecisionInv, PoolInv
<1>2. /\ Append(Current, b) \in Seq(Backend)
      /\ Members(Append(Current, b)) = Members(Current) \cup {b}
      /\ Unique(Append(Current, b))
  BY <1>1, CurrentType, MembersAppend, AppendUnique, UniqueCurrent
<1>3. Publish(Append(Current, b))
  BY <1>1 DEF AddStore, Current
<1>4. /\ slices' \in Seq(Seq(Backend))
      /\ Len(slices) \in Nat
      /\ Len(slices') = Len(slices) + 1
      /\ backends' = Len(slices')
      /\ Current' = Append(Current, b)
  BY <1>2, <1>3, PublishEffect
<1>5. created' = created \cup {b}
  BY DEF AddStore
<1>6. TypeOK'
  <2>1. /\ pc' \in [Writer -> {"idle", "lock", "check", "copy", "store", "unlock"}]
        /\ reply' \in [Writer -> {"none", "created", "conflict", "ok", "notFound"}]
    BY DEF TypeOK, AddStore, Goto
  <2>2. cur' \in [Writer -> 1..Len(slices')] /\ backends' \in 1..Len(slices')
    <3>1. cur' = cur /\ cur \in [Writer -> 1..Len(slices)]
      BY DEF TypeOK, AddStore
    <3>2. 1..Len(slices) \subseteq 1..Len(slices') /\ Len(slices') \in 1..Len(slices')
      BY <1>4
    <3> QED
      BY <1>4, <3>1, <3>2
  <2>3. created' \in SUBSET Backend
    BY <1>1, <1>5 DEF TypeOK
  <2> QED
    BY <1>4, <2>1, <2>2, <2>3 DEF TypeOK, AddStore
<1>7. LockInv'
  BY <1>1 DEF TypeOK, LockInv, Critical, AddStore, Goto
<1>8. ArgInv'
  BY <1>1, <1>5 DEF TypeOK, ArgInv, AddStore, Goto
<1>9. DecisionInv'
  BY <1>1 DEF TypeOK, LockInv, Critical, DecisionInv, AddStore, Goto
<1>10. PoolInv'
  BY <1>2, <1>4, <1>5 DEF PoolInv, AddStore
<1>11. UniqueRegistration'
  BY <1>2, <1>4, UniqueCurrent
<1>12. AnswerStands'
  BY <1>1, <1>2, <1>4
  DEF TypeOK, LockInv, Critical, AnswerStands, Registered, AddStore, Goto
<1> QED
  BY <1>6, <1>7, <1>8, <1>9, <1>10, <1>11, <1>12

LEMMA RemoveStoreInd ==
  ASSUME IndInv, NEW w \in Writer, RemoveStore(w)
  PROVE  IndInv'
<1> USE DEF IndInv
<1> DEFINE b == arg[w]
           rest == Without(Current, b)
<1>1. /\ mu = w
      /\ cur[w] = backends
      /\ b \in Members(Current)
  BY DEF RemoveStore, LockInv, Critical, DecisionInv, Registered
<1>2. /\ rest \in Seq(Backend)
      /\ Members(rest) = Members(Current) \ {b}
      /\ Unique(rest)
  BY <1>1, CurrentType, WithoutProperties, WithoutUnique, UniqueCurrent
<1>3. Publish(rest)
  BY <1>1 DEF RemoveStore, Current
<1> HIDE DEF rest
<1>4. /\ slices' \in Seq(Seq(Backend))
      /\ Len(slices) \in Nat
      /\ Len(slices') = Len(slices) + 1
      /\ backends' = Len(slices')
      /\ Current' = rest
  BY <1>2, <1>3, PublishEffect
<1>5. TypeOK'
  <2>1. /\ pc' \in [Writer -> {"idle", "lock", "check", "copy", "store", "unlock"}]
        /\ reply' \in [Writer -> {"none", "created", "conflict", "ok", "notFound"}]
    BY DEF TypeOK, RemoveStore, Goto
  <2>2. cur' \in [Writer -> 1..Len(slices')] /\ backends' \in 1..Len(slices')
    <3>1. cur' = cur /\ cur \in [Writer -> 1..Len(slices)]
      BY DEF TypeOK, RemoveStore
    <3>2. 1..Len(slices) \subseteq 1..Len(slices') /\ Len(slices') \in 1..Len(slices')
      BY <1>4
    <3> QED
      BY <1>4, <3>1, <3>2
  <2> QED
    BY <1>1, <1>4, <2>1, <2>2 DEF TypeOK, RemoveStore
<1>6. LockInv'
  BY <1>1 DEF TypeOK, LockInv, Critical, RemoveStore, Goto
<1>7. ArgInv'
  BY <1>1 DEF TypeOK, ArgInv, RemoveStore, Goto
<1>8. DecisionInv'
  BY <1>1 DEF TypeOK, LockInv, Critical, DecisionInv, RemoveStore, Goto
<1>9. PoolInv'
  BY <1>2, <1>4 DEF PoolInv, RemoveStore
<1>10. UniqueRegistration'
  BY <1>2, <1>4, UniqueCurrent
<1>11. AnswerStands'
  BY <1>1, <1>2, <1>4
  DEF TypeOK, LockInv, Critical, AnswerStands, Registered, RemoveStore, Goto
<1> QED
  BY <1>5, <1>6, <1>7, <1>8, <1>9, <1>10, <1>11

LEMMA StutterInd == IndInv /\ UNCHANGED vars => IndInv'
<1> SUFFICES ASSUME IndInv, UNCHANGED vars PROVE IndInv'
  OBVIOUS
<1> USE DEF IndInv, vars, poolVars, writerVars
<1>1. Current' = Current
  BY DEF Current
<1>2. UniqueRegistration'
  BY <1>1, UniqueCurrent
<1> QED
  BY <1>1, <1>2 DEF TypeOK, LockInv, Critical, ArgInv, DecisionInv, PoolInv,
                    AnswerStands, Registered

\* Every step of every writer and of the prober keeps the invariant.
THEOREM StepInd == IndInv /\ [Next]_vars => IndInv'
<1> SUFFICES ASSUME IndInv, [Next]_vars PROVE IndInv'
  OBVIOUS
<1>1. CASE UNCHANGED vars
  BY <1>1, StutterInd
<1>2. ASSUME NEW w \in Writer, NEW kind \in {"add", "remove"},
             NEW b \in Backend, Begin(w, kind, b)
      PROVE  IndInv'
  BY <1>2, BeginInd
<1>3. ASSUME NEW w \in Writer, Step(w)
      PROVE  IndInv'
  BY <1>3, LockInd, AddCheckInd, AddStoreInd, RemoveCheckInd, RemoveCopyInd,
     RemoveStoreInd, UnlockInd DEF Step
<1>4. ASSUME NEW b \in Backend, NEW v \in BOOLEAN, SetFind(b, v) \/ SetStore(b, v)
      PROVE  IndInv'
  BY <1>4, SetFindInd, SetStoreInd
<1> QED
  BY <1>1, <1>2, <1>3, <1>4 DEF Next

-----------------------------------------------------------------------------

\* The inductive invariant holds in every interleaving of the calls.
THEOREM Invariance == Safety => []IndInv
  BY InitInd, StepInd, PTL DEF Safety

\* The types are right in every reachable state.
THEOREM TypeCorrect == Safety => []TypeOK
<1>1. IndInv => TypeOK
  BY DEF IndInv
<1> QED
  BY <1>1, Invariance, PTL

\* AddNewBackend never registers an ID or a URL twice, for any number of
\* concurrent writers.
THEOREM RegistrationUnique == Safety => []UniqueRegistration
<1>1. IndInv => UniqueRegistration
  BY DEF IndInv
<1> QED
  BY <1>1, Invariance, PTL

\* An answer of AddNewBackend or RemoveInstanceByID is still true when r.mu
\* is released.
THEOREM AnswersTrue == Safety => []AnswerStands
<1>1. IndInv => AnswerStands
  BY DEF IndInv
<1> QED
  BY <1>1, Invariance, PTL

\* Copy-on-write: no step changes a slice some reader may hold.
THEOREM SlicesImmutable == Safety => PublishedImmutable
<1>1. IndInv /\ [Next]_vars =>
        [\A i \in 1..Len(slices) :
           i \in 1..Len(slices') /\ slices'[i] = slices[i]]_vars
  <2> SUFFICES ASSUME IndInv, Next
               PROVE  \A i \in 1..Len(slices) :
                        i \in 1..Len(slices') /\ slices'[i] = slices[i]
    OBVIOUS
  <2> USE DEF IndInv
  <2>1. ASSUME slices' = slices
        PROVE  \A i \in 1..Len(slices) :
                 i \in 1..Len(slices') /\ slices'[i] = slices[i]
    BY <2>1
  <2>2. ASSUME NEW list \in Seq(Backend), Publish(list)
        PROVE  \A i \in 1..Len(slices) :
                 i \in 1..Len(slices') /\ slices'[i] = slices[i]
    BY <2>2, PublishEffect
  <2>3. ASSUME NEW w \in Writer, AddStore(w)
        PROVE  \E list \in Seq(Backend) : Publish(list)
    BY <2>3, CurrentType, AppendProperties DEF AddStore, ArgInv
  <2>4. ASSUME NEW w \in Writer, RemoveStore(w)
        PROVE  \E list \in Seq(Backend) : Publish(list)
    <3>1. /\ cur[w] = backends
          /\ arg[w] \in Members(Current)
      BY <2>4 DEF RemoveStore, LockInv, DecisionInv, Registered
    <3> QED
      BY <2>4, <3>1, CurrentType, WithoutProperties DEF RemoveStore, Current
  <2> QED
    BY <2>1, <2>2, <2>3, <2>4
    DEF Next, Step, Begin, Lock, AddCheck, RemoveCheck, RemoveCopy, Unlock,
        SetFind, SetStore, poolVars
<1> QED
  BY <1>1, Invariance, PTL DEF Safety, PublishedImmutable

\* A DELETE is answered 200 by the step that takes its backend out, and no
\* instance ID that left ever comes back.
THEOREM DeregistrationOnce == Safety => DeregisteredOnce
<1>1. IndInv /\ [Next]_vars =>
        [ /\ \A w \in Writer : reply'[w] = "ok" /\ reply[w] # "ok" =>
              Registered(arg[w]) /\ ~(Registered(arg[w]))'
          /\ \A b \in created : ~Registered(b) => ~Registered(b)' ]_vars
  <2> SUFFICES ASSUME IndInv, Next
               PROVE  /\ \A w \in Writer : reply'[w] = "ok" /\ reply[w] # "ok" =>
                           Registered(arg[w]) /\ ~(Registered(arg[w]))'
                      /\ \A b \in created : ~Registered(b) => ~Registered(b)'
    OBVIOUS
  <2> USE DEF IndInv
  <2> DEFINE OkRemoves == \A x \in Writer : reply'[x] = "ok" /\ reply[x] # "ok" =>
                            Registered(arg[x]) /\ ~(Registered(arg[x]))'
             NoneReturns == \A b \in created : ~Registered(b) => ~Registered(b)'
  <2>1. ASSUME UNCHANGED <<slices, backends>>,
               \A x \in Writer : reply'[x] = "ok" => reply[x] = "ok"
        PROVE  OkRemoves /\ NoneReturns
    BY <2>1 DEF Registered, Current
  <2>2. ASSUME NEW w \in Writer, AddStore(w)
        PROVE  OkRemoves /\ NoneReturns
    <3>1. /\ cur[w] = backends
          /\ arg[w] \in Backend /\ arg[w] \notin created
      BY <2>2 DEF AddStore, LockInv, ArgInv
    <3>2. /\ Append(Current, arg[w]) \in Seq(Backend)
          /\ Members(Append(Current, arg[w])) = Members(Current) \cup {arg[w]}
      BY <3>1, CurrentType, MembersAppend
    <3>3. Current' = Append(Current, arg[w])
      BY <2>2, <3>1, <3>2, PublishEffect DEF AddStore, Current
    <3> QED
      BY <2>2, <3>1, <3>2, <3>3 DEF AddStore, Registered, TypeOK
  <2>3. ASSUME NEW w \in Writer, RemoveStore(w)
        PROVE  OkRemoves /\ NoneReturns
    <3>1. /\ cur[w] = backends
          /\ arg[w] \in Members(Current)
      BY <2>3 DEF RemoveStore, LockInv, DecisionInv, Registered
    <3>2. /\ Without(Current, arg[w]) \in Seq(Backend)
          /\ Members(Without(Current, arg[w])) = Members(Current) \ {arg[w]}
      BY <3>1, CurrentType, WithoutProperties, WithoutUnique, UniqueCurrent
    <3>3. Current' = Without(Current, arg[w])
      BY <2>3, <3>1, <3>2, PublishEffect DEF RemoveStore, Current
    <3> QED
      BY <2>3, <3>1, <3>2, <3>3 DEF RemoveStore, Registered, TypeOK
  <2>4. ASSUME NEW w \in Writer, NEW kind \in {"add", "remove"}, NEW b \in Backend,
               Begin(w, kind, b)
        PROVE  OkRemoves /\ NoneReturns
    BY <2>1, <2>4 DEF Begin, poolVars, TypeOK
  <2>5. ASSUME NEW w \in Writer, Lock(w) \/ AddCheck(w) \/ RemoveCheck(w) \/ RemoveCopy(w) \/ Unlock(w)
        PROVE  OkRemoves /\ NoneReturns
    BY <2>1, <2>5 DEF Lock, AddCheck, RemoveCheck, RemoveCopy, Unlock, poolVars, writerVars, TypeOK
  <2>6. ASSUME NEW b \in Backend, NEW v \in BOOLEAN, SetFind(b, v) \/ SetStore(b, v)
        PROVE  OkRemoves /\ NoneReturns
    BY <2>1, <2>6 DEF SetFind, SetStore, poolVars, writerVars
  <2> QED
    BY <2>2, <2>3, <2>4, <2>5, <2>6 DEF Next, Step
<1> QED
  BY <1>1, Invariance, PTL DEF Safety, DeregisteredOnce

\* The registry implements the atomic pool: every step of the code is one
\* registration, deregistration or health update of BackendPool, or none.
THEOREM Refinement == Safety => ImplementsPool
<1> USE DEF IndInv
<1>1. Init => Pool!Init
  BY DEF Init, Pool!Init, Current, Members, Pool!Members
<1>2. IndInv /\ [Next]_vars => [Pool!Next]_(Pool!poolVars)
  <2> SUFFICES ASSUME IndInv, [Next]_vars
               PROVE  Pool!Next \/ UNCHANGED Pool!poolVars
    OBVIOUS
  <2>1. CASE UNCHANGED vars
    BY <2>1 DEF vars, poolVars, Current, Pool!poolVars
  <2>2. ASSUME NEW w \in Writer, AddStore(w)
        PROVE  Pool!Register(arg[w])
    <3>1. /\ cur[w] = backends
          /\ arg[w] \in Backend /\ arg[w] \notin created
          /\ ~UrlTaken(Current, arg[w])
      BY <2>2 DEF AddStore, LockInv, ArgInv, DecisionInv
    <3>2. Append(Current, arg[w]) \in Seq(Backend)
      BY <3>1, CurrentType, AppendProperties
    <3>3. Current' = Append(Current, arg[w])
      BY <2>2, <3>1, <3>2, PublishEffect DEF AddStore, Current
    <3> QED
      BY <2>2, <3>1, <3>3 DEF AddStore, Pool!Register, Pool!UrlTaken, UrlTaken
  <2>3. ASSUME NEW w \in Writer, RemoveStore(w)
        PROVE  Pool!Deregister(arg[w])
    <3>1. /\ cur[w] = backends
          /\ arg[w] \in Members(Current)
      BY <2>3 DEF RemoveStore, LockInv, DecisionInv, Registered
    <3>2. Without(Current, arg[w]) \in Seq(Backend)
      BY <3>1, CurrentType, WithoutProperties
    <3>3. Current' = Without(Current, arg[w])
      BY <2>3, <3>1, <3>2, PublishEffect DEF RemoveStore, Current
    <3>4. Pool!Without(Current, arg[w]) = Without(Current, arg[w])
      BY DEF Pool!Without, Without, Pool!PositionOf, PositionOf,
             Pool!RemoveAt, RemoveAt, Pool!Members, Members
    <3> QED
      BY <2>3, <3>1, <3>3, <3>4
      DEF RemoveStore, Pool!Deregister, Pool!Members, Members
  <2>4. ASSUME NEW b \in Backend, NEW v \in BOOLEAN, SetStore(b, v)
        PROVE  Pool!SetHealth(b, v)
    BY <2>4 DEF SetStore, Pool!SetHealth, PoolInv, Current
  <2>5. ASSUME NEW w \in Writer, AddStore(w) PROVE arg[w] \in Backend
    BY <2>5 DEF AddStore, ArgInv
  <2>6. ASSUME NEW w \in Writer, RemoveStore(w) PROVE arg[w] \in Backend
    BY <2>6 DEF RemoveStore, ArgInv
  <2>7. ASSUME UNCHANGED poolVars PROVE UNCHANGED Pool!poolVars
    BY <2>7 DEF poolVars, Pool!poolVars, Current
  <2> QED
    BY <2>1, <2>2, <2>3, <2>4, <2>5, <2>6, <2>7
    DEF Next, Step, Pool!Next, Begin, Lock, AddCheck, RemoveCheck, RemoveCopy,
        Unlock, SetFind
<1> QED
  BY <1>1, <1>2, Invariance, PTL DEF Safety, ImplementsPool, Pool!Spec

-----------------------------------------------------------------------------
(***************************************************************************)
(* The lock-free readers of RegistryReads.                                 *)
(***************************************************************************)

\* What a step of the writers or of the prober does to the heap: published
\* slices stay, one without repeats is added at most, and an object that the
\* step puts in the pool is new.
LEMMA HeapStep ==
  ASSUME IndInv, [Next]_vars
  PROVE  /\ Len(slices) \in Nat /\ Len(slices') \in Nat
         /\ created \subseteq created'
         /\ \A i \in 1..Len(slices) : i \in 1..Len(slices') /\ slices'[i] = slices[i]
         /\ \A i \in 1..Len(slices') :
              i \in 1..Len(slices) \/ slices'[i] = Current'
         /\ Members(Current') \cap created \subseteq Members(Current)
         /\ \A b \in Backend : healthy'[b] => healthy[b] \/ b \in created
<1> USE DEF IndInv
<1>1. Len(slices) \in Nat /\ TypeOK' /\ Len(slices') \in Nat
  BY StepInd, LenProperties DEF TypeOK
<1>2. ASSUME UNCHANGED <<slices, backends, created>>
      PROVE  Current' = Current
  BY <1>2 DEF Current
<1>3. ASSUME NEW w \in Writer, AddStore(w)
      PROVE  /\ Len(slices') = Len(slices) + 1
             /\ backends' = Len(slices')
             /\ \A i \in 1..Len(slices) : slices'[i] = slices[i]
             /\ Members(Current') = Members(Current) \cup {arg[w]}
             /\ arg[w] \notin created
             /\ created' = created \cup {arg[w]} /\ healthy' = healthy
  <2>1. /\ cur[w] = backends
        /\ arg[w] \in Backend /\ arg[w] \notin created
    BY <1>3 DEF AddStore, LockInv, ArgInv
  <2>2. /\ Append(Current, arg[w]) \in Seq(Backend)
        /\ Members(Append(Current, arg[w])) = Members(Current) \cup {arg[w]}
    BY <2>1, CurrentType, MembersAppend
  <2> QED
    BY <1>3, <2>1, <2>2, PublishEffect DEF AddStore, Current
<1>4. ASSUME NEW w \in Writer, RemoveStore(w)
      PROVE  /\ Len(slices') = Len(slices) + 1
             /\ backends' = Len(slices')
             /\ \A i \in 1..Len(slices) : slices'[i] = slices[i]
             /\ Members(Current') \subseteq Members(Current)
             /\ created' = created /\ healthy' = healthy
  <2>1. /\ cur[w] = backends
        /\ arg[w] \in Members(Current)
    BY <1>4 DEF RemoveStore, LockInv, DecisionInv, Registered
  <2>2. /\ Without(Current, arg[w]) \in Seq(Backend)
        /\ Members(Without(Current, arg[w])) \subseteq Members(Current)
    BY <2>1, CurrentType, WithoutProperties, WithoutSubset
  <2> QED
    BY <1>4, <2>1, <2>2, PublishEffect DEF RemoveStore, Current
<1>5. CASE UNCHANGED <<slices, backends, created, healthy>>
  BY <1>1, <1>2, <1>5
<1>6. CASE \E w \in Writer : AddStore(w)
  BY <1>1, <1>3, <1>6 DEF Current
<1>7. CASE \E w \in Writer : RemoveStore(w)
  BY <1>1, <1>4, <1>7 DEF Current
<1>8. CASE \E b \in Backend, v \in BOOLEAN : SetStore(b, v)
  <2>1. UNCHANGED <<slices, backends, created>>
    BY <1>8 DEF SetStore
  <2>2. \A b \in Backend : healthy'[b] => healthy[b] \/ b \in created
    BY <1>8 DEF SetStore, PoolInv, TypeOK
  <2> QED
    BY <1>1, <1>2, <2>1, <2>2
<1> QED
  BY <1>5, <1>6, <1>7, <1>8
  DEF vars, Next, Step, Begin, Lock, AddCheck, RemoveCheck, RemoveCopy, Unlock,
      SetFind, poolVars

LEMMA ReadsInitInv == ReadsInit => ReadsInv
<1> SUFFICES ASSUME ReadsInit PROVE ReadsInv
  OBVIOUS
<1>1. IndInv
  BY InitInd DEF ReadsInit
<1>2. slices = <<Baseline>> /\ Len(slices) = 1 /\ slices[1] = Baseline
  BY DEF ReadsInit, Init
<1>3. HeapInv
  BY <1>2, BackendAssumption DEF ReadsInit, Init, HeapInv, Up
<1>4. ReadsTypeOK
  BY <1>2 DEF ReadsInit, ReadsTypeOK
<1> QED
  BY <1>1, <1>3, <1>4 DEF ReadsInv, ReadsInit, EmptyJustified

\* The heap and the types, for every step.
LEMMA ReadsBase ==
  ASSUME ReadsInv, [ReadsNext]_readsVars
  PROVE  /\ IndInv' /\ HeapInv' /\ ReadsTypeOK'
         /\ [Next]_vars
         /\ \A r \in Reader : slices'[snap[r]] = slices[snap[r]]
         /\ \A r \in Reader : slices[snap[r]] \in Seq(Backend) /\ Len(slices[snap[r]]) \in Nat
         /\ \A r \in Reader : NoRepeats(slices[snap[r]])
         /\ Routable' \ Routable \subseteq Up' \ Up
<1> USE DEF ReadsInv
<1>1. [Next]_vars
  BY DEF ReadsNext, readsVars, Read, Load, Scan, Finish, Consume, vars
<1>2. IndInv'
  BY <1>1, StepInd
<1>3. \A r \in Reader : /\ slices'[snap[r]] = slices[snap[r]]
                        /\ slices[snap[r]] \in Seq(Backend)
                        /\ Len(slices[snap[r]]) \in Nat
                        /\ NoRepeats(slices[snap[r]])
  BY <1>1, HeapStep, LenProperties DEF ReadsTypeOK, IndInv, TypeOK, HeapInv
<1>4. HeapInv'
  <2>1. Up' \subseteq created'
    BY <1>1, HeapStep DEF HeapInv, Up
  <2>2. NoRepeats(Current')
    BY <1>2, UniqueCurrent DEF IndInv, Unique
  <2> QED
    BY <1>1, <2>1, <2>2, HeapStep DEF HeapInv
<1>5. Routable' \ Routable \subseteq Up' \ Up
  BY <1>1, HeapStep DEF Routable, HeapInv, Up
<1>6. ReadsTypeOK'
  <2>1. Up \in SUBSET Backend /\ Up' \in SUBSET Backend
    BY DEF Up
  <2>2. snap' \in [Reader -> 1..Len(slices')]
    <3>1. \A i \in 1..Len(slices) : i \in 1..Len(slices')
      BY <1>1, HeapStep
    <3>2. snap \in [Reader -> 1..Len(slices')]
      BY <3>1 DEF ReadsTypeOK
    <3>3. backends \in 1..Len(slices') /\ 1 \in 1..Len(slices')
      BY <3>1 DEF IndInv, TypeOK
    <3> QED
      BY <3>2, <3>3
      DEF ReadsNext, readsVars, readerVars, Read, Load, Scan, Finish, Consume
  <2> DEFINE Typed == /\ rpc' \in [Reader -> {"idle", "scan", "done"}]
                      /\ pos' \in [Reader -> Nat \ {0}]
                      /\ found' \in [Reader -> Seq(Backend)]
  <2>3. Typed
    <3>1. ASSUME NEW r \in Reader, Load(r) \/ Consume(r) PROVE  Typed
      <4>1. << >> \in Seq(Backend)
        OBVIOUS
      <4>2. /\ pos' = [pos EXCEPT ![r] = 1]
            /\ found' = [found EXCEPT ![r] = << >>]
            /\ \E l \in {"idle", "scan"} : rpc' = [rpc EXCEPT ![r] = l]
        BY <3>1 DEF Load, Consume
      <4> QED
        BY <4>1, <4>2 DEF ReadsTypeOK
    <3>2. ASSUME NEW r \in Reader, Scan(r) PROVE  Typed
      <4>1. Turn(r) \in Backend
        BY <1>3, <3>2, ElementOfSeq DEF Scan, Turn
      <4>2. Kept(r, Turn(r)) \in Seq(Backend)
        BY <4>1 DEF Kept
      <4>3. found[r] \in Seq(Backend)
        BY DEF ReadsTypeOK
      <4>4. found[r] \o Kept(r, Turn(r)) \in Seq(Backend)
        BY <4>2, <4>3, ConcatProperties
      <4> HIDE DEF Kept
      <4>5. pos[r] + 1 \in Nat \ {0}
        BY DEF ReadsTypeOK
      <4> QED
        BY <3>2, <4>4, <4>5 DEF ReadsTypeOK, Scan
    <3>3. ASSUME NEW r \in Reader, Finish(r) PROVE  Typed
      BY <3>3 DEF ReadsTypeOK, Finish
    <3>4. CASE UNCHANGED readerVars
      BY <3>4 DEF ReadsTypeOK, readerVars
    <3> QED
      BY <3>1, <3>2, <3>3, <3>4 DEF ReadsNext, readsVars, Read
  <2>5. CASE UNCHANGED readsVars
    BY <2>2, <2>3, <2>5 DEF ReadsTypeOK, readsVars, historyVars
  <2>6. CASE Track
    BY <2>1, <2>2, <2>3, <2>6 DEF ReadsTypeOK, Track, InWindow
  <2> QED
    BY <2>5, <2>6 DEF ReadsNext
<1> QED
  BY <1>1, <1>2, <1>3, <1>4, <1>5, <1>6

\* How the history of a running call goes on.
LEMMA WindowStep ==
  ASSUME ReadsInv, [ReadsNext]_readsVars, NEW r \in Reader
  PROVE  /\ rpc[r] = "scan" /\ rpc'[r] # "idle" =>
              /\ everUp'[r] = everUp[r] \cup Up'
              /\ alwaysUp'[r] = alwaysUp[r] \cap Up'
              /\ dry'[r] = (dry[r] \/ Routable' = {})
              /\ raised'[r] = (raised[r] \/ Up' \ Up # {})
         /\ rpc[r] = "done" /\ rpc'[r] # "idle" =>
              /\ everUp'[r] = everUp[r] /\ alwaysUp'[r] = alwaysUp[r]
              /\ dry'[r] = dry[r] /\ raised'[r] = raised[r]
         /\ rpc[r] = "idle" /\ rpc'[r] # "idle" =>
              /\ everUp'[r] = Up' /\ alwaysUp'[r] = Up'
              /\ dry'[r] = (Routable' = {}) /\ raised'[r] = FALSE
<1>1. CASE UNCHANGED readsVars
  <2>1. Up' = Up /\ Routable' = Routable
    BY <1>1 DEF readsVars, vars, poolVars, Up, Routable, Current
  <2>2. /\ rpc'[r] = rpc[r] /\ everUp'[r] = everUp[r] /\ alwaysUp'[r] = alwaysUp[r]
        /\ dry'[r] = dry[r] /\ raised'[r] = raised[r]
    BY <1>1 DEF readsVars, readerVars, historyVars
  <2>3. dry[r] \in BOOLEAN /\ raised[r] \in BOOLEAN
    BY DEF ReadsInv, ReadsTypeOK
  <2>4. rpc[r] = "scan" => /\ alwaysUp[r] \subseteq Up /\ Up \subseteq everUp[r]
                           /\ Routable = {} => dry[r]
    BY DEF ReadsInv, WindowInv
  <2>5. rpc[r] = "idle" => rpc'[r] = "idle"
    BY <2>2
  <2> QED
    BY <2>1, <2>2, <2>3, <2>4, <2>5
<1>2. CASE Track
  <2>1. rpc[r] \in {"idle", "scan", "done"} /\ rpc'[r] \in {"idle", "scan", "done"}
    BY ReadsBase DEF ReadsInv, ReadsTypeOK
  <2> QED
    BY <1>2, <2>1 DEF Track, InWindow
<1> QED
  BY <1>1, <1>2 DEF ReadsNext

LEMMA UntouchedInv ==
  ASSUME ReadsInv, [ReadsNext]_readsVars, NEW r \in Reader,
         rpc'[r] = rpc[r], snap'[r] = snap[r], pos'[r] = pos[r], found'[r] = found[r]
  PROVE  /\ rpc'[r] # "idle" => ScanInv(r)'
         /\ rpc'[r] = "scan" => WindowInv(r)'
         /\ rpc'[r] = "done" /\ found'[r] = << >> => dry'[r] \/ raised'[r]
<1>1. slices'[snap'[r]] = slices[snap[r]]
  BY ReadsBase
<1>2. rpc[r] \in {"idle", "scan", "done"}
  BY DEF ReadsInv, ReadsTypeOK
<1>3. CASE rpc[r] = "scan"
  <2>1. ScanInv(r) /\ WindowInv(r)
    BY <1>3 DEF ReadsInv
  <2>2. ScanInv(r)'
    BY <1>1, <1>3, <2>1, WindowStep DEF ScanInv
  <2>3. WindowInv(r)'
    BY <1>1, <1>3, <2>1, WindowStep, ReadsBase DEF WindowInv
  <2> QED
    BY <1>3, <2>2, <2>3
<1>4. CASE rpc[r] = "done"
  BY <1>1, <1>4, WindowStep DEF ReadsInv, ScanInv, EmptyJustified
<1> QED
  BY <1>2, <1>3, <1>4

LEMMA LoadInv ==
  ASSUME ReadsInv, [ReadsNext]_readsVars, NEW r \in Reader, Load(r)
  PROVE  ScanInv(r)' /\ WindowInv(r)' /\ rpc'[r] = "scan"
<1>1. /\ rpc'[r] = "scan" /\ snap'[r] = backends /\ pos'[r] = 1 /\ found'[r] = << >>
      /\ rpc[r] = "idle" /\ slices' = slices /\ Current' = Current
  BY DEF Load, ReadsInv, ReadsTypeOK, vars, poolVars, Current
<1>2. slices'[snap'[r]] = Current'
  BY <1>1 DEF Current
<1>3. Len(Current') \in Nat
  BY ReadsBase, LenProperties DEF IndInv, TypeOK, Current
<1>4. /\ everUp'[r] = Up' /\ alwaysUp'[r] = Up'
      /\ dry'[r] = (Routable' = {}) /\ raised'[r] = FALSE
  BY <1>1, WindowStep
<1>5. ScanInv(r)'
  <2>1. InOrderOf(<< >>, Current')
    BY DEF InOrderOf, Members
  <2>2. Members(<< >>) = {} /\ EndsBefore(<< >>, Current', 1)
    BY DEF Members, EndsBefore
  <2> QED
    BY <1>1, <1>2, <1>3, <1>4, <2>1, <2>2 DEF ScanInv
<1>6. WindowInv(r)'
  <2>1. Routable' \subseteq Members(slices'[snap'[r]])
    BY <1>2 DEF Routable
  <2>2. \A i \in 1..(pos'[r] - 1) : FALSE
    BY <1>1
  <2>3. Routable' = {} => dry'[r]
    BY <1>4
  <2> QED
    BY <1>4, <2>1, <2>2, <2>3 DEF WindowInv
<1> QED
  BY <1>1, <1>5, <1>6

LEMMA TurnInv ==
  ASSUME ReadsInv, [ReadsNext]_readsVars, NEW r \in Reader, Scan(r)
  PROVE  ScanInv(r)' /\ WindowInv(r)' /\ rpc'[r] = "scan"
<1> DEFINE list == slices[snap[r]]
           p == pos[r]
<1>1. /\ rpc[r] = "scan" /\ rpc'[r] = "scan" /\ snap'[r] = snap[r]
      /\ pos'[r] = p + 1 /\ p \in 1..Len(list) /\ p \in Nat
      /\ Up' = Up /\ Routable' = Routable
  BY DEF Scan, Turn, ReadsInv, ReadsTypeOK, vars, poolVars, Up, Routable, Current
<1>0. found'[r] = found[r] \o (IF healthy[list[p]] THEN <<list[p]>> ELSE << >>)
  BY DEF Scan, Turn, Kept, ReadsInv, ReadsTypeOK
<1>2. /\ slices'[snap'[r]] = list
      /\ list \in Seq(Backend) /\ Len(list) \in Nat /\ NoRepeats(list)
  BY <1>1, ReadsBase
<1>3. /\ found[r] \in Seq(Backend) /\ Len(found[r]) \in Nat
      /\ DOMAIN found[r] = 1..Len(found[r])
      /\ found'[r] \in Seq(Backend) /\ DOMAIN found'[r] = 1..Len(found'[r])
  BY ReadsBase, LenProperties DEF ReadsInv, ReadsTypeOK
<1>4. ScanInv(r) /\ WindowInv(r)
  BY <1>1 DEF ReadsInv
<1>5. /\ everUp'[r] = everUp[r] \cup Up /\ alwaysUp'[r] = alwaysUp[r] \cap Up
      /\ dry'[r] = (dry[r] \/ Routable = {}) /\ raised'[r] = (raised[r] \/ Up \ Up # {})
  BY <1>1, WindowStep
<1>6. list[p] \in Backend
  BY <1>1, <1>2, ElementOfSeq
<1> HIDE DEF list, p
<1>9. \A i \in 1..(p - 1) : list[i] \in alwaysUp[r] => list[i] \in Members(found[r])
  BY <1>4 DEF ScanInv, list, p
<1>10. /\ alwaysUp'[r] \subseteq Up' /\ Up' \subseteq everUp'[r]
       /\ Routable' = {} => dry'[r]
       /\ raised'[r] \/ Routable' \subseteq Members(list)
  BY <1>1, <1>4, <1>5 DEF WindowInv, list
<1>7. CASE healthy[list[p]]
  <2>1. found'[r] = found[r] \o <<list[p]>>
    BY <1>0, <1>7
  <2>2. list[p] \in Up
    BY <1>6, <1>7 DEF Up
  <2>3. /\ InOrderOf(found'[r], list)
        /\ Members(found'[r]) = Members(found[r]) \cup {list[p]}
        /\ EndsBefore(found'[r], list, p + 1)
    <3>1. InOrderOf(found[r], list) /\ EndsBefore(found[r], list, p)
      BY <1>4 DEF ScanInv, list, p
    <3>2. list \in Seq(Backend) /\ NoRepeats(list) /\ found[r] \in Seq(Backend)
      BY <1>2, <1>3
    <3>3. p \in 1..Len(list)
      BY <1>1
    <3> QED
      BY <2>1, <3>1, <3>2, <3>3, AppendInOrder
  <2>4. found'[r] # << >>
    BY <1>3, <1>6, <2>1
  <2>5. ScanInv(r)'
    <3>1. \A i \in 1..(pos'[r] - 1) :
            list[i] \in alwaysUp'[r] => list[i] \in Members(found'[r])
      BY <1>1, <1>5, <1>9, <2>3
    <3>2. Members(found'[r]) \subseteq everUp'[r]
      BY <1>4, <1>5, <2>2, <2>3 DEF ScanInv
    <3> QED
      BY <1>1, <1>2, <1>3, <2>3, <3>1, <3>2 DEF ScanInv
  <2>6. WindowInv(r)'
    BY <1>1, <1>2, <1>10, <2>4 DEF WindowInv
  <2> QED
    BY <1>1, <2>5, <2>6
<1>8. CASE ~healthy[list[p]]
  <2>1. found'[r] = found[r]
    BY <1>0, <1>3, <1>8, ConcatEmptySeq
  <2>2. list[p] \notin Up
    BY <1>6, <1>8 DEF Up
  <2>4. ScanInv(r)'
    <3>1. \A i \in 1..(pos'[r] - 1) :
            list[i] \in alwaysUp'[r] => list[i] \in Members(found'[r])
      BY <1>1, <1>5, <1>9, <2>1, <2>2
    <3>2. /\ Members(found'[r]) \subseteq everUp'[r]
          /\ InOrderOf(found'[r], list)
          /\ EndsBefore(found'[r], list, p)
      BY <1>4, <1>5, <2>1 DEF ScanInv, list, p
    <3>3. EndsBefore(found'[r], list, p + 1)
      BY <1>1, <1>2, <3>2, EndsBeforeNext
    <3> QED
      BY <1>1, <1>2, <3>1, <3>2, <3>3 DEF ScanInv
  <2>5. WindowInv(r)'
    <3>1. \A i \in 1..(pos'[r] - 1) : i \in 1..(p - 1) \/ i = p
      BY <1>1
    <3>2. raised[r] \/ found[r] # << >> \/ \A i \in 1..(p - 1) : list[i] \notin Up
      BY <1>4 DEF WindowInv, list, p
    <3>3. raised'[r] \/ found'[r] # << >> \/ \A i \in 1..(pos'[r] - 1) : list[i] \notin Up
      BY <1>5, <2>1, <2>2, <3>1, <3>2
    <3> QED
      BY <1>1, <1>2, <1>10, <3>3 DEF WindowInv
  <2> QED
    BY <1>1, <2>4, <2>5
<1> QED
  BY <1>7, <1>8

LEMMA FinishInv ==
  ASSUME ReadsInv, [ReadsNext]_readsVars, NEW r \in Reader, Finish(r)
  PROVE  /\ ScanInv(r)' /\ rpc'[r] = "done"
         /\ found'[r] = << >> => dry'[r] \/ raised'[r]
<1> DEFINE list == slices[snap[r]]
<1>1. /\ rpc[r] = "scan" /\ rpc'[r] = "done" /\ snap'[r] = snap[r]
      /\ pos'[r] = pos[r] /\ pos[r] > Len(list) /\ found'[r] = found[r]
      /\ Up' = Up /\ Routable' = Routable
  BY DEF Finish, ReadsInv, ReadsTypeOK, vars, poolVars, Up, Routable, Current
<1>2. /\ slices'[snap'[r]] = list /\ Len(list) \in Nat /\ pos[r] \in Nat
  BY <1>1, ReadsBase DEF ReadsInv, ReadsTypeOK
<1>3. ScanInv(r) /\ WindowInv(r)
  BY <1>1 DEF ReadsInv
<1>4. /\ everUp'[r] = everUp[r] \cup Up /\ alwaysUp'[r] = alwaysUp[r] \cap Up
      /\ dry'[r] = (dry[r] \/ Routable = {}) /\ raised'[r] = (raised[r] \/ Up \ Up # {})
  BY <1>1, WindowStep
<1>5. pos[r] = Len(list) + 1
  BY <1>1, <1>2, <1>3 DEF ScanInv
<1>6. ScanInv(r)'
  BY <1>1, <1>2, <1>3, <1>4, <1>5 DEF ScanInv
<1>7. ASSUME found[r] = << >>, ~raised[r]
      PROVE  Routable = {}
  <2>1. \A i \in 1..Len(list) : list[i] \notin Up
    BY <1>2, <1>3, <1>5, <1>7 DEF WindowInv
  <2>2. Routable \subseteq Members(list)
    BY <1>3, <1>7 DEF WindowInv
  <2> QED
    BY <2>1, <2>2 DEF Members, Routable
<1> QED
  BY <1>1, <1>4, <1>6, <1>7

\* Whatever the writers, the prober and the other readers do meanwhile.
LEMMA ReadsStepInv == ReadsInv /\ [ReadsNext]_readsVars => ReadsInv'
<1> SUFFICES ASSUME ReadsInv, [ReadsNext]_readsVars PROVE ReadsInv'
  OBVIOUS
<1>1. ASSUME NEW r \in Reader
      PROVE  /\ rpc'[r] # "idle" => ScanInv(r)'
             /\ rpc'[r] = "scan" => WindowInv(r)'
             /\ rpc'[r] = "done" /\ found'[r] = << >> => dry'[r] \/ raised'[r]
  <2>1. CASE Load(r)
    BY <2>1, LoadInv
  <2>2. CASE Scan(r)
    BY <2>2, TurnInv
  <2>3. CASE Finish(r)
    BY <2>3, FinishInv
  <2>4. CASE Consume(r)
    BY <2>4 DEF Consume, ReadsInv, ReadsTypeOK
  <2>5. CASE ~Read(r)
    <3>1. /\ rpc'[r] = rpc[r] /\ snap'[r] = snap[r]
          /\ pos'[r] = pos[r] /\ found'[r] = found[r]
      <4>1. CASE UNCHANGED readerVars
        BY <4>1 DEF readerVars
      <4>2. ASSUME NEW x \in Reader, Read(x)
            PROVE  /\ rpc'[r] = rpc[r] /\ snap'[r] = snap[r]
                   /\ pos'[r] = pos[r] /\ found'[r] = found[r]
        <5>1. x # r
          BY <2>5, <4>2
        <5>2. ReadsTypeOK
          BY DEF ReadsInv
        <5> QED
          BY <4>2, <5>1, <5>2 DEF Read, Load, Scan, Finish, Consume, ReadsTypeOK
      <4> QED
        BY <4>1, <4>2 DEF ReadsNext, readsVars, readerVars
    <3> QED
      BY <3>1, UntouchedInv
  <2> QED
    BY <2>1, <2>2, <2>3, <2>4, <2>5 DEF Read
<1> QED
  BY <1>1, ReadsBase DEF ReadsInv, EmptyJustified

\* The readers' invariant holds in every interleaving of any number of
\* management calls, health flips and list calls.
THEOREM ReadsInvariance == ReadsSpec => []ReadsInv
  BY ReadsInitInv, ReadsStepInv, PTL DEF ReadsSpec

\* A list call stays within its window: one pool, in order, everything that
\* was up throughout and nothing that was down throughout.
THEOREM WithinWindow == ReadsSpec => []ReadWithinWindow
<1>1. ReadsInv => ReadWithinWindow
  <2> SUFFICES ASSUME ReadsInv, NEW r \in Reader, rpc[r] = "done"
               PROVE  /\ InOrderOf(found[r], slices[snap[r]])
                      /\ Members(found[r]) \subseteq everUp[r]
                      /\ alwaysUp[r] \cap Members(slices[snap[r]]) \subseteq Members(found[r])
    BY DEF ReadWithinWindow
  <2>1. ScanInv(r) /\ Len(slices[snap[r]]) \in Nat
    BY LenProperties DEF ReadsInv, ReadsTypeOK, IndInv, TypeOK
  <2>2. /\ InOrderOf(found[r], slices[snap[r]])
        /\ Members(found[r]) \subseteq everUp[r]
        /\ pos[r] = Len(slices[snap[r]]) + 1
    BY <2>1 DEF ScanInv
  <2>3. pos[r] - 1 = Len(slices[snap[r]])
    BY <2>1, <2>2
  <2>4. \A i \in 1..Len(slices[snap[r]]) :
          slices[snap[r]][i] \in alwaysUp[r] => slices[snap[r]][i] \in Members(found[r])
    BY <2>1, <2>3 DEF ScanInv
  <2>5. ASSUME NEW b \in alwaysUp[r] \cap Members(slices[snap[r]])
        PROVE  b \in Members(found[r])
    <3>1. PICK i \in 1..Len(slices[snap[r]]) : slices[snap[r]][i] = b
      BY DEF Members
    <3> QED
      BY <2>4, <3>1
  <2> QED
    BY <2>2, <2>5
<1> QED
  BY <1>1, ReadsInvariance, PTL

\* readyz answers 503 for lack of a backend only if there was none at some
\* instant, or one came up during the scan.
THEOREM EmptyIsJustified == ReadsSpec => []EmptyJustified
<1>1. ReadsInv => EmptyJustified
  BY DEF ReadsInv
<1> QED
  BY <1>1, ReadsInvariance, PTL

=============================================================================
