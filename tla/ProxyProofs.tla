----------------------------- MODULE ProxyProofs -----------------------------
(***************************************************************************)
(* Proofs about Proxy, for any requests, any pool, any number of retries   *)
(* and whatever backends the strategy selects.                             *)
(***************************************************************************)
EXTENDS Proxy, TLAPS, FiniteSetTheorems, SequenceTheorems

Codes == Final \cup {103}

\* The final statuses after one more status was sent.
LEMMA FinalsAppend ==
  ASSUME NEW codes \in Seq(Codes), NEW code \in Codes
  PROVE  /\ Append(codes, code) \in Seq(Codes)
         /\ Append(codes, code) # << >>
         /\ Append(codes, code)[1] = IF codes = << >> THEN code ELSE codes[1]
         /\ Len(Append(codes, code)) = Len(codes) + 1
         /\ code \notin Final => Finals(Append(codes, code)) = Finals(codes)
         /\ code \in Final =>
              Finals(Append(codes, code)) = Finals(codes) \cup {Len(codes) + 1}
<1> DEFINE longer == Append(codes, code)
<1>1. /\ longer \in Seq(Codes)
      /\ Len(codes) \in Nat /\ Len(longer) = Len(codes) + 1
      /\ \A k \in 1..Len(codes) : longer[k] = codes[k]
      /\ longer[Len(codes) + 1] = code
  BY AppendProperties
<1>2. longer # << >> /\ longer[1] = IF codes = << >> THEN code ELSE codes[1]
  <2>1. codes # << >> => 1 \in 1..Len(codes)
    BY EmptySeq
  <2> QED
    BY <1>1, <2>1
<1>3. 1..Len(longer) = 1..Len(codes) \cup {Len(codes) + 1}
  BY <1>1
<1> HIDE DEF longer
<1>4. code \notin Final => Finals(longer) = Finals(codes)
  BY <1>1, <1>3 DEF Finals
<1>5. code \in Final => Finals(longer) = Finals(codes) \cup {Len(codes) + 1}
  BY <1>1, <1>3 DEF Finals
<1> QED
  BY <1>1, <1>2, <1>4, <1>5 DEF longer

LEMMA NoFinals == Finals(<< >>) = {}
  BY DEF Finals

\* The types, alone.
LEMMA Typed == ProxyInv => ProxyTypeOK
  BY DEF ProxyInv

\* A target that stays is of its type.
LEMMA TargetTyped ==
  ASSUME ProxyTypeOK, target' = target
  PROVE  DOMAIN target' = Request /\ target' = [q \in Request |-> target'[q]]
  BY DEF ProxyTypeOK

\* A request's invariant says nothing of the others.
LEMMA OthersUntouched ==
  ASSUME ProxyInv, NEW q \in Request,
         pc'[q] = pc[q], attempt'[q] = attempt[q], body'[q] = body[q],
         outcome'[q] = outcome[q], rec'[q] = rec[q], wrote'[q] = wrote[q],
         sent'[q] = sent[q], observed'[q] = observed[q], tries'[q] = tries[q],
         late'[q] = late[q], q \in gone => q \in gone'
  PROVE  RequestInv(q)'
<1>1. LoopInv(q)'
  BY DEF ProxyInv, RequestInv, LoopInv, RetriesFor
<1>2. StatusInv(q)'
  BY DEF ProxyInv, RequestInv, StatusInv, Answered
<1>3. RecorderInv(q)'
  BY DEF ProxyInv, RequestInv, RecorderInv
<1>4. BodyInv(q)' /\ GoneInv(q)'
  BY DEF ProxyInv, RequestInv, BodyInv, GoneInv
<1> QED
  BY <1>1, <1>2, <1>3, <1>4 DEF RequestInv

\* The counts stay right when the steps leave the attempts alone.
LEMMA ConnsUntouched ==
  ASSUME ProxyInv, conns' = conns, target' \in {target} \cup {target'},
         \A q \in Request :
           \/ pc'[q] = pc[q] /\ target'[q] = target[q]
           \/ pc[q] \notin {"sent", "leave"} /\ pc'[q] \notin {"sent", "leave"}
           \/ pc[q] = "sent" /\ pc'[q] = "leave" /\ target'[q] = target[q]
  PROVE  ConnsInv'
<1> SUFFICES ASSUME NEW b \in Backend PROVE Under(b)' = Under(b)
  BY DEF ProxyInv, ConnsInv
<1> QED
  BY DEF Under

LEMMA ProxyInitInv == ProxyInit => ProxyInv
<1> SUFFICES ASSUME ProxyInit PROVE ProxyInv
  OBVIOUS
<1>1. ProxyTypeOK
  BY DEF ProxyInit, ProxyTypeOK, Final, BackendStatus
<1>2. ASSUME NEW b \in Backend PROVE IsFiniteSet(Under(b)) /\ conns[b] = Cardinality(Under(b))
  <2>1. Under(b) = {}
    BY DEF ProxyInit, Under
  <2> QED
    BY <2>1, FS_EmptySet DEF ProxyInit
<1>3. ASSUME NEW r \in Request PROVE RequestInv(r)
  BY NoFinals, ProxyAssumption
  DEF ProxyInit, RequestInv, LoopInv, StatusInv, RecorderInv, BodyInv, GoneInv,
      Answered, RetriesFor
<1> QED
  BY <1>1, <1>2, <1>3 DEF ProxyInv, ConnsInv

\* What sending a status does to the request and to the others.
LEMMA Written ==
  ASSUME ProxyInv, NEW r \in Request, NEW code \in Codes, pc[r] # "done",
         WriteHeader(r, code)
  PROVE  /\ rec' \in [Request -> Codes]
         /\ wrote' \in [Request -> BOOLEAN]
         /\ sent' \in [Request -> Seq(Codes)]
         /\ wrote'[r] /\ sent'[r] # << >> /\ rec'[r] = sent'[r][1]
         /\ code \notin Final => Finals(sent'[r]) = Finals(sent[r])
         /\ code \in Final /\ ~Answered(r) => \E n \in Nat : Finals(sent'[r]) = {n}
         /\ \A q \in Request \ {r} :
              rec'[q] = rec[q] /\ wrote'[q] = wrote[q] /\ sent'[q] = sent[q]
<1>1. /\ rec \in [Request -> Codes] /\ wrote \in [Request -> BOOLEAN]
      /\ sent \in [Request -> Seq(Codes)]
  BY DEF ProxyInv, ProxyTypeOK, Codes
<1>2. /\ sent'[r] = Append(sent[r], code)
      /\ rec'[r] = IF wrote[r] THEN rec[r] ELSE code
      /\ wrote'[r]
      /\ \A q \in Request \ {r} :
           rec'[q] = rec[q] /\ wrote'[q] = wrote[q] /\ sent'[q] = sent[q]
  BY <1>1 DEF WriteHeader
<1>3. sent[r] \in Seq(Codes) /\ Len(sent[r]) \in Nat
  BY <1>1
<1>4. /\ rec' \in [Request -> Codes] /\ wrote' \in [Request -> BOOLEAN]
      /\ sent' \in [Request -> Seq(Codes)]
  BY <1>1, <1>3, FinalsAppend DEF WriteHeader
<1>5. /\ wrote[r] <=> sent[r] # << >>
      /\ rec[r] = IF sent[r] = << >> THEN 200 ELSE sent[r][1]
  BY DEF ProxyInv, RequestInv, RecorderInv
<1>6. sent'[r] # << >> /\ rec'[r] = sent'[r][1]
  BY <1>2, <1>3, <1>5, FinalsAppend
<1>7. /\ code \notin Final => Finals(sent'[r]) = Finals(sent[r])
      /\ code \in Final /\ ~Answered(r) => Finals(sent'[r]) = {Len(sent[r]) + 1}
  BY <1>2, <1>3, FinalsAppend DEF Answered
<1>8. code \in Final /\ ~Answered(r) => \E n \in Nat : Finals(sent'[r]) = {n}
  <2>1. Len(sent[r]) + 1 \in Nat
    BY <1>3
  <2> QED
    BY <1>7, <2>1
<1> QED
  BY <1>2, <1>4, <1>6, <1>7, <1>8

\* The first final status is the only one.
LEMMA WrittenOnce ==
  ASSUME ProxyInv, NEW r \in Request, NEW code \in Final, pc[r] # "done", ~Answered(r),
         WriteHeader(r, code)
  PROVE  \E n \in Nat : Finals(sent'[r]) = {n}
<1>1. code \in Codes
  BY DEF Codes
<1> QED
  BY <1>1, Written

LEMMA ArriveInv ==
  ASSUME ProxyInv, NEW r \in Request, Arrive(r), UNCHANGED gone
  PROVE  ProxyInv'
<1> USE DEF answerVars
<1>1. ProxyTypeOK'
  BY DEF ProxyInv, ProxyTypeOK, Arrive, Goto
<1>2. pc'[r] = "body" /\ \A q \in Request \ {r} : pc'[q] = pc[q]
  BY DEF ProxyInv, ProxyTypeOK, Arrive, Goto
<1>3. ConnsInv'
  BY <1>2, ConnsUntouched DEF Arrive
<1>4. ASSUME NEW q \in Request \ {r} PROVE RequestInv(q)'
  BY <1>2, <1>4, OthersUntouched DEF Arrive
<1>5. RequestInv(r)'
  BY <1>2 DEF ProxyInv, RequestInv, LoopInv, StatusInv, RecorderInv, BodyInv, GoneInv,
              Answered, RetriesFor, Arrive
<1> QED
  BY <1>1, <1>3, <1>4, <1>5 DEF ProxyInv

\* The request leaves the handler's path with a status of its own.
LEMMA RefuseInv ==
  ASSUME ProxyInv, NEW r \in Request, NEW code \in {400, 503},
         pc[r] \in {"body", "loop", "select"},
         WriteHeader(r, code), Goto(r, "closing"),
         UNCHANGED <<attempt, target, body, outcome, conns, gone, observed, tries, late>>
  PROVE  ProxyInv'
<1>1. code \in Codes /\ code \in Final
  BY DEF Codes, Final
<1>2. ProxyTypeOK'
  <2>1. /\ rec' \in [Request -> Codes] /\ wrote' \in [Request -> BOOLEAN]
        /\ sent' \in [Request -> Seq(Codes)]
    BY <1>1, Written
  <2>2. pc' = [pc EXCEPT ![r] = "closing"]
    BY DEF Goto
  <2>3. pc' \in [Request -> {"idle", "body", "loop", "select", "connect", "sent",
                            "leave", "closing", "done"}]
    BY <2>2, Typed DEF ProxyTypeOK
  <2> QED
    BY <2>1, <2>3, Typed, TargetTyped DEF ProxyTypeOK, Codes
<1>3. pc'[r] = "closing" /\ \A q \in Request \ {r} : pc'[q] = pc[q]
  BY DEF ProxyInv, ProxyTypeOK, Goto
<1>4. ConnsInv'
  BY <1>3, ConnsUntouched
<1>5. ASSUME NEW q \in Request \ {r} PROVE RequestInv(q)'
  BY <1>1, <1>3, <1>5, Written, OthersUntouched
<1>6. /\ LoopInv(r)' /\ BodyInv(r)' /\ GoneInv(r)'
  BY <1>3 DEF ProxyInv, RequestInv, LoopInv, BodyInv, GoneInv, RetriesFor
<1>7. StatusInv(r)'
  <2>1. ~Answered(r)
    BY DEF ProxyInv, RequestInv, StatusInv
  <2>2. PICK n \in Nat : Finals(sent'[r]) = {n}
    <3>1. pc[r] # "done"
      OBVIOUS
    <3> QED
      BY <1>1, <2>1, <3>1, WrittenOnce
  <2> QED
    BY <1>3, <2>2 DEF StatusInv, Answered
<1>8. RecorderInv(r)'
  BY <1>1, <1>3, Written DEF ProxyInv, RequestInv, RecorderInv
<1> QED
  BY <1>2, <1>4, <1>5, <1>6, <1>7, <1>8 DEF ProxyInv, RequestInv

LEMMA ReadBodyInv ==
  ASSUME ProxyInv, NEW r \in Request, ReadBody(r), UNCHANGED gone
  PROVE  ProxyInv'
<1>1. CASE Goto(r, "loop") /\ UNCHANGED answerVars
  <2> USE <1>1 DEF answerVars
  <2>1. ProxyTypeOK'
    BY Typed, TargetTyped DEF ProxyTypeOK, ReadBody, Goto
  <2>2. pc'[r] = "loop" /\ \A q \in Request \ {r} : pc'[q] = pc[q]
    BY DEF ProxyInv, ProxyTypeOK, Goto
  <2>3. ConnsInv'
    BY <2>2, ConnsUntouched DEF ReadBody
  <2>4. ASSUME NEW q \in Request \ {r} PROVE RequestInv(q)'
    BY <2>2, <2>4, OthersUntouched DEF ReadBody
  <2>5. RequestInv(r)'
    BY <2>2 DEF ProxyInv, RequestInv, LoopInv, StatusInv, RecorderInv, BodyInv, GoneInv,
                Answered, RetriesFor, ReadBody
  <2> QED
    BY <2>1, <2>3, <2>4, <2>5 DEF ProxyInv
<1>2. CASE Goto(r, "closing") /\ WriteHeader(r, 400)
  BY <1>2, RefuseInv DEF ReadBody
<1> QED
  BY <1>1, <1>2 DEF ReadBody

LEMMA LoopStepInv ==
  ASSUME ProxyInv, NEW r \in Request, Loop(r), UNCHANGED gone
  PROVE  ProxyInv'
<1>1. CASE WriteHeader(r, 503) /\ Goto(r, "closing") /\ UNCHANGED body
  BY <1>1, RefuseInv DEF Loop
<1>2. ASSUME UNCHANGED answerVars,
             \/ Goto(r, "closing") /\ UNCHANGED body
             \/ /\ attempt[r] <= RetriesFor(r) /\ ~ContextErr(r)
                /\ Rewind(r) /\ Goto(r, "select")
      PROVE  ProxyInv'
  <2> USE <1>2 DEF answerVars
  <2>1. ProxyTypeOK'
    <3>1. /\ pc' \in [Request -> {"idle", "body", "loop", "select", "connect", "sent",
                                  "leave", "closing", "done"}]
          /\ body' \in [Request -> {"unread", "fresh", "spent"}]
      <4>1. CASE Goto(r, "closing") /\ UNCHANGED body
        BY <4>1, Typed DEF ProxyTypeOK, Goto
      <4>2. CASE Rewind(r) /\ Goto(r, "select")
        BY <4>2, Typed DEF ProxyTypeOK, Goto, Rewind
      <4> QED
        BY <4>1, <4>2
    <3> QED
      BY <3>1, Typed, TargetTyped DEF ProxyTypeOK, Loop
  <2>2. \A q \in Request \ {r} : pc'[q] = pc[q] /\ body'[q] = body[q]
    BY DEF ProxyInv, ProxyTypeOK, Goto, Rewind
  <2>3. \/ pc'[r] = "closing"
        \/ /\ pc'[r] = "select" /\ body'[r] = "fresh"
           /\ attempt[r] <= RetriesFor(r) /\ r \notin gone
    BY DEF ProxyInv, ProxyTypeOK, Goto, Rewind, ContextErr
  <2>4. ConnsInv'
    BY <2>2, <2>3, ConnsUntouched DEF Loop
  <2>5. ASSUME NEW q \in Request \ {r} PROVE RequestInv(q)'
    BY <2>2, <2>5, OthersUntouched DEF Loop
  <2>6. LoopInv(r)' /\ BodyInv(r)'
    BY <2>3 DEF ProxyInv, ProxyTypeOK, RequestInv, LoopInv, BodyInv, RetriesFor, Loop
  <2>7. StatusInv(r)' /\ RecorderInv(r)'
    BY <2>3 DEF ProxyInv, RequestInv, StatusInv, RecorderInv, Answered, Loop
  <2>8. GoneInv(r)'
    BY <2>3 DEF ProxyInv, ProxyTypeOK, RequestInv, GoneInv, Loop
  <2> QED
    BY <2>1, <2>4, <2>5, <2>6, <2>7, <2>8 DEF ProxyInv, RequestInv
<1> QED
  BY <1>1, <1>2 DEF Loop

LEMMA SelectInv ==
  ASSUME ProxyInv, NEW r \in Request, Select(r), UNCHANGED gone
  PROVE  ProxyInv'
<1>1. CASE WriteHeader(r, 503) /\ Goto(r, "closing") /\ UNCHANGED target
  BY <1>1, RefuseInv DEF Select
<1>2. ASSUME NEW b, target' = [target EXCEPT ![r] = b],
             Goto(r, "connect"), UNCHANGED answerVars
      PROVE  ProxyInv'
  <2> USE <1>2 DEF answerVars
  <2>1. ProxyTypeOK'
    BY Typed DEF ProxyTypeOK, Select, Goto
  <2>2. pc'[r] = "connect"
    BY DEF ProxyInv, ProxyTypeOK, Goto
  <2>3. \A q \in Request \ {r} : pc'[q] = pc[q] /\ target'[q] = target[q]
    BY DEF ProxyInv, ProxyTypeOK, Goto
  <2>4. ConnsInv'
    BY <2>2, <2>3, ConnsUntouched DEF Select
  <2>5. ASSUME NEW q \in Request \ {r} PROVE RequestInv(q)'
    BY <2>3, <2>5, OthersUntouched DEF Select
  <2>6. RequestInv(r)'
    BY <2>2 DEF ProxyInv, RequestInv, LoopInv, StatusInv, RecorderInv, BodyInv, GoneInv,
                Answered, RetriesFor, Select
  <2> QED
    BY <2>1, <2>4, <2>5, <2>6 DEF ProxyInv
<1> QED
  BY <1>1, <1>2 DEF Select

LEMMA InformInv ==
  ASSUME ProxyInv, NEW r \in Request, Inform(r), UNCHANGED gone
  PROVE  ProxyInv'
<1> USE DEF serveVars
<1>1. 103 \in Codes /\ 103 \notin Final
  BY DEF Codes, Final, BackendStatus
<1>2. pc[r] # "done" /\ WriteHeader(r, 103)
  BY DEF Inform
<1>3. ProxyTypeOK'
  <2>1. /\ rec' \in [Request -> Codes] /\ wrote' \in [Request -> BOOLEAN]
        /\ sent' \in [Request -> Seq(Codes)]
    BY <1>1, <1>2, Written
  <2> QED
    BY <2>1, Typed DEF ProxyTypeOK, Inform, Codes
<1>4. ConnsInv'
  BY ConnsUntouched DEF Inform
<1>5. ASSUME NEW q \in Request \ {r} PROVE RequestInv(q)'
  BY <1>1, <1>2, <1>5, Written, OthersUntouched DEF Inform
<1>6. LoopInv(r)' /\ BodyInv(r)' /\ GoneInv(r)'
  BY DEF ProxyInv, RequestInv, LoopInv, BodyInv, GoneInv, RetriesFor, Inform
<1>7. StatusInv(r)'
  BY <1>1, <1>2, Written DEF ProxyInv, RequestInv, StatusInv, Answered, Inform
<1>8. RecorderInv(r)'
  BY <1>1, <1>2, Written DEF ProxyInv, RequestInv, RecorderInv, Inform
<1> QED
  BY <1>3, <1>4, <1>5, <1>6, <1>7, <1>8 DEF ProxyInv, RequestInv

\* The proxy counts the connection, and the attempt is under way.
LEMMA ConnectInv ==
  ASSUME ProxyInv, NEW r \in Request, Connect(r), UNCHANGED gone
  PROVE  ProxyInv'
<1> USE DEF answerVars
<1>1. ProxyTypeOK'
  <2>1. conns' \in [Backend -> Nat]
    <3>1. conns \in [Backend -> Nat] /\ conns' = [conns EXCEPT ![target[r]] = @ + 1]
      BY DEF ProxyInv, ProxyTypeOK, Connect
    <3>2. CASE target[r] \in Backend
      BY <3>1, <3>2
    <3>3. CASE target[r] \notin Backend
      BY <3>1, <3>3
    <3> QED
      BY <3>2, <3>3
  <2>2. tries' \in [Request -> Nat] /\ late' \in [Request -> Nat]
    BY DEF ProxyInv, ProxyTypeOK, Connect
  <2>3. /\ pc' = [pc EXCEPT ![r] = "sent"]
        /\ outcome' = [outcome EXCEPT ![r] = "open"]
    BY DEF Connect, Goto
  <2>4. /\ pc' \in [Request -> {"idle", "body", "loop", "select", "connect", "sent",
                               "leave", "closing", "done"}]
        /\ outcome' \in [Request -> {"open", "served", "failed", "aborted"}]
    BY <2>3, Typed DEF ProxyTypeOK
  <2> QED
    BY <2>1, <2>2, <2>3, <2>4, Typed, TargetTyped DEF ProxyTypeOK, Connect
<1>2. /\ pc[r] = "connect" /\ pc'[r] = "sent" /\ tries'[r] = tries[r] + 1
      /\ late'[r] = IF r \in gone THEN late[r] + 1 ELSE late[r]
      /\ \A q \in Request \ {r} :
           /\ pc'[q] = pc[q] /\ outcome'[q] = outcome[q]
           /\ tries'[q] = tries[q] /\ late'[q] = late[q]
  BY DEF ProxyInv, ProxyTypeOK, Connect, Goto
<1>3. ConnsInv'
  <2> SUFFICES ASSUME NEW b \in Backend
               PROVE  IsFiniteSet(Under(b))' /\ conns'[b] = Cardinality(Under(b))'
    BY DEF ConnsInv
  <2>1. IsFiniteSet(Under(b)) /\ conns[b] = Cardinality(Under(b)) /\ r \notin Under(b)
    BY <1>2 DEF ProxyInv, ConnsInv, Under
  <2>2. CASE target[r] = b
    <3>1. Under(b)' = Under(b) \cup {r}
      BY <1>2, <2>2 DEF Under, Connect
    <3>2. conns'[b] = conns[b] + 1
      BY <2>2 DEF ProxyInv, ProxyTypeOK, Connect
    <3> QED
      BY <2>1, <3>1, <3>2, FS_AddElement
  <2>3. CASE target[r] # b
    <3>1. Under(b)' = Under(b)
      BY <1>2, <2>3 DEF Under, Connect
    <3>2. conns'[b] = conns[b]
      BY <2>3 DEF ProxyInv, ProxyTypeOK, Connect
    <3> QED
      BY <2>1, <3>1, <3>2
  <2> QED
    BY <2>2, <2>3
<1>4. ASSUME NEW q \in Request \ {r} PROVE RequestInv(q)'
  BY <1>2, <1>4, OthersUntouched DEF Connect
<1>5. tries[r] \in Nat /\ attempt[r] \in Nat /\ late[r] \in Nat
  BY DEF ProxyInv, ProxyTypeOK
<1>6. LoopInv(r)'
  <2>1. RetriesFor(r) \in Nat
    BY ProxyAssumption DEF RetriesFor
  <2>2. RetriesFor(r)' = RetriesFor(r)
    BY DEF RetriesFor
  <2>3. tries[r] = attempt[r] /\ attempt[r] <= RetriesFor(r) /\ attempt'[r] = attempt[r]
    BY <1>2 DEF ProxyInv, RequestInv, LoopInv, Connect
  <2> QED
    BY <1>2, <1>5, <2>1, <2>2, <2>3 DEF LoopInv
<1>7. StatusInv(r)' /\ RecorderInv(r)' /\ BodyInv(r)'
  BY <1>2 DEF ProxyInv, RequestInv, StatusInv, RecorderInv, BodyInv, Answered, Connect
<1>8. GoneInv(r)'
  BY <1>2, <1>5 DEF ProxyInv, RequestInv, GoneInv
<1> QED
  BY <1>1, <1>3, <1>4, <1>6, <1>7, <1>8 DEF ProxyInv, RequestInv

\* The attempt's end, however it comes.
LEMMA EndInv ==
  ASSUME ProxyInv, NEW r \in Request, End(r), UNCHANGED gone
  PROVE  ProxyInv'
<1>1. /\ pc[r] = "sent" /\ pc'[r] = "leave"
      /\ \A q \in Request \ {r} :
           pc'[q] = pc[q] /\ body'[q] = body[q] /\ outcome'[q] = outcome[q]
  BY DEF ProxyInv, ProxyTypeOK, End, Goto
<1>2. ConnsInv'
  BY <1>1, ConnsUntouched DEF End
<1>3. LoopInv(r)' /\ BodyInv(r)' /\ GoneInv(r)'
  BY <1>1 DEF ProxyInv, RequestInv, LoopInv, BodyInv, GoneInv, RetriesFor, End
<1>4. ~Answered(r)
  BY <1>1 DEF ProxyInv, RequestInv, StatusInv
<1>5. /\ pc' \in [Request -> {"idle", "body", "loop", "select", "connect", "sent",
                              "leave", "closing", "done"}]
      /\ body' \in [Request -> {"unread", "fresh", "spent"}]
      /\ outcome' \in [Request -> {"open", "served", "failed", "aborted"}]
  <2>1. PICK how \in {"served", "aborted", "failed"} : outcome' = [outcome EXCEPT ![r] = how]
    BY DEF End
  <2> QED
    BY <2>1 DEF ProxyInv, ProxyTypeOK, End, Goto
<1>6. CASE \E how \in {"served", "aborted"}, code \in BackendStatus :
             outcome' = [outcome EXCEPT ![r] = how] /\ WriteHeader(r, code)
  <2>1. PICK how \in {"served", "aborted"}, code \in BackendStatus :
          outcome' = [outcome EXCEPT ![r] = how] /\ WriteHeader(r, code)
    BY <1>6
  <2>2. code \in Codes /\ code \in Final /\ outcome'[r] = how
    BY <2>1 DEF ProxyInv, ProxyTypeOK, Codes, Final
  <2>3. /\ rec' \in [Request -> Codes] /\ wrote' \in [Request -> BOOLEAN]
        /\ sent' \in [Request -> Seq(Codes)]
        /\ wrote'[r] /\ sent'[r] # << >> /\ rec'[r] = sent'[r][1]
        /\ \E n \in Nat : Finals(sent'[r]) = {n}
        /\ \A q \in Request \ {r} :
             rec'[q] = rec[q] /\ wrote'[q] = wrote[q] /\ sent'[q] = sent[q]
    BY <1>1, <1>4, <2>1, <2>2, Written
  <2>4. ProxyTypeOK'
    BY <1>5, <2>3, Typed, TargetTyped DEF ProxyTypeOK, End, Codes
  <2>5. ASSUME NEW q \in Request \ {r} PROVE RequestInv(q)'
    BY <1>1, <2>3, <2>5, OthersUntouched DEF End
  <2>6. StatusInv(r)'
    BY <1>1, <2>1, <2>2, <2>3 DEF StatusInv, Answered
  <2>7. RecorderInv(r)'
    BY <1>1, <2>3 DEF ProxyInv, RequestInv, RecorderInv, End
  <2> QED
    BY <1>2, <1>3, <2>4, <2>5, <2>6, <2>7 DEF ProxyInv, RequestInv
<1>7. CASE outcome' = [outcome EXCEPT ![r] = "failed"] /\ UNCHANGED answerVars
  <2> USE <1>7 DEF answerVars
  <2>1. outcome'[r] = "failed"
    BY Typed DEF ProxyTypeOK
  <2>2. ProxyTypeOK'
    BY <1>5, Typed, TargetTyped DEF ProxyTypeOK, End
  <2>3. ASSUME NEW q \in Request \ {r} PROVE RequestInv(q)'
    BY <1>1, <2>3, OthersUntouched DEF End
  <2>4. StatusInv(r)' /\ RecorderInv(r)'
    BY <1>1, <1>4, <2>1 DEF ProxyInv, RequestInv, StatusInv, RecorderInv, Answered, End
  <2> QED
    BY <1>2, <1>3, <2>2, <2>3, <2>4 DEF ProxyInv, RequestInv
<1> QED
  BY <1>6, <1>7 DEF End

\* The connection is released, and the request goes where its outcome says.
LEMMA LeaveInv ==
  ASSUME ProxyInv, NEW r \in Request, Leave(r), UNCHANGED gone
  PROVE  ProxyInv'
<1> USE DEF answerVars
<1> DEFINE next == After(r)
<1>1. pc[r] = "leave" /\ outcome[r] \in {"served", "failed", "aborted"}
  BY DEF ProxyInv, ProxyTypeOK, RequestInv, StatusInv, Leave
<1>2. /\ outcome[r] = "served"  => next = "closing"
      /\ outcome[r] = "aborted" => next = "done"
      /\ outcome[r] = "failed"  => next = "loop"
  BY DEF After
<1>3. next \in {"closing", "done", "loop"}
  BY <1>1, <1>2
<1>4. pc'[r] = next /\ \A q \in Request \ {r} : pc'[q] = pc[q]
  BY DEF ProxyInv, ProxyTypeOK, Leave, Goto
<1>5. \A q \in Request \ {r} : target'[q] = target[q] /\ attempt'[q] = attempt[q]
  BY DEF ProxyInv, ProxyTypeOK, Leave
<1>6. /\ attempt' \in [Request -> Nat]
      /\ next = "loop" => attempt'[r] = attempt[r] + 1
  <2>1. attempt \in [Request -> Nat] /\ attempt[r] + 1 \in Nat
    BY DEF ProxyInv, ProxyTypeOK
  <2>2. \/ next = "loop" /\ attempt' = [attempt EXCEPT ![r] = attempt[r] + 1]
        \/ next # "loop" /\ attempt' = attempt
    BY DEF Leave
  <2> HIDE DEF next
  <2> QED
    BY <2>1, <2>2
<1>7. DOMAIN target' = Request /\ target' = [q \in Request |-> target'[q]]
  BY DEF ProxyInv, ProxyTypeOK, Leave
<1>8. pc' \in [Request -> {"idle", "body", "loop", "select", "connect", "sent",
                          "leave", "closing", "done"}]
  BY <1>3 DEF ProxyInv, ProxyTypeOK, Leave, Goto
<1> HIDE DEF next
<1>9. /\ conns' = [conns EXCEPT ![target[r]] = @ - 1]
      /\ UNCHANGED <<body, outcome, answerVars, observed, tries, late, gone>>
  BY DEF Leave, Released
<1>10. ASSUME NEW b \in Backend
       PROVE  /\ IsFiniteSet(Under(b))' /\ conns'[b] = Cardinality(Under(b))'
              /\ conns'[b] \in Nat
  <2>1. IsFiniteSet(Under(b)) /\ conns[b] = Cardinality(Under(b))
    BY DEF ProxyInv, ConnsInv
  <2>2. CASE target[r] = b
    <3>1. r \in Under(b) /\ Under(b)' = Under(b) \ {r}
      BY <1>1, <1>3, <1>4, <1>5, <2>2 DEF Under
    <3>2. conns'[b] = conns[b] - 1
      BY <1>9, <2>2 DEF ProxyInv, ProxyTypeOK
    <3>3. IsFiniteSet(Under(b) \ {r}) /\ Cardinality(Under(b) \ {r}) = Cardinality(Under(b)) - 1
      BY <2>1, <3>1, FS_RemoveElement
    <3>4. Cardinality(Under(b) \ {r}) \in Nat
      BY <3>3, FS_CardinalityType
    <3> QED
      BY <2>1, <3>1, <3>2, <3>3, <3>4
  <2>3. CASE target[r] # b
    <3>1. Under(b)' = Under(b)
      BY <1>3, <1>4, <1>5, <2>3 DEF Under
    <3>2. conns'[b] = conns[b] /\ conns[b] \in Nat
      BY <1>9, <2>3 DEF ProxyInv, ProxyTypeOK
    <3> QED
      BY <2>1, <3>1, <3>2
  <2> QED
    BY <2>2, <2>3
<1>11. ConnsInv'
  BY <1>10 DEF ConnsInv
<1>12. ProxyTypeOK'
  <2>1. conns' \in [Backend -> Nat]
    BY <1>9, <1>10 DEF ProxyInv, ProxyTypeOK
  <2> QED
    BY <1>6, <1>7, <1>8, <1>9, <2>1 DEF ProxyInv, ProxyTypeOK
<1>13. ASSUME NEW q \in Request \ {r} PROVE RequestInv(q)'
  BY <1>4, <1>5, <1>9, <1>13, OthersUntouched
<1>14. LoopInv(r)'
  <2>1. /\ tries[r] = attempt[r] + 1 /\ attempt[r] <= RetriesFor(r)
        /\ tries[r] <= RetriesFor(r) + 1 /\ tries'[r] = tries[r]
    BY <1>1, <1>9 DEF ProxyInv, RequestInv, LoopInv
  <2> QED
    BY <1>3, <1>4, <1>6, <2>1 DEF LoopInv, RetriesFor
<1>15. StatusInv(r)'
  BY <1>1, <1>2, <1>4, <1>9 DEF ProxyInv, RequestInv, StatusInv, Answered
<1>16. RecorderInv(r)'
  <2>1. UNCHANGED <<rec, wrote, sent, observed, outcome>>
    BY <1>9
  <2> QED
    BY <1>1, <1>2, <1>4, <2>1 DEF ProxyInv, RequestInv, RecorderInv
<1>17. BodyInv(r)' /\ GoneInv(r)'
  BY <1>3, <1>4, <1>9 DEF ProxyInv, RequestInv, BodyInv, GoneInv
<1> QED
  BY <1>11, <1>12, <1>13, <1>14, <1>15, <1>16, <1>17 DEF ProxyInv, RequestInv

\* The middleware reports the recorded status.
LEMMA CloseInv ==
  ASSUME ProxyInv, NEW r \in Request, Close(r), UNCHANGED gone
  PROVE  ProxyInv'
<1>1. /\ pc[r] = "closing" /\ pc'[r] = "done"
      /\ \A q \in Request \ {r} :
           pc'[q] = pc[q] /\ observed'[q] = observed[q] /\ sent'[q] = sent[q]
      /\ observed'[r] = Append(observed[r], rec[r])
      /\ sent'[r] = IF Answered(r) THEN sent[r] ELSE Append(sent[r], 200)
  BY DEF ProxyInv, ProxyTypeOK, Close, Goto
<1>2. /\ sent[r] \in Seq(Codes) /\ rec[r] \in Codes /\ observed[r] = << >>
      /\ 200 \in Final /\ 200 \in Codes
      /\ rec[r] = IF sent[r] = << >> THEN 200 ELSE sent[r][1]
  BY <1>1 DEF ProxyInv, ProxyTypeOK, RequestInv, RecorderInv, Codes, Final, BackendStatus
<1>3. observed'[r] = <<rec[r]>> /\ Len(observed'[r]) = 1 /\ observed'[r] \in Seq(Codes)
  BY <1>1, <1>2
<1>4. sent'[r] \in Seq(Codes)
  BY <1>1, <1>2, FinalsAppend
<1>5. ProxyTypeOK'
  <2>1. sent' \in [Request -> Seq(Codes)] /\ observed' \in [Request -> Seq(Codes)]
    BY <1>2, <1>3, <1>4, Typed DEF ProxyTypeOK, Close, Codes
  <2>2. pc' = [pc EXCEPT ![r] = "done"]
    BY DEF Close, Goto
  <2> QED
    <3>1. pc' \in [Request -> {"idle", "body", "loop", "select", "connect", "sent",
                              "leave", "closing", "done"}]
      BY <2>2, Typed DEF ProxyTypeOK
    <3> QED
      BY <2>1, <3>1, Typed, TargetTyped DEF ProxyTypeOK, Close, Codes
<1>6. ConnsInv'
  BY <1>1, ConnsUntouched DEF Close
<1>7. ASSUME NEW q \in Request \ {r} PROVE RequestInv(q)'
  BY <1>1, <1>7, OthersUntouched DEF Close
<1>8. LoopInv(r)' /\ BodyInv(r)' /\ GoneInv(r)'
  BY <1>1 DEF ProxyInv, RequestInv, LoopInv, BodyInv, GoneInv, RetriesFor, Close
<1>9. StatusInv(r)'
  <2>1. CASE Answered(r)
    BY <1>1, <2>1 DEF ProxyInv, RequestInv, StatusInv, Answered
  <2>2. CASE ~Answered(r)
    <3>1. Finals(sent'[r]) = {Len(sent[r]) + 1}
      BY <1>1, <1>2, <2>2, FinalsAppend DEF Answered
    <3> QED
      BY <1>1, <3>1 DEF StatusInv, Answered
  <2> QED
    BY <2>1, <2>2
<1>10. RecorderInv(r)'
  <2>1. Len(sent'[r]) = 1 => sent'[r] = <<rec[r]>>
    <3> SUFFICES ASSUME Len(sent'[r]) = 1 PROVE sent'[r] = <<rec[r]>>
      OBVIOUS
    <3>1. sent'[r] = <<sent'[r][1]>>
      BY <1>4
    <3>2. CASE Answered(r)
      <4>1. sent[r] # << >>
        BY <3>2, NoFinals DEF Answered
      <4> QED
        BY <1>1, <1>2, <3>1, <3>2, <4>1
    <3>3. CASE ~Answered(r)
      <4>1. Len(sent[r]) = 0
        BY <1>1, <1>2, <3>3, FinalsAppend
      <4>2. sent[r] = << >>
        BY <1>2, <4>1, EmptySeq
      <4> QED
        BY <1>1, <1>2, <3>3, <4>2
    <3> QED
      BY <3>2, <3>3
  <2> QED
    BY <1>1, <1>3, <2>1 DEF RecorderInv
<1> QED
  BY <1>5, <1>6, <1>7, <1>8, <1>9, <1>10 DEF ProxyInv, RequestInv

LEMMA DepartInv ==
  ASSUME ProxyInv, NEW r \in Request, Depart(r)
  PROVE  ProxyInv'
<1> USE DEF serveVars, answerVars
<1>1. ProxyTypeOK'
  BY Typed, TargetTyped, SMTT(30) DEF ProxyTypeOK, Depart
<1>2. ConnsInv'
  BY ConnsUntouched DEF Depart
<1>3. ASSUME NEW q \in Request PROVE RequestInv(q)'
  BY <1>3, OthersUntouched DEF Depart
<1> QED
  BY <1>1, <1>2, <1>3 DEF ProxyInv

\* Steps of the pool, and steps of nobody.
LEMMA PoolStepInv ==
  ASSUME ProxyInv, UNCHANGED <<serveVars, answerVars, gone, observed, tries, late>>
  PROVE  ProxyInv'
<1> USE DEF serveVars, answerVars
<1>1. ProxyTypeOK'
  BY DEF ProxyInv, ProxyTypeOK
<1>2. ConnsInv'
  BY ConnsUntouched
<1>3. ASSUME NEW q \in Request PROVE RequestInv(q)'
  BY <1>3, OthersUntouched
<1> QED
  BY <1>1, <1>2, <1>3 DEF ProxyInv

LEMMA ProxyStepInv == ProxyInv /\ [ProxyNext]_vars => ProxyInv'
<1> SUFFICES ASSUME ProxyInv, [ProxyNext]_vars PROVE ProxyInv'
  OBVIOUS
<1>1. CASE UNCHANGED vars
  BY <1>1, PoolStepInv DEF vars
<1>2. CASE Next /\ UNCHANGED <<serveVars, answerVars, gone, observed, tries, late>>
  BY <1>2, PoolStepInv
<1>3. ASSUME NEW r \in Request, Serve(r) PROVE ProxyInv'
  BY <1>3, ReadBodyInv, LoopStepInv, SelectInv, ConnectInv, LeaveInv, CloseInv
  DEF Serve, Run
<1>4. ASSUME NEW r \in Request, Arrive(r) \/ Inform(r) \/ End(r), UNCHANGED gone
      PROVE  ProxyInv'
  BY <1>4, ArriveInv, InformInv, EndInv
<1>5. ASSUME NEW r \in Request, Depart(r) PROVE ProxyInv'
  BY <1>5, DepartInv
<1> QED
  BY <1>1, <1>2, <1>3, <1>4, <1>5 DEF ProxyNext

\* The inductive invariant holds, whatever requests, pool and strategy do.
THEOREM ProxyInvariance == ProxySafety => []ProxyInv
<1> QED
  BY ProxyInitInv, ProxyStepInv, PTL DEF ProxySafety

\* ActiveConnectionsNo counts the attempts under way to each backend.
THEOREM ConnectionsExact == ProxySafety => []ConnsExact
<1>1. ProxyInv => ConnsExact
  BY DEF ProxyInv, ConnsInv, ConnsExact
<1> QED
  BY <1>1, ProxyInvariance, PTL

\* The retry loop keeps to its bound, and never goes on after an answer.
THEOREM RetriesBounded == ProxySafety => []AttemptsBounded
<1>1. ProxyInv => AttemptsBounded
  <2> SUFFICES ASSUME ProxyInv, NEW r \in Request
               PROVE  /\ tries[r] <= IF r \in Once THEN 1 ELSE 1 + MaxRetries
                      /\ Answered(r) => pc[r] \in {"leave", "closing", "done"}
    BY DEF AttemptsBounded
  <2>1. tries[r] <= RetriesFor(r) + 1 /\ tries[r] \in Nat /\ MaxRetries \in Nat
    BY ProxyAssumption DEF ProxyInv, ProxyTypeOK, RequestInv, LoopInv
  <2>2. tries[r] <= IF r \in Once THEN 1 ELSE 1 + MaxRetries
    BY <2>1 DEF RetriesFor
  <2>3. Answered(r) => pc[r] \in {"leave", "closing", "done"}
    BY DEF ProxyInv, RequestInv, StatusInv
  <2> QED
    BY <2>2, <2>3
<1> QED
  BY <1>1, ProxyInvariance, PTL

\* A request gets one final status, and one that is done has got it.
THEOREM AnsweredOnce == ProxySafety => []OneFinalStatus
<1>1. ProxyInv => OneFinalStatus
  BY DEF ProxyInv, RequestInv, StatusInv, OneFinalStatus
<1> QED
  BY <1>1, ProxyInvariance, PTL

\* A retry sends the body again from its start.
THEOREM BodyRewound == ProxySafety => []WholeBody
<1>1. ProxyInv => WholeBody
  BY DEF ProxyInv, RequestInv, BodyInv, WholeBody
<1> QED
  BY <1>1, ProxyInvariance, PTL

\* At most one attempt begins after the client has gone.
THEOREM DepartureStops == ProxySafety => []GoneStopsRetries
<1>1. ProxyInv => GoneStopsRetries
  BY DEF ProxyInv, RequestInv, GoneInv, GoneStopsRetries
<1> QED
  BY <1>1, ProxyInvariance, PTL

\* The metrics see the status the client got, unless there were several.
THEOREM ReportsFaithful == ProxySafety => []MetricsFaithful
<1>1. ProxyInv => MetricsFaithful
  BY DEF ProxyInv, RequestInv, RecorderInv, MetricsFaithful
<1> QED
  BY <1>1, ProxyInvariance, PTL

==============================================================================
