--------------------------- MODULE ChatStreamProofs ---------------------------
(***************************************************************************)
(* Theorems about ChatStream, for any finite set of requests, any history  *)
(* limit and any number of deltas.                                         *)
(***************************************************************************)
EXTENDS ChatStream, FiniteSetTheorems, WellFoundedInduction, TLAPS

-----------------------------------------------------------------------------
\* No request has come and the log is empty.
LEMMA TypeInit == Init => TypeOK
  BY DEF Init, TypeOK, Stages

\* No step of a request or of a deletion leaves the types.
LEMMA TypeStep == TypeOK /\ [Next]_vars => TypeOK'
<1> SUFFICES ASSUME TypeOK, [Next]_vars PROVE TypeOK'
  OBVIOUS
<1> USE DEF TypeOK, Stages
<1>1. ASSUME NEW q \in Requests, Open(q) \/ Refuse(q) \/ Retrieve(q) \/ ReadHistory(q)
      PROVE  TypeOK'
  <2>1. CASE Open(q)
    BY <2>1 DEF Open, Goes, Begins
  <2>2. CASE Refuse(q) \/ Retrieve(q)
    BY <2>2 DEF Refuse, Retrieve, Goes, Prepared
  <2>3. CASE ReadHistory(q)
    <3>1. Recent(ConversationOf[q]) \subseteq Messages
      BY DEF Recent
    <3>2. QED
      BY <2>3, <3>1 DEF ReadHistory, Goes, Begins
  <2>4. QED
    BY <1>1, <2>1, <2>2, <2>3
<1>2. ASSUME NEW q \in Requests, SaveQuestion(q) \/ SaveFallback(q) PROVE TypeOK'
  <2>1. Question(q) \in Messages /\ Answer(q) \in Messages
    BY DEF Question, Answer, Messages
  <2>2. CASE SaveQuestion(q)
    BY <2>1, <2>2 DEF SaveQuestion, Goes, Inserts, Prepared
  <2>3. CASE SaveFallback(q)
    BY <2>1, <2>3 DEF SaveFallback, Goes, Inserts
  <2>4. QED
    BY <1>2, <2>2, <2>3
<1>3. ASSUME NEW q \in Requests, SendFallback(q) \/ Abort(q) PROVE TypeOK'
  BY <1>3 DEF SendFallback, Abort, Goes, Prepared
<1>4. ASSUME NEW q \in Requests, Delta(q) \/ Deliver(q) \/ Finish(q) \/ Disconnect(q)
      PROVE  TypeOK'
  BY <1>4 DEF Delta, Deliver, Finish, Disconnect, Goes, Streamed
<1>5. ASSUME NEW q \in Requests, Save(q) \/ SaveFails(q) PROVE TypeOK'
  <2>1. Answer(q) \in Messages
    BY DEF Answer, Messages
  <2>2. log' \subseteq Messages /\ stamp' \in [Messages -> Nat]
    BY <1>5, <2>1 DEF Save, SaveFails, Inserts
  <2>3. saved' \in [Requests -> Nat] /\ extracted' \subseteq Requests
    BY <1>5 DEF Save, SaveFails
  <2>4. stage' \in [Requests -> Stages]
    BY <1>5 DEF Save, SaveFails
  <2>5. QED
    BY <1>5, <2>2, <2>3, <2>4 DEF Save, SaveFails
<1>6. ASSUME NEW c \in Conversations, DeleteConversation(c) PROVE TypeOK'
  BY <1>6 DEF DeleteConversation, Untouched
<1>7. CASE UNCHANGED vars
  BY <1>7 DEF vars
<1>8. QED
  BY <1>1, <1>2, <1>3, <1>4, <1>5, <1>6, <1>7 DEF Next, Serve, Idle

\* Type correctness: every request stands at a stage of stream_rag_chat, and
\* only messages of known requests are ever stored.
THEOREM TypeCorrect == Spec => []TypeOK
  BY TypeInit, TypeStep, PTL DEF Spec

-----------------------------------------------------------------------------
(***************************************************************************)
(* What a stage of the stream implies for the counted deltas: nothing is   *)
(* sent before it is accumulated, and nothing is saved before the end.     *)
(***************************************************************************)
Counted ==
    \A q \in Requests :
        /\ stage[q] \in {"new", "opened", "asked", "prompted", "empty"} =>
              text[q] = 0 /\ sent[q] = 0 /\ saved[q] = 0
        /\ stage[q] = "answered" => sent[q] = 0 /\ saved[q] = 1
        /\ stage[q] \in {"streaming", "closing", "cancelled"} =>
              sent[q] <= text[q] /\ saved[q] = 0
        /\ stage[q] = "yielding" => sent[q] < text[q] /\ saved[q] = 0
        /\ stage[q] = "ended" => saved[q] >= sent[q]
        /\ q \in extracted => stage[q] = "ended" /\ saved[q] = text[q] /\ saved[q] > 0

LEMMA CountedInit == Init => Counted
  BY DEF Init, Counted

\* A step changes the counts of one request only.
LEMMA CountedStep == TypeOK /\ Counted /\ [Next]_vars => Counted'
<1> SUFFICES ASSUME TypeOK, Counted, [Next]_vars PROVE Counted'
  OBVIOUS
<1> USE DEF TypeOK, Stages, Counted
<1>1. ASSUME NEW q \in Requests, Open(q) \/ Refuse(q) \/ Retrieve(q) \/ ReadHistory(q)
      PROVE  Counted'
  BY <1>1 DEF Open, Refuse, Retrieve, ReadHistory, Goes, Prepared
<1>2. ASSUME NEW q \in Requests, SaveQuestion(q) \/ SaveFallback(q) PROVE Counted'
  BY <1>2 DEF SaveQuestion, SaveFallback, Goes, Prepared
<1>3. ASSUME NEW q \in Requests, SendFallback(q) \/ Abort(q) PROVE Counted'
  BY <1>3 DEF SendFallback, Abort, Goes, Prepared
<1>4. ASSUME NEW q \in Requests, Delta(q) \/ Deliver(q) \/ Finish(q) \/ Disconnect(q)
      PROVE  Counted'
  BY <1>4 DEF Delta, Deliver, Finish, Disconnect, Goes, Streamed
<1>5. ASSUME NEW q \in Requests, Save(q) PROVE Counted'
  BY <1>5 DEF Save, Closing
<1>6. ASSUME NEW q \in Requests, SaveFails(q) PROVE Counted'
  BY <1>6 DEF SaveFails, Closing
<1>7. ASSUME NEW c \in Conversations, DeleteConversation(c) PROVE Counted'
  BY <1>7 DEF DeleteConversation, Untouched
<1>8. CASE UNCHANGED vars
  BY <1>8 DEF vars
<1>9. QED
  BY <1>1, <1>2, <1>3, <1>4, <1>5, <1>6, <1>7, <1>8 DEF Next, Serve, Idle

\* What was delivered is saved, however the stream ended, unless the commit
\* itself failed; and memory extraction works on the exchange that was saved.
THEOREM SavedCoversDeliveredHolds == Spec => []SavedCoversDelivered
<1>1. TypeOK /\ Counted => SavedCoversDelivered
  BY DEF TypeOK, Counted, SavedCoversDelivered
<1>2. QED
  BY <1>1, TypeInit, TypeStep, CountedInit, CountedStep, PTL DEF Spec

-----------------------------------------------------------------------------
(***************************************************************************)
(* The order of the log. A stamp is the start of a transaction, so it is   *)
(* not the order of the commits that has to be followed but the order in   *)
(* which the transactions of a request start: the one of the answer starts *)
(* after the question was committed, and the one of the question after all *)
(* earlier answers were.                                                   *)
(***************************************************************************)
Before == {"new", "opened"}
Writing == {"prompted", "empty", "streaming", "yielding", "closing", "cancelled"}

Stamped ==
    /\ \A m \in log : stamp[m] < now
    /\ \A q \in Requests :
        /\ begun[q] < now
        /\ Question(q) \in log => stage[q] \notin Before
        /\ Answer(q) \in log => stage[q] \in {"answered", "ended", "unsaved"}
        /\ stage[q] \in Writing /\ Question(q) \in log => stamp[Question(q)] < begun[q]
        /\ \A p \in earlier[q] :
              /\ Over(p)
              /\ stage[q] = "opened" /\ Answer(p) \in log => stamp[Answer(p)] < begun[q]

LEMMA StampedInit == Init => Stamped /\ ReadsInOrder
  BY DEF Init, Stamped, ReadsInOrder, Before, Writing

\* The messages of different requests, and the two of one, are distinct.
LEMMA Distinct ==
    ASSUME NEW p \in Requests, NEW q \in Requests
    PROVE  /\ Question(p) # Answer(q)
           /\ p # q => Question(p) # Question(q) /\ Answer(p) # Answer(q)
           /\ Question(p) \in Messages /\ Answer(p) \in Messages
  BY DEF Question, Answer, Messages

\* A step that inserts nothing keeps the order, and the stamps it rests on.
LEMMA QuietStep ==
    ASSUME TypeOK, Stamped, ReadsInOrder,
           NEW q \in Requests,
           stage' = [stage EXCEPT ![q] = stage'[q]],
           ~Over(q), stage[q] \notin Before, stage'[q] \notin Before,
           Answer(q) \in log => stage'[q] \in {"answered", "ended", "unsaved"},
           stage'[q] \in Writing => stage[q] \in Writing,
           UNCHANGED <<now, log, stamp, begun, earlier>>
    PROVE  Stamped' /\ ReadsInOrder'
<1>1. ReadsInOrder'
  BY DEF ReadsInOrder
<1>2. \A p \in Requests : p # q => stage'[p] = stage[p]
  BY DEF TypeOK
<1>3. \A p \in Requests : Over(p) => Over(p)'
  BY <1>2 DEF Over
<1>4. ASSUME NEW r \in Requests
      PROVE  /\ Question(r) \in log => stage'[r] \notin Before
             /\ Answer(r) \in log => stage'[r] \in {"answered", "ended", "unsaved"}
             /\ stage'[r] \in Writing /\ Question(r) \in log => stamp[Question(r)] < begun[r]
  BY <1>2 DEF Stamped
<1>5. ASSUME NEW r \in Requests, NEW p \in earlier[r]
      PROVE  /\ Over(p)'
             /\ stage'[r] = "opened" /\ Answer(p) \in log => stamp[Answer(p)] < begun[r]
  BY <1>2, <1>3 DEF TypeOK, Stamped, Before
<1>6. QED
  BY <1>1, <1>4, <1>5 DEF Stamped

\* A step that inserts the answer of q keeps them.
LEMMA AnswerStep ==
    ASSUME TypeOK, Stamped, ReadsInOrder,
           NEW q \in Requests,
           stage[q] \in Writing,
           stage' = [stage EXCEPT ![q] = stage'[q]],
           stage'[q] \in {"answered", "ended", "unsaved"},
           Inserts(q, Answer(q)),
           UNCHANGED <<now, begun, earlier>>
    PROVE  Stamped' /\ ReadsInOrder'
<1>1. log' = log \cup {Answer(q)} /\ stamp' = [stamp EXCEPT ![Answer(q)] = begun[q]]
  BY DEF Inserts
<1>2. stamp'[Answer(q)] = begun[q] /\ begun[q] < now /\ begun[q] \in Nat
  BY <1>1, Distinct DEF TypeOK, Stamped, Writing
<1>3. \A m \in log : m # Answer(q) => stamp'[m] = stamp[m]
  BY <1>1 DEF TypeOK
<1>4. Answer(q) \notin log
  BY DEF Stamped, Writing
<1>5. ~Over(q) /\ stage[q] \notin Before
  BY DEF Over, Writing, Before
<1>6. \A p \in Requests : p # q => stage'[p] = stage[p]
  BY DEF TypeOK
<1>7. \A p \in Requests : /\ Question(p) \in log' <=> Question(p) \in log
                          /\ p # q => (Answer(p) \in log' <=> Answer(p) \in log)
  BY <1>1, Distinct
<1>8. \A p \in Requests : Over(p) => Over(p)' /\ p # q
  BY <1>5, <1>6 DEF Over
<1>9. Stamped'
  <2>1. \A m \in log' : stamp'[m] < now'
    BY <1>1, <1>2, <1>3 DEF Stamped
  <2>2. ASSUME NEW r \in Requests
        PROVE  /\ begun'[r] < now'
               /\ Question(r) \in log' => stage'[r] \notin Before
               /\ Answer(r) \in log' => stage'[r] \in {"answered", "ended", "unsaved"}
               /\ stage'[r] \in Writing /\ Question(r) \in log' => stamp'[Question(r)] < begun'[r]
    <3>1. CASE r = q
      BY <3>1, <1>2 DEF Writing, Before
    <3>2. CASE r # q
      BY <3>2, <1>1, <1>3, <1>6, <1>7, Distinct DEF Stamped
    <3>3. QED
      BY <3>1, <3>2
  <2>3. ASSUME NEW r \in Requests, NEW p \in earlier'[r]
        PROVE  /\ Over(p)'
               /\ stage'[r] = "opened" /\ Answer(p) \in log' => stamp'[Answer(p)] < begun'[r]
    <3>1. p \in Requests /\ Over(p) /\ p # q
      BY <2>3, <1>8 DEF TypeOK, Stamped
    <3>2. stage'[r] = "opened" => r # q
      BY DEF TypeOK
    <3>3. QED
      BY <2>3, <3>1, <3>2, <1>3, <1>6, <1>7, <1>8, Distinct DEF Stamped
  <2>4. QED
    BY <2>1, <2>2, <2>3 DEF Stamped
<1>10. ReadsInOrder'
  <2>1. ASSUME NEW r \in Requests, {Question(r), Answer(r)} \subseteq log'
        PROVE  stamp'[Question(r)] < stamp'[Answer(r)]
    <3>1. CASE r = q
      <4>1. Question(q) \in log /\ stamp[Question(q)] < begun[q]
        BY <2>1, <3>1, <1>7 DEF Stamped
      <4>2. QED
        BY <4>1, <3>1, <1>2, <1>3, Distinct
    <3>2. CASE r # q
      BY <2>1, <3>2, <1>3, <1>7, Distinct DEF ReadsInOrder
    <3>3. QED
      BY <3>1, <3>2
  <2>2. ASSUME NEW r \in Requests, NEW p \in earlier'[r], {Answer(p), Question(r)} \subseteq log'
        PROVE  stamp'[Answer(p)] < stamp'[Question(r)]
    <3>1. p \in Requests /\ Over(p) /\ p # q
      BY <2>2, <1>8 DEF TypeOK, Stamped
    <3>2. QED
      BY <2>2, <3>1, <1>3, <1>7, Distinct DEF ReadsInOrder
  <2>3. QED
    BY <2>1, <2>2 DEF ReadsInOrder
<1>11. QED
  BY <1>9, <1>10

\* The whole step.
LEMMA StampedStep == TypeOK /\ Stamped /\ ReadsInOrder /\ [Next]_vars => Stamped' /\ ReadsInOrder'
<1> SUFFICES ASSUME TypeOK, Stamped, ReadsInOrder, [Next]_vars PROVE Stamped' /\ ReadsInOrder'
  OBVIOUS
<1> USE DEF TypeOK, Stages
<1>1. ASSUME NEW q \in Requests, Open(q) PROVE Stamped' /\ ReadsInOrder'
  <2>1. /\ stage[q] = "new" /\ stage' = [stage EXCEPT ![q] = "opened"]
        /\ begun' = [begun EXCEPT ![q] = now] /\ now' = now + 1
        /\ earlier' = [earlier EXCEPT ![q] = {p \in Requests : Over(p)}]
        /\ log' = log /\ stamp' = stamp
    BY <1>1 DEF Open, Goes, Begins
  <2>2. Question(q) \notin log /\ Answer(q) \notin log
    BY <2>1 DEF Stamped, Before
  <2>3. \A p \in Requests : Over(p) => Over(p)'
    BY <2>1 DEF Over
  <2>4. Stamped'
    <3>1. \A m \in log' : stamp'[m] < now'
      BY <2>1 DEF Stamped, Messages
    <3>2. ASSUME NEW r \in Requests
          PROVE  /\ begun'[r] < now'
                 /\ Question(r) \in log' => stage'[r] \notin Before
                 /\ Answer(r) \in log' => stage'[r] \in {"answered", "ended", "unsaved"}
                 /\ stage'[r] \in Writing /\ Question(r) \in log' => stamp'[Question(r)] < begun'[r]
      BY <2>1, <2>2 DEF Stamped, Before, Writing
    <3>3. ASSUME NEW r \in Requests, NEW p \in earlier'[r]
          PROVE  /\ Over(p)'
                 /\ stage'[r] = "opened" /\ Answer(p) \in log' => stamp'[Answer(p)] < begun'[r]
      <4>1. CASE r = q
        BY <4>1, <2>1, <2>3 DEF Stamped
      <4>2. CASE r # q
        BY <4>2, <2>1, <2>3 DEF Stamped
      <4>3. QED
        BY <4>1, <4>2
    <3>4. QED
      BY <3>1, <3>2, <3>3 DEF Stamped
  <2>5. ReadsInOrder'
    BY <2>1, <2>2 DEF ReadsInOrder
  <2>6. QED
    BY <2>4, <2>5
<1>2. ASSUME NEW q \in Requests, Refuse(q) PROVE Stamped' /\ ReadsInOrder'
  <2>1. /\ stage[q] = "new" /\ stage' = [stage EXCEPT ![q] = "ended"]
        /\ UNCHANGED <<now, begun, log, stamp, earlier>>
    BY <1>2 DEF Refuse, Goes, Prepared
  <2>2. Question(q) \notin log
    BY <2>1 DEF Stamped, Before
  <2>3. \A p \in Requests : Over(p) => Over(p)'
    BY <2>1 DEF Over
  <2>4. ASSUME NEW r \in Requests
        PROVE  /\ begun'[r] < now'
               /\ Question(r) \in log' => stage'[r] \notin Before
               /\ Answer(r) \in log' => stage'[r] \in {"answered", "ended", "unsaved"}
               /\ stage'[r] \in Writing /\ Question(r) \in log' => stamp'[Question(r)] < begun'[r]
    BY <2>1, <2>2 DEF Stamped, Before, Writing
  <2>5. ASSUME NEW r \in Requests, NEW p \in earlier'[r]
        PROVE  /\ Over(p)'
               /\ stage'[r] = "opened" /\ Answer(p) \in log' => stamp'[Answer(p)] < begun'[r]
    BY <2>1, <2>3 DEF Stamped
  <2>6. ReadsInOrder'
    BY <2>1 DEF ReadsInOrder
  <2>7. QED
    BY <2>1, <2>4, <2>5, <2>6 DEF Stamped
<1>3. ASSUME NEW q \in Requests, SaveQuestion(q) PROVE Stamped' /\ ReadsInOrder'
  <2>1. /\ stage[q] = "opened" /\ stage' = [stage EXCEPT ![q] = "asked"]
        /\ log' = log \cup {Question(q)} /\ stamp' = [stamp EXCEPT ![Question(q)] = begun[q]]
        /\ UNCHANGED <<now, begun, earlier>>
    BY <1>3 DEF SaveQuestion, Goes, Inserts, Prepared
  <2>2. stamp'[Question(q)] = begun[q] /\ begun[q] < now
    BY <2>1, Distinct DEF Stamped
  <2>3. \A m \in log : m # Question(q) => stamp'[m] = stamp[m]
    BY <2>1
  <2>4. \A p \in Requests : /\ Answer(p) \in log' <=> Answer(p) \in log
                            /\ p # q => (Question(p) \in log' <=> Question(p) \in log)
    BY <2>1, Distinct
  <2>5. \A p \in Requests : Over(p) => Over(p)'
    BY <2>1 DEF Over
  <2>6. Answer(q) \notin log
    BY <2>1 DEF Stamped
  <2>7. Stamped'
    <3>1. \A m \in log' : stamp'[m] < now'
      BY <2>1, <2>2, <2>3 DEF Stamped
    <3>2. ASSUME NEW r \in Requests
          PROVE  /\ begun'[r] < now'
                 /\ Question(r) \in log' => stage'[r] \notin Before
                 /\ Answer(r) \in log' => stage'[r] \in {"answered", "ended", "unsaved"}
                 /\ stage'[r] \in Writing /\ Question(r) \in log' => stamp'[Question(r)] < begun'[r]
      <4>1. CASE r = q
        BY <4>1, <2>1, <2>2, <2>6, <2>4 DEF Writing, Before
      <4>2. CASE r # q
        BY <4>2, <2>1, <2>3, <2>4, Distinct DEF Stamped
      <4>3. QED
        BY <4>1, <4>2
    <3>3. ASSUME NEW r \in Requests, NEW p \in earlier'[r]
          PROVE  /\ Over(p)'
                 /\ stage'[r] = "opened" /\ Answer(p) \in log' => stamp'[Answer(p)] < begun'[r]
      <4>1. p \in Requests /\ Over(p) /\ p \in earlier[r]
        BY <3>3, <2>1 DEF Stamped
      <4>2. stage'[r] = "opened" => stage[r] = "opened"
        BY <2>1
      <4>3. QED
        BY <4>1, <4>2, <2>1, <2>3, <2>4, <2>5, Distinct DEF Stamped
    <3>4. QED
      BY <3>1, <3>2, <3>3 DEF Stamped
  <2>8. ReadsInOrder'
    <3>1. ASSUME NEW r \in Requests, {Question(r), Answer(r)} \subseteq log'
          PROVE  stamp'[Question(r)] < stamp'[Answer(r)]
      <4>1. r # q
        BY <3>1, <2>4, <2>6
      <4>2. QED
        BY <3>1, <4>1, <2>3, <2>4, Distinct DEF ReadsInOrder
    <3>2. ASSUME NEW r \in Requests, NEW p \in earlier'[r], {Answer(p), Question(r)} \subseteq log'
          PROVE  stamp'[Answer(p)] < stamp'[Question(r)]
      <4>1. p \in Requests /\ p \in earlier[r] /\ Answer(p) \in log
        BY <3>2, <2>1, <2>4
      <4>2. stamp'[Answer(p)] = stamp[Answer(p)]
        BY <4>1, <2>3, Distinct
      <4>3. CASE r = q
        BY <4>1, <4>2, <4>3, <2>1, <2>2 DEF Stamped
      <4>4. CASE r # q
        BY <4>1, <4>2, <4>4, <3>2, <2>3, <2>4, Distinct DEF ReadsInOrder
      <4>5. QED
        BY <4>3, <4>4
    <3>3. QED
      BY <3>1, <3>2 DEF ReadsInOrder
  <2>9. QED
    BY <2>7, <2>8
<1>4. ASSUME NEW q \in Requests, ReadHistory(q) PROVE Stamped' /\ ReadsInOrder'
  <2>1. /\ stage[q] = "asked" /\ stage' = [stage EXCEPT ![q] = "prompted"]
        /\ begun' = [begun EXCEPT ![q] = now] /\ now' = now + 1
        /\ UNCHANGED <<log, stamp, earlier>>
    BY <1>4 DEF ReadHistory, Goes, Begins
  <2>2. QED
    BY <2>1 DEF Stamped, ReadsInOrder, Before, Writing, Over, Messages
<1>5. ASSUME NEW q \in Requests,
             Retrieve(q) \/ SendFallback(q) \/ Delta(q) \/ Deliver(q) \/ Finish(q) \/ Disconnect(q)
      PROVE  Stamped' /\ ReadsInOrder'
  <2>1. /\ stage' = [stage EXCEPT ![q] = stage'[q]]
        /\ ~Over(q) /\ stage[q] \notin Before /\ stage'[q] \notin Before
        /\ stage'[q] \in Writing => stage[q] \in Writing
        /\ stage[q] = "answered" \/ stage[q] \in Writing
        /\ stage[q] = "answered" => stage'[q] = "ended"
        /\ UNCHANGED <<now, log, stamp, begun, earlier>>
    BY <1>5 DEF Retrieve, SendFallback, Delta, Deliver, Finish, Disconnect, Goes,
                Prepared, Streamed, Over, Before, Writing
  <2>2. Answer(q) \in log => stage'[q] \in {"answered", "ended", "unsaved"}
    BY <2>1 DEF Stamped, Writing
  <2>3. QED
    BY <2>1, <2>2, QuietStep
<1>6. ASSUME NEW q \in Requests, Abort(q) PROVE Stamped' /\ ReadsInOrder'
  <2>1. /\ stage[q] \notin {"new", "ended", "unsaved"} /\ stage' = [stage EXCEPT ![q] = "ended"]
        /\ UNCHANGED <<now, log, stamp, begun, earlier>>
    BY <1>6 DEF Abort, Goes, Prepared
  <2>2. Over(q)' /\ \A p \in Requests : Over(p) => Over(p)'
    BY <2>1 DEF Over
  <2>3. Stamped'
    BY <2>1, <2>2 DEF Stamped, Before, Writing
  <2>4. ReadsInOrder'
    BY <2>1 DEF ReadsInOrder
  <2>5. QED
    BY <2>3, <2>4
<1>7. ASSUME NEW q \in Requests, SaveFallback(q) PROVE Stamped' /\ ReadsInOrder'
  BY <1>7, AnswerStep DEF SaveFallback, Goes, Writing
<1>8. ASSUME NEW q \in Requests, Save(q) \/ SaveFails(q) PROVE Stamped' /\ ReadsInOrder'
  <2>1. /\ stage' = [stage EXCEPT ![q] = stage'[q]] /\ stage'[q] \in {"ended", "unsaved"}
        /\ stage[q] \in {"closing", "cancelled"}
        /\ UNCHANGED <<now, begun, earlier>>
    BY <1>8 DEF Save, SaveFails, Closing
  <2>2. CASE Inserts(q, Answer(q))
    BY <2>1, <2>2, AnswerStep DEF Writing
  <2>3. CASE log' = log /\ stamp' = stamp
    BY <2>1, <2>3, QuietStep DEF Over, Before, Writing
  <2>4. QED
    BY <1>8, <2>2, <2>3 DEF Save, SaveFails
<1>9. ASSUME NEW c \in Conversations, DeleteConversation(c) PROVE Stamped' /\ ReadsInOrder'
  BY <1>9 DEF DeleteConversation, Untouched, Stamped, ReadsInOrder, Over
<1>10. CASE UNCHANGED vars
  BY <1>10 DEF vars, Stamped, ReadsInOrder, Over
<1>11. QED
  BY <1>1, <1>2, <1>3, <1>4, <1>5, <1>6, <1>7, <1>8, <1>9, <1>10 DEF Next, Serve, Idle

\* The stored order reads as a conversation, although overlapping requests
\* commit in any order and stamps are taken long before the commit.
THEOREM ReadsInOrderHolds == Spec => []ReadsInOrder
  BY TypeInit, TypeStep, StampedInit, StampedStep, PTL DEF Spec

-----------------------------------------------------------------------------
\* Messages enter the log only while their conversation exists.
LEMMA DeletedStep == TypeOK /\ DeletedIsEmpty /\ [Next]_vars => DeletedIsEmpty'
<1> SUFFICES ASSUME TypeOK, DeletedIsEmpty, [Next]_vars PROVE DeletedIsEmpty'
  OBVIOUS
<1> USE DEF TypeOK, DeletedIsEmpty, Of
<1>1. ASSUME NEW q \in Requests, Serve(q) PROVE DeletedIsEmpty'
  <2>1. deleted' = deleted
    BY <1>1 DEF Serve, Open, Refuse, SaveQuestion, ReadHistory, Retrieve, SaveFallback, SendFallback,
                Abort, Delta, Deliver, Finish, Disconnect, Save, SaveFails, Prepared, Streamed
  <2>2. \/ log' = log
        \/ Exists(q) /\ (log' = log \cup {Question(q)} \/ log' = log \cup {Answer(q)})
    BY <1>1 DEF Serve, Open, Refuse, SaveQuestion, ReadHistory, Retrieve, SaveFallback, SendFallback,
                Abort, Delta, Deliver, Finish, Disconnect, Save, SaveFails, Prepared, Streamed, Inserts
  <2>3. Question(q)[1] = q /\ Answer(q)[1] = q
    BY DEF Question, Answer
  <2>4. QED
    BY <2>1, <2>2, <2>3 DEF Exists
<1>2. ASSUME NEW c \in Conversations, DeleteConversation(c) PROVE DeletedIsEmpty'
  BY <1>2 DEF DeleteConversation
<1>3. CASE UNCHANGED vars
  BY <1>3 DEF vars
<1>4. QED
  BY <1>1, <1>2, <1>3 DEF Next, Idle

\* No message survives its conversation.
THEOREM DeletedIsEmptyHolds == Spec => []DeletedIsEmpty
<1>1. Init => DeletedIsEmpty
  BY DEF Init, DeletedIsEmpty
<1>2. QED
  BY <1>1, TypeInit, TypeStep, DeletedStep, PTL DEF Spec

-----------------------------------------------------------------------------
(***************************************************************************)
(* The question in the prompt. Nothing writes a message twice, so what a   *)
(* prompt holds keeps its order; and a message that the newest ones        *)
(* displaced is older than HistoryLimit messages that were read.           *)
(***************************************************************************)
Answered == {"answered", "ended", "unsaved"}
Prompted == {"prompted", "streaming", "yielding", "closing", "cancelled"}
Newer(q, S) == {m \in S : stamp[m] > stamp[Question(q)]}

PromptsAreOld ==
    \A q \in Requests : \A m \in prompt[q] :
        \/ m[2] = "user" /\ stage[m[1]] \notin Before
        \/ m[2] = "assistant" /\ stage[m[1]] \in Answered

Reaches ==
    \A q \in Requests :
        /\ stage[q] = "asked" /\ Exists(q) => Question(q) \in log
        /\ stage[q] \in Prompted =>
              \/ Question(q) \in prompt[q]
              \/ Cardinality(Newer(q, prompt[q])) >= HistoryLimit
              \/ ~Exists(q)

PromptInv == PromptsAreOld /\ Reaches

\* A finite set of messages that is not empty has one with the latest stamp.
LEMMA LatestMessage ==
    ASSUME NEW S \in SUBSET Messages, S # {}, TypeOK, \A m \in S : stamp[m] < now
    PROVE  \E m \in S : \A n \in S : stamp[n] <= stamp[m]
<1> DEFINE Age(m) == now - stamp[m]
           Ages == {Age(m) : m \in S}
<1>1. \A m \in S : stamp[m] \in Nat /\ Age(m) \in Nat
  BY DEF TypeOK
<1>2. Ages \subseteq Nat /\ Ages # {}
  BY <1>1
<1>3. \E i \in Ages : \A j \in Ages : ~(<<j, i>> \in OpToRel(<, Nat))
  <2> HIDE DEF Ages
  <2> QED BY <1>2, NatLessThanWellFounded, WFMin, Zenon
<1>4. \A i, j \in Nat : <<j, i>> \notin OpToRel(<, Nat) => i <= j
  BY DEF OpToRel
<1>5. PICK i \in Ages : \A j \in Ages : i <= j
  BY <1>2, <1>3, <1>4
<1>6. PICK m \in S : i = Age(m)
  BY <1>5
<1>7. \A n \in S : Age(m) <= Age(n)
  BY <1>5, <1>6
<1>8. QED
  BY <1>1, <1>6, <1>7 DEF TypeOK

\* If the question is not among the messages read back, HistoryLimit newer
\* ones are.
LEMMA Displaced ==
    ASSUME TypeOK, Stamped, NEW q \in Requests, Question(q) \in log
    PROVE  \/ Question(q) \in Recent(ConversationOf[q])
           \/ Cardinality(Newer(q, Recent(ConversationOf[q]))) >= HistoryLimit
<1> DEFINE S == log \cap Of(ConversationOf[q])
           R == Recent(ConversationOf[q])
           After(m) == {n \in S : stamp[n] > stamp[m]}
<1> SUFFICES ASSUME Question(q) \notin R PROVE Cardinality(Newer(q, R)) >= HistoryLimit
  OBVIOUS
<1>1. S \subseteq Messages /\ R \subseteq S /\ Question(q) \in S /\ HistoryLimit \in Nat
      /\ \A m \in S : stamp[m] \in Nat /\ stamp[m] < now
  BY Distinct, ChatAssumption DEF TypeOK, Stamped, Recent, Of, Question
<1>2. IsFiniteSet(S)
  <2>1. IsFiniteSet({"user", "assistant"})
    <3>1. IsFiniteSet({"user"}) /\ IsFiniteSet({"assistant"})
      BY FS_Singleton
    <3>2. IsFiniteSet({"user"} \cup {"assistant"})
      BY <3>1, FS_Union
    <3>3. {"user"} \cup {"assistant"} = {"user", "assistant"}
      OBVIOUS
    <3>4. QED
      BY <3>2, <3>3
  <2>2. IsFiniteSet(Messages)
    BY <2>1, FS_Product, ChatAssumption DEF Messages
  <2>3. QED
    BY <1>1, <2>2, FS_Subset
<1>3. \A T \in SUBSET S : IsFiniteSet(T) /\ Cardinality(T) \in Nat
  BY <1>2, FS_Subset, FS_CardinalityType
<1>4. \A m \in S : m \notin R => Cardinality(After(m)) >= HistoryLimit
  <2>1. ASSUME NEW m \in S, m \notin R PROVE Cardinality(After(m)) >= HistoryLimit
    <3>1. ~(Cardinality(After(m)) < HistoryLimit)
      BY <2>1 DEF Recent
    <3>2. Cardinality(After(m)) \in Nat
      BY <1>3
    <3>3. QED
      BY <3>1, <3>2, <1>1
  <2>2. QED
    BY <2>1
<1> DEFINE B == After(Question(q)) \ R
<1>5. Newer(q, R) \in SUBSET S
  BY <1>1 DEF Newer
<1>6. \A m \in S : After(m) \subseteq Newer(q, R) /\ m \notin R
                      => Cardinality(Newer(q, R)) >= HistoryLimit
  <2>1. ASSUME NEW m \in S, After(m) \subseteq Newer(q, R), m \notin R
        PROVE  Cardinality(Newer(q, R)) >= HistoryLimit
    <3>1. Cardinality(After(m)) <= Cardinality(Newer(q, R))
      BY <2>1, <1>3, <1>5, FS_Subset
    <3>2. Cardinality(After(m)) \in Nat /\ Cardinality(Newer(q, R)) \in Nat
      BY <1>3, <1>5
    <3>3. QED
      BY <2>1, <3>1, <3>2, <1>1, <1>4
  <2>2. QED
    BY <2>1
<1>7. CASE B = {}
  <2>1. After(Question(q)) \subseteq Newer(q, R)
    BY <1>7 DEF Newer
  <2>2. QED
    BY <2>1, <1>1, <1>6
<1>8. CASE B # {}
  <2>1. B \in SUBSET Messages /\ \A m \in B : stamp[m] < now
    BY <1>1
  <2>2. PICK m \in B : \A n \in B : stamp[n] <= stamp[m]
    <3> HIDE DEF B
    <3> QED BY <2>1, <1>8, LatestMessage
  <2>3. m \in S /\ m \notin R /\ stamp[m] > stamp[Question(q)]
    BY <2>2
  <2>4. ASSUME NEW n \in After(m) PROVE n \in Newer(q, R)
    <3>1. n \in S /\ stamp[n] > stamp[m]
      BY <2>4
    <3>2. stamp[n] > stamp[Question(q)]
      BY <3>1, <2>3, <1>1
    <3>3. n \in R
      BY <3>1, <3>2, <2>2, <2>3, <1>1
    <3>4. QED
      BY <3>2, <3>3 DEF Newer
  <2>5. QED
    BY <2>3, <2>4, <1>6
<1>9. QED
  BY <1>7, <1>8

LEMMA PromptInit == Init => PromptInv
  BY DEF Init, PromptInv, PromptsAreOld, Reaches, Prompted

\* What is written stays written, with its stamp: no request goes back, and
\* each message is inserted once.
LEMMA WrittenStep ==
    ASSUME TypeOK, [Next]_vars, NEW p \in Requests
    PROVE  /\ stage[p] \notin Before =>
                stage'[p] \notin Before /\ stamp'[Question(p)] = stamp[Question(p)]
           /\ stage[p] \in Answered =>
                stage'[p] \in Answered /\ stamp'[Answer(p)] = stamp[Answer(p)]
<1> USE DEF TypeOK, Before, Answered
<1>1. ASSUME NEW q \in Requests,
             Open(q) \/ Refuse(q) \/ ReadHistory(q) \/ Retrieve(q) \/ SendFallback(q) \/ Abort(q)
             \/ Delta(q) \/ Deliver(q) \/ Finish(q) \/ Disconnect(q)
      PROVE  /\ stamp' = stamp
             /\ stage[p] \notin Before => stage'[p] \notin Before
             /\ stage[p] \in Answered => stage'[p] \in Answered
  BY <1>1 DEF Open, Refuse, ReadHistory, Retrieve, SendFallback, Abort, Delta, Deliver, Finish,
              Disconnect, Goes, Prepared, Streamed
<1>2. ASSUME NEW q \in Requests, SaveQuestion(q)
      PROVE  /\ stamp' = [stamp EXCEPT ![Question(q)] = begun[q]]
             /\ stage[q] = "opened" /\ stage' = [stage EXCEPT ![q] = "asked"]
  BY <1>2 DEF SaveQuestion, Goes, Inserts
<1>3. ASSUME NEW q \in Requests, SaveFallback(q) \/ Save(q) \/ SaveFails(q)
      PROVE  /\ stamp' = stamp \/ stamp' = [stamp EXCEPT ![Answer(q)] = begun[q]]
             /\ stage[q] \notin Before \cup Answered
             /\ stage' = [stage EXCEPT ![q] = stage'[q]] /\ stage'[q] \in Answered
  BY <1>3 DEF SaveFallback, Save, SaveFails, Goes, Inserts, Closing
<1>4. ASSUME NEW c \in Conversations, DeleteConversation(c) PROVE stage' = stage /\ stamp' = stamp
  BY <1>4 DEF DeleteConversation, Untouched
<1>5. CASE UNCHANGED vars
  BY <1>5 DEF vars
<1>6. ASSUME NEW q \in Requests, SaveQuestion(q)
      PROVE  /\ stage[p] \notin Before =>
                    stage'[p] \notin Before /\ stamp'[Question(p)] = stamp[Question(p)]
             /\ stage[p] \in Answered =>
                    stage'[p] \in Answered /\ stamp'[Answer(p)] = stamp[Answer(p)]
  BY <1>2, <1>6, Distinct
<1>7. ASSUME NEW q \in Requests, SaveFallback(q) \/ Save(q) \/ SaveFails(q)
      PROVE  /\ stage[p] \notin Before =>
                    stage'[p] \notin Before /\ stamp'[Question(p)] = stamp[Question(p)]
             /\ stage[p] \in Answered =>
                    stage'[p] \in Answered /\ stamp'[Answer(p)] = stamp[Answer(p)]
  BY <1>3, <1>7, Distinct
<1>8. QED
  BY <1>1, <1>4, <1>5, <1>6, <1>7 DEF Next, Serve, Idle

\* The prompt of a request is set once, by ReadHistory; every other step that
\* leads to a prompted stage comes from one.
LEMMA PromptKept ==
    ASSUME TypeOK, [Next]_vars, NEW q \in Requests, ~ReadHistory(q)
    PROVE  /\ prompt'[q] = prompt[q]
           /\ stage'[q] \in Prompted => stage[q] \in Prompted
           /\ Exists(q)' => Exists(q)
           /\ stage'[q] = "asked" /\ Exists(q)' =>
                 \/ stage[q] = "asked" /\ (Question(q) \in log => Question(q) \in log')
                 \/ Question(q) \in log'
<1> USE DEF TypeOK, Prompted, Exists
<1>1. ASSUME NEW p \in Requests, ReadHistory(p), p # q
      PROVE  /\ prompt'[q] = prompt[q] /\ stage'[q] = stage[q]
             /\ deleted' = deleted /\ log' = log
  BY <1>1 DEF ReadHistory, Goes
<1>2. ASSUME NEW p \in Requests,
             Open(p) \/ Refuse(p) \/ Retrieve(p) \/ SendFallback(p) \/ Abort(p)
             \/ Delta(p) \/ Deliver(p) \/ Finish(p) \/ Disconnect(p)
      PROVE  /\ prompt' = prompt /\ deleted' = deleted /\ log' = log
             /\ stage'[q] \in Prompted => stage[q] \in Prompted
             /\ stage'[q] = "asked" => stage[q] = "asked"
  BY <1>2 DEF Open, Refuse, Retrieve, SendFallback, Abort, Delta, Deliver, Finish, Disconnect, Goes,
              Prepared, Streamed
<1>3. ASSUME NEW p \in Requests, SaveQuestion(p)
      PROVE  /\ prompt' = prompt /\ deleted' = deleted /\ log' = log \cup {Question(p)}
             /\ stage' = [stage EXCEPT ![p] = "asked"]
  BY <1>3 DEF SaveQuestion, Goes, Inserts, Prepared
<1>4. ASSUME NEW p \in Requests, SaveFallback(p) \/ Save(p) \/ SaveFails(p)
      PROVE  /\ prompt' = prompt /\ deleted' = deleted /\ log \subseteq log'
             /\ stage'[q] \in Prompted \cup {"asked"} => stage'[q] = stage[q]
  BY <1>4 DEF SaveFallback, Save, SaveFails, Goes, Inserts, Closing
<1>5. ASSUME NEW c \in Conversations, DeleteConversation(c)
      PROVE  /\ prompt' = prompt /\ stage' = stage /\ deleted' = deleted \cup {c}
             /\ Exists(q)' /\ Question(q) \in log => Question(q) \in log'
  BY <1>5 DEF DeleteConversation, Untouched, Of, Question
<1>6. CASE UNCHANGED vars
  BY <1>6 DEF vars
<1>7. ASSUME NEW p \in Requests, SaveQuestion(p)
      PROVE  /\ prompt'[q] = prompt[q]
             /\ stage'[q] \in Prompted => stage[q] \in Prompted
             /\ Exists(q)' => Exists(q)
             /\ stage'[q] = "asked" =>
                   \/ stage[q] = "asked" /\ (Question(q) \in log => Question(q) \in log')
                   \/ Question(q) \in log'
  BY <1>3, <1>7
<1>8. QED
  BY <1>1, <1>2, <1>4, <1>5, <1>6, <1>7 DEF Next, Serve, Idle

\* Any step: the prompt that a step reads is the newest part of the log, and
\* the prompts that were read keep the order they had.
LEMMA PromptStep == TypeOK /\ Stamped /\ PromptInv /\ [Next]_vars => PromptInv'
<1> SUFFICES ASSUME TypeOK, Stamped, PromptInv, [Next]_vars PROVE PromptInv'
  OBVIOUS
<1>1. ASSUME NEW m \in Messages
      PROVE  \/ m[2] = "user" /\ m[1] \in Requests /\ m = Question(m[1])
             \/ m[2] = "assistant" /\ m[1] \in Requests /\ m = Answer(m[1])
  BY DEF Messages, Question, Answer
<1> DEFINE Old(m) == \/ m[2] = "user" /\ stage[m[1]] \notin Before
                     \/ m[2] = "assistant" /\ stage[m[1]] \in Answered
<1>2. ASSUME NEW m \in Messages, Old(m) PROVE Old(m)' /\ stamp'[m] = stamp[m]
  <2>1. CASE m[2] = "user" /\ m[1] \in Requests /\ m = Question(m[1])
    BY <2>1, <1>2, WrittenStep
  <2>2. CASE m[2] = "assistant" /\ m[1] \in Requests /\ m = Answer(m[1])
    BY <2>2, <1>2, WrittenStep
  <2>3. QED
    BY <1>1, <2>1, <2>2
<1>3. \A m \in log : m \in Messages /\ Old(m)
  BY <1>1 DEF TypeOK, Stamped, Answered
<1>4. ASSUME NEW q \in Requests, ReadHistory(q)
      PROVE  /\ \A m \in prompt'[q] : Old(m)'
             /\ stage'[q] = "prompted"
             /\ \/ Question(q) \in prompt'[q]
                \/ Cardinality(Newer(q, prompt[q])') >= HistoryLimit
                \/ ~Exists(q)'
  <2>1. /\ stage[q] = "asked" /\ stage' = [stage EXCEPT ![q] = "prompted"]
        /\ prompt' = [prompt EXCEPT ![q] = Recent(ConversationOf[q])]
        /\ deleted' = deleted /\ stamp' = stamp
    BY <1>4 DEF ReadHistory, Goes
  <2>2. prompt'[q] = Recent(ConversationOf[q]) /\ stage'[q] = "prompted"
    BY <2>1 DEF TypeOK
  <2>3. \A m \in prompt'[q] : Old(m)'
    BY <2>2, <1>2, <1>3 DEF Recent
  <2>4. Newer(q, prompt[q])' = Newer(q, Recent(ConversationOf[q]))
    BY <2>1, <2>2 DEF Newer
  <2>5. Exists(q)' => Question(q) \in log
    BY <2>1 DEF PromptInv, Reaches, Exists
  <2>6. QED
    BY <2>2, <2>3, <2>4, <2>5, Displaced
<1>5. ASSUME NEW q \in Requests, ~ReadHistory(q), stage[q] \in Prompted
      PROVE  Newer(q, prompt[q])' = Newer(q, prompt[q])
  <2>1. stage[q] \notin Before
    BY <1>5 DEF Prompted, Before
  <2>2. stamp'[Question(q)] = stamp[Question(q)]
    BY <2>1, WrittenStep
  <2>3. prompt'[q] = prompt[q] /\ prompt[q] \subseteq Messages
    BY <1>5, PromptKept DEF TypeOK
  <2>4. \A m \in prompt[q] : stamp'[m] = stamp[m]
    BY <1>2, <2>3 DEF PromptInv, PromptsAreOld
  <2>5. QED
    BY <2>2, <2>3, <2>4 DEF Newer
<1>6. ASSUME NEW q \in Requests, ~ReadHistory(q)
      PROVE  \A m \in prompt'[q] : Old(m)'
  <2>1. prompt'[q] = prompt[q] /\ prompt[q] \subseteq Messages
    BY <1>6, PromptKept DEF TypeOK
  <2>2. QED
    BY <2>1, <1>2 DEF PromptInv, PromptsAreOld
<1>7. ASSUME NEW q \in Requests, ~ReadHistory(q)
      PROVE  /\ stage'[q] = "asked" /\ Exists(q)' => Question(q) \in log'
             /\ stage'[q] \in Prompted =>
                   \/ Question(q) \in prompt'[q]
                   \/ Cardinality(Newer(q, prompt[q])') >= HistoryLimit
                   \/ ~Exists(q)'
  <2>1. stage'[q] = "asked" /\ Exists(q)' => Question(q) \in log'
    BY <1>7, PromptKept DEF PromptInv, Reaches
  <2>2. CASE stage'[q] \in Prompted
    <3>1. stage[q] \in Prompted /\ prompt'[q] = prompt[q] /\ (Exists(q)' => Exists(q))
      BY <1>7, <2>2, PromptKept
    <3>2. QED
      BY <1>5, <1>7, <2>1, <3>1 DEF PromptInv, Reaches
  <2>3. QED
    BY <2>1, <2>2
<1>8. PromptsAreOld'
  BY <1>4, <1>6 DEF PromptsAreOld
<1>9. Reaches'
  BY <1>4, <1>7 DEF Reaches
<1>10. QED
  BY <1>8, <1>9 DEF PromptInv

\* The question reaches the model, whatever other requests write into the
\* conversation between its commit and the reading of the history.
THEOREM QuestionReachesModelHolds == Spec => []QuestionReachesModel
<1>1. PromptInv => QuestionReachesModel
  BY DEF PromptInv, Reaches, Prompted, QuestionReachesModel, Newer
<1>2. QED
  BY <1>1, TypeInit, TypeStep, StampedInit, StampedStep, PromptInit, PromptStep, PTL DEF Spec
=============================================================================
