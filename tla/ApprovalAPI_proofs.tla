------------------------- MODULE ApprovalAPI_proofs -------------------------
(***************************************************************************)
(* Proofs about ApprovalAPI for any set of requests, keys, pairs and pods. *)
(***************************************************************************)
EXTENDS ApprovalAPI, TLAPS

(***************************************************************************)
(* The inductive invariant.  OutboxParity is not inductive by itself: it   *)
(* needs to know what an open transaction holds at each statement, and     *)
(* that a row is committed only by the request whose id it carries.        *)
(***************************************************************************)
\* What a transaction has inserted follows from the statement it is at.
WritesFollowStatement ==
    \A r \in Requests :
        /\ pc[r] # "unsent" => request[r] \in Request
        /\ pc[r] \in {"unsent", "insert", "byKey", "byPair", "done"} =>
               writes[r] = NoWrites
        /\ pc[r] \in {"event", "outbox"} =>
               writes[r] = [applications |-> {RowOf(r)}, outbox |-> {}]
        /\ pc[r] = "commit" =>
               writes[r] = [applications |-> {RowOf(r)}, outbox |-> {r}]

\* A committed row was committed by its own request, which has its answer.
RowsAreAnswered ==
    \A a \in applications :
        /\ pc[a.id] = "done"
        /\ answer[a.id].code \in {"approved", "unavailable"}

\* A request that still executes has no answer yet.
NoEarlyAnswer == \A r \in Requests : pc[r] # "done" => answer[r].code = "none"

IInv ==
    /\ TypeOK
    /\ WritesFollowStatement
    /\ RowsAreAnswered
    /\ NoEarlyAnswer
    /\ OutboxParity
    /\ OneApplicationPerKeyAndPair
    /\ ConflictIsReconciled
    /\ AnswersHold

(***************************************************************************)
(* Type correctness                                                        *)
(***************************************************************************)
\* The row a started request would insert is a row of the table.
LEMMA RowOfType ==
    ASSUME NEW r \in Requests, request[r] \in Request
    PROVE  RowOf(r) \in Row
  BY DEF RowOf, Row, Request

\* The initial state satisfies the inductive invariant.
LEMMA InitIInv == Init => IInv
  <1> SUFFICES ASSUME Init PROVE IInv OBVIOUS
  <1>1. TypeOK
    BY DEF Init, TypeOK, Statements, Answer, Codes, NoWrites, NoRequest
  <1>2. WritesFollowStatement
    BY DEF Init, WritesFollowStatement
  <1>3. RowsAreAnswered /\ NoEarlyAnswer /\ OutboxParity
    BY DEF Init, RowsAreAnswered, NoEarlyAnswer, OutboxParity
  <1>4. OneApplicationPerKeyAndPair
    BY DEF Init, OneApplicationPerKeyAndPair, Written, NoWrites
  <1>5. ConflictIsReconciled
    BY DEF Init, ConflictIsReconciled
  <1>6. AnswersHold
    BY DEF Init, AnswersHold, AnswerHolds
  <1> QED BY <1>1, <1>2, <1>3, <1>4, <1>5, <1>6 DEF IInv

\* Moving to a statement, and answering, keep the types of pc and answer.
LEMMA GotoType ==
    ASSUME TypeOK, NEW r \in Requests, NEW statement \in Statements,
           Goto(r, statement)
    PROVE  pc' \in [Requests -> Statements] /\ answer' \in [Requests -> Answer]
  BY DEF TypeOK, Goto

LEMMA ReplyType ==
    ASSUME TypeOK, NEW r \in Requests, NEW code \in Codes,
           NEW id \in Requests \cup {NoApplication}, Reply(r, code, id)
    PROVE  pc' \in [Requests -> Statements] /\ answer' \in [Requests -> Answer]
  <1>1. [code |-> code, id |-> id] \in Answer
    BY DEF Answer
  <1>2. "done" \in Statements
    BY DEF Statements
  <1> QED BY <1>1, <1>2 DEF TypeOK, Reply

\* Rolling a transaction back keeps the type of writes.
LEMMA RollBackType ==
    ASSUME TypeOK, NEW r \in Requests, RollBack(r)
    PROVE  writes' \in [Requests -> [applications : SUBSET Row,
                                     outbox : SUBSET Requests]]
  BY DEF TypeOK, RollBack, NoWrites

\* Every action keeps the types.
LEMMA TypeStep == TypeOK /\ WritesFollowStatement /\ [Next]_apiVars => TypeOK'
  <1> SUFFICES ASSUME TypeOK, WritesFollowStatement, [Next]_apiVars
               PROVE  TypeOK'
    OBVIOUS
  <1>a. \A a \in applications : a.id \in Requests
    BY DEF TypeOK, Row
  <1>b. NoApplication \in Requests \cup {NoApplication}
    OBVIOUS
  <1>c. /\ {"insert", "byKey", "byPair", "event", "outbox", "commit"} \subseteq Statements
        /\ {"approved", "duplicate", "conflict", "unavailable", "not_persisted"}
               \subseteq Codes
    BY DEF Statements, Codes
  <1>1. CASE UNCHANGED apiVars
    BY <1>1 DEF apiVars, TypeOK
  <1>2. ASSUME NEW r \in Requests, NEW pod \in Pods, NEW key \in Keys,
               NEW pair \in Pairs, Begin(r, pod, key, pair)
        PROVE  TypeOK'
    <2>1. pc' \in [Requests -> Statements] /\ answer' \in [Requests -> Answer]
      BY <1>2, <1>c, GotoType DEF Begin
    <2>2. [pod |-> pod, key |-> key, pair |-> pair] \in Request
      BY DEF Request
    <2> QED BY <1>2, <2>1, <2>2 DEF Begin, TypeOK
  <1>3. ASSUME NEW r \in Requests, InsertApplication(r) PROVE TypeOK'
    <2>1. request[r] \in Request
      BY <1>3 DEF InsertApplication, WritesFollowStatement
    <2>2. RowOf(r) \in Row
      BY <2>1, RowOfType
    <2>3. pc' \in [Requests -> Statements] /\ answer' \in [Requests -> Answer]
      BY <1>3, <1>c, GotoType DEF InsertApplication
    <2>4. [applications |-> {RowOf(r)}, outbox |-> {}]
              \in [applications : SUBSET Row, outbox : SUBSET Requests]
      BY <2>2
    <2> QED BY <1>3, <2>3, <2>4 DEF InsertApplication, TypeOK
  <1>4. ASSUME NEW r \in Requests, SelectByKey(r) PROVE TypeOK'
    <2>1. pc' \in [Requests -> Statements] /\ answer' \in [Requests -> Answer]
      BY <1>4, <1>a, <1>b, <1>c, GotoType, ReplyType DEF SelectByKey
    <2> QED BY <1>4, <2>1 DEF SelectByKey, TypeOK
  <1>5. ASSUME NEW r \in Requests, SelectByPair(r) PROVE TypeOK'
    <2>1. pc' \in [Requests -> Statements] /\ answer' \in [Requests -> Answer]
      BY <1>5, <1>a, <1>b, <1>c, ReplyType DEF SelectByPair
    <2> QED BY <1>5, <2>1 DEF SelectByPair, TypeOK
  <1>6. ASSUME NEW r \in Requests, BuildEvent(r) PROVE TypeOK'
    <2>1. pc' \in [Requests -> Statements] /\ answer' \in [Requests -> Answer]
      BY <1>6, <1>b, <1>c, GotoType, ReplyType DEF BuildEvent
    <2>2. writes' \in [Requests -> [applications : SUBSET Row,
                                    outbox : SUBSET Requests]]
      BY <1>6, RollBackType DEF BuildEvent, TypeOK
    <2> QED BY <1>6, <2>1, <2>2 DEF BuildEvent, TypeOK
  <1>7. ASSUME NEW r \in Requests, InsertOutbox(r) PROVE TypeOK'
    <2>1. pc' \in [Requests -> Statements] /\ answer' \in [Requests -> Answer]
      BY <1>7, <1>c, GotoType DEF InsertOutbox
    <2>2. [applications |-> writes[r].applications, outbox |-> {r}]
              \in [applications : SUBSET Row, outbox : SUBSET Requests]
      BY DEF TypeOK
    <2> QED BY <1>7, <2>1, <2>2 DEF InsertOutbox, TypeOK
  <1>8. ASSUME NEW r \in Requests, Commit(r) \/ CommitUnacknowledged(r)
        PROVE  TypeOK'
    <2>1. pc' \in [Requests -> Statements] /\ answer' \in [Requests -> Answer]
      BY <1>8, <1>b, <1>c, ReplyType DEF Commit, CommitUnacknowledged
    <2>2. /\ applications' \subseteq Row
          /\ outbox' \subseteq Requests
          /\ writes' \in [Requests -> [applications : SUBSET Row,
                                       outbox : SUBSET Requests]]
      BY <1>8 DEF Commit, CommitUnacknowledged, ApplyWrites, NoWrites, TypeOK
    <2> QED BY <1>8, <2>1, <2>2 DEF Commit, CommitUnacknowledged, TypeOK
  <1>9. ASSUME NEW r \in Requests, Fail(r) PROVE TypeOK'
    <2>1. pc' \in [Requests -> Statements] /\ answer' \in [Requests -> Answer]
      BY <1>9, <1>b, <1>c, ReplyType DEF Fail
    <2> QED BY <1>9, <2>1, RollBackType DEF Fail, TypeOK
  <1> QED
    BY <1>1, <1>2, <1>3, <1>4, <1>5, <1>6, <1>7, <1>8, <1>9 DEF Next, Step

(***************************************************************************)
(* The other parts, each from the whole invariant and the types of the     *)
(* next state                                                              *)
(***************************************************************************)
LEMMA WritesStep ==
    IInv /\ TypeOK' /\ [Next]_apiVars => WritesFollowStatement'
  <1> SUFFICES ASSUME IInv, TypeOK', [Next]_apiVars PROVE WritesFollowStatement'
    OBVIOUS
  <1> USE DEF IInv, WritesFollowStatement, RowOf, TypeOK, Goto, Reply
  <1>1. CASE UNCHANGED apiVars
    BY <1>1 DEF apiVars
  <1>2. ASSUME NEW r \in Requests, NEW pod \in Pods, NEW key \in Keys,
               NEW pair \in Pairs, Begin(r, pod, key, pair)
        PROVE  WritesFollowStatement'
    BY <1>2 DEF Begin, Request, NoRequest
  <1>3. ASSUME NEW r \in Requests, InsertApplication(r)
        PROVE  WritesFollowStatement'
    BY <1>3 DEF InsertApplication
  <1>4. ASSUME NEW r \in Requests, SelectByKey(r) \/ SelectByPair(r)
        PROVE  WritesFollowStatement'
    BY <1>4 DEF SelectByKey, SelectByPair
  <1>5. ASSUME NEW r \in Requests, BuildEvent(r) PROVE WritesFollowStatement'
    BY <1>5 DEF BuildEvent, RollBack
  <1>6. ASSUME NEW r \in Requests, InsertOutbox(r) PROVE WritesFollowStatement'
    <2>1. writes[r] = [applications |-> {RowOf(r)}, outbox |-> {}]
      BY <1>6 DEF InsertOutbox
    <2>2. writes' = [writes EXCEPT ![r] = [applications |-> {RowOf(r)}, outbox |-> {r}]]
      BY <1>6, <2>1 DEF InsertOutbox
    <2>3. pc' = [pc EXCEPT ![r] = "commit"] /\ request' = request
      BY <1>6 DEF InsertOutbox
    <2> QED BY <1>6, <2>2, <2>3 DEF InsertOutbox
  <1>7. ASSUME NEW r \in Requests, Commit(r) \/ CommitUnacknowledged(r)
        PROVE  WritesFollowStatement'
    BY <1>7 DEF Commit, CommitUnacknowledged, ApplyWrites
  <1>8. ASSUME NEW r \in Requests, Fail(r) PROVE WritesFollowStatement'
    BY <1>8 DEF Fail, RollBack, Active
  <1> QED
    BY <1>1, <1>2, <1>3, <1>4, <1>5, <1>6, <1>7, <1>8 DEF Next, Step

\* Only Commit(r) and CommitUnacknowledged(r) add a row, with the id r.
LEMMA RowsStep == IInv /\ TypeOK' /\ [Next]_apiVars => RowsAreAnswered' /\ OutboxParity'
  <1> SUFFICES ASSUME IInv, TypeOK', [Next]_apiVars
               PROVE  RowsAreAnswered' /\ OutboxParity'
    OBVIOUS
  <1> USE DEF IInv, RowsAreAnswered, OutboxParity, TypeOK
  <1>1. CASE UNCHANGED apiVars
    BY <1>1 DEF apiVars
  <1>2. ASSUME NEW r \in Requests, pc[r] # "done",
               UNCHANGED <<applications, outbox>>,
               \A q \in Requests \ {r} : pc'[q] = pc[q] /\ answer'[q] = answer[q]
        PROVE  RowsAreAnswered' /\ OutboxParity'
    BY <1>2 DEF Row
  <1>3. ASSUME NEW r \in Requests, NEW code \in {"approved", "unavailable"}, NEW id,
               pc[r] = "commit", ApplyWrites(r), Reply(r, code, id)
        PROVE  RowsAreAnswered' /\ OutboxParity'
    <2>1. /\ applications' = applications \cup {RowOf(r)}
          /\ outbox' = outbox \cup {r}
      BY <1>3 DEF ApplyWrites, WritesFollowStatement
    <2>2. RowOf(r).id = r
      BY DEF RowOf
    <2>3. pc'[r] = "done" /\ answer'[r].code = code
      BY <1>3 DEF Reply
    <2>4. \A q \in Requests \ {r} : pc'[q] = pc[q] /\ answer'[q] = answer[q]
      BY <1>3 DEF Reply
    <2>5. \A a \in applications : a.id \in Requests /\ a.id # r
      BY <1>3 DEF Row
    <2>6. RowsAreAnswered'
      BY <2>1, <2>2, <2>3, <2>4, <2>5
    <2>7. OutboxParity'
      BY <2>1, <2>2
    <2> QED BY <2>6, <2>7
  <1>4. ASSUME NEW r \in Requests, NEW pod \in Pods, NEW key \in Keys,
               NEW pair \in Pairs, Begin(r, pod, key, pair)
        PROVE  RowsAreAnswered' /\ OutboxParity'
    BY <1>4, <1>2 DEF Begin, Goto
  <1>5. ASSUME NEW r \in Requests, InsertApplication(r)
        PROVE  RowsAreAnswered' /\ OutboxParity'
    BY <1>5, <1>2 DEF InsertApplication, Goto
  <1>6. ASSUME NEW r \in Requests, SelectByKey(r)
        PROVE  RowsAreAnswered' /\ OutboxParity'
    <2>1. \A q \in Requests \ {r} : pc'[q] = pc[q] /\ answer'[q] = answer[q]
      BY <1>6 DEF SelectByKey, Goto, Reply
    <2> QED BY <1>6, <1>2, <2>1 DEF SelectByKey
  <1>7. ASSUME NEW r \in Requests, SelectByPair(r)
        PROVE  RowsAreAnswered' /\ OutboxParity'
    <2>1. \A q \in Requests \ {r} : pc'[q] = pc[q] /\ answer'[q] = answer[q]
      BY <1>7 DEF SelectByPair, Reply
    <2> QED BY <1>7, <1>2, <2>1 DEF SelectByPair
  <1>8. ASSUME NEW r \in Requests, BuildEvent(r)
        PROVE  RowsAreAnswered' /\ OutboxParity'
    BY <1>8, <1>2 DEF BuildEvent, Goto, Reply
  <1>9. ASSUME NEW r \in Requests, InsertOutbox(r)
        PROVE  RowsAreAnswered' /\ OutboxParity'
    BY <1>9, <1>2 DEF InsertOutbox, Goto
  <1>10. ASSUME NEW r \in Requests, Commit(r) \/ CommitUnacknowledged(r)
         PROVE  RowsAreAnswered' /\ OutboxParity'
    BY <1>10, <1>3 DEF Commit, CommitUnacknowledged
  <1>11. ASSUME NEW r \in Requests, Fail(r)
         PROVE  RowsAreAnswered' /\ OutboxParity'
    BY <1>11, <1>2 DEF Fail, Active, Reply
  <1> QED
    BY <1>1, <1>4, <1>5, <1>6, <1>7, <1>8, <1>9, <1>10, <1>11 DEF Next, Step

(***************************************************************************)
(* Uniqueness                                                              *)
(***************************************************************************)
\* A transaction holds no row but its own.
LEMMA HeldRow ==
    ASSUME IInv, NEW r \in Requests
    PROVE  writes[r].applications \in {{}, {RowOf(r)}}
  BY DEF IInv, WritesFollowStatement, TypeOK, Statements, NoWrites

\* The rows written so far only change where an action inserts or rolls back.
LEMMA UniqueStep ==
    IInv /\ TypeOK' /\ [Next]_apiVars => OneApplicationPerKeyAndPair'
  <1> SUFFICES ASSUME IInv, TypeOK', [Next]_apiVars
               PROVE  OneApplicationPerKeyAndPair'
    OBVIOUS
  <1>1. ASSUME Written' \subseteq Written PROVE OneApplicationPerKeyAndPair'
    BY <1>1 DEF IInv, OneApplicationPerKeyAndPair, Collide
  <1>2. ASSUME NEW r \in Requests, applications' = applications,
               \A q \in Requests : writes'[q].applications \subseteq writes[q].applications
        PROVE  OneApplicationPerKeyAndPair'
    <2>1. Written' \subseteq Written
      BY <1>2 DEF Written
    <2> QED BY <2>1, <1>1
  <1>3. CASE UNCHANGED apiVars
    <2>1. Written' = Written
      BY <1>3 DEF apiVars, Written
    <2> QED BY <2>1, <1>1
  <1>4. ASSUME NEW r \in Requests, NEW pod \in Pods, NEW key \in Keys,
               NEW pair \in Pairs, Begin(r, pod, key, pair)
        PROVE  OneApplicationPerKeyAndPair'
    BY <1>4, <1>2 DEF Begin
  <1>5. ASSUME NEW r \in Requests, InsertApplication(r)
        PROVE  OneApplicationPerKeyAndPair'
    <2>1. CASE UNCHANGED writes
      BY <1>5, <2>1, <1>2 DEF InsertApplication
    <2>2. CASE /\ Conflicting(r) = {}
               /\ ~MustWait(r)
               /\ writes' = [writes EXCEPT ![r] = [applications |-> {RowOf(r)}, outbox |-> {}]]
      <3>1. writes'[r].applications = {RowOf(r)} /\ applications' = applications
        BY <2>2, <1>5 DEF IInv, TypeOK, InsertApplication
      <3>2. \A q \in Requests \ {r} : writes'[q] = writes[q]
        BY <2>2 DEF IInv, TypeOK
      <3>3. writes[r].applications = {}
        <4>1. pc[r] = "insert"
          BY <1>5 DEF InsertApplication
        <4>2. writes[r] = NoWrites
          BY <4>1 DEF IInv, WritesFollowStatement
        <4> QED BY <4>2 DEF NoWrites
      <3>4. Written' \subseteq Written \cup {RowOf(r)}
        <4> SUFFICES ASSUME NEW a \in Written', a # RowOf(r) PROVE a \in Written
          OBVIOUS
        <4>1. CASE a \in applications'
          BY <4>1, <3>1 DEF Written
        <4>2. CASE a \notin applications'
          <5>1. PICK q \in Requests : a \in writes'[q].applications
            BY <4>2 DEF Written
          <5>2. q # r
            BY <5>1, <3>1
          <5> QED BY <5>1, <5>2, <3>2 DEF Written
        <4> QED BY <4>1, <4>2
      <3>5. \A a \in Written : ~Collide(a, RowOf(r))
        BY <2>2, <3>3 DEF Written, Conflicting, MustWait
      <3>6. \A a, b \in Written : Collide(a, b) => a = b
        BY DEF IInv, OneApplicationPerKeyAndPair
      <3>7. \A a, b : Collide(a, b) <=> Collide(b, a)
        BY DEF Collide
      <3>8. \A a, b \in Written \cup {RowOf(r)} : Collide(a, b) => a = b
        BY <3>5, <3>6, <3>7
      <3> QED BY <3>4, <3>8 DEF OneApplicationPerKeyAndPair, Collide
    <2> QED BY <1>5, <2>1, <2>2 DEF InsertApplication
  <1>6. ASSUME NEW r \in Requests, SelectByKey(r) \/ SelectByPair(r)
        PROVE  OneApplicationPerKeyAndPair'
    BY <1>6, <1>2 DEF SelectByKey, SelectByPair
  <1>7. ASSUME NEW r \in Requests, RollBack(r) \/ UNCHANGED writes,
               applications' = applications
        PROVE  OneApplicationPerKeyAndPair'
    BY <1>7, <1>2 DEF RollBack, NoWrites, IInv, TypeOK
  <1>8. ASSUME NEW r \in Requests, BuildEvent(r) PROVE OneApplicationPerKeyAndPair'
    BY <1>8, <1>7 DEF BuildEvent
  <1>9. ASSUME NEW r \in Requests, InsertOutbox(r)
        PROVE  OneApplicationPerKeyAndPair'
    <2>1. /\ applications' = applications
          /\ writes'[r].applications = writes[r].applications
          /\ \A q \in Requests \ {r} : writes'[q] = writes[q]
      BY <1>9 DEF InsertOutbox, IInv, TypeOK
    <2> QED BY <2>1, <1>2
  <1>10. ASSUME NEW r \in Requests, ApplyWrites(r)
         PROVE  OneApplicationPerKeyAndPair'
    <2>1. applications' = applications \cup writes[r].applications
      BY <1>10 DEF ApplyWrites
    <2>2. \A q \in Requests : writes'[q].applications \subseteq writes[q].applications
      BY <1>10 DEF ApplyWrites, NoWrites, IInv, TypeOK
    <2>3. Written' \subseteq Written
      BY <2>1, <2>2 DEF Written
    <2> QED BY <2>3, <1>1
  <1>11. ASSUME NEW r \in Requests, Fail(r) PROVE OneApplicationPerKeyAndPair'
    BY <1>11, <1>7 DEF Fail
  <1> QED
    BY <1>3, <1>4, <1>5, <1>6, <1>8, <1>9, <1>10, <1>11
    DEF Next, Step, Commit, CommitUnacknowledged

(***************************************************************************)
(* Reconciled conflicts and true answers                                   *)
(***************************************************************************)
\* Committed rows never go away.
LEMMA RowsStay == IInv /\ [Next]_apiVars => applications \subseteq applications' /\ outbox \subseteq outbox'
  BY DEF Next, Step, apiVars, Begin, InsertApplication, SelectByKey, SelectByPair,
         BuildEvent, InsertOutbox, Commit, CommitUnacknowledged, ApplyWrites, Fail

\* A request that was skipped by ON CONFLICT collides with a row that stays.
LEMMA ConflictStep ==
    IInv /\ TypeOK' /\ [Next]_apiVars => ConflictIsReconciled'
  <1> SUFFICES ASSUME IInv, TypeOK', [Next]_apiVars PROVE ConflictIsReconciled'
    OBVIOUS
  <1> DEFINE Skipped(r) ==
        /\ pc[r] = "byKey" => \E a \in applications :
               a.key = request[r].key \/ a.pair = request[r].pair
        /\ pc[r] = "byPair" => \E a \in applications : a.pair = request[r].pair
  <1>1. ConflictIsReconciled <=> \A r \in Requests : Skipped(r)
    BY DEF ConflictIsReconciled, Conflicting, Collide, RowOf
  <1>2. ConflictIsReconciled' <=> \A r \in Requests : Skipped(r)'
    BY DEF ConflictIsReconciled, Conflicting, Collide, RowOf
  <1>3. applications \subseteq applications'
    BY RowsStay
  <1>4. SUFFICES ASSUME NEW q \in Requests PROVE Skipped(q)'
    BY <1>2
  <1>5. Skipped(q)
    BY <1>1 DEF IInv
  <1>6. CASE pc'[q] = pc[q] /\ request'[q] = request[q]
    BY <1>3, <1>5, <1>6
  <1>7. CASE pc'[q] \notin {"byKey", "byPair"}
    BY <1>7
  <1>8. CASE InsertApplication(q)
    BY <1>8 DEF InsertApplication, Conflicting, Collide, RowOf, Goto, IInv, TypeOK
  <1>9. CASE SelectByKey(q)
    BY <1>9, <1>5 DEF SelectByKey, Goto, Reply, IInv, TypeOK
  <1>10. CASE SelectByPair(q)
    BY <1>10, <1>7 DEF SelectByPair, Reply, IInv, TypeOK
  <1>11. ASSUME NEW r \in Requests,
                \/ \E pod \in Pods, key \in Keys, pair \in Pairs : Begin(r, pod, key, pair)
                \/ BuildEvent(r) \/ InsertOutbox(r)
                \/ Commit(r) \/ CommitUnacknowledged(r) \/ Fail(r)
         PROVE  Skipped(q)'
    <2>1. CASE q = r
      BY <1>11, <1>7, <2>1
      DEF Begin, BuildEvent, InsertOutbox, Commit, CommitUnacknowledged, Fail,
          Goto, Reply, IInv, TypeOK
    <2>2. CASE q # r
      BY <1>11, <1>6, <2>2
      DEF Begin, BuildEvent, InsertOutbox, Commit, CommitUnacknowledged, Fail,
          Goto, Reply, IInv, TypeOK
    <2> QED BY <2>1, <2>2
  <1>12. ASSUME NEW r \in Requests \ {q},
                InsertApplication(r) \/ SelectByKey(r) \/ SelectByPair(r)
         PROVE  Skipped(q)'
    BY <1>12, <1>6 DEF InsertApplication, SelectByKey, SelectByPair, Goto, Reply, IInv, TypeOK
  <1> QED
    BY <1>6, <1>8, <1>9, <1>10, <1>11, <1>12 DEF Next, Step, apiVars

\* An answer is given by the step that ends the request.
LEMMA NoEarlyAnswerStep == IInv /\ TypeOK' /\ [Next]_apiVars => NoEarlyAnswer'
  <1> SUFFICES ASSUME IInv, TypeOK', [Next]_apiVars PROVE NoEarlyAnswer'
    OBVIOUS
  <1> USE DEF IInv, NoEarlyAnswer, TypeOK
  <1>1. CASE UNCHANGED apiVars
    BY <1>1 DEF apiVars
  <1>2. ASSUME NEW r \in Requests, NEW statement, pc[r] # "done", Goto(r, statement)
        PROVE  NoEarlyAnswer'
    BY <1>2 DEF Goto
  <1>3. ASSUME NEW r \in Requests, NEW code, NEW id, Reply(r, code, id)
        PROVE  NoEarlyAnswer'
    BY <1>3 DEF Reply
  <1>4. ASSUME NEW r \in Requests, NEW pod \in Pods, NEW key \in Keys,
               NEW pair \in Pairs, Begin(r, pod, key, pair)
        PROVE  NoEarlyAnswer'
    BY <1>4, <1>2 DEF Begin
  <1>5. ASSUME NEW r \in Requests, Step(r) PROVE NoEarlyAnswer'
    BY <1>5, <1>2, <1>3
    DEF Step, InsertApplication, SelectByKey, SelectByPair, BuildEvent, InsertOutbox, Commit
  <1>6. ASSUME NEW r \in Requests, CommitUnacknowledged(r) \/ Fail(r)
        PROVE  NoEarlyAnswer'
    BY <1>6, <1>3 DEF CommitUnacknowledged, Fail
  <1> QED BY <1>1, <1>4, <1>5, <1>6 DEF Next

\* A row written by a step carries the number of a request that executes.
LEMMA NewRowsAreUnanswered ==
    ASSUME IInv, TypeOK', [Next]_apiVars, NEW a \in Written', a \notin Written
    PROVE  \E r \in Requests : a.id = r /\ answer[r].code = "none"
  <1>1. CASE UNCHANGED apiVars
    BY <1>1 DEF apiVars, Written
  <1>2. PICK r \in Requests :
            \/ \E pod \in Pods, key \in Keys, pair \in Pairs : Begin(r, pod, key, pair)
            \/ Step(r) \/ CommitUnacknowledged(r) \/ Fail(r)
    BY <1>1 DEF Next, Written, apiVars
  <1>3. CASE InsertApplication(r)
    <2>1. CASE a \in applications'
      BY <2>1, <1>3 DEF InsertApplication, Written
    <2>2. CASE a \notin applications'
      <3>1. PICK q \in Requests : a \in writes'[q].applications
        BY <2>2 DEF Written
      <3>2. a \notin writes[q].applications
        BY DEF Written
      <3>3. q = r /\ writes'[r].applications = {RowOf(r)}
        BY <3>1, <3>2, <1>3 DEF InsertApplication, IInv, TypeOK
      <3>4. a.id = r
        BY <3>1, <3>3 DEF RowOf
      <3>5. answer[r].code = "none"
        BY <1>3 DEF InsertApplication, IInv, NoEarlyAnswer
      <3> QED BY <3>4, <3>5
    <2> QED BY <2>1, <2>2
  <1>4. CASE /\ applications' \subseteq applications \cup writes[r].applications
             /\ \A q \in Requests : writes'[q].applications \subseteq writes[q].applications
    BY <1>4 DEF Written
  <1>5. CASE UNCHANGED <<applications, writes>>
    BY <1>5 DEF Written
  <1>6. CASE BuildEvent(r) \/ Fail(r)
    BY <1>6, <1>4, <1>5 DEF BuildEvent, Fail, RollBack, NoWrites, IInv, TypeOK
  <1>7. CASE InsertOutbox(r)
    BY <1>7, <1>4 DEF InsertOutbox, IInv, TypeOK
  <1>8. CASE Commit(r) \/ CommitUnacknowledged(r)
    BY <1>8, <1>4 DEF Commit, CommitUnacknowledged, ApplyWrites, NoWrites, IInv, TypeOK
  <1> QED
    BY <1>2, <1>3, <1>5, <1>6, <1>7, <1>8
    DEF Step, Begin, SelectByKey, SelectByPair

\* What an answer says of a request stays true when other requests step.
LEMMA AnswerStays ==
    ASSUME IInv, TypeOK', [Next]_apiVars, NEW q \in Requests,
           answer'[q] = answer[q], request'[q] = request[q] \/ pc[q] = "unsent"
    PROVE  AnswerHolds(q)'
  <1>1. applications \subseteq applications' /\ outbox \subseteq outbox'
    BY RowsStay
  <1>2. AnswerHolds(q)
    BY DEF IInv, AnswersHold
  <1>3. CASE answer[q].code = "none"
    BY <1>3 DEF AnswerHolds
  <1>4. request'[q] = request[q] \/ answer[q].code = "none"
    BY DEF IInv, NoEarlyAnswer
  <1>5. CASE answer[q].code \in {"approved", "duplicate"}
    BY <1>1, <1>2, <1>4, <1>5 DEF AnswerHolds
  <1>6. CASE answer[q].code = "conflict"
    BY <1>1, <1>2, <1>4, <1>6 DEF AnswerHolds
  <1>7. CASE answer[q].code = "not_persisted"
    <2>1. \A a \in Written : a.id # q
      BY <1>2, <1>7 DEF AnswerHolds
    <2>2. \A a \in Written' : a.id # q
      BY <2>1, <1>7, NewRowsAreUnanswered
    <2> QED BY <2>2, <1>7 DEF AnswerHolds
  <1>8. CASE answer[q].code = "unavailable"
    BY <1>8 DEF AnswerHolds
  <1> QED BY <1>3, <1>5, <1>6, <1>7, <1>8 DEF IInv, TypeOK, Answer, Codes

\* The answer the acting request gives is true when it is given.
LEMMA AnswerIsTrue ==
    ASSUME IInv, TypeOK', NEW r \in Requests, Step(r) \/ CommitUnacknowledged(r) \/ Fail(r),
           answer'[r] # answer[r]
    PROVE  AnswerHolds(r)'
  <1> USE DEF IInv, TypeOK
  <1>1. CASE answer'[r].code = "unavailable"
    BY <1>1 DEF AnswerHolds
  <1>2. CASE SelectByKey(r)
    <2>1. UNCHANGED <<applications, outbox, request>>
      BY <1>2 DEF SelectByKey
    <2>2. PICK a \in applications : /\ a.key = request[r].key
                                    /\ \/ /\ a.pair = request[r].pair
                                          /\ Reply(r, "duplicate", a.id)
                                       \/ /\ a.pair # request[r].pair
                                          /\ Reply(r, "conflict", NoApplication)
      BY <1>2 DEF SelectByKey, Goto
    <2>3. a.id \in outbox
      BY DEF OutboxParity
    <2> QED BY <2>1, <2>2, <2>3 DEF AnswerHolds, Reply
  <1>3. CASE SelectByPair(r)
    <2>1. UNCHANGED <<applications, outbox, request>>
      BY <1>3 DEF SelectByPair
    <2>2. PICK a \in applications : /\ a.pair = request[r].pair
                                    /\ Reply(r, "duplicate", a.id)
      BY <1>3 DEF SelectByPair, ConflictIsReconciled
    <2>3. a.id \in outbox
      BY DEF OutboxParity
    <2> QED BY <2>1, <2>2, <2>3 DEF AnswerHolds, Reply
  <1>4. CASE BuildEvent(r)
    <2>1. /\ UNCHANGED <<applications, request>>
          /\ RollBack(r)
          /\ Reply(r, "not_persisted", NoApplication)
          /\ pc[r] = "event"
      BY <1>4 DEF BuildEvent, Goto
    <2>2. \A a \in applications : a.id # r
      BY <2>1 DEF RowsAreAnswered
    <2>3. \A q \in Requests \ {r} : \A a \in writes[q].applications : a.id # r
      BY HeldRow DEF RowOf
    <2>4. writes'[r].applications = {} /\ \A q \in Requests \ {r} : writes'[q] = writes[q]
      BY <2>1 DEF RollBack, NoWrites
    <2>5. \A a \in Written' : a.id # r
      BY <2>1, <2>2, <2>3, <2>4 DEF Written
    <2> QED BY <2>1, <2>5 DEF AnswerHolds, Reply
  <1>5. CASE Commit(r)
    <2>1. writes[r] = [applications |-> {RowOf(r)}, outbox |-> {r}]
      BY <1>5 DEF Commit, WritesFollowStatement
    <2>2. RowOf(r) \in applications' /\ r \in outbox' /\ request' = request
      BY <1>5, <2>1 DEF Commit, ApplyWrites
    <2>3. RowOf(r).id = r /\ RowOf(r).pair = request'[r].pair
      BY <2>2 DEF RowOf
    <2>4. answer'[r] = [code |-> "approved", id |-> r]
      BY <1>5 DEF Commit, Reply
    <2> QED BY <2>2, <2>3, <2>4 DEF AnswerHolds
  <1>6. CASE CommitUnacknowledged(r) \/ Fail(r)
    BY <1>6, <1>1 DEF CommitUnacknowledged, Fail, Reply
  <1>7. CASE InsertApplication(r) \/ InsertOutbox(r)
    BY <1>7 DEF InsertApplication, InsertOutbox, Goto
  <1> QED BY <1>2, <1>3, <1>4, <1>5, <1>6, <1>7 DEF Step

\* A step changes the answer and the request of the acting request only.
LEMMA AnswersStep == IInv /\ TypeOK' /\ [Next]_apiVars => AnswersHold'
  <1> SUFFICES ASSUME IInv, TypeOK', [Next]_apiVars, NEW q \in Requests
               PROVE  AnswerHolds(q)'
    BY DEF AnswersHold
  <1>1. CASE UNCHANGED apiVars
    BY <1>1, AnswerStays DEF apiVars
  <1>2. ASSUME NEW r \in Requests, NEW pod \in Pods, NEW key \in Keys,
               NEW pair \in Pairs, Begin(r, pod, key, pair)
        PROVE  AnswerHolds(q)'
    BY <1>2, AnswerStays DEF Begin, Goto, IInv, TypeOK
  <1>3. ASSUME NEW r \in Requests, Step(r) \/ CommitUnacknowledged(r) \/ Fail(r)
        PROVE  AnswerHolds(q)'
    <2>1. request' = request
      BY <1>3 DEF Step, InsertApplication, SelectByKey, SelectByPair, BuildEvent,
                  InsertOutbox, Commit, CommitUnacknowledged, Fail
    <2>2. CASE answer'[q] = answer[q]
      BY <2>1, <2>2, AnswerStays
    <2>3. CASE answer'[q] # answer[q]
      <3>1. q = r
        BY <1>3, <2>3
        DEF Step, InsertApplication, SelectByKey, SelectByPair, BuildEvent,
            InsertOutbox, Commit, CommitUnacknowledged, Fail, Goto, Reply, IInv, TypeOK
      <3> QED BY <3>1, <1>3, <2>3, AnswerIsTrue
    <2> QED BY <2>2, <2>3
  <1> QED BY <1>1, <1>2, <1>3 DEF Next

(***************************************************************************)
(* The theorems                                                            *)
(***************************************************************************)
\* The invariant holds in every reachable state.
THEOREM Invariance == Spec => []IInv
  <1>1. Init => IInv
    BY InitIInv
  <1>2. IInv /\ [Next]_apiVars => IInv'
    BY TypeStep, WritesStep, RowsStep, NoEarlyAnswerStep, UniqueStep,
       ConflictStep, AnswersStep DEF IInv
  <1> QED BY <1>1, <1>2, PTL DEF Spec

\* The tables, the transactions and the answers keep their types.
THEOREM TypeCorrectness == Spec => []TypeOK
  <1>1. IInv => TypeOK
    BY DEF IInv
  <1> QED BY <1>1, Invariance, PTL

\* However many requests, pods and drills there are, every committed state has
\* one event per approved application: the parity gap is always zero.
THEOREM ParityAlwaysHolds == Spec => []OutboxParity
  <1>1. IInv => OutboxParity
    BY DEF IInv
  <1> QED BY <1>1, Invariance, PTL

\* No interleaving of requests approves two applications for one key or for
\* one (user, campaign).
THEOREM UniquenessAlwaysHolds == Spec => []OneApplicationPerKeyAndPair
  <1>1. IInv => OneApplicationPerKeyAndPair
    BY DEF IInv
  <1> QED BY <1>1, Invariance, PTL

\* The two lookups after a skipped INSERT always find a row.
THEOREM ConflictsAreReconciled == Spec => []ConflictIsReconciled
  <1>1. IInv => ConflictIsReconciled
    BY DEF IInv
  <1> QED BY <1>1, Invariance, PTL

\* Every answer a client gets is true, and stays true.
THEOREM AnswersAreTrue == Spec => []AnswersHold
  <1>1. IInv => AnswersHold
    BY DEF IInv
  <1> QED BY <1>1, Invariance, PTL

(***************************************************************************)
(* What a commit makes visible.                                            *)
(***************************************************************************)
\* A row is what its request asked for, so no two rows share an id.
RowsNameTheirRequest == \A a \in applications : a = RowOf(a.id)

\* A step changes neither table, or it adds the row and the event of one request
\* whose application collides with none that is there.
LEMMA CommitsAreWhole ==
    ASSUME IInv, TypeOK', [Next]_apiVars
    PROVE  \/ UNCHANGED <<applications, outbox>>
           \/ \E r \in Requests :
                  /\ pc[r] = "commit" /\ request' = request
                  /\ RowOf(r) \in Row /\ r \notin outbox
                  /\ applications' = applications \cup {RowOf(r)} /\ outbox' = outbox \cup {r}
                  /\ RowOf(r) \notin applications
                  /\ \A a \in applications : ~Collide(a, RowOf(r))
  <1>1. CASE UNCHANGED apiVars
    BY <1>1 DEF apiVars
  <1>2. ASSUME NEW r \in Requests, ~(Commit(r) \/ CommitUnacknowledged(r)),
               \/ \E pod \in Pods, key \in Keys, pair \in Pairs : Begin(r, pod, key, pair)
               \/ Step(r)
               \/ Fail(r)
        PROVE  UNCHANGED <<applications, outbox>>
    BY <1>2 DEF Step, Begin, InsertApplication, SelectByKey, SelectByPair, BuildEvent,
                InsertOutbox, Fail
  <1>3. ASSUME NEW r \in Requests, Commit(r) \/ CommitUnacknowledged(r)
        PROVE  /\ pc[r] = "commit" /\ request' = request
               /\ RowOf(r) \in Row /\ r \notin outbox
               /\ applications' = applications \cup {RowOf(r)} /\ outbox' = outbox \cup {r}
               /\ RowOf(r) \notin applications
               /\ \A a \in applications : ~Collide(a, RowOf(r))
    <2>1. pc[r] = "commit" /\ request' = request /\ ApplyWrites(r)
      BY <1>3 DEF Commit, CommitUnacknowledged
    <2>2. writes[r] = [applications |-> {RowOf(r)}, outbox |-> {r}] /\ RowOf(r) \in Row
      BY <2>1, RowOfType DEF IInv, WritesFollowStatement
    <2>3. r \notin outbox /\ RowOf(r) \notin applications
      BY <2>1 DEF IInv, OutboxParity, RowsAreAnswered, RowOf
    <2>4. \A a \in applications : a \in Written /\ RowOf(r) \in Written
      BY <2>2 DEF Written
    <2>5. \A a \in applications : ~Collide(a, RowOf(r))
      BY <2>3, <2>4 DEF IInv, OneApplicationPerKeyAndPair
    <2> QED
      BY <2>1, <2>2, <2>3, <2>5 DEF ApplyWrites
  <1> QED
    BY <1>1, <1>2, <1>3 DEF Next, Step

\* Every approved application is the one its request asked for, whatever
\* statements of other requests ran between its INSERT and its COMMIT.
THEOREM RowsAreAsRequested == Spec => []RowsNameTheirRequest
  <1>1. Init => RowsNameTheirRequest
    BY DEF Init, RowsNameTheirRequest
  <1>2. IInv /\ RowsNameTheirRequest /\ IInv' /\ [Next]_apiVars => RowsNameTheirRequest'
    <2> SUFFICES ASSUME IInv, RowsNameTheirRequest, IInv', [Next]_apiVars,
                        NEW a \in applications'
                 PROVE  a = RowOf(a.id)'
      BY DEF RowsNameTheirRequest
    <2>1. CASE a \in applications
      <3>1. pc[a.id] = "done" /\ a.id \in Requests /\ a = RowOf(a.id)
        BY <2>1 DEF IInv, RowsAreAnswered, TypeOK, Row, RowsNameTheirRequest
      <3>2. request'[a.id] = request[a.id]
        BY <3>1 DEF Next, Step, apiVars, Begin, InsertApplication, SelectByKey, SelectByPair,
                    BuildEvent, InsertOutbox, Commit, CommitUnacknowledged, Fail, IInv, TypeOK
      <3> QED
        BY <3>1, <3>2 DEF RowOf
    <2>2. CASE a \notin applications
      <3>1. PICK r \in Requests : a = RowOf(r) /\ request' = request
        BY <2>2, CommitsAreWhole DEF IInv
      <3> QED
        BY <3>1 DEF RowOf
    <2> QED
      BY <2>1, <2>2
  <1> QED
    BY <1>1, <1>2, Invariance, PTL DEF Spec
=============================================================================
