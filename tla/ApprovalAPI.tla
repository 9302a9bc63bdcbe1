---------------------------- MODULE ApprovalAPI ----------------------------
(***************************************************************************)
(* POST /api/apply (app/app.py) over the two PostgreSQL tables it writes,  *)
(* d2c_applications and d2c_outbox_events (app/schema.py).                 *)
(*                                                                         *)
(* Every request is one READ COMMITTED transaction run by a gunicorn       *)
(* thread of some pod; its statements interleave with those of the other   *)
(* requests.  Rows a transaction has written stay in "writes" until COMMIT *)
(* moves them into the tables, so an answer, a crash or a conflicting      *)
(* INSERT can fall between any two statements.                             *)
(*                                                                         *)
(* Requests are numbered in the order their transactions start, which is   *)
(* the order of the rows' created_at (CURRENT_TIMESTAMP of the             *)
(* transaction).  The serial id of an application row is identified with   *)
(* the request that inserted it: a request inserts at most one row.        *)
(***************************************************************************)
EXTENDS Integers, FiniteSets

CONSTANTS Requests,   \* POST /api/apply requests that pass validation
          Keys,       \* Idempotency-Key values
          Pairs,      \* (user_id, campaign_id) of an application
          Pods,       \* API pods of the stable and the canary ReplicaSet
          DrillPods   \* pods started with the validation failure drill

ASSUME ApiAssumption ==
    /\ Requests \subseteq Nat \ {0}
    /\ DrillPods \subseteq Pods

NoApplication == 0    \* an answer that names no application

VARIABLES applications, \* committed rows of d2c_applications
          outbox,       \* aggregate ids of the committed d2c_outbox_events rows
          request,      \* what each request asks for, and the pod serving it
          pc,           \* the statement each request executes next
          writes,       \* rows each open transaction has inserted
          answer        \* the HTTP answer the client gets

apiVars == <<applications, outbox, request, pc, writes, answer>>

(***************************************************************************)
(* Types                                                                   *)
(***************************************************************************)
Row == [id : Requests, key : Keys, pair : Pairs]

NoRequest == [pod |-> "none"]
Request == [pod : Pods, key : Keys, pair : Pairs]

Statements == {"unsent", "insert", "byKey", "byPair", "event", "outbox",
               "commit", "done"}

\* 201, 200, 409, 503 of a failed statement or commit, 503 of the drill.
Codes == {"none", "approved", "duplicate", "conflict", "unavailable",
          "not_persisted"}
Answer == [code : Codes, id : Requests \cup {NoApplication}]

NoWrites == [applications |-> {}, outbox |-> {}]

TypeOK ==
    /\ applications \subseteq Row
    /\ outbox \subseteq Requests
    /\ request \in [Requests -> Request \cup {NoRequest}]
    /\ pc \in [Requests -> Statements]
    /\ writes \in [Requests -> [applications : SUBSET Row,
                                outbox : SUBSET Requests]]
    /\ answer \in [Requests -> Answer]

(***************************************************************************)
(* Helpers                                                                 *)
(***************************************************************************)
RowOf(r) == [id |-> r, key |-> request[r].key, pair |-> request[r].pair]

\* UNIQUE (idempotency_key) and UNIQUE (user_id, campaign_id).
Collide(a, b) == a.key = b.key \/ a.pair = b.pair

\* An INSERT waits while another open transaction holds a colliding row.
MustWait(r) ==
    \E q \in Requests \ {r} :
        \E a \in writes[q].applications : Collide(a, RowOf(r))

Conflicting(r) == {a \in applications : Collide(a, RowOf(r))}

Active(r) == pc[r] \notin {"unsent", "done"}

Reply(r, code, id) ==
    /\ pc' = [pc EXCEPT ![r] = "done"]
    /\ answer' = [answer EXCEPT ![r] = [code |-> code, id |-> id]]

Goto(r, statement) ==
    /\ pc' = [pc EXCEPT ![r] = statement]
    /\ UNCHANGED answer

RollBack(r) == writes' = [writes EXCEPT ![r] = NoWrites]

(***************************************************************************)
(* Initial state: the migrated, empty schema.                              *)
(***************************************************************************)
Init ==
    /\ applications = {}
    /\ outbox = {}
    /\ request = [r \in Requests |-> NoRequest]
    /\ pc = [r \in Requests |-> "unsent"]
    /\ writes = [r \in Requests |-> NoWrites]
    /\ answer = [r \in Requests |-> [code |-> "none", id |-> NoApplication]]

(***************************************************************************)
(* The handler, one action per statement                                   *)
(***************************************************************************)
\* A validated request gets a connection; its first statement opens the
\* transaction.  The guard on lower numbers only says how requests are named.
Begin(r, pod, key, pair) ==
    /\ pc[r] = "unsent"
    /\ \A q \in Requests : q < r => pc[q] # "unsent"
    /\ request' = [request EXCEPT ![r] = [pod |-> pod, key |-> key, pair |-> pair]]
    /\ Goto(r, "insert")
    /\ UNCHANGED <<applications, outbox, writes>>

\* A unique check that takes rows of open transactions for committed ones.
InsertConflictsWithOpen(r) ==
    /\ pc[r] = "insert"
    /\ \/ /\ Conflicting(r) # {} \/ MustWait(r)
          /\ Goto(r, "byKey")
          /\ UNCHANGED writes
       \/ /\ Conflicting(r) = {}
          /\ ~MustWait(r)
          /\ writes' = [writes EXCEPT ![r] = [applications |-> {RowOf(r)}, outbox |-> {}]]
          /\ Goto(r, "event")
    /\ UNCHANGED <<applications, outbox, request>>

\* A unique check that looks at committed rows only and never waits.
InsertWithoutWaiting(r) ==
    /\ pc[r] = "insert"
    /\ \/ /\ Conflicting(r) # {}
          /\ Goto(r, "byKey")
          /\ UNCHANGED writes
       \/ /\ Conflicting(r) = {}
          /\ writes' = [writes EXCEPT ![r] = [applications |-> {RowOf(r)}, outbox |-> {}]]
          /\ Goto(r, "event")
    /\ UNCHANGED <<applications, outbox, request>>

\* INSERT INTO d2c_applications ... ON CONFLICT DO NOTHING RETURNING.
InsertApplication(r) ==
    /\ pc[r] = "insert"
    /\ \/ /\ Conflicting(r) # {}
          /\ Goto(r, "byKey")
          /\ UNCHANGED writes
       \/ /\ Conflicting(r) = {}
          /\ ~MustWait(r)
          /\ writes' = [writes EXCEPT ![r] = [applications |-> {RowOf(r)}, outbox |-> {}]]
          /\ Goto(r, "event")
    /\ UNCHANGED <<applications, outbox, request>>

\* The lookup by key that never compares the application it finds.
SelectByKeyUnchecked(r) ==
    /\ pc[r] = "byKey"
    /\ LET found == {a \in applications : a.key = request[r].key}
       IN  \/ \E a \in found : Reply(r, "duplicate", a.id)
           \/ found = {} /\ Goto(r, "byPair")
    /\ UNCHANGED <<applications, outbox, request, writes>>

\* SELECT by idempotency key: same application, another one, or none.
SelectByKey(r) ==
    /\ pc[r] = "byKey"
    /\ LET found == {a \in applications : a.key = request[r].key}
       IN  \/ \E a \in found :
                 \/ a.pair = request[r].pair /\ Reply(r, "duplicate", a.id)
                 \/ a.pair # request[r].pair /\ Reply(r, "conflict", NoApplication)
           \/ found = {} /\ Goto(r, "byPair")
    /\ UNCHANGED <<applications, outbox, request, writes>>

\* SELECT by (user, campaign); finding nothing raises OperationalError.
SelectByPair(r) ==
    /\ pc[r] = "byPair"
    /\ LET found == {a \in applications : a.pair = request[r].pair}
       IN  IF found = {} THEN Reply(r, "unavailable", NoApplication)
           ELSE \E a \in found : Reply(r, "duplicate", a.id)
    /\ UNCHANGED <<applications, outbox, request, writes>>

\* A drill that ends the request through the commit at the end of the handler.
BuildEventDrillCommits(r) ==
    /\ pc[r] = "event"
    /\ Goto(r, IF request[r].pod \in DrillPods THEN "commit" ELSE "outbox")
    /\ UNCHANGED <<applications, outbox, request, writes>>

\* Build the event; a drill pod raises OutboxTransactionFailure here and the
\* handler rolls the application row back.
BuildEvent(r) ==
    /\ pc[r] = "event"
    /\ \/ /\ request[r].pod \in DrillPods
          /\ RollBack(r)
          /\ Reply(r, "not_persisted", NoApplication)
       \/ /\ request[r].pod \notin DrillPods
          /\ Goto(r, "outbox")
          /\ UNCHANGED writes
    /\ UNCHANGED <<applications, outbox, request>>

\* An outbox row written on a second, autocommitting connection.
InsertOutboxAutocommit(r) ==
    /\ pc[r] = "outbox"
    /\ outbox' = outbox \cup {r}
    /\ Goto(r, "commit")
    /\ UNCHANGED <<applications, request, writes>>

\* INSERT INTO d2c_outbox_events in the same transaction.
InsertOutbox(r) ==
    /\ pc[r] = "outbox"
    /\ writes' = [writes EXCEPT ![r] = [applications |-> writes[r].applications,
                                        outbox |-> {r}]]
    /\ Goto(r, "commit")
    /\ UNCHANGED <<applications, outbox, request>>

\* What COMMIT does in the database.
ApplyWrites(r) ==
    /\ applications' = applications \cup writes[r].applications
    /\ outbox' = outbox \cup writes[r].outbox
    /\ writes' = [writes EXCEPT ![r] = NoWrites]

\* The commit is acknowledged: 201.
Commit(r) ==
    /\ pc[r] = "commit"
    /\ ApplyWrites(r)
    /\ Reply(r, "approved", r)
    /\ UNCHANGED request

\* The commit takes effect but its acknowledgement, or the pod, is lost: the
\* client sees 503 or no answer although the application is durable.
CommitUnacknowledged(r) ==
    /\ pc[r] = "commit"
    /\ ApplyWrites(r)
    /\ Reply(r, "unavailable", NoApplication)
    /\ UNCHANGED request

\* An error path that answers but leaves the transaction open.
FailWithoutRollback(r) ==
    /\ Active(r)
    /\ Reply(r, "unavailable", NoApplication)
    /\ UNCHANGED <<applications, outbox, request, writes>>

\* An exception the except clauses do not name: the connection is closed, and
\* Flask answers 500, which no client of this endpoint expects.
FailUncaught(r) ==
    /\ Active(r)
    /\ RollBack(r)
    /\ Reply(r, "internal", NoApplication)
    /\ UNCHANGED <<applications, outbox, request>>

\* A statement or the commit fails, or the pod dies: the server rolls back
\* and the client sees 503 or no answer.
Fail(r) ==
    /\ Active(r)
    /\ RollBack(r)
    /\ Reply(r, "unavailable", NoApplication)
    /\ UNCHANGED <<applications, outbox, request>>

(***************************************************************************)
(* Specification                                                           *)
(***************************************************************************)
Step(r) ==
    \/ InsertApplication(r)
    \/ SelectByKey(r)
    \/ SelectByPair(r)
    \/ BuildEvent(r)
    \/ InsertOutbox(r)
    \/ Commit(r)

Next ==
    \E r \in Requests :
        \/ \E pod \in Pods, key \in Keys, pair \in Pairs : Begin(r, pod, key, pair)
        \/ Step(r)
        \/ CommitUnacknowledged(r)
        \/ Fail(r)

Spec == Init /\ [][Next]_apiVars

\* A thread that holds a connection executes its next statement.
FairSpec == Spec /\ \A r \in Requests : WF_apiVars(Step(r))

(***************************************************************************)
(* Safety                                                                  *)
(***************************************************************************)
\* The gap refresh_outbox_parity_metric counts is zero in every committed
\* state: each approved application has its event and each event its
\* application, whatever statement failed and whichever pod ran the drill.
OutboxParity == outbox = {a.id : a \in applications}

\* The two UNIQUE constraints: no two rows, committed or still in an open
\* transaction, share an idempotency key or a (user, campaign) pair.
Written == applications \cup UNION {writes[r].applications : r \in Requests}
OneApplicationPerKeyAndPair ==
    \A a, b \in Written : Collide(a, b) => a = b

\* An INSERT that ON CONFLICT skipped always finds the row it collided with:
\* "application conflict could not be reconciled" is never raised.
ConflictIsReconciled ==
    \A r \in Requests :
        /\ pc[r] = "byKey" => Conflicting(r) # {}
        /\ pc[r] = "byPair" => \E a \in applications : a.pair = request[r].pair

\* What each answer promises the client is true from then on: 201 and 200 name
\* a durable application of the requested user and campaign that has its
\* event, 409 means the key belongs to another application, and the drill's
\* "approval was not persisted" left no row.
AnswerHolds(r) ==
    CASE answer[r].code \in {"approved", "duplicate"} ->
             \E a \in applications : /\ a.id = answer[r].id
                                     /\ a.pair = request[r].pair
                                     /\ a.id \in outbox
      [] answer[r].code = "conflict" ->
             \E a \in applications : /\ a.key = request[r].key
                                     /\ a.pair # request[r].pair
      [] answer[r].code = "not_persisted" ->
             \A a \in Written : a.id # r
      [] OTHER -> TRUE
AnswersHold == \A r \in Requests : AnswerHolds(r)

\* A key that was answered for one application is never accepted for another
\* (tests/test_d2c_api.py, test_reused_idempotency_key_for_another_application
\* _is_rejected).  The code does not keep this: a key answered 200 through the
\* (user, campaign) lookup is stored nowhere.
Accepted(r) == answer[r].code \in {"approved", "duplicate"}
KeyNamesOneApplication ==
    \A q, r \in Requests :
        /\ Accepted(q) /\ Accepted(r) /\ request[q].key = request[r].key
        => request[q].pair = request[r].pair

(***************************************************************************)
(* Liveness                                                                *)
(***************************************************************************)
\* No request waits for ever: the transaction it queues behind always ends,
\* and two requests never wait for each other.
EveryRequestEnds == \A r \in Requests : Active(r) ~> pc[r] = "done"
=============================================================================
