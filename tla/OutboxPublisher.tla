-------------------------- MODULE OutboxPublisher --------------------------
(***************************************************************************)
(* The transactional outbox publisher (app/outbox_publisher.py): every     *)
(* process loops over "lock a batch of unpublished rows, send each to      *)
(* Kafka, mark it, commit".  More than one process runs while a Deployment *)
(* is rolled, sharing the table through FOR UPDATE SKIP LOCKED.            *)
(*                                                                         *)
(* An event is the rank of its row in ORDER BY created_at, event_id; rows  *)
(* become visible in any order, because created_at is the start of the     *)
(* transaction that commits them.  The topic is an append-only log.        *)
(* publish_attempts is a monitoring counter nothing reads; last_error is   *)
(* kept as the set of rows where it is not NULL.                           *)
(***************************************************************************)
EXTENDS Integers, Sequences, FiniteSets

CONSTANTS Publishers,  \* publisher processes
          Events,      \* outbox rows, in the order of created_at, event_id
          BatchSize,   \* OUTBOX_BATCH_SIZE
          Refused,     \* rows whose message Kafka refuses every time
          MaxFaults    \* bound: faults that can duplicate a message

ASSUME PublisherAssumption ==
    /\ Events \subseteq Nat
    /\ BatchSize \in Nat \ {0}
    /\ MaxFaults \in Nat

VARIABLES outbox,     \* committed rows of d2c_outbox_events
          published,  \* rows with published_at set
          failing,    \* rows with last_error set
          topic,      \* the Kafka topic d2c.application.approved.v1
          phase,      \* what each process does next
          session,    \* TRUE while the server keeps the process's transaction
          batch,      \* rows the process has selected, in its transaction
          todo,       \* rows of the batch not yet sent and marked
          marks,      \* rows the open transaction marks published
          errs,       \* rows the open transaction gives a last_error
          pending,    \* timed-out sends of each row the producer still holds
          faults      \* faults so far

tableVars == <<outbox, published, failing>>
localVars == <<phase, session, batch, todo, marks, errs>>
publisherVars == <<tableVars, topic, localVars, pending, faults>>

(***************************************************************************)
(* Types and helpers                                                       *)
(***************************************************************************)
Phases == {"idle", "send", "markPublished", "markFailed"}

TypeOK ==
    /\ outbox \subseteq Events
    /\ published \subseteq Events
    /\ failing \subseteq Events
    /\ topic \in Seq(Events)
    /\ phase \in [Publishers -> Phases]
    /\ session \in [Publishers -> BOOLEAN]
    /\ batch \in [Publishers -> SUBSET Events]
    /\ todo \in [Publishers -> SUBSET Events]
    /\ marks \in [Publishers -> SUBSET Events]
    /\ errs \in [Publishers -> SUBSET Events]
    /\ pending \in [Publishers -> [Events -> Nat]]
    /\ faults \in 0..MaxFaults

Delivered == {topic[i] : i \in DOMAIN topic}
Copies(e) == Cardinality({i \in DOMAIN topic : topic[i] = e})

\* Rows locked by the open transactions of the other processes.
LockedByOthers(p) ==
    UNION {batch[q] : q \in {q \in Publishers \ {p} : session[q]}}

\* The rows of S that ORDER BY ... LIMIT n returns.
Oldest(S, n) == {e \in S : Cardinality({d \in S : d < e}) < n}

\* The row the loop is at.
Current(p, e) == e \in todo[p] /\ \A d \in todo[p] : e <= d

NonePending == [e \in Events |-> 0]

Fault == faults < MaxFaults /\ faults' = faults + 1

\* The process is back at the top of its loop with no transaction.
ClearBatch(p) ==
    /\ phase' = [phase EXCEPT ![p] = "idle"]
    /\ session' = [session EXCEPT ![p] = FALSE]
    /\ batch' = [batch EXCEPT ![p] = {}]
    /\ todo' = [todo EXCEPT ![p] = {}]
    /\ marks' = [marks EXCEPT ![p] = {}]
    /\ errs' = [errs EXCEPT ![p] = {}]

Init ==
    /\ outbox = {}
    /\ published = {}
    /\ failing = {}
    /\ topic = <<>>
    /\ phase = [p \in Publishers |-> "idle"]
    /\ session = [p \in Publishers |-> FALSE]
    /\ batch = [p \in Publishers |-> {}]
    /\ todo = [p \in Publishers |-> {}]
    /\ marks = [p \in Publishers |-> {}]
    /\ errs = [p \in Publishers |-> {}]
    /\ pending = [p \in Publishers |-> NonePending]
    /\ faults = 0

(***************************************************************************)
(* publish_batch                                                           *)
(***************************************************************************)
\* A transaction opens with the rows it selected, locked and to be sent.
TakeBatch(p, rows) ==
    /\ phase[p] = "idle"
    /\ rows # {}
    /\ phase' = [phase EXCEPT ![p] = "send"]
    /\ session' = [session EXCEPT ![p] = TRUE]
    /\ batch' = [batch EXCEPT ![p] = rows]
    /\ todo' = [todo EXCEPT ![p] = rows]
    /\ UNCHANGED <<tableVars, topic, marks, errs, pending, faults>>

FetchIgnoringLocks(p) == TakeBatch(p, Oldest(outbox \ published, BatchSize))
FetchPublishedToo(p) == TakeBatch(p, Oldest(outbox \ LockedByOthers(p), BatchSize))
FetchNeverFailed(p) ==
    TakeBatch(p, Oldest((outbox \ (published \cup failing)) \ LockedByOthers(p), BatchSize))

\* SELECT ... WHERE published_at IS NULL ORDER BY ... FOR UPDATE SKIP LOCKED
\* LIMIT batch_size.  An empty result commits nothing and changes nothing.
FetchBatch(p) ==
    TakeBatch(p, Oldest((outbox \ published) \ LockedByOthers(p), BatchSize))

\* producer.send(...).get() is acknowledged by all in-sync replicas.
SendAcknowledged(p) ==
    \E e \in todo[p] :
        /\ Current(p, e) /\ e \notin Refused
        /\ phase[p] = "send"
        /\ topic' = Append(topic, e)
        /\ phase' = [phase EXCEPT ![p] = "markPublished"]
        /\ UNCHANGED <<tableVars, session, batch, todo, marks, errs, pending, faults>>

\* The producer retries a send whose acknowledgement was lost: two copies.
SendRetriedInternally(p) ==
    \E e \in todo[p] :
        /\ Current(p, e) /\ e \notin Refused
        /\ phase[p] = "send"
        /\ Fault
        /\ topic' = topic \o <<e, e>>
        /\ phase' = [phase EXCEPT ![p] = "markPublished"]
        /\ UNCHANGED <<tableVars, session, batch, todo, marks, errs, pending>>

\* The except branch without its "continue".
SendFailsFallsThrough(p) ==
    /\ phase[p] = "send"
    /\ todo[p] # {}
    /\ phase' = [phase EXCEPT ![p] = "markPublished"]
    /\ UNCHANGED <<tableVars, topic, session, batch, todo, marks, errs, pending, faults>>

\* A KafkaError, of a row in Refused or any other.
SendFails(p) ==
    /\ phase[p] = "send"
    /\ todo[p] # {}
    /\ phase' = [phase EXCEPT ![p] = "markFailed"]
    /\ UNCHANGED <<tableVars, topic, session, batch, todo, marks, errs, pending, faults>>

\* get(timeout=10) gives up while the producer still holds the record.
SendTimesOut(p) ==
    \E e \in todo[p] :
        /\ Current(p, e)
        /\ phase[p] = "send"
        /\ Fault
        /\ pending' = [pending EXCEPT ![p][e] = @ + 1]
        /\ phase' = [phase EXCEPT ![p] = "markFailed"]
        /\ UNCHANGED <<tableVars, topic, session, batch, todo, marks, errs>>

\* The producer's background thread delivers a record the loop gave up on.
DeliverLate(p) ==
    \E e \in Events :
        /\ pending[p][e] > 0 /\ e \notin Refused
        /\ topic' = Append(topic, e)
        /\ pending' = [pending EXCEPT ![p][e] = @ - 1]
        /\ UNCHANGED <<tableVars, localVars, faults>>

\* ... or exhausts its retries.
ExpireLate(p) ==
    \E e \in Events :
        /\ pending[p][e] > 0
        /\ pending' = [pending EXCEPT ![p][e] = @ - 1]
        /\ UNCHANGED <<tableVars, topic, localVars, faults>>

\* UPDATE ... SET published_at, last_error = NULL, in the open transaction.
MarkPublished(p) ==
    \E e \in todo[p] :
        /\ Current(p, e)
        /\ phase[p] = "markPublished"
        /\ session[p]
        /\ marks' = [marks EXCEPT ![p] = @ \cup {e}]
        /\ todo' = [todo EXCEPT ![p] = @ \ {e}]
        /\ phase' = [phase EXCEPT ![p] = "send"]
        /\ UNCHANGED <<tableVars, topic, session, batch, errs, pending, faults>>

\* UPDATE ... SET last_error, and on to the next row.
MarkFailed(p) ==
    \E e \in todo[p] :
        /\ Current(p, e)
        /\ phase[p] = "markFailed"
        /\ session[p]
        /\ errs' = [errs EXCEPT ![p] = @ \cup {e}]
        /\ todo' = [todo EXCEPT ![p] = @ \ {e}]
        /\ phase' = [phase EXCEPT ![p] = "send"]
        /\ UNCHANGED <<tableVars, topic, session, batch, marks, pending, faults>>

CommitKeepingLastError(p) ==
    /\ phase[p] = "send"
    /\ todo[p] = {}
    /\ session[p]
    /\ published' = published \cup marks[p]
    /\ failing' = failing \cup errs[p]
    /\ ClearBatch(p)
    /\ UNCHANGED <<outbox, topic, pending, faults>>

\* connection.commit(), after the last row.
CommitBatch(p) ==
    /\ phase[p] = "send"
    /\ todo[p] = {}
    /\ session[p]
    /\ published' = published \cup marks[p]
    /\ failing' = (failing \ marks[p]) \cup errs[p]
    /\ ClearBatch(p)
    /\ UNCHANGED <<outbox, topic, pending, faults>>

(***************************************************************************)
(* Failures                                                                *)
(***************************************************************************)
\* The server ends the session and releases its locks; the process does not
\* know it before its next statement.
LoseSession(p) ==
    /\ session[p]
    /\ Fault
    /\ session' = [session EXCEPT ![p] = FALSE]
    /\ UNCHANGED <<tableVars, topic, phase, batch, todo, marks, errs, pending>>

\* That statement raises psycopg.Error; run() rolls back, closes and loops.
Abandon(p) ==
    /\ ~session[p]
    /\ phase[p] \in {"markPublished", "markFailed"} \/ (phase[p] = "send" /\ todo[p] = {})
    /\ ClearBatch(p)
    /\ UNCHANGED <<tableVars, topic, pending, faults>>

\* The process dies with its producer's buffer and is restarted.
Crash(p) ==
    /\ phase[p] # "idle" \/ pending[p] # NonePending
    /\ Fault
    /\ ClearBatch(p)
    /\ pending' = [pending EXCEPT ![p] = NonePending]
    /\ UNCHANGED <<tableVars, topic>>

(***************************************************************************)
(* Specification                                                           *)
(***************************************************************************)
\* An approval transaction (ApprovalAPI) commits its outbox row.
Persist(e) ==
    /\ e \notin outbox
    /\ outbox' = outbox \cup {e}
    /\ UNCHANGED <<published, failing, topic, localVars, pending, faults>>

PublisherNext(p) ==
    \/ FetchBatch(p)
    \/ SendAcknowledged(p)
    \/ SendRetriedInternally(p)
    \/ SendFails(p)
    \/ SendTimesOut(p)
    \/ DeliverLate(p)
    \/ ExpireLate(p)
    \/ MarkPublished(p)
    \/ MarkFailed(p)
    \/ CommitBatch(p)
    \/ LoseSession(p)
    \/ Abandon(p)
    \/ Crash(p)

Next ==
    \/ \E e \in Events : Persist(e)
    \/ \E p \in Publishers : PublisherNext(p)

Spec == Init /\ [][Next]_publisherVars

\* The loop never stops, a send ends at the latest by its time-out, and Kafka
\* does not refuse every record for ever: a row that is sent again and again and
\* is not one of Refused is acknowledged again and again.
PublisherFairness(p) ==
    /\ WF_publisherVars(FetchBatch(p))
    /\ WF_publisherVars(SendFails(p))
    /\ SF_publisherVars(SendAcknowledged(p))
    /\ WF_publisherVars(MarkPublished(p) \/ MarkFailed(p) \/ CommitBatch(p) \/ Abandon(p))

FairSpec == Spec /\ \A p \in Publishers : PublisherFairness(p)

(***************************************************************************)
(* Safety                                                                  *)
(***************************************************************************)
\* A row is marked published only when its message is in the topic, whatever
\* was sent twice, refused, timed out or rolled back: no approval is lost
\* between the outbox and Kafka.
PublishedIsDelivered == published \subseteq Delivered

\* A published row carries no last_error: no process writes to a row after
\* another one has published it.
PublishedHasNoError == published \cap failing = {}

\* At-least-once, and no worse: a message has a second copy only if a fault
\* (lost acknowledgement, timeout, lost session, crash) explains it.
CopiesAreExplained == \A e \in Events : Copies(e) <= 1 + faults

\* A message of a row that is published already comes only from a send that timed
\* out or from a process that does not know yet that its transaction is gone:
\* the rows a process read before a batch of ten-second sends stay its own, and
\* unpublished, as long as its transaction lives.
PublishedIsNotSentAgain ==
    [][\A i \in (DOMAIN topic)' \ DOMAIN topic :
           topic'[i] \in published =>
               \E p \in Publishers : \/ topic'[i] \in todo[p] /\ ~session[p]
                                     \/ pending[p][topic'[i]] > 0]_publisherVars

(***************************************************************************)
(* Liveness                                                                *)
(***************************************************************************)
\* The backlog drains: every committed row is eventually marked published,
\* and so delivered, in spite of failed sends, crashes and lost sessions, and
\* of rows that are refused each time, unless those fill a batch.
EveryRowIsPublished ==
    Cardinality(Refused) < BatchSize =>
        \A e \in Events \ Refused : e \in outbox ~> e \in published
=============================================================================
