# A TLA+ verification of the D2C event data platform

This directory holds TLA+ models of the data paths of the repository, the TLC
configurations that check them on small instances, and proofs, checked by
TLAPS, that the safety properties hold in instances of any size.

    tlc -workers 2 -config ApprovalAPI.cfg MCApprovalAPI.tla
    tlapm ApprovalAPI_proofs.tla

The other modules of proofs are `OutboxPublisher_proofs`, `ConsumerRollout_proofs`,
`D2CPipeline_proofs`, `SensorPipeline_proofs`, `LakeSink_proofs`,
`IcebergWriter_proofs` and `ReleaseChecks_proofs`.

`PROJECT.json` lists the runs, the lines of code each definition stands for,
the hazards of the code with the properties aimed at them, and for every
property a mutant of the model, a plausible bug, that breaks it.

## 1. The system

Two paths share the style "at-least-once delivery into an idempotent store".

    D2C path      client -> API -> PostgreSQL (applications + outbox)
                         -> outbox publisher -> Kafka d2c.application.approved.v1
                              -> event consumer -> DuckDB          (operational)
                              -> Spark stream   -> Iceberg tables  (analytics)

    sensor path   generator -> Fluent Bit / Logstash / Vector -> Kafka raw topics
                         -> processor -> Kafka clean topic -> sink -> DuckDB
                                                  -> export -> Parquet lake -> quality gate

| Component | Code | State it keeps | Operations | Interacts through |
|---|---|---|---|---|
| Approval API | `app/app.py`, `app/schema.py` | `d2c_applications`, `d2c_outbox_events` | apply (one transaction), failure drill | the outbox table |
| Outbox publisher | `app/outbox_publisher.py` | marks in the outbox, the producer's buffer | lock a batch, send, mark, commit | outbox table, approval topic |
| D2C consumer | `services/d2c_event_consumer.py`, `k8s/d2c/base/consumer-deployment.yaml` | DuckDB table, committed offset, lag gauge | poll, store or quarantine, commit; rolling update | approval topic, its dead-letter topic, the volume both pods share |
| Iceberg writer | `lakehouse/d2c_iceberg_stream.py` | three Iceberg tables, Spark checkpoint | plan a batch, check, three merges, complete | approval topic |
| Sensor processor | `services/processor.py`, `services/contract.py` | committed offsets | poll, normalise, publish clean or dead-letter, commit | raw, clean and dead-letter topics |
| Sensor sink | `services/sink.py` | DuckDB table, committed offset | poll, validate, store or quarantine, commit | clean topic, sink dead-letter topic |
| Lake sink | `services/lake_sink.py`, `scripts/export_sensor_duckdb_to_lake.py` | ledger, markers, directories | export one batch, recover an interrupted one | DuckDB table, lake directory |
| Quality gate | `services/quality.py` | none | read all Parquet files, check rules | lake directory |
| Iceberg validator | `lakehouse/validate_d2c_iceberg.py` | none | count rows of three tables, refuse | Iceberg tables |
| Schema check | `scripts/check_schema_compatibility.py` | none | compare two schemas | CI |
| Catalog | `services/catalog.py` | the state of a depth-first search | check lineage rules, search for cycles | CI |
| Portal, evidence and exception validators | `services/catalog_portal.py`, `scripts/validate_*.py` | none | validate or render one document | CI |
| Metrics | `services/metrics.py` | counters behind a lock | increment, render | Prometheus |
| Canary gate | `k8s/d2c/base/rollout.yaml`, `analysis-template.yaml`, `service-monitors.yaml`, `app/app.py` (`/metrics`) | gauges of the pod, Prometheus' last sample, counts of failures | scrape, measure, promote or abort | `/metrics` of the canary, PostgreSQL |

What is hard, and what makes each part correct:

* **API.** Requests of several threads and pods interleave statement by
  statement; unique keys are enforced against rows of *open* transactions; any
  statement may fail and the acknowledgement of a commit may be lost. Correct:
  the outbox is in one-to-one correspondence with the approved applications,
  keys are unique, and what the client was told is true for ever.
* **Publisher.** Kafka and PostgreSQL do not commit together, a timed-out send
  may still be delivered, locks vanish with a session, two publishers overlap
  in a rolling update. Correct: marked implies delivered, and the backlog drains.
* **Consumers (D2C consumer, processor, sink).** An output and an offset do not
  commit together either. Correct: an offset never passes a record whose output
  is not durable; replays are harmless; invalid records go to the dead-letter
  topic and block nothing.
* **Iceberg writer.** Three tables are committed one after the other and the
  checkpoint after them. Correct: the checkpoint never passes a record that is
  not persisted; replays add nothing; an event_id with two payloads stops the
  stream before anything is written.
* **Lake sink.** A ledger transaction, files, a rename and a marker are separate
  effects. Correct: a final directory appears whole, a marker means a complete
  export, and whatever a crash left is recognised.
* **Gates on stored data (quality gate, Iceberg validator).** They run beside the
  writer they judge. Correct: the validator raises no alarm for healthy tables,
  whatever instant it looks at; an alarm of the quality gate is about a file that
  is being written or about what a crash left.
* **Canary gate.** Scrapes of several threads write the same gauges, Prometheus
  gives scrapes up, the analysis forgives one failure. Correct: a canary whose
  tables never agree is not promoted, and every rollout is decided.
* **Schema check.** Correct: what it accepts breaks no event that was valid.
* **Catalog.** Rules on direct upstreams and a search along single paths.
  Correct: an accepted lineage is well founded, a reported cycle is one.

## 2. The modules

| Module | Models | Notes |
|---|---|---|
| `ApprovalAPI` | POST /api/apply over the two tables | one action per SQL statement |
| `ApprovalAPI_proofs` | – | the inductive invariant and its proof |
| `OutboxPublisher` | `publish_batch` and `run` in several processes | table, topic and producer buffer |
| `OutboxPublisher_proofs` | – | the inductive invariant and its proof |
| `D2CEventConsumer` | the consumer loop | topic as a log with a committed offset |
| `ConsumerRollout` | its two pods in a rolling update | EXTENDS the consumer |
| `ConsumerRollout_proofs` | – | the consumer's invariants, its steps as `RecordSettling` |
| `RecordSettling` | the abstract promise of a consumer loop | refined by `D2CEventConsumer` and, per raw topic, by `SensorProcessor` |
| `ApprovalDelivery` | the abstract promise of the D2C path | `Approve`, `Deliver` |
| `D2CPipeline` | API, publisher and consumer composed | INSTANCEs the three, refines `ApprovalDelivery` |
| `D2CPipeline_proofs` | – | uses the proofs of API and publisher by INSTANCE |
| `SensorProcessor` | the normaliser | several raw topics |
| `SensorSink` | the DuckDB sink | |
| `SensorPipeline` | processor and sink composed | EXTENDS the sink, INSTANCEs the processor |
| `SensorPipeline_proofs` | – | invariants of processor, sink and path |
| `LakeSink` | `write_canonical_events` and its caller | ledger, staging, final, markers |
| `LakeQualityGate` | what the quality gate finds, at any instant | EXTENDS the lake |
| `LakeSink_proofs` | – | the lake and its gate |
| `IcebergWriter` | streaming query and `write_batch` | checkpoint and three tables |
| `IcebergValidation` | what the validator refuses, at any instant | EXTENDS the writer |
| `IcebergWriter_proofs` | – | the writer and its validator |
| `SchemaCompatibility` | the comparison, beside the meaning of schemas | |
| `LineageCatalog` | lineage rules and the search for cycles | one action per branch of `visit` |
| `CanaryGate` | gauges, scrapes, analysis, rollout | threads of the pod interleave |
| `ReleaseChecks` | the three before a release, side by side | EXTENDS them; a behaviour is one job |
| `ReleaseChecks_proofs` | – | the three checks |
| `MC...` | model values and sets for TLC | one per run's module |

### How state and actions correspond to the code

**ApprovalAPI.** `applications` and `outbox` are the committed rows; `writes[r]`
the rows request r's open transaction has inserted; `pc[r]` the statement it
executes next; `answer[r]` what the client sees. Each action is one statement
of `apply_application` with its branches: `InsertApplication` (ON CONFLICT DO
NOTHING; disabled while another open transaction holds a colliding row, which
is how PostgreSQL makes it wait), `SelectByKey`, `SelectByPair`, `BuildEvent`
(where the drill raises), `InsertOutbox`, `Commit`. `Fail` is every error path
and a dying pod: they roll back alike. `CommitUnacknowledged` applies the
commit and answers 503. A request that collides retries nothing, so the model
has no retry; a client that retries is another request. The health, readiness
and metrics endpoints and the validation of the body change no state.

**OutboxPublisher.** An event is the rank of its row in `ORDER BY created_at,
event_id`; `Persist` makes rows visible in any order. `FetchBatch` takes the
oldest unpublished rows nobody else has locked. `SendAcknowledged`,
`SendRetriedInternally`, `SendFails` and `SendTimesOut` are the outcomes of
`send(...).get(timeout=10)`; a timed-out record stays in `pending` and is
delivered (`DeliverLate`) or dropped (`ExpireLate`) at any later time.
`MarkPublished` and `MarkFailed` write into the open transaction (`marks`,
`errs`), `CommitBatch` makes them durable. `LoseSession` releases the locks
without the process noticing before its next statement (`Abandon`).

**D2CEventConsumer, SensorProcessor, SensorSink.** A topic is a sequence; the
committed offset is the number of records that are done; `cursor`/`handled` is
the number of records before the one in hand and `limit`/`position`/`fetched`
the consumer's position. A payload belongs to one of four classes: accepted by
the contract, rejected with one of the exceptions the handler catches
(`Malformed`), raising another one in the handler (`Poison`: OverflowError for
timestamps next to year 1 or 9999 or integers beyond a float, integers that do
not fit a BIGINT), or raising in the deserializer (`Undecodable`: RecursionError
for deep nesting, the ValueError of an integer of too many digits, which `_decode`
does not catch). The deserializer of the D2C consumer and of the sink runs inside
`poll`, so an `Undecodable` record ends the process (`PollRaises`,
`SinkPollRaises`) before the records fetched with it are handled, those in front
of it included. How far ahead a poll decodes is the client library's choice: any
number of records up to `MaxFetch`. The processor decodes a record at its own
turn (`processor.py:186`), so there it counts as `Poison`. A failed send may or may not have reached the broker, a
failed commit may or may not have been applied: both outcomes are modelled.

Both loops that write to a dead-letter topic are shown to implement
`RecordSettling`, which has no polls, failures or restarts: the next record is kept
or set aside, and then the offset moves over it. `kept` is the set of event_ids in
the table (of the readings with their coordinates in the clean topic), `aside`
the offsets in the dead-letter topic. The refinement says at once that an offset
moves by one and only past a settled record, that a replay adds nothing, that
nothing is kept under another id or offset, that first copies appear in order, and,
for the consumer, that every record is settled unless a poison record is at or
before it (`RecordSettling` promises nothing past a record of neither kind) or an
`Undecodable` one is within a fetch of it or of a record before it (its fairness
holds only while nothing in `Reach` of the next record is `Unreadable`). The
processor implements its steps; that every record arrives is stated for the path
as a whole (`EveryRecordArrives`), because one process serves two topics and dies
for a poison record of either.

**ConsumerRollout.** `process[p]` is the process of a pod: it serves `/metrics`
(`Serve`), then `duckdb.connect` takes the file lock (`Connect`) or raises
(`FindLocked`). Whichever step of the loop ends the process gives the lock up after
the consumer has left its group. `Probe` may succeed in any process that serves,
so also in the moment before it finds the file locked; only a ready new pod lets
the controller delete the old one, which then ends after a batch or in the middle of
a record (`Terminate`).

**LakeSink.** A directory is the set of events in its files and a flag for a
torn file. `pc` walks through `write_canonical_events`: `CommitLedger`, the
decision `CheckExport`, `SetFinalAside`/`SetStagingAside` (the
renames of `_quarantine`), `MakeStaging`, one `BeginPartition` and one
`WritePartition` per date, `ValidateStaging`, `Publish` (the rename), `VerifyFinal`,
`Mark`. `write_parquet` fills `data.parquet` in place: between `BeginPartition` and
`WritePartition` the file is there and torn. `Crash` may fall between any two steps
and leave it so. `policy` says which batch
id the operator passes: a fresh one for each export as in the RUNBOOK, the
unfinished one until it is done, or any. The code also sets aside a staging
directory it finds beside a finished export; the model has that branch, and no
behaviour reaches it, because a staging directory becomes the final one by a
rename and a new one is made only after the final one was set aside.

**LakeQualityGate.** `rglob("*.parquet")` skips no names, so the gate finds final,
staging and set-aside directories alike, with a file that is being written at that
moment. `GateVerdict` is what it says of one instant of the lake; its rules on single rows repeat what `sink.py` checked before
the row reached the ledger.

**IcebergWriter.** `planned` and `completed` are the ends of the last range in
Spark's offset log and commit log. `CheckBatch` classifies and looks for
conflicts, then `MergeFacts`, `MergeQuarantine` and `RecordAudit` are one
snapshot each, `CompleteBatch` is Spark's commit. `LoseCheckpoint` starts a new
checkpoint at the earliest offset. With `startingOffsets` earliest and one
partition a range is an interval of offsets and stands for its fingerprint.
The tables are sets of rows. Two facts of one event differ in their offset and two
audit rows that disagree are two, so their uniqueness is checked; that a replay
adds no second, *identical* row to the quarantine or to the audit rests on the ON
clauses of their MERGEs and is not something a set can show.

**IcebergValidation.** Each refusal is about one table (or one table and a number the
operator gives), so that it is wrong at no instant covers the three counts being
taken one after the other.

**CanaryGate.** A scrape takes a thread of the pod: `Query` reads the tables,
`SetGap` and `SetCheck` set the shared gauges one after the other, `Render` answers.
`TimeOut` makes the series stale; the thread goes on by itself. While the database
hangs, `Query` does not return. `Judge` is one measurement of all metrics, with
the default `vector(...)` where there is no series; metrics the gate does not
model may fail at any time. A rollout has the two steps of `rollout.yaml`, each with
an analysis of three measurements that forgives one failure per metric.

**LineageCatalog.** Initial states are all lineages; `Validate` applies the rules,
then each call of `visit` is one action (`ReportCycle`, `SkipVisited`,
`VisitUpstream`), `path` is `stack` and, as a set, `visiting`. The document's order
of assets and upstreams is left open.

**ReleaseChecks.** The three checks share nothing, so their composition is a
disjoint sum: `job` says which one a behaviour is about.

**SchemaCompatibility.** `Compatible` is `_compare_constraints` on object
schemas with leaf properties; `ValidInstance` is what the keywords mean in JSON
Schema. A behaviour is a history of proposals, each compared with the last
accepted one, as CI does.

### What the models abstract

* Event ids are hashes of their content (`contract.py`) or random UUIDs; both
  are taken as injective, so a reading stands for its event_id.
* Each topic has one partition. The code handles and commits every partition on
  its own and no property relates the order of two partitions; the processor,
  which reads two topics, is modelled with both.
* One process of each consumer group consumes. DuckDB's file lock enforces that for
  the D2C consumer (`ConsumerRollout`) and the sink. The processor is deployed as one container; a
  group of several is not modelled.
* Messages, rows and files carry only what a property tells apart; monitoring
  counters (`publish_attempts`, Prometheus metrics) are left out but for those a gate
  reads (the parity gauges, the series of 5xx answers) and the lag gauge.
* PostgreSQL, Kafka, DuckDB, Iceberg and Spark are modelled by what the code
  relies on: a unique index that waits, an append-only log, an atomic statement
  or MERGE, a write-ahead offset log. These definitions are marked external.

## 3. What the runs check

Every run sets CHECK_DEADLOCK FALSE: inputs are bounded, so every instance
ends in a state where all that was to be done has been done. That nothing is
stuck before is what the liveness runs show.

| Run | Instance | Distinct states | Shows |
|---|---|---|---|
| `api` | 3 requests, 2 keys, 2 pairs, a stable and a drill pod | 69197 | `OutboxParity`, `OneApplicationPerKeyAndPair`, `ConflictIsReconciled`, `AnswersHold`; `EveryRequestEnds`: nobody waits for ever behind another's transaction |
| `publisher` | 2 publishers, 3 rows of which Kafka refuses the oldest, batches of up to 2, 2 faults | 497116 | `PublishedIsDelivered`, `PublishedHasNoError`, `CopiesAreExplained`, `PublishedIsNotSentAgain`; `EveryRowIsPublished`: while fewer rows are refused than a batch holds |
| `consumer` | an old and a new pod, 3 records of 6 kinds, polls and fetches of up to 2, 2 failures | 412703 | `CommittedIsSettled`, `LagIsWithinOnePoll`; `ImplementsSettling`: with its fairness |
| `d2c_pipeline` | 2 requests, 1 publisher, the consumer, a fault on each side | 336524 | `OnlyApprovedTravels`, `AnsweredIsOnItsWay`; `ImplementsFairDelivery`: the path implements `ApprovalDelivery` with its fairness |
| `lake` | 3 events on 2 days, 2 batch ids used at will or retried, 2 crashes | 158531 | `MarkerMeansExported`, `FinalsAreWhole`, `GateAlarmsAreExplained`; when an unfinished id is retried, `RetriedIsExported` and `StartedBatchIsExported` |
| `sensor_pipeline` | 2 raw topics with 2 records of 2 readings or rejected, a foreign record in the clean topic, a failure of each process | 268696 | `CommittedIsRouted`, `ImplementsRouting` of the processor, `CommittedIsSettled`, `StoredIsFirstCopy` of the sink, `RowsAreTrueAndUnique`; `EveryRecordArrives` |
| `iceberg` | 3 records of 5 kinds, batches of up to 2, 2 crashes, 1 lost checkpoint | 85925 | `CheckpointedIsPersisted`, `TablesAreTrue`, `AuditPartitionsTheTopic`, `GateRaisesNoFalseAlarm`, `ReplayAddsNothing`; `EveryRecordIsReconciled`: unless poison or a conflict stops the stream |
| `release` | all schemas of one property over the leaves of `MCLeaves`, histories of 2 proposals; all lineages of 3 assets; 2 steps, 2 threads, 1 outage, 2 late answers | 874484 | `AcceptanceComposes`, `WideningBreaksNothing`; `AcceptedIsGrounded`, `ReportedIsCycle`; `BrokenIsNotPromoted`, `RolloutEnds` |

Each property is explained where it is defined. The bounds:

* Three requests are the least with which one waits for a second one and a
  third collides with either; two keys and two pairs give every way of
  colliding.
* Two faults let a second failure hit the recovery from the first; three
  crashes repeat states. Two publishers suffice, since the locks relate pairs.
* Polls and batches of two have a first, an inner and a last record; a topic one
  or two longer than a batch has a second batch to resume with.
* The composed models are smaller than their parts, whose own runs cover what is
  cut: a second publisher, the drill, records the approval topic rejects. In
  `sensor_pipeline` the two raw records are either on one topic or one on each.
* Three assets give every shape in which the search meets an asset again: on its
  path, after its visit has ended, along two paths, at a distance.
* `BrokenIsNotPromoted` has the premise that at most one answer came late. One late
  answer can make one measurement pass, and the analysis needs two. With two late
  answers, in a pod with three threads, TLC finds the behaviour in which a broken
  store is promoted: two scrapes are given up that found the tables still agreeing, and
  each of them clears the gap after a later scrape has set it and before that scrape
  is answered. With two threads there is no thread left to answer it. With three
  threads and the premise the property holds too (10 million states, not one of the
  runs). The proof (section 4) covers any number of threads, steps and outages.
* No run uses symmetry: each checks a liveness property too.
* A fetch of two lets an undecodable record stop the one in front of it; in
  Kafka a fetch holds many, with the same shape.
* The type invariant of the API is checked by its run and proved; those of the
  other modules are proved.

### Fairness

A request's thread that holds a connection executes its next statement (WF of
each request's step; waiting disables the step). The publisher loops until it is stopped
and Kubernetes restarts it: WF of fetching and of marking and committing, and of a
send's failure, since `get(timeout=10)` ends every send. A send of a row that Kafka
does not refuse, tried again and again, is acknowledged again and again: SF of
`SendAcknowledged`; the producer is configured with retries and acks=all. Consumers
are restarted by their Deployment or `restart: unless-stopped` (WF of `Start`,
`Serve` and `Connect`) and a process that can take its next step takes it. The
processor's `poll` neglects neither topic for ever (SF of `Poll(t)`), which is
how the Kafka fetcher rotates. Prometheus and the analysis act by their clocks: WF of
beginning and of giving up a scrape, SF of `Measure` (a measurement falls between two
scrapes again and again); a thread of the pod that has its answer finishes, one
that waits for the database may wait for ever. Failures are never fair and are
bounded, which states that they stop; nothing fair is assumed of clients.

Nothing is assumed of the probes and the Deployment controller either, and no
property says that the consumer's rolling update completes: the new pod is ready
only if a probe meets the moment between `start_metrics_server` and
`duckdb.connect`, with the old pod alive all the while. What the run shows is that
records are settled whether it completes or not.

### Disagreements of code and documents

Four runs are expected to find a violation; each checks a sentence of the
repository's documents, tests or comments.

| Run | What happens |
|---|---|
| `api_key_reuse` | A key answered 200 through the (user, campaign) lookup is stored nowhere; the same key is accepted later for another application, though `app.py:274` and `test_d2c_api.py:125` say it is refused. |
| `lake_fresh_ids` | A crash after the ledger commit, then an export under a fresh id, as `RUNBOOK.md:181` makes one: the events count as duplicates and no file ever holds them, though `README.md:306` calls the crash recovered. Under the same id (`lake`) it is. |
| `schema_new_keyword` | A constraint the baseline did not have is not compared, so a breaking candidate passes, though the script "favours a safe false negative over silently approving a breaking data contract". `WideningBreaksNothing` says what is left: with the same keywords, acceptance is safe. |
| `canary_no_errors` | A canary that has answered no request with a 5xx has no such series, the ratio takes its default `vector(1)` and fails, and the canary is aborted, though `RUNBOOK.md:27` reads a failure of that ratio as a canary that does not handle requests stably. (Series of the previous version behind the same service within the last 5 minutes may hide this.) |

Five more were met while modelling and appear as the premises of properties
instead of runs:

* *Poison records* (`Blocked`, `SinkBlocked`, `RecordSettling!Clear`). The processor, the
  D2C consumer and the sink catch DataQualityError, TypeError, ValueError and
  KeyError, the stream AssertionError, TypeError and ValueError. OverflowError, raised by `astimezone` for a
  time such as `0001-01-01T00:00:00+23:00` and by `float` for a huge integer, is
  none of them. Such a record is not quarantined and is met again after every
  restart. In the consumer and the sink a payload on which `_decode` raises
  (`d2c_event_consumer.py:42` and `sink.py:78` catch two errors) is met inside
  `poll`, and with it valid records in front of it stay unsettled, though `README.md:357` and
  `catalog/data-products/d2c-application-approvals.v1.json:71` say a rejected
  record goes to quarantine instead of stopping the path.
* *Refused rows* (`Cardinality(Refused) < BatchSize`). Rows are taken oldest first, so
  as many rows as a batch holds that Kafka never accepts keep all later ones from
  being sent (`outbox_publisher.py:110`). With fewer the rest drains.
* *New checkpoint* (`losses = 0` in `AuditPartitionsTheTopic`). The audit is keyed
  by the fingerprint of a micro-batch, and a new checkpoint cuts the topic into
  other batches: offsets that are audited already are audited again
  (`README.md:194` speaks of no new rows). Facts and quarantine stay exact.
* *Directories of no finished export* (`GateAlarmsAreExplained`). `services/quality.py:186`
  reads every Parquet file below the lake, whatever its directory is called. While an
  export runs, the gate may meet the file that `lake_sink.py:305` is writing below
  `.staging-*`, and `read_parquet` raises (`quality.py:231`) although nothing crashed;
  the runbook calls it after the export (`RUNBOOK.md:182`). After a recovered crash it
  meets events twice or a torn file in `.quarantine-*`, and goes on failing until
  somebody removes the directory.
* *Finished batch ids* (`RetriedIsExported` assumes the policy "retry"). A call with
  the id of a finished batch counts every row it is given as a duplicate, exported
  or not (`lake_sink.py:205`).

## 4. What is proved

Every invariant a run checks is also proved, and so are the action properties
`ReplayAddsNothing`, `PublishedIsNotSentAgain` and `FinalsAreWhole`, the refinement `ImplementsRouting` and the safety of
`RecordSettling` and of `ApprovalDelivery`: for every value of the constants that the
ASSUME of the module allows, from nothing else (one theorem has a hypothesis of its
own, see the release checks). TLC evaluates each ASSUME with the run that extends
its module. An `IInv` is a conjunction of parts, and each part has a lemma which
shows that a step keeps it; steps that leave a part's variables alone share a case. A
part that a run does not check by itself is named below with the reason it is needed.

**ApprovalAPI_proofs**: any requests (positive numbers), keys, pairs, pods, any drill
pods. `Invariance`; `TypeCorrectness`, `ParityAlwaysHolds`, `UniquenessAlwaysHolds`,
`ConflictsAreReconciled`, `AnswersAreTrue`; `RowsAreAsRequested`.
None of the invariants but `TypeOK` is inductive alone. Parity of the committed
tables depends on what an open transaction will commit: `WritesFollowStatement`
says which rows a transaction holds at each statement (none before the INSERT,
exactly its own application after it, with its outbox row from `InsertOutbox`
on). Truth of the answers needs that ids are not reused and that a request that is
done stays done: `RowsAreAnswered` says a committed row belongs to a request
that has ended, `NoEarlyAnswer` that a request has no answer before. Uniqueness
is about committed *and* written rows, because `InsertApplication` waits for
the open ones: with committed rows alone, two open transactions could insert the
same key. `CommitsAreWhole`, a lemma for the composed path, says that a commit adds
one application and its outbox row, or nothing.

**OutboxPublisher_proofs**: any processes and rows, any batch size, any number of
faults. `PublisherInvariance`; `PublisherTypeCorrectness`, `PublishedAlwaysDelivered`,
`PublishedNeverHasError`, `CopiesAlwaysExplained`, `PublishedIsNeverSentAgain`;
`LocksAlwaysExclude`, `MessagesAreOfRows`.
`PublishedIsDelivered` needs to know what an open transaction marks:
`MarksAreDelivered` says a marked row is in the topic, and so is the row a
process is about to mark. The second
invariant is about two processes. A commit clears `last_error` on the rows it
publishes and sets it on the rows that failed, so it must not meet a row that
another process has published: `LockedIsUnpublished` says no row of a
transaction the server still keeps is published, and it survives the commit of another
process because `LocksExclude` keeps their batches apart. `LocksExclude` speaks
of open sessions only: a process whose session is lost keeps sending its batch
while a second process takes the same rows, but it can no longer commit.
`PublishedIsNotSentAgain` is the same invariant seen from the topic: what a process
with a live transaction sends is not published yet.
`BatchIsSplit` says a row is marked or given an error, not both.
`CopiesAreExplained` counts what several processes sent at several times. `Sends(e)`
is the set of all sends of a row that were made or may still be: the copies in the topic, the
records late in a producer, the processes that lost their transaction and have not
noticed, and the next transaction that takes the row. `SendsAreExplained` bounds it by
1 + faults: a step turns one member into another, and only a fault adds one.

**ConsumerRollout_proofs**: any topic, payloads, poll size and number of failures.
`ConsumerCommittedIsSettled`, `LagGaugeIsWithinOnePoll`, `RolloutTypeCorrectness`;
`RolloutKeepsOneConsumer`: the loop runs in the process that holds the DuckDB file and
in no other; `RolloutImplementsSettling`: `RolloutSpec => Settling!SafeSpec`. Every step of
the pods is a step of the consumer, its death, or a step it does not notice
(`RolloutStepsAreConsumerSteps`). `BatchFollowsOffset` says the record in hand is the one at
the committed offset, `ToCommitIsSettled` that an offset is about to be committed only over
a settled record.

**SensorPipeline_proofs**: any raw topics, payloads, number of records, poll sizes and
failures. `ProcessorCommittedIsRouted`, `PathImplementsRouting`, `SinkCommittedIsSettled`,
`SinkStoredIsFirstCopy`, `PathRowsAreTrueAndUnique`, `SinkTypeCorrectness`. The two loops have the same two parts as
the consumer (for the processor, also that the position of a topic not in hand is its
committed offset). They meet in `CleanIsTrue`: a record of the clean topic that the
sink accepts names a raw record that normalises to it. `RowsAreTrueAndUnique` then follows
from what the sink stores.

**LakeSink_proofs**: any events, dates, batch ids, policies and crashes. `LakeTypeCorrectness`,
`LakeMarkerMeansExported`, `LakeFinalsAreWhole`, `LakeRetriedIsExported`, `LakeGateAlarmsAreExplained`.
`DirectoriesAreOwned` says a directory holds only events the ledger gives to its batch, `CallProgress`
what each step of a call relies on (staging is exactly what the batch owns when it is renamed,
the final directory when it is marked), `CallsAreRemembered` that a batch at work was called
before and has no marker. `RetriesFinish` says that an operator who retries leaves one
batch unfinished at a time, and that an event counted as a duplicate is in a marked one.
`FinalsAreReadable` is the part of `FinalsAreWhole` that is about one state.
`NothingIsLeft` says that without a crash no staging directory outlives its call.

**IcebergWriter_proofs**: any topic, payloads, batch size, crashes and lost checkpoints.
`IcebergTypeCorrectness`, `IcebergCheckpointedIsPersisted`, `IcebergTablesAreTrue`,
`IcebergAuditPartitionsTheTopic`, `IcebergGateRaisesNoFalseAlarm`, and the action property
`IcebergReplayAddsNothing`. `BatchProgress` says what is in the tables before each merge.
`AuditedIsPersisted` says that a range with an audit row is in the tables, which holds
across lost checkpoints, since no row is ever removed: so a replay of an audited range adds nothing, and
the counts of the three tables never contradict each other. `OneRowPerRange` and
`AuditFollowsCheckpoint` say that under one checkpoint the audit rows and the completed
records correspond.

**D2CPipeline_proofs**: any requests, pods, publishers, faults and crashes.
`OnlyApprovedEverTravels`, `AnsweredIsAlwaysOnItsWay`, `PathImplementsDelivery` (`Spec =>
ImplementsDelivery`, the safety of `ApprovalDelivery`). The proofs of the parts are used, not
repeated: the path's behaviours are behaviours of the API, so the API's invariants hold in
it; with them a commit of the API is a `Persist` of a fresh row, so they are behaviours of
the publisher, and its invariants hold too. `ReadsWhatIsThere` and `StoredIsDelivered` tie the
consumer to the topic. A commit then maps to `Approve` (exclusive by uniqueness, whole by
`CommitsAreWhole`), a first stored copy to `Deliver`, every other step to a stutter.

**ReleaseChecks_proofs**: each check by itself, since a step of the sum is a step of one
(`JobsAreChecks`).

* *Schemas* with any names, values and leaves. `SchemaAcceptanceComposes`, from the
  reflexivity and transitivity of each comparison; `SchemaWideningBreaksNothing`, keyword by
  keyword. A bound that is there must be an integer for `<=` to be transitive:
  `SchemaAssumption` says so.
* *Lineage* over any assets. `LineageReportedIsCycle` from `PathIsLineage` (each asset on the stack is an
  upstream of the one below it). `LineageAcceptedIsGrounded` from `VisitedIsGrounded`:
  for every visited asset there is a set of visited ones that holds its upstreams and theirs, and
  does not hold the asset. `Origins(a)` is the least set that holds the
  upstreams of a and of its members, so the proof needs no induction over paths: it exhibits a set.
* *Canary gate* with any threads, steps, limits and outages. `BrokenPromotionNeedsLateAnswers`: a
  canary whose tables have not agreed since its last step began is promoted only if as many answers
  came late as measurements may not fail, count - failureLimit. `BrokenIsNeverPromoted` follows
  for a count at least two above the limit, its one hypothesis; `analysis-template.yaml` says
  3 and 1. `PassesToCome` collects what can still make a measurement pass: threads whose
  scrape was given up, a gauge, a sample. `PassesAreLate` bounds them, with the
  passes there were, by the late answers, which a run with few threads could not
  show in general.

### What is only model-checked

Temporal reasoning under fairness is out of the prover's reach, and so is ENABLED. The
liveness properties therefore stay with TLC: `EveryRequestEnds`, `EveryRowIsPublished`,
`StartedBatchIsExported`, `EveryRecordArrives`, `EveryRecordIsReconciled`, `RolloutEnds`, and the
fairness in `ImplementsSettling` and in `ImplementsFairDelivery`, whose safety is proved.
`SensorProcessor`'s assumption on its constants is part of `PipelineAssumption`, so
that TLC evaluates it with the run that instantiates the module.

## 5. What is not modelled

* The portal, the evidence and vulnerability validators, and the catalog's rules other
  than those on lineage: functions of one document, without interaction.
* `services/metrics.py`: one lock around counters that nothing in the data path reads.
* The quality gate's rules on single rows, and an export that renames a directory
  between the gate's listing and its reading (`read_parquet` would raise; the gate
  fails without a verdict and passes when repeated).
* What the metrics of traffic, latency, readiness and backlog find in an analysis;
  any of them may end it at any time. Series of the previous version that remain
  behind the canary service.
* Several processors in one consumer group: Compose runs one container.
* Parsing of timestamps and numbers in the two contracts: their outcome is a
  class of payload.
* Collectors, Terraform, Compose, dashboards and the other Kubernetes manifests:
  declarations for other systems.

## 6. Plan

In this order; the first eight are done.

1. `ApprovalAPI`, `OutboxPublisher`, `D2CEventConsumer`, each with safety and liveness.
2. `ApprovalDelivery` and `D2CPipeline`, the composition and its refinement.
3. `LakeSink`; `SensorProcessor`, `SensorSink`, `SensorPipeline`; `IcebergWriter`.
4. `SchemaCompatibility` as a pure algorithm against its meaning.
5. `ApprovalAPI_proofs` and `OutboxPublisher_proofs`: type correctness and the
   safety invariants.
6. `RecordSettling`, refined by the consumer and the processor; `ConsumerRollout`.
7. The gates: `LakeQualityGate`, `IcebergValidation`, `CanaryGate`, `LineageCatalog`,
   `ReleaseChecks`.
8. Proofs of the invariants of every module, of the steps of `ImplementsSettling`,
   `ImplementsRouting` and `ImplementsDelivery`, and of `ReplayAddsNothing`.
9. Proofs that could be added: action properties such as "what was acknowledged, stored
   or audited is never taken back"; the consumer's `CommittedIsSettled` inside
   `D2CPipeline`, by an instance of its proofs like those of the API and the publisher.
10. Models that could still be added: several processors in one group with a
   rebalance; an abstract specification of the lake (a batch appears at once).
