----------------------------- MODULE CanaryGate -----------------------------
(* The gate in front of a new version of the approval API: the parity       *)
(* gauges of the canary pod (app.py), the Prometheus scrapes that read them *)
(* (service-monitors.yaml), and the analysis that promotes or aborts the    *)
(* canary (rollout.yaml, analysis-template.yaml).                           *)
(*                                                                          *)
(* A scrape of /metrics runs the parity query in a thread of its own and    *)
(* then sets gauges that all threads share, one after the other.  A scrape  *)
(* that Prometheus has given up goes on in its thread.                      *)
EXTENDS Naturals

CONSTANTS
    Threads,       \* request threads of the canary pod
    NoThread,
    NoSample,      \* what a query finds when the series are stale
    Steps,         \* setWeight steps of the rollout, each with an analysis
    Measurements,  \* "count" of the analysis
    FailureLimit,  \* "failureLimit" of the analysis
    MaxOutages,    \* bound: outages of the database
    MaxLate        \* bound: scrapes given up that still set their answer

\* The metrics with a failure limit of their own.  What canary-traffic,
\* apply-p95-latency, database-readiness and outbox-backlog find is left open:
\* any of them may end an analysis at any time.
Metrics == {"outbox-parity", "parity-check-health", "apply-5xx-ratio"}

ASSUME GateAssumption ==
    /\ NoThread \notin Threads
    /\ {Steps, Measurements} \subseteq Nat \ {0}
    /\ {FailureLimit, MaxOutages, MaxLate} \subseteq Nat

VARIABLES
    phase,     \* "stable" (no rollout), "canary", "promoted" or "aborted"
    step,      \* the step under way
    taken,     \* measurements the step's analysis has taken
    failures,  \* failed measurements of each metric
    store,     \* applications and outbox "agree", "differ", or are "away"
    outages,   \* times the database was lost
    broken,    \* ever since the step began the store has not agreed
    pc,        \* where each thread is in refresh_outbox_parity_metric
    result,    \* what its query found
    late,      \* threads that went on with an answer after the time-out
    gauges,    \* the gauges of the pod
    scraped,   \* the thread Prometheus waits for
    sample,    \* the gauges in the last scrape, NoSample if it timed out
    errors,    \* Prometheus has a series of 5xx answers of /api/apply
    refreshed  \* a scrape begun since the last measurement has ended

surroundings == <<store, outages, broken>>
pod == <<pc, result, late, gauges>>
prometheus == <<scraped, sample, errors, refreshed>>
rollout == <<phase, step, taken, failures>>
gateVars == <<surroundings, pod, prometheus, rollout>>

Gauges == {"gap", "check"}

GateTypeOK ==
    /\ phase \in {"stable", "canary", "promoted", "aborted"}
    /\ step \in 1..Steps /\ taken \in 0..Measurements
    /\ failures \in [Metrics -> 0..FailureLimit + 1]
    /\ store \in {"agree", "differ", "away"}
    /\ outages \in 0..MaxOutages /\ late \in 0..MaxLate
    /\ {broken, refreshed, errors} \subseteq BOOLEAN
    /\ pc \in [Threads -> {"idle", "query", "gap", "check", "render"}]
    /\ result \in [Threads -> {"none", "equal", "unequal", "failed"}]
    /\ gauges \in [Gauges -> BOOLEAN]
    /\ scraped \in Threads \cup {NoThread}
    /\ sample \in [Gauges -> BOOLEAN] \cup {NoSample}

-----------------------------------------------------------------------------
NoFailures == [m \in Metrics |-> 0]

GateInit ==
    /\ phase = "stable"
    /\ step = 1 /\ taken = 0 /\ failures = NoFailures
    /\ store = "agree"
    /\ outages = 0 /\ broken = FALSE
    /\ pc = [t \in Threads |-> "idle"]
    /\ result = [t \in Threads |-> "none"]
    /\ late = 0
    /\ gauges = [g \in Gauges |-> FALSE]
    /\ scraped = NoThread /\ sample = NoSample
    /\ errors = FALSE /\ refreshed = FALSE

\* A new version is applied; the first step sends it some of the traffic.
StartRollout ==
    /\ phase = "stable"
    /\ phase' = "canary"
    /\ broken' = (store # "agree")
    /\ UNCHANGED <<step, taken, failures, store, outages, pod, prometheus>>

\* The database becomes unreachable, comes back, or holds an application
\* without its event, whoever wrote it.
StoreChanges ==
    /\ phase = "canary"
    /\ \/ /\ store # "away" /\ outages < MaxOutages
          /\ store' = "away" /\ outages' = outages + 1
       \/ /\ store = "away"
          /\ store' \in {"agree", "differ"} /\ outages' = outages
       \/ /\ store = "agree"
          /\ store' = "differ" /\ outages' = outages
    /\ broken' = (broken /\ store' # "agree")
    /\ UNCHANGED <<pod, prometheus, rollout>>

-----------------------------------------------------------------------------
(* Scrapes of /metrics.                                                     *)

Idle == {t \in Threads : pc[t] = "idle"}

\* Prometheus asks for /metrics and a free thread takes the request.
BeginScrape ==
    /\ phase = "canary" /\ scraped = NoThread /\ Idle # {}
    /\ LET t == CHOOSE t \in Idle : TRUE
       IN  scraped' = t /\ pc' = [pc EXCEPT ![t] = "query"]
    /\ UNCHANGED <<surroundings, result, late, gauges, sample, errors,
                   refreshed, rollout>>

\* The parity query, of a thread Prometheus may have given up.
Query(t) ==
    /\ phase = "canary" /\ pc[t] = "query"
    /\ late' = IF scraped = t \/ store = "away" THEN late ELSE late + 1
    /\ late' \leq MaxLate
    /\ result' = [result EXCEPT ![t] = CASE store = "agree" -> "equal"
                                         [] store = "differ" -> "unequal"
                                         [] store = "away" -> "failed"]
    /\ pc' = [pc EXCEPT ![t] = "gap"]
    /\ UNCHANGED <<surroundings, gauges, prometheus, rollout>>

\* OUTBOX_PARITY_GAP.set, to 1 also if the query failed
SetGap(t) ==
    /\ phase = "canary" /\ pc[t] = "gap"
    /\ gauges' = [gauges EXCEPT !["gap"] = result[t] # "equal"]
    /\ pc' = [pc EXCEPT ![t] = "check"]
    /\ UNCHANGED <<surroundings, result, late, prometheus, rollout>>

\* OUTBOX_PARITY_CHECK.set, and DB_READINESS.set to the same value
SetCheck(t) ==
    /\ phase = "canary" /\ pc[t] = "check"
    /\ gauges' = [gauges EXCEPT !["check"] = result[t] # "failed"]
    /\ pc' = [pc EXCEPT ![t] = "render"]
    /\ result' = [result EXCEPT ![t] = "none"]
    /\ UNCHANGED <<surroundings, late, prometheus, rollout>>

\* The answer of /metrics, which nobody reads if the scrape was given up.  It
\* has a series of 5xx answers from the first one on.
Render(t) ==
    /\ phase = "canary" /\ pc[t] = "render"
    /\ pc' = [pc EXCEPT ![t] = "idle"]
    /\ IF scraped = t
       THEN /\ sample' = gauges
            /\ errors' \in {errors, TRUE}
            /\ scraped' = NoThread /\ refreshed' = TRUE
       ELSE UNCHANGED prometheus
    /\ UNCHANGED <<surroundings, result, late, gauges, rollout>>

\* A query without the staleness of its series: the last value stays.
TimeOutKeepingSample ==
    /\ phase = "canary"
    /\ scraped # NoThread \/ Idle = {}
    /\ scraped' = NoThread /\ refreshed' = TRUE
    /\ UNCHANGED <<surroundings, pod, sample, errors, rollout>>

\* scrapeTimeout: the series go stale and the thread goes on by itself.  A
\* scrape that finds all threads hanging does not even begin.
TimeOut ==
    /\ phase = "canary"
    /\ scraped # NoThread \/ Idle = {}
    /\ late' = IF \E t \in Threads : scraped = t /\ result[t] \in {"equal", "unequal"}
               THEN late + 1 ELSE late
    /\ late' \leq MaxLate
    /\ scraped' = NoThread /\ sample' = NoSample /\ refreshed' = TRUE
    /\ UNCHANGED <<surroundings, pc, result, gauges, errors, rollout>>

-----------------------------------------------------------------------------
(* The analysis of a step.                                                  *)

\* The gauges of a stale series count as a gap and as a failed check.
GaugesPass ==
    (IF sample # NoSample /\ ~sample["gap"] THEN {"outbox-parity"} ELSE {})
        \cup (IF sample # NoSample /\ sample["check"] THEN {"parity-check-health"} ELSE {})

\* The ratio has a value, high or low, once there is a series of 5xx answers.  A
\* sum over no series is no series: then the default of 1 is taken, which fails.
RatioMayPass == IF errors THEN {"apply-5xx-ratio"} ELSE {}

\* A measurement of every metric: the analysis fails with one failure of a
\* metric more than its limit and succeeds after the last measurement.
Judge(passing) ==
    LET now == [m \in Metrics |-> failures[m] + IF m \in passing THEN 0 ELSE 1]
        exceeded == \E m \in Metrics : now[m] > FailureLimit
        last == taken + 1 = Measurements
    IN  \E failed \in {exceeded, TRUE} :
        /\ phase' = IF failed THEN "aborted"
                    ELSE IF last /\ step = Steps THEN "promoted" ELSE phase
        /\ IF ~failed /\ last /\ step < Steps
           THEN /\ step' = step + 1 /\ taken' = 0 /\ failures' = NoFailures
                /\ broken' = (store # "agree")
           ELSE /\ taken' = taken + 1 /\ failures' = now
                /\ UNCHANGED <<step, broken>>

\* A query without "or vector(...)" has no result without a series.
MeasureSample ==
    /\ phase = "canary" /\ refreshed /\ scraped = NoThread
    /\ sample # NoSample
    /\ refreshed' = FALSE
    /\ \E ratio \in SUBSET RatioMayPass : Judge(GaugesPass \cup ratio)
    /\ UNCHANGED <<store, outages, pod, scraped, sample, errors>>

\* The metrics are measured every 20 seconds; in that time a scrape begins
\* and ends or times out (interval 15s, scrapeTimeout 5s).
Measure ==
    /\ phase = "canary" /\ refreshed /\ scraped = NoThread
    /\ refreshed' = FALSE
    /\ \E ratio \in SUBSET RatioMayPass : Judge(GaugesPass \cup ratio)
    /\ UNCHANGED <<store, outages, pod, scraped, sample, errors>>

-----------------------------------------------------------------------------
ThreadStep(t) ==
    \/ Query(t)
    \/ SetGap(t)
    \/ SetCheck(t)
    \/ Render(t)

GateNext ==
    \/ StartRollout
    \/ StoreChanges
    \/ BeginScrape
    \/ \E t \in Threads : ThreadStep(t)
    \/ TimeOut
    \/ Measure

\* Prometheus scrapes, gives up and the analysis measures by their clocks; a
\* thread that has its answer finishes.  A query may hang for ever.
GateFairness ==
    /\ WF_gateVars(BeginScrape) /\ WF_gateVars(TimeOut) /\ SF_gateVars(Measure)
    /\ \A t \in Threads : WF_gateVars(SetGap(t) \/ SetCheck(t) \/ Render(t))

GateSpec == GateInit /\ [][GateNext]_gateVars /\ GateFairness

-----------------------------------------------------------------------------
\* A canary is not promoted if the tables have not agreed for a moment since
\* its last step began, whatever outages, hanging queries, interleaved gauges and
\* a scrape answered late make of it.  (With a second late answer it may be.)
BrokenIsNotPromoted == broken /\ late < 2 => phase # "promoted"

\* Every rollout is decided, also while the database hangs every thread.
RolloutEnds == (phase = "canary") ~> (phase \in {"promoted", "aborted"})

\* "/api/apply 5xx ratio < 1%; on failure: the canary does not handle approval
\* requests stably" (RUNBOOK.md:27).  Not kept: without a 5xx the query has its
\* default, 1, so the canary that never failed a request is aborted for it.
RatioFailureNeedsErrors ==
    failures["apply-5xx-ratio"] > FailureLimit => errors
=============================================================================
