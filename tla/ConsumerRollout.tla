--------------------------- MODULE ConsumerRollout ---------------------------
(***************************************************************************)
(* D2CEventConsumer run by its Deployment through a rolling update         *)
(* (k8s/d2c/base/consumer-deployment.yaml): one replica, so the new pod is *)
(* created before the old one is deleted, on the volume both share.  A     *)
(* process serves /metrics first, then takes the lock of the DuckDB file;  *)
(* if another process holds it, duckdb.connect raises and the process      *)
(* ends.  Both probes ask for /metrics, so a new pod passes for ready in   *)
(* the moment before it fails, and only then is the old one deleted.       *)
(***************************************************************************)
EXTENDS D2CEventConsumer

Pods == {"old", "new"}

VARIABLES process,     \* the process of each pod: see ProcessStates
          ready,       \* pods whose last probe succeeded
          terminating  \* the old pod is being deleted

podVars == <<process, ready, terminating>>
rolloutVars == <<consumerVars, podVars>>

\* No pod; a container that waits for its restart; a process that serves
\* /metrics; one that also holds the lock and runs the loop.
ProcessStates == {"absent", "ended", "serving", "consuming"}

RolloutTypeOK ==
    /\ TypeOK
    /\ process \in [Pods -> ProcessStates]
    /\ ready \subseteq Pods
    /\ terminating \in BOOLEAN

LockHolders == {p \in Pods : process[p] = "consuming"}

RolloutInit ==
    /\ Init
    /\ process = [p \in Pods |-> IF p = "old" THEN "ended" ELSE "absent"]
    /\ ready = {}
    /\ terminating = FALSE

(***************************************************************************)
(* A process                                                               *)
(***************************************************************************)
\* The container is started (again); start_metrics_server comes first.
Serve(p) ==
    /\ process[p] = "ended"
    /\ process' = [process EXCEPT ![p] = "serving"]
    /\ UNCHANGED <<consumerVars, ready, terminating>>

\* Each pod with a volume of its own: the lock is free and the table empty.
ConnectAlone(p) ==
    /\ process[p] = "serving"
    /\ stage = "down" /\ stage' = "poll"
    /\ cursor' = committed /\ limit' = committed
    /\ store' = {}
    /\ process' = [process EXCEPT ![p] = "consuming"]
    /\ UNCHANGED <<topic, committed, dlq, crashes, ready, terminating>>

\* duckdb.connect gets the lock, and the loop starts at the committed offset.
Connect(p) ==
    /\ process[p] = "serving" /\ LockHolders = {}
    /\ Start
    /\ process' = [process EXCEPT ![p] = "consuming"]
    /\ UNCHANGED <<ready, terminating>>

\* duckdb.connect raises: finally shuts the metrics server down.
FindLocked(p) ==
    /\ process[p] = "serving" /\ LockHolders # {}
    /\ process' = [process EXCEPT ![p] = "ended"]
    /\ ready' = ready \ {p}
    /\ UNCHANGED <<consumerVars, terminating>>

\* A step that ends the process gives up the lock, after the consumer has
\* left its group.
EndWithLoop(p) ==
    /\ IF stage' = "down"
       THEN /\ process' = [process EXCEPT ![p] = "ended"]
            /\ ready' = ready \ {p}
       ELSE UNCHANGED <<process, ready>>
    /\ UNCHANGED terminating

Consume(p) == process[p] = "consuming" /\ Proceed /\ EndWithLoop(p)

FailConsuming(p) == process[p] = "consuming" /\ Fault /\ EndWithLoop(p)

(***************************************************************************)
(* The kubelet and the controller of the Deployment                        *)
(***************************************************************************)
\* A probe finds /metrics.
Probe(p) ==
    /\ process[p] \in {"serving", "consuming"} /\ p \notin ready
    /\ ready' = ready \cup {p}
    /\ UNCHANGED <<consumerVars, process, terminating>>

\* A new version is applied.
Surge ==
    /\ process["new"] = "absent"
    /\ process' = [process EXCEPT !["new"] = "ended"]
    /\ UNCHANGED <<consumerVars, ready, terminating>>

\* The new pod is available, so the old one may go.
Delete ==
    /\ "new" \in ready /\ ~terminating
    /\ terminating' = TRUE
    /\ UNCHANGED <<consumerVars, process, ready>>

\* SIGTERM ends the loop after the batch, or the grace period ends the
\* process in the middle of it.
Terminate ==
    /\ terminating /\ process["old"] # "absent"
    /\ IF process["old"] = "consuming"
       THEN /\ Exit
            /\ UNCHANGED <<topic, committed, store, dlq, crashes>>
       ELSE UNCHANGED consumerVars
    /\ process' = [process EXCEPT !["old"] = "absent"]
    /\ ready' = ready \ {"old"}
    /\ UNCHANGED terminating

RolloutNext ==
    \/ \E m \in Payloads : Produce(m) /\ UNCHANGED podVars
    \/ \E p \in Pods :
          \/ Serve(p)
          \/ Connect(p)
          \/ FindLocked(p)
          \/ Consume(p)
          \/ FailConsuming(p)
          \/ Probe(p)
    \/ Surge
    \/ Delete
    \/ Terminate

\* Containers are restarted, a process takes its next step, and the grace
\* period ends.  Nothing is assumed of the probe and the controller: whether
\* a probe ever meets the moment in which the new pod answers is left open.
RolloutFairness ==
    /\ \A p \in Pods :
          /\ WF_rolloutVars(Serve(p))
          /\ WF_rolloutVars(Connect(p) \/ FindLocked(p))
          /\ WF_rolloutVars(Consume(p))
    /\ WF_rolloutVars(Terminate)

RolloutSpec == RolloutInit /\ [][RolloutNext]_rolloutVars /\ RolloutFairness
=============================================================================
