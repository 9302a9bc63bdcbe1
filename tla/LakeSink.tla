------------------------------ MODULE LakeSink ------------------------------
(***************************************************************************)
(* write_canonical_events (services/lake_sink.py): one call commits the    *)
(* events it is given to a DuckDB ledger under a batch id, exports the     *)
(* batch's rows as a directory of Parquet files, one per event date, and   *)
(* records an export marker.  The ledger, the directories and the marker   *)
(* are three separate durable effects; the process may die between any     *)
(* two, and what a later call finds decides what it does.                  *)
(*                                                                         *)
(* The ledger's DuckDB lock admits one call at a time.  The calls are made *)
(* by scripts/export_sensor_duckdb_to_lake.py, each with everything the    *)
(* sensor table holds at that time.                                        *)
(***************************************************************************)
EXTENDS Integers, FiniteSets

CONSTANTS Events,      \* canonical events, by event_id
          Dates,       \* event dates
          DateOf,      \* the event_date of each event
          Batches,     \* batch ids
          Policies,    \* how operators choose batch ids (see MayCall)
          MaxCrashes   \* bound: crashes of a call

NoBatch == "none"

ASSUME LakeAssumption ==
    /\ DateOf \in [Events -> Dates]
    /\ NoBatch \notin Batches
    /\ Policies \subseteq {"retry", "fresh", "any"}
    /\ MaxCrashes \in Nat

VARIABLES policy,     \* how the operator of this lake chooses batch ids
          source,     \* events in the sensor table
          ledger,     \* lake_events: the batch that owns each event
          markers,    \* exported_batches
          final,      \* the directory batch_id=<b>
          staging,    \* the directory .staging-<b>
          aside,      \* contents of the .quarantine-* directories
          pc,         \* what the running call does next
          batch,      \* its batch id
          input,      \* the events it was given
          attempted,  \* batch ids that were ever passed to a call
          reported,   \* events a successful call counted as new or duplicate
          crashes     \* crashes so far

durableVars == <<ledger, markers, final, staging, aside>>
historyVars == <<attempted, reported, crashes>>
lakeVars == <<policy, source, durableVars, pc, batch, input, historyVars>>

(***************************************************************************)
(* Types and helpers                                                       *)
(***************************************************************************)
Steps == {"idle", "ledger", "check", "asideFinal", "prepare",
          "write", "file", "validate", "rename", "verify", "mark"}

\* A directory: the events in its readable files, and whether one of its files
\* cannot be read, being written or cut short by a crash.
Directory == [exists : BOOLEAN, events : SUBSET Events, torn : BOOLEAN]
NoDirectory == [exists |-> FALSE, events |-> {}, torn |-> FALSE]
EmptyDirectory == [exists |-> TRUE, events |-> {}, torn |-> FALSE]

TypeOK ==
    /\ policy \in Policies
    /\ source \subseteq Events
    /\ ledger \in [Events -> Batches \cup {NoBatch}]
    /\ markers \subseteq Batches
    /\ final \in [Batches -> Directory]
    /\ staging \in [Batches -> Directory]
    /\ aside \subseteq Directory
    /\ pc \in Steps
    /\ batch \in Batches \cup {NoBatch}
    /\ input \subseteq Events
    /\ attempted \subseteq Batches
    /\ reported \subseteq Events
    /\ crashes \in 0..MaxCrashes

\* The event ids the ledger holds under batch b.
Owned(b) == {e \in Events : ledger[e] = b}

\* A comparison that skips the files it cannot read and looks for foreign events.
MatchesReadableFiles(directory, expected) == directory.events \subseteq expected

\* _export_matches_batch: every file is readable and together they hold
\* exactly the expected events.
Matches(directory, expected) ==
    ~directory.torn /\ directory.events = expected

Goto(step) == pc' = step
Frame == UNCHANGED <<policy, source, batch, input, historyVars>>

\* The call ends, with a result or an exception.
Return ==
    /\ pc' = "idle"
    /\ batch' = NoBatch
    /\ input' = {}

Init ==
    /\ policy \in Policies
    /\ source = {}
    /\ ledger = [e \in Events |-> NoBatch]
    /\ markers = {}
    /\ final = [b \in Batches |-> NoDirectory]
    /\ staging = [b \in Batches |-> NoDirectory]
    /\ aside = {}
    /\ pc = "idle"
    /\ batch = NoBatch
    /\ input = {}
    /\ attempted = {}
    /\ reported = {}
    /\ crashes = 0

(***************************************************************************)
(* The caller                                                              *)
(***************************************************************************)
\* services/sink.py stores another event in the sensor table.
Arrive(e) ==
    /\ e \notin source
    /\ source' = source \cup {e}
    /\ UNCHANGED <<policy, durableVars, pc, batch, input, historyVars>>

\* "fresh": every export takes a new id, as the RUNBOOK's $(date ...) does.
\* "retry": an id whose export has not finished is passed again first.
\* "any": ids are reused at will.
MayCall(b) ==
    CASE policy = "fresh" -> b \notin attempted
      [] policy = "retry" ->
             IF attempted \subseteq markers THEN b \notin attempted
             ELSE b \in attempted \ markers
      [] OTHER -> TRUE

\* The exported_batches lookup at the start of a call.  A batch with a marker
\* returns its export, or raises when the files do not match; all the rows it
\* was given are reported as duplicates.
CallExported(b) ==
    /\ pc = "idle"
    /\ MayCall(b)
    /\ b \in markers
    /\ reported' = IF \/ Matches(final[b], Owned(b))
                      \/ Owned(b) = {} /\ ~final[b].exists
                   THEN reported \cup source ELSE reported
    /\ UNCHANGED <<policy, source, durableVars, pc, batch, input, attempted, crashes>>

CallNew(b) ==
    /\ pc = "idle"
    /\ MayCall(b)
    /\ b \notin markers
    /\ Goto("ledger")
    /\ batch' = b
    /\ input' = source
    /\ attempted' = attempted \cup {b}
    /\ UNCHANGED <<policy, source, durableVars, reported, crashes>>

(***************************************************************************)
(* The ledger transaction                                                  *)
(***************************************************************************)

\* Exporting only when this call added rows, not when the batch has rows.
CommitLedgerNewRowsOnly ==
    /\ pc = "ledger"
    /\ ledger' = [e \in Events |->
                     IF e \in input /\ ledger[e] = NoBatch THEN batch ELSE ledger[e]]
    /\ Goto(IF ledger' = ledger THEN "mark" ELSE "check")
    /\ UNCHANGED <<markers, final, staging, aside>> /\ Frame

\* BEGIN ... INSERT ... WHERE NOT EXISTS ... COMMIT: events no batch owns yet.
CommitLedger ==
    /\ pc = "ledger"
    /\ ledger' = [e \in Events |->
                     IF e \in input /\ ledger[e] = NoBatch THEN batch ELSE ledger[e]]
    /\ Goto("check")
    /\ UNCHANGED <<markers, final, staging, aside>> /\ Frame

(***************************************************************************)
(* The export                                                              *)
(***************************************************************************)
\* _quarantine: rename a directory to .quarantine-<name>-<time>.
QuarantineStaging ==
    /\ aside' = aside \cup {staging[batch]}
    /\ staging' = [staging EXCEPT ![batch] = NoDirectory]
    /\ UNCHANGED <<ledger, markers, final>>

\* Trusting an existing final directory without comparing it.
CheckExistenceOnly ==
    /\ pc = "check"
    /\ Goto(IF Owned(batch) = {} \/ final[batch].exists THEN "mark" ELSE "prepare")
    /\ UNCHANGED durableVars /\ Frame

\* Nothing to export; or a finished export whose marker is missing; or a final
\* directory to set aside; or an export to make.  A staging directory beside a
\* finished export is set aside too (no run finds one: staging is renamed).
CheckExport ==
    /\ pc = "check"
    /\ LET done == final[batch].exists /\ Matches(final[batch], Owned(batch))
       IN  /\ Goto(IF Owned(batch) = {} \/ done THEN "mark"
                   ELSE IF final[batch].exists THEN "asideFinal" ELSE "prepare")
           /\ IF Owned(batch) # {} /\ done /\ staging[batch].exists
              THEN QuarantineStaging ELSE UNCHANGED durableVars
    /\ Frame

SetFinalAside ==
    /\ pc = "asideFinal"
    /\ aside' = aside \cup {final[batch]}
    /\ final' = [final EXCEPT ![batch] = NoDirectory]
    /\ Goto("prepare")
    /\ UNCHANGED <<ledger, markers, staging>> /\ Frame

RaiseOnStagingLeft ==
    /\ pc = "prepare"
    /\ staging[batch].exists
    /\ ~Matches(staging[batch], Owned(batch))
    /\ Return
    /\ UNCHANGED <<policy, source, durableVars, historyVars>>

\* A staging directory left by a crash is incomplete, or of a smaller batch.
SetStagingAside ==
    /\ pc = "prepare"
    /\ staging[batch].exists
    /\ ~Matches(staging[batch], Owned(batch))
    /\ QuarantineStaging
    /\ UNCHANGED pc /\ Frame

\* ... or complete, and is used as it is.
ReuseStaging ==
    /\ pc = "prepare"
    /\ staging[batch].exists
    /\ Matches(staging[batch], Owned(batch))
    /\ Goto("validate")
    /\ UNCHANGED durableVars /\ Frame

MakeStaging ==
    /\ pc = "prepare"
    /\ ~staging[batch].exists
    /\ staging' = [staging EXCEPT ![batch] = EmptyDirectory]
    /\ Goto("write")
    /\ UNCHANGED <<ledger, markers, final, aside>> /\ Frame

\* The dates of the batch that have no file in the staging directory yet.
Unwritten == {DateOf[e] : e \in Owned(batch) \ staging[batch].events}

\* write_parquet creates data.parquet in place and fills it: until it ends, the
\* file is there and cannot be read.
BeginPartition ==
    /\ pc = "write"
    /\ staging' = [staging EXCEPT ![batch].torn = TRUE]
    /\ Goto("file")
    /\ UNCHANGED <<ledger, markers, final, aside>> /\ Frame

\* The file of one date is finished; then the next date, or the comparison.
WritePartition(d) ==
    /\ pc = "file"
    /\ d \in Unwritten
    /\ staging' = [staging EXCEPT
                      ![batch].torn = FALSE,
                      ![batch].events = @ \cup {e \in Owned(batch) : DateOf[e] = d}]
    /\ Goto(IF Unwritten = {d} THEN "validate" ELSE "write")
    /\ UNCHANGED <<ledger, markers, final, aside>> /\ Frame

\* The export is compared with the ledger, and only then moved into place; a
\* mismatch or a final directory that is in the way raises.
ValidateStaging ==
    /\ pc = "validate"
    /\ IF Matches(staging[batch], Owned(batch)) /\ ~final[batch].exists
       THEN Goto("rename") /\ UNCHANGED <<batch, input>>
       ELSE Return
    /\ UNCHANGED <<policy, source, durableVars, historyVars>>

\* A copy in place of the rename.
PublishCopy ==
    /\ pc = "rename"
    /\ final' = [final EXCEPT ![batch] = staging[batch]]
    /\ Goto("verify")
    /\ UNCHANGED <<ledger, markers, staging, aside>> /\ Frame

\* staging_path.rename(final_path).
Publish ==
    /\ pc = "rename"
    /\ final' = [final EXCEPT ![batch] = staging[batch]]
    /\ staging' = [staging EXCEPT ![batch] = NoDirectory]
    /\ Goto("verify")
    /\ UNCHANGED <<ledger, markers, aside>> /\ Frame

VerifyFinal ==
    /\ pc = "verify"
    /\ IF Matches(final[batch], Owned(batch))
       THEN Goto("mark") /\ UNCHANGED <<batch, input>>
       ELSE Return
    /\ UNCHANGED <<policy, source, durableVars, historyVars>>

\* INSERT INTO exported_batches, and the result counts every row received.
Mark ==
    /\ pc = "mark"
    /\ markers' = markers \cup {batch}
    /\ reported' = reported \cup input
    /\ Return
    /\ UNCHANGED <<policy, source, ledger, final, staging, aside, attempted, crashes>>

(***************************************************************************)
(* Crashes                                                                 *)
(***************************************************************************)
\* The process dies; a file it was writing stays as it is.
Crash ==
    /\ pc # "idle"
    /\ crashes < MaxCrashes
    /\ crashes' = crashes + 1
    /\ Return
    /\ UNCHANGED <<policy, source, durableVars, attempted, reported>>

(***************************************************************************)
(* Specification                                                           *)
(***************************************************************************)
CallStep ==
    \/ CommitLedger
    \/ CheckExport
    \/ SetFinalAside
    \/ SetStagingAside
    \/ ReuseStaging
    \/ MakeStaging
    \/ BeginPartition
    \/ \E d \in Dates : WritePartition(d)
    \/ ValidateStaging
    \/ Publish
    \/ VerifyFinal
    \/ Mark

Next ==
    \/ \E e \in Events : Arrive(e)
    \/ \E b \in Batches : CallExported(b) \/ CallNew(b)
    \/ CallStep
    \/ Crash

Spec == Init /\ [][Next]_lakeVars

\* A running call goes on, and an export that failed is called again.
FairSpec ==
    /\ Spec
    /\ WF_lakeVars(CallStep)
    /\ WF_lakeVars(\E b \in attempted : CallNew(b))

(***************************************************************************)
(* Safety                                                                  *)
(***************************************************************************)
\* A marker is the promise that the batch is on disk: its final directory
\* holds exactly the events the ledger says it owns, all of them readable.
MarkerMeansExported ==
    \A b \in markers :
        /\ ~final[b].torn
        /\ final[b].events = Owned(b)

\* What may happen to the final directory of batch b: it appears with everything
\* the ledger gives the batch, or it goes into quarantine, unmarked, as it is.
Appears(b) ==
    /\ ~final[b].exists
    /\ Owned(b) # {}
    /\ final'[b] = [exists |-> TRUE, events |-> Owned(b), torn |-> FALSE]
IsSetAside(b) ==
    /\ ~final'[b].exists
    /\ b \notin markers
    /\ final[b] \in aside'

\* A reader of the final directories sees no half of an export, whichever calls
\* crashed before and whatever they left under the same batch id: a directory
\* appears there readable and complete, is never changed in place, and leaves
\* only into quarantine and never once its batch has a marker.
FinalsAreWhole ==
    [][\A b \in Batches : final'[b] # final[b] => Appears(b) \/ IsSetAside(b)]_lakeVars

\* Whatever a successful call counted, as new or as duplicate, is in a final
\* directory (README.md, "a crash between ledger commit and Parquet rename is
\* recovered").  With a fresh id for every export it is not.
Exported == UNION {final[b].events : b \in Batches}
ReportedIsExported == pc = "idle" => reported \subseteq Exported

\* It is as long as an unfinished batch is retried under its own id.
RetriedIsExported == policy = "retry" => ReportedIsExported

(***************************************************************************)
(* Liveness                                                                *)
(***************************************************************************)
\* A batch that was started is exported and marked in spite of crashes, if the
\* operator calls again with its id: no leftover directory blocks it for ever.
StartedBatchIsExported ==
    \A b \in Batches : policy = "retry" /\ b \in attempted ~> b \in markers
=============================================================================
