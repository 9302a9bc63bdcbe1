--------------------------- MODULE LakeQualityGate ---------------------------
(* The quality gate of the lake (services/quality.py): it reads every       *)
(* Parquet file below the lake's path and counts the rows that break a      *)
(* rule.  The columns of a row were validated before it reached the ledger  *)
(* (sink.py); what an export or its interruption can break is that a file   *)
(* is readable and that no event_id comes twice.                            *)
EXTENDS LakeSink

\* The search for *.parquet follows no names: it also finds the files of the
\* directories .staging-* and .quarantine-*.
FoundDirectories ==
    {<<"final", b, final[b]>> : b \in {b \in Batches : final[b].exists}}
        \cup {<<"staging", b, staging[b]>> : b \in {b \in Batches : staging[b].exists}}
        \cup {<<"aside", NoBatch, d>> : d \in aside}

Copies(e) == Cardinality({found \in FoundDirectories : e \in found[3].events})

\* read_parquet raises on a file it cannot read, the search if it finds none.
GateVerdict ==
    IF \E found \in FoundDirectories : found[3].torn THEN "unreadable"
    ELSE IF \A e \in Events : Copies(e) = 0 THEN "empty"
    ELSE IF \E e \in Events : Copies(e) > 1 THEN "duplicate_rows"
    ELSE "passed"

\* What an alarm of the gate means, at whatever instant of an export it runs.
\* A file that cannot be read is being written at that instant, or a crash has
\* left it: the export needs no crash to alarm the gate, as write_parquet fills
\* data.parquet in place below .staging-* (lake_sink.py:305).  An event_id that
\* comes twice is in a directory that was set aside after a crash: batches are
\* disjoint, and an event moves from staging to its final directory without
\* being in both or in neither.
GateAlarmsAreExplained ==
    /\ GateVerdict = "unreadable" =>
           \/ pc = "file"
           \/ crashes > 0 /\ (aside # {} \/ \E b \in Batches : staging[b].exists)
    /\ GateVerdict = "duplicate_rows" => crashes > 0 /\ aside # {}
=============================================================================
