--------------------------- MODULE SensorPipeline ---------------------------
(***************************************************************************)
(* The sensor path: SensorProcessor writes the clean topic that SensorSink *)
(* reads.  The two processes share nothing else.  Another producer of the  *)
(* clean topic may add one record that is no canonical event.              *)
(***************************************************************************)
EXTENDS SensorSink

CONSTANTS RawTopics, Good, RawMalformed, RawPoison, Reading,  \* see SensorProcessor
          MaxRaw, MaxFaults,
          MaxRecords   \* bound: records of all raw topics together

VARIABLES raw, committed, position, current, cursor, stage, dlq, faults

Processor == INSTANCE SensorProcessor WITH Malformed <- RawMalformed, Poison <- RawPoison

ASSUME PipelineAssumption ==
    /\ Processor!ProcessorAssumption
    /\ Processor!Normalized \subseteq Readings
    /\ [topic : RawTopics, offset : 1..MaxRaw] \subseteq Sources
    \* the sink accepts whatever the normalizer makes
    /\ Foreign \cap Processor!CleanEvent = {}
    /\ MaxRecords \in Nat

processorOnly == <<raw, committed, position, current, cursor, stage, dlq, faults>>
sinkOnly == <<stored, sinkDlq, offset, sinkLoop, sinkCrashes>>
vars == <<processorOnly, clean, sinkOnly>>

Init == Processor!Init /\ SinkInit

RawRecords == [topic : RawTopics, offset : 1..MaxRaw]
Collected(log) == {s \in RawRecords : s.offset <= Len(log[s.topic])}
ProcessorStep ==
    /\ Processor!Next
    /\ Cardinality(Collected(raw')) <= MaxRecords
    /\ UNCHANGED sinkOnly
SinkStep == SinkNext /\ UNCHANGED processorOnly

Intrude(m) ==
    /\ \A i \in DOMAIN clean : Accepted(clean[i])
    /\ Publish(m)
    /\ UNCHANGED processorOnly

Next == ProcessorStep \/ SinkStep \/ \E m \in Foreign : Intrude(m)

Spec == Init /\ [][Next]_vars
FairSpec == Spec /\ Processor!ProcessorFairness /\ SinkFairness

(***************************************************************************)
(* Safety                                                                  *)
(***************************************************************************)

\* A stored row names a raw record that normalises to the row's reading, and no
\* reading has two rows, though copies of it arrive on both topics and both
\* processes replay.
RowsAreTrueAndUnique ==
    /\ \A row \in stored :
          LET s == row.source
          IN  /\ s.offset \in DOMAIN raw[s.topic]
              /\ raw[s.topic][s.offset] \in Good
              /\ Reading[raw[s.topic][s.offset]] = row.reading
    /\ \A a, b \in stored : a.reading = b.reading => a = b

\* The safety of the processor, in the composition (see SensorProcessor).
CommittedIsRouted == Processor!CommittedIsRouted
ImplementsRouting == Processor!ImplementsRouting

(***************************************************************************)
(* Liveness                                                                *)
(***************************************************************************)
\* Every raw record gets where it belongs, through crashes of both processes: the
\* reading of a valid one to the table, an invalid one to the dead-letter topic,
\* unless a record raises an unhandled exception in one of the processes, in the
\* sink also while poll() decodes it.
SinkBlocked == \E i \in DOMAIN clean : clean[i] \in Poison \cup Undecodable
Stored(t, i) == raw[t][i] \in Good /\ Reading[raw[t][i]] \in StoredReadings
SetAside(t, i) == raw[t][i] \in RawMalformed /\ Processor!Routed(t, i)
EveryRecordArrives ==
    \A t \in RawTopics : \A i \in 1..MaxRaw :
        i \in DOMAIN raw[t] ~>
            \/ SinkBlocked \/ Processor!Blocked
            \/ (i \in DOMAIN raw[t] /\ (Stored(t, i) \/ SetAside(t, i)))
=============================================================================
