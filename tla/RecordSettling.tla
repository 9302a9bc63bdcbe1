--------------------------- MODULE RecordSettling ---------------------------
(* What a consumer loop of this platform promises for one partition, with   *)
(* its polls, failures and restarts left out: the records are settled one   *)
(* after the other, an accepted one by an effect that happens once however  *)
(* often the record is handled, a rejected one by a place in the dead-      *)
(* letter topic, and the offset moves over a record that is settled.        *)
EXTENDS Naturals, Sequences

CONSTANTS Accepted,   \* payloads that are kept
          Rejected,   \* payloads that are set aside
          Unreadable, \* payloads that also stop the loop in front of them
          Reach,      \* how many records in front of one are stopped by it
          Effect(_, _) \* what an accepted payload at an offset is kept as

VARIABLES log,        \* the partition
          done,       \* the committed offset
          kept,       \* what was kept
          aside       \* offsets of the records in the dead-letter topic

vars == <<log, done, kept, aside>>

Init == log = <<>> /\ done = 0 /\ kept = {} /\ aside = {}

Produce ==
    /\ Len(log') = Len(log) + 1 /\ SubSeq(log', 1, Len(log)) = log
    /\ UNCHANGED <<done, kept, aside>>

HasNext == done < Len(log)
NextRecord == log[done + 1]

Keep ==
    /\ HasNext /\ NextRecord \in Accepted
    /\ kept' = kept \cup {Effect(NextRecord, done + 1)}
    /\ UNCHANGED <<log, done, aside>>

SetAside ==
    /\ HasNext /\ NextRecord \in Rejected
    /\ aside' = aside \cup {done + 1}
    /\ UNCHANGED <<log, done, kept>>

Settled ==
    \/ NextRecord \in Accepted /\ Effect(NextRecord, done + 1) \in kept
    \/ NextRecord \in Rejected /\ done + 1 \in aside

Advance ==
    /\ HasNext /\ Settled
    /\ done' = done + 1
    /\ UNCHANGED <<log, kept, aside>>

Next == Produce \/ Keep \/ SetAside \/ Advance

\* Nothing within reach of the next record stops the loop in front of it.
Clear == \A i \in (done + 1)..(done + Reach) : i <= Len(log) => log[i] \notin Unreadable

\* While it is clear, the next record is settled and passed, unless it is of
\* neither kind.
Fairness ==
    /\ WF_vars(Clear /\ Keep)
    /\ WF_vars(Clear /\ SetAside)
    /\ WF_vars(Clear /\ Advance)

SafeSpec == Init /\ [][Next]_vars
Spec == SafeSpec /\ Fairness
=============================================================================
