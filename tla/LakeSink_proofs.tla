--------------------------- MODULE LakeSink_proofs ---------------------------
(***************************************************************************)
(* Proofs about LakeSink and the gate that reads its directories, for any  *)
(* events, dates, batch ids and policies and any number of crashes.        *)
(***************************************************************************)
EXTENDS LakeQualityGate, FiniteSetTheorems, TLAPS

(***************************************************************************)
(* The inductive invariant                                                 *)
(***************************************************************************)
\* The directories of a batch hold events the ledger gives to that batch, never
\* both of them exist, and one that does not exist holds nothing.
DirectoriesAreOwned ==
    \A b \in Batches :
        /\ final[b].events \subseteq Owned(b)
        /\ staging[b].events \subseteq Owned(b)
        /\ staging[b].exists => ~final[b].exists
        /\ ~final[b].exists => final[b] = NoDirectory
        /\ ~staging[b].exists => staging[b] = NoDirectory

\* A final directory is readable, not empty, and holds only events of its batch.
FinalsAreReadable ==
    \A b \in Batches :
        final[b].exists =>
            /\ ~final[b].torn
            /\ final[b].events # {}
            /\ final[b].events \subseteq Owned(b)

\* A batch id in the ledger, in the markers or on disk was passed to a call,
\* and a call works on a batch that has no marker.
CallsAreRemembered ==
    /\ pc # "idle" => batch \in attempted \ markers
    /\ markers \subseteq attempted
    /\ \A e \in Events : ledger[e] \in attempted \cup {NoBatch}
    /\ \A b \in Batches : staging[b].exists => b \in attempted

\* What the steps of a call have established before each of them.
CallProgress ==
    /\ pc \in {"asideFinal", "prepare", "write", "file", "validate", "rename", "verify"} =>
           Owned(batch) # {}
    /\ pc \in {"prepare", "write", "file", "validate", "rename"} => ~final[batch].exists
    /\ pc \in {"write", "file", "validate", "rename"} => staging[batch].exists
    /\ pc = "write" => ~staging[batch].torn
    /\ pc \in {"validate", "rename"} => Matches(staging[batch], Owned(batch))
    /\ pc \in {"verify", "mark"} => Matches(final[batch], Owned(batch))
    /\ pc \notin {"idle", "ledger"} => \A e \in input : ledger[e] # NoBatch

\* An operator who retries leaves one batch unfinished at a time, and every
\* event that was counted belongs to a batch with a marker.
RetriesFinish ==
    policy = "retry" =>
        /\ \A b, c \in attempted \ markers : b = c
        /\ \A e \in reported : ledger[e] \in markers

\* Without a crash every call marks its batch and nothing is left behind.
NothingIsLeft ==
    crashes = 0 =>
        /\ aside = {}
        /\ \A b \in attempted \ markers : pc # "idle" /\ b = batch
        /\ \A b \in Batches :
               staging[b].exists => b = batch /\ pc \in {"write", "file", "validate", "rename"}
        /\ pc \in {"ledger", "check"} => ~final[batch].exists
        /\ pc # "asideFinal"

IInv ==
    /\ TypeOK
    /\ DirectoriesAreOwned
    /\ CallsAreRemembered
    /\ CallProgress
    /\ FinalsAreReadable
    /\ MarkerMeansExported
    /\ RetriesFinish
    /\ NothingIsLeft

(***************************************************************************)
(* Lemmas                                                                  *)
(***************************************************************************)
\* The ledger gives events to the batch of the call and takes none away.
LEMMA LedgerGrows ==
    ASSUME TypeOK, CommitLedger
    PROVE  /\ \A b \in Batches : Owned(b) \subseteq Owned(b)'
           /\ \A b \in Batches \ {batch} : Owned(b)' = Owned(b)
           /\ \A e \in input : ledger'[e] # NoBatch \/ batch = NoBatch
           /\ \A e \in Events : ledger'[e] \in {ledger[e], batch}
           /\ \A e \in Events : ledger[e] # NoBatch => ledger'[e] = ledger[e]
  <1>1. \A e \in Events :
            ledger'[e] = IF e \in input /\ ledger[e] = NoBatch THEN batch ELSE ledger[e]
    BY DEF CommitLedger
  <1>2. \A b \in Batches : b # NoBatch
    BY LakeAssumption
  <1>3. input \subseteq Events
    BY DEF TypeOK
  <1> QED BY <1>1, <1>2, <1>3 DEF Owned

\* Every step but that one leaves the ledger alone.
LEMMA LedgerStays ==
    ASSUME UNCHANGED ledger PROVE \A b : Owned(b)' = Owned(b)
  BY DEF Owned

\* While a file is written its directory cannot be read; the events in it and
\* the other directories stay.
LEMMA BegunFile ==
    ASSUME TypeOK, batch \in Batches, BeginPartition
    PROVE  /\ staging'[batch] \in Directory
           /\ staging'[batch].exists = staging[batch].exists
           /\ staging'[batch].events = staging[batch].events
           /\ \A b \in Batches \ {batch} : staging'[b] = staging[b]
           /\ staging' \in [Batches -> Directory]
           /\ UNCHANGED <<ledger, final>>
  <1>1. staging[batch] \in Directory /\ staging \in [Batches -> Directory]
    BY DEF TypeOK
  <1>2. staging' = [staging EXCEPT ![batch].torn = TRUE]
    BY DEF BeginPartition
  <1>3. staging'[batch] = [staging[batch] EXCEPT !.torn = TRUE]
    BY <1>1, <1>2
  <1>4. /\ staging'[batch] \in Directory
        /\ staging'[batch].exists = staging[batch].exists
        /\ staging'[batch].events = staging[batch].events
    BY <1>1, <1>3 DEF Directory
  <1> QED BY <1>1, <1>2, <1>4 DEF BeginPartition

\* The finished file adds the events of its date, and the directory can be read.
LEMMA WrittenFile ==
    ASSUME TypeOK, batch \in Batches, NEW d, WritePartition(d)
    PROVE  /\ staging'[batch] \in Directory
           /\ staging'[batch].exists = staging[batch].exists
           /\ ~staging'[batch].torn
           /\ staging'[batch].events =
                  staging[batch].events \cup {e \in Owned(batch) : DateOf[e] = d}
           /\ \A b \in Batches \ {batch} : staging'[b] = staging[b]
           /\ staging' \in [Batches -> Directory]
           /\ UNCHANGED <<ledger, final>>
  <1> DEFINE more == {e \in Owned(batch) : DateOf[e] = d}
             filled == [staging[batch] EXCEPT !.torn = FALSE,
                                              !.events = staging[batch].events \cup more]
  <1>0. more \subseteq Events
    BY DEF Owned
  <1>1. staging' = [staging EXCEPT ![batch].torn = FALSE, ![batch].events = @ \cup more]
    BY DEF WritePartition
  <1>2. staging[batch] \in Directory /\ staging \in [Batches -> Directory]
    BY DEF TypeOK
  <1> HIDE DEF more
  <1>3. staging'[batch] = filled
    BY <1>1, <1>2
  <1>4. /\ staging'[batch] \in Directory
        /\ staging'[batch].exists = staging[batch].exists
        /\ ~staging'[batch].torn
        /\ staging'[batch].events = staging[batch].events \cup more
    BY <1>0, <1>2, <1>3 DEF Directory
  <1>5. /\ \A b \in Batches \ {batch} : staging'[b] = staging[b]
        /\ staging' \in [Batches -> Directory]
    BY <1>1, <1>2, <1>4
  <1> QED BY <1>4, <1>5 DEF WritePartition, more

\* A running call has a batch.
LEMMA RunningBatch ==
    ASSUME IInv, pc # "idle"
    PROVE  /\ batch \in Batches /\ batch \notin markers /\ batch \in attempted
           /\ batch # NoBatch
  <1>1. batch \in attempted \ markers /\ attempted \subseteq Batches
    BY DEF IInv, CallsAreRemembered, TypeOK
  <1> QED BY <1>1, LakeAssumption

(***************************************************************************)
(* Type correctness                                                        *)
(***************************************************************************)
\* Every step keeps the types.
LEMMA TypeStep == ASSUME IInv, [Next]_lakeVars PROVE TypeOK'
  <1>0. TypeOK /\ (pc # "idle" => batch \in Batches)
    BY RunningBatch DEF IInv
  <1> USE DEF TypeOK, Steps, Goto, Frame, Return, historyVars, durableVars
  <1>1. CASE UNCHANGED lakeVars
    BY <1>0, <1>1 DEF lakeVars
  <1>2. ASSUME NEW e \in Events, Arrive(e) PROVE TypeOK'
    BY <1>0, <1>2 DEF Arrive
  <1>3. ASSUME NEW b \in Batches, CallExported(b) PROVE TypeOK'
    BY <1>0, <1>3 DEF CallExported
  <1>4. ASSUME NEW b \in Batches, CallNew(b) PROVE TypeOK'
    BY <1>0, <1>4 DEF CallNew
  <1>5. CASE CommitLedger
    BY <1>0, <1>5 DEF CommitLedger
  <1>6. CASE CheckExport
    <2>1. NoDirectory \in Directory
      BY DEF NoDirectory, Directory
    <2> QED BY <1>0, <1>6, <2>1 DEF CheckExport, QuarantineStaging
  <1>7. CASE SetFinalAside
    <2>1. NoDirectory \in Directory
      BY DEF NoDirectory, Directory
    <2> QED BY <1>0, <1>7, <2>1 DEF SetFinalAside
  <1>8. CASE SetStagingAside
    <2>1. NoDirectory \in Directory
      BY DEF NoDirectory, Directory
    <2> QED BY <1>0, <1>8, <2>1 DEF SetStagingAside, QuarantineStaging
  <1>9. CASE ReuseStaging
    BY <1>0, <1>9 DEF ReuseStaging
  <1>10. CASE MakeStaging
    <2>1. EmptyDirectory \in Directory
      BY DEF EmptyDirectory, Directory
    <2> QED BY <1>0, <1>10, <2>1 DEF MakeStaging
  <1>11. CASE BeginPartition \/ \E d \in Dates : WritePartition(d)
    <2>1. staging' \in [Batches -> Directory]
      BY <1>0, <1>11, BegunFile, WrittenFile DEF BeginPartition, WritePartition
    <2> QED BY <1>0, <1>11, <2>1 DEF BeginPartition, WritePartition
  <1>12. CASE ValidateStaging
    BY <1>0, <1>12 DEF ValidateStaging
  <1>13. CASE Publish
    <2>1. NoDirectory \in Directory
      BY DEF NoDirectory, Directory
    <2> QED BY <1>0, <1>13, <2>1 DEF Publish
  <1>14. CASE VerifyFinal
    BY <1>0, <1>14 DEF VerifyFinal
  <1>15. CASE Mark
    BY <1>0, <1>15 DEF Mark
  <1>16. CASE Crash
    <2>1. crashes' \in 0..MaxCrashes
      BY <1>0, <1>16, LakeAssumption DEF Crash
    <2> QED BY <1>0, <1>16, <2>1 DEF Crash
  <1> QED BY <1>1, <1>2, <1>3, <1>4, <1>5, <1>6, <1>7, <1>8, <1>9, <1>10, <1>11, <1>12,
             <1>13, <1>14, <1>15, <1>16 DEF Next, CallStep

(***************************************************************************)
(* The invariant is inductive                                              *)
(***************************************************************************)
\* Before the first call there are no directories, owners or markers.
LEMMA InitIInv == Init => IInv
  <1> SUFFICES ASSUME Init PROVE IInv OBVIOUS
  <1> USE DEF Init
  <1>1. TypeOK
    BY LakeAssumption DEF TypeOK, Steps, Directory, NoDirectory
  <1>2. DirectoriesAreOwned /\ FinalsAreReadable /\ MarkerMeansExported
    BY DEF DirectoriesAreOwned, FinalsAreReadable, MarkerMeansExported, NoDirectory
  <1>3. CallsAreRemembered /\ CallProgress
    BY DEF CallsAreRemembered, CallProgress, NoDirectory
  <1>4. RetriesFinish /\ NothingIsLeft
    BY DEF RetriesFinish, NothingIsLeft, NoDirectory
  <1> QED BY <1>1, <1>2, <1>3, <1>4 DEF IInv

\* A directory is written with events its batch owns, moved whole, or emptied.
LEMMA DirectoriesStep == ASSUME IInv, [Next]_lakeVars PROVE DirectoriesAreOwned'
  <1>0. TypeOK /\ DirectoriesAreOwned /\ (pc # "idle" => batch \in Batches)
    BY RunningBatch DEF IInv
  <1> USE DEF DirectoriesAreOwned, NoDirectory
  <1>1. CASE UNCHANGED <<ledger, final, staging>>
    BY <1>0, <1>1 DEF Owned
  <1>2. CASE CommitLedger
    BY <1>0, <1>2, LedgerGrows DEF CommitLedger
  <1>3. CASE CheckExport \/ SetStagingAside
    <2>1. UNCHANGED <<ledger, final>>
      BY <1>3 DEF CheckExport, SetStagingAside, QuarantineStaging, durableVars
    <2>2. staging' = staging \/ staging' = [staging EXCEPT ![batch] = NoDirectory]
      BY <1>3 DEF CheckExport, SetStagingAside, QuarantineStaging, durableVars
    <2>3. \A b \in Batches : staging'[b] = staging[b] \/ staging'[b] = NoDirectory
      BY <1>0, <2>2 DEF TypeOK
    <2> QED BY <1>0, <2>1, <2>3, LedgerStays
  <1>4. CASE SetFinalAside
    BY <1>0, <1>4 DEF SetFinalAside, Owned, TypeOK
  <1>5. CASE MakeStaging
    <2>1. /\ staging' = [staging EXCEPT ![batch] = EmptyDirectory]
          /\ UNCHANGED <<ledger, final>> /\ ~final[batch].exists
      BY <1>5 DEF MakeStaging, IInv, CallProgress
    <2> QED BY <1>0, <2>1 DEF Owned, TypeOK, EmptyDirectory
  <1>6. CASE BeginPartition \/ \E d \in Dates : WritePartition(d)
    <2>1. batch \in Batches /\ staging[batch].exists
      BY <1>0, <1>6 DEF BeginPartition, WritePartition, IInv, CallProgress
    <2>2. /\ staging'[batch].exists
          /\ staging'[batch].events \subseteq Owned(batch)
          /\ \A b \in Batches \ {batch} : staging'[b] = staging[b]
          /\ UNCHANGED <<ledger, final>>
      BY <1>0, <1>6, <2>1, BegunFile, WrittenFile
    <2>3. \A b \in Batches : Owned(b)' = Owned(b)
      BY <2>2, LedgerStays
    <2> QED BY <1>0, <2>1, <2>2, <2>3
  <1>7. CASE Publish
    BY <1>0, <1>7 DEF Publish, Owned, TypeOK
  <1>8. UNCHANGED lakeVars \/ (\E e \in Events : Arrive(e))
        \/ (\E b \in Batches : CallExported(b) \/ CallNew(b))
        \/ ReuseStaging \/ ValidateStaging \/ VerifyFinal \/ Mark \/ Crash
        => UNCHANGED <<ledger, final, staging>>
    BY DEF lakeVars, durableVars, Arrive, CallExported, CallNew, ReuseStaging,
           ValidateStaging, VerifyFinal, Mark, Crash
  <1> QED BY <1>1, <1>2, <1>3, <1>4, <1>5, <1>6, <1>7, <1>8 DEF Next, CallStep

\* A batch id enters the ledger, the markers or the disk through a call.
LEMMA RememberedStep == ASSUME IInv, [Next]_lakeVars PROVE CallsAreRemembered'
  <1>0. /\ TypeOK /\ CallsAreRemembered
        /\ pc # "idle" => /\ batch \in Batches /\ batch \notin markers
                          /\ batch \in attempted /\ batch # NoBatch
    BY RunningBatch DEF IInv
  <1> USE DEF CallsAreRemembered
  <1>1. CASE UNCHANGED lakeVars \/ \E e \in Events : Arrive(e)
    BY <1>0, <1>1 DEF lakeVars, Arrive, durableVars, historyVars
  <1>2. ASSUME NEW b \in Batches, CallExported(b) \/ CallNew(b) PROVE CallsAreRemembered'
    BY <1>0, <1>2 DEF CallExported, CallNew, Goto, durableVars, historyVars
  <1>3. CASE CommitLedger
    <2>1. \A e \in Events : ledger'[e] \in {ledger[e], batch}
      BY <1>0, <1>3, LedgerGrows
    <2> QED BY <1>0, <1>3, <2>1 DEF CommitLedger, Goto, Frame, historyVars
  <1>4. CASE CheckExport \/ SetStagingAside
    <2>1. /\ UNCHANGED <<ledger, markers, attempted, batch>> /\ pc # "idle"
          /\ staging' = staging \/ staging' = [staging EXCEPT ![batch] = NoDirectory]
      BY <1>4 DEF CheckExport, SetStagingAside, QuarantineStaging, durableVars, Frame,
                  historyVars
    <2> QED BY <1>0, <2>1 DEF TypeOK, NoDirectory
  <1>5. CASE SetFinalAside \/ ReuseStaging
    BY <1>0, <1>5 DEF SetFinalAside, ReuseStaging, Frame, durableVars, historyVars
  <1>6. CASE MakeStaging \/ Publish \/ BeginPartition \/ \E d \in Dates : WritePartition(d)
    <2>1. /\ UNCHANGED <<ledger, markers, attempted, batch>> /\ pc # "idle"
          /\ \A b \in Batches \ {batch} : staging'[b] = staging[b]
      BY <1>0, <1>6 DEF MakeStaging, Publish, BeginPartition, WritePartition, Frame, historyVars, TypeOK
    <2> QED BY <1>0, <2>1
  <1>7. CASE ValidateStaging \/ VerifyFinal
    BY <1>0, <1>7
       DEF ValidateStaging, VerifyFinal, Return, Goto, durableVars, historyVars
  <1>8. CASE Mark
    BY <1>0, <1>8 DEF Mark, Return
  <1>9. CASE Crash
    <2>1. /\ UNCHANGED <<ledger, markers, attempted>> /\ pc' = "idle" /\ pc # "idle"
      BY <1>9 DEF Crash, Return, durableVars
    <2>2. UNCHANGED staging
      BY <1>9 DEF Crash, durableVars
    <2> QED BY <1>0, <2>1, <2>2
  <1> QED BY <1>1, <1>2, <1>3, <1>4, <1>5, <1>6, <1>7, <1>8, <1>9 DEF Next, CallStep

\* Each step of a call establishes what the next one finds.
LEMMA ProgressStep == ASSUME IInv, [Next]_lakeVars PROVE CallProgress'
  <1>0. /\ TypeOK /\ CallProgress /\ DirectoriesAreOwned
        /\ pc # "idle" => batch \in Batches /\ batch # NoBatch
    BY RunningBatch DEF IInv
  <1> USE DEF CallProgress
  <1>1. CASE pc' = "idle"
    BY <1>1
  <1>2. CASE UNCHANGED lakeVars
    BY <1>0, <1>2 DEF lakeVars, durableVars, Owned, Matches
  <1>3. ASSUME NEW e \in Events, Arrive(e) PROVE CallProgress'
    BY <1>0, <1>3 DEF Arrive, durableVars, Owned, Matches
  <1>4. ASSUME NEW b \in Batches, CallExported(b) PROVE CallProgress'
    BY <1>0, <1>4 DEF CallExported
  <1>5. ASSUME NEW b \in Batches, CallNew(b) PROVE CallProgress'
    BY <1>5 DEF CallNew, Goto
  <1>6. CASE CommitLedger
    BY <1>0, <1>6, LedgerGrows DEF CommitLedger, Goto, Frame
  <1>7. CASE CheckExport
    <2> DEFINE done == final[batch].exists /\ Matches(final[batch], Owned(batch))
    <2>1. /\ pc = "check" /\ UNCHANGED <<ledger, final, batch, input>>
          /\ pc' = IF Owned(batch) = {} \/ done THEN "mark"
                   ELSE IF final[batch].exists THEN "asideFinal" ELSE "prepare"
      BY <1>7 DEF CheckExport, QuarantineStaging, durableVars, Frame, Goto
    <2>2. Owned(batch)' = Owned(batch)
      BY <2>1, LedgerStays
    <2>3. Owned(batch) = {} => Matches(final[batch], Owned(batch))
      <3>1. CASE final[batch].exists
        <4>1. final[batch].events # {} /\ final[batch].events \subseteq Owned(batch)
          BY <1>0, <2>1, <3>1 DEF IInv, FinalsAreReadable
        <4> QED BY <4>1
      <3>2. CASE ~final[batch].exists
        BY <1>0, <2>1, <3>2 DEF DirectoriesAreOwned, NoDirectory, Matches
      <3> QED BY <3>1, <3>2
    <2>4. pc' = "mark" => Matches(final[batch], Owned(batch))
      BY <2>1, <2>3
    <2> QED BY <1>0, <2>1, <2>2, <2>4 DEF Matches
  <1>8. CASE SetFinalAside
    <2>1. /\ final'[batch] = NoDirectory /\ pc = "asideFinal" /\ pc' = "prepare"
          /\ UNCHANGED <<ledger, batch, input>>
      BY <1>0, <1>8 DEF SetFinalAside, Goto, Frame, TypeOK
    <2> QED BY <1>0, <2>1 DEF NoDirectory, Owned
  <1>9. CASE SetStagingAside
    <2>1. pc = "prepare" /\ UNCHANGED <<ledger, final, batch, input, pc>>
      BY <1>9 DEF SetStagingAside, QuarantineStaging, Frame
    <2> QED BY <1>0, <2>1 DEF Owned
  <1>10. CASE ReuseStaging
    BY <1>0, <1>10 DEF ReuseStaging, Goto, Frame, durableVars, Owned, Matches
  <1>11. CASE MakeStaging
    <2>1. /\ pc = "prepare" /\ pc' = "write" /\ UNCHANGED <<ledger, final, batch, input>>
          /\ staging'[batch] = EmptyDirectory
      BY <1>0, <1>11 DEF MakeStaging, Goto, Frame, TypeOK
    <2> QED BY <1>0, <2>1 DEF Owned, EmptyDirectory
  <1>12. ASSUME NEW d \in Dates, WritePartition(d) PROVE CallProgress'
    <2>1. /\ pc = "file" /\ UNCHANGED <<ledger, final, batch, input>>
          /\ pc' = IF Unwritten = {d} THEN "validate" ELSE "write"
      BY <1>12 DEF WritePartition, Frame, Goto
    <2>2. /\ staging'[batch].exists = staging[batch].exists
          /\ ~staging'[batch].torn
          /\ staging'[batch].events =
                 staging[batch].events \cup {e \in Owned(batch) : DateOf[e] = d}
      BY <1>0, <1>12, <2>1, WrittenFile
    <2>3. Unwritten = {d} => staging'[batch].events = Owned(batch)
      BY <1>0, <2>1, <2>2 DEF Unwritten, DirectoriesAreOwned
    <2>4. Owned(batch)' = Owned(batch)
      BY <2>1, LedgerStays DEF Owned
    <2> QED BY <1>0, <2>1, <2>2, <2>3, <2>4 DEF Matches
  <1>17. CASE BeginPartition
    <2>1. /\ pc = "write" /\ pc' = "file" /\ UNCHANGED <<ledger, final, batch, input>>
      BY <1>17 DEF BeginPartition, Frame, Goto
    <2>2. staging'[batch].exists = staging[batch].exists
      BY <1>0, <1>17, <2>1, BegunFile
    <2> QED BY <1>0, <2>1, <2>2 DEF Owned
  <1>13. CASE ValidateStaging
    <2>1. CASE Matches(staging[batch], Owned(batch)) /\ ~final[batch].exists
      BY <1>0, <1>13, <2>1 DEF ValidateStaging, Goto, durableVars, Owned, Matches
    <2>2. CASE ~(Matches(staging[batch], Owned(batch)) /\ ~final[batch].exists)
      BY <1>1, <1>13, <2>2 DEF ValidateStaging, Return
    <2> QED BY <2>1, <2>2
  <1>14. CASE Publish
    <2>1. /\ pc = "rename" /\ pc' = "verify" /\ UNCHANGED <<ledger, batch, input>>
          /\ final'[batch] = staging[batch]
      BY <1>0, <1>14 DEF Publish, Goto, Frame, TypeOK
    <2> QED BY <1>0, <2>1 DEF Owned, Matches
  <1>15. CASE VerifyFinal
    <2>1. CASE Matches(final[batch], Owned(batch))
      BY <1>0, <1>15, <2>1 DEF VerifyFinal, Goto, durableVars, Owned, Matches
    <2>2. CASE ~Matches(final[batch], Owned(batch))
      BY <1>1, <1>15, <2>2 DEF VerifyFinal, Return
    <2> QED BY <2>1, <2>2
  <1>16. CASE Mark \/ Crash
    BY <1>1, <1>16 DEF Mark, Crash, Return
  <1> QED BY <1>2, <1>3, <1>4, <1>5, <1>6, <1>7, <1>8, <1>9, <1>10, <1>11, <1>12,
             <1>13, <1>14, <1>15, <1>16, <1>17 DEF Next, CallStep

\* The final directory of a batch changes only while a call works on it, and
\* appears only as the whole of a staging directory that matches the ledger.
LEMMA FinalsMove ==
    ASSUME IInv, [Next]_lakeVars, NEW b \in Batches
    PROVE  \/ final'[b] = final[b]
           \/ b = batch /\ b \notin markers /\ final'[b] = NoDirectory /\ final[b] \in aside'
           \/ /\ b = batch /\ b \notin markers /\ UNCHANGED ledger
              /\ ~final[b].exists /\ staging[b].exists /\ final'[b] = staging[b]
              /\ Owned(b) # {} /\ Matches(staging[b], Owned(b))
  <1>0. TypeOK /\ CallProgress /\ (pc # "idle" => batch \in Batches /\ batch \notin markers)
    BY RunningBatch DEF IInv
  <1>1. CASE SetFinalAside
    BY <1>0, <1>1 DEF SetFinalAside, TypeOK
  <1>2. CASE Publish
    BY <1>0, <1>2 DEF Publish, TypeOK, CallProgress
  <1>3. CASE UNCHANGED lakeVars \/ \E e \in Events : Arrive(e)
    BY <1>3 DEF lakeVars, Arrive, durableVars
  <1>4. CASE \E c \in Batches : CallExported(c) \/ CallNew(c)
    BY <1>4 DEF CallExported, CallNew, durableVars
  <1>5. CASE CommitLedger \/ CheckExport \/ SetStagingAside \/ ReuseStaging \/ MakeStaging
    BY <1>5 DEF CommitLedger, CheckExport, SetStagingAside, QuarantineStaging, ReuseStaging,
                MakeStaging, durableVars
  <1>6. CASE BeginPartition \/ (\E d \in Dates : WritePartition(d)) \/ ValidateStaging
             \/ VerifyFinal \/ Mark \/ Crash
    BY <1>6 DEF BeginPartition, WritePartition, ValidateStaging, VerifyFinal, Mark, Crash, durableVars
  <1> QED BY <1>1, <1>2, <1>3, <1>4, <1>5, <1>6 DEF Next, CallStep

\* Only the ledger transaction changes owners: the batch of the call gains.
LEMMA OwnersMove ==
    ASSUME IInv, [Next]_lakeVars, NEW b \in Batches
    PROVE  /\ Owned(b) \subseteq Owned(b)'
           /\ b \in markers => Owned(b)' = Owned(b)
  <1>1. CASE UNCHANGED ledger
    BY <1>1, LedgerStays
  <1>2. CASE CommitLedger
    <2>1. TypeOK /\ batch \notin markers
      BY <1>2, RunningBatch DEF IInv, CommitLedger
    <2> QED BY <1>2, <2>1, LedgerGrows
  <1>3. CommitLedger \/ UNCHANGED ledger
    BY DEF Next, CallStep, lakeVars, durableVars, Arrive, CallExported, CallNew, CheckExport,
           SetFinalAside, SetStagingAside, QuarantineStaging, ReuseStaging, MakeStaging,
           BeginPartition, WritePartition, ValidateStaging, Publish, VerifyFinal, Mark, Crash
  <1> QED BY <1>1, <1>2, <1>3

\* So a final directory can be read from the instant it appears.
LEMMA FinalsStep == ASSUME IInv, [Next]_lakeVars PROVE FinalsAreReadable'
  <1> SUFFICES ASSUME NEW b \in Batches, final'[b].exists
               PROVE  /\ ~final'[b].torn /\ final'[b].events # {}
                      /\ final'[b].events \subseteq Owned(b)'
    BY DEF FinalsAreReadable
  <1>1. CASE final'[b] = final[b]
    BY <1>1, OwnersMove DEF IInv, FinalsAreReadable
  <1>2. CASE final'[b] = NoDirectory
    BY <1>2 DEF NoDirectory
  <1>3. CASE final'[b] = staging[b] /\ Owned(b) # {} /\ Matches(staging[b], Owned(b))
    BY <1>3, OwnersMove DEF Matches
  <1> QED BY <1>1, <1>2, <1>3, FinalsMove

\* A marked batch keeps its owners and its directory; a batch is marked when
\* the two agree.
LEMMA MarkerStep == ASSUME IInv, [Next]_lakeVars PROVE MarkerMeansExported'
  <1> SUFFICES ASSUME NEW b \in markers'
               PROVE  ~final'[b].torn /\ final'[b].events = Owned(b)'
    BY DEF MarkerMeansExported
  <1>0. markers \subseteq Batches
    BY DEF IInv, TypeOK
  <1>1. CASE b \in markers
    <2>1. final'[b] = final[b] /\ Owned(b)' = Owned(b)
      BY <1>0, <1>1, FinalsMove, OwnersMove
    <2> QED BY <1>1, <2>1 DEF IInv, MarkerMeansExported
  <1>2. CASE b \notin markers
    <2>1. Mark /\ b = batch
      BY <1>2 DEF Next, CallStep, lakeVars, durableVars, Arrive, CallExported, CallNew,
             CommitLedger, CheckExport, SetFinalAside, SetStagingAside, QuarantineStaging,
             ReuseStaging, MakeStaging, BeginPartition, WritePartition, ValidateStaging, Publish, VerifyFinal,
             Mark, Crash
    <2>2. Matches(final[b], Owned(b)) /\ UNCHANGED <<final, ledger>>
      BY <2>1 DEF Mark, IInv, CallProgress
    <2> QED BY <2>2 DEF Matches, Owned
  <1> QED BY <1>1, <1>2

\* A retrying operator starts a batch only when every other is marked, and a
\* call counts its events when it marks their batch.
LEMMA RetriesStep == ASSUME IInv, [Next]_lakeVars PROVE RetriesFinish'
  <1>0. /\ TypeOK /\ CallsAreRemembered /\ RetriesFinish
        /\ pc # "idle" => batch \in attempted /\ batch \notin markers /\ batch # NoBatch
    BY RunningBatch DEF IInv
  <1> USE DEF RetriesFinish
  <1>1. CASE UNCHANGED <<policy, ledger, markers, attempted, reported>>
    BY <1>0, <1>1
  <1>2. ASSUME NEW b \in Batches, CallExported(b) PROVE RetriesFinish'
    <2>1. policy # "retry"
      BY <1>0, <1>2 DEF CallExported, MayCall, CallsAreRemembered
    <2> QED BY <1>2, <2>1 DEF CallExported
  <1>3. ASSUME NEW b \in Batches, CallNew(b) PROVE RetriesFinish'
    <2> SUFFICES ASSUME policy = "retry" PROVE RetriesFinish'
      BY <1>3 DEF CallNew
    <2>1. UNCHANGED <<ledger, markers, reported>> /\ attempted' = attempted \cup {b}
      BY <1>3 DEF CallNew, durableVars
    <2>2. attempted \subseteq markers \/ b \in attempted
      BY <1>3 DEF CallNew, MayCall
    <2> QED BY <1>0, <2>1, <2>2
  <1>4. CASE CommitLedger
    <2>1. \A e \in reported : ledger'[e] = ledger[e] \/ policy # "retry"
      <3> SUFFICES ASSUME NEW e \in reported, policy = "retry" PROVE ledger'[e] = ledger[e]
        OBVIOUS
      <3>1. e \in Events /\ ledger[e] \in markers /\ NoBatch \notin markers
        BY <1>0, LakeAssumption DEF TypeOK
      <3> QED BY <1>0, <1>4, <3>1, LedgerGrows
    <2>2. UNCHANGED <<policy, markers, attempted, reported>>
      BY <1>4 DEF CommitLedger, Frame, historyVars
    <2> QED BY <1>0, <2>1, <2>2
  <1>5. CASE Mark
    <2>1. /\ UNCHANGED <<policy, ledger, attempted>> /\ markers' = markers \cup {batch}
          /\ reported' = reported \cup input /\ pc = "mark"
      BY <1>5 DEF Mark
    <2> SUFFICES ASSUME policy = "retry" PROVE RetriesFinish'
      BY <2>1
    <2>2. \A b \in attempted : b \in markers \/ b = batch
      BY <1>0, <2>1
    <2>3. ASSUME NEW e \in input PROVE ledger[e] \in markers'
      <3>1. e \in Events /\ ledger[e] # NoBatch
        BY <1>0, <2>1 DEF TypeOK, IInv, CallProgress
      <3> QED BY <1>0, <2>1, <2>2, <3>1 DEF CallsAreRemembered
    <2> QED BY <1>0, <2>1, <2>2, <2>3
  <1>6. UNCHANGED lakeVars \/ (\E e \in Events : Arrive(e)) \/ CheckExport \/ SetFinalAside
        \/ SetStagingAside \/ ReuseStaging \/ MakeStaging \/ BeginPartition
        \/ (\E d \in Dates : WritePartition(d)) \/ ValidateStaging \/ Publish \/ VerifyFinal \/ Crash
        => UNCHANGED <<policy, ledger, markers, attempted, reported>>
    BY DEF lakeVars, durableVars, historyVars, Frame, Arrive, CheckExport, SetFinalAside,
           SetStagingAside, QuarantineStaging, ReuseStaging, MakeStaging, BeginPartition,
           WritePartition, ValidateStaging, Publish, VerifyFinal, Crash
  <1> QED BY <1>1, <1>2, <1>3, <1>4, <1>5, <1>6 DEF Next, CallStep

\* A batch that was never passed to a call has no directory.
LEMMA FreshBatchHasNoDirectory ==
    ASSUME IInv, NEW b \in Batches \ attempted
    PROVE  ~final[b].exists /\ ~staging[b].exists
  <1>1. Owned(b) = {}
    BY LakeAssumption DEF IInv, CallsAreRemembered, Owned
  <1> QED BY <1>1 DEF IInv, FinalsAreReadable, DirectoriesAreOwned, CallsAreRemembered

\* Without a crash a call finds none of the directories it would set aside,
\* and ends with its marker.
LEMMA NothingIsLeftStep == ASSUME IInv, [Next]_lakeVars PROVE NothingIsLeft'
  <1> SUFFICES ASSUME crashes' = 0 PROVE NothingIsLeft'
    BY DEF NothingIsLeft
  <1>0. /\ TypeOK /\ CallProgress /\ CallsAreRemembered
        /\ pc # "idle" => batch \in Batches /\ batch \in attempted /\ batch \notin markers
    BY RunningBatch DEF IInv
  <1>1. crashes = 0 /\ ~Crash
    <2>1. ~Crash
      BY <1>0 DEF TypeOK, Crash
    <2>2. Crash \/ UNCHANGED crashes
      BY DEF Next, CallStep, lakeVars, historyVars, Frame, Arrive, CallExported,
             CallNew, CommitLedger, CheckExport, SetFinalAside, SetStagingAside,
             ReuseStaging, MakeStaging, BeginPartition, WritePartition, ValidateStaging, Publish,
             VerifyFinal, Mark, Crash
    <2> QED BY <2>1, <2>2
  <1>2. NothingIsLeft
    BY DEF IInv
  <1> USE <1>1 DEF NothingIsLeft
  <1>3. CASE UNCHANGED lakeVars \/ \E e \in Events : Arrive(e)
    BY <1>2, <1>3 DEF lakeVars, durableVars, historyVars, Arrive
  <1>4. ASSUME NEW b \in Batches, CallExported(b) PROVE NothingIsLeft'
    BY <1>2, <1>4 DEF CallExported, durableVars
  <1>5. ASSUME NEW b \in Batches, CallNew(b) PROVE NothingIsLeft'
    <2>1. /\ pc = "idle" /\ pc' = "ledger" /\ batch' = b /\ attempted' = attempted \cup {b}
          /\ UNCHANGED <<final, staging, aside, markers>> /\ b \notin markers
      BY <1>5 DEF CallNew, Goto, durableVars
    <2>2. attempted \subseteq markers /\ b \notin attempted
      BY <1>2, <2>1
    <2> QED BY <1>2, <2>1, <2>2, FreshBatchHasNoDirectory
  <1>6. CASE CommitLedger
    BY <1>2, <1>6 DEF CommitLedger, Goto, Frame, historyVars
  <1>7. CASE CheckExport
    <2>1. /\ pc = "check" /\ ~final[batch].exists
          /\ UNCHANGED <<final, staging, aside, markers, batch, attempted>>
          /\ pc' \in {"mark", "prepare"}
      BY <1>2, <1>7 DEF CheckExport, Goto, Frame, durableVars, historyVars
    <2> QED BY <1>2, <2>1
  <1>8. CASE SetFinalAside
    BY <1>2, <1>8 DEF SetFinalAside
  <1>9. CASE SetStagingAside \/ ReuseStaging
    <2>1. pc = "prepare" /\ staging[batch].exists
      BY <1>9 DEF SetStagingAside, ReuseStaging
    <2> QED BY <1>0, <1>2, <2>1
  <1>10. CASE MakeStaging
    <2>1. /\ pc = "prepare" /\ pc' = "write"
          /\ UNCHANGED <<final, aside, markers, batch, attempted>>
          /\ \A b \in Batches \ {batch} : staging'[b] = staging[b]
      BY <1>0, <1>10 DEF MakeStaging, Goto, Frame, historyVars, TypeOK
    <2> QED BY <1>2, <2>1
  <1>11. CASE BeginPartition \/ \E d \in Dates : WritePartition(d)
    <2>1. /\ pc \in {"write", "file"} /\ pc' \in {"write", "file", "validate"}
          /\ UNCHANGED <<final, aside, markers, batch, attempted>>
      BY <1>11 DEF BeginPartition, WritePartition, Goto, Frame, historyVars
    <2>2. \A b \in Batches \ {batch} : staging'[b] = staging[b]
      BY <1>0, <1>11, <2>1, BegunFile, WrittenFile
    <2> QED BY <1>2, <2>1, <2>2
  <1>12. CASE ValidateStaging
    <2>1. pc = "validate" /\ ~final[batch].exists /\ Matches(staging[batch], Owned(batch))
      BY <1>0, <1>12 DEF ValidateStaging, CallProgress
    <2>2. pc' = "rename" /\ UNCHANGED <<final, staging, aside, markers, batch, attempted>>
      BY <1>12, <2>1 DEF ValidateStaging, Goto, durableVars, historyVars
    <2> QED BY <1>2, <2>1, <2>2
  <1>13. CASE Publish
    <2>1. /\ pc = "rename" /\ pc' = "verify" /\ UNCHANGED <<aside, markers, batch, attempted>>
          /\ staging'[batch] = NoDirectory
          /\ \A b \in Batches \ {batch} : staging'[b] = staging[b]
      BY <1>0, <1>13 DEF Publish, Goto, Frame, historyVars, TypeOK
    <2> QED BY <1>2, <2>1 DEF NoDirectory
  <1>14. CASE VerifyFinal
    <2>1. pc = "verify" /\ Matches(final[batch], Owned(batch))
      BY <1>0, <1>14 DEF VerifyFinal, CallProgress
    <2>2. pc' = "mark" /\ UNCHANGED <<final, staging, aside, markers, batch, attempted>>
      BY <1>14, <2>1 DEF VerifyFinal, Goto, durableVars, historyVars
    <2> QED BY <1>2, <2>1, <2>2
  <1>15. CASE Mark
    <2>1. /\ pc = "mark" /\ pc' = "idle" /\ UNCHANGED <<final, staging, aside, attempted>>
          /\ markers' = markers \cup {batch}
      BY <1>15 DEF Mark, Return
    <2> QED BY <1>2, <2>1
  <1> QED BY <1>3, <1>4, <1>5, <1>6, <1>7, <1>8, <1>9, <1>10, <1>11, <1>12, <1>13,
             <1>14, <1>15 DEF Next, CallStep

\* The invariant holds in every reachable state.
LEMMA IInvHolds == Spec => []IInv
  <1>1. IInv /\ [Next]_lakeVars => IInv'
    BY TypeStep, DirectoriesStep, RememberedStep, ProgressStep, FinalsStep, MarkerStep,
       RetriesStep, NothingIsLeftStep DEF IInv
  <1> QED BY <1>1, InitIInv, PTL DEF Spec

(***************************************************************************)
(* The properties                                                          *)
(***************************************************************************)
\* The variables keep their types in every reachable state.
THEOREM LakeTypeCorrectness == Spec => []TypeOK
  <1>1. IInv => TypeOK
    BY DEF IInv
  <1> QED BY <1>1, IInvHolds, PTL

\* The marker of a batch is true: its directory holds what the ledger says.
THEOREM LakeMarkerMeansExported == Spec => []MarkerMeansExported
  <1>1. IInv => MarkerMeansExported
    BY DEF IInv
  <1> QED BY <1>1, IInvHolds, PTL

\* A final directory appears complete and readable, is never changed in place,
\* and leaves only into quarantine and unmarked, whenever calls crashed.
THEOREM LakeFinalsAreWhole == Spec => FinalsAreWhole
  <1>1. IInv /\ [Next]_lakeVars =>
            [\A b \in Batches : final'[b] # final[b] => Appears(b) \/ IsSetAside(b)]_lakeVars
    <2> SUFFICES ASSUME IInv, [Next]_lakeVars, NEW b \in Batches, final'[b] # final[b]
                 PROVE  Appears(b) \/ IsSetAside(b)
      OBVIOUS
    <2>1. CASE b = batch /\ b \notin markers /\ final'[b] = NoDirectory /\ final[b] \in aside'
      BY <2>1 DEF IsSetAside, NoDirectory
    <2>2. CASE /\ ~final[b].exists /\ staging[b].exists /\ final'[b] = staging[b]
               /\ Owned(b) # {} /\ Matches(staging[b], Owned(b))
      <3>1. staging[b] \in Directory
        BY DEF IInv, TypeOK
      <3>2. staging[b] = [exists |-> TRUE, events |-> Owned(b), torn |-> FALSE]
        BY <2>2, <3>1 DEF Directory, Matches
      <3> QED BY <2>2, <3>2 DEF Appears
    <2> QED BY <2>1, <2>2, FinalsMove
  <1> QED BY <1>1, IInvHolds, PTL DEF Spec, FinalsAreWhole

\* What was counted is exported if unfinished batches are retried.
THEOREM LakeRetriedIsExported == Spec => []RetriedIsExported
  <1>1. IInv => RetriedIsExported
    <2> SUFFICES ASSUME IInv, policy = "retry", NEW e \in reported PROVE e \in Exported
      BY DEF RetriedIsExported, ReportedIsExported
    <2> DEFINE b == ledger[e]
    <2>1. b \in markers /\ b \in Batches /\ e \in Owned(b)
      BY DEF IInv, RetriesFinish, TypeOK, Owned
    <2>2. e \in final[b].events
      BY <2>1 DEF IInv, MarkerMeansExported
    <2> QED BY <2>1, <2>2 DEF Exported
  <1> QED BY <1>1, IInvHolds, PTL

(***************************************************************************)
(* The quality gate                                                        *)
(***************************************************************************)
\* A set without two different elements has at most one.
LEMMA AtMostOne ==
    ASSUME NEW S, \A x, y \in S : x = y
    PROVE  Cardinality(S) \in {0, 1}
  <1>1. CASE S = {}
    BY <1>1, FS_EmptySet
  <1>2. CASE S # {}
    <2> PICK x \in S : TRUE
      BY <1>2
    <2>1. S = {x}
      OBVIOUS
    <2> QED BY <2>1, FS_Singleton
  <1> QED BY <1>1, <1>2

\* With nothing set aside, and no batch in its staging and in its final
\* directory at once, an event is found once: batches are disjoint.
LEMMA NoSecondCopy ==
    ASSUME IInv, aside = {}, \A b \in Batches : staging[b].exists => ~final[b].exists,
           NEW e \in Events
    PROVE  Copies(e) \in {0, 1}
  <1> DEFINE S == {found \in FoundDirectories : e \in found[3].events}
  <1> SUFFICES ASSUME NEW x \in S, NEW y \in S PROVE x = y
    BY AtMostOne DEF Copies
  <1>1. ASSUME NEW z \in S
        PROVE  \/ z = <<"final", ledger[e], final[ledger[e]]>> /\ final[ledger[e]].exists
               \/ z = <<"staging", ledger[e], staging[ledger[e]]>> /\ staging[ledger[e]].exists
    <2>1. CASE \E b \in Batches : z = <<"final", b, final[b]>> /\ final[b].exists
      <3> PICK b \in Batches : z = <<"final", b, final[b]>> /\ final[b].exists
        BY <2>1
      <3>1. e \in final[b].events
        OBVIOUS
      <3>2. ledger[e] = b
        BY <3>1 DEF IInv, DirectoriesAreOwned, Owned
      <3> QED BY <3>2
    <2>2. CASE \E b \in Batches : z = <<"staging", b, staging[b]>> /\ staging[b].exists
      <3> PICK b \in Batches : z = <<"staging", b, staging[b]>> /\ staging[b].exists
        BY <2>2
      <3>1. e \in staging[b].events
        OBVIOUS
      <3>2. ledger[e] = b
        BY <3>1 DEF IInv, DirectoriesAreOwned, Owned
      <3> QED BY <3>2
    <2> QED BY <2>1, <2>2 DEF FoundDirectories
  <1>2. ledger[e] \in Batches \/ x = y
    <2>1. CASE ledger[e] \in Batches
      BY <2>1
    <2>2. CASE ledger[e] \notin Batches
      <3>1. x \in FoundDirectories /\ e \in x[3].events
        OBVIOUS
      <3>2. \A b \in Batches : e \notin final[b].events /\ e \notin staging[b].events
        BY <2>2 DEF IInv, DirectoriesAreOwned, Owned
      <3> QED BY <3>1, <3>2 DEF FoundDirectories
    <2> QED BY <2>1, <2>2
  <1> QED BY <1>1, <1>2

\* A file the gate cannot read is being written or was left by a crash; an event
\* it finds twice is in a directory that was set aside after a crash.
THEOREM LakeGateAlarmsAreExplained == Spec => []GateAlarmsAreExplained
  <1>1. IInv => GateAlarmsAreExplained
    <2> SUFFICES ASSUME IInv PROVE GateAlarmsAreExplained OBVIOUS
    <2>1. crashes # 0 => crashes > 0
      BY LakeAssumption DEF IInv, TypeOK
    <2>2. ASSUME GateVerdict = "unreadable", pc # "file"
          PROVE  crashes > 0 /\ (aside # {} \/ \E b \in Batches : staging[b].exists)
      <3>1. \E found \in FoundDirectories : found[3].torn
        BY <2>2 DEF GateVerdict
      <3>2. \/ \E d \in aside : d.torn
            \/ \E b \in Batches : staging[b].exists /\ staging[b].torn
        BY <3>1 DEF FoundDirectories, IInv, FinalsAreReadable
      <3>3. crashes # 0
        BY <2>2, <3>2 DEF IInv, NothingIsLeft, CallProgress, Matches
      <3> QED BY <2>1, <3>2, <3>3
    <2>3. ASSUME GateVerdict = "duplicate_rows" PROVE crashes > 0 /\ aside # {}
      <3>1. \E e \in Events : Copies(e) > 1
        BY <2>3 DEF GateVerdict
      <3>2. \A b \in Batches : staging[b].exists => ~final[b].exists
        BY DEF IInv, DirectoriesAreOwned
      <3>3. aside # {}
        BY <3>1, <3>2, NoSecondCopy
      <3>4. crashes # 0
        BY <3>3 DEF IInv, NothingIsLeft
      <3> QED BY <2>1, <3>3, <3>4
    <2> QED BY <2>2, <2>3 DEF GateAlarmsAreExplained
  <1> QED BY <1>1, IInvHolds, PTL
=============================================================================
