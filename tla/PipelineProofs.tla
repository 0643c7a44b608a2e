--------------------------- MODULE PipelineProofs ---------------------------
(***************************************************************************)
(* Proofs about StreamingJob, for any events, any length of the topic and  *)
(* any number of failures; then about Pipeline: it is a streaming job      *)
(* whose topic the producer fills, so what is shown of the job holds of    *)
(* the pipeline, and the producer loses events only at its limits.         *)
(***************************************************************************)
EXTENDS Pipeline, FiniteSums, SequenceTheorems

(***************************************************************************)
(* Types                                                                   *)
(***************************************************************************)

\* Counting a part of the batch gives a number, zero only if the part is empty.
LEMMA PartCounted ==
  ASSUME NEW S \in SUBSET Offsets
  PROVE  Cardinality(S) \in Nat /\ (S # {} => Cardinality(S) > 0)
<1>1. IsFiniteSet(Offsets)
  BY FS_Interval, StreamAssumption DEF Offsets
<1>2. IsFiniteSet(S)
  BY <1>1, FS_Subset
<1> QED BY <1>2, FS_CardinalityType, FS_EmptySet

LEMMA PartsCounted ==
  /\ Cardinality(Valid) \in Nat /\ (Valid # {} => Cardinality(Valid) > 0)
  /\ Cardinality(Quarantined) \in Nat
  /\ Quarantined # {} => Cardinality(Quarantined) > 0
<1>1. Valid \in SUBSET Offsets /\ Quarantined \in SUBSET Offsets
  BY DEF Valid, Quarantined, Batch
<1> QED BY <1>1, PartCounted

\* A running query has begun somewhere; an idle one has nothing left to do.
Begun ==
    /\ at # "down" => origin \in Nat
    /\ at = "idle" => committed = planned
    /\ at \in Statements \cup {"commit"} => committed < planned

LEMMA TypeInit == StreamInit => TypeOK /\ Begun
  BY StreamAssumption DEF StreamInit, TypeOK, Begun, NotYet, NoCounts, Offsets, Statements

LEMMA TypeStep == TypeOK /\ Begun /\ [StreamNext]_streamVars => TypeOK' /\ Begun'
<1> SUFFICES ASSUME TypeOK, Begun, [StreamNext]_streamVars PROVE TypeOK' /\ Begun'
  OBVIOUS
<1> USE StreamAssumption
    DEF TypeOK, Begun, Statements, Statement, checkpoint, tables, jobVars, NoCounts, NotYet
<1>1. ASSUME NEW e \in Events, Publish(e) PROVE TypeOK' /\ Begun'
  BY <1>1 DEF Publish
<1>2. CASE Expire
  BY <1>2 DEF Expire
<1>3. CASE FirstStart
  BY <1>3 DEF FirstStart
<1>4. CASE Restart
  BY <1>4 DEF Restart
<1>5. CASE PlanBatch
  BY <1>5 DEF PlanBatch
<1>6. CASE CommitBatch
  BY <1>6 DEF CommitBatch
<1>7. CASE Crash
  BY <1>7 DEF Crash
<1>8. CASE IsEmpty
  BY <1>8 DEF IsEmpty
<1>9. CASE CountValid
  BY <1>9, PartsCounted DEF CountValid
<1>10. CASE CountBad
  BY <1>10, PartsCounted DEF CountBad
<1>11. CASE AppendValid
  BY SMTT(20), <1>11 DEF AppendValid, OneMore
<1>12. CASE AppendQuarantined
  BY SMTT(20), <1>12 DEF AppendQuarantined, OneMore
<1>13. CASE WriteMetrics
  <2>1. committed \in Nat /\ planned \in Nat
    BY <1>13 DEF WriteMetrics
  <2> QED BY <1>13, <2>1 DEF WriteMetrics
<1>14. CASE UNCHANGED streamVars
  BY <1>14 DEF streamVars
<1> QED BY <1>1, <1>2, <1>3, <1>4, <1>5, <1>6, <1>7, <1>8, <1>9, <1>10, <1>11,
           <1>12, <1>13, <1>14 DEF StreamNext, JobStep, ProcessBatch

\* Every reachable state is well typed; in particular the checkpoint never runs
\* ahead of the topic, and completes no batch that it has not begun.
THEOREM TypeCorrect == StreamSpec => []TypeOK
  BY TypeInit, TypeStep, PTL DEF StreamSpec

(***************************************************************************)
(* At least once                                                           *)
(***************************************************************************)

\* What process_batch has done of the current batch when it is about to execute
\* a statement. A later statement may find less in the batch, never more.
SoFar ==
    /\ at \in {"count_bad", "append"} => (Valid # {} => counts.valid > 0)
    /\ at \in {"append", "quarantine"} => (Quarantined # {} => counts.bad > 0)
    /\ at \in {"quarantine", "metrics", "commit"} => \A o \in Valid : raw[o] > 0
    /\ at \in {"metrics", "commit"} => \A o \in Quarantined : quarantine[o] > 0

\* A step that leaves the checkpoint alone leaves the batch as it is, or some of
\* it expires; and the tables only grow.
LEMMA BatchShrinks ==
  ASSUME TypeOK, [StreamNext]_streamVars, UNCHANGED checkpoint
  PROVE  /\ Valid' \subseteq Valid
         /\ Quarantined' \subseteq Quarantined
<1>1. expired' >= expired /\ expired' \in Int /\ expired \in Int
  BY DEF TypeOK, StreamNext, JobStep, ProcessBatch, Publish, Expire, FirstStart, Restart,
         PlanBatch, CommitBatch, Crash, IsEmpty, CountValid, CountBad, AppendValid,
         AppendQuarantined, WriteMetrics, Statement, streamVars, jobVars
<1>2. \A o \in Offsets : o <= planned => topic'[o] = topic[o]
  <2>1. CASE UNCHANGED topic
    BY <2>1
  <2>2. ASSUME NEW e \in Events, Publish(e) PROVE \A o \in Offsets : o <= planned => topic'[o] = topic[o]
    BY <2>2 DEF Publish, TypeOK, Offsets
  <2> QED BY <2>1, <2>2 DEF StreamNext, JobStep, ProcessBatch, Expire, FirstStart,
         Restart, PlanBatch, CommitBatch, Crash, IsEmpty, CountValid, CountBad,
         AppendValid, AppendQuarantined, WriteMetrics, Statement, streamVars
<1>3. \A o \in Batch' : o \in Batch /\ topic'[o] = topic[o]
  BY <1>1, <1>2, StreamAssumption DEF Batch, Offsets, checkpoint
<1>4. \A o \in Batch : o \in Batch' => topic'[o] = topic[o]
  BY <1>3
<1> QED BY <1>3 DEF Valid, Quarantined

LEMMA SoFarStep == TypeOK /\ SoFar /\ [StreamNext]_streamVars => SoFar'
<1> SUFFICES ASSUME TypeOK, SoFar, [StreamNext]_streamVars PROVE SoFar'
  OBVIOUS
<1>0. Valid \subseteq Offsets /\ Quarantined \subseteq Offsets
  BY DEF Valid, Quarantined, Batch
<1> USE StreamAssumption DEF SoFar, Statement
<1>1. ASSUME NEW e \in Events, Publish(e) PROVE SoFar'
  BY <1>1, BatchShrinks DEF Publish, jobVars, tables
<1>2. CASE Expire
  BY <1>2, BatchShrinks DEF Expire, tables
<1>3. CASE FirstStart
  BY <1>3 DEF FirstStart
<1>4. CASE Restart
  BY <1>4 DEF Restart
<1>5. CASE PlanBatch
  BY <1>5 DEF PlanBatch
<1>6. CASE CommitBatch
  BY <1>6 DEF CommitBatch
<1>7. CASE Crash
  BY <1>7 DEF Crash
<1>8. CASE IsEmpty
  BY <1>8, BatchShrinks DEF IsEmpty, Valid, Quarantined
<1>9. CASE CountValid
  BY <1>9, BatchShrinks, PartsCounted DEF CountValid, TypeOK
<1>10. CASE CountBad
  BY <1>10, BatchShrinks, PartsCounted DEF CountBad, TypeOK
<1>11. CASE AppendValid
  BY SMTT(20), <1>0, <1>11, BatchShrinks DEF AppendValid, OneMore, TypeOK
<1>12. CASE AppendQuarantined
  BY SMTT(20), <1>0, <1>12, BatchShrinks DEF AppendQuarantined, OneMore, TypeOK
<1>13. CASE WriteMetrics
  BY <1>13, BatchShrinks DEF WriteMetrics, tables
<1>14. CASE UNCHANGED streamVars
  BY <1>14, BatchShrinks DEF streamVars, jobVars, tables
<1> QED BY <1>1, <1>2, <1>3, <1>4, <1>5, <1>6, <1>7, <1>8, <1>9, <1>10, <1>11,
           <1>12, <1>13, <1>14 DEF StreamNext, JobStep, ProcessBatch

\* Tables only grow, events stay where they are, and nothing is unexpired.
LEMMA StoredStays ==
  ASSUME TypeOK, [StreamNext]_streamVars, NEW o \in Offsets, o <= Len(topic)
  PROVE  /\ topic'[o] = topic[o] /\ o <= Len(topic')
         /\ Stored(o) => Stored(o)'
         /\ o <= expired => o <= expired'
<1>1. topic'[o] = topic[o] /\ o <= Len(topic')
  <2>1. CASE UNCHANGED topic
    BY <2>1
  <2>2. ASSUME NEW e \in Events, Publish(e) PROVE topic'[o] = topic[o] /\ o <= Len(topic')
    BY <2>2, StreamAssumption DEF Publish, TypeOK, Offsets
  <2> QED BY <2>1, <2>2 DEF StreamNext, JobStep, ProcessBatch, Expire, FirstStart,
         Restart, PlanBatch, CommitBatch, Crash, IsEmpty, CountValid, CountBad,
         AppendValid, AppendQuarantined, WriteMetrics, Statement, streamVars
<1>2. raw'[o] >= raw[o] /\ quarantine'[o] >= quarantine[o]
  <2>1. CASE UNCHANGED tables
    BY <2>1 DEF TypeOK, tables
  <2>2. CASE AppendValid
    BY <2>2 DEF AppendValid, OneMore, TypeOK
  <2>3. CASE AppendQuarantined
    BY <2>3 DEF AppendQuarantined, OneMore, TypeOK
  <2> QED BY <2>1, <2>2, <2>3 DEF StreamNext, JobStep, ProcessBatch, Publish, Expire,
         FirstStart, Restart, PlanBatch, CommitBatch, Crash, IsEmpty, CountValid,
         CountBad, WriteMetrics, streamVars, jobVars
<1>3. raw[o] \in Nat /\ raw'[o] \in Int /\ quarantine[o] \in Nat /\ quarantine'[o] \in Int
  <2>1. raw' \in [Offsets -> Int] /\ quarantine' \in [Offsets -> Int]
    <3>1. CASE UNCHANGED tables
      BY <3>1 DEF TypeOK, tables
    <3>2. CASE AppendValid
      BY <3>2 DEF AppendValid, OneMore, TypeOK
    <3>3. CASE AppendQuarantined
      BY <3>3 DEF AppendQuarantined, OneMore, TypeOK
    <3> QED BY <3>1, <3>2, <3>3 DEF StreamNext, JobStep, ProcessBatch, Publish, Expire,
         FirstStart, Restart, PlanBatch, CommitBatch, Crash, IsEmpty, CountValid,
         CountBad, WriteMetrics, streamVars, jobVars
  <2> QED BY <2>1 DEF TypeOK
<1>4. expired' >= expired /\ expired' \in Int /\ expired \in Int
  BY DEF TypeOK, StreamNext, JobStep, ProcessBatch, Publish, Expire, FirstStart, Restart,
         PlanBatch, CommitBatch, Crash, IsEmpty, CountValid, CountBad, AppendValid,
         AppendQuarantined, WriteMetrics, Statement, streamVars, jobVars
<1> QED BY <1>1, <1>2, <1>3, <1>4, StreamAssumption DEF Stored, Offsets

LEMMA AtLeastOnceStep ==
  TypeOK /\ SoFar /\ AtLeastOnce /\ [StreamNext]_streamVars => AtLeastOnce'
<1> SUFFICES ASSUME TypeOK, SoFar, AtLeastOnce, [StreamNext]_streamVars,
                    NEW o \in Offsets, origin' < o, o <= committed'
             PROVE  (Stored(o) \/ o <= expired)'
  BY DEF AtLeastOnce, Offsets
<1>0. o \in Int /\ origin \in Int /\ committed \in Int /\ planned \in Int
      /\ expired \in Int /\ Len(topic) \in Int
  BY StreamAssumption DEF Offsets, TypeOK, NotYet
<1>1. CASE UNCHANGED <<origin, committed>>
  <2>1. o <= Len(topic)
    BY <1>0, <1>1 DEF TypeOK
  <2> QED BY <1>1, <2>1, StoredStays DEF AtLeastOnce
<1>2. CASE FirstStart
  BY <1>0, <1>2 DEF FirstStart, TypeOK
<1>3. CASE CommitBatch
  <2>1. o <= planned /\ o <= Len(topic) /\ origin < o
    BY <1>0, <1>3 DEF CommitBatch, TypeOK
  <2>2. CASE o <= committed
    BY <2>1, <2>2, StoredStays DEF AtLeastOnce
  <2>3. CASE committed < o
    <3>1. o \in Batch \/ o <= expired
      BY <1>0, <2>1, <2>3 DEF Batch
    <3>2. o \in Batch => Stored(o)
      BY <1>3 DEF CommitBatch, SoFar, Valid, Quarantined, Stored
    <3> QED BY <2>1, <3>1, <3>2, StoredStays
  <2> QED BY <1>0, <2>2, <2>3
<1> QED BY <1>1, <1>2, <1>3 DEF StreamNext, JobStep, ProcessBatch, Publish, Expire,
         Restart, PlanBatch, Crash, IsEmpty, CountValid, CountBad, AppendValid,
         AppendQuarantined, WriteMetrics, Statement, streamVars, jobVars, checkpoint

LEMMA AtLeastOnceInit == StreamInit => SoFar /\ AtLeastOnce
  BY StreamAssumption DEF StreamInit, SoFar, AtLeastOnce, NotYet, Offsets

\* The checkpoint never passes an event that is in neither table, in whatever
\* order the job fails, restarts and writes, and whatever the topic drops.
THEOREM AtLeastOnceHolds == StreamSpec => []AtLeastOnce
<1>1. StreamInit => TypeOK /\ Begun /\ SoFar /\ AtLeastOnce
  BY TypeInit, AtLeastOnceInit
<1>2. TypeOK /\ Begun /\ SoFar /\ AtLeastOnce /\ [StreamNext]_streamVars
      => TypeOK' /\ Begun' /\ SoFar' /\ AtLeastOnce'
  BY TypeStep, SoFarStep, AtLeastOnceStep
<1> QED BY <1>1, <1>2, PTL DEF StreamSpec

(***************************************************************************)
(* Copies                                                                  *)
(***************************************************************************)

\* Beyond the checkpoint an event has a copy for each failure at most, and one
\* more only where the append of the current batch is done; beyond the batch it
\* has none. Each event is in the table it belongs to.
CopyBounds ==
    \A o \in Offsets :
        /\ raw[o] <= 1 + crashes /\ quarantine[o] <= 1 + crashes
        /\ committed < o =>
              /\ at \notin {"quarantine", "metrics", "commit"} => raw[o] <= crashes
              /\ at \notin {"metrics", "commit"} => quarantine[o] <= crashes
        /\ planned < o => raw[o] = 0 /\ quarantine[o] = 0
        /\ raw[o] > 0 => topic[o] \notin BadEvents
        /\ quarantine[o] > 0 => topic[o] \in BadEvents

LEMMA CopyBoundsInit == StreamInit => CopyBounds
  BY DEF StreamInit, CopyBounds

LEMMA CopyBoundsStep ==
  TypeOK /\ Begun /\ CopyBounds /\ [StreamNext]_streamVars => CopyBounds'
<1> SUFFICES ASSUME TypeOK, Begun, CopyBounds, [StreamNext]_streamVars PROVE CopyBounds'
  OBVIOUS
<1>0. /\ committed \in Int /\ planned \in Int /\ origin \in Int
      /\ crashes \in Nat /\ Len(topic) \in Int /\ Offsets \subseteq Int
      /\ committed <= planned /\ planned <= Len(topic)
      /\ raw \in [Offsets -> Nat] /\ quarantine \in [Offsets -> Nat]
  BY StreamAssumption DEF TypeOK, NotYet, Offsets
<1> USE <1>0 DEF CopyBounds, checkpoint, tables
<1>1. ASSUME NEW e \in Events, Publish(e) PROVE CopyBounds'
  <2>1. \A o \in Offsets : o <= planned => topic'[o] = topic[o]
    BY <1>1, StreamAssumption DEF Publish, TypeOK, Offsets
  <2>2. \A o \in Offsets : planned < o \/ o <= planned
    OBVIOUS
  <2>3. \A o \in Offsets : raw[o] > 0 \/ quarantine[o] > 0 => topic'[o] = topic[o]
    BY <2>1, <2>2
  <2> QED BY <1>1, <2>3 DEF Publish, jobVars
<1>2. CASE Expire
  BY <1>2 DEF Expire
<1>3. CASE FirstStart
  BY <1>3 DEF FirstStart, TypeOK
<1>4. CASE Restart
  BY <1>4 DEF Restart
<1>5. CASE PlanBatch
  BY <1>5 DEF PlanBatch, Begun
<1>6. CASE CommitBatch
  BY <1>6 DEF CommitBatch
<1>7. CASE Crash
  BY <1>7 DEF Crash
<1>8. CASE IsEmpty
  BY <1>8 DEF IsEmpty, Statement
<1>9. CASE CountValid
  BY <1>9 DEF CountValid, Statement
<1>10. CASE CountBad
  BY <1>10 DEF CountBad, Statement
<1>11. CASE AppendValid
  <2>1. \A o \in Valid : committed < o /\ o <= planned /\ topic[o] \notin BadEvents
    BY DEF Valid, Batch
  <2>2. \A o \in Offsets : raw'[o] = raw[o] \/ (o \in Valid /\ raw'[o] = raw[o] + 1)
    BY <1>11 DEF AppendValid, OneMore
  <2> QED BY <1>11, <2>1, <2>2 DEF AppendValid, Statement
<1>12. CASE AppendQuarantined
  <2>1. \A o \in Quarantined : committed < o /\ o <= planned /\ topic[o] \in BadEvents
    BY DEF Quarantined, Valid, Batch
  <2>2. \A o \in Offsets : \/ quarantine'[o] = quarantine[o]
                           \/ o \in Quarantined /\ quarantine'[o] = quarantine[o] + 1
    BY <1>12 DEF AppendQuarantined, OneMore
  <2> QED BY <1>12, <2>1, <2>2 DEF AppendQuarantined, Statement
<1>13. CASE WriteMetrics
  BY <1>13 DEF WriteMetrics, Statement
<1>14. CASE UNCHANGED streamVars
  BY <1>14 DEF streamVars, jobVars
<1> QED BY <1>1, <1>2, <1>3, <1>4, <1>5, <1>6, <1>7, <1>8, <1>9, <1>10, <1>11,
           <1>12, <1>13, <1>14 DEF StreamNext, JobStep, ProcessBatch

\* An event gets a second copy only by a failure of the job, one for each, and
\* none is in both tables.
THEOREM CopiesHold == StreamSpec => []CopiesOnlyByReplay
<1>1. StreamInit => TypeOK /\ Begun /\ CopyBounds
  BY TypeInit, CopyBoundsInit
<1>2. TypeOK /\ Begun /\ CopyBounds /\ [StreamNext]_streamVars
      => TypeOK' /\ Begun' /\ CopyBounds'
  BY TypeStep, CopyBoundsStep
<1>3. TypeOK /\ CopyBounds => CopiesOnlyByReplay
  <2> SUFFICES ASSUME TypeOK, CopyBounds, NEW o \in Offsets
               PROVE  raw[o] = 0 \/ quarantine[o] = 0
    BY DEF CopyBounds, CopiesOnlyByReplay
  <2>1. raw[o] \in Nat /\ quarantine[o] \in Nat
    BY DEF TypeOK
  <2> QED BY <2>1 DEF CopyBounds
<1> QED BY <1>1, <1>2, <1>3, PTL DEF StreamSpec

(***************************************************************************)
(* The metrics file                                                        *)
(***************************************************************************)

Line(o, i) == logged[i].from < o /\ o <= logged[i].to

\* A batch about to be completed has its line, if there is still anything in it.
LineWritten ==
    at = "commit" => \A o \in Batch : \E i \in DOMAIN logged : Line(o, i)

LEMMA LinesStay ==
  ASSUME TypeOK, Begun, [StreamNext]_streamVars, NEW o, NEW i \in DOMAIN logged, Line(o, i)
  PROVE  \E j \in DOMAIN logged' : Line(o, j)'
<1>1. CASE UNCHANGED logged
  BY <1>1 DEF Line
<1>2. CASE WriteMetrics
  <2> DEFINE Lines == [from : Nat, to : Nat, valid : Nat, bad : Nat]
             line == [from |-> committed, to |-> planned,
                      valid |-> counts.valid, bad |-> counts.bad]
  <2>1. logged \in Seq(Lines)
    BY DEF TypeOK
  <2>2. line \in Lines
    <3>1. origin \in Nat
      BY <1>2 DEF WriteMetrics, Statement, Begun, TypeOK
    <3>2. {planned, committed} \subseteq Int /\ origin <= committed /\ committed <= planned
      BY DEF TypeOK
    <3>3. counts.valid \in Nat /\ counts.bad \in Nat
      BY DEF TypeOK
    <3>4. committed \in Nat /\ planned \in Nat
      BY <3>1, <3>2
    <3> QED BY <3>3, <3>4
  <2>3. logged' = Append(logged, line)
    BY <1>2 DEF WriteMetrics
  <2> HIDE DEF Lines, line
  <2>4. i \in DOMAIN logged' /\ logged'[i] = logged[i]
    BY <2>1, <2>2, <2>3, AppendProperties
  <2> QED BY <2>4 DEF Line
<1> QED BY <1>1, <1>2 DEF StreamNext, JobStep, ProcessBatch, Publish, Expire, FirstStart,
         Restart, PlanBatch, CommitBatch, Crash, IsEmpty, CountValid, CountBad,
         AppendValid, AppendQuarantined, streamVars, jobVars

LEMMA LineWrittenStep ==
  TypeOK /\ Begun /\ LineWritten /\ [StreamNext]_streamVars => LineWritten'
<1> SUFFICES ASSUME TypeOK, Begun, LineWritten, [StreamNext]_streamVars, at' = "commit",
                    NEW o \in Batch'
             PROVE  \E i \in DOMAIN logged' : Line(o, i)'
  BY DEF LineWritten
<1>1. UNCHANGED checkpoint /\ (at = "commit" \/ IsEmpty \/ WriteMetrics)
  BY DEF StreamNext, JobStep, ProcessBatch, Publish, Expire, FirstStart, Restart,
         PlanBatch, CommitBatch, Crash, IsEmpty, CountValid, CountBad, AppendValid,
         AppendQuarantined, WriteMetrics, Statement, streamVars, jobVars
<1>2. o \in Batch
  BY <1>1, BatchShrinks DEF Quarantined, Valid
<1>3. CASE at = "commit"
  BY <1>2, <1>3, LinesStay DEF LineWritten
<1>4. CASE IsEmpty
  BY <1>2, <1>4 DEF IsEmpty, Statement
<1>5. CASE WriteMetrics
  <2>1. /\ Len(logged) + 1 \in DOMAIN logged'
        /\ logged'[Len(logged) + 1].from = committed
        /\ logged'[Len(logged) + 1].to = planned
    BY <1>5 DEF WriteMetrics, TypeOK
  <2> QED BY <1>2, <2>1 DEF Line, Batch
<1> QED BY <1>1, <1>3, <1>4, <1>5

LEMMA BatchLoggedStep ==
  TypeOK /\ Begun /\ LineWritten /\ EveryBatchLogged /\ [StreamNext]_streamVars => EveryBatchLogged'
<1> SUFFICES ASSUME TypeOK, Begun, LineWritten, EveryBatchLogged, [StreamNext]_streamVars,
                    NEW o \in Offsets, origin' < o, o <= committed', expired' < o
             PROVE  \E i \in DOMAIN logged' : Line(o, i)'
  BY DEF EveryBatchLogged, Line, Offsets
<1>0. o \in Int /\ origin \in Int /\ committed \in Int /\ planned \in Int
      /\ expired \in Int /\ Len(topic) \in Int
  BY StreamAssumption DEF Offsets, TypeOK, NotYet
<1>1. CASE UNCHANGED <<origin, committed>>
  <2>1. expired < o
    BY <1>0 DEF StreamNext, JobStep, ProcessBatch, Publish, Expire, FirstStart, Restart,
         PlanBatch, CommitBatch, Crash, IsEmpty, CountValid, CountBad, AppendValid,
         AppendQuarantined, WriteMetrics, Statement, streamVars, jobVars
  <2>2. PICK i \in DOMAIN logged : Line(o, i)
    BY <1>1, <2>1 DEF EveryBatchLogged, Line
  <2> QED BY <2>2, LinesStay
<1>2. CASE FirstStart
  BY <1>0, <1>2 DEF FirstStart, TypeOK
<1>3. CASE CommitBatch
  <2>1. expired < o /\ origin < o /\ o <= planned
    BY <1>0, <1>3 DEF CommitBatch
  <2>2. \E i \in DOMAIN logged : Line(o, i)
    BY <1>0, <1>3, <2>1 DEF CommitBatch, LineWritten, EveryBatchLogged, Line, Batch
  <2> QED BY <2>2, LinesStay
<1> QED BY <1>1, <1>2, <1>3 DEF StreamNext, JobStep, ProcessBatch, Publish, Expire,
         Restart, PlanBatch, Crash, IsEmpty, CountValid, CountBad, AppendValid,
         AppendQuarantined, WriteMetrics, Statement, streamVars, jobVars, checkpoint

LEMMA LoggedInit == StreamInit => LineWritten /\ EveryBatchLogged
  BY StreamAssumption DEF StreamInit, LineWritten, EveryBatchLogged, NotYet, Offsets

\* Every completed batch of which the topic still holds something has a line in
\* the quality metrics file, through failures and replays.
THEOREM BatchesLogged == StreamSpec => []EveryBatchLogged
<1>1. StreamInit => TypeOK /\ Begun /\ LineWritten /\ EveryBatchLogged
  BY TypeInit, LoggedInit
<1>2. TypeOK /\ Begun /\ LineWritten /\ EveryBatchLogged /\ [StreamNext]_streamVars
      => TypeOK' /\ Begun' /\ LineWritten' /\ EveryBatchLogged'
  BY TypeStep, LineWrittenStep, BatchLoggedStep
<1> QED BY <1>1, <1>2, PTL DEF StreamSpec

(***************************************************************************)
(* The rows the metrics file claims                                        *)
(***************************************************************************)

\* Claimed and stored rows differ by the events that expired between the count
\* of a batch and its append. While a batch is counted and not yet appended, the
\* part of it that is still there will be stored.
ValidBacked ==
    LET claimed == SumFunction(LoggedValid)
        stored == SumFunction(raw)
    IN  /\ claimed <= stored + expired
        /\ at \in {"count_bad", "append"} =>
              claimed + counts.valid <= stored + Cardinality(Valid) + expired
        /\ at \in {"quarantine", "metrics"} => claimed + counts.valid <= stored + expired

BadBacked ==
    LET claimed == SumFunction(LoggedBad)
        stored == SumFunction(quarantine)
    IN  /\ claimed <= stored + expired
        /\ at \in {"append", "quarantine"} =>
              claimed + counts.bad <= stored + Cardinality(Quarantined) + expired
        /\ at = "metrics" => claimed + counts.bad <= stored + expired

LEMMA LinesTyped ==
  ASSUME TypeOK
  PROVE  /\ Len(logged) \in Nat /\ DOMAIN logged = 1..Len(logged)
         /\ \A i \in DOMAIN logged : logged[i].valid \in Nat /\ logged[i].bad \in Nat
<1> DEFINE Lines == [from : Nat, to : Nat, valid : Nat, bad : Nat]
<1>1. logged \in Seq(Lines)
  BY DEF TypeOK
<1>2. \A line \in Lines : line.valid \in Nat /\ line.bad \in Nat
  OBVIOUS
<1> HIDE DEF Lines
<1>3. Len(logged) \in Nat /\ DOMAIN logged = 1..Len(logged)
      /\ \A i \in DOMAIN logged : logged[i] \in Lines
  BY <1>1
<1> QED BY <1>2, <1>3

LEMMA SumsAreNumbers ==
  ASSUME TypeOK
  PROVE  /\ SumFunction(LoggedValid) \in Int /\ SumFunction(LoggedBad) \in Int
         /\ SumFunction(raw) \in Int /\ SumFunction(quarantine) \in Int
         /\ Cardinality(Valid) \in Nat /\ Cardinality(Quarantined) \in Nat
         /\ counts.valid \in Nat /\ counts.bad \in Nat /\ expired \in Nat
         /\ IsFiniteSet(Offsets) /\ IsFiniteSet(DOMAIN logged)
<1>1. IsFiniteSet(Offsets) /\ IsFiniteSet(DOMAIN logged)
  BY LinesTyped, FS_Interval, StreamAssumption DEF Offsets
<1>2. \A i \in DOMAIN logged : logged[i].valid \in Nat /\ logged[i].bad \in Nat
  BY LinesTyped
<1>3. SumFunction(LoggedValid) \in Int /\ SumFunction(LoggedBad) \in Int
  BY <1>1, <1>2, SumRemove DEF SumFunction, LoggedValid, LoggedBad
<1>4. SumFunction(raw) \in Int /\ SumFunction(quarantine) \in Int
  BY <1>1, SumRemove DEF SumFunction, TypeOK
<1>5. counts.valid \in Nat /\ counts.bad \in Nat /\ expired \in Nat
  BY DEF TypeOK
<1> QED BY <1>1, <1>3, <1>4, <1>5, PartsCounted

\* Rows come to a table with the append of a batch, to the file with its line.
LEMMA RowsAppended ==
  ASSUME TypeOK, NEW copies \in [Offsets -> Nat], NEW S \in SUBSET Offsets
  PROVE  SumFunction(OneMore(copies, S)) = SumFunction(copies) + Cardinality(S)
<1>1. IsFiniteSet(Offsets)
  BY SumsAreNumbers
<1>2. DOMAIN OneMore(copies, S) = Offsets
      /\ \A o \in Offsets : OneMore(copies, S)[o] = copies[o] + IF o \in S THEN 1 ELSE 0
  BY DEF OneMore
<1>3. SumFunctionOnSet(OneMore(copies, S), Offsets)
         = SumFunctionOnSet(copies, Offsets) + Cardinality(S)
  <2> DEFINE more == OneMore(copies, S)
  <2>1. \A o \in Offsets : more[o] = copies[o] + IF o \in S THEN 1 ELSE 0
    BY <1>2
  <2>2. \A o \in Offsets : copies[o] \in Int
    OBVIOUS
  <2> HIDE DEF more
  <2>3. SumFunctionOnSet(more, Offsets) = SumFunctionOnSet(copies, Offsets) + Cardinality(S)
    BY <1>1, <2>1, <2>2, SumRaised
  <2> QED BY <2>3 DEF more
<1> QED BY <1>2, <1>3 DEF SumFunction

LEMMA LineAdded ==
  ASSUME TypeOK, Begun, WriteMetrics
  PROVE  /\ SumFunction(LoggedValid)' = SumFunction(LoggedValid) + counts.valid
         /\ SumFunction(LoggedBad)' = SumFunction(LoggedBad) + counts.bad
<1> DEFINE n == Len(logged)
           line == [from |-> committed, to |-> planned,
                    valid |-> counts.valid, bad |-> counts.bad]
<1>1. n \in Nat /\ DOMAIN logged = 1..n /\ n + 1 \notin 1..n
  BY LinesTyped
<1>2. DOMAIN logged' = 1..n \cup {n + 1} /\ logged'[n + 1] = line
      /\ \A i \in 1..n : logged'[i] = logged[i]
  BY <1>1 DEF WriteMetrics, TypeOK
<1>3. \A i \in 1..n : logged[i].valid \in Nat /\ logged[i].bad \in Nat
  BY <1>1, LinesTyped
<1>4. counts.valid \in Nat /\ counts.bad \in Nat /\ IsFiniteSet(1..n)
  BY <1>1, SumsAreNumbers
<1> HIDE DEF n
<1>5. ASSUME NEW f, NEW g, NEW k \in Nat, \A i \in 1..n : f[i] \in Nat /\ g[i] = f[i], g[n + 1] = k
      PROVE  SumFunctionOnSet(g, 1..n \cup {n + 1}) = SumFunctionOnSet(f, 1..n) + k
  <2>0. \A i \in 1..n \cup {n + 1} : g[i] \in Int
    BY <1>5
  <2>1. SumFunctionOnSet(g, 1..n \cup {n + 1}) = SumFunctionOnSet(g, 1..n) + g[n + 1]
    BY <1>1, <1>4, <2>0, SumAdd
  <2>2. SumFunctionOnSet(g, 1..n) = SumFunctionOnSet(f, 1..n)
    BY <1>4, <1>5, SumSame
  <2> QED BY <1>5, <2>1, <2>2
<1>6. DOMAIN LoggedValid = 1..n /\ DOMAIN LoggedBad = 1..n
      /\ \A i \in 1..n : LoggedValid[i] = logged[i].valid /\ LoggedBad[i] = logged[i].bad
  BY <1>1 DEF LoggedValid, LoggedBad
<1>7. DOMAIN LoggedValid' = 1..n \cup {n + 1} /\ DOMAIN LoggedBad' = 1..n \cup {n + 1}
      /\ \A i \in 1..n \cup {n + 1} : /\ LoggedValid'[i] = logged'[i].valid
                                      /\ LoggedBad'[i] = logged'[i].bad
  BY <1>2 DEF LoggedValid, LoggedBad
<1>8. SumFunctionOnSet(LoggedValid', 1..n \cup {n + 1})
         = SumFunctionOnSet(LoggedValid, 1..n) + counts.valid
  <2>1. ASSUME NEW i \in 1..n PROVE LoggedValid[i] \in Nat /\ LoggedValid'[i] = LoggedValid[i]
    <3>1. LoggedValid[i] = logged[i].valid /\ LoggedValid'[i] = logged'[i].valid
      BY <1>6, <1>7
    <3>2. logged'[i] = logged[i]
      BY <1>2
    <3> QED BY <1>3, <3>1, <3>2
  <2>2. LoggedValid'[n + 1] = counts.valid
    <3>1. LoggedValid'[n + 1] = logged'[n + 1].valid
      BY <1>7
    <3> QED BY <1>2, <3>1
  <2> QED BY <1>4, <1>5, <2>1, <2>2
<1>9. SumFunctionOnSet(LoggedBad', 1..n \cup {n + 1})
         = SumFunctionOnSet(LoggedBad, 1..n) + counts.bad
  <2>1. ASSUME NEW i \in 1..n PROVE LoggedBad[i] \in Nat /\ LoggedBad'[i] = LoggedBad[i]
    <3>1. LoggedBad[i] = logged[i].bad /\ LoggedBad'[i] = logged'[i].bad
      BY <1>6, <1>7
    <3>2. logged'[i] = logged[i]
      BY <1>2
    <3> QED BY <1>3, <3>1, <3>2
  <2>2. LoggedBad'[n + 1] = counts.bad
    <3>1. LoggedBad'[n + 1] = logged'[n + 1].bad
      BY <1>7
    <3> QED BY <1>2, <3>1
  <2> QED BY <1>4, <1>5, <2>1, <2>2
<1> QED BY <1>6, <1>7, <1>8, <1>9 DEF SumFunction

\* Expiry takes one event at most from what is left of a batch, publishing none.
LEMMA PartsShrinkByOne ==
  /\ TypeOK /\ Expire => /\ Cardinality(Valid) <= Cardinality(Valid') + 1
                         /\ Cardinality(Quarantined) <= Cardinality(Quarantined') + 1
  /\ TypeOK /\ UNCHANGED <<expired, checkpoint>> /\ [StreamNext]_streamVars =>
        Valid' = Valid /\ Quarantined' = Quarantined
<1>1. ASSUME NEW S \in SUBSET Offsets, NEW R \in SUBSET Offsets, NEW o, S \subseteq R \cup {o}
      PROVE  Cardinality(S) <= Cardinality(R) + 1
  <2>1. IsFiniteSet(Offsets)
    BY FS_Interval, StreamAssumption DEF Offsets
  <2>2. IsFiniteSet(R) /\ Cardinality(R) \in Nat /\ Cardinality(S) \in Nat
    BY <2>1, FS_Subset, FS_CardinalityType
  <2>3. IsFiniteSet(R \cup {o}) /\ Cardinality(R \cup {o}) <= Cardinality(R) + 1
        /\ Cardinality(R \cup {o}) \in Nat
    <3>1. IsFiniteSet(R \cup {o})
          /\ Cardinality(R \cup {o}) = IF o \in R THEN Cardinality(R) ELSE Cardinality(R) + 1
      BY <2>2, FS_AddElement
    <3> QED BY <2>2, <3>1
  <2>4. Cardinality(S) <= Cardinality(R \cup {o})
    BY <1>1, <2>3, FS_Subset
  <2> QED BY <2>2, <2>3, <2>4
<1>2. ASSUME TypeOK, Expire
      PROVE  /\ Cardinality(Valid) <= Cardinality(Valid') + 1
             /\ Cardinality(Quarantined) <= Cardinality(Quarantined') + 1
  <2>1. UNCHANGED <<topic, checkpoint>> /\ expired' = expired + 1 /\ expired \in Int
        /\ Offsets \subseteq Int
    BY <1>2, StreamAssumption DEF Expire, TypeOK, Offsets
  <2>2. Batch \subseteq Batch' \cup {expired + 1}
    BY <2>1, StreamAssumption DEF Batch, checkpoint, Offsets
  <2>3. Valid \subseteq Valid' \cup {expired + 1} /\ Quarantined \subseteq Quarantined' \cup {expired + 1}
    BY <2>1, <2>2 DEF Valid, Quarantined
  <2>4. Valid \in SUBSET Offsets /\ Valid' \in SUBSET Offsets
        /\ Quarantined \in SUBSET Offsets /\ Quarantined' \in SUBSET Offsets
    BY DEF Valid, Quarantined, Batch, Offsets
  <2> QED BY <1>1, <2>3, <2>4
<1>3. ASSUME TypeOK, UNCHANGED <<expired, checkpoint>>, [StreamNext]_streamVars
      PROVE  Valid' = Valid /\ Quarantined' = Quarantined
  <2>1. Batch' = Batch
    BY <1>3 DEF Batch, checkpoint, Offsets
  <2>2. \A o \in Batch : topic'[o] = topic[o]
    <3>1. \A o \in Batch : o \in Offsets /\ o <= Len(topic)
      <4>1. Offsets \subseteq Int /\ planned \in Int /\ Len(topic) \in Int /\ planned <= Len(topic)
        BY StreamAssumption, <1>3 DEF TypeOK, Offsets
      <4> QED BY <4>1 DEF Batch
    <3> QED BY <1>3, <3>1, StoredStays
  <2> QED BY <2>1, <2>2 DEF Valid, Quarantined
<1> QED BY <1>2, <1>3

LEMMA BackedStep ==
  TypeOK /\ Begun /\ ValidBacked /\ BadBacked /\ [StreamNext]_streamVars => ValidBacked' /\ BadBacked'
<1> SUFFICES ASSUME TypeOK, Begun, ValidBacked, BadBacked, [StreamNext]_streamVars
             PROVE  ValidBacked' /\ BadBacked'
  OBVIOUS
<1>0. TypeOK'
  BY TypeStep
<1> DEFINE cv == SumFunction(LoggedValid)
           cb == SumFunction(LoggedBad)
           sv == SumFunction(raw)
           sb == SumFunction(quarantine)
           nv == Cardinality(Valid)
           nb == Cardinality(Quarantined)
<1>1. cv \in Int /\ cb \in Int /\ sv \in Int /\ sb \in Int /\ nv \in Nat /\ nb \in Nat
      /\ counts.valid \in Nat /\ counts.bad \in Nat /\ expired \in Nat
  BY SumsAreNumbers
<1>2. nv' \in Nat /\ nb' \in Nat
  BY PartCounted DEF Valid, Quarantined, Batch, Offsets
<1>3. /\ UNCHANGED logged => cv' = cv /\ cb' = cb
      /\ UNCHANGED raw => sv' = sv
      /\ UNCHANGED quarantine => sb' = sb
  BY DEF LoggedValid, LoggedBad
<1>4. UNCHANGED <<expired, checkpoint>> => nv' = nv /\ nb' = nb
  BY PartsShrinkByOne
<1>5. Expire => nv <= nv' + 1 /\ nb <= nb' + 1
  BY PartsShrinkByOne
<1>6. AppendValid => sv' = IF counts.valid > 0 THEN sv + nv ELSE sv
  <2>1. Valid \in SUBSET Offsets
    BY DEF Valid, Batch
  <2> QED BY <2>1, RowsAppended DEF AppendValid, TypeOK
<1>7. AppendQuarantined => sb' = IF counts.bad > 0 THEN sb + nb ELSE sb
  <2>1. Quarantined \in SUBSET Offsets
    BY DEF Quarantined, Batch
  <2> QED BY <2>1, RowsAppended DEF AppendQuarantined, TypeOK
<1>8. WriteMetrics => cv' = cv + counts.valid /\ cb' = cb + counts.bad
  BY LineAdded
<1>9. /\ cv <= sv + expired
      /\ at \in {"count_bad", "append"} => cv + counts.valid <= sv + nv + expired
      /\ at \in {"quarantine", "metrics"} => cv + counts.valid <= sv + expired
      /\ cb <= sb + expired
      /\ at \in {"append", "quarantine"} => cb + counts.bad <= sb + nb + expired
      /\ at = "metrics" => cb + counts.bad <= sb + expired
  BY DEF ValidBacked, BadBacked
<1> SUFFICES
      /\ cv' <= sv' + expired'
      /\ at' \in {"count_bad", "append"} => cv' + counts'.valid <= sv' + nv' + expired'
      /\ at' \in {"quarantine", "metrics"} => cv' + counts'.valid <= sv' + expired'
      /\ cb' <= sb' + expired'
      /\ at' \in {"append", "quarantine"} => cb' + counts'.bad <= sb' + nb' + expired'
      /\ at' = "metrics" => cb' + counts'.bad <= sb' + expired'
  BY DEF ValidBacked, BadBacked
<1>10. CountValid => counts'.valid = nv /\ counts'.bad = counts.bad
  BY DEF CountValid, TypeOK
<1>11. CountBad => counts'.bad = nb /\ counts'.valid = counts.valid
  BY DEF CountBad, TypeOK
<1> HIDE DEF cv, cb, sv, sb, nv, nb
<1> USE DEF Statement, checkpoint, tables, jobVars, NoCounts
<1>12. ASSUME NEW e \in Events, Publish(e) PROVE UNCHANGED jobVars
  BY <1>12 DEF Publish
<1>13. CASE UNCHANGED jobVars
  BY <1>1, <1>3, <1>4, <1>9, <1>13
<1>14. CASE Expire
  <2>1. UNCHANGED <<at, counts, logged, raw, quarantine>> /\ expired' = expired + 1
    BY <1>14 DEF Expire
  <2>2. cv' = cv /\ cb' = cb /\ sv' = sv /\ sb' = sb /\ nv <= nv' + 1 /\ nb <= nb' + 1
    BY <1>3, <1>5, <1>14, <2>1
  <2>3. \A c, s \in Int, k, m, n, e \in Nat :
           /\ c <= s + e => c <= s + (e + 1)
           /\ c + k <= s + e => c + k <= s + (e + 1)
           /\ c + k <= s + n + e /\ n <= m + 1 => c + k <= s + m + (e + 1)
    OBVIOUS
  <2>4. CASE at \in {"count_bad", "append"}
    BY <1>1, <1>2, <1>9, <2>1, <2>2, <2>3, <2>4
  <2>5. CASE at \in {"quarantine", "metrics"}
    BY <1>1, <1>2, <1>9, <2>1, <2>2, <2>3, <2>5
  <2>6. CASE at \notin {"count_bad", "append", "quarantine", "metrics"}
    BY <1>1, <1>2, <1>9, <2>1, <2>2, <2>3, <2>6
  <2> QED BY <2>4, <2>5, <2>6
<1>15. CASE FirstStart \/ Restart \/ PlanBatch \/ CommitBatch \/ Crash
  BY <1>1, <1>3, <1>9, <1>15 DEF FirstStart, Restart, PlanBatch, CommitBatch, Crash
<1>16. CASE IsEmpty
  BY <1>1, <1>3, <1>4, <1>9, <1>16 DEF IsEmpty
<1>17. CASE CountValid
  BY <1>1, <1>3, <1>4, <1>9, <1>10, <1>17 DEF CountValid
<1>18. CASE CountBad
  BY <1>1, <1>3, <1>4, <1>9, <1>11, <1>18 DEF CountBad
<1>19. CASE AppendValid
  BY <1>1, <1>3, <1>4, <1>6, <1>9, <1>19 DEF AppendValid
<1>20. CASE AppendQuarantined
  BY <1>1, <1>3, <1>4, <1>7, <1>9, <1>20 DEF AppendQuarantined
<1>21. CASE WriteMetrics
  BY <1>1, <1>3, <1>4, <1>8, <1>9, <1>21 DEF WriteMetrics
<1> QED BY <1>12, <1>13, <1>14, <1>15, <1>16, <1>17, <1>18, <1>19, <1>20, <1>21
        DEF StreamNext, JobStep, ProcessBatch, streamVars

LEMMA BackedInit == StreamInit => ValidBacked /\ BadBacked
<1> SUFFICES ASSUME StreamInit PROVE ValidBacked /\ BadBacked
  OBVIOUS
<1>1. DOMAIN logged = {} /\ expired = 0 /\ at = "down"
      /\ raw = [o \in Offsets |-> 0] /\ quarantine = raw
  BY DEF StreamInit
<1>2. SumFunction(LoggedValid) = 0 /\ SumFunction(LoggedBad) = 0
  BY <1>1, SumEmpty DEF SumFunction, LoggedValid, LoggedBad
<1>3. TypeOK
  BY TypeInit
<1>4. \A o \in Offsets : raw[o] = 0
  BY <1>1
<1>5. SumFunction(raw) >= 0
  <2>1. SumFunctionOnSet(raw, Offsets) = 0
    BY <1>3, <1>4, SumsAreNumbers, SumZero
  <2> QED BY <1>1, <2>1 DEF SumFunction
<1> QED BY <1>1, <1>2, <1>3, <1>5, SumsAreNumbers DEF ValidBacked, BadBacked

\* The metrics file claims no more rows than the tables have, but for one for
\* each event the topic dropped, through any failures and replays.
THEOREM MetricsBackedHolds == StreamSpec => []MetricsBacked
<1>1. StreamInit => TypeOK /\ Begun /\ ValidBacked /\ BadBacked
  BY TypeInit, BackedInit
<1>2. TypeOK /\ Begun /\ ValidBacked /\ BadBacked /\ [StreamNext]_streamVars
      => TypeOK' /\ Begun' /\ ValidBacked' /\ BadBacked'
  BY TypeStep, BackedStep
<1>3. ValidBacked /\ BadBacked => MetricsBacked
  BY DEF ValidBacked, BadBacked, MetricsBacked
<1> QED BY <1>1, <1>2, <1>3, PTL DEF StreamSpec

(***************************************************************************)
(* The pipeline                                                            *)
(***************************************************************************)

\* The producer's own state: the queue has events that were numbered, no more
\* than it takes, and is gone when main has ended.
ProducerOK ==
    /\ sequence \in 0..MaxSequence
    /\ queue \subseteq 1..sequence
    /\ Cardinality(queue) <= QueueLimit
    /\ main \in P!Ended => queue = {}
    /\ main \in P!Ended \cup {"loop", "flush"}
    /\ topic \in Seq(Events)

Kept(e) == e \in queue \cup failed \/ \E o \in DOMAIN topic : topic[o] = e

ProducerInv == ProducerOK /\ LossOnlyAtLimits

LEMMA MissingIsNotKept == \A e : e \in P!Missing <=> e \in 1..sequence /\ ~Kept(e)
  BY DEF P!Missing, Kept

\* The queue and what is missing are finite sets of events.
LEMMA FiniteEvents ==
  ASSUME sequence \in Int, NEW S, S \subseteq 1..sequence
  PROVE  IsFiniteSet(S) /\ Cardinality(S) \in Nat
<1>1. IsFiniteSet(1..sequence)
  BY FS_Interval
<1>2. IsFiniteSet(S)
  BY <1>1, FS_Subset
<1> QED BY <1>2, FS_CardinalityType

\* The producer's module counts as this one does.
LEMMA SameCardinality == \A S : P!Cardinality(S) = Cardinality(S)
  BY DEF P!Cardinality, Cardinality

LEMMA LimitIsNumber == QueueLimit \in Nat /\ MaxSequence \in Nat /\ Events = 1..MaxSequence
  BY EventsAssumption

LEMMA ProducerInit == Init => ProducerInv
<1> SUFFICES ASSUME Init PROVE ProducerInv
  OBVIOUS
<1>1. sequence = 0 /\ queue = {} /\ main = "loop" /\ topic = <<>>
  BY DEF Init, StreamInit, P!Init
<1>2. P!Missing = {}
  BY <1>1 DEF P!Missing
<1>3. Cardinality({}) = 0
  BY FS_EmptySet
<1>4. ProducerOK
  BY <1>1, <1>3, LimitIsNumber DEF ProducerOK, P!Ended
<1>5. Cardinality(P!Missing) <= QueueLimit + 0
  BY <1>2, <1>3, LimitIsNumber
<1>6. LossOnlyAtLimits
  BY <1>1, <1>2, <1>5, SameCardinality DEF LossOnlyAtLimits, P!LossOnlyAtLimits
<1> QED BY <1>4, <1>6 DEF ProducerInv

\* Appending to the topic loses nothing of it.
LEMMA TopicGrows ==
  ASSUME topic \in Seq(Events), NEW x \in Events, topic' = Append(topic, x)
  PROVE  /\ topic' \in Seq(Events)
         /\ \E o \in DOMAIN topic' : topic'[o] = x
         /\ \A o \in DOMAIN topic : o \in DOMAIN topic' /\ topic'[o] = topic[o]
<1>1. DOMAIN topic' = 1..(Len(topic) + 1) /\ Len(topic) \in Nat
  BY AppendProperties
<1>2. topic'[Len(topic) + 1] = x /\ Len(topic) + 1 \in DOMAIN topic'
  BY <1>1, AppendProperties
<1> QED BY <1>1, <1>2, AppendProperties

\* As long as main lives nothing is missing.
LEMMA NothingMissing ==
  ASSUME ProducerInv, main \notin P!Ended
  PROVE  \A e \in 1..sequence : Kept(e)
  BY MissingIsNotKept
     DEF ProducerInv, LossOnlyAtLimits, P!LossOnlyAtLimits, P!Lossy, P!Ended

\* A step after which nothing is missing.
LEMMA KeepsAll ==
  ASSUME ProducerOK', \A e \in 1..sequence' : Kept(e)'
  PROVE  ProducerInv'
<1>1. P!Missing' = {}
  BY DEF P!Missing, Kept
<1>2. Cardinality(P!Missing') = 0
  BY <1>1, FS_EmptySet
<1>3. 0 <= QueueLimit + 0 /\ 0 <= QueueLimit + 1
  BY LimitIsNumber
<1>4. LossOnlyAtLimits'
  BY <1>1, <1>2, <1>3, SameCardinality DEF LossOnlyAtLimits, P!LossOnlyAtLimits
<1> QED BY <1>4 DEF ProducerInv

\* An end of main that costs the queue, and at most one event besides.
LEMMA EndLoses ==
  ASSUME ProducerInv, main \notin P!Ended, P!Lossy',
         ProducerOK', UNCHANGED <<topic, failed>>,
         \/ sequence' = sequence
         \/ sequence' = sequence + 1 /\ main' = "raised"
  PROVE  ProducerInv'
<1>1. IsFiniteSet(queue) /\ Cardinality(queue) \in Nat /\ Cardinality(queue) <= QueueLimit
  <2>1. sequence \in Int /\ queue \subseteq 1..sequence /\ Cardinality(queue) <= QueueLimit
    BY LimitIsNumber DEF ProducerInv, ProducerOK
  <2> QED BY <2>1, FiniteEvents
<1>2. \A e \in P!Missing' : e \in queue \/ (e = sequence + 1 /\ sequence' = sequence + 1)
  <2> SUFFICES ASSUME NEW e \in P!Missing', e \notin queue
               PROVE  e = sequence + 1 /\ sequence' = sequence + 1
    OBVIOUS
  <2>1. e \in 1..sequence' /\ ~Kept(e)
    BY DEF P!Missing, Kept
  <2>2. e \notin 1..sequence
    BY <2>1, NothingMissing
  <2> QED BY <2>1, <2>2 DEF ProducerInv, ProducerOK
<1>3. CASE sequence' = sequence
  <2>1. P!Missing' \subseteq queue
    BY <1>2, <1>3 DEF ProducerInv, ProducerOK
  <2>2. Cardinality(P!Missing') <= Cardinality(queue) /\ Cardinality(P!Missing') \in Nat
    BY <1>1, <2>1, FS_Subset, FS_CardinalityType
  <2>3. /\ Cardinality(P!Missing') <= QueueLimit + 0
        /\ Cardinality(P!Missing') <= QueueLimit + 1
    BY <1>1, <2>2, LimitIsNumber
  <2>4. LossOnlyAtLimits'
    BY <2>3, SameCardinality DEF LossOnlyAtLimits, P!LossOnlyAtLimits
  <2> QED BY <2>4 DEF ProducerInv
<1>4. CASE sequence' = sequence + 1 /\ main' = "raised"
  <2> DEFINE most == queue \cup {sequence + 1}
  <2>1. P!Missing' \subseteq most
    BY <1>2
  <2>2. IsFiniteSet(most) /\ Cardinality(most) <= Cardinality(queue) + 1
                          /\ Cardinality(most) \in Nat
    BY <1>1, FS_AddElement, FS_CardinalityType
  <2> HIDE DEF most
  <2>3. Cardinality(P!Missing') <= Cardinality(most) /\ Cardinality(P!Missing') \in Nat
    BY <2>1, <2>2, FS_Subset, FS_CardinalityType
  <2>4. Cardinality(P!Missing') <= QueueLimit + 1
    BY <1>1, <2>2, <2>3, LimitIsNumber
  <2>5. LossOnlyAtLimits'
    BY <1>4, <2>4, SameCardinality DEF LossOnlyAtLimits, P!LossOnlyAtLimits
  <2> QED BY <2>5 DEF ProducerInv
<1> QED BY <1>3, <1>4

LEMMA ProducerStep == ProducerInv /\ [Next]_vars => ProducerInv'
<1> SUFFICES ASSUME ProducerInv, [Next]_vars PROVE ProducerInv'
  OBVIOUS
<1>0. /\ ProducerOK /\ IsFiniteSet(queue) /\ Cardinality(queue) \in Nat
      /\ Cardinality({}) = 0
  <2>1. ProducerOK /\ sequence \in Int /\ queue \subseteq 1..sequence
    BY LimitIsNumber DEF ProducerInv, ProducerOK
  <2> QED BY <2>1, FiniteEvents, FS_EmptySet
<1>1. CASE P!Produce
  <2>1. sequence' \in 0..MaxSequence /\ 1..sequence' = 1..sequence \cup {sequence'}
    BY <1>0, <1>1, LimitIsNumber DEF ProducerOK, P!Produce
  <2>2. queue' = queue \cup {sequence'} /\ UNCHANGED <<topic, failed, main>>
    BY <1>1 DEF P!Produce
  <2>3. Cardinality(queue') <= Cardinality(queue) + 1 /\ Cardinality(queue') \in Nat
    <3> DEFINE more == queue \cup {sequence'}
    <3>1. IsFiniteSet(more) /\ (Cardinality(more) = Cardinality(queue)
                               \/ Cardinality(more) = Cardinality(queue) + 1)
      BY <1>0, FS_AddElement
    <3> HIDE DEF more
    <3>2. queue' = more
      BY <2>2 DEF more
    <3> QED BY <1>0, <3>1, <3>2
  <2>4. main = "loop" /\ Cardinality(queue) < QueueLimit
    BY <1>1, SameCardinality DEF P!Produce
  <2>5. ProducerOK'
    <3>1. queue' \subseteq 1..sequence' /\ Cardinality(queue') <= QueueLimit
      BY <1>0, <2>1, <2>2, <2>3, <2>4, LimitIsNumber DEF ProducerOK
    <3> QED BY <1>0, <2>1, <2>2, <2>4, <3>1 DEF ProducerOK, P!Ended
  <2>6. \A e \in 1..sequence' : Kept(e)'
    BY <2>1, <2>2, <2>4, NothingMissing DEF Kept, P!Ended
  <2> QED BY <2>5, <2>6, KeepsAll
<1>2. CASE P!QueueFull
  <2>1. ProducerOK'
    BY <1>0, <1>2, LimitIsNumber DEF ProducerOK, P!QueueFull, P!End, P!Ended
  <2>2. /\ main \notin P!Ended /\ P!Lossy' /\ UNCHANGED <<topic, failed>>
        /\ sequence' = sequence + 1 /\ main' = "raised"
    BY <1>2 DEF P!QueueFull, P!End, P!Ended, P!Lossy
  <2> QED BY <2>1, <2>2, EndLoses
<1>3. CASE P!Kill \/ (P!Flush /\ waited = FlushTimeout)
  <2>1. /\ main \notin P!Ended /\ P!Lossy' /\ UNCHANGED <<topic, failed, sequence>>
        /\ queue' = {} /\ main' \in P!Ended
    BY <1>3 DEF P!Kill, P!Flush, P!End, P!Ended, P!Lossy
  <2>2. Cardinality(queue') <= QueueLimit
    BY <1>0, <2>1, LimitIsNumber
  <2>3. ProducerOK'
    BY <1>0, <2>1, <2>2 DEF ProducerOK
  <2> QED BY <2>3, <2>1, EndLoses
<1>4. CASE P!Flush /\ queue = {}
  <2>1. ProducerOK' /\ UNCHANGED <<topic, failed, sequence, queue>> /\ main \notin P!Ended
    BY <1>0, <1>4 DEF ProducerOK, P!Flush, P!End, P!Ended
  <2> QED BY <2>1, KeepsAll, NothingMissing DEF Kept
<1>5. CASE P!HandleSignal \/ P!LeaveLoop \/ P!FlushWaits
  <2>1. ProducerOK' /\ UNCHANGED <<topic, failed, sequence, queue>> /\ main \notin P!Ended
    BY <1>0, <1>5 DEF ProducerOK, P!HandleSignal, P!LeaveLoop, P!FlushWaits, P!Ended
  <2> QED BY <2>1, KeepsAll, NothingMissing DEF Kept
<1>6. ASSUME NEW e \in queue, P!Send(e) PROVE ProducerInv'
  <2>1. e \in Events /\ topic' = Append(topic, e) /\ sequence' = sequence
    BY <1>0, <1>6, LimitIsNumber DEF ProducerOK, P!Send
  <2>2. queue' \subseteq queue /\ queue \subseteq queue' \cup {e}
    BY <1>6 DEF P!Send, P!Acked
  <2>3. failed' = failed /\ main' = main /\ main \notin P!Ended
    BY <1>0, <1>6 DEF ProducerOK, P!Send
  <2>4. ASSUME NEW d \in 1..sequence PROVE Kept(d)'
    <3>1. Kept(d)
      BY <2>3, NothingMissing
    <3> QED BY <1>0, <2>1, <2>2, <2>3, <3>1, TopicGrows DEF ProducerOK, Kept
  <2>5. Cardinality(queue') <= Cardinality(queue) /\ Cardinality(queue') \in Nat
    BY <1>0, <2>2, FS_Subset, FS_CardinalityType
  <2>6. ProducerOK'
    BY <1>0, <2>1, <2>2, <2>3, <2>5, TopicGrows, LimitIsNumber DEF ProducerOK
  <2> QED BY <2>1, <2>4, <2>6, KeepsAll
<1>7. ASSUME NEW e \in queue, P!GiveUp(e) PROVE ProducerInv'
  <2>1. /\ queue' = queue \ {e} /\ failed' = failed \cup {e}
        /\ UNCHANGED <<topic, sequence, main>> /\ main \notin P!Ended
    BY <1>0, <1>7 DEF ProducerOK, P!GiveUp
  <2>2. Cardinality(queue') <= Cardinality(queue) /\ Cardinality(queue') \in Nat
    BY <1>0, <2>1, FS_Subset, FS_CardinalityType
  <2>3. ProducerOK'
    BY <1>0, <2>1, <2>2, LimitIsNumber DEF ProducerOK
  <2>4. \A d \in 1..sequence' : Kept(d)'
    BY <2>1, NothingMissing DEF Kept
  <2> QED BY <2>3, <2>4, KeepsAll
<1>8. ASSUME UNCHANGED <<topic, producerVars>> PROVE ProducerInv'
  <2>1. P!Missing' = P!Missing /\ P!Lossy' = P!Lossy /\ main' = main
    BY <1>8 DEF producerVars, P!Missing, P!Lossy
  <2>2. ProducerOK'
    BY <1>0, <1>8 DEF producerVars, ProducerOK
  <2> QED BY <2>1, <2>2 DEF ProducerInv, LossOnlyAtLimits, P!LossOnlyAtLimits
<1>9. CASE (Expire \/ JobStep \/ Crash) /\ UNCHANGED producerVars
  <2>1. topic' = topic
    BY <1>9 DEF Expire, JobStep, ProcessBatch, FirstStart, Restart, PlanBatch, CommitBatch,
           Crash, IsEmpty, CountValid, CountBad, AppendValid, AppendQuarantined,
           WriteMetrics, Statement
  <2> QED BY <1>8, <1>9, <2>1
<1>10. CASE UNCHANGED vars
  BY <1>8, <1>10 DEF vars, streamVars
<1>11. P!Flush => queue = {} \/ waited = FlushTimeout
  BY DEF P!Flush
<1> QED BY <1>1, <1>2, <1>3, <1>4, <1>5, <1>6, <1>7, <1>9, <1>10, <1>11 DEF Next, P!Next

\* For any number of events, any size of the queue and any timeout: as long as
\* main lives, and when it stops with time left, no event it has numbered is
\* missing; every other end costs at most what the queue takes, and a full queue
\* the event that did not get in.
THEOREM LossOnlyAtLimitsHolds == Spec => []LossOnlyAtLimits
<1>1. ProducerInv => LossOnlyAtLimits
  BY DEF ProducerInv
<1> QED BY <1>1, ProducerInit, ProducerStep, PTL DEF Spec

\* For the job, the producer's steps publish an event or are stutters.
LEMMA PipelineStep == ProducerInv /\ [Next]_vars => [StreamNext]_streamVars
<1> SUFFICES ASSUME ProducerInv, [Next]_vars PROVE [StreamNext]_streamVars
  OBVIOUS
<1>1. ASSUME NEW e \in queue, P!Send(e), UNCHANGED jobVars PROVE StreamNext
  <2>1. e \in Events
    BY EventsAssumption DEF ProducerInv, ProducerOK
  <2>2. Publish(e)
    BY <1>1 DEF P!Send, Publish
  <2> QED BY <2>1, <2>2 DEF StreamNext
<1>2. ASSUME NEW e \in queue, P!GiveUp(e), UNCHANGED jobVars PROVE UNCHANGED streamVars
  BY <1>2 DEF P!GiveUp, streamVars
<1>3. CASE /\ \/ P!Produce \/ P!QueueFull \/ P!HandleSignal \/ P!Kill
              \/ P!LeaveLoop \/ P!FlushWaits \/ P!Flush
           /\ UNCHANGED jobVars
  BY <1>3 DEF P!Produce, P!QueueFull, P!HandleSignal, P!Kill, P!LeaveLoop, P!FlushWaits,
         P!Flush, streamVars
<1>4. CASE Expire \/ JobStep \/ Crash
  BY <1>4 DEF StreamNext
<1>5. CASE UNCHANGED vars
  BY <1>5 DEF vars
<1> QED BY <1>1, <1>2, <1>3, <1>4, <1>5 DEF Next, P!Next

\* The pipeline implements the streaming job on an open topic.
THEOREM PipelineImplementsJob == Spec => StreamSpec
<1>1. Init => StreamInit
  BY DEF Init
<1> QED BY <1>1, ProducerInit, ProducerStep, PipelineStep, PTL DEF Spec, StreamSpec

\* Whatever the producer and its client do, the checkpoint passes no event of
\* the topic that is in neither table, copies come from failures alone, and the
\* metrics file claims no rows that were never there.
THEOREM PipelineKeepsEvents ==
    Spec => [](AtLeastOnce /\ CopiesOnlyByReplay /\ EveryBatchLogged /\ MetricsBacked)
  BY PipelineImplementsJob, AtLeastOnceHolds, CopiesHold, BatchesLogged, MetricsBackedHolds, PTL

\* Where an event is that was numbered: with the client, reported failed, gone
\* at an end of main that may cost events, still ahead of the checkpoint, dropped
\* by the topic, published before the job first started, or in a table.
Accounted(e) ==
    \/ e \in queue \cup failed
    \/ e \in P!Missing /\ P!Lossy
    \/ \E o \in DOMAIN topic :
          /\ topic[o] = e
          /\ committed < o \/ o <= expired \/ o <= origin \/ Stored(o)

\* The safety half of EventsArrive: at every moment every event that was ever
\* numbered is in one of those places. Neither the producer nor the job has a
\* step, a failure or a restart that loses one on the way from one to the next.
THEOREM EventsAccountedFor == Spec => [](\A e \in 1..sequence : Accounted(e))
<1>1. TypeOK /\ LossOnlyAtLimits /\ AtLeastOnce => \A e \in 1..sequence : Accounted(e)
  <2> SUFFICES ASSUME TypeOK, LossOnlyAtLimits, AtLeastOnce, NEW e \in 1..sequence,
                      e \notin queue \cup failed, ~(e \in P!Missing /\ P!Lossy)
               PROVE  Accounted(e)
    BY DEF Accounted
  <2>0. e \notin P!Missing
    BY DEF LossOnlyAtLimits, P!LossOnlyAtLimits
  <2>1. PICK o \in DOMAIN topic : topic[o] = e
    BY <2>0 DEF P!Missing
  <2>2. o \in Offsets /\ o \in Int
    BY StreamAssumption DEF TypeOK, Offsets
  <2>3. origin \in Int /\ committed \in Int /\ expired \in Int
    BY DEF TypeOK, NotYet
  <2>4. committed < o \/ o <= origin \/ (origin < o /\ o <= committed)
    BY <2>2, <2>3
  <2>5. committed < o \/ o <= expired \/ o <= origin \/ Stored(o)
    BY <2>2, <2>4 DEF AtLeastOnce
  <2> QED BY <2>1, <2>5 DEF Accounted
<1> QED BY <1>1, PipelineImplementsJob, TypeCorrect, LossOnlyAtLimitsHolds, PipelineKeepsEvents, PTL
=============================================================================
