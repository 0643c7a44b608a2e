--------------------------- MODULE BenchmarkProofs ---------------------------
(***************************************************************************)
(* What the benchmark concludes from its file counts, on a table with any  *)
(* number of writers, partitions and transactions. Everything follows from *)
(* the fact that the bucket only grows, so that the counts do.             *)
(***************************************************************************)
EXTENDS Benchmark, DeltaTableProofs, FiniteSums

(***************************************************************************)
(* The bucket                                                              *)
(***************************************************************************)

\* A step of a writer adds finitely many objects and takes none away.
LEMMA BucketGrows ==
  ASSUME IsFiniteSet(objects), [Next]_tableVars
  PROVE  /\ IsFiniteSet(objects') /\ objects \subseteq objects'
         /\ Cardinality(objects) \in Nat /\ Cardinality(objects') \in Nat
         /\ Cardinality(objects) <= Cardinality(objects')
<1>1. IsFiniteSet(objects') /\ objects \subseteq objects'
  <2>1. ASSUME NEW w, NEW P \in SUBSET Partitions, NEW now, WriteAppend(w, P, now)
        PROVE  IsFiniteSet(objects') /\ objects \subseteq objects'
    <3> DEFINE file == [p \in P |-> AppendFile(nextTxn, p, now)]
               out == {file[p] : p \in P}
    <3>1. objects' = objects \cup out
      <4>1. out = {AppendFile(nextTxn, p, now) : p \in P}
        OBVIOUS
      <4> HIDE DEF out
      <4> QED BY <2>1, <4>1 DEF WriteAppend, Begin
    <3>2. IsFiniteSet(out)
      <4>1. IsFiniteSet(P)
        BY FS_Subset, BenchAssumption
      <4> HIDE DEF file
      <4> QED BY <4>1, FiniteImage
    <3> HIDE DEF out
    <3> QED BY <3>1, <3>2, FS_Union
  <2>2. ASSUME NEW w, NEW p, NEW n \in 1..MaxFiles, NEW now, WriteRewrite(w, p, n, now)
        PROVE  IsFiniteSet(objects') /\ objects \subseteq objects'
    <3> DEFINE file == [i \in 0..(n - 1) |-> RewrittenFile(p, n, i, now)]
               written == {file[i] : i \in 0..(n - 1)}
    <3>1. objects' = objects \cup Rewritten(p, n, now)
      BY <2>2 DEF WriteRewrite, Begin
    <3>2. Rewritten(p, n, now) \subseteq written
      BY DEF Rewritten
    <3>3. IsFiniteSet(written)
      <4>1. IsFiniteSet(0..(n - 1))
        BY FS_Interval, BoundsAssumption
      <4> HIDE DEF file
      <4> QED BY <4>1, FiniteImage
    <3> HIDE DEF written
    <3>4. IsFiniteSet(Rewritten(p, n, now))
      BY <3>2, <3>3, FS_Subset
    <3> QED BY <3>1, <3>4, FS_Union
  <2>3. ASSUME NEW w, Commit(w) \/ Conflict(w) \/ Abandon(w)
        PROVE  IsFiniteSet(objects') /\ objects \subseteq objects'
    BY <2>3 DEF Commit, AddEntry, OverwriteEntry, Conflict, Abandon, End
  <2>4. CASE UNCHANGED tableVars
    BY <2>4 DEF tableVars
  <2> QED BY <2>1, <2>2, <2>3, <2>4 DEF Next
<1> QED BY <1>1, FS_CardinalityType, FS_Subset

\* To the table a benchmark is not there.
LEMMA BenchUsesTable == BenchSpec => Spec
<1>1. BenchInit => Init
  BY DEF BenchInit
<1>2. [BenchNext]_<<tableVars, benchVars>> => [Next]_tableVars
  BY DEF BenchNext, StartBenchmark, FinishBenchmark
<1> QED BY <1>1, <1>2, PTL DEF BenchSpec, Spec

(***************************************************************************)
(* The saved runs                                                          *)
(***************************************************************************)

Phases == {"before", "after"}
Saved == [asked : Phases \cup {"auto"}, phase : Phases, input_file_count : Nat]

Files(i) == history[i].input_file_count

BenchTypes ==
    /\ IsFiniteSet(objects)
    /\ counted \in Nat
    /\ history \in Seq(Saved)

\* Saved counts come in ascending order, below that of the benchmark that is
\* running and below what there is in the bucket.
Ascending ==
    /\ counted <= Cardinality(objects)
    /\ \A i \in DOMAIN history : /\ Files(i) <= Cardinality(objects)
                                 /\ counted # 0 => Files(i) <= counted
                                 /\ \A j \in 1..i : Files(j) <= Files(i)

IsBaseline(i, j) ==
    \A k \in RunsUpTo(i, "before") : Files(k) < Files(j) \/ (Files(k) = Files(j) /\ j <= k)

\* max() has something to return wherever resolve_phase and find_comparison_pair
\* call it.
HasBaseline(i) ==
    RunsUpTo(i, "before") # {} => \E j \in RunsUpTo(i, "before") : IsBaseline(i, j)
HasLatest(i) ==
    RunsUpTo(i, "after") # {} =>
        \E j \in RunsUpTo(i, "after") : \A k \in RunsUpTo(i, "after") : j >= k

BenchInv ==
    /\ BenchTypes /\ Ascending /\ AutoIsBefore
    /\ \A i \in DOMAIN history : HasBaseline(i) /\ HasLatest(i)

LEMMA SavedRuns ==
  ASSUME BenchTypes
  PROVE  /\ Len(history) \in Nat /\ DOMAIN history = 1..Len(history)
         /\ \A i \in DOMAIN history : Files(i) \in Nat
<1>1. Len(history) \in Nat /\ DOMAIN history = 1..Len(history)
  BY DEF BenchTypes
<1>2. \A i \in DOMAIN history : history[i] \in Saved
  BY <1>1 DEF BenchTypes
<1> QED BY <1>1, <1>2 DEF Files, Saved

LEMMA BenchInvInit == BenchInit => BenchInv
<1> SUFFICES ASSUME BenchInit PROVE BenchInv
  OBVIOUS
<1>1. IsFiniteSet(objects) /\ Cardinality(objects) = 0
  BY FS_EmptySet DEF BenchInit, Init
<1>2. history \in Seq(Saved) /\ DOMAIN history = {}
  BY DEF BenchInit
<1> QED BY <1>1, <1>2 DEF BenchInit, BenchInv, BenchTypes, Ascending, AutoIsBefore

\* With auto, the count of the benchmark that is running is never below the
\* largest saved one.
LEMMA AutoResolved ==
  ASSUME BenchInv, counted # 0
  PROVE  resolve_phase("auto", counted) = "before"
<1>1. CASE Before = {}
  BY <1>1 DEF resolve_phase
<1>2. CASE Before # {}
  <2> DEFINE counts == {history[i].input_file_count : i \in Before}
  <2>1. Before = RunsUpTo(Len(history), "before") /\ Before \subseteq DOMAIN history
    BY DEF Before, RunsUpTo, BenchInv, BenchTypes
  <2>2. Len(history) \in DOMAIN history
    BY <1>2, <2>1 DEF BenchInv, BenchTypes
  <2>3. PICK j \in Before : \A k \in Before :
            Files(k) < Files(j) \/ (Files(k) = Files(j) /\ j <= k)
    BY <1>2, <2>1, <2>2 DEF BenchInv, HasBaseline, IsBaseline
  <2>4. \A k \in Before : Files(k) \in Nat /\ Files(k) <= counted
    BY <2>1, SavedRuns DEF BenchInv, Ascending
  <2>5. \E n \in counts : \A m \in counts : n >= m
    <3>1. \A k \in Before : Files(j) >= Files(k)
      BY <2>3, <2>4
    <3> QED BY <3>1 DEF Files
  <2>6. Max(counts) \in counts
    BY <2>5 DEF Max
  <2>7. ~(counted < Max(counts))
    BY <2>4, <2>6 DEF Files, BenchInv, BenchTypes
  <2> QED BY <1>2, <2>7 DEF resolve_phase
<1> QED BY <1>1, <1>2

LEMMA BenchInvStep == BenchInv /\ [BenchNext]_<<tableVars, benchVars>> => BenchInv'
<1> SUFFICES ASSUME BenchInv, [BenchNext]_<<tableVars, benchVars>> PROVE BenchInv'
  OBVIOUS
<1>1. CASE [Next]_tableVars /\ UNCHANGED benchVars
  <2>1. /\ IsFiniteSet(objects')
        /\ Cardinality(objects) \in Nat /\ Cardinality(objects') \in Nat
        /\ Cardinality(objects) <= Cardinality(objects')
    BY <1>1, BucketGrows DEF BenchInv, BenchTypes
  <2>2. counted' = counted /\ history' = history
    BY <1>1 DEF benchVars
  <2>3. \A i \in DOMAIN history : Files(i) \in Nat
    BY SavedRuns DEF BenchInv
  <2>4. Ascending'
    BY <2>1, <2>2, <2>3 DEF BenchInv, BenchTypes, Ascending, Files
  <2>5. BenchTypes' /\ AutoIsBefore'
    BY <2>1, <2>2 DEF BenchInv, BenchTypes, AutoIsBefore
  <2>6. \A i \in DOMAIN history' : HasBaseline(i)' /\ HasLatest(i)'
    BY <2>2 DEF BenchInv, HasBaseline, HasLatest, IsBaseline, RunsUpTo, Files
  <2> QED BY <2>4, <2>5, <2>6 DEF BenchInv
<1>2. CASE StartBenchmark
  <2>1. /\ objects' = objects /\ history' = history
        /\ counted' = Cardinality(objects) /\ Cardinality(objects) \in Nat
    BY <1>2, FS_CardinalityType DEF StartBenchmark, tableVars, BenchInv, BenchTypes
  <2>2. BenchTypes' /\ Ascending' /\ AutoIsBefore'
    BY <2>1 DEF BenchInv, BenchTypes, Ascending, AutoIsBefore, Files
  <2>3. \A i \in DOMAIN history' : HasBaseline(i)' /\ HasLatest(i)'
    BY <2>1 DEF BenchInv, HasBaseline, HasLatest, IsBaseline, RunsUpTo, Files
  <2> QED BY <2>2, <2>3 DEF BenchInv
<1>3. ASSUME FinishBenchmark, UNCHANGED history PROVE BenchInv'
  <2>1. objects' = objects /\ history' = history /\ counted' = 0
    BY <1>3 DEF FinishBenchmark, tableVars
  <2>2. Cardinality(objects) \in Nat
    BY FS_CardinalityType DEF BenchInv, BenchTypes
  <2>3. BenchTypes' /\ Ascending' /\ AutoIsBefore'
    BY <2>1, <2>2 DEF BenchInv, BenchTypes, Ascending, AutoIsBefore, Files
  <2>4. \A i \in DOMAIN history' : HasBaseline(i)' /\ HasLatest(i)'
    BY <2>1 DEF BenchInv, HasBaseline, HasLatest, IsBaseline, RunsUpTo, Files
  <2> QED BY <2>3, <2>4 DEF BenchInv
<1>4. ASSUME NEW asked \in {"before", "after", "auto"}, counted # 0, counted' = 0,
             UNCHANGED tableVars,
             history' = Append(history, [asked |-> asked,
                                         phase |-> resolve_phase(asked, counted),
                                         input_file_count |-> counted])
      PROVE  BenchInv'
  <2>0. PICK new \in Nat \ {0} : new = Len(history) + 1
    BY SavedRuns DEF BenchInv
  <2> DEFINE ph == resolve_phase(asked, counted)
  <2>1. ph \in Phases /\ (asked = "auto" => ph = "before")
    <3>1. CASE asked = "auto"
      BY <3>1, AutoResolved, <1>4 DEF Phases
    <3>2. CASE asked # "auto"
      BY <3>2 DEF Phases, resolve_phase
    <3> QED BY <3>1, <3>2
  <2> HIDE DEF ph
  <2>2. /\ history' \in Seq(Saved) /\ Len(history) \in Nat
        /\ DOMAIN history = 1..Len(history) /\ DOMAIN history' = 1..new
        /\ \A i \in 1..Len(history) : history'[i] = history[i]
        /\ history'[new] = [asked |-> asked, phase |-> ph, input_file_count |-> counted]
    <3>1. [asked |-> asked, phase |-> ph, input_file_count |-> counted] \in Saved
      BY <2>1 DEF Saved, Phases, BenchInv, BenchTypes
    <3>2. history \in Seq(Saved)
      BY DEF BenchInv, BenchTypes
    <3>3. history' = Append(history, [asked |-> asked, phase |-> ph, input_file_count |-> counted])
      BY <1>4 DEF ph
    <3> QED BY <2>0, <3>1, <3>2, <3>3
  <2>3. objects' = objects /\ Cardinality(objects) \in Nat
    BY <1>4, FS_CardinalityType DEF tableVars, BenchInv, BenchTypes
  <2>4. /\ \A i \in 1..Len(history) : Files(i)' = Files(i) /\ Files(i) \in Nat /\ Files(i) <= counted
        /\ Files(new)' = counted /\ counted \in Nat
    <3>1. counted \in Nat /\ \A i \in 1..Len(history) : Files(i) \in Nat /\ Files(i) <= counted
      BY <1>4, <2>0, <2>2, SavedRuns DEF BenchInv, BenchTypes, Ascending
    <3> QED BY <2>0, <2>2, <3>1 DEF Files
  <2>5. BenchTypes'
    BY <1>4, <2>0, <2>2, <2>3 DEF BenchInv, BenchTypes
  <2>6. Ascending'
    <3>1. ASSUME NEW i \in 1..new, NEW j \in 1..i PROVE Files(j)' <= Files(i)'
      <4>1. CASE i = new
        BY <2>0, <2>2, <2>4, <4>1
      <4>2. CASE i # new
        <5>1. i \in 1..Len(history) /\ j \in 1..Len(history)
          BY <2>0, <2>2, <4>2
        <5>2. Files(j) <= Files(i)
          BY <2>0, <2>2, <5>1 DEF BenchInv, Ascending
        <5> QED BY <2>4, <5>1, <5>2
      <4> QED BY <4>1, <4>2
    <3>2. ASSUME NEW i \in 1..new PROVE Files(i)' <= Cardinality(objects)
      BY <2>0, <2>2, <2>3, <2>4 DEF BenchInv, Ascending
    <3> QED BY <1>4, <2>0, <2>2, <2>3, <3>1, <3>2 DEF Ascending
  <2>7. AutoIsBefore'
    <3>1. ASSUME NEW i \in 1..new, history'[i].asked = "auto" PROVE history'[i].phase = "before"
      <4>1. CASE i = new
        BY <2>1, <2>2, <3>1, <4>1
      <4>2. CASE i # new
        <5>1. i \in DOMAIN history /\ history'[i] = history[i]
          BY <2>0, <2>2, <4>2
        <5> QED BY <3>1, <5>1 DEF BenchInv, AutoIsBefore
      <4> QED BY <4>1, <4>2
    <3> QED BY <2>2, <3>1 DEF AutoIsBefore
  <2>8. \A i \in 1..Len(history), p \in Phases : RunsUpTo(i, p)' = RunsUpTo(i, p)
    BY <2>0, <2>2 DEF RunsUpTo
  <2>9. \A p \in Phases :
            RunsUpTo(new, p)' = IF p = ph THEN RunsUpTo(Len(history), p) \cup {new}
                                          ELSE RunsUpTo(Len(history), p)
    BY <2>0, <2>2 DEF RunsUpTo
  <2>10. \A i \in 0..Len(history), p \in Phases : RunsUpTo(i, p) \subseteq 1..i
    BY DEF RunsUpTo
  <2>11. HasBaseline(Len(history)) /\ HasLatest(Len(history))
    <3>1. CASE Len(history) = 0
      BY <2>0, <2>2, <2>10, <3>1 DEF HasBaseline, HasLatest, Phases
    <3>2. CASE Len(history) # 0
      BY <2>0, <2>2, <3>2 DEF BenchInv
    <3> QED BY <3>1, <3>2
  <2>12. ASSUME NEW i \in 1..Len(history) PROVE HasBaseline(i)' /\ HasLatest(i)'
    <3>1. HasBaseline(i) /\ HasLatest(i)
      BY <2>0, <2>2 DEF BenchInv
    <3>2. \A k \in RunsUpTo(i, "before") : Files(k)' = Files(k)
      BY <2>0, <2>2, <2>4, <2>10 DEF Phases
    <3> QED BY <2>8, <3>1, <3>2 DEF HasBaseline, HasLatest, IsBaseline, Phases
  <2>13. HasBaseline(new)'
    <3> DEFINE R == RunsUpTo(Len(history), "before")
    <3>1. \A k \in R : k \in 1..Len(history)
      BY <2>0, <2>2, <2>10 DEF Phases
    <3>2. CASE ph = "after"
      <4>1. RunsUpTo(new, "before")' = R
        BY <2>9, <3>2 DEF Phases
      <4>2. \A k \in R : Files(k)' = Files(k)
        BY <2>4, <3>1
      <4> QED BY <2>11, <4>1, <4>2 DEF HasBaseline, IsBaseline
    <3>3. CASE ph = "before"
      <4>1. RunsUpTo(new, "before")' = R \cup {new}
        BY <2>9, <3>3 DEF Phases
      <4>2. CASE \A k \in R : Files(k) < counted
        <5>1. IsBaseline(new, new)'
          BY <2>0, <2>2, <2>4, <3>1, <4>1, <4>2 DEF IsBaseline
        <5> QED BY <4>1, <5>1 DEF HasBaseline
      <4>3. ASSUME NEW l \in R, ~(Files(l) < counted) PROVE HasBaseline(new)'
        <5>1. PICK j \in R : IsBaseline(Len(history), j)
          BY <2>11, <4>3 DEF HasBaseline
        <5>2. Files(j) = counted
          BY <2>4, <3>1, <4>3, <5>1 DEF IsBaseline
        <5>3. IsBaseline(new, j)'
          BY <2>0, <2>2, <2>4, <3>1, <4>1, <5>1, <5>2 DEF IsBaseline
        <5> QED BY <4>1, <5>3 DEF HasBaseline
      <4> QED BY <4>2, <4>3
    <3> QED BY <2>1, <3>2, <3>3 DEF Phases
  <2>14. HasLatest(new)'
    <3> DEFINE R == RunsUpTo(Len(history), "after")
    <3>1. \A k \in R : k \in 1..Len(history)
      BY <2>0, <2>2, <2>10 DEF Phases
    <3>2. CASE ph = "before"
      <4>1. RunsUpTo(new, "after")' = R
        BY <2>9, <3>2 DEF Phases
      <4> QED BY <2>11, <4>1 DEF HasLatest
    <3>3. CASE ph = "after"
      <4>1. RunsUpTo(new, "after")' = R \cup {new}
        BY <2>9, <3>3 DEF Phases
      <4>2. \A k \in R \cup {new} : new >= k
        BY <2>0, <2>2, <3>1
      <4> QED BY <4>1, <4>2 DEF HasLatest
    <3> QED BY <2>1, <3>2, <3>3 DEF Phases
  <2>15. \A i \in DOMAIN history' : HasBaseline(i)' /\ HasLatest(i)'
    BY <2>0, <2>2, <2>12, <2>13, <2>14
  <2> QED BY <2>5, <2>6, <2>7, <2>15 DEF BenchInv
<1>5. CASE UNCHANGED <<tableVars, benchVars>>
  BY <1>1, <1>5
<1> QED BY <1>1, <1>2, <1>3, <1>4, <1>5 DEF BenchNext, FinishBenchmark

LEMMA BenchInvHolds == BenchSpec => []BenchInv
  BY BenchInvInit, BenchInvStep, PTL DEF BenchSpec

(***************************************************************************)
(* Theorems                                                                *)
(***************************************************************************)

\* No run started with --phase auto is ever labelled "after": the number of
\* objects in the bucket that resolve_phase goes by does not sink.
THEOREM AutoIsBeforeHolds == BenchSpec => []AutoIsBefore
<1>1. BenchInv => AutoIsBefore
  BY DEF BenchInv
<1> QED BY <1>1, BenchInvHolds, PTL

\* A report with fewer files after than before compares a run with a later one:
\* the baseline find_comparison_pair takes is the one with the most files.
THEOREM ReductionOnlyBackwardsHolds == BenchSpec => []ReductionOnlyBackwards
<1>1. BenchInv => ReductionOnlyBackwards
  <2> SUFFICES ASSUME BenchInv, NEW i \in DOMAIN history, find_comparison_pair(i) # <<>>,
                      Files(find_comparison_pair(i)[2]) < Files(find_comparison_pair(i)[1])
               PROVE  find_comparison_pair(i)[2] < find_comparison_pair(i)[1]
    BY DEF ReductionOnlyBackwards, Files
  <2>1. /\ DOMAIN history = 1..Len(history) /\ Len(history) \in Nat
        /\ \A k \in DOMAIN history : Files(k) \in Nat /\ \A j \in 1..k : Files(j) <= Files(k)
    BY SavedRuns DEF BenchInv, Ascending
  <2>2. RunsUpTo(i, "before") # {} => Baseline(i) \in 1..i
    BY DEF Baseline, BenchInv, HasBaseline, IsBaseline, RunsUpTo, Files
  <2>3. RunsUpTo(i, "after") # {} => Max(RunsUpTo(i, "after")) \in 1..i
    BY DEF Max, BenchInv, HasLatest, RunsUpTo
  <2>4. CASE history[i].phase = "after" /\ RunsUpTo(i, "before") # {}
    <3>1. find_comparison_pair(i) = <<Baseline(i), i>>
      BY <2>4 DEF find_comparison_pair
    <3> QED BY <2>1, <2>2, <2>4, <3>1
  <2>5. CASE history[i].phase = "before" /\ RunsUpTo(i, "after") # {}
    <3>1. find_comparison_pair(i) = <<Baseline(i), Max(RunsUpTo(i, "after"))>>
      BY <2>5 DEF find_comparison_pair
    <3>2. RunsUpTo(i, "before") # {}
      BY <2>1, <2>5 DEF RunsUpTo
    <3> QED BY <2>1, <2>2, <2>3, <2>5, <3>1, <3>2
  <2> QED BY <2>4, <2>5 DEF find_comparison_pair
<1> QED BY <1>1, BenchInvHolds, PTL

\* With benchmarks that read it, the table is what it was without them.
THEOREM BenchmarkKeepsTable == BenchSpec => [](TypeOK /\ RowsExactlyOnce) /\ ImplementsEventTable
  BY BenchUsesTable, TypeCorrect, RowsExactlyOnceHolds, TableImplementsEventTable, PTL
=============================================================================
