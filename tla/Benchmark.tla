------------------------------ MODULE Benchmark ------------------------------
(***************************************************************************)
(* src/src/benchmark/benchmark_queries.py on a table that is written all   *)
(* the while: what its engines read, how many files it counts, and how it  *)
(* labels a run that was started with --phase auto.                        *)
(***************************************************************************)
EXTENDS DeltaTable, Sequences, FiniteSetsExt

CONSTANT MaxRuns    \* bound of the model: benchmark runs saved

ASSUME BenchAssumption == IsFiniteSet(Partitions) /\ MaxRuns \in Nat

VARIABLES
    counted,    \* the file count of the benchmark that is running, or 0
    history     \* saved runs, each [asked, phase, input_file_count]

benchVars == <<counted, history>>

BenchInit == Init /\ counted = 0 /\ history = <<>>

\* Wrong: the files of the snapshot are counted.
WrongStartBenchmark ==
    /\ counted = 0 /\ objects # {} /\ Len(history) < MaxRuns
    /\ counted' = Cardinality(live)
    /\ UNCHANGED <<tableVars, history>>

\* execute_benchmark raises when there are no files; nothing is saved then.
StartBenchmark ==
    /\ counted = 0 /\ objects # {} /\ Len(history) < MaxRuns
    /\ counted' = Cardinality(objects)
    /\ UNCHANGED <<tableVars, history>>

RunsUpTo(i, phase) == {j \in 1..i : history[j].phase = phase}
Before == RunsUpTo(Len(history), "before")

resolve_phase(asked, files) ==
    CASE asked # "auto" -> asked
      [] asked = "auto" /\ Before = {} -> "before"
      [] OTHER -> IF files < Max({history[i].input_file_count : i \in Before})
                  THEN "after" ELSE "before"

\* The queries are done; or one of them raised.
FinishBenchmark ==
    /\ counted # 0
    /\ \/ \E asked \in {"before", "after", "auto"} :
             history' = Append(history, [asked |-> asked,
                                         phase |-> resolve_phase(asked, counted),
                                         input_file_count |-> counted])
       \/ UNCHANGED history
    /\ counted' = 0
    /\ UNCHANGED tableVars

\* The first of those with the most files.
Baseline(i) ==
    CHOOSE j \in RunsUpTo(i, "before") : \A k \in RunsUpTo(i, "before") :
        \/ history[k].input_file_count < history[j].input_file_count
        \/ history[k].input_file_count = history[j].input_file_count /\ j <= k

\* What the report of the i-th saved run compares: <<before, after>>, or nothing.
find_comparison_pair(i) ==
    CASE history[i].phase = "after" /\ RunsUpTo(i, "before") # {} -> <<Baseline(i), i>>
      [] history[i].phase = "before" /\ RunsUpTo(i, "after") # {} ->
            <<Baseline(i), Max(RunsUpTo(i, "after"))>>
      [] OTHER -> <<>>

BenchNext ==
    \/ Next /\ UNCHANGED benchVars
    \/ StartBenchmark
    \/ FinishBenchmark

BenchSpec == BenchInit /\ [][BenchNext]_<<tableVars, benchVars>>

\* DuckDB reads every Parquet object under the table's path, Spark the files of
\* the snapshot.
FilesRead(engine) == IF engine = "duckdb" THEN objects ELSE live

-----------------------------------------------------------------------------
(* Properties                                                              *)

\* auto tells a run after a compaction by its smaller number of files. It never
\* does: files replaced by a rewrite stay in the bucket, where they are counted,
\* so that the comparison main's hint promises needs an explicit phase.
AutoIsBefore ==
    \A i \in DOMAIN history : history[i].asked = "auto" => history[i].phase = "before"

\* The report shows fewer files after than before only when it has the order of
\* the two runs wrong: every saved count is at least as large as those before it,
\* so that the reduction it exists to show can never be one of a compaction.
ReductionOnlyBackwards ==
    \A i \in DOMAIN history :
        LET pair == find_comparison_pair(i)
        IN  (/\ pair # <<>>
             /\ history[pair[2]].input_file_count < history[pair[1]].input_file_count) =>
                pair[2] < pair[1]

\* While nobody writes, either engine sees each row of the table once. DuckDB
\* does not: it reads rewritten rows in the replaced files, too.
EachRowReadOnce ==
    (\A w \in Writers : ~Writing(w)) =>
        \A engine \in {"duckdb", "pyspark"}, r \in RowsOf(live) :
            Cardinality({f \in FilesRead(engine) : r \in f.rows}) = 1
=============================================================================
