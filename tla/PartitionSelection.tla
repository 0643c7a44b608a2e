-------------------------- MODULE PartitionSelection --------------------------
(***************************************************************************)
(* Which partitions the compactor rewrites, and into how many files: the   *)
(* decisions of partition_selection.py, the predicates of file_scanner.py  *)
(* and target_sizing.py under src/src/compactor. A listing is the set of   *)
(* Parquet objects found under one partition's prefix, each a record       *)
(* [key, size_bytes, last_modified].                                       *)
(***************************************************************************)
EXTENDS Integers, FiniteSets, Functions

CONSTANTS
    small_file_threshold_bytes,
    small_file_count_threshold,
    partition_file_count_threshold,
    partition_age_skip,              \* in ticks of the clock
    target_file_size_bytes

ASSUME PolicyAssumption ==
    /\ small_file_threshold_bytes \in Nat
    /\ small_file_count_threshold \in Nat
    /\ partition_file_count_threshold \in Nat
    /\ partition_age_skip \in Nat
    /\ target_file_size_bytes \in Nat \ {0}

FileInfo == [key : Nat \X Nat, size_bytes : Nat, last_modified : Nat]

TotalBytes(files) == SumFunction([f \in files |-> f.size_bytes])

SmallFiles(files) == {f \in files : f.size_bytes < small_file_threshold_bytes}

IsEligible(files) ==
    \/ Cardinality(SmallFiles(files)) > small_file_count_threshold
    \/ Cardinality(files) > partition_file_count_threshold

\* Wrong: the oldest file decides.
WrongTooRecent(files, now) ==
    \A f \in files : f.last_modified > now - partition_age_skip

\* The youngest file decides, so one late append hides a whole partition.
TooRecent(files, now) ==
    \E f \in files : f.last_modified > now - partition_age_skip

\* evaluate_partition: the first reason that applies.
SkipReason(files, now) ==
    CASE files = {}                                  -> "empty"
      [] files # {} /\ TooRecent(files, now)         -> "too_recent"
      [] files # {} /\ ~TooRecent(files, now)
                    /\ ~IsEligible(files)            -> "healthy"
      [] OTHER                                       -> "none"

\* select_partitions: of the listed partitions, those with no reason to skip.
Selected(listing, now) ==
    {p \in DOMAIN listing : SkipReason(listing[p], now) = "none"}

\* Wrong: an exact multiple of the target gets one file more.
WrongEstimateOutputFileCount(bytes) == bytes \div target_file_size_bytes + 1

\* How many files of the target size hold the bytes, at least one.
EstimateOutputFileCount(bytes) ==
    IF bytes <= 0
    THEN 1
    ELSE (bytes + target_file_size_bytes - 1) \div target_file_size_bytes
=============================================================================
