------------------------------- MODULE DryRun -------------------------------
(***************************************************************************)
(* run_dry_run of src/src/compactor/compaction_daemon.py beside a run with *)
(* the same argument. A dry run reads the bucket once, takes no lock, needs *)
(* no Spark and writes no metrics: it is a function of the state.          *)
(***************************************************************************)
EXTENDS CompactionRun

\* Wrong: the policy decides for a targeted dry run as well.
WrongDryRunEligible(r) == Selected(ScanPartitions, L!Now(r))

DryRunEligible(r) ==
    IF target[r] = All THEN Selected(ScanPartitions, L!Now(r)) ELSE {target[r]}

NotFound(r) == target[r] \notin DOMAIN ScanPartitions \cup {All}

FileCount(scan, S) == SumFunction([p \in S |-> Cardinality(scan[p])])

DryRunMetrics(r) ==
    LET scanned == Cardinality(DOMAIN ScanPartitions)
        eligible == DryRunEligible(r)
    IN  CASE log = <<>> -> [NoMetrics EXCEPT !.error = TRUE]
          [] log # <<>> /\ NotFound(r) ->
                [NoMetrics EXCEPT !.partitions_scanned = scanned, !.error = TRUE]
          [] OTHER ->
                [NoMetrics EXCEPT
                    !.partitions_scanned = scanned,
                    !.eligible_partitions = Cardinality(eligible),
                    !.skipped_partitions =
                        IF target[r] = All THEN scanned - Cardinality(eligible) ELSE 0,
                    !.files_before = FileCount(ScanPartitions, eligible),
                    !.files_after =
                        SumFunction([p \in eligible |->
                            EstimateOutputFileCount(TotalBytes(Listed(p)))])]

\* r looks at the bucket as it is now, and gets an answer.
Looks(r) ==
    /\ phase[r] \in {"verify", "scan"}
    /\ phase'[r] \in {"spark", "done"}

FairSpec == Spec /\ Fairness

-----------------------------------------------------------------------------
(* Properties                                                              *)

\* What r took on in this step is what a dry run reports before it.
Forecast(r) ==
    LET run == metrics'[r]
        dry == DryRunMetrics(r)
    IN  /\ run.partitions_scanned = dry.partitions_scanned
        /\ run.eligible_partitions = dry.eligible_partitions
        /\ run.skipped_partitions = dry.skipped_partitions
        /\ ~run.error => FileCount(listing'[r], todo'[r]) = dry.files_before
        /\ phase'[r] = "done" => ExitCode(run) = ExitCode(dry)

\* A dry run is a forecast. A run that looks at the bucket takes on as many
\* partitions and as many files as a dry run reports at that moment, and skips
\* as many; if it is over with that it has the dry run's exit code.
RunTakesForecast == [][\A r \in Runs : Looks(r) => Forecast(r)]_vars

\* And a run that has taken on something and on which nothing fails comes to
\* what it took on: exit code 0, like the dry run's, and all of those files.
RunKeepsForecast ==
    \A r \in Runs :
        (/\ phase[r] = "done" /\ metrics[r].eligible_partitions > 0
         /\ ~metrics[r].error /\ metrics[r].failed_partitions = {}) =>
            /\ ExitCode(metrics[r]) = 0
            /\ metrics[r].files_before =
                  FileCount(listing[r], metrics[r].compacted_partitions)
            /\ metrics[r].eligible_partitions =
                  Cardinality(metrics[r].compacted_partitions)
=============================================================================
