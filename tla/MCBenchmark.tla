---------------------------- MODULE MCBenchmark ----------------------------
(* Instance of Benchmark, and with it of DeltaTable, for TLC: writers are    *)
(* interchangeable.                                                          *)
EXTENDS Benchmark, TLC

Symmetry == Permutations(Writers)
=============================================================================
