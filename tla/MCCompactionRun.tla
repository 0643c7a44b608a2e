--------------------------- MODULE MCCompactionRun ---------------------------
(* Instances of CompactionRun for TLC: one run or two, untargeted.           *)
EXTENDS CompactionRun

CONSTANTS r1, r2

AllTargets == [r \in Runs |-> {All}]
EqualTimeouts == [r \in Runs |-> 2]
MCAhead == [r \in Runs |-> IF r = r1 THEN 0 ELSE 1]
=============================================================================
