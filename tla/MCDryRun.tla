------------------------------ MODULE MCDryRun ------------------------------
(* Instance of DryRun for TLC: one run, untargeted or for partition 2.       *)
EXTENDS DryRun

AnyTarget == [r \in Runs |-> {All, 2}]
EqualTimeouts == [r \in Runs |-> 2]
MCAhead == [r \in Runs |-> 0]
=============================================================================
