--------------------------- MODULE MCLockManager ---------------------------
(* Instances of LockManager for TLC: workers w1 and w2 share a lock timeout, *)
(* w3, when present, has a shorter one; the others' clocks are behind.       *)
EXTENDS LockManager

CONSTANTS w1, w2, w3

MCTimeout == [m \in Managers |-> IF m = w3 THEN 2 ELSE 3]
MCAhead == [m \in Managers |-> IF m = w3 THEN 0 ELSE -1]
=============================================================================
