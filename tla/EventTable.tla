----------------------------- MODULE EventTable -----------------------------
(***************************************************************************)
(* What the raw events table promises its readers: rows arrive in batches, *)
(* a batch shows up in all its partitions at once, and what a reader has   *)
(* seen goes away only with a batch that is lost as a whole, when its log  *)
(* entry is replaced. Compaction does not exist at this level.             *)
(***************************************************************************)
CONSTANTS Batches, Partitions

VARIABLES
    content,    \* the rows a reader can count on; a row is <<batch, partition>>
    lost        \* commits whose log entries were replaced

eventVars == <<content, lost>>

Init == content = {} /\ lost = {}

New(b) == b \notin lost /\ \A r \in content : r[1] # b

Append(b, P) ==
    /\ New(b)
    /\ content' = content \cup ({b} \X P)
    /\ UNCHANGED lost

\* Batch b replaces commit c in the log; P is empty if it brings no rows.
Replace(b, P, c) ==
    /\ New(b)
    /\ c \notin lost /\ c # b
    /\ lost' = lost \cup {c}
    /\ content' = {r \in content : r[1] # c} \cup ({b} \X P)

Next == \E b \in Batches, P \in SUBSET Partitions :
    \/ Append(b, P)
    \/ \E c \in Batches : Replace(b, P, c)

Spec == Init /\ [][Next]_eventVars
=============================================================================
