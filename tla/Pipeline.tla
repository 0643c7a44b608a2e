------------------------------ MODULE Pipeline ------------------------------
(***************************************************************************)
(* EventProducer and StreamingJob composed: they share nothing but the     *)
(* topic. Events are the producer's sequence numbers.                      *)
(***************************************************************************)
EXTENDS StreamingJob

CONSTANTS MaxSequence, QueueLimit, FlushTimeout

VARIABLES sequence, running, main, waited, queue, failed

P == INSTANCE EventProducer

producerVars == <<sequence, running, main, waited, queue, failed>>
vars == <<streamVars, producerVars>>

ASSUME EventsAssumption ==
    /\ {MaxSequence, QueueLimit, FlushTimeout} \subseteq Nat
    /\ Events = 1..MaxSequence

Init == StreamInit /\ P!Init

Next ==
    \/ P!Next /\ UNCHANGED jobVars
    \/ (Expire \/ JobStep \/ Crash) /\ UNCHANGED producerVars

\* Kafka's client keeps sending until the event is in the topic, reported
\* failed or gone with the client; the engine starts a batch at every trigger
\* and Docker restarts the container (restart: unless-stopped). No signal has
\* to come, and nothing has to be produced.
Fairness ==
    /\ WF_vars(JobStep /\ UNCHANGED producerVars)
    /\ \A e \in Events :
        WF_vars((P!Send(e) \/ P!GiveUp(e)) /\ UNCHANGED jobVars)

Spec == Init /\ [][Next]_vars /\ Fairness

\* Every event the producer queues is one day in a table, or is accounted for:
\* reported failed, gone with a client that ended in one of the ways that may
\* cost events, dropped by the topic before the job read it, or published
\* before the job first started (startingOffsets is "latest").
EventsArrive ==
    \A e \in Events : e \in queue ~>
        \/ e \in failed
        \/ e \in P!Missing /\ P!Lossy
        \/ \E o \in DOMAIN topic :
              topic[o] = e /\ (Stored(o) \/ o <= expired \/ o <= origin)

\* Only a full queue, a kill or a timeout of flush loses events, and how many.
LossOnlyAtLimits == P!LossOnlyAtLimits
=============================================================================
