---------------------------- MODULE EventProducer ----------------------------
(***************************************************************************)
(* main of src/src/producer/event_producer.py with the Kafka client it     *)
(* uses. produce() only puts an event into the client's local queue; the   *)
(* client sends it in the background, sends it again when an answer does   *)
(* not come (it is not configured to be idempotent), and gives it up after *)
(* its own timeout, which delivery_report logs.                            *)
(***************************************************************************)
EXTENDS Integers, Sequences, FiniteSets

CONSTANTS
    MaxSequence,   \* bound of the model: events produced
    QueueLimit,    \* events the client's queue takes
    FlushTimeout,  \* how long flush waits
    MaxOffset      \* bound of the model: length of the topic

VARIABLES
    topic,
    sequence,   \* events numbered so far
    running,    \* the flag _running
    main,       \* "loop", "flush", or how main ended: see Ended
    waited,     \* how long flush has waited
    queue,      \* events in the client's queue
    failed      \* events whose failure was reported

producerVars == <<sequence, running, main, waited, queue, failed>>

\* flush returned; an exception went through main; the process was killed.
Ended == {"stopped", "raised", "killed"}

Init ==
    /\ topic = <<>>
    /\ sequence = 0 /\ running = TRUE /\ main = "loop" /\ waited = 0
    /\ queue = {} /\ failed = {}

\* One round of the for loop. bad_event_rate decides on the payload only.
Produce ==
    /\ main = "loop" /\ running
    /\ sequence < MaxSequence /\ Cardinality(queue) < QueueLimit
    /\ sequence' = sequence + 1
    /\ queue' = queue \cup {sequence + 1}
    /\ UNCHANGED <<topic, running, main, waited, failed>>

\* The client and its queue end with main.
End(how) == main' = how /\ queue' = {}

\* The event has its number when produce() raises BufferError. Nothing catches
\* it: main ends without flush.
QueueFull ==
    /\ main = "loop" /\ running
    /\ sequence < MaxSequence /\ Cardinality(queue) >= QueueLimit
    /\ sequence' = sequence + 1
    /\ End("raised")
    /\ UNCHANGED <<topic, running, waited, failed>>

HandleSignal ==
    /\ main = "loop" /\ running
    /\ running' = FALSE
    /\ UNCHANGED <<topic, sequence, main, waited, queue, failed>>

Kill ==
    /\ main \in {"loop", "flush"}
    /\ End("killed")
    /\ UNCHANGED <<topic, sequence, running, waited, failed>>

LeaveLoop ==
    /\ main = "loop" /\ ~running
    /\ main' = "flush"
    /\ UNCHANGED <<topic, sequence, running, waited, queue, failed>>

FlushWaits ==
    /\ main = "flush" /\ queue # {}
    /\ waited < FlushTimeout
    /\ waited' = waited + 1
    /\ UNCHANGED <<topic, sequence, running, main, queue, failed>>

\* Wrong: main does not wait for the queue.
WrongFlush ==
    /\ main = "flush"
    /\ End("stopped")
    /\ UNCHANGED <<topic, sequence, running, waited, failed>>

\* flush(10) returns when the queue is empty or ten seconds are over; what it
\* returns, the number of events left, is ignored.
Flush ==
    /\ main = "flush"
    /\ queue = {} \/ waited = FlushTimeout
    /\ End("stopped")
    /\ UNCHANGED <<topic, sequence, running, waited, failed>>

-----------------------------------------------------------------------------
(* The client's background thread                                          *)

Acked(e) == queue' = queue \ {e}

\* The broker appends the event; if its answer is lost, the event stays.
Send(e) ==
    /\ e \in queue /\ Len(topic) < MaxOffset
    /\ topic' = Append(topic, e)
    /\ Acked(e) \/ UNCHANGED queue
    /\ UNCHANGED <<sequence, running, main, waited, failed>>

GiveUp(e) ==
    /\ e \in queue
    /\ queue' = queue \ {e}
    /\ failed' = failed \cup {e}
    /\ UNCHANGED <<topic, sequence, running, main, waited>>

Next ==
    \/ Produce \/ QueueFull \/ HandleSignal \/ Kill \/ LeaveLoop \/ FlushWaits \/ Flush
    \/ \E e \in queue : Send(e) \/ GiveUp(e)

-----------------------------------------------------------------------------
(* Properties                                                              *)

\* Numbered, and neither with the client, reported failed nor in the topic.
Missing == {e \in 1..sequence \ (queue \cup failed) : \A o \in DOMAIN topic : topic[o] # e}

\* The ends that may cost events: not that of a flush with time left.
Lossy == main \in {"raised", "killed"} \/ (main = "stopped" /\ waited = FlushTimeout)

\* While main lives, and when it stops on a signal with time left, every event
\* it has numbered is in the topic, still with the client, or reported. A full
\* queue, a kill or ten seconds of waiting cost a queue of events at most, and
\* the full queue one more: the event that did not get in.
LossOnlyAtLimits ==
    /\ ~Lossy => Missing = {}
    /\ Cardinality(Missing) <= QueueLimit + IF main = "raised" THEN 1 ELSE 0
=============================================================================
