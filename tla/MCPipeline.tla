----------------------------- MODULE MCPipeline -----------------------------
EXTENDS Pipeline

\* The second event is one of those bad_event_rate asks for.
MCEvents == 1..MaxSequence
MCBadEvents == {2}
=============================================================================
