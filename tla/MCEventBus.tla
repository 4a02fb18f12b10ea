----------------------------- MODULE MCEventBus -----------------------------
\* Two producers and two clients of one session; the producers also publish
\* events of another session.
EXTENDS EventBus

AllInFirst == [c \in Clients |-> CHOOSE s \in Sessions : TRUE]
=============================================================================
