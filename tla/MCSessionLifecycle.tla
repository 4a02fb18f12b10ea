------------------------ MODULE MCSessionLifecycle -------------------------
\* Instances of SessionLifecycle for TLC.
EXTENDS SessionLifecycle

LostPublish == {"publish_lost"}
AllFaults == {"publish_lost", "publish_late", "abandon", "ack_lost", "expire", "agent_restart"}
=============================================================================
