---------------------------- MODULE MCPeerChannel ----------------------------
\* Model values for PeerChannel: calls of every kind, and a cap small enough
\* that both queues fill.
EXTENDS PeerChannel

CONSTANTS c1, c2, c3, c4

Calls4    == {c1, c2, c3, c4}
Granted4  == {c1, c2, c4}
Billable4 == {c1, c3, c4}
==============================================================================
