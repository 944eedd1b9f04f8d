----------------------------- MODULE MCPeerBroker -----------------------------
\* Model values for PeerBroker: worker a calls two devices of worker b, which
\* may be unloaded or crash and be restarted as worker b2; a's right to one of
\* the two devices may be revoked meanwhile.  And two workers that call each other.
EXTENDS PeerBroker

CONSTANTS a, b, b2, d1, d2

WithSpare  == {a, b, b2}
TwoDevices == {d1, d2}
HomeB      == [d \in {d1, d2} |-> b]
SpareB     == [w \in {a, b, b2} |-> IF w = b THEN b2 ELSE None]
UsesOfA    == {<<a, d1>>, <<a, d2>>}
OnlyB      == {b}
UseOfD1    == {<<a, d1>>}

\* Worker b hosts d1 and uses d2, worker a hosts d2 and uses d1; both stay.
NoSpare    == {a, b}
HomeEach   == [d \in {d1, d2} |-> IF d = d1 THEN b ELSE a]
SpareNone  == [w \in {a, b} |-> None]
UsesOfBoth == {<<a, d1>>, <<b, d2>>}
===============================================================================
