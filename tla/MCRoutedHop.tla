----------------------------- MODULE MCRoutedHop -----------------------------
\* Model values for RoutedHop: calls of every kind.
EXTENDS RoutedHop

CONSTANTS c1, c2, c3

Calls3      == {c1, c2, c3}
Authorised2 == {c1, c2}
Billable2   == {c1, c3}
==============================================================================
