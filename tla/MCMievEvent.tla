---------------------------- MODULE MCMievEvent ----------------------------
EXTENDS MievEvent

\* An 8-bit long: its extremes and the borders between digit counts.
SmallLongs == {-128, -127, -10, -9, 0, 9, 10, 99, 100, 127}
=============================================================================
