---------------------------- MODULE MCAutoBlock ----------------------------
(* Instances of AutoBlock for TLC: the AutoBlocker and the reload ticker.     *)
EXTENDS AutoBlock
CONSTANTS blocker, ticker
\* Two addresses whose rules do not merge, and two whose rules do.
Apart == {0, 2}
Adjacent == {0, 1}
NoRule == {}
=============================================================================
