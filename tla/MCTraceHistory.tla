--------------------------- MODULE MCTraceHistory ---------------------------
(* TraceHistory on a path of at most two hops, every outcome of a probe,    *)
(* with times on either side of the thresholds.                             *)
EXTENDS TraceHistory

CONSTANTS t, r1
MCAddr == {t, r1}
MCRTT == {1, 3}

=============================================================================
