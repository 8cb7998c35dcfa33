---------------------------- MODULE MCTraceTarget ----------------------------
(* TraceTarget on a path of at most two hops with two possible routers.     *)
EXTENDS TraceTarget

CONSTANTS t, r1, r2
MCAddr == {t, r1}
MCAddr3 == {t, r1, r2}
MCRTT == {1}

=============================================================================
