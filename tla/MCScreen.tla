------------------------------ MODULE MCScreen ------------------------------
(* Screen with a table of one row, every outcome of a probe, and times below, *)
(* on and above the thresholds, none of them a whole number of microseconds.  *)
EXTENDS Screen

CONSTANTS t
MCAddr == {t}
MCRTT == {1, 3, 5}

=============================================================================
