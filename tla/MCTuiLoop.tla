----------------------------- MODULE MCTuiLoop -----------------------------
(* TuiLoop with up to three targets, one of them added at run time at least *)
(* when the list starts with fewer, and tables of up to two rows.           *)
EXTENDS TuiLoop

CONSTANTS n1
MCNames == {n1}

=============================================================================
