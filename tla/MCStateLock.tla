---------------------------- MODULE MCStateLock ----------------------------
(* StateLock with two targets: the one on display and another one.          *)
EXTENDS StateLock
=============================================================================
