------------------------------- MODULE MCIntQ -------------------------------
(* IntQ on small instances: a buffer of four slots, three threads.            *)
EXTENDS IntQ
=============================================================================
