----------------------------- MODULE MCMonitor -----------------------------
(* Monitor on small instances: three threads of different priorities.       *)
EXTENDS Monitor

CONSTANTS main, high, middle

MCBasePri == [t \in Thread |-> CASE t = main -> 1 [] t = middle -> 2 [] OTHER -> 3]
=============================================================================
