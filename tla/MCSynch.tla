------------------------------ MODULE MCSynch ------------------------------
(* Synch on small instances: three threads of different priorities, and     *)
(* three of the same one.                                                   *)
EXTENDS Synch

CONSTANTS main, high, middle

MCBasePri == [t \in Thread |-> CASE t = main -> 1 [] t = middle -> 2 [] OTHER -> 3]
MCEqualPri == [t \in Thread |-> 1]
=============================================================================
