------------------------------ MODULE MCAlarm ------------------------------
(* Alarm on a small instance: three threads of one priority.                  *)
EXTENDS Alarm

MCEqualPri == [t \in Thread |-> 1]
MCSleep == {0, 2}
=============================================================================
