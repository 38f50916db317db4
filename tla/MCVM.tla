-------------------------------- MODULE MCVM --------------------------------
(* Two processes with a stack each; the first has one more page, which may  *)
(* be read-only code, the same in an executable that is too short, data, or *)
(* zeros.                                                                   *)
EXTENDS VM
CONSTANTS a, b, stackA, stackB, more
MCOwner == [p \in Page |-> IF p = stackB THEN b ELSE a]
MCStack == [t \in Proc |-> IF t = a THEN stackA ELSE stackB]
Stacks == {stackA, stackB}
MCLayouts ==
  {[writable |-> Stacks, fromFile |-> {more}, short |-> {}],
   [writable |-> Stacks, fromFile |-> {more}, short |-> {more}],
   [writable |-> Page, fromFile |-> {more}, short |-> {}],
   [writable |-> Page, fromFile |-> {}, short |-> {}]}
=============================================================================
