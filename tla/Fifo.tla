-------------------------------- MODULE Fifo --------------------------------
(***************************************************************************)
(* What a bounded queue of bytes promises (devices/intq.h): bytes come out  *)
(* in the order they went in, none lost, none twice, and no more than       *)
(* Capacity of them are inside.                                             *)
(***************************************************************************)
EXTENDS Naturals, Sequences

CONSTANTS Byte, Capacity

VARIABLES contents,   \* the bytes inside, oldest first
          taken       \* the byte taken last

Init == contents = <<>> /\ taken \in Byte

Put(b) ==
  /\ Len(contents) < Capacity
  /\ contents' = Append(contents, b)
  /\ UNCHANGED taken

Get ==
  /\ contents # <<>>
  /\ taken' = Head(contents)
  /\ contents' = Tail(contents)

Next == Get \/ \E b \in Byte : Put(b)

Spec == Init /\ [][Next]_<<contents, taken>>
=============================================================================
