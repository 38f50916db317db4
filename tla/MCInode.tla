------------------------------ MODULE MCInode -------------------------------
(* Instances of Inode for TLC. *)
EXTENDS Inode, TLC

(* With one direct pointer and two pointers in a block, blocks 0 and 1 are the
   direct and the indirect one, 2 and 3 are doubly indirect, and 4 is past the
   bounds.  A file is written from its start, through all three kinds, or from
   block 2 on, which leaves a hole that the other write fills. *)
MCWrites == {<<0, 5>>, <<2, 5>>}

(* The code treats all names alike. *)
MCSymmetry == Permutations(Names)

=============================================================================
