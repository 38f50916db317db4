---------------------------- MODULE BlockIndex ------------------------------
(* How an inode of project 4 is laid out: direct pointers, one indirect and   *)
(* one doubly indirect pointer, and the way from the inode to a block of the  *)
(* file.                                                                      *)
EXTENDS Integers, Sequences

CONSTANTS
    DIRECT_CNT,     \* direct pointers of an inode
    PTRS_PER_SECTOR \* pointers in a block

ASSUME BlockIndexAssumption ==
    /\ DIRECT_CNT \in Nat \ {0}
    /\ PTRS_PER_SECTOR \in Nat \ {0}

SECTOR_CNT == DIRECT_CNT + 2        \* one indirect and one doubly indirect

(* The blocks a file may have by its layout. *)
INODE_SPAN == DIRECT_CNT + PTRS_PER_SECTOR + PTRS_PER_SECTOR * PTRS_PER_SECTOR

(* A mutant of calculate_indices: the blocks under one indirect block are one. *)
FirstWordOnly(idx) ==
    IF idx < DIRECT_CNT THEN <<idx + 1>>
    ELSE IF idx = DIRECT_CNT THEN <<DIRECT_CNT + 1, (idx % DIRECT_CNT) + 1>>
    ELSE <<DIRECT_CNT + 2, (idx \div PTRS_PER_SECTOR) + 1, 1>>

(* The words to follow, from the inode on, to block idx of a file; words are
   counted from 1 here. *)
calculate_indices(idx) ==
    IF idx < DIRECT_CNT THEN <<idx + 1>>
    ELSE IF idx = DIRECT_CNT THEN <<DIRECT_CNT + 1, (idx % DIRECT_CNT) + 1>>
    ELSE <<DIRECT_CNT + 2, (idx \div PTRS_PER_SECTOR) + 1, (idx % PTRS_PER_SECTOR) + 1>>

(* The block of pointers looked up is as long as a sector. *)
InBounds(idx) ==
    \A k \in 2 .. Len(calculate_indices(idx)) : calculate_indices(idx)[k] <= PTRS_PER_SECTOR

=============================================================================
