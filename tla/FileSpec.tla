------------------------------ MODULE FileSpec ------------------------------
(* What the file system of project 4 promises about the contents of files,   *)
(* whatever the sectors they are kept in: a file is an array of blocks, all  *)
(* zeros when it is made, and a length.  Writing stores one block after the  *)
(* other and moves the length last; nothing else changes a file.             *)
(*                                                                           *)
(* Blocks that are being made hold anything, and zeros when they are made.   *)
(* If the machine goes off in between they hold it until they are written;   *)
(* what else files hold is there when the machine comes on again.            *)
EXTENDS Integers

CONSTANTS
    Inodes,     \* what files there may be
    Names,
    Blocks,     \* the blocks of a file
    Lengths,    \* the lengths a file may have, those past its last block included
    Values

VARIABLES
    named,      \* the file a name stands for, 0 for none
    files,      \* the files there are and what they hold
    unsettled,  \* the blocks that are being made: pairs of a file and a block of it
    on          \* the machine is on

vars == <<named, files, unsettled, on>>

Empty == [len |-> 0, data |-> [i \in Blocks |-> 0]]

Init ==
    /\ named = [n \in Names |-> 0]
    /\ files = [x \in {} |-> Empty]
    /\ unsettled = {}
    /\ on = TRUE

(* No block is being made, on a machine that is on and stays so. *)
Settled == on /\ unsettled = {} /\ UNCHANGED <<unsettled, on>>

(* A new file, empty, under a name that is free. *)
Create(n, x) ==
    /\ Settled
    /\ named[n] = 0
    /\ named' = [named EXCEPT ![n] = x]
    /\ x \notin DOMAIN files
    /\ files' = [y \in (DOMAIN files) \cup {x} |-> IF y = x THEN Empty ELSE files[y]]

(* A file with one block stored. *)
Stored(x, i, v) == [files EXCEPT ![x].data[i] = v]

(* What there may be when a file got longer. *)
Extended(x) == {[files EXCEPT ![x].len = len] : len \in {l \in Lengths : l > files[x].len}}

(* Files go, none of them one of the kept. *)
Without(kept) ==
    {[y \in (DOMAIN files) \ gone |-> files[y]] : gone \in SUBSET ((DOMAIN files) \ kept)}

(* What files hold changes while names stay: a block is stored, a file gets
   longer, or files go that have no name. *)
Change ==
    /\ Settled
    /\ UNCHANGED named
    /\ \/ files' \in Without({named[n] : n \in Names})
       \/ files' \in {Stored(x, i, v) : x \in DOMAIN files, i \in Blocks, v \in Values}
       \/ \E x \in DOMAIN files : files' \in Extended(x)

(* A name goes, and the file with it or later. *)
Unlink(n) ==
    /\ Settled
    /\ named[n] # 0
    /\ named' = [named EXCEPT ![n] = 0]
    /\ files' \in Without((DOMAIN files) \ {named[n]})

(* Files are as they were but for the blocks that are being made, or were. *)
OthersKept ==
    /\ DOMAIN files' = DOMAIN files
    /\ \A x \in DOMAIN files :
         /\ files'[x].len = files[x].len
         /\ \A i \in Blocks :
              <<x, i>> \in unsettled \/ <<x, i>> \in unsettled' \/ files'[x].data[i] = files[x].data[i]

(* Room is made for blocks that were not there, and is cleared. *)
Take ==
    /\ on /\ unsettled = {}
    /\ \A u \in unsettled' : u[1] \in DOMAIN files /\ files[u[1]].data[u[2]] = 0
    /\ OthersKept
    /\ UNCHANGED <<named, on>>

Clear ==
    /\ on /\ unsettled' = {}
    /\ \A u \in unsettled : files'[u[1]].data[u[2]] = 0
    /\ OthersKept
    /\ UNCHANGED <<named, on>>

TurnOff == on /\ on' = FALSE /\ UNCHANGED <<named, files, unsettled>>

(* Files go that have no name; the others are as the machine went off. *)
TurnOn ==
    /\ ~on /\ on' = TRUE
    /\ unsettled' = {}
    /\ files' \in Without({named[n] : n \in Names})
    /\ UNCHANGED named

Next ==
    \/ Change \/ Take \/ Clear \/ TurnOff \/ TurnOn
    \/ \E n \in Names, x \in Inodes : Create(n, x)
    \/ \E n \in Names : Unlink(n)

Spec == Init /\ [][Next]_vars

=============================================================================
