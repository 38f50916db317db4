------------------------------ MODULE NameSpec ------------------------------
(* What the file system of project 4 promises about names, whatever the      *)
(* layout of its directories: a tree of nodes below a root, in which a node  *)
(* has one name, and nodes that processes hold.  A node is taken up again    *)
(* only when it has no name and nobody holds it; a directory goes only when  *)
(* it is empty and nobody holds it.                                          *)
EXTENDS FiniteSets

CONSTANTS Nodes, Root, Names

VARIABLES
    link,   \* the set of [dir, name, node]: node is called name in dir
    dirs,   \* the nodes that are directories
    held    \* the nodes some process has open or runs

vars == <<link, dirs, held>>

Linked == {l.node : l \in link}

(* At first there may be files in the root, some of them held. *)
Init ==
    /\ link \subseteq [dir : {Root}, name : Names, node : Nodes \ {Root}]
    /\ \A l, k \in link : l.name = k.name <=> l.node = k.node
    /\ dirs = {Root}
    /\ held \subseteq Linked

(* A node nobody names or holds gets a name that is not taken. *)
Make(l, isDir) ==
    /\ l.dir \in dirs
    /\ l.name \in Names
    /\ ~\E k \in link : k.dir = l.dir /\ k.name = l.name
    /\ l.node \notin Linked \cup held \cup {Root}
    /\ link' = link \cup {l}
    /\ dirs' = IF isDir THEN dirs \cup {l.node} ELSE dirs
    /\ UNCHANGED held

(* A name goes: of a file at any time, of a directory only when it is empty
   and nobody holds it. *)
Drop(l) ==
    /\ l \in link
    /\ l.node \in dirs => l.node \notin held /\ ~\E k \in link : k.dir = l.node
    /\ link' = link \ {l}
    /\ dirs' = dirs \ {l.node}
    /\ UNCHANGED held

(* A process takes hold of a node that has a name, or of the root. *)
Hold(x) ==
    /\ x \in Linked \cup {Root}
    /\ held' = held \cup {x}
    /\ UNCHANGED <<link, dirs>>

(* The last process that held a node lets it go. *)
Release(x) ==
    /\ held' = held \ {x}
    /\ UNCHANGED <<link, dirs>>

Next ==
    \/ \E l \in link' \ link, isDir \in BOOLEAN : Make(l, isDir)
    \/ \E l \in link : Drop(l)
    \/ \E x \in Nodes : Hold(x) \/ Release(x)

Spec == Init /\ [][Next]_vars

=============================================================================
