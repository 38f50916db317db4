---------------------------- MODULE MCDirectory -----------------------------
(* Instances of Directory for TLC. *)
EXTENDS Directory

Path(abs, parts) == [abs |-> abs, parts |-> parts]

(* The root itself, a name in it, one in the working directory, and by way of
   that one the directory above the working directory. *)
MCPaths ==
    {Path(TRUE, <<>>), Path(TRUE, <<"a">>), Path(FALSE, <<"b">>),
     Path(FALSE, <<"b", "..", "..">>)}

=============================================================================
