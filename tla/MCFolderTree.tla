---------------------------- MODULE MCFolderTree ----------------------------
(* FolderTree with two requests in flight at a time.                       *)
EXTENDS FolderTree, TLC

CONSTANTS n1, n2

\* The template of a CIRP room, cut down to two folders.
TwoFolders == <<n1, n2>>

\* Nothing tells one request slot from another.
Symmetry == Permutations(Requests)
=============================================================================
