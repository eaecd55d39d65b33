----------------------------- MODULE MCRoomFiles ----------------------------
(* RoomFiles with two requests in flight at a time.                        *)
EXTENDS RoomFiles, TLC

\* Nothing tells one request slot from another.
Symmetry == Permutations(Requests)
=============================================================================
