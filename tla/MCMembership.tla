---------------------------- MODULE MCMembership ----------------------------
(* Membership with two requests in flight at a time.                       *)
EXTENDS Membership, TLC

\* Nothing tells one request slot from another, nor one account from another.
Symmetry == Permutations(Requests) \cup Permutations(Users)
=============================================================================
