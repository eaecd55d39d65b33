------------------------------- MODULE MCAuth -------------------------------
(* Auth with two requests in flight at a time.                             *)
EXTENDS Auth, TLC

\* Nothing tells one request slot from another, nor one password not yet used.
Symmetry ==
  Permutations(Requests) \cup Permutations(Passwords \ {InitialPassword})
=============================================================================
