----------------------------- MODULE MCViewing ------------------------------
(* Viewing with two requests in flight at a time, a manager and a guest.   *)
EXTENDS Viewing, TLC

\* Nothing tells one request slot from another.
Symmetry == Permutations(Requests)

\* Bound: the log is read while one request and the other handlers write it, and
\* before a backup is begun; otherwise there are two rows at most.
Focus ==
  IF reader # Closed \/ now > 0 THEN backup.taken = 0 /\ begun <= 1 ELSE Len(trail) <= 2
=============================================================================
