----------------------------- MODULE MCBrowser ------------------------------
(* Browser with two tabs and two accounts.  No symmetry: a property is     *)
(* about liveness.                                                         *)
EXTENDS Browser, TLC
=============================================================================
