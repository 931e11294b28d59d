----------------------------- MODULE MCTeeBootstrap -----------------------------
(* Model-checking instance of TeeBootstrap.  Runs are interchangeable, and so   *)
(* are keys.                                                                   *)
EXTENDS TeeBootstrap, TLC

Symmetry == Permutations(Procs) \cup Permutations(Keys)

=============================================================================
