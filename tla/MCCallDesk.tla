------------------------------ MODULE MCCallDesk ------------------------------
(* Model values and symmetry for the runs of CallDesk. *)
EXTENDS CallDesk, TLC

CallSymmetry == Permutations(Calls)
=============================================================================
