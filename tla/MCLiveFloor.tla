------------------------------ MODULE MCLiveFloor ------------------------------
(* Symmetry for the runs of LiveFloor, and a view without the columns that no   *)
(* step of it reads.                                                            *)
EXTENDS LiveFloor, TLC

Symmetry == Permutations(Calls)

Seen == <<status, assignee, said, hubVars, pageVars>>
=============================================================================
