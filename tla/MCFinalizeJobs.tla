---------------------------- MODULE MCFinalizeJobs ----------------------------
(* Model values and symmetry for the runs of FinalizeJobs. *)
EXTENDS FinalizeJobs, TLC

CallSymmetry == Permutations(Calls)
WorkerSymmetry == Permutations(Workers)
BothSymmetry == CallSymmetry \cup WorkerSymmetry
=============================================================================
