------------------------------ MODULE MCQAReview ------------------------------
(* Model values and symmetry for the runs of QAReview. *)
EXTENDS QAReview, TLC

Symmetry == Permutations(Evaluations) \cup Permutations(Scores)
=============================================================================
