---------------------------- MODULE MCQuizCache ----------------------------
(* Instances of QuizCache for TLC. *)
EXTENDS QuizCache, TLC

Symmetry == Permutations(Requests) \cup Permutations(Admins)

=============================================================================
