-------------------------- MODULE MCQuizQuestions ---------------------------
(* Instances of QuizQuestions for TLC.                                      *)
EXTENDS QuizQuestions, TLC

CONSTANTS q1, q2

MCQuestions == {q1, q2}
Symmetry == Permutations(Requests) \cup Permutations(MCQuestions) \cup Permutations(Answers)
=============================================================================
