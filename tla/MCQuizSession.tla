--------------------------- MODULE MCQuizSession ---------------------------
(* Instances of QuizSession for TLC. *)
EXTENDS QuizSession, TLC

CONSTANTS q1, q2

\* All quizzes last one second, or two; or the second one lasts longer.
OneSecond == [q \in Quizzes |-> 1]
TwoSeconds == [q \in Quizzes |-> 2]
SecondLasts == [q \in Quizzes |-> IF q = q1 THEN 1 ELSE 2]

\* Every quiz has one question; or the second one has a question more.
OneQuestion == [q \in Quizzes |-> 1]
SecondLarger == [q \in Quizzes |-> IF q = q1 THEN 1 ELSE 2]

Symmetry == Permutations(Attempts) \cup Permutations(Requests)

=============================================================================
