------------------------------ MODULE MCStored ------------------------------
(* Instances of Stored for TLC. *)
EXTENDS Stored, TLC

\* One question of each kind.
OneOfEach == [q \in 0 .. 2 |-> CASE q = 0 -> "choice" [] q = 1 -> "open" [] OTHER -> "fill"]

Symmetry == Permutations(Requests)

=============================================================================
