----------------------------- MODULE MCSeparate -----------------------------
(* Instances of Separate for TLC. *)
EXTENDS Separate, TLC

\* Three characters where there is one field, one in each of two.
LengthByFields == <<3, 1>>

Symmetry == Permutations(Requests) \cup Permutations(Words) \cup Permutations(Users)

=============================================================================
