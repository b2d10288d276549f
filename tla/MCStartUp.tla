----------------------------- MODULE MCStartUp ------------------------------
(* Instances of StartUp for TLC. *)
EXTENDS StartUp, TLC

MCTitles == <<"A", "B">>
MCTitle == <<"A">>

Symmetry == Permutations(Instances)

=============================================================================
