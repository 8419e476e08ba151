------------------------------ MODULE MCProfiles ------------------------------
(* Profiles and Media with a few requests. *)
EXTENDS Profiles, TLC

Symmetry == Permutations(Slots) \cup Permutations(Edits)

=============================================================================
