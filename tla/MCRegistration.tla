--------------------------- MODULE MCRegistration ---------------------------
(* Registration with small sets of users and capacities. *)
EXTENDS Registration, TLC

\* The users are interchangeable in every safety property.
UserSymmetry == Permutations(Users)

=============================================================================
