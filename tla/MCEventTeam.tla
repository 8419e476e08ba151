---------------------------- MODULE MCEventTeam ----------------------------
(* The team of an event with a creator, an admin and a second organizer. *)
EXTENDS EventTeam, TLC

\* Nothing tells two tasks or two requests apart.
Symmetry == Permutations(Tasks) \cup Permutations(Requests)

=============================================================================
