-------------------------- MODULE MCNotifications --------------------------
(* Notifications of a user with a few websockets. *)
EXTENDS Notifications, TLC

\* The websockets are interchangeable, and so are the notices.
Symmetry == Permutations(Connections) \cup Permutations(Notices)

=============================================================================
