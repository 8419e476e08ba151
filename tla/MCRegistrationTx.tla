-------------------------- MODULE MCRegistrationTx --------------------------
(* RegistrationTx with a few users and concurrent requests. *)
EXTENDS RegistrationTx, TLC

\* Clients are interchangeable, the other users too, and so are the workers.
Symmetry ==
    Permutations(Clients) \cup Permutations(Users \ Clients)
        \cup Permutations(Workers)

=============================================================================
