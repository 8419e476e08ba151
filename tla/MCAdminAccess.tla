--------------------------- MODULE MCAdminAccess ---------------------------
(* AdminAccess with a few accounts, requests and handlers. *)
EXTENDS AdminAccess, TLC

\* Requests are interchangeable, so are handlers and the accounts that exist.
Symmetry ==
    Permutations(Requests) \cup Permutations(Handlers)
        \cup Permutations(Targets \ Missing)

=============================================================================
