---------------------------- MODULE MCEventPages ----------------------------
(* EventPages with a few readers and a few requests for tags. *)
EXTENDS EventPages, TLC

CONSTANTS u, admin, a, b

\* The first event is an admin's draft, the other a plain user's.
MCCreator == [e \in Events |-> IF e = 1 THEN admin ELSE u]

\* The tag a is in use.
MCLinked == {<<1, a>>}

\* Tags and lists share the bound MaxWork and no other variable: a behaviour
\* with both only interleaves one of each.
TagsOrLists ==
    \/ \A r \in TagRequests : tagging[r].pc = "idle"
    \/ \A r \in Reads : read[r].pc = "idle"

\* Requests are interchangeable.
Symmetry == Permutations(Reads) \cup Permutations(TagRequests)

=============================================================================
