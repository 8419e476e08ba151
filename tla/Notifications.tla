---------------------------- MODULE Notifications ----------------------------
(***************************************************************************)
(* The notifications of one user: the rows create_notification stores, and *)
(* the ConnectionManager that pushes each of them to the user's open       *)
(* websockets.  The rows and the connections of two users share nothing.   *)
(*                                                                         *)
(* The manager lives in one event loop, so the code between two awaits is  *)
(* one step.  A push iterates over the list of connections by its index    *)
(* and awaits every send; meanwhile handlers append to that list and       *)
(* remove from it.  An empty list is dropped from the dictionary and the   *)
(* next connection starts a new one, which running pushes do not look at.  *)
(***************************************************************************)
EXTENDS Integers, FiniteSets, Sequences

CONSTANTS
    Notices,      \* the notifications that are created
    Connections,  \* the user's websockets
    Nobody        \* no connection

ASSUME NobodyAssumption == Nobody \notin Connections

VARIABLES
    row,     \* is_read of each notification's row: "none", "unread", "read"
    push,    \* how far the create_notification of each notice is
    socket,  \* each websocket and the handler that waits for its messages
    active,  \* active_connections[user_id], <<>>: no such key
    lists,   \* how many lists that key has had
    got      \* how often each websocket was sent each notice

vars == <<row, push, socket, active, lists, got>>

\* "new": not accepted yet; "open": the handler awaits a message; "lost": the
\* peer is gone, which the handler has not seen yet; "closed": it has returned.
Socket == {"new", "open", "lost", "closed"}

Elements(s) == {s[i] : i \in DOMAIN s}

\* index, to: the position and the connection of the send that is awaited;
\* list: which list is iterated; dead: the connections whose send failed;
\* audience: the connections that were registered when the push began;
\* shrunk: one at or before index was removed from the list meanwhile.
Push ==
    [pc : {"idle", "stored", "counted", "sending", "done"},
     list : Nat, index : Nat, to : Connections \cup {Nobody},
     dead : Seq(Connections), audience : SUBSET Connections, shrunk : BOOLEAN]

TypeOK ==
    /\ row \in [Notices -> {"none", "unread", "read"}]
    /\ push \in [Notices -> Push]
    /\ \A n \in Notices : push[n].pc = "sending" <=> push[n].to # Nobody
    /\ socket \in [Connections -> Socket]
    /\ active \in Seq(Connections)
    /\ lists \in Nat
    /\ got \in [Connections -> [Notices -> Nat]]

Init ==
    /\ row = [n \in Notices |-> "none"]
    /\ push = [n \in Notices |->
                 [pc |-> "idle", list |-> 0, index |-> 0, to |-> Nobody,
                  dead |-> <<>>, audience |-> {}, shrunk |-> FALSE]]
    /\ socket = [c \in Connections |-> "new"]
    /\ active = <<>>
    /\ lists = 0
    /\ got = [c \in Connections |-> [n \in Notices |-> 0]]

-----------------------------------------------------------------------------

\* connect: accepted, and appended to the list of the user.
Connect(c) ==
    /\ socket[c] = "new"
    /\ socket' = [socket EXCEPT ![c] = "open"]
    /\ active' = Append(active, c)
    /\ lists' = IF active = <<>> THEN lists + 1 ELSE lists
    /\ UNCHANGED <<row, push, got>>

\* The token is refused, or the peer is gone before the handshake is over.
Reject(c) ==
    /\ socket[c] = "new"
    /\ socket' = [socket EXCEPT ![c] = "closed"]
    /\ UNCHANGED <<row, push, active, lists, got>>

Lose(c) ==
    /\ socket[c] = "open"
    /\ socket' = [socket EXCEPT ![c] = "lost"]
    /\ UNCHANGED <<row, push, active, lists, got>>

\* The places of the list whose element is not in S, and how many of the
\* places K come up to the place i.
Kept(list, S) == {i \in DOMAIN list : list[i] \notin S}
Rank(K, i) == Cardinality({j \in K : j <= i})

\* disconnect of a connection: the others move up.  If a push has removed it
\* before, remove() raises (or the key is gone) and the list stays as it is.
Without(list, S) ==
    LET K == Kept(list, S)
    IN  [k \in 1 .. Cardinality(K) |-> list[CHOOSE i \in K : Rank(K, i) = k]]

\* The loops that the removal of S from the list disturbs.
Shrink(p, S) ==
    [n \in Notices |->
       IF /\ p[n].pc = "sending" /\ p[n].list = lists
          /\ \E i \in DOMAIN active : i <= p[n].index /\ active[i] \in S
       THEN [p[n] EXCEPT !.shrunk = TRUE] ELSE p[n]]

\* Mutant: a clean close is not treated like a failure.
HandlerReturnsQuietly(c) ==
    /\ socket[c] = "lost"
    /\ socket' = [socket EXCEPT ![c] = "closed"]
    /\ UNCHANGED <<row, push, active, lists, got>>

\* receive_text raises, the handler disconnects and returns.
HandlerReturns(c) ==
    /\ socket[c] = "lost"
    /\ socket' = [socket EXCEPT ![c] = "closed"]
    /\ active' = Without(active, {c})
    /\ push' = Shrink(push, {c})
    /\ UNCHANGED <<row, lists, got>>

-----------------------------------------------------------------------------

At(n, pc) == push[n].pc = pc
Move(n, pc) == push' = [push EXCEPT ![n].pc = pc]

\* create_notification: the row is committed ...
Store(n) ==
    /\ At(n, "idle")
    /\ row' = [row EXCEPT ![n] = "unread"]
    /\ Move(n, "stored")
    /\ UNCHANGED <<socket, active, lists, got>>

\* ... the unread rows are counted for the message ...
Count(n) ==
    /\ At(n, "stored")
    /\ Move(n, "counted")
    /\ UNCHANGED <<row, socket, active, lists, got>>

\* ... and whatever fails from there on is only logged: the row stays.
GiveUp(n) ==
    /\ At(n, "stored")
    /\ Move(n, "done")
    /\ UNCHANGED <<row, socket, active, lists, got>>

\* The list that the push t iterates over, as it is now.
Iterated(t) == IF t.list = lists THEN active ELSE <<>>

\* The connections that the clean-up after the loop removes: remove() raises
\* at the first that is no longer in the list.
Cleanable(list, dead) ==
    {dead[j] : j \in {j \in DOMAIN dead :
                        \A i \in 1 .. j : dead[i] \in Elements(list)}}

\* The loop goes on with the element at index i, or ends with the clean-up
\* (no await in it).  The dead are looked up in the list the key has now.
Continue(n, t, i) ==
    \/ /\ i <= Len(Iterated(t))
       /\ push' = [push EXCEPT ![n] =
                     [t EXCEPT !.pc = "sending", !.index = i,
                               !.to = Iterated(t)[i]]]
       /\ UNCHANGED active
    \/ /\ i > Len(Iterated(t))
       /\ push' = Shrink([push EXCEPT ![n] = [t EXCEPT !.pc = "done", !.to = Nobody]],
                         Cleanable(active, t.dead))
       /\ active' = Without(active, Cleanable(active, t.dead))

\* send_personal_message: the loop begins if the key exists.
Begin(n) ==
    /\ At(n, "counted")
    /\ Continue(n, [push[n] EXCEPT !.list = lists,
                                   !.audience = Elements(active)], 1)
    /\ UNCHANGED <<row, socket, lists, got>>

\* The awaited send of an open connection returns; bytes for a lost one may
\* also be accepted.
SendReturns(n) ==
    LET t == push[n] IN
    /\ At(n, "sending")
    /\ socket[t.to] \in {"open", "lost"}
    /\ got' = [got EXCEPT ![t.to][n] = @ + 1]
    /\ Continue(n, t, t.index + 1)
    /\ UNCHANGED <<row, socket, lists>>

\* Mutant: a send that fails is tried again.
SendFailsRetries(n) ==
    /\ At(n, "sending")
    /\ socket[push[n].to] # "open"
    /\ UNCHANGED vars

\* Mutant: the connection is removed in the loop, not after it.
SendFailsRemoves(n) ==
    LET t == push[n]  i == t.index + 1 IN
    /\ At(n, "sending")
    /\ socket[t.to] # "open"
    /\ active' = IF t.list = lists THEN Without(active, {t.to}) ELSE active
    /\ push' = [push EXCEPT ![n] =
                  IF i <= Len(active') /\ t.list = lists
                  THEN [t EXCEPT !.index = i, !.to = active'[i]]
                  ELSE [t EXCEPT !.pc = "done", !.to = Nobody]]
    /\ UNCHANGED <<row, socket, lists, got>>

SendFails(n) ==
    LET t == push[n] IN
    /\ At(n, "sending")
    /\ socket[t.to] # "open"
    /\ Continue(n, [t EXCEPT !.dead = Append(@, t.to)], t.index + 1)
    /\ UNCHANGED <<row, socket, lists, got>>

-----------------------------------------------------------------------------

\* mark_as_read and mark_all_as_read.
MarkRead(n) ==
    /\ row[n] # "none"
    /\ row' = [row EXCEPT ![n] = "read"]
    /\ UNCHANGED <<push, socket, active, lists, got>>

MarkAllRead ==
    /\ row' = [n \in Notices |-> IF row[n] = "none" THEN "none" ELSE "read"]
    /\ UNCHANGED <<push, socket, active, lists, got>>

Send(n) == SendReturns(n) \/ SendFails(n)

Next ==
    \/ \E c \in Connections :
         Connect(c) \/ Reject(c) \/ Lose(c) \/ HandlerReturns(c)
    \/ \E n \in Notices :
         Store(n) \/ Count(n) \/ GiveUp(n) \/ Begin(n) \/ Send(n) \/ MarkRead(n)
    \/ MarkAllRead

\* The event loop runs every handler and every request; a send ends, with the
\* peer's acknowledgement or with the time limit of the transport.
Fairness ==
    /\ \A c \in Connections : WF_vars(HandlerReturns(c))
    /\ \A n \in Notices : WF_vars(Count(n)) /\ WF_vars(Begin(n)) /\ WF_vars(Send(n))

Spec == Init /\ [][Next]_vars
FairSpec == Spec /\ Fairness

-----------------------------------------------------------------------------

\* The list holds every connection whose handler waits, once, and none whose
\* handler has returned, however often pushes and handlers remove the same
\* connection and however often the list is dropped and made anew.
RegistryExact ==
    /\ \A i, j \in DOMAIN active : active[i] = active[j] => i = j
    /\ \A c \in Connections :
         /\ socket[c] = "open" => c \in Elements(active)
         /\ socket[c] \in {"new", "closed"} => c \notin Elements(active)

\* No websocket is sent a notice twice, although the list it is iterated from
\* changes under the loop.
AtMostOnce == \A c \in Connections, n \in Notices : got[c][n] <= 1

\* What a client has been shown is in the database: no push runs ahead of the
\* commit of its row.
PushedIsStored ==
    \A c \in Connections, n \in Notices : got[c][n] > 0 => row[n] # "none"

\* Every push ends, also when connections keep coming and going under it.
PushesEnd == \A n \in Notices : At(n, "stored") ~> At(n, "done")

\* A connection that was registered when the push began and is still open has
\* got the notice when the push is over (websocket.py:28), unless the list
\* shrank under the loop: then the next one moves up and is passed over.
OpenGetAll ==
    \A n \in Notices :
        At(n, "done") /\ ~push[n].shrunk =>
            \A c \in push[n].audience : socket[c] = "open" => got[c][n] > 0

\* What a push has delivered is right: everybody's, once, and stored.
PushSound == TypeOK /\ AtMostOnce /\ PushedIsStored /\ OpenGetAll

=============================================================================
