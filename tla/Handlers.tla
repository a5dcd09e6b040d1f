------------------------------ MODULE Handlers ------------------------------
(***************************************************************************)
(* What the handlers of several components share: accounts, the signed-in  *)
(* connections, and whose they are.  A connection has one goroutine, which *)
(* runs one handler at a time; a user may have several connections.        *)
(***************************************************************************)
EXTENDS Naturals, Sequences, FiniteSets

CONSTANTS
    Users,    \* usernames
    Conns,    \* signed-in connections
    Owner,    \* Owner[c]: the username of connection c
    NoUser    \* the empty username

ASSUME HandlersAssumption ==
    /\ IsFiniteSet(Conns)
    /\ Owner \in [Conns -> Users]
    /\ NoUser \notin Users

\* sendTo reaches every connection of the user.
connsOf(u) == {c \in Conns : Owner[c] = u}
=============================================================================
