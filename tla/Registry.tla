------------------------------ MODULE Registry ------------------------------
(***************************************************************************)
(* One entry of s.Clients: the list of a user's connections in the order   *)
(* they signed in, and what adding and removing a connection does to it.   *)
(***************************************************************************)
EXTENDS Naturals, Sequences

\* clientsOf: the connections of the list, as a copy of it is ranged over.
members(cs) == {cs[i] : i \in DOMAIN cs}

noDuplicates(cs) == \A i, j \in DOMAIN cs : cs[i] = cs[j] => i = j

\* removeClientLocked deletes the first occurrence of c and keeps the order.
removeFirst(cs, c) ==
    IF c \in members(cs)
    THEN LET k == CHOOSE i \in DOMAIN cs : cs[i] = c /\ \A j \in 1..(i - 1) : cs[j] # c
         IN  [i \in 1..(Len(cs) - 1) |-> IF i < k THEN cs[i] ELSE cs[i + 1]]
    ELSE cs
=============================================================================
