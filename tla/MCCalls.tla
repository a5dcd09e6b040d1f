------------------------------ MODULE MCCalls ------------------------------
(***************************************************************************)
(* Small instances of Calls: alice has one connection, bob two, and they   *)
(* are friends.                                                            *)
(***************************************************************************)
EXTENDS Calls, TLC

CONSTANTS alice, bob, a1, b1, b2

MCOwner == [c \in Conns |-> IF c = a1 THEN alice ELSE bob]

\* bob's two connections differ in nothing but their names.
DeviceSymmetry == Permutations({b1, b2})

MCFriends == {p \in Users \X Users : p[1] # p[2]}
=============================================================================
