------------------------------ MODULE MCSocial ------------------------------
(***************************************************************************)
(* Friends, Groups and the messages of two friends on one set of users and *)
(* connections: alice, and bob with two devices.  The components share no  *)
(* variable, so a step of one changes nothing the others' properties speak *)
(* of; every behaviour follows one of them.                                *)
(***************************************************************************)
EXTENDS Friends, Groups, DmHistory, TLC

CONSTANTS alice, bob, c1, c2, c3

VARIABLE followed   \* the component whose steps are taken

MCOwner == (c1 :> alice) @@ (c2 :> bob) @@ (c3 :> bob)
MCMayName == {<<alice, bob>>, <<bob, alice>>, <<alice, alice>>}
MCMayPart == {{alice, bob}}
BobsDevices == Permutations({c2, c3})

MCInit == FInit /\ GInit /\ DInit /\ followed \in {"friends", "groups", "messages"}

MCNext ==
    \/ followed = "friends" /\ FNext /\ UNCHANGED <<gvars, dvars, followed>>
    \/ followed = "groups" /\ GNext /\ UNCHANGED <<fvars, dvars, followed>>
    \/ followed = "messages" /\ DNext /\ UNCHANGED <<fvars, gvars, followed>>

MCSpec == MCInit /\ [][MCNext]_<<fvars, gvars, dvars, followed>>
=============================================================================
