---------------------------- MODULE MCCommunity -----------------------------
(***************************************************************************)
(* A space and those who run the server: its channels and their messages,  *)
(* its voice room and streams, its whiteboard, the TURN credentials of its *)
(* calls, and the staff roles; alice has two devices, bob one.  The        *)
(* components share no variable; every behaviour follows one of them, and  *)
(* of Rooms the voice room or the streams, which share the connections     *)
(* alone.  (The flags a database may start with matter only to behaviours  *)
(* that follow the roles.)  The times of CfTurn keep the order they have   *)
(* in the code: a fetch is over long before the set it brings is due for a *)
(* refresh.                                                                *)
(***************************************************************************)
EXTENDS Spaces, Rooms, Whiteboard, CfTurn, Staff

CONSTANTS alice, bob, c1, c2, c3

VARIABLE followed   \* the component whose steps are taken

MCOwner == (c1 :> alice) @@ (c2 :> bob) @@ (c3 :> alice)
Alike == Permutations({c1, c3}) \cup Permutations(Reqs)

MCInit ==
    /\ WInit /\ RInit /\ BInit /\ CInit /\ MInit
    /\ followed \in {"spaces", "room", "streams", "whiteboard", "turn", "staff"}
    /\ followed # "staff" => isAdmin = [u \in Accounts |-> u \in EnvAdmins]

MCNext ==
    \/ followed = "spaces" /\ WNext /\ UNCHANGED <<rvars, bvars, cvars, mvars, followed>>
    \/ /\ \/ followed = "room" /\ \E c \in Conns : Connections(c) \/ RoomStep(c)
          \/ followed = "streams" /\ \E c \in Conns : Connections(c) \/ StreamStep(c)
       /\ UNCHANGED <<wvars, bvars, cvars, mvars, followed>>
    \/ followed = "whiteboard" /\ BNext /\ UNCHANGED <<wvars, rvars, cvars, mvars, followed>>
    \/ followed = "turn" /\ CNext /\ UNCHANGED <<wvars, rvars, bvars, mvars, followed>>
    \/ followed = "staff" /\ MNext /\ UNCHANGED <<wvars, rvars, bvars, cvars, followed>>

MCSpec == MCInit /\ [][MCNext]_<<wvars, rvars, bvars, cvars, mvars, followed>>
=============================================================================
