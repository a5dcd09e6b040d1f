------------------------------ MODULE Friends ------------------------------
(***************************************************************************)
(* Friend requests, blocks and the filing of contacts: the rows of the     *)
(* tables friends, blocks and contact_groups and the handlers that change  *)
(* them.  A friends row is directional: user_a asked user_b.  The handlers *)
(* of friend_request and contact_group_set look first and write in a later *)
(* statement, and other handlers may run in between.                       *)
(***************************************************************************)
EXTENDS Handlers

CONSTANT MayName   \* a bound: <<a, b>> if messages of a may name b

ASSUME FriendsAssumption == MayName \subseteq Users \X Users

VARIABLES
    friends,        \* friends[<<a, b>>]: the status of the row, "none" if there is none
    blocks,         \* <<a, b>>: a has blocked b
    contactGroups,  \* <<a, b>>: a has filed the contact b under some group name
    fpc,            \* where the connection's goroutine is
    peer,           \* the user its message names
    wants,          \* <<a, b>>: a has asked b or agreed, as the requests a sent say
    crossed         \* {a, b}: two requests between a and b were once under way together

fvars == <<friends, blocks, contactGroups, fpc, peer, wants, crossed>>

Pairs == Users \X Users

FTypeOK ==
    /\ friends \in [Pairs -> {"none", "pending", "accepted"}]
    /\ blocks \subseteq Pairs
    /\ contactGroups \subseteq Pairs
    /\ fpc \in [Conns -> {"read", "count", "insert", "file"}]
    /\ peer \in [Conns -> Users \cup {NoUser}]
    /\ \A c \in Conns : fpc[c] # "read" => peer[c] \in Users
    /\ wants \subseteq Pairs
    /\ crossed \subseteq {{p[1], p[2]} : p \in Pairs}

FInit ==
    /\ friends = [p \in Pairs |-> "none"]
    /\ blocks = {}
    /\ contactGroups = {}
    /\ fpc = [c \in Conns |-> "read"]
    /\ peer = [c \in Conns |-> NoUser]
    /\ wants = {}
    /\ crossed = {}

-----------------------------------------------------------------------------
(* The queries. *)

areFriends(a, b) == friends[<<a, b>>] = "accepted" \/ friends[<<b, a>>] = "accepted"

getFriends(u) == {v \in Users : areFriends(u, v)}

isBlocked(blocker, blocked) == <<blocker, blocked>> \in blocks

\* Mutant: looks for a request in the sender's own direction only.
requestExists_OneWay(a, b) == friends[<<a, b>>] # "none"

\* The COUNT of sendFriendRequest: a row in either direction, of any status.
requestExists(a, b) == friends[<<a, b>>] # "none" \/ friends[<<b, a>>] # "none"

-----------------------------------------------------------------------------
(* friend_request: are they blocked; is there a row; INSERT.               *)

idle(c, u) == fpc[c] = "read" /\ <<Owner[c], u>> \in MayName

done(c) == fpc' = [fpc EXCEPT ![c] = "read"] /\ peer' = [peer EXCEPT ![c] = NoUser]

\* A blocked request is answered as if it had been sent.
FriendRequest(c, u) ==
    /\ idle(c, u)
    /\ ~isBlocked(u, Owner[c]) /\ ~isBlocked(Owner[c], u)
    /\ fpc' = [fpc EXCEPT ![c] = "count"]
    /\ peer' = [peer EXCEPT ![c] = u]
    /\ UNCHANGED <<friends, blocks, contactGroups, wants, crossed>>

\* The other handlers that have found no row for this pair and not inserted one.
aboutToAsk(c) ==
    {d \in Conns : fpc[d] = "insert" /\ {Owner[d], peer[d]} = {Owner[c], peer[c]}}

RequestCount(c) ==
    /\ fpc[c] = "count"
    /\ IF requestExists(Owner[c], peer[c])
       THEN done(c) /\ UNCHANGED crossed
       ELSE /\ fpc' = [fpc EXCEPT ![c] = "insert"]
            /\ crossed' = IF aboutToAsk(c) = {} THEN crossed
                          ELSE crossed \cup {{Owner[c], peer[c]}}
            /\ UNCHANGED peer
    /\ UNCHANGED <<friends, blocks, contactGroups, wants>>

\* UNIQUE(user_a, user_b) refuses a second row of the same direction; the
\* statement may fail otherwise too.  Either way the client is told an error.
RequestInsert(c) ==
    /\ fpc[c] = "insert"
    /\ \/ /\ friends[<<Owner[c], peer[c]>>] = "none"
          /\ friends' = [friends EXCEPT ![<<Owner[c], peer[c]>>] = "pending"]
          /\ wants' = wants \cup {<<Owner[c], peer[c]>>}
       \/ UNCHANGED <<friends, wants>>
    /\ done(c)
    /\ UNCHANGED <<blocks, contactGroups, crossed>>

-----------------------------------------------------------------------------
(* One statement each. *)

acceptFriendRequest(from, to) ==
    /\ friends[<<from, to>>] = "pending"
    /\ friends' = [friends EXCEPT ![<<from, to>>] = "accepted"]

rejectFriendRequest(from, to) ==
    /\ friends[<<from, to>>] = "pending"
    /\ friends' = [friends EXCEPT ![<<from, to>>] = "none"]

\* Mutant: ends the friendship only if the request was a's own.
removeFriend_OneWay(a, b) == friends' = [friends EXCEPT ![<<a, b>>] = "none"]

removeFriend(a, b) ==
    friends' = [friends EXCEPT ![<<a, b>>] = "none", ![<<b, a>>] = "none"]

FriendAccept(c, u) ==
    /\ idle(c, u)
    /\ acceptFriendRequest(u, Owner[c])
    /\ wants' = wants \cup {<<Owner[c], u>>}
    /\ UNCHANGED <<blocks, contactGroups, fpc, peer, crossed>>

FriendReject(c, u) ==
    /\ idle(c, u)
    /\ rejectFriendRequest(u, Owner[c])
    /\ wants' = IF areFriends(u, Owner[c]) THEN wants ELSE wants \ {<<u, Owner[c]>>}
    /\ UNCHANGED <<blocks, contactGroups, fpc, peer, crossed>>

FriendRemove(c, u) ==
    /\ idle(c, u)
    /\ removeFriend(Owner[c], u)
    /\ wants' = wants \ {<<Owner[c], u>>, <<u, Owner[c]>>}
    /\ UNCHANGED <<blocks, contactGroups, fpc, peer, crossed>>

blockUser(blocker, blocked) ==
    /\ blocker # blocked
    /\ blocks' = blocks \cup {<<blocker, blocked>>}

unblockUser(blocker, blocked) == blocks' = blocks \ {<<blocker, blocked>>}

\* block leaves a friendship and a pending request alone.
Block(c, u) ==
    /\ idle(c, u)
    /\ blockUser(Owner[c], u)
    /\ UNCHANGED <<friends, contactGroups, fpc, peer, wants, crossed>>

Unblock(c, u) ==
    /\ idle(c, u)
    /\ unblockUser(Owner[c], u)
    /\ UNCHANGED <<friends, contactGroups, fpc, peer, wants, crossed>>

\* The two statements of deleteAccount about these tables; contact_groups is
\* not one of its tables.
deleteAccount(u) ==
    /\ friends' = [p \in Pairs |-> IF u \in {p[1], p[2]} THEN "none" ELSE friends[p]]
    /\ blocks' = {p \in blocks : u \notin {p[1], p[2]}}
    /\ wants' = {p \in wants : u \notin {p[1], p[2]}}
    /\ UNCHANGED <<contactGroups, fpc, peer, crossed>>

-----------------------------------------------------------------------------
(* contact_group_set: a name files the contact, a blank one takes it out. *)

ContactGroupSet(c, u) ==
    /\ idle(c, u)
    /\ u \in getFriends(Owner[c])
    /\ fpc' = [fpc EXCEPT ![c] = "file"]
    /\ peer' = [peer EXCEPT ![c] = u]
    /\ UNCHANGED <<friends, blocks, contactGroups, wants, crossed>>

setContactGroup(c, named) ==
    /\ fpc[c] = "file"
    /\ contactGroups' = IF named THEN contactGroups \cup {<<Owner[c], peer[c]>>}
                                 ELSE contactGroups \ {<<Owner[c], peer[c]>>}
    /\ done(c)
    /\ UNCHANGED <<friends, blocks, wants, crossed>>

-----------------------------------------------------------------------------
FHandler(c) ==
    \/ \E u \in Users : FriendRequest(c, u) \/ FriendAccept(c, u) \/ FriendReject(c, u)
                        \/ FriendRemove(c, u) \/ Block(c, u) \/ Unblock(c, u)
                        \/ ContactGroupSet(c, u)
    \/ RequestCount(c) \/ RequestInsert(c)
    \/ \E named \in BOOLEAN : setContactGroup(c, named)

FNext == (\E c \in Conns : FHandler(c)) \/ (\E u \in Users : deleteAccount(u))

FSpec == FInit /\ [][FNext]_fvars

-----------------------------------------------------------------------------
(* Properties. *)

friendPairs == {{p[1], p[2]} : p \in {q \in Pairs : friends[q] = "accepted"}}

\* Who is willing is what the users did; who are friends is what the rows say.
Abstract == INSTANCE Friendship WITH willing <- wants, friendship <- friendPairs

(***************************************************************************)
(* Two rows per pair, crossed requests and refused statements included,    *)
(* the friends table implements friendship: nobody becomes the friend of   *)
(* somebody who did not ask or agree, a request turned down ends no        *)
(* friendship, and removing a friend ends it whichever row carried it.     *)
(***************************************************************************)
FriendshipKept == Abstract!Spec

(***************************************************************************)
(* sendFriendRequest counts the rows of both directions before it inserts. *)
(* A pair has a row in each direction only if two requests between the two *)
(* were under way together, never because one was missed.                  *)
(***************************************************************************)
TwoRowsOnlyWhenCrossed ==
    \A a, b \in Users :
        a # b /\ friends[<<a, b>>] # "none" /\ friends[<<b, a>>] # "none"
        => {a, b} \in crossed

(***************************************************************************)
(* The rows of friends, blocks and contact_groups are of their types, and  *)
(* sendFriendRequest misses a row only when two requests cross.            *)
(***************************************************************************)
FriendsSafe ==
    /\ FTypeOK
    /\ TwoRowsOnlyWhenCrossed
=============================================================================
