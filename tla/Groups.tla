------------------------------- MODULE Groups -------------------------------
(***************************************************************************)
(* A group conversation: who is in it, what it is called, who is told, and *)
(* who gets a message.  The module follows one group from convo_create on. *)
(* Each handler is a chain of statements: look at the tables, change them, *)
(* read the members again, send a notice to everybody on the list it read. *)
(* Handlers of other connections run between these.                        *)
(*                                                                         *)
(* view[c] is the client's copy of the group: the web client takes over    *)
(* what convo_created and convo_updated carry, takes the sender of         *)
(* convo_left out, and forgets the group on convo_removed and when its     *)
(* user leaves (App.tsx).                                                  *)
(***************************************************************************)
EXTENDS Handlers

CONSTANTS
    Names,      \* group names
    FirstName,  \* the name given by convo_create
    MayPart,    \* a bound: the friendships that may end and be made again
    MaxChanges  \* a bound: how many changes of the group are begun

ASSUME GroupsAssumption ==
    /\ FirstName \in Names
    /\ \A p \in MayPart : p \subseteq Users
    /\ MaxChanges \in Nat

VARIABLES
    creator,     \* conversations.created_by; NoUser: no row
    convoName,   \* conversations.name
    memberRows,  \* conversation_members
    friendship,  \* who are friends; each pair is one of Friendship's
    gpc,         \* where the connection's goroutine is
    arg,         \* the users its message is about, after its first checks
    list,        \* the member list it read last
    carried,     \* the name its notice will carry
    view,        \* the client's copy: NoView, or name and members
    sometime,    \* for convo_msg: who was a member at some time since it began
    throughout,  \* for convo_msg: who was a member ever since it began
    overlap,     \* two changes of the group have been under way together
    failed,      \* a DELETE was refused, which the handlers do not notice
    ghosts,      \* connections whose user left on another one
    changes      \* how many changes were begun

gvars == <<creator, convoName, memberRows, friendship, gpc, arg, list, carried, view,
           sometime, throughout, overlap, failed, ghosts, changes>>
rows == <<creator, convoName, memberRows>>
local == <<gpc, arg, list, carried>>
history == <<sometime, throughout, overlap, failed, ghosts, changes>>

NoView == [name |-> "", members |-> {}]
Views == [name : Names, members : SUBSET Users] \cup {NoView}

Changing == {"create", "add", "remove", "removed", "leave", "rename",
             "readCreated", "readUpdated", "readRenamed", "readLeft",
             "tellCreated", "tellUpdated", "tellLeft"}

GTypeOK ==
    /\ creator \in Users \cup {NoUser}
    /\ convoName \in Names
    /\ memberRows \subseteq Users /\ (creator = NoUser => memberRows = {})
    /\ friendship \subseteq SUBSET Users
    /\ gpc \in [Conns -> {"read", "store", "fanout"} \cup Changing]
    /\ arg \in [Conns -> SUBSET Users]
    /\ list \in [Conns -> SUBSET Users]
    /\ carried \in [Conns -> Names]
    /\ view \in [Conns -> Views]
    /\ sometime \in [Conns -> SUBSET Users]
    /\ throughout \in [Conns -> SUBSET Users]
    /\ overlap \in BOOLEAN
    /\ failed \in BOOLEAN
    /\ ghosts \subseteq Conns
    /\ changes \in 0..MaxChanges

GInit ==
    /\ creator = NoUser
    /\ convoName = FirstName
    /\ memberRows = {}
    /\ friendship \in SUBSET MayPart
    /\ gpc = [c \in Conns |-> "read"]
    /\ arg = [c \in Conns |-> {}]
    /\ list = [c \in Conns |-> {}]
    /\ carried = [c \in Conns |-> FirstName]
    /\ view = [c \in Conns |-> NoView]
    /\ sometime = [c \in Conns |-> {}]
    /\ throughout = [c \in Conns |-> {}]
    /\ overlap = FALSE
    /\ failed = FALSE
    /\ ghosts = {}
    /\ changes = 0

-----------------------------------------------------------------------------
(* Queries and statements. *)

friendsOf(u) == {v \in Users : {u, v} \in friendship}

conversationMembers == memberRows

mayAdminister(u) == creator = u

\* Every change of the rows is seen by the messages under way.
setMembers(S) ==
    /\ memberRows' = S
    /\ sometime' = [c \in Conns |-> IF gpc[c] \in {"store", "fanout"}
                                    THEN sometime[c] \cup S ELSE sometime[c]]
    /\ throughout' = [c \in Conns |-> throughout[c] \cap S]

createConversation(u, eligible) ==
    /\ creator' = u
    /\ setMembers({u} \cup eligible)

addConversationMembers(toAdd) == setMembers(memberRows \cup toAdd)

\* Mutant: the row stays.
leaveConversation_Stays(u) == setMembers(memberRows)

leaveConversation(u) == setMembers(memberRows \ {u})

-----------------------------------------------------------------------------
(* The frame of a handler. *)

ready(c) == gpc[c] = "read"

\* A change begins: it overlaps with whatever change is under way.
begin(c, label, S) ==
    /\ ready(c) /\ changes < MaxChanges
    /\ changes' = changes + 1
    /\ gpc' = [gpc EXCEPT ![c] = label]
    /\ arg' = [arg EXCEPT ![c] = S]
    /\ overlap' = (overlap \/ \E d \in Conns : gpc[d] \in Changing)
    /\ UNCHANGED <<rows, friendship, list, carried, sometime, throughout, failed>>

step(c, from, to) == gpc[c] = from /\ gpc' = [gpc EXCEPT ![c] = to]

finish(c, from) ==
    /\ step(c, from, "read")
    /\ arg' = [arg EXCEPT ![c] = {}]
    /\ list' = [list EXCEPT ![c] = {}]
    /\ carried' = [carried EXCEPT ![c] = FirstName]

-----------------------------------------------------------------------------
(* convo_create, for the group that is followed: its identifier is fresh,  *)
(* so it is created once.                                                  *)

eligible(c, S) == S \cap ({Owner[c]} \cup friendsOf(Owner[c]))

ConvoCreate(c, S) ==
    /\ creator = NoUser /\ \A d \in Conns : gpc[d] # "create"
    /\ eligible(c, S) # {}
    /\ begin(c, "create", eligible(c, S))
    /\ UNCHANGED <<view, ghosts>>

CreateRows(c) ==
    /\ step(c, "create", "readCreated")
    /\ createConversation(Owner[c], arg[c])
    /\ UNCHANGED <<convoName, friendship, arg, list, carried, view, overlap, failed, ghosts, changes>>

-----------------------------------------------------------------------------
(* convo_add_member: any member may add friends of theirs.                 *)

toAdd(c, S) == (S \ conversationMembers) \cap friendsOf(Owner[c])

ConvoAddMember(c, S) ==
    /\ Owner[c] \in conversationMembers
    /\ toAdd(c, S) # {}
    /\ begin(c, "add", toAdd(c, S))
    /\ UNCHANGED <<view, ghosts>>

AddRows(c) ==
    /\ step(c, "add", "readUpdated")
    /\ addConversationMembers(arg[c])
    /\ UNCHANGED <<creator, convoName, friendship, arg, list, carried, view, overlap, failed, ghosts, changes>>

\* The transaction of convo_create or convo_add_member is rolled back, or the
\* UPDATE of convo_rename refused, and the client is told so.
ChangeRefused(c) ==
    /\ finish(c, "create") \/ finish(c, "add") \/ finish(c, "rename")
    /\ UNCHANGED <<rows, friendship, view, history>>

-----------------------------------------------------------------------------
(* convo_remove_member: the creator alone.                                 *)

ConvoRemoveMember(c, u) ==
    /\ u # Owner[c]
    /\ mayAdminister(Owner[c])
    /\ u \in conversationMembers
    /\ begin(c, "remove", {u})
    /\ UNCHANGED <<view, ghosts>>

\* The DELETE of convo_remove_member and of convo_leave.  Its error is thrown
\* away: the handler goes on as if the row were gone.
DeleteRow(c) ==
    /\ \/ step(c, "remove", "removed")
       \/ step(c, "leave", "readLeft")
    /\ \/ \E u \in arg[c] : leaveConversation(u) /\ UNCHANGED failed
       \/ failed' = TRUE /\ UNCHANGED <<memberRows, sometime, throughout>>
    /\ UNCHANGED <<creator, convoName, friendship, arg, list, carried, view, overlap, ghosts, changes>>

\* The removed user's own notice, convo_removed.
TellRemoved(c) ==
    /\ step(c, "removed", "readUpdated")
    /\ view' = [d \in Conns |-> IF Owner[d] \in arg[c] THEN NoView ELSE view[d]]
    /\ UNCHANGED <<rows, friendship, arg, list, carried, history>>

-----------------------------------------------------------------------------
(* convo_leave: the client has dropped the group when it sends this, the   *)
(* user's other connections hear nothing of it.                            *)

ConvoLeave(c) ==
    /\ Owner[c] \in conversationMembers
    /\ begin(c, "leave", {Owner[c]})
    /\ view' = [view EXCEPT ![c] = NoView]
    /\ ghosts' = ghosts \cup (connsOf(Owner[c]) \ {c})

-----------------------------------------------------------------------------
(* convo_rename: the creator, who need not be a member any more.           *)

ConvoRename(c) ==
    /\ mayAdminister(Owner[c])
    /\ begin(c, "rename", {})
    /\ UNCHANGED <<view, ghosts>>

renameConversation(c, name) ==
    /\ step(c, "rename", "readRenamed")
    /\ convoName' = name
    /\ carried' = [carried EXCEPT ![c] = name]
    /\ UNCHANGED <<creator, memberRows, friendship, arg, list, view, history>>

-----------------------------------------------------------------------------
(* The tail of every change: read the members, and the name unless the     *)
(* handler set it itself; send to those on the list.                       *)

ReadMembers(c) ==
    /\ \/ step(c, "readCreated", "tellCreated") /\ UNCHANGED carried
       \/ step(c, "readUpdated", "tellUpdated") /\ carried' = [carried EXCEPT ![c] = convoName]
       \/ step(c, "readRenamed", "tellUpdated") /\ UNCHANGED carried
       \/ step(c, "readLeft", "tellLeft") /\ UNCHANGED carried
    /\ list' = [list EXCEPT ![c] = conversationMembers]
    /\ UNCHANGED <<rows, friendship, arg, view, history>>

\* The copy a notice of c leaves behind in a client that had v.
noticed(c, v) ==
    CASE gpc[c] = "tellLeft" -> [v EXCEPT !.members = @ \ arg[c]]
      [] gpc[c] = "tellCreated" /\ v # NoView -> v
      [] OTHER -> [name |-> carried[c], members |-> list[c]]

Tell(c) ==
    /\ \/ finish(c, "tellCreated") \/ finish(c, "tellUpdated") \/ finish(c, "tellLeft")
    /\ view' = [d \in Conns |-> IF Owner[d] \in list[c] THEN noticed(c, view[d]) ELSE view[d]]
    /\ ghosts' = {d \in ghosts : Owner[d] \notin list[c]}
    /\ UNCHANGED <<rows, friendship, sometime, throughout, overlap, failed, changes>>

-----------------------------------------------------------------------------
(* convo_msg: the members are read once, before the message is stored, and *)
(* the copies go to the list as it was then.                               *)

ConvoMsg(c) ==
    /\ ready(c)
    /\ Owner[c] \in conversationMembers
    /\ gpc' = [gpc EXCEPT ![c] = "store"]
    /\ list' = [list EXCEPT ![c] = conversationMembers]
    /\ sometime' = [sometime EXCEPT ![c] = memberRows]
    /\ throughout' = [throughout EXCEPT ![c] = memberRows]
    /\ UNCHANGED <<rows, friendship, arg, carried, view, overlap, failed, ghosts, changes>>

\* The INSERT INTO convo_messages, whose error is not looked at.
StoreMsg(c) ==
    /\ step(c, "store", "fanout")
    /\ UNCHANGED <<rows, friendship, arg, list, carried, view, history>>

\* Mutant: the copies go to the members the sending client shows.
recipients_OfView(c) == view[c].members \ {Owner[c]}

recipients(c) == list[c] \ {Owner[c]}

Fanout(c) ==
    /\ finish(c, "fanout")
    /\ sometime' = [sometime EXCEPT ![c] = {}]
    /\ throughout' = [throughout EXCEPT ![c] = {}]
    /\ UNCHANGED <<rows, friendship, view, overlap, failed, ghosts, changes>>

-----------------------------------------------------------------------------
leaving(u) == \E d \in connsOf(u) : gpc[d] \in {"leave", "readLeft", "tellLeft"}

\* A client that starts anew gets the groups of its user as convo_info, the
\* one the user is about to leave too.
userConversations(c) ==
    /\ view' = [view EXCEPT ![c] = IF Owner[c] \in memberRows /\ creator # NoUser
                                   THEN [name |-> convoName, members |-> memberRows]
                                   ELSE NoView]
    /\ ghosts' = IF leaving(Owner[c]) THEN ghosts \cup {c} ELSE ghosts \ {c}
    /\ UNCHANGED <<rows, friendship, local, sometime, throughout, overlap, failed, changes>>

\* What Friendship does meanwhile.
Befriend(p) ==
    /\ p \in MayPart
    /\ friendship' = friendship \cup {p}
    /\ UNCHANGED <<rows, local, view, history>>

PartFriends(p) ==
    /\ friendship' = friendship \ {p}
    /\ UNCHANGED <<rows, local, view, history>>

GHandler(c) ==
    \/ \E S \in SUBSET Users : ConvoCreate(c, S) \/ ConvoAddMember(c, S)
    \/ \E u \in Users : ConvoRemoveMember(c, u)
    \/ ConvoLeave(c) \/ ConvoRename(c) \/ ConvoMsg(c)
    \/ CreateRows(c) \/ AddRows(c) \/ ChangeRefused(c) \/ DeleteRow(c) \/ TellRemoved(c)
    \/ \E name \in Names : renameConversation(c, name)
    \/ ReadMembers(c) \/ Tell(c) \/ StoreMsg(c) \/ Fanout(c)
    \/ userConversations(c)

GNext ==
    \/ \E c \in Conns : GHandler(c)
    \/ \E p \in MayPart : Befriend(p) \/ PartFriends(p)

GSpec == GInit /\ [][GNext]_gvars

-----------------------------------------------------------------------------
(* Properties. *)

(***************************************************************************)
(* convo_msg works with a list that is old when the copies go out.  All    *)
(* the same a copy goes only to people who were members at some time since *)
(* the message came in, so never to one removed before it was sent, and    *)
(* to everybody who was a member all the time.                             *)
(***************************************************************************)
CopiesGoToMembers ==
    \A c \in Conns : gpc[c] = "fanout" =>
        /\ recipients(c) \subseteq sometime[c]
        /\ throughout[c] \subseteq recipients(c) \cup {Owner[c]}

knows(c) ==
    IF Owner[c] \in memberRows
    THEN view[c] = [name |-> convoName, members |-> memberRows]
    ELSE view[c] = NoView \/ c \in ghosts

(***************************************************************************)
(* When no change is under way, every connected client shows the group as  *)
(* the tables have it: the members, the name, and whether the group is     *)
(* there at all.  A wrong copy needs two changes that overlapped, or a     *)
(* DELETE that was refused, or a user who left on another device.          *)
(***************************************************************************)
CopiesAgree ==
    (\A c \in Conns : gpc[c] \notin Changing) /\ ~overlap /\ ~failed
    => \A c \in Conns : knows(c)

(***************************************************************************)
(* Groups are served as their tables say: a message of convo_msg goes to   *)
(* the members, and once the notices of a change are out the clients show  *)
(* the group as it is.                                                     *)
(***************************************************************************)
GroupsSafe ==
    /\ GTypeOK
    /\ CopiesGoToMembers
    /\ CopiesAgree
=============================================================================
