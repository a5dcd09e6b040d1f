------------------------------- MODULE Spaces -------------------------------
(***************************************************************************)
(* A space with its channels: who is in it, a message in one channel of    *)
(* it, and the copies the web clients keep.  The module follows one space  *)
(* from server_create on and one message of one channel.  Every handler is *)
(* a chain of statements, and ends by sending its notice to the members as *)
(* broadcastChannelMsg reads them then.                                    *)
(*                                                                         *)
(* The client (Spaces.tsx) asks for the history of a channel when it has   *)
(* no list for it, replaces its list by the answer, adds a message that    *)
(* comes in, and merges the fields an update carries.  A list of reactions *)
(* that is empty is left out of the JSON, so it is not among them.         *)
(***************************************************************************)
EXTENDS Handlers

CONSTANTS
    Founder,      \* the user who creates the space
    Author,       \* the user who writes the message
    Channels,     \* channels that can be created besides the two of server_create
    MaxUpdates    \* a bound: how many times the message or the channels are changed

ASSUME SpacesAssumption ==
    Founder \in Users /\ Author \in Users /\ IsFiniteSet(Channels) /\ MaxUpdates \in Nat

VARIABLES
    role,        \* server_members.role, "none" without a row
    position,    \* channels.position; 0 for a channel that is not there
    stored,      \* the message is in channel_messages
    body,        \* ... its body: "none", "text" or "edited"
    deleted, pinned, reactions,   \* ... its flags, and channel_reactions
    wpc,         \* where the connection's goroutine is
    read,        \* what it has read before it writes
    notice,      \* what its notice will carry
    fan,         \* the members it has read to send to
    hasList,     \* the client has a list for the channel
    shows,       \* the message is on the list
    marks,       \* the reactions the client shows
    answer,      \* the history it will get: whether it has the message, its body and reactions
    whole,       \* the list is a history with everything since, of a member ever since
    late,        \* something came in, or its user left, between the query and the answer
    clash,       \* two changes were under way together
    updates

wvars == <<role, position, stored, body, deleted, pinned, reactions, wpc, read, notice, fan,
           hasList, shows, marks, answer, whole, late, clash, updates>>
space == <<role, position>>
message == <<stored, body, deleted, pinned, reactions>>
copies == <<hasList, shows, marks, whole>>

Quiet == [kind |-> "none"]
Unasked == [has |-> FALSE, body |-> "none", marks |-> {}]
Working == {"post", "toggle", "edit", "delete", "pin", "channel", "members", "send"}

WTypeOK ==
    /\ role \in [Users -> {"none", "member", "owner"}]
    /\ position \in [Channels -> 0..Cardinality(Channels) + 1]
    /\ stored \in BOOLEAN /\ deleted \in BOOLEAN /\ pinned \in BOOLEAN
    /\ body \in {"none", "text", "edited"}
    /\ reactions \subseteq Users
    /\ wpc \in [Conns -> {"read", "leave", "answer"} \cup Working]
    /\ \A c \in Conns : notice[c].kind \in {"none", "msg", "react", "edit", "delete", "pin", "channels"}
    /\ fan \in [Conns -> SUBSET Users]
    /\ hasList \in [Conns -> BOOLEAN] /\ shows \in [Conns -> BOOLEAN]
    /\ marks \in [Conns -> SUBSET Users]
    /\ answer \in [Conns -> [has : BOOLEAN, body : {"none", "text", "edited"}, marks : SUBSET Users]]
    /\ whole \in [Conns -> BOOLEAN] /\ late \in [Conns -> BOOLEAN]
    /\ clash \in BOOLEAN
    /\ updates \in 0..MaxUpdates

\* server_create: one transaction.
serverCreate(u) == [v \in Users |-> IF v = u THEN "owner" ELSE "none"]

WInit ==
    /\ role = serverCreate(Founder)
    /\ position = [k \in Channels |-> 0]
    /\ stored = FALSE /\ deleted = FALSE /\ pinned = FALSE
    /\ body = "none"
    /\ reactions = {}
    /\ wpc = [c \in Conns |-> "read"]
    /\ read = [c \in Conns |-> 0]
    /\ notice = [c \in Conns |-> Quiet]
    /\ fan = [c \in Conns |-> {}]
    /\ hasList = [c \in Conns |-> FALSE] /\ shows = [c \in Conns |-> FALSE]
    /\ marks = [c \in Conns |-> {}]
    /\ answer = [c \in Conns |-> Unasked]
    /\ whole = [c \in Conns |-> FALSE] /\ late = [c \in Conns |-> FALSE]
    /\ clash = FALSE
    /\ updates = 0

-----------------------------------------------------------------------------
userIsServerMember(u) == role[u] # "none"

mayManage(u) == role[u] = "owner"   \* or "admin", which no handler gives

goto(c, from, to) == wpc[c] = from /\ wpc' = [wpc EXCEPT ![c] = to]

\* The reactions channelHistory and channelReactionsBulk find.
found == IF stored THEN reactions ELSE {}

\* Check first; the statement that writes comes later.
begins(c, label, value) ==
    /\ goto(c, "read", label)
    /\ updates < MaxUpdates /\ updates' = updates + 1
    /\ read' = [read EXCEPT ![c] = value]
    /\ clash' = (clash \/ \E d \in Conns : wpc[d] \in Working)
    /\ UNCHANGED <<space, message, notice, fan, copies, answer, late>>

\* The statement is done; what to tell is known.
wrote(c, from, what) ==
    /\ goto(c, from, "members")
    /\ notice' = [notice EXCEPT ![c] = what]
    /\ read' = [read EXCEPT ![c] = 0]
    /\ UNCHANGED <<fan, copies, answer, late, clash, updates>>

-----------------------------------------------------------------------------
(* Membership. *)

\* INSERT OR IGNORE of server_join and autoJoinGlobalSpace.
joinRole(u) == IF role[u] = "none" THEN "member" ELSE role[u]

ServerJoin(c) ==
    /\ wpc[c] = "read"
    /\ role' = [role EXCEPT ![Owner[c]] = joinRole(Owner[c])]
    /\ UNCHANGED <<position, message, wpc, read, notice, fan, copies, answer, late, clash, updates>>

\* server_leave: the role is read, the row deleted in a second statement.
ServerLeave(c) ==
    /\ goto(c, "read", "leave")
    /\ role[Owner[c]] = "member"
    /\ UNCHANGED <<space, message, read, notice, fan, copies, answer, late, clash, updates>>

LeaveRow(c) ==
    /\ goto(c, "leave", "read")
    /\ role' = [role EXCEPT ![Owner[c]] = "none"]
    /\ whole' = [d \in Conns |-> whole[d] /\ Owner[d] # Owner[c]]
    /\ late' = [d \in Conns |-> late[d] \/ (Owner[d] = Owner[c] /\ wpc[d] = "answer")]
    /\ UNCHANGED <<position, message, read, notice, fan, hasList, shows, marks, answer, clash, updates>>

-----------------------------------------------------------------------------
(* channel_create: the highest position is read before the row is added.   *)

\* "random", the second of the channels a space begins with, has position 1.
taken == {position[k] : k \in Channels} \cup {1}

highest == CHOOSE n \in taken : \A m \in taken : m <= n

ChannelCreate(c) ==
    /\ mayManage(Owner[c])
    /\ begins(c, "channel", highest)

nextPosition(n) == n + 1

AddChannel(c, k) ==
    /\ wrote(c, "channel", [kind |-> "channels"])
    /\ position[k] = 0
    /\ position' = [position EXCEPT ![k] = nextPosition(read[c])]
    /\ UNCHANGED <<role, message>>

-----------------------------------------------------------------------------
(* The message. *)

ChannelMsg(c) ==
    /\ Owner[c] = Author /\ userIsServerMember(Author)
    /\ ~stored /\ \A d \in Conns : wpc[d] # "post"
    /\ begins(c, "post", 0)

StoreMessage(c) ==
    /\ wrote(c, "post", [kind |-> "msg"])
    /\ stored' = TRUE /\ body' = "text"
    /\ UNCHANGED <<space, deleted, pinned, reactions>>

\* channel_react looks whether the reaction is there ...
ChannelReact(c) ==
    /\ stored /\ userIsServerMember(Owner[c])
    /\ begins(c, "toggle", IF Owner[c] \in reactions THEN 1 ELSE 0)

\* Mutant: the map is fetched before the toggle.
ToggleReaction_Before(c) ==
    /\ reactions' = IF read[c] = 1 THEN reactions \ {Owner[c]} ELSE reactions \cup {Owner[c]}
    /\ wrote(c, "toggle", [kind |-> "react", fresh |-> reactions])
    /\ UNCHANGED <<space, stored, body, deleted, pinned>>

\* ... and adds or takes it by what it saw, then reads all of them again.
ToggleReaction(c) ==
    /\ reactions' = IF read[c] = 1 THEN reactions \ {Owner[c]} ELSE reactions \cup {Owner[c]}
    /\ wrote(c, "toggle", [kind |-> "react", fresh |-> reactions'])
    /\ UNCHANGED <<space, stored, body, deleted, pinned>>

\* channel_edit asks who sent it, not whether it was deleted.
ChannelEdit(c) ==
    /\ stored /\ Owner[c] = Author
    /\ begins(c, "edit", 0)

EditBody(c) ==
    /\ wrote(c, "edit", [kind |-> "edit"])
    /\ body' = "edited"
    /\ UNCHANGED <<space, stored, deleted, pinned, reactions>>

ChannelDelete(c) ==
    /\ stored /\ (Owner[c] = Author \/ mayManage(Owner[c]))
    /\ begins(c, "delete", 0)

DeleteBody(c) ==
    /\ wrote(c, "delete", [kind |-> "delete"])
    /\ deleted' = TRUE /\ body' = "none"
    /\ UNCHANGED <<space, stored, pinned, reactions>>

ChannelPin(c) ==
    /\ stored /\ mayManage(Owner[c])
    /\ begins(c, "pin", IF pinned THEN 0 ELSE 1)

SetPin(c) ==
    /\ pinned' = (read[c] = 1)
    /\ wrote(c, "pin", [kind |-> "pin"])
    /\ UNCHANGED <<space, stored, body, deleted, reactions>>

\* The write is refused: the handler says so or says nothing.
WriteRefused(c) ==
    /\ \E label \in Working \ {"members", "send"} : goto(c, label, "read")
    /\ read' = [read EXCEPT ![c] = 0]
    /\ UNCHANGED <<space, message, notice, fan, copies, answer, late, clash, updates>>

-----------------------------------------------------------------------------
(* broadcastChannelMsg: the members, then everybody who is connected.      *)

ReadFan(c) ==
    /\ goto(c, "members", "send")
    /\ fan' = [fan EXCEPT ![c] = {u \in Users : userIsServerMember(u)}]
    /\ UNCHANGED <<space, message, read, notice, copies, answer, late, clash, updates>>

\* Mutant: the sender is left out.
reached_NotSender(c) == {d \in Conns : Owner[d] \in fan[c] \ {Owner[c]}}

reached(c) == {d \in Conns : Owner[d] \in fan[c]}

\* A notice with reactions carries them unless there are none.
marked(c, d) ==
    IF notice[c].kind = "react" /\ shows[d] /\ notice[c].fresh # {} THEN notice[c].fresh ELSE marks[d]

broadcastChannelMsg(c) ==
    /\ goto(c, "send", "read")
    /\ LET to == reached(c)
           isMsg == notice[c].kind = "msg"
       IN /\ hasList' = [d \in Conns |-> hasList[d] \/ (isMsg /\ d \in to)]
          /\ shows' = [d \in Conns |-> shows[d] \/ (isMsg /\ d \in to)]
          /\ marks' = [d \in Conns |-> IF d \in to THEN marked(c, d) ELSE marks[d]]
          /\ late' = [d \in Conns |-> late[d] \/ (d \in to /\ wpc[d] = "answer")]
    /\ notice' = [notice EXCEPT ![c] = Quiet]
    /\ fan' = [fan EXCEPT ![c] = {}]
    /\ UNCHANGED <<space, message, read, answer, whole, clash, updates>>

-----------------------------------------------------------------------------
(* channel_history. *)

\* A deleted message is served without a body.
historyBody == IF deleted THEN "none" ELSE body

channelHistory(c) ==
    /\ goto(c, "read", "answer")
    /\ ~hasList[c] /\ userIsServerMember(Owner[c])
    /\ answer' = [answer EXCEPT ![c] = [has |-> stored, body |-> historyBody, marks |-> found]]
    /\ UNCHANGED <<space, message, read, notice, fan, copies, late, clash, updates>>

ShowHistory(c) ==
    /\ goto(c, "answer", "read")
    /\ hasList' = [hasList EXCEPT ![c] = TRUE]
    /\ shows' = [shows EXCEPT ![c] = answer[c].has]
    /\ marks' = [marks EXCEPT ![c] = answer[c].marks]
    /\ whole' = [whole EXCEPT ![c] = ~late[c] /\ userIsServerMember(Owner[c])]
    /\ answer' = [answer EXCEPT ![c] = Unasked]
    /\ late' = [late EXCEPT ![c] = FALSE]
    /\ UNCHANGED <<space, message, read, notice, fan, clash, updates>>

\* The page is loaded again.
Reload(c) ==
    /\ wpc[c] = "read"
    /\ hasList' = [hasList EXCEPT ![c] = FALSE] /\ shows' = [shows EXCEPT ![c] = FALSE]
    /\ marks' = [marks EXCEPT ![c] = {}]
    /\ whole' = [whole EXCEPT ![c] = FALSE]
    /\ UNCHANGED <<space, message, wpc, read, notice, fan, answer, late, clash, updates>>

WHandler(c) ==
    \/ ServerJoin(c) \/ ServerLeave(c) \/ LeaveRow(c)
    \/ ChannelCreate(c) \/ (\E k \in Channels : AddChannel(c, k))
    \/ ChannelMsg(c) \/ StoreMessage(c) \/ ChannelReact(c) \/ ToggleReaction(c)
    \/ ChannelEdit(c) \/ EditBody(c) \/ ChannelDelete(c) \/ DeleteBody(c)
    \/ ChannelPin(c) \/ SetPin(c) \/ WriteRefused(c)
    \/ ReadFan(c) \/ broadcastChannelMsg(c)
    \/ channelHistory(c) \/ ShowHistory(c) \/ Reload(c)

WNext == \E c \in Conns : WHandler(c)

WSpec == WInit /\ [][WNext]_wvars

-----------------------------------------------------------------------------
(* Properties. *)

(***************************************************************************)
(* The message is stored before the members are read, and a member is a    *)
(* member before it asks for the history: who has the history and has been *)
(* a member since sees the message, from the one or from the other.  It    *)
(* can only be missing while it is on its way.  (A list that came of live  *)
(* messages alone, one that was overtaken by a live message, and one kept  *)
(* from an earlier membership are not whole, and are never made whole.)    *)
(***************************************************************************)
MembersMissNothing ==
    \A c \in Conns :
        whole[c] /\ stored => shows[c] \/ \E d \in Conns : notice[d].kind = "msg"

(***************************************************************************)
(* The founder is the owner for good, and nobody else: joining again, on   *)
(* any device, and leaving while somebody joins leave the role alone.      *)
(***************************************************************************)
OwnerKept == \A u \in Users : role[u] = "owner" <=> u = Founder

(***************************************************************************)
(* Two channels share a position, or a new one takes that of a channel the *)
(* space began with, only if changes overlapped.                           *)
(***************************************************************************)
PositionsDistinct ==
    ~clash => \A k, l \in Channels :
                  position[k] # 0 => position[k] > 1 /\ (k # l => position[k] # position[l])

(***************************************************************************)
(* channel_react toggles by what it saw and sends what it reads afterwards *)
(* to clients that merge it into the message they have.  With no change    *)
(* under way and none that overlapped, a whole list shows the reactions    *)
(* that are in the table; but not when the last one has been taken back:   *)
(* the empty map is left out of the message, and the clients keep the old. *)
(***************************************************************************)
ReactionsShown ==
    (\A c \in Conns : wpc[c] \notin Working) /\ ~clash /\ reactions # {}
    => \A c \in Conns : whole[c] /\ shows[c] => marks[c] = reactions

(***************************************************************************)
(* A space keeps its owner and the order of its channels, and those who    *)
(* have the history of a channel see its message and the reactions to it.  *)
(***************************************************************************)
SpacesSafe ==
    /\ WTypeOK
    /\ MembersMissNothing
    /\ OwnerKept
    /\ PositionsDistinct
    /\ ReactionsShown
=============================================================================
