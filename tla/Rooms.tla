------------------------------- MODULE Rooms -------------------------------
(***************************************************************************)
(* Voice rooms and live streams.  VoiceRooms and Streams hold usernames,   *)
(* under VoiceRoomsMu; connections come and go under another lock, and the *)
(* last one of a user to close takes the user out of both maps only after  *)
(* that lock is released.  One room, and every user may host a stream.     *)
(***************************************************************************)
EXTENDS Handlers

VARIABLES
    open,      \* registered connections
    room,      \* VoiceRooms of the channel
    live,      \* the hosts in Streams
    viewers,   \* Streams[h].Viewers; {} for a host that is not live
    rpc,       \* where the connection's goroutine is
    host,      \* the stream its message is about
    peersRead, \* the list voiceRoomBroadcastPeers has read
    panel,     \* the peers a client shows
    sits,      \* users that joined the room, not while being evicted, and neither left nor went offline
    watches,   \* <<u, h>>: the same of the viewers of a stream that goes on
    racing     \* the last list of peers was not alone

rvars == <<open, room, live, viewers, rpc, host, peersRead, panel, sits, watches, racing>>
maps == <<room, live, viewers>>
wishes == <<sits, watches>>

Telling == {"list", "peers"}
NoOne == NoUser

RTypeOK ==
    /\ open \subseteq Conns
    /\ room \subseteq Users /\ live \subseteq Users
    /\ viewers \in [Users -> SUBSET Users] /\ \A h \in Users \ live : viewers[h] = {}
    /\ rpc \in [Conns -> {"gone", "read", "view", "evict", "evictStream"} \cup Telling]
    /\ host \in [Conns -> Users \cup {NoOne}]
    /\ peersRead \in [Conns -> SUBSET Users]
    /\ panel \in [Conns -> SUBSET Users]
    /\ sits \subseteq Users
    /\ watches \subseteq Users \X Users
    /\ racing \in BOOLEAN

RInit ==
    /\ open = {}
    /\ room = {} /\ live = {}
    /\ viewers = [h \in Users |-> {}]
    /\ rpc = [c \in Conns |-> "gone"]
    /\ host = [c \in Conns |-> NoOne]
    /\ peersRead = [c \in Conns |-> {}]
    /\ panel = [c \in Conns |-> {}]
    /\ sits = {} /\ watches = {}
    /\ racing = FALSE

-----------------------------------------------------------------------------
leads(c, from, to) == rpc[c] = from /\ rpc' = [rpc EXCEPT ![c] = to]

online(u) == \E c \in open : Owner[c] = u

\* A goroutine whose connection is closed is on its way to these steps.
evicting(u) == \E d \in connsOf(u) \ open : rpc[d] # "gone"
evictingRoom(u) == \E d \in connsOf(u) : rpc[d] = "evict"

\* A list of peers goes out after every change of the room.
startsList == racing' = \E d \in Conns : rpc[d] \in Telling

-----------------------------------------------------------------------------
(* Connections. *)

Connect(c) ==
    /\ leads(c, "gone", "read")
    /\ open' = open \cup {c}
    /\ panel' = [panel EXCEPT ![c] = {}]
    /\ UNCHANGED <<maps, host, peersRead, wishes, racing>>

\* Mutant: every connection that closes takes the user out.
lastOne_Any(c) == TRUE

\* remaining == 0, under the lock of the registry.
lastOne(c) == open \cap connsOf(Owner[c]) = {c}

Disconnect(c) ==
    /\ leads(c, "read", IF lastOne(c) THEN "evict" ELSE "gone")
    /\ open' = open \ {c}
    /\ sits' = {u \in sits : online(u)'}
    /\ watches' = {w \in watches : online(w[1])' /\ online(w[2])'}
    /\ UNCHANGED <<maps, host, peersRead, panel, racing>>

\* voiceRoomEvictUser: broadcasts only if the user was in the room.
voiceRoomEvictUser(c) ==
    /\ leads(c, "evict", IF Owner[c] \in room THEN "list" ELSE "evictStream")
    /\ room' = room \ {Owner[c]}
    /\ IF Owner[c] \in room THEN startsList ELSE UNCHANGED racing
    /\ UNCHANGED <<open, live, viewers, host, peersRead, panel, wishes>>

\* Mutant: the user's own stream ends, those it watches keep it.
unwatched_Kept(u) == [h \in Users |-> IF h = u THEN {} ELSE viewers[h]]

unwatched(u) == [h \in Users |-> IF h = u THEN {} ELSE viewers[h] \ {u}]

streamEvictUser(c) ==
    /\ leads(c, "evictStream", "gone")
    /\ live' = live \ {Owner[c]}
    /\ viewers' = unwatched(Owner[c])
    /\ UNCHANGED <<open, room, host, peersRead, panel, wishes, racing>>

-----------------------------------------------------------------------------
(* voice_join and voice_leave.  The membership of the space was checked;   *)
(* rooms of calls are open to whoever knows their name.                    *)

voiceRoomJoin(u) == room' = room \cup {u}

voiceRoomLeave(u) == room' = room \ {u}

VoiceJoin(c) ==
    /\ leads(c, "read", "list")
    /\ voiceRoomJoin(Owner[c])
    /\ sits' = IF evictingRoom(Owner[c]) THEN sits ELSE sits \cup {Owner[c]}
    /\ startsList
    /\ UNCHANGED <<open, live, viewers, host, peersRead, panel, watches>>

VoiceLeave(c) ==
    /\ leads(c, "read", "list")
    /\ voiceRoomLeave(Owner[c])
    /\ sits' = sits \ {Owner[c]}
    /\ panel' = [panel EXCEPT ![c] = {}]
    /\ startsList
    /\ UNCHANGED <<open, live, viewers, host, peersRead, watches>>

\* voiceRoomPeers, under RLock; ...
voiceRoomPeers(c) ==
    /\ leads(c, "list", "peers")
    /\ peersRead' = [peersRead EXCEPT ![c] = room]
    /\ UNCHANGED <<open, maps, host, panel, wishes, racing>>

\* ... it is sent to everybody on it.
told(c) == {d \in open : Owner[d] \in peersRead[c]}

voiceRoomBroadcastPeers(c) ==
    /\ leads(c, "peers", IF c \in open THEN "read" ELSE "evictStream")
    /\ panel' = [d \in Conns |-> IF d \in told(c) THEN peersRead[c] ELSE panel[d]]
    /\ peersRead' = [peersRead EXCEPT ![c] = {}]
    /\ UNCHANGED <<open, maps, host, wishes, racing>>

-----------------------------------------------------------------------------
(* Streams. *)

\* A stream started again has no viewers.
streamStart(u) == live' = live \cup {u} /\ viewers' = [viewers EXCEPT ![u] = {}]

streamStop(u) == live' = live \ {u} /\ viewers' = [viewers EXCEPT ![u] = {}]

streamHas(h) == h \in live

StreamStart(c) ==
    /\ rpc[c] = "read"
    /\ streamStart(Owner[c])
    /\ watches' = {w \in watches : w[2] # Owner[c]}
    /\ UNCHANGED <<open, room, rpc, host, peersRead, panel, sits, racing>>

StreamStop(c) ==
    /\ rpc[c] = "read"
    /\ streamStop(Owner[c])
    /\ watches' = {w \in watches : w[2] # Owner[c]}
    /\ UNCHANGED <<open, room, rpc, host, peersRead, panel, sits, racing>>

\* stream_join asks whether there is such a stream, ...
StreamJoin(c, h) ==
    /\ leads(c, "read", "view")
    /\ streamHas(h)
    /\ host' = [host EXCEPT ![c] = h]
    /\ UNCHANGED <<open, maps, peersRead, panel, wishes, racing>>

\* Nothing, if the stream has ended.
streamAddViewer(h, u) == viewers' = [viewers EXCEPT ![h] = @ \cup {v \in {u} : streamHas(h)}]

\* ... then adds the viewer.
AddViewer(c) ==
    /\ leads(c, "view", "read")
    /\ streamAddViewer(host[c], Owner[c])
    /\ watches' = watches \cup {w \in {<<Owner[c], host[c]>>} :
                                   streamHas(w[2]) /\ ~evicting(w[1]) /\ ~evicting(w[2])}
    /\ host' = [host EXCEPT ![c] = NoOne]
    /\ UNCHANGED <<open, room, live, peersRead, panel, sits, racing>>

streamRemoveViewer(h, u) == viewers' = [viewers EXCEPT ![h] = @ \ {u}]

StreamLeave(c, h) ==
    /\ rpc[c] = "read"
    /\ streamRemoveViewer(h, Owner[c])
    /\ watches' = watches \ {<<Owner[c], h>>}
    /\ UNCHANGED <<open, room, live, rpc, host, peersRead, panel, sits, racing>>

Connections(c) == Connect(c) \/ Disconnect(c) \/ voiceRoomEvictUser(c) \/ streamEvictUser(c)

RoomStep(c) ==
    VoiceJoin(c) \/ VoiceLeave(c) \/ voiceRoomPeers(c) \/ voiceRoomBroadcastPeers(c)

StreamStep(c) ==
    \/ StreamStart(c) \/ StreamStop(c) \/ AddViewer(c)
    \/ \E h \in Users : StreamJoin(c, h) \/ StreamLeave(c, h)

RNext == \E c \in Conns : Connections(c) \/ RoomStep(c) \/ StreamStep(c)

RSpec == RInit /\ [][RNext]_rvars

-----------------------------------------------------------------------------
(* Properties. *)

(***************************************************************************)
(* Nobody is left behind: a user without a connection, whose eviction is   *)
(* through, sits in no room, hosts no stream and watches none, however the *)
(* closing of one connection met the joining on another.                   *)
(***************************************************************************)
NoGhosts ==
    \A u \in Users : ~online(u) /\ ~evicting(u) =>
        u \notin room /\ u \notin live /\ \A h \in Users : u \notin viewers[h]

(***************************************************************************)
(* The maps hold users, not connections: who joined a room, or a stream    *)
(* that goes on, is there until they leave or their last connection        *)
(* closes, whichever of their devices closes before.  (A user who joins    *)
(* again while an eviction of theirs is still under way is not in sits or  *)
(* watches: that eviction may take them out.)                              *)
(***************************************************************************)
JoinedStays ==
    /\ sits \subseteq room
    /\ \A w \in watches : w[1] \in viewers[w[2]]

(***************************************************************************)
(* Every change of the room is followed by a list to everybody in it: when *)
(* the last list is out, and was alone, the clients in the room show who   *)
(* is in the room, whatever became of the lists before it.                 *)
(***************************************************************************)
PanelsAgree ==
    (\A c \in Conns : rpc[c] \notin Telling \cup {"evict"}) /\ ~racing
    => \A c \in open : panel[c] # {} /\ Owner[c] \in room => panel[c] = room

(***************************************************************************)
(* Voice rooms and streams hold those who joined and are still connected,  *)
(* nobody else, and the clients in a room come to show who is in it.       *)
(***************************************************************************)
RoomsSafe ==
    /\ RTypeOK
    /\ NoGhosts
    /\ JoinedStays
    /\ PanelsAgree
=============================================================================
