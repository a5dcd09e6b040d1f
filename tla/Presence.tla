------------------------------ MODULE Presence ------------------------------
(***************************************************************************)
(* The life of a WebSocket connection and what a user's friends are told   *)
(* about it: the per-address connection count, signing in, the registry    *)
(* s.Clients, the status kept in the users table and mirrored onto every   *)
(* connection, the presence broadcasts, the read-error path, account       *)
(* erasure and the administrator's ban and delete.                         *)
(*                                                                         *)
(* One goroutine serves a connection; pc says where it is.  A critical     *)
(* section of s.Mu, a database statement and a broadcast are one step      *)
(* each, and the goroutines interleave between them.  told[u] is what a    *)
(* friend of u, connected all the time, was told about u last.             *)
(*                                                                         *)
(* Which credentials are good is not this module's question: signing in to *)
(* any account that exists may succeed.                                    *)
(***************************************************************************)
EXTENDS Naturals, Sequences, FiniteSets, Registry

CONSTANTS
    Users,            \* account names
    Conns,            \* connections
    Addrs,            \* client addresses
    ConnAddr,         \* ConnAddr[c]: the address connection c comes from
    MaxConnsPerAddr,  \* 10 in handleConnections
    NoUser,           \* the empty username
    Statuses,         \* settableStatuses, or some of them
    Reauth,           \* whether a signed-in client may send session_auth again
    FriendReconnects  \* whether the friend signs in anew and is sent friend_status

ASSUME PresenceAssumption ==
    /\ IsFiniteSet(Conns)
    /\ ConnAddr \in [Conns -> Addrs]
    /\ MaxConnsPerAddr \in Nat \ {0}
    /\ NoUser \notin Users
    /\ {"Online"} \subseteq Statuses /\ "none" \notin Statuses
    /\ Reauth \in BOOLEAN
    /\ FriendReconnects \in BOOLEAN

\* The presence message carries its status unchecked; "" is an unset one.
AnyStatus == Statuses \cup {""}

publicStatus(s) ==
    CASE s = "Invisible" -> "Offline"
      [] s = ""          -> "Online"
      [] OTHER           -> s

VARIABLES
    pc,           \* where the connection's goroutine is
    user,         \* local username of the goroutine
    st,           \* local status of announcePresence, status_update, presence
    sock,         \* "open", "doomed" (about to be closed by the server), "shut"
    status,       \* Client.Status
    clients,      \* s.Clients: username -> connections, in order
    wsConnCount,  \* s.wsConnCount
    accounts,     \* users table: the accounts that exist
    dbStatus,     \* users table: the status column
    dropping,     \* accounts an administrator's request has still to drop
    snap,         \* statuses read for the friend's sign-in, not yet sent
    told          \* the last status a friend was sent

conn == <<pc, user, st, sock, status>>
db == <<accounts, dbStatus>>
friend == <<snap, told>>
vars == <<conn, clients, wsConnCount, db, dropping, friend>>

Shown == {publicStatus(s) : s \in AnyStatus} \cup {"Offline"}

TypeOK ==
    /\ pc \in [Conns -> {"closed", "read", "register", "load", "announce",
                         "mirror", "tell", "erased", "unregister", "gone",
                         "return"}]
    /\ user \in [Conns -> Users \cup {NoUser}]
    /\ \A c \in Conns : pc[c] \notin {"closed", "read", "return"} => user[c] \in Users
    /\ st \in [Conns -> AnyStatus]
    /\ sock \in [Conns -> {"open", "doomed", "shut"}]
    /\ status \in [Conns -> AnyStatus]
    /\ clients \in [Users -> Seq(Conns)]
    /\ wsConnCount \in [Addrs -> 0..MaxConnsPerAddr]
    /\ accounts \subseteq Users
    /\ dbStatus \in [Users -> Statuses]
    /\ dropping \subseteq Users
    /\ snap \in [Users -> Shown \cup {"none"}]
    /\ told \in [Users -> Shown]

Init ==
    /\ pc = [c \in Conns |-> "closed"]
    /\ user = [c \in Conns |-> NoUser]
    /\ st = [c \in Conns |-> ""]
    /\ sock = [c \in Conns |-> "open"]
    /\ status = [c \in Conns |-> ""]
    /\ clients = [u \in Users |-> <<>>]
    /\ wsConnCount = [a \in Addrs |-> 0]
    /\ accounts = Users
    /\ dbStatus \in [Users -> Statuses]
    /\ dropping = {}
    /\ snap = [u \in Users |-> "none"]
    /\ told = [u \in Users |-> "Offline"]

-----------------------------------------------------------------------------
(* The registry and the broadcast. *)

clientsOf(u) == members(clients[u])

addClientLocked(u, c) == clients' = [clients EXCEPT ![u] = Append(@, c)]

\* Mutant: drops the newest connection, whichever one closed.
removeClientLocked_Newest(u, c) == SubSeq(clients[u], 1, Len(clients[u]) - 1)

removeClientLocked(u, c) == removeFirst(clients[u], c)

\* getFriends: deleting an account deletes its rows of the friends table.
hasFriends(u) == u \in accounts

broadcastPresence(u, s) ==
    told' = IF hasFriends(u) THEN [told EXCEPT ![u] = publicStatus(s)] ELSE told

goto(c, label) == pc' = [pc EXCEPT ![c] = label]

-----------------------------------------------------------------------------
(* Opening and closing a connection. *)

\* Mutant: the test lets one connection too many in.
mayConnect_OffByOne(a) == wsConnCount[a] <= MaxConnsPerAddr

mayConnect(a) == wsConnCount[a] < MaxConnsPerAddr

\* The count is tested and raised under wsConnCountMu; then the upgrade to a
\* WebSocket succeeds or the handler returns.
Accept(c) ==
    /\ pc[c] = "closed"
    /\ mayConnect(ConnAddr[c])
    /\ wsConnCount' = [wsConnCount EXCEPT ![ConnAddr[c]] = @ + 1]
    /\ \E label \in {"read", "return"} : goto(c, label)
    /\ UNCHANGED <<user, st, sock, status, clients, db, dropping, friend>>

\* Mutant: an early return without the deferred decrement.
Return_NoDecrement(c) ==
    /\ pc[c] = "return"
    /\ goto(c, "closed")
    /\ user' = [user EXCEPT ![c] = NoUser]
    /\ sock' = [sock EXCEPT ![c] = "open"]
    /\ status' = [status EXCEPT ![c] = ""]
    /\ UNCHANGED <<st, clients, wsConnCount, db, dropping, friend>>

\* The deferred functions of handleConnections run; the Client is garbage.
Return(c) ==
    /\ pc[c] = "return"
    /\ goto(c, "closed")
    /\ user' = [user EXCEPT ![c] = NoUser]
    /\ sock' = [sock EXCEPT ![c] = "open"]
    /\ status' = [status EXCEPT ![c] = ""]
    /\ wsConnCount' = [wsConnCount EXCEPT ![ConnAddr[c]] = @ - 1]
    /\ UNCHANGED <<st, clients, db, dropping, friend>>

\* Mutant: the closing connection stays in the registry.
dropClient_Stays(c) == clients

\* The registry without the connection that closed.
dropClient(c) == [clients EXCEPT ![user[c]] = removeClientLocked(user[c], c)]

\* Mutant: off by one, the last connection but one counts as the last.
nobodyLeft_OneLeft(registry, u) == Len(registry[u]) = 1

nobodyLeft(registry, u) == registry[u] = <<>>

\* ReadJSON fails: the peer left, the network broke or the server closed it.
Disconnect(c) ==
    /\ pc[c] = "read"
    /\ IF user[c] = NoUser
       THEN goto(c, "return") /\ UNCHANGED clients
       ELSE /\ clients' = dropClient(c)
            /\ goto(c, IF nobodyLeft(clients', user[c]) THEN "gone" ELSE "return")
    /\ UNCHANGED <<user, st, sock, status, wsConnCount, db, dropping, friend>>

\* The last connection is gone: the broadcast runs after s.Mu is released.
TellGone(c) ==
    /\ pc[c] = "gone"
    /\ broadcastPresence(user[c], "Offline")
    /\ goto(c, "return")
    /\ UNCHANGED <<user, st, sock, status, clients, wsConnCount, db, dropping, snap>>

-----------------------------------------------------------------------------
(* Signing in: the cookie of the upgrade request, auth, session_auth or    *)
(* qr_login_check; all four register the connection and announce it.       *)

reads(c) == pc[c] = "read" /\ sock[c] # "shut"

SignIn(c, u) ==
    /\ reads(c)
    /\ user[c] = NoUser \/ Reauth
    /\ u \in accounts
    /\ user' = [user EXCEPT ![c] = u]
    /\ goto(c, "register")
    /\ UNCHANGED <<st, sock, status, clients, wsConnCount, db, dropping, friend>>

Register(c) ==
    /\ pc[c] = "register"
    /\ status' = [status EXCEPT ![c] = "Online"]
    /\ addClientLocked(user[c], c)
    /\ goto(c, "load")
    /\ UNCHANGED <<user, st, sock, wsConnCount, db, dropping, friend>>

\* announcePresence: the stored status, "Online" if there is no row.
LoadStatus(c) ==
    /\ pc[c] = "load"
    /\ st' = [st EXCEPT ![c] = IF user[c] \in accounts THEN dbStatus[user[c]] ELSE "Online"]
    /\ goto(c, "announce")
    /\ UNCHANGED <<user, sock, status, clients, wsConnCount, db, dropping, friend>>

\* Mutant: the status goes onto the connection that set it alone.
mirrored_OwnOnly(c) == {c}

\* The connections a status is copied to.
mirrored(c) == clientsOf(user[c])

\* The loop under s.Mu that copies a status onto every connection of the user.
MirrorStatus(c) ==
    /\ pc[c] \in {"announce", "mirror"}
    /\ status' = [d \in Conns |-> IF d \in mirrored(c) THEN st[c] ELSE status[d]]
    /\ goto(c, "tell")
    /\ UNCHANGED <<user, st, sock, clients, wsConnCount, db, dropping, friend>>

TellStatus(c) ==
    /\ pc[c] = "tell"
    /\ broadcastPresence(user[c], st[c])
    /\ st' = [st EXCEPT ![c] = ""]
    /\ goto(c, "read")
    /\ UNCHANGED <<user, sock, status, clients, wsConnCount, db, dropping, snap>>

-----------------------------------------------------------------------------
(* Changing one's status. *)

\* status_update stores the status, then mirrors and broadcasts it.
StatusUpdate(c, s) ==
    /\ reads(c) /\ user[c] # NoUser
    /\ s \in Statuses
    /\ dbStatus' = IF user[c] \in accounts THEN [dbStatus EXCEPT ![user[c]] = s] ELSE dbStatus
    /\ st' = [st EXCEPT ![c] = s]
    /\ goto(c, "mirror")
    /\ UNCHANGED <<user, sock, status, clients, wsConnCount, accounts, dropping, friend>>

\* presence without a recipient: mirrored and broadcast, never stored.
PresenceMsg(c, s) ==
    /\ reads(c) /\ user[c] # NoUser
    /\ st' = [st EXCEPT ![c] = s]
    /\ goto(c, "mirror")
    /\ UNCHANGED <<user, sock, status, clients, wsConnCount, db, dropping, friend>>

-----------------------------------------------------------------------------
(* Erasing an account. *)

deleteAccount(u) == accounts' = accounts \ {u}

\* delete_account: the transaction; the broadcast; the registry; the return.
DeleteAccount(c) ==
    /\ reads(c) /\ user[c] \in accounts
    /\ deleteAccount(user[c])
    /\ goto(c, "erased")
    /\ UNCHANGED <<user, st, sock, status, clients, wsConnCount, dbStatus, dropping, friend>>

TellErased(c) ==
    /\ pc[c] = "erased"
    /\ broadcastPresence(user[c], "Offline")
    /\ goto(c, "unregister")
    /\ UNCHANGED <<user, st, sock, status, clients, wsConnCount, db, dropping, snap>>

Unregister(c) ==
    /\ pc[c] = "unregister"
    /\ clients' = [clients EXCEPT ![user[c]] = <<>>]
    /\ sock' = [sock EXCEPT ![c] = "shut"]
    /\ goto(c, "return")
    /\ UNCHANGED <<user, st, status, wsConnCount, db, dropping, friend>>

\* adminBanHandler, ban: the account stays, its connections are dropped.
AdminBan(u) ==
    /\ u \in accounts
    /\ dropping' = dropping \cup {u}
    /\ UNCHANGED <<conn, clients, wsConnCount, db, friend>>

\* adminBanHandler, delete.
AdminDelete(u) ==
    /\ u \in accounts
    /\ deleteAccount(u)
    /\ dropping' = dropping \cup {u}
    /\ UNCHANGED <<conn, clients, wsConnCount, dbStatus, friend>>

\* dropAllClients: out of the registry under s.Mu, closed one by one after it.
dropAllClients(u) ==
    /\ u \in dropping
    /\ dropping' = dropping \ {u}
    /\ sock' = [c \in Conns |-> IF c \in clientsOf(u) /\ sock[c] = "open"
                                THEN "doomed" ELSE sock[c]]
    /\ clients' = [clients EXCEPT ![u] = <<>>]
    /\ UNCHANGED <<pc, user, st, status, wsConnCount, db, friend>>

Close(c) ==
    /\ sock[c] = "doomed"
    /\ sock' = [sock EXCEPT ![c] = "shut"]
    /\ UNCHANGED <<pc, user, st, status, clients, wsConnCount, db, dropping, friend>>

-----------------------------------------------------------------------------
(* A friend of u signs in anew: u's status is read under RLock and sent    *)
(* as friend_status afterwards, on a connection broadcasts already reach.  *)

FriendReads(u) ==
    /\ FriendReconnects
    /\ snap[u] = "none" /\ hasFriends(u)
    /\ snap' = [snap EXCEPT ![u] = IF clients[u] = <<>> THEN "Offline"
                                   ELSE publicStatus(status[clients[u][1]])]
    /\ UNCHANGED <<conn, clients, wsConnCount, db, dropping, told>>

FriendIsTold(u) ==
    /\ snap[u] # "none"
    /\ told' = [told EXCEPT ![u] = snap[u]]
    /\ snap' = [snap EXCEPT ![u] = "none"]
    /\ UNCHANGED <<conn, clients, wsConnCount, db, dropping>>

-----------------------------------------------------------------------------
Step(c) ==
    \/ Return(c) \/ TellGone(c)
    \/ Register(c) \/ LoadStatus(c) \/ MirrorStatus(c) \/ TellStatus(c)
    \/ TellErased(c) \/ Unregister(c)

Message(c) ==
    \/ \E u \in Users : SignIn(c, u)
    \/ \E s \in Statuses : StatusUpdate(c, s)
    \/ \E s \in AnyStatus : PresenceMsg(c, s)
    \/ DeleteAccount(c)

Next ==
    \/ \E c \in Conns : Accept(c) \/ Message(c) \/ Disconnect(c) \/ Step(c) \/ Close(c)
    \/ \E u \in Users : AdminBan(u) \/ AdminDelete(u) \/ dropAllClients(u)
                        \/ FriendReads(u) \/ FriendIsTold(u)

Spec == Init /\ [][Next]_vars

\* A handler that has begun runs on: no Send outlasts its ten-second write
\* deadline.  A closed socket makes ReadJSON fail.  Nothing makes a client
\* connect, speak or leave.
Fairness ==
    /\ \A c \in Conns : WF_vars(Step(c))
    /\ \A c \in Conns : WF_vars(Close(c))
    /\ \A c \in Conns : WF_vars(sock[c] = "shut" /\ Disconnect(c))
    /\ \A u \in Users : WF_vars(dropAllClients(u))

FairSpec == Spec /\ Fairness

-----------------------------------------------------------------------------
(* Properties. *)

running(c) == pc[c] \notin {"closed", "gone", "return"}

(***************************************************************************)
(* Clients maps a username to every live connection that user has open:    *)
(* an entry is a connection whose goroutine runs and is signed in as that  *)
(* user, and is entered once.                                              *)
(***************************************************************************)
RegistryLive ==
    \A u \in Users :
        /\ \A c \in clientsOf(u) : running(c) /\ user[c] = u
        /\ noDuplicates(clients[u])

(***************************************************************************)
(* The other direction: no signed-in connection is missing from the        *)
(* registry, where messages for its user would pass it by, unless the      *)
(* server is closing it or the account was erased.                         *)
(***************************************************************************)
RegistryComplete ==
    \A c \in Conns :
        /\ running(c) /\ pc[c] # "register" /\ sock[c] = "open"
        /\ user[c] \in accounts
        => c \in clientsOf(user[c])

(***************************************************************************)
(* wsConnCount[a] is the number of handlers running for address a, so an   *)
(* address is never locked out by connections that have long closed.       *)
(***************************************************************************)
CountsOpenHandlers ==
    \A a \in Addrs :
        wsConnCount[a] = Cardinality({c \in Conns : ConnAddr[c] = a /\ pc[c] # "closed"})

announcing(c) == pc[c] \in {"load", "announce"}

(***************************************************************************)
(* Status is mirrored across a user's connections, so any of them reports  *)
(* the same value: true of all but the ones still announcing themselves,   *)
(* whatever status messages of several devices interleave.                 *)
(***************************************************************************)
StatusMirrored ==
    \A u \in Users : \A c, d \in clientsOf(u) :
        ~announcing(c) /\ ~announcing(d) => status[c] = status[d]

(***************************************************************************)
(* Once a user has no connection left and makes no new one, the friends    *)
(* are told Offline in the end and are told nothing else after it.         *)
(***************************************************************************)
GoneIsTold ==
    \A u \in Users :
        <>[](clients[u] = <<>> /\ u \in accounts) => <>[](told[u] = "Offline")
=============================================================================
