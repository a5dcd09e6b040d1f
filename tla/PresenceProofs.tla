--------------------------- MODULE PresenceProofs ---------------------------
(***************************************************************************)
(* Proofs about Presence, for any users, connections, addresses and limit: *)
(* types and the connection count; and, when a connection signs in once,   *)
(* the registry and the mirrored status.                                   *)
(***************************************************************************)
EXTENDS Presence, FiniteSetTheorems, TLAPS

-----------------------------------------------------------------------------
(* The lists of connections. *)

\* Removing a connection leaves a list of connections.
LEMMA RemoveType ==
    ASSUME NEW S, NEW cs \in Seq(S), NEW c
    PROVE  removeFirst(cs, c) \in Seq(S)
<1>1. CASE c \in members(cs)
  <2> DEFINE k == CHOOSE i \in DOMAIN cs : cs[i] = c /\ \A j \in 1..(i - 1) : cs[j] # c
             s == [i \in 1..(Len(cs) - 1) |-> IF i < k THEN cs[i] ELSE cs[i + 1]]
  <2>1. Len(cs) \in Nat /\ Len(cs) >= 1
    BY <1>1 DEF members
  <2>2. \A i \in 1..(Len(cs) - 1) : cs[i] \in S /\ cs[i + 1] \in S
    BY <2>1
  <2>3. Len(cs) - 1 \in Nat
    BY <2>1
  <2> HIDE DEF k
  <2>4. s \in [1..(Len(cs) - 1) -> S]
    BY <2>2
  <2>5. s \in Seq(S)
    BY <2>3, <2>4
  <2>6. QED
    BY <1>1, <2>5 DEF removeFirst, k
<1>2. CASE c \notin members(cs)
  BY <1>2 DEF removeFirst
<1>3. QED
  BY <1>1, <1>2

\* From a list without duplicates, exactly the removed connection disappears:
\* removeClientLocked never drops a neighbour.
LEMMA RemoveMembers ==
    ASSUME NEW S, NEW cs \in Seq(S), noDuplicates(cs), NEW c
    PROVE  /\ members(removeFirst(cs, c)) = members(cs) \ {c}
           /\ noDuplicates(removeFirst(cs, c))
<1>1. CASE c \in members(cs)
  <2>1. PICK p \in DOMAIN cs : cs[p] = c
    BY <1>1 DEF members
  <2> DEFINE k == CHOOSE i \in DOMAIN cs : cs[i] = c /\ \A j \in 1..(i - 1) : cs[j] # c
             s == [i \in 1..(Len(cs) - 1) |-> IF i < k THEN cs[i] ELSE cs[i + 1]]
             n == Len(cs)
  <2>2. n \in Nat /\ DOMAIN cs = 1..n /\ p \in 1..n
    OBVIOUS
  <2>3. \A j \in 1..(p - 1) : cs[j] # c
    BY <2>1, <2>2 DEF noDuplicates
  <2>4. k \in DOMAIN cs /\ cs[k] = c
    BY <2>1, <2>3
  <2>5. removeFirst(cs, c) = s
    BY <1>1 DEF removeFirst
  <2>6. \A i \in DOMAIN cs : cs[i] = c => i = k
    BY <2>4 DEF noDuplicates
  <2> HIDE DEF k
  <2>7. DOMAIN s = 1..(n - 1) /\ k \in 1..n
    BY <2>2, <2>4
  <2>8. \A i \in 1..(n - 1) : s[i] = cs[IF i < k THEN i ELSE i + 1]
    OBVIOUS
  <2>9. \A i \in 1..(n - 1) : s[i] \in members(cs) /\ s[i] # c
    <3>1. TAKE i \in 1..(n - 1)
    <3>2. (IF i < k THEN i ELSE i + 1) \in 1..n /\ (IF i < k THEN i ELSE i + 1) # k
      BY <2>2, <2>7
    <3>3. QED
      BY <2>2, <2>6, <2>8, <3>2 DEF members
  <2>10. \A d \in members(cs) \ {c} : \E i \in 1..(n - 1) : s[i] = d
    <3>1. TAKE d \in members(cs) \ {c}
    <3>2. PICK q \in DOMAIN cs : cs[q] = d
      BY DEF members
    <3>3. q # k
      BY <2>4, <3>2
    <3>4. CASE q < k
      <4>1. q \in 1..(n - 1)
        BY <2>2, <2>7, <3>4
      <4>2. QED
        BY <2>8, <3>2, <3>4, <4>1
    <3>5. CASE q > k
      <4>1. q - 1 \in 1..(n - 1) /\ ~(q - 1 < k) /\ (q - 1) + 1 = q
        BY <2>2, <2>7, <3>5
      <4>2. s[q - 1] = cs[q]
        BY <2>8, <4>1
      <4>3. QED
        BY <3>2, <4>1, <4>2
    <3>6. QED
      BY <2>2, <2>7, <3>3, <3>4, <3>5
  <2>11. \A i, j \in 1..(n - 1) : s[i] = s[j] => i = j
    <3>1. TAKE i, j \in 1..(n - 1)
    <3>2. (IF i < k THEN i ELSE i + 1) \in 1..n /\ (IF j < k THEN j ELSE j + 1) \in 1..n
      BY <2>2, <2>7
    <3>3. s[i] = s[j] => (IF i < k THEN i ELSE i + 1) = (IF j < k THEN j ELSE j + 1)
      BY <2>2, <2>8, <3>2 DEF noDuplicates
    <3>4. QED
      BY <2>2, <2>7, <3>3
  <2> HIDE DEF s
  <2>12. members(s) = members(cs) \ {c}
    BY <2>7, <2>9, <2>10 DEF members
  <2>13. noDuplicates(s)
    BY <2>7, <2>11 DEF noDuplicates
  <2>14. QED
    BY <2>5, <2>12, <2>13
<1>2. CASE c \notin members(cs)
  BY <1>2 DEF removeFirst
<1>3. QED
  BY <1>1, <1>2

\* addClientLocked: the new connection joins the others.
LEMMA AppendMembers ==
    ASSUME NEW S, NEW cs \in Seq(S), NEW c \in S
    PROVE  /\ Append(cs, c) \in Seq(S)
           /\ members(Append(cs, c)) = members(cs) \cup {c}
           /\ noDuplicates(cs) /\ c \notin members(cs) => noDuplicates(Append(cs, c))
<1>1. Append(cs, c) \in Seq(S) /\ Len(cs) \in Nat
  OBVIOUS
<1>2. DOMAIN Append(cs, c) = 1..(Len(cs) + 1) /\ DOMAIN cs = 1..Len(cs)
  OBVIOUS
<1>3. \A i \in 1..(Len(cs) + 1) :
        Append(cs, c)[i] = IF i <= Len(cs) THEN cs[i] ELSE c
  OBVIOUS
<1>4. members(Append(cs, c)) \subseteq members(cs) \cup {c}
  BY <1>1, <1>2, <1>3 DEF members
<1>5. members(cs) \subseteq members(Append(cs, c))
  BY <1>1, <1>2, <1>3 DEF members
<1>6. c \in members(Append(cs, c))
  BY <1>1, <1>2, <1>3 DEF members
<1>7. noDuplicates(cs) /\ c \notin members(cs) => noDuplicates(Append(cs, c))
  BY <1>1, <1>2, <1>3 DEF members, noDuplicates
<1>8. QED
  BY <1>1, <1>4, <1>5, <1>6, <1>7

\* Deleting the map entry leaves nobody.
LEMMA EmptyMembers ==
    members(<<>>) = {} /\ noDuplicates(<<>>)
BY DEF members, noDuplicates

-----------------------------------------------------------------------------
handlers(a) == {c \in Conns : ConnAddr[c] = a /\ pc[c] # "closed"}

TypeInv == TypeOK /\ CountsOpenHandlers

-----------------------------------------------------------------------------
(* Types and the count of handlers. *)

LEMMA PublicType ==
    ASSUME NEW s \in AnyStatus
    PROVE  publicStatus(s) \in Shown
  BY DEF Shown

\* A broadcast tells a friend a status that can be shown.
LEMMA BroadcastType ==
    ASSUME TypeOK, NEW u \in Users, NEW s \in AnyStatus \cup {"Offline"},
           broadcastPresence(u, s)
    PROVE  told' \in [Users -> Shown]
<1>1. publicStatus(s) \in Shown
  BY PublicType DEF Shown, publicStatus
<1>2. QED
  BY <1>1 DEF broadcastPresence, TypeOK

\* The handlers of an address form a finite set.
LEMMA HandlersFinite ==
    ASSUME NEW a \in Addrs
    PROVE  IsFiniteSet(handlers(a)) /\ Cardinality(handlers(a)) \in Nat
<1>1. handlers(a) \subseteq Conns
  BY DEF handlers
<1>2. QED
  BY <1>1, FS_Subset, FS_CardinalityType, PresenceAssumption

\* A step that opens and closes no handler keeps the count.
LEMMA CountKept ==
    ASSUME CountsOpenHandlers, UNCHANGED wsConnCount,
           \A c \in Conns : pc'[c] = "closed" <=> pc[c] = "closed"
    PROVE  CountsOpenHandlers'
<1>1. \A a \in Addrs : handlers(a)' = handlers(a)
  BY DEF handlers
<1>2. QED
  BY <1>1 DEF CountsOpenHandlers, handlers

LEMMA GotoCount ==
    ASSUME TypeOK, CountsOpenHandlers, UNCHANGED wsConnCount, NEW c \in Conns,
           pc[c] # "closed", NEW label, label # "closed", goto(c, label)
    PROVE  CountsOpenHandlers'
<1>1. \A d \in Conns : pc'[d] = "closed" <=> pc[d] = "closed"
  BY DEF TypeOK, goto
<1>2. QED
  BY <1>1, CountKept

\* The count and its bound through an accepted connection.
LEMMA AcceptInv ==
    ASSUME TypeInv, NEW c \in Conns, Accept(c)
    PROVE  TypeInv'
<1> DEFINE a == ConnAddr[c]
<1>1. a \in Addrs /\ wsConnCount[a] \in 0..MaxConnsPerAddr /\ wsConnCount[a] < MaxConnsPerAddr
  BY PresenceAssumption DEF TypeInv, TypeOK, Accept, mayConnect
<1>2. wsConnCount' = [wsConnCount EXCEPT ![a] = @ + 1]
  BY DEF Accept
<1>3. wsConnCount' \in [Addrs -> 0..MaxConnsPerAddr]
  BY <1>1, <1>2, PresenceAssumption DEF TypeInv, TypeOK
<1>4. PICK label \in {"read", "return"} : pc' = [pc EXCEPT ![c] = label]
  BY DEF Accept, goto
<1>5. TypeOK'
  BY <1>3, <1>4 DEF TypeInv, TypeOK, Accept, db, friend
<1>6. handlers(a)' = handlers(a) \cup {c} /\ c \notin handlers(a)
  BY <1>4 DEF handlers, Accept, TypeInv, TypeOK
<1>7. \A b \in Addrs \ {a} : handlers(b)' = handlers(b)
  BY <1>4 DEF handlers, TypeInv, TypeOK
<1>8. Cardinality(handlers(a) \cup {c}) = Cardinality(handlers(a)) + 1
  BY <1>1, <1>6, HandlersFinite, FS_AddElement
<1> HIDE DEF a
<1>9. \A b \in Addrs : wsConnCount'[b] = Cardinality(handlers(b)')
  <2>1. \A b \in Addrs : wsConnCount[b] = Cardinality(handlers(b))
    BY DEF TypeInv, CountsOpenHandlers, handlers
  <2>2. wsConnCount'[a] = Cardinality(handlers(a)')
    BY <1>1, <1>2, <1>6, <1>8, <2>1 DEF TypeInv, TypeOK
  <2>3. \A b \in Addrs \ {a} : wsConnCount'[b] = wsConnCount[b]
    BY <1>2 DEF TypeInv, TypeOK
  <2>4. QED
    BY <1>7, <2>1, <2>2, <2>3
<1>10. QED
  BY <1>5, <1>9 DEF TypeInv, CountsOpenHandlers, handlers

\* The deferred decrement never takes the count below zero.
LEMMA ReturnInv ==
    ASSUME TypeInv, NEW c \in Conns, Return(c)
    PROVE  TypeInv'
<1> DEFINE a == ConnAddr[c]
<1>1. a \in Addrs /\ wsConnCount[a] \in 0..MaxConnsPerAddr
  BY PresenceAssumption DEF TypeInv, TypeOK
<1>2. wsConnCount' = [wsConnCount EXCEPT ![a] = @ - 1] /\ pc' = [pc EXCEPT ![c] = "closed"]
  BY DEF Return, goto
<1>3. handlers(a)' = handlers(a) \ {c} /\ c \in handlers(a)
  BY <1>2 DEF handlers, Return, TypeInv, TypeOK
<1>4. \A b \in Addrs \ {a} : handlers(b)' = handlers(b)
  BY <1>2 DEF handlers, TypeInv, TypeOK
<1>5. \A b \in Addrs : wsConnCount[b] = Cardinality(handlers(b))
  BY DEF TypeInv, CountsOpenHandlers, handlers
<1>6. Cardinality(handlers(a) \ {c}) = Cardinality(handlers(a)) - 1
  BY <1>1, <1>3, HandlersFinite, FS_RemoveElement
<1>7. Cardinality(handlers(a) \ {c}) \in Nat
  <2>1. IsFiniteSet(handlers(a) \ {c})
    BY <1>1, HandlersFinite, FS_RemoveElement
  <2>2. QED
    BY <2>1, FS_CardinalityType
<1> HIDE DEF a
<1>8. wsConnCount[a] - 1 \in 0..MaxConnsPerAddr
  BY <1>1, <1>5, <1>6, <1>7, PresenceAssumption
<1>9. wsConnCount' \in [Addrs -> 0..MaxConnsPerAddr]
  BY <1>2, <1>8 DEF TypeInv, TypeOK
<1>10. TypeOK'
  BY <1>2, <1>9, PresenceAssumption DEF TypeInv, TypeOK, Return, AnyStatus, db, friend
<1>11. \A b \in Addrs : wsConnCount'[b] = Cardinality(handlers(b)')
  <2>1. wsConnCount'[a] = Cardinality(handlers(a)')
    BY <1>1, <1>2, <1>3, <1>5, <1>6 DEF TypeInv, TypeOK
  <2>2. \A b \in Addrs \ {a} : wsConnCount'[b] = wsConnCount[b]
    BY <1>2 DEF TypeInv, TypeOK
  <2>3. QED
    BY <1>4, <1>5, <2>1, <2>2
<1>12. QED
  BY <1>10, <1>11 DEF TypeInv, CountsOpenHandlers, handlers

LEMMA DisconnectInv ==
    ASSUME TypeInv, NEW c \in Conns, Disconnect(c)
    PROVE  TypeInv'
<1>1. PICK label \in {"gone", "return"} : goto(c, label)
  BY DEF Disconnect
<1>2. label = "gone" => user[c] \in Users
  BY <1>1 DEF TypeInv, TypeOK, Disconnect, goto
<1>3. clients' \in [Users -> Seq(Conns)]
  <2>1. CASE user[c] = NoUser
    BY <2>1 DEF Disconnect, TypeInv, TypeOK
  <2>2. CASE user[c] # NoUser
    <3>1. user[c] \in Users
      BY <2>2 DEF TypeInv, TypeOK
    <3>2. removeFirst(clients[user[c]], c) \in Seq(Conns)
      BY <3>1, RemoveType DEF TypeInv, TypeOK
    <3>3. clients' = [clients EXCEPT ![user[c]] = removeFirst(clients[user[c]], c)]
      BY <2>2 DEF Disconnect, dropClient, removeClientLocked
    <3>4. QED
      BY <3>1, <3>2, <3>3 DEF TypeInv, TypeOK
  <2>3. QED
    BY <2>1, <2>2
<1>4. TypeOK'
  BY <1>1, <1>2, <1>3 DEF TypeInv, TypeOK, Disconnect, goto, db, friend
<1>5. CountsOpenHandlers'
  BY <1>1, GotoCount DEF Disconnect, TypeInv
<1>6. QED
  BY <1>4, <1>5 DEF TypeInv

LEMMA RegisterInv ==
    ASSUME TypeInv, NEW c \in Conns, Register(c)
    PROVE  TypeInv'
<1>1. user[c] \in Users
  BY DEF TypeInv, TypeOK, Register
<1>2. Append(clients[user[c]], c) \in Seq(Conns)
  BY <1>1, AppendMembers DEF TypeInv, TypeOK
<1>3. clients' \in [Users -> Seq(Conns)]
  BY <1>1, <1>2 DEF Register, addClientLocked, TypeInv, TypeOK
<1>4. TypeOK'
  BY <1>1, <1>3, PresenceAssumption DEF TypeInv, TypeOK, Register, goto, db, friend, AnyStatus
<1>5. CountsOpenHandlers'
  BY GotoCount DEF Register, TypeInv
<1>6. QED
  BY <1>4, <1>5 DEF TypeInv

\* The steps that broadcast.
LEMMA TellInv ==
    ASSUME TypeInv, NEW c \in Conns, TellGone(c) \/ TellStatus(c) \/ TellErased(c)
    PROVE  TypeInv'
<1>1. user[c] \in Users
  BY DEF TypeInv, TypeOK, TellGone, TellStatus, TellErased
<1>2. st[c] \in AnyStatus
  BY DEF TypeInv, TypeOK
<1>3. told' \in [Users -> Shown]
  BY <1>1, <1>2, BroadcastType DEF TypeInv, TellGone, TellStatus, TellErased
<1>4. CASE TellGone(c)
  <2>1. TypeOK'
    BY <1>3, <1>4 DEF TypeInv, TypeOK, TellGone, goto, db
  <2>2. CountsOpenHandlers'
    BY <1>4, GotoCount DEF TellGone, TypeInv
  <2>3. QED
    BY <2>1, <2>2 DEF TypeInv
<1>5. CASE TellStatus(c)
  <2>1. TypeOK'
    BY <1>3, <1>5 DEF TypeInv, TypeOK, TellStatus, goto, db, AnyStatus
  <2>2. CountsOpenHandlers'
    BY <1>5, GotoCount DEF TellStatus, TypeInv
  <2>3. QED
    BY <2>1, <2>2 DEF TypeInv
<1>6. CASE TellErased(c)
  <2>1. TypeOK'
    BY <1>1, <1>3, <1>6 DEF TypeInv, TypeOK, TellErased, goto, db
  <2>2. CountsOpenHandlers'
    BY <1>6, GotoCount DEF TellErased, TypeInv
  <2>3. QED
    BY <2>1, <2>2 DEF TypeInv
<1>7. QED
  BY <1>4, <1>5, <1>6

\* The steps of one goroutine that touch neither registry, count nor friends.
LEMMA LocalInv ==
    ASSUME TypeInv, NEW c \in Conns,
           \/ LoadStatus(c) \/ MirrorStatus(c) \/ DeleteAccount(c)
           \/ \E u \in Users : SignIn(c, u)
           \/ \E s \in Statuses : StatusUpdate(c, s)
           \/ \E s \in AnyStatus : PresenceMsg(c, s)
    PROVE  TypeInv'
<1> USE DEF TypeInv
<1>1. CASE LoadStatus(c)
  <2>1. TypeOK'
    BY <1>1, PresenceAssumption DEF TypeOK, LoadStatus, goto, db, friend, AnyStatus
  <2>2. QED
    BY <1>1, <2>1, GotoCount DEF LoadStatus
<1>2. CASE MirrorStatus(c)
  <2>1. TypeOK'
    BY <1>2 DEF TypeOK, MirrorStatus, goto, db, friend
  <2>2. QED
    BY <1>2, <2>1, GotoCount DEF MirrorStatus
<1>3. CASE DeleteAccount(c)
  <2>1. TypeOK'
    BY <1>3 DEF TypeOK, DeleteAccount, deleteAccount, reads, goto, friend
  <2>2. QED
    BY <1>3, <2>1, GotoCount DEF DeleteAccount, reads
<1>4. ASSUME NEW u \in Users, SignIn(c, u) PROVE TypeInv'
  <2>1. TypeOK'
    BY <1>4 DEF TypeOK, SignIn, reads, goto, db, friend
  <2>2. QED
    BY <1>4, <2>1, GotoCount DEF SignIn, reads
<1>5. ASSUME NEW s \in Statuses, StatusUpdate(c, s) PROVE TypeInv'
  <2>1. TypeOK'
    BY <1>5 DEF TypeOK, StatusUpdate, reads, goto, friend, AnyStatus
  <2>2. QED
    BY <1>5, <2>1, GotoCount DEF StatusUpdate, reads
<1>6. ASSUME NEW s \in AnyStatus, PresenceMsg(c, s) PROVE TypeInv'
  <2>1. TypeOK'
    BY <1>6 DEF TypeOK, PresenceMsg, reads, goto, db, friend
  <2>2. QED
    BY <1>6, <2>1, GotoCount DEF PresenceMsg, reads
<1>7. QED
  BY <1>1, <1>2, <1>3, <1>4, <1>5, <1>6

\* Closing sockets, and the registry entry of a whole account.
LEMMA DropInv ==
    ASSUME TypeInv,
           \/ \E c \in Conns : Unregister(c) \/ Close(c)
           \/ \E u \in Users : AdminBan(u) \/ AdminDelete(u) \/ dropAllClients(u)
    PROVE  TypeInv'
<1> USE DEF TypeInv
<1>1. ASSUME NEW c \in Conns, Unregister(c) PROVE TypeInv'
  <2>1. clients' \in [Users -> Seq(Conns)]
    <3>1. clients \in [Users -> Seq(Conns)] /\ <<>> \in Seq(Conns)
      BY DEF TypeOK
    <3>2. clients' = [clients EXCEPT ![user[c]] = <<>>]
      BY <1>1 DEF Unregister
    <3>3. QED
      BY <3>1, <3>2
  <2>2. TypeOK'
    BY <1>1, <2>1 DEF TypeOK, Unregister, goto, db, friend
  <2>3. QED
    BY <1>1, <2>2, GotoCount DEF Unregister
<1>2. ASSUME NEW c \in Conns, Close(c) PROVE TypeInv'
  <2>1. TypeOK'
    BY <1>2 DEF TypeOK, Close, db, friend
  <2>2. QED
    BY <1>2, <2>1, CountKept DEF Close
<1>3. ASSUME NEW u \in Users, AdminBan(u) PROVE TypeInv'
  <2>1. TypeOK'
    BY <1>3 DEF TypeOK, AdminBan, conn, db, friend
  <2>2. QED
    BY <1>3, <2>1, CountKept DEF AdminBan, conn
<1>4. ASSUME NEW u \in Users, AdminDelete(u) PROVE TypeInv'
  <2>1. TypeOK'
    BY <1>4 DEF TypeOK, AdminDelete, deleteAccount, conn, friend
  <2>2. QED
    BY <1>4, <2>1, CountKept DEF AdminDelete, conn
<1>5. ASSUME NEW u \in Users, dropAllClients(u) PROVE TypeInv'
  <2>1. sock' \in [Conns -> {"open", "doomed", "shut"}]
    BY <1>5 DEF TypeOK, dropAllClients
  <2>2. clients' \in [Users -> Seq(Conns)]
    BY <1>5 DEF TypeOK, dropAllClients
  <2>3. TypeOK'
    BY <1>5, <2>1, <2>2 DEF TypeOK, dropAllClients, db, friend
  <2>4. QED
    BY <1>5, <2>3, CountKept DEF dropAllClients
<1>6. QED
  BY <1>1, <1>2, <1>3, <1>4, <1>5

LEMMA FriendInv ==
    ASSUME TypeInv, NEW u \in Users, FriendReads(u) \/ FriendIsTold(u)
    PROVE  TypeInv'
<1> USE DEF TypeInv
<1>1. CASE FriendReads(u)
  <2>1. clients[u] # <<>> => clients[u][1] \in Conns
    BY DEF TypeOK
  <2>2. clients[u] # <<>> => publicStatus(status[clients[u][1]]) \in Shown
    BY <2>1, PublicType DEF TypeOK
  <2>3. snap' \in [Users -> Shown \cup {"none"}]
    BY <1>1, <2>2 DEF TypeOK, FriendReads, Shown
  <2>4. TypeOK'
    BY <1>1, <2>3 DEF TypeOK, FriendReads, conn, db
  <2>5. QED
    BY <1>1, <2>4, CountKept DEF FriendReads, conn
<1>2. CASE FriendIsTold(u)
  <2>1. snap[u] \in Shown
    BY <1>2 DEF TypeOK, FriendIsTold
  <2>2. TypeOK'
    BY <1>2, <2>1 DEF TypeOK, FriendIsTold, conn, db
  <2>3. QED
    BY <1>2, <2>2, CountKept DEF FriendIsTold, conn
<1>3. QED
  BY <1>1, <1>2

LEMMA InitTypes == Init => TypeInv
<1> SUFFICES ASSUME Init PROVE TypeInv
  OBVIOUS
<1>1. TypeOK
  <2>1. \A u \in Users : <<>> \in Seq(Conns)
    OBVIOUS
  <2>2. clients \in [Users -> Seq(Conns)]
    BY <2>1 DEF Init
  <2>3. wsConnCount \in [Addrs -> 0..MaxConnsPerAddr]
    <3>1. MaxConnsPerAddr \in Nat
      BY PresenceAssumption
    <3>2. 0 \in 0..MaxConnsPerAddr
      BY <3>1
    <3>3. QED
      BY <3>2 DEF Init
  <2>4. told \in [Users -> Shown] /\ snap \in [Users -> Shown \cup {"none"}]
    BY DEF Init, Shown
  <2>5. st \in [Conns -> AnyStatus] /\ status \in [Conns -> AnyStatus]
    BY DEF Init, AnyStatus
  <2>6. QED
    BY <2>2, <2>3, <2>4, <2>5 DEF Init, TypeOK
<1>2. \A a \in Addrs : handlers(a) = {}
  BY DEF Init, handlers
<1>3. CountsOpenHandlers
  BY <1>2, FS_EmptySet DEF Init, CountsOpenHandlers, handlers
<1>4. QED
  BY <1>1, <1>3 DEF TypeInv

LEMMA NextTypes == TypeInv /\ [Next]_vars => TypeInv'
<1> SUFFICES ASSUME TypeInv, [Next]_vars PROVE TypeInv'
  OBVIOUS
<1>1. ASSUME NEW c \in Conns, Accept(c) \/ Message(c) \/ Disconnect(c) \/ Step(c) \/ Close(c)
      PROVE  TypeInv'
  BY <1>1, AcceptInv, ReturnInv, DisconnectInv, RegisterInv, TellInv, LocalInv, DropInv
     DEF Message, Step
<1>2. ASSUME NEW u \in Users,
             AdminBan(u) \/ AdminDelete(u) \/ dropAllClients(u) \/ FriendReads(u) \/ FriendIsTold(u)
      PROVE  TypeInv'
  BY <1>2, DropInv, FriendInv
<1>3. CASE UNCHANGED vars
  <2>1. TypeOK'
    BY <1>3 DEF TypeInv, TypeOK, vars, conn, db, friend
  <2>2. CountsOpenHandlers'
    BY <1>3, CountKept DEF TypeInv, vars, conn
  <2>3. QED
    BY <2>1, <2>2 DEF TypeInv
<1>4. QED
  BY <1>1, <1>2, <1>3 DEF Next

(***************************************************************************)
(* Every variable keeps its type; in particular no address ever has more   *)
(* than MaxConnsPerAddr handlers, nor a negative count.                    *)
(***************************************************************************)
THEOREM TypeCorrect == Spec => []TypeOK
<1>1. Spec => []TypeInv
  BY InitTypes, NextTypes, PTL DEF Spec
<1>2. TypeInv => TypeOK
  BY DEF TypeInv
<1>3. QED
  BY <1>1, <1>2, PTL

(***************************************************************************)
(* wsConnCount is exactly the number of running handlers of each address.  *)
(***************************************************************************)
THEOREM CountIsExact == Spec => []CountsOpenHandlers
<1>1. Spec => []TypeInv
  BY InitTypes, NextTypes, PTL DEF Spec
<1>2. TypeInv => CountsOpenHandlers
  BY DEF TypeInv
<1>3. QED
  BY <1>1, <1>2, PTL

-----------------------------------------------------------------------------
(* The registry and the mirrored status, when a connection signs in once.  *)

\* What the registry rests on: a closed connection has no user, one that is
\* about to register is in no list, and delete_account has emptied the tables
\* before it empties the registry.
SignInOrder ==
    \A c \in Conns :
        /\ pc[c] = "closed" => user[c] = NoUser
        /\ pc[c] = "register" => \A u \in Users : c \notin clientsOf(u)
        /\ pc[c] \in {"erased", "unregister"} => user[c] \notin accounts

RegInv ==
    /\ ~Reauth
    /\ TypeOK
    /\ SignInOrder
    /\ RegistryLive
    /\ RegistryComplete
    /\ StatusMirrored

\* The members of a user's list are connections.
LEMMA MembersType ==
    ASSUME TypeOK, NEW u \in Users
    PROVE  clientsOf(u) \subseteq Conns
  BY DEF TypeOK, clientsOf, members

\* A step that moves a goroutine within its handler and leaves the registry,
\* the users and the statuses alone.
LEMMA QuietStep ==
    ASSUME RegInv, TypeOK', UNCHANGED <<clients, user, status>>,
           accounts' \subseteq accounts,
           \A d \in Conns :
               /\ sock'[d] = "open" => sock[d] = "open"
               /\ running(d)' <=> running(d)
               /\ announcing(d)' <=> announcing(d)
               /\ pc'[d] = "register" <=> pc[d] = "register"
               /\ pc'[d] = "closed" <=> pc[d] = "closed"
               /\ pc'[d] \in {"erased", "unregister"} => user[d] \notin accounts'
    PROVE  RegInv'
<1>1. \A u \in Users : clientsOf(u)' = clientsOf(u)
  BY DEF clientsOf
<1>2. SignInOrder'
  BY <1>1 DEF RegInv, SignInOrder
<1>3. RegistryLive'
  BY <1>1, MembersType DEF RegInv, RegistryLive
<1>4. RegistryComplete'
  <2>1. SUFFICES ASSUME NEW c \in Conns, running(c)', pc'[c] # "register",
                        sock'[c] = "open", user'[c] \in accounts'
                 PROVE  c \in clientsOf(user[c])'
    BY DEF RegistryComplete
  <2>2. c \in clientsOf(user[c])
    BY <2>1 DEF RegInv, RegistryComplete
  <2>3. QED
    BY <2>2 DEF clientsOf
<1>5. StatusMirrored'
  BY <1>1, MembersType DEF RegInv, StatusMirrored
<1>6. QED
  BY <1>2, <1>3, <1>4, <1>5 DEF RegInv

LEMMA HandlerSteps ==
    ASSUME RegInv, TypeOK', NEW c \in Conns,
           \/ LoadStatus(c) \/ TellStatus(c) \/ TellGone(c) \/ TellErased(c)
           \/ DeleteAccount(c) \/ Close(c)
           \/ \E s \in Statuses : StatusUpdate(c, s)
           \/ \E s \in AnyStatus : PresenceMsg(c, s)
    PROVE  RegInv'
<1>1. UNCHANGED <<clients, user, status>> /\ accounts' \subseteq accounts
  BY DEF LoadStatus, TellStatus, TellGone, TellErased, DeleteAccount, deleteAccount,
         Close, StatusUpdate, PresenceMsg, db
<1>2. \A d \in Conns : sock'[d] = "open" => sock[d] = "open"
  BY DEF LoadStatus, TellStatus, TellGone, TellErased, DeleteAccount, Close,
         StatusUpdate, PresenceMsg, RegInv, TypeOK
<1>3. \A d \in Conns :
        /\ running(d)' <=> running(d)
        /\ announcing(d)' <=> announcing(d)
        /\ pc'[d] = "register" <=> pc[d] = "register"
        /\ pc'[d] = "closed" <=> pc[d] = "closed"
  <2>1. pc = [d \in Conns |-> pc[d]]
    BY DEF RegInv, TypeOK
  <2>2. \/ pc' = pc
        \/ /\ pc[c] = "load" /\ pc' = [pc EXCEPT ![c] = "announce"]
        \/ /\ pc[c] = "gone" /\ pc' = [pc EXCEPT ![c] = "return"]
        \/ /\ pc[c] \in {"tell", "erased", "read"}
           /\ \E label \in {"read", "unregister", "erased", "mirror"} :
                pc' = [pc EXCEPT ![c] = label]
    BY DEF LoadStatus, TellStatus, TellGone, TellErased, DeleteAccount, Close,
           StatusUpdate, PresenceMsg, reads, goto
  <2>3. QED
    BY <2>1, <2>2 DEF running, announcing
<1>4. \A d \in Conns : pc'[d] \in {"erased", "unregister"} => user[d] \notin accounts'
  BY DEF LoadStatus, TellStatus, TellGone, TellErased, DeleteAccount, deleteAccount, Close,
         StatusUpdate, PresenceMsg, reads, goto, RegInv, TypeOK, SignInOrder, db
<1>5. QED
  BY <1>1, <1>2, <1>3, <1>4, QuietStep

LEMMA OutsideSteps ==
    ASSUME RegInv, TypeOK',
           \/ \E u \in Users : AdminBan(u) \/ AdminDelete(u) \/ FriendReads(u) \/ FriendIsTold(u)
           \/ UNCHANGED vars
    PROVE  RegInv'
<1>1. UNCHANGED <<conn, clients>> /\ accounts' \subseteq accounts
  BY DEF AdminBan, AdminDelete, deleteAccount, FriendReads, FriendIsTold, vars, db
<1>2. UNCHANGED <<pc, user, sock, status, clients>>
  BY <1>1 DEF conn
<1>3. \A d \in Conns : pc'[d] \in {"erased", "unregister"} => user[d] \notin accounts'
  BY <1>1, <1>2 DEF RegInv, SignInOrder
<1>4. QED
  BY <1>1, <1>2, <1>3, QuietStep DEF running, announcing

\* Opening a connection and signing in: the connection is in no list yet.
LEMMA NewcomerSteps ==
    ASSUME RegInv, TypeOK', NEW c \in Conns,
           Accept(c) \/ \E u \in Users : SignIn(c, u)
    PROVE  RegInv'
<1>1. UNCHANGED <<clients, sock, status, accounts>>
  BY DEF Accept, SignIn, db
<1>2. \A u \in Users : clientsOf(u)' = clientsOf(u)
  BY <1>1 DEF clientsOf
<1>3. user[c] = NoUser
  BY DEF Accept, SignIn, RegInv, SignInOrder
<1>4. \A u \in Users : c \notin clientsOf(u)
  BY <1>3, PresenceAssumption DEF RegInv, RegistryLive
<1>5. \A d \in Conns \ {c} : pc'[d] = pc[d] /\ user'[d] = user[d]
  BY DEF Accept, SignIn, goto, RegInv, TypeOK
<1>6. pc'[c] \in {"read", "return", "register"}
  BY DEF Accept, SignIn, goto, RegInv, TypeOK
<1>7. SignInOrder'
  BY <1>1, <1>2, <1>4, <1>5, <1>6 DEF RegInv, SignInOrder
<1>8. RegistryLive'
  BY <1>1, <1>2, <1>4, <1>5, MembersType DEF RegInv, RegistryLive, running
<1>9. RegistryComplete'
  <2>1. pc'[c] # "register" => user'[c] = NoUser
    <3>1. CASE Accept(c)
      BY <1>3, <3>1 DEF Accept
    <3>2. CASE \E u \in Users : SignIn(c, u)
      BY <3>2 DEF SignIn, goto, RegInv, TypeOK
    <3>3. QED
      BY <3>1, <3>2
  <2>2. NoUser \notin accounts
    BY PresenceAssumption DEF RegInv, TypeOK
  <2>3. ASSUME NEW d \in Conns, running(d)', pc'[d] # "register", sock'[d] = "open",
               user'[d] \in accounts'
        PROVE  d \in members(clients'[user'[d]])
    <3>1. d # c
      BY <1>1, <2>1, <2>2, <2>3
    <3>2. d \in clientsOf(user[d])
      BY <1>1, <1>5, <2>3, <3>1 DEF RegInv, RegistryComplete, running
    <3>3. QED
      BY <1>1, <1>5, <3>1, <3>2 DEF clientsOf
  <2>4. QED
    BY <2>3 DEF RegistryComplete, clientsOf
<1>10. StatusMirrored'
  BY <1>1, <1>2, <1>4, <1>5, MembersType DEF RegInv, StatusMirrored, announcing
<1>11. QED
  BY <1>7, <1>8, <1>9, <1>10 DEF RegInv

\* A handler returns: its connection left the registry before.
LEMMA ReturnReg ==
    ASSUME RegInv, TypeOK', NEW c \in Conns, Return(c)
    PROVE  RegInv'
<1>1. UNCHANGED <<clients, accounts>>
  BY DEF Return, db
<1>2. \A u \in Users : clientsOf(u)' = clientsOf(u)
  BY <1>1 DEF clientsOf
<1>3. \A u \in Users : c \notin clientsOf(u)
  BY DEF Return, RegInv, RegistryLive, running
<1>4. /\ pc'[c] = "closed" /\ user'[c] = NoUser
      /\ \A d \in Conns \ {c} : /\ pc'[d] = pc[d] /\ user'[d] = user[d]
                                /\ sock'[d] = sock[d] /\ status'[d] = status[d]
  <2>1. /\ pc' = [pc EXCEPT ![c] = "closed"] /\ user' = [user EXCEPT ![c] = NoUser]
        /\ sock' = [sock EXCEPT ![c] = "open"] /\ status' = [status EXCEPT ![c] = ""]
    BY DEF Return, goto
  <2>2. /\ pc = [d \in Conns |-> pc[d]] /\ user = [d \in Conns |-> user[d]]
        /\ sock = [d \in Conns |-> sock[d]] /\ status = [d \in Conns |-> status[d]]
    BY DEF RegInv, TypeOK
  <2>3. QED
    BY <2>1, <2>2
<1>5. SignInOrder'
  BY <1>1, <1>2, <1>4 DEF RegInv, SignInOrder
<1>6. RegistryLive'
  BY <1>1, <1>2, <1>3, <1>4, MembersType DEF RegInv, RegistryLive, running
<1>7. RegistryComplete'
  <2>1. ~running(c)'
    BY <1>4 DEF running
  <2>2. \A d \in Conns \ {c} : running(d)' <=> running(d)
    BY <1>4 DEF running
  <2>3. QED
    BY <1>1, <1>4, <2>1, <2>2 DEF RegInv, RegistryComplete, clientsOf
<1>8. StatusMirrored'
  BY <1>2, <1>3, <1>4, MembersType DEF RegInv, StatusMirrored, announcing
<1>9. QED
  BY <1>5, <1>6, <1>7, <1>8 DEF RegInv

\* Registration: the new connection joins its user's list, and is the only
\* one whose status the others need not share yet.
LEMMA RegisterReg ==
    ASSUME RegInv, TypeOK', NEW c \in Conns, Register(c)
    PROVE  RegInv'
<1>0. user[c] \in Users /\ pc[c] = "register"
  BY DEF Register, RegInv, TypeOK
<1>1. PICK u \in Users : user[c] = u
  BY <1>0
<1>2. UNCHANGED <<user, sock, accounts>>
  BY DEF Register, db
<1>3. \A v \in Users : c \notin clientsOf(v)
  BY <1>0 DEF RegInv, SignInOrder
<1>4. clients[u] \in Seq(Conns) /\ noDuplicates(clients[u])
  BY <1>1 DEF RegInv, TypeOK, RegistryLive
<1>5. clients'[u] = Append(clients[u], c) /\ \A v \in Users \ {u} : clients'[v] = clients[v]
  BY <1>1 DEF Register, addClientLocked, RegInv, TypeOK
<1>6. clientsOf(u)' = clientsOf(u) \cup {c} /\ noDuplicates(clients'[u])
  BY <1>1, <1>3, <1>4, <1>5, AppendMembers DEF clientsOf
<1>7. \A v \in Users \ {u} : clientsOf(v)' = clientsOf(v)
  BY <1>5 DEF clientsOf
<1>8. pc'[c] = "load" /\ \A d \in Conns \ {c} : pc'[d] = pc[d] /\ status'[d] = status[d]
  BY DEF Register, goto, RegInv, TypeOK
<1>9. SignInOrder'
  <2>1. \A d \in Conns \ {c} : \A v \in Users : d \notin clientsOf(v) => d \notin clientsOf(v)'
    BY <1>6, <1>7
  <2>2. QED
    BY <1>2, <1>8, <2>1 DEF RegInv, SignInOrder
<1>10. RegistryLive'
  <2>1. ASSUME NEW v \in Users PROVE noDuplicates(clients'[v])
    BY <1>5, <1>6 DEF RegInv, RegistryLive
  <2>2. ASSUME NEW v \in Users, NEW d \in clientsOf(v)'
        PROVE  running(d)' /\ user'[d] = v
    <3>1. CASE d = c
      <4>1. v = u
        BY <1>3, <1>7, <3>1
      <4>2. QED
        BY <1>1, <1>2, <1>8, <3>1, <4>1 DEF running
    <3>2. CASE d # c
      <4>1. d \in clientsOf(v)
        BY <1>6, <1>7, <3>2
      <4>2. d \in Conns /\ running(d) /\ user[d] = v
        BY <4>1, MembersType DEF RegInv, RegistryLive
      <4>3. QED
        BY <1>2, <1>8, <3>2, <4>2 DEF running
    <3>3. QED
      BY <3>1, <3>2
  <2>3. QED
    BY <2>1, <2>2 DEF RegistryLive
<1>11. RegistryComplete'
  <2>1. ASSUME NEW d \in Conns, running(d)', pc'[d] # "register", sock'[d] = "open",
               user'[d] \in accounts'
        PROVE  d \in members(clients'[user'[d]])
    <3>1. user[d] \in Users
      BY <1>2, <2>1 DEF RegInv, TypeOK
    <3>2. CASE d = c
      BY <1>1, <1>2, <1>6, <3>2 DEF clientsOf
    <3>3. CASE d # c
      <4>1. d \in clientsOf(user[d])
        BY <1>2, <1>8, <2>1, <3>3 DEF RegInv, RegistryComplete, running
      <4>2. d \in members(clients'[user[d]])
        BY <1>6, <1>7, <3>1, <4>1 DEF clientsOf
      <4>3. QED
        BY <1>2, <4>2
    <3>4. QED
      BY <3>2, <3>3
  <2>2. QED
    BY <2>1 DEF RegistryComplete, clientsOf
<1>12. StatusMirrored'
  <2>1. announcing(c)'
    BY <1>8 DEF announcing
  <2>2. \A v \in Users : \A d \in clientsOf(v)' : d = c \/ (d \in clientsOf(v) /\ d \in Conns \ {c})
    BY <1>6, <1>7, MembersType DEF RegInv
  <2>3. QED
    BY <1>8, <2>1, <2>2 DEF RegInv, StatusMirrored, announcing
<1>13. QED
  BY <1>9, <1>10, <1>11, <1>12 DEF RegInv

\* The read-error path takes exactly the closing connection out of the list.
LEMMA DisconnectReg ==
    ASSUME RegInv, TypeOK', NEW c \in Conns, Disconnect(c)
    PROVE  RegInv'
<1>1. UNCHANGED <<user, sock, status, accounts>>
  BY DEF Disconnect, db
<1>2. /\ pc'[c] \in {"gone", "return"}
      /\ \A d \in Conns \ {c} : pc'[d] = pc[d]
  BY DEF Disconnect, goto, RegInv, TypeOK
<1>3. \A u \in Users : /\ clientsOf(u)' = clientsOf(u) \ {c}
                       /\ noDuplicates(clients'[u])
  <2> TAKE u \in Users
  <2>1. clients[u] \in Seq(Conns) /\ noDuplicates(clients[u])
    BY DEF RegInv, TypeOK, RegistryLive
  <2>2. CASE user[c] = u
    <3>1. clients'[u] = removeFirst(clients[u], c)
      BY <2>2, PresenceAssumption
         DEF Disconnect, dropClient, removeClientLocked, RegInv, TypeOK
    <3>2. QED
      BY <2>1, <3>1, RemoveMembers DEF clientsOf
  <2>3. CASE user[c] # u
    <3>1. clients'[u] = clients[u]
      BY <2>3 DEF Disconnect, dropClient, RegInv, TypeOK
    <3>2. c \notin clientsOf(u)
      BY <2>3 DEF RegInv, RegistryLive
    <3>3. QED
      BY <2>1, <3>1, <3>2 DEF clientsOf
  <2>4. QED
    BY <2>2, <2>3
<1>4. SignInOrder'
  BY <1>1, <1>2, <1>3 DEF RegInv, SignInOrder
<1>5. RegistryLive'
  BY <1>1, <1>2, <1>3, MembersType DEF RegInv, RegistryLive, running
<1>6. RegistryComplete'
  <2>1. ASSUME NEW d \in Conns, running(d)', pc'[d] # "register", sock'[d] = "open",
               user'[d] \in accounts'
        PROVE  d \in members(clients'[user'[d]])
    <3>1. d # c
      BY <1>2, <2>1 DEF running
    <3>2. user[d] \in Users /\ d \in clientsOf(user[d])
      BY <1>1, <1>2, <2>1, <3>1 DEF RegInv, TypeOK, RegistryComplete, running
    <3>3. d \in members(clients'[user[d]])
      BY <1>3, <3>1, <3>2 DEF clientsOf
    <3>4. QED
      BY <1>1, <3>3
  <2>2. QED
    BY <2>1 DEF RegistryComplete, clientsOf
<1>7. StatusMirrored'
  BY <1>1, <1>2, <1>3, MembersType DEF RegInv, StatusMirrored, announcing
<1>8. QED
  BY <1>4, <1>5, <1>6, <1>7 DEF RegInv

\* The loop that copies a status reaches every connection of one user and no
\* connection of another.
LEMMA MirrorReg ==
    ASSUME RegInv, TypeOK', NEW c \in Conns, MirrorStatus(c)
    PROVE  RegInv'
<1>1. UNCHANGED <<user, sock, clients, accounts>>
  BY DEF MirrorStatus, db
<1>2. \A v \in Users : clientsOf(v)' = clientsOf(v)
  BY <1>1 DEF clientsOf
<1>3. user[c] \in Users /\ pc[c] \in {"announce", "mirror"}
  BY DEF MirrorStatus, RegInv, TypeOK
<1>4. pc'[c] = "tell" /\ \A d \in Conns \ {c} : pc'[d] = pc[d]
  BY DEF MirrorStatus, goto, RegInv, TypeOK
<1>5. \A d \in Conns : running(d)' <=> running(d)
  BY <1>3, <1>4 DEF running
<1>6. SignInOrder'
  BY <1>1, <1>2, <1>3, <1>4 DEF RegInv, SignInOrder
<1>7. RegistryLive'
  BY <1>1, <1>2, <1>5, MembersType DEF RegInv, RegistryLive
<1>8. RegistryComplete'
  BY <1>1, <1>3, <1>4, <1>5 DEF RegInv, RegistryComplete, clientsOf
<1>9. StatusMirrored'
  <2>1. ASSUME NEW v \in Users, NEW d \in clientsOf(v), NEW e \in clientsOf(v),
               ~announcing(d)', ~announcing(e)'
        PROVE  status'[d] = status'[e]
    <3>1. d \in Conns /\ e \in Conns /\ user[d] = v /\ user[e] = v
      BY <2>1, MembersType DEF RegInv, RegistryLive
    <3>2. CASE v = user[c]
      BY <2>1, <3>1, <3>2 DEF MirrorStatus, mirrored
    <3>3. CASE v # user[c]
      <4>1. d \notin clientsOf(user[c]) /\ e \notin clientsOf(user[c])
        BY <1>3, <3>1, <3>3 DEF RegInv, RegistryLive
      <4>2. status'[d] = status[d] /\ status'[e] = status[e]
        BY <3>1, <4>1 DEF MirrorStatus, mirrored
      <4>3. d # c /\ e # c
        BY <3>1, <3>3
      <4>4. ~announcing(d) /\ ~announcing(e)
        BY <1>4, <2>1, <3>1, <4>3 DEF announcing
      <4>5. QED
        BY <2>1, <4>2, <4>4 DEF RegInv, StatusMirrored
    <3>4. QED
      BY <3>2, <3>3
  <2>2. QED
    BY <1>2, <2>1 DEF StatusMirrored
<1>10. QED
  BY <1>6, <1>7, <1>8, <1>9 DEF RegInv

\* Emptying a user's whole list: nobody is left in it, and whoever was is
\* being closed or belongs to an erased account.
LEMMA EmptyReg ==
    ASSUME RegInv, TypeOK',
           \/ \E c \in Conns : Unregister(c)
           \/ \E u \in Users : dropAllClients(u)
    PROVE  RegInv'
<1>1. UNCHANGED <<user, status, accounts>>
  BY DEF Unregister, dropAllClients, db
<1>2. PICK u \in Users :
        /\ clients' = [clients EXCEPT ![u] = <<>>]
        /\ u \in accounts => \A d \in clientsOf(u) : sock'[d] # "open"
        /\ \A d \in Conns : sock'[d] = "open" => sock[d] = "open"
        /\ \A d \in Conns : pc'[d] = pc[d] \/ (pc[d] = "unregister" /\ pc'[d] = "return" /\ user[d] = u)
  <2>1. ASSUME NEW c \in Conns, Unregister(c)
        PROVE  /\ user[c] \in Users /\ user[c] \notin accounts
               /\ clients' = [clients EXCEPT ![user[c]] = <<>>]
               /\ \A d \in Conns : sock'[d] = "open" => sock[d] = "open"
               /\ \A d \in Conns : pc'[d] = pc[d]
                      \/ (pc[d] = "unregister" /\ pc'[d] = "return" /\ user[d] = user[c])
    BY <2>1 DEF Unregister, goto, RegInv, TypeOK, SignInOrder
  <2>2. ASSUME NEW v \in Users, dropAllClients(v)
        PROVE  /\ clients' = [clients EXCEPT ![v] = <<>>] /\ pc' = pc
               /\ \A d \in clientsOf(v) : sock'[d] # "open"
               /\ \A d \in Conns : sock'[d] = "open" => sock[d] = "open"
    <3>1. \A d \in Conns : sock'[d] = IF d \in clientsOf(v) /\ sock[d] = "open"
                                      THEN "doomed" ELSE sock[d]
      BY <2>2 DEF dropAllClients
    <3>2. clientsOf(v) \subseteq Conns
      BY MembersType DEF RegInv
    <3>3. QED
      BY <2>2, <3>1, <3>2 DEF dropAllClients
  <2>3. QED
    BY <2>1, <2>2
<1>3. clientsOf(u)' = {} /\ noDuplicates(clients'[u])
  BY <1>2, EmptyMembers DEF clientsOf, RegInv, TypeOK
<1>4. \A v \in Users \ {u} : clients'[v] = clients[v] /\ clientsOf(v)' = clientsOf(v)
  BY <1>2 DEF clientsOf, RegInv, TypeOK
<1>5. SignInOrder'
  <2>1. \A v \in Users : clientsOf(v)' \subseteq clientsOf(v)
    BY <1>3, <1>4
  <2>2. QED
    BY <1>1, <1>2, <2>1 DEF RegInv, SignInOrder
<1>6. RegistryLive'
  <2>1. ASSUME NEW v \in Users, NEW d \in clientsOf(v)'
        PROVE  running(d)' /\ user'[d] = v
    <3>1. v # u /\ d \in clientsOf(v)
      BY <1>3, <1>4, <2>1
    <3>2. d \in Conns /\ running(d) /\ user[d] = v
      BY <3>1, MembersType DEF RegInv, RegistryLive
    <3>3. QED
      BY <1>1, <1>2, <3>1, <3>2 DEF running
  <2>2. \A v \in Users : noDuplicates(clients'[v])
    BY <1>3, <1>4 DEF RegInv, RegistryLive
  <2>3. QED
    BY <2>1, <2>2 DEF RegistryLive
<1>7. RegistryComplete'
  <2>1. ASSUME NEW d \in Conns, running(d)', pc'[d] # "register", sock'[d] = "open",
               user'[d] \in accounts'
        PROVE  d \in members(clients'[user'[d]])
    <3>1. pc'[d] = pc[d]
      BY <1>2, <2>1 DEF running
    <3>2. d \in clientsOf(user[d]) /\ user[d] \in Users
      BY <1>1, <1>2, <2>1, <3>1 DEF RegInv, TypeOK, RegistryComplete, running
    <3>3. user[d] # u
      BY <1>1, <1>2, <2>1, <3>2
    <3>4. QED
      BY <1>1, <1>4, <3>2, <3>3 DEF clientsOf
  <2>2. QED
    BY <2>1 DEF RegistryComplete, clientsOf
<1>8. StatusMirrored'
  <2>1. \A d \in Conns : announcing(d)' <=> announcing(d)
    BY <1>2 DEF announcing
  <2>2. \A v \in Users : clientsOf(v)' \subseteq clientsOf(v) /\ clientsOf(v) \subseteq Conns
    BY <1>3, <1>4, MembersType DEF RegInv
  <2>3. QED
    BY <1>1, <2>1, <2>2 DEF RegInv, StatusMirrored
<1>9. QED
  BY <1>5, <1>6, <1>7, <1>8 DEF RegInv

LEMMA InitReg == Init /\ ~Reauth => RegInv
<1> SUFFICES ASSUME Init, ~Reauth PROVE RegInv
  OBVIOUS
<1>1. TypeOK
  BY InitTypes DEF TypeInv
<1>2. \A u \in Users : clientsOf(u) = {} /\ noDuplicates(clients[u])
  BY EmptyMembers DEF Init, clientsOf
<1>3. \A c \in Conns : pc[c] = "closed" /\ user[c] = NoUser
  BY DEF Init
<1>4. QED
  BY <1>1, <1>2, <1>3
     DEF RegInv, SignInOrder, RegistryLive, RegistryComplete, StatusMirrored, running

LEMMA NextReg == RegInv /\ TypeOK' /\ [Next]_vars => RegInv'
<1> SUFFICES ASSUME RegInv, TypeOK', [Next]_vars PROVE RegInv'
  OBVIOUS
<1>1. ASSUME NEW c \in Conns, Accept(c) \/ Message(c) \/ Disconnect(c) \/ Step(c) \/ Close(c)
      PROVE  RegInv'
  BY <1>1, NewcomerSteps, HandlerSteps, DisconnectReg, ReturnReg, RegisterReg, MirrorReg, EmptyReg
     DEF Message, Step
<1>2. ASSUME NEW u \in Users,
             AdminBan(u) \/ AdminDelete(u) \/ dropAllClients(u) \/ FriendReads(u) \/ FriendIsTold(u)
      PROVE  RegInv'
  BY <1>2, OutsideSteps, EmptyReg
<1>3. CASE UNCHANGED vars
  BY <1>3, OutsideSteps
<1>4. QED
  BY <1>1, <1>2, <1>3 DEF Next

LEMMA RegInvariant == Spec /\ ~Reauth => []RegInv
<1>1. Spec => []TypeOK
  BY TypeCorrect
<1>2. QED
  BY <1>1, InitReg, NextReg, PTL DEF Spec

(***************************************************************************)
(* Where a connection signs in once, the registry never holds a connection *)
(* that is gone, one of another user, or one twice.                        *)
(***************************************************************************)
THEOREM RegistryIsLive == Spec /\ ~Reauth => []RegistryLive
<1>1. RegInv => RegistryLive
  BY DEF RegInv
<1>2. QED
  BY <1>1, RegInvariant, PTL

(***************************************************************************)
(* Nor does a signed-in connection ever drop out of the registry unless    *)
(* the server closes it or its account was erased.                         *)
(***************************************************************************)
THEOREM RegistryIsComplete == Spec /\ ~Reauth => []RegistryComplete
<1>1. RegInv => RegistryComplete
  BY DEF RegInv
<1>2. QED
  BY <1>1, RegInvariant, PTL

(***************************************************************************)
(* All connections of a user that have announced themselves carry the same *)
(* status.                                                                 *)
(***************************************************************************)
THEOREM StatusIsMirrored == Spec /\ ~Reauth => []StatusMirrored
<1>1. RegInv => StatusMirrored
  BY DEF RegInv
<1>2. QED
  BY <1>1, RegInvariant, PTL
=============================================================================
