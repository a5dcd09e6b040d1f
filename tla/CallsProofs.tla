---------------------------- MODULE CallsProofs ----------------------------
(***************************************************************************)
(* Proofs about Calls, for any set of users and connections and any number *)
(* of calls: type correctness, the row bookkeeping, and the two facts the  *)
(* call log rests on.                                                      *)
(***************************************************************************)
EXTENDS Calls, TLAPS

\* Removing a connection leaves a list of connections.
LEMMA RemoveType ==
    ASSUME NEW S, NEW cs \in Seq(S), NEW c
    PROVE  removeFirst(cs, c) \in Seq(S)
<1>1. CASE c \in members(cs)
  <2> DEFINE k == CHOOSE i \in DOMAIN cs : cs[i] = c /\ \A j \in 1..(i - 1) : cs[j] # c
             s == [i \in 1..(Len(cs) - 1) |-> IF i < k THEN cs[i] ELSE cs[i + 1]]
  <2>1. Len(cs) \in Nat /\ Len(cs) >= 1
    BY <1>1 DEF members
  <2>2. \A i \in 1..(Len(cs) - 1) : cs[i] \in S /\ cs[i + 1] \in S
    BY <2>1
  <2>3. Len(cs) - 1 \in Nat
    BY <2>1
  <2> HIDE DEF k
  <2>4. s \in [1..(Len(cs) - 1) -> S]
    BY <2>2
  <2>5. s \in Seq(S)
    BY <2>3, <2>4
  <2>6. QED
    BY <1>1, <2>5 DEF removeFirst, k
<1>2. CASE c \notin members(cs)
  BY <1>2 DEF removeFirst
<1>3. QED
  BY <1>1, <1>2

-----------------------------------------------------------------------------
\* What the row bookkeeping needs between the INSERT of a row and the moment
\* PendingCallID takes it over: the row is open, nobody has met it with an
\* answer, and no other connection knows of it.
NewRowsPrivate ==
    \A c \in Conns : callID[c] # 0 =>
        /\ calls[callID[c]] = "open"
        /\ answeredBy[callID[c]] = {}
        /\ \A d \in Conns : pendingID[d] # callID[c]
        /\ \A d \in Conns \ {c} : callID[d] # callID[c]

\* Row ids are handed out in order, so rows past lastRow are untouched.
UnusedRowsAbsent ==
    \A id \in RowIds : id > lastRow =>
        /\ calls[id] = "absent"
        /\ answeredBy[id] = {}

\* An answer is remembered on the connection that holds the row.
AnswerRemembered ==
    \A c \in Conns : (pendingID[c] # 0 /\ answeredBy[pendingID[c]] # {}) =>
        pendingAnswered[c]

RowInv ==
    /\ PendingRowsOpen
    /\ NewRowsPrivate
    /\ UnusedRowsAbsent
    /\ AnswerRemembered
    /\ AnsweredNeverLoggedMissed

-----------------------------------------------------------------------------
(* Lemmas about the registry helpers. *)

\* The connection a registry lookup returns is one of the list searched or nil.
LEMMA FirstOfType ==
    ASSUME NEW cs \in Seq(Conns), NEW S
    PROVE  firstOf(cs, S) \in Conns \cup {NoConn}
<1> DEFINE First(i) == cs[i] \in S /\ \A j \in 1..(i - 1) : cs[j] \notin S
<1>1. CASE \E i \in DOMAIN cs : First(i)
  <2>1. (CHOOSE i \in DOMAIN cs : First(i)) \in DOMAIN cs
    BY <1>1
  <2>2. QED
    BY <1>1, <2>1 DEF firstOf
<1>2. CASE ~ \E i \in DOMAIN cs : First(i)
  BY <1>2 DEF firstOf
<1>3. QED
  BY <1>1, <1>2

LEMMA LookupTypes ==
    ASSUME TypeOK, NEW u \in Users, NEW w,
           NEW registry \in [Users -> Seq(Conns)]
    PROVE  /\ callPeerLocked(registry, u, w) \in Conns \cup {NoConn}
           /\ pendingCallerLocked(u) \in Conns \cup {NoConn}
<1>1. registry[u] \in Seq(Conns) /\ clients[u] \in Seq(Conns)
  BY DEF TypeOK
<1>2. QED
  BY <1>1, FirstOfType DEF callPeerLocked, pendingCallerLocked

\* Whoever closes a row is a connection that holds one, or nobody.
LEMMA HolderType ==
    ASSUME NEW c \in Conns, NEW peer \in Conns \cup {NoConn}
    PROVE  /\ pendingClient(c, peer) \in Conns \cup {NoConn}
           /\ pendingClient(c, peer) # NoConn => pendingID[pendingClient(c, peer)] # 0
  BY CallsAssumption DEF pendingClient
-----------------------------------------------------------------------------
\* Closing the row of a holder: only that row changes, and only to an outcome.
LEMMA CloseRowEffect ==
    ASSUME TypeOK, NEW h \in Conns \cup {NoConn},
           h # NoConn => pendingID[h] # 0, closeRow(h)
    PROVE  /\ calls' \in [RowIds -> RowState]
           /\ \A id \in RowIds : (h = NoConn \/ id # pendingID[h]) => calls'[id] = calls[id]
           /\ h # NoConn => calls'[pendingID[h]] =
                 IF pendingAnswered[h] THEN "answered" ELSE "missed"
<1>1. CASE h = NoConn
  BY <1>1 DEF closeRow, TypeOK
<1>2. CASE h # NoConn
  <2>1. h \in Conns /\ pendingID[h] \in RowIds
    BY <1>2 DEF TypeOK
  <2>2. calls' = [calls EXCEPT ![pendingID[h]] =
                    IF pendingAnswered[h] THEN "answered" ELSE "missed"]
    BY <1>2 DEF closeRow, finalizeCall
  <2>3. (IF pendingAnswered[h] THEN "answered" ELSE "missed") \in RowState
    BY DEF RowState
  <2>4. QED
    BY <2>1, <2>2, <2>3, <1>2 DEF TypeOK
<1>3. QED
  BY <1>1, <1>2
-----------------------------------------------------------------------------
(* Type correctness. *)

LEMMA InitType == Init => TypeOK
  BY CallsAssumption DEF Init, TypeOK, RowIds, RowState

LEMMA NextType == TypeOK /\ [Next]_vars => TypeOK'
<1> SUFFICES ASSUME TypeOK, [Next]_vars PROVE TypeOK'
  OBVIOUS
<1> USE CallsAssumption
<1>1. ASSUME NEW c \in Conns, Connect(c) PROVE TypeOK'
  <2>1. Append(clients[Owner[c]], c) \in Seq(Conns)
    BY DEF TypeOK
  <2>2. QED
    BY <1>1, <2>1 DEF Connect, TypeOK, locals, callFields, rows, views
<1>2. ASSUME NEW c \in Conns, Disconnect(c) PROVE TypeOK'
  <2> DEFINE u == Owner[c]
             after == [clients EXCEPT ![u] = removeClientLocked(u, c)]
             peer == IF callPartner[c] # NoUser
                     THEN callPeerLocked(after, callPartner[c], u) ELSE NoConn
             holder == IF peer # NoConn THEN pendingClient(c, peer) ELSE NoConn
  <2>1. after \in [Users -> Seq(Conns)]
    BY RemoveType DEF TypeOK, removeClientLocked
  <2>2. peer \in Conns \cup {NoConn}
    BY <2>1, LookupTypes DEF TypeOK
  <2>3. holder \in Conns \cup {NoConn} /\ (holder # NoConn => pendingID[holder] # 0)
    BY <2>2, HolderType
  <2>4. closeRow(holder)
    BY <1>2 DEF Disconnect
  <2> HIDE DEF after, holder
  <2>5. calls' \in [RowIds -> RowState]
    BY <2>3, <2>4, CloseRowEffect
  <2>6. clients' = after
    BY <1>2 DEF Disconnect, after
  <2>7. QED
    BY <1>2, <2>1, <2>5, <2>6 DEF Disconnect, TypeOK, locals, releaseRow
<1>3. ASSUME NEW c \in Conns, recordCallStart(c) PROVE TypeOK'
  <2>1. lastRow + 1 \in RowIds /\ lastRow' \in 0..MaxCalls
    BY <1>3 DEF recordCallStart, TypeOK, RowIds
  <2>2. /\ callID' \in [Conns -> RowIds \cup {0}]
        /\ calls' \in [RowIds -> RowState]
    <3>1. CASE /\ callID' = [callID EXCEPT ![c] = lastRow + 1]
               /\ calls' = [calls EXCEPT ![lastRow + 1] = "open"]
      BY <2>1, <3>1 DEF TypeOK, RowState
    <3>2. CASE /\ callID' = [callID EXCEPT ![c] = 0]
               /\ UNCHANGED calls
      BY <3>2 DEF TypeOK
    <3>3. QED
      BY <1>3, <3>1, <3>2 DEF recordCallStart
  <2>3. QED
    BY <1>3, <2>1, <2>2 DEF recordCallStart, TypeOK, callFields, views
<1>4. ASSUME NEW c \in Conns, OfferPending(c) PROVE TypeOK'
  <2>1. rung' \in [Conns -> SUBSET Users]
    BY <1>4 DEF OfferPending, TypeOK
  <2>2. open' \in [Conns -> SUBSET Users]
    BY <1>4 DEF OfferPending, TypeOK
  <2>3. QED
    BY <1>4, <2>1, <2>2 DEF OfferPending, TypeOK, rows
<1>5. ASSUME NEW c \in Conns, NEW r \in Users, OfferCheck(c, r) PROVE TypeOK'
  BY <1>5 DEF OfferCheck, TypeOK, callFields, rows, views
<1>6. ASSUME NEW c \in Conns, NEW r \in Users, CallAnswer(c, r) PROVE TypeOK'
  BY <1>6 DEF CallAnswer, TypeOK, locals
<1>7. ASSUME NEW c \in Conns, NEW r \in Users, CallEnd(c, r) PROVE TypeOK'
  <2> DEFINE inWith == callPeerLocked(clients, r, Owner[c])
             peer == IF inWith # NoConn THEN inWith ELSE pendingCallerLocked(r)
             holder == pendingClient(c, peer)
  <2>1. peer \in Conns \cup {NoConn}
    BY LookupTypes DEF TypeOK
  <2>2. holder \in Conns \cup {NoConn} /\ (holder # NoConn => pendingID[holder] # 0)
    BY <2>1, HolderType
  <2>3. closeRow(holder)
    BY <1>7 DEF CallEnd
  <2> HIDE DEF holder
  <2>4. calls' \in [RowIds -> RowState]
    BY <2>2, <2>3, CloseRowEffect
  <2>5. QED
    BY <1>7, <2>4 DEF CallEnd, TypeOK, locals, releaseRow
<1>8. ASSUME NEW u \in Users, dropAllClients(u) PROVE TypeOK'
  <2>1. <<>> \in Seq(Conns)
    OBVIOUS
  <2>2. QED
    BY <1>8, <2>1 DEF dropAllClients, TypeOK, locals, callFields, rows, views
<1>9. CASE UNCHANGED vars
  BY <1>9 DEF vars, TypeOK, locals, callFields, rows, views
<1>10. ASSUME NEW c \in Conns, OfferRing(c) PROVE TypeOK'
  <2>1. callee[c] \in Users /\ clientsOf(callee[c]) \in SUBSET Conns
    BY <1>10 DEF OfferRing, TypeOK, clientsOf, members
  <2>2. CASE clientsOf(callee[c]) = {}
    BY <1>10, <2>2 DEF OfferRing, TypeOK, callFields, rows, views
  <2>3. CASE clientsOf(callee[c]) # {}
    <3>1. ring' \in [Conns -> SUBSET Conns]
      BY <1>10, <2>1, <2>3 DEF OfferRing, TypeOK
    <3>2. QED
      BY <1>10, <2>1, <2>3, <3>1 DEF OfferRing, TypeOK, callFields, rows, views
  <2>4. QED
    BY <2>2, <2>3
<1>11. QED
  BY <1>1, <1>2, <1>3, <1>4, <1>5, <1>6, <1>7, <1>8, <1>9, <1>10 DEF Next

\* Every reachable state of the call handlers is well typed.
THEOREM TypeCorrect == Spec => []TypeOK
  BY InitType, NextType, PTL DEF Spec
-----------------------------------------------------------------------------
(* The row bookkeeping. *)

\* Handing a row back: when h, and perhaps a connection g that goes away,
\* forget their rows, and the row of h is closed, RowInv survives.
LEMMA CloseRowKeepsRowInv ==
    ASSUME TypeOK, RowInv, NEW h \in Conns \cup {NoConn}, NEW g \in Conns \cup {NoConn},
           h # NoConn => pendingID[h] # 0, closeRow(h),
           releaseRow({g, h}),
           UNCHANGED <<callID, lastRow, answeredBy>>
    PROVE  RowInv'
<1>1. /\ calls' \in [RowIds -> RowState]
      /\ \A id \in RowIds : (h = NoConn \/ id # pendingID[h]) => calls'[id] = calls[id]
      /\ h # NoConn => calls'[pendingID[h]] =
            IF pendingAnswered[h] THEN "answered" ELSE "missed"
  BY CloseRowEffect
<1>2. \A d \in Conns : pendingID'[d] # 0 =>
          d # h /\ d # g /\ pendingID'[d] = pendingID[d] /\ pendingID[d] \in RowIds
                /\ pendingAnswered'[d] = pendingAnswered[d]
  BY DEF TypeOK, releaseRow
<1>3. h # NoConn => h \in Conns /\ pendingID[h] \in RowIds /\ calls[pendingID[h]] = "open"
  BY DEF TypeOK, RowInv, PendingRowsOpen
<1>4. PendingRowsOpen'
  BY <1>1, <1>2, <1>3 DEF RowInv, PendingRowsOpen
<1>5. NewRowsPrivate'
  <2>1. \A d \in Conns : callID[d] # 0 => callID[d] \in RowIds
    BY DEF TypeOK
  <2>2. QED
    BY <1>1, <1>2, <1>3, <2>1 DEF RowInv, NewRowsPrivate
<1>6. UnusedRowsAbsent'
  BY <1>1, <1>3 DEF RowInv, UnusedRowsAbsent
<1>7. AnswerRemembered'
  BY <1>2 DEF RowInv, AnswerRemembered
<1>8. AnsweredNeverLoggedMissed'
  BY <1>1, <1>3 DEF RowInv, AnsweredNeverLoggedMissed, AnswerRemembered
<1>9. QED
  BY <1>4, <1>5, <1>6, <1>7, <1>8 DEF RowInv

LEMMA InitRowInv == Init => RowInv
  BY CallsAssumption DEF Init, RowInv, PendingRowsOpen, NewRowsPrivate, UnusedRowsAbsent,
     AnswerRemembered, AnsweredNeverLoggedMissed

\* A step that leaves the rows and the fields that name them alone.
LEMMA RowInvUnchanged ==
    ASSUME RowInv, UNCHANGED <<pendingID, pendingAnswered, callID, calls, lastRow, answeredBy>>
    PROVE  RowInv'
  BY DEF RowInv, PendingRowsOpen, NewRowsPrivate, UnusedRowsAbsent, AnswerRemembered,
     AnsweredNeverLoggedMissed

LEMMA NextRowInv == TypeOK /\ RowInv /\ [Next]_vars => RowInv'
<1> SUFFICES ASSUME TypeOK, RowInv, [Next]_vars PROVE RowInv'
  OBVIOUS
<1> USE CallsAssumption
<1>1. ASSUME NEW c \in Conns, Connect(c) PROVE RowInv'
  BY <1>1, RowInvUnchanged DEF Connect, locals, callFields, rows
<1>2. ASSUME NEW c \in Conns, Disconnect(c) PROVE RowInv'
  <2> DEFINE u == Owner[c]
             after == [clients EXCEPT ![u] = removeClientLocked(u, c)]
             peer == IF callPartner[c] # NoUser
                     THEN callPeerLocked(after, callPartner[c], u) ELSE NoConn
             holder == IF peer # NoConn THEN pendingClient(c, peer) ELSE NoConn
  <2>1. after \in [Users -> Seq(Conns)]
    BY RemoveType DEF TypeOK, removeClientLocked
  <2>2. peer \in Conns \cup {NoConn}
    BY <2>1, LookupTypes DEF TypeOK
  <2>3. holder \in Conns \cup {NoConn} /\ (holder # NoConn => pendingID[holder] # 0)
    BY <2>2, HolderType
  <2>4. /\ closeRow(holder)
        /\ releaseRow({c, holder})
        /\ UNCHANGED <<callID, lastRow, answeredBy>>
    BY <1>2 DEF Disconnect, locals
  <2> HIDE DEF holder
  <2>5. QED
    BY <2>3, <2>4, CloseRowKeepsRowInv
<1>3. ASSUME NEW c \in Conns, recordCallStart(c) PROVE RowInv'
  <2>1. lastRow + 1 \in RowIds /\ lastRow' = lastRow + 1 /\ lastRow \in Nat
    BY <1>3 DEF recordCallStart, TypeOK, RowIds
  <2>2. calls[lastRow + 1] = "absent" /\ answeredBy[lastRow + 1] = {}
    BY <2>1 DEF RowInv, UnusedRowsAbsent
  <2>3. UNCHANGED <<pendingID, pendingAnswered, answeredBy>>
    BY <1>3 DEF recordCallStart, callFields
  <2>4. CASE /\ callID' = [callID EXCEPT ![c] = lastRow + 1]
             /\ calls' = [calls EXCEPT ![lastRow + 1] = "open"]
    <3>1. \A d \in Conns : /\ pendingID[d] # lastRow + 1
                           /\ callID[d] # lastRow + 1
      BY <2>2, <2>1 DEF RowInv, PendingRowsOpen, NewRowsPrivate
    <3>2. PendingRowsOpen'
      BY <2>3, <2>4, <3>1 DEF RowInv, PendingRowsOpen, TypeOK
    <3>3. NewRowsPrivate'
      BY <2>1, <2>2, <2>3, <2>4, <3>1 DEF RowInv, NewRowsPrivate, TypeOK
    <3>4. UnusedRowsAbsent'
      BY <2>1, <2>3, <2>4 DEF RowInv, UnusedRowsAbsent, TypeOK, RowIds
    <3>5. AnswerRemembered' /\ AnsweredNeverLoggedMissed'
      BY <2>3, <2>4 DEF RowInv, AnswerRemembered, AnsweredNeverLoggedMissed, TypeOK
    <3>6. QED
      BY <3>2, <3>3, <3>4, <3>5 DEF RowInv
  <2>5. CASE callID' = [callID EXCEPT ![c] = 0] /\ UNCHANGED calls
    <3>1. UnusedRowsAbsent'
      BY <2>1, <2>3, <2>5 DEF RowInv, UnusedRowsAbsent, RowIds
    <3>2. NewRowsPrivate'
      BY <2>3, <2>5 DEF RowInv, NewRowsPrivate, TypeOK
    <3>3. PendingRowsOpen' /\ AnswerRemembered' /\ AnsweredNeverLoggedMissed'
      BY <2>3, <2>5 DEF RowInv, PendingRowsOpen, AnswerRemembered, AnsweredNeverLoggedMissed
    <3>4. QED
      BY <3>1, <3>2, <3>3 DEF RowInv
  <2>6. QED
    BY <1>3, <2>4, <2>5 DEF recordCallStart
<1>4. ASSUME NEW c \in Conns, OfferPending(c) PROVE RowInv'
  <2>1. /\ pendingID' = [pendingID EXCEPT ![c] = callID[c]]
        /\ callID' = [callID EXCEPT ![c] = 0]
        /\ UNCHANGED <<pendingAnswered, calls, lastRow, answeredBy>>
    BY <1>4 DEF OfferPending, rows
  <2>2. PendingRowsOpen'
    BY <2>1 DEF RowInv, PendingRowsOpen, NewRowsPrivate, TypeOK
  <2>3. NewRowsPrivate'
    BY <2>1 DEF RowInv, NewRowsPrivate, TypeOK
  <2>4. AnswerRemembered'
    BY <2>1 DEF RowInv, AnswerRemembered, NewRowsPrivate, TypeOK
  <2>5. UnusedRowsAbsent' /\ AnsweredNeverLoggedMissed'
    BY <2>1 DEF RowInv, UnusedRowsAbsent, AnsweredNeverLoggedMissed
  <2>6. QED
    BY <2>2, <2>3, <2>4, <2>5 DEF RowInv
<1>5. ASSUME NEW c \in Conns, NEW r \in Users, OfferCheck(c, r) PROVE RowInv'
  BY <1>5, RowInvUnchanged DEF OfferCheck, callFields, rows
<1>6. ASSUME NEW c \in Conns, NEW r \in Users, CallAnswer(c, r) PROVE RowInv'
  <2> DEFINE caller == pendingCallerLocked(r)
  <2>1. /\ pendingAnswered' = [d \in Conns |-> pendingAnswered[d] \/ d = caller]
        /\ answeredBy' = [id \in RowIds |->
              IF caller # NoConn /\ pendingID[caller] = id
              THEN answeredBy[id] \cup {c} ELSE answeredBy[id]]
        /\ UNCHANGED <<callID, pendingID, calls, lastRow>>
    BY <1>6 DEF CallAnswer, locals
  <2>2. caller \in Conns \cup {NoConn}
    BY LookupTypes DEF TypeOK
  <2> HIDE DEF caller
  <2>3. \A id \in RowIds : answeredBy'[id] # answeredBy[id] =>
            caller \in Conns /\ pendingID[caller] = id /\ calls[id] = "open" /\ id # 0
    BY <2>1, <2>2 DEF RowInv, PendingRowsOpen, RowIds
  <2>4. PendingRowsOpen'
    BY <2>1 DEF RowInv, PendingRowsOpen
  <2>5. NewRowsPrivate'
    <3> SUFFICES ASSUME NEW d \in Conns, callID[d] # 0
                 PROVE  /\ calls[callID[d]] = "open"
                        /\ answeredBy'[callID[d]] = {}
                        /\ \A e \in Conns : pendingID[e] # callID[d]
                        /\ \A e \in Conns \ {d} : callID[e] # callID[d]
      BY <2>1 DEF NewRowsPrivate
    <3>1. callID[d] \in RowIds
      BY DEF TypeOK
    <3>2. answeredBy'[callID[d]] = answeredBy[callID[d]]
      BY <2>3, <3>1 DEF RowInv, NewRowsPrivate
    <3>3. QED
      BY <3>2 DEF RowInv, NewRowsPrivate
  <2>6. UnusedRowsAbsent'
    BY <2>1, <2>3 DEF RowInv, UnusedRowsAbsent
  <2>7. AnswerRemembered'
    <3> SUFFICES ASSUME NEW d \in Conns, pendingID[d] # 0, answeredBy'[pendingID[d]] # {}
                 PROVE  pendingAnswered'[d]
      BY <2>1 DEF AnswerRemembered
    <3>1. pendingID[d] \in RowIds
      BY DEF TypeOK
    <3>2. CASE answeredBy[pendingID[d]] # {}
      BY <2>1, <3>2 DEF RowInv, AnswerRemembered
    <3>3. CASE answeredBy[pendingID[d]] = {}
      <4>1. caller \in Conns /\ pendingID[caller] = pendingID[d]
        BY <2>3, <3>1, <3>3
      <4>2. caller = d
        BY <4>1 DEF RowInv, PendingRowsOpen
      <4>3. QED
        BY <2>1, <4>2
    <3>4. QED
      BY <3>2, <3>3
  <2>8. AnsweredNeverLoggedMissed'
    BY <2>1, <2>3 DEF RowInv, AnsweredNeverLoggedMissed
  <2>9. QED
    BY <2>4, <2>5, <2>6, <2>7, <2>8 DEF RowInv
<1>7. ASSUME NEW c \in Conns, NEW r \in Users, CallEnd(c, r) PROVE RowInv'
  <2> DEFINE inWith == callPeerLocked(clients, r, Owner[c])
             peer == IF inWith # NoConn THEN inWith ELSE pendingCallerLocked(r)
             holder == pendingClient(c, peer)
  <2>1. peer \in Conns \cup {NoConn}
    BY LookupTypes DEF TypeOK
  <2>2. holder \in Conns \cup {NoConn} /\ (holder # NoConn => pendingID[holder] # 0)
    BY <2>1, HolderType
  <2>3. /\ closeRow(holder)
        /\ releaseRow({holder})
        /\ UNCHANGED <<callID, lastRow, answeredBy>>
    BY <1>7 DEF CallEnd, locals
  <2> HIDE DEF holder
  <2>4. releaseRow({NoConn, holder})
    BY <2>3 DEF releaseRow
  <2>5. QED
    BY <2>2, <2>3, <2>4, CloseRowKeepsRowInv
<1>8. ASSUME NEW u \in Users, dropAllClients(u) PROVE RowInv'
  BY <1>8, RowInvUnchanged DEF dropAllClients, locals, callFields, rows
<1>9. CASE UNCHANGED vars
  BY <1>9, RowInvUnchanged DEF vars, locals, callFields, rows
<1>10. ASSUME NEW c \in Conns, OfferRing(c) PROVE RowInv'
  BY <1>10, RowInvUnchanged DEF OfferRing, callFields, rows
<1>11. QED
  BY <1>1, <1>2, <1>3, <1>4, <1>5, <1>6, <1>7, <1>8, <1>9, <1>10 DEF Next
-----------------------------------------------------------------------------
(* The theorems. *)

LEMMA Invariance == Spec => [](TypeOK /\ RowInv)
<1>1. Init => TypeOK /\ RowInv
  BY InitType, InitRowInv
<1>2. TypeOK /\ RowInv /\ [Next]_vars => (TypeOK /\ RowInv)'
  BY NextType, NextRowInv
<1>3. QED
  BY <1>1, <1>2, PTL DEF Spec

\* Whatever the interleaving of offers, answers, hang-ups and disconnects, a
\* row named by some PendingCallID is open and named by nobody else.
THEOREM PendingRowsAlwaysOpen == Spec => []PendingRowsOpen
<1>1. TypeOK /\ RowInv => PendingRowsOpen
  BY DEF RowInv
<1>2. QED
  BY <1>1, Invariance, PTL

\* A call somebody answered is never written to the call log as missed.
THEOREM AnsweredNeverMissed == Spec => []AnsweredNeverLoggedMissed
<1>1. TypeOK /\ RowInv => AnsweredNeverLoggedMissed
  BY DEF RowInv
<1>2. QED
  BY <1>1, Invariance, PTL

\* The outcome finalizeCall writes is the last word on the row: the row left
\* every PendingCallID in the same critical section.
THEOREM OutcomesAreFinal == Spec => OutcomeIsFinal
<1> DEFINE Stays == \A id \in RowIds : calls[id] \in {"missed", "answered"} =>
                                          calls'[id] = calls[id]
<1>1. TypeOK /\ RowInv /\ [Next]_vars => [Stays]_vars
  <2> SUFFICES ASSUME TypeOK, RowInv, Next PROVE Stays
    OBVIOUS
  <2> USE CallsAssumption
  <2>1. ASSUME NEW h \in Conns \cup {NoConn}, h # NoConn => pendingID[h] # 0, closeRow(h)
        PROVE  Stays
    <3>1. \A id \in RowIds : (h = NoConn \/ id # pendingID[h]) => calls'[id] = calls[id]
      BY <2>1, CloseRowEffect
    <3>2. h # NoConn => calls[pendingID[h]] = "open"
      BY <2>1 DEF RowInv, PendingRowsOpen
    <3>3. QED
      BY <3>1, <3>2
  <2>2. ASSUME NEW c \in Conns, Disconnect(c) PROVE Stays
    <3> DEFINE u == Owner[c]
               after == [clients EXCEPT ![u] = removeClientLocked(u, c)]
               peer == IF callPartner[c] # NoUser
                       THEN callPeerLocked(after, callPartner[c], u) ELSE NoConn
               holder == IF peer # NoConn THEN pendingClient(c, peer) ELSE NoConn
    <3>1. after \in [Users -> Seq(Conns)]
      BY RemoveType DEF TypeOK, removeClientLocked
    <3>2. peer \in Conns \cup {NoConn}
      BY <3>1, LookupTypes DEF TypeOK
    <3>3. holder \in Conns \cup {NoConn} /\ (holder # NoConn => pendingID[holder] # 0)
      BY <3>2, HolderType
    <3>4. closeRow(holder)
      BY <2>2 DEF Disconnect
    <3> HIDE DEF holder, Stays
    <3>5. QED
      BY <2>1, <3>3, <3>4
  <2>3. ASSUME NEW c \in Conns, NEW r \in Users, CallEnd(c, r) PROVE Stays
    <3> DEFINE inWith == callPeerLocked(clients, r, Owner[c])
               peer == IF inWith # NoConn THEN inWith ELSE pendingCallerLocked(r)
               holder == pendingClient(c, peer)
    <3>1. peer \in Conns \cup {NoConn}
      BY LookupTypes DEF TypeOK
    <3>2. holder \in Conns \cup {NoConn} /\ (holder # NoConn => pendingID[holder] # 0)
      BY <3>1, HolderType
    <3>3. closeRow(holder)
      BY <2>3 DEF CallEnd
    <3> HIDE DEF holder, Stays
    <3>4. QED
      BY <2>1, <3>2, <3>3
  <2>4. ASSUME NEW c \in Conns, recordCallStart(c) PROVE Stays
    <3>1. lastRow + 1 \in RowIds /\ lastRow \in Nat
      BY <2>4 DEF recordCallStart, TypeOK, RowIds
    <3>2. calls[lastRow + 1] = "absent"
      BY <3>1 DEF RowInv, UnusedRowsAbsent
    <3>3. calls' = calls \/ calls' = [calls EXCEPT ![lastRow + 1] = "open"]
      BY <2>4 DEF recordCallStart
    <3>4. QED
      BY <3>1, <3>2, <3>3 DEF TypeOK
  <2>5. ASSUME UNCHANGED calls PROVE Stays
    BY <2>5
  <2>6. ASSUME NEW c \in Conns, Connect(c) \/ OfferRing(c) \/ OfferPending(c) PROVE UNCHANGED calls
    BY <2>6 DEF Connect, OfferRing, OfferPending, rows
  <2>7. ASSUME NEW c \in Conns, NEW r \in Users, OfferCheck(c, r) \/ CallAnswer(c, r)
        PROVE  UNCHANGED calls
    BY <2>7 DEF OfferCheck, CallAnswer, rows
  <2>8. ASSUME NEW u \in Users, dropAllClients(u) PROVE UNCHANGED calls
    BY <2>8 DEF dropAllClients, rows
  <2> HIDE DEF Stays
  <2>9. QED
    BY <2>2, <2>3, <2>4, <2>5, <2>6, <2>7, <2>8 DEF Next
<1>2. QED
  BY <1>1, Invariance, PTL DEF Spec, OutcomeIsFinal
=============================================================================
