------------------------------- MODULE Calls -------------------------------
(***************************************************************************)
(* One-to-one calls of the Nexus relay: the per-connection call fields of  *)
(* the Client struct, the registry that finds "the" connection of a user,  *)
(* the calls table, and the call_offer, call_answer, call_end/call_reject  *)
(* handlers and the read-error path of a connection.                       *)
(*                                                                         *)
(* Every WebSocket has one goroutine, which runs one handler at a time.    *)
(* The handlers of different connections interleave wherever they do not   *)
(* hold s.Mu: call_offer is four steps (busy check, whom to ring, INSERT,  *)
(* pending fields), the others work under one Lock and are one step.       *)
(***************************************************************************)
EXTENDS Naturals, Sequences, Registry

CONSTANTS
    Users,      \* account names
    Conns,      \* connections (WebSockets), each with its *Client
    Owner,      \* Owner[c]: the account connection c signs in to
    Friends,    \* pairs <<u, v>> for which areFriends(u, v) holds
    NoUser,     \* the empty username
    NoConn,     \* the nil *Client
    DBMayFail,  \* whether an INSERT into calls can be refused
    MaxCalls    \* bound on rows of the calls table

ASSUME CallsAssumption ==
    /\ Owner \in [Conns -> Users]
    /\ Friends \subseteq Users \X Users
    /\ NoUser \notin Users
    /\ NoConn \notin Conns
    /\ DBMayFail \in BOOLEAN
    /\ MaxCalls \in Nat

VARIABLES
    clients,    \* s.Clients: username -> connections, in order of registration
    pc,         \* where the connection's goroutine is
    callee,     \* local of call_offer: msg.Recipient
    ring,       \* local of call_offer: the snapshot of connections to ring
    callID,     \* local of call_offer: the id recordCallStart returned
    inCall, callPartner, pendingRoom, pendingID, pendingAnswered,
    calls,      \* the calls table: outcome of each row
    lastRow,    \* row ids used so far (a refused INSERT uses one up too)
    answeredBy, \* history: connections whose call_answer met the row
    rung,       \* callers that rang this client, which it may still answer
    open        \* peers this client dialled or answered, and may still end

callFields == <<inCall, callPartner, pendingRoom, pendingID, pendingAnswered>>
locals == <<callee, ring, callID>>
rows == <<calls, lastRow, answeredBy>>
views == <<rung, open>>
vars == <<clients, pc, locals, callFields, rows, views>>

RowIds == 1..MaxCalls
RowState == {"absent", "open", "missed", "answered"}

TypeOK ==
    /\ clients \in [Users -> Seq(Conns)]
    /\ pc \in [Conns -> {"closed", "read", "ring", "record", "pend"}]
    /\ callee \in [Conns -> Users \cup {NoUser}]
    /\ \A c \in Conns : pc[c] \in {"ring", "record", "pend"} => callee[c] \in Users
    /\ ring \in [Conns -> SUBSET Conns]
    /\ callID \in [Conns -> RowIds \cup {0}]
    /\ inCall \in [Conns -> BOOLEAN]
    /\ callPartner \in [Conns -> Users \cup {NoUser}]
    /\ pendingRoom \in [Conns -> BOOLEAN]
    /\ pendingID \in [Conns -> RowIds \cup {0}]
    /\ pendingAnswered \in [Conns -> BOOLEAN]
    /\ calls \in [RowIds -> RowState]
    /\ lastRow \in 0..MaxCalls
    /\ answeredBy \in [RowIds -> SUBSET Conns]
    /\ rung \in [Conns -> SUBSET Users]
    /\ open \in [Conns -> SUBSET Users]

Init ==
    /\ clients = [u \in Users |-> <<>>]
    /\ pc = [c \in Conns |-> "closed"]
    /\ callee = [c \in Conns |-> NoUser]
    /\ ring = [c \in Conns |-> {}]
    /\ callID = [c \in Conns |-> 0]
    /\ inCall = [c \in Conns |-> FALSE]
    /\ callPartner = [c \in Conns |-> NoUser]
    /\ pendingRoom = [c \in Conns |-> FALSE]
    /\ pendingID = [c \in Conns |-> 0]
    /\ pendingAnswered = [c \in Conns |-> FALSE]
    /\ calls = [r \in RowIds |-> "absent"]
    /\ lastRow = 0
    /\ answeredBy = [r \in RowIds |-> {}]
    /\ rung = [c \in Conns |-> {}]
    /\ open = [c \in Conns |-> {}]

-----------------------------------------------------------------------------
(* The registry, as the call handlers use it. *)

\* clientsOf: a copy of the user's connections.
clientsOf(u) == members(clients[u])

\* The first connection of the list cs that lies in S, or nil.
firstOf(cs, S) ==
    LET First(i) == cs[i] \in S /\ \A j \in 1..(i - 1) : cs[j] \notin S
    IN  IF \E i \in DOMAIN cs : First(i)
        THEN cs[CHOOSE i \in DOMAIN cs : First(i)]
        ELSE NoConn

anyClientInCall(u) == \E c \in clientsOf(u) : inCall[c]

callPeerLocked(registry, peer, with) ==
    firstOf(registry[peer], {c \in Conns : inCall[c] /\ callPartner[c] = with})

pendingCallerLocked(caller) ==
    firstOf(clients[caller], {c \in Conns : pendingRoom[c] \/ pendingID[c] # 0})

removeClientLocked(u, c) == removeFirst(clients[u], c)

-----------------------------------------------------------------------------
(* Connections come and go. *)

\* A signed-in connection enters the registry with a fresh Client.
Connect(c) ==
    /\ pc[c] = "closed"
    /\ pc' = [pc EXCEPT ![c] = "read"]
    /\ clients' = [clients EXCEPT ![Owner[c]] = Append(@, c)]
    /\ UNCHANGED <<locals, callFields, rows, views>>

\* finalizeCall: an unanswered call is a miss, whatever the ringing time.
finalizeCall(id, answered) ==
    calls' = [calls EXCEPT ![id] = IF answered THEN "answered" ELSE "missed"]

\* The row of a call lives on whichever side placed it.
pendingClient(c, peer) ==
    IF pendingID[c] # 0 THEN c
    ELSE IF peer # NoConn /\ pendingID[peer] # 0 THEN peer
    ELSE NoConn

\* Mutant: the answered flag is cleared before it is read.
closeRow_AfterReset(holder) ==
    IF holder # NoConn
    THEN finalizeCall(pendingID[holder], FALSE)
    ELSE UNCHANGED calls

\* Write the outcome of the row the holder, if there is one, holds.
closeRow(holder) ==
    IF holder # NoConn
    THEN finalizeCall(pendingID[holder], pendingAnswered[holder])
    ELSE UNCHANGED calls

\* Mutant: PendingCallID survives the hang-up.
releaseRow_KeepsID(cs) ==
    /\ pendingAnswered' = [d \in Conns |-> pendingAnswered[d] /\ d \notin cs]
    /\ UNCHANGED pendingID

\* PendingCallID = 0, PendingCallAnswered = false on the connections cs.
releaseRow(cs) ==
    /\ pendingID' = [d \in Conns |-> IF d \in cs THEN 0 ELSE pendingID[d]]
    /\ pendingAnswered' = [d \in Conns |-> pendingAnswered[d] /\ d \notin cs]

\* ReadJSON failed. The registry entry goes, the peer of a call is freed and
\* its row closed, all under s.Mu. The Client object is garbage afterwards:
\* its fields are reset to those of the next connection.
Disconnect(c) ==
    LET u == Owner[c]
        after == [clients EXCEPT ![u] = removeClientLocked(u, c)]
        peer == IF callPartner[c] # NoUser
                THEN callPeerLocked(after, callPartner[c], u)
                ELSE NoConn
        holder == IF peer # NoConn THEN pendingClient(c, peer) ELSE NoConn
        gone == {c, peer}
    IN  /\ pc[c] = "read"
        /\ pc' = [pc EXCEPT ![c] = "closed"]
        /\ clients' = after
        /\ closeRow(holder)
        /\ inCall' = [d \in Conns |-> inCall[d] /\ d \notin gone]
        /\ callPartner' =
              [d \in Conns |-> IF d \in gone THEN NoUser ELSE callPartner[d]]
        /\ pendingRoom' = [pendingRoom EXCEPT ![c] = FALSE]
        /\ releaseRow({c, holder})
        /\ rung' = [rung EXCEPT ![c] = {}]
        /\ open' = [open EXCEPT ![c] = {}]
        /\ UNCHANGED <<locals, lastRow, answeredBy>>

\* dropAllClients, and delete(s.Clients, username) of delete_account: the
\* registry forgets the user while the read loops still run.
dropAllClients(u) ==
    /\ clients[u] # <<>>
    /\ clients' = [clients EXCEPT ![u] = <<>>]
    /\ UNCHANGED <<pc, locals, callFields, rows, views>>

-----------------------------------------------------------------------------
(* call_offer *)

\* Mutant: the callee is not kept for the steps that follow.
OfferCheck_NoCallee(c, r) ==
    /\ pc[c] = "read" /\ lastRow < MaxCalls
    /\ <<Owner[c], r>> \in Friends
    /\ ~ anyClientInCall(r)
    /\ pc' = [pc EXCEPT ![c] = "ring"]
    /\ UNCHANGED <<clients, locals, callFields, rows, views>>

\* Friendship and the busy check. A failed check answers the caller and
\* changes nothing. (MaxCalls ends the offers, too.)
OfferCheck(c, r) ==
    /\ pc[c] = "read" /\ lastRow < MaxCalls
    /\ <<Owner[c], r>> \in Friends
    /\ ~ anyClientInCall(r)
    /\ callee' = [callee EXCEPT ![c] = r]
    /\ pc' = [pc EXCEPT ![c] = "ring"]
    /\ UNCHANGED <<clients, ring, callID, callFields, rows, views>>

\* The snapshot of the connections to ring, and the end of the call if there
\* are none.
OfferRing(c) ==
    /\ pc[c] = "ring"
    /\ IF clientsOf(callee[c]) = {}
       THEN /\ pc' = [pc EXCEPT ![c] = "read"]
            /\ callee' = [callee EXCEPT ![c] = NoUser]
            /\ UNCHANGED ring
       ELSE /\ pc' = [pc EXCEPT ![c] = "record"]
            /\ ring' = [ring EXCEPT ![c] = clientsOf(callee[c])]
            /\ UNCHANGED callee
    /\ UNCHANGED <<clients, callID, callFields, rows, views>>

\* recordCallStart: INSERT a row, or id 0 when the database refuses.
recordCallStart(c) ==
    /\ pc[c] = "record"
    /\ pc' = [pc EXCEPT ![c] = "pend"]
    /\ lastRow < MaxCalls
    /\ lastRow' = lastRow + 1
    /\ \/ /\ callID' = [callID EXCEPT ![c] = lastRow + 1]
          /\ calls' = [calls EXCEPT ![lastRow + 1] = "open"]
       \/ /\ DBMayFail
          /\ callID' = [callID EXCEPT ![c] = 0]
          /\ UNCHANGED calls
    /\ UNCHANGED <<clients, callee, ring, callFields, answeredBy, views>>

\* The pending fields, under s.Mu, then the offer goes to every session.
\* PendingCallAnswered keeps the value an earlier call left.
OfferPending(c) ==
    /\ pc[c] = "pend"
    /\ pc' = [pc EXCEPT ![c] = "read"]
    /\ pendingRoom' = [pendingRoom EXCEPT ![c] = TRUE]
    /\ pendingID' = [pendingID EXCEPT ![c] = callID[c]]
    /\ rung' = [d \in Conns |-> IF d \in ring[c] /\ pc[d] # "closed"
                                THEN rung[d] \cup {Owner[c]} ELSE rung[d]]
    /\ open' = [open EXCEPT ![c] = @ \cup {callee[c]}]
    /\ callee' = [callee EXCEPT ![c] = NoUser]
    /\ ring' = [ring EXCEPT ![c] = {}]
    /\ callID' = [callID EXCEPT ![c] = 0]
    /\ UNCHANGED <<clients, inCall, callPartner, pendingAnswered, rows>>

-----------------------------------------------------------------------------
(* call_answer and call_end / call_reject *)

\* c accepts the call r is ringing it with. The answering connection is put
\* in the call whether or not a pending caller is found.
CallAnswer(c, r) ==
    LET caller == pendingCallerLocked(r)
    IN  /\ pc[c] = "read"
        /\ r \in rung[c]
        /\ inCall' = [d \in Conns |-> inCall[d] \/ d \in {c, caller}]
        /\ callPartner' = [d \in Conns |-> IF d = c THEN r
                                           ELSE IF d = caller THEN Owner[c]
                                           ELSE callPartner[d]]
        /\ pendingRoom' = [d \in Conns |-> pendingRoom[d] /\ d # caller]
        /\ pendingAnswered' =
              [d \in Conns |-> pendingAnswered[d] \/ d = caller]
        /\ answeredBy' = [id \in RowIds |->
              IF caller # NoConn /\ pendingID[caller] = id
              THEN answeredBy[id] \cup {c} ELSE answeredBy[id]]
        /\ rung' = [rung EXCEPT ![c] = @ \ {r}]
        /\ open' = [open EXCEPT ![c] = @ \cup {r}]
        /\ UNCHANGED <<clients, pc, locals, pendingID, calls, lastRow>>

\* c hangs up on, cancels or declines its call with r.
CallEnd(c, r) ==
    LET inWith == callPeerLocked(clients, r, Owner[c])
        peer == IF inWith # NoConn THEN inWith ELSE pendingCallerLocked(r)
        holder == pendingClient(c, peer)
        both == {c, peer}
    IN  /\ pc[c] = "read"
        /\ r \in rung[c] \cup open[c]
        /\ closeRow(holder)
        /\ releaseRow({holder})
        /\ inCall' = [d \in Conns |-> inCall[d] /\ d \notin both]
        /\ callPartner' =
              [d \in Conns |-> IF d \in both THEN NoUser ELSE callPartner[d]]
        /\ rung' = [rung EXCEPT ![c] = @ \ {r}]
        /\ open' = [open EXCEPT ![c] = @ \ {r}]
        /\ UNCHANGED <<clients, pc, locals, pendingRoom, lastRow, answeredBy>>

Next ==
    \/ \E c \in Conns :
          \/ Connect(c)
          \/ Disconnect(c)
          \/ OfferRing(c)
          \/ recordCallStart(c)
          \/ OfferPending(c)
          \/ \E r \in Users : \/ OfferCheck(c, r)
                              \/ CallAnswer(c, r)
                              \/ CallEnd(c, r)
    \/ \E u \in Users : dropAllClients(u)

Spec == Init /\ [][Next]_vars

-----------------------------------------------------------------------------
(* What the call log and the call fields guarantee. *)

\* A row a connection holds in PendingCallID is still open, and no two
\* connections hold the same row (call_offer hands each row to one Client).
PendingRowsOpen ==
    \A c \in Conns : pendingID[c] # 0 =>
        /\ calls[pendingID[c]] = "open"
        /\ \A d \in Conns \ {c} : pendingID[d] # pendingID[c]

\* Once finalizeCall has written the outcome of a row, no later hang-up,
\* decline or disconnect of anybody writes it again.
OutcomeIsFinal ==
    [][\A id \in RowIds : calls[id] \in {"missed", "answered"} =>
                              calls'[id] = calls[id]]_vars

\* A call somebody picked up is never logged as missed, even when the hang-up
\* comes from the side that does not hold the row.
AnsweredNeverLoggedMissed ==
    \A id \in RowIds : calls[id] = "missed" => answeredBy[id] = {}
=============================================================================
