------------------------------ MODULE Mailbox ------------------------------
(***************************************************************************)
(* How a message reaches one recipient: the durable history, the live      *)
(* fan-out to the recipient's connections, the queue of offline messages   *)
(* and its replay at sign-in; editing and deleting what was sent.          *)
(*                                                                         *)
(* A message has a handler (msg, or convo_msg for this recipient's share   *)
(* of a group message) that runs on its sender's connection; a retry runs  *)
(* it again with the same msg_id.  A database statement and the sends of   *)
(* one sendTo are one step each.                                           *)
(***************************************************************************)
EXTENDS Naturals, FiniteSets

CONSTANTS
    Msgs,       \* messages to the recipient, by msg_id
    GroupMsgs,  \* those sent to a conversation
    Conns,      \* the recipient's connections
    MaxSends,   \* bound on the times a client sends each message
    MaxRows,    \* bound on rows ever put into offline_messages
    MaxCopies   \* bound: a connection with as many copies of a message is not used again

ASSUME MailboxAssumption ==
    /\ GroupMsgs \subseteq Msgs
    /\ MaxSends \in [Msgs -> Nat] /\ MaxRows \in Nat /\ MaxCopies \in Nat

VARIABLES
    pc,         \* where the handler of the message is
    sends,      \* how often its client has sent it
    history,    \* dm_messages (convo_messages for a group message)
    rows,       \* offline_messages: records [id, msg]
    lastId,     \* AUTOINCREMENT of offline_messages
    at,         \* where the connection's goroutine is
    broken,     \* connections whose peer is gone though no read failed yet
    batch,      \* deliverOfflineMessages: rows read and not sent yet
    ids,        \* deliverOfflineMessages: rows sent and not deleted yet
    got,        \* copies of each message that reached each connection
    bare,       \* group messages that reached one without their conversation
    failed      \* what has gone wrong so far: "net", a peer; "db", a statement

sender == <<pc, sends>>
queue == <<rows, lastId>>
replay == <<at, broken, batch, ids>>
arrived == <<got, bare>>
vars == <<sender, history, queue, replay, arrived, failed>>

RowIds == 1..MaxRows
Row == [id : RowIds, msg : Msgs]

TypeOK ==
    /\ pc \in [Msgs -> {"idle", "persist", "send", "store"}]
    /\ sends \in [Msgs -> Nat] /\ \A m \in Msgs : sends[m] <= MaxSends[m]
    /\ history \in [Msgs -> {"none", "sent", "edited", "deleted"}]
    /\ rows \subseteq Row
    /\ lastId \in 0..MaxRows
    /\ at \in [Conns -> {"off", "select", "replay", "read"}]
    /\ broken \subseteq Conns
    /\ batch \in [Conns -> SUBSET Row]
    /\ ids \in [Conns -> SUBSET Row]
    /\ got \in [Conns -> [Msgs -> Nat]]
    /\ bare \subseteq GroupMsgs
    /\ failed \subseteq {"net", "db"}

Init ==
    /\ pc = [m \in Msgs |-> "idle"]
    /\ sends = [m \in Msgs |-> 0]
    /\ history = [m \in Msgs |-> "none"]
    /\ rows = {}
    /\ lastId = 0
    /\ at = [c \in Conns |-> "off"]
    /\ broken = {}
    /\ batch = [c \in Conns |-> {}]
    /\ ids = [c \in Conns |-> {}]
    /\ got = [c \in Conns |-> [m \in Msgs |-> 0]]
    /\ bare = {}
    /\ failed = {}

dbFails == failed' = failed \cup {"db"}

\* An Exec whose error is logged at most: it has its effect, or fails.
Exec(effect, none) == (effect /\ UNCHANGED failed) \/ (none /\ dbFails)

-----------------------------------------------------------------------------
(* The sender's side. *)

\* A client sends the message, or sends it again.
Submit(m) ==
    /\ pc[m] = "idle" /\ sends[m] < MaxSends[m]
    /\ pc' = [pc EXCEPT ![m] = "persist"]
    /\ sends' = [sends EXCEPT ![m] = @ + 1]
    /\ UNCHANGED <<history, queue, replay, arrived, failed>>

\* Mutant: INSERT OR REPLACE instead of INSERT OR IGNORE.
stored_Replace(m) == "sent"

\* INSERT OR IGNORE: a row that is there stays as it is.  (A retry of a group
\* message adds a second row like the first.)
stored(m) == IF history[m] = "none" THEN "sent" ELSE history[m]

persistDM(m) ==
    /\ pc[m] = "persist"
    /\ pc' = [pc EXCEPT ![m] = "send"]
    /\ Exec(history' = [history EXCEPT ![m] = stored(m)], UNCHANGED history)
    /\ UNCHANGED <<sends, queue, replay, arrived>>

online == {c \in Conns : at[c] # "off"}

\* Mutant: the result is false whatever the connections took.
delivered_Never(lost) == FALSE

\* A connection took the message, or a buffer did: lost are the writes to
\* peers that are gone that look like a success.
delivered(lost) == (online \ broken) \cup lost # {}

sendTo(m) ==
    /\ pc[m] = "send"
    /\ got' = [c \in Conns |-> IF c \in online \ broken
                               THEN [got[c] EXCEPT ![m] = @ + 1] ELSE got[c]]
    /\ \E lost \in SUBSET (online \cap broken) :
          pc' = [pc EXCEPT ![m] = IF delivered(lost) THEN "idle" ELSE "store"]
    /\ UNCHANGED <<sends, history, queue, replay, bare, failed>>

\* Mutant: the row does not say which message it holds.
row_NoMsg(m) == [id |-> lastId + 1]

row(m) == [id |-> lastId + 1, msg |-> m]

storeOfflineMessage(m) ==
    /\ pc[m] = "store" /\ lastId < MaxRows
    /\ pc' = [pc EXCEPT ![m] = "idle"]
    /\ Exec(rows' = rows \cup {row(m)} /\ lastId' = lastId + 1,
            UNCHANGED queue)
    /\ UNCHANGED <<sends, history, replay, arrived>>

\* Mutant: the edit does not look whether the message was deleted.
mayEdit_Always(m) == history[m] # "none"

\* WHERE msg_id = ? AND sender = ? AND deleted = 0.
mayEdit(m) == history[m] \in {"sent", "edited"}

\* msg_edit: durable history first, then live to the connections there are.
editDM(m) ==
    /\ m \notin GroupMsgs /\ sends[m] > 0
    /\ Exec(history' = IF mayEdit(m) THEN [history EXCEPT ![m] = "edited"] ELSE history,
            UNCHANGED history)
    /\ UNCHANGED <<sender, queue, replay, arrived>>

\* msg_delete.
deleteDM(m) ==
    /\ m \notin GroupMsgs /\ sends[m] > 0
    /\ Exec(history' = IF history[m] # "none" THEN [history EXCEPT ![m] = "deleted"] ELSE history,
            UNCHANGED history)
    /\ UNCHANGED <<sender, queue, replay, arrived>>

-----------------------------------------------------------------------------
(* The recipient's side. *)

\* Sign-in registers the connection before it replays the queue.
Connect(c) ==
    /\ at[c] = "off" /\ \A m \in Msgs : got[c][m] < MaxCopies
    /\ at' = [at EXCEPT ![c] = "select"]
    /\ UNCHANGED <<sender, history, queue, broken, batch, ids, arrived, failed>>

\* The peer vanishes; the server finds out by a failed read.
Break(c) ==
    /\ at[c] # "off"
    /\ broken' = broken \cup {c}
    /\ failed' = failed \cup {"net"}
    /\ UNCHANGED <<sender, history, queue, at, batch, ids, arrived>>

Disconnect(c) ==
    /\ at[c] = "read"
    /\ at' = [at EXCEPT ![c] = "off"]
    /\ broken' = broken \ {c}
    /\ UNCHANGED <<sender, history, queue, batch, ids, arrived, failed>>

\* deliverOfflineMessages: the query; nothing is sent if it fails.
SelectRows(c) ==
    /\ at[c] = "select"
    /\ \/ /\ batch' = [batch EXCEPT ![c] = rows]
          /\ at' = [at EXCEPT ![c] = "replay"]
          /\ UNCHANGED failed
       \/ /\ dbFails
          /\ at' = [at EXCEPT ![c] = "read"]
          /\ UNCHANGED batch
    /\ UNCHANGED <<sender, history, queue, broken, ids, arrived>>

\* ORDER BY created_at, the order of the ids.
oldest(S) == {r \in S : \A q \in S : r.id <= q.id}

\* One turn of its loop: the result of Send is not looked at, and the
\* conversation of a group message is not among the columns read.
SendRow(c) ==
    /\ at[c] = "replay"
    /\ \E r \in oldest(batch[c]) :
           /\ got' = IF c \in broken THEN got ELSE [got EXCEPT ![c][r.msg] = @ + 1]
           /\ bare' = IF c \in broken THEN bare ELSE bare \cup ({r.msg} \cap GroupMsgs)
           /\ batch' = [batch EXCEPT ![c] = @ \ {r}]
           /\ ids' = [ids EXCEPT ![c] = @ \cup {r}]
    /\ UNCHANGED <<sender, history, queue, at, broken, failed>>

\* Mutants: DELETE ... WHERE recipient = ?, whatever has been read; no DELETE.
without_All(r) == {}
without_None(r) == rows

\* DELETE ... WHERE id = ?.
without(r) == rows \ {r}

\* The DELETEs follow when all rows are sent.
DeleteRow(c) ==
    /\ at[c] = "replay" /\ batch[c] = {}
    /\ \E r \in oldest(ids[c]) :
           /\ Exec(rows' = without(r), UNCHANGED rows)
           /\ ids' = [ids EXCEPT ![c] = @ \ {r}]
    /\ UNCHANGED <<sender, history, lastId, at, broken, batch, arrived>>

Replayed(c) ==
    /\ at[c] = "replay" /\ batch[c] = {} /\ ids[c] = {}
    /\ at' = [at EXCEPT ![c] = "read"]
    /\ UNCHANGED <<sender, history, queue, broken, batch, ids, arrived, failed>>

-----------------------------------------------------------------------------
Handle(m) == persistDM(m) \/ sendTo(m) \/ storeOfflineMessage(m)

deliverOfflineMessages(c) ==
    SelectRows(c) \/ SendRow(c) \/ DeleteRow(c) \/ Replayed(c)

Next ==
    \/ \E m \in Msgs : Submit(m) \/ Handle(m) \/ editDM(m) \/ deleteDM(m)
    \/ \E c \in Conns : Connect(c) \/ Break(c) \/ Disconnect(c) \/ deliverOfflineMessages(c)

Spec == Init /\ [][Next]_vars

\* Handlers and replays run on once begun: every Send ends by its deadline.
Fairness ==
    /\ \A m \in Msgs : WF_vars(Handle(m))
    /\ \A c \in Conns : WF_vars(deliverOfflineMessages(c))

FairSpec == Spec /\ Fairness

-----------------------------------------------------------------------------
(* Properties. *)

queued(m) == \E r \in rows : r.msg = m
reached(m) == \E c \in Conns : got[c][m] > 0

(***************************************************************************)
(* No message falls between the live path and the queue: once its handler  *)
(* is done it has reached a connection or waits in offline_messages, also  *)
(* when connections come, go and replay the queue all the while.  (As long *)
(* as no write to the database or to a connected peer has failed.)         *)
(***************************************************************************)
SentOrQueued ==
    failed = {} =>
        \A m \in Msgs : sends[m] > 0 /\ pc[m] = "idle" => reached(m) \/ queued(m)

(***************************************************************************)
(* A deleted message stays deleted in the history: neither a retry of the  *)
(* original nor an edit from another device that arrives late brings it    *)
(* back.                                                                   *)
(***************************************************************************)
DeletedIsFinal ==
    [][\A m \in Msgs : history[m] = "deleted" => history'[m] = "deleted"]_vars

(***************************************************************************)
(* A connection gets no more copies of a message than its client sent:     *)
(* what it received live is not replayed to it, and what was replayed to   *)
(* it is not replayed again, also with two sign-ins replaying one queue.   *)
(* (As long as no write to the database has failed.)                       *)
(***************************************************************************)
NotRedelivered ==
    "db" \notin failed => \A c \in Conns, m \in Msgs : got[c][m] <= sends[m]

(***************************************************************************)
(* Messages sent to an offline user are replayed on next auth: what is     *)
(* queued when a sign-in comes to the queue leaves it, to the recipient.   *)
(***************************************************************************)
ReplayedOnAuth ==
    \A c \in Conns, r \in Row :
        (at[c] = "select" /\ r \in rows)
            ~> (failed # {} \/ (r \notin rows /\ reached(r.msg)))
=============================================================================
