--------------------------- MODULE MailboxProofs ---------------------------
(***************************************************************************)
(* Proofs about Mailbox, for any messages, connections and bounds: types,  *)
(* deleted messages, and, without the faults that break them, that no      *)
(* message is lost between live delivery and queue or delivered again.     *)
(***************************************************************************)
EXTENDS Mailbox, FiniteSetTheorems, TLAPS

USE DEF sender, queue, replay, arrived

-----------------------------------------------------------------------------
(* Types. *)

\* A history entry has one of its four values after any INSERT.
LEMMA StoredType ==
    ASSUME TypeOK, NEW m \in Msgs
    PROVE  stored(m) \in {"none", "sent", "edited", "deleted"}
  BY DEF stored, TypeOK

\* The copies after live sends.
LEMMA SendType ==
    ASSUME TypeOK, NEW m \in Msgs, sendTo(m)
    PROVE  got' \in [Conns -> [Msgs -> Nat]]
<1>1. ASSUME NEW c \in Conns
      PROVE  got[c] \in [Msgs -> Nat] /\ [got[c] EXCEPT ![m] = @ + 1] \in [Msgs -> Nat]
  BY DEF TypeOK
<1>2. QED
  BY <1>1 DEF sendTo

\* Types are kept by the handlers of messages.
LEMMA SenderType ==
    ASSUME TypeOK, NEW m \in Msgs, Submit(m) \/ Handle(m) \/ editDM(m) \/ deleteDM(m)
    PROVE  TypeOK'
<1> USE MailboxAssumption
<1>1. CASE Submit(m)
  <2>1. sends[m] + 1 \in Nat /\ sends[m] + 1 <= MaxSends[m]
    BY <1>1 DEF Submit, TypeOK
  <2>2. QED
    BY <1>1, <2>1 DEF Submit, TypeOK
<1>2. CASE persistDM(m)
  BY <1>2, StoredType DEF persistDM, Exec, dbFails, TypeOK
<1>3. CASE sendTo(m)
  <2>1. pc' \in [Msgs -> {"idle", "persist", "send", "store"}]
    BY <1>3 DEF sendTo, TypeOK
  <2>2. QED
    BY <1>3, <2>1, SendType DEF sendTo, TypeOK
<1>4. CASE storeOfflineMessage(m)
  <2>1. lastId + 1 \in RowIds /\ lastId + 1 \in 0..MaxRows
    BY <1>4 DEF storeOfflineMessage, TypeOK, RowIds
  <2>2. row(m) \in Row
    BY <2>1 DEF Row, row
  <2>3. rows' \subseteq Row /\ lastId' \in 0..MaxRows /\ failed' \subseteq {"net", "db"}
    BY <1>4, <2>1, <2>2 DEF storeOfflineMessage, Exec, dbFails, TypeOK
  <2>4. QED
    BY <1>4, <2>3 DEF storeOfflineMessage, TypeOK
<1>5. CASE editDM(m)
  BY <1>5 DEF editDM, Exec, dbFails, TypeOK
<1>6. CASE deleteDM(m)
  BY <1>6 DEF deleteDM, Exec, dbFails, TypeOK
<1>7. QED
  BY <1>1, <1>2, <1>3, <1>4, <1>5, <1>6 DEF Handle

\* Types are kept by the recipient's connections.
LEMMA ConnType ==
    ASSUME TypeOK, NEW c \in Conns,
           Connect(c) \/ Break(c) \/ Disconnect(c) \/ deliverOfflineMessages(c)
    PROVE  TypeOK'
<1>1. CASE Connect(c)
  BY <1>1 DEF Connect, TypeOK
<1>2. CASE Break(c)
  BY <1>2 DEF Break, TypeOK
<1>3. CASE Disconnect(c)
  BY <1>3 DEF Disconnect, TypeOK
<1>4. CASE SelectRows(c)
  BY <1>4 DEF SelectRows, dbFails, TypeOK
<1>5. CASE SendRow(c)
  <2>1. PICK r \in oldest(batch[c]) :
           /\ got' = IF c \in broken THEN got ELSE [got EXCEPT ![c][r.msg] = @ + 1]
           /\ batch' = [batch EXCEPT ![c] = @ \ {r}]
           /\ ids' = [ids EXCEPT ![c] = @ \cup {r}]
    BY <1>5 DEF SendRow
  <2>2. r \in Row /\ r.msg \in Msgs
    BY DEF oldest, TypeOK, Row
  <2>3. got' \in [Conns -> [Msgs -> Nat]]
    <3>1. got[c] \in [Msgs -> Nat] /\ [got[c] EXCEPT ![r.msg] = @ + 1] \in [Msgs -> Nat]
      BY <2>2 DEF TypeOK
    <3>2. QED
      BY <2>1, <3>1 DEF TypeOK
  <2>4. batch' \in [Conns -> SUBSET Row] /\ ids' \in [Conns -> SUBSET Row]
    BY <2>1, <2>2 DEF TypeOK
  <2>5. bare' \subseteq GroupMsgs
    BY <1>5 DEF SendRow, TypeOK
  <2>6. QED
    BY <1>5, <2>3, <2>4, <2>5 DEF SendRow, TypeOK
<1>6. CASE DeleteRow(c)
  <2>1. rows' \subseteq Row /\ failed' \subseteq {"net", "db"}
    BY <1>6 DEF DeleteRow, Exec, dbFails, without, TypeOK
  <2>2. ids' \in [Conns -> SUBSET Row]
    BY <1>6 DEF DeleteRow, TypeOK
  <2>3. QED
    BY <1>6, <2>1, <2>2 DEF DeleteRow, TypeOK
<1>7. CASE Replayed(c)
  BY <1>7 DEF Replayed, TypeOK
<1>8. QED
  BY <1>1, <1>2, <1>3, <1>4, <1>5, <1>6, <1>7 DEF deliverOfflineMessages

LEMMA InitType == Init => TypeOK
  BY MailboxAssumption DEF Init, TypeOK

LEMMA NextType == TypeOK /\ [Next]_vars => TypeOK'
<1> SUFFICES ASSUME TypeOK, [Next]_vars PROVE TypeOK'
  OBVIOUS
<1>1. CASE UNCHANGED vars
  BY <1>1 DEF vars, TypeOK
<1>2. CASE Next
  BY <1>2, SenderType, ConnType DEF Next
<1>3. QED
  BY <1>1, <1>2

(***************************************************************************)
(* The handlers of messages and the replays of Mailbox keep its types.     *)
(***************************************************************************)
THEOREM TypeCorrect == Spec => []TypeOK
  BY InitType, NextType, PTL DEF Spec

-----------------------------------------------------------------------------
(* Deletion. *)

LEMMA DeletedStays ==
    ASSUME TypeOK, [Next]_vars, NEW m \in Msgs, history[m] = "deleted"
    PROVE  history'[m] = "deleted"
<1>1. CASE UNCHANGED history
  BY <1>1
<1>2. CASE \E n \in Msgs : history' = [history EXCEPT ![n] = stored(n)]
  BY <1>2 DEF stored, TypeOK
<1>3. CASE \E n \in Msgs : mayEdit(n) /\ history' = [history EXCEPT ![n] = "edited"]
  BY <1>3 DEF mayEdit, TypeOK
<1>4. CASE \E n \in Msgs : history' = [history EXCEPT ![n] = "deleted"]
  BY <1>4 DEF TypeOK
<1>5. ASSUME NEW n \in Msgs, Submit(n) \/ Handle(n) \/ editDM(n) \/ deleteDM(n)
      PROVE  history'[m] = "deleted"
  BY <1>1, <1>2, <1>3, <1>4, <1>5
     DEF Submit, Handle, persistDM, sendTo, storeOfflineMessage, editDM, deleteDM, Exec
<1>6. ASSUME NEW c \in Conns,
             Connect(c) \/ Break(c) \/ Disconnect(c) \/ deliverOfflineMessages(c)
      PROVE  UNCHANGED history
  BY <1>6 DEF Connect, Break, Disconnect, deliverOfflineMessages, SelectRows, SendRow,
              DeleteRow, Replayed
<1>7. QED
  BY <1>1, <1>5, <1>6 DEF Next, vars

(***************************************************************************)
(* No retry and no late edit brings a deleted message back into the        *)
(* history, whatever writes fail.                                          *)
(***************************************************************************)
THEOREM DeletionIsFinal == Spec => DeletedIsFinal
<1>1. TypeOK /\ [Next]_vars
        => [\A m \in Msgs : history[m] = "deleted" => history'[m] = "deleted"]_vars
  BY DeletedStays
<1>2. QED
  BY <1>1, TypeCorrect, PTL DEF Spec, DeletedIsFinal

-----------------------------------------------------------------------------
(* Live or queued. *)

(***************************************************************************)
(* A row is deleted by the connection it was sent to: that is why its      *)
(* message has then reached the recipient.                                 *)
(***************************************************************************)
SentRowsArrived ==
    /\ broken = {}
    /\ \A c \in Conns : \A r \in ids[c] : got[c][r.msg] > 0

QueueInv == TypeOK /\ (failed = {} => SentRowsArrived /\ SentOrQueued)

\* Faults are remembered.
LEMMA FailedGrows ==
    ASSUME [Next]_vars
    PROVE  failed \subseteq failed'
  BY DEF Next, vars, Submit, Handle, persistDM, sendTo, storeOfflineMessage, editDM, deleteDM,
         Connect, Break, Disconnect, deliverOfflineMessages, SelectRows, SendRow, DeleteRow,
         Replayed, Exec, dbFails

\* Copies are never taken back.
LEMMA GotGrows ==
    ASSUME TypeOK, [Next]_vars, NEW c \in Conns, NEW m \in Msgs
    PROVE  got'[c][m] >= got[c][m]
<1>1. got[c][m] \in Nat
  BY DEF TypeOK
<1>2. CASE UNCHANGED got
  BY <1>1, <1>2
<1>3. ASSUME NEW n \in Msgs, sendTo(n)
      PROVE  got'[c][m] >= got[c][m]
  BY <1>1, <1>3 DEF sendTo, TypeOK
<1>4. ASSUME NEW d \in Conns, SendRow(d)
      PROVE  got'[c][m] >= got[c][m]
  <2>1. PICK r \in batch[d] :
           got' = IF d \in broken THEN got ELSE [got EXCEPT ![d][r.msg] = @ + 1]
    BY <1>4 DEF SendRow, oldest
  <2>2. r.msg \in Msgs
    BY DEF TypeOK, Row
  <2>3. QED
    BY <1>1, <2>1, <2>2 DEF TypeOK
<1>5. QED
  BY <1>2, <1>3, <1>4
     DEF Next, vars, Submit, Handle, persistDM, storeOfflineMessage, editDM, deleteDM,
         Connect, Break, Disconnect, deliverOfflineMessages, SelectRows, DeleteRow, Replayed

\* What was reached stays reached.
LEMMA ReachedStays ==
    ASSUME TypeOK, [Next]_vars, NEW m \in Msgs, reached(m)
    PROVE  reached(m)'
<1>1. PICK c \in Conns : got[c][m] > 0
  BY DEF reached
<1>2. got[c][m] \in Nat /\ got'[c][m] >= got[c][m]
  BY GotGrows DEF TypeOK
<1>3. TypeOK'
  BY NextType
<1>4. got'[c][m] > 0
  BY <1>1, <1>2, <1>3 DEF TypeOK
<1>5. QED
  BY <1>4 DEF reached

\* A step that leaves ids alone, and breaks nothing, keeps the first part.
LEMMA ArrivedKept ==
    ASSUME TypeOK, [Next]_vars, SentRowsArrived, UNCHANGED <<broken, ids>>
    PROVE  SentRowsArrived'
<1>1. ASSUME NEW c \in Conns, NEW r \in ids'[c]
      PROVE  got'[c][r.msg] > 0
  <2>1. r \in ids[c] /\ r.msg \in Msgs /\ got[c][r.msg] > 0
    BY DEF SentRowsArrived, TypeOK, Row
  <2>2. got'[c][r.msg] >= got[c][r.msg] /\ got[c][r.msg] \in Nat
    BY <2>1, GotGrows DEF TypeOK
  <2>3. got'[c][r.msg] \in Nat
    BY <2>1, NextType DEF TypeOK
  <2>4. QED
    BY <2>1, <2>2, <2>3
<1>2. QED
  BY <1>1 DEF SentRowsArrived

\* A step that keeps the queue and ends no handler keeps the second part.
LEMMA QueuedKept ==
    ASSUME TypeOK, [Next]_vars, failed = {}, SentOrQueued, rows \subseteq rows',
           \A m \in Msgs : pc'[m] = "idle" =>
               pc[m] = "idle" /\ (sends'[m] > 0 => sends[m] > 0)
    PROVE  SentOrQueued'
<1>1. ASSUME NEW m \in Msgs, sends'[m] > 0, pc'[m] = "idle"
      PROVE  (reached(m) \/ queued(m))'
  <2>1. CASE reached(m)
    BY <2>1, ReachedStays
  <2>2. CASE queued(m)
    BY <2>2 DEF queued
  <2>3. QED
    BY <1>1, <2>1, <2>2 DEF SentOrQueued
<1>2. QED
  BY <1>1 DEF SentOrQueued

\* The handlers of messages.
LEMMA SenderQueue ==
    ASSUME TypeOK, failed = {}, failed' = {}, SentRowsArrived, SentOrQueued, NEW m \in Msgs,
           Submit(m) \/ Handle(m) \/ editDM(m) \/ deleteDM(m)
    PROVE  (SentRowsArrived /\ SentOrQueued)'
<1>1. [Next]_vars
  BY DEF Next
<1>2. SentRowsArrived'
  BY <1>1, ArrivedKept
     DEF Submit, Handle, persistDM, sendTo, storeOfflineMessage, editDM, deleteDM
<1>3. CASE Submit(m) \/ persistDM(m) \/ editDM(m) \/ deleteDM(m)
  <2>1. UNCHANGED rows
    BY <1>3 DEF Submit, persistDM, editDM, deleteDM
  <2>2. \A n \in Msgs : pc'[n] = "idle" =>
            pc[n] = "idle" /\ (sends'[n] > 0 => sends[n] > 0)
    BY <1>3 DEF Submit, persistDM, editDM, deleteDM, TypeOK
  <2>3. QED
    BY <1>1, <1>2, <2>1, <2>2, QueuedKept
<1>4. CASE sendTo(m)
  <2>1. PICK lost \in SUBSET (online \cap broken) :
           pc' = [pc EXCEPT ![m] = IF delivered(lost) THEN "idle" ELSE "store"]
    BY <1>4 DEF sendTo
  <2>2. ASSUME delivered(lost)
        PROVE  reached(m)'
    <3>1. PICK c \in Conns : c \in online \ broken
      BY <2>2 DEF delivered, SentRowsArrived, online
    <3>2. got'[c][m] = got[c][m] + 1 /\ got[c][m] \in Nat
      BY <1>4, <3>1 DEF sendTo, TypeOK
    <3>3. got'[c][m] > 0
      BY <3>2
    <3>4. QED
      BY <3>3 DEF reached
  <2>3. ASSUME NEW n \in Msgs, sends'[n] > 0, pc'[n] = "idle"
        PROVE  (reached(n) \/ queued(n))'
    <3>1. CASE n = m
      BY <2>1, <2>2, <2>3, <3>1 DEF TypeOK
    <3>2. CASE n # m
      <4>1. sends[n] > 0 /\ pc[n] = "idle" /\ rows' = rows
        BY <1>4, <2>1, <2>3, <3>2 DEF sendTo, TypeOK
      <4>2. reached(n) \/ queued(n)
        BY <4>1 DEF SentOrQueued
      <4>3. QED
        BY <1>1, <4>1, <4>2, ReachedStays DEF queued
    <3>3. QED
      BY <3>1, <3>2
  <2>4. QED
    BY <1>2, <2>3 DEF SentOrQueued
<1>5. CASE storeOfflineMessage(m)
  <2>1. rows' = rows \cup {row(m)}
    BY <1>5 DEF storeOfflineMessage, Exec, dbFails
  <2>2. ASSUME NEW n \in Msgs, sends'[n] > 0, pc'[n] = "idle"
        PROVE  (reached(n) \/ queued(n))'
    <3>1. CASE n = m
      <4>1. row(m).msg = m
        BY DEF row
      <4>2. queued(m)'
        BY <2>1, <4>1 DEF queued
      <4>3. QED
        BY <3>1, <4>2
    <3>2. CASE n # m
      <4>1. sends[n] > 0 /\ pc[n] = "idle"
        BY <1>5, <2>2, <3>2 DEF storeOfflineMessage, TypeOK
      <4>2. reached(n) \/ queued(n)
        BY <4>1 DEF SentOrQueued
      <4>3. QED
        BY <1>1, <2>1, <4>2, ReachedStays DEF queued
    <3>3. QED
      BY <3>1, <3>2
  <2>3. QED
    BY <1>2, <2>2 DEF SentOrQueued
<1>6. QED
  BY <1>3, <1>4, <1>5 DEF Handle

\* The recipient's connections.
LEMMA ConnQueue ==
    ASSUME TypeOK, failed = {}, failed' = {}, SentRowsArrived, SentOrQueued, NEW c \in Conns,
           Connect(c) \/ Break(c) \/ Disconnect(c) \/ deliverOfflineMessages(c)
    PROVE  (SentRowsArrived /\ SentOrQueued)'
<1>1. [Next]_vars
  BY DEF Next
<1>2. UNCHANGED <<pc, sends>>
  BY DEF Connect, Break, Disconnect, deliverOfflineMessages, SelectRows, SendRow, DeleteRow, Replayed
<1>3. ASSUME rows \subseteq rows' PROVE SentOrQueued'
  BY <1>1, <1>2, <1>3, QueuedKept
<1>4. CASE Connect(c) \/ SelectRows(c) \/ Replayed(c)
  <2>1. UNCHANGED <<rows, broken, ids>>
    BY <1>4 DEF Connect, SelectRows, Replayed
  <2>2. QED
    BY <1>1, <1>3, <2>1, ArrivedKept
<1>5. CASE Break(c)
  BY <1>5 DEF Break
<1>6. CASE Disconnect(c)
  <2>1. UNCHANGED <<rows, broken, ids>>
    BY <1>6 DEF Disconnect, SentRowsArrived
  <2>2. QED
    BY <1>1, <1>3, <2>1, ArrivedKept
<1>7. CASE SendRow(c)
  <2>1. PICK r \in batch[c] :
           /\ got' = [got EXCEPT ![c][r.msg] = @ + 1]
           /\ ids' = [ids EXCEPT ![c] = @ \cup {r}]
    BY <1>7 DEF SendRow, oldest, SentRowsArrived
  <2>2. r.msg \in Msgs
    BY DEF TypeOK, Row
  <2>3. ASSUME NEW d \in Conns, NEW q \in ids'[d]
        PROVE  got'[d][q.msg] > 0
    <3>1. q.msg \in Msgs
      BY <2>3, ConnType DEF TypeOK, Row
    <3>2. got[d][q.msg] \in Nat /\ got'[d][q.msg] \in Nat
      BY <3>1, ConnType DEF TypeOK
    <3>3. CASE q \in ids[d]
      <4>1. got[d][q.msg] > 0
        BY <3>3 DEF SentRowsArrived
      <4>2. QED
        BY <1>1, <3>1, <3>2, <4>1, GotGrows
    <3>4. CASE q \notin ids[d]
      <4>1. d = c /\ q = r
        BY <2>1, <2>3, <3>4 DEF TypeOK
      <4>2. got'[c][r.msg] = got[c][r.msg] + 1
        BY <2>1, <2>2 DEF TypeOK
      <4>3. QED
        BY <3>2, <4>1, <4>2
    <3>5. QED
      BY <3>3, <3>4
  <2>4. broken' = {} /\ rows' = rows
    BY <1>7 DEF SendRow, SentRowsArrived
  <2>5. QED
    BY <1>3, <2>3, <2>4 DEF SentRowsArrived
<1>8. CASE DeleteRow(c)
  <2>1. PICK r \in ids[c] :
           /\ rows' = rows \ {r}
           /\ ids' = [ids EXCEPT ![c] = @ \ {r}]
    BY <1>8 DEF DeleteRow, oldest, Exec, dbFails, without
  <2>2. UNCHANGED <<broken, got>>
    BY <1>8 DEF DeleteRow
  <2>3. SentRowsArrived'
    BY <2>1, <2>2 DEF SentRowsArrived, TypeOK
  <2>4. ASSUME NEW m \in Msgs, sends'[m] > 0, pc'[m] = "idle"
        PROVE  (reached(m) \/ queued(m))'
    <3>1. CASE reached(m)
      BY <1>1, <3>1, ReachedStays
    <3>2. CASE ~ reached(m)
      <4>1. PICK q \in rows : q.msg = m
        BY <1>2, <2>4, <3>2 DEF SentOrQueued, queued
      <4>2. q # r
        BY <2>1, <3>2, <4>1 DEF SentRowsArrived, reached
      <4>3. QED
        BY <2>1, <4>1, <4>2 DEF queued
    <3>3. QED
      BY <3>1, <3>2
  <2>5. QED
    BY <2>3, <2>4 DEF SentOrQueued
<1>9. QED
  BY <1>4, <1>5, <1>6, <1>7, <1>8 DEF deliverOfflineMessages

LEMMA NextQueue == QueueInv /\ [Next]_vars => QueueInv'
<1> SUFFICES ASSUME QueueInv, [Next]_vars, failed' = {}
             PROVE  (SentRowsArrived /\ SentOrQueued)'
  BY NextType DEF QueueInv
<1> failed = {}
  BY FailedGrows
<1>1. CASE UNCHANGED vars
  BY <1>1 DEF vars, QueueInv, SentRowsArrived, SentOrQueued, reached, queued
<1>2. CASE Next
  BY <1>2, SenderQueue, ConnQueue DEF Next, QueueInv
<1>3. QED
  BY <1>1, <1>2

(***************************************************************************)
(* A message whose handler is done has reached a connection or is queued,  *)
(* for any number of senders, retries and sign-ins.                        *)
(***************************************************************************)
THEOREM NothingFallsBetween == Spec => []SentOrQueued
<1>1. Init => QueueInv
  BY InitType DEF Init, QueueInv, SentRowsArrived, SentOrQueued
<1>2. QueueInv => SentOrQueued
  BY DEF QueueInv, SentOrQueued
<1>3. QED
  BY <1>1, <1>2, NextQueue, PTL DEF Spec

-----------------------------------------------------------------------------
(* No second delivery. *)

\* The copies of m that c may still get from the queue.
rest(c, m) == {r \in (rows \cup batch[c]) \ ids[c] : r.msg = m}

\* The copy a running handler has still to send or queue.
busy(m) == IF pc[m] = "idle" THEN 0 ELSE 1

(***************************************************************************)
(* Every send pays for one copy at a connection: the copy it has got, the  *)
(* row it may still read, or the handler that has not decided yet.         *)
(***************************************************************************)
CopiesPaid ==
    \A c \in Conns, m \in Msgs :
        got[c][m] + Cardinality(rest(c, m)) + busy(m) <= sends[m]

\* Ids of rows are used once.
IdsUsed ==
    /\ \A r \in rows : r.id <= lastId
    /\ \A c \in Conns : \A r \in batch[c] \cup ids[c] : r.id <= lastId

\* A replay works on the rows of its own query.
ReplayOwn ==
    \A c \in Conns :
        /\ batch[c] \cap ids[c] = {}
        /\ at[c] # "replay" => batch[c] = {}
        /\ at[c] # "replay" => ids[c] = {}

RowsFinite == IsFiniteSet(rows) /\ \A c \in Conns : IsFiniteSet(batch[c])

CopyInv == TypeOK /\ RowsFinite /\ IdsUsed /\ ReplayOwn /\ CopiesPaid

LEMMA RestFinite ==
    ASSUME RowsFinite, NEW c \in Conns, NEW m \in Msgs
    PROVE  IsFiniteSet(rest(c, m)) /\ Cardinality(rest(c, m)) \in Nat
<1>1. IsFiniteSet(rows \cup batch[c])
  BY FS_Union DEF RowsFinite
<1>2. rest(c, m) \subseteq rows \cup batch[c]
  BY DEF rest
<1>3. QED
  BY <1>1, <1>2, FS_Subset, FS_CardinalityType

\* The rows of a recipient stay finite, used once and owned by their replay.
LEMMA RowsKept ==
    ASSUME CopyInv, "db" \notin failed, "db" \notin failed', [Next]_vars
    PROVE  (RowsFinite /\ IdsUsed /\ ReplayOwn)'
<1> USE DEF CopyInv
<1>1. CASE UNCHANGED <<rows, lastId, batch, ids, at>>
  BY <1>1 DEF RowsFinite, IdsUsed, ReplayOwn
<1>2. ASSUME NEW m \in Msgs, storeOfflineMessage(m)
      PROVE  (RowsFinite /\ IdsUsed /\ ReplayOwn)'
  <2>1. PICK r \in [id : {lastId + 1}, msg : {m}] :
           rows' = rows \cup {r} /\ lastId' = lastId + 1
    BY <1>2 DEF storeOfflineMessage, row, Exec, dbFails
  <2>2. UNCHANGED <<batch, ids, at>>
    BY <1>2 DEF storeOfflineMessage
  <2>3. RowsFinite'
    BY <2>1, <2>2, FS_AddElement DEF RowsFinite
  <2>4. lastId \in Nat /\ \A q \in Row : q.id \in Nat
    BY MailboxAssumption DEF TypeOK, Row, RowIds
  <2>5. \A q \in rows' : q.id <= lastId'
    BY <2>1, <2>4 DEF IdsUsed, TypeOK
  <2>6. \A c \in Conns : \A q \in (batch[c] \cup ids[c]) : q.id <= lastId'
    BY <2>1, <2>4 DEF IdsUsed, TypeOK
  <2>7. QED
    BY <2>2, <2>3, <2>5, <2>6 DEF IdsUsed, ReplayOwn
<1>3. ASSUME NEW c \in Conns, Connect(c) \/ Disconnect(c) \/ Replayed(c)
      PROVE  (RowsFinite /\ IdsUsed /\ ReplayOwn)'
  <2>1. UNCHANGED <<rows, lastId, batch, ids>>
    BY <1>3 DEF Connect, Disconnect, Replayed
  <2>2. ReplayOwn'
    BY <1>3, <2>1 DEF ReplayOwn, Connect, Disconnect, Replayed, TypeOK
  <2>3. QED
    BY <2>1, <2>2 DEF RowsFinite, IdsUsed
<1>4. ASSUME NEW c \in Conns, SelectRows(c)
      PROVE  (RowsFinite /\ IdsUsed /\ ReplayOwn)'
  <2>1. /\ batch' = [batch EXCEPT ![c] = rows]
        /\ at' = [at EXCEPT ![c] = "replay"]
        /\ at[c] = "select"
        /\ UNCHANGED <<rows, lastId, ids>>
    BY <1>4 DEF SelectRows, dbFails
  <2>2. RowsFinite'
    BY <2>1 DEF RowsFinite, TypeOK
  <2>3. IdsUsed'
    BY <2>1 DEF IdsUsed, TypeOK
  <2>4. ReplayOwn'
    BY <2>1 DEF ReplayOwn, TypeOK
  <2>5. QED
    BY <2>2, <2>3, <2>4
<1>5. ASSUME NEW c \in Conns, SendRow(c)
      PROVE  (RowsFinite /\ IdsUsed /\ ReplayOwn)'
  <2>1. PICK r \in batch[c] :
           /\ batch' = [batch EXCEPT ![c] = @ \ {r}]
           /\ ids' = [ids EXCEPT ![c] = @ \cup {r}]
    BY <1>5 DEF SendRow, oldest
  <2>2. UNCHANGED <<rows, lastId, at>> /\ at[c] = "replay"
    BY <1>5 DEF SendRow
  <2>3. RowsFinite'
    <3>1. IsFiniteSet(batch[c] \ {r})
      BY FS_RemoveElement DEF RowsFinite
    <3>2. QED
      BY <2>1, <2>2, <3>1 DEF RowsFinite, TypeOK
  <2>4. IdsUsed'
    BY <2>1, <2>2 DEF IdsUsed, TypeOK
  <2>5. ReplayOwn'
    BY <2>1, <2>2 DEF ReplayOwn, TypeOK
  <2>6. QED
    BY <2>3, <2>4, <2>5
<1>6. ASSUME NEW c \in Conns, DeleteRow(c)
      PROVE  (RowsFinite /\ IdsUsed /\ ReplayOwn)'
  <2>1. PICK r \in ids[c] :
           rows' = rows \ {r} /\ ids' = [ids EXCEPT ![c] = @ \ {r}]
    BY <1>6 DEF DeleteRow, oldest, Exec, dbFails, without
  <2>2. UNCHANGED <<lastId, at, batch>>
    BY <1>6 DEF DeleteRow
  <2>3. IsFiniteSet(rows \ {r})
    BY FS_RemoveElement DEF RowsFinite
  <2>4. QED
    BY <2>1, <2>2, <2>3 DEF RowsFinite, IdsUsed, ReplayOwn, TypeOK
<1>7. QED
  BY <1>1, <1>2, <1>3, <1>4, <1>5, <1>6
     DEF Next, vars, Submit, Handle, persistDM, sendTo, editDM, deleteDM, Break,
         deliverOfflineMessages

\* A step that neither sends nor lets a replay see more rows.
LEMMA PaidKept ==
    ASSUME CopyInv, TypeOK', UNCHANGED got,
           \A c \in Conns, m \in Msgs : rest(c, m)' \subseteq rest(c, m),
           \A m \in Msgs : busy(m)' - busy(m) <= sends'[m] - sends[m]
    PROVE  CopiesPaid'
<1> SUFFICES ASSUME NEW c \in Conns, NEW m \in Msgs
             PROVE  got'[c][m] + Cardinality(rest(c, m)') + busy(m)' <= sends'[m]
  BY DEF CopiesPaid
<1>1. IsFiniteSet(rest(c, m)) /\ Cardinality(rest(c, m)) \in Nat
  BY RestFinite DEF CopyInv
<1>2. Cardinality(rest(c, m)') <= Cardinality(rest(c, m)) /\ Cardinality(rest(c, m)') \in Nat
  BY <1>1, FS_Subset, FS_CardinalityType
<1>3. got[c][m] \in Nat /\ got'[c][m] = got[c][m]
  BY DEF CopyInv, TypeOK
<1>4. sends[m] \in Nat /\ sends'[m] \in Nat
  BY DEF CopyInv, TypeOK
<1>5. busy(m) \in Nat /\ busy(m)' \in Nat
  BY DEF busy
<1>6. got[c][m] + Cardinality(rest(c, m)) + busy(m) <= sends[m]
  BY DEF CopyInv, CopiesPaid
<1>7. QED
  BY <1>1, <1>2, <1>3, <1>4, <1>5, <1>6

\* Live sends: a copy for the handler's.
LEMMA PaidLive ==
    ASSUME CopyInv, TypeOK', NEW n \in Msgs, sendTo(n)
    PROVE  CopiesPaid'
<1> SUFFICES ASSUME NEW c \in Conns, NEW m \in Msgs
             PROVE  got'[c][m] + Cardinality(rest(c, m)') + busy(m)' <= sends'[m]
  BY DEF CopiesPaid
<1>1. rest(c, m)' = rest(c, m) /\ sends' = sends
  BY DEF sendTo, rest
<1>2. Cardinality(rest(c, m)) \in Nat
  BY RestFinite DEF CopyInv
<1>3. got[c][m] \in Nat /\ sends[m] \in Nat
  BY DEF CopyInv, TypeOK
<1>4. got[c][m] + Cardinality(rest(c, m)) + busy(m) <= sends[m]
  BY DEF CopyInv, CopiesPaid
<1>5. PICK lost \in SUBSET (online \cap broken) :
         pc' = [pc EXCEPT ![n] = IF delivered(lost) THEN "idle" ELSE "store"]
  BY DEF sendTo
<1>6. CASE m # n
  <2>1. got'[c][m] = got[c][m]
    BY <1>6 DEF sendTo, CopyInv, TypeOK
  <2>2. busy(m)' = busy(m)
    BY <1>5, <1>6 DEF busy, CopyInv, TypeOK
  <2>3. QED
    BY <1>1, <1>4, <2>1, <2>2
<1>7. CASE m = n /\ delivered(lost)
  <2>1. got'[c][m] \in {got[c][m], got[c][m] + 1}
    BY <1>7 DEF sendTo, CopyInv, TypeOK
  <2>2. busy(m) = 1 /\ busy(m)' = 0
    BY <1>5, <1>7 DEF busy, sendTo, CopyInv, TypeOK
  <2>3. QED
    BY <1>1, <1>2, <1>3, <1>4, <2>1, <2>2
<1>8. CASE m = n /\ ~ delivered(lost)
  <2>1. got'[c][m] = got[c][m]
    BY <1>8 DEF sendTo, delivered, CopyInv, TypeOK
  <2>2. busy(m) = 1 /\ busy(m)' = 1
    BY <1>5, <1>8 DEF busy, sendTo, CopyInv, TypeOK
  <2>3. QED
    BY <1>1, <1>4, <2>1, <2>2
<1>9. QED
  BY <1>6, <1>7, <1>8

\* Queueing: a new row for the handler's copy.
LEMMA PaidStored ==
    ASSUME CopyInv, "db" \notin failed, "db" \notin failed', NEW n \in Msgs, storeOfflineMessage(n)
    PROVE  CopiesPaid'
<1> SUFFICES ASSUME NEW c \in Conns, NEW m \in Msgs
             PROVE  got'[c][m] + Cardinality(rest(c, m)') + busy(m)' <= sends'[m]
  BY DEF CopiesPaid
<1>1. got' = got /\ sends' = sends /\ batch' = batch /\ ids' = ids
  BY DEF storeOfflineMessage
<1>2. PICK r \in [id : {lastId + 1}, msg : {n}] : rows' = rows \cup {r}
  BY DEF storeOfflineMessage, row, Exec, dbFails
<1>3. r \notin rows /\ r \notin batch[c] /\ r \notin ids[c]
  <2>1. r.id = lastId + 1 /\ lastId \in Nat
    BY MailboxAssumption DEF CopyInv, TypeOK
  <2>2. ~(r.id <= lastId)
    BY <2>1
  <2>3. QED
    BY <2>2 DEF CopyInv, IdsUsed
<1>4. IsFiniteSet(rest(c, m)) /\ Cardinality(rest(c, m)) \in Nat
  BY RestFinite DEF CopyInv
<1>5. got[c][m] \in Nat /\ sends[m] \in Nat
  BY DEF CopyInv, TypeOK
<1>6. got[c][m] + Cardinality(rest(c, m)) + busy(m) <= sends[m]
  BY DEF CopyInv, CopiesPaid
<1>7. CASE m = n
  <2>1. rest(c, m)' = rest(c, m) \cup {r} /\ r \notin rest(c, m)
    BY <1>1, <1>2, <1>3, <1>7 DEF rest
  <2>2. Cardinality(rest(c, m)') = Cardinality(rest(c, m)) + 1
    BY <1>4, <2>1, FS_AddElement
  <2>3. busy(m) = 1 /\ busy(m)' = 0
    BY <1>7 DEF busy, storeOfflineMessage, CopyInv, TypeOK
  <2>4. QED
    BY <1>1, <1>4, <1>5, <1>6, <2>2, <2>3
<1>8. CASE m # n
  <2>1. rest(c, m)' = rest(c, m)
    BY <1>1, <1>2, <1>8 DEF rest
  <2>2. busy(m)' = busy(m)
    BY <1>8 DEF busy, storeOfflineMessage, CopyInv, TypeOK
  <2>3. QED
    BY <1>1, <1>6, <2>1, <2>2
<1>9. QED
  BY <1>7, <1>8

\* A turn of the replay: a copy for its row.
LEMMA PaidReplay ==
    ASSUME CopyInv, NEW d \in Conns, SendRow(d)
    PROVE  CopiesPaid'
<1> SUFFICES ASSUME NEW c \in Conns, NEW m \in Msgs
             PROVE  got'[c][m] + Cardinality(rest(c, m)') + busy(m)' <= sends'[m]
  BY DEF CopiesPaid
<1>1. PICK r \in batch[d] :
         /\ got' = IF d \in broken THEN got ELSE [got EXCEPT ![d][r.msg] = @ + 1]
         /\ batch' = [batch EXCEPT ![d] = @ \ {r}]
         /\ ids' = [ids EXCEPT ![d] = @ \cup {r}]
  BY DEF SendRow, oldest
<1>2. pc' = pc /\ sends' = sends /\ rows' = rows
  BY DEF SendRow
<1>3. busy(m)' = busy(m) /\ busy(m) \in Nat
  BY <1>2 DEF busy
<1>4. IsFiniteSet(rest(c, m)) /\ Cardinality(rest(c, m)) \in Nat
  BY RestFinite DEF CopyInv
<1>5. got[c][m] \in Nat /\ sends[m] \in Nat
  BY DEF CopyInv, TypeOK
<1>6. got[c][m] + Cardinality(rest(c, m)) + busy(m) <= sends[m]
  BY DEF CopyInv, CopiesPaid
<1>7. CASE c = d /\ m = r.msg
  <2>1. r \in rest(c, m) /\ rest(c, m)' = rest(c, m) \ {r}
    BY <1>1, <1>2, <1>7 DEF rest, CopyInv, ReplayOwn, TypeOK
  <2>2. Cardinality(rest(c, m)') = Cardinality(rest(c, m)) - 1
    BY <1>4, <2>1, FS_RemoveElement
  <2>3. got'[c][m] \in {got[c][m], got[c][m] + 1}
    BY <1>1, <1>7 DEF CopyInv, TypeOK
  <2>4. QED
    BY <1>2, <1>3, <1>4, <1>5, <1>6, <2>2, <2>3
<1>8. CASE ~(c = d /\ m = r.msg)
  <2>1. rest(c, m)' = rest(c, m)
    BY <1>1, <1>2, <1>8 DEF rest, CopyInv, TypeOK
  <2>2. got'[c][m] = got[c][m]
    <3>1. r.msg \in Msgs
      BY DEF CopyInv, TypeOK, Row
    <3>2. QED
      BY <1>1, <1>8, <3>1 DEF CopyInv, TypeOK
  <2>3. QED
    BY <1>2, <1>3, <1>6, <2>1, <2>2
<1>9. QED
  BY <1>7, <1>8

\* The steps that send and queue nothing.
LEMMA PaidOther ==
    ASSUME CopyInv, TypeOK', "db" \notin failed, "db" \notin failed', UNCHANGED got,
           \/ UNCHANGED vars
           \/ \E m \in Msgs : Submit(m) \/ persistDM(m) \/ editDM(m) \/ deleteDM(m)
           \/ \E c \in Conns : \/ Connect(c) \/ Break(c) \/ Disconnect(c)
                              \/ SelectRows(c) \/ Replayed(c)
                              \/ DeleteRow(c)
    PROVE  CopiesPaid'
<1>1. \A m \in Msgs : busy(m)' - busy(m) <= sends'[m] - sends[m]
  <2>1. \A m \in Msgs : sends[m] \in Nat /\ busy(m) \in Nat
    BY DEF busy, CopyInv, TypeOK
  <2>2. CASE UNCHANGED <<pc, sends>>
    BY <2>1, <2>2 DEF busy
  <2>3. ASSUME NEW n \in Msgs, Submit(n), NEW m \in Msgs
        PROVE  busy(m)' - busy(m) <= sends'[m] - sends[m]
    BY <2>1, <2>3 DEF Submit, busy, CopyInv, TypeOK
  <2>4. ASSUME NEW n \in Msgs, persistDM(n), NEW m \in Msgs
        PROVE  busy(m)' - busy(m) <= sends'[m] - sends[m]
    BY <2>1, <2>4 DEF persistDM, busy, CopyInv, TypeOK
  <2>5. QED
    BY <2>2, <2>3, <2>4
       DEF vars, editDM, deleteDM, Connect, Break, Disconnect, SelectRows, Replayed, DeleteRow
<1>2. \A c \in Conns, m \in Msgs : rest(c, m)' \subseteq rest(c, m)
  <2>1. CASE UNCHANGED <<rows, batch, ids>>
    BY <2>1 DEF rest
  <2>2. ASSUME NEW d \in Conns, SelectRows(d), NEW c \in Conns, NEW m \in Msgs
        PROVE  rest(c, m)' \subseteq rest(c, m)
    <3>1. batch' = [batch EXCEPT ![d] = rows] /\ UNCHANGED <<rows, ids>>
      BY <2>2 DEF SelectRows, dbFails
    <3>2. QED
      BY <3>1 DEF rest, CopyInv, TypeOK
  <2>3. ASSUME NEW d \in Conns, DeleteRow(d), NEW c \in Conns, NEW m \in Msgs
        PROVE  rest(c, m)' \subseteq rest(c, m)
    <3>1. PICK r \in ids[d] :
             rows' = rows \ {r} /\ ids' = [ids EXCEPT ![d] = @ \ {r}]
      BY <2>3 DEF DeleteRow, oldest, Exec, dbFails, without
    <3>2. UNCHANGED batch
      BY <2>3 DEF DeleteRow
    <3>3. QED
      BY <3>1, <3>2 DEF rest, CopyInv, ReplayOwn, TypeOK
  <2>4. QED
    BY <2>1, <2>2, <2>3
       DEF vars, Submit, persistDM, editDM, deleteDM, Connect, Break, Disconnect, Replayed
<1>3. QED
  BY <1>1, <1>2, PaidKept

LEMMA NextCopies ==
    ASSUME CopyInv, "db" \notin failed, "db" \notin failed', [Next]_vars
    PROVE  CopyInv'
<1>1. TypeOK'
  BY NextType DEF CopyInv
<1>2. CopiesPaid'
  <2>1. CASE UNCHANGED vars
    BY <1>1, <2>1, PaidOther DEF vars
  <2>2. ASSUME NEW m \in Msgs, Submit(m) \/ Handle(m) \/ editDM(m) \/ deleteDM(m)
        PROVE  CopiesPaid'
    <3>1. CASE sendTo(m)
      BY <1>1, <3>1, PaidLive
    <3>2. CASE storeOfflineMessage(m)
      BY <3>2, PaidStored
    <3>3. CASE Submit(m) \/ persistDM(m) \/ editDM(m) \/ deleteDM(m)
      <4>1. UNCHANGED got
        BY <3>3 DEF Submit, persistDM, editDM, deleteDM
      <4>2. QED
        BY <1>1, <3>3, <4>1, PaidOther
    <3>4. QED
      BY <2>2, <3>1, <3>2, <3>3 DEF Handle
  <2>3. ASSUME NEW c \in Conns,
               Connect(c) \/ Break(c) \/ Disconnect(c) \/ deliverOfflineMessages(c)
        PROVE  CopiesPaid'
    <3>1. CASE SendRow(c)
      BY <3>1, PaidReplay
    <3>2. CASE \/ Connect(c) \/ Break(c) \/ Disconnect(c) \/ SelectRows(c)
               \/ Replayed(c) \/ DeleteRow(c)
      <4>1. UNCHANGED got
        BY <3>2 DEF Connect, Break, Disconnect, SelectRows, Replayed, DeleteRow
      <4>2. QED
        BY <1>1, <3>2, <4>1, PaidOther
    <3>3. QED
      BY <2>3, <3>1, <3>2 DEF deliverOfflineMessages
  <2>4. QED
    BY <2>1, <2>2, <2>3 DEF Next
<1>3. QED
  BY <1>1, <1>2, RowsKept DEF CopyInv

LEMMA InitCopies == Init => CopyInv
<1> SUFFICES ASSUME Init PROVE CopyInv
  OBVIOUS
<1>1. \A c \in Conns, m \in Msgs : rest(c, m) = {} /\ busy(m) = 0
  BY DEF Init, rest, busy
<1>2. CopiesPaid
  <2>1. ASSUME NEW c \in Conns, NEW m \in Msgs
        PROVE  /\ got[c][m] = 0 /\ busy(m) = 0 /\ sends[m] = 0
               /\ Cardinality(rest(c, m)) = 0
    BY <1>1, FS_EmptySet DEF Init
  <2>2. QED
    BY <2>1 DEF CopiesPaid
<1>3. RowsFinite
  BY FS_EmptySet DEF Init, RowsFinite
<1>4. QED
  BY <1>2, <1>3, InitType DEF Init, CopyInv, IdsUsed, ReplayOwn

LEMMA PaidEnough == CopyInv => \A c \in Conns, m \in Msgs : got[c][m] <= sends[m]
<1> SUFFICES ASSUME CopyInv, NEW c \in Conns, NEW m \in Msgs
             PROVE  got[c][m] <= sends[m]
  OBVIOUS
<1>1. Cardinality(rest(c, m)) \in Nat
  BY RestFinite DEF CopyInv
<1>2. got[c][m] \in Nat /\ sends[m] \in Nat /\ busy(m) \in Nat
  BY DEF CopyInv, TypeOK, busy
<1>3. QED
  BY <1>1, <1>2 DEF CopyInv, CopiesPaid

(***************************************************************************)
(* No connection gets more copies of a message than were sent, for any     *)
(* number of connections replaying the queue at once, as long as the       *)
(* DELETEs succeed.                                                        *)
(***************************************************************************)
THEOREM NothingRedelivered == Spec => []NotRedelivered
<1> DEFINE Paid == "db" \notin failed => CopyInv
<1>1. Init => Paid
  BY InitCopies
<1>2. Paid /\ [Next]_vars => Paid'
  BY NextCopies, FailedGrows
<1>3. Paid => NotRedelivered
  BY PaidEnough DEF NotRedelivered
<1>4. QED
  BY <1>1, <1>2, <1>3, PTL DEF Spec
=============================================================================
