----------------------------- MODULE DmHistory ------------------------------
(***************************************************************************)
(* The durable copy of a direct message and the copies on the clients of   *)
(* the two people it is between: one message with its edits, its deletion  *)
(* and one emoji.  A change is stored first and relayed then, to the       *)
(* connections of the other person only; a relay that finds nobody is      *)
(* lost, and dm_history is what a client is put right by.  The queue that  *)
(* holds a message for somebody offline is in Mailbox.                     *)
(***************************************************************************)
EXTENDS Handlers

CONSTANTS
    Writer, Reader,   \* who the message is from and to
    MaxDmChanges      \* a bound: how many times it is sent or changed

ASSUME DmHistoryAssumption ==
    Writer \in Users /\ Reader \in Users \ {Writer} /\ MaxDmChanges \in Nat

VARIABLES
    row,         \* the row of dm_messages
    marks,       \* dm_reactions: who has reacted
    dpc,         \* where the connection's goroutine is
    change,      \* what it is about to store or relay
    hadMark,     \* what toggleReaction has counted
    answered,    \* what fetchDMHistory has read
    line,        \* the message on the client, and the other person's reaction
    away,        \* connections that no relay reaches
    exact,       \* nothing has set the client's copy apart since it had the message
    erased,      \* the writer's deletion has been stored
    dmChanges

dvars == <<row, marks, dpc, change, hadMark, answered, line, away, exact, erased, dmChanges>>

Absent == [there |-> FALSE, body |-> "none", deleted |-> FALSE]
NoLine == [there |-> FALSE, body |-> "none", deleted |-> FALSE, mark |-> FALSE]
Rows == [there : BOOLEAN, body : {"none", "text", "edited"}, deleted : BOOLEAN]
Lines == [there : BOOLEAN, body : {"none", "text", "edited"}, deleted : BOOLEAN, mark : BOOLEAN]

DTypeOK ==
    /\ row \in Rows
    /\ marks \subseteq {Writer, Reader}
    /\ dpc \in [Conns -> {"read", "write", "relay", "reactions", "answer"}]
    /\ change \in [Conns -> {"none", "msg", "edit", "delete", "react"}]
    /\ hadMark \in [Conns -> BOOLEAN]
    /\ answered \in [Conns -> Lines] /\ line \in [Conns -> Lines]
    /\ away \subseteq Conns
    /\ exact \in [Conns -> BOOLEAN]
    /\ erased \in BOOLEAN
    /\ dmChanges \in 0..MaxDmChanges

DInit ==
    /\ row = Absent
    /\ marks = {}
    /\ dpc = [c \in Conns |-> "read"]
    /\ change = [c \in Conns |-> "none"]
    /\ hadMark = [c \in Conns |-> FALSE]
    /\ answered = [c \in Conns |-> NoLine] /\ line = [c \in Conns |-> NoLine]
    /\ away = {}
    /\ exact = [c \in Conns |-> TRUE]
    /\ erased = FALSE
    /\ dmChanges = 0

-----------------------------------------------------------------------------
parties == {c \in Conns : Owner[c] \in {Writer, Reader}}
otherOf(c) == IF Owner[c] = Writer THEN Reader ELSE Writer

\* The connections of the other person lose track if told so.
apart(c, why) == exact' = [d \in Conns |-> exact[d] /\ ~(why /\ Owner[d] = otherOf(c))]

busy(u) == \E d \in connsOf(u) : change[d] # "none"

\* The goroutine reads a message of its client: msg, msg_edit, msg_delete or msg_react.
\* A device that acts while another of the same person does sets the copies apart.
receives(c, what) ==
    /\ dpc[c] = "read" /\ c \notin away
    /\ dmChanges < MaxDmChanges /\ dmChanges' = dmChanges + 1
    /\ change' = [change EXCEPT ![c] = what]
    /\ UNCHANGED <<answered, away>>

goes(c, to) == dpc' = [dpc EXCEPT ![c] = to]

\* Mutant: INSERT OR REPLACE.
persisted_Replaced == [there |-> TRUE, body |-> "text", deleted |-> FALSE]

\* INSERT OR IGNORE
persisted == IF row.there THEN row ELSE [there |-> TRUE, body |-> "text", deleted |-> FALSE]

\* msg: the first time, or again with the same msg_id.
persistDM(c) ==
    /\ Owner[c] = Writer /\ (row.there => line[c].there)
    /\ receives(c, "msg") /\ goes(c, "relay")
    /\ row' = persisted
    /\ line' = [line EXCEPT ![c].there = TRUE]
    /\ apart(c, busy(Writer) \/ row.body = "edited" \/ row.deleted)
    /\ UNCHANGED <<marks, hadMark, erased>>

editDM(c) ==
    /\ Owner[c] = Writer /\ line[c].there
    /\ receives(c, "edit") /\ goes(c, "relay")
    /\ row' = IF row.deleted THEN row ELSE [row EXCEPT !.body = "edited"]
    /\ apart(c, busy(Writer) \/ row.deleted)
    /\ UNCHANGED <<marks, hadMark, line, erased>>

deleteDM(c) ==
    /\ Owner[c] = Writer /\ line[c].there
    /\ receives(c, "delete") /\ goes(c, "relay")
    /\ row' = [row EXCEPT !.body = "none", !.deleted = TRUE]
    /\ erased' = TRUE
    /\ apart(c, busy(Writer))
    /\ UNCHANGED <<marks, hadMark, line>>

\* toggleReaction: counts, ...
countReaction(c) ==
    /\ c \in parties /\ line[c].there
    /\ receives(c, "react") /\ goes(c, "write")
    /\ hadMark' = [hadMark EXCEPT ![c] = Owner[c] \in marks]
    /\ apart(c, busy(Owner[c]))
    /\ UNCHANGED <<row, marks, line, erased>>

\* Mutant: a reaction is only ever added.
toggled_Added(c) == marks \cup {Owner[c]}

toggled(c) == IF hadMark[c] THEN marks \ {Owner[c]} ELSE marks \cup {Owner[c]}

\* ... then deletes or inserts.
toggleReaction(c) ==
    /\ dpc[c] = "write" /\ goes(c, "relay")
    /\ marks' = toggled(c)
    /\ hadMark' = [hadMark EXCEPT ![c] = FALSE]
    /\ UNCHANGED <<row, change, answered, line, away, exact, erased, dmChanges>>

-----------------------------------------------------------------------------
\* What the client makes of a relay: App.tsx, mutateMessage.  Without the
\* message only "msg" does something; an edit also takes back a deletion.
relayed(d, what) ==
    IF what = "msg" THEN [line[d] EXCEPT !.there = TRUE, !.body = "text", !.deleted = FALSE]
    ELSE IF ~line[d].there THEN line[d]
    ELSE CASE what = "edit" -> [line[d] EXCEPT !.body = "edited", !.deleted = FALSE]
           [] what = "delete" -> [line[d] EXCEPT !.body = "none", !.deleted = TRUE]
           [] what = "react" -> [line[d] EXCEPT !.mark = ~@]

\* sendTo(msg.Recipient, msg)
relay(c) ==
    /\ dpc[c] = "relay" /\ goes(c, "read")
    /\ line' = [d \in Conns |->
           IF Owner[d] = otherOf(c) /\ d \notin away THEN relayed(d, change[c]) ELSE line[d]]
    /\ exact' = [d \in Conns |->
           exact[d] /\ ~(Owner[d] = otherOf(c) /\ (d \in away \/ dpc[d] \in {"reactions", "answer"}))]
    /\ change' = [change EXCEPT ![c] = "none"]
    /\ UNCHANGED <<row, marks, hadMark, answered, away, erased, dmChanges>>

drop(c) ==
    /\ c \in parties \ away /\ dpc[c] = "read"
    /\ away' = away \cup {c}
    /\ UNCHANGED <<row, marks, dpc, change, hadMark, answered, line, exact, erased, dmChanges>>

shownRow ==
    [there |-> row.there, body |-> IF row.deleted THEN "none" ELSE row.body,
     deleted |-> row.deleted, mark |-> FALSE]

\* fetchDMHistory on the connection that opens the chat: the messages, ...
fetchMessages(c) ==
    /\ c \in parties /\ dpc[c] = "read"
    /\ goes(c, "reactions")
    /\ away' = away \ {c}
    /\ answered' = [answered EXCEPT ![c] = shownRow]
    /\ exact' = [exact EXCEPT ![c] = ~busy(otherOf(c))]
    /\ UNCHANGED <<row, marks, change, hadMark, line, erased, dmChanges>>

\* ... then the reactions, ...
fetchReactions(c) ==
    /\ dpc[c] = "reactions" /\ goes(c, "answer")
    /\ answered' = [answered EXCEPT ![c].mark = answered[c].there /\ otherOf(c) \in marks]
    /\ UNCHANGED <<row, marks, change, hadMark, line, away, exact, erased, dmChanges>>

\* ... and the answer, by which the client replaces the message if it is in it.
dmHistory(c) ==
    /\ dpc[c] = "answer" /\ goes(c, "read")
    /\ line' = IF answered[c].there THEN [line EXCEPT ![c] = answered[c]] ELSE line
    /\ answered' = [answered EXCEPT ![c] = NoLine]
    /\ exact' = [exact EXCEPT ![c] = @ /\ ~busy(otherOf(c))]
    /\ UNCHANGED <<row, marks, change, hadMark, away, erased, dmChanges>>

DNext ==
    \E c \in Conns :
        \/ persistDM(c) \/ editDM(c) \/ deleteDM(c) \/ countReaction(c) \/ toggleReaction(c)
        \/ relay(c) \/ drop(c)
        \/ fetchMessages(c) \/ fetchReactions(c) \/ dmHistory(c)

DSpec == DInit /\ [][DNext]_dvars

-----------------------------------------------------------------------------
(* Properties. *)

(***************************************************************************)
(* A deleted message stays deleted: neither an edit from a device that has *)
(* not heard of the deletion nor the message sent again with its msg_id    *)
(* puts a body back into the row.                                          *)
(***************************************************************************)
DeletedForGood == erased => row.deleted /\ row.body = "none"

(***************************************************************************)
(* Both sides converge: when nothing is under way, the reader's copy is    *)
(* the row, and either's copy shows the other's reaction as the table has  *)
(* it, on every connection that has missed nothing since it had the        *)
(* message or its history whole, if the changes of one person came one at  *)
(* a time and none was of a message already deleted.                       *)
(***************************************************************************)
BothSidesConverge ==
    (\A c \in Conns : dpc[c] = "read") =>
        \A c \in parties : line[c].there /\ exact[c] =>
            /\ line[c].mark <=> otherOf(c) \in marks
            /\ Owner[c] = Reader => line[c].body = row.body /\ line[c].deleted = row.deleted

(***************************************************************************)
(* The history of a conversation between two: what is deleted stays so in  *)
(* dm_messages, and both sides end up with what the table says.            *)
(***************************************************************************)
HistorySafe ==
    /\ DTypeOK
    /\ DeletedForGood
    /\ BothSidesConverge
=============================================================================
