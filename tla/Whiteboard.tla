----------------------------- MODULE Whiteboard -----------------------------
(***************************************************************************)
(* The whiteboard of a channel: the rows of whiteboard_strokes, and the    *)
(* boards the web clients of its members paint.  A client paints its own   *)
(* stroke first and sends it then, takes what others draw from the relay,  *)
(* and replaces all of it by the answer to wb_join.  Its messages reach    *)
(* its connection's goroutine in order; each handler is a chain of         *)
(* statements that ends by telling every connection.  A stroke is known by *)
(* the connection that drew it and a number; geometry is left out.         *)
(***************************************************************************)
EXTENDS Handlers, SequencesExt

CONSTANTS
    Admins,      \* members whose role in the space is owner or admin
    Cap,         \* maxWhiteboardStrokes
    MaxOps       \* a bound: how many messages the clients send

ASSUME WhiteboardAssumption == Admins \subseteq Users /\ Cap \in Nat \ {0} /\ MaxOps \in Nat

VARIABLES
    strokes,    \* whiteboard_strokes of the channel, by id
    bpc,        \* where the connection's goroutine is
    toServer,   \* what the client has sent and nobody has read
    subject,    \* the strokes its message is about, or will carry
    view,       \* "closed", "waiting" for wb_state, or "ready"
    painted,    \* strokesRef of the client
    own,        \* ownStrokeIdsRef: strokes it drew, so as to skip their echo
    lost,       \* strokes the cap has taken, or the server refused
    stale,      \* the client was told something between the query and the wb_state
    crossed,    \* a stroke was on its way when a clear, or an undo that named none, took it or met it
    sent        \* messages sent so far, up to the bound

bvars == <<strokes, bpc, toServer, subject, view, painted, own, lost, stale, crossed, sent>>
client == <<view, painted, own>>

Uids == Conns \X (1..MaxOps)
author(s) == Owner[s[1]]

Nothing == {}

\* What a client sends: the operation and the stroke it is about.
Messages == {"join", "clear", "undoLast"} \X {Nothing} \cup {"stroke", "undo"} \X {{s} : s \in Uids}

BTypeOK ==
    /\ strokes \in Seq(Uids)
    /\ bpc \in [Conns -> {"read", "count", "tellStroke", "undo", "tellUndo", "clear", "state"}]
    /\ toServer \in [Conns -> Seq(Messages)]
    /\ subject \in [Conns -> SUBSET Uids]
    /\ view \in [Conns -> {"closed", "waiting", "ready"}]
    /\ painted \in [Conns -> SUBSET Uids] /\ own \in [Conns -> SUBSET Uids]
    /\ lost \subseteq Uids
    /\ stale \in [Conns -> BOOLEAN]
    /\ crossed \in BOOLEAN
    /\ sent \in 0..MaxOps

BInit ==
    /\ strokes = <<>>
    /\ bpc = [c \in Conns |-> "read"]
    /\ toServer = [c \in Conns |-> <<>>]
    /\ subject = [c \in Conns |-> Nothing]
    /\ view = [c \in Conns |-> "closed"]
    /\ painted = [c \in Conns |-> {}] /\ own = [c \in Conns |-> {}]
    /\ lost = {}
    /\ stale = [c \in Conns |-> FALSE]
    /\ crossed = FALSE
    /\ sent = 0

-----------------------------------------------------------------------------
(* The client. *)

says(c, op, what) ==
    /\ toServer' = [toServer EXCEPT ![c] = Append(@, <<op, what>>)]
    /\ UNCHANGED <<strokes, bpc, subject, lost, stale, crossed>>

atRest == \A c \in Conns : bpc[c] = "read" /\ toServer[c] = <<>>

\* Past the bound, only a board is opened, and when nothing is on its way.
counts == sent < MaxOps /\ sent' = sent + 1

\* The effect that opens a board: everything is forgotten, wb_join is sent.
openBoard(c) ==
    /\ view[c] # "waiting"
    /\ counts \/ (sent = MaxOps /\ atRest /\ UNCHANGED sent)
    /\ says(c, "join", Nothing)
    /\ view' = [view EXCEPT ![c] = "waiting"]
    /\ painted' = [painted EXCEPT ![c] = {}]
    /\ own' = [own EXCEPT ![c] = {}]

finishStroke(c) ==
    /\ view[c] = "ready" /\ counts
    /\ LET s == <<c, sent + 1>>
       IN /\ says(c, "stroke", {s})
          /\ painted' = [painted EXCEPT ![c] = @ \cup {s}]
          /\ own' = [own EXCEPT ![c] = @ \cup {s}]
    /\ UNCHANGED view

\* The last stroke this connection drew, named.
undo(c) ==
    /\ view[c] = "ready" /\ counts
    /\ \E s \in own[c] \cap painted[c] :
           /\ \A t \in own[c] \cap painted[c] : t[2] <= s[2]
           /\ says(c, "undo", {s})
           /\ painted' = [painted EXCEPT ![c] = @ \ {s}]
           /\ own' = [own EXCEPT ![c] = @ \ {s}]
    /\ UNCHANGED view

\* A client that names no stroke; the button to clear.
asks(c) ==
    /\ view[c] = "ready" /\ counts
    /\ \E op \in {"undoLast", "clear"} : says(c, op, Nothing)
    /\ UNCHANGED client

-----------------------------------------------------------------------------
(* What a client makes of what it is told. *)

\* Mutant: the echo is told by its author.
echo_ByAuthor(d, s) == author(s) = Owner[d]

echo(d, s) == s \in own[d]

watching == {d \in Conns : view[d] # "closed"}

\* A query of wb_join is out that this will not be in.
misses == stale' = [d \in Conns |-> stale[d] \/ bpc[d] = "state"]

toldStroke(s) ==
    /\ painted' = [d \in Conns |->
           IF d \in watching /\ ~echo(d, s) THEN painted[d] \cup {s} ELSE painted[d]]
    /\ misses
    /\ UNCHANGED <<view, own>>

toldUndo(s) ==
    /\ painted' = [d \in Conns |-> IF d \in watching THEN painted[d] \ {s} ELSE painted[d]]
    /\ own' = [d \in Conns |-> IF d \in watching THEN own[d] \ {s} ELSE own[d]]
    /\ misses
    /\ UNCHANGED view

toldClear ==
    /\ painted' = [d \in Conns |-> IF d \in watching THEN {} ELSE painted[d]]
    /\ own' = [d \in Conns |-> IF d \in watching THEN {} ELSE own[d]]
    /\ misses
    /\ UNCHANGED view

-----------------------------------------------------------------------------
(* The handlers.  The channel is a whiteboard and the sender a member.     *)

step(c, from, to) == bpc[c] = from /\ bpc' = [bpc EXCEPT ![c] = to]

takes(c, op, to) ==
    /\ toServer[c] # <<>> /\ Head(toServer[c])[1] = op
    /\ step(c, "read", to)
    /\ toServer' = [toServer EXCEPT ![c] = Tail(@)]
    /\ UNCHANGED sent

carries(c, what) == subject' = [subject EXCEPT ![c] = what]

\* The connections that are storing or telling a stroke.
storing == {d \in Conns : bpc[d] \in {"count", "tellStroke"}}

\* wb_join: whiteboardState ...
whiteboardState(c) ==
    /\ takes(c, "join", "state")
    /\ carries(c, Range(strokes))
    /\ stale' = [stale EXCEPT ![c] = FALSE]
    /\ UNCHANGED <<strokes, client, lost, crossed>>

\* ... and its answer, which replaces all the client has.
wbState(c) ==
    /\ step(c, "state", "read")
    /\ view' = [view EXCEPT ![c] = "ready"]
    /\ painted' = [painted EXCEPT ![c] = subject[c]]
    /\ carries(c, Nothing)
    /\ UNCHANGED <<strokes, toServer, own, lost, stale, crossed, sent>>

\* wb_stroke: a stroke validateStroke does not pass (too long, too many
\* points), or that cannot be stored, stays on its author's board alone.
refuseStroke(c) ==
    /\ takes(c, "stroke", "read")
    /\ lost' = lost \cup Head(toServer[c])[2]
    /\ UNCHANGED <<strokes, subject, client, stale, crossed>>

\* One that passes: appendStroke inserts, ...
insertStroke(c) ==
    /\ takes(c, "stroke", "count")
    /\ carries(c, Head(toServer[c])[2])
    /\ \E s \in Head(toServer[c])[2] : strokes' = Append(strokes, s)
    /\ crossed' = (crossed \/ \E d \in Conns : bpc[d] = "clear")
    /\ UNCHANGED <<client, lost, stale>>

\* The newest Cap rows, deleted if there are more.
kept == SubSeq(strokes, IF Len(strokes) > Cap THEN Len(strokes) - Cap + 1 ELSE 1, Len(strokes))

\* ... counts and trims, ...
trimStrokes(c) ==
    /\ step(c, "count", "tellStroke")
    /\ strokes' = kept
    /\ lost' = lost \cup (Range(strokes) \ Range(kept))
    /\ UNCHANGED <<toServer, subject, client, stale, crossed, sent>>

\* ... and everybody is told.
tellStroke(c) ==
    /\ step(c, "tellStroke", "read")
    /\ \A s \in subject[c] : toldStroke(s)
    /\ carries(c, Nothing)
    /\ UNCHANGED <<strokes, toServer, lost, crossed, sent>>

\* The sender's last stroke.
lastOf(c) ==
    LET mine == {i \in 1..Len(strokes) : author(strokes[i]) = Owner[c]}
    IN {strokes[i] : i \in {j \in mine : \A k \in mine : k <= j}}

\* The row undoStroke finds: the sender's, with that uid.
target(c) == {s \in Range(strokes) \cap Head(toServer[c])[2] : author(s) = Owner[c]}

\* wb_undo with a name: undoStroke selects; without a row nobody is told.
selectStroke(c) ==
    /\ takes(c, "undo", IF target(c) = {} THEN "read" ELSE "undo")
    /\ carries(c, target(c))
    /\ UNCHANGED <<strokes, client, lost, stale, crossed>>

\* wb_undo without: undoLastStroke finds the sender's last, then goes the same way.
undoLastStroke(c) ==
    /\ takes(c, "undoLast", IF lastOf(c) = {} THEN "read" ELSE "undo")
    /\ carries(c, lastOf(c))
    /\ crossed' = (crossed \/ \E d \in storing : lastOf(c) \cap subject[d] # {})
    /\ UNCHANGED <<strokes, client, lost, stale>>

deleteStroke(c) ==
    /\ step(c, "undo", "tellUndo")
    /\ \E s \in subject[c] :
           strokes' = IF s \in Range(strokes)
                      THEN RemoveAt(strokes, CHOOSE i \in 1..Len(strokes) : strokes[i] = s)
                      ELSE strokes
    /\ UNCHANGED <<toServer, subject, client, lost, stale, crossed, sent>>

tellUndo(c) ==
    /\ step(c, "tellUndo", "read")
    /\ \A s \in subject[c] : toldUndo(s)
    /\ carries(c, Nothing)
    /\ UNCHANGED <<strokes, toServer, lost, crossed, sent>>

\* wb_clear: refused to who may not administer the space.
clearRefused(c) ==
    /\ takes(c, "clear", "read")
    /\ Owner[c] \notin Admins
    /\ UNCHANGED <<strokes, subject, client, lost, stale, crossed>>

clearWhiteboard(c) ==
    /\ takes(c, "clear", "clear")
    /\ Owner[c] \in Admins
    /\ strokes' = <<>>
    /\ crossed' = (crossed \/ storing # {})
    /\ UNCHANGED <<subject, client, lost, stale>>

tellClear(c) ==
    /\ step(c, "clear", "read")
    /\ toldClear
    /\ UNCHANGED <<strokes, toServer, subject, lost, crossed, sent>>

BNext ==
    \E c \in Conns :
        \/ openBoard(c) \/ finishStroke(c) \/ undo(c) \/ asks(c)
        \/ whiteboardState(c) \/ wbState(c)
        \/ refuseStroke(c) \/ insertStroke(c) \/ trimStrokes(c) \/ tellStroke(c)
        \/ selectStroke(c) \/ undoLastStroke(c) \/ deleteStroke(c) \/ tellUndo(c)
        \/ clearRefused(c) \/ clearWhiteboard(c) \/ tellClear(c)

BSpec == BInit /\ [][BNext]_bvars

-----------------------------------------------------------------------------
(* Properties. *)

(***************************************************************************)
(* The boards agree: when nothing is on its way, every open board shows    *)
(* the strokes of the table, and besides them only strokes the cap has     *)
(* taken from it or the server has refused; also with one person drawing   *)
(* and undoing on two devices, and boards opened, left and cleared in      *)
(* between.  Not so for a board that was told something between the query  *)
(* of its wb_join and the answer, and not after a clear, or an undo that   *)
(* named no stroke, has met a stroke between its INSERT and its relay.     *)
(***************************************************************************)
BoardsAgree ==
    atRest /\ ~crossed =>
        \A c \in Conns : view[c] = "ready" /\ ~stale[c] => painted[c] \ lost = Range(strokes)

(***************************************************************************)
(* The cap holds: whatever number of members draw at once, the table has   *)
(* no more than maxWhiteboardStrokes rows but for those whose appendStroke *)
(* has not counted yet.                                                    *)
(***************************************************************************)
BoardBounded == Len(strokes) <= Cap + Cardinality({c \in Conns : bpc[c] = "count"})

(***************************************************************************)
(* The boards of the clients come to show the strokes of the table, which  *)
(* stays within its cap.                                                   *)
(***************************************************************************)
WhiteboardSafe ==
    /\ BTypeOK
    /\ BoardsAgree
    /\ BoardBounded
=============================================================================
