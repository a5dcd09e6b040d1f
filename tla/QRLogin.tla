------------------------------ MODULE QRLogin ------------------------------
(***************************************************************************)
(* Signing in by a QR code: a client that is not signed in shows a code,   *)
(* somebody who is approves it, and the client, which keeps asking, is put *)
(* on the session made for it; link_create, link_approve and link_check do *)
(* the same to link a device.  Any number of users may scan the same code. *)
(* qr_login_approve issues the session first and claims the row in a       *)
(* second statement.                                                       *)
(***************************************************************************)
EXTENDS Requests

CONSTANTS
    QRTokens,   \* values of qr_login_tokens.token
    Approvers,  \* users that scan a code
    Nobody      \* the empty username

ASSUME QRLoginAssumption == Nobody \notin Approvers

VARIABLES
    qrRow,      \* qr_login_tokens: "none", "open", or "lapsed": its five minutes are over, or it was purged
    qrUser,     \* qr_login_tokens.username; Nobody: approved = 0
    qpc,        \* where the handler of qr_login_approve is
    scanned,    \* the code and the user it works for
    seen,       \* the user qr_login_check has read for the client that shows the code
    issued,     \* <<q, u>>: a session was issued to u for q
    toldOK,     \* <<q, u>>: u was told "approved"
    promoted,   \* <<q, u>>: the client that shows q was signed in as u
    linked      \* <<q, u>>: ... or handed the session of u, to link the device

qvars == <<qrRow, qrUser, qpc, scanned, seen, issued, toldOK, promoted, linked>>

QTypeOK ==
    /\ qrRow \in [QRTokens -> {"none", "open", "lapsed"}]
    /\ qrUser \in [QRTokens -> Approvers \cup {Nobody}]
    /\ qpc \in [Reqs -> {"idle", "claim"}]
    /\ scanned \in [Reqs -> (QRTokens \X Approvers) \cup {<<>>}]
    /\ seen \in [QRTokens -> Approvers \cup {Nobody}]
    /\ issued \subseteq QRTokens \X Approvers
    /\ toldOK \subseteq QRTokens \X Approvers
    /\ promoted \subseteq QRTokens \X Approvers /\ linked \subseteq QRTokens \X Approvers

QInit ==
    /\ qrRow = [q \in QRTokens |-> "none"]
    /\ qrUser = [q \in QRTokens |-> Nobody]
    /\ qpc = [p \in Reqs |-> "idle"]
    /\ scanned = [p \in Reqs |-> <<>>]
    /\ seen = [q \in QRTokens |-> Nobody]
    /\ issued = {} /\ toldOK = {} /\ promoted = {} /\ linked = {}

createQRLogin(q) ==
    /\ qrRow[q] = "none"
    /\ qrRow' = [qrRow EXCEPT ![q] = "open"]
    /\ UNCHANGED <<qrUser, qpc, scanned, seen, issued, toldOK, promoted, linked>>

\* qr_login_approve: approveQRLogin issues a session, whatever the code.
QRApprove(p, q, u) ==
    /\ qpc[p] = "idle"
    /\ qpc' = [qpc EXCEPT ![p] = "claim"]
    /\ scanned' = [scanned EXCEPT ![p] = <<q, u>>]
    /\ issued' = issued \cup {<<q, u>>}
    /\ UNCHANGED <<qrRow, qrUser, seen, toldOK, promoted, linked>>

\* Mutant: the UPDATE does not ask for approved = 0.
claimable_Again(q) == qrRow[q] = "open"

\* The WHERE of the UPDATE.
claimable(q) == qrRow[q] = "open" /\ qrUser[q] = Nobody

\* The UPDATE; the user is told by the number of rows it affected.
approveQRLogin(p) ==
    /\ qpc[p] = "claim"
    /\ LET q == scanned[p][1] u == scanned[p][2] IN
       IF claimable(q)
       THEN /\ qrUser' = [qrUser EXCEPT ![q] = u]
            /\ toldOK' = toldOK \cup {<<q, u>>}
       ELSE UNCHANGED <<qrUser, toldOK>>
    /\ qpc' = [qpc EXCEPT ![p] = "idle"]
    /\ scanned' = [scanned EXCEPT ![p] = <<>>]
    /\ UNCHANGED <<qrRow, seen, issued, promoted, linked>>

\* qr_login_check: the row is read, as often as the client asks while the
\* code has not lapsed, ...
checkQRLogin(q) ==
    /\ qrRow[q] = "open" /\ qrUser[q] # Nobody
    /\ seen' = [seen EXCEPT ![q] = qrUser[q]]
    /\ UNCHANGED <<qrRow, qrUser, qpc, scanned, issued, toldOK, promoted, linked>>

\* ... and the connection put on the session it names.
QRPromote(q) ==
    /\ seen[q] # Nobody
    /\ promoted' = promoted \cup {<<q, seen[q]>>}
    /\ seen' = [seen EXCEPT ![q] = Nobody]
    /\ UNCHANGED <<qrRow, qrUser, qpc, scanned, issued, toldOK, linked>>

\* link_check, the same for a device that is linked: it is handed the session.
LinkCheck(q) ==
    /\ seen[q] # Nobody
    /\ linked' = linked \cup {<<q, seen[q]>>}
    /\ seen' = [seen EXCEPT ![q] = Nobody]
    /\ UNCHANGED <<qrRow, qrUser, qpc, scanned, issued, toldOK, promoted>>

QRLapses(q) ==
    /\ qrRow[q] = "open"
    /\ qrRow' = [qrRow EXCEPT ![q] = "lapsed"]
    /\ UNCHANGED <<qrUser, qpc, scanned, seen, issued, toldOK, promoted, linked>>

\* Every six hours; a code that was approved but not yet asked for goes too.
sweepExpiredQRLoginTokens ==
    /\ \E q \in QRTokens : qrRow[q] = "open" /\ qrUser[q] # Nobody
    /\ qrRow' = [q \in QRTokens |-> IF qrUser[q] # Nobody THEN "lapsed" ELSE qrRow[q]]
    /\ UNCHANGED <<qrUser, qpc, scanned, seen, issued, toldOK, promoted, linked>>

QNext ==
    \/ \E q \in QRTokens : createQRLogin(q) \/ checkQRLogin(q) \/ QRPromote(q) \/ LinkCheck(q) \/ QRLapses(q)
    \/ sweepExpiredQRLoginTokens
    \/ \E p \in Reqs : approveQRLogin(p)
                       \/ \E q \in QRTokens, u \in Approvers : QRApprove(p, q, u)

QSpec == QInit /\ [][QNext]_qvars

(***************************************************************************)
(* However many users scan a code, and however their approvals interleave  *)
(* with each other, the expiry and the client's asking: at most one is     *)
(* told that it worked, and the client only ever gets that one's session.  *)
(***************************************************************************)
OneApprover ==
    /\ \A q \in QRTokens : Cardinality({u \in Approvers : <<q, u>> \in toldOK}) <= 1
    /\ promoted \cup linked \subseteq toldOK

(***************************************************************************)
(* The rows of qr_login_tokens are of their types, and a code signs its    *)
(* client in as the one user who was told that the approval worked.        *)
(***************************************************************************)
QRLoginSafe ==
    /\ QTypeOK
    /\ OneApprover
=============================================================================
