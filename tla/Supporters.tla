----------------------------- MODULE Supporters -----------------------------
(***************************************************************************)
(* The supporter badge: the form, the webhook of the payment provider, and *)
(* the administrator's queue.  The module follows one e-mail address, the  *)
(* forms that give it and the payments it makes.  The provider delivers an *)
(* event once or several times and keeps no order; nothing in the tables   *)
(* tells a second delivery from a second payment.  Every handler is a      *)
(* chain of statements, and the server may stop between two of them.       *)
(***************************************************************************)
EXTENDS Requests, Sequences

CONSTANTS
    Donors,        \* usernames
    MailHolder,    \* the one whose account has the address
    NoName,        \* the empty username
    Leavers,       \* a bound: those who delete their account
    MaxForms,      \* a bound: rows of supporter_requests
    MaxDeliveries, \* a bound: how often the webhook is called
    MaxAsides      \* a bound: how often an administrator, an account that goes or a stop intervenes

ASSUME SupportersAssumption ==
    /\ MailHolder \in Donors /\ Leavers \subseteq Donors /\ NoName \notin Donors
    /\ {MaxForms, MaxDeliveries, MaxAsides} \subseteq Nat

VARIABLES
    forms,       \* supporter_requests: the name and the status
    members,     \* accounts there are
    mailChecked, \* users.is_verified of MailHolder
    badge,       \* users.supporter
    payments,    \* bmc_payments: <<delivery, matched_username>>
    upc,         \* where the handler is
    formRead,    \* the row it has found, 0 for none
    nameRead,    \* the name it has found
    delivery,    \* which call of the webhook it serves, 0 for the administrator's
    deliveries,  \* calls so far
    gave,        \* <<delivery, user>>: an account was given the badge by it
    taken,       \* <<delivery, row>>: the row was granted by it
    overlapped,  \* two calls of the webhook were under way together
    renewed,     \* names whose account is not the one there was at first
    stopped,     \* the server stopped once
    asides

uvars == <<forms, members, mailChecked, badge, payments, upc, formRead, nameRead, delivery,
           deliveries, gave, taken, overlapped, renewed, stopped, asides>>
userRows == <<members, mailChecked, renewed>>
found == <<formRead, nameRead>>
uHistory == <<gave, taken, overlapped>>

Names == Donors \cup {NoName}

UTypeOK ==
    /\ forms \in Seq([user : Names, status : {"pending", "granted", "dismissed"}]) /\ Len(forms) <= MaxForms
    /\ members \subseteq Donors /\ badge \subseteq members /\ renewed \subseteq Donors
    /\ mailChecked \in BOOLEAN /\ (mailChecked => MailHolder \in members)
    /\ payments \subseteq (1..MaxDeliveries) \X Names
    /\ upc \in [Reqs -> {"idle", "form", "mark", "named", "byMail", "mailed", "row", "audit",
                         "adminMark", "adminBadge", "direct", "directRow"}]
    /\ formRead \in [Reqs -> 0..MaxForms] /\ nameRead \in [Reqs -> Names]
    /\ delivery \in [Reqs -> 0..MaxDeliveries] /\ deliveries \in 0..MaxDeliveries
    /\ gave \subseteq (1..MaxDeliveries) \X Donors /\ taken \subseteq (1..MaxDeliveries) \X (1..MaxForms)
    /\ overlapped \in BOOLEAN /\ stopped \in BOOLEAN /\ asides \in 0..MaxAsides

UInit ==
    /\ forms = <<>>
    /\ members = Donors /\ renewed = {} /\ mailChecked = TRUE
    /\ badge = {} /\ payments = {}
    /\ upc = [r \in Reqs |-> "idle"]
    /\ formRead = [r \in Reqs |-> 0] /\ nameRead = [r \in Reqs |-> NoName]
    /\ delivery = [r \in Reqs |-> 0] /\ deliveries = 0
    /\ gave = {} /\ taken = {} /\ overlapped = FALSE /\ stopped = FALSE /\ asides = 0

-----------------------------------------------------------------------------
aside == asides < MaxAsides /\ asides' = asides + 1

passes(r, from, to) == upc[r] = from /\ upc' = [upc EXCEPT ![r] = to]

\* The handler has answered.
answered(r, from) ==
    /\ passes(r, from, "idle")
    /\ formRead' = [formRead EXCEPT ![r] = 0] /\ nameRead' = [nameRead EXCEPT ![r] = NoName]
    /\ delivery' = [delivery EXCEPT ![r] = 0]

\* UPDATE supporter_requests SET status = ... WHERE id = ?, whatever it was before.
marked(i, status) == forms' = [forms EXCEPT ![i].status = status]

\* UPDATE users SET supporter = 1 WHERE username = ?
given(u) == badge' = badge \cup ({u} \cap members)

\* INSERT: nothing is UNIQUE in the table, so OR IGNORE ignores nothing.
adds(u, status) == forms' = Append(forms, [user |-> u, status |-> status])

\* A form nobody filled in; past the bound it is left out.
insertGranted(u) == IF Len(forms) < MaxForms THEN adds(u, "granted") ELSE UNCHANGED forms

\* supportRequestHandler, of a visitor who may give a username, right or not, or none.
supportRequest(u) ==
    /\ Len(forms) < MaxForms
    /\ adds(u, "pending")
    /\ UNCHANGED <<userRows, badge, payments, upc, found, delivery, deliveries, uHistory, stopped, asides>>

-----------------------------------------------------------------------------
(* bmcWebhookHandler and bmcGrantByEmail. *)

bmcWebhook(r) ==
    /\ deliveries < MaxDeliveries
    /\ passes(r, "idle", "form")
    /\ deliveries' = deliveries + 1
    /\ delivery' = [delivery EXCEPT ![r] = deliveries + 1]
    /\ overlapped' = (overlapped \/ \E q \in Reqs : delivery[q] # 0)
    /\ UNCHANGED <<forms, userRows, badge, payments, found, gave, taken, stopped, asides>>

\* Mutant: the status is not asked for.
takeable_Any == {i \in 1..Len(forms) : TRUE}

takeable == {i \in 1..Len(forms) : forms[i].status = "pending"}

newest(S) == CHOOSE i \in S : \A j \in S : j <= i

\* The SELECT of the newest pending form.
findForm(r) ==
    /\ passes(r, "form", IF takeable = {} THEN "byMail" ELSE "mark")
    /\ formRead' = [formRead EXCEPT ![r] = IF takeable = {} THEN 0 ELSE newest(takeable)]
    /\ nameRead' = [nameRead EXCEPT ![r] = IF takeable = {} THEN NoName ELSE forms[newest(takeable)].user]
    /\ UNCHANGED <<forms, userRows, badge, payments, delivery, deliveries, uHistory, stopped, asides>>

\* A form without a name is granted all the same, and the address looked up.
grantForm(r) ==
    /\ passes(r, "mark", IF nameRead[r] = NoName THEN "byMail" ELSE "named")
    /\ marked(formRead[r], "granted")
    /\ taken' = taken \cup {<<delivery[r], formRead[r]>>}
    /\ UNCHANGED <<userRows, badge, payments, found, delivery, deliveries, gave, overlapped, stopped, asides>>

afterNamed == "audit"

\* A name no account has is taken for a match.
badgeNamed(r) ==
    /\ passes(r, "named", afterNamed)
    /\ given(nameRead[r])
    /\ gave' = gave \cup ({delivery[r]} \X {nameRead[r]})
    /\ UNCHANGED <<forms, userRows, payments, found, delivery, deliveries, taken, overlapped, stopped, asides>>

\* The SELECT of a verified account with the address.
findAccount(r) ==
    /\ passes(r, "byMail", IF mailChecked THEN "mailed" ELSE "audit")
    /\ nameRead' = [nameRead EXCEPT ![r] = IF mailChecked THEN MailHolder ELSE NoName]
    /\ UNCHANGED <<forms, userRows, badge, payments, formRead, delivery, deliveries, uHistory, stopped, asides>>

badgeByMail(r) ==
    /\ passes(r, "mailed", "row")
    /\ given(nameRead[r])
    /\ gave' = gave \cup ({delivery[r]} \X {nameRead[r]})
    /\ UNCHANGED <<forms, userRows, payments, found, delivery, deliveries, taken, overlapped, stopped, asides>>

recordGrant(r) ==
    /\ passes(r, "row", "audit")
    /\ insertGranted(nameRead[r])
    /\ UNCHANGED <<userRows, badge, payments, found, delivery, deliveries, uHistory, stopped, asides>>

\* bmc_payments, whatever the outcome; matched = "" waits for the administrator.
audit(r) ==
    /\ answered(r, "audit")
    /\ payments' = payments \cup {<<delivery[r], nameRead[r]>>}
    /\ UNCHANGED <<forms, userRows, badge, deliveries, uHistory, stopped, asides>>

-----------------------------------------------------------------------------
(* The administrator. *)

adminGrant(r, i) ==
    /\ aside
    /\ passes(r, "idle", "adminMark")
    /\ i <= Len(forms)
    /\ formRead' = [formRead EXCEPT ![r] = i]
    /\ nameRead' = [nameRead EXCEPT ![r] = forms[i].user]
    /\ UNCHANGED <<forms, userRows, badge, payments, delivery, deliveries, uHistory, stopped>>

adminMark(r) ==
    /\ IF nameRead[r] = NoName THEN answered(r, "adminMark")
       ELSE passes(r, "adminMark", "adminBadge") /\ UNCHANGED <<found, delivery>>
    /\ marked(formRead[r], "granted")
    /\ UNCHANGED <<userRows, badge, payments, deliveries, uHistory, stopped, asides>>

\* Mutant: the queue is settled and the account forgotten.
adminBadge_Unset(r) == UNCHANGED badge

adminBadge(r) == given(nameRead[r])

adminGranted(r) ==
    /\ answered(r, "adminBadge")
    /\ adminBadge(r)
    /\ UNCHANGED <<forms, userRows, payments, deliveries, uHistory, stopped, asides>>

\* adminGrantSupporterHandler: an account there is, its flag, a form for it.
adminGrantDirect(r, u) ==
    /\ aside
    /\ passes(r, "idle", "direct")
    /\ u \in members
    /\ nameRead' = [nameRead EXCEPT ![r] = u]
    /\ UNCHANGED <<forms, userRows, badge, payments, formRead, delivery, deliveries, uHistory, stopped>>

directBadge(r) ==
    /\ passes(r, "direct", "directRow")
    /\ given(nameRead[r])
    /\ UNCHANGED <<forms, userRows, payments, found, delivery, deliveries, uHistory, stopped, asides>>

directRow(r) ==
    /\ answered(r, "directRow")
    /\ insertGranted(nameRead[r])
    /\ UNCHANGED <<userRows, badge, payments, deliveries, uHistory, stopped, asides>>

\* Past the bounds, nothing but this is done, when all is at rest.
pastBounds ==
    /\ asides = MaxAsides /\ deliveries = MaxDeliveries
    /\ \A r \in Reqs : upc[r] = "idle"
    /\ UNCHANGED asides

dismiss(i) ==
    /\ aside \/ pastBounds
    /\ i <= Len(forms)
    /\ marked(i, "dismissed")
    /\ UNCHANGED <<userRows, badge, payments, upc, found, delivery, deliveries, uHistory, stopped>>

-----------------------------------------------------------------------------
(* Around it. *)

\* The flag is a column of the row that goes.
lost(u) == badge \ {u}

\* deleteAccount leaves the forms and the payments.
leave(u) ==
    /\ aside
    /\ u \in members
    /\ members' = members \ {u} /\ badge' = lost(u)
    /\ mailChecked' = (mailChecked /\ u # MailHolder)
    /\ renewed' = renewed \cup {u}
    /\ UNCHANGED <<forms, payments, upc, found, delivery, deliveries, uHistory, stopped>>

\* registerUser, and verifyUser for the address.
enter(u) ==
    /\ aside
    /\ u \notin members
    /\ members' = members \cup {u}
    /\ \E v \in BOOLEAN : mailChecked' = (mailChecked \/ (u = MailHolder /\ v))
    /\ UNCHANGED <<forms, badge, renewed, payments, upc, found, delivery, deliveries, uHistory, stopped>>

\* The server is stopped and started: what was under way is lost.
restart ==
    /\ aside
    /\ ~stopped /\ stopped' = TRUE
    /\ upc' = [r \in Reqs |-> "idle"]
    /\ formRead' = [r \in Reqs |-> 0] /\ nameRead' = [r \in Reqs |-> NoName]
    /\ delivery' = [r \in Reqs |-> 0]
    /\ UNCHANGED <<forms, userRows, badge, payments, deliveries, uHistory>>

UHandler(r) ==
    \/ bmcWebhook(r) \/ findForm(r) \/ grantForm(r) \/ badgeNamed(r)
    \/ findAccount(r) \/ badgeByMail(r) \/ recordGrant(r) \/ audit(r)
    \/ (\E i \in 1..MaxForms : adminGrant(r, i)) \/ adminMark(r) \/ adminGranted(r)
    \/ (\E u \in Donors : adminGrantDirect(r, u)) \/ directBadge(r) \/ directRow(r)

UNext ==
    \/ \E r \in Reqs : UHandler(r)
    \/ \E u \in Names : supportRequest(u)
    \/ \E i \in 1..MaxForms : dismiss(i)
    \/ \E u \in Leavers : leave(u) \/ enter(u)
    \/ restart

USpec == UInit /\ [][UNext]_uvars

-----------------------------------------------------------------------------
(* Properties. *)

(***************************************************************************)
(* Granted means granted: once no handler is at it, a form that says       *)
(* granted has brought the account it names its badge, whichever of the    *)
(* webhook and the administrator came first and whoever dismissed it       *)
(* meanwhile; but not if the server stopped between the two UPDATEs, which *)
(* leaves the form granted, out of the queue and its account without.      *)
(***************************************************************************)
GrantsKept ==
    ~stopped =>
        \A i \in 1..Len(forms) :
            /\ forms[i].status = "granted" /\ forms[i].user \in members \ renewed
            /\ \A r \in Reqs : formRead[r] # i
            => forms[i].user \in badge

(***************************************************************************)
(* The audit tells who got it: a payment is recorded as matched with the   *)
(* one name its delivery gave the badge to, and as unmatched, for the      *)
(* administrator to resolve, if there was none; a name is there for one    *)
(* delivery once.                                                          *)
(***************************************************************************)
AuditTells ==
    \A p \in payments : {g[2] : g \in {h \in gave : h[1] = p[1]}} = {p[2]} \ {NoName}

(***************************************************************************)
(* A form is used up by one payment: two take the same one only if they    *)
(* are served together, whatever an administrator, a restart or an account *)
(* that comes or goes does in between.                                     *)
(***************************************************************************)
FormTakenOnce ==
    ~overlapped => \A s, t \in taken : s[2] = t[2] => s = t

(***************************************************************************)
(* Forms, badges and the audit agree, with the webhook, the administrators *)
(* and a stop of the server between any two of their statements.           *)
(***************************************************************************)
SupportersSafe ==
    /\ UTypeOK
    /\ GrantsKept
    /\ AuditTells
    /\ FormTakenOnce
=============================================================================
