------------------------------ MODULE Sessions ------------------------------
(***************************************************************************)
(* Signing in and out of one account: the rows of session_tokens,          *)
(* device_challenges, known_devices and password_resets, and the handlers  *)
(* that change them, a statement at a time.  The password offered is       *)
(* right: a wrong one changes nothing here (see SignIn).                   *)
(***************************************************************************)
EXTENDS Requests

CONSTANTS
    Tokens,        \* session tokens, each issued once
    Devices,       \* values of the device cookie
    Resets,        \* password reset tokens, each issued once
    MaxAttempts,   \* maxDeviceChallengeAttempts, 5
    MaxEpoch,      \* a bound: how often the password is reset
    NoToken,
    NoReset

ASSUME SessionsAssumption ==
    /\ MaxAttempts \in Nat /\ MaxEpoch \in Nat
    /\ NoToken \notin Tokens /\ NoReset \notin Resets

VARIABLES
    sess,         \* session_tokens: "none", "live", or "over" (revoked or expired)
    pending,      \* session_tokens.pending_device
    device,       \* the device a session was opened on
    chal,         \* device_challenges, by session
    attempts,     \* device_challenges.attempts
    known,        \* known_devices
    resets,       \* password_resets
    banned,       \* users.is_banned
    spc,          \* where the handler is
    tok,          \* the session it works on
    rst,          \* the reset token it works on
    handed,       \* tokens a response has carried to the client
    challenged,   \* sessions opened on a device that had to be approved
    approvals,    \* sessions whose device somebody approved
    epoch,        \* how often the password was reset
    born,         \* the epoch a session was issued in
    uses,         \* how often a reset token has set the password
    together      \* reset tokens that two handlers held to be unused at once

tables == <<sess, pending, device, chal, attempts, known, resets, banned>>
sHistory == <<handed, challenged, approvals, epoch, born, uses, together>>
svars == <<tables, spc, tok, rst, sHistory>>

STypeOK ==
    /\ sess \in [Tokens -> {"none", "live", "over"}]
    /\ pending \subseteq Tokens
    /\ device \in [Tokens -> Devices]
    /\ chal \in [Tokens -> {"none", "open", "lapsed", "consumed"}]
    /\ attempts \in [Tokens -> 0..MaxAttempts + Cardinality(Reqs)]
    /\ known \subseteq Devices
    /\ resets \in [Resets -> {"none", "open", "used", "lapsed"}]
    /\ banned \in BOOLEAN
    /\ spc \in [Reqs -> {"idle", "issue", "check", "mark", "challenge", "wrong",
                         "consume", "letgo", "remember", "deny", "revoke",
                         "reset", "others", "ban"}]
    /\ tok \in [Reqs -> Tokens \cup {NoToken}]
    /\ rst \in [Reqs -> Resets \cup {NoReset}]
    /\ handed \subseteq Tokens /\ challenged \subseteq Tokens /\ approvals \subseteq Tokens
    /\ epoch \in 0..MaxEpoch
    /\ born \in [Tokens -> 0..MaxEpoch]
    /\ uses \in [Resets -> 0..MaxEpoch]
    /\ together \subseteq Resets

SInit ==
    /\ sess = [t \in Tokens |-> "none"]
    /\ pending = {}
    /\ device \in [Tokens -> Devices]
    /\ chal = [t \in Tokens |-> "none"]
    /\ attempts = [t \in Tokens |-> 0]
    /\ known = {}
    /\ resets = [r \in Resets |-> "none"]
    /\ banned = FALSE
    /\ spc = [p \in Reqs |-> "idle"]
    /\ tok = [p \in Reqs |-> NoToken]
    /\ rst = [p \in Reqs |-> NoReset]
    /\ handed = {} /\ challenged = {} /\ approvals = {}
    /\ epoch = 0
    /\ born = [t \in Tokens |-> 0]
    /\ uses = [r \in Resets |-> 0]
    /\ together = {}

-----------------------------------------------------------------------------
(* Queries, and the frame of a handler. *)

\* sessionState and sessionUsername: a held session authenticates nobody.
awaitsDevice(t) == sess[t] = "live" /\ t \in pending
sessionUsername(t) == sess[t] = "live" /\ t \notin pending

\* A connection that signed in with one of the tokens may still be open: it
\* outlives its session.
signedIn == handed \ pending # {}

goes(p, from, to) == spc[p] = from /\ spc' = [spc EXCEPT ![p] = to]

ends(p, from) ==
    /\ goes(p, from, "idle")
    /\ tok' = [tok EXCEPT ![p] = NoToken]
    /\ rst' = [rst EXCEPT ![p] = NoReset]

starts(p, label, t) ==
    /\ goes(p, "idle", label)
    /\ tok' = [tok EXCEPT ![p] = t]
    /\ UNCHANGED rst

-----------------------------------------------------------------------------
(* httpLoginHandler: password and ban are checked, the session is issued,  *)
(* and on a device the account does not know it is held before the token   *)
(* leaves the server.                                                      *)

Login(p) ==
    /\ ~banned
    /\ starts(p, "issue", NoToken)
    /\ UNCHANGED <<tables, sHistory>>

issueSessionToken(p, t) ==
    /\ goes(p, "issue", "check")
    /\ sess[t] = "none" /\ \A q \in Reqs : tok[q] # t
    /\ sess' = [sess EXCEPT ![t] = "live"]
    /\ born' = [born EXCEPT ![t] = epoch]
    /\ tok' = [tok EXCEPT ![p] = t]
    /\ UNCHANGED <<pending, device, chal, attempts, known, resets, banned, rst,
                   handed, challenged, approvals, epoch, uses, together>>

isKnownDevice(t) == device[t] \in known

\* canDeliverChallenge: a connection that is open, or a mailbox; whether there
\* is either is open here.
DeviceUnknown(p) ==
    /\ goes(p, "check", "mark")
    /\ ~isKnownDevice(tok[p])
    /\ UNCHANGED <<tables, tok, rst, sHistory>>

\* Known, or verification is off, or there is no way to ask, or the session
\* came of auth on a WebSocket: it is handed out.  A browser without a cookie
\* gets one that is remembered at once.
DeviceTrusted(p, fresh) ==
    /\ ends(p, "check")
    /\ handed' = handed \cup {tok[p]}
    /\ known' = IF fresh THEN known \cup {device[tok[p]]} ELSE known
    /\ UNCHANGED <<sess, pending, device, chal, attempts, resets, banned,
                   challenged, approvals, epoch, born, uses, together>>

\* Mutant: the token goes out first and the session is held afterwards.
markSessionPendingDevice_AfterReply(p) ==
    /\ goes(p, "mark", "challenge")
    /\ \/ /\ tok[p] \in handed
          /\ pending' = pending \cup {tok[p]}
          /\ UNCHANGED handed
       \/ handed' = handed \cup {tok[p]} /\ UNCHANGED pending
    /\ challenged' = challenged \cup {tok[p]}
    /\ UNCHANGED <<sess, device, chal, attempts, known, resets, banned, tok, rst,
                   approvals, epoch, born, uses, together>>

markSessionPendingDevice(p) ==
    /\ goes(p, "mark", "challenge")
    /\ pending' = pending \cup {tok[p]}
    /\ challenged' = challenged \cup {tok[p]}
    /\ UNCHANGED <<sess, device, chal, attempts, known, resets, banned, tok, rst,
                   handed, approvals, epoch, born, uses, together>>

\* The UPDATE is refused: an error, on a response that carries the cookie.
MarkRefused(p) ==
    /\ ends(p, "mark")
    /\ handed' = handed \cup {tok[p]}
    /\ UNCHANGED <<tables, challenged, approvals, epoch, born, uses, together>>

\* The INSERT may be refused: then nobody is asked and the session stays held.
createDeviceChallenge(p) ==
    /\ ends(p, "challenge")
    /\ \/ chal' = [chal EXCEPT ![tok[p]] = "open"]
       \/ UNCHANGED chal
    /\ handed' = handed \cup {tok[p]}
    /\ UNCHANGED <<sess, pending, device, attempts, known, resets, banned,
                   challenged, approvals, epoch, born, uses, together>>

-----------------------------------------------------------------------------
(* Answering the challenge: by the code, on the device itself, or in the   *)
(* app of a session that is signed in.  The row is read first and changed  *)
(* in later statements, so that two answers may both go ahead.             *)

codeAccepted(t) == chal[t] = "open" /\ attempts[t] < MaxAttempts

\* verifyDeviceChallenge with the right code.
VerifyDevice(p, t) ==
    /\ t \in handed /\ awaitsDevice(t)
    /\ codeAccepted(t)
    /\ starts(p, "consume", t)
    /\ approvals' = approvals \cup {t}
    /\ UNCHANGED <<tables, handed, challenged, epoch, born, uses, together>>

\* ... and with a wrong one.
WrongCode(p, t) ==
    /\ t \in handed /\ awaitsDevice(t)
    /\ codeAccepted(t)
    /\ starts(p, "wrong", t)
    /\ UNCHANGED <<tables, sHistory>>

CountAttempt(p) ==
    /\ ends(p, "wrong")
    /\ attempts' = [attempts EXCEPT ![tok[p]] = @ + 1]
    /\ UNCHANGED <<sess, pending, device, chal, known, resets, banned, sHistory>>

\* lookupDeviceChallenge looks at consumed alone, not at the expiry.
lookupDeviceChallenge(t) == signedIn /\ chal[t] \in {"open", "lapsed"}

DeviceApprove(p, t) ==
    /\ lookupDeviceChallenge(t)
    /\ starts(p, "consume", t)
    /\ approvals' = approvals \cup {t}
    /\ UNCHANGED <<tables, handed, challenged, epoch, born, uses, together>>

DeviceDeny(p, t) ==
    /\ lookupDeviceChallenge(t)
    /\ starts(p, "deny", t)
    /\ UNCHANGED <<tables, sHistory>>

consumeChallenge(t) == chal' = [chal EXCEPT ![t] = "consumed"]

\* Mutant: approving a device revives its session.
LetGo_Revives(p) ==
    /\ goes(p, "letgo", "remember")
    /\ pending' = pending \ {tok[p]}
    /\ sess' = [sess EXCEPT ![tok[p]] = "live"]
    /\ UNCHANGED <<device, chal, attempts, known, resets, banned, tok, rst, sHistory>>

\* approveDeviceChallenge, its three statements.
Consume(p) ==
    /\ goes(p, "consume", "letgo")
    /\ consumeChallenge(tok[p])
    /\ UNCHANGED <<sess, pending, device, attempts, known, resets, banned, tok, rst, sHistory>>

LetGo(p) ==
    /\ goes(p, "letgo", "remember")
    /\ pending' = pending \ {tok[p]}
    /\ UNCHANGED <<sess, device, chal, attempts, known, resets, banned, tok, rst, sHistory>>

rememberDevice(p) ==
    /\ ends(p, "remember")
    /\ known' = known \cup {device[tok[p]]}
    /\ UNCHANGED <<sess, pending, device, chal, attempts, resets, banned, sHistory>>

\* denyDeviceChallenge, its two.
Deny(p) ==
    /\ goes(p, "deny", "revoke")
    /\ consumeChallenge(tok[p])
    /\ UNCHANGED <<sess, pending, device, attempts, known, resets, banned, tok, rst, sHistory>>

DenyRevoke(p) ==
    /\ ends(p, "revoke")
    /\ sess' = [sess EXCEPT ![tok[p]] = "over"]
    /\ UNCHANGED <<pending, device, chal, attempts, known, resets, banned, sHistory>>

-----------------------------------------------------------------------------
(* Ending sessions. *)

revoked(S) == [t \in Tokens |-> IF t \in S /\ sess[t] = "live" THEN "over" ELSE sess[t]]

\* httpLogoutHandler, revoke_session, revoke_session_by_token.
revokeSession(t) ==
    /\ t \in handed
    /\ sess' = revoked({t})
    /\ UNCHANGED <<pending, device, chal, attempts, known, resets, banned, spc, tok, rst, sHistory>>

\* session_auth with a token of a banned account.
SessionAuthBanned(t) ==
    /\ t \in handed /\ sessionUsername(t) /\ banned
    /\ sess' = revoked({t})
    /\ UNCHANGED <<pending, device, chal, attempts, known, resets, banned, spc, tok, rst, sHistory>>

\* change_password has set the new hash and goes on to every session but the
\* one named in the message.
ChangePassword(p, t) ==
    /\ starts(p, "others", t)
    /\ signedIn /\ t \in handed
    /\ UNCHANGED <<tables, sHistory>>

RevokeOthers(p) ==
    /\ ends(p, "others")
    /\ sess' = revoked(Tokens \ {tok[p]})
    /\ UNCHANGED <<pending, device, chal, attempts, known, resets, banned, sHistory>>

\* adminBanHandler: the flag, then the sessions.
Ban(p) ==
    /\ starts(p, "ban", NoToken)
    /\ banned' = TRUE
    /\ UNCHANGED <<sess, pending, device, chal, attempts, known, resets, sHistory>>

BanRevoke(p) ==
    /\ ends(p, "ban")
    /\ sess' = revoked(Tokens)
    /\ UNCHANGED <<pending, device, chal, attempts, known, resets, banned, sHistory>>

Unban ==
    /\ banned /\ banned' = FALSE
    /\ UNCHANGED <<sess, pending, device, chal, attempts, known, resets, spc, tok, rst, sHistory>>

-----------------------------------------------------------------------------
(* Password reset: the token is looked up, the hash computed, and one      *)
(* transaction sets the password, spends the token, ends all sessions.     *)

createPasswordReset(r) ==
    /\ resets[r] = "none"
    /\ resets' = [resets EXCEPT ![r] = "open"]
    /\ UNCHANGED <<sess, pending, device, chal, attempts, known, banned, spc, tok, rst, sHistory>>

\* Mutant: the expiry is looked at, the used flag is not.
resetUsable_Used(r) == resets[r] \in {"open", "used"}

resetUsable(r) == resets[r] = "open"

holding(r) == {q \in Reqs : spc[q] = "reset" /\ rst[q] = r}

ResetPassword(p, r) ==
    /\ goes(p, "idle", "reset")
    /\ resetUsable(r)
    /\ rst' = [rst EXCEPT ![p] = r]
    /\ together' = IF holding(r) = {} THEN together ELSE together \cup {r}
    /\ UNCHANGED <<tables, tok, handed, challenged, approvals, epoch, born, uses>>

consumePasswordReset(p) ==
    /\ ends(p, "reset")
    /\ epoch < MaxEpoch
    /\ epoch' = epoch + 1
    /\ resets' = [resets EXCEPT ![rst[p]] = "used"]
    /\ uses' = [uses EXCEPT ![rst[p]] = @ + 1]
    /\ sess' = revoked(Tokens)
    /\ UNCHANGED <<pending, device, chal, attempts, known, banned,
                   handed, challenged, approvals, born, together>>

\* A statement of the transaction is refused: all of it is rolled back.
ResetRolledBack(p) ==
    /\ ends(p, "reset")
    /\ UNCHANGED <<tables, sHistory>>

-----------------------------------------------------------------------------
(* Time.  Rows that are over, used or lapsed may be gone as well (the      *)
(* retention job): no statement tells the difference.                      *)

SessionExpires(t) ==
    /\ sess[t] = "live"
    /\ sess' = revoked({t})
    /\ UNCHANGED <<pending, device, chal, attempts, known, resets, banned, spc, tok, rst, sHistory>>

ChallengeLapses(t) ==
    /\ chal[t] = "open"
    /\ chal' = [chal EXCEPT ![t] = "lapsed"]
    /\ UNCHANGED <<sess, pending, device, attempts, known, resets, banned, spc, tok, rst, sHistory>>

ResetLapses(r) ==
    /\ resets[r] = "open"
    /\ resets' = [resets EXCEPT ![r] = "lapsed"]
    /\ UNCHANGED <<sess, pending, device, chal, attempts, known, banned, spc, tok, rst, sHistory>>

-----------------------------------------------------------------------------
SHandler(p) ==
    \/ Login(p) \/ Ban(p)
    \/ \E t \in Tokens : issueSessionToken(p, t) \/ VerifyDevice(p, t) \/ WrongCode(p, t)
                         \/ DeviceApprove(p, t) \/ DeviceDeny(p, t) \/ ChangePassword(p, t)
    \/ DeviceUnknown(p) \/ (\E fresh \in BOOLEAN : DeviceTrusted(p, fresh))
    \/ markSessionPendingDevice(p) \/ MarkRefused(p) \/ createDeviceChallenge(p)
    \/ CountAttempt(p) \/ Consume(p) \/ LetGo(p) \/ rememberDevice(p)
    \/ Deny(p) \/ DenyRevoke(p) \/ RevokeOthers(p) \/ BanRevoke(p)
    \/ (\E r \in Resets : ResetPassword(p, r)) \/ consumePasswordReset(p) \/ ResetRolledBack(p)

SNext ==
    \/ \E p \in Reqs : SHandler(p)
    \/ \E t \in Tokens : revokeSession(t) \/ SessionAuthBanned(t)
                         \/ SessionExpires(t) \/ ChallengeLapses(t)
    \/ \E r \in Resets : createPasswordReset(r) \/ ResetLapses(r)
    \/ Unban

SSpec == SInit /\ [][SNext]_svars

-----------------------------------------------------------------------------
(* Properties. *)

lifeOf(t) ==
    IF t \notin handed \/ sess[t] = "none" THEN "none"
    ELSE IF sess[t] = "over" THEN "over"
    ELSE IF t \in pending THEN "held" ELSE "live"

Life == INSTANCE SessionLife WITH
            life <- [t \in Tokens |-> lifeOf(t)], approved <- approvals

(***************************************************************************)
(* To the client that holds the token, a session goes forward only: a held *)
(* one comes to life by an approval, a live one is never held again, and   *)
(* what has been revoked, denied, expired or ended by a reset stays over,  *)
(* although an approval that was under way still clears its hold.          *)
(***************************************************************************)
SessionsGoForward == Life!Spec

(***************************************************************************)
(* A session awaiting new-device approval must not grant access anywhere:  *)
(* a token that left the server after its session was held is good for     *)
(* something only once somebody has approved that very session.            *)
(***************************************************************************)
HeldUntilApproved ==
    \A t \in handed \cap challenged : sessionUsername(t) => t \in approvals

(***************************************************************************)
(* "Revoke all sessions so a stolen token can no longer be used": no       *)
(* session issued before the last password reset is live, be it held,      *)
(* on its way to the client, or about to be approved.                      *)
(***************************************************************************)
ResetEndsSessions ==
    \A t \in Tokens : sess[t] = "live" => born[t] = epoch

(***************************************************************************)
(* consumePasswordReset looks whether the token was used and spends it in  *)
(* a later transaction that does not look again.  A token sets the         *)
(* password twice only if two requests held it to be unused together.      *)
(***************************************************************************)
SpentTwiceOnlyTogether ==
    \A r \in Resets : uses[r] > 1 => r \in together

(***************************************************************************)
(* Whatever logins, approvals, denials, bans and resets are under way      *)
(* together: a held session is good for nothing before somebody approves   *)
(* it, a reset ends all there are, and a reset token is spent twice only   *)
(* by requests that overlap.                                               *)
(***************************************************************************)
SessionsSafe ==
    /\ STypeOK
    /\ HeldUntilApproved
    /\ ResetEndsSessions
    /\ SpentTwiceOnlyTogether
=============================================================================
