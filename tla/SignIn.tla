------------------------------- MODULE SignIn -------------------------------
(***************************************************************************)
(* Counting failures: the tables of authFailTracker, the handlers that     *)
(* look at them before and write them after the slow work of checking a    *)
(* password or a code, and the life of the account's row from register to  *)
(* verify_email.  One address and one account; the tracker's tables are    *)
(* maps and other keys are entries of their own.  Every method of the      *)
(* tracker holds its mutex, so a method is one step.                       *)
(***************************************************************************)
EXTENDS Requests

CONSTANTS
    Max,         \* Max[k]: authIPFailThreshold, authUserLockThreshold, ...
    Window,      \* Window[k]: authIPWindow, authUserWindow, ... in ticks
    BlockAt,     \* authIPBlockThreshold
    MaxCodes     \* a bound: how many verification codes are made

Kinds == {"ip", "user", "totp", "signup"}

ASSUME SignInAssumption ==
    /\ Max \in [Kinds -> Nat \ {0}] /\ Window \in [Kinds -> Nat]
    /\ BlockAt \in Nat /\ MaxCodes \in Nat

VARIABLES
    fails,      \* fails[k]: count, 0 without an entry, and the ages of firstAt and lastAt
    blockedIP,  \* the address is in blockedIPs
    acct,       \* the users row: "none", "new" or "verified"
    vcode,      \* users.verification_code; 0 is NULL
    codes,      \* how many codes were made
    apc,        \* where the handler is
    cleared,    \* the entries the last step cleared for a success
    verified,   \* how often verify_email went on to the referral
    crossedCodes   \* two handlers have found one code right

avars == <<fails, blockedIP, acct, vcode, codes, apc, cleared, verified, crossedCodes>>
account == <<acct, vcode, codes, verified, crossedCodes>>

NoEntry == [count |-> 0, first |-> 0, last |-> 0]

\* An age past the window is as good as any other.
ages(k) == 0..Window[k] + 1

limit(k) == Max[k] + Cardinality(Reqs) - 1

ATypeOK ==
    /\ \A k \in Kinds : /\ fails[k].count \in Nat
                        /\ fails[k].first \in ages(k)
                        /\ fails[k].last \in 0..fails[k].first
    /\ blockedIP \in BOOLEAN
    /\ acct \in {"none", "new", "verified"}
    /\ vcode \in 0..codes /\ codes \in 0..MaxCodes
    /\ apc \in [Reqs -> {"idle", "user", "password", "throttle", "code", "success",
                         "token", "signup", "register", "signed", "resend", "verify"}]
    /\ cleared \subseteq Kinds
    /\ verified \in 0..MaxCodes * Cardinality(Reqs)
    /\ crossedCodes \in BOOLEAN

AInit ==
    /\ fails = [k \in Kinds |-> NoEntry]
    /\ blockedIP = FALSE
    /\ acct = "none" /\ vcode = 0 /\ codes = 0
    /\ apc = [p \in Reqs |-> "idle"]
    /\ cleared = {}
    /\ verified = 0 /\ crossedCodes = FALSE

-----------------------------------------------------------------------------
(* The methods of the tracker. *)

stale(k) == fails[k].first > Window[k]

\* recordFail, recordTOTPFail, recordSignup: count on, or start a new window.
counted(k) ==
    IF fails[k].count = 0 \/ stale(k) THEN [NoEntry EXCEPT !.count = 1]
    ELSE [fails[k] EXCEPT !.count = @ + 1, !.last = 0]

record(K) ==
    /\ fails' = [k \in Kinds |-> IF k \in K THEN counted(k) ELSE fails[k]]
    /\ cleared' = {}

\* recordSuccess, recordTOTPSuccess.
clear(K) ==
    /\ fails' = [k \in Kinds |-> IF k \in K THEN NoEntry ELSE fails[k]]
    /\ cleared' = K

\* Mutant: the last attempt that is allowed is allowed once more.
throttled_OffByOne(k) == fails[k].count > Max[k] /\ ~stale(k)

throttled(k) == fails[k].count >= Max[k] /\ ~stale(k)

\* isIPThrottled, isUserLocked, isTOTPThrottled, isSignupThrottled: an entry
\* whose window has passed is deleted on the way.
look(k) ==
    /\ fails' = IF stale(k) THEN [fails EXCEPT ![k] = NoEntry] ELSE fails
    /\ cleared' = {}

moves(p, from, to) == apc[p] = from /\ apc' = [apc EXCEPT ![p] = to]

\* Look, and go on only if the key is not throttled.
gate(p, k, from, to) ==
    /\ look(k)
    /\ moves(p, from, IF throttled(k) THEN "idle" ELSE to)
    /\ UNCHANGED account

-----------------------------------------------------------------------------
(* auth on a WebSocket and httpLoginHandler; httpVerifyDeviceHandler and   *)
(* confirm_totp are cut down to one of the checks.                         *)

\* shouldAutoBlock is asked once the address is throttled.
autoBlock == blockedIP' = (blockedIP \/ (throttled("ip") /\ fails["ip"].count >= BlockAt))

Begin(p, to) ==
    /\ gate(p, "ip", "idle", to)
    /\ autoBlock

Locked(p) == gate(p, "user", "user", "password") /\ UNCHANGED blockedIP

\* authenticateUser: wrong, or not a verified account.
WrongPassword(p) ==
    /\ moves(p, "password", "idle")
    /\ record({"ip", "user"})
    /\ UNCHANGED <<account, blockedIP>>

RightPassword(p) ==
    /\ acct = "verified"
    /\ moves(p, "password", "throttle")
    /\ cleared' = {}
    /\ UNCHANGED <<account, fails, blockedIP>>

\* The password is right and the account banned: nothing is counted.
Suspended(p) ==
    /\ acct = "verified"
    /\ moves(p, "password", "idle")
    /\ cleared' = {}
    /\ UNCHANGED <<account, fails, blockedIP>>

Throttled(p) == gate(p, "totp", "throttle", "code") /\ UNCHANGED blockedIP

WrongCodeGiven(p) ==
    /\ moves(p, "code", "idle")
    /\ record({"totp"})
    /\ UNCHANGED <<account, blockedIP>>

RightCodeGiven(p) ==
    /\ moves(p, "code", "success")
    /\ clear({"totp"})
    /\ UNCHANGED <<account, blockedIP>>

Success(p) ==
    /\ moves(p, "success", "idle")
    /\ clear({"ip", "user"})
    /\ UNCHANGED <<account, blockedIP>>

-----------------------------------------------------------------------------
(* session_auth, qr_login_check: no password, so a failure has no name.    *)

BadToken(p) ==
    /\ moves(p, "token", "idle")
    /\ record({"ip"})
    /\ UNCHANGED <<account, blockedIP>>

GoodToken(p) ==
    /\ acct = "verified"
    /\ moves(p, "token", "idle")
    /\ clear({"ip", "user"})
    /\ UNCHANGED <<account, blockedIP>>

-----------------------------------------------------------------------------
(* register, resend_verification, verify_email.                            *)

SignupAllowed(p) == gate(p, "signup", "signup", "register") /\ UNCHANGED blockedIP

\* The address or the mail domain is refused: nothing is counted.
SignupRefused(p) ==
    /\ moves(p, "register", "idle")
    /\ cleared' = {}
    /\ UNCHANGED <<account, fails, blockedIP>>

newCode == codes < MaxCodes /\ codes' = codes + 1 /\ vcode' = codes'

registerUser(p) ==
    /\ acct = "none"
    /\ moves(p, "register", "signed")
    /\ acct' = "new"
    /\ newCode
    /\ cleared' = {}
    /\ UNCHANGED <<fails, blockedIP, verified, crossedCodes>>

RegisterFailed(p) ==
    /\ moves(p, "register", "idle")
    /\ record({"ip"})
    /\ UNCHANGED <<account, blockedIP>>

RecordSignup(p) ==
    /\ moves(p, "signed", "idle")
    /\ record({"signup"})
    /\ UNCHANGED <<account, blockedIP>>

ResendVerification(p) ==
    /\ acct = "new"
    /\ moves(p, "idle", "resend")
    /\ cleared' = {}
    /\ UNCHANGED <<account, fails, blockedIP>>

\* The account may have been verified since; it then carries a code again.
ResendCode(p) ==
    /\ moves(p, "resend", "idle")
    /\ newCode
    /\ cleared' = {}
    /\ UNCHANGED <<acct, fails, blockedIP, verified, crossedCodes>>

\* verifyUser: the code is read and compared ...
VerifyEmail(p) ==
    /\ vcode # 0
    /\ moves(p, "idle", "verify")
    /\ cleared' = {}
    /\ UNCHANGED <<account, fails, blockedIP>>

\* ... and the row updated in a second statement, whatever it holds by then.
\* True leads on to autoJoinGlobalSpace and onReferralVerified.
verifyUser(p) ==
    /\ moves(p, "verify", "idle")
    /\ acct' = "verified" /\ vcode' = 0
    /\ verified' = verified + 1
    /\ crossedCodes' = (crossedCodes \/ \E q \in Reqs \ {p} : apc[q] \in {"verify", "resend"})
    /\ cleared' = {}
    /\ UNCHANGED <<codes, fails, blockedIP>>

-----------------------------------------------------------------------------
(* Time, and the sweep of the tables every five minutes.                   *)

Tick ==
    /\ fails' = [k \in Kinds |->
                    IF fails[k].count = 0 \/ fails[k].first > Window[k] THEN fails[k]
                    ELSE [fails[k] EXCEPT !.first = @ + 1, !.last = @ + 1]]
    /\ cleared' = {}
    /\ UNCHANGED <<account, blockedIP, apc>>

\* Mutant: every table is swept by the window of the addresses.
idleTooLong_IPWindow(k) == fails[k].last > Window["ip"]

idleTooLong(k) == fails[k].last > Window[k]

sweepAuthTracker ==
    /\ fails' = [k \in Kinds |-> IF idleTooLong(k) THEN NoEntry ELSE fails[k]]
    /\ cleared' = {}
    /\ UNCHANGED <<account, blockedIP, apc>>

AHandler(p) ==
    \/ \E to \in {"user", "token", "signup"} : Begin(p, to)
    \/ Locked(p) \/ WrongPassword(p) \/ RightPassword(p) \/ Suspended(p)
    \/ Throttled(p) \/ WrongCodeGiven(p) \/ RightCodeGiven(p) \/ Success(p)
    \/ BadToken(p) \/ GoodToken(p)
    \/ SignupAllowed(p) \/ SignupRefused(p) \/ registerUser(p) \/ RegisterFailed(p)
    \/ RecordSignup(p) \/ ResendVerification(p) \/ ResendCode(p)
    \/ VerifyEmail(p) \/ verifyUser(p)

ANext == (\E p \in Reqs : AHandler(p)) \/ Tick \/ sweepAuthTracker

ASpec == AInit /\ [][ANext]_avars

-----------------------------------------------------------------------------
(* Properties. *)

(***************************************************************************)
(* A handler looks at a counter, works, and counts afterwards, so several  *)
(* may pass the same look.  No counter ever exceeds its threshold by more  *)
(* than the other handlers that were under way.  For the address this also *)
(* says when "at 50, auto-block" can come about: never one at a time.      *)
(***************************************************************************)
FailuresBounded == \A k \in Kinds : fails[k].count <= limit(k)

(***************************************************************************)
(* A key that has reached its threshold stays refused until its window,    *)
(* counted from the first failure, is over, or a success clears it: no     *)
(* later failure, no look and no sweep ends a lock early.                  *)
(***************************************************************************)
LockHolds ==
    [][\A k \in Kinds :
          throttled(k) => throttled(k)' \/ stale(k)' \/ k \in cleared']_avars

(***************************************************************************)
(* verify_email hands the account on to the referral rewards.  It does so  *)
(* more than once only if another verification, or the making of a new     *)
(* code, was under way with it.                                            *)
(***************************************************************************)
VerifiedOnce == verified > 1 => crossedCodes

(***************************************************************************)
(* Looking first and counting later costs no more than the handlers under  *)
(* way: the tables of authFailTracker stay near their thresholds, and      *)
(* verify_email pays a referral again only if it overlaps.                 *)
(***************************************************************************)
SignInSafe ==
    /\ ATypeOK
    /\ FailuresBounded
    /\ VerifiedOnce
=============================================================================
