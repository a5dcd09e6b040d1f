---------------------------- MODULE SecondFactor ----------------------------
(***************************************************************************)
(* The second factor of one account: users.totp_secret and totp_enabled,   *)
(* the rows of totp_backup_codes, and totpUsedCodes, the map that guards   *)
(* against replay.  Time is in units of ten seconds; the model follows one *)
(* authenticator code per secret, valid from 0 to Validity, and one backup *)
(* code for each set of eight.                                             *)
(***************************************************************************)
EXTENDS Requests

CONSTANTS
    Guard,       \* how long an accepted code is remembered: 60 s
    Validity,    \* how long a code is valid: 30 s, and 30 s skew either way
    MaxSecrets,  \* a bound: how often enable_totp makes a secret
    MaxSets,     \* a bound: how often confirm_totp makes backup codes
    MaxNow       \* a bound on the time followed

ASSUME SecondFactorAssumption ==
    /\ Guard \in Nat /\ Validity \in Nat
    /\ MaxSecrets \in Nat /\ MaxSets \in Nat /\ MaxNow \in Nat \ {0}

VARIABLES
    secret,     \* users.totp_secret; 0 is the empty string
    enabled,    \* users.totp_enabled
    backup,     \* totp_backup_codes with used = 0, by the set they are of
    usedCodes,  \* totpUsedCodes: the expiry by secret; 0 if there is no entry
    now,
    tpc,        \* where the handler is
    held,       \* the secret it has read
    set,        \* the set of backup codes it writes
    made,       \* secrets made so far
    sets,       \* sets made so far
    confirmed,  \* secrets a right code was given for
    accepted,   \* when the code of a secret was last accepted; 0 if never
    quick,      \* a code was accepted again while it was remembered
    spent,      \* how often a backup code was accepted
    mixed       \* confirmations, or one and a disabling, have overlapped

columns == <<secret, enabled, made, confirmed>>
codeRows == <<backup, sets, spent>>
guard == <<usedCodes, now, accepted, quick>>
tvars == <<columns, codeRows, guard, tpc, held, set, mixed>>

Secrets == 1..MaxSecrets
Sets == 1..MaxSets

TTypeOK ==
    /\ secret \in 0..MaxSecrets /\ enabled \in BOOLEAN /\ (enabled => secret # 0)
    /\ backup \subseteq Sets
    /\ usedCodes \in [Secrets -> 0..MaxNow + Guard]
    /\ now \in 1..MaxNow
    /\ tpc \in [Reqs -> {"idle", "enable", "purge", "insert", "forget", "validate"}]
    /\ held \in [Reqs -> 0..MaxSecrets]
    /\ set \in [Reqs -> 0..MaxSets]
    /\ made \in 0..MaxSecrets /\ sets \in 0..MaxSets
    /\ confirmed \subseteq Secrets
    /\ accepted \in [Secrets -> 0..MaxNow]
    /\ quick \in BOOLEAN
    /\ spent \in [Sets -> 0..2]
    /\ mixed \in BOOLEAN

TInit ==
    /\ secret = 0 /\ enabled = FALSE
    /\ backup = {}
    /\ usedCodes = [s \in Secrets |-> 0]
    /\ now = 1
    /\ tpc = [p \in Reqs |-> "idle"]
    /\ held = [p \in Reqs |-> 0]
    /\ set = [p \in Reqs |-> 0]
    /\ made = 0 /\ sets = 0
    /\ confirmed = {}
    /\ accepted = [s \in Secrets |-> 0]
    /\ quick = FALSE
    /\ spent = [c \in Sets |-> 0]
    /\ mixed = FALSE

-----------------------------------------------------------------------------
at(p, from, to) == tpc[p] = from /\ tpc' = [tpc EXCEPT ![p] = to]

\* Somebody else is rewriting the secret or the backup codes.
rewriting(p) == \E q \in Reqs \ {p} : tpc[q] \in {"enable", "purge", "insert", "forget"}

\* enable_totp: a new secret that is not in force until it is confirmed.
EnableTotp ==
    /\ made < MaxSecrets
    /\ made' = made + 1
    /\ secret' = made' /\ enabled' = FALSE
    /\ UNCHANGED <<confirmed, codeRows, guard, tpc, held, set, mixed>>

\* confirm_totp: the secret is read, ...
ConfirmTotp(p) ==
    /\ at(p, "idle", "enable")
    /\ secret # 0
    /\ held' = [held EXCEPT ![p] = secret]
    /\ mixed' = (mixed \/ rewriting(p))
    /\ UNCHANGED <<columns, codeRows, guard, set>>

\* Mutant: the UPDATE keeps a secret that is there.
setSecret_IfEmpty(s) == secret' = IF secret = 0 THEN s ELSE secret

setSecret(s) == secret' = s

\* ... a right code for it puts it in force, ...
enableTOTP(p) ==
    /\ at(p, "enable", "purge")
    /\ setSecret(held[p])
    /\ enabled' = TRUE
    /\ confirmed' = confirmed \cup {held[p]}
    /\ UNCHANGED <<made, codeRows, guard, held, set, mixed>>

\* ... a wrong one changes nothing.
ConfirmWrong(p) == at(p, "enable", "idle") /\ UNCHANGED <<columns, codeRows, guard, held, set, mixed>>

\* The DELETE of generateBackupCodes and of disableTOTP.
purgeCodes == backup' = {}

\* generateBackupCodes: the DELETE, and the INSERTs.
PurgeBackupCodes(p) ==
    /\ at(p, "purge", "insert")
    /\ sets < MaxSets
    /\ sets' = sets + 1
    /\ set' = [set EXCEPT ![p] = sets']
    /\ purgeCodes
    /\ UNCHANGED <<columns, spent, guard, held, mixed>>

InsertBackupCodes(p) ==
    /\ at(p, "insert", "idle")
    /\ backup' = backup \cup {set[p]}
    /\ UNCHANGED <<columns, sets, spent, guard, held, set, mixed>>

\* disableTOTP, and reset_totp of the administrators: the columns, the codes.
DisableTotp(p) ==
    /\ at(p, "idle", "forget")
    /\ secret' = 0 /\ enabled' = FALSE
    /\ mixed' = (mixed \/ rewriting(p))
    /\ UNCHANGED <<made, confirmed, codeRows, guard, held, set>>

ForgetBackupCodes(p) ==
    /\ at(p, "forget", "idle")
    /\ purgeCodes
    /\ UNCHANGED <<columns, sets, spent, guard, held, set, mixed>>

-----------------------------------------------------------------------------
(* Signing in. *)

\* verifyTOTP reads the columns; without a second factor it says yes.
VerifyTotp(p) ==
    /\ at(p, "idle", "validate")
    /\ enabled /\ secret # 0
    /\ held' = [held EXCEPT ![p] = secret]
    /\ UNCHANGED <<columns, codeRows, guard, set, mixed>>

\* Validate says yes and LoadOrStore finds no entry.
AcceptCode(p) ==
    /\ at(p, "validate", "idle")
    /\ now <= Validity
    /\ usedCodes[held[p]] = 0
    /\ usedCodes' = [usedCodes EXCEPT ![held[p]] = now + Guard]
    /\ quick' = (quick \/ (accepted[held[p]] # 0 /\ now <= accepted[held[p]] + Guard))
    /\ accepted' = [accepted EXCEPT ![held[p]] = now]
    /\ UNCHANGED <<columns, codeRows, now, held, set, mixed>>

\* Any other code may be a backup code.
RefuseCode(p) == at(p, "validate", "idle") /\ UNCHANGED <<columns, codeRows, guard, held, set, mixed>>

\* The rows that consumeBackupCode's UPDATE affects.
unusedCode(c) == c \in backup

consumeBackupCode(c) ==
    /\ unusedCode(c)
    /\ backup' = backup \ {c}
    /\ spent' = [spent EXCEPT ![c] = @ + 1]
    /\ UNCHANGED <<columns, sets, guard, tpc, held, set, mixed>>

-----------------------------------------------------------------------------
Later ==
    /\ now < MaxNow
    /\ now' = now + 1
    /\ UNCHANGED <<columns, codeRows, usedCodes, accepted, quick, tpc, held, set, mixed>>

\* Mutant: the sweep drops the entries of the current window too.
expired_All(s) == TRUE

expired(s) == usedCodes[s] < now

\* The sweep of init, every two minutes.
sweepUsedCodes ==
    /\ usedCodes' = [s \in Secrets |-> IF expired(s) THEN 0 ELSE usedCodes[s]]
    /\ UNCHANGED <<columns, codeRows, now, accepted, quick, tpc, held, set, mixed>>

TNext ==
    \/ \E p \in Reqs : ConfirmTotp(p) \/ enableTOTP(p) \/ ConfirmWrong(p)
                       \/ PurgeBackupCodes(p) \/ InsertBackupCodes(p)
                       \/ DisableTotp(p) \/ ForgetBackupCodes(p)
                       \/ VerifyTotp(p) \/ AcceptCode(p) \/ RefuseCode(p)
    \/ \E c \in Sets : consumeBackupCode(c)
    \/ EnableTotp \/ Later \/ sweepUsedCodes

TSpec == TInit /\ [][TNext]_tvars

-----------------------------------------------------------------------------
(* Properties. *)

(***************************************************************************)
(* A second factor in force is one its owner has shown to have: a code for *)
(* this very secret was right.  enable_totp on another device may have     *)
(* replaced the secret while confirm_totp checked the code for the old.    *)
(***************************************************************************)
InForceWasConfirmed == enabled => secret \in confirmed

(***************************************************************************)
(* When nobody is rewriting them, the backup codes that still work are of  *)
(* the set shown last: older ones do not survive a new enrolment.  Where   *)
(* two sets are mixed, two confirmations or one and a disabling overlapped.*)
(***************************************************************************)
BackupCodesOfLastSet ==
    (\A p \in Reqs : tpc[p] \notin {"purge", "insert", "forget"}) /\ ~mixed
    => backup \subseteq {sets}

(***************************************************************************)
(* A backup code is accepted once, whoever else presents it meanwhile.     *)
(***************************************************************************)
BackupCodeOnce == \A c \in Sets : spent[c] <= 1

(***************************************************************************)
(* A code that was accepted is not accepted again for sixty seconds, sweep *)
(* or no sweep.                                                            *)
(***************************************************************************)
NoQuickReplay == ~quick

(***************************************************************************)
(* The second factor in force is the one that was confirmed, its backup    *)
(* codes are the last ones shown and work once each, and no authenticator  *)
(* code is taken twice while it is remembered.                             *)
(***************************************************************************)
SecondFactorSafe ==
    /\ TTypeOK
    /\ InForceWasConfirmed
    /\ BackupCodesOfLastSet
    /\ BackupCodeOnce
    /\ NoQuickReplay
=============================================================================
