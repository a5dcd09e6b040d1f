--------------------------- MODULE AccountsProofs ---------------------------
(***************************************************************************)
(* Proofs about Sessions, QRLogin, SecondFactor, SignIn and Supporters,    *)
(* for any number of handlers, tokens, devices, codes, users and forms.    *)
(***************************************************************************)
EXTENDS Sessions, SignIn, SecondFactor, QRLogin, Supporters,
        FiniteSetTheorems, WellFoundedInduction, TLAPS

(* The labels of handlers that work on a session, ... *)
OnSession == {"check", "mark", "challenge", "wrong", "consume", "letgo", "remember",
              "deny", "revoke", "others"}

(* ... of those that keep one from the client, and of those that let it go. *)
OnItsWay == {"check", "mark", "challenge"}
Approving == {"consume", "letgo", "remember"}

\* A handler's local is set where the handler uses it, ...
SLocals ==
    \A p \in Reqs : /\ spc[p] \in OnSession => tok[p] \in Tokens
                    /\ spc[p] = "reset" => rst[p] \in Resets

\* ... and a token resets the password no more often than it was reset.
UsesCounted == \A r \in Resets : uses[r] <= epoch

\* The types but for the bound on the attempts.
SBase ==
    /\ sess \in [Tokens -> {"none", "live", "over"}]
    /\ pending \subseteq Tokens
    /\ device \in [Tokens -> Devices]
    /\ chal \in [Tokens -> {"none", "open", "lapsed", "consumed"}]
    /\ attempts \in [Tokens -> Nat]
    /\ known \subseteq Devices
    /\ resets \in [Resets -> {"none", "open", "used", "lapsed"}]
    /\ banned \in BOOLEAN
    /\ spc \in [Reqs -> {"idle", "issue", "check", "mark", "challenge", "wrong",
                         "consume", "letgo", "remember", "deny", "revoke",
                         "reset", "others", "ban"}]
    /\ tok \in [Reqs -> Tokens \cup {NoToken}]
    /\ rst \in [Reqs -> Resets \cup {NoReset}]
    /\ handed \subseteq Tokens /\ challenged \subseteq Tokens /\ approvals \subseteq Tokens
    /\ epoch \in 0..MaxEpoch
    /\ born \in [Tokens -> 0..MaxEpoch]
    /\ uses \in [Resets -> Nat]
    /\ together \subseteq Resets

SBaseInv == SBase /\ SLocals /\ UsesCounted

LEMMA SBaseInit == SInit => SBaseInv
<1> SUFFICES ASSUME SInit PROVE SBaseInv
  OBVIOUS
<1>1. SBase
  <2>1. 0 \in 0..MaxEpoch
    BY SessionsAssumption
  <2>2. /\ sess \in [Tokens -> {"none", "live", "over"}]
        /\ device \in [Tokens -> Devices]
        /\ chal \in [Tokens -> {"none", "open", "lapsed", "consumed"}]
        /\ attempts \in [Tokens -> Nat]
        /\ resets \in [Resets -> {"none", "open", "used", "lapsed"}]
    BY DEF SInit
  <2>3. /\ spc \in [Reqs -> {"idle", "issue", "check", "mark", "challenge", "wrong",
                         "consume", "letgo", "remember", "deny", "revoke",
                         "reset", "others", "ban"}]
        /\ tok \in [Reqs -> Tokens \cup {NoToken}]
        /\ rst \in [Reqs -> Resets \cup {NoReset}]
    BY DEF SInit
  <2>4. born \in [Tokens -> 0..MaxEpoch] /\ epoch \in 0..MaxEpoch /\ uses \in [Resets -> Nat]
    BY <2>1 DEF SInit
  <2>5. /\ pending = {} /\ known = {} /\ banned = FALSE
        /\ handed = {} /\ challenged = {} /\ approvals = {} /\ together = {}
    BY DEF SInit
  <2>6. QED
    BY <2>2, <2>3, <2>4, <2>5 DEF SBase
<1>2. SLocals
  BY DEF SInit, SLocals, OnSession
<1>3. UsesCounted
  BY DEF SInit, UsesCounted
<1>4. QED
  BY <1>1, <1>2, <1>3 DEF SBaseInv

\* What the end of a handler does to its locals.
LEMMA EndsFacts ==
    ASSUME SBaseInv, NEW p \in Reqs, NEW from, ends(p, from)
    PROVE  /\ spc[p] = from
           /\ spc' \in [Reqs -> {"idle", "issue", "check", "mark", "challenge", "wrong",
                         "consume", "letgo", "remember", "deny", "revoke",
                         "reset", "others", "ban"}]
           /\ tok' \in [Reqs -> Tokens \cup {NoToken}]
           /\ rst' \in [Reqs -> Resets \cup {NoReset}]
           /\ spc'[p] = "idle"
           /\ \A q \in Reqs : q # p => spc'[q] = spc[q] /\ tok'[q] = tok[q] /\ rst'[q] = rst[q]
           /\ SLocals'
<1>1. /\ spc[p] = from
      /\ spc' = [spc EXCEPT ![p] = "idle"]
      /\ tok' = [tok EXCEPT ![p] = NoToken]
      /\ rst' = [rst EXCEPT ![p] = NoReset]
  BY DEF ends, goes
<1>2. spc'[p] = "idle" /\ \A q \in Reqs : q # p => spc'[q] = spc[q] /\ tok'[q] = tok[q] /\ rst'[q] = rst[q]
  BY <1>1 DEF SBaseInv, SBase
<1>3. SLocals'
  BY <1>2 DEF SBaseInv, SLocals, OnSession
<1>4. QED
  BY <1>1, <1>2, <1>3 DEF SBaseInv, SBase

\* What a step of a handler does that keeps its locals.
LEMMA GoesFacts ==
    ASSUME SBaseInv, NEW p \in Reqs, NEW from, NEW to, goes(p, from, to),
           to \in {"letgo", "remember", "mark", "challenge", "revoke"},
           from \in OnSession, UNCHANGED <<tok, rst>>
    PROVE  /\ spc[p] = from /\ spc'[p] = to
           /\ tok[p] \in Tokens
           /\ spc' \in [Reqs -> {"idle", "issue", "check", "mark", "challenge", "wrong",
                         "consume", "letgo", "remember", "deny", "revoke",
                         "reset", "others", "ban"}]
           /\ \A q \in Reqs : q # p => spc'[q] = spc[q]
           /\ SLocals'
<1>1. spc[p] = from /\ spc' = [spc EXCEPT ![p] = to]
  BY DEF goes
<1>2. spc'[p] = to /\ \A q \in Reqs : q # p => spc'[q] = spc[q]
  BY <1>1 DEF SBaseInv, SBase
<1>3. tok[p] \in Tokens
  BY <1>1 DEF SBaseInv, SLocals
<1>4. SLocals'
  <2>1. to # "reset"
    OBVIOUS
  <2>2. QED
    BY <1>2, <1>3, <2>1 DEF SBaseInv, SLocals
<1>5. QED
  BY <1>1, <1>2, <1>3, <1>4 DEF SBaseInv, SBase

\* A handler that starts on session t, or on none.
LEMMA StartsFacts ==
    ASSUME SBaseInv, NEW p \in Reqs, NEW label, NEW t, starts(p, label, t),
           \/ label \in OnSession /\ t \in Tokens
           \/ label \in {"issue", "ban"} /\ t = NoToken
    PROVE  /\ spc[p] = "idle" /\ spc'[p] = label /\ tok'[p] = t /\ rst' = rst
           /\ spc' \in [Reqs -> {"idle", "issue", "check", "mark", "challenge", "wrong",
                         "consume", "letgo", "remember", "deny", "revoke",
                         "reset", "others", "ban"}]
           /\ tok' \in [Reqs -> Tokens \cup {NoToken}]
           /\ \A q \in Reqs : q # p => spc'[q] = spc[q] /\ tok'[q] = tok[q]
           /\ SLocals'
<1>1. /\ spc[p] = "idle"
      /\ spc' = [spc EXCEPT ![p] = label]
      /\ tok' = [tok EXCEPT ![p] = t] /\ rst' = rst
  BY DEF starts, goes
<1>2. /\ spc'[p] = label /\ tok'[p] = t
      /\ \A q \in Reqs : q # p => spc'[q] = spc[q] /\ tok'[q] = tok[q]
  BY <1>1 DEF SBaseInv, SBase
<1>3. SLocals'
  BY <1>1, <1>2 DEF SBaseInv, SLocals, OnSession
<1>4. label \in {"idle", "issue", "check", "mark", "challenge", "wrong",
                 "consume", "letgo", "remember", "deny", "revoke",
                 "reset", "others", "ban"}
  BY DEF OnSession
<1>5. QED
  BY <1>1, <1>2, <1>3, <1>4 DEF SBaseInv, SBase

LEMMA RevokedFacts ==
    ASSUME SBaseInv, NEW S
    PROVE  /\ revoked(S) \in [Tokens -> {"none", "live", "over"}]
           /\ \A t \in Tokens : /\ revoked(S)[t] = "live" <=> sess[t] = "live" /\ t \notin S
                                /\ revoked(S)[t] = "none" <=> sess[t] = "none"
BY DEF SBaseInv, SBase, revoked

\* Two kinds of steps: those of handlers on a session, and the others.
LEMMA SHandlerBase ==
    ASSUME SBaseInv, NEW p \in Reqs, SHandler(p)
    PROVE  SBaseInv'
<1>1. CASE Login(p)
  <2>1. starts(p, "issue", NoToken) /\ UNCHANGED <<tables, sHistory>>
    BY <1>1 DEF Login
  <2>2. QED
    BY <2>1, StartsFacts DEF SBaseInv, SBase, UsesCounted, tables, sHistory
<1>2. CASE Ban(p)
  <2>1. starts(p, "ban", NoToken) /\ banned' = TRUE
        /\ UNCHANGED <<sess, pending, device, chal, attempts, known, resets, sHistory>>
    BY <1>2 DEF Ban
  <2>2. QED
    BY <2>1, StartsFacts DEF SBaseInv, SBase, UsesCounted, sHistory
<1>3. ASSUME NEW t \in Tokens, issueSessionToken(p, t) PROVE SBaseInv'
  <2>1. /\ spc[p] = "issue" /\ spc' = [spc EXCEPT ![p] = "check"]
        /\ tok' = [tok EXCEPT ![p] = t] /\ rst' = rst
        /\ sess' = [sess EXCEPT ![t] = "live"] /\ born' = [born EXCEPT ![t] = epoch]
    BY <1>3 DEF issueSessionToken, goes
  <2>2. UNCHANGED <<pending, device, chal, attempts, known, resets, banned, rst,
                   handed, challenged, approvals, epoch, uses, together>>
    BY <1>3 DEF issueSessionToken
  <2>3. SLocals'
    BY <2>1 DEF SBaseInv, SBase, SLocals, OnSession
  <2>4. QED
    BY <2>1, <2>2, <2>3 DEF SBaseInv, SBase, UsesCounted
<1>4. ASSUME NEW t \in Tokens, VerifyDevice(p, t) \/ DeviceApprove(p, t) PROVE SBaseInv'
  <2>1. starts(p, "consume", t) /\ approvals' = approvals \cup {t}
        /\ UNCHANGED <<tables, handed, challenged, epoch, born, uses, together>>
    BY <1>4 DEF VerifyDevice, DeviceApprove
  <2>2. "consume" \in OnSession
    BY DEF OnSession
  <2>3. QED
    BY <2>1, <2>2, StartsFacts DEF SBaseInv, SBase, UsesCounted, tables
<1>5. ASSUME NEW t \in Tokens, WrongCode(p, t) \/ DeviceDeny(p, t) \/ ChangePassword(p, t) PROVE SBaseInv'
  <2>1. (starts(p, "wrong", t) \/ starts(p, "deny", t) \/ starts(p, "others", t))
        /\ UNCHANGED <<tables, sHistory>>
    BY <1>5 DEF WrongCode, DeviceDeny, ChangePassword
  <2>2. "wrong" \in OnSession /\ "deny" \in OnSession /\ "others" \in OnSession
    BY DEF OnSession
  <2>3. QED
    BY <2>1, <2>2, StartsFacts DEF SBaseInv, SBase, UsesCounted, tables, sHistory
<1>6. CASE DeviceUnknown(p)
  <2>1. goes(p, "check", "mark") /\ UNCHANGED <<tables, tok, rst, sHistory>>
    BY <1>6 DEF DeviceUnknown
  <2>2. "check" \in OnSession
    BY DEF OnSession
  <2>3. QED
    BY <2>1, <2>2, GoesFacts DEF SBaseInv, SBase, UsesCounted, tables, sHistory
<1>7. ASSUME NEW fresh \in BOOLEAN, DeviceTrusted(p, fresh) PROVE SBaseInv'
  <2>1. ends(p, "check") /\ tok[p] \in Tokens /\ handed' = handed \cup {tok[p]}
        /\ known' = (IF fresh THEN known \cup {device[tok[p]]} ELSE known)
        /\ UNCHANGED <<sess, pending, device, chal, attempts, resets, banned,
                   challenged, approvals, epoch, born, uses, together>>
    BY <1>7 DEF DeviceTrusted, ends, goes, SBaseInv, SLocals, OnSession
  <2>2. known' \subseteq Devices
    BY <2>1 DEF SBaseInv, SBase
  <2>3. QED
    BY <2>1, <2>2, EndsFacts DEF SBaseInv, SBase, UsesCounted
<1>8. CASE markSessionPendingDevice(p)
  <2>1. goes(p, "mark", "challenge") /\ pending' = pending \cup {tok[p]}
        /\ challenged' = challenged \cup {tok[p]}
        /\ UNCHANGED <<sess, device, chal, attempts, known, resets, banned, tok, rst,
                   handed, approvals, epoch, born, uses, together>>
    BY <1>8 DEF markSessionPendingDevice
  <2>2. "mark" \in OnSession
    BY DEF OnSession
  <2>3. QED
    BY <2>1, <2>2, GoesFacts DEF SBaseInv, SBase, UsesCounted
<1>9. CASE MarkRefused(p)
  <2>1. ends(p, "mark") /\ tok[p] \in Tokens /\ handed' = handed \cup {tok[p]}
        /\ UNCHANGED <<tables, challenged, approvals, epoch, born, uses, together>>
    BY <1>9 DEF MarkRefused, ends, goes, SBaseInv, SLocals, OnSession
  <2>2. QED
    BY <2>1, EndsFacts DEF SBaseInv, SBase, UsesCounted, tables
<1>10. CASE createDeviceChallenge(p)
  <2>1. ends(p, "challenge") /\ tok[p] \in Tokens /\ handed' = handed \cup {tok[p]}
        /\ (chal' = [chal EXCEPT ![tok[p]] = "open"] \/ chal' = chal)
        /\ UNCHANGED <<sess, pending, device, attempts, known, resets, banned,
                   challenged, approvals, epoch, born, uses, together>>
    BY <1>10 DEF createDeviceChallenge, ends, goes, SBaseInv, SLocals, OnSession
  <2>2. chal' \in [Tokens -> {"none", "open", "lapsed", "consumed"}]
    BY <2>1 DEF SBaseInv, SBase
  <2>3. QED
    BY <2>1, <2>2, EndsFacts DEF SBaseInv, SBase, UsesCounted
<1>11. CASE CountAttempt(p)
  <2>1. ends(p, "wrong") /\ tok[p] \in Tokens
        /\ attempts' = [attempts EXCEPT ![tok[p]] = attempts[tok[p]] + 1]
        /\ UNCHANGED <<sess, pending, device, chal, known, resets, banned, sHistory>>
    BY <1>11 DEF CountAttempt, ends, goes, SBaseInv, SLocals, OnSession
  <2>2. attempts' \in [Tokens -> Nat]
    BY <2>1 DEF SBaseInv, SBase
  <2>3. QED
    BY <2>1, <2>2, EndsFacts DEF SBaseInv, SBase, UsesCounted, sHistory
<1>12. CASE Consume(p) \/ Deny(p)
  <2>1. (goes(p, "consume", "letgo") \/ goes(p, "deny", "revoke"))
        /\ chal' = [chal EXCEPT ![tok[p]] = "consumed"]
        /\ UNCHANGED <<sess, pending, device, attempts, known, resets, banned, tok, rst, sHistory>>
    BY <1>12 DEF Consume, Deny, consumeChallenge
  <2>2. "consume" \in OnSession /\ "deny" \in OnSession
    BY DEF OnSession
  <2>3. QED
    BY <2>1, <2>2, GoesFacts DEF SBaseInv, SBase, UsesCounted, sHistory
<1>13. CASE LetGo(p)
  <2>1. goes(p, "letgo", "remember") /\ pending' = pending \ {tok[p]}
        /\ UNCHANGED <<sess, device, chal, attempts, known, resets, banned, tok, rst, sHistory>>
    BY <1>13 DEF LetGo
  <2>2. "letgo" \in OnSession
    BY DEF OnSession
  <2>3. QED
    BY <2>1, <2>2, GoesFacts DEF SBaseInv, SBase, UsesCounted, sHistory
<1>14. CASE rememberDevice(p)
  <2>1. ends(p, "remember") /\ tok[p] \in Tokens /\ known' = known \cup {device[tok[p]]}
        /\ UNCHANGED <<sess, pending, device, chal, attempts, resets, banned, sHistory>>
    BY <1>14 DEF rememberDevice, ends, goes, SBaseInv, SLocals, OnSession
  <2>2. known' \subseteq Devices
    BY <2>1 DEF SBaseInv, SBase
  <2>3. QED
    BY <2>1, <2>2, EndsFacts DEF SBaseInv, SBase, UsesCounted, sHistory
<1>15. CASE DenyRevoke(p)
  <2>1. ends(p, "revoke") /\ sess' = [sess EXCEPT ![tok[p]] = "over"]
        /\ UNCHANGED <<pending, device, chal, attempts, known, resets, banned, sHistory>>
    BY <1>15 DEF DenyRevoke
  <2>2. sess' \in [Tokens -> {"none", "live", "over"}]
    BY <2>1 DEF SBaseInv, SBase
  <2>3. QED
    BY <2>1, <2>2, EndsFacts DEF SBaseInv, SBase, UsesCounted, sHistory
<1>16. CASE RevokeOthers(p) \/ BanRevoke(p)
  <2>1. (ends(p, "others") \/ ends(p, "ban"))
        /\ (sess' = revoked(Tokens \ {tok[p]}) \/ sess' = revoked(Tokens))
        /\ UNCHANGED <<pending, device, chal, attempts, known, resets, banned, sHistory>>
    BY <1>16 DEF RevokeOthers, BanRevoke
  <2>2. sess' \in [Tokens -> {"none", "live", "over"}]
    BY <2>1, RevokedFacts
  <2>3. QED
    BY <2>1, <2>2, EndsFacts DEF SBaseInv, SBase, UsesCounted, sHistory
<1>17. ASSUME NEW r \in Resets, ResetPassword(p, r) PROVE SBaseInv'
  <2>1. /\ spc[p] = "idle" /\ spc' = [spc EXCEPT ![p] = "reset"]
        /\ rst' = [rst EXCEPT ![p] = r]
        /\ (together' = together \/ together' = together \cup {r})
        /\ UNCHANGED <<tables, tok, handed, challenged, approvals, epoch, born, uses>>
    BY <1>17 DEF ResetPassword, goes
  <2>2. SLocals'
    BY <2>1 DEF SBaseInv, SBase, SLocals, OnSession
  <2>3. QED
    BY <2>1, <2>2 DEF SBaseInv, SBase, UsesCounted, tables
<1>18. CASE consumePasswordReset(p)
  <2>1. ends(p, "reset") /\ rst[p] \in Resets /\ epoch < MaxEpoch /\ epoch' = epoch + 1
        /\ resets' = [resets EXCEPT ![rst[p]] = "used"]
        /\ uses' = [uses EXCEPT ![rst[p]] = uses[rst[p]] + 1]
        /\ sess' = revoked(Tokens)
        /\ UNCHANGED <<pending, device, chal, attempts, known, banned,
                   handed, challenged, approvals, born, together>>
    BY <1>18 DEF consumePasswordReset, ends, goes, SBaseInv, SLocals
  <2>2. sess' \in [Tokens -> {"none", "live", "over"}]
    BY <2>1, RevokedFacts
  <2>3. epoch' \in 0..MaxEpoch /\ epoch \in Nat
    BY <2>1, SessionsAssumption DEF SBaseInv, SBase
  <2>4. uses' \in [Resets -> Nat] /\ UsesCounted'
    <3>1. uses \in [Resets -> Nat] /\ \A r \in Resets : uses[r] <= epoch
      BY DEF SBaseInv, SBase, UsesCounted
    <3>2. \A r \in Resets : uses'[r] = IF r = rst[p] THEN uses[r] + 1 ELSE uses[r]
      BY <2>1, <3>1
    <3>3. uses' \in [Resets -> Nat]
      BY <2>1, <3>1
    <3>4. UsesCounted'
      BY <2>1, <2>3, <3>1, <3>2 DEF UsesCounted
    <3>5. QED
      BY <3>3, <3>4
  <2>5. QED
    BY <2>1, <2>2, <2>3, <2>4, EndsFacts DEF SBaseInv, SBase
<1>19. CASE ResetRolledBack(p)
  <2>1. ends(p, "reset") /\ UNCHANGED <<tables, sHistory>>
    BY <1>19 DEF ResetRolledBack
  <2>2. QED
    BY <2>1, EndsFacts DEF SBaseInv, SBase, UsesCounted, tables, sHistory
<1>20. QED
  BY <1>1, <1>2, <1>3, <1>4, <1>5, <1>6, <1>7, <1>8, <1>9, <1>10, <1>11, <1>12, <1>13, <1>14,
     <1>15, <1>16, <1>17, <1>18, <1>19 DEF SHandler

\* The steps of no handler: they change tables and no local.
SOther ==
    \/ \E t \in Tokens : revokeSession(t) \/ SessionAuthBanned(t)
                         \/ SessionExpires(t) \/ ChallengeLapses(t)
    \/ \E r \in Resets : createPasswordReset(r) \/ ResetLapses(r)
    \/ Unban

LEMMA SOtherBase ==
    ASSUME SBaseInv, SOther
    PROVE  SBaseInv'
<1>1. UNCHANGED <<spc, tok, rst, sHistory>>
  BY DEF SOther, revokeSession, SessionAuthBanned, SessionExpires, ChallengeLapses,
         createPasswordReset, ResetLapses, Unban
<1>2. SLocals' /\ UsesCounted'
  BY <1>1 DEF SBaseInv, SLocals, UsesCounted, sHistory
<1>3. ASSUME NEW t \in Tokens, revokeSession(t) \/ SessionAuthBanned(t) \/ SessionExpires(t) PROVE SBaseInv'
  <2>1. sess' = revoked({t}) /\ UNCHANGED <<pending, device, chal, attempts, known, resets, banned>>
    BY <1>3 DEF revokeSession, SessionAuthBanned, SessionExpires
  <2>2. QED
    BY <1>1, <1>2, <2>1, RevokedFacts DEF SBaseInv, SBase, sHistory
<1>4. ASSUME NEW t \in Tokens, ChallengeLapses(t) PROVE SBaseInv'
  BY <1>1, <1>2, <1>4 DEF SBaseInv, SBase, sHistory, ChallengeLapses
<1>5. ASSUME NEW r \in Resets, createPasswordReset(r) PROVE SBaseInv'
  BY <1>1, <1>2, <1>5 DEF SBaseInv, SBase, sHistory, createPasswordReset
<1>6. ASSUME NEW r \in Resets, ResetLapses(r) PROVE SBaseInv'
  BY <1>1, <1>2, <1>6 DEF SBaseInv, SBase, sHistory, ResetLapses
<1>7. CASE Unban
  BY <1>1, <1>2, <1>7 DEF SBaseInv, SBase, sHistory, Unban
<1>8. QED
  BY <1>3, <1>4, <1>5, <1>6, <1>7 DEF SOther

LEMMA SBaseStep == SBaseInv /\ [SNext]_svars => SBaseInv'
<1> SUFFICES ASSUME SBaseInv, [SNext]_svars PROVE SBaseInv'
  OBVIOUS
<1>1. CASE UNCHANGED svars
  BY <1>1 DEF SBaseInv, SBase, SLocals, UsesCounted, svars, tables, sHistory
<1>2. CASE SNext
  BY <1>2, SHandlerBase, SOtherBase DEF SNext, SOther
<1>3. QED
  BY <1>1, <1>2

-----------------------------------------------------------------------------
(* A step of one handler leaves the locals of the others alone. *)

LEMMA Alone ==
    ASSUME SBaseInv, NEW p \in Reqs, SHandler(p)
    PROVE  \A q \in Reqs : q # p => spc'[q] = spc[q] /\ tok'[q] = tok[q] /\ rst'[q] = rst[q]
<1>1. ASSUME NEW from, ends(p, from)
      PROVE  \A q \in Reqs : q # p => spc'[q] = spc[q] /\ tok'[q] = tok[q] /\ rst'[q] = rst[q]
  BY <1>1 DEF ends, goes, SBaseInv, SBase
<1>2. ASSUME NEW label, NEW t, starts(p, label, t)
      PROVE  \A q \in Reqs : q # p => spc'[q] = spc[q] /\ tok'[q] = tok[q] /\ rst'[q] = rst[q]
  BY <1>2 DEF starts, goes, SBaseInv, SBase
<1>3. ASSUME NEW from, NEW to, goes(p, from, to),
             tok' = tok \/ (\E t \in Tokens : tok' = [tok EXCEPT ![p] = t]),
             rst' = rst \/ (\E r \in Resets : rst' = [rst EXCEPT ![p] = r])
      PROVE  \A q \in Reqs : q # p => spc'[q] = spc[q] /\ tok'[q] = tok[q] /\ rst'[q] = rst[q]
  BY <1>3 DEF goes, SBaseInv, SBase
<1>4. CASE Login(p) \/ Ban(p)
  BY <1>2, <1>4 DEF Login, Ban
<1>5. ASSUME NEW t \in Tokens, \/ VerifyDevice(p, t) \/ WrongCode(p, t) \/ DeviceApprove(p, t)
                               \/ DeviceDeny(p, t) \/ ChangePassword(p, t)
      PROVE  \A q \in Reqs : q # p => spc'[q] = spc[q] /\ tok'[q] = tok[q] /\ rst'[q] = rst[q]
  BY <1>2, <1>5 DEF VerifyDevice, WrongCode, DeviceApprove, DeviceDeny, ChangePassword
<1>6. ASSUME NEW t \in Tokens, issueSessionToken(p, t)
      PROVE  \A q \in Reqs : q # p => spc'[q] = spc[q] /\ tok'[q] = tok[q] /\ rst'[q] = rst[q]
  BY <1>3, <1>6 DEF issueSessionToken
<1>7. CASE DeviceUnknown(p) \/ markSessionPendingDevice(p) \/ Consume(p) \/ LetGo(p) \/ Deny(p)
  BY <1>3, <1>7 DEF DeviceUnknown, markSessionPendingDevice, Consume, LetGo, Deny
<1>8. ASSUME NEW fresh \in BOOLEAN, DeviceTrusted(p, fresh)
      PROVE  \A q \in Reqs : q # p => spc'[q] = spc[q] /\ tok'[q] = tok[q] /\ rst'[q] = rst[q]
  BY <1>1, <1>8 DEF DeviceTrusted
<1>9. CASE \/ MarkRefused(p) \/ createDeviceChallenge(p) \/ CountAttempt(p) \/ rememberDevice(p)
           \/ DenyRevoke(p) \/ RevokeOthers(p) \/ BanRevoke(p)
  BY <1>1, <1>9 DEF MarkRefused, createDeviceChallenge, CountAttempt, rememberDevice,
                    DenyRevoke, RevokeOthers, BanRevoke
<1>10. CASE consumePasswordReset(p) \/ ResetRolledBack(p)
  BY <1>1, <1>10 DEF consumePasswordReset, ResetRolledBack
<1>11. ASSUME NEW r \in Resets, ResetPassword(p, r)
       PROVE  \A q \in Reqs : q # p => spc'[q] = spc[q] /\ tok'[q] = tok[q] /\ rst'[q] = rst[q]
  BY <1>3, <1>11 DEF ResetPassword
<1>12. QED
  BY <1>4, <1>5, <1>6, <1>7, <1>8, <1>9, <1>10, <1>11 DEF SHandler

-----------------------------------------------------------------------------
(* Wrong codes. *)

\* The handlers that have found a code of session t wrong and not counted it.
guessing(t) == {q \in Reqs : spc[q] = "wrong" /\ tok[q] = t}

\* The code is looked at before the attempt is counted; every handler under
\* way may therefore add one to the limit, and no more.
AttemptsCounted ==
    \A t \in Tokens : attempts[t] + Cardinality(guessing(t)) <= MaxAttempts + Cardinality(Reqs)

LEMMA GuessingFinite ==
    /\ Cardinality(Reqs) \in Nat
    /\ \A t \in Tokens : /\ IsFiniteSet(guessing(t))
                         /\ Cardinality(guessing(t)) \in Nat
                         /\ Cardinality(guessing(t)) <= Cardinality(Reqs)
<1>1. \A t \in Tokens : guessing(t) \subseteq Reqs
  BY DEF guessing
<1>2. QED
  BY <1>1, RequestsAssumption, FS_Subset, FS_CardinalityType

\* No step but WrongCode adds a handler that has a code to count.
LEMMA GuessingShrinks ==
    ASSUME SBaseInv, NEW p \in Reqs, SHandler(p), attempts' = attempts, AttemptsCounted,
           spc'[p] # "wrong"
    PROVE  AttemptsCounted'
<1> SUFFICES ASSUME NEW t \in Tokens
             PROVE  attempts[t] + Cardinality(guessing(t)') <= MaxAttempts + Cardinality(Reqs)
  BY DEF AttemptsCounted
<1>1. guessing(t)' \subseteq guessing(t)
  BY Alone DEF guessing
<1>2. Cardinality(guessing(t)') \in Nat /\ Cardinality(guessing(t)') <= Cardinality(guessing(t))
  BY <1>1, GuessingFinite, FS_Subset, FS_CardinalityType
<1>3. attempts[t] \in Nat /\ Cardinality(guessing(t)) \in Nat
      /\ attempts[t] + Cardinality(guessing(t)) <= MaxAttempts + Cardinality(Reqs)
  BY GuessingFinite DEF SBaseInv, SBase, AttemptsCounted
<1>4. QED
  BY <1>2, <1>3, GuessingFinite, SessionsAssumption

LEMMA WrongCodeCounted ==
    ASSUME SBaseInv, AttemptsCounted, NEW p \in Reqs, NEW s \in Tokens, WrongCode(p, s)
    PROVE  AttemptsCounted'
<1> SUFFICES ASSUME NEW t \in Tokens
             PROVE  attempts[t] + Cardinality(guessing(t)') <= MaxAttempts + Cardinality(Reqs)
  BY DEF AttemptsCounted, WrongCode, tables
<1>1. spc'[p] = "wrong" /\ tok'[p] = s /\ attempts[s] < MaxAttempts
      /\ \A q \in Reqs : q # p => spc'[q] = spc[q] /\ tok'[q] = tok[q]
  BY DEF WrongCode, codeAccepted, starts, goes, SBaseInv, SBase
<1>2. attempts[t] \in Nat /\ MaxAttempts \in Nat
  BY SessionsAssumption DEF SBaseInv, SBase
<1>3. guessing(t)' \subseteq Reqs
  BY DEF guessing
<1>4. Cardinality(guessing(t)') \in Nat /\ Cardinality(guessing(t)') <= Cardinality(Reqs)
  BY <1>3, RequestsAssumption, FS_Subset, FS_CardinalityType
<1>5. CASE t = s
  BY <1>1, <1>2, <1>4, <1>5, GuessingFinite
<1>6. CASE t # s
  <2>1. guessing(t)' \subseteq guessing(t)
    BY <1>1, <1>6 DEF guessing
  <2>2. Cardinality(guessing(t)') <= Cardinality(guessing(t))
    BY <2>1, GuessingFinite, FS_Subset
  <2>3. QED
    BY <1>2, <1>4, <2>2, GuessingFinite DEF AttemptsCounted
<1>7. QED
  BY <1>5, <1>6

LEMMA CountAttemptCounted ==
    ASSUME SBaseInv, AttemptsCounted, NEW p \in Reqs, CountAttempt(p)
    PROVE  AttemptsCounted'
<1>1. /\ spc[p] = "wrong" /\ tok[p] \in Tokens /\ spc'[p] = "idle"
      /\ \A q \in Reqs : q # p => spc'[q] = spc[q] /\ tok'[q] = tok[q]
      /\ attempts' = [attempts EXCEPT ![tok[p]] = attempts[tok[p]] + 1]
  BY DEF CountAttempt, ends, goes, SBaseInv, SBase, SLocals, OnSession
<1> SUFFICES ASSUME NEW t \in Tokens
             PROVE  attempts'[t] + Cardinality(guessing(t)') <= MaxAttempts + Cardinality(Reqs)
  BY DEF AttemptsCounted
<1>2. attempts[t] \in Nat /\ MaxAttempts \in Nat
  BY SessionsAssumption DEF SBaseInv, SBase
<1>3. CASE t = tok[p]
  <2>1. guessing(t)' = guessing(t) \ {p} /\ p \in guessing(t)
    BY <1>1, <1>3 DEF guessing
  <2>2. Cardinality(guessing(t)') = Cardinality(guessing(t)) - 1
    BY <2>1, GuessingFinite, FS_RemoveElement
  <2>3. attempts'[t] = attempts[t] + 1
    BY <1>1, <1>3 DEF SBaseInv, SBase
  <2>4. QED
    BY <1>2, <2>2, <2>3, GuessingFinite DEF AttemptsCounted
<1>4. CASE t # tok[p]
  <2>1. guessing(t)' = guessing(t)
    BY <1>1, <1>4 DEF guessing
  <2>2. attempts'[t] = attempts[t]
    BY <1>1, <1>4 DEF SBaseInv, SBase
  <2>3. QED
    BY <2>1, <2>2 DEF AttemptsCounted
<1>5. QED
  BY <1>3, <1>4

LEMMA AttemptsStep ==
    ASSUME SBaseInv, AttemptsCounted, NEW p \in Reqs, SHandler(p)
    PROVE  AttemptsCounted'
<1>1. ASSUME NEW t \in Tokens, WrongCode(p, t) PROVE AttemptsCounted'
  BY <1>1, WrongCodeCounted
<1>2. CASE CountAttempt(p)
  BY <1>2, CountAttemptCounted
<1>3. ASSUME NEW from, ends(p, from), attempts' = attempts PROVE AttemptsCounted'
  <2>1. spc'[p] # "wrong"
    BY <1>3, EndsFacts
  <2>2. QED
    BY <1>3, <2>1, GuessingShrinks
<1>4. ASSUME NEW from, NEW to, goes(p, from, to), to # "wrong", attempts' = attempts PROVE AttemptsCounted'
  <2>1. spc'[p] # "wrong"
    BY <1>4 DEF goes, SBaseInv, SBase
  <2>2. QED
    BY <1>4, <2>1, GuessingShrinks
<1>5. CASE Login(p) \/ Ban(p)
  BY <1>4, <1>5 DEF Login, Ban, starts, tables
<1>6. ASSUME NEW t \in Tokens, \/ VerifyDevice(p, t) \/ DeviceApprove(p, t) \/ issueSessionToken(p, t)
                               \/ DeviceDeny(p, t) \/ ChangePassword(p, t)
      PROVE  AttemptsCounted'
  BY <1>4, <1>6 DEF VerifyDevice, DeviceApprove, issueSessionToken, DeviceDeny, ChangePassword, starts, tables
<1>7. CASE DeviceUnknown(p) \/ markSessionPendingDevice(p) \/ Consume(p) \/ LetGo(p) \/ Deny(p)
  BY <1>4, <1>7 DEF DeviceUnknown, markSessionPendingDevice, Consume, LetGo, Deny, tables
<1>8. ASSUME NEW fresh \in BOOLEAN, DeviceTrusted(p, fresh) PROVE AttemptsCounted'
  BY <1>3, <1>8 DEF DeviceTrusted
<1>9. CASE \/ MarkRefused(p) \/ createDeviceChallenge(p) \/ rememberDevice(p)
           \/ DenyRevoke(p) \/ RevokeOthers(p) \/ BanRevoke(p)
  BY <1>3, <1>9 DEF MarkRefused, createDeviceChallenge, rememberDevice,
                    DenyRevoke, RevokeOthers, BanRevoke, tables
<1>10. CASE consumePasswordReset(p) \/ ResetRolledBack(p)
  BY <1>3, <1>10 DEF consumePasswordReset, ResetRolledBack, tables
<1>11. ASSUME NEW r \in Resets, ResetPassword(p, r) PROVE AttemptsCounted'
  BY <1>4, <1>11 DEF ResetPassword, tables
<1>12. QED
  BY <1>1, <1>2, <1>5, <1>6, <1>7, <1>8, <1>9, <1>10, <1>11 DEF SHandler


-----------------------------------------------------------------------------
(* Approvals. *)

\* A session that was held is held until somebody approves it, and a handler
\* that lets one go has an approval for it.
ApprovedFirst ==
    /\ \A t \in challenged : t \in pending \/ t \in approvals
    /\ \A q \in Reqs : spc[q] \in Approving => tok[q] \in approvals

LEMMA ApprovedStep ==
    ASSUME SBaseInv, ApprovedFirst, NEW p \in Reqs, SHandler(p)
    PROVE  ApprovedFirst'
<1> DEFINE Rest == \A q \in Reqs : q # p => spc'[q] = spc[q] /\ tok'[q] = tok[q]
<1>0. Rest
  BY Alone
<1>1. ASSUME UNCHANGED <<pending, challenged, approvals>>, spc'[p] \notin Approving
      PROVE  ApprovedFirst'
  BY <1>0, <1>1 DEF ApprovedFirst
<1>2. ASSUME NEW from, ends(p, from), UNCHANGED <<pending, challenged, approvals>>
      PROVE  ApprovedFirst'
  <2>1. spc'[p] \notin Approving
    BY <1>2, EndsFacts DEF Approving
  <2>2. QED
    BY <1>1, <1>2, <2>1
<1>3. ASSUME NEW from, NEW to, goes(p, from, to), to \notin Approving,
             UNCHANGED <<pending, challenged, approvals>>
      PROVE  ApprovedFirst'
  <2>1. spc'[p] \notin Approving
    BY <1>3 DEF goes, SBaseInv, SBase
  <2>2. QED
    BY <1>1, <1>3, <2>1
<1>4. CASE Login(p) \/ Ban(p)
  BY <1>3, <1>4 DEF Login, Ban, starts, tables, sHistory, Approving
<1>5. ASSUME NEW t \in Tokens, VerifyDevice(p, t) \/ DeviceApprove(p, t) PROVE ApprovedFirst'
  <2>1. /\ tok'[p] = t /\ approvals' = approvals \cup {t}
        /\ UNCHANGED <<pending, challenged>>
    BY <1>5 DEF VerifyDevice, DeviceApprove, starts, tables, SBaseInv, SBase
  <2>2. QED
    BY <1>0, <2>1 DEF ApprovedFirst
<1>6. ASSUME NEW t \in Tokens, issueSessionToken(p, t) \/ WrongCode(p, t) \/ DeviceDeny(p, t) \/ ChangePassword(p, t)
      PROVE  ApprovedFirst'
  BY <1>3, <1>6 DEF issueSessionToken, WrongCode, DeviceDeny, ChangePassword, starts, tables, sHistory, Approving
<1>7. CASE DeviceUnknown(p) \/ Deny(p)
  BY <1>3, <1>7 DEF DeviceUnknown, Deny, tables, sHistory, Approving
<1>8. CASE markSessionPendingDevice(p)
  <2>1. /\ spc'[p] = "challenge"
        /\ pending' = pending \cup {tok[p]} /\ challenged' = challenged \cup {tok[p]}
        /\ approvals' = approvals
    BY <1>8 DEF markSessionPendingDevice, goes, SBaseInv, SBase
  <2>2. QED
    BY <1>0, <2>1 DEF ApprovedFirst, Approving
<1>9. CASE Consume(p)
  <2>1. tok[p] \in approvals
    BY <1>9 DEF Consume, goes, ApprovedFirst, Approving
  <2>2. UNCHANGED <<tok, pending, challenged, approvals>>
    BY <1>9 DEF Consume, sHistory
  <2>3. QED
    BY <1>0, <2>1, <2>2 DEF ApprovedFirst
<1>10. CASE LetGo(p)
  <2>1. tok[p] \in approvals
    BY <1>10 DEF LetGo, goes, ApprovedFirst, Approving
  <2>2. pending' = pending \ {tok[p]} /\ UNCHANGED <<tok, challenged, approvals>>
    BY <1>10 DEF LetGo, sHistory
  <2>3. QED
    BY <1>0, <2>1, <2>2 DEF ApprovedFirst
<1>11. ASSUME NEW fresh \in BOOLEAN, DeviceTrusted(p, fresh) PROVE ApprovedFirst'
  BY <1>2, <1>11 DEF DeviceTrusted
<1>12. CASE \/ MarkRefused(p) \/ createDeviceChallenge(p) \/ CountAttempt(p) \/ rememberDevice(p)
            \/ DenyRevoke(p) \/ RevokeOthers(p) \/ BanRevoke(p)
  BY <1>2, <1>12 DEF MarkRefused, createDeviceChallenge, CountAttempt, rememberDevice,
                     DenyRevoke, RevokeOthers, BanRevoke, tables, sHistory
<1>13. CASE consumePasswordReset(p) \/ ResetRolledBack(p)
  BY <1>2, <1>13 DEF consumePasswordReset, ResetRolledBack, tables, sHistory
<1>14. ASSUME NEW r \in Resets, ResetPassword(p, r) PROVE ApprovedFirst'
  BY <1>3, <1>14 DEF ResetPassword, tables, Approving
<1>15. QED
  BY <1>4, <1>5, <1>6, <1>7, <1>8, <1>9, <1>10, <1>11, <1>12, <1>13, <1>14 DEF SHandler

-----------------------------------------------------------------------------
(* A reset ends all sessions. *)

LEMMA ResetEndsStep ==
    ASSUME SBaseInv, ResetEndsSessions, NEW p \in Reqs, SHandler(p)
    PROVE  ResetEndsSessions'
<1>1. ASSUME UNCHANGED <<epoch, born>>,
             \A t \in Tokens : sess'[t] = "live" => sess[t] = "live"
      PROVE  ResetEndsSessions'
  BY <1>1 DEF ResetEndsSessions
<1>2. ASSUME NEW t \in Tokens, issueSessionToken(p, t) PROVE ResetEndsSessions'
  <2>1. /\ sess' = [sess EXCEPT ![t] = "live"] /\ born' = [born EXCEPT ![t] = epoch]
        /\ epoch' = epoch
    BY <1>2 DEF issueSessionToken
  <2>2. QED
    BY <2>1 DEF ResetEndsSessions, SBaseInv, SBase
<1>3. CASE consumePasswordReset(p)
  <2>1. sess' = revoked(Tokens)
    BY <1>3 DEF consumePasswordReset
  <2>2. \A t \in Tokens : sess'[t] # "live"
    BY <2>1, RevokedFacts
  <2>3. QED
    BY <2>2 DEF ResetEndsSessions
<1>4. CASE RevokeOthers(p) \/ BanRevoke(p)
  <2>1. /\ sess' = revoked(Tokens) \/ sess' = revoked(Tokens \ {tok[p]})
        /\ UNCHANGED <<epoch, born>>
    BY <1>4 DEF RevokeOthers, BanRevoke, sHistory
  <2>2. QED
    BY <1>1, <2>1, RevokedFacts
<1>5. CASE DenyRevoke(p)
  <2>1. sess' = [sess EXCEPT ![tok[p]] = "over"] /\ UNCHANGED <<epoch, born>>
    BY <1>5 DEF DenyRevoke, sHistory
  <2>2. QED
    BY <1>1, <2>1 DEF SBaseInv, SBase
<1>6. CASE Login(p) \/ Ban(p)
  BY <1>1, <1>6 DEF Login, Ban, tables, sHistory
<1>7. ASSUME NEW t \in Tokens, \/ VerifyDevice(p, t) \/ WrongCode(p, t) \/ DeviceApprove(p, t)
                               \/ DeviceDeny(p, t) \/ ChangePassword(p, t)
      PROVE  ResetEndsSessions'
  BY <1>1, <1>7 DEF VerifyDevice, WrongCode, DeviceApprove, DeviceDeny, ChangePassword, tables, sHistory
<1>8. ASSUME NEW fresh \in BOOLEAN, DeviceTrusted(p, fresh) PROVE ResetEndsSessions'
  BY <1>1, <1>8 DEF DeviceTrusted
<1>9. CASE \/ DeviceUnknown(p) \/ markSessionPendingDevice(p) \/ MarkRefused(p)
           \/ createDeviceChallenge(p) \/ CountAttempt(p) \/ Consume(p) \/ LetGo(p)
           \/ rememberDevice(p) \/ Deny(p) \/ ResetRolledBack(p)
  BY <1>1, <1>9 DEF DeviceUnknown, markSessionPendingDevice, MarkRefused, createDeviceChallenge,
                    CountAttempt, Consume, LetGo, rememberDevice, Deny, ResetRolledBack, tables, sHistory
<1>10. ASSUME NEW r \in Resets, ResetPassword(p, r) PROVE ResetEndsSessions'
  BY <1>1, <1>10 DEF ResetPassword, tables
<1>11. QED
  BY <1>2, <1>3, <1>4, <1>5, <1>6, <1>7, <1>8, <1>9, <1>10 DEF SHandler

-----------------------------------------------------------------------------
(* Reset tokens. *)

\* A token that has set the password is used; handlers that hold the same
\* token, or one that was used meanwhile, have held it together.
HeldTogether ==
    /\ \A r \in Resets : uses[r] >= 1 => resets[r] = "used"
    /\ \A r \in Resets : uses[r] > 1 => r \in together
    /\ \A q \in Reqs : spc[q] = "reset" /\ uses[rst[q]] >= 1 => rst[q] \in together
    /\ \A q, s \in Reqs : q # s /\ spc[q] = "reset" /\ spc[s] = "reset" /\ rst[q] = rst[s]
                            => rst[q] \in together

LEMMA TogetherStep ==
    ASSUME SBaseInv, HeldTogether, NEW p \in Reqs, SHandler(p)
    PROVE  HeldTogether'
<1>0. \A q \in Reqs : q # p => spc'[q] = spc[q] /\ rst'[q] = rst[q]
  BY Alone
<1>1. ASSUME UNCHANGED <<resets, uses, together>>, spc'[p] # "reset"
      PROVE  HeldTogether'
  <2>1. \A q \in Reqs : spc'[q] = "reset" => spc[q] = "reset" /\ rst'[q] = rst[q]
    BY <1>0, <1>1
  <2>2. QED
    BY <1>1, <2>1 DEF HeldTogether
<1>2. ASSUME NEW from, ends(p, from), UNCHANGED <<resets, uses, together>>
      PROVE  HeldTogether'
  <2>1. spc'[p] # "reset"
    BY <1>2, EndsFacts
  <2>2. QED
    BY <1>1, <1>2, <2>1
<1>3. ASSUME NEW from, NEW to, goes(p, from, to), to # "reset", UNCHANGED <<resets, uses, together>>
      PROVE  HeldTogether'
  <2>1. spc'[p] # "reset"
    BY <1>3 DEF goes, SBaseInv, SBase
  <2>2. QED
    BY <1>1, <1>3, <2>1
<1>4. CASE Login(p) \/ Ban(p)
  BY <1>3, <1>4 DEF Login, Ban, starts, tables, sHistory
<1>5. ASSUME NEW t \in Tokens, \/ VerifyDevice(p, t) \/ DeviceApprove(p, t) \/ issueSessionToken(p, t)
                               \/ WrongCode(p, t) \/ DeviceDeny(p, t) \/ ChangePassword(p, t)
      PROVE  HeldTogether'
  BY <1>3, <1>5 DEF VerifyDevice, DeviceApprove, issueSessionToken, WrongCode, DeviceDeny,
                    ChangePassword, starts, tables, sHistory
<1>6. CASE DeviceUnknown(p) \/ markSessionPendingDevice(p) \/ Consume(p) \/ LetGo(p) \/ Deny(p)
  BY <1>3, <1>6 DEF DeviceUnknown, markSessionPendingDevice, Consume, LetGo, Deny, tables, sHistory
<1>7. ASSUME NEW fresh \in BOOLEAN, DeviceTrusted(p, fresh) PROVE HeldTogether'
  BY <1>2, <1>7 DEF DeviceTrusted
<1>8. CASE \/ MarkRefused(p) \/ createDeviceChallenge(p) \/ CountAttempt(p) \/ rememberDevice(p)
           \/ DenyRevoke(p) \/ RevokeOthers(p) \/ BanRevoke(p) \/ ResetRolledBack(p)
  BY <1>2, <1>8 DEF MarkRefused, createDeviceChallenge, CountAttempt, rememberDevice,
                    DenyRevoke, RevokeOthers, BanRevoke, ResetRolledBack, tables, sHistory
<1>9. ASSUME NEW r \in Resets, ResetPassword(p, r) PROVE HeldTogether'
  <2>1. /\ spc[p] = "idle" /\ spc'[p] = "reset" /\ rst'[p] = r
        /\ resets[r] = "open" /\ UNCHANGED <<resets, uses>>
        /\ together' = IF holding(r) = {} THEN together ELSE together \cup {r}
    BY <1>9 DEF ResetPassword, goes, resetUsable, tables, SBaseInv, SBase
  <2>2. uses[r] \in Nat /\ ~(uses[r] >= 1)
    BY <2>1 DEF HeldTogether, SBaseInv, SBase
  <2>3. \A q \in Reqs : q # p /\ spc[q] = "reset" /\ rst[q] = r => r \in together'
    BY <2>1 DEF holding
  <2>4. together \subseteq together'
    BY <2>1
  <2>5. \A q \in Reqs : spc'[q] = "reset" /\ uses[rst'[q]] >= 1 => rst'[q] \in together'
    BY <1>0, <2>1, <2>2, <2>4 DEF HeldTogether
  <2>6. ASSUME NEW q \in Reqs, NEW s \in Reqs, q # s, spc'[q] = "reset", spc'[s] = "reset", rst'[q] = rst'[s]
        PROVE  rst'[q] \in together'
    <3>1. CASE q = p
      BY <1>0, <2>1, <2>3, <2>6, <3>1
    <3>2. CASE s = p
      BY <1>0, <2>1, <2>3, <2>6, <3>2
    <3>3. CASE q # p /\ s # p
      BY <1>0, <2>4, <2>6, <3>3 DEF HeldTogether
    <3>4. QED
      BY <3>1, <3>2, <3>3
  <2>7. QED
    BY <2>1, <2>4, <2>5, <2>6 DEF HeldTogether
<1>10. CASE consumePasswordReset(p)
  <2>1. /\ spc[p] = "reset" /\ rst[p] \in Resets /\ spc'[p] = "idle" /\ together' = together
        /\ resets' = [resets EXCEPT ![rst[p]] = "used"]
        /\ uses' = [uses EXCEPT ![rst[p]] = uses[rst[p]] + 1]
    BY <1>10 DEF consumePasswordReset, ends, goes, SBaseInv, SBase, SLocals
  <2>2. \A r \in Resets : /\ r # rst[p] => uses'[r] = uses[r] /\ resets'[r] = resets[r]
                          /\ r = rst[p] => uses'[r] = uses[r] + 1 /\ resets'[r] = "used"
                          /\ uses[r] \in Nat
    BY <2>1 DEF SBaseInv, SBase
  <2>3. \A r \in Resets : uses'[r] >= 1 => resets'[r] = "used"
    BY <2>2 DEF HeldTogether
  <2>4. \A r \in Resets : uses'[r] > 1 => r \in together
    BY <2>1, <2>2 DEF HeldTogether
  <2>5. ASSUME NEW q \in Reqs, spc'[q] = "reset", uses'[rst'[q]] >= 1
        PROVE  rst'[q] \in together
    <3>1. q # p /\ spc[q] = "reset" /\ rst'[q] = rst[q] /\ rst[q] \in Resets
      BY <1>0, <2>1, <2>5 DEF SBaseInv, SLocals
    <3>2. CASE rst[q] = rst[p]
      BY <2>1, <3>1, <3>2 DEF HeldTogether
    <3>3. CASE rst[q] # rst[p]
      BY <2>2, <2>5, <3>1, <3>3 DEF HeldTogether
    <3>4. QED
      BY <3>2, <3>3
  <2>6. \A q, s \in Reqs : q # s /\ spc'[q] = "reset" /\ spc'[s] = "reset" /\ rst'[q] = rst'[s]
                             => rst'[q] \in together
    BY <1>0, <2>1 DEF HeldTogether
  <2>7. QED
    BY <2>1, <2>3, <2>4, <2>5, <2>6 DEF HeldTogether
<1>11. QED
  BY <1>4, <1>5, <1>6, <1>7, <1>8, <1>9, <1>10 DEF SHandler


-----------------------------------------------------------------------------
(* The invariant, and the first theorem. *)

SessionsInv ==
    /\ SBaseInv
    /\ AttemptsCounted
    /\ ApprovedFirst
    /\ ResetEndsSessions
    /\ HeldTogether

LEMMA SOtherInv ==
    ASSUME SessionsInv, SOther
    PROVE  SessionsInv'
<1>1. UNCHANGED <<spc, tok, rst, sHistory, attempts, pending>>
  BY DEF SOther, revokeSession, SessionAuthBanned, SessionExpires, ChallengeLapses,
         createPasswordReset, ResetLapses, Unban
<1>2. SBaseInv'
  BY SOtherBase DEF SessionsInv
<1>3. AttemptsCounted'
  <2>1. \A t \in Tokens : guessing(t)' = guessing(t)
    BY <1>1 DEF guessing
  <2>2. QED
    BY <1>1, <2>1 DEF SessionsInv, AttemptsCounted
<1>4. ApprovedFirst'
  BY <1>1 DEF SessionsInv, ApprovedFirst, sHistory
<1>5. ResetEndsSessions'
  <2>1. \A t \in Tokens : sess'[t] = "live" => sess[t] = "live"
    <3>1. (\E t \in Tokens : sess' = revoked({t})) \/ sess' = sess
      BY DEF SOther, revokeSession, SessionAuthBanned, SessionExpires, ChallengeLapses,
             createPasswordReset, ResetLapses, Unban
    <3>2. ASSUME NEW u \in Tokens, sess' = revoked({u}), NEW t \in Tokens, sess'[t] = "live"
          PROVE  sess[t] = "live"
      BY <3>2, RevokedFacts DEF SessionsInv
    <3>3. QED
      BY <3>1, <3>2
  <2>2. QED
    BY <1>1, <2>1 DEF SessionsInv, ResetEndsSessions, sHistory
<1>6. HeldTogether'
  <2>1. \A r \in Resets : resets[r] = "used" => resets'[r] = "used"
    <3>1. \/ resets' = resets
          \/ \E r \in Resets : resets[r] # "used" /\ \E v : resets' = [resets EXCEPT ![r] = v]
      BY DEF SOther, revokeSession, SessionAuthBanned, SessionExpires, ChallengeLapses,
             createPasswordReset, ResetLapses, Unban
    <3>2. QED
      BY <3>1 DEF SessionsInv, SBaseInv, SBase
  <2>2. QED
    BY <1>1, <2>1 DEF SessionsInv, HeldTogether, sHistory
<1>7. QED
  BY <1>2, <1>3, <1>4, <1>5, <1>6 DEF SessionsInv

LEMMA SessionsInvInit == SInit => SessionsInv
<1> SUFFICES ASSUME SInit PROVE SessionsInv
  OBVIOUS
<1>1. SBaseInv
  BY SBaseInit
<1>2. AttemptsCounted
  <2>1. \A t \in Tokens : attempts[t] = 0
    BY DEF SInit
  <2>2. QED
    BY <2>1, GuessingFinite, SessionsAssumption DEF AttemptsCounted
<1>3. ApprovedFirst
  BY DEF SInit, ApprovedFirst, Approving
<1>4. ResetEndsSessions
  BY DEF SInit, ResetEndsSessions
<1>5. HeldTogether
  <2>1. \A r \in Resets : uses[r] = 0
    BY DEF SInit
  <2>2. \A q \in Reqs : spc[q] # "reset"
    BY DEF SInit
  <2>3. QED
    BY <2>1, <2>2 DEF HeldTogether
<1>6. QED
  BY <1>1, <1>2, <1>3, <1>4, <1>5 DEF SessionsInv

LEMMA SessionsInvStep == SessionsInv /\ [SNext]_svars => SessionsInv'
<1> SUFFICES ASSUME SessionsInv, [SNext]_svars PROVE SessionsInv'
  OBVIOUS
<1>1. ASSUME NEW p \in Reqs, SHandler(p) PROVE SessionsInv'
  BY <1>1, SHandlerBase, AttemptsStep, ApprovedStep, ResetEndsStep, TogetherStep DEF SessionsInv
<1>2. CASE SOther
  BY <1>2, SOtherInv
<1>3. CASE UNCHANGED svars
  <2>1. \A t \in Tokens : guessing(t)' = guessing(t)
    BY <1>3 DEF guessing, svars
  <2>2. SBaseInv'
    BY <1>3, SBaseStep DEF SessionsInv
  <2>3. AttemptsCounted'
    BY <1>3, <2>1 DEF SessionsInv, AttemptsCounted, svars, tables
  <2>4. QED
    BY <1>3, <2>2, <2>3 DEF SessionsInv, ApprovedFirst, ResetEndsSessions, HeldTogether, svars, tables, sHistory
<1>4. QED
  BY <1>1, <1>2, <1>3 DEF SNext, SOther

LEMMA SessionsInvSafe == SessionsInv => SessionsSafe
<1> SUFFICES ASSUME SessionsInv PROVE SessionsSafe
  OBVIOUS
<1>1. attempts \in [Tokens -> 0..MaxAttempts + Cardinality(Reqs)]
  <2>1. \A t \in Tokens : attempts[t] \in 0..MaxAttempts + Cardinality(Reqs)
    <3> SUFFICES ASSUME NEW t \in Tokens PROVE attempts[t] \in 0..MaxAttempts + Cardinality(Reqs)
      OBVIOUS
    <3>1. /\ attempts[t] \in Nat /\ MaxAttempts \in Nat
          /\ Cardinality(guessing(t)) \in Nat /\ Cardinality(Reqs) \in Nat
          /\ attempts[t] + Cardinality(guessing(t)) <= MaxAttempts + Cardinality(Reqs)
      BY GuessingFinite, SessionsAssumption DEF SessionsInv, SBaseInv, SBase, AttemptsCounted
    <3>2. QED
      BY <3>1
  <2>2. QED
    BY <2>1 DEF SessionsInv, SBaseInv, SBase
<1>2. uses \in [Resets -> 0..MaxEpoch]
  <2>1. \A r \in Resets : uses[r] \in 0..MaxEpoch
    BY SessionsAssumption DEF SessionsInv, SBaseInv, SBase, UsesCounted
  <2>2. QED
    BY <2>1 DEF SessionsInv, SBaseInv, SBase
<1>3. STypeOK
  BY <1>1, <1>2 DEF SessionsInv, SBaseInv, SBase, STypeOK
<1>4. HeldUntilApproved
  BY DEF SessionsInv, ApprovedFirst, HeldUntilApproved, sessionUsername
<1>5. SpentTwiceOnlyTogether
  BY DEF SessionsInv, HeldTogether, SpentTwiceOnlyTogether
<1>6. QED
  BY <1>3, <1>4, <1>5 DEF SessionsInv, SessionsSafe

LEMMA SessionsInvAlways == SSpec => []SessionsInv
BY SessionsInvInit, SessionsInvStep, PTL DEF SSpec

(***************************************************************************)
(* Whatever logins, approvals, denials, bans and resets are under way      *)
(* together, for any number of handlers, tokens and devices: a held        *)
(* session is good for nothing before it is approved, a reset leaves no    *)
(* older session live, and only overlapping requests spend a reset token   *)
(* twice.                                                                  *)
(***************************************************************************)
THEOREM SessionsKept == SSpec => []SessionsSafe
BY SessionsInvAlways, SessionsInvSafe, PTL

-----------------------------------------------------------------------------
(* The tables implement the life of a session. *)

\* A token on its way to the client is of a session that was issued and is
\* known to one handler; all others work on tokens the client has.
HandedOnce ==
    /\ \A t \in handed : sess[t] # "none"
    /\ \A t \in Tokens : chal[t] # "none" => t \in handed
    /\ \A q \in Reqs : spc[q] \in OnItsWay => tok[q] \notin handed /\ sess[tok[q]] # "none"
    /\ \A q, s \in Reqs : q # s /\ spc[q] \in OnItsWay /\ spc[s] \in OnItsWay => tok[q] # tok[s]
    /\ \A q \in Reqs : spc[q] \in OnSession \ OnItsWay => tok[q] \in handed


LEMMA HandedStep ==
    ASSUME SBaseInv, HandedOnce, NEW p \in Reqs, SHandler(p)
    PROVE  HandedOnce'
<1>0. \A q \in Reqs : q # p => spc'[q] = spc[q] /\ tok'[q] = tok[q]
  BY Alone
<1>1. ASSUME handed' = handed, chal' = chal,
             \A t \in Tokens : sess'[t] = "none" => sess[t] = "none",
             \/ spc'[p] \notin OnSession
             \/ spc'[p] \in OnItsWay /\ spc[p] \in OnItsWay /\ tok'[p] = tok[p]
             \/ spc'[p] \in OnSession \ OnItsWay /\ tok'[p] \in handed
      PROVE  HandedOnce'
  <2>1. \A q \in Reqs : spc'[q] \in OnItsWay => spc[q] \in OnItsWay /\ tok'[q] = tok[q] /\ tok[q] \in Tokens
    BY <1>0, <1>1 DEF OnSession, OnItsWay, SBaseInv, SLocals
  <2>2. \A q \in Reqs : spc'[q] \in OnSession \ OnItsWay => tok'[q] \in handed
    BY <1>0, <1>1 DEF HandedOnce, OnSession, OnItsWay
  <2>3. \A t \in handed : t \in Tokens
    BY DEF SBaseInv, SBase
  <2>4. QED
    BY <1>1, <2>1, <2>2, <2>3 DEF HandedOnce
<1>2. ASSUME NEW from, ends(p, from), UNCHANGED <<handed, chal>>,
             \A t \in Tokens : sess'[t] = "none" => sess[t] = "none"
      PROVE  HandedOnce'
  <2>1. spc'[p] \notin OnSession
    BY <1>2, EndsFacts DEF OnSession
  <2>2. QED
    BY <1>1, <1>2, <2>1
<1>3. CASE Login(p) \/ Ban(p)
  <2>1. spc'[p] \in {"issue", "ban"} /\ UNCHANGED <<handed, chal, sess>>
    BY <1>3 DEF Login, Ban, starts, goes, tables, sHistory, SBaseInv, SBase
  <2>2. QED
    BY <1>1, <2>1 DEF OnSession
<1>4. ASSUME NEW t \in Tokens, issueSessionToken(p, t) PROVE HandedOnce'
  <2>1. /\ spc'[p] = "check" /\ tok'[p] = t /\ sess[t] = "none" /\ sess'[t] = "live"
        /\ \A u \in Tokens : u # t => sess'[u] = sess[u]
        /\ \A q \in Reqs : tok[q] # t
        /\ UNCHANGED <<handed, chal>>
    BY <1>4 DEF issueSessionToken, goes, SBaseInv, SBase
  <2>2. t \notin handed
    BY <2>1 DEF HandedOnce
  <2>3. "check" \in OnItsWay
    BY DEF OnItsWay
  <2>4. \A q \in Reqs : q # p /\ spc[q] \in OnItsWay => tok[q] \in Tokens
    BY DEF OnItsWay, OnSession, SBaseInv, SLocals
  <2>5. \A u \in handed : u \in Tokens
    BY DEF SBaseInv, SBase
  <2>6. \A q \in Reqs : spc'[q] \in OnItsWay => tok'[q] \notin handed /\ sess'[tok'[q]] # "none"
    BY <1>0, <2>1, <2>2, <2>4 DEF HandedOnce
  <2>7. \A q, s \in Reqs : q # s /\ spc'[q] \in OnItsWay /\ spc'[s] \in OnItsWay => tok'[q] # tok'[s]
    BY <1>0, <2>1 DEF HandedOnce
  <2>8. \A q \in Reqs : spc'[q] \in OnSession \ OnItsWay => tok'[q] \in handed
    BY <1>0, <2>1, <2>3 DEF HandedOnce
  <2>9. QED
    BY <2>1, <2>2, <2>5, <2>6, <2>7, <2>8 DEF HandedOnce
<1>5. ASSUME NEW t \in Tokens, \/ VerifyDevice(p, t) \/ WrongCode(p, t) \/ DeviceApprove(p, t)
                               \/ DeviceDeny(p, t) \/ ChangePassword(p, t)
      PROVE  HandedOnce'
  <2>1. t \in handed
    BY <1>5 DEF VerifyDevice, WrongCode, DeviceApprove, DeviceDeny, ChangePassword,
                lookupDeviceChallenge, HandedOnce
  <2>2. /\ spc'[p] \in {"consume", "wrong", "deny", "others"} /\ tok'[p] = t
        /\ UNCHANGED <<handed, chal, sess>>
    BY <1>5 DEF VerifyDevice, WrongCode, DeviceApprove, DeviceDeny, ChangePassword,
                starts, goes, tables, sHistory, SBaseInv, SBase
  <2>3. spc'[p] \in OnSession \ OnItsWay
    BY <2>2 DEF OnSession, OnItsWay
  <2>4. QED
    BY <1>1, <2>1, <2>2, <2>3
<1>6. CASE DeviceUnknown(p) \/ markSessionPendingDevice(p)
  <2>1. /\ spc[p] \in OnItsWay /\ spc'[p] \in OnItsWay /\ tok'[p] = tok[p]
        /\ UNCHANGED <<handed, chal, sess>>
    BY <1>6 DEF DeviceUnknown, markSessionPendingDevice, goes, tables, sHistory, OnItsWay, SBaseInv, SBase
  <2>2. QED
    BY <1>1, <2>1
<1>7. ASSUME NEW from \in OnItsWay, ends(p, from), handed' = handed \cup {tok[p]},
             sess' = sess, chal' = chal \/ chal' = [chal EXCEPT ![tok[p]] = "open"]
      PROVE  HandedOnce'
  <2>1. /\ spc[p] \in OnItsWay /\ spc'[p] \notin OnSession
        /\ tok[p] \in Tokens
    BY <1>7, EndsFacts DEF OnSession, OnItsWay, SBaseInv, SLocals
  <2>2. \A u \in Tokens : chal'[u] # "none" => u \in handed'
    BY <1>7, <2>1 DEF HandedOnce, SBaseInv, SBase
  <2>3. \A u \in handed' : sess'[u] # "none"
    BY <1>7, <2>1 DEF HandedOnce
  <2>4. \A q \in Reqs : spc'[q] \in OnItsWay => q # p /\ spc[q] \in OnItsWay /\ tok'[q] = tok[q]
    BY <1>0, <2>1 DEF OnSession, OnItsWay
  <2>5. \A q \in Reqs : spc'[q] \in OnItsWay => tok'[q] \notin handed' /\ sess'[tok'[q]] # "none"
    BY <1>7, <2>1, <2>4 DEF HandedOnce
  <2>6. \A q \in Reqs : spc'[q] \in OnSession \ OnItsWay => tok'[q] \in handed'
    BY <1>0, <1>7, <2>1 DEF HandedOnce
  <2>7. \A q, s \in Reqs : q # s /\ spc'[q] \in OnItsWay /\ spc'[s] \in OnItsWay => tok'[q] # tok'[s]
    BY <2>4 DEF HandedOnce
  <2>8. QED
    BY <2>2, <2>3, <2>5, <2>6, <2>7 DEF HandedOnce
<1>8. ASSUME NEW fresh \in BOOLEAN, DeviceTrusted(p, fresh) PROVE HandedOnce'
  BY <1>7, <1>8 DEF DeviceTrusted, OnItsWay
<1>9. CASE MarkRefused(p) \/ createDeviceChallenge(p)
  BY <1>7, <1>9 DEF MarkRefused, createDeviceChallenge, tables, OnItsWay
<1>10. CASE Consume(p) \/ Deny(p)
  <2>1. /\ spc[p] \in {"consume", "deny"} /\ spc'[p] \in {"letgo", "revoke"}
        /\ tok' = tok /\ handed' = handed /\ sess' = sess
        /\ chal' = [chal EXCEPT ![tok[p]] = "consumed"]
    BY <1>10 DEF Consume, Deny, goes, consumeChallenge, sHistory, SBaseInv, SBase
  <2>2. tok[p] \in handed
    BY <2>1 DEF HandedOnce, OnSession, OnItsWay
  <2>3. \A u \in Tokens : chal'[u] # "none" => u \in handed
    BY <2>1, <2>2 DEF HandedOnce, SBaseInv, SBase
  <2>4. \A q \in Reqs : spc'[q] \in OnItsWay => spc[q] \in OnItsWay
    BY <1>0, <2>1 DEF OnItsWay
  <2>5. \A q \in Reqs : spc'[q] \in OnSession \ OnItsWay => tok[q] \in handed
    BY <1>0, <2>1, <2>2 DEF HandedOnce
  <2>6. QED
    BY <2>1, <2>3, <2>4, <2>5 DEF HandedOnce
<1>11. CASE LetGo(p)
  <2>1. /\ spc[p] = "letgo" /\ spc'[p] = "remember" /\ tok' = tok /\ UNCHANGED <<handed, chal, sess>>
    BY <1>11 DEF LetGo, goes, sHistory, SBaseInv, SBase
  <2>2. tok[p] \in handed
    BY <2>1 DEF HandedOnce, OnSession, OnItsWay
  <2>3. spc'[p] \in OnSession \ OnItsWay
    BY <2>1 DEF OnSession, OnItsWay
  <2>4. QED
    BY <1>1, <2>1, <2>2, <2>3
<1>12. CASE CountAttempt(p) \/ rememberDevice(p) \/ ResetRolledBack(p)
  BY <1>2, <1>12 DEF CountAttempt, rememberDevice, ResetRolledBack, tables, sHistory
<1>13. CASE DenyRevoke(p)
  <2>1. ends(p, "revoke") /\ UNCHANGED <<handed, chal>> /\ sess' = [sess EXCEPT ![tok[p]] = "over"]
    BY <1>13 DEF DenyRevoke, sHistory
  <2>2. \A t \in Tokens : sess'[t] = "none" => sess[t] = "none"
    BY <2>1 DEF SBaseInv, SBase
  <2>3. QED
    BY <1>2, <2>1, <2>2
<1>14. CASE RevokeOthers(p) \/ BanRevoke(p) \/ consumePasswordReset(p)
  <2>1. /\ ends(p, "others") \/ ends(p, "ban") \/ ends(p, "reset")
        /\ UNCHANGED <<handed, chal>>
        /\ sess' = revoked(Tokens) \/ sess' = revoked(Tokens \ {tok[p]})
    BY <1>14 DEF RevokeOthers, BanRevoke, consumePasswordReset, sHistory
  <2>2. \A t \in Tokens : sess'[t] = "none" => sess[t] = "none"
    BY <2>1, RevokedFacts
  <2>3. QED
    BY <1>2, <2>1, <2>2
<1>15. ASSUME NEW r \in Resets, ResetPassword(p, r) PROVE HandedOnce'
  <2>1. spc'[p] = "reset" /\ UNCHANGED <<handed, chal, sess>>
    BY <1>15 DEF ResetPassword, goes, tables, SBaseInv, SBase
  <2>2. QED
    BY <1>1, <2>1 DEF OnSession
<1>16. QED
  BY <1>3, <1>4, <1>5, <1>6, <1>8, <1>9, <1>10, <1>11, <1>12, <1>13, <1>14, <1>15 DEF SHandler

LEMMA HandedInv == SSpec => []HandedOnce
<1>1. SInit => HandedOnce
  BY DEF SInit, HandedOnce, OnItsWay, OnSession
<1>2. SessionsInv /\ HandedOnce /\ [SNext]_svars => HandedOnce'
  <2> SUFFICES ASSUME SessionsInv, HandedOnce, [SNext]_svars PROVE HandedOnce'
    OBVIOUS
  <2>1. ASSUME NEW p \in Reqs, SHandler(p) PROVE HandedOnce'
    BY <2>1, HandedStep DEF SessionsInv
  <2>2. CASE SOther
    <3>1. UNCHANGED <<spc, tok, handed>>
      BY <2>2 DEF SOther, revokeSession, SessionAuthBanned, SessionExpires, ChallengeLapses,
             createPasswordReset, ResetLapses, Unban, sHistory
    <3>2. \A t \in Tokens : sess'[t] = "none" => sess[t] = "none"
      <4>1. (\E t \in Tokens : sess' = revoked({t})) \/ sess' = sess
        BY <2>2 DEF SOther, revokeSession, SessionAuthBanned, SessionExpires, ChallengeLapses,
               createPasswordReset, ResetLapses, Unban
      <4>2. ASSUME NEW u \in Tokens, sess' = revoked({u}), NEW t \in Tokens, sess'[t] = "none"
            PROVE  sess[t] = "none"
        BY <4>2, RevokedFacts DEF SessionsInv
      <4>3. QED
        BY <4>1, <4>2
    <3>3. \A t \in Tokens : chal'[t] # "none" => chal[t] # "none"
      BY <2>2 DEF SOther, revokeSession, SessionAuthBanned, SessionExpires, ChallengeLapses,
             createPasswordReset, ResetLapses, Unban, SessionsInv, SBaseInv, SBase
    <3>4. \A q \in Reqs : spc[q] \in OnItsWay => tok[q] \in Tokens
      BY DEF OnItsWay, OnSession, SessionsInv, SBaseInv, SLocals
    <3>5. handed \subseteq Tokens
      BY DEF SessionsInv, SBaseInv, SBase
    <3>6. QED
      BY <3>1, <3>2, <3>3, <3>4, <3>5 DEF HandedOnce
  <2>3. CASE UNCHANGED svars
    BY <2>3 DEF HandedOnce, svars, tables, sHistory
  <2>4. QED
    BY <2>1, <2>2, <2>3 DEF SNext, SOther
<1>3. QED
  BY <1>1, <1>2, SessionsInvAlways, PTL DEF SSpec


\* What the refinement maps life to, and a step of the abstract specification.
lives == [t \in Tokens |-> lifeOf(t)]
LStep == [Life!Next]_<<lives, approvals>>

LEMMA SameLives ==
    ASSUME \A t \in Tokens : lifeOf(t)' = lifeOf(t), approvals' = approvals
    PROVE  LStep
<1>1. lives' = lives
  BY DEF lives
<1>2. QED
  BY <1>1 DEF LStep

LEMMA HandOutStep ==
    ASSUME HandedOnce, NEW t \in Tokens, t \notin handed, sess[t] # "none", SBaseInv,
           handed' = handed \cup {t}, UNCHANGED <<sess, pending, approvals>>
    PROVE  LStep
<1> DEFINE how == IF sess[t] = "over" THEN "over" ELSE IF t \in pending THEN "held" ELSE "live"
<1>1. lifeOf(t) = "none" /\ lifeOf(t)' = how
  BY DEF lifeOf
<1>2. \A u \in Tokens : u # t => lifeOf(u)' = lifeOf(u)
  BY DEF lifeOf
<1>3. lives[t] = "none" /\ lives' = [lives EXCEPT ![t] = how]
  BY <1>1, <1>2 DEF lives
<1>4. how \in {"held", "live", "over"}
  OBVIOUS
<1> HIDE DEF how
<1>5. Life!HandOut(t, how)
  BY <1>3, <1>4 DEF Life!HandOut, lives
<1>6. QED
  BY <1>4, <1>5 DEF LStep, Life!Next

LEMMA ApproveStep ==
    ASSUME NEW t \in Tokens, approvals' = approvals \cup {t}, UNCHANGED <<sess, pending, handed>>
    PROVE  LStep
<1>1. lives' = lives
  BY DEF lives, lifeOf
<1>2. Life!Approve(t)
  BY <1>1 DEF Life!Approve, lives
<1>3. QED
  BY <1>2 DEF LStep, Life!Next

LEMMA LetGoStep ==
    ASSUME SBaseInv, NEW t \in Tokens, t \in approvals, pending' = pending \ {t},
           UNCHANGED <<sess, handed, approvals>>
    PROVE  LStep
<1>1. \A u \in Tokens : u # t => lifeOf(u)' = lifeOf(u)
  BY DEF lifeOf
<1>2. CASE lifeOf(t) = "held"
  <2>1. lifeOf(t)' = "live"
    BY <1>2 DEF lifeOf
  <2>2. lives[t] = "held" /\ lives' = [lives EXCEPT ![t] = "live"]
    BY <1>1, <1>2, <2>1 DEF lives
  <2>3. Life!LetGo(t)
    BY <2>2 DEF Life!LetGo, lives
  <2>4. QED
    BY <2>3 DEF LStep, Life!Next
<1>3. CASE lifeOf(t) # "held"
  <2>1. lifeOf(t)' = lifeOf(t)
    BY <1>3 DEF lifeOf, SBaseInv, SBase
  <2>2. QED
    BY <1>1, <2>1, SameLives
<1>4. QED
  BY <1>2, <1>3

LEMMA EndStep ==
    ASSUME SBaseInv, NEW S \in SUBSET Tokens, sess' = revoked(S),
           UNCHANGED <<pending, handed, approvals>>
    PROVE  LStep
<1>1. \A t \in Tokens : /\ sess'[t] = IF t \in S /\ sess[t] = "live" THEN "over" ELSE sess[t]
                        /\ sess[t] \in {"none", "live", "over"}
  BY DEF revoked, SBaseInv, SBase
<1>2. \A t \in Tokens : lifeOf(t)' = IF t \in S /\ lifeOf(t) # "none" THEN "over" ELSE lifeOf(t)
  BY <1>1 DEF lifeOf
<1>3. lives' = [t \in Tokens |-> IF t \in S /\ lives[t] # "none" THEN "over" ELSE lives[t]]
  BY <1>2 DEF lives
<1>4. Life!End(S)
  BY <1>3 DEF Life!End, lives
<1>5. QED
  BY <1>4 DEF LStep, Life!Next

LEMMA DenyStep ==
    ASSUME SBaseInv, HandedOnce, NEW p \in Reqs, DenyRevoke(p)
    PROVE  LStep
<1>1. /\ spc[p] = "revoke" /\ tok[p] \in Tokens /\ sess' = [sess EXCEPT ![tok[p]] = "over"]
      /\ UNCHANGED <<pending, handed, approvals>>
  BY DEF DenyRevoke, ends, goes, sHistory, SBaseInv, SLocals, OnSession
<1>2. tok[p] \in handed
  BY <1>1 DEF HandedOnce, OnSession, OnItsWay
<1>3. sess[tok[p]] \in {"live", "over"}
  BY <1>1, <1>2 DEF HandedOnce, SBaseInv, SBase
<1>4. sess' = revoked({tok[p]})
  BY <1>1, <1>3 DEF revoked, SBaseInv, SBase
<1>5. QED
  BY <1>1, <1>4, EndStep

LEMMA LifeStep ==
    ASSUME SessionsInv, HandedOnce, [SNext]_svars
    PROVE  LStep
<1>0. SBaseInv /\ ApprovedFirst
  BY DEF SessionsInv
<1>1. ASSUME UNCHANGED <<sess, pending, handed, approvals>> PROVE LStep
  BY <1>1, SameLives DEF lifeOf
<1>2. CASE UNCHANGED svars
  BY <1>1, <1>2 DEF svars, tables, sHistory
<1>3. CASE SOther
  <2>1. UNCHANGED <<pending, handed, approvals>>
    BY <1>3 DEF SOther, revokeSession, SessionAuthBanned, SessionExpires, ChallengeLapses,
                createPasswordReset, ResetLapses, Unban, sHistory
  <2>2. (\E t \in Tokens : sess' = revoked({t})) \/ sess' = sess
    BY <1>3 DEF SOther, revokeSession, SessionAuthBanned, SessionExpires, ChallengeLapses,
                createPasswordReset, ResetLapses, Unban
  <2>3. QED
    BY <1>0, <1>1, <2>1, <2>2, EndStep
<1>4. ASSUME NEW p \in Reqs, SHandler(p) PROVE LStep
  <2>1. CASE Login(p) \/ Ban(p)
    BY <1>1, <2>1 DEF Login, Ban, tables, sHistory
  <2>2. ASSUME NEW t \in Tokens, issueSessionToken(p, t) PROVE LStep
    <3>1. /\ sess[t] = "none" /\ sess' = [sess EXCEPT ![t] = "live"]
          /\ UNCHANGED <<pending, handed, approvals>>
      BY <2>2 DEF issueSessionToken
    <3>2. t \notin handed
      BY <3>1 DEF HandedOnce
    <3>3. \A u \in Tokens : u # t => sess'[u] = sess[u]
      BY <1>0, <3>1 DEF SBaseInv, SBase
    <3>4. \A u \in Tokens : lifeOf(u)' = lifeOf(u)
      BY <3>1, <3>2, <3>3 DEF lifeOf
    <3>5. QED
      BY <3>1, <3>4, SameLives
  <2>3. ASSUME NEW t \in Tokens, VerifyDevice(p, t) \/ DeviceApprove(p, t) PROVE LStep
    BY <2>3, ApproveStep DEF VerifyDevice, DeviceApprove, tables
  <2>4. ASSUME NEW t \in Tokens, WrongCode(p, t) \/ DeviceDeny(p, t) \/ ChangePassword(p, t) PROVE LStep
    BY <1>1, <2>4 DEF WrongCode, DeviceDeny, ChangePassword, tables, sHistory
  <2>5. ASSUME NEW from \in OnItsWay, ends(p, from), handed' = handed \cup {tok[p]},
               UNCHANGED <<sess, pending, approvals>>
        PROVE  LStep
    <3>1. tok[p] \in Tokens /\ tok[p] \notin handed /\ sess[tok[p]] # "none"
      BY <1>0, <2>5 DEF ends, goes, SBaseInv, SLocals, OnSession, OnItsWay, HandedOnce
    <3>2. QED
      BY <1>0, <2>5, <3>1, HandOutStep
  <2>6. ASSUME NEW fresh \in BOOLEAN, DeviceTrusted(p, fresh) PROVE LStep
    BY <2>5, <2>6 DEF DeviceTrusted, OnItsWay
  <2>7. CASE MarkRefused(p) \/ createDeviceChallenge(p)
    BY <2>5, <2>7 DEF MarkRefused, createDeviceChallenge, tables, OnItsWay
  <2>8. CASE markSessionPendingDevice(p)
    <3>1. /\ spc[p] = "mark" /\ pending' = pending \cup {tok[p]}
          /\ UNCHANGED <<sess, handed, approvals>>
      BY <2>8 DEF markSessionPendingDevice, goes
    <3>2. tok[p] \notin handed
      BY <3>1 DEF HandedOnce, OnItsWay
    <3>3. \A u \in Tokens : lifeOf(u)' = lifeOf(u)
      BY <3>1, <3>2 DEF lifeOf
    <3>4. QED
      BY <3>1, <3>3, SameLives
  <2>9. CASE LetGo(p)
    <3>1. /\ spc[p] = "letgo" /\ pending' = pending \ {tok[p]}
          /\ UNCHANGED <<sess, handed, approvals>>
      BY <2>9 DEF LetGo, goes, sHistory
    <3>2. tok[p] \in Tokens /\ tok[p] \in approvals
      BY <1>0, <3>1 DEF ApprovedFirst, Approving, SBaseInv, SLocals, OnSession
    <3>3. QED
      BY <1>0, <3>1, <3>2, LetGoStep
  <2>10. CASE DenyRevoke(p)
    BY <1>0, <2>10, DenyStep
  <2>11. CASE RevokeOthers(p) \/ BanRevoke(p) \/ consumePasswordReset(p)
    <3>1. /\ sess' = revoked(Tokens) \/ sess' = revoked(Tokens \ {tok[p]})
          /\ UNCHANGED <<pending, handed, approvals>>
      BY <2>11 DEF RevokeOthers, BanRevoke, consumePasswordReset, sHistory
    <3>2. QED
      BY <1>0, <3>1, EndStep
  <2>12. CASE \/ DeviceUnknown(p) \/ CountAttempt(p) \/ Consume(p) \/ rememberDevice(p)
              \/ Deny(p) \/ ResetRolledBack(p)
    BY <1>1, <2>12 DEF DeviceUnknown, CountAttempt, Consume, rememberDevice, Deny, ResetRolledBack,
                       tables, sHistory
  <2>13. ASSUME NEW r \in Resets, ResetPassword(p, r) PROVE LStep
    BY <1>1, <2>13 DEF ResetPassword, tables
  <2>14. QED
    BY <1>4, <2>1, <2>2, <2>3, <2>4, <2>6, <2>7, <2>8, <2>9, <2>10, <2>11, <2>12, <2>13 DEF SHandler
<1>5. QED
  BY <1>2, <1>3, <1>4 DEF SNext, SOther

\* The rows of session_tokens and device_challenges, changed a statement at a
\* time by handlers that overlap, implement the life of a session: held until
\* approved, live, and over for good.
THEOREM SessionsImplementLife == SSpec => SessionsGoForward
<1>1. SInit => Life!Init
  BY DEF SInit, Life!Init, lifeOf
<1>2. SessionsInv /\ HandedOnce /\ [SNext]_svars => LStep
  BY LifeStep
<1>3. QED
  BY <1>1, <1>2, SessionsInvAlways, HandedInv, PTL DEF SSpec, SessionsGoForward, Life!Spec, LStep, lives

-----------------------------------------------------------------------------
(* QR codes. *)

\* The user of a row is the one who was told, and the client sees no other.
QRInv ==
    /\ QTypeOK
    /\ \A p \in Reqs : qpc[p] = "claim" => scanned[p] \in QRTokens \X Approvers
    /\ \A q \in QRTokens, u \in Approvers : <<q, u>> \in toldOK => qrUser[q] = u
    /\ \A q \in QRTokens : qrUser[q] # Nobody => <<q, qrUser[q]>> \in toldOK
    /\ \A q \in QRTokens : seen[q] # Nobody => <<q, seen[q]>> \in toldOK
    /\ promoted \cup linked \subseteq toldOK

LEMMA QRInit == QInit => QRInv
BY DEF QInit, QRInv, QTypeOK

LEMMA ClaimStep ==
    ASSUME QRInv, NEW p \in Reqs, approveQRLogin(p)
    PROVE  QRInv'
<1>1. PICK q \in QRTokens, u \in Approvers : scanned[p] = <<q, u>>
  BY DEF QRInv, approveQRLogin
<1>2. /\ qpc' = [qpc EXCEPT ![p] = "idle"] /\ scanned' = [scanned EXCEPT ![p] = <<>>]
      /\ UNCHANGED <<qrRow, seen, issued, promoted, linked>>
  BY DEF approveQRLogin
<1>3. \A s \in Reqs : qpc'[s] = "claim" => scanned'[s] \in QRTokens \X Approvers
  BY <1>2 DEF QRInv, QTypeOK
<1>4. CASE claimable(q)
  <2>1. /\ qrUser[q] = Nobody /\ qrUser' = [qrUser EXCEPT ![q] = u]
        /\ toldOK' = toldOK \cup {<<q, u>>}
    BY <1>1, <1>4 DEF approveQRLogin, claimable
  <2>2. \A w \in Approvers : <<q, w>> \notin toldOK
    BY <2>1, QRLoginAssumption DEF QRInv
  <2>3. QTypeOK'
    BY <1>2, <2>1 DEF QRInv, QTypeOK
  <2>4. \A s \in QRTokens, w \in Approvers : <<s, w>> \in toldOK' => qrUser'[s] = w
    BY <2>1, <2>2 DEF QRInv, QTypeOK
  <2>5. \A s \in QRTokens : qrUser'[s] # Nobody => <<s, qrUser'[s]>> \in toldOK'
    BY <2>1 DEF QRInv, QTypeOK
  <2>6. QED
    BY <1>2, <1>3, <2>1, <2>3, <2>4, <2>5 DEF QRInv
<1>5. CASE ~claimable(q)
  <2>1. UNCHANGED <<qrUser, toldOK>>
    BY <1>1, <1>5 DEF approveQRLogin
  <2>2. QED
    BY <1>2, <1>3, <2>1 DEF QRInv, QTypeOK
<1>6. QED
  BY <1>4, <1>5

LEMMA QRStep == QRInv /\ [QNext]_qvars => QRInv'
<1> SUFFICES ASSUME QRInv, [QNext]_qvars PROVE QRInv'
  OBVIOUS
<1>1. CASE UNCHANGED qvars
  BY <1>1 DEF QRInv, QTypeOK, qvars
<1>2. ASSUME NEW q \in QRTokens, createQRLogin(q) \/ QRLapses(q) PROVE QRInv'
  BY <1>2 DEF createQRLogin, QRLapses, QRInv, QTypeOK
<1>3. ASSUME NEW q \in QRTokens, checkQRLogin(q) PROVE QRInv'
  BY <1>3 DEF checkQRLogin, QRInv, QTypeOK
<1>4. ASSUME NEW q \in QRTokens, QRPromote(q) \/ LinkCheck(q) PROVE QRInv'
  <2>1. /\ <<q, seen[q]>> \in toldOK /\ <<q, seen[q]>> \in QRTokens \X Approvers
        /\ seen' = [seen EXCEPT ![q] = Nobody]
        /\ UNCHANGED <<qrRow, qrUser, qpc, scanned, issued, toldOK>>
        /\ promoted' \in {promoted, promoted \cup {<<q, seen[q]>>}}
        /\ linked' \in {linked, linked \cup {<<q, seen[q]>>}}
    BY <1>4 DEF QRPromote, LinkCheck, QRInv, QTypeOK
  <2>2. QED
    BY <2>1 DEF QRInv, QTypeOK
<1>5. CASE sweepExpiredQRLoginTokens
  BY <1>5 DEF sweepExpiredQRLoginTokens, QRInv, QTypeOK
<1>6. ASSUME NEW p \in Reqs, NEW q \in QRTokens, NEW u \in Approvers, QRApprove(p, q, u) PROVE QRInv'
  BY <1>6 DEF QRApprove, QRInv, QTypeOK
<1>7. QED
  BY <1>1, <1>2, <1>3, <1>4, <1>5, <1>6, ClaimStep DEF QNext

LEMMA QRInvSafe == QRInv => QRLoginSafe
<1> SUFFICES ASSUME QRInv PROVE QRLoginSafe
  OBVIOUS
<1>1. ASSUME NEW q \in QRTokens PROVE Cardinality({u \in Approvers : <<q, u>> \in toldOK}) <= 1
  <2> DEFINE T == {u \in Approvers : <<q, u>> \in toldOK}
  <2>1. T \subseteq {qrUser[q]}
    BY DEF QRInv
  <2>2. IsFiniteSet({qrUser[q]}) /\ Cardinality({qrUser[q]}) = 1
    BY FS_Singleton
  <2> HIDE DEF T
  <2>3. Cardinality(T) <= 1
    BY <2>1, <2>2, FS_Subset
  <2>4. QED
    BY <2>3 DEF T
<1>2. QED
  BY <1>1 DEF QRInv, QRLoginSafe, OneApprover

\* For any number of users, codes and handlers: at most one user is told that
\* the approval of a code worked, and the client that shows the code is signed
\* in as, or handed a session of, nobody else.
THEOREM QRLoginKept == QSpec => []QRLoginSafe
<1>1. QSpec => []QRInv
  BY QRInit, QRStep, PTL DEF QSpec
<1>2. QED
  BY <1>1, QRInvSafe, PTL

-----------------------------------------------------------------------------
(* The second factor. *)

Rewriting == {"enable", "purge", "insert", "forget"}

\* The types that hold of themselves: the locals are set where they are used.
TBase ==
    /\ secret \in 0..MaxSecrets /\ enabled \in BOOLEAN /\ (enabled => secret # 0)
    /\ backup \subseteq Sets
    /\ usedCodes \in [Secrets -> 0..MaxNow + Guard]
    /\ now \in 1..MaxNow
    /\ tpc \in [Reqs -> {"idle", "enable", "purge", "insert", "forget", "validate"}]
    /\ held \in [Reqs -> 0..MaxSecrets]
    /\ set \in [Reqs -> 0..MaxSets]
    /\ \A p \in Reqs : tpc[p] \in {"enable", "validate"} => held[p] \in Secrets
    /\ \A p \in Reqs : tpc[p] = "insert" => set[p] \in 1..sets
    /\ made \in 0..MaxSecrets /\ sets \in 0..MaxSets
    /\ confirmed \subseteq Secrets
    /\ accepted \in [Secrets -> 0..MaxNow]
    /\ quick \in BOOLEAN
    /\ spent \in [Sets -> Nat]
    /\ mixed \in BOOLEAN

\* A set that is not written yet, or still being written, was used by nobody.
CodesUnspent ==
    /\ \A c \in Sets : spent[c] <= 1
    /\ \A c \in backup : spent[c] = 0 /\ c <= sets
    /\ \A c \in Sets : c > sets => spent[c] = 0
    /\ \A p \in Reqs : tpc[p] = "insert" => spent[set[p]] = 0 /\ set[p] \notin backup
    /\ \A p, q \in Reqs : p # q /\ tpc[p] = "insert" /\ tpc[q] = "insert" => set[p] # set[q]

\* Without an overlap one handler rewrites at a time, and writes the last set.
OneRewriter ==
    ~mixed => /\ backup \subseteq {sets}
              /\ \A p \in Reqs : tpc[p] = "insert" => set[p] = sets
              /\ \A p, q \in Reqs : tpc[p] \in Rewriting /\ tpc[q] \in Rewriting => p = q

\* A code is remembered for as long as taking it again would be quick.
Remembered ==
    /\ ~quick
    /\ \A s \in Secrets : accepted[s] # 0 => \/ usedCodes[s] = accepted[s] + Guard
                                             \/ now > accepted[s] + Guard

TInv == TBase /\ InForceWasConfirmed /\ CodesUnspent /\ OneRewriter /\ Remembered

LEMMA TInvInit == TInit => TInv
<1> SUFFICES ASSUME TInit PROVE TInv
  OBVIOUS
<1>1. TBase
  <2>1. 0 \in 0..MaxSecrets /\ 0 \in 0..MaxSets /\ 0 \in 0..MaxNow /\ 0 \in 0..MaxNow + Guard
    BY SecondFactorAssumption
  <2>2. 1 \in 1..MaxNow
    BY SecondFactorAssumption
  <2>3. QED
    BY <2>1, <2>2 DEF TInit, TBase
<1>2. InForceWasConfirmed /\ OneRewriter /\ Remembered
  BY DEF TInit, InForceWasConfirmed, OneRewriter, Remembered, Rewriting
<1>3. CodesUnspent
  BY DEF TInit, CodesUnspent
<1>4. QED
  BY <1>1, <1>2, <1>3 DEF TInv

\* Steps of handlers but for the acceptance of a code.
LEMMA TAt ==
    ASSUME TBase, NEW p \in Reqs, NEW from, NEW to, at(p, from, to)
    PROVE  /\ tpc[p] = from /\ tpc'[p] = to
           /\ \A q \in Reqs : q # p => tpc'[q] = tpc[q]
           /\ tpc' = [tpc EXCEPT ![p] = to]
BY DEF at, TBase

LEMMA EnableKept == ASSUME TInv, EnableTotp PROVE TInv'
<1>1. /\ made' = made + 1 /\ made < MaxSecrets /\ secret' = made + 1 /\ enabled' = FALSE
      /\ UNCHANGED <<confirmed, backup, sets, spent, usedCodes, now, accepted, quick, tpc, held, set, mixed>>
  BY DEF EnableTotp, codeRows, guard
<1>2. made' \in 0..MaxSecrets /\ secret' \in 0..MaxSecrets
  BY <1>1, SecondFactorAssumption DEF TInv, TBase
<1>3. TBase'
  BY <1>1, <1>2 DEF TInv, TBase
<1>4. QED
  BY <1>1, <1>3 DEF TInv, InForceWasConfirmed, CodesUnspent, OneRewriter, Remembered

LEMMA ConfirmKept == ASSUME TInv, NEW p \in Reqs, ConfirmTotp(p) PROVE TInv'
<1>0. TBase
  BY DEF TInv
<1>1. /\ tpc[p] = "idle" /\ tpc'[p] = "enable" /\ tpc' = [tpc EXCEPT ![p] = "enable"]
      /\ \A q \in Reqs : q # p => tpc'[q] = tpc[q]
      /\ secret # 0 /\ held' = [held EXCEPT ![p] = secret]
      /\ mixed' = (mixed \/ rewriting(p))
      /\ UNCHANGED <<secret, enabled, made, confirmed, backup, sets, spent, usedCodes, now, accepted, quick, set>>
  BY <1>0, TAt DEF ConfirmTotp, columns, codeRows, guard
<1>2. secret \in Secrets
  BY <1>0, <1>1, SecondFactorAssumption DEF TBase, Secrets
<1>3. TBase'
  <2>1. \A q \in Reqs : tpc'[q] \in {"enable", "validate"} => held'[q] \in Secrets
    BY <1>0, <1>1, <1>2 DEF TBase
  <2>2. \A q \in Reqs : tpc'[q] = "insert" => set'[q] \in 1..sets'
    BY <1>0, <1>1 DEF TBase
  <2>3. mixed' \in BOOLEAN
    BY <1>1
  <2>4. QED
    BY <1>0, <1>1, <2>1, <2>2, <2>3 DEF TBase
<1>4. CodesUnspent' /\ InForceWasConfirmed' /\ Remembered'
  BY <1>1 DEF TInv, CodesUnspent, InForceWasConfirmed, Remembered
<1>5. OneRewriter'
  <2> SUFFICES ASSUME ~mixed'
               PROVE  /\ backup \subseteq {sets}
                      /\ \A q \in Reqs : tpc'[q] = "insert" => set[q] = sets
                      /\ \A q, s \in Reqs : tpc'[q] \in Rewriting /\ tpc'[s] \in Rewriting => q = s
    BY <1>1 DEF OneRewriter
  <2>1. ~mixed /\ \A q \in Reqs : q # p => tpc[q] \notin Rewriting
    BY <1>1 DEF rewriting, Rewriting
  <2>2. QED
    BY <1>1, <2>1 DEF TInv, OneRewriter
<1>6. QED
  BY <1>3, <1>4, <1>5 DEF TInv

LEMMA EnableTOTPKept == ASSUME TInv, NEW p \in Reqs, enableTOTP(p) PROVE TInv'
<1>0. TBase
  BY DEF TInv
<1>1. /\ tpc[p] = "enable" /\ tpc'[p] = "purge" /\ tpc' = [tpc EXCEPT ![p] = "purge"]
      /\ \A q \in Reqs : q # p => tpc'[q] = tpc[q]
      /\ secret' = held[p] /\ enabled' = TRUE /\ confirmed' = confirmed \cup {held[p]}
      /\ UNCHANGED <<made, backup, sets, spent, usedCodes, now, accepted, quick, held, set, mixed>>
  BY <1>0, TAt DEF enableTOTP, setSecret, codeRows, guard
<1>2. held[p] \in Secrets /\ held[p] # 0 /\ held[p] \in 0..MaxSecrets
  BY <1>0, <1>1, SecondFactorAssumption DEF TBase, Secrets
<1>3. TBase'
  BY <1>0, <1>1, <1>2 DEF TBase
<1>4. CodesUnspent' /\ InForceWasConfirmed' /\ Remembered'
  BY <1>1 DEF TInv, CodesUnspent, InForceWasConfirmed, Remembered
<1>5. OneRewriter'
  BY <1>1 DEF TInv, OneRewriter, Rewriting
<1>6. QED
  BY <1>3, <1>4, <1>5 DEF TInv

\* Handlers that give up, or a code that is refused, change their place alone.
LEMMA IdleKept ==
    ASSUME TInv, NEW p \in Reqs, ConfirmWrong(p) \/ RefuseCode(p)
    PROVE  TInv'
<1>0. TBase
  BY DEF TInv
<1>1. /\ tpc'[p] = "idle" /\ tpc' = [tpc EXCEPT ![p] = "idle"]
      /\ \A q \in Reqs : q # p => tpc'[q] = tpc[q]
      /\ UNCHANGED <<secret, enabled, made, confirmed, backup, sets, spent, usedCodes, now, accepted, quick,
                     held, set, mixed>>
  BY <1>0, TAt DEF ConfirmWrong, RefuseCode, columns, codeRows, guard
<1>2. TBase'
  BY <1>0, <1>1 DEF TBase
<1>3. CodesUnspent' /\ InForceWasConfirmed' /\ Remembered'
  BY <1>1 DEF TInv, CodesUnspent, InForceWasConfirmed, Remembered
<1>4. OneRewriter'
  BY <1>1 DEF TInv, OneRewriter, Rewriting
<1>5. QED
  BY <1>2, <1>3, <1>4 DEF TInv

LEMMA PurgeKept == ASSUME TInv, NEW p \in Reqs, PurgeBackupCodes(p) PROVE TInv'
<1>0. TBase
  BY DEF TInv
<1>1. /\ tpc[p] = "purge" /\ tpc'[p] = "insert" /\ tpc' = [tpc EXCEPT ![p] = "insert"]
      /\ \A q \in Reqs : q # p => tpc'[q] = tpc[q]
      /\ sets < MaxSets /\ sets' = sets + 1 /\ set' = [set EXCEPT ![p] = sets + 1] /\ backup' = {}
      /\ UNCHANGED <<secret, enabled, made, confirmed, spent, usedCodes, now, accepted, quick, held, mixed>>
  BY <1>0, TAt DEF PurgeBackupCodes, purgeCodes, columns, guard
<1>2. sets + 1 \in Sets /\ sets + 1 \in 0..MaxSets /\ sets \in Nat
  BY <1>0, <1>1, SecondFactorAssumption DEF TBase, Sets
<1>3. set'[p] = sets + 1 /\ \A q \in Reqs : q # p => set'[q] = set[q]
  BY <1>0, <1>1 DEF TBase
<1>4. TBase'
  <2>1. \A q \in Reqs : tpc'[q] = "insert" => set'[q] \in 1..sets'
    BY <1>0, <1>1, <1>2, <1>3 DEF TBase
  <2>2. QED
    BY <1>0, <1>1, <1>2, <2>1 DEF TBase
<1>5. CodesUnspent'
  <2>1. spent[sets + 1] = 0
    BY <1>2 DEF TInv, CodesUnspent
  <2>2. \A q \in Reqs : q # p /\ tpc[q] = "insert" => set[q] \in 1..sets
    BY <1>0 DEF TBase
  <2>3. \A q \in Reqs : tpc'[q] = "insert" => spent[set'[q]] = 0
    BY <1>1, <1>3, <2>1 DEF TInv, CodesUnspent
  <2>4. \A q, s \in Reqs : q # s /\ tpc'[q] = "insert" /\ tpc'[s] = "insert" => set'[q] # set'[s]
    BY <1>1, <1>2, <1>3, <2>2 DEF TInv, CodesUnspent
  <2>5. \A c \in Sets : c > sets' => spent[c] = 0
    BY <1>1, <1>2 DEF TInv, CodesUnspent, Sets
  <2>6. QED
    BY <1>1, <2>3, <2>4, <2>5 DEF TInv, CodesUnspent
<1>6. OneRewriter'
  BY <1>1, <1>3 DEF TInv, OneRewriter, Rewriting
<1>7. InForceWasConfirmed' /\ Remembered'
  BY <1>1 DEF TInv, InForceWasConfirmed, Remembered
<1>8. QED
  BY <1>4, <1>5, <1>6, <1>7 DEF TInv

LEMMA InsertKept == ASSUME TInv, NEW p \in Reqs, InsertBackupCodes(p) PROVE TInv'
<1>0. TBase
  BY DEF TInv
<1>1. /\ tpc[p] = "insert" /\ tpc'[p] = "idle" /\ tpc' = [tpc EXCEPT ![p] = "idle"]
      /\ \A q \in Reqs : q # p => tpc'[q] = tpc[q]
      /\ backup' = backup \cup {set[p]}
      /\ UNCHANGED <<secret, enabled, made, confirmed, sets, spent, usedCodes, now, accepted, quick, held, set, mixed>>
  BY <1>0, TAt DEF InsertBackupCodes, columns, guard
<1>2. set[p] \in Sets /\ set[p] <= sets
  BY <1>0, <1>1, SecondFactorAssumption DEF TBase, Sets
<1>3. TBase'
  BY <1>0, <1>1, <1>2 DEF TBase
<1>4. CodesUnspent'
  BY <1>1, <1>2 DEF TInv, CodesUnspent
<1>5. OneRewriter'
  BY <1>1 DEF TInv, OneRewriter, Rewriting
<1>6. InForceWasConfirmed' /\ Remembered'
  BY <1>1 DEF TInv, InForceWasConfirmed, Remembered
<1>7. QED
  BY <1>3, <1>4, <1>5, <1>6 DEF TInv

LEMMA DisableKept == ASSUME TInv, NEW p \in Reqs, DisableTotp(p) PROVE TInv'
<1>0. TBase
  BY DEF TInv
<1>1. /\ tpc[p] = "idle" /\ tpc'[p] = "forget" /\ tpc' = [tpc EXCEPT ![p] = "forget"]
      /\ \A q \in Reqs : q # p => tpc'[q] = tpc[q]
      /\ secret' = 0 /\ enabled' = FALSE /\ mixed' = (mixed \/ rewriting(p))
      /\ UNCHANGED <<made, confirmed, backup, sets, spent, usedCodes, now, accepted, quick, held, set>>
  BY <1>0, TAt DEF DisableTotp, codeRows, guard
<1>2. 0 \in 0..MaxSecrets /\ mixed' \in BOOLEAN
  BY <1>1, SecondFactorAssumption
<1>3. TBase'
  BY <1>0, <1>1, <1>2 DEF TBase
<1>4. CodesUnspent' /\ InForceWasConfirmed' /\ Remembered'
  BY <1>1 DEF TInv, CodesUnspent, InForceWasConfirmed, Remembered
<1>5. OneRewriter'
  <2> SUFFICES ASSUME ~mixed'
               PROVE  /\ backup \subseteq {sets}
                      /\ \A q \in Reqs : tpc'[q] = "insert" => set[q] = sets
                      /\ \A q, s \in Reqs : tpc'[q] \in Rewriting /\ tpc'[s] \in Rewriting => q = s
    BY <1>1 DEF OneRewriter
  <2>1. ~mixed /\ \A q \in Reqs : q # p => tpc[q] \notin Rewriting
    BY <1>1 DEF rewriting, Rewriting
  <2>2. QED
    BY <1>1, <2>1 DEF TInv, OneRewriter
<1>6. QED
  BY <1>3, <1>4, <1>5 DEF TInv

LEMMA ForgetKept == ASSUME TInv, NEW p \in Reqs, ForgetBackupCodes(p) PROVE TInv'
<1>0. TBase
  BY DEF TInv
<1>1. /\ tpc'[p] = "idle" /\ tpc' = [tpc EXCEPT ![p] = "idle"]
      /\ \A q \in Reqs : q # p => tpc'[q] = tpc[q]
      /\ backup' = {}
      /\ UNCHANGED <<secret, enabled, made, confirmed, sets, spent, usedCodes, now, accepted, quick, held, set, mixed>>
  BY <1>0, TAt DEF ForgetBackupCodes, purgeCodes, columns, guard
<1>2. TBase'
  BY <1>0, <1>1 DEF TBase
<1>3. CodesUnspent' /\ InForceWasConfirmed' /\ Remembered'
  BY <1>1 DEF TInv, CodesUnspent, InForceWasConfirmed, Remembered
<1>4. OneRewriter'
  BY <1>1 DEF TInv, OneRewriter, Rewriting
<1>5. QED
  BY <1>2, <1>3, <1>4 DEF TInv

LEMMA VerifyKept == ASSUME TInv, NEW p \in Reqs, VerifyTotp(p) PROVE TInv'
<1>0. TBase
  BY DEF TInv
<1>1. /\ tpc'[p] = "validate" /\ tpc' = [tpc EXCEPT ![p] = "validate"]
      /\ \A q \in Reqs : q # p => tpc'[q] = tpc[q]
      /\ secret # 0 /\ held' = [held EXCEPT ![p] = secret]
      /\ UNCHANGED <<secret, enabled, made, confirmed, backup, sets, spent, usedCodes, now, accepted, quick, set, mixed>>
  BY <1>0, TAt DEF VerifyTotp, columns, codeRows, guard
<1>2. secret \in Secrets
  BY <1>0, <1>1, SecondFactorAssumption DEF TBase, Secrets
<1>3. TBase'
  <2>1. \A q \in Reqs : tpc'[q] \in {"enable", "validate"} => held'[q] \in Secrets
    BY <1>0, <1>1, <1>2 DEF TBase
  <2>2. QED
    BY <1>0, <1>1, <2>1 DEF TBase
<1>4. CodesUnspent' /\ InForceWasConfirmed' /\ Remembered'
  BY <1>1 DEF TInv, CodesUnspent, InForceWasConfirmed, Remembered
<1>5. OneRewriter'
  BY <1>1 DEF TInv, OneRewriter, Rewriting
<1>6. QED
  BY <1>3, <1>4, <1>5 DEF TInv

LEMMA AcceptKept == ASSUME TInv, NEW p \in Reqs, AcceptCode(p) PROVE TInv'
<1>0. TBase
  BY DEF TInv
<1> DEFINE h == held[p]
<1>1. /\ tpc[p] = "validate" /\ tpc'[p] = "idle" /\ tpc' = [tpc EXCEPT ![p] = "idle"]
      /\ \A q \in Reqs : q # p => tpc'[q] = tpc[q]
      /\ usedCodes[h] = 0 /\ usedCodes' = [usedCodes EXCEPT ![h] = now + Guard]
      /\ quick' = (quick \/ (accepted[h] # 0 /\ now <= accepted[h] + Guard))
      /\ accepted' = [accepted EXCEPT ![h] = now]
      /\ UNCHANGED <<secret, enabled, made, confirmed, backup, sets, spent, now, held, set, mixed>>
  BY <1>0, TAt DEF AcceptCode, columns, codeRows
<1>2. /\ h \in Secrets /\ now \in 1..MaxNow /\ now + Guard \in 0..MaxNow + Guard /\ now \in 0..MaxNow
      /\ Guard \in Nat /\ \A s \in Secrets : accepted[s] \in Nat /\ usedCodes[s] \in Nat
  BY <1>0, <1>1, SecondFactorAssumption DEF TBase
<1> HIDE DEF h
<1>3. ~quick'
  <2>1. ~quick
    BY DEF TInv, Remembered
  <2>2. accepted[h] # 0 => now > accepted[h] + Guard
    BY <1>1, <1>2 DEF TInv, Remembered
  <2>3. ~(accepted[h] # 0 /\ now <= accepted[h] + Guard)
    BY <1>2, <2>2
  <2>4. QED
    BY <1>1, <2>1, <2>3, Zenon
<1>4. TBase'
  BY <1>0, <1>1, <1>2, <1>3 DEF TBase
<1>5. Remembered'
  <2>1. ASSUME NEW s \in Secrets, accepted'[s] # 0
        PROVE  usedCodes'[s] = accepted'[s] + Guard \/ now > accepted'[s] + Guard
    <3>1. CASE s = h
      BY <1>0, <1>1, <1>2, <3>1 DEF TBase
    <3>2. CASE s # h
      <4>1. accepted'[s] = accepted[s] /\ usedCodes'[s] = usedCodes[s]
        BY <1>0, <1>1, <3>2 DEF TBase
      <4>2. QED
        BY <2>1, <4>1 DEF TInv, Remembered
    <3>3. QED
      BY <3>1, <3>2
  <2>2. QED
    BY <1>1, <1>3, <2>1 DEF Remembered
<1>6. CodesUnspent' /\ InForceWasConfirmed'
  BY <1>1 DEF TInv, CodesUnspent, InForceWasConfirmed
<1>7. OneRewriter'
  BY <1>1 DEF TInv, OneRewriter, Rewriting
<1>8. QED
  BY <1>4, <1>5, <1>6, <1>7 DEF TInv

LEMMA ConsumeKept == ASSUME TInv, NEW c \in Sets, consumeBackupCode(c) PROVE TInv'
<1>0. TBase
  BY DEF TInv
<1>1. /\ c \in backup /\ backup' = backup \ {c} /\ spent' = [spent EXCEPT ![c] = spent[c] + 1]
      /\ UNCHANGED <<secret, enabled, made, confirmed, sets, usedCodes, now, accepted, quick, tpc, held, set, mixed>>
  BY DEF consumeBackupCode, unusedCode, columns, guard
<1>2. spent[c] = 0 /\ spent'[c] = 1 /\ \A d \in Sets : d # c => spent'[d] = spent[d]
  BY <1>0, <1>1 DEF TInv, CodesUnspent, TBase
<1>3. spent' \in [Sets -> Nat]
  BY <1>0, <1>1, <1>2 DEF TBase
<1>4. TBase'
  BY <1>0, <1>1, <1>3 DEF TBase
<1>5. CodesUnspent'
  <2>1. c <= sets /\ \A p \in Reqs : tpc[p] = "insert" => set[p] # c /\ set[p] \in Sets
    BY <1>0, <1>1, SecondFactorAssumption DEF TInv, CodesUnspent, TBase, Sets
  <2>2. \A d \in backup' : spent'[d] = 0 /\ d <= sets
    BY <1>0, <1>1, <1>2 DEF TInv, CodesUnspent, TBase
  <2>3. \A d \in Sets : d > sets => spent'[d] = 0
    <3>1. \A d \in Sets : d > sets => d # c
      BY <1>0, <2>1, SecondFactorAssumption DEF Sets, TBase
    <3>2. QED
      BY <1>2, <3>1 DEF TInv, CodesUnspent
  <2>4. \A d \in Sets : spent'[d] <= 1
    BY <1>2 DEF TInv, CodesUnspent
  <2>5. QED
    BY <1>1, <1>2, <2>1, <2>2, <2>3, <2>4 DEF TInv, CodesUnspent
<1>6. OneRewriter' /\ InForceWasConfirmed' /\ Remembered'
  BY <1>1 DEF TInv, OneRewriter, InForceWasConfirmed, Remembered
<1>7. QED
  BY <1>4, <1>5, <1>6 DEF TInv

\* Time passes, and what is forgotten is no longer quick.
LEMMA TimeKept == ASSUME TInv, Later \/ sweepUsedCodes PROVE TInv'
<1>0. TBase
  BY DEF TInv
<1>1. UNCHANGED <<secret, enabled, made, confirmed, backup, sets, spent, accepted, quick, tpc, held, set, mixed>>
  BY DEF Later, sweepUsedCodes, columns, codeRows
<1>2. CodesUnspent' /\ InForceWasConfirmed' /\ OneRewriter'
  BY <1>1 DEF TInv, CodesUnspent, InForceWasConfirmed, OneRewriter
<1>3. \A s \in Secrets : accepted[s] \in Nat /\ usedCodes[s] \in Nat /\ now \in Nat /\ Guard \in Nat
  BY <1>0, SecondFactorAssumption DEF TBase
<1>4. CASE Later
  <2>1. now' = now + 1 /\ now < MaxNow /\ usedCodes' = usedCodes
    BY <1>4 DEF Later
  <2>2. now' \in 1..MaxNow
    BY <1>0, <2>1, SecondFactorAssumption DEF TBase
  <2>3. TBase'
    BY <1>0, <1>1, <2>1, <2>2 DEF TBase
  <2>4. Remembered'
    BY <1>1, <1>3, <2>1 DEF TInv, Remembered
  <2>5. QED
    BY <1>2, <2>3, <2>4 DEF TInv
<1>5. CASE sweepUsedCodes
  <2>1. now' = now /\ usedCodes' = [s \in Secrets |-> IF usedCodes[s] < now THEN 0 ELSE usedCodes[s]]
    BY <1>5 DEF sweepUsedCodes, expired
  <2>2. usedCodes' \in [Secrets -> 0..MaxNow + Guard]
    BY <1>0, <2>1, SecondFactorAssumption DEF TBase
  <2>3. TBase'
    BY <1>0, <1>1, <2>1, <2>2 DEF TBase
  <2>4. Remembered'
    BY <1>1, <1>3, <2>1 DEF TInv, Remembered
  <2>5. QED
    BY <1>2, <2>3, <2>4 DEF TInv
<1>6. QED
  BY <1>4, <1>5

LEMMA TInvStep == TInv /\ [TNext]_tvars => TInv'
<1> SUFFICES ASSUME TInv, [TNext]_tvars PROVE TInv'
  OBVIOUS
<1>1. CASE UNCHANGED tvars
  BY <1>1 DEF tvars, columns, codeRows, guard, TInv, TBase, InForceWasConfirmed, CodesUnspent,
              OneRewriter, Remembered
<1>2. CASE TNext
  BY <1>2, EnableKept, ConfirmKept, EnableTOTPKept, IdleKept, PurgeKept, InsertKept, DisableKept,
     ForgetKept, VerifyKept, AcceptKept, ConsumeKept, TimeKept DEF TNext
<1>3. QED
  BY <1>1, <1>2

LEMMA TInvSafe == TInv => SecondFactorSafe
<1> SUFFICES ASSUME TInv PROVE SecondFactorSafe
  OBVIOUS
<1>1. spent \in [Sets -> 0..2]
  BY DEF TInv, TBase, CodesUnspent
<1>2. TTypeOK
  BY <1>1 DEF TInv, TBase, TTypeOK
<1>3. QED
  BY <1>2 DEF TInv, CodesUnspent, OneRewriter, Remembered, SecondFactorSafe,
              BackupCodesOfLastSet, BackupCodeOnce, NoQuickReplay

\* For any number of handlers, secrets and sets, and any length of the replay
\* guard: the second factor in force is one that was confirmed, backup codes
\* work once each, older sets go with a new enrolment unless two enrolments
\* overlap, and a code is not taken again while it is remembered.
THEOREM SecondFactorKept == TSpec => []SecondFactorSafe
<1>1. TSpec => []TInv
  BY TInvInit, TInvStep, PTL DEF TSpec
<1>2. QED
  BY <1>1, TInvSafe, PTL

-----------------------------------------------------------------------------
(* The failure tracker. *)

\* The labels of handlers that have been let past the look at k and may still
\* count for it.
Past(k) ==
    IF k = "ip" THEN {"user", "password", "token", "signup", "register"}
    ELSE IF k = "user" THEN {"password"}
    ELSE IF k = "totp" THEN {"code"}
    ELSE {"register", "signed"}

past(k) == {p \in Reqs : apc[p] \in Past(k)}

Entries == [count : Nat, first : Nat, last : Nat]

ABase ==
    /\ fails \in [Kinds -> Entries]
    /\ \A k \in Kinds : fails[k].first \in ages(k) /\ fails[k].last <= fails[k].first
    /\ blockedIP \in BOOLEAN
    /\ acct \in {"none", "new", "verified"}
    /\ codes \in 0..MaxCodes /\ vcode \in 0..codes
    /\ apc \in [Reqs -> {"idle", "user", "password", "throttle", "code", "success",
                         "token", "signup", "register", "signed", "resend", "verify"}]
    /\ cleared \subseteq Kinds
    /\ verified \in Nat
    /\ crossedCodes \in BOOLEAN

\* What a counter shows and what is still to be counted stay near the threshold.
CountsNear == \A k \in Kinds : fails[k].count + Cardinality(past(k)) <= Max[k] + Cardinality(Reqs) - 1

\* What a step does to the entries.
LEMMA CountedFacts ==
    ASSUME ABase, NEW k \in Kinds
    PROVE  /\ counted(k) \in Entries
           /\ counted(k).count <= fails[k].count + 1
           /\ counted(k).first \in ages(k) /\ counted(k).last <= counted(k).first
           /\ throttled(k) => /\ counted(k).count >= Max[k] /\ counted(k).first = fails[k].first
<1>1. /\ fails[k] \in Entries /\ fails[k].count \in Nat /\ fails[k].first \in Nat /\ fails[k].last \in Nat
      /\ fails[k].first \in ages(k) /\ Window[k] \in Nat /\ Max[k] \in Nat \ {0}
  BY SignInAssumption DEF ABase, Entries
<1>2. CASE fails[k].count = 0 \/ stale(k)
  <2>1. counted(k) = [count |-> 1, first |-> 0, last |-> 0]
    BY <1>2 DEF counted, NoEntry
  <2>2. ~throttled(k)
    BY <1>1, <1>2 DEF throttled
  <2>3. QED
    BY <1>1, <2>1, <2>2 DEF Entries, ages
<1>3. CASE ~(fails[k].count = 0 \/ stale(k))
  <2>1. counted(k) = [fails[k] EXCEPT !.count = fails[k].count + 1, !.last = 0]
    BY <1>3 DEF counted
  <2>0. PICK c \in Nat, f \in Nat, l \in Nat : fails[k] = [count |-> c, first |-> f, last |-> l]
    BY <1>1 DEF Entries
  <2>a. counted(k) = [count |-> c + 1, first |-> f, last |-> 0]
    <3>1. fails[k].count = c
      BY <2>0
    <3>2. counted(k) = [[count |-> c, first |-> f, last |-> l] EXCEPT !.count = c + 1, !.last = 0]
      BY <2>0, <2>1, <3>1, Zenon
    <3>3. QED
      BY <3>2
  <2>2. /\ counted(k) \in Entries /\ counted(k).count = fails[k].count + 1
        /\ counted(k).first = fails[k].first /\ counted(k).last = 0
    BY <2>0, <2>a DEF Entries
  <2>3. QED
    BY <1>1, <2>2 DEF throttled
<1>4. QED
  BY <1>2, <1>3

LEMMA NoEntryFacts ==
    ASSUME NEW k \in Kinds
    PROVE  NoEntry \in Entries /\ NoEntry.first \in ages(k) /\ NoEntry.last <= NoEntry.first /\ NoEntry.count = 0
BY SignInAssumption DEF NoEntry, Entries, ages

\* The types of the entries, after any of the methods.
Tracked ==
    /\ fails \in [Kinds -> Entries]
    /\ \A k \in Kinds : fails[k].first \in ages(k) /\ fails[k].last <= fails[k].first

LEMMA RecordFacts ==
    ASSUME ABase, NEW K \in SUBSET Kinds, record(K)
    PROVE  /\ Tracked' /\ cleared' = {}
           /\ \A k \in Kinds : /\ k \in K => fails'[k].count <= fails[k].count + 1
                               /\ k \notin K => fails'[k] = fails[k]
                               /\ throttled(k) => throttled(k)'
<1>1. fails' = [k \in Kinds |-> IF k \in K THEN counted(k) ELSE fails[k]] /\ cleared' = {}
  BY DEF record
<1>2. \A k \in Kinds : fails'[k] = IF k \in K THEN counted(k) ELSE fails[k]
  BY <1>1
<1>3. Tracked'
  <2>1. fails' \in [Kinds -> Entries]
    BY <1>1, CountedFacts DEF ABase
  <2>2. \A k \in Kinds : fails'[k].first \in ages(k) /\ fails'[k].last <= fails'[k].first
    BY <1>2, CountedFacts DEF ABase
  <2>3. QED
    BY <2>1, <2>2 DEF Tracked, ages
<1>4. ASSUME NEW k \in Kinds PROVE throttled(k) => throttled(k)'
  BY <1>2, CountedFacts DEF throttled, stale
<1>5. QED
  BY <1>1, <1>2, <1>3, <1>4, CountedFacts

LEMMA ClearFacts ==
    ASSUME ABase, NEW K \in SUBSET Kinds, clear(K)
    PROVE  /\ Tracked' /\ cleared' = K
           /\ \A k \in Kinds : /\ fails'[k].count <= fails[k].count
                               /\ k \notin K => fails'[k] = fails[k]
<1>1. fails' = [k \in Kinds |-> IF k \in K THEN NoEntry ELSE fails[k]] /\ cleared' = K
  BY DEF clear
<1>2. \A k \in Kinds : fails'[k] = IF k \in K THEN NoEntry ELSE fails[k]
  BY <1>1
<1>3. fails' \in [Kinds -> Entries]
  BY <1>1, NoEntryFacts DEF ABase
<1>4. \A k \in Kinds : fails'[k].first \in ages(k) /\ fails'[k].last <= fails'[k].first
  BY <1>2, NoEntryFacts DEF ABase
<1>5. \A k \in Kinds : fails[k].count \in Nat
  BY DEF ABase, Entries
<1>6. QED
  BY <1>1, <1>2, <1>3, <1>4, <1>5, NoEntryFacts DEF Tracked, ages

LEMMA LookFacts ==
    ASSUME ABase, NEW j \in Kinds, look(j)
    PROVE  /\ Tracked' /\ cleared' = {}
           /\ \A k \in Kinds : /\ fails'[k].count <= fails[k].count
                               /\ throttled(k) => fails'[k] = fails[k]
           /\ ~throttled(j) => fails'[j].count < Max[j]
<1>0. /\ \A k \in Kinds : fails[k] \in Entries /\ fails[k].count \in Nat
      /\ Max[j] \in Nat \ {0}
  BY SignInAssumption DEF ABase, Entries
<1>1. CASE stale(j)
  <2>1. fails' = [fails EXCEPT ![j] = NoEntry] /\ cleared' = {}
    BY <1>1 DEF look
  <2>2. fails'[j] = NoEntry /\ \A k \in Kinds : k # j => fails'[k] = fails[k]
    BY <2>1 DEF ABase
  <2>3. fails' \in [Kinds -> Entries]
    BY <2>1, NoEntryFacts DEF ABase
  <2>4. \A k \in Kinds : fails'[k].first \in ages(k) /\ fails'[k].last <= fails'[k].first
    BY <2>2, NoEntryFacts DEF ABase
  <2>5. ~throttled(j)
    BY <1>1 DEF throttled
  <2>6. QED
    BY <1>0, <2>1, <2>2, <2>3, <2>4, <2>5, NoEntryFacts DEF Tracked, ages
<1>2. CASE ~stale(j)
  <2>1. fails' = fails /\ cleared' = {}
    BY <1>2 DEF look
  <2>2. ~throttled(j) => fails[j].count < Max[j]
    BY <1>0, <1>2 DEF throttled
  <2>3. QED
    BY <1>0, <2>1, <2>2 DEF Tracked, ABase, ages
<1>3. QED
  BY <1>1, <1>2

\* Time, and the sweep: a lock is over by its window and by nothing else.
LEMMA TimeFacts ==
    ASSUME ABase, Tick \/ sweepAuthTracker
    PROVE  /\ Tracked' /\ cleared' = {}
           /\ \A k \in Kinds : /\ fails'[k].count <= fails[k].count
                               /\ throttled(k) => throttled(k)' \/ stale(k)'
<1>0. \A k \in Kinds : /\ fails[k] \in Entries /\ fails[k].count \in Nat
                       /\ fails[k].first \in Nat /\ fails[k].last \in Nat
                       /\ fails[k].first \in ages(k) /\ fails[k].last <= fails[k].first
                       /\ Window[k] \in Nat
  BY SignInAssumption DEF ABase, Entries
<1>1. CASE Tick
  <2>1. /\ cleared' = {}
        /\ fails' = [k \in Kinds |->
                    IF fails[k].count = 0 \/ fails[k].first > Window[k] THEN fails[k]
                    ELSE [fails[k] EXCEPT !.first = fails[k].first + 1, !.last = fails[k].last + 1]]
    BY <1>1 DEF Tick
  <2>2. ASSUME NEW k \in Kinds
        PROVE  /\ fails'[k] \in Entries /\ fails'[k].count = fails[k].count
               /\ fails'[k].first \in ages(k) /\ fails'[k].last <= fails'[k].first
    <3>1. CASE fails[k].count = 0 \/ fails[k].first > Window[k]
      BY <1>0, <2>1, <3>1
    <3>2. CASE ~(fails[k].count = 0 \/ fails[k].first > Window[k])
      <4>1. fails'[k] = [fails[k] EXCEPT !.first = fails[k].first + 1, !.last = fails[k].last + 1]
        BY <2>1, <3>2
      <4>0. PICK c \in Nat, f \in Nat, l \in Nat : fails[k] = [count |-> c, first |-> f, last |-> l]
        BY <1>0 DEF Entries
      <4>a. fails'[k] = [count |-> c, first |-> f + 1, last |-> l + 1]
        <5>1. fails[k].first = f /\ fails[k].last = l
          BY <4>0
        <5>2. fails'[k] = [[count |-> c, first |-> f, last |-> l] EXCEPT !.first = f + 1, !.last = l + 1]
          BY <4>0, <4>1, <5>1, Zenon
        <5>3. QED
          BY <5>2
      <4>2. /\ fails'[k] \in Entries /\ fails'[k].count = fails[k].count
            /\ fails'[k].first = fails[k].first + 1 /\ fails'[k].last = fails[k].last + 1
        BY <4>0, <4>a DEF Entries
      <4>3. QED
        BY <1>0, <3>2, <4>2 DEF ages
    <3>3. QED
      BY <3>1, <3>2
  <2>3. fails' \in [Kinds -> Entries]
    BY <2>1, <2>2
  <2>4. \A k \in Kinds : throttled(k) => throttled(k)' \/ stale(k)'
    BY <1>0, <2>2 DEF throttled, stale
  <2>5. \A k \in Kinds : fails'[k].count <= fails[k].count
    BY <1>0, <2>2
  <2>6. Tracked'
    BY <2>2, <2>3 DEF Tracked, ages
  <2>7. QED
    BY <2>1, <2>4, <2>5, <2>6
<1>2. CASE sweepAuthTracker
  <2>1. /\ cleared' = {}
        /\ fails' = [k \in Kinds |-> IF idleTooLong(k) THEN NoEntry ELSE fails[k]]
    BY <1>2 DEF sweepAuthTracker
  <2>2. ASSUME NEW k \in Kinds
        PROVE  /\ fails'[k] \in Entries /\ fails'[k].count <= fails[k].count
               /\ fails'[k].first \in ages(k) /\ fails'[k].last <= fails'[k].first
               /\ throttled(k) => fails'[k] = fails[k]
    <3>1. throttled(k) => ~idleTooLong(k)
      BY <1>0 DEF throttled, stale, idleTooLong
    <3>2. QED
      BY <1>0, <2>1, <3>1, NoEntryFacts
  <2>3. fails' \in [Kinds -> Entries]
    BY <2>1, <2>2
  <2>4. QED
    BY <2>1, <2>2, <2>3 DEF Tracked, ages, throttled, stale
<1>3. QED
  BY <1>1, <1>2


LEMMA MovesFacts ==
    ASSUME ABase, NEW p \in Reqs, NEW from, NEW to, moves(p, from, to)
    PROVE  /\ apc[p] = from /\ apc'[p] = to /\ apc' = [apc EXCEPT ![p] = to]
           /\ \A q \in Reqs : q # p => apc'[q] = apc[q]
BY DEF moves, ABase

LEMMA PastFinite ==
    /\ Cardinality(Reqs) \in Nat
    /\ \A k \in Kinds : IsFiniteSet(past(k)) /\ Cardinality(past(k)) \in Nat /\ Cardinality(past(k)) <= Cardinality(Reqs)
<1>1. \A k \in Kinds : past(k) \subseteq Reqs
  BY DEF past
<1>2. QED
  BY <1>1, RequestsAssumption, FS_Subset, FS_CardinalityType

\* A handler counts what it was let past for, or is let past a counter that is
\* below its threshold.
LEMMA NearKept ==
    ASSUME ABase, CountsNear, NEW p \in Reqs,
           \A q \in Reqs : q # p => apc'[q] = apc[q],
           \A k \in Kinds :
               /\ fails'[k].count \in Nat
               /\ \/ fails'[k].count <= fails[k].count /\ (apc'[p] \in Past(k) => apc[p] \in Past(k))
                  \/ fails'[k].count <= fails[k].count + 1 /\ apc[p] \in Past(k) /\ apc'[p] \notin Past(k)
                  \/ fails'[k].count < Max[k]
    PROVE  CountsNear'
<1> SUFFICES ASSUME NEW k \in Kinds
             PROVE  fails'[k].count + Cardinality(past(k)') <= Max[k] + Cardinality(Reqs) - 1
  BY DEF CountsNear
<1>0. /\ fails'[k].count \in Nat /\ fails[k].count \in Nat /\ Max[k] \in Nat \ {0}
      /\ Cardinality(Reqs) \in Nat /\ Cardinality(past(k)) \in Nat /\ IsFiniteSet(past(k))
      /\ fails[k].count + Cardinality(past(k)) <= Max[k] + Cardinality(Reqs) - 1
  BY PastFinite, SignInAssumption DEF ABase, Entries, CountsNear
<1>1. past(k)' \subseteq Reqs
  BY DEF past
<1>2. Cardinality(past(k)') \in Nat /\ Cardinality(past(k)') <= Cardinality(Reqs)
  BY <1>1, RequestsAssumption, FS_Subset, FS_CardinalityType
<1>3. CASE fails'[k].count <= fails[k].count /\ (apc'[p] \in Past(k) => apc[p] \in Past(k))
  <2>1. past(k)' \subseteq past(k)
    BY <1>3 DEF past, Past
  <2>2. Cardinality(past(k)') <= Cardinality(past(k))
    BY <1>0, <2>1, FS_Subset
  <2>3. QED
    BY <1>0, <1>2, <1>3, <2>2
<1>4. CASE fails'[k].count <= fails[k].count + 1 /\ apc[p] \in Past(k) /\ apc'[p] \notin Past(k)
  <2>1. past(k)' = past(k) \ {p} /\ p \in past(k)
    BY <1>4 DEF past, Past
  <2>2. Cardinality(past(k)') = Cardinality(past(k)) - 1
    BY <1>0, <2>1, FS_RemoveElement
  <2>3. QED
    BY <1>0, <1>2, <1>4, <2>2
<1>5. CASE fails'[k].count < Max[k]
  BY <1>0, <1>2, <1>5
<1>6. QED
  BY <1>3, <1>4, <1>5

\* The shape of every step: what it does to the entries, and to its handler.
Labels == {"idle", "user", "password", "throttle", "code", "success",
           "token", "signup", "register", "signed", "resend", "verify"}

ASafe == ABase /\ CountsNear

LEMMA GateKept ==
    ASSUME ASafe, NEW p \in Reqs, NEW k \in Kinds, NEW from \in Labels, NEW to \in Labels, gate(p, k, from, to),
           blockedIP' \in BOOLEAN,
           \A j \in Kinds : j # k /\ to \in Past(j) => from \in Past(j)
    PROVE  /\ ASafe'
           /\ \A j \in Kinds : throttled(j) => throttled(j)' \/ stale(j)' \/ j \in cleared'
<1>0. ABase
  BY DEF ASafe
<1>1. look(k) /\ UNCHANGED account
  BY DEF gate
<1>2. PICK label \in {"idle", to} : moves(p, from, label) /\ (label # "idle" => ~throttled(k))
  BY DEF gate
<1>3. /\ apc[p] = from /\ apc'[p] = label /\ apc' = [apc EXCEPT ![p] = label]
      /\ \A q \in Reqs : q # p => apc'[q] = apc[q]
  BY <1>0, <1>2, MovesFacts
<1>4. Tracked' /\ cleared' = {}
  BY <1>0, <1>1, LookFacts
<1>5. ABase'
  BY <1>0, <1>1, <1>3, <1>4 DEF ABase, Tracked, account, Labels
<1>6. CountsNear'
  <2>1. \A j \in Kinds : fails'[j].count \in Nat /\ fails'[j].count <= fails[j].count
    BY <1>0, <1>1, <1>4, LookFacts DEF Tracked, Entries
  <2>2. ~throttled(k) => fails'[k].count < Max[k]
    BY <1>0, <1>1, LookFacts
  <2>3. \A j \in Kinds : "idle" \notin Past(j)
    BY DEF Past
  <2>4. \A j \in Kinds : \/ apc'[p] \in Past(j) => apc[p] \in Past(j)
                         \/ fails'[j].count < Max[j]
    BY <1>2, <1>3, <2>2, <2>3
  <2>5. QED
    BY <1>0, <1>3, <2>1, <2>4, NearKept DEF ASafe
<1>7. \A j \in Kinds : throttled(j) => throttled(j)'
  <2>1. \A j \in Kinds : throttled(j) => fails'[j] = fails[j]
    BY <1>0, <1>1, LookFacts
  <2>2. QED
    BY <2>1 DEF throttled, stale
<1>8. QED
  BY <1>5, <1>6, <1>7 DEF ASafe

LEMMA RecordKept ==
    ASSUME ASafe, NEW p \in Reqs, NEW K \in SUBSET Kinds, NEW from, moves(p, from, "idle"), record(K),
           UNCHANGED <<account, blockedIP>>,
           \A k \in K : from \in Past(k)
    PROVE  /\ ASafe'
           /\ \A j \in Kinds : throttled(j) => throttled(j)' \/ stale(j)' \/ j \in cleared'
<1>0. ABase
  BY DEF ASafe
<1>1. /\ apc[p] = from /\ apc'[p] = "idle" /\ apc' = [apc EXCEPT ![p] = "idle"]
      /\ \A q \in Reqs : q # p => apc'[q] = apc[q]
  BY <1>0, MovesFacts
<1>2. Tracked' /\ cleared' = {}
  BY <1>0, RecordFacts
<1>3. ABase'
  BY <1>0, <1>1, <1>2 DEF ABase, Tracked, account
<1>4. CountsNear'
  <2>1. \A j \in Kinds : fails'[j].count \in Nat /\ fails[j].count \in Nat
    BY <1>0, <1>2 DEF Tracked, Entries, ABase
  <2>2. \A j \in Kinds : "idle" \notin Past(j)
    BY DEF Past
  <2>3. \A j \in Kinds : /\ j \in K => fails'[j].count <= fails[j].count + 1
                         /\ j \notin K => fails'[j].count = fails[j].count
    BY <1>0, RecordFacts
  <2>4. QED
    BY <1>0, <1>1, <2>1, <2>2, <2>3, NearKept DEF ASafe
<1>5. \A j \in Kinds : throttled(j) => throttled(j)'
  BY <1>0, RecordFacts
<1>6. QED
  BY <1>3, <1>4, <1>5 DEF ASafe

LEMMA ClearKept ==
    ASSUME ASafe, NEW p \in Reqs, NEW K \in SUBSET Kinds, NEW from, NEW to \in Labels, moves(p, from, to), clear(K),
           UNCHANGED <<account, blockedIP>>,
           \A k \in Kinds : to \in Past(k) => from \in Past(k)
    PROVE  /\ ASafe'
           /\ \A j \in Kinds : throttled(j) => throttled(j)' \/ stale(j)' \/ j \in cleared'
<1>0. ABase
  BY DEF ASafe
<1>1. /\ apc[p] = from /\ apc'[p] = to /\ apc' = [apc EXCEPT ![p] = to]
      /\ \A q \in Reqs : q # p => apc'[q] = apc[q]
  BY <1>0, MovesFacts
<1>2. /\ Tracked' /\ cleared' = K
      /\ \A k \in Kinds : fails'[k].count <= fails[k].count /\ (k \notin K => fails'[k] = fails[k])
  BY <1>0, ClearFacts
<1>3. ABase'
  BY <1>0, <1>1, <1>2 DEF ABase, Tracked, account, Labels
<1>4. CountsNear'
  <2>1. \A j \in Kinds : fails'[j].count \in Nat
    BY <1>2 DEF Tracked, Entries
  <2>2. QED
    BY <1>0, <1>1, <1>2, <2>1, NearKept DEF ASafe
<1>5. \A j \in Kinds : throttled(j) => throttled(j)' \/ j \in cleared'
  BY <1>2 DEF throttled, stale
<1>6. QED
  BY <1>3, <1>4, <1>5 DEF ASafe

\* A step that touches no entry.
LEMMA EntriesAlone ==
    ASSUME ASafe, NEW p \in Reqs, NEW from, NEW to \in Labels, moves(p, from, to),
           fails' = fails, cleared' = {}, blockedIP' = blockedIP,
           acct' \in {"none", "new", "verified"}, codes' \in 0..MaxCodes, vcode' \in 0..codes',
           verified' \in Nat, crossedCodes' \in BOOLEAN,
           \A k \in Kinds : to \in Past(k) => from \in Past(k)
    PROVE  /\ ASafe'
           /\ \A j \in Kinds : throttled(j) => throttled(j)' \/ stale(j)' \/ j \in cleared'
<1>0. ABase
  BY DEF ASafe
<1>1. /\ apc[p] = from /\ apc'[p] = to /\ apc' = [apc EXCEPT ![p] = to]
      /\ \A q \in Reqs : q # p => apc'[q] = apc[q]
  BY <1>0, MovesFacts
<1>2. ABase'
  BY <1>0, <1>1 DEF ABase, ages, Labels
<1>3. CountsNear'
  <2>1. \A j \in Kinds : fails'[j].count \in Nat /\ fails'[j].count <= fails[j].count
    BY <1>0 DEF ABase, Entries
  <2>2. QED
    BY <1>0, <1>1, <2>1, NearKept DEF ASafe
<1>4. \A j \in Kinds : throttled(j) => throttled(j)'
  BY DEF throttled, stale
<1>5. QED
  BY <1>2, <1>3, <1>4 DEF ASafe

LEMMA ASafeHandler ==
    ASSUME ASafe, NEW p \in Reqs, AHandler(p)
    PROVE  /\ ASafe'
           /\ \A j \in Kinds : throttled(j) => throttled(j)' \/ stale(j)' \/ j \in cleared'
<1> DEFINE Goal == /\ ASafe'
                   /\ \A j \in Kinds : throttled(j) => throttled(j)' \/ stale(j)' \/ j \in cleared'
<1>0. ABase /\ codes \in 0..MaxCodes /\ MaxCodes \in Nat
  BY SignInAssumption DEF ASafe, ABase
<1>1. ASSUME NEW to \in {"user", "token", "signup"}, Begin(p, to) PROVE Goal
  <2>1. gate(p, "ip", "idle", to) /\ blockedIP' \in BOOLEAN
    BY <1>0, <1>1 DEF Begin, autoBlock, ABase
  <2>2. "ip" \in Kinds /\ "idle" \in Labels /\ to \in Labels /\ \A j \in Kinds : j # "ip" => to \notin Past(j)
    BY DEF Kinds, Labels, Past
  <2>3. QED
    BY <2>1, <2>2, GateKept
<1>2. CASE Locked(p)
  <2>1. gate(p, "user", "user", "password") /\ blockedIP' \in BOOLEAN
    BY <1>0, <1>2 DEF Locked, ABase
  <2>2. /\ "user" \in Kinds /\ "user" \in Labels /\ "password" \in Labels
        /\ \A j \in Kinds : j # "user" /\ "password" \in Past(j) => "user" \in Past(j)
    BY DEF Kinds, Labels, Past
  <2>3. QED
    BY <2>1, <2>2, GateKept
<1>3. CASE Throttled(p)
  <2>1. gate(p, "totp", "throttle", "code") /\ blockedIP' \in BOOLEAN
    BY <1>0, <1>3 DEF Throttled, ABase
  <2>2. /\ "totp" \in Kinds /\ "throttle" \in Labels /\ "code" \in Labels
        /\ \A j \in Kinds : j # "totp" => "code" \notin Past(j)
    BY DEF Kinds, Labels, Past
  <2>3. QED
    BY <2>1, <2>2, GateKept
<1>4. CASE SignupAllowed(p)
  <2>1. gate(p, "signup", "signup", "register") /\ blockedIP' \in BOOLEAN
    BY <1>0, <1>4 DEF SignupAllowed, ABase
  <2>2. /\ "signup" \in Kinds /\ "signup" \in Labels /\ "register" \in Labels
        /\ \A j \in Kinds : j # "signup" /\ "register" \in Past(j) => "signup" \in Past(j)
    BY DEF Kinds, Labels, Past
  <2>3. QED
    BY <2>1, <2>2, GateKept
<1>5. CASE WrongPassword(p) \/ WrongCodeGiven(p) \/ BadToken(p) \/ RegisterFailed(p) \/ RecordSignup(p)
  <2>1. PICK from \in Labels, K \in SUBSET Kinds :
            /\ moves(p, from, "idle") /\ record(K) /\ UNCHANGED <<account, blockedIP>>
            /\ \A k \in K : from \in Past(k)
    <3>1. CASE WrongPassword(p)
      <4>1. /\ "password" \in Labels /\ {"ip", "user"} \in SUBSET Kinds
            /\ \A k \in {"ip", "user"} : "password" \in Past(k)
        BY DEF Labels, Kinds, Past
      <4>2. QED
        BY <3>1, <4>1 DEF WrongPassword
    <3>2. CASE WrongCodeGiven(p)
      <4>1. "code" \in Labels /\ {"totp"} \in SUBSET Kinds /\ \A k \in {"totp"} : "code" \in Past(k)
        BY DEF Labels, Kinds, Past
      <4>2. QED
        BY <3>2, <4>1 DEF WrongCodeGiven
    <3>3. CASE BadToken(p)
      <4>1. "token" \in Labels /\ {"ip"} \in SUBSET Kinds /\ \A k \in {"ip"} : "token" \in Past(k)
        BY DEF Labels, Kinds, Past
      <4>2. QED
        BY <3>3, <4>1 DEF BadToken
    <3>4. CASE RegisterFailed(p)
      <4>1. "register" \in Labels /\ {"ip"} \in SUBSET Kinds /\ \A k \in {"ip"} : "register" \in Past(k)
        BY DEF Labels, Kinds, Past
      <4>2. QED
        BY <3>4, <4>1 DEF RegisterFailed
    <3>5. CASE RecordSignup(p)
      <4>1. "signed" \in Labels /\ {"signup"} \in SUBSET Kinds /\ \A k \in {"signup"} : "signed" \in Past(k)
        BY DEF Labels, Kinds, Past
      <4>2. QED
        BY <3>5, <4>1 DEF RecordSignup
    <3>6. QED
      BY <1>5, <3>1, <3>2, <3>3, <3>4, <3>5
  <2>2. QED
    BY <2>1, RecordKept
<1>6. CASE RightCodeGiven(p) \/ Success(p) \/ GoodToken(p)
  <2>1. /\ {"totp"} \in SUBSET Kinds /\ {"ip", "user"} \in SUBSET Kinds
        /\ "success" \in Labels /\ "idle" \in Labels
        /\ \A k \in Kinds : "success" \notin Past(k) /\ "idle" \notin Past(k)
    BY DEF Labels, Kinds, Past
  <2>2. /\ UNCHANGED <<account, blockedIP>>
        /\ \/ moves(p, "code", "success") /\ clear({"totp"})
           \/ moves(p, "success", "idle") /\ clear({"ip", "user"})
           \/ moves(p, "token", "idle") /\ clear({"ip", "user"})
    BY <1>6 DEF RightCodeGiven, Success, GoodToken
  <2>3. QED
    BY <2>1, <2>2, ClearKept
<1>7. CASE RightPassword(p) \/ Suspended(p) \/ SignupRefused(p) \/ ResendVerification(p) \/ VerifyEmail(p)
  <2>1. /\ "throttle" \in Labels /\ "idle" \in Labels /\ "resend" \in Labels /\ "verify" \in Labels
        /\ \A k \in Kinds : {"throttle", "idle", "resend", "verify"} \cap Past(k) = {}
    BY DEF Labels, Kinds, Past
  <2>2. /\ fails' = fails /\ cleared' = {} /\ blockedIP' = blockedIP /\ UNCHANGED account
        /\ \/ moves(p, "password", "throttle") \/ moves(p, "password", "idle") \/ moves(p, "register", "idle")
           \/ moves(p, "idle", "resend") \/ moves(p, "idle", "verify")
    BY <1>7 DEF RightPassword, Suspended, SignupRefused, ResendVerification, VerifyEmail
  <2>3. /\ acct' \in {"none", "new", "verified"} /\ codes' \in 0..MaxCodes /\ vcode' \in 0..codes'
        /\ verified' \in Nat /\ crossedCodes' \in BOOLEAN
    BY <1>0, <2>2 DEF account, ABase
  <2>4. QED
    BY <2>1, <2>2, <2>3, EntriesAlone
<1>8. CASE registerUser(p) \/ ResendCode(p)
  <2>1. /\ "signed" \in Labels /\ "idle" \in Labels
        /\ \A k \in Kinds : /\ "idle" \notin Past(k)
                            /\ "signed" \in Past(k) => "register" \in Past(k)
    BY DEF Labels, Kinds, Past
  <2>2. /\ fails' = fails /\ cleared' = {} /\ blockedIP' = blockedIP
        /\ moves(p, "register", "signed") \/ moves(p, "resend", "idle")
        /\ codes < MaxCodes /\ codes' = codes + 1 /\ vcode' = codes'
        /\ acct' \in {acct, "new"} /\ UNCHANGED <<verified, crossedCodes>>
    BY <1>8 DEF registerUser, ResendCode, newCode
  <2>3. /\ acct' \in {"none", "new", "verified"} /\ codes' \in 0..MaxCodes /\ vcode' \in 0..codes'
        /\ verified' \in Nat /\ crossedCodes' \in BOOLEAN
    BY <1>0, <2>2 DEF ABase
  <2>4. QED
    BY <2>1, <2>2, <2>3, EntriesAlone
<1>9. CASE verifyUser(p)
  <2>1. "idle" \in Labels /\ \A k \in Kinds : "idle" \notin Past(k)
    BY DEF Labels, Kinds, Past
  <2>2. /\ fails' = fails /\ cleared' = {} /\ blockedIP' = blockedIP /\ moves(p, "verify", "idle")
        /\ acct' = "verified" /\ vcode' = 0 /\ codes' = codes /\ verified' = verified + 1
        /\ crossedCodes' \in BOOLEAN
    BY <1>9 DEF verifyUser
  <2>3. /\ acct' \in {"none", "new", "verified"} /\ codes' \in 0..MaxCodes /\ vcode' \in 0..codes'
        /\ verified' \in Nat
    BY <1>0, <2>2 DEF ABase
  <2>4. QED
    BY <2>1, <2>2, <2>3, EntriesAlone
<1>10. QED
  BY <1>1, <1>2, <1>3, <1>4, <1>5, <1>6, <1>7, <1>8, <1>9 DEF AHandler

LEMMA ASafeTime ==
    ASSUME ASafe, Tick \/ sweepAuthTracker
    PROVE  /\ ASafe'
           /\ \A j \in Kinds : throttled(j) => throttled(j)' \/ stale(j)' \/ j \in cleared'
<1>1. ABase /\ UNCHANGED <<acct, vcode, codes, verified, crossedCodes, blockedIP, apc>>
  BY DEF ASafe, Tick, sweepAuthTracker, account
<1>2. /\ Tracked' /\ cleared' = {}
      /\ \A k \in Kinds : /\ fails'[k].count <= fails[k].count
                          /\ throttled(k) => throttled(k)' \/ stale(k)'
  BY <1>1, TimeFacts
<1>3. ABase'
  BY <1>1, <1>2 DEF ABase, Tracked
<1>4. CountsNear'
  <2> SUFFICES ASSUME NEW k \in Kinds
               PROVE  fails'[k].count + Cardinality(past(k)') <= Max[k] + Cardinality(Reqs) - 1
    BY DEF CountsNear
  <2>1. past(k)' = past(k)
    BY <1>1 DEF past, Past
  <2>2. /\ fails[k].count + Cardinality(past(k)) <= Max[k] + Cardinality(Reqs) - 1
        /\ fails[k].count \in Nat /\ fails'[k].count \in Nat
        /\ Max[k] \in Nat /\ Cardinality(Reqs) \in Nat /\ Cardinality(past(k)) \in Nat
    BY <1>1, <1>3, PastFinite, SignInAssumption DEF ASafe, CountsNear, ABase, Entries
  <2>3. fails'[k].count <= fails[k].count
    BY <1>2
  <2>4. QED
    BY <2>1, <2>2, <2>3
<1>5. QED
  BY <1>2, <1>3, <1>4 DEF ASafe

LEMMA ASafeStep ==
    ASSUME ASafe, [ANext]_avars
    PROVE  /\ ASafe'
           /\ ANext => \A j \in Kinds : throttled(j) => throttled(j)' \/ stale(j)' \/ j \in cleared'
<1>1. CASE \E p \in Reqs : AHandler(p)
  BY <1>1, ASafeHandler
<1>2. CASE Tick \/ sweepAuthTracker
  BY <1>2, ASafeTime
<1>3. CASE UNCHANGED avars
  <2>1. ASafe'
    BY <1>3 DEF ASafe, ABase, CountsNear, past, Past, ages, avars
  <2>2. \A j \in Kinds : throttled(j) => throttled(j)'
    BY <1>3 DEF throttled, stale, avars
  <2>3. QED
    BY <2>1, <2>2
<1>4. QED
  BY <1>1, <1>2, <1>3 DEF ANext

LEMMA ASafeInit == AInit => ASafe
<1> SUFFICES ASSUME AInit PROVE ASafe
  OBVIOUS
<1>1. ABase
  <2>1. \A k \in Kinds : /\ fails[k] = NoEntry /\ fails[k] \in Entries
                         /\ fails[k].first \in ages(k) /\ fails[k].last <= fails[k].first
    BY NoEntryFacts DEF AInit
  <2>2. fails \in [Kinds -> Entries]
    BY <2>1 DEF AInit
  <2>3. /\ apc \in [Reqs -> Labels] /\ codes \in 0..MaxCodes /\ vcode \in 0..codes /\ verified \in Nat
    BY SignInAssumption DEF AInit, Labels
  <2>4. /\ acct \in {"none", "new", "verified"} /\ cleared \subseteq Kinds
        /\ blockedIP \in BOOLEAN /\ crossedCodes \in BOOLEAN
    BY DEF AInit
  <2>5. QED
    BY <2>1, <2>2, <2>3, <2>4, Zenon DEF ABase, Labels
<1>2. CountsNear
  <2> SUFFICES ASSUME NEW k \in Kinds
               PROVE  fails[k].count + Cardinality(past(k)) <= Max[k] + Cardinality(Reqs) - 1
    BY DEF CountsNear
  <2>1. fails[k].count = 0 /\ Max[k] \in Nat \ {0}
    BY NoEntryFacts, SignInAssumption DEF AInit
  <2>2. QED
    BY <2>1, PastFinite
<1>3. QED
  BY <1>1, <1>2 DEF ASafe

LEMMA ASafeAlways == ASpec => []ASafe
<1>1. ASafe /\ [ANext]_avars => ASafe'
  BY ASafeStep
<1>2. QED
  BY <1>1, ASafeInit, PTL DEF ASpec

\* A key that has reached its threshold stays refused until its window is over
\* or a success clears it, however many handlers work at once.
THEOREM LocksHold == ASpec => LockHolds
<1> DEFINE Step == \A k \in Kinds : throttled(k) => throttled(k)' \/ stale(k)' \/ k \in cleared'
<1>1. ASafe /\ [ANext]_avars => [Step]_avars
  BY ASafeStep
<1>2. QED
  BY <1>1, ASafeAlways, PTL DEF ASpec, LockHolds

-----------------------------------------------------------------------------
(* verify_email. *)

verifying == {p \in Reqs : apc[p] = "verify"}

\* Every verification uses a code that was made, and a code serves each handler
\* at most once.
CodesServe ==
    /\ vcode # 0 => verified <= (codes - 1) * Cardinality(Reqs)
    /\ verified + Cardinality(verifying) <= codes * Cardinality(Reqs)

\* After a verification that met no other, nothing is left to verify again.
NoneLeft ==
    ~crossedCodes /\ verified >= 1 =>
        /\ acct = "verified" /\ vcode = 0 /\ verified = 1
        /\ \A q \in Reqs : apc[q] \notin {"verify", "resend"}

LEMMA VerifyingFacts ==
    /\ IsFiniteSet(verifying) /\ Cardinality(verifying) \in Nat
    /\ Cardinality(Reqs) \in Nat
<1>1. verifying \subseteq Reqs
  BY DEF verifying
<1>2. QED
  BY <1>1, RequestsAssumption, FS_Subset, FS_CardinalityType

\* A step that leaves the account alone and has no part in verifying.
LEMMA AccountAlone ==
    ASSUME ABase, CodesServe, NoneLeft, UNCHANGED account,
           \A q \in Reqs : apc'[q] \in {"verify", "resend"} \/ apc[q] \in {"verify", "resend"} => apc'[q] = apc[q]
    PROVE  CodesServe' /\ NoneLeft'
<1>1. verifying' = verifying
  BY DEF verifying
<1>2. UNCHANGED <<acct, vcode, codes, verified, crossedCodes>>
  BY DEF account
<1>3. CodesServe'
  BY <1>1, <1>2 DEF CodesServe
<1>4. NoneLeft'
  BY <1>2 DEF NoneLeft
<1>5. QED
  BY <1>3, <1>4

LEMMA NewCodeKept ==
    ASSUME ABase, CodesServe, NoneLeft, NEW p \in Reqs, registerUser(p) \/ ResendCode(p)
    PROVE  CodesServe' /\ NoneLeft'
<1>1. /\ codes' = codes + 1 /\ verified' = verified /\ crossedCodes' = crossedCodes
      /\ \/ acct = "none" /\ moves(p, "register", "signed")
         \/ moves(p, "resend", "idle")
  BY DEF registerUser, ResendCode, newCode
<1>2. verifying' = verifying
  BY <1>1 DEF moves, verifying, ABase
<1>3. CodesServe'
  <2>1. codes \in Nat /\ verified \in Nat
    BY SignInAssumption DEF ABase
  <2>2. (codes + 1) * Cardinality(Reqs) = codes * Cardinality(Reqs) + Cardinality(Reqs)
    BY <2>1, VerifyingFacts
  <2>3. /\ codes' - 1 = codes
        /\ codes * Cardinality(Reqs) \in Nat
        /\ verified + Cardinality(verifying) <= codes * Cardinality(Reqs)
    BY <1>1, <2>1, VerifyingFacts DEF CodesServe
  <2>4. /\ verified <= codes * Cardinality(Reqs)
        /\ verified + Cardinality(verifying) <= (codes + 1) * Cardinality(Reqs)
    BY <2>1, <2>2, <2>3, VerifyingFacts
  <2>5. QED
    BY <1>1, <1>2, <2>3, <2>4, Zenon DEF CodesServe
<1>4. NoneLeft'
  <2>1. crossedCodes \/ ~(verified >= 1)
    BY <1>1 DEF NoneLeft, moves
  <2>2. QED
    BY <1>1, <2>1 DEF NoneLeft
<1>5. QED
  BY <1>3, <1>4

LEMMA VerifyEmailKept ==
    ASSUME ABase, CodesServe, NoneLeft, NEW p \in Reqs, VerifyEmail(p)
    PROVE  CodesServe' /\ NoneLeft'
<1>1. /\ vcode # 0 /\ moves(p, "idle", "verify") /\ UNCHANGED <<acct, vcode, codes, verified, crossedCodes>>
  BY DEF VerifyEmail, account
<1>2. verifying' = verifying \cup {p} /\ p \notin verifying
  BY <1>1 DEF moves, verifying, ABase
<1>3. CodesServe'
  <2>1. codes \in Nat /\ codes >= 1 /\ verified \in Nat
    BY <1>1, SignInAssumption DEF ABase
  <2>2. verifying' \subseteq Reqs
    BY DEF verifying
  <2>3. Cardinality(verifying') \in Nat /\ Cardinality(verifying') <= Cardinality(Reqs)
    BY <2>2, RequestsAssumption, FS_Subset, FS_CardinalityType
  <2>4. verified <= (codes - 1) * Cardinality(Reqs)
    BY <1>1 DEF CodesServe
  <2>5. codes * Cardinality(Reqs) = (codes - 1) * Cardinality(Reqs) + Cardinality(Reqs)
    BY <2>1, VerifyingFacts
  <2>6. (codes - 1) * Cardinality(Reqs) \in Nat
    BY <2>1, VerifyingFacts
  <2>7. verified + Cardinality(verifying') <= codes * Cardinality(Reqs)
    BY <2>1, <2>3, <2>4, <2>5, <2>6, VerifyingFacts
  <2>8. QED
    BY <1>1, <2>4, <2>7, Zenon DEF CodesServe
<1>4. NoneLeft'
  BY <1>1 DEF NoneLeft
<1>5. QED
  BY <1>3, <1>4

LEMMA VerifyUserKept ==
    ASSUME ABase, CodesServe, NoneLeft, NEW p \in Reqs, verifyUser(p)
    PROVE  CodesServe' /\ NoneLeft'
<1>1. /\ moves(p, "verify", "idle") /\ acct' = "verified" /\ vcode' = 0 /\ verified' = verified + 1
      /\ codes' = codes /\ crossedCodes' = (crossedCodes \/ \E q \in Reqs \ {p} : apc[q] \in {"verify", "resend"})
  BY DEF verifyUser
<1>2. verifying' = verifying \ {p} /\ p \in verifying
  BY <1>1 DEF moves, verifying, ABase
<1>3. CodesServe'
  <2>1. Cardinality(verifying') = Cardinality(verifying) - 1
    BY <1>2, VerifyingFacts, FS_RemoveElement
  <2>2. verified \in Nat /\ codes \in Nat /\ codes * Cardinality(Reqs) \in Nat
    BY SignInAssumption, VerifyingFacts DEF ABase
  <2>3. verified + 1 + Cardinality(verifying') <= codes * Cardinality(Reqs)
    BY <2>1, <2>2, VerifyingFacts DEF CodesServe
  <2>4. QED
    BY <1>1, <2>3, Zenon DEF CodesServe
<1>4. NoneLeft'
  <2> SUFFICES ASSUME ~crossedCodes'
               PROVE  /\ verified' = 1
                      /\ \A q \in Reqs : apc'[q] \notin {"verify", "resend"}
    BY <1>1 DEF NoneLeft
  <2>1. ~crossedCodes /\ \A q \in Reqs \ {p} : apc[q] \notin {"verify", "resend"}
    BY <1>1
  <2>2. apc[p] = "verify" /\ apc' = [apc EXCEPT ![p] = "idle"]
    BY <1>1 DEF moves
  <2>3. ~(verified >= 1)
    BY <2>1, <2>2 DEF NoneLeft
  <2>4. verified \in Nat
    BY DEF ABase
  <2>5. verified' = 1
    BY <1>1, <2>3, <2>4
  <2>6. QED
    BY <2>1, <2>2, <2>5 DEF ABase
<1>5. QED
  BY <1>3, <1>4

LEMMA CodesStep ==
    ASSUME ABase, CodesServe, NoneLeft, [ANext]_avars
    PROVE  CodesServe' /\ NoneLeft'
<1>1. ASSUME NEW p \in Reqs, AHandler(p) PROVE CodesServe' /\ NoneLeft'
  <2>1. CASE registerUser(p) \/ ResendCode(p)
    BY <2>1, NewCodeKept
  <2>2. CASE VerifyEmail(p)
    BY <2>2, VerifyEmailKept
  <2>3. CASE verifyUser(p)
    BY <2>3, VerifyUserKept
  <2>4. CASE ResendVerification(p)
    <3>1. acct = "new" /\ moves(p, "idle", "resend") /\ UNCHANGED <<acct, vcode, codes, verified, crossedCodes>>
      BY <2>4 DEF ResendVerification, account
    <3>2. verifying' = verifying
      BY <3>1 DEF moves, verifying, ABase
    <3>3. CodesServe'
      BY <3>1, <3>2 DEF CodesServe
    <3>4. NoneLeft'
      BY <3>1 DEF NoneLeft
    <3>5. QED
      BY <3>3, <3>4
  <2>5. ASSUME NEW from \in Labels \ {"verify", "resend"}, NEW to \in Labels \ {"verify", "resend"},
               moves(p, from, to), UNCHANGED account
        PROVE  CodesServe' /\ NoneLeft'
    <3>1. \A q \in Reqs : apc'[q] \in {"verify", "resend"} \/ apc[q] \in {"verify", "resend"} => apc'[q] = apc[q]
      BY <2>5 DEF moves, ABase
    <3>2. QED
      BY <2>5, <3>1, AccountAlone
  <2>6. ASSUME NEW k, NEW from \in Labels \ {"verify", "resend"}, NEW to \in Labels \ {"verify", "resend"},
               gate(p, k, from, to)
        PROVE  CodesServe' /\ NoneLeft'
    <3>1. (IF throttled(k) THEN "idle" ELSE to) \in Labels \ {"verify", "resend"}
      BY DEF Labels
    <3>2. QED
      BY <2>5, <2>6, <3>1 DEF gate
  <2>7. CASE \E to \in {"user", "token", "signup"} : Begin(p, to)
    BY <2>6, <2>7 DEF Begin, Labels
  <2>8. CASE Locked(p) \/ Throttled(p) \/ SignupAllowed(p)
    BY <2>6, <2>8 DEF Locked, Throttled, SignupAllowed, Labels
  <2>9. CASE WrongPassword(p) \/ RightPassword(p) \/ Suspended(p)
    BY <2>5, <2>9 DEF WrongPassword, RightPassword, Suspended, Labels
  <2>10. CASE WrongCodeGiven(p) \/ RightCodeGiven(p) \/ Success(p)
    BY <2>5, <2>10 DEF WrongCodeGiven, RightCodeGiven, Success, Labels
  <2>11. CASE BadToken(p) \/ GoodToken(p)
    BY <2>5, <2>11 DEF BadToken, GoodToken, Labels
  <2>12. CASE SignupRefused(p) \/ RegisterFailed(p) \/ RecordSignup(p)
    BY <2>5, <2>12 DEF SignupRefused, RegisterFailed, RecordSignup, Labels
  <2>13. QED
    BY <1>1, <2>1, <2>2, <2>3, <2>4, <2>7, <2>8, <2>9, <2>10, <2>11, <2>12 DEF AHandler
<1>2. CASE Tick \/ sweepAuthTracker
  <2>1. UNCHANGED account /\ apc' = apc
    BY <1>2 DEF Tick, sweepAuthTracker
  <2>2. QED
    BY <2>1, AccountAlone
<1>3. CASE UNCHANGED avars
  <2>1. UNCHANGED account /\ apc' = apc
    BY <1>3 DEF avars, account
  <2>2. QED
    BY <2>1, AccountAlone
<1>4. QED
  BY <1>1, <1>2, <1>3 DEF ANext

LEMMA CodesInit == AInit => CodesServe /\ NoneLeft
<1> SUFFICES ASSUME AInit PROVE CodesServe /\ NoneLeft
  OBVIOUS
<1>1. verifying = {}
  BY DEF AInit, verifying
<1>2. Cardinality(verifying) = 0
  BY <1>1, FS_EmptySet
<1>3. vcode = 0 /\ verified = 0 /\ codes = 0
  BY DEF AInit
<1>4. CodesServe
  BY <1>2, <1>3, VerifyingFacts DEF CodesServe
<1>5. QED
  BY <1>3, <1>4 DEF NoneLeft

LEMMA SignInInvSafe == ASafe /\ CodesServe /\ NoneLeft => SignInSafe
<1> SUFFICES ASSUME ASafe, CodesServe, NoneLeft PROVE SignInSafe
  OBVIOUS
<1>0. ABase /\ Cardinality(Reqs) \in Nat /\ MaxCodes \in Nat
  BY PastFinite, SignInAssumption DEF ASafe
<1>1. verified \in 0..MaxCodes * Cardinality(Reqs)
  <2>1. verified \in Nat /\ codes \in Nat /\ codes <= MaxCodes
    BY <1>0 DEF ABase
  <2>2. verified <= codes * Cardinality(Reqs)
    <3>1. verified + Cardinality(verifying) <= codes * Cardinality(Reqs)
      BY DEF CodesServe
    <3>2. codes * Cardinality(Reqs) \in Nat
      BY <1>0, <2>1
    <3>3. QED
      BY <2>1, <3>1, <3>2, VerifyingFacts
  <2>3. PICK d \in Nat : MaxCodes = codes + d
    <3>1. MaxCodes - codes \in Nat /\ MaxCodes = codes + (MaxCodes - codes)
      BY <1>0, <2>1
    <3>2. QED
      BY <3>1
  <2>4. MaxCodes * Cardinality(Reqs) = codes * Cardinality(Reqs) + d * Cardinality(Reqs)
    BY <1>0, <2>1, <2>3
  <2>5. codes * Cardinality(Reqs) \in Nat /\ d * Cardinality(Reqs) \in Nat
    BY <1>0, <2>1
  <2>6. MaxCodes * Cardinality(Reqs) \in Nat /\ verified <= MaxCodes * Cardinality(Reqs)
    BY <2>1, <2>2, <2>4, <2>5
  <2>7. QED
    BY <2>1, <2>6
<1>2. \A k \in Kinds : fails[k].count \in Nat /\ fails[k].first \in ages(k) /\ fails[k].last \in 0..fails[k].first
  BY <1>0, SignInAssumption DEF ABase, Entries, ages
<1>3. ATypeOK
  BY <1>0, <1>1, <1>2, Zenon DEF ATypeOK, ABase
<1>4. FailuresBounded
  <2>1. ASSUME NEW k \in Kinds PROVE fails[k].count <= limit(k)
    <3>1. /\ fails[k].count + Cardinality(past(k)) <= Max[k] + Cardinality(Reqs) - 1
          /\ fails[k].count \in Nat /\ Max[k] \in Nat /\ Cardinality(past(k)) \in Nat
      BY <1>0, PastFinite, SignInAssumption DEF ASafe, CountsNear, ABase, Entries
    <3>2. QED
      BY <1>0, <3>1 DEF limit
  <2>2. QED
    BY <2>1 DEF FailuresBounded
<1>5. VerifiedOnce
  BY <1>0 DEF ABase, NoneLeft, VerifiedOnce
<1>6. QED
  BY <1>3, <1>4, <1>5 DEF SignInSafe

\* No counter exceeds its threshold by more than the other handlers under way,
\* and verify_email leads on to the referral twice only if it overlaps.
THEOREM SignInKept == ASpec => []SignInSafe
<1>1. (ASafe /\ CodesServe /\ NoneLeft) /\ [ANext]_avars => (ASafe /\ CodesServe /\ NoneLeft)'
  BY ASafeStep, CodesStep DEF ASafe
<1>2. AInit => ASafe /\ CodesServe /\ NoneLeft
  BY ASafeInit, CodesInit
<1>3. ASpec => [](ASafe /\ CodesServe /\ NoneLeft)
  BY <1>1, <1>2, PTL DEF ASpec
<1>4. QED
  BY <1>3, SignInInvSafe, PTL

-----------------------------------------------------------------------------
(* Sets of numbers have a least member, and a greatest if they are bounded. *)

LEMMA LeastOf ==
    ASSUME NEW T \in SUBSET Nat, T # {}
    PROVE  \E x \in T : \A y \in T : x <= y
<1> DEFINE R == {p \in Nat \X Nat : p[1] < p[2]}
<1>1. IsWellFoundedOn(R, Nat)
  BY NatLessThanWellFounded, Zenon DEF OpToRel
<1>2. PICK x \in T : \A y \in T : ~(<<y, x>> \in R)
  <2> HIDE DEF R
  <2>1. QED
    BY <1>1, WFMin, Zenon
<1>3. ASSUME NEW y \in T PROVE x <= y
  <2>1. <<y, x>> \in Nat \X Nat /\ <<y, x>>[1] = y /\ <<y, x>>[2] = x
    OBVIOUS
  <2>2. ~(y < x)
    BY <1>2, <2>1
  <2>3. QED
    BY <2>2
<1>4. QED
  BY <1>3

LEMMA GreatestOf ==
    ASSUME NEW n \in Nat, NEW T \in SUBSET (0..n), T # {}
    PROVE  \E x \in T : \A y \in T : y <= x
<1> DEFINE U == {m \in Nat : n - m \in T}
<1>1. U \in SUBSET Nat /\ U # {}
  <2>1. PICK y \in T : TRUE
    OBVIOUS
  <2>2. n - y \in Nat /\ n - (n - y) = y
    OBVIOUS
  <2>3. n - y \in U
    BY <2>1, <2>2
  <2>4. QED
    BY <2>3
<1>2. PICK x \in U : \A y \in U : x <= y
  <2> HIDE DEF U
  <2>1. QED BY <1>1, LeastOf
<1>3. n - x \in T
  OBVIOUS
<1>4. ASSUME NEW y \in T PROVE y <= n - x
  <2>1. n - y \in Nat /\ n - (n - y) = y
    OBVIOUS
  <2>2. n - y \in U
    BY <2>1
  <2>3. QED
    BY <1>2, <2>2
<1>5. QED
  BY <1>3, <1>4

-----------------------------------------------------------------------------
(* The supporter badge. *)

Webhook == {"form", "mark", "named", "byMail", "mailed", "row", "audit"}

\* What a handler has read, told by where it is.
ReadOf(r) ==
    /\ delivery[r] # 0 <=> upc[r] \in Webhook
    /\ delivery[r] <= deliveries
    /\ formRead[r] # 0 => formRead[r] <= Len(forms)
    /\ upc[r] \in {"mark", "adminMark", "named", "adminBadge"} =>
           formRead[r] # 0 /\ nameRead[r] = forms[formRead[r]].user
    /\ upc[r] \in {"named", "adminBadge", "mailed", "row", "direct", "directRow"} => nameRead[r] \in Donors
    /\ upc[r] \in {"row", "directRow"} /\ nameRead[r] \in members \ renewed => nameRead[r] \in badge

ReadInv == \A r \in Reqs : ReadOf(r)

\* A call of the webhook is served by one handler, once.
ServedOnce ==
    /\ \A q, r \in Reqs : delivery[q] = delivery[r] /\ delivery[q] # 0 => q = r
    /\ ~overlapped => \A q, r \in Reqs : delivery[q] # 0 /\ delivery[r] # 0 => q = r

namesOf(n) == {g[2] : g \in {h \in gave : h[1] = n}}

\* Whom a call of the webhook has given the badge, while it is served and afterwards.
GaveInv ==
    /\ \A g \in gave : g[1] <= deliveries
    /\ \A p \in payments : p[1] <= deliveries /\ \A r \in Reqs : delivery[r] # p[1]
    /\ \A r \in Reqs :
        /\ upc[r] \in {"form", "mark", "named", "byMail", "mailed"} => \A g \in gave : g[1] # delivery[r]
        /\ upc[r] \in {"row", "audit"} => namesOf(delivery[r]) = {nameRead[r]} \ {NoName}

AuditInv == \A p \in payments : namesOf(p[1]) = {p[2]} \ {NoName}

\* A granted form whose badge is still to come has a handler at it that gives it.
BadgeInv ==
    /\ Donors \ members \subseteq renewed
    /\ ~stopped =>
        \A i \in 1..Len(forms) :
            forms[i].status = "granted" /\ forms[i].user \in members \ renewed
            => \/ forms[i].user \in badge
               \/ \E r \in Reqs : formRead[r] = i /\ upc[r] \in {"named", "adminBadge"}

\* A form that is taken is not to be taken again.
TakenInv ==
    /\ \A t \in taken : t[2] <= Len(forms) /\ forms[t[2]].status # "pending"
    /\ ~overlapped => \A r \in Reqs : upc[r] = "mark" => \A t \in taken : t[2] # formRead[r]

SupInv == UTypeOK /\ ReadInv /\ ServedOnce /\ GaveInv /\ BadgeInv /\ TakenInv /\ AuditInv /\ FormTakenOnce

Forms == [user : Names, status : {"pending", "granted", "dismissed"}]

LEMMA MarkedFacts ==
    ASSUME UTypeOK, NEW i \in 1..Len(forms), NEW s \in {"pending", "granted", "dismissed"}, marked(i, s)
    PROVE  /\ forms' \in Seq(Forms) /\ Len(forms') = Len(forms)
           /\ \A j \in 1..Len(forms) : /\ forms'[j].user = forms[j].user
                                        /\ forms'[j].status = IF j = i THEN s ELSE forms[j].status
<1>1. forms \in Seq(Forms) /\ forms' = [forms EXCEPT ![i].status = s]
  BY DEF UTypeOK, Forms, marked
<1>2. \A f \in Forms : [f EXCEPT !.status = s] \in Forms /\ [f EXCEPT !.status = s].user = f.user
                        /\ [f EXCEPT !.status = s].status = s
  BY DEF Forms
<1>3. forms[i] \in Forms /\ forms' = [forms EXCEPT ![i] = [forms[i] EXCEPT !.status = s]]
  BY <1>1
<1> DEFINE g == [forms[i] EXCEPT !.status = s]
<1>4. g \in Forms /\ g.user = forms[i].user /\ g.status = s
  BY <1>2, <1>3
<1> HIDE DEF g
<1>5. forms' = [forms EXCEPT ![i] = g]
  BY <1>3 DEF g
<1>6. /\ forms' \in Seq(Forms) /\ Len(forms') = Len(forms)
      /\ \A j \in 1..Len(forms) : forms'[j] = IF j = i THEN g ELSE forms[j]
  BY <1>1, <1>4, <1>5
<1>7. QED
  BY <1>4, <1>6

LEMMA AddsFacts ==
    ASSUME UTypeOK, NEW u \in Names, NEW s \in {"pending", "granted", "dismissed"}, adds(u, s)
    PROVE  /\ forms' \in Seq(Forms) /\ Len(forms') = Len(forms) + 1
           /\ \A j \in 1..Len(forms) : forms'[j] = forms[j]
           /\ forms'[Len(forms) + 1].user = u /\ forms'[Len(forms) + 1].status = s
<1> DEFINE g == [user |-> u, status |-> s]
<1>1. g \in Forms /\ g.user = u /\ g.status = s
  BY DEF Forms
<1>2. forms \in Seq(Forms) /\ forms' = Append(forms, g)
  BY DEF UTypeOK, Forms, adds
<1> HIDE DEF g
<1>3. QED
  BY <1>1, <1>2

Places == {"idle", "form", "mark", "named", "byMail", "mailed", "row", "audit",
           "adminMark", "adminBadge", "direct", "directRow"}

LEMMA PassFacts ==
    ASSUME UTypeOK, NEW r \in Reqs, NEW from, NEW to \in Places, passes(r, from, to)
    PROVE  /\ upc[r] = from /\ upc'[r] = to /\ upc' \in [Reqs -> Places]
           /\ \A q \in Reqs \ {r} : upc'[q] = upc[q]
BY DEF UTypeOK, Places, passes

LEMMA AnsweredFacts ==
    ASSUME UTypeOK, NEW r \in Reqs, NEW from, answered(r, from)
    PROVE  /\ upc[r] = from /\ upc'[r] = "idle" /\ upc' \in [Reqs -> Places]
           /\ formRead'[r] = 0 /\ nameRead'[r] = NoName /\ delivery'[r] = 0
           /\ formRead' \in [Reqs -> 0..MaxForms] /\ nameRead' \in [Reqs -> Names]
           /\ delivery' \in [Reqs -> 0..MaxDeliveries]
           /\ \A q \in Reqs \ {r} : /\ upc'[q] = upc[q] /\ formRead'[q] = formRead[q]
                                     /\ nameRead'[q] = nameRead[q] /\ delivery'[q] = delivery[q]
<1>1. passes(r, from, "idle") /\ "idle" \in Places /\ NoName \in Names /\ 0 \in 0..MaxForms /\ 0 \in 0..MaxDeliveries
  BY SupportersAssumption DEF answered, Places, Names
<1>2. QED
  BY <1>1, PassFacts DEF answered, UTypeOK

LEMMA NewestFacts ==
    ASSUME UTypeOK, takeable # {}
    PROVE  newest(takeable) \in 1..Len(forms) /\ forms[newest(takeable)].status = "pending"
<1>1. takeable \in SUBSET (0..Len(forms)) /\ Len(forms) \in Nat
  BY DEF takeable, UTypeOK
<1>2. \E i \in takeable : \A j \in takeable : j <= i
  BY <1>1, GreatestOf
<1>3. newest(takeable) \in takeable
  BY <1>2 DEF newest
<1>4. QED
  BY <1>3 DEF takeable

LEMMA NamesFacts ==
    ASSUME NEW m, NEW u, gave' = gave \cup ({m} \X {u})
    PROVE  \A n : namesOf(n)' = IF n = m THEN namesOf(n) \cup {u} ELSE namesOf(n)
<1>1. \A h \in {m} \X {u} : h[1] = m /\ h[2] = u
  OBVIOUS
<1>2. <<m, u>> \in gave' /\ <<m, u>>[1] = m /\ <<m, u>>[2] = u
  OBVIOUS
<1>3. SUFFICES ASSUME NEW n PROVE namesOf(n)' = IF n = m THEN namesOf(n) \cup {u} ELSE namesOf(n)
  OBVIOUS
<1>4. namesOf(n) \subseteq namesOf(n)' /\ (n = m => u \in namesOf(n)')
  BY <1>2 DEF namesOf
<1>5. \A x \in namesOf(n)' : x \in namesOf(n) \/ (n = m /\ x = u)
  BY <1>1 DEF namesOf
<1>6. QED
  BY <1>4, <1>5

LEMMA NamesNone ==
    ASSUME NEW n, \A g \in gave : g[1] # n
    PROVE  namesOf(n) = {}
BY DEF namesOf

LEMMA NamesSame ==
    ASSUME UNCHANGED gave
    PROVE  \A n : namesOf(n)' = namesOf(n)
BY DEF namesOf

LEMMA AtFacts ==
    ASSUME UTypeOK, ReadInv, NEW r \in Reqs
    PROVE  /\ upc[r] \in {"mark", "adminMark", "named", "adminBadge"} =>
                 formRead[r] \in 1..Len(forms) /\ nameRead[r] = forms[formRead[r]].user
           /\ upc[r] \in {"named", "adminBadge"} => nameRead[r] \in Donors
           /\ upc[r] \in {"idle", "adminMark", "adminBadge", "direct", "directRow"} => delivery[r] = 0
<1>1. ReadOf(r) /\ formRead[r] \in Nat /\ Len(forms) \in Nat
  BY DEF ReadInv, UTypeOK
<1>2. upc[r] \in {"idle", "adminMark", "adminBadge", "direct", "directRow"} => upc[r] \notin Webhook
  BY DEF Webhook
<1>3. QED
  BY <1>1, <1>2 DEF ReadOf

LEMMA FormFacts ==
    ASSUME UTypeOK, NEW i \in 1..Len(forms)
    PROVE  forms[i].user \in Names /\ i \in 1..MaxForms /\ i \in 0..MaxForms
<1>1. forms[i] \in [user : Names, status : {"pending", "granted", "dismissed"}]
  <2>1. forms \in Seq(Forms)
    BY DEF UTypeOK, Forms
  <2>2. forms[i] \in Forms
    BY <2>1
  <2>3. QED
    BY <2>2 DEF Forms
<1>2. forms[i].user \in Names
  BY <1>1
<1>3. QED
  BY <1>2, SupportersAssumption DEF UTypeOK

LEMMA NumFacts ==
    ASSUME UTypeOK
    PROVE  /\ Len(forms) \in Nat /\ deliveries \in Nat /\ MaxForms \in Nat /\ MaxDeliveries \in Nat /\ MaxAsides \in Nat
           /\ \A q \in Reqs : delivery[q] \in Nat /\ formRead[q] \in Nat
BY SupportersAssumption DEF UTypeOK

\* The forms keep their names and stay in the table.
formsKept == /\ Len(forms') \in Nat /\ Len(forms') >= Len(forms)
             /\ \A j \in 1..Len(forms) : forms'[j].user = forms[j].user

\* An account that is the one there was has been, and keeps its badge.
accountsKept == /\ members' \ renewed' \subseteq members \ renewed
                /\ \A u \in badge : u \in members' \ renewed' => u \in badge'

LEMMA ReadOther ==
    ASSUME UTypeOK, NEW q \in Reqs, ReadOf(q), formsKept, accountsKept,
           upc'[q] = upc[q], formRead'[q] = formRead[q], nameRead'[q] = nameRead[q], delivery'[q] = delivery[q],
           deliveries' \in Nat, deliveries' >= deliveries
    PROVE  ReadOf(q)'
<1>1. Len(forms) \in Nat /\ deliveries \in Nat /\ delivery[q] \in Nat /\ formRead[q] \in Nat
  BY NumFacts
<1>2. formRead[q] # 0 /\ formRead[q] <= Len(forms) =>
        formRead[q] <= Len(forms') /\ forms'[formRead[q]].user = forms[formRead[q]].user
  BY <1>1 DEF formsKept
<1>3. nameRead[q] \in members' \ renewed' => nameRead[q] \in members \ renewed /\ (nameRead[q] \in badge => nameRead[q] \in badge')
  BY DEF accountsKept
<1>4. QED
  BY <1>1, <1>2, <1>3 DEF ReadOf

LEMMA ReadSame ==
    ASSUME UTypeOK, ReadInv, formsKept, accountsKept, deliveries' \in Nat, deliveries' >= deliveries,
           UNCHANGED <<upc, formRead, nameRead, delivery>>
    PROVE  ReadInv'
BY ReadOther DEF ReadInv

LEMMA ServedSame ==
    ASSUME ServedOnce, UNCHANGED overlapped, \A q \in Reqs : delivery'[q] = delivery[q] \/ delivery'[q] = 0
    PROVE  ServedOnce'
BY DEF ServedOnce

LEMMA GaveSame ==
    ASSUME GaveInv, UNCHANGED <<gave, payments, deliveries>>,
           \A q \in Reqs : delivery'[q] = delivery[q] \/ (delivery[q] = 0 /\ delivery'[q] = 0) \/ (delivery'[q] = 0 /\ upc'[q] = "idle"),
           \A q \in Reqs : \/ upc'[q] \notin Webhook
                           \/ upc'[q] = upc[q] /\ nameRead'[q] = nameRead[q] /\ delivery'[q] = delivery[q],
           deliveries \in Nat, \A p \in payments : p[1] \in Nat /\ p[1] # 0
    PROVE  GaveInv'
<1>1. \A n : namesOf(n)' = namesOf(n)
  BY NamesSame
<1>2. QED
  BY <1>1 DEF GaveInv, Webhook

LEMMA PayFacts ==
    ASSUME UTypeOK
    PROVE  \A p \in payments : p[1] \in Nat /\ p[1] # 0
BY DEF UTypeOK

LEMMA GaveFacts ==
    ASSUME UTypeOK
    PROVE  \A g \in gave : g[1] \in Nat
BY DEF UTypeOK

LEMMA AuditSame ==
    ASSUME AuditInv, UNCHANGED <<gave, payments>>
    PROVE  AuditInv'
BY NamesSame DEF AuditInv

\* A form that is granted and was not before, or has lost the handler that
\* was to give the badge, has it.
LEMMA BadgeStep ==
    ASSUME BadgeInv, accountsKept, Donors \ members' \subseteq renewed', stopped => stopped',
           \A i \in 1..Len(forms') :
               forms'[i].status = "granted" /\ forms'[i].user \in members' \ renewed'
               => \/ forms'[i].user \in badge'
                  \/ \E r \in Reqs : formRead'[r] = i /\ upc'[r] \in {"named", "adminBadge"}
                  \/ i \in 1..Len(forms) /\ forms[i].status = "granted" /\ forms'[i].user = forms[i].user,
           \A q \in Reqs : upc[q] \in {"named", "adminBadge"} =>
               \/ upc'[q] = upc[q] /\ formRead'[q] = formRead[q]
               \/ forms[formRead[q]].user \in members' \ renewed' => forms[formRead[q]].user \in badge'
    PROVE  BadgeInv'
<1>1. SUFFICES ASSUME ~stopped', NEW i \in 1..Len(forms'),
                      forms'[i].status = "granted", forms'[i].user \in members' \ renewed', forms'[i].user \notin badge'
               PROVE  \E r \in Reqs : formRead'[r] = i /\ upc'[r] \in {"named", "adminBadge"}
  BY DEF BadgeInv
<1>2. CASE i \in 1..Len(forms) /\ forms[i].status = "granted" /\ forms'[i].user = forms[i].user
  <2>1. forms[i].user \in members \ renewed /\ forms[i].user \notin badge
    BY <1>1, <1>2 DEF accountsKept
  <2>2. PICK q \in Reqs : formRead[q] = i /\ upc[q] \in {"named", "adminBadge"}
    BY <1>1, <1>2, <2>1 DEF BadgeInv
  <2>3. upc'[q] = upc[q] /\ formRead'[q] = formRead[q]
    BY <1>1, <1>2, <2>2
  <2>4. QED
    BY <2>2, <2>3
<1>3. QED
  BY <1>1, <1>2

LEMMA BadgeSame ==
    ASSUME BadgeInv, UNCHANGED <<forms, members, renewed, badge, stopped>>,
           \A q \in Reqs : upc[q] \in {"named", "adminBadge"} => upc'[q] = upc[q] /\ formRead'[q] = formRead[q]
    PROVE  BadgeInv'
<1>1. accountsKept
  BY DEF accountsKept
<1>2. Donors \ members' \subseteq renewed'
  BY DEF BadgeInv
<1>3. QED
  BY <1>1, <1>2, BadgeStep

LEMMA TakenSame ==
    ASSUME UTypeOK, TakenInv, formsKept, UNCHANGED <<taken, overlapped>>,
           \A j \in 1..Len(forms) : forms[j].status # "pending" => forms'[j].status # "pending",
           \A q \in Reqs : upc'[q] = "mark" => upc[q] = "mark" /\ formRead'[q] = formRead[q]
    PROVE  TakenInv'
<1>1. \A t \in taken : t[2] \in 1..Len(forms) /\ t[2] <= Len(forms')
  BY NumFacts DEF TakenInv, formsKept, UTypeOK
<1>2. QED
  BY <1>1 DEF TakenInv

LEMMA SupInit == UInit => SupInv
<1> SUFFICES ASSUME UInit PROVE SupInv
  OBVIOUS
<1>1. UTypeOK
  <2>1. MailHolder \in Donors /\ NoName \in Names /\ 0 \in 0..MaxForms /\ 0 \in 0..MaxDeliveries /\ 0 \in 0..MaxAsides
        /\ 0 <= MaxForms
    BY SupportersAssumption DEF Names
  <2>2. forms \in Seq([user : Names, status : {"pending", "granted", "dismissed"}]) /\ Len(forms) <= MaxForms
    BY <2>1 DEF UInit
  <2>3. /\ upc \in [Reqs -> {"idle", "form", "mark", "named", "byMail", "mailed", "row", "audit",
                         "adminMark", "adminBadge", "direct", "directRow"}]
        /\ formRead \in [Reqs -> 0..MaxForms] /\ nameRead \in [Reqs -> Names]
        /\ delivery \in [Reqs -> 0..MaxDeliveries]
    BY <2>1 DEF UInit
  <2>4. QED
    BY <2>1, <2>2, <2>3 DEF UInit, UTypeOK
<1>2. ReadInv /\ ServedOnce /\ BadgeInv
  BY DEF UInit, ReadInv, ReadOf, ServedOnce, BadgeInv, Webhook
<1>3. GaveInv /\ TakenInv /\ AuditInv /\ FormTakenOnce
  BY DEF UInit, GaveInv, TakenInv, AuditInv, FormTakenOnce
<1>4. QED
  BY <1>1, <1>2, <1>3 DEF SupInv
LEMMA WebhookSup ==
    ASSUME SupInv, NEW r \in Reqs, bmcWebhook(r)
    PROVE  SupInv'
<1> USE DEF SupInv
<1>1. /\ upc[r] = "idle" /\ upc'[r] = "form" /\ upc' \in [Reqs -> Places]
      /\ \A q \in Reqs \ {r} : upc'[q] = upc[q]
  BY PassFacts DEF bmcWebhook, Places
<1>2. /\ deliveries' = deliveries + 1 /\ deliveries' \in 0..MaxDeliveries /\ deliveries \in 0..MaxDeliveries
      /\ delivery'[r] = deliveries + 1 /\ delivery' \in [Reqs -> 0..MaxDeliveries]
      /\ \A q \in Reqs \ {r} : delivery'[q] = delivery[q]
  BY SupportersAssumption DEF bmcWebhook, UTypeOK
<1>3. /\ overlapped' \in BOOLEAN /\ (overlapped => overlapped')
      /\ (~overlapped' => \A q \in Reqs : delivery[q] = 0)
  BY DEF bmcWebhook, UTypeOK
<1>4. UNCHANGED <<forms, members, mailChecked, renewed, badge, payments, formRead, nameRead, gave, taken, stopped, asides>>
  BY DEF bmcWebhook, userRows, found, uHistory
<1>5. \A n : namesOf(n)' = namesOf(n)
  BY NamesSame DEF bmcWebhook
<1>6. formsKept /\ accountsKept
  BY <1>1, <1>2, <1>3, <1>4, <1>5, NumFacts DEF formsKept, accountsKept, UTypeOK, BadgeInv
<1>7. UTypeOK'
  BY <1>1, <1>2, <1>3, <1>4, <1>5, <1>6 DEF UTypeOK, Forms, Places, Names
<1>8. ReadInv'
  <2>1. ReadOf(r)'
    BY <1>1, <1>2, <1>3, <1>4, <1>5, <1>6, NumFacts DEF ReadInv, ReadOf, Webhook, UTypeOK, Names
  <2>2. \A q \in Reqs \ {r} : ReadOf(q)'
    BY <1>1, <1>2, <1>3, <1>4, <1>5, <1>6, ReadOther, NumFacts DEF ReadInv
  <2>3. QED
    BY <2>1, <2>2 DEF ReadInv
<1>9. ServedOnce'
  BY <1>1, <1>2, <1>3, <1>4, <1>5, <1>6, NumFacts DEF ServedOnce, ReadInv, ReadOf
<1>10. GaveInv'
  <2>1. \A g \in gave' : g[1] <= deliveries'
    BY <1>1, <1>2, <1>3, <1>4, <1>5, <1>6, NumFacts, GaveFacts DEF GaveInv
  <2>2. \A p \in payments' : p[1] <= deliveries' /\ \A q \in Reqs : delivery'[q] # p[1]
    BY <1>1, <1>2, <1>3, <1>4, <1>5, <1>6, NumFacts, PayFacts DEF GaveInv
  <2>3. ASSUME NEW q \in Reqs, upc'[q] \in {"form", "mark", "named", "byMail", "mailed"} PROVE \A g \in gave' : g[1] # delivery'[q]
    BY <1>1, <1>2, <1>3, <1>4, <1>5, <1>6, <2>3, NumFacts, GaveFacts DEF GaveInv
  <2>4. ASSUME NEW q \in Reqs, upc'[q] \in {"row", "audit"} PROVE namesOf(delivery[q])' = {nameRead'[q]} \ {NoName}
    BY <1>1, <1>2, <1>3, <1>4, <1>5, <1>6, <2>4, NumFacts DEF GaveInv
  <2>5. QED
    BY <2>1, <2>2, <2>3, <2>4 DEF GaveInv
<1>11. AuditInv'
  BY <1>1, <1>2, <1>3, <1>4, <1>5, <1>6, AuditSame
<1>12. BadgeInv'
  BY <1>1, <1>2, <1>3, <1>4, <1>5, <1>6, BadgeSame
<1>13. TakenInv'
  BY <1>1, <1>2, <1>3, <1>4, <1>5, <1>6 DEF TakenInv
<1>14. FormTakenOnce'
  BY <1>1, <1>2, <1>3, <1>4, <1>5, <1>6 DEF FormTakenOnce
<1>15. QED
  BY <1>7, <1>8, <1>9, <1>10, <1>11, <1>12, <1>13, <1>14

LEMMA FindFormSup ==
    ASSUME SupInv, NEW r \in Reqs, findForm(r)
    PROVE  SupInv'
<1> USE DEF SupInv
<1>1. /\ upc[r] = "form" /\ upc'[r] = (IF takeable = {} THEN "byMail" ELSE "mark") /\ upc' \in [Reqs -> Places]
      /\ \A q \in Reqs \ {r} : upc'[q] = upc[q]
  BY PassFacts DEF findForm, Places
<1>2. takeable # {} => newest(takeable) \in 1..Len(forms) /\ forms[newest(takeable)].status = "pending"
                       /\ newest(takeable) \in 0..MaxForms /\ forms[newest(takeable)].user \in Names
  BY NewestFacts, FormFacts
<1>3. /\ formRead'[r] = (IF takeable = {} THEN 0 ELSE newest(takeable)) /\ formRead' \in [Reqs -> 0..MaxForms]
      /\ nameRead'[r] = (IF takeable = {} THEN NoName ELSE forms[newest(takeable)].user) /\ nameRead' \in [Reqs -> Names]
      /\ \A q \in Reqs \ {r} : formRead'[q] = formRead[q] /\ nameRead'[q] = nameRead[q]
  BY <1>2, SupportersAssumption DEF findForm, UTypeOK, Names
<1>4. UNCHANGED <<forms, members, mailChecked, renewed, badge, payments, delivery, deliveries, gave, taken, overlapped, stopped, asides>>
  BY DEF findForm, userRows, found, uHistory
<1>5. \A n : namesOf(n)' = namesOf(n)
  BY NamesSame DEF findForm, uHistory
<1>6. formsKept /\ accountsKept
  BY <1>1, <1>2, <1>3, <1>4, <1>5, NumFacts DEF formsKept, accountsKept, UTypeOK, BadgeInv
<1>7. UTypeOK'
  BY <1>1, <1>2, <1>3, <1>4, <1>5, <1>6 DEF UTypeOK, Forms, Places, Names
<1>8. ReadInv'
  <2>1. ReadOf(r)'
    BY <1>1, <1>2, <1>3, <1>4, <1>5, <1>6, NumFacts DEF ReadInv, ReadOf, Webhook, UTypeOK, Names
  <2>2. \A q \in Reqs \ {r} : ReadOf(q)'
    BY <1>1, <1>2, <1>3, <1>4, <1>5, <1>6, ReadOther, NumFacts DEF ReadInv
  <2>3. QED
    BY <2>1, <2>2 DEF ReadInv
<1>9. ServedOnce'
  BY <1>1, <1>2, <1>3, <1>4, <1>5, <1>6, ServedSame
<1>10. GaveInv'
  <2>1. \A g \in gave' : g[1] <= deliveries'
    BY <1>1, <1>2, <1>3, <1>4, <1>5, <1>6, NumFacts, GaveFacts DEF GaveInv
  <2>2. \A p \in payments' : p[1] <= deliveries' /\ \A q \in Reqs : delivery'[q] # p[1]
    BY <1>1, <1>2, <1>3, <1>4, <1>5, <1>6, NumFacts, PayFacts DEF GaveInv
  <2>3. ASSUME NEW q \in Reqs, upc'[q] \in {"form", "mark", "named", "byMail", "mailed"} PROVE \A g \in gave' : g[1] # delivery'[q]
    BY <1>1, <1>2, <1>3, <1>4, <1>5, <1>6, <2>3, NumFacts, GaveFacts DEF GaveInv
  <2>4. ASSUME NEW q \in Reqs, upc'[q] \in {"row", "audit"} PROVE namesOf(delivery[q])' = {nameRead'[q]} \ {NoName}
    BY <1>1, <1>2, <1>3, <1>4, <1>5, <1>6, <2>4, NumFacts DEF GaveInv
  <2>5. QED
    BY <2>1, <2>2, <2>3, <2>4 DEF GaveInv
<1>11. AuditInv'
  BY <1>1, <1>2, <1>3, <1>4, <1>5, <1>6, AuditSame
<1>12. BadgeInv'
  BY <1>1, <1>2, <1>3, <1>4, <1>5, <1>6, BadgeSame
<1>13. TakenInv'
  <2>1. \A t \in taken : t[2] <= Len(forms) /\ forms[t[2]].status # "pending"
    BY DEF TakenInv
  <2>2. takeable # {} => \A t \in taken : t[2] # formRead'[r]
    BY <1>1, <1>2, <1>3, <1>4, <1>5, <1>6, <2>1
  <2>3. upc'[r] = "mark" => \A t \in taken : t[2] # formRead'[r]
    BY <1>1, <1>2, <1>3, <1>4, <1>5, <1>6, <2>2
  <2>4. QED
    BY <1>1, <1>2, <1>3, <1>4, <1>5, <1>6, <2>1, <2>3 DEF TakenInv
<1>14. FormTakenOnce'
  BY <1>1, <1>2, <1>3, <1>4, <1>5, <1>6 DEF FormTakenOnce
<1>15. QED
  BY <1>7, <1>8, <1>9, <1>10, <1>11, <1>12, <1>13, <1>14

LEMMA GrantFormSup ==
    ASSUME SupInv, NEW r \in Reqs, grantForm(r)
    PROVE  SupInv'
<1> USE DEF SupInv
<1>1. /\ upc[r] = "mark" /\ upc'[r] = (IF nameRead[r] = NoName THEN "byMail" ELSE "named") /\ upc' \in [Reqs -> Places]
      /\ \A q \in Reqs \ {r} : upc'[q] = upc[q]
  BY PassFacts DEF grantForm, Places
<1>2. /\ formRead[r] \in 1..Len(forms) /\ formRead[r] \in 1..MaxForms /\ nameRead[r] = forms[formRead[r]].user
      /\ delivery[r] \in 1..MaxDeliveries /\ nameRead[r] \in Names /\ Len(forms) \in Nat
  BY <1>1, SupportersAssumption DEF ReadInv, ReadOf, UTypeOK, Webhook
<1>3. /\ forms' \in Seq(Forms) /\ Len(forms') = Len(forms)
      /\ \A j \in 1..Len(forms) : /\ forms'[j].user = forms[j].user
                                   /\ forms'[j].status = IF j = formRead[r] THEN "granted" ELSE forms[j].status
  BY <1>2, MarkedFacts DEF grantForm
<1>4. /\ taken' = taken \cup {<<delivery[r], formRead[r]>>} /\ taken' \subseteq (1..MaxDeliveries) \X (1..MaxForms)
      /\ <<delivery[r], formRead[r]>>[2] = formRead[r]
  BY <1>2 DEF grantForm, UTypeOK
<1>5. UNCHANGED <<members, mailChecked, renewed, badge, payments, formRead, nameRead, delivery, deliveries, gave, overlapped, stopped, asides>>
  BY DEF grantForm, userRows, found, uHistory
<1>6. \A n : namesOf(n)' = namesOf(n)
  BY NamesSame DEF grantForm
<1>7. formsKept /\ accountsKept
  BY <1>1, <1>2, <1>3, <1>4, <1>5, <1>6, NumFacts DEF formsKept, accountsKept, UTypeOK, BadgeInv
<1>8. UTypeOK'
  BY <1>1, <1>2, <1>3, <1>4, <1>5, <1>6, <1>7 DEF UTypeOK, Forms, Places, Names
<1>9. ReadInv'
  <2>1. ReadOf(r)'
    BY <1>1, <1>2, <1>3, <1>4, <1>5, <1>6, <1>7, NumFacts DEF ReadInv, ReadOf, Webhook, UTypeOK, Names
  <2>2. \A q \in Reqs \ {r} : ReadOf(q)'
    BY <1>1, <1>2, <1>3, <1>4, <1>5, <1>6, <1>7, ReadOther, NumFacts DEF ReadInv
  <2>3. QED
    BY <2>1, <2>2 DEF ReadInv
<1>10. ServedOnce'
  BY <1>1, <1>2, <1>3, <1>4, <1>5, <1>6, <1>7, ServedSame
<1>11. GaveInv'
  <2>1. \A g \in gave' : g[1] <= deliveries'
    BY <1>1, <1>2, <1>3, <1>4, <1>5, <1>6, <1>7, NumFacts, GaveFacts DEF GaveInv
  <2>2. \A p \in payments' : p[1] <= deliveries' /\ \A q \in Reqs : delivery'[q] # p[1]
    BY <1>1, <1>2, <1>3, <1>4, <1>5, <1>6, <1>7, NumFacts, PayFacts DEF GaveInv
  <2>3. ASSUME NEW q \in Reqs, upc'[q] \in {"form", "mark", "named", "byMail", "mailed"} PROVE \A g \in gave' : g[1] # delivery'[q]
    BY <1>1, <1>2, <1>3, <1>4, <1>5, <1>6, <1>7, <2>3, NumFacts, GaveFacts DEF GaveInv
  <2>4. ASSUME NEW q \in Reqs, upc'[q] \in {"row", "audit"} PROVE namesOf(delivery[q])' = {nameRead'[q]} \ {NoName}
    BY <1>1, <1>2, <1>3, <1>4, <1>5, <1>6, <1>7, <2>4, NumFacts DEF GaveInv
  <2>5. QED
    BY <2>1, <2>2, <2>3, <2>4 DEF GaveInv
<1>12. AuditInv'
  BY <1>1, <1>2, <1>3, <1>4, <1>5, <1>6, <1>7, AuditSame
<1>13. BadgeInv'
  <2>1. Donors \ members' \subseteq renewed'
    BY <1>1, <1>2, <1>3, <1>4, <1>5, <1>6, <1>7 DEF BadgeInv
  <2>2. \A j \in 1..Len(forms') :
               forms'[j].status = "granted" /\ forms'[j].user \in members' \ renewed'
               => \/ forms'[j].user \in badge'
                  \/ \E q \in Reqs : formRead'[q] = j /\ upc'[q] \in {"named", "adminBadge"}
                  \/ j \in 1..Len(forms) /\ forms[j].status = "granted" /\ forms'[j].user = forms[j].user
    <3>1. forms'[formRead[r]].user \in members' \ renewed' =>
            nameRead[r] # NoName /\ formRead'[r] = formRead[r] /\ upc'[r] \in {"named", "adminBadge"}
      BY <1>1, <1>2, <1>3, <1>4, <1>5, <1>6, <1>7, SupportersAssumption DEF UTypeOK
    <3>2. QED
      BY <1>1, <1>2, <1>3, <1>4, <1>5, <1>6, <1>7, <3>1
  <2>3. \A q \in Reqs : upc[q] \in {"named", "adminBadge"} =>
               \/ upc'[q] = upc[q] /\ formRead'[q] = formRead[q]
               \/ forms[formRead[q]].user \in members' \ renewed' => forms[formRead[q]].user \in badge'
    BY <1>1, <1>2, <1>3, <1>4, <1>5, <1>6, <1>7 DEF ReadInv, ReadOf
  <2>4. QED
    BY <1>1, <1>2, <1>3, <1>4, <1>5, <1>6, <1>7, <2>1, <2>2, <2>3, BadgeStep
<1>14. TakenInv'
  <2>1. \A t \in taken' : t[2] <= Len(forms') /\ forms'[t[2]].status # "pending"
    <3>1. \A t \in taken : t[2] \in 1..Len(forms) /\ forms[t[2]].status # "pending"
      BY NumFacts DEF TakenInv, UTypeOK
    <3>2. QED
      BY <1>1, <1>2, <1>3, <1>4, <1>5, <1>6, <1>7, <3>1
  <2>2. ASSUME ~overlapped', NEW q \in Reqs, upc'[q] = "mark" PROVE FALSE
    <3>1. q # r /\ upc[q] = "mark"
      BY <1>1, <1>2, <1>3, <1>4, <1>5, <1>6, <1>7, <2>2, SupportersAssumption
    <3>2. delivery[q] # 0 /\ delivery[r] # 0
      BY <1>1, <1>2, <1>3, <1>4, <1>5, <1>6, <1>7, <3>1 DEF ReadInv, ReadOf, Webhook
    <3>3. QED
      BY <1>1, <1>2, <1>3, <1>4, <1>5, <1>6, <1>7, <2>2, <3>1, <3>2 DEF ServedOnce
  <2>3. QED
    BY <2>1, <2>2 DEF TakenInv
<1>15. FormTakenOnce'
  BY <1>1, <1>2, <1>3, <1>4, <1>5, <1>6, <1>7 DEF FormTakenOnce, TakenInv
<1>16. QED
  BY <1>8, <1>9, <1>10, <1>11, <1>12, <1>13, <1>14, <1>15

LEMMA BadgeNamedSup ==
    ASSUME SupInv, NEW r \in Reqs, badgeNamed(r)
    PROVE  SupInv'
<1> USE DEF SupInv
<1>1. /\ upc[r] = "named" /\ upc'[r] = "audit" /\ upc' \in [Reqs -> Places]
      /\ \A q \in Reqs \ {r} : upc'[q] = upc[q]
  BY PassFacts DEF badgeNamed, afterNamed, Places
<1>2. /\ delivery[r] \in 1..MaxDeliveries /\ delivery[r] <= deliveries /\ nameRead[r] \in Donors /\ nameRead[r] # NoName
  BY <1>1, SupportersAssumption DEF ReadInv, ReadOf, UTypeOK, Webhook
<1>3. /\ gave' = gave \cup ({delivery[r]} \X {nameRead[r]}) /\ gave' \subseteq (1..MaxDeliveries) \X Donors
      /\ \A g \in gave' \ gave : g[1] = delivery[r]
  BY <1>2 DEF badgeNamed, afterNamed, UTypeOK
<1>4. badge' = badge \cup ({nameRead[r]} \cap members) /\ badge' \subseteq members
  BY DEF badgeNamed, afterNamed, given, UTypeOK
<1>5. UNCHANGED <<forms, members, mailChecked, renewed, payments, formRead, nameRead, delivery, deliveries, taken, overlapped, stopped, asides>>
  BY DEF badgeNamed, afterNamed, userRows, found, uHistory
<1>6. \A n : namesOf(n)' = IF n = delivery[r] THEN namesOf(n) \cup {nameRead[r]} ELSE namesOf(n)
  BY <1>3, NamesFacts
<1>7. namesOf(delivery[r]) = {}
  BY <1>1, NamesNone DEF GaveInv
<1>8. formsKept /\ accountsKept
  BY <1>1, <1>2, <1>3, <1>4, <1>5, <1>6, <1>7, NumFacts DEF formsKept, accountsKept, UTypeOK, BadgeInv
<1>9. UTypeOK'
  BY <1>1, <1>2, <1>3, <1>4, <1>5, <1>6, <1>7, <1>8 DEF UTypeOK, Forms, Places, Names
<1>10. ReadInv'
  <2>1. ReadOf(r)'
    BY <1>1, <1>2, <1>3, <1>4, <1>5, <1>6, <1>7, <1>8, NumFacts DEF ReadInv, ReadOf, Webhook, UTypeOK, Names
  <2>2. \A q \in Reqs \ {r} : ReadOf(q)'
    BY <1>1, <1>2, <1>3, <1>4, <1>5, <1>6, <1>7, <1>8, ReadOther, NumFacts DEF ReadInv
  <2>3. QED
    BY <2>1, <2>2 DEF ReadInv
<1>11. ServedOnce'
  BY <1>1, <1>2, <1>3, <1>4, <1>5, <1>6, <1>7, <1>8, ServedSame
<1>12. GaveInv'
  <2>1. \A g \in gave' : g[1] <= deliveries'
    BY <1>1, <1>2, <1>3, <1>4, <1>5, <1>6, <1>7, <1>8, NumFacts, GaveFacts DEF GaveInv
  <2>2. \A p \in payments' : p[1] <= deliveries' /\ \A q \in Reqs : delivery'[q] # p[1]
    BY <1>1, <1>2, <1>3, <1>4, <1>5, <1>6, <1>7, <1>8, NumFacts, PayFacts DEF GaveInv, ServedOnce, ReadInv, ReadOf, Webhook
  <2>3. ASSUME NEW q \in Reqs, upc'[q] \in {"form", "mark", "named", "byMail", "mailed"} PROVE \A g \in gave' : g[1] # delivery'[q]
    BY <1>1, <1>2, <1>3, <1>4, <1>5, <1>6, <1>7, <1>8, <2>3, NumFacts, GaveFacts DEF GaveInv, ServedOnce, ReadInv, ReadOf, Webhook
  <2>4. ASSUME NEW q \in Reqs, upc'[q] \in {"row", "audit"} PROVE namesOf(delivery[q])' = {nameRead'[q]} \ {NoName}
    BY <1>1, <1>2, <1>3, <1>4, <1>5, <1>6, <1>7, <1>8, <2>4, NumFacts DEF GaveInv, ServedOnce, ReadInv, ReadOf, Webhook
  <2>5. QED
    BY <2>1, <2>2, <2>3, <2>4 DEF GaveInv
<1>13. AuditInv'
  BY <1>1, <1>2, <1>3, <1>4, <1>5, <1>6, <1>7, <1>8 DEF AuditInv, GaveInv
<1>14. BadgeInv'
  <2>1. Donors \ members' \subseteq renewed'
    BY <1>1, <1>2, <1>3, <1>4, <1>5, <1>6, <1>7, <1>8 DEF BadgeInv
  <2>2. \A j \in 1..Len(forms') :
               forms'[j].status = "granted" /\ forms'[j].user \in members' \ renewed'
               => \/ forms'[j].user \in badge'
                  \/ \E q \in Reqs : formRead'[q] = j /\ upc'[q] \in {"named", "adminBadge"}
                  \/ j \in 1..Len(forms) /\ forms[j].status = "granted" /\ forms'[j].user = forms[j].user
    BY <1>1, <1>2, <1>3, <1>4, <1>5, <1>6, <1>7, <1>8, NumFacts
  <2>3. \A q \in Reqs : upc[q] \in {"named", "adminBadge"} =>
               \/ upc'[q] = upc[q] /\ formRead'[q] = formRead[q]
               \/ forms[formRead[q]].user \in members' \ renewed' => forms[formRead[q]].user \in badge'
    BY <1>1, <1>2, <1>3, <1>4, <1>5, <1>6, <1>7, <1>8 DEF ReadInv, ReadOf
  <2>4. QED
    BY <1>1, <1>2, <1>3, <1>4, <1>5, <1>6, <1>7, <1>8, <2>1, <2>2, <2>3, BadgeStep
<1>15. TakenInv'
  BY <1>1, <1>2, <1>3, <1>4, <1>5, <1>6, <1>7, <1>8, TakenSame
<1>16. FormTakenOnce'
  BY <1>1, <1>2, <1>3, <1>4, <1>5, <1>6, <1>7, <1>8 DEF FormTakenOnce
<1>17. QED
  BY <1>9, <1>10, <1>11, <1>12, <1>13, <1>14, <1>15, <1>16

LEMMA FindAccountSup ==
    ASSUME SupInv, NEW r \in Reqs, findAccount(r)
    PROVE  SupInv'
<1> USE DEF SupInv
<1>1. /\ upc[r] = "byMail" /\ upc'[r] = (IF mailChecked THEN "mailed" ELSE "audit") /\ upc' \in [Reqs -> Places]
      /\ \A q \in Reqs \ {r} : upc'[q] = upc[q]
  BY PassFacts DEF findAccount, Places
<1>2. /\ nameRead'[r] = (IF mailChecked THEN MailHolder ELSE NoName) /\ nameRead' \in [Reqs -> Names] /\ MailHolder \in Donors
      /\ \A q \in Reqs \ {r} : nameRead'[q] = nameRead[q]
  BY SupportersAssumption DEF findAccount, UTypeOK, Names
<1>3. UNCHANGED <<forms, members, mailChecked, renewed, badge, payments, formRead, delivery, deliveries, gave, taken, overlapped, stopped, asides>>
  BY DEF findAccount, userRows, found, uHistory
<1>4. \A n : namesOf(n)' = namesOf(n)
  BY NamesSame DEF findAccount, uHistory
<1>5. namesOf(delivery[r]) = {}
  BY <1>1, NamesNone DEF GaveInv
<1>6. formsKept /\ accountsKept
  BY <1>1, <1>2, <1>3, <1>4, <1>5, NumFacts DEF formsKept, accountsKept, UTypeOK, BadgeInv
<1>7. UTypeOK'
  BY <1>1, <1>2, <1>3, <1>4, <1>5, <1>6 DEF UTypeOK, Forms, Places, Names
<1>8. ReadInv'
  <2>1. ReadOf(r)'
    BY <1>1, <1>2, <1>3, <1>4, <1>5, <1>6, NumFacts DEF ReadInv, ReadOf, Webhook, UTypeOK, Names
  <2>2. \A q \in Reqs \ {r} : ReadOf(q)'
    BY <1>1, <1>2, <1>3, <1>4, <1>5, <1>6, ReadOther, NumFacts DEF ReadInv
  <2>3. QED
    BY <2>1, <2>2 DEF ReadInv
<1>9. ServedOnce'
  BY <1>1, <1>2, <1>3, <1>4, <1>5, <1>6, ServedSame
<1>10. GaveInv'
  <2>1. \A g \in gave' : g[1] <= deliveries'
    BY <1>1, <1>2, <1>3, <1>4, <1>5, <1>6, NumFacts, GaveFacts DEF GaveInv
  <2>2. \A p \in payments' : p[1] <= deliveries' /\ \A q \in Reqs : delivery'[q] # p[1]
    BY <1>1, <1>2, <1>3, <1>4, <1>5, <1>6, NumFacts, PayFacts DEF GaveInv
  <2>3. ASSUME NEW q \in Reqs, upc'[q] \in {"form", "mark", "named", "byMail", "mailed"} PROVE \A g \in gave' : g[1] # delivery'[q]
    BY <1>1, <1>2, <1>3, <1>4, <1>5, <1>6, <2>3, NumFacts, GaveFacts DEF GaveInv
  <2>4. ASSUME NEW q \in Reqs, upc'[q] \in {"row", "audit"} PROVE namesOf(delivery[q])' = {nameRead'[q]} \ {NoName}
    BY <1>1, <1>2, <1>3, <1>4, <1>5, <1>6, <2>4, NumFacts DEF GaveInv
  <2>5. QED
    BY <2>1, <2>2, <2>3, <2>4 DEF GaveInv
<1>11. AuditInv'
  BY <1>1, <1>2, <1>3, <1>4, <1>5, <1>6, AuditSame
<1>12. BadgeInv'
  BY <1>1, <1>2, <1>3, <1>4, <1>5, <1>6, BadgeSame
<1>13. TakenInv'
  BY <1>1, <1>2, <1>3, <1>4, <1>5, <1>6, TakenSame
<1>14. FormTakenOnce'
  BY <1>1, <1>2, <1>3, <1>4, <1>5, <1>6 DEF FormTakenOnce
<1>15. QED
  BY <1>7, <1>8, <1>9, <1>10, <1>11, <1>12, <1>13, <1>14

LEMMA BadgeByMailSup ==
    ASSUME SupInv, NEW r \in Reqs, badgeByMail(r)
    PROVE  SupInv'
<1> USE DEF SupInv
<1>1. /\ upc[r] = "mailed" /\ upc'[r] = "row" /\ upc' \in [Reqs -> Places]
      /\ \A q \in Reqs \ {r} : upc'[q] = upc[q]
  BY PassFacts DEF badgeByMail, Places
<1>2. /\ delivery[r] \in 1..MaxDeliveries /\ delivery[r] <= deliveries /\ nameRead[r] \in Donors /\ nameRead[r] # NoName
  BY <1>1, SupportersAssumption DEF ReadInv, ReadOf, UTypeOK, Webhook
<1>3. /\ gave' = gave \cup ({delivery[r]} \X {nameRead[r]}) /\ gave' \subseteq (1..MaxDeliveries) \X Donors
      /\ \A g \in gave' \ gave : g[1] = delivery[r]
  BY <1>2 DEF badgeByMail, UTypeOK
<1>4. badge' = badge \cup ({nameRead[r]} \cap members) /\ badge' \subseteq members
  BY DEF badgeByMail, given, UTypeOK
<1>5. UNCHANGED <<forms, members, mailChecked, renewed, payments, formRead, nameRead, delivery, deliveries, taken, overlapped, stopped, asides>>
  BY DEF badgeByMail, userRows, found, uHistory
<1>6. \A n : namesOf(n)' = IF n = delivery[r] THEN namesOf(n) \cup {nameRead[r]} ELSE namesOf(n)
  BY <1>3, NamesFacts
<1>7. namesOf(delivery[r]) = {}
  BY <1>1, NamesNone DEF GaveInv
<1>8. formsKept /\ accountsKept
  BY <1>1, <1>2, <1>3, <1>4, <1>5, <1>6, <1>7, NumFacts DEF formsKept, accountsKept, UTypeOK, BadgeInv
<1>9. UTypeOK'
  BY <1>1, <1>2, <1>3, <1>4, <1>5, <1>6, <1>7, <1>8 DEF UTypeOK, Forms, Places, Names
<1>10. ReadInv'
  <2>1. ReadOf(r)'
    BY <1>1, <1>2, <1>3, <1>4, <1>5, <1>6, <1>7, <1>8, NumFacts DEF ReadInv, ReadOf, Webhook, UTypeOK, Names
  <2>2. \A q \in Reqs \ {r} : ReadOf(q)'
    BY <1>1, <1>2, <1>3, <1>4, <1>5, <1>6, <1>7, <1>8, ReadOther, NumFacts DEF ReadInv
  <2>3. QED
    BY <2>1, <2>2 DEF ReadInv
<1>11. ServedOnce'
  BY <1>1, <1>2, <1>3, <1>4, <1>5, <1>6, <1>7, <1>8, ServedSame
<1>12. GaveInv'
  <2>1. \A g \in gave' : g[1] <= deliveries'
    BY <1>1, <1>2, <1>3, <1>4, <1>5, <1>6, <1>7, <1>8, NumFacts, GaveFacts DEF GaveInv
  <2>2. \A p \in payments' : p[1] <= deliveries' /\ \A q \in Reqs : delivery'[q] # p[1]
    BY <1>1, <1>2, <1>3, <1>4, <1>5, <1>6, <1>7, <1>8, NumFacts, PayFacts DEF GaveInv, ServedOnce, ReadInv, ReadOf, Webhook
  <2>3. ASSUME NEW q \in Reqs, upc'[q] \in {"form", "mark", "named", "byMail", "mailed"} PROVE \A g \in gave' : g[1] # delivery'[q]
    BY <1>1, <1>2, <1>3, <1>4, <1>5, <1>6, <1>7, <1>8, <2>3, NumFacts, GaveFacts DEF GaveInv, ServedOnce, ReadInv, ReadOf, Webhook
  <2>4. ASSUME NEW q \in Reqs, upc'[q] \in {"row", "audit"} PROVE namesOf(delivery[q])' = {nameRead'[q]} \ {NoName}
    BY <1>1, <1>2, <1>3, <1>4, <1>5, <1>6, <1>7, <1>8, <2>4, NumFacts DEF GaveInv, ServedOnce, ReadInv, ReadOf, Webhook
  <2>5. QED
    BY <2>1, <2>2, <2>3, <2>4 DEF GaveInv
<1>13. AuditInv'
  BY <1>1, <1>2, <1>3, <1>4, <1>5, <1>6, <1>7, <1>8 DEF AuditInv, GaveInv
<1>14. BadgeInv'
  <2>1. Donors \ members' \subseteq renewed'
    BY <1>1, <1>2, <1>3, <1>4, <1>5, <1>6, <1>7, <1>8 DEF BadgeInv
  <2>2. \A j \in 1..Len(forms') :
               forms'[j].status = "granted" /\ forms'[j].user \in members' \ renewed'
               => \/ forms'[j].user \in badge'
                  \/ \E q \in Reqs : formRead'[q] = j /\ upc'[q] \in {"named", "adminBadge"}
                  \/ j \in 1..Len(forms) /\ forms[j].status = "granted" /\ forms'[j].user = forms[j].user
    BY <1>1, <1>2, <1>3, <1>4, <1>5, <1>6, <1>7, <1>8, NumFacts
  <2>3. \A q \in Reqs : upc[q] \in {"named", "adminBadge"} =>
               \/ upc'[q] = upc[q] /\ formRead'[q] = formRead[q]
               \/ forms[formRead[q]].user \in members' \ renewed' => forms[formRead[q]].user \in badge'
    BY <1>1, <1>2, <1>3, <1>4, <1>5, <1>6, <1>7, <1>8 DEF ReadInv, ReadOf
  <2>4. QED
    BY <1>1, <1>2, <1>3, <1>4, <1>5, <1>6, <1>7, <1>8, <2>1, <2>2, <2>3, BadgeStep
<1>15. TakenInv'
  BY <1>1, <1>2, <1>3, <1>4, <1>5, <1>6, <1>7, <1>8, TakenSame
<1>16. FormTakenOnce'
  BY <1>1, <1>2, <1>3, <1>4, <1>5, <1>6, <1>7, <1>8 DEF FormTakenOnce
<1>17. QED
  BY <1>9, <1>10, <1>11, <1>12, <1>13, <1>14, <1>15, <1>16

LEMMA InsertFacts ==
    ASSUME UTypeOK, NEW u \in Names, insertGranted(u)
    PROVE  /\ forms' \in Seq(Forms) /\ Len(forms') <= MaxForms /\ Len(forms') >= Len(forms)
           /\ Len(forms) \in Nat /\ Len(forms') \in Nat
           /\ \A j \in 1..Len(forms) : forms'[j] = forms[j]
           /\ \A j \in 1..Len(forms') : j \notin 1..Len(forms) => forms'[j].user = u /\ forms'[j].status = "granted"
<1>1. Len(forms) \in Nat /\ Len(forms) <= MaxForms /\ MaxForms \in Nat /\ forms \in Seq(Forms)
  BY SupportersAssumption DEF UTypeOK, Forms
<1>2. CASE Len(forms) < MaxForms
  BY <1>1, <1>2, AddsFacts DEF insertGranted
<1>3. CASE ~(Len(forms) < MaxForms)
  BY <1>1, <1>3 DEF insertGranted
<1>4. QED
  BY <1>2, <1>3

LEMMA RecordGrantSup ==
    ASSUME SupInv, NEW r \in Reqs, recordGrant(r)
    PROVE  SupInv'
<1> USE DEF SupInv
<1>1. /\ upc[r] = "row" /\ upc'[r] = "audit" /\ upc' \in [Reqs -> Places]
      /\ \A q \in Reqs \ {r} : upc'[q] = upc[q]
  BY PassFacts DEF recordGrant, Places
<1>2. nameRead[r] \in Names
  BY DEF UTypeOK
<1>3. /\ forms' \in Seq(Forms) /\ Len(forms') <= MaxForms /\ Len(forms') >= Len(forms) /\ Len(forms) \in Nat /\ Len(forms') \in Nat
      /\ \A j \in 1..Len(forms) : forms'[j] = forms[j]
      /\ \A j \in 1..Len(forms') : j \notin 1..Len(forms) => forms'[j].user = nameRead[r] /\ forms'[j].status = "granted"
  BY <1>2, InsertFacts DEF recordGrant
<1>4. UNCHANGED <<members, mailChecked, renewed, badge, payments, formRead, nameRead, delivery, deliveries, gave, taken, overlapped, stopped, asides>>
  BY DEF recordGrant, userRows, found, uHistory
<1>5. \A n : namesOf(n)' = namesOf(n)
  BY NamesSame DEF recordGrant, uHistory
<1>6. formsKept /\ accountsKept
  BY <1>1, <1>2, <1>3, <1>4, <1>5, NumFacts DEF formsKept, accountsKept, UTypeOK, BadgeInv
<1>7. UTypeOK'
  BY <1>1, <1>2, <1>3, <1>4, <1>5, <1>6 DEF UTypeOK, Forms, Places, Names
<1>8. ReadInv'
  <2>1. ReadOf(r)'
    BY <1>1, <1>2, <1>3, <1>4, <1>5, <1>6, NumFacts DEF ReadInv, ReadOf, Webhook, UTypeOK, Names
  <2>2. \A q \in Reqs \ {r} : ReadOf(q)'
    BY <1>1, <1>2, <1>3, <1>4, <1>5, <1>6, ReadOther, NumFacts DEF ReadInv
  <2>3. QED
    BY <2>1, <2>2 DEF ReadInv
<1>9. ServedOnce'
  BY <1>1, <1>2, <1>3, <1>4, <1>5, <1>6, ServedSame
<1>10. GaveInv'
  <2>1. \A g \in gave' : g[1] <= deliveries'
    BY <1>1, <1>2, <1>3, <1>4, <1>5, <1>6, NumFacts, GaveFacts DEF GaveInv
  <2>2. \A p \in payments' : p[1] <= deliveries' /\ \A q \in Reqs : delivery'[q] # p[1]
    BY <1>1, <1>2, <1>3, <1>4, <1>5, <1>6, NumFacts, PayFacts DEF GaveInv
  <2>3. ASSUME NEW q \in Reqs, upc'[q] \in {"form", "mark", "named", "byMail", "mailed"} PROVE \A g \in gave' : g[1] # delivery'[q]
    BY <1>1, <1>2, <1>3, <1>4, <1>5, <1>6, <2>3, NumFacts, GaveFacts DEF GaveInv
  <2>4. ASSUME NEW q \in Reqs, upc'[q] \in {"row", "audit"} PROVE namesOf(delivery[q])' = {nameRead'[q]} \ {NoName}
    BY <1>1, <1>2, <1>3, <1>4, <1>5, <1>6, <2>4, NumFacts DEF GaveInv
  <2>5. QED
    BY <2>1, <2>2, <2>3, <2>4 DEF GaveInv
<1>11. AuditInv'
  BY <1>1, <1>2, <1>3, <1>4, <1>5, <1>6, AuditSame
<1>12. BadgeInv'
  <2>1. Donors \ members' \subseteq renewed'
    BY <1>1, <1>2, <1>3, <1>4, <1>5, <1>6 DEF BadgeInv
  <2>2. \A j \in 1..Len(forms') :
               forms'[j].status = "granted" /\ forms'[j].user \in members' \ renewed'
               => \/ forms'[j].user \in badge'
                  \/ \E q \in Reqs : formRead'[q] = j /\ upc'[q] \in {"named", "adminBadge"}
                  \/ j \in 1..Len(forms) /\ forms[j].status = "granted" /\ forms'[j].user = forms[j].user
    BY <1>1, <1>2, <1>3, <1>4, <1>5, <1>6, NumFacts DEF ReadInv, ReadOf
  <2>3. \A q \in Reqs : upc[q] \in {"named", "adminBadge"} =>
               \/ upc'[q] = upc[q] /\ formRead'[q] = formRead[q]
               \/ forms[formRead[q]].user \in members' \ renewed' => forms[formRead[q]].user \in badge'
    BY <1>1, <1>2, <1>3, <1>4, <1>5, <1>6 DEF ReadInv, ReadOf
  <2>4. QED
    BY <1>1, <1>2, <1>3, <1>4, <1>5, <1>6, <2>1, <2>2, <2>3, BadgeStep
<1>13. TakenInv'
  BY <1>1, <1>2, <1>3, <1>4, <1>5, <1>6, TakenSame
<1>14. FormTakenOnce'
  BY <1>1, <1>2, <1>3, <1>4, <1>5, <1>6 DEF FormTakenOnce
<1>15. QED
  BY <1>7, <1>8, <1>9, <1>10, <1>11, <1>12, <1>13, <1>14

LEMMA AuditSup ==
    ASSUME SupInv, NEW r \in Reqs, audit(r)
    PROVE  SupInv'
<1> USE DEF SupInv
<1>1. /\ upc[r] = "audit" /\ upc'[r] = "idle" /\ upc' \in [Reqs -> Places]
      /\ formRead'[r] = 0 /\ nameRead'[r] = NoName /\ delivery'[r] = 0
      /\ formRead' \in [Reqs -> 0..MaxForms] /\ nameRead' \in [Reqs -> Names]
      /\ delivery' \in [Reqs -> 0..MaxDeliveries]
      /\ \A q \in Reqs \ {r} : /\ upc'[q] = upc[q] /\ formRead'[q] = formRead[q]
                                /\ nameRead'[q] = nameRead[q] /\ delivery'[q] = delivery[q]
  BY AnsweredFacts DEF audit
<1>2. /\ delivery[r] \in 1..MaxDeliveries /\ delivery[r] <= deliveries /\ nameRead[r] \in Names
  BY <1>1, SupportersAssumption DEF ReadInv, ReadOf, UTypeOK, Webhook
<1>3. /\ payments' = payments \cup {<<delivery[r], nameRead[r]>>} /\ payments' \subseteq (1..MaxDeliveries) \X Names
      /\ <<delivery[r], nameRead[r]>>[1] = delivery[r] /\ <<delivery[r], nameRead[r]>>[2] = nameRead[r]
  BY <1>2 DEF audit, UTypeOK
<1>4. UNCHANGED <<forms, members, mailChecked, renewed, badge, deliveries, gave, taken, overlapped, stopped, asides>>
  BY DEF audit, userRows, found, uHistory
<1>5. \A n : namesOf(n)' = namesOf(n)
  BY NamesSame DEF audit, uHistory
<1>6. formsKept /\ accountsKept
  BY <1>1, <1>2, <1>3, <1>4, <1>5, NumFacts DEF formsKept, accountsKept, UTypeOK, BadgeInv
<1>7. UTypeOK'
  BY <1>1, <1>2, <1>3, <1>4, <1>5, <1>6 DEF UTypeOK, Forms, Places, Names
<1>8. ReadInv'
  <2>1. ReadOf(r)'
    BY <1>1, <1>2, <1>3, <1>4, <1>5, <1>6, NumFacts DEF ReadInv, ReadOf, Webhook, UTypeOK, Names
  <2>2. \A q \in Reqs \ {r} : ReadOf(q)'
    BY <1>1, <1>2, <1>3, <1>4, <1>5, <1>6, ReadOther, NumFacts DEF ReadInv
  <2>3. QED
    BY <2>1, <2>2 DEF ReadInv
<1>9. ServedOnce'
  BY <1>1, <1>2, <1>3, <1>4, <1>5, <1>6, ServedSame
<1>10. GaveInv'
  <2>1. \A g \in gave' : g[1] <= deliveries'
    BY <1>1, <1>2, <1>3, <1>4, <1>5, <1>6, NumFacts, GaveFacts DEF GaveInv
  <2>2. \A p \in payments' : p[1] <= deliveries' /\ \A q \in Reqs : delivery'[q] # p[1]
    <3>1. \A p \in payments : p[1] <= deliveries' /\ \A q \in Reqs : delivery'[q] # p[1]
      BY <1>1, <1>2, <1>3, <1>4, <1>5, <1>6, PayFacts DEF GaveInv
    <3>2. \A q \in Reqs : delivery'[q] # delivery[r]
      BY <1>1, <1>2, <1>3, <1>4, <1>5, <1>6 DEF ServedOnce
    <3>3. QED
      BY <1>1, <1>2, <1>3, <1>4, <1>5, <1>6, <3>1, <3>2
  <2>3. ASSUME NEW q \in Reqs, upc'[q] \in {"form", "mark", "named", "byMail", "mailed"} PROVE \A g \in gave' : g[1] # delivery'[q]
    BY <1>1, <1>2, <1>3, <1>4, <1>5, <1>6, <2>3, NumFacts, GaveFacts DEF GaveInv, ServedOnce, ReadInv, ReadOf, Webhook
  <2>4. ASSUME NEW q \in Reqs, upc'[q] \in {"row", "audit"} PROVE namesOf(delivery[q])' = {nameRead'[q]} \ {NoName}
    BY <1>1, <1>2, <1>3, <1>4, <1>5, <1>6, <2>4, NumFacts DEF GaveInv, ServedOnce, ReadInv, ReadOf, Webhook
  <2>5. QED
    BY <2>1, <2>2, <2>3, <2>4 DEF GaveInv
<1>11. AuditInv'
  <2>1. namesOf(delivery[r]) = {nameRead[r]} \ {NoName}
    BY <1>1, <1>2, <1>3, <1>4, <1>5, <1>6 DEF GaveInv
  <2>2. \A p \in payments' : namesOf(p[1]) = {p[2]} \ {NoName}
    BY <1>1, <1>2, <1>3, <1>4, <1>5, <1>6, <2>1 DEF AuditInv
  <2>3. QED
    BY <1>1, <1>2, <1>3, <1>4, <1>5, <1>6, <2>2 DEF AuditInv
<1>12. BadgeInv'
  BY <1>1, <1>2, <1>3, <1>4, <1>5, <1>6, BadgeSame
<1>13. TakenInv'
  BY <1>1, <1>2, <1>3, <1>4, <1>5, <1>6, TakenSame
<1>14. FormTakenOnce'
  BY <1>1, <1>2, <1>3, <1>4, <1>5, <1>6 DEF FormTakenOnce
<1>15. QED
  BY <1>7, <1>8, <1>9, <1>10, <1>11, <1>12, <1>13, <1>14

LEMMA AdminGrantSup ==
    ASSUME SupInv, NEW r \in Reqs, NEW i \in 1..MaxForms, adminGrant(r, i)
    PROVE  SupInv'
<1> USE DEF SupInv
<1>1. /\ upc[r] = "idle" /\ upc'[r] = "adminMark" /\ upc' \in [Reqs -> Places]
      /\ \A q \in Reqs \ {r} : upc'[q] = upc[q]
  BY PassFacts DEF adminGrant, Places
<1>2. /\ i \in 1..Len(forms) /\ i \in 0..MaxForms /\ forms[i].user \in Names /\ asides' \in 0..MaxAsides
  <2>1. i \in 1..Len(forms)
    BY NumFacts DEF adminGrant
  <2>2. asides' \in 0..MaxAsides
    BY NumFacts DEF adminGrant, aside, UTypeOK
  <2>3. QED
    BY <2>1, <2>2, FormFacts
<1>3. /\ formRead'[r] = i /\ formRead' \in [Reqs -> 0..MaxForms] /\ nameRead'[r] = forms[i].user /\ nameRead' \in [Reqs -> Names]
      /\ \A q \in Reqs \ {r} : formRead'[q] = formRead[q] /\ nameRead'[q] = nameRead[q]
  BY <1>2 DEF adminGrant, UTypeOK
<1>4. UNCHANGED <<forms, members, mailChecked, renewed, badge, payments, delivery, deliveries, gave, taken, overlapped, stopped>>
  BY DEF adminGrant, userRows, found, uHistory
<1>5. \A n : namesOf(n)' = namesOf(n)
  BY NamesSame DEF adminGrant, uHistory
<1>6. formsKept /\ accountsKept
  BY <1>1, <1>2, <1>3, <1>4, <1>5, NumFacts DEF formsKept, accountsKept, UTypeOK, BadgeInv
<1>7. UTypeOK'
  BY <1>1, <1>2, <1>3, <1>4, <1>5, <1>6 DEF UTypeOK, Forms, Places, Names
<1>8. ReadInv'
  <2>1. ReadOf(r)'
    BY <1>1, <1>2, <1>3, <1>4, <1>5, <1>6, NumFacts, AtFacts DEF ReadOf, Webhook
  <2>2. \A q \in Reqs \ {r} : ReadOf(q)'
    BY <1>1, <1>2, <1>3, <1>4, <1>5, <1>6, ReadOther, NumFacts DEF ReadInv
  <2>3. QED
    BY <2>1, <2>2 DEF ReadInv
<1>9. ServedOnce'
  BY <1>1, <1>2, <1>3, <1>4, <1>5, <1>6, ServedSame
<1>10. GaveInv'
  BY <1>1, <1>2, <1>3, <1>4, <1>5, <1>6, NumFacts, GaveSame, PayFacts DEF Webhook
<1>11. AuditInv'
  BY <1>1, <1>2, <1>3, <1>4, <1>5, <1>6, AuditSame
<1>12. BadgeInv'
  BY <1>1, <1>2, <1>3, <1>4, <1>5, <1>6, BadgeSame
<1>13. TakenInv'
  BY <1>1, <1>2, <1>3, <1>4, <1>5, <1>6, TakenSame
<1>14. FormTakenOnce'
  BY <1>1, <1>2, <1>3, <1>4, <1>5, <1>6 DEF FormTakenOnce
<1>15. QED
  BY <1>7, <1>8, <1>9, <1>10, <1>11, <1>12, <1>13, <1>14

LEMMA AdminMarkSup ==
    ASSUME SupInv, NEW r \in Reqs, adminMark(r)
    PROVE  SupInv'
<1> USE DEF SupInv
<1>1. /\ upc[r] = "adminMark" /\ upc'[r] = (IF nameRead[r] = NoName THEN "idle" ELSE "adminBadge") /\ upc' \in [Reqs -> Places]
      /\ nameRead[r] # NoName => formRead' = formRead /\ nameRead' = nameRead
      /\ nameRead[r] = NoName => formRead'[r] = 0 /\ nameRead'[r] = NoName
      /\ formRead' \in [Reqs -> 0..MaxForms] /\ nameRead' \in [Reqs -> Names]
      /\ delivery' \in [Reqs -> 0..MaxDeliveries] /\ (delivery' = delivery \/ delivery'[r] = 0)
      /\ \A q \in Reqs \ {r} : /\ upc'[q] = upc[q] /\ formRead'[q] = formRead[q]
                                /\ nameRead'[q] = nameRead[q] /\ delivery'[q] = delivery[q]
  <2>1. CASE nameRead[r] = NoName
    <3>1. answered(r, "adminMark")
      BY <2>1 DEF adminMark
    <3>2. QED
      BY <2>1, <3>1, AnsweredFacts
  <2>2. CASE nameRead[r] # NoName
    <3>1. passes(r, "adminMark", "adminBadge") /\ UNCHANGED <<formRead, nameRead, delivery>>
      BY <2>2 DEF adminMark, found
    <3>2. "adminBadge" \in Places
      BY DEF Places
    <3>3. QED
      BY <2>2, <3>1, <3>2, PassFacts DEF UTypeOK
  <2>3. QED
    BY <2>1, <2>2
<1>2. /\ formRead[r] \in 1..Len(forms) /\ formRead[r] \in 1..MaxForms /\ nameRead[r] = forms[formRead[r]].user
      /\ delivery[r] = 0 /\ delivery'[r] = 0 /\ nameRead[r] \in Names /\ Len(forms) \in Nat
  <2>1. /\ formRead[r] \in 1..Len(forms) /\ nameRead[r] = forms[formRead[r]].user /\ Len(forms) \in Nat
        /\ delivery[r] = 0
    BY <1>1, NumFacts, AtFacts
  <2>2. QED
    BY <1>1, <2>1, FormFacts
<1>3. /\ forms' \in Seq(Forms) /\ Len(forms') = Len(forms)
      /\ \A j \in 1..Len(forms) : /\ forms'[j].user = forms[j].user
                                   /\ forms'[j].status = IF j = formRead[r] THEN "granted" ELSE forms[j].status
  BY <1>2, MarkedFacts DEF adminMark
<1>4. UNCHANGED <<members, mailChecked, renewed, badge, payments, deliveries, gave, taken, overlapped, stopped, asides>>
  BY DEF adminMark, userRows, found, uHistory
<1>5. \A n : namesOf(n)' = namesOf(n)
  BY NamesSame DEF adminMark, uHistory
<1>6. formsKept /\ accountsKept
  BY <1>1, <1>2, <1>3, <1>4, <1>5, NumFacts DEF formsKept, accountsKept, UTypeOK, BadgeInv
<1>7. UTypeOK'
  BY <1>1, <1>2, <1>3, <1>4, <1>5, <1>6 DEF UTypeOK, Forms, Places, Names
<1>8. ReadInv'
  <2>1. ReadOf(r)'
    BY <1>1, <1>2, <1>3, <1>4, <1>5, <1>6, NumFacts DEF ReadInv, ReadOf, Webhook, UTypeOK, Names
  <2>2. \A q \in Reqs \ {r} : ReadOf(q)'
    BY <1>1, <1>2, <1>3, <1>4, <1>5, <1>6, ReadOther, NumFacts DEF ReadInv
  <2>3. QED
    BY <2>1, <2>2 DEF ReadInv
<1>9. ServedOnce'
  BY <1>1, <1>2, <1>3, <1>4, <1>5, <1>6, ServedSame
<1>10. GaveInv'
  BY <1>1, <1>2, <1>3, <1>4, <1>5, <1>6, NumFacts, GaveSame, PayFacts DEF Webhook
<1>11. AuditInv'
  BY <1>1, <1>2, <1>3, <1>4, <1>5, <1>6, AuditSame
<1>12. BadgeInv'
  <2>1. Donors \ members' \subseteq renewed'
    BY <1>1, <1>2, <1>3, <1>4, <1>5, <1>6 DEF BadgeInv
  <2>2. \A j \in 1..Len(forms') :
               forms'[j].status = "granted" /\ forms'[j].user \in members' \ renewed'
               => \/ forms'[j].user \in badge'
                  \/ \E q \in Reqs : formRead'[q] = j /\ upc'[q] \in {"named", "adminBadge"}
                  \/ j \in 1..Len(forms) /\ forms[j].status = "granted" /\ forms'[j].user = forms[j].user
    <3>1. forms'[formRead[r]].user \in members' \ renewed' =>
            nameRead[r] # NoName /\ formRead'[r] = formRead[r] /\ upc'[r] \in {"named", "adminBadge"}
      BY <1>1, <1>2, <1>3, <1>4, <1>5, <1>6, SupportersAssumption DEF UTypeOK
    <3>2. QED
      BY <1>1, <1>2, <1>3, <1>4, <1>5, <1>6, <3>1
  <2>3. \A q \in Reqs : upc[q] \in {"named", "adminBadge"} =>
               \/ upc'[q] = upc[q] /\ formRead'[q] = formRead[q]
               \/ forms[formRead[q]].user \in members' \ renewed' => forms[formRead[q]].user \in badge'
    BY <1>1, <1>2, <1>3, <1>4, <1>5, <1>6 DEF ReadInv, ReadOf
  <2>4. QED
    BY <1>1, <1>2, <1>3, <1>4, <1>5, <1>6, <2>1, <2>2, <2>3, BadgeStep
<1>13. TakenInv'
  BY <1>1, <1>2, <1>3, <1>4, <1>5, <1>6, TakenSame
<1>14. FormTakenOnce'
  BY <1>1, <1>2, <1>3, <1>4, <1>5, <1>6 DEF FormTakenOnce
<1>15. QED
  BY <1>7, <1>8, <1>9, <1>10, <1>11, <1>12, <1>13, <1>14

LEMMA AdminGrantedSup ==
    ASSUME SupInv, NEW r \in Reqs, adminGranted(r)
    PROVE  SupInv'
<1> USE DEF SupInv
<1>1. /\ upc[r] = "adminBadge" /\ upc'[r] = "idle" /\ upc' \in [Reqs -> Places]
      /\ formRead'[r] = 0 /\ nameRead'[r] = NoName /\ delivery'[r] = 0
      /\ formRead' \in [Reqs -> 0..MaxForms] /\ nameRead' \in [Reqs -> Names]
      /\ delivery' \in [Reqs -> 0..MaxDeliveries]
      /\ \A q \in Reqs \ {r} : /\ upc'[q] = upc[q] /\ formRead'[q] = formRead[q]
                                /\ nameRead'[q] = nameRead[q] /\ delivery'[q] = delivery[q]
  BY AnsweredFacts DEF adminGranted
<1>2. badge' = badge \cup ({nameRead[r]} \cap members) /\ badge' \subseteq members
  BY DEF adminGranted, adminBadge, given, UTypeOK
<1>3. formRead[r] \in 1..Len(forms) /\ nameRead[r] = forms[formRead[r]].user /\ nameRead[r] \in Donors /\ delivery[r] = 0
  BY <1>1, AtFacts
<1>4. UNCHANGED <<forms, members, mailChecked, renewed, payments, deliveries, gave, taken, overlapped, stopped, asides>>
  BY DEF adminGranted, userRows, found, uHistory
<1>5. \A n : namesOf(n)' = namesOf(n)
  BY NamesSame DEF adminGranted, uHistory
<1>6. formsKept /\ accountsKept
  BY <1>1, <1>2, <1>3, <1>4, <1>5, NumFacts DEF formsKept, accountsKept, UTypeOK, BadgeInv
<1>7. UTypeOK'
  BY <1>1, <1>2, <1>3, <1>4, <1>5, <1>6 DEF UTypeOK, Forms, Places, Names
<1>8. ReadInv'
  <2>1. ReadOf(r)'
    BY <1>1, <1>2, <1>3, <1>4, <1>5, <1>6, NumFacts DEF ReadInv, ReadOf, Webhook, UTypeOK, Names
  <2>2. \A q \in Reqs \ {r} : ReadOf(q)'
    BY <1>1, <1>2, <1>3, <1>4, <1>5, <1>6, ReadOther, NumFacts DEF ReadInv
  <2>3. QED
    BY <2>1, <2>2 DEF ReadInv
<1>9. ServedOnce'
  BY <1>1, <1>2, <1>3, <1>4, <1>5, <1>6, ServedSame
<1>10. GaveInv'
  BY <1>1, <1>2, <1>3, <1>4, <1>5, <1>6, NumFacts, GaveSame, PayFacts DEF Webhook
<1>11. AuditInv'
  BY <1>1, <1>2, <1>3, <1>4, <1>5, <1>6, AuditSame
<1>12. BadgeInv'
  <2>1. Donors \ members' \subseteq renewed'
    BY <1>1, <1>2, <1>3, <1>4, <1>5, <1>6 DEF BadgeInv
  <2>2. \A j \in 1..Len(forms') :
               forms'[j].status = "granted" /\ forms'[j].user \in members' \ renewed'
               => \/ forms'[j].user \in badge'
                  \/ \E q \in Reqs : formRead'[q] = j /\ upc'[q] \in {"named", "adminBadge"}
                  \/ j \in 1..Len(forms) /\ forms[j].status = "granted" /\ forms'[j].user = forms[j].user
    BY <1>1, <1>2, <1>3, <1>4, <1>5, <1>6, NumFacts
  <2>3. \A q \in Reqs : upc[q] \in {"named", "adminBadge"} =>
               \/ upc'[q] = upc[q] /\ formRead'[q] = formRead[q]
               \/ forms[formRead[q]].user \in members' \ renewed' => forms[formRead[q]].user \in badge'
    BY <1>1, <1>2, <1>3, <1>4, <1>5, <1>6 DEF ReadInv, ReadOf
  <2>4. QED
    BY <1>1, <1>2, <1>3, <1>4, <1>5, <1>6, <2>1, <2>2, <2>3, BadgeStep
<1>13. TakenInv'
  BY <1>1, <1>2, <1>3, <1>4, <1>5, <1>6, TakenSame
<1>14. FormTakenOnce'
  BY <1>1, <1>2, <1>3, <1>4, <1>5, <1>6 DEF FormTakenOnce
<1>15. QED
  BY <1>7, <1>8, <1>9, <1>10, <1>11, <1>12, <1>13, <1>14

LEMMA AdminGrantDirectSup ==
    ASSUME SupInv, NEW r \in Reqs, NEW u \in Donors, adminGrantDirect(r, u)
    PROVE  SupInv'
<1> USE DEF SupInv
<1>1. /\ upc[r] = "idle" /\ upc'[r] = "direct" /\ upc' \in [Reqs -> Places]
      /\ \A q \in Reqs \ {r} : upc'[q] = upc[q]
  BY PassFacts DEF adminGrantDirect, Places
<1>2. /\ nameRead'[r] = u /\ nameRead' \in [Reqs -> Names] /\ asides' \in 0..MaxAsides
      /\ \A q \in Reqs \ {r} : nameRead'[q] = nameRead[q]
  BY SupportersAssumption DEF adminGrantDirect, aside, UTypeOK, Names
<1>3. UNCHANGED <<forms, members, mailChecked, renewed, badge, payments, formRead, delivery, deliveries, gave, taken, overlapped, stopped>>
  BY DEF adminGrantDirect, userRows, found, uHistory
<1>4. \A n : namesOf(n)' = namesOf(n)
  BY NamesSame DEF adminGrantDirect, uHistory
<1>5. formsKept /\ accountsKept
  BY <1>1, <1>2, <1>3, <1>4, NumFacts DEF formsKept, accountsKept, UTypeOK, BadgeInv
<1>6. UTypeOK'
  BY <1>1, <1>2, <1>3, <1>4, <1>5 DEF UTypeOK, Forms, Places, Names
<1>7. ReadInv'
  <2>1. ReadOf(r)'
    BY <1>1, <1>2, <1>3, <1>4, <1>5, NumFacts DEF ReadInv, ReadOf, Webhook, UTypeOK, Names
  <2>2. \A q \in Reqs \ {r} : ReadOf(q)'
    BY <1>1, <1>2, <1>3, <1>4, <1>5, ReadOther, NumFacts DEF ReadInv
  <2>3. QED
    BY <2>1, <2>2 DEF ReadInv
<1>8. ServedOnce'
  BY <1>1, <1>2, <1>3, <1>4, <1>5, ServedSame
<1>9. GaveInv'
  BY <1>1, <1>2, <1>3, <1>4, <1>5, NumFacts, GaveSame, PayFacts DEF Webhook
<1>10. AuditInv'
  BY <1>1, <1>2, <1>3, <1>4, <1>5, AuditSame
<1>11. BadgeInv'
  BY <1>1, <1>2, <1>3, <1>4, <1>5, BadgeSame
<1>12. TakenInv'
  BY <1>1, <1>2, <1>3, <1>4, <1>5, TakenSame
<1>13. FormTakenOnce'
  BY <1>1, <1>2, <1>3, <1>4, <1>5 DEF FormTakenOnce
<1>14. QED
  BY <1>6, <1>7, <1>8, <1>9, <1>10, <1>11, <1>12, <1>13

LEMMA DirectBadgeSup ==
    ASSUME SupInv, NEW r \in Reqs, directBadge(r)
    PROVE  SupInv'
<1> USE DEF SupInv
<1>1. /\ upc[r] = "direct" /\ upc'[r] = "directRow" /\ upc' \in [Reqs -> Places]
      /\ \A q \in Reqs \ {r} : upc'[q] = upc[q]
  BY PassFacts DEF directBadge, Places
<1>2. badge' = badge \cup ({nameRead[r]} \cap members) /\ badge' \subseteq members
  BY DEF directBadge, given, UTypeOK
<1>3. UNCHANGED <<forms, members, mailChecked, renewed, payments, formRead, nameRead, delivery, deliveries, gave, taken, overlapped, stopped, asides>>
  BY DEF directBadge, userRows, found, uHistory
<1>4. \A n : namesOf(n)' = namesOf(n)
  BY NamesSame DEF directBadge, uHistory
<1>5. formsKept /\ accountsKept
  BY <1>1, <1>2, <1>3, <1>4, NumFacts DEF formsKept, accountsKept, UTypeOK, BadgeInv
<1>6. UTypeOK'
  BY <1>1, <1>2, <1>3, <1>4, <1>5 DEF UTypeOK, Forms, Places, Names
<1>7. ReadInv'
  <2>1. ReadOf(r)'
    BY <1>1, <1>2, <1>3, <1>4, <1>5, NumFacts DEF ReadInv, ReadOf, Webhook, UTypeOK, Names
  <2>2. \A q \in Reqs \ {r} : ReadOf(q)'
    BY <1>1, <1>2, <1>3, <1>4, <1>5, ReadOther, NumFacts DEF ReadInv
  <2>3. QED
    BY <2>1, <2>2 DEF ReadInv
<1>8. ServedOnce'
  BY <1>1, <1>2, <1>3, <1>4, <1>5, ServedSame
<1>9. GaveInv'
  BY <1>1, <1>2, <1>3, <1>4, <1>5, NumFacts, GaveSame, PayFacts DEF Webhook
<1>10. AuditInv'
  BY <1>1, <1>2, <1>3, <1>4, <1>5, AuditSame
<1>11. BadgeInv'
  <2>1. Donors \ members' \subseteq renewed'
    BY <1>1, <1>2, <1>3, <1>4, <1>5 DEF BadgeInv
  <2>2. \A j \in 1..Len(forms') :
               forms'[j].status = "granted" /\ forms'[j].user \in members' \ renewed'
               => \/ forms'[j].user \in badge'
                  \/ \E q \in Reqs : formRead'[q] = j /\ upc'[q] \in {"named", "adminBadge"}
                  \/ j \in 1..Len(forms) /\ forms[j].status = "granted" /\ forms'[j].user = forms[j].user
    BY <1>1, <1>2, <1>3, <1>4, <1>5, NumFacts
  <2>3. \A q \in Reqs : upc[q] \in {"named", "adminBadge"} =>
               \/ upc'[q] = upc[q] /\ formRead'[q] = formRead[q]
               \/ forms[formRead[q]].user \in members' \ renewed' => forms[formRead[q]].user \in badge'
    BY <1>1, <1>2, <1>3, <1>4, <1>5 DEF ReadInv, ReadOf
  <2>4. QED
    BY <1>1, <1>2, <1>3, <1>4, <1>5, <2>1, <2>2, <2>3, BadgeStep
<1>12. TakenInv'
  BY <1>1, <1>2, <1>3, <1>4, <1>5, TakenSame
<1>13. FormTakenOnce'
  BY <1>1, <1>2, <1>3, <1>4, <1>5 DEF FormTakenOnce
<1>14. QED
  BY <1>6, <1>7, <1>8, <1>9, <1>10, <1>11, <1>12, <1>13

LEMMA DirectRowSup ==
    ASSUME SupInv, NEW r \in Reqs, directRow(r)
    PROVE  SupInv'
<1> USE DEF SupInv
<1>1. /\ upc[r] = "directRow" /\ upc'[r] = "idle" /\ upc' \in [Reqs -> Places]
      /\ formRead'[r] = 0 /\ nameRead'[r] = NoName /\ delivery'[r] = 0
      /\ formRead' \in [Reqs -> 0..MaxForms] /\ nameRead' \in [Reqs -> Names]
      /\ delivery' \in [Reqs -> 0..MaxDeliveries]
      /\ \A q \in Reqs \ {r} : /\ upc'[q] = upc[q] /\ formRead'[q] = formRead[q]
                                /\ nameRead'[q] = nameRead[q] /\ delivery'[q] = delivery[q]
  BY AnsweredFacts DEF directRow
<1>2. nameRead[r] \in Names /\ delivery[r] = 0
  BY <1>1 DEF UTypeOK, ReadInv, ReadOf, Webhook
<1>3. /\ forms' \in Seq(Forms) /\ Len(forms') <= MaxForms /\ Len(forms') >= Len(forms) /\ Len(forms) \in Nat /\ Len(forms') \in Nat
      /\ \A j \in 1..Len(forms) : forms'[j] = forms[j]
      /\ \A j \in 1..Len(forms') : j \notin 1..Len(forms) => forms'[j].user = nameRead[r] /\ forms'[j].status = "granted"
  BY <1>2, InsertFacts DEF directRow
<1>4. UNCHANGED <<members, mailChecked, renewed, badge, payments, deliveries, gave, taken, overlapped, stopped, asides>>
  BY DEF directRow, userRows, found, uHistory
<1>5. \A n : namesOf(n)' = namesOf(n)
  BY NamesSame DEF directRow, uHistory
<1>6. formsKept /\ accountsKept
  BY <1>1, <1>2, <1>3, <1>4, <1>5, NumFacts DEF formsKept, accountsKept, UTypeOK, BadgeInv
<1>7. UTypeOK'
  BY <1>1, <1>2, <1>3, <1>4, <1>5, <1>6 DEF UTypeOK, Forms, Places, Names
<1>8. ReadInv'
  <2>1. ReadOf(r)'
    BY <1>1, <1>2, <1>3, <1>4, <1>5, <1>6, NumFacts DEF ReadInv, ReadOf, Webhook, UTypeOK, Names
  <2>2. \A q \in Reqs \ {r} : ReadOf(q)'
    BY <1>1, <1>2, <1>3, <1>4, <1>5, <1>6, ReadOther, NumFacts DEF ReadInv
  <2>3. QED
    BY <2>1, <2>2 DEF ReadInv
<1>9. ServedOnce'
  BY <1>1, <1>2, <1>3, <1>4, <1>5, <1>6, ServedSame
<1>10. GaveInv'
  BY <1>1, <1>2, <1>3, <1>4, <1>5, <1>6, NumFacts, GaveSame, PayFacts DEF Webhook
<1>11. AuditInv'
  BY <1>1, <1>2, <1>3, <1>4, <1>5, <1>6, AuditSame
<1>12. BadgeInv'
  <2>1. Donors \ members' \subseteq renewed'
    BY <1>1, <1>2, <1>3, <1>4, <1>5, <1>6 DEF BadgeInv
  <2>2. \A j \in 1..Len(forms') :
               forms'[j].status = "granted" /\ forms'[j].user \in members' \ renewed'
               => \/ forms'[j].user \in badge'
                  \/ \E q \in Reqs : formRead'[q] = j /\ upc'[q] \in {"named", "adminBadge"}
                  \/ j \in 1..Len(forms) /\ forms[j].status = "granted" /\ forms'[j].user = forms[j].user
    BY <1>1, <1>2, <1>3, <1>4, <1>5, <1>6, NumFacts DEF ReadInv, ReadOf
  <2>3. \A q \in Reqs : upc[q] \in {"named", "adminBadge"} =>
               \/ upc'[q] = upc[q] /\ formRead'[q] = formRead[q]
               \/ forms[formRead[q]].user \in members' \ renewed' => forms[formRead[q]].user \in badge'
    BY <1>1, <1>2, <1>3, <1>4, <1>5, <1>6 DEF ReadInv, ReadOf
  <2>4. QED
    BY <1>1, <1>2, <1>3, <1>4, <1>5, <1>6, <2>1, <2>2, <2>3, BadgeStep
<1>13. TakenInv'
  BY <1>1, <1>2, <1>3, <1>4, <1>5, <1>6, TakenSame
<1>14. FormTakenOnce'
  BY <1>1, <1>2, <1>3, <1>4, <1>5, <1>6 DEF FormTakenOnce
<1>15. QED
  BY <1>7, <1>8, <1>9, <1>10, <1>11, <1>12, <1>13, <1>14

LEMMA SupportRequestSup ==
    ASSUME SupInv, NEW u \in Names, supportRequest(u)
    PROVE  SupInv'
<1> USE DEF SupInv
<1>1. /\ forms' \in Seq(Forms) /\ Len(forms') = Len(forms) + 1 /\ Len(forms) \in Nat /\ Len(forms') <= MaxForms
      /\ \A j \in 1..Len(forms) : forms'[j] = forms[j]
      /\ forms'[Len(forms) + 1].user = u /\ forms'[Len(forms) + 1].status = "pending"
  BY AddsFacts, SupportersAssumption DEF supportRequest, UTypeOK
<1>2. UNCHANGED <<members, mailChecked, renewed, badge, payments, upc, formRead, nameRead, delivery, deliveries, gave, taken, overlapped, stopped, asides>>
  BY DEF supportRequest, userRows, found, uHistory
<1>3. \A n : namesOf(n)' = namesOf(n)
  BY NamesSame DEF supportRequest, uHistory
<1>4. formsKept /\ accountsKept
  BY <1>1, <1>2, <1>3, NumFacts DEF formsKept, accountsKept, UTypeOK, BadgeInv
<1>5. UTypeOK'
  BY <1>1, <1>2, <1>3, <1>4 DEF UTypeOK, Forms, Places, Names
<1>6. ReadInv'
  BY <1>1, <1>2, <1>3, <1>4, NumFacts, ReadSame
<1>7. ServedOnce'
  BY <1>1, <1>2, <1>3, <1>4, ServedSame
<1>8. GaveInv'
  BY <1>1, <1>2, <1>3, <1>4, NumFacts, GaveSame, PayFacts DEF Webhook
<1>9. AuditInv'
  BY <1>1, <1>2, <1>3, <1>4, AuditSame
<1>10. BadgeInv'
  <2>1. Donors \ members' \subseteq renewed'
    BY <1>1, <1>2, <1>3, <1>4 DEF BadgeInv
  <2>2. \A j \in 1..Len(forms') :
               forms'[j].status = "granted" /\ forms'[j].user \in members' \ renewed'
               => \/ forms'[j].user \in badge'
                  \/ \E q \in Reqs : formRead'[q] = j /\ upc'[q] \in {"named", "adminBadge"}
                  \/ j \in 1..Len(forms) /\ forms[j].status = "granted" /\ forms'[j].user = forms[j].user
    BY <1>1, <1>2, <1>3, <1>4, NumFacts
  <2>3. \A q \in Reqs : upc[q] \in {"named", "adminBadge"} =>
               \/ upc'[q] = upc[q] /\ formRead'[q] = formRead[q]
               \/ forms[formRead[q]].user \in members' \ renewed' => forms[formRead[q]].user \in badge'
    BY <1>1, <1>2, <1>3, <1>4 DEF ReadInv, ReadOf
  <2>4. QED
    BY <1>1, <1>2, <1>3, <1>4, <2>1, <2>2, <2>3, BadgeStep
<1>11. TakenInv'
  BY <1>1, <1>2, <1>3, <1>4, TakenSame
<1>12. FormTakenOnce'
  BY <1>1, <1>2, <1>3, <1>4 DEF FormTakenOnce
<1>13. QED
  BY <1>5, <1>6, <1>7, <1>8, <1>9, <1>10, <1>11, <1>12

LEMMA DismissSup ==
    ASSUME SupInv, NEW i \in 1..MaxForms, dismiss(i)
    PROVE  SupInv'
<1> USE DEF SupInv
<1>1. i \in 1..Len(forms) /\ Len(forms) \in Nat /\ asides' \in 0..MaxAsides
  BY SupportersAssumption DEF dismiss, aside, pastBounds, UTypeOK
<1>2. /\ forms' \in Seq(Forms) /\ Len(forms') = Len(forms)
      /\ \A j \in 1..Len(forms) : /\ forms'[j].user = forms[j].user
                                   /\ forms'[j].status = IF j = i THEN "dismissed" ELSE forms[j].status
  BY <1>1, MarkedFacts DEF dismiss
<1>3. UNCHANGED <<members, mailChecked, renewed, badge, payments, upc, formRead, nameRead, delivery, deliveries, gave, taken, overlapped, stopped>>
  BY DEF dismiss, userRows, found, uHistory
<1>4. \A n : namesOf(n)' = namesOf(n)
  BY NamesSame DEF dismiss, uHistory
<1>5. formsKept /\ accountsKept
  BY <1>1, <1>2, <1>3, <1>4, NumFacts DEF formsKept, accountsKept, UTypeOK, BadgeInv
<1>6. UTypeOK'
  BY <1>1, <1>2, <1>3, <1>4, <1>5 DEF UTypeOK, Forms, Places, Names
<1>7. ReadInv'
  BY <1>1, <1>2, <1>3, <1>4, <1>5, NumFacts, ReadSame
<1>8. ServedOnce'
  BY <1>1, <1>2, <1>3, <1>4, <1>5, ServedSame
<1>9. GaveInv'
  BY <1>1, <1>2, <1>3, <1>4, <1>5, NumFacts, GaveSame, PayFacts DEF Webhook
<1>10. AuditInv'
  BY <1>1, <1>2, <1>3, <1>4, <1>5, AuditSame
<1>11. BadgeInv'
  <2>1. Donors \ members' \subseteq renewed'
    BY <1>1, <1>2, <1>3, <1>4, <1>5 DEF BadgeInv
  <2>2. \A j \in 1..Len(forms') :
               forms'[j].status = "granted" /\ forms'[j].user \in members' \ renewed'
               => \/ forms'[j].user \in badge'
                  \/ \E q \in Reqs : formRead'[q] = j /\ upc'[q] \in {"named", "adminBadge"}
                  \/ j \in 1..Len(forms) /\ forms[j].status = "granted" /\ forms'[j].user = forms[j].user
    BY <1>1, <1>2, <1>3, <1>4, <1>5, NumFacts
  <2>3. \A q \in Reqs : upc[q] \in {"named", "adminBadge"} =>
               \/ upc'[q] = upc[q] /\ formRead'[q] = formRead[q]
               \/ forms[formRead[q]].user \in members' \ renewed' => forms[formRead[q]].user \in badge'
    BY <1>1, <1>2, <1>3, <1>4, <1>5 DEF ReadInv, ReadOf
  <2>4. QED
    BY <1>1, <1>2, <1>3, <1>4, <1>5, <2>1, <2>2, <2>3, BadgeStep
<1>12. TakenInv'
  BY <1>1, <1>2, <1>3, <1>4, <1>5, TakenSame
<1>13. FormTakenOnce'
  BY <1>1, <1>2, <1>3, <1>4, <1>5 DEF FormTakenOnce
<1>14. QED
  BY <1>6, <1>7, <1>8, <1>9, <1>10, <1>11, <1>12, <1>13

LEMMA LeaveSup ==
    ASSUME SupInv, NEW u \in Donors, leave(u)
    PROVE  SupInv'
<1> USE DEF SupInv
<1>1. /\ members' = members \ {u} /\ badge' = badge \ {u} /\ renewed' = renewed \cup {u} /\ asides' \in 0..MaxAsides
  BY SupportersAssumption DEF leave, lost, aside, UTypeOK
<1>2. mailChecked' \in BOOLEAN /\ (mailChecked' => mailChecked /\ u # MailHolder)
  BY DEF leave, UTypeOK
<1>3. UNCHANGED <<forms, payments, upc, formRead, nameRead, delivery, deliveries, gave, taken, overlapped, stopped>>
  BY DEF leave, userRows, found, uHistory
<1>4. \A n : namesOf(n)' = namesOf(n)
  BY NamesSame DEF leave, uHistory
<1>5. formsKept /\ accountsKept
  BY <1>1, <1>2, <1>3, <1>4, NumFacts DEF formsKept, accountsKept, UTypeOK, BadgeInv
<1>6. UTypeOK'
  BY <1>1, <1>2, <1>3, <1>4, <1>5 DEF UTypeOK, Forms, Places, Names
<1>7. ReadInv'
  BY <1>1, <1>2, <1>3, <1>4, <1>5, NumFacts, ReadSame
<1>8. ServedOnce'
  BY <1>1, <1>2, <1>3, <1>4, <1>5, ServedSame
<1>9. GaveInv'
  BY <1>1, <1>2, <1>3, <1>4, <1>5, NumFacts, GaveSame, PayFacts DEF Webhook
<1>10. AuditInv'
  BY <1>1, <1>2, <1>3, <1>4, <1>5, AuditSame
<1>11. BadgeInv'
  <2>1. Donors \ members' \subseteq renewed'
    BY <1>1, <1>2, <1>3, <1>4, <1>5 DEF BadgeInv
  <2>2. \A j \in 1..Len(forms') :
               forms'[j].status = "granted" /\ forms'[j].user \in members' \ renewed'
               => \/ forms'[j].user \in badge'
                  \/ \E q \in Reqs : formRead'[q] = j /\ upc'[q] \in {"named", "adminBadge"}
                  \/ j \in 1..Len(forms) /\ forms[j].status = "granted" /\ forms'[j].user = forms[j].user
    BY <1>1, <1>2, <1>3, <1>4, <1>5, NumFacts
  <2>3. \A q \in Reqs : upc[q] \in {"named", "adminBadge"} =>
               \/ upc'[q] = upc[q] /\ formRead'[q] = formRead[q]
               \/ forms[formRead[q]].user \in members' \ renewed' => forms[formRead[q]].user \in badge'
    BY <1>1, <1>2, <1>3, <1>4, <1>5 DEF ReadInv, ReadOf
  <2>4. QED
    BY <1>1, <1>2, <1>3, <1>4, <1>5, <2>1, <2>2, <2>3, BadgeStep
<1>12. TakenInv'
  BY <1>1, <1>2, <1>3, <1>4, <1>5, TakenSame
<1>13. FormTakenOnce'
  BY <1>1, <1>2, <1>3, <1>4, <1>5 DEF FormTakenOnce
<1>14. QED
  BY <1>6, <1>7, <1>8, <1>9, <1>10, <1>11, <1>12, <1>13

LEMMA EnterSup ==
    ASSUME SupInv, NEW u \in Donors, enter(u)
    PROVE  SupInv'
<1> USE DEF SupInv
<1>1. /\ members' = members \cup {u} /\ u \notin members /\ asides' \in 0..MaxAsides
  BY SupportersAssumption DEF enter, aside, UTypeOK
<1>2. mailChecked' \in BOOLEAN /\ (mailChecked' => mailChecked \/ u = MailHolder)
  BY DEF enter, UTypeOK
<1>3. UNCHANGED <<forms, badge, renewed, payments, upc, formRead, nameRead, delivery, deliveries, gave, taken, overlapped, stopped>>
  BY DEF enter, userRows, found, uHistory
<1>4. \A n : namesOf(n)' = namesOf(n)
  BY NamesSame DEF enter, uHistory
<1>5. formsKept /\ accountsKept
  BY <1>1, <1>2, <1>3, <1>4, NumFacts DEF formsKept, accountsKept, UTypeOK, BadgeInv
<1>6. UTypeOK'
  BY <1>1, <1>2, <1>3, <1>4, <1>5 DEF UTypeOK, Forms, Places, Names
<1>7. ReadInv'
  BY <1>1, <1>2, <1>3, <1>4, <1>5, NumFacts, ReadSame
<1>8. ServedOnce'
  BY <1>1, <1>2, <1>3, <1>4, <1>5, ServedSame
<1>9. GaveInv'
  BY <1>1, <1>2, <1>3, <1>4, <1>5, NumFacts, GaveSame, PayFacts DEF Webhook
<1>10. AuditInv'
  BY <1>1, <1>2, <1>3, <1>4, <1>5, AuditSame
<1>11. BadgeInv'
  <2>1. Donors \ members' \subseteq renewed'
    BY <1>1, <1>2, <1>3, <1>4, <1>5 DEF BadgeInv
  <2>2. \A j \in 1..Len(forms') :
               forms'[j].status = "granted" /\ forms'[j].user \in members' \ renewed'
               => \/ forms'[j].user \in badge'
                  \/ \E q \in Reqs : formRead'[q] = j /\ upc'[q] \in {"named", "adminBadge"}
                  \/ j \in 1..Len(forms) /\ forms[j].status = "granted" /\ forms'[j].user = forms[j].user
    BY <1>1, <1>2, <1>3, <1>4, <1>5, NumFacts
  <2>3. \A q \in Reqs : upc[q] \in {"named", "adminBadge"} =>
               \/ upc'[q] = upc[q] /\ formRead'[q] = formRead[q]
               \/ forms[formRead[q]].user \in members' \ renewed' => forms[formRead[q]].user \in badge'
    BY <1>1, <1>2, <1>3, <1>4, <1>5 DEF ReadInv, ReadOf
  <2>4. QED
    BY <1>1, <1>2, <1>3, <1>4, <1>5, <2>1, <2>2, <2>3, BadgeStep
<1>12. TakenInv'
  BY <1>1, <1>2, <1>3, <1>4, <1>5, TakenSame
<1>13. FormTakenOnce'
  BY <1>1, <1>2, <1>3, <1>4, <1>5 DEF FormTakenOnce
<1>14. QED
  BY <1>6, <1>7, <1>8, <1>9, <1>10, <1>11, <1>12, <1>13

LEMMA RestartSup ==
    ASSUME SupInv, restart
    PROVE  SupInv'
<1> USE DEF SupInv
<1>1. /\ upc' \in [Reqs -> Places] /\ formRead' \in [Reqs -> 0..MaxForms] /\ nameRead' \in [Reqs -> Names]
      /\ delivery' \in [Reqs -> 0..MaxDeliveries] /\ stopped' = TRUE /\ asides' \in 0..MaxAsides
      /\ \A q \in Reqs : upc'[q] = "idle" /\ formRead'[q] = 0 /\ nameRead'[q] = NoName /\ delivery'[q] = 0
  BY SupportersAssumption DEF restart, aside, UTypeOK, Places, Names
<1>2. UNCHANGED <<forms, members, mailChecked, renewed, badge, payments, deliveries, gave, taken, overlapped>>
  BY DEF restart, userRows, found, uHistory
<1>3. \A n : namesOf(n)' = namesOf(n)
  BY NamesSame DEF restart, uHistory
<1>4. formsKept /\ accountsKept
  BY <1>1, <1>2, <1>3, NumFacts DEF formsKept, accountsKept, UTypeOK, BadgeInv
<1>5. UTypeOK'
  BY <1>1, <1>2, <1>3, <1>4 DEF UTypeOK, Forms, Places, Names
<1>6. ReadInv'
  BY <1>1, <1>2, <1>3, <1>4, NumFacts DEF ReadInv, ReadOf, Webhook
<1>7. ServedOnce'
  BY <1>1, <1>2, <1>3, <1>4, ServedSame
<1>8. GaveInv'
  BY <1>1, <1>2, <1>3, <1>4, NumFacts, GaveSame, PayFacts DEF Webhook
<1>9. AuditInv'
  BY <1>1, <1>2, <1>3, <1>4, AuditSame
<1>10. BadgeInv'
  BY <1>1, <1>2, <1>3, <1>4 DEF BadgeInv
<1>11. TakenInv'
  BY <1>1, <1>2, <1>3, <1>4, TakenSame
<1>12. FormTakenOnce'
  BY <1>1, <1>2, <1>3, <1>4 DEF FormTakenOnce
<1>13. QED
  BY <1>5, <1>6, <1>7, <1>8, <1>9, <1>10, <1>11, <1>12

LEMMA IdleSup ==
    ASSUME SupInv, UNCHANGED uvars
    PROVE  SupInv'
<1>1. /\ UNCHANGED <<forms, members, mailChecked, badge, payments, upc, formRead, nameRead, delivery>>
      /\ UNCHANGED <<deliveries, gave, taken, overlapped, renewed, stopped, asides>>
  BY DEF uvars
<1>2. UTypeOK' /\ ReadInv' /\ ServedOnce'
  BY <1>1 DEF SupInv, UTypeOK, ReadInv, ReadOf, ServedOnce
<1>3. GaveInv' /\ AuditInv'
  BY <1>1, NamesSame DEF SupInv, GaveInv, AuditInv
<1>4. BadgeInv' /\ TakenInv' /\ FormTakenOnce'
  BY <1>1 DEF SupInv, BadgeInv, TakenInv, FormTakenOnce
<1>5. QED
  BY <1>2, <1>3, <1>4 DEF SupInv

LEMMA SupStep == SupInv /\ [UNext]_uvars => SupInv'
<1> SUFFICES ASSUME SupInv, [UNext]_uvars PROVE SupInv'
  OBVIOUS
<1>1. ASSUME NEW r \in Reqs, UHandler(r) PROVE SupInv'
  BY <1>1, WebhookSup, FindFormSup, GrantFormSup, BadgeNamedSup, FindAccountSup, BadgeByMailSup, RecordGrantSup, AuditSup,
     AdminGrantSup, AdminMarkSup, AdminGrantedSup, AdminGrantDirectSup, DirectBadgeSup, DirectRowSup, Zenon DEF UHandler
<1>2. ASSUME NEW u \in Leavers, leave(u) \/ enter(u) PROVE SupInv'
  <2>1. u \in Donors
    BY SupportersAssumption
  <2>2. QED
    BY <1>2, <2>1, LeaveSup, EnterSup
<1>3. QED
  BY <1>1, <1>2, SupportRequestSup, DismissSup, RestartSup, IdleSup DEF UNext

\* Forms, badges and the audit agree, for any number of handlers, forms and payments.
THEOREM SupportersKept == USpec => []SupportersSafe
<1>1. SupInv => SupportersSafe
  <2> SUFFICES ASSUME SupInv PROVE SupportersSafe
    OBVIOUS
  <2> USE DEF SupInv
  <2>1. AuditTells
    BY DEF AuditInv, AuditTells, namesOf
  <2>2. GrantsKept
    BY DEF BadgeInv, GrantsKept
  <2>3. QED
    BY <2>1, <2>2 DEF SupportersSafe
<1>2. QED
  BY SupInit, SupStep, <1>1, PTL DEF USpec
=============================================================================
