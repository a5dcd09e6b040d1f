------------------------------- MODULE Staff --------------------------------
(***************************************************************************)
(* Staff roles: users.role and the older users.is_admin beside it, set at  *)
(* every boot from PHAZE_ADMIN_USERS and by the role action of the admin   *)
(* portal, whose handler asks the database four times, one after another,  *)
(* before it writes.  A role is its rank.                                  *)
(***************************************************************************)
EXTENDS Requests

CONSTANTS
    Accounts,      \* usernames
    EnvAdmins,     \* PHAZE_ADMIN_USERS
    NoAccount,
    Wanted,        \* what is asked for: ranks, and names of no role
    MaxBoots       \* a bound: how often the server is restarted

ASSUME StaffAssumption == EnvAdmins \subseteq Accounts /\ NoAccount \notin Accounts /\ MaxBoots \in Nat /\ Wanted \subseteq Nat

\* roleRanks
User == 0
Helper == 1
Moderator == 2
Admin == 3
SuperAdmin == 4
Ranks == User..SuperAdmin

VARIABLES
    registered,   \* accounts with a row in users
    rank,         \* roleRank(users.role)
    isAdmin,      \* users.is_admin
    mpc,          \* where the handler of a role change is
    actor, object, wanted,   \* who asks, about whom, for which rank
    actorRank,    \* the rank it has read
    met,          \* the target's role was written since the handler read it
    everSuper,    \* accounts some boot has promoted
    appointed,    \* accounts whose role a handler set last, and who asked for it
    boots

mvars == <<registered, rank, isAdmin, mpc, actor, object, wanted, actorRank, met,
           everSuper, appointed, boots>>
users == <<registered, rank, isAdmin>>
task == <<actor, object, wanted, actorRank, met>>

MTypeOK ==
    /\ registered \subseteq Accounts
    /\ rank \in [Accounts -> Ranks] /\ isAdmin \in [Accounts -> BOOLEAN]
    /\ mpc \in [Reqs -> {"idle", "actor", "target", "write"}]
    /\ actor \in [Reqs -> Accounts \cup {NoAccount}] /\ object \in [Reqs -> Accounts \cup {NoAccount}]
    /\ wanted \in [Reqs -> Ranks] /\ actorRank \in [Reqs -> Ranks]
    /\ met \in [Reqs -> BOOLEAN]
    /\ everSuper \subseteq Accounts
    /\ appointed \in [Accounts -> Accounts \cup {NoAccount}]
    /\ boots \in 0..MaxBoots

-----------------------------------------------------------------------------
\* ... WHERE is_admin = 1 AND (role = '' OR role = 'user')
backfilled(r, f) == IF f /\ r = User THEN Admin ELSE r

\* initDB: the names of the environment are promoted, then roles filled in
\* from the flag.
named == EnvAdmins \cap registered

bootRank(r, f) ==
    [u \in Accounts |-> backfilled(IF u \in named THEN SuperAdmin ELSE r[u], f[u] \/ u \in named)]

\* The first boot of this version finds flags, and no roles.
MInit ==
    /\ registered = Accounts
    /\ \E f \in [Accounts -> BOOLEAN] :
           /\ rank = bootRank([u \in Accounts |-> User], f)
           /\ isAdmin = [u \in Accounts |-> f[u] \/ u \in EnvAdmins]
    /\ mpc = [r \in Reqs |-> "idle"]
    /\ actor = [r \in Reqs |-> NoAccount] /\ object = [r \in Reqs |-> NoAccount]
    /\ wanted = [r \in Reqs |-> User] /\ actorRank = [r \in Reqs |-> User]
    /\ met = [r \in Reqs |-> FALSE]
    /\ everSuper = EnvAdmins
    /\ appointed = [u \in Accounts |-> NoAccount]
    /\ boots = 0

\* A crash and a restart: what was under way is lost.
Reboot ==
    /\ boots < MaxBoots /\ boots' = boots + 1
    /\ rank' = bootRank(rank, isAdmin)
    /\ isAdmin' = [u \in Accounts |-> isAdmin[u] \/ u \in named]
    /\ everSuper' = everSuper \cup named
    /\ appointed' = [u \in Accounts |-> IF u \in named THEN NoAccount ELSE appointed[u]]
    /\ mpc' = [r \in Reqs |-> "idle"]
    /\ actor' = [r \in Reqs |-> NoAccount] /\ object' = [r \in Reqs |-> NoAccount]
    /\ wanted' = [r \in Reqs |-> User] /\ actorRank' = [r \in Reqs |-> User]
    /\ met' = [r \in Reqs |-> FALSE]
    /\ UNCHANGED registered

-----------------------------------------------------------------------------
userRole(u) == IF u \in registered THEN rank[u] ELSE User

\* _, ok := roleRanks[reqBody.Role]
known(k) == k \in Ranks

\* A session of the account, and its flag.
adminFromRequest(u) == u \in registered /\ isAdmin[u]

\* adminBanHandler, role: not about oneself, and the role must be one; ...
adminBanHandler(r, u, v, k) ==
    /\ mpc[r] = "idle"
    /\ adminFromRequest(u) /\ v # u /\ known(k)
    /\ mpc' = [mpc EXCEPT ![r] = "actor"]
    /\ actor' = [actor EXCEPT ![r] = u]
    /\ object' = [object EXCEPT ![r] = v]
    /\ wanted' = [wanted EXCEPT ![r] = k]
    /\ UNCHANGED <<users, actorRank, met, everSuper, appointed, boots>>

\* The handler has answered; what it knew is gone.
ends(r) ==
    /\ mpc' = [mpc EXCEPT ![r] = "idle"]
    /\ actor' = [actor EXCEPT ![r] = NoAccount] /\ object' = [object EXCEPT ![r] = NoAccount]
    /\ wanted' = [wanted EXCEPT ![r] = User] /\ actorRank' = [actorRank EXCEPT ![r] = User]

\* ... userRole(admin) is read, ...
readActor(r) ==
    /\ mpc[r] = "actor"
    /\ IF userRole(actor[r]) < Admin
       THEN ends(r)
       ELSE /\ mpc' = [mpc EXCEPT ![r] = "target"]
            /\ actorRank' = [actorRank EXCEPT ![r] = userRole(actor[r])]
            /\ UNCHANGED <<actor, object, wanted>>
    /\ UNCHANGED <<users, met, everSuper, appointed, boots>>

\* Mutant: nobody is kept from changing a peer.
outranked_NotBefore(r, k) == wanted[r] < actorRank[r]

\* Mutant: a role like one's own may be given.
outranked_Equal(r, k) == k < actorRank[r] /\ wanted[r] <= actorRank[r]

\* The actor outranks the target, with rank k, before and after.
outranked(r, k) == k < actorRank[r] /\ wanted[r] < actorRank[r]

\* ... userRole(target) too, ...
readTarget(r) ==
    /\ mpc[r] = "target"
    /\ IF outranked(r, userRole(object[r]))
       THEN /\ mpc' = [mpc EXCEPT ![r] = "write"]
            /\ met' = [met EXCEPT ![r] = FALSE]
            /\ UNCHANGED <<actor, object, wanted, actorRank>>
       ELSE ends(r) /\ UNCHANGED met
    /\ UNCHANGED <<users, everSuper, appointed, boots>>

\* Every other handler that is about to write the role of v has met this.
meets(r, v) == met' = [q \in Reqs |-> IF q = r THEN FALSE ELSE met[q] \/ (object[q] = v /\ mpc[q] = "write")]

flagOf(k) == k >= Admin

\* ... and the role and the flag are written; nothing if the account is gone.
setRole(r) ==
    /\ mpc[r] = "write"
    /\ LET v == object[r] IN
       IF v \in registered
       THEN /\ rank' = [rank EXCEPT ![v] = wanted[r]]
            /\ isAdmin' = [isAdmin EXCEPT ![v] = flagOf(wanted[r])]
            /\ appointed' = [appointed EXCEPT ![v] = actor[r]]
            /\ meets(r, v)
       ELSE UNCHANGED <<rank, isAdmin, appointed>> /\ met' = [met EXCEPT ![r] = FALSE]
    /\ ends(r)
    /\ UNCHANGED <<registered, everSuper, boots>>

\* deleteAccount: one transaction.
deleteAccount(v) ==
    /\ v \in registered
    /\ registered' = registered \ {v}
    /\ rank' = [rank EXCEPT ![v] = User] /\ isAdmin' = [isAdmin EXCEPT ![v] = FALSE]
    /\ appointed' = [appointed EXCEPT ![v] = NoAccount]
    /\ UNCHANGED <<mpc, task, everSuper, boots>>

\* registerUser, with the defaults of the columns; a role may be on its way to the old account.
registerUser(v) ==
    /\ v \notin registered
    /\ registered' = registered \cup {v}
    /\ UNCHANGED <<rank, isAdmin, mpc, task, everSuper, appointed, boots>>

MNext ==
    \/ Reboot
    \/ \E u \in Accounts : deleteAccount(u) \/ registerUser(u)
    \/ \E r \in Reqs : readActor(r) \/ readTarget(r) \/ setRole(r)
    \/ \E r \in Reqs, u, v \in Accounts, k \in Wanted : adminBanHandler(r, u, v, k)

MSpec == MInit /\ [][MNext]_mvars

-----------------------------------------------------------------------------
(* Properties. *)

(***************************************************************************)
(* Nobody is lifted to a rank by an equal of it: only a boot makes a       *)
(* super_admin, and an admin was made by a boot or by somebody a boot had  *)
(* made super_admin, whatever happens between the reads of a role change   *)
(* and its UPDATE: other changes, deletions, sign-ups, restarts.           *)
(***************************************************************************)
AppointedFromAbove ==
    \A u \in registered :
        /\ rank[u] = SuperAdmin => u \in everSuper /\ appointed[u] = NoAccount
        /\ rank[u] = Admin /\ appointed[u] # NoAccount => appointed[u] \in everSuper

(***************************************************************************)
(* The older flag, which opens the portal, says what the role says: no     *)
(* order of boots and changes leaves a moderator with it or an admin       *)
(* without.                                                                *)
(***************************************************************************)
FlagAgrees == \A u \in registered : isAdmin[u] <=> rank[u] >= Admin

(***************************************************************************)
(* An admin is set back by a super_admin only, unless somebody else's      *)
(* change of the same account came between the check and the UPDATE.       *)
(***************************************************************************)
PeersKeepTheirRole ==
    [][\A r \in Reqs : \A v \in registered :
           mpc[r] = "write" /\ mpc'[r] = "idle" /\ boots' = boots /\ object[r] = v /\ ~met[r]
           /\ rank[v] >= Admin /\ rank'[v] < rank[v]
           => actor[r] \in everSuper]_mvars

(***************************************************************************)
(* A staff role comes from above and the flag is_admin says the same as    *)
(* the role.                                                               *)
(***************************************************************************)
StaffSafe ==
    /\ MTypeOK
    /\ AppointedFromAbove
    /\ FlagAgrees
=============================================================================
