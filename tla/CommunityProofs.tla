--------------------------- MODULE CommunityProofs ---------------------------
(***************************************************************************)
(* Proofs about the parts several members of the site, or several requests *)
(* of one, meet in, for any users, connections, requests and bounds: Staff *)
(* (who may rank whom), Rooms (who is in a voice room or a stream), CfTurn *)
(* (when a set of TURN credentials is good), Spaces (what the members of a *)
(* space see of a channel) and Whiteboard (what their boards show).        *)
(***************************************************************************)
EXTENDS Staff, Rooms, CfTurn, Spaces, Whiteboard, FiniteSetTheorems, WellFoundedInduction, TLAPS

-----------------------------------------------------------------------------
(* Staff roles. *)

\* The flag says what the role says, and a row nobody has says nothing.
RowInv ==
    \A u \in Accounts :
        /\ isAdmin[u] <=> rank[u] >= Admin
        /\ rank[u] = SuperAdmin => u \in everSuper /\ appointed[u] = NoAccount
        /\ rank[u] = Admin /\ appointed[u] # NoAccount => appointed[u] \in everSuper
        /\ u \notin registered => rank[u] = User

\* What the handler of a role change has read still tells where its actor
\* stood, and, unless somebody else wrote it, that the target is below.
TaskInv ==
    \A r \in Reqs :
        /\ mpc[r] # "idle" => actor[r] \in Accounts /\ object[r] \in Accounts
        /\ mpc[r] \in {"target", "write"} =>
               actorRank[r] >= Admin /\ (actorRank[r] = SuperAdmin => actor[r] \in everSuper)
        /\ mpc[r] = "write" => wanted[r] < actorRank[r]
        /\ mpc[r] = "write" /\ ~met[r] => rank[object[r]] < actorRank[r]

MInv == MTypeOK /\ RowInv /\ TaskInv

LEMMA RankFacts ==
    /\ User = 0 /\ Helper = 1 /\ Moderator = 2 /\ Admin = 3 /\ SuperAdmin = 4
    /\ \A k : k \in Ranks <=> k \in Nat /\ k <= 4
BY DEF User, Helper, Moderator, Admin, SuperAdmin, Ranks

\* A boot: whoever the environment names is a super_admin, whoever had the
\* flag and no role an admin.
LEMMA BootFacts ==
    ASSUME NEW r \in [Accounts -> Ranks], NEW f \in [Accounts -> BOOLEAN]
    PROVE  /\ bootRank(r, f) \in [Accounts -> Ranks]
           /\ \A u \in Accounts :
                bootRank(r, f)[u] = IF u \in named THEN SuperAdmin ELSE IF f[u] /\ r[u] = User THEN Admin ELSE r[u]
<1>1. \A u \in Accounts :
        bootRank(r, f)[u] = backfilled(IF u \in named THEN SuperAdmin ELSE r[u], f[u] \/ u \in named)
  BY DEF bootRank
<1>2. \A u \in Accounts :
        bootRank(r, f)[u] = IF u \in named THEN SuperAdmin ELSE IF f[u] /\ r[u] = User THEN Admin ELSE r[u]
  <2> TAKE u \in Accounts
  <2>1. CASE u \in named
    BY <1>1, <2>1, RankFacts DEF backfilled
  <2>2. CASE u \notin named
    BY <1>1, <2>2, Zenon DEF backfilled
  <2> QED
    BY <2>1, <2>2
<1>3. \A u \in Accounts : bootRank(r, f)[u] \in Ranks
  BY <1>2, RankFacts
<1>4. QED
  BY <1>2, <1>3 DEF bootRank

LEMMA StaffInit == MInit => MInv
<1> SUFFICES ASSUME MInit PROVE MInv
  OBVIOUS
<1> PICK f \in [Accounts -> BOOLEAN] :
        /\ rank = bootRank([u \in Accounts |-> User], f)
        /\ isAdmin = [u \in Accounts |-> f[u] \/ u \in EnvAdmins]
  BY DEF MInit
<1>1. [u \in Accounts |-> User] \in [Accounts -> Ranks]
  BY RankFacts
<1>2. /\ rank \in [Accounts -> Ranks]
      /\ \A u \in Accounts : rank[u] = IF u \in named THEN SuperAdmin ELSE IF f[u] THEN Admin ELSE User
  BY <1>1, BootFacts
<1>3. named = EnvAdmins /\ registered = Accounts
  BY StaffAssumption DEF MInit, named
<1>4. isAdmin \in [Accounts -> BOOLEAN] /\ \A u \in Accounts : isAdmin[u] <=> f[u] \/ u \in EnvAdmins
  BY Zenon
<1>5. MTypeOK
  <2>1. wanted \in [Reqs -> Ranks] /\ actorRank \in [Reqs -> Ranks] /\ boots \in 0..MaxBoots
    BY RankFacts, StaffAssumption DEF MInit
  <2>2. QED
    BY <1>2, <1>3, <1>4, <2>1, StaffAssumption DEF MInit, MTypeOK
<1>6. \A u \in Accounts : isAdmin[u] <=> rank[u] >= Admin
  <2> TAKE u \in Accounts
  <2>1. rank[u] >= Admin <=> f[u] \/ u \in EnvAdmins
    BY <1>2, <1>3, RankFacts
  <2> QED
    BY <1>4, <2>1, Zenon
<1>7. \A u \in Accounts : appointed[u] = NoAccount /\ (rank[u] = SuperAdmin => u \in everSuper)
  <2>1. everSuper = EnvAdmins /\ \A u \in Accounts : appointed[u] = NoAccount
    BY Zenon DEF MInit
  <2>2. \A u \in Accounts : rank[u] = SuperAdmin => u \in EnvAdmins
    BY <1>2, <1>3, RankFacts
  <2>3. QED
    BY <2>1, <2>2
<1>8. RowInv
  BY <1>3, <1>6, <1>7, Zenon DEF RowInv
<1>9. TaskInv
  BY DEF MInit, TaskInv
<1>10. QED
  BY <1>5, <1>8, <1>9 DEF MInv

LEMMA RebootStaff == MInv /\ Reboot => MInv'
<1> SUFFICES ASSUME MInv, Reboot PROVE MInv'
  OBVIOUS
<1>1. /\ rank' \in [Accounts -> Ranks]
      /\ \A u \in Accounts :
           rank'[u] = IF u \in named THEN SuperAdmin ELSE IF isAdmin[u] /\ rank[u] = User THEN Admin ELSE rank[u]
  BY BootFacts DEF MInv, MTypeOK, Reboot
<1>2. \A u \in Accounts : rank'[u] = IF u \in named THEN SuperAdmin ELSE rank[u]
  <2> TAKE u \in Accounts
  <2>1. isAdmin[u] => rank[u] # User
    BY RankFacts DEF MInv, RowInv
  <2> QED
    BY <1>1, <2>1, Zenon
<1>3. /\ isAdmin' \in [Accounts -> BOOLEAN]
      /\ \A u \in Accounts : isAdmin'[u] <=> isAdmin[u] \/ u \in named
  BY Zenon DEF Reboot
<1>4. /\ appointed' \in [Accounts -> Accounts \cup {NoAccount}]
      /\ \A u \in Accounts : appointed'[u] = IF u \in named THEN NoAccount ELSE appointed[u]
  BY DEF Reboot, MInv, MTypeOK
<1>5. registered' = registered /\ named \subseteq registered /\ everSuper' = everSuper \cup named
  BY DEF Reboot, named
<1>6. MTypeOK'
  <2>1. wanted' \in [Reqs -> Ranks] /\ actorRank' \in [Reqs -> Ranks] /\ boots' \in 0..MaxBoots
    BY RankFacts, StaffAssumption DEF Reboot, MInv, MTypeOK
  <2>2. QED
    BY <1>1, <1>3, <1>4, <1>5, <2>1, Zenon DEF Reboot, MInv, MTypeOK
<1>7. \A u \in Accounts : isAdmin'[u] <=> rank'[u] >= Admin
  <2> TAKE u \in Accounts
  <2>1. rank'[u] >= Admin <=> rank[u] >= Admin \/ u \in named
    BY <1>2, RankFacts
  <2> QED
    BY <1>3, <2>1, Zenon DEF MInv, RowInv
<1>8. RowInv'
  BY <1>2, <1>4, <1>5, <1>7, RankFacts DEF MInv, RowInv
<1>9. TaskInv'
  BY DEF Reboot, TaskInv
<1>10. QED
  BY <1>6, <1>8, <1>9 DEF MInv

LEMMA HandlerStaff ==
    ASSUME MInv, NEW r \in Reqs, NEW u \in Accounts, NEW v \in Accounts, NEW k \in Wanted,
           adminBanHandler(r, u, v, k)
    PROVE  MInv'
<1>1. k \in Ranks
  BY DEF adminBanHandler, known
<1>2. MTypeOK'
  BY <1>1 DEF adminBanHandler, MInv, MTypeOK, users
<1>3. RowInv'
  BY DEF adminBanHandler, MInv, RowInv, users
<1>4. TaskInv'
  BY DEF adminBanHandler, MInv, MTypeOK, TaskInv, users
<1>5. QED
  BY <1>2, <1>3, <1>4 DEF MInv

\* A handler that ends knows nothing any more.
LEMMA EndsType ==
    ASSUME MInv, NEW r \in Reqs, ends(r)
    PROVE  /\ mpc' = [mpc EXCEPT ![r] = "idle"]
           /\ mpc' \in [Reqs -> {"idle", "actor", "target", "write"}]
           /\ actor' \in [Reqs -> Accounts \cup {NoAccount}] /\ object' \in [Reqs -> Accounts \cup {NoAccount}]
           /\ wanted' \in [Reqs -> Ranks] /\ actorRank' \in [Reqs -> Ranks]
           /\ \A q \in Reqs \ {r} : /\ actor'[q] = actor[q] /\ object'[q] = object[q]
                                    /\ wanted'[q] = wanted[q] /\ actorRank'[q] = actorRank[q]
BY RankFacts DEF ends, MInv, MTypeOK

LEMMA ReadActorStaff ==
    ASSUME MInv, NEW r \in Reqs, readActor(r)
    PROVE  MInv'
<1>1. UNCHANGED <<registered, rank, isAdmin, met, everSuper, appointed, boots>>
  BY DEF readActor, users
<1>2. RowInv'
  BY <1>1 DEF MInv, RowInv
<1>3. CASE userRole(actor[r]) < Admin
  <2>1. ends(r)
    BY <1>3 DEF readActor
  <2>2. MTypeOK'
    BY <1>1, <2>1, EndsType DEF MInv, MTypeOK
  <2>3. TaskInv'
    BY <1>1, <2>1, EndsType DEF MInv, MTypeOK, TaskInv
  <2>4. QED
    BY <1>2, <2>2, <2>3 DEF MInv
<1>4. CASE ~(userRole(actor[r]) < Admin)
  <2> DEFINE k == userRole(actor[r])
  <2>1. /\ mpc' = [mpc EXCEPT ![r] = "target"] /\ actorRank' = [actorRank EXCEPT ![r] = k]
        /\ UNCHANGED <<actor, object, wanted>>
    BY <1>4 DEF readActor
  <2>2. actor[r] \in Accounts /\ object[r] \in Accounts
    BY DEF readActor, MInv, TaskInv
  <2>3. k \in Ranks /\ k >= Admin /\ (k = SuperAdmin => actor[r] \in everSuper)
    BY <1>4, <2>2, RankFacts DEF userRole, MInv, MTypeOK, RowInv
  <2> HIDE DEF k
  <2>4. MTypeOK'
    BY <1>1, <2>1, <2>3 DEF MInv, MTypeOK
  <2>5. TaskInv'
    BY <1>1, <2>1, <2>2, <2>3 DEF MInv, MTypeOK, TaskInv
  <2>6. QED
    BY <1>2, <2>4, <2>5 DEF MInv
<1>5. QED
  BY <1>3, <1>4

LEMMA ReadTargetStaff ==
    ASSUME MInv, NEW r \in Reqs, readTarget(r)
    PROVE  MInv'
<1>1. UNCHANGED <<registered, rank, isAdmin, everSuper, appointed, boots>>
  BY DEF readTarget, users
<1>2. RowInv'
  BY <1>1 DEF MInv, RowInv
<1>3. CASE ~outranked(r, userRole(object[r]))
  <2>1. ends(r) /\ UNCHANGED met
    BY <1>3 DEF readTarget
  <2>2. MTypeOK'
    BY <1>1, <2>1, EndsType DEF MInv, MTypeOK
  <2>3. TaskInv'
    BY <1>1, <2>1, EndsType DEF MInv, MTypeOK, TaskInv
  <2>4. QED
    BY <1>2, <2>2, <2>3 DEF MInv
<1>4. CASE outranked(r, userRole(object[r]))
  <2>1. /\ mpc' = [mpc EXCEPT ![r] = "write"] /\ met' = [met EXCEPT ![r] = FALSE]
        /\ UNCHANGED <<actor, object, wanted, actorRank>>
    BY <1>4 DEF readTarget
  <2>2. mpc[r] = "target" /\ object[r] \in Accounts
    BY DEF readTarget, MInv, TaskInv
  <2>3. rank[object[r]] < actorRank[r] /\ wanted[r] < actorRank[r]
    BY <1>4, <2>2 DEF outranked, userRole, MInv, RowInv
  <2>4. MTypeOK'
    BY <1>1, <2>1 DEF MInv, MTypeOK
  <2>5. TaskInv'
    BY <1>1, <2>1, <2>2, <2>3 DEF MInv, MTypeOK, TaskInv
  <2>6. QED
    BY <1>2, <2>4, <2>5 DEF MInv
<1>5. QED
  BY <1>3, <1>4

\* Everybody else who is about to write this account's role has met the write.
LEMMA MeetsFacts ==
    ASSUME MTypeOK, NEW r \in Reqs, NEW v, meets(r, v)
    PROVE  /\ met' \in [Reqs -> BOOLEAN]
           /\ \A q \in Reqs \ {r} : ~met'[q] => ~met[q] /\ (mpc[q] = "write" => object[q] # v)
BY Zenon DEF meets, MTypeOK

LEMMA SetRoleStaff ==
    ASSUME MInv, NEW r \in Reqs, setRole(r)
    PROVE  MInv'
<1> DEFINE v == object[r]
<1>1. mpc[r] = "write" /\ v \in Accounts /\ actor[r] \in Accounts /\ wanted[r] \in Ranks
  BY DEF setRole, MInv, MTypeOK, TaskInv
<1>2. /\ wanted[r] < actorRank[r] /\ actorRank[r] \in Ranks
      /\ actorRank[r] = SuperAdmin => actor[r] \in everSuper
  BY <1>1 DEF MInv, MTypeOK, TaskInv
<1>3. ends(r) /\ UNCHANGED <<registered, everSuper, boots>>
  BY DEF setRole
<1>4. CASE v \notin registered
  <2>1. UNCHANGED <<rank, isAdmin, appointed>> /\ met' = [met EXCEPT ![r] = FALSE]
    BY <1>4 DEF setRole
  <2>2. MTypeOK'
    BY <1>3, <2>1, EndsType DEF MInv, MTypeOK
  <2>3. RowInv'
    BY <1>3, <2>1 DEF MInv, RowInv
  <2>4. TaskInv'
    BY <1>3, <2>1, EndsType DEF MInv, MTypeOK, TaskInv
  <2>5. QED
    BY <2>2, <2>3, <2>4 DEF MInv
<1>5. CASE v \in registered
  <2>1. /\ rank' = [rank EXCEPT ![v] = wanted[r]]
        /\ isAdmin' = [isAdmin EXCEPT ![v] = flagOf(wanted[r])]
        /\ appointed' = [appointed EXCEPT ![v] = actor[r]]
        /\ meets(r, v)
    BY <1>5 DEF setRole
  <2> HIDE DEF v
  <2>2. flagOf(wanted[r]) \in BOOLEAN /\ (flagOf(wanted[r]) <=> wanted[r] >= Admin)
    BY <1>1, RankFacts DEF flagOf
  <2>3. /\ rank' \in [Accounts -> Ranks] /\ appointed' \in [Accounts -> Accounts \cup {NoAccount}]
        /\ rank'[v] = wanted[r] /\ appointed'[v] = actor[r]
        /\ \A u \in Accounts \ {v} : rank'[u] = rank[u] /\ appointed'[u] = appointed[u]
    BY <1>1, <2>1 DEF MInv, MTypeOK
  <2>4. /\ isAdmin' \in [Accounts -> BOOLEAN] /\ (isAdmin'[v] <=> wanted[r] >= Admin)
        /\ \A u \in Accounts \ {v} : isAdmin'[u] <=> isAdmin[u]
    BY <1>1, <2>1, <2>2, Zenon DEF MInv, MTypeOK
  <2>5. met' \in [Reqs -> BOOLEAN] /\ \A q \in Reqs \ {r} : ~met'[q] => ~met[q] /\ (mpc[q] = "write" => object[q] # v)
    BY <2>1, MeetsFacts DEF MInv
  <2>6. MTypeOK'
    BY <1>3, <2>3, <2>4, <2>5, EndsType DEF MInv, MTypeOK
  <2>7. /\ rank'[v] # SuperAdmin
        /\ rank'[v] = Admin => appointed'[v] \in everSuper
    BY <1>2, <2>3, RankFacts
  <2>8. \A u \in Accounts : isAdmin'[u] <=> rank'[u] >= Admin
    BY <2>3, <2>4, Zenon DEF MInv, RowInv
  <2>9. RowInv'
    BY <1>3, <1>5, <2>3, <2>7, <2>8 DEF MInv, RowInv
  <2>10. TaskInv'
    <3> SUFFICES ASSUME NEW q \in Reqs PROVE TaskInv!(q)'
      BY DEF TaskInv
    <3>1. CASE q = r
      BY <1>3, <3>1, EndsType DEF MInv, MTypeOK
    <3>2. CASE q # r
      <4>1. /\ mpc'[q] = mpc[q] /\ actor'[q] = actor[q] /\ object'[q] = object[q]
            /\ wanted'[q] = wanted[q] /\ actorRank'[q] = actorRank[q] /\ everSuper' = everSuper
        BY <1>3, <3>2, EndsType DEF MInv, MTypeOK
      <4>2. mpc[q] = "write" /\ ~met'[q] => rank'[object[q]] < actorRank[q]
        BY <2>3, <2>5, <3>2 DEF MInv, TaskInv
      <4>3. QED
        BY <4>1, <4>2 DEF MInv, TaskInv
    <3>3. QED
      BY <3>1, <3>2
  <2>11. QED
    BY <2>6, <2>9, <2>10 DEF MInv
<1>6. QED
  BY <1>4, <1>5

LEMMA AccountStaff ==
    ASSUME MInv, NEW v \in Accounts, deleteAccount(v) \/ registerUser(v)
    PROVE  MInv'
<1>1. CASE deleteAccount(v)
  <2>1. /\ rank' \in [Accounts -> Ranks] /\ appointed' \in [Accounts -> Accounts \cup {NoAccount}]
        /\ rank'[v] = User /\ appointed'[v] = NoAccount
        /\ \A u \in Accounts \ {v} : rank'[u] = rank[u] /\ appointed'[u] = appointed[u]
    BY <1>1, RankFacts DEF deleteAccount, MInv, MTypeOK
  <2>2. /\ isAdmin' \in [Accounts -> BOOLEAN] /\ ~isAdmin'[v]
        /\ \A u \in Accounts \ {v} : isAdmin'[u] <=> isAdmin[u]
    BY <1>1, Zenon DEF deleteAccount, MInv, MTypeOK
  <2>3. registered' = registered \ {v} /\ UNCHANGED <<mpc, actor, object, wanted, actorRank, met, everSuper, boots>>
    BY <1>1 DEF deleteAccount, task
  <2>4. MTypeOK'
    BY <2>1, <2>2, <2>3 DEF MInv, MTypeOK
  <2>5. ~(rank'[v] >= Admin) /\ rank'[v] # SuperAdmin /\ rank'[v] # Admin
    BY <2>1, RankFacts
  <2>6. \A u \in Accounts : isAdmin'[u] <=> rank'[u] >= Admin
    BY <2>1, <2>2, <2>5, Zenon DEF MInv, RowInv
  <2>7. RowInv'
    BY <2>1, <2>3, <2>5, <2>6 DEF MInv, RowInv
  <2>8. \A u \in Accounts : rank'[u] <= rank[u]
    BY <2>1, RankFacts DEF MInv, MTypeOK
  <2>9. \A r \in Reqs : mpc[r] = "write" => object[r] \in Accounts /\ actorRank[r] \in Nat /\ rank[object[r]] \in Nat /\ rank'[object[r]] \in Nat
    BY <2>1, RankFacts DEF MInv, MTypeOK, TaskInv
  <2>10. TaskInv'
    BY <2>3, <2>8, <2>9 DEF MInv, TaskInv
  <2>11. QED
    BY <2>4, <2>7, <2>10 DEF MInv
<1>2. CASE registerUser(v)
  BY <1>2 DEF registerUser, task, MInv, MTypeOK, RowInv, TaskInv
<1>3. QED
  BY <1>1, <1>2

LEMMA StaffNext == MInv /\ [MNext]_mvars => MInv'
<1> SUFFICES ASSUME MInv, [MNext]_mvars PROVE MInv'
  OBVIOUS
<1>1. CASE UNCHANGED mvars
  BY <1>1 DEF mvars, MInv, MTypeOK, RowInv, TaskInv
<1>2. CASE MNext
  BY <1>2, RebootStaff, AccountStaff, ReadActorStaff, ReadTargetStaff, SetRoleStaff, HandlerStaff DEF MNext
<1>3. QED
  BY <1>1, <1>2

LEMMA StaffInvariance == MSpec => []MInv
BY StaffInit, StaffNext, PTL DEF MSpec

(***************************************************************************)
(* setRole: whatever deletions, sign-ups, other changes and restarts come  *)
(* between its reads and its UPDATE, a rank is given by somebody who was   *)
(* above it, and is_admin says what the role says.                         *)
(***************************************************************************)
THEOREM StaffKept == MSpec => []StaffSafe
<1>1. MInv => StaffSafe
  BY DEF MInv, MTypeOK, RowInv, StaffSafe, AppointedFromAbove, FlagAgrees
<1>2. QED
  BY <1>1, StaffInvariance, PTL

(***************************************************************************)
(* adminBanHandler: whoever sets an admin back had been made a super_admin *)
(* by a boot, unless another change of the same account came between the   *)
(* handler's check and its UPDATE.                                         *)
(***************************************************************************)
THEOREM PeersKept == MSpec => PeersKeepTheirRole
<1> DEFINE A == \A r \in Reqs : \A v \in registered :
                   mpc[r] = "write" /\ mpc'[r] = "idle" /\ boots' = boots /\ object[r] = v /\ ~met[r]
                   /\ rank[v] >= Admin /\ rank'[v] < rank[v]
                   => actor[r] \in everSuper
<1>1. MInv => A
  <2> SUFFICES ASSUME MInv, NEW r \in Reqs, NEW v \in registered,
                      mpc[r] = "write", object[r] = v, ~met[r], rank[v] >= Admin
               PROVE  actor[r] \in everSuper
    OBVIOUS
  <2>1. rank[v] < actorRank[r] /\ rank[v] \in Ranks /\ actorRank[r] \in Ranks
    BY DEF MInv, MTypeOK, TaskInv
  <2>2. actorRank[r] = SuperAdmin
    BY <2>1, RankFacts
  <2>3. QED
    BY <2>2 DEF MInv, TaskInv
<1>2. MInv /\ [MNext]_mvars => [A]_mvars
  BY <1>1
<1>3. MSpec => [][A]_mvars
  BY <1>2, StaffInvariance, PTL DEF MSpec
<1>4. QED
  BY <1>3 DEF PeersKeepTheirRole

-----------------------------------------------------------------------------
(* Voice rooms and streams. *)

\* Where a goroutine is, told by whether its connection is registered.
PlaceInv ==
    \A c \in Conns :
        /\ rpc[c] \in {"read", "view"} => c \in open
        /\ c \in open => rpc[c] \notin {"gone", "evict", "evictStream"}
        /\ rpc[c] = "view" => host[c] \in Users

\* Whoever is offline and still on a map is about to be taken off it.
GhostInv ==
    \A u \in Users : ~online(u) =>
        /\ u \in room => evictingRoom(u)
        /\ u \in live \/ (\E h \in Users : u \in viewers[h]) => evicting(u)

\* Nobody who counts on being in a room or in a stream is being evicted.
WishInv ==
    /\ sits \subseteq room
    /\ \A u \in sits : ~evictingRoom(u)
    /\ \A w \in watches : w[1] \in viewers[w[2]] /\ ~evicting(w[1]) /\ ~evicting(w[2])

\* A list that is alone is the room's, and when it is out the panels show it.
PanelInv ==
    ~racing =>
        /\ \A c, d \in Conns : rpc[c] \in Telling /\ rpc[d] \in Telling => c = d
        /\ \A c \in Conns : rpc[c] = "peers" => peersRead[c] = room
        /\ (\A c \in Conns : rpc[c] \notin Telling) =>
               \A c \in open : panel[c] # {} /\ Owner[c] \in room => panel[c] = room

RoomsInv == RTypeOK /\ PlaceInv /\ GhostInv /\ WishInv /\ PanelInv

LEMMA RoomsInit == RInit => RoomsInv
<1> SUFFICES ASSUME RInit PROVE RoomsInv
  OBVIOUS
<1>1. RTypeOK
  BY DEF RInit, RTypeOK, NoOne
<1>2. PlaceInv /\ GhostInv /\ WishInv
  BY DEF RInit, PlaceInv, GhostInv, WishInv
<1>3. PanelInv
  BY DEF RInit, PanelInv, Telling
<1>4. QED
  BY <1>1, <1>2, <1>3 DEF RoomsInv

LEMMA OwnerFacts ==
    ASSUME NEW c \in Conns
    PROVE  Owner[c] \in Users /\ \A u : c \in connsOf(u) <=> Owner[c] = u
BY HandlersAssumption DEF connsOf

LEMMA LeadsFacts ==
    ASSUME RTypeOK, NEW c \in Conns, NEW from, NEW to, leads(c, from, to)
    PROVE  /\ rpc[c] = from /\ rpc'[c] = to
           /\ \A d \in Conns \ {c} : rpc'[d] = rpc[d]
           /\ to \in {"gone", "read", "view", "evict", "evictStream"} \cup Telling
              => rpc' \in [Conns -> {"gone", "read", "view", "evict", "evictStream"} \cup Telling]
BY DEF leads, RTypeOK

LEMMA ConnectRooms ==
    ASSUME RoomsInv, NEW c \in Conns, Connect(c)
    PROVE  RoomsInv'
<1> USE DEF RoomsInv
<1>1. /\ rpc[c] = "gone" /\ rpc'[c] = "read" /\ \A d \in Conns \ {c} : rpc'[d] = rpc[d]
      /\ rpc' \in [Conns -> {"gone", "read", "view", "evict", "evictStream"} \cup Telling]
  BY LeadsFacts DEF Connect
<1>2. /\ open' = open \cup {c} /\ panel' = [panel EXCEPT ![c] = {}]
      /\ UNCHANGED <<room, live, viewers, host, peersRead, sits, watches, racing>>
  BY DEF Connect, maps, wishes
<1>3. RTypeOK'
  BY <1>1, <1>2 DEF RTypeOK
<1>4. PlaceInv'
  BY <1>1, <1>2 DEF PlaceInv
<1>5. \A u : online(u) => online(u)'
  BY <1>2 DEF online
<1>6. \A u : ~(online(u)') => (evicting(u)' <=> evicting(u)) /\ (evictingRoom(u)' <=> evictingRoom(u))
  BY <1>1, <1>2, OwnerFacts DEF online, evicting, evictingRoom, connsOf
<1>7. \A u : (evicting(u)' => evicting(u)) /\ (evictingRoom(u)' => evictingRoom(u))
  BY <1>1, <1>2 DEF evicting, evictingRoom, connsOf
<1>8. GhostInv'
  BY <1>2, <1>5, <1>6 DEF GhostInv
<1>9. WishInv'
  BY <1>2, <1>7 DEF WishInv
<1>10. PanelInv'
  BY <1>1, <1>2 DEF PanelInv, Telling, RTypeOK
<1>11. QED
  BY <1>3, <1>4, <1>8, <1>9, <1>10

LEMMA DisconnectRooms ==
    ASSUME RoomsInv, NEW c \in Conns, Disconnect(c)
    PROVE  RoomsInv'
<1> USE DEF RoomsInv
<1>1. /\ rpc[c] = "read" /\ rpc'[c] = (IF lastOne(c) THEN "evict" ELSE "gone")
      /\ \A d \in Conns \ {c} : rpc'[d] = rpc[d]
      /\ rpc' \in [Conns -> {"gone", "read", "view", "evict", "evictStream"} \cup Telling]
  BY LeadsFacts DEF Disconnect
<1>2. /\ open' = open \ {c}
      /\ sits' = {u \in sits : online(u)'}
      /\ watches' = {w \in watches : online(w[1])' /\ online(w[2])'}
      /\ UNCHANGED <<room, live, viewers, host, peersRead, panel, racing>>
  BY DEF Disconnect, maps
<1>3. RTypeOK'
  BY <1>1, <1>2 DEF RTypeOK
<1>4. PlaceInv'
  BY <1>1, <1>2 DEF PlaceInv
<1>5. lastOne(c) => ~(online(Owner[c])')
  BY <1>2, OwnerFacts DEF lastOne, online, connsOf, RTypeOK
<1>6. ~lastOne(c) => online(Owner[c])'
  BY <1>1, <1>2, OwnerFacts DEF lastOne, online, connsOf, RTypeOK, PlaceInv
<1>7. \A u : u # Owner[c] => /\ online(u)' <=> online(u)
                             /\ evicting(u)' <=> evicting(u)
                             /\ evictingRoom(u)' <=> evictingRoom(u)
  BY <1>1, <1>2 DEF online, evicting, evictingRoom, connsOf
<1>8. lastOne(c) => evicting(Owner[c])' /\ evictingRoom(Owner[c])'
  BY <1>1, <1>2 DEF evicting, evictingRoom, connsOf
<1>9. ~lastOne(c) => (evicting(Owner[c])' <=> evicting(Owner[c])) /\ (evictingRoom(Owner[c])' <=> evictingRoom(Owner[c]))
  BY <1>1, <1>2 DEF evicting, evictingRoom, connsOf, PlaceInv
<1>10. GhostInv'
  BY <1>2, <1>6, <1>7, <1>8 DEF GhostInv
<1>11. WishInv'
  BY <1>2, <1>5, <1>7, <1>9 DEF WishInv
<1>12. PanelInv'
  BY <1>1, <1>2 DEF PanelInv, Telling
<1>13. QED
  BY <1>3, <1>4, <1>10, <1>11, <1>12

LEMMA EvictRooms ==
    ASSUME RoomsInv, NEW c \in Conns, voiceRoomEvictUser(c)
    PROVE  RoomsInv'
<1> USE DEF RoomsInv
<1>1. /\ rpc[c] = "evict" /\ rpc'[c] = (IF Owner[c] \in room THEN "list" ELSE "evictStream")
      /\ \A d \in Conns \ {c} : rpc'[d] = rpc[d]
      /\ rpc' \in [Conns -> {"gone", "read", "view", "evict", "evictStream"} \cup Telling]
  BY LeadsFacts DEF voiceRoomEvictUser, Telling
<1>2. /\ room' = room \ {Owner[c]}
      /\ IF Owner[c] \in room THEN racing' = \E d \in Conns : rpc[d] \in Telling ELSE racing' = racing
      /\ UNCHANGED <<open, live, viewers, host, peersRead, panel, sits, watches>>
  BY DEF voiceRoomEvictUser, wishes, startsList
<1>3. RTypeOK'
  BY <1>1, <1>2 DEF RTypeOK
<1>4. PlaceInv' /\ c \notin open
  BY <1>1, <1>2 DEF PlaceInv
<1>5. \A u : /\ online(u)' <=> online(u)
             /\ evicting(u)' <=> evicting(u)
             /\ evictingRoom(u)' => evictingRoom(u)
             /\ u # Owner[c] => (evictingRoom(u)' <=> evictingRoom(u))
  BY <1>1, <1>2, <1>4 DEF online, evicting, evictingRoom, connsOf
<1>6. GhostInv'
  BY <1>2, <1>5 DEF GhostInv
<1>7. evictingRoom(Owner[c])
  BY <1>1 DEF evictingRoom, connsOf
<1>8. WishInv'
  BY <1>2, <1>5, <1>7 DEF WishInv
<1>9. PanelInv'
  <2>1. CASE Owner[c] \in room
    BY <1>1, <1>2, <2>1 DEF PanelInv, Telling
  <2>2. CASE Owner[c] \notin room
    <3>1. room' = room
      BY <1>2, <2>2
    <3>2. QED
      BY <1>1, <1>2, <2>2, <3>1 DEF PanelInv, Telling
  <2>3. QED
    BY <2>1, <2>2
<1>10. QED
  BY <1>3, <1>4, <1>6, <1>8, <1>9

LEMMA EvictStreams ==
    ASSUME RoomsInv, NEW c \in Conns, streamEvictUser(c)
    PROVE  RoomsInv'
<1> USE DEF RoomsInv
<1>1. /\ rpc[c] = "evictStream" /\ rpc'[c] = "gone"
      /\ \A d \in Conns \ {c} : rpc'[d] = rpc[d]
      /\ rpc' \in [Conns -> {"gone", "read", "view", "evict", "evictStream"} \cup Telling]
  BY LeadsFacts DEF streamEvictUser
<1>2. /\ live' = live \ {Owner[c]}
      /\ viewers' = [h \in Users |-> IF h = Owner[c] THEN {} ELSE viewers[h] \ {Owner[c]}]
      /\ UNCHANGED <<open, room, host, peersRead, panel, sits, watches, racing>>
  BY DEF streamEvictUser, unwatched, wishes
<1>3. RTypeOK'
  BY <1>1, <1>2 DEF RTypeOK
<1>4. PlaceInv' /\ c \notin open
  BY <1>1, <1>2 DEF PlaceInv
<1>5. \A u : /\ online(u)' <=> online(u)
             /\ evicting(u)' => evicting(u)
             /\ u # Owner[c] => (evicting(u)' <=> evicting(u))
             /\ evictingRoom(u)' <=> evictingRoom(u)
  BY <1>1, <1>2, <1>4 DEF online, evicting, evictingRoom, connsOf
<1>6. GhostInv'
  BY <1>2, <1>5 DEF GhostInv
<1>7. evicting(Owner[c])
  BY <1>1, <1>4 DEF evicting, connsOf
<1>8. WishInv'
  BY <1>2, <1>5, <1>7 DEF WishInv, RTypeOK
<1>9. PanelInv'
  BY <1>1, <1>2 DEF PanelInv, Telling
<1>10. QED
  BY <1>3, <1>4, <1>6, <1>8, <1>9

\* voice_join and voice_leave: the room changes, and a list is on its way.
LEMMA JoinLeaveRooms ==
    ASSUME RoomsInv, NEW c \in Conns, VoiceJoin(c) \/ VoiceLeave(c)
    PROVE  RoomsInv'
<1> USE DEF RoomsInv
<1>1. /\ rpc[c] = "read" /\ rpc'[c] = "list"
      /\ \A d \in Conns \ {c} : rpc'[d] = rpc[d]
      /\ rpc' \in [Conns -> {"gone", "read", "view", "evict", "evictStream"} \cup Telling]
  BY LeadsFacts DEF VoiceJoin, VoiceLeave, Telling
<1>2. /\ racing' = \E d \in Conns : rpc[d] \in Telling
      /\ UNCHANGED <<open, live, viewers, host, peersRead, watches>>
      /\ panel' \in [Conns -> SUBSET Users]
  BY DEF VoiceJoin, VoiceLeave, startsList, RTypeOK
<1>3. \/ /\ room' = room \cup {Owner[c]}
         /\ sits' = IF evictingRoom(Owner[c]) THEN sits ELSE sits \cup {Owner[c]}
      \/ room' = room \ {Owner[c]} /\ sits' = sits \ {Owner[c]}
  BY DEF VoiceJoin, VoiceLeave, voiceRoomJoin, voiceRoomLeave
<1>4. RTypeOK'
  BY <1>1, <1>2, <1>3, OwnerFacts DEF RTypeOK
<1>5. PlaceInv' /\ c \in open
  BY <1>1, <1>2 DEF PlaceInv
<1>6. /\ online(Owner[c])
      /\ \A u : /\ online(u)' <=> online(u)
                /\ evicting(u)' <=> evicting(u)
                /\ evictingRoom(u)' <=> evictingRoom(u)
  BY <1>1, <1>2, <1>5 DEF online, evicting, evictingRoom, connsOf
<1>7. GhostInv'
  BY <1>2, <1>3, <1>6 DEF GhostInv
<1>8. WishInv'
  BY <1>2, <1>3, <1>6 DEF WishInv
<1>9. PanelInv'
  BY <1>1, <1>2 DEF PanelInv, Telling
<1>10. QED
  BY <1>4, <1>5, <1>7, <1>8, <1>9

LEMMA ListRooms ==
    ASSUME RoomsInv, NEW c \in Conns, voiceRoomPeers(c)
    PROVE  RoomsInv'
<1> USE DEF RoomsInv
<1>1. /\ rpc[c] = "list" /\ rpc'[c] = "peers"
      /\ \A d \in Conns \ {c} : rpc'[d] = rpc[d]
      /\ rpc' \in [Conns -> {"gone", "read", "view", "evict", "evictStream"} \cup Telling]
  BY LeadsFacts DEF voiceRoomPeers, Telling
<1>2. /\ peersRead' = [peersRead EXCEPT ![c] = room]
      /\ UNCHANGED <<open, room, live, viewers, host, panel, sits, watches, racing>>
  BY DEF voiceRoomPeers, maps, wishes
<1>3. RTypeOK'
  BY <1>1, <1>2 DEF RTypeOK
<1>4. PlaceInv'
  BY <1>1, <1>2 DEF PlaceInv
<1>5. \A u : /\ online(u)' <=> online(u)
             /\ evicting(u)' <=> evicting(u)
             /\ evictingRoom(u)' <=> evictingRoom(u)
  BY <1>1, <1>2 DEF online, evicting, evictingRoom, connsOf
<1>6. GhostInv' /\ WishInv'
  BY <1>2, <1>5 DEF GhostInv, WishInv
<1>7. PanelInv'
  BY <1>1, <1>2 DEF PanelInv, Telling, RTypeOK
<1>8. QED
  BY <1>3, <1>4, <1>6, <1>7

LEMMA BroadcastRooms ==
    ASSUME RoomsInv, NEW c \in Conns, voiceRoomBroadcastPeers(c)
    PROVE  RoomsInv'
<1> USE DEF RoomsInv
<1>1. /\ rpc[c] = "peers" /\ rpc'[c] = (IF c \in open THEN "read" ELSE "evictStream")
      /\ \A d \in Conns \ {c} : rpc'[d] = rpc[d]
      /\ rpc' \in [Conns -> {"gone", "read", "view", "evict", "evictStream"} \cup Telling]
  BY LeadsFacts DEF voiceRoomBroadcastPeers, Telling
<1>2. /\ panel' = [d \in Conns |-> IF d \in told(c) THEN peersRead[c] ELSE panel[d]]
      /\ peersRead' = [peersRead EXCEPT ![c] = {}]
      /\ UNCHANGED <<open, room, live, viewers, host, sits, watches, racing>>
  BY DEF voiceRoomBroadcastPeers, maps, wishes
<1>3. RTypeOK'
  BY <1>1, <1>2 DEF RTypeOK
<1>4. PlaceInv'
  BY <1>1, <1>2 DEF PlaceInv
<1>5. \A u : /\ online(u)' <=> online(u)
             /\ evicting(u)' <=> evicting(u)
             /\ evictingRoom(u)' <=> evictingRoom(u)
  BY <1>1, <1>2 DEF online, evicting, evictingRoom, connsOf
<1>6. GhostInv' /\ WishInv'
  BY <1>2, <1>5 DEF GhostInv, WishInv
<1>7. ASSUME ~racing PROVE \A d \in open : panel'[d] # {} /\ Owner[d] \in room => panel'[d] = room
  <2>1. peersRead[c] = room
    BY <1>1, <1>7 DEF PanelInv
  <2>2. \A d \in open : Owner[d] \in room => d \in told(c)
    BY <2>1 DEF told
  <2>3. QED
    BY <1>2, <2>1, <2>2 DEF RTypeOK
<1>8. PanelInv'
  BY <1>1, <1>2, <1>7 DEF PanelInv, Telling, RTypeOK
<1>9. QED
  BY <1>3, <1>4, <1>6, <1>8

\* The messages about streams leave rooms, connections and panels alone.
LEMMA StreamsOnly ==
    ASSUME RoomsInv, NEW c \in Conns, StreamStep(c)
    PROVE  /\ UNCHANGED <<open, room, peersRead, panel, sits, racing>>
           /\ c \in open /\ rpc[c] \in {"read", "view"} /\ rpc'[c] \in {"read", "view"}
           /\ \A d \in Conns \ {c} : rpc'[d] = rpc[d]
           /\ rpc' \in [Conns -> {"gone", "read", "view", "evict", "evictStream"} \cup Telling]
           /\ host' \in [Conns -> Users \cup {NoOne}]
           /\ PlaceInv'
<1> USE DEF RoomsInv
<1>1. CASE StreamStart(c) \/ StreamStop(c) \/ \E h \in Users : StreamLeave(c, h)
  BY <1>1 DEF StreamStart, StreamStop, StreamLeave, RTypeOK, PlaceInv
<1>2. CASE \E h \in Users : StreamJoin(c, h)
  <2> PICK h \in Users : StreamJoin(c, h)
    BY <1>2
  <2>1. /\ rpc[c] = "read" /\ rpc'[c] = "view"
        /\ \A d \in Conns \ {c} : rpc'[d] = rpc[d]
        /\ rpc' \in [Conns -> {"gone", "read", "view", "evict", "evictStream"} \cup Telling]
    BY LeadsFacts DEF StreamJoin
  <2>2. host' = [host EXCEPT ![c] = h] /\ UNCHANGED <<open, room, peersRead, panel, sits, racing>>
    BY DEF StreamJoin, maps, wishes
  <2>3. QED
    BY <2>1, <2>2 DEF RTypeOK, PlaceInv
<1>3. CASE AddViewer(c)
  <2>1. /\ rpc[c] = "view" /\ rpc'[c] = "read"
        /\ \A d \in Conns \ {c} : rpc'[d] = rpc[d]
        /\ rpc' \in [Conns -> {"gone", "read", "view", "evict", "evictStream"} \cup Telling]
    BY <1>3, LeadsFacts DEF AddViewer
  <2>2. host' = [host EXCEPT ![c] = NoOne] /\ UNCHANGED <<open, room, peersRead, panel, sits, racing>>
    BY <1>3 DEF AddViewer
  <2>3. QED
    BY <2>1, <2>2 DEF RTypeOK, PlaceInv
<1>4. QED
  BY <1>1, <1>2, <1>3 DEF StreamStep

\* Who hosts and who watches after one of them; a stream that is not live has
\* no viewers.
LEMMA StreamMaps ==
    ASSUME RoomsInv, NEW c \in Conns, StreamStep(c)
    PROVE  /\ live' \subseteq live \cup {Owner[c]}
           /\ viewers' \in [Users -> SUBSET Users]
           /\ \A h \in Users \ live' : viewers'[h] = {}
           /\ \A h \in Users : viewers'[h] \subseteq viewers[h] \cup {Owner[c]}
           /\ watches' \subseteq Users \X Users
           /\ \A w \in watches' :
                /\ w[1] \in viewers'[w[2]]
                /\ w \in watches \/ (~evicting(w[1]) /\ ~evicting(w[2]))
<1> USE DEF RoomsInv
<1>0. Owner[c] \in Users
  BY OwnerFacts
<1>1. CASE StreamStart(c) \/ StreamStop(c)
  <2>1. /\ live' = live \cup {Owner[c]} \/ live' = live \ {Owner[c]}
        /\ viewers' = [viewers EXCEPT ![Owner[c]] = {}]
        /\ watches' = {w \in watches : w[2] # Owner[c]}
    BY <1>1 DEF StreamStart, StreamStop, streamStart, streamStop
  <2>2. QED
    BY <1>0, <2>1 DEF RTypeOK, WishInv
<1>2. CASE \E h \in Users : StreamJoin(c, h)
  BY <1>2 DEF StreamJoin, maps, wishes, RTypeOK, WishInv
<1>3. CASE \E h \in Users : StreamLeave(c, h)
  <2> PICK h \in Users : StreamLeave(c, h)
    BY <1>3
  <2>1. /\ viewers' = [viewers EXCEPT ![h] = @ \ {Owner[c]}] /\ live' = live
        /\ watches' = watches \ {<<Owner[c], h>>}
    BY DEF StreamLeave, streamRemoveViewer
  <2>2. \A w \in watches' : w \in watches /\ ~(w[1] = Owner[c] /\ w[2] = h) /\ w[2] \in Users
    BY <2>1 DEF RTypeOK
  <2>3. \A w \in watches' : w[1] \in viewers'[w[2]]
    BY <2>1, <2>2 DEF RTypeOK, WishInv
  <2>4. QED
    BY <2>1, <2>2, <2>3 DEF RTypeOK
<1>4. CASE AddViewer(c)
  <2> DEFINE h == host[c]
  <2>1. h \in Users
    BY <1>4 DEF AddViewer, leads, PlaceInv
  <2>2. /\ viewers' = [viewers EXCEPT ![h] = viewers[h] \cup {v \in {Owner[c]} : h \in live}]
        /\ live' = live
        /\ watches' = watches \cup {w \in {<<Owner[c], h>>} : w[2] \in live /\ ~evicting(w[1]) /\ ~evicting(w[2])}
    BY <1>4 DEF AddViewer, streamAddViewer, streamHas
  <2> HIDE DEF h
  <2>3. \A w \in watches' : \/ w \in watches
                            \/ /\ w = <<Owner[c], h>> /\ h \in live
                               /\ ~evicting(w[1]) /\ ~evicting(w[2])
    BY <2>2
  <2>4. watches' \subseteq Users \X Users
    BY <1>0, <2>1, <2>3 DEF RTypeOK
  <2>5. \A g \in Users : /\ viewers[g] \subseteq viewers'[g] /\ viewers'[g] \subseteq viewers[g] \cup {Owner[c]}
                         /\ viewers'[g] \in SUBSET Users
                         /\ g \notin live => viewers'[g] = {}
    BY <1>0, <2>1, <2>2 DEF RTypeOK
  <2>6. h \in live => Owner[c] \in viewers'[h]
    BY <2>1, <2>2 DEF RTypeOK
  <2>7. \A w \in watches' : w[1] \in viewers'[w[2]]
    BY <2>3, <2>5, <2>6 DEF WishInv, RTypeOK
  <2>8. viewers' \in [Users -> SUBSET Users]
    BY <2>2, <2>5 DEF RTypeOK
  <2>9. QED
    BY <2>2, <2>3, <2>4, <2>5, <2>7, <2>8
<1>5. QED
  BY <1>1, <1>2, <1>3, <1>4 DEF StreamStep

LEMMA StreamRooms ==
    ASSUME RoomsInv, NEW c \in Conns, StreamStep(c)
    PROVE  RoomsInv'
<1> USE DEF RoomsInv
<1>1. /\ UNCHANGED <<open, room, peersRead, panel, sits, racing>>
      /\ c \in open /\ rpc[c] \in {"read", "view"} /\ rpc'[c] \in {"read", "view"}
      /\ \A d \in Conns \ {c} : rpc'[d] = rpc[d]
      /\ rpc' \in [Conns -> {"gone", "read", "view", "evict", "evictStream"} \cup Telling]
      /\ host' \in [Conns -> Users \cup {NoOne}]
      /\ PlaceInv'
  BY StreamsOnly
<1>2. /\ live' \subseteq live \cup {Owner[c]}
      /\ viewers' \in [Users -> SUBSET Users]
      /\ \A h \in Users \ live' : viewers'[h] = {}
      /\ \A h \in Users : viewers'[h] \subseteq viewers[h] \cup {Owner[c]}
      /\ watches' \subseteq Users \X Users
      /\ \A w \in watches' :
           /\ w[1] \in viewers'[w[2]]
           /\ w \in watches \/ (~evicting(w[1]) /\ ~evicting(w[2]))
  BY StreamMaps
<1>3. RTypeOK'
  BY <1>1, <1>2, OwnerFacts DEF RTypeOK
<1>4. /\ online(Owner[c])
      /\ \A u : /\ online(u)' <=> online(u)
                /\ evicting(u)' <=> evicting(u)
                /\ evictingRoom(u)' <=> evictingRoom(u)
  BY <1>1 DEF online, evicting, evictingRoom, connsOf
<1>5. GhostInv'
  BY <1>1, <1>2, <1>4 DEF GhostInv
<1>6. WishInv'
  BY <1>1, <1>2, <1>4 DEF WishInv
<1>7. PanelInv'
  BY <1>1 DEF PanelInv, Telling
<1>8. QED
  BY <1>1, <1>3, <1>5, <1>6, <1>7

LEMMA RoomsNext == RoomsInv /\ [RNext]_rvars => RoomsInv'
<1> SUFFICES ASSUME RoomsInv, [RNext]_rvars PROVE RoomsInv'
  OBVIOUS
<1>1. CASE UNCHANGED rvars
  <2>1. \A u : /\ online(u)' <=> online(u)
               /\ evicting(u)' <=> evicting(u)
               /\ evictingRoom(u)' <=> evictingRoom(u)
    BY <1>1 DEF rvars, online, evicting, evictingRoom, connsOf
  <2>2. QED
    BY <1>1, <2>1 DEF rvars, RoomsInv, RTypeOK, PlaceInv, GhostInv, WishInv, PanelInv
<1>2. CASE RNext
  <2> PICK c \in Conns : Connections(c) \/ RoomStep(c) \/ StreamStep(c)
    BY <1>2 DEF RNext
  <2>1. CASE Connections(c)
    BY <2>1, ConnectRooms, DisconnectRooms, EvictRooms, EvictStreams DEF Connections
  <2>2. CASE RoomStep(c)
    BY <2>2, JoinLeaveRooms, ListRooms, BroadcastRooms DEF RoomStep
  <2>3. CASE StreamStep(c)
    BY <2>3, StreamRooms
  <2>4. QED
    BY <2>1, <2>2, <2>3
<1>3. QED
  BY <1>1, <1>2

(***************************************************************************)
(* voiceRoomEvictUser, streamEvictUser and the messages of rooms and       *)
(* streams: nobody who is gone stays on a map, nobody who joined is taken  *)
(* off by the closing of another of their devices, and a list of peers     *)
(* that was alone leaves the clients in the room with the room.            *)
(***************************************************************************)
THEOREM RoomsKept == RSpec => []RoomsSafe
<1>1. RoomsInv => RoomsSafe
  <2> SUFFICES ASSUME RoomsInv PROVE RoomsSafe
    OBVIOUS
  <2>1. \A u : evictingRoom(u) => evicting(u)
    BY DEF RoomsInv, PlaceInv, evictingRoom, evicting, connsOf
  <2>2. NoGhosts
    BY <2>1 DEF RoomsInv, GhostInv, NoGhosts
  <2>3. JoinedStays
    BY DEF RoomsInv, WishInv, JoinedStays
  <2>4. PanelsAgree
    BY DEF RoomsInv, PanelInv, PanelsAgree
  <2>5. QED
    BY <2>2, <2>3, <2>4 DEF RoomsInv, RoomsSafe
<1>2. QED
  BY <1>1, RoomsInit, RoomsNext, PTL DEF RSpec

-----------------------------------------------------------------------------
(* TURN credentials. *)

Fetch == [by : Reqs, inline : BOOLEAN, since : Nat, issued : Nat]

\* A fetch under way is younger than the longest one takes.
FetchInv ==
    /\ now \in Nat /\ now >= 1
    /\ fetches \subseteq Fetch
    /\ \A f \in fetches : 1 <= f.since /\ f.since <= f.issued /\ f.issued <= now /\ now <= f.since + Timeout

\* The cached set is given up in time.
SetInv == cached # None => expires <= cached + TTL + Timeout

\* Since a fetch began somebody else may have stored a set, which is then as
\* young as the fetch; otherwise an inline one has found nothing usable, and a
\* background one has the flag.
NewerInv ==
    /\ \A g \in fetches : g.inline => ~usable \/ expires >= g.since + TTL
    /\ \A f \in fetches : ~f.inline => refreshing \/ ~usable \/ expires >= f.since + TTL
    /\ \A f, g \in fetches : ~f.inline /\ g.inline => f.since <= g.since

TurnInv == CTypeOK /\ FetchInv /\ SetInv /\ NewerInv /\ OneBackgroundRefresh /\ GivenStillGood /\ NoneOnlyWithout

LEMMA TurnNumbers ==
    /\ TTL \in Nat /\ RefreshBefore \in Nat /\ RetryAfter \in Nat /\ Timeout \in Nat /\ MaxTime \in Nat
    /\ RefreshBefore + Timeout < TTL /\ RetryAfter < MaxTime
    /\ None = 0
BY CfTurnAssumption DEF None

LEMMA TurnInit == CInit => TurnInv
<1> SUFFICES ASSUME CInit PROVE TurnInv
  OBVIOUS
<1>1. given = [set |-> None, at |-> 0, usable |-> FALSE]
  BY DEF CInit
<1>2. given.set = None /\ given.at = 0 /\ given.usable = FALSE
  BY <1>1
<1>3. /\ now = RetryAfter + 1 /\ cached = None /\ expires = 0 /\ lastFail = 0
      /\ refreshing = FALSE /\ fetches = {}
  BY DEF CInit
<1>4. CTypeOK
  <2>1. now \in RetryAfter + 1 .. MaxTime /\ cached \in Nat /\ expires \in Nat /\ lastFail \in Nat
    BY <1>3, TurnNumbers
  <2>2. given.set \in Nat /\ given.at \in Nat
    BY <1>2, TurnNumbers
  <2>3. QED
    BY <1>2, <1>3, <2>1, <2>2, Zenon DEF CTypeOK
<1>5. FetchInv /\ SetInv
  BY <1>3, TurnNumbers DEF FetchInv, SetInv
<1>6. NewerInv /\ OneBackgroundRefresh /\ GivenStillGood /\ NoneOnlyWithout
  BY <1>2, <1>3, Zenon DEF NewerInv, OneBackgroundRefresh, GivenStillGood, NoneOnlyWithout
<1>7. QED
  BY <1>4, <1>5, <1>6 DEF TurnInv

LEMMA FetchFields ==
    ASSUME FetchInv, NEW f \in fetches
    PROVE  f.by \in Reqs /\ f.inline \in BOOLEAN /\ f.since \in Nat /\ f.issued \in Nat
BY DEF FetchInv, Fetch

\* What an answer says, if the set is good.
LEMMA AnswerFacts ==
    ASSUME TurnInv, NEW set \in Nat, answers(set),
           set # None => now <= set + TTL + Timeout,
           set = None => ~usable
    PROVE  /\ given'.set \in Nat /\ given'.at \in Nat /\ given'.usable \in BOOLEAN
           /\ GivenStillGood' /\ NoneOnlyWithout'
<1> DEFINE b == cached # None /\ now < expires
<1>1. b \in BOOLEAN /\ (b <=> usable)
  BY Zenon DEF usable
<1>2. given' = [set |-> set, at |-> now, usable |-> b]
  BY DEF answers
<1> HIDE DEF b
<1>3. given'.set = set /\ given'.at = now /\ given'.usable = b
  BY <1>2
<1>4. now \in Nat
  BY DEF TurnInv, FetchInv
<1>5. GivenStillGood'
  BY <1>3 DEF GivenStillGood
<1>6. NoneOnlyWithout'
  BY <1>1, <1>3, Zenon DEF NoneOnlyWithout
<1>7. QED
  BY <1>1, <1>3, <1>4, <1>5, <1>6, Zenon

LEMMA SameAnswer ==
    ASSUME TurnInv, UNCHANGED given
    PROVE  /\ given'.set \in Nat /\ given'.at \in Nat /\ given'.usable \in BOOLEAN
           /\ GivenStillGood' /\ NoneOnlyWithout'
BY Zenon DEF TurnInv, CTypeOK, GivenStillGood, NoneOnlyWithout

\* While a set is old enough to be refreshed, no fetch that would have stored
\* a younger one is under way.
LEMMA NobodyFetches ==
    ASSUME TurnInv, usable, dueForRefresh
    PROVE  fetches = {}
<1> SUFFICES ASSUME NEW f \in fetches PROVE FALSE
  OBVIOUS
<1>1. expires - now < RefreshBefore /\ ~refreshing
  BY DEF dueForRefresh
<1>2. expires >= f.since + TTL
  BY <1>1, Zenon DEF TurnInv, NewerInv
<1>3. now <= f.since + Timeout /\ now \in Nat /\ f.since \in Nat /\ expires \in Nat
  BY FetchFields DEF TurnInv, FetchInv, CTypeOK
<1>4. QED
  BY <1>1, <1>2, <1>3, TurnNumbers

\* A fetch that starts.
LEMMA StartFacts ==
    ASSUME TurnInv, NEW r \in Reqs, NEW inline \in BOOLEAN, starts(r, inline), UNCHANGED now
    PROVE  /\ FetchInv'
           /\ \A f \in fetches' : \/ f \in fetches
                                  \/ f.inline = inline /\ f.since = now /\ f.issued = now /\ f.by = r
<1> DEFINE n == [by |-> r, inline |-> inline, since |-> now, issued |-> now]
<1>1. fetches' = fetches \cup {n}
  BY DEF starts
<1>2. now \in Nat /\ now >= 1
  BY DEF TurnInv, FetchInv
<1>3. n \in Fetch /\ n.inline = inline /\ n.since = now /\ n.issued = now /\ n.by = r
  BY <1>2 DEF Fetch
<1> HIDE DEF n
<1>4. \A f \in fetches' : f \in fetches \/ f = n
  BY <1>1
<1>5. FetchInv'
  <2>1. fetches' \subseteq Fetch
    BY <1>1, <1>3 DEF TurnInv, FetchInv
  <2>2. now <= now + Timeout /\ now <= now
    BY <1>2, TurnNumbers
  <2>3. QED
    BY <1>2, <1>3, <1>4, <2>1, <2>2 DEF TurnInv, FetchInv
<1>6. QED
  BY <1>3, <1>4, <1>5

\* CTypeOK, from what the steps keep.
LEMMA TurnTypes ==
    ASSUME FetchInv', now' \in RetryAfter + 1 .. MaxTime,
           cached' \in Nat, expires' \in Nat, lastFail' \in Nat, refreshing' \in BOOLEAN,
           given'.set \in Nat, given'.at \in Nat, given'.usable \in BOOLEAN
    PROVE  CTypeOK'
<1>1. \A f \in fetches' : f.by \in Reqs /\ f.inline \in BOOLEAN /\ f.since <= f.issued /\ f.issued <= now'
  BY DEF FetchInv, Fetch
<1>2. QED
  BY <1>1, Zenon DEF CTypeOK

LEMMA CachedTurn ==
    ASSUME TurnInv, NEW r \in Reqs, ConfigCached(r)
    PROVE  TurnInv'
<1>1. usable /\ answers(cached) /\ UNCHANGED <<now, cached, expires, lastFail>>
  BY DEF ConfigCached
<1>2. usable' <=> usable
  BY <1>1 DEF usable
<1>3. /\ given'.set \in Nat /\ given'.at \in Nat /\ given'.usable \in BOOLEAN
      /\ GivenStillGood' /\ NoneOnlyWithout'
  <2>1. cached \in Nat /\ expires \in Nat /\ now \in Nat /\ cached # None /\ now < expires /\ expires <= cached + TTL + Timeout
    BY <1>1 DEF TurnInv, CTypeOK, FetchInv, SetInv, usable
  <2>2. now <= cached + TTL + Timeout
    BY <2>1, TurnNumbers
  <2>3. QED
    BY <1>1, <2>1, <2>2, AnswerFacts
<1>4. SetInv'
  BY <1>1 DEF TurnInv, SetInv
<1>5. CASE dueForRefresh
  <2>1. refreshing' = TRUE /\ starts(r, FALSE)
    BY <1>5 DEF ConfigCached
  <2>2. fetches = {}
    BY <1>1, <1>5, NobodyFetches
  <2>3. FetchInv' /\ \A f \in fetches' : f.inline = FALSE /\ f.since = now /\ f.issued = now /\ f.by = r
    BY <1>1, <2>1, <2>2, StartFacts
  <2>4. NewerInv'
    BY <2>1, <2>3, Zenon DEF NewerInv
  <2>5. OneBackgroundRefresh'
    <3>1. fetches' = {[by |-> r, inline |-> FALSE, since |-> now, issued |-> now]}
      BY <2>1, <2>2 DEF starts
    <3>2. QED
      BY <3>1, Zenon DEF OneBackgroundRefresh
  <2>6. CTypeOK'
    BY <1>1, <1>3, <2>1, <2>3, TurnTypes DEF TurnInv, CTypeOK
  <2>7. QED
    BY <1>3, <1>4, <2>3, <2>4, <2>5, <2>6 DEF TurnInv
<1>6. CASE ~dueForRefresh
  <2>1. UNCHANGED <<refreshing, fetches>>
    BY <1>6 DEF ConfigCached
  <2>2. FetchInv'
    BY <1>1, <2>1 DEF TurnInv, FetchInv
  <2>3. NewerInv' /\ OneBackgroundRefresh'
    BY <1>1, <1>2, <2>1 DEF TurnInv, NewerInv, OneBackgroundRefresh
  <2>4. CTypeOK'
    BY <1>1, <1>3, <2>1, <2>2, TurnTypes DEF TurnInv, CTypeOK
  <2>5. QED
    BY <1>3, <1>4, <2>2, <2>3, <2>4 DEF TurnInv
<1>7. QED
  BY <1>5, <1>6

LEMMA NoneTurn ==
    ASSUME TurnInv, NEW r \in Reqs, ConfigNone(r)
    PROVE  TurnInv'
<1>1. ~usable /\ answers(None) /\ UNCHANGED <<now, cached, expires, lastFail, refreshing, fetches>>
  BY DEF ConfigNone, fields
<1>2. usable' <=> usable
  BY <1>1 DEF usable
<1>3. /\ given'.set \in Nat /\ given'.at \in Nat /\ given'.usable \in BOOLEAN
      /\ GivenStillGood' /\ NoneOnlyWithout'
  BY <1>1, AnswerFacts, TurnNumbers
<1>4. FetchInv' /\ SetInv'
  BY <1>1 DEF TurnInv, FetchInv, SetInv
<1>5. NewerInv' /\ OneBackgroundRefresh'
  BY <1>1, <1>2 DEF TurnInv, NewerInv, OneBackgroundRefresh
<1>6. CTypeOK'
  BY <1>1, <1>3, <1>4, TurnTypes DEF TurnInv, CTypeOK
<1>7. QED
  BY <1>3, <1>4, <1>5, <1>6 DEF TurnInv

LEMMA FetchTurn ==
    ASSUME TurnInv, NEW r \in Reqs, ConfigFetch(r)
    PROVE  TurnInv'
<1>1. ~usable /\ starts(r, TRUE) /\ UNCHANGED <<now, cached, expires, lastFail, refreshing, given>>
  BY DEF ConfigFetch, fields
<1>2. usable' <=> usable
  BY <1>1 DEF usable
<1>3. /\ FetchInv'
      /\ \A f \in fetches' : f \in fetches \/ (f.inline = TRUE /\ f.since = now)
  BY <1>1, StartFacts
<1>4. SetInv'
  BY <1>1 DEF TurnInv, SetInv
<1>5. NewerInv'
  <2>1. \A f, g \in fetches' : ~f.inline /\ g.inline => f.since <= g.since
    <3> SUFFICES ASSUME NEW f \in fetches', NEW g \in fetches', ~f.inline, g.inline
                 PROVE  f.since <= g.since
      OBVIOUS
    <3>1. f \in fetches
      BY <1>3
    <3>2. f.since \in Nat /\ f.issued \in Nat /\ now \in Nat /\ f.since <= f.issued /\ f.issued <= now
      BY <3>1, FetchFields DEF TurnInv, FetchInv
    <3>3. CASE g \in fetches
      BY <3>1, <3>3 DEF TurnInv, NewerInv
    <3>4. CASE g.since = now
      BY <3>2, <3>4
    <3>5. QED
      BY <1>3, <3>3, <3>4
  <2>2. QED
    BY <1>1, <1>2, <1>3, <2>1, Zenon DEF NewerInv
<1>6. OneBackgroundRefresh'
  BY <1>3, Zenon DEF TurnInv, OneBackgroundRefresh
<1>7. /\ given'.set \in Nat /\ given'.at \in Nat /\ given'.usable \in BOOLEAN
      /\ GivenStillGood' /\ NoneOnlyWithout'
  BY <1>1, SameAnswer
<1>8. CTypeOK'
  BY <1>1, <1>3, <1>7, TurnTypes DEF TurnInv, CTypeOK
<1>9. QED
  BY <1>3, <1>4, <1>5, <1>6, <1>7, <1>8 DEF TurnInv

LEMMA IssueTurn ==
    ASSUME TurnInv, NEW f \in fetches, Issue(f)
    PROVE  TurnInv'
<1> DEFINE n == [f EXCEPT !.issued = now]
<1>1. /\ fetches' = (fetches \ {f}) \cup {n}
      /\ UNCHANGED <<now, cached, expires, lastFail, refreshing, given>>
  BY DEF Issue, fields
<1>2. usable' <=> usable
  BY <1>1 DEF usable
<1>3. /\ f \in Fetch /\ now \in Nat /\ now >= 1
      /\ 1 <= f.since /\ f.since <= f.issued /\ f.issued <= now /\ now <= f.since + Timeout
  BY DEF TurnInv, FetchInv
<1>4. n \in Fetch /\ n.by = f.by /\ n.inline = f.inline /\ n.since = f.since /\ n.issued = now
  BY <1>3 DEF Fetch
<1> HIDE DEF n
<1>5. \A g \in fetches' : \/ g \in fetches
                          \/ g = n
  BY <1>1
<1>6. FetchInv'
  <2>1. fetches' \subseteq Fetch
    BY <1>1, <1>4 DEF TurnInv, FetchInv
  <2>2. f.since <= now /\ now <= now
    BY <1>3 DEF Fetch
  <2>3. QED
    BY <1>1, <1>3, <1>4, <1>5, <2>1, <2>2 DEF TurnInv, FetchInv
<1>7. SetInv'
  BY <1>1 DEF TurnInv, SetInv
<1>8. NewerInv'
  <2>1. \A g \in fetches' : \E h \in fetches : h.inline = g.inline /\ h.since = g.since
    BY <1>4, <1>5
  <2>2. \A g \in fetches' : g.inline => ~usable \/ expires >= g.since + TTL
    BY <2>1 DEF TurnInv, NewerInv
  <2>3. \A g \in fetches' : ~g.inline => refreshing \/ ~usable \/ expires >= g.since + TTL
    BY <2>1 DEF TurnInv, NewerInv
  <2>4. \A g, h \in fetches' : ~g.inline /\ h.inline => g.since <= h.since
    BY <2>1 DEF TurnInv, NewerInv
  <2>5. QED
    BY <1>1, <1>2, <2>2, <2>3, <2>4, Zenon DEF NewerInv
<1>9. OneBackgroundRefresh'
  <2> SUFFICES ASSUME NEW g \in fetches', NEW h \in fetches', ~g.inline, ~h.inline
               PROVE  g = h
    BY DEF OneBackgroundRefresh
  <2>1. CASE g = n \/ h = n
    <3>1. ~f.inline
      BY <1>4, <2>1
    <3>2. \A k \in fetches : ~k.inline => k = f
      BY <3>1 DEF TurnInv, OneBackgroundRefresh
    <3>3. QED
      BY <1>1, <3>2
  <2>2. CASE g # n /\ h # n
    BY <1>5, <2>2 DEF TurnInv, OneBackgroundRefresh
  <2>3. QED
    BY <2>1, <2>2
<1>10. /\ given'.set \in Nat /\ given'.at \in Nat /\ given'.usable \in BOOLEAN
       /\ GivenStillGood' /\ NoneOnlyWithout'
  BY <1>1, SameAnswer
<1>11. CTypeOK'
  BY <1>1, <1>6, <1>10, TurnTypes DEF TurnInv, CTypeOK
<1>12. QED
  BY <1>6, <1>7, <1>8, <1>9, <1>10, <1>11 DEF TurnInv

\* A fetch that is over leaves the others.
LEMMA OverFacts ==
    ASSUME TurnInv, NEW f \in fetches, fetches' = fetches \ {f}, UNCHANGED now
    PROVE  FetchInv' /\ OneBackgroundRefresh'
           /\ \A g, h \in fetches' : ~g.inline /\ h.inline => g.since <= h.since
BY DEF TurnInv, FetchInv, OneBackgroundRefresh, NewerInv

LEMMA FailedTurn ==
    ASSUME TurnInv, NEW f \in fetches, RefreshFailed(f)
    PROVE  TurnInv'
<1>1. /\ fetches' = fetches \ {f} /\ refreshing' = FALSE /\ lastFail' = now
      /\ replies(f, fallback) /\ UNCHANGED <<now, cached, expires>>
  BY DEF RefreshFailed
<1>2. usable' <=> usable
  BY <1>1 DEF usable
<1>3. /\ FetchInv' /\ OneBackgroundRefresh'
      /\ \A g, h \in fetches' : ~g.inline /\ h.inline => g.since <= h.since
  BY <1>1, OverFacts
<1>4. SetInv'
  BY <1>1 DEF TurnInv, SetInv
<1>5. \A g \in fetches' : ~g.inline => ~usable \/ expires >= g.since + TTL
  <2> SUFFICES ASSUME NEW g \in fetches', ~g.inline, usable
               PROVE  expires >= g.since + TTL
    OBVIOUS
  <2>1. g \in fetches /\ g # f
    BY <1>1
  <2>2. f.inline
    BY <2>1 DEF TurnInv, OneBackgroundRefresh
  <2>3. expires >= f.since + TTL /\ g.since <= f.since
    BY <2>1, <2>2 DEF TurnInv, NewerInv
  <2>4. expires \in Nat /\ f.since \in Nat /\ g.since \in Nat
    BY <2>1, FetchFields DEF TurnInv, CTypeOK
  <2>5. QED
    BY <2>3, <2>4, TurnNumbers
<1>6. \A g \in fetches' : g.inline => ~usable \/ expires >= g.since + TTL
  BY <1>1 DEF TurnInv, NewerInv
<1>7. NewerInv'
  BY <1>1, <1>2, <1>3, <1>5, <1>6, Zenon DEF NewerInv
<1>8. /\ given'.set \in Nat /\ given'.at \in Nat /\ given'.usable \in BOOLEAN
      /\ GivenStillGood' /\ NoneOnlyWithout'
  <2>1. CASE f.inline
    <3>1. answers(fallback)
      BY <1>1, <2>1 DEF replies
    <3>2. cached \in Nat /\ expires \in Nat /\ now \in Nat
      BY DEF TurnInv, CTypeOK, FetchInv
    <3>3. fallback \in Nat /\ (fallback # None => usable /\ fallback = cached) /\ (fallback = None => ~usable)
      BY <3>2, TurnNumbers DEF fallback, usable
    <3>4. usable => now <= cached + TTL + Timeout
      BY <3>2, TurnNumbers DEF usable, TurnInv, SetInv
    <3>5. QED
      BY <3>1, <3>3, <3>4, AnswerFacts
  <2>2. CASE ~f.inline
    BY <1>1, <2>2, SameAnswer DEF replies
  <2>3. QED
    BY <2>1, <2>2
<1>9. CTypeOK'
  <2>1. now' \in RetryAfter + 1 .. MaxTime /\ cached' \in Nat /\ expires' \in Nat /\ lastFail' \in Nat
    BY <1>1 DEF TurnInv, CTypeOK, FetchInv
  <2>2. QED
    BY <1>1, <1>3, <1>8, <2>1, TurnTypes
<1>10. QED
  BY <1>3, <1>4, <1>7, <1>8, <1>9 DEF TurnInv

LEMMA OKTurn ==
    ASSUME TurnInv, NEW f \in fetches, RefreshOK(f)
    PROVE  TurnInv'
<1>1. /\ fetches' = fetches \ {f} /\ refreshing' = FALSE /\ cached' = f.issued
      /\ expires' = now + TTL /\ replies(f, f.issued) /\ UNCHANGED <<now, lastFail>>
  BY DEF RefreshOK
<1>2. /\ f.issued \in Nat /\ f.since \in Nat /\ now \in Nat /\ 1 <= f.since
      /\ f.since <= f.issued /\ f.issued <= now /\ now <= f.since + Timeout
  BY FetchFields DEF TurnInv, FetchInv
<1>3. /\ FetchInv' /\ OneBackgroundRefresh'
      /\ \A g, h \in fetches' : ~g.inline /\ h.inline => g.since <= h.since
  BY <1>1, OverFacts
<1>4. SetInv'
  BY <1>1, <1>2, TurnNumbers DEF SetInv
<1>5. \A g \in fetches' : expires' >= g.since + TTL
  <2> SUFFICES ASSUME NEW g \in fetches' PROVE expires' >= g.since + TTL
    OBVIOUS
  <2>1. g \in fetches
    BY <1>1
  <2>2. g.since \in Nat /\ g.issued \in Nat /\ g.since <= g.issued /\ g.issued <= now
    BY <2>1, FetchFields DEF TurnInv, FetchInv
  <2>3. QED
    BY <1>1, <1>2, <2>2, TurnNumbers
<1>6. NewerInv'
  BY <1>3, <1>5, Zenon DEF NewerInv
<1>7. /\ given'.set \in Nat /\ given'.at \in Nat /\ given'.usable \in BOOLEAN
      /\ GivenStillGood' /\ NoneOnlyWithout'
  <2>1. CASE f.inline
    <3>1. answers(f.issued)
      BY <1>1, <2>1 DEF replies
    <3>2. f.issued # None /\ now <= f.issued + TTL + Timeout
      BY <1>2, TurnNumbers
    <3>3. QED
      BY <1>2, <3>1, <3>2, AnswerFacts
  <2>2. CASE ~f.inline
    BY <1>1, <2>2, SameAnswer DEF replies
  <2>3. QED
    BY <2>1, <2>2
<1>8. CTypeOK'
  <2>1. now' \in RetryAfter + 1 .. MaxTime /\ cached' \in Nat /\ expires' \in Nat /\ lastFail' \in Nat
    BY <1>1, <1>2, TurnNumbers DEF TurnInv, CTypeOK
  <2>2. QED
    BY <1>1, <1>3, <1>7, <2>1, TurnTypes
<1>9. QED
  BY <1>3, <1>4, <1>6, <1>7, <1>8 DEF TurnInv

LEMMA TickTurn == TurnInv /\ Tick => TurnInv'
<1> SUFFICES ASSUME TurnInv, Tick PROVE TurnInv'
  OBVIOUS
<1>1. /\ now < MaxTime /\ now' = now + 1 /\ \A f \in fetches : now < f.since + Timeout
      /\ UNCHANGED <<cached, expires, lastFail, refreshing, fetches, given>>
  BY DEF Tick, fields
<1>2. now \in Nat /\ expires \in Nat
  BY DEF TurnInv, FetchInv, CTypeOK
<1>3. usable' => usable
  BY <1>1, <1>2 DEF usable
<1>4. FetchInv'
  <2>1. \A f \in fetches : f.issued <= now + 1 /\ now + 1 <= f.since + Timeout
    BY <1>1, <1>2, FetchFields, TurnNumbers DEF TurnInv, FetchInv
  <2>2. now' \in Nat /\ now' >= 1
    BY <1>1, <1>2 DEF TurnInv, FetchInv
  <2>3. QED
    BY <1>1, <2>1, <2>2 DEF TurnInv, FetchInv
<1>5. SetInv' /\ OneBackgroundRefresh'
  BY <1>1 DEF TurnInv, SetInv, OneBackgroundRefresh
<1>6. NewerInv'
  BY <1>1, <1>3, Zenon DEF TurnInv, NewerInv
<1>7. /\ given'.set \in Nat /\ given'.at \in Nat /\ given'.usable \in BOOLEAN
      /\ GivenStillGood' /\ NoneOnlyWithout'
  BY <1>1, SameAnswer
<1>8. CTypeOK'
  <2>1. now' \in RetryAfter + 1 .. MaxTime
    BY <1>1, TurnNumbers DEF TurnInv, CTypeOK
  <2>2. QED
    BY <1>1, <1>4, <1>7, <2>1, TurnTypes DEF TurnInv, CTypeOK
<1>9. QED
  BY <1>4, <1>5, <1>6, <1>7, <1>8 DEF TurnInv

LEMMA TurnNext == TurnInv /\ [CNext]_cvars => TurnInv'
<1> SUFFICES ASSUME TurnInv, [CNext]_cvars PROVE TurnInv'
  OBVIOUS
<1>1. CASE UNCHANGED cvars
  BY <1>1 DEF cvars, TurnInv, CTypeOK, FetchInv, SetInv, NewerInv, usable,
              OneBackgroundRefresh, GivenStillGood, NoneOnlyWithout
<1>2. CASE CNext
  BY <1>2, TickTurn, CachedTurn, NoneTurn, FetchTurn, IssueTurn, FailedTurn, OKTurn DEF CNext
<1>3. QED
  BY <1>1, <1>2

(***************************************************************************)
(* cfTURN, Config and refresh: however inline and background fetches       *)
(* overlap, fail and end, for any times that keep the order they have in   *)
(* the code and any number of requests, nobody is given a set that has run *)
(* out, nobody is given nothing while there is a set, and one background   *)
(* refresh runs at a time.                                                 *)
(***************************************************************************)
THEOREM CfTurnKept == CSpec => []CfTurnSafe
<1>1. TurnInv => CfTurnSafe
  BY DEF TurnInv, CfTurnSafe
<1>2. QED
  BY <1>1, TurnInit, TurnNext, PTL DEF CSpec

-----------------------------------------------------------------------------
(* Sets of numbers have a least member, and a greatest if they are bounded. *)

LEMMA LeastOf ==
    ASSUME NEW T \in SUBSET Nat, T # {}
    PROVE  \E x \in T : \A y \in T : x <= y
<1> DEFINE R == {p \in Nat \X Nat : p[1] < p[2]}
<1>1. IsWellFoundedOn(R, Nat)
  BY NatLessThanWellFounded, Zenon DEF OpToRel
<1>2. PICK x \in T : \A y \in T : ~(<<y, x>> \in R)
  <2> HIDE DEF R
  <2>1. QED
    BY <1>1, WFMin, Zenon
<1>3. ASSUME NEW y \in T PROVE x <= y
  <2>1. <<y, x>> \in Nat \X Nat /\ <<y, x>>[1] = y /\ <<y, x>>[2] = x
    OBVIOUS
  <2>2. ~(y < x)
    BY <1>2, <2>1
  <2>3. QED
    BY <2>2
<1>4. QED
  BY <1>3

LEMMA GreatestOf ==
    ASSUME NEW n \in Nat, NEW T \in SUBSET (0..n), T # {}
    PROVE  \E x \in T : \A y \in T : y <= x
<1> DEFINE U == {m \in Nat : n - m \in T}
<1>1. U \in SUBSET Nat /\ U # {}
  <2>1. PICK y \in T : TRUE
    OBVIOUS
  <2>2. n - y \in Nat /\ n - (n - y) = y
    OBVIOUS
  <2>3. n - y \in U
    BY <2>1, <2>2
  <2>4. QED
    BY <2>3
<1>2. PICK x \in U : \A y \in U : x <= y
  <2> HIDE DEF U
  <2>1. QED BY <1>1, LeastOf
<1>3. n - x \in T
  OBVIOUS
<1>4. ASSUME NEW y \in T PROVE y <= n - x
  <2>1. n - y \in Nat /\ n - (n - y) = y
    OBVIOUS
  <2>2. n - y \in U
    BY <2>1
  <2>3. QED
    BY <1>2, <2>2
<1>5. QED
  BY <1>3, <1>4

-----------------------------------------------------------------------------
(* Spaces. *)

Notices == [kind : {"none", "msg", "edit", "delete", "pin", "channels"}]
           \cup [kind : {"react"}, fresh : SUBSET Users]

made == {k \in Channels : position[k] # 0}

\* What a handler has read, and what it will tell, told by where it is.
HandlerInv ==
    /\ notice \in [Conns -> Notices] /\ read \in [Conns -> Nat]
    /\ \A c \in Conns :
        /\ notice[c].kind # "none" => wpc[c] \in {"members", "send"}
        /\ wpc[c] = "leave" => Owner[c] # Founder
        /\ wpc[c] \in {"toggle", "edit", "delete", "pin"} \/ notice[c].kind \in {"msg", "react"} => stored
        /\ wpc[c] = "post" => ~stored
        /\ wpc[c] = "channel" => read[c] \in 1..Cardinality(made) + 1
    /\ \A c, d \in Conns : wpc[c] = "post" /\ wpc[d] = "post" => c = d
    /\ ~stored => reactions = {}

\* No position is beyond the number of channels made.
CountInv == \A k \in Channels : position[k] \in 0..Cardinality(made) + 1

\* Without a clash one change at most is under way, and what it has read still holds.
AloneInv ==
    ~clash =>
        /\ \A c, d \in Conns : wpc[c] \in Working /\ wpc[d] \in Working => c = d
        /\ \A c \in Conns : wpc[c] = "channel" => \A k \in Channels : position[k] <= read[c]
        /\ \A c \in Conns : notice[c].kind = "react" => notice[c].fresh = reactions
        /\ \A c \in Conns : notice[c].kind = "msg" => reactions = {}

\* A client whose list is whole, or will be when the answer comes: what is on it.
tracks(c) == whole[c] \/ (wpc[c] = "answer" /\ ~late[c])
seen(c) == IF wpc[c] = "answer" THEN answer[c].has ELSE shows[c]
sees(c) == IF wpc[c] = "answer" THEN answer[c].marks ELSE marks[c]

\* It belongs to a member, and what it has not seen is on its way to it.
TrackInv(c) ==
    /\ userIsServerMember(Owner[c])
    /\ stored /\ ~seen(c) => \E d \in Conns : notice[d].kind = "msg"
    /\ \A d \in Conns : wpc[d] = "send" /\ notice[d].kind = "msg" => Owner[c] \in fan[d] \/ seen(c)
    /\ ~clash /\ seen(c) /\ reactions # {} /\ sees(c) # reactions =>
           \E d \in Conns : notice[d].kind = "react" /\ (wpc[d] = "send" => Owner[c] \in fan[d])

ListInv ==
    \A c \in Conns :
        /\ whole[c] => hasList[c] /\ wpc[c] # "answer"
        /\ tracks(c) => TrackInv(c)

SpacesInv == WTypeOK /\ OwnerKept /\ PositionsDistinct /\ HandlerInv /\ CountInv /\ AloneInv /\ ListInv

LEMMA ConnFacts ==
    ASSUME NEW c \in Conns
    PROVE  Owner[c] \in Users
BY HandlersAssumption

LEMMA GotoFacts ==
    ASSUME WTypeOK, NEW c \in Conns, NEW from, NEW to \in {"read", "leave", "answer"} \cup Working, goto(c, from, to)
    PROVE  /\ wpc[c] = from /\ wpc'[c] = to
           /\ wpc' \in [Conns -> {"read", "leave", "answer"} \cup Working]
           /\ \A d \in Conns \ {c} : wpc'[d] = wpc[d]
BY DEF WTypeOK, goto

LEMMA CardFacts ==
    /\ IsFiniteSet(made) /\ Cardinality(made) \in Nat /\ Cardinality(Channels) \in Nat
    /\ Cardinality(made) <= Cardinality(Channels)
<1>1. made \subseteq Channels
  BY DEF made
<1>2. IsFiniteSet(Channels)
  BY SpacesAssumption
<1> HIDE DEF made
<1>3. QED
  BY <1>1, <1>2, FS_Subset, FS_CardinalityType

\* The highest position is that of a channel there is, or of the second to begin with.
LEMMA HighestFacts ==
    ASSUME CountInv
    PROVE  highest \in 1..Cardinality(made) + 1 /\ \A k \in Channels : position[k] <= highest
<1> DEFINE n == Cardinality(made) + 1
<1>1. n \in Nat /\ n >= 1
  BY CardFacts
<1>2. taken \in SUBSET (0..n) /\ 1 \in taken /\ \A k \in Channels : position[k] \in taken
  <2>1. \A k \in Channels : position[k] \in 0..n
    BY DEF CountInv
  <2> HIDE DEF n
  <2>2. QED
    BY <1>1, <2>1 DEF taken
<1> HIDE DEF n
<1>3. \E x \in taken : \A y \in taken : y <= x
  BY <1>1, <1>2, GreatestOf
<1>4. highest \in taken /\ \A y \in taken : y <= highest
  BY <1>3 DEF highest
<1>5. highest \in 1..n
  BY <1>1, <1>2, <1>4
<1>6. QED
  BY <1>2, <1>4, <1>5 DEF n

\* A client that is told of everything stays so while the change it has not
\* seen is still on its way to it.
LEMMA TrackKept ==
    ASSUME NEW c \in Conns, TrackInv(c), userIsServerMember(Owner[c])',
           seen(c)' <=> seen(c), sees(c)' = sees(c), UNCHANGED <<stored, reactions>>, clash => clash',
           \A d \in Conns : notice'[d].kind = "msg" => notice[d].kind = "msg",
           \A d \in Conns : notice[d].kind \in {"msg", "react"} =>
               /\ notice'[d] = notice[d]
               /\ wpc'[d] = "send" => (wpc[d] = "send" /\ fan'[d] = fan[d]) \/ Owner[c] \in fan'[d]
    PROVE  TrackInv(c)'
<1>1. stored' /\ ~seen(c)' => \E d \in Conns : notice'[d].kind = "msg"
  BY DEF TrackInv
<1>2. \A d \in Conns : wpc'[d] = "send" /\ notice'[d].kind = "msg" => Owner[c] \in fan'[d] \/ seen(c)'
  BY DEF TrackInv
<1>3. ~clash' /\ seen(c)' /\ reactions' # {} /\ sees(c)' # reactions' =>
           \E d \in Conns : notice'[d].kind = "react" /\ (wpc'[d] = "send" => Owner[c] \in fan'[d])
  BY DEF TrackInv
<1>4. QED
  BY <1>1, <1>2, <1>3 DEF TrackInv

LEMMA SeenSame ==
    ASSUME NEW c \in Conns, wpc'[c] = "answer" <=> wpc[c] = "answer",
           wpc[c] = "answer" => answer'[c] = answer[c],
           wpc[c] # "answer" => shows'[c] = shows[c] /\ marks'[c] = marks[c]
    PROVE  (seen(c)' <=> seen(c)) /\ sees(c)' = sees(c)
BY DEF seen, sees

LEMMA SpacesInit == WInit => SpacesInv
<1> SUFFICES ASSUME WInit PROVE SpacesInv
  OBVIOUS
<1> USE DEF WInit
<1>1. made = {} /\ Cardinality(made) = 0 /\ Cardinality(Channels) \in Nat
  BY FS_EmptySet, CardFacts DEF made
<1>2. role \in [Users -> {"none", "member", "owner"}] /\ OwnerKept
  BY SpacesAssumption DEF serverCreate, OwnerKept
<1>3. WTypeOK
  <2>1. answer \in [Conns -> [has : BOOLEAN, body : {"none", "text", "edited"}, marks : SUBSET Users]]
    <3>1. Unasked \in [has : BOOLEAN, body : {"none", "text", "edited"}, marks : SUBSET Users]
      BY DEF Unasked
    <3>2. QED
      BY <3>1
  <2>2. /\ wpc \in [Conns -> {"read", "leave", "answer"} \cup Working]
        /\ fan \in [Conns -> SUBSET Users] /\ marks \in [Conns -> SUBSET Users]
        /\ hasList \in [Conns -> BOOLEAN] /\ shows \in [Conns -> BOOLEAN]
        /\ whole \in [Conns -> BOOLEAN] /\ late \in [Conns -> BOOLEAN]
    OBVIOUS
  <2>3. position \in [Channels -> 0..Cardinality(Channels) + 1] /\ updates \in 0..MaxUpdates
    BY <1>1, SpacesAssumption
  <2>4. \A c \in Conns : notice[c].kind \in {"none", "msg", "react", "edit", "delete", "pin", "channels"}
    BY DEF Quiet
  <2>5. QED
    BY <1>2, <2>1, <2>2, <2>3, <2>4 DEF WTypeOK
<1>4. HandlerInv
  <2>1. Quiet \in Notices /\ Quiet.kind = "none"
    BY DEF Quiet, Notices
  <2>2. QED
    BY <2>1 DEF HandlerInv
<1>5. CountInv /\ PositionsDistinct
  BY <1>1 DEF CountInv, PositionsDistinct
<1>6. AloneInv
  BY DEF AloneInv, Quiet, Working
<1>7. ListInv
  BY DEF ListInv, tracks
<1>8. QED
  BY <1>2, <1>3, <1>4, <1>5, <1>6, <1>7 DEF SpacesInv
\* The positions stay.
LEMMA PlacesSame ==
    ASSUME CountInv, PositionsDistinct, UNCHANGED position, clash => clash'
    PROVE  CountInv' /\ PositionsDistinct' /\ made' = made
<1>1. made' = made
  BY DEF made
<1>2. QED
  BY <1>1 DEF CountInv, PositionsDistinct

\* A handler that was not telling of the message or of reactions stands in
\* nobody's way.
LEMMA ListKept ==
    ASSUME WTypeOK, ListInv, UNCHANGED <<role, stored, reactions, hasList, shows, marks, whole, answer, late>>,
           clash => clash',
           \A d \in Conns : wpc'[d] = "answer" <=> wpc[d] = "answer",
           \A d \in Conns : notice'[d].kind = "msg" => notice[d].kind = "msg",
           \A d \in Conns : notice[d].kind \in {"msg", "react"} =>
               /\ notice'[d] = notice[d]
               /\ wpc'[d] = "send" => wpc[d] = "send" /\ fan'[d] = fan[d]
    PROVE  ListInv'
<1>1. SUFFICES ASSUME NEW c \in Conns
               PROVE  /\ whole'[c] => hasList'[c] /\ wpc'[c] # "answer"
                      /\ tracks(c)' => TrackInv(c)'
  BY DEF ListInv
<1>2. (seen(c)' <=> seen(c)) /\ sees(c)' = sees(c) /\ (tracks(c)' => tracks(c))
  BY SeenSame DEF tracks
<1>3. ASSUME tracks(c)' PROVE TrackInv(c)'
  <2>1. TrackInv(c) /\ userIsServerMember(Owner[c])'
    BY <1>2, <1>3 DEF ListInv, TrackInv, userIsServerMember
  <2>2. QED
    BY <1>2, <2>1, TrackKept
<1>4. QED
  BY <1>3 DEF ListInv

LEMMA BeginsSpaces ==
    ASSUME SpacesInv, NEW c \in Conns, NEW label \in Working \ {"members", "send"}, NEW value \in Nat,
           begins(c, label, value),
           label \in {"toggle", "edit", "delete", "pin"} => stored,
           label = "post" => ~stored /\ \A d \in Conns : wpc[d] # "post",
           label = "channel" => value \in 1..Cardinality(made) + 1 /\ \A k \in Channels : position[k] <= value
    PROVE  SpacesInv'
<1> USE DEF SpacesInv
<1>1. /\ wpc[c] = "read" /\ wpc'[c] = label
      /\ wpc' \in [Conns -> {"read", "leave", "answer"} \cup Working]
      /\ \A d \in Conns \ {c} : wpc'[d] = wpc[d]
  BY GotoFacts DEF begins
<1>2. /\ UNCHANGED <<role, position, stored, body, deleted, pinned, reactions, notice, fan>>
      /\ UNCHANGED <<hasList, shows, marks, whole, answer, late>>
  BY DEF begins, space, message, copies
<1>3. /\ updates' \in 0..MaxUpdates
      /\ read'[c] = value /\ read' \in [Conns -> Nat] /\ \A d \in Conns \ {c} : read'[d] = read[d]
  BY SpacesAssumption DEF begins, WTypeOK, HandlerInv
<1>4. clash' \in BOOLEAN /\ (clash => clash') /\ (~clash' => \A d \in Conns : wpc[d] \notin Working)
  BY DEF begins, WTypeOK
<1>5. WTypeOK' /\ OwnerKept'
  BY <1>1, <1>2, <1>3, <1>4 DEF WTypeOK, OwnerKept
<1>6. CountInv' /\ PositionsDistinct' /\ made' = made
  BY <1>2, <1>4, PlacesSame
<1>7. HandlerInv'
  BY <1>1, <1>2, <1>3, <1>6 DEF HandlerInv, Working
<1>8. AloneInv'
  <2>1. \A d \in Conns : notice[d].kind = "none" \/ wpc[d] \in Working
    BY DEF HandlerInv, Working
  <2>2. QED
    BY <1>1, <1>2, <1>3, <1>4, <2>1 DEF AloneInv, Working
<1>9. ListInv'
  <2>1. \A d \in Conns : wpc'[d] = "answer" <=> wpc[d] = "answer"
    BY <1>1 DEF Working
  <2>2. \A d \in Conns : notice[d].kind \in {"msg", "react"} => d # c
    BY <1>1 DEF HandlerInv
  <2>3. QED
    BY <1>1, <1>2, <1>4, <2>1, <2>2, ListKept
<1>10. QED
  BY <1>5, <1>6, <1>7, <1>8, <1>9

LEMMA WroteFacts ==
    ASSUME SpacesInv, NEW c \in Conns, NEW from \in Working \ {"members", "send"}, NEW what \in Notices, wrote(c, from, what)
    PROVE  /\ wpc[c] = from /\ wpc'[c] = "members"
           /\ wpc' \in [Conns -> {"read", "leave", "answer"} \cup Working]
           /\ \A d \in Conns \ {c} : wpc'[d] = wpc[d] /\ notice'[d] = notice[d] /\ read'[d] = read[d]
           /\ notice[c].kind = "none" /\ notice'[c] = what /\ notice' \in [Conns -> Notices]
           /\ read'[c] = 0 /\ read' \in [Conns -> Nat]
           /\ UNCHANGED <<fan, hasList, shows, marks, whole, answer, late, clash, updates>>
           /\ \A d \in Conns : notice'[d].kind \in {"none", "msg", "react", "edit", "delete", "pin", "channels"}
           /\ \A d \in Conns : wpc'[d] = "answer" <=> wpc[d] = "answer"
           /\ ~clash => \A d \in Conns \ {c} : wpc[d] \notin Working /\ notice[d].kind = "none"
<1> USE DEF SpacesInv
<1>1. "members" \in Working /\ "answer" \notin Working /\ goto(c, from, "members")
  BY DEF Working, wrote
<1>2. /\ wpc[c] = from /\ wpc'[c] = "members"
      /\ wpc' \in [Conns -> {"read", "leave", "answer"} \cup Working]
      /\ \A d \in Conns \ {c} : wpc'[d] = wpc[d]
  BY <1>1, GotoFacts
<1>3. /\ notice'[c] = what /\ notice' \in [Conns -> Notices] /\ read'[c] = 0 /\ read' \in [Conns -> Nat]
      /\ \A d \in Conns \ {c} : notice'[d] = notice[d] /\ read'[d] = read[d]
      /\ UNCHANGED <<fan, hasList, shows, marks, whole, answer, late, clash, updates>>
  BY DEF wrote, copies, HandlerInv
<1>4. \A x \in Notices : x.kind \in {"none", "msg", "react", "edit", "delete", "pin", "channels"}
  BY DEF Notices
<1>5. notice[c].kind = "none"
  BY <1>2 DEF HandlerInv
<1>6. ASSUME ~clash, NEW d \in Conns \ {c} PROVE wpc[d] \notin Working /\ notice[d].kind = "none"
  <2>1. wpc[c] \in Working
    BY <1>2
  <2>2. wpc[d] \notin Working
    BY <1>6, <2>1 DEF AloneInv
  <2>3. QED
    BY <1>6, <2>2 DEF HandlerInv, Working
<1>7. QED
  BY <1>1, <1>2, <1>3, <1>4, <1>5, <1>6

LEMMA PlainSpaces ==
    ASSUME SpacesInv, NEW c \in Conns, NEW kind \in {"edit", "delete", "pin"}, wrote(c, kind, [kind |-> kind]),
           UNCHANGED <<role, position, stored, reactions>>,
           body' \in {"none", "text", "edited"}, deleted' \in BOOLEAN, pinned' \in BOOLEAN
    PROVE  SpacesInv'
<1> USE DEF SpacesInv
<1> DEFINE what == [kind |-> kind]
<1>1. what \in Notices /\ what.kind = kind
  BY DEF Notices
<1>2. kind \in Working \ {"members", "send"} /\ kind \notin {"msg", "react", "none"}
  BY DEF Working
<1> HIDE DEF what
<1>3. wrote(c, kind, what)
  BY DEF what
<1>4. /\ wpc[c] = kind /\ wpc'[c] = "members"
      /\ wpc' \in [Conns -> {"read", "leave", "answer"} \cup Working]
      /\ \A d \in Conns \ {c} : wpc'[d] = wpc[d] /\ notice'[d] = notice[d] /\ read'[d] = read[d]
      /\ notice[c].kind = "none" /\ notice'[c] = what /\ notice' \in [Conns -> Notices]
      /\ read'[c] = 0 /\ read' \in [Conns -> Nat]
      /\ UNCHANGED <<fan, hasList, shows, marks, whole, answer, late, clash, updates>>
      /\ \A d \in Conns : notice'[d].kind \in {"none", "msg", "react", "edit", "delete", "pin", "channels"}
      /\ \A d \in Conns : wpc'[d] = "answer" <=> wpc[d] = "answer"
      /\ ~clash => \A d \in Conns \ {c} : wpc[d] \notin Working /\ notice[d].kind = "none"
  BY <1>1, <1>2, <1>3, WroteFacts
<1>5. WTypeOK' /\ OwnerKept'
  BY <1>4 DEF WTypeOK, OwnerKept
<1>6. CountInv' /\ PositionsDistinct' /\ made' = made
  BY <1>4, PlacesSame
<1>7. HandlerInv'
  BY <1>1, <1>2, <1>4, <1>6 DEF HandlerInv
<1>8. AloneInv'
  BY <1>1, <1>2, <1>4 DEF AloneInv
<1>9. ListInv'
  BY <1>1, <1>2, <1>4, ListKept
<1>10. QED
  BY <1>5, <1>6, <1>7, <1>8, <1>9
LEMMA AddChannelSpaces ==
    ASSUME SpacesInv, NEW c \in Conns, NEW k \in Channels, AddChannel(c, k)
    PROVE  SpacesInv'
<1> USE DEF SpacesInv
<1> DEFINE what == [kind |-> "channels"]
<1>1. what \in Notices /\ what.kind = "channels"
  BY DEF Notices
<1>2. "channel" \in Working \ {"members", "send"}
  BY DEF Working
<1> HIDE DEF what
<1>3. wrote(c, "channel", what)
  BY DEF AddChannel, what
<1>4. /\ wpc[c] = "channel" /\ wpc'[c] = "members"
      /\ wpc' \in [Conns -> {"read", "leave", "answer"} \cup Working]
      /\ \A d \in Conns \ {c} : wpc'[d] = wpc[d] /\ notice'[d] = notice[d] /\ read'[d] = read[d]
      /\ notice[c].kind = "none" /\ notice'[c] = what /\ notice' \in [Conns -> Notices]
      /\ read'[c] = 0 /\ read' \in [Conns -> Nat]
      /\ UNCHANGED <<fan, hasList, shows, marks, whole, answer, late, clash, updates>>
      /\ \A d \in Conns : notice'[d].kind \in {"none", "msg", "react", "edit", "delete", "pin", "channels"}
      /\ \A d \in Conns : wpc'[d] = "answer" <=> wpc[d] = "answer"
      /\ ~clash => \A d \in Conns \ {c} : wpc[d] \notin Working /\ notice[d].kind = "none"
  BY <1>1, <1>2, <1>3, WroteFacts
<1>5. /\ UNCHANGED <<role, stored, body, deleted, pinned, reactions>>
      /\ position[k] = 0 /\ position' = [position EXCEPT ![k] = read[c] + 1]
  BY DEF AddChannel, message, nextPosition
<1>6. /\ read[c] \in 1..Cardinality(made) + 1 /\ Cardinality(made) \in Nat
  BY <1>4, CardFacts DEF HandlerInv
<1>7. \A l \in Channels \ {k} : position'[l] = position[l]
  BY <1>5 DEF WTypeOK
<1>8. position'[k] = read[c] + 1 /\ read[c] + 1 # 0
  BY <1>5, <1>6 DEF WTypeOK
<1>9. made' = made \cup {k} /\ k \notin made
  BY <1>5, <1>7, <1>8 DEF made
<1>10. Cardinality(made') = Cardinality(made) + 1 /\ Cardinality(made') <= Cardinality(Channels) /\ Cardinality(Channels) \in Nat
  <2>1. IsFiniteSet(made) /\ made' \subseteq Channels /\ IsFiniteSet(Channels)
    BY CardFacts, SpacesAssumption DEF made
  <2>2. made' = made \cup {k} /\ k \notin made
    BY <1>9
  <2> DEFINE M == made
             N == made'
  <2>3. N = M \cup {k} /\ k \notin M /\ IsFiniteSet(M) /\ N \subseteq Channels /\ IsFiniteSet(Channels)
    BY <2>1, <2>2
  <2> HIDE DEF M, N
  <2>4. Cardinality(N) = Cardinality(M) + 1 /\ Cardinality(N) <= Cardinality(Channels) /\ Cardinality(Channels) \in Nat
    BY <2>3, FS_AddElement, FS_Subset, FS_CardinalityType
  <2>5. QED
    BY <2>4 DEF M, N
<1>11. CountInv'
  BY <1>6, <1>7, <1>8, <1>10 DEF CountInv
<1>12. WTypeOK' /\ OwnerKept'
  <2>1. \A l \in Channels : position'[l] \in 0..Cardinality(Channels) + 1
    BY <1>6, <1>10, <1>11 DEF CountInv
  <2>2. position' \in [Channels -> 0..Cardinality(Channels) + 1]
    BY <1>5, <2>1 DEF WTypeOK
  <2>3. QED
    BY <1>4, <1>5, <2>2 DEF WTypeOK, OwnerKept
<1>13. PositionsDistinct'
  <2>1. SUFFICES ASSUME ~clash PROVE PositionsDistinct'
    BY <1>4 DEF PositionsDistinct
  <2>2. \A l \in Channels : position[l] <= read[c] /\ position[l] \in Nat
    BY <1>4, <2>1 DEF AloneInv, WTypeOK
  <2>3. QED
    BY <1>5, <1>6, <1>7, <1>8, <2>1, <2>2 DEF PositionsDistinct
<1>14. HandlerInv'
  <2>1. \A d \in Conns : wpc'[d] = "channel" => read'[d] \in 1..Cardinality(made') + 1
    BY <1>4, <1>6, <1>10 DEF HandlerInv
  <2>2. QED
    BY <1>1, <1>4, <1>5, <2>1 DEF HandlerInv
<1>15. AloneInv'
  BY <1>1, <1>2, <1>4, <1>5 DEF AloneInv, Working
<1>16. ListInv'
  BY <1>1, <1>4, <1>5, ListKept
<1>17. QED
  BY <1>11, <1>12, <1>13, <1>14, <1>15, <1>16

LEMMA StoreSpaces ==
    ASSUME SpacesInv, NEW c \in Conns, StoreMessage(c)
    PROVE  SpacesInv'
<1> USE DEF SpacesInv
<1> DEFINE what == [kind |-> "msg"]
<1>1. what \in Notices /\ what.kind = "msg"
  BY DEF Notices
<1>2. "post" \in Working \ {"members", "send"}
  BY DEF Working
<1> HIDE DEF what
<1>3. wrote(c, "post", what)
  BY DEF StoreMessage, what
<1>4. /\ wpc[c] = "post" /\ wpc'[c] = "members"
      /\ wpc' \in [Conns -> {"read", "leave", "answer"} \cup Working]
      /\ \A d \in Conns \ {c} : wpc'[d] = wpc[d] /\ notice'[d] = notice[d] /\ read'[d] = read[d]
      /\ notice[c].kind = "none" /\ notice'[c] = what /\ notice' \in [Conns -> Notices]
      /\ read'[c] = 0 /\ read' \in [Conns -> Nat]
      /\ UNCHANGED <<fan, hasList, shows, marks, whole, answer, late, clash, updates>>
      /\ \A d \in Conns : notice'[d].kind \in {"none", "msg", "react", "edit", "delete", "pin", "channels"}
      /\ \A d \in Conns : wpc'[d] = "answer" <=> wpc[d] = "answer"
      /\ ~clash => \A d \in Conns \ {c} : wpc[d] \notin Working /\ notice[d].kind = "none"
  BY <1>1, <1>2, <1>3, WroteFacts
<1>5. UNCHANGED <<role, position, deleted, pinned, reactions>> /\ stored' = TRUE /\ body' = "text" /\ ~stored /\ reactions = {}
  BY <1>4 DEF StoreMessage, space, HandlerInv
<1>6. WTypeOK' /\ OwnerKept'
  BY <1>4, <1>5 DEF WTypeOK, OwnerKept
<1>7. CountInv' /\ PositionsDistinct' /\ made' = made
  BY <1>4, <1>5, PlacesSame
<1>8. HandlerInv'
  BY <1>1, <1>4, <1>5, <1>7 DEF HandlerInv
<1>9. AloneInv'
  BY <1>1, <1>2, <1>4, <1>5 DEF AloneInv, Working
<1>10. ListInv'
  <2>1. SUFFICES ASSUME NEW e \in Conns
                 PROVE  /\ whole'[e] => hasList'[e] /\ wpc'[e] # "answer"
                        /\ tracks(e)' => TrackInv(e)'
    BY DEF ListInv
  <2>2. (seen(e)' <=> seen(e)) /\ sees(e)' = sees(e) /\ (tracks(e)' => tracks(e))
    BY <1>4, SeenSame DEF tracks
  <2>3. ASSUME tracks(e)' PROVE TrackInv(e)'
    <3>1. TrackInv(e)
      BY <2>2, <2>3 DEF ListInv
    <3>2. userIsServerMember(Owner[e])' /\ notice'[c].kind = "msg"
      BY <1>1, <1>4, <1>5, <3>1 DEF TrackInv, userIsServerMember
    <3>3. \A d \in Conns : ~(wpc'[d] = "send" /\ notice'[d].kind = "msg")
      BY <1>4, <1>5 DEF HandlerInv
    <3>4. QED
      BY <1>5, <3>2, <3>3 DEF TrackInv
  <2>4. QED
    BY <1>4, <2>3 DEF ListInv
<1>11. QED
  BY <1>6, <1>7, <1>8, <1>9, <1>10

LEMMA ToggleSpaces ==
    ASSUME SpacesInv, NEW c \in Conns, ToggleReaction(c)
    PROVE  SpacesInv'
<1> USE DEF SpacesInv
<1> DEFINE what == [kind |-> "react", fresh |-> reactions']
<1>0. reactions' \subseteq Users
  BY ConnFacts DEF ToggleReaction, WTypeOK
<1>1. what \in Notices /\ what.kind = "react" /\ what.fresh = reactions'
  BY <1>0 DEF Notices
<1>2. "toggle" \in Working \ {"members", "send"}
  BY DEF Working
<1> HIDE DEF what
<1>3. wrote(c, "toggle", what)
  BY DEF ToggleReaction, what
<1>4. /\ wpc[c] = "toggle" /\ wpc'[c] = "members"
      /\ wpc' \in [Conns -> {"read", "leave", "answer"} \cup Working]
      /\ \A d \in Conns \ {c} : wpc'[d] = wpc[d] /\ notice'[d] = notice[d] /\ read'[d] = read[d]
      /\ notice[c].kind = "none" /\ notice'[c] = what /\ notice' \in [Conns -> Notices]
      /\ read'[c] = 0 /\ read' \in [Conns -> Nat]
      /\ UNCHANGED <<fan, hasList, shows, marks, whole, answer, late, clash, updates>>
      /\ \A d \in Conns : notice'[d].kind \in {"none", "msg", "react", "edit", "delete", "pin", "channels"}
      /\ \A d \in Conns : wpc'[d] = "answer" <=> wpc[d] = "answer"
      /\ ~clash => \A d \in Conns \ {c} : wpc[d] \notin Working /\ notice[d].kind = "none"
  BY <1>1, <1>2, <1>3, WroteFacts
<1>5. UNCHANGED <<role, position, stored, body, deleted, pinned>> /\ stored
  BY <1>4 DEF ToggleReaction, space, HandlerInv
<1>6. WTypeOK' /\ OwnerKept'
  BY <1>0, <1>4, <1>5 DEF WTypeOK, OwnerKept
<1>7. CountInv' /\ PositionsDistinct' /\ made' = made
  BY <1>4, <1>5, PlacesSame
<1>8. HandlerInv'
  BY <1>1, <1>4, <1>5, <1>7 DEF HandlerInv
<1>9. AloneInv'
  BY <1>1, <1>2, <1>4, <1>5 DEF AloneInv, Working
<1>10. ListInv'
  <2>1. SUFFICES ASSUME NEW e \in Conns
                 PROVE  /\ whole'[e] => hasList'[e] /\ wpc'[e] # "answer"
                        /\ tracks(e)' => TrackInv(e)'
    BY DEF ListInv
  <2>2. (seen(e)' <=> seen(e)) /\ sees(e)' = sees(e) /\ (tracks(e)' => tracks(e))
    BY <1>4, SeenSame DEF tracks
  <2>3. ASSUME tracks(e)' PROVE TrackInv(e)'
    <3>1. TrackInv(e)
      BY <2>2, <2>3 DEF ListInv
    <3>2. userIsServerMember(Owner[e])' /\ notice'[c].kind = "react" /\ wpc'[c] # "send"
      BY <1>1, <1>4, <1>5, <3>1 DEF TrackInv, userIsServerMember
    <3>3. stored' /\ ~seen(e)' => \E d \in Conns : notice'[d].kind = "msg"
      BY <1>4, <1>5, <2>2, <3>1 DEF TrackInv
    <3>4. \A d \in Conns : wpc'[d] = "send" /\ notice'[d].kind = "msg" => Owner[e] \in fan'[d] \/ seen(e)'
      BY <1>4, <2>2, <3>1, <3>2 DEF TrackInv
    <3>5. QED
      BY <3>2, <3>3, <3>4 DEF TrackInv
  <2>4. QED
    BY <1>4, <2>3 DEF ListInv
<1>11. QED
  BY <1>6, <1>7, <1>8, <1>9, <1>10

LEMMA JoinSpaces ==
    ASSUME SpacesInv, NEW c \in Conns, ServerJoin(c)
    PROVE  SpacesInv'
<1> USE DEF SpacesInv
<1>1. /\ UNCHANGED <<position, stored, body, deleted, pinned, reactions, wpc, read, notice, fan>>
      /\ UNCHANGED <<hasList, shows, marks, whole, answer, late, clash, updates>>
  BY DEF ServerJoin, message, copies
<1>2. Owner[c] \in Users
  BY ConnFacts
<1>3. /\ role' \in [Users -> {"none", "member", "owner"}]
      /\ \A u \in Users : role[u] # "none" => role'[u] = role[u]
      /\ \A u \in Users : role'[u] = role[u] \/ (role[u] = "none" /\ role'[u] = "member")
  BY <1>2 DEF ServerJoin, joinRole, WTypeOK
<1>4. WTypeOK' /\ OwnerKept'
  BY <1>1, <1>3 DEF WTypeOK, OwnerKept
<1>5. CountInv' /\ PositionsDistinct' /\ made' = made
  BY <1>1, PlacesSame
<1>6. HandlerInv' /\ AloneInv'
  BY <1>1, <1>5 DEF HandlerInv, AloneInv
<1>7. ListInv'
  <2>1. SUFFICES ASSUME NEW e \in Conns
                 PROVE  /\ whole'[e] => hasList'[e] /\ wpc'[e] # "answer"
                        /\ tracks(e)' => TrackInv(e)'
    BY DEF ListInv
  <2>2. (seen(e)' <=> seen(e)) /\ sees(e)' = sees(e) /\ (tracks(e)' => tracks(e))
    BY <1>1, SeenSame DEF tracks
  <2>3. ASSUME tracks(e)' PROVE TrackInv(e)'
    <3>1. TrackInv(e) /\ Owner[e] \in Users
      BY <2>2, <2>3, ConnFacts DEF ListInv
    <3>2. userIsServerMember(Owner[e])'
      BY <1>3, <3>1 DEF TrackInv, userIsServerMember
    <3>3. QED
      BY <1>1, <2>2, <3>1, <3>2, TrackKept
  <2>4. QED
    BY <1>1, <2>3 DEF ListInv
<1>8. QED
  BY <1>4, <1>5, <1>6, <1>7

LEMMA LeaveSpaces ==
    ASSUME SpacesInv, NEW c \in Conns, ServerLeave(c) \/ WriteRefused(c)
    PROVE  SpacesInv'
<1> USE DEF SpacesInv
<1>1. /\ UNCHANGED <<role, position, stored, body, deleted, pinned, reactions, notice, fan>>
      /\ UNCHANGED <<hasList, shows, marks, whole, answer, late, clash, updates>>
  BY DEF ServerLeave, WriteRefused, space, message, copies
<1>2. /\ wpc[c] \in {"read"} \cup (Working \ {"members", "send"}) /\ wpc'[c] \in {"read", "leave"}
      /\ wpc' \in [Conns -> {"read", "leave", "answer"} \cup Working]
      /\ \A d \in Conns \ {c} : wpc'[d] = wpc[d]
  <2>1. CASE ServerLeave(c)
    BY <2>1, GotoFacts DEF ServerLeave
  <2>2. CASE WriteRefused(c)
    BY <2>2, GotoFacts DEF WriteRefused
  <2>3. QED
    BY <2>1, <2>2
<1>3. /\ read' \in [Conns -> Nat] /\ \A d \in Conns \ {c} : read'[d] = read[d]
  BY DEF ServerLeave, WriteRefused, HandlerInv
<1>4. wpc'[c] = "leave" => Owner[c] # Founder
  <2>1. CASE ServerLeave(c)
    BY <2>1, ConnFacts DEF ServerLeave, OwnerKept
  <2>2. CASE WriteRefused(c)
    <3>1. wpc'[c] = "read"
      BY <2>2, GotoFacts DEF WriteRefused
    <3>2. QED
      BY <3>1
  <2>3. QED
    BY <2>1, <2>2
<1>5. WTypeOK' /\ OwnerKept'
  BY <1>1, <1>2 DEF WTypeOK, OwnerKept
<1>6. CountInv' /\ PositionsDistinct' /\ made' = made
  BY <1>1, PlacesSame
<1>7. notice[c].kind = "none" /\ wpc[c] \notin {"answer", "members", "send"} /\ wpc'[c] \notin Working
  BY <1>2 DEF HandlerInv, Working
<1>8. HandlerInv'
  BY <1>1, <1>2, <1>3, <1>4, <1>6, <1>7 DEF HandlerInv
<1>9. AloneInv'
  BY <1>1, <1>2, <1>3, <1>7 DEF AloneInv, Working
<1>10. ListInv'
  BY <1>1, <1>2, <1>7, ListKept
<1>11. QED
  BY <1>5, <1>6, <1>8, <1>9, <1>10
LEMMA LeaveRowSpaces ==
    ASSUME SpacesInv, NEW c \in Conns, LeaveRow(c)
    PROVE  SpacesInv'
<1> USE DEF SpacesInv
<1>1. /\ UNCHANGED <<position, stored, body, deleted, pinned, reactions, read, notice, fan>>
      /\ UNCHANGED <<hasList, shows, marks, answer, clash, updates>>
  BY DEF LeaveRow, message
<1>2. /\ wpc[c] = "leave" /\ wpc'[c] = "read"
      /\ wpc' \in [Conns -> {"read", "leave", "answer"} \cup Working]
      /\ \A d \in Conns \ {c} : wpc'[d] = wpc[d]
  BY GotoFacts DEF LeaveRow
<1>3. /\ role' \in [Users -> {"none", "member", "owner"}] /\ Owner[c] \in Users /\ Owner[c] # Founder
      /\ role'[Owner[c]] = "none" /\ \A u \in Users \ {Owner[c]} : role'[u] = role[u]
  BY <1>2, ConnFacts DEF LeaveRow, WTypeOK, HandlerInv
<1>4. /\ whole' \in [Conns -> BOOLEAN] /\ late' \in [Conns -> BOOLEAN]
      /\ \A d \in Conns : whole'[d] => whole[d] /\ Owner[d] # Owner[c]
      /\ \A d \in Conns : ~late'[d] => ~late[d] /\ (wpc[d] = "answer" => Owner[d] # Owner[c])
  BY DEF LeaveRow, WTypeOK
<1>5. WTypeOK' /\ OwnerKept'
  BY <1>1, <1>2, <1>3, <1>4 DEF WTypeOK, OwnerKept
<1>6. CountInv' /\ PositionsDistinct' /\ made' = made
  BY <1>1, PlacesSame
<1>7. notice[c].kind = "none" /\ wpc'[c] \notin Working
  BY <1>2 DEF HandlerInv, Working
<1>8. HandlerInv'
  BY <1>1, <1>2, <1>6, <1>7 DEF HandlerInv
<1>9. AloneInv'
  BY <1>1, <1>2, <1>7 DEF AloneInv
<1>10. ListInv'
  <2>1. SUFFICES ASSUME NEW e \in Conns
                 PROVE  /\ whole'[e] => hasList'[e] /\ wpc'[e] # "answer"
                        /\ tracks(e)' => TrackInv(e)'
    BY DEF ListInv
  <2>2. (seen(e)' <=> seen(e)) /\ sees(e)' = sees(e)
    BY <1>1, <1>2, SeenSame
  <2>3. ASSUME tracks(e)' PROVE TrackInv(e)'
    <3>1. tracks(e) /\ Owner[e] # Owner[c] /\ Owner[e] \in Users
      BY <1>2, <1>4, <2>3, ConnFacts DEF tracks
    <3>2. TrackInv(e)
      BY <3>1 DEF ListInv
    <3>3. userIsServerMember(Owner[e])'
      BY <1>3, <3>1, <3>2 DEF TrackInv, userIsServerMember
    <3>4. QED
      BY <1>1, <1>2, <1>7, <2>2, <3>2, <3>3, TrackKept
  <2>4. QED
    BY <1>1, <1>2, <1>4, <2>3 DEF ListInv
<1>11. QED
  BY <1>5, <1>6, <1>8, <1>9, <1>10

LEMMA ReadFanSpaces ==
    ASSUME SpacesInv, NEW c \in Conns, ReadFan(c)
    PROVE  SpacesInv'
<1> USE DEF SpacesInv
<1>1. /\ UNCHANGED <<role, position, stored, body, deleted, pinned, reactions, read, notice>>
      /\ UNCHANGED <<hasList, shows, marks, whole, answer, late, clash, updates>>
  BY DEF ReadFan, space, message, copies
<1>2. /\ wpc[c] = "members" /\ wpc'[c] = "send"
      /\ wpc' \in [Conns -> {"read", "leave", "answer"} \cup Working]
      /\ \A d \in Conns \ {c} : wpc'[d] = wpc[d]
  BY GotoFacts DEF ReadFan, Working
<1>3. /\ fan' \in [Conns -> SUBSET Users] /\ \A u \in Users : userIsServerMember(u) => u \in fan'[c]
      /\ \A d \in Conns \ {c} : fan'[d] = fan[d]
  BY DEF ReadFan, WTypeOK
<1>4. WTypeOK' /\ OwnerKept'
  BY <1>1, <1>2, <1>3 DEF WTypeOK, OwnerKept
<1>5. CountInv' /\ PositionsDistinct' /\ made' = made
  BY <1>1, PlacesSame
<1>6. HandlerInv'
  BY <1>1, <1>2, <1>5 DEF HandlerInv
<1>7. AloneInv'
  <2>1. wpc[c] \in Working
    BY <1>2 DEF Working
  <2>2. QED
    BY <1>1, <1>2, <2>1 DEF AloneInv
<1>8. ListInv'
  <2>1. SUFFICES ASSUME NEW e \in Conns
                 PROVE  /\ whole'[e] => hasList'[e] /\ wpc'[e] # "answer"
                        /\ tracks(e)' => TrackInv(e)'
    BY DEF ListInv
  <2>2. (seen(e)' <=> seen(e)) /\ sees(e)' = sees(e) /\ (tracks(e)' => tracks(e))
    BY <1>1, <1>2, SeenSame DEF tracks
  <2>3. ASSUME tracks(e)' PROVE TrackInv(e)'
    <3>1. TrackInv(e) /\ Owner[e] \in Users
      BY <2>2, <2>3, ConnFacts DEF ListInv
    <3>2. userIsServerMember(Owner[e])' /\ Owner[e] \in fan'[c]
      BY <1>1, <1>3, <3>1 DEF TrackInv, userIsServerMember
    <3>3. QED
      BY <1>1, <1>2, <1>3, <2>2, <3>1, <3>2, TrackKept
  <2>4. QED
    BY <1>1, <1>2, <2>3 DEF ListInv
<1>9. QED
  BY <1>4, <1>5, <1>6, <1>7, <1>8

LEMMA BroadcastSpaces ==
    ASSUME SpacesInv, NEW c \in Conns, broadcastChannelMsg(c)
    PROVE  SpacesInv'
<1> USE DEF SpacesInv
<1>1. UNCHANGED <<role, position, stored, body, deleted, pinned, reactions, read, answer, whole, clash, updates>>
  BY DEF broadcastChannelMsg, space, message
<1>2. /\ wpc[c] = "send" /\ wpc'[c] = "read"
      /\ wpc' \in [Conns -> {"read", "leave", "answer"} \cup Working]
      /\ \A d \in Conns \ {c} : wpc'[d] = wpc[d]
  BY GotoFacts DEF broadcastChannelMsg
<1>3. /\ hasList' = [d \in Conns |-> hasList[d] \/ (notice[c].kind = "msg" /\ d \in reached(c))]
      /\ shows' = [d \in Conns |-> shows[d] \/ (notice[c].kind = "msg" /\ d \in reached(c))]
      /\ marks' = [d \in Conns |-> IF d \in reached(c) THEN marked(c, d) ELSE marks[d]]
      /\ late' = [d \in Conns |-> late[d] \/ (d \in reached(c) /\ wpc[d] = "answer")]
  BY DEF broadcastChannelMsg
<1>4. Quiet \in Notices /\ Quiet.kind = "none"
  BY DEF Quiet, Notices
<1>5. /\ notice' = [notice EXCEPT ![c] = Quiet] /\ notice' \in [Conns -> Notices] /\ notice'[c] = Quiet
      /\ \A d \in Conns \ {c} : notice'[d] = notice[d]
      /\ fan' \in [Conns -> SUBSET Users] /\ \A d \in Conns \ {c} : fan'[d] = fan[d]
  BY <1>4 DEF broadcastChannelMsg, HandlerInv, WTypeOK
<1>6. /\ hasList' \in [Conns -> BOOLEAN] /\ shows' \in [Conns -> BOOLEAN] /\ late' \in [Conns -> BOOLEAN]
      /\ marks' \in [Conns -> SUBSET Users]
  <2>1. hasList' \in [Conns -> BOOLEAN] /\ shows' \in [Conns -> BOOLEAN] /\ late' \in [Conns -> BOOLEAN]
    BY <1>3 DEF WTypeOK
  <2>2. notice[c].kind = "react" => notice[c].fresh \subseteq Users
    BY DEF HandlerInv, Notices
  <2>3. \A d \in Conns : marked(c, d) \subseteq Users /\ marks[d] \subseteq Users
    BY <2>2 DEF marked, WTypeOK
  <2>4. QED
    BY <1>3, <2>1, <2>3
<1>7. WTypeOK' /\ OwnerKept'
  <2>1. \A x \in Notices : x.kind \in {"none", "msg", "react", "edit", "delete", "pin", "channels"}
    BY DEF Notices
  <2>2. QED
    BY <1>1, <1>2, <1>5, <1>6, <2>1 DEF WTypeOK, OwnerKept
<1>8. CountInv' /\ PositionsDistinct' /\ made' = made
  BY <1>1, PlacesSame
<1>9. HandlerInv'
  BY <1>1, <1>2, <1>4, <1>5, <1>8 DEF HandlerInv
<1>10. AloneInv'
  <2>1. wpc'[c] \notin Working
    BY <1>2 DEF Working
  <2>2. QED
    BY <1>1, <1>2, <1>4, <1>5, <2>1 DEF AloneInv
<1>11. ListInv'
  <2>1. SUFFICES ASSUME NEW e \in Conns
                 PROVE  /\ whole'[e] => hasList'[e] /\ wpc'[e] # "answer"
                        /\ tracks(e)' => TrackInv(e)'
    BY DEF ListInv
  <2>2. whole'[e] => hasList'[e] /\ wpc'[e] # "answer"
    BY <1>1, <1>2, <1>3 DEF ListInv
  <2>3. ASSUME tracks(e)' PROVE TrackInv(e)'
    <3>1. tracks(e) /\ TrackInv(e)
      BY <1>1, <1>2, <1>3, <2>3 DEF tracks, ListInv
    <3>2. userIsServerMember(Owner[e])'
      BY <1>1, <3>1 DEF TrackInv, userIsServerMember
    <3>3. CASE ~(e \in reached(c) /\ wpc[e] # "answer")
      <4>1. Owner[e] \notin fan[c]
        BY <1>1, <1>2, <1>3, <2>3, <3>3 DEF tracks, ListInv, reached
      <4>2. (seen(e)' <=> seen(e)) /\ sees(e)' = sees(e)
        <5>1. e \notin reached(c)
          BY <4>1 DEF reached
        <5>2. (shows'[e] <=> shows[e]) /\ marks'[e] = marks[e]
          BY <1>3, <5>1
        <5>3. QED
          BY <1>1, <1>2, <5>2 DEF seen, sees
      <4>3. stored' /\ ~seen(e)' => \E d \in Conns : notice'[d].kind = "msg"
        BY <1>1, <1>2, <1>5, <3>1, <4>1, <4>2 DEF TrackInv
      <4>4. \A d \in Conns : wpc'[d] = "send" /\ notice'[d].kind = "msg" => Owner[e] \in fan'[d] \/ seen(e)'
        BY <1>2, <1>5, <3>1, <4>2 DEF TrackInv
      <4>5. ~clash' /\ seen(e)' /\ reactions' # {} /\ sees(e)' # reactions' =>
               \E d \in Conns : notice'[d].kind = "react" /\ (wpc'[d] = "send" => Owner[e] \in fan'[d])
        BY <1>1, <1>2, <1>5, <3>1, <4>1, <4>2 DEF TrackInv
      <4>6. QED
        BY <3>2, <4>3, <4>4, <4>5 DEF TrackInv
    <3>4. CASE e \in reached(c) /\ wpc[e] # "answer"
      <4>1. /\ wpc'[e] # "answer" /\ marks'[e] = marked(c, e)
            /\ shows'[e] <=> shows[e] \/ notice[c].kind = "msg"
        BY <1>2, <1>3, <3>4
      <4>2. (seen(e)' <=> seen(e) \/ notice[c].kind = "msg") /\ sees(e)' = marked(c, e) /\ sees(e) = marks[e]
            /\ (seen(e) <=> shows[e])
        BY <3>4, <4>1 DEF seen, sees
      <4>3. stored' /\ ~seen(e)' => \E d \in Conns : notice'[d].kind = "msg"
        BY <1>1, <1>2, <1>5, <3>1, <4>2 DEF TrackInv
      <4>4. \A d \in Conns : wpc'[d] = "send" /\ notice'[d].kind = "msg" => Owner[e] \in fan'[d] \/ seen(e)'
        BY <1>2, <1>5, <3>1, <4>2 DEF TrackInv
      <4>5. ASSUME ~clash, seen(e)', reactions # {}, sees(e)' # reactions
            PROVE  \E d \in Conns : notice'[d].kind = "react" /\ (wpc'[d] = "send" => Owner[e] \in fan'[d])
        <5>1. notice[c].kind # "msg"
          BY <4>5 DEF AloneInv
        <5>2. notice[c].kind # "react"
          <6>1. notice[c].kind = "react" => notice[c].fresh = reactions
            BY <4>5 DEF AloneInv
          <6>2. QED
            BY <4>2, <4>5, <5>1, <6>1 DEF marked
        <5>3. sees(e)' = sees(e) /\ seen(e)
          BY <4>2, <4>5, <5>1, <5>2 DEF marked
        <5>4. PICK d \in Conns : notice[d].kind = "react" /\ (wpc[d] = "send" => Owner[e] \in fan[d])
          BY <3>1, <4>5, <5>3 DEF TrackInv
        <5>5. d # c
          BY <5>2, <5>4
        <5>6. QED
          BY <1>2, <1>5, <5>4, <5>5
      <4>6. QED
        BY <1>1, <3>2, <4>3, <4>4, <4>5 DEF TrackInv
    <3>5. QED
      BY <3>3, <3>4
  <2>4. QED
    BY <2>2, <2>3
<1>12. QED
  BY <1>7, <1>8, <1>9, <1>10, <1>11
LEMMA HistorySpaces ==
    ASSUME SpacesInv, NEW c \in Conns, channelHistory(c)
    PROVE  SpacesInv'
<1> USE DEF SpacesInv
<1>1. /\ UNCHANGED <<role, position, stored, body, deleted, pinned, reactions, read, notice, fan>>
      /\ UNCHANGED <<hasList, shows, marks, whole, late, clash, updates>>
  BY DEF channelHistory, space, message, copies
<1>2. /\ wpc[c] = "read" /\ wpc'[c] = "answer" /\ ~hasList[c] /\ userIsServerMember(Owner[c])
      /\ wpc' \in [Conns -> {"read", "leave", "answer"} \cup Working]
      /\ \A d \in Conns \ {c} : wpc'[d] = wpc[d]
  BY GotoFacts DEF channelHistory
<1> DEFINE a == [has |-> stored, body |-> historyBody, marks |-> found]
<1>3. /\ a \in [has : BOOLEAN, body : {"none", "text", "edited"}, marks : SUBSET Users]
      /\ a.has = stored /\ a.marks = found
  BY DEF WTypeOK, historyBody, found
<1> HIDE DEF a
<1>4. /\ answer' \in [Conns -> [has : BOOLEAN, body : {"none", "text", "edited"}, marks : SUBSET Users]]
      /\ answer'[c] = a /\ \A d \in Conns \ {c} : answer'[d] = answer[d]
  <2>1. answer' = [answer EXCEPT ![c] = a]
    BY DEF channelHistory, a
  <2>2. QED
    BY <1>3, <2>1 DEF WTypeOK
<1>5. WTypeOK' /\ OwnerKept'
  BY <1>1, <1>2, <1>4 DEF WTypeOK, OwnerKept
<1>6. CountInv' /\ PositionsDistinct' /\ made' = made
  BY <1>1, PlacesSame
<1>7. notice[c].kind = "none" /\ wpc'[c] \notin Working
  BY <1>2 DEF HandlerInv, Working
<1>8. HandlerInv'
  BY <1>1, <1>2, <1>6, <1>7 DEF HandlerInv
<1>9. AloneInv'
  BY <1>1, <1>2, <1>7 DEF AloneInv
<1>10. ListInv'
  <2>1. SUFFICES ASSUME NEW e \in Conns
                 PROVE  /\ whole'[e] => hasList'[e] /\ wpc'[e] # "answer"
                        /\ tracks(e)' => TrackInv(e)'
    BY DEF ListInv
  <2>2. CASE e = c
    <3>1. ~whole[c]
      BY <1>2 DEF ListInv
    <3>2. userIsServerMember(Owner[c])'
      BY <1>1, <1>2 DEF userIsServerMember
    <3>3. (seen(c)' <=> stored) /\ (stored => sees(c)' = reactions)
      BY <1>1, <1>2, <1>3, <1>4 DEF seen, sees, found
    <3>4. \A d \in Conns : notice'[d].kind = "msg" => stored
      BY <1>1 DEF HandlerInv
    <3>5. TrackInv(c)'
      BY <1>1, <3>2, <3>3, <3>4 DEF TrackInv
    <3>6. QED
      BY <1>1, <2>2, <3>1, <3>5
  <2>3. CASE e # c
    <3>1. (seen(e)' <=> seen(e)) /\ sees(e)' = sees(e) /\ (tracks(e)' => tracks(e))
      BY <1>1, <1>2, <1>4, <2>3, SeenSame DEF tracks
    <3>2. ASSUME tracks(e)' PROVE TrackInv(e)'
      <4>1. TrackInv(e) /\ userIsServerMember(Owner[e])'
        BY <1>1, <3>1, <3>2 DEF ListInv, TrackInv, userIsServerMember
      <4>2. QED
        BY <1>1, <1>2, <3>1, <4>1, TrackKept
    <3>3. QED
      BY <1>1, <1>2, <2>3, <3>2 DEF ListInv
  <2>4. QED
    BY <2>2, <2>3
<1>11. QED
  BY <1>5, <1>6, <1>8, <1>9, <1>10

\* The client shows the answer, or has its page loaded again.
LEMMA ShowSpaces ==
    ASSUME SpacesInv, NEW c \in Conns, ShowHistory(c) \/ Reload(c)
    PROVE  SpacesInv'
<1> USE DEF SpacesInv
<1>1. UNCHANGED <<role, position, stored, body, deleted, pinned, reactions, read, notice, fan, clash, updates>>
  BY DEF ShowHistory, Reload, space, message
<1>2. /\ wpc[c] \in {"answer", "read"} /\ wpc'[c] = "read"
      /\ wpc' \in [Conns -> {"read", "leave", "answer"} \cup Working]
      /\ \A d \in Conns \ {c} : wpc'[d] = wpc[d]
  <2>1. CASE ShowHistory(c)
    BY <2>1, GotoFacts DEF ShowHistory
  <2>2. CASE Reload(c)
    BY <2>2 DEF Reload, WTypeOK
  <2>3. QED
    BY <2>1, <2>2
<1>3. /\ hasList' \in [Conns -> BOOLEAN] /\ shows' \in [Conns -> BOOLEAN] /\ marks' \in [Conns -> SUBSET Users]
      /\ answer' \in [Conns -> [has : BOOLEAN, body : {"none", "text", "edited"}, marks : SUBSET Users]]
      /\ whole' \in [Conns -> BOOLEAN] /\ late' \in [Conns -> BOOLEAN]
      /\ \A d \in Conns \ {c} : /\ hasList'[d] = hasList[d] /\ shows'[d] = shows[d] /\ marks'[d] = marks[d]
                                /\ answer'[d] = answer[d] /\ whole'[d] = whole[d] /\ late'[d] = late[d]
      /\ whole'[c] => /\ wpc[c] = "answer" /\ ~late[c] /\ hasList'[c]
                      /\ shows'[c] = answer[c].has /\ marks'[c] = answer[c].marks
  <2>1. CASE ShowHistory(c)
    <3>1. Unasked \in [has : BOOLEAN, body : {"none", "text", "edited"}, marks : SUBSET Users]
      BY DEF Unasked
    <3>2. answer[c].has \in BOOLEAN /\ answer[c].marks \subseteq Users
      BY DEF WTypeOK
    <3> DEFINE b == ~late[c] /\ userIsServerMember(Owner[c])
    <3>3. b \in BOOLEAN /\ (b => ~late[c])
      BY SMT
    <3> HIDE DEF b
    <3>4. /\ wpc[c] = "answer"
          /\ hasList' = [hasList EXCEPT ![c] = TRUE] /\ shows' = [shows EXCEPT ![c] = answer[c].has]
          /\ marks' = [marks EXCEPT ![c] = answer[c].marks] /\ whole' = [whole EXCEPT ![c] = b]
          /\ answer' = [answer EXCEPT ![c] = Unasked] /\ late' = [late EXCEPT ![c] = FALSE]
      BY <2>1 DEF ShowHistory, b, goto
    <3>5. QED
      BY <3>1, <3>2, <3>3, <3>4 DEF WTypeOK
  <2>2. CASE Reload(c)
    BY <2>2 DEF Reload, WTypeOK
  <2>3. QED
    BY <2>1, <2>2
<1>4. WTypeOK' /\ OwnerKept'
  BY <1>1, <1>2, <1>3 DEF WTypeOK, OwnerKept
<1>5. CountInv' /\ PositionsDistinct' /\ made' = made
  BY <1>1, PlacesSame
<1>6. notice[c].kind = "none" /\ wpc'[c] \notin Working
  BY <1>2 DEF HandlerInv, Working
<1>7. HandlerInv'
  BY <1>1, <1>2, <1>5, <1>6 DEF HandlerInv
<1>8. AloneInv'
  BY <1>1, <1>2, <1>6 DEF AloneInv
<1>9. ListInv'
  <2>1. SUFFICES ASSUME NEW e \in Conns
                 PROVE  /\ whole'[e] => hasList'[e] /\ wpc'[e] # "answer"
                        /\ tracks(e)' => TrackInv(e)'
    BY DEF ListInv
  <2>2. ASSUME tracks(e)' PROVE tracks(e) /\ (seen(e)' <=> seen(e)) /\ sees(e)' = sees(e)
    <3>1. CASE e = c
      BY <1>2, <1>3, <2>2, <3>1 DEF tracks, seen, sees
    <3>2. CASE e # c
      BY <1>2, <1>3, <2>2, <3>2 DEF tracks, seen, sees
    <3>3. QED
      BY <3>1, <3>2
  <2>3. ASSUME tracks(e)' PROVE TrackInv(e)'
    <3>1. TrackInv(e) /\ userIsServerMember(Owner[e])'
      BY <1>1, <2>2, <2>3 DEF ListInv, TrackInv, userIsServerMember
    <3>2. QED
      BY <1>1, <1>2, <1>6, <2>2, <2>3, <3>1, TrackKept
  <2>4. whole'[e] => hasList'[e] /\ wpc'[e] # "answer"
    BY <1>2, <1>3 DEF ListInv
  <2>5. QED
    BY <2>3, <2>4
<1>10. QED
  BY <1>4, <1>5, <1>7, <1>8, <1>9

\* A handler begins: each check before a change.
LEMMA CheckSpaces ==
    ASSUME SpacesInv, NEW c \in Conns,
           \/ ChannelCreate(c) \/ ChannelMsg(c) \/ ChannelReact(c)
           \/ ChannelEdit(c) \/ ChannelDelete(c) \/ ChannelPin(c)
    PROVE  SpacesInv'
<1>1. CASE ChannelCreate(c)
  <2>1. highest \in 1..Cardinality(made) + 1 /\ (\A k \in Channels : position[k] <= highest) /\ highest \in Nat
    BY HighestFacts DEF SpacesInv
  <2>2. begins(c, "channel", highest) /\ "channel" \in Working \ {"members", "send"}
    BY <1>1 DEF ChannelCreate, Working
  <2>3. QED
    BY <2>1, <2>2, BeginsSpaces
<1>2. CASE ChannelMsg(c)
  <2>1. begins(c, "post", 0) /\ "post" \in Working \ {"members", "send"} /\ ~stored /\ \A d \in Conns : wpc[d] # "post"
    BY <1>2 DEF ChannelMsg, Working
  <2>2. QED
    BY <2>1, BeginsSpaces
<1>3. CASE ChannelReact(c)
  <2> DEFINE v == IF Owner[c] \in reactions THEN 1 ELSE 0
  <2>1. begins(c, "toggle", v) /\ "toggle" \in Working \ {"members", "send"} /\ stored /\ v \in Nat
    BY <1>3 DEF ChannelReact, Working
  <2> HIDE DEF v
  <2>2. QED
    BY <2>1, BeginsSpaces
<1>4. CASE ChannelEdit(c)
  <2>1. begins(c, "edit", 0) /\ "edit" \in Working \ {"members", "send"} /\ stored
    BY <1>4 DEF ChannelEdit, Working
  <2>2. QED
    BY <2>1, BeginsSpaces
<1>5. CASE ChannelDelete(c)
  <2>1. begins(c, "delete", 0) /\ "delete" \in Working \ {"members", "send"} /\ stored
    BY <1>5 DEF ChannelDelete, Working
  <2>2. QED
    BY <2>1, BeginsSpaces
<1>6. CASE ChannelPin(c)
  <2> DEFINE v == IF pinned THEN 0 ELSE 1
  <2>1. begins(c, "pin", v) /\ "pin" \in Working \ {"members", "send"} /\ stored /\ v \in Nat
    BY <1>6 DEF ChannelPin, Working
  <2> HIDE DEF v
  <2>2. QED
    BY <2>1, BeginsSpaces
<1>7. QED
  BY <1>1, <1>2, <1>3, <1>4, <1>5, <1>6

LEMMA ChangeSpaces ==
    ASSUME SpacesInv, NEW c \in Conns, EditBody(c) \/ DeleteBody(c) \/ SetPin(c)
    PROVE  SpacesInv'
<1>0. body \in {"none", "text", "edited"} /\ deleted \in BOOLEAN /\ pinned \in BOOLEAN
  BY DEF SpacesInv, WTypeOK
<1>1. CASE EditBody(c)
  BY <1>0, <1>1, PlainSpaces DEF EditBody, space
<1>2. CASE DeleteBody(c)
  BY <1>0, <1>2, PlainSpaces DEF DeleteBody, space
<1>3. CASE SetPin(c)
  <2>1. pinned' \in BOOLEAN /\ wrote(c, "pin", [kind |-> "pin"]) /\ UNCHANGED <<role, position, stored, body, deleted, reactions>>
    BY <1>3 DEF SetPin, space
  <2>2. QED
    BY <1>0, <2>1, PlainSpaces
<1>4. QED
  BY <1>1, <1>2, <1>3

LEMMA IdleSpaces ==
    ASSUME SpacesInv, UNCHANGED wvars
    PROVE  SpacesInv'
<1> USE DEF SpacesInv
<1>1. /\ UNCHANGED <<role, position, stored, body, deleted, pinned, reactions, wpc, read, notice, fan>>
      /\ UNCHANGED <<hasList, shows, marks, answer, whole, late, clash, updates>>
  BY DEF wvars
<1>2. WTypeOK' /\ OwnerKept'
  BY <1>1 DEF WTypeOK, OwnerKept
<1>3. CountInv' /\ PositionsDistinct' /\ made' = made
  BY <1>1, PlacesSame
<1>4. HandlerInv' /\ AloneInv'
  BY <1>1, <1>3 DEF HandlerInv, AloneInv
<1>5. ListInv'
  BY <1>1, ListKept
<1>6. QED
  BY <1>2, <1>3, <1>4, <1>5

LEMMA SpacesStep == SpacesInv /\ [WNext]_wvars => SpacesInv'
<1> SUFFICES ASSUME SpacesInv, [WNext]_wvars PROVE SpacesInv'
  OBVIOUS
<1>1. ASSUME NEW c \in Conns, WHandler(c) PROVE SpacesInv'
  BY <1>1, JoinSpaces, LeaveSpaces, LeaveRowSpaces, CheckSpaces, AddChannelSpaces, StoreSpaces, ToggleSpaces,
     ChangeSpaces, ReadFanSpaces, BroadcastSpaces, HistorySpaces, ShowSpaces, Zenon DEF WHandler
<1>2. QED
  BY <1>1, IdleSpaces DEF WNext

\* A space keeps its owner and the order of its channels, and who has the
\* history sees the message and the reactions to it, whatever the handlers of
\* any number of connections do in between.
THEOREM SpacesKept == WSpec => []SpacesSafe
<1>1. SpacesInv => SpacesSafe
  <2> SUFFICES ASSUME SpacesInv PROVE SpacesSafe
    OBVIOUS
  <2> USE DEF SpacesInv
  <2>1. MembersMissNothing
    <3> SUFFICES ASSUME NEW c \in Conns, whole[c], stored PROVE shows[c] \/ \E d \in Conns : notice[d].kind = "msg"
      BY DEF MembersMissNothing
    <3>1. TrackInv(c) /\ wpc[c] # "answer"
      BY DEF ListInv, tracks
    <3>2. QED
      BY <3>1 DEF TrackInv, seen
  <2>2. ReactionsShown
    <3> SUFFICES ASSUME \A c \in Conns : wpc[c] \notin Working, ~clash, reactions # {},
                        NEW c \in Conns, whole[c], shows[c]
                 PROVE  marks[c] = reactions
      BY DEF ReactionsShown
    <3>1. TrackInv(c) /\ wpc[c] # "answer"
      BY DEF ListInv, tracks
    <3>2. \A d \in Conns : notice[d].kind # "react"
      BY DEF HandlerInv, Working
    <3>3. QED
      BY <3>1, <3>2 DEF TrackInv, seen, sees
  <2>3. QED
    BY <2>1, <2>2 DEF SpacesSafe
<1>2. QED
  BY SpacesInit, SpacesStep, <1>1, PTL DEF WSpec

-----------------------------------------------------------------------------
(* Lists without duplicates, and the whiteboard. *)

\* Append adds one member at the end.
LEMMA AppendSeq ==
    ASSUME NEW S, NEW q \in Seq(S), NEW x \in S
    PROVE  /\ Append(q, x) \in Seq(S) /\ Len(Append(q, x)) = Len(q) + 1
           /\ \A i \in 1..Len(q) : Append(q, x)[i] = q[i]
           /\ Append(q, x)[Len(q) + 1] = x
           /\ Range(Append(q, x)) = Range(q) \cup {x}
<1>1. Append(q, x) \in Seq(S) /\ Len(Append(q, x)) = Len(q) + 1
  OBVIOUS
<1>2. \A i \in 1..Len(q) : Append(q, x)[i] = q[i]
  OBVIOUS
<1>3. Append(q, x)[Len(q) + 1] = x
  OBVIOUS
<1>4. DOMAIN Append(q, x) = 1..Len(q) + 1 /\ DOMAIN q = 1..Len(q) /\ Len(q) \in Nat
  OBVIOUS
<1>5. Range(Append(q, x)) = Range(q) \cup {x}
  BY <1>2, <1>3, <1>4 DEF Range
<1>6. QED
  BY <1>1, <1>2, <1>3, <1>5

\* Tail takes the first member off.
LEMMA TailSeq ==
    ASSUME NEW S, NEW q \in Seq(S), q # <<>>
    PROVE  /\ Tail(q) \in Seq(S) /\ Len(Tail(q)) = Len(q) - 1 /\ Len(q) \in Nat \ {0}
           /\ \A i \in 1..Len(q) - 1 : Tail(q)[i] = q[i + 1]
           /\ Head(q) = q[1] /\ Head(q) \in S
  OBVIOUS

\* The end of a list without duplicates.
LEMMA CutSeq ==
    ASSUME NEW S, NEW q \in Seq(S), NEW m \in 1..Len(q) + 1,
           \A i, j \in 1..Len(q) : q[i] = q[j] => i = j
    PROVE  LET k == SubSeq(q, m, Len(q))
           IN /\ k \in Seq(S) /\ Len(k) = Len(q) - m + 1 
              /\ \A i, j \in 1..Len(k) : k[i] = k[j] => i = j
              /\ Range(k) \subseteq Range(q)
<1> DEFINE k == SubSeq(q, m, Len(q))
<1>1. k \in Seq(S) /\ Len(k) = Len(q) - m + 1 /\ Len(k) \in Nat /\ Len(q) \in Nat
  OBVIOUS
<1>2. \A i \in 1..Len(k) : k[i] = q[m + i - 1] /\ m + i - 1 \in 1..Len(q)
  OBVIOUS
<1>3. DOMAIN k = 1..Len(k) /\ DOMAIN q = 1..Len(q)
  OBVIOUS
<1> HIDE DEF k
<1>4. Range(k) \subseteq Range(q)
  BY <1>2, <1>3 DEF Range
<1>5. \A i, j \in 1..Len(k) : k[i] = k[j] => i = j
  BY <1>1, <1>2
<1>6. QED
  BY <1>1, <1>4, <1>5 DEF k

\* RemoveAt takes one row, and no other, from a list without duplicates.
LEMMA RemoveSeq ==
    ASSUME NEW S, NEW q \in Seq(S), NEW i \in 1..Len(q),
           \A m, n \in 1..Len(q) : q[m] = q[n] => m = n
    PROVE  LET k == RemoveAt(q, i)
           IN /\ k \in Seq(S) /\ Len(k) = Len(q) - 1
              /\ \A m, n \in 1..Len(k) : k[m] = k[n] => m = n
              /\ Range(k) = Range(q) \ {q[i]}
<1> DEFINE k == RemoveAt(q, i)
<1> DEFINE a == SubSeq(q, 1, i - 1)
<1> DEFINE b == SubSeq(q, i + 1, Len(q))
<1>1. a \in Seq(S) /\ Len(a) = i - 1 /\ \A m \in 1..i - 1 : a[m] = q[m]
  OBVIOUS
<1>2. b \in Seq(S) /\ Len(b) = Len(q) - i /\ \A m \in 1..Len(q) - i : b[m] = q[m + i]
  OBVIOUS
<1>3. k = a \o b
  BY DEF RemoveAt
<1> HIDE DEF k, a, b
<1>4. k \in Seq(S) /\ Len(k) = Len(q) - 1 /\ Len(q) \in Nat
  BY <1>1, <1>2, <1>3
<1>5. \A m \in 1..Len(q) - 1 : k[m] = IF m < i THEN q[m] ELSE q[m + 1]
  <2>1. ASSUME NEW m \in 1..Len(q) - 1, m < i PROVE k[m] = q[m]
    BY <1>1, <1>2, <1>3, <2>1
  <2>2. ASSUME NEW m \in 1..Len(q) - 1, ~(m < i) PROVE k[m] = q[m + 1]
    <3>1. m - (i - 1) \in 1..Len(q) - i /\ m - (i - 1) + i = m + 1
      BY <2>2
    <3>2. k[m] = b[m - (i - 1)]
      BY <1>1, <1>2, <1>3, <2>2
    <3>3. QED
      BY <1>2, <3>1, <3>2
  <2>3. QED
    BY <2>1, <2>2
<1>6. DOMAIN k = 1..Len(k) /\ DOMAIN q = 1..Len(q)
  BY <1>4
<1>7. \A m, n \in 1..Len(k) : k[m] = k[n] => m = n
  BY <1>4, <1>5
<1>8. Range(k) = Range(q) \ {q[i]}
  <2>1. Range(k) \subseteq Range(q) \ {q[i]}
    BY <1>4, <1>5, <1>6 DEF Range
  <2>2. ASSUME NEW m \in 1..Len(q), m # i PROVE q[m] \in Range(k)
    <3>1. CASE m < i
      <4>1. m \in 1..Len(k) /\ k[m] = q[m]
        BY <3>1, <1>4, <1>5
      <4>2. QED
        BY <4>1, <1>6 DEF Range
    <3>2. CASE m > i
      <4>1. m - 1 \in 1..Len(k) /\ k[m - 1] = q[m]
        BY <3>2, <1>4, <1>5
      <4>2. QED
        BY <4>1, <1>6 DEF Range
    <3>3. QED
      BY <3>1, <3>2, <2>2
  <2>3. ASSUME NEW x \in Range(q), x # q[i] PROVE x \in Range(k)
    <3>1. PICK m \in 1..Len(q) : x = q[m]
      BY <1>6 DEF Range
    <3>2. m # i
      BY <2>3, <3>1
    <3>3. QED
      BY <2>2, <3>1, <3>2
  <2>4. QED
    BY <2>1, <2>3
<1>9. QED
  BY <1>4, <1>7, <1>8 DEF k

\* The client of c has sent an op about stroke s that its goroutine has not read.
Asked(c, op, s) == \E i \in 1..Len(toServer[c]) : toServer[c][i] = <<op, {s}>>

\* s is between its INSERT and its relay.
Storing(s) == \E e \in Conns : bpc[e] \in {"count", "tellStroke"} /\ s \in subject[e]

\* Strokes that have been drawn: a number is given out once.
Given == {s \in Uids : s[2] <= sent}

\* Only strokes that have been drawn are anywhere, and a client names its own.
NumberInv ==
    /\ Range(strokes) \subseteq Given /\ lost \subseteq Given
    /\ \A c \in Conns : subject[c] \subseteq Given
    /\ \A c \in Conns : \A s \in own[c] : s \in Given /\ s[1] = c
    /\ \A c \in Conns, s \in Uids :
           Asked(c, "stroke", s) \/ Asked(c, "undo", s) => s \in Given /\ s[1] = c

\* A stroke is sent once.
OnceInv ==
    \A c \in Conns : \A i, j \in 1..Len(toServer[c]) :
        toServer[c][i][1] = "stroke" /\ toServer[c][i] = toServer[c][j] => i = j

\* A client that waits for its wb_state has sent nothing after its wb_join.
JoinInv ==
    \A c \in Conns :
        /\ \A i \in 1..Len(toServer[c]) : toServer[c][i][1] = "join" =>
             i = Len(toServer[c]) /\ view[c] = "waiting" /\ bpc[c] # "state"
        /\ bpc[c] = "state" => view[c] = "waiting"

\* The server has not met a stroke that is still on its way to it.
FreshInv ==
    \A s \in Uids : \A c \in Conns : Asked(c, "stroke", s) =>
        s \notin Range(strokes) /\ s \notin lost /\ \A d \in Conns : s \notin subject[d]

\* A stroke has one row, and none once it is lost.
RowsInv ==
    /\ \A i, j \in 1..Len(strokes) : strokes[i] = strokes[j] => i = j
    /\ Range(strokes) \cap lost = {}

\* What a handler has in hand: a stroke being stored is in the table or lost,
\* one being undone is not being stored, one undone has no row, and a table
\* just cleared is empty.
SubjectInv ==
    \A c \in Conns :
        /\ bpc[c] \in {"count", "tellStroke"} =>
             \E s \in Uids : subject[c] = {s} /\ s[1] = c /\ (~crossed => s \in Range(strokes) \cup lost)
        /\ bpc[c] \in {"undo", "tellUndo"} =>
             \E s \in Uids : /\ subject[c] = {s} /\ (~crossed => ~Storing(s))
                             /\ (bpc[c] = "tellUndo" => s \notin Range(strokes))
        /\ bpc[c] = "clear" /\ ~crossed => strokes = <<>>

\* A client that skips the echo of a stroke has it on its board.
OwnInv == \A c \in Conns : own[c] \subseteq painted[c] /\ (view[c] # "ready" => own[c] = {})

\* A board that has missed nothing, and what it shows or is about to.
Current(d) == ~stale[d] /\ (view[d] = "ready" \/ bpc[d] = "state")
Shown(d) == IF bpc[d] = "state" THEN subject[d] ELSE painted[d]

\* Where such a board and the table differ, what will mend it is under way.
ShownInv ==
    ~crossed => \A d \in Conns : Current(d) =>
        /\ \A s \in Range(strokes) :
              \/ s \in Shown(d)
              \/ Storing(s)
              \/ Asked(d, "undo", s)
              \/ bpc[d] = "undo" /\ s \in subject[d]
        /\ \A s \in Shown(d) \ lost :
              \/ s \in Range(strokes)
              \/ Asked(d, "stroke", s)
              \/ \E e \in Conns : bpc[e] = "tellUndo" /\ s \in subject[e]
              \/ \E e \in Conns : bpc[e] = "clear"

BoardInv ==
    /\ BTypeOK /\ NumberInv /\ OnceInv /\ JoinInv /\ FreshInv /\ RowsInv
    /\ SubjectInv /\ OwnInv /\ ShownInv /\ BoardBounded

\* A message of a client is about one stroke or none.
LEMMA MessageKinds ==
    ASSUME NEW m \in Messages
    PROVE  /\ m = <<m[1], m[2]>>
           /\ m[1] \in {"join", "clear", "undoLast", "stroke", "undo"}
           /\ m[1] \in {"stroke", "undo"} => \E s \in Uids : m[2] = {s}
           /\ m[1] \notin {"stroke", "undo"} => m[2] = {}
  BY DEF Messages, Nothing

\* What is on its way after a client has sent something ...
LEMMA SaysAsked ==
    ASSUME BTypeOK, NEW c \in Conns, NEW op, NEW what, <<op, what>> \in Messages, says(c, op, what)
    PROVE  /\ toServer' \in [Conns -> Seq(Messages)]
           /\ \A d \in Conns : d # c => toServer'[d] = toServer[d]
           /\ toServer'[c] = Append(toServer[c], <<op, what>>)
           /\ \A d \in Conns : \A o, s : Asked(d, o, s)' <=> Asked(d, o, s) \/ (d = c /\ o = op /\ what = {s})
<1> DEFINE q == toServer[c]
<1> DEFINE x == <<op, what>>
<1> HIDE DEF x
<1>1. toServer \in [Conns -> Seq(Messages)] /\ q \in Seq(Messages) /\ x \in Messages
  BY DEF BTypeOK, x
<1>2. toServer' = [toServer EXCEPT ![c] = Append(@, x)]
  BY DEF says, x
<1>3. Append(q, x) \in Seq(Messages)
  BY <1>1, AppendSeq
<1>4. toServer' \in [Conns -> Seq(Messages)] /\ (\A d \in Conns : d # c => toServer'[d] = toServer[d])
      /\ toServer'[c] = Append(q, x)
  BY <1>1, <1>2, <1>3
<1>5. ASSUME NEW d \in Conns, NEW o, NEW s
      PROVE  Asked(d, o, s)' <=> Asked(d, o, s) \/ (d = c /\ o = op /\ what = {s})
  <2>1. CASE d # c
    BY <1>4, <2>1 DEF Asked
  <2>2. CASE d = c
    <3>1. Asked(d, o, s)' <=> \E i \in 1..Len(Append(q, x)) : Append(q, x)[i] = <<o, {s}>>
      BY <1>4, <2>2 DEF Asked
    <3>2. Asked(d, o, s) <=> \E i \in 1..Len(q) : q[i] = <<o, {s}>>
      BY <2>2 DEF Asked
    <3>3. x = <<o, {s}>> <=> o = op /\ what = {s}
      BY DEF x
    <3>4. /\ Len(Append(q, x)) = Len(q) + 1 /\ Append(q, x)[Len(q) + 1] = x /\ Len(q) \in Nat
          /\ \A i \in 1..Len(q) : Append(q, x)[i] = q[i]
      BY <1>1, AppendSeq
    <3> HIDE DEF q
    <3>5. (\E i \in 1..Len(Append(q, x)) : Append(q, x)[i] = <<o, {s}>>) <=> (\E i \in 1..Len(q) : q[i] = <<o, {s}>>) \/ x = <<o, {s}>>
      BY <3>4
    <3>6. QED
      BY <2>2, <3>1, <3>2, <3>3, <3>5
  <2>3. QED
    BY <2>1, <2>2
<1>6. QED
  BY <1>4, <1>5 DEF x

\* ... and after its goroutine has read something.
LEMMA TakesAsked ==
    ASSUME BTypeOK, NEW c \in Conns, NEW op, NEW to, takes(c, op, to)
    PROVE  /\ toServer' \in [Conns -> Seq(Messages)]
           /\ \A d \in Conns : d # c => toServer'[d] = toServer[d]
           /\ toServer'[c] = Tail(toServer[c])
           /\ toServer[c] # <<>> /\ Head(toServer[c]) \in Messages /\ Head(toServer[c])[1] = op
           /\ \A d \in Conns : \A o, s : Asked(d, o, s)' => Asked(d, o, s)
           /\ \A d \in Conns : \A o, s : Asked(d, o, s) => Asked(d, o, s)' \/ (d = c /\ op = o /\ Head(toServer[c])[2] = {s})
           /\ \A s : Head(toServer[c])[2] = {s} => Asked(c, op, s)
           /\ OnceInv /\ op = "stroke" => \A s : Head(toServer[c])[2] = {s} => ~Asked(c, op, s)'
<1> DEFINE q == toServer[c]
<1>1. toServer \in [Conns -> Seq(Messages)] /\ q \in Seq(Messages) /\ q # <<>> /\ Head(q)[1] = op
  BY DEF BTypeOK, takes
<1>2. toServer' = [toServer EXCEPT ![c] = Tail(@)]
  BY DEF takes
<1>3. /\ Tail(q) \in Seq(Messages) /\ Len(Tail(q)) = Len(q) - 1 /\ Len(q) \in Nat \ {0}
      /\ \A i \in 1..Len(q) - 1 : Tail(q)[i] = q[i + 1]
      /\ Head(q) = q[1] /\ Head(q) \in Messages
  <2> HIDE DEF q
  <2>1. QED
    BY <1>1, TailSeq
<1>4. toServer' \in [Conns -> Seq(Messages)] /\ (\A d \in Conns : d # c => toServer'[d] = toServer[d])
      /\ toServer'[c] = Tail(q)
  BY <1>1, <1>2, <1>3
<1>5. Head(q) = <<op, Head(q)[2]>>
  BY <1>1, <1>3, MessageKinds
<1>6. ASSUME NEW o, NEW s
      PROVE  /\ Asked(c, o, s)' <=> \E i \in 1..Len(q) - 1 : q[i + 1] = <<o, {s}>>
             /\ Asked(c, o, s) <=> \E i \in 1..Len(q) : q[i] = <<o, {s}>>
  <2>1. Asked(c, o, s)' <=> \E i \in 1..Len(Tail(q)) : Tail(q)[i] = <<o, {s}>>
    BY <1>4 DEF Asked
  <2>2. Asked(c, o, s) <=> \E i \in 1..Len(q) : q[i] = <<o, {s}>>
    BY DEF Asked
  <2> HIDE DEF q
  <2>3. QED
    BY <2>1, <2>2, <1>3
<1>7. ASSUME NEW o, NEW s
      PROVE  /\ Asked(c, o, s)' => Asked(c, o, s)
             /\ Asked(c, o, s) => Asked(c, o, s)' \/ (op = o /\ Head(q)[2] = {s})
  <2> HIDE DEF q
  <2>1. ASSUME Asked(c, o, s)' PROVE Asked(c, o, s)
    <3>1. PICK i \in 1..Len(q) - 1 : q[i + 1] = <<o, {s}>>
      BY <2>1, <1>6
    <3>2. i + 1 \in 1..Len(q)
      BY <1>3
    <3>3. QED
      BY <1>6, <3>1, <3>2
  <2>2. ASSUME Asked(c, o, s), ~Asked(c, o, s)' PROVE op = o /\ Head(q)[2] = {s}
    <3>1. PICK i \in 1..Len(q) : q[i] = <<o, {s}>>
      BY <2>2, <1>6
    <3>2. i = 1
      <4>1. SUFFICES ASSUME i # 1 PROVE FALSE
        OBVIOUS
      <4>2. i - 1 \in 1..Len(q) - 1 /\ (i - 1) + 1 = i
        BY <1>3, <4>1
      <4>3. QED
        BY <2>2, <1>6, <3>1, <4>2
    <3>3. QED
      BY <3>1, <3>2, <1>3, <1>5
  <2>3. QED
    BY <2>1, <2>2
<1>8. ASSUME NEW s, Head(q)[2] = {s} PROVE Asked(c, op, s)
  <2> HIDE DEF q
  <2>1. QED
    BY <1>3, <1>5, <1>6, <1>8
<1>9. ASSUME OnceInv, op = "stroke", NEW s, Head(q)[2] = {s}, Asked(c, op, s)' PROVE FALSE
  <2>1. \A i, j \in 1..Len(q) : q[i][1] = "stroke" /\ q[i] = q[j] => i = j
    BY <1>9 DEF OnceInv
  <2> HIDE DEF q
  <2>2. PICK i \in 1..Len(q) - 1 : q[i + 1] = <<op, {s}>>
    BY <1>6, <1>9
  <2>3. i + 1 \in 1..Len(q) /\ 1 \in 1..Len(q) /\ i + 1 # 1
    BY <1>3
  <2>4. q[1] = q[i + 1] /\ q[1][1] = "stroke"
    BY <1>3, <1>5, <1>9, <2>2
  <2>5. QED
    BY <2>1, <2>3, <2>4
<1>10. ASSUME NEW d \in Conns, NEW o, NEW s, d # c PROVE Asked(d, o, s)' <=> Asked(d, o, s)
  BY <1>4, <1>10 DEF Asked
<1>11. QED
  BY <1>1, <1>3, <1>4, <1>7, <1>8, <1>9, <1>10

\* The order of what is on its way, when the client sends, ...
LEMMA SaysQueue ==
    ASSUME BTypeOK, OnceInv, JoinInv, NEW c \in Conns, NEW op, NEW what, <<op, what>> \in Messages,
           says(c, op, what), view[c] # "waiting",
           \A s : op = "stroke" /\ what = {s} => ~Asked(c, op, s),
           view' = [view EXCEPT ![c] = IF op = "join" THEN "waiting" ELSE @]
    PROVE  OnceInv' /\ JoinInv'
<1> DEFINE q == toServer[c]
<1> DEFINE x == <<op, what>>
<1>1. /\ \A d \in Conns : d # c => toServer'[d] = toServer[d]
      /\ toServer'[c] = Append(q, x) /\ bpc' = bpc
  BY SaysAsked DEF says
<1>2. q \in Seq(Messages) /\ x \in Messages /\ view \in [Conns -> {"closed", "waiting", "ready"}]
  BY DEF BTypeOK
<1>3. \A i \in 1..Len(q) : q[i] # x \/ op # "stroke"
  <2>1. SUFFICES ASSUME NEW i \in 1..Len(q), q[i] = x, op = "stroke" PROVE FALSE
    OBVIOUS
  <2>2. PICK s \in Uids : what = {s}
    BY <1>2, <2>1, MessageKinds
  <2>3. QED
    BY <2>1, <2>2 DEF Asked
<1>4. \A i \in 1..Len(q) : q[i][1] # "join"
  BY DEF JoinInv
<1>5. x[1] = op
  OBVIOUS
<1> HIDE DEF x
<1>6. /\ Len(Append(q, x)) = Len(q) + 1 /\ Append(q, x)[Len(q) + 1] = x /\ Len(q) \in Nat
      /\ \A i \in 1..Len(q) : Append(q, x)[i] = q[i]
  BY <1>2, AppendSeq
<1>7. \A i, j \in 1..Len(q) : q[i][1] = "stroke" /\ q[i] = q[j] => i = j
  BY DEF OnceInv
<1>8. \A i, j \in 1..Len(q) + 1 : Append(q, x)[i][1] = "stroke" /\ Append(q, x)[i] = Append(q, x)[j] => i = j
  <2> HIDE DEF q
  <2>1. QED
    BY <1>3, <1>5, <1>6, <1>7
<1>9. \A i \in 1..Len(q) + 1 : Append(q, x)[i][1] = "join" => i = Len(q) + 1 /\ op = "join"
  <2> HIDE DEF q
  <2>1. QED
    BY <1>4, <1>5, <1>6
<1>10. OnceInv'
  <2>1. ASSUME NEW d \in Conns
        PROVE  \A i, j \in 1..Len(toServer'[d]) : toServer'[d][i][1] = "stroke" /\ toServer'[d][i] = toServer'[d][j] => i = j
    <3>1. CASE d # c
      <4>1. toServer'[d] = toServer[d]
        BY <1>1, <3>1
      <4>2. QED
        BY <4>1 DEF OnceInv
    <3>2. CASE d = c
      <4>1. toServer'[d] = Append(q, x)
        BY <1>1, <3>2
      <4> HIDE DEF q
      <4>2. QED
        BY <1>6, <1>8, <4>1
    <3>3. QED
      BY <3>1, <3>2
  <2>2. QED
    BY <2>1 DEF OnceInv
<1>11. bpc[c] # "state"
  BY DEF JoinInv
<1>12. JoinInv'
  <2>1. ASSUME NEW d \in Conns
        PROVE  /\ \A i \in 1..Len(toServer'[d]) : toServer'[d][i][1] = "join" =>
                       i = Len(toServer'[d]) /\ view'[d] = "waiting" /\ bpc[d] # "state"
               /\ bpc[d] = "state" => view'[d] = "waiting"
    <3>1. CASE d # c
      <4>1. toServer'[d] = toServer[d] /\ view'[d] = view[d]
        BY <1>1, <1>2, <3>1
      <4>2. QED
        BY <4>1 DEF JoinInv
    <3>2. CASE d = c
      <4>1. toServer'[d] = Append(q, x) /\ (op = "join" => view'[d] = "waiting")
        BY <1>1, <1>2, <3>2
      <4> HIDE DEF q
      <4>2. QED
        BY <1>6, <1>9, <1>11, <3>2, <4>1
    <3>3. QED
      BY <3>1, <3>2
  <2>2. QED
    BY <1>1, <2>1 DEF JoinInv
<1>13. QED
  BY <1>10, <1>12

\* ... when the goroutine reads, ...
LEMMA TakesQueue ==
    ASSUME BTypeOK, OnceInv, JoinInv, NEW c \in Conns, NEW op, NEW to, takes(c, op, to),
           to = "state" => op = "join", view' = view
    PROVE  OnceInv' /\ JoinInv'
<1> DEFINE q == toServer[c]
<1>1. /\ \A d \in Conns : d # c => toServer'[d] = toServer[d]
      /\ toServer'[c] = Tail(q) /\ q # <<>> /\ Head(q)[1] = op
  BY TakesAsked
<1>2. q \in Seq(Messages) /\ bpc' = [bpc EXCEPT ![c] = to] /\ bpc[c] = "read"
      /\ bpc \in [Conns -> {"read", "count", "tellStroke", "undo", "tellUndo", "clear", "state"}]
  BY DEF BTypeOK, takes, step
<1>3. \A i, j \in 1..Len(q) : q[i][1] = "stroke" /\ q[i] = q[j] => i = j
  BY DEF OnceInv
<1>4. \A i \in 1..Len(q) : q[i][1] = "join" => i = Len(q) /\ view[c] = "waiting"
  BY DEF JoinInv
<1>5. /\ Len(Tail(q)) = Len(q) - 1 /\ Len(q) \in Nat \ {0}
      /\ \A i \in 1..Len(q) - 1 : Tail(q)[i] = q[i + 1]
      /\ Head(q) = q[1]
  <2> HIDE DEF q
  <2>1. QED
    BY <1>1, <1>2, TailSeq
<1>6. /\ \A i, j \in 1..Len(Tail(q)) : Tail(q)[i][1] = "stroke" /\ Tail(q)[i] = Tail(q)[j] => i = j
      /\ \A i \in 1..Len(Tail(q)) : Tail(q)[i][1] = "join" => i = Len(Tail(q)) /\ view[c] = "waiting"
      /\ op = "join" => Len(Tail(q)) = 0 /\ view[c] = "waiting"
  <2> HIDE DEF q
  <2>1. ASSUME NEW i \in 1..Len(Tail(q))
        PROVE  i + 1 \in 1..Len(q) /\ Tail(q)[i] = q[i + 1]
    BY <1>5
  <2>2. \A i, j \in 1..Len(Tail(q)) : Tail(q)[i][1] = "stroke" /\ Tail(q)[i] = Tail(q)[j] => i = j
    <3>1. SUFFICES ASSUME NEW i \in 1..Len(Tail(q)), NEW j \in 1..Len(Tail(q)),
                          Tail(q)[i][1] = "stroke", Tail(q)[i] = Tail(q)[j]
                   PROVE  i = j
      OBVIOUS
    <3>2. i + 1 = j + 1
      BY <1>3, <2>1, <3>1
    <3>3. QED
      BY <3>2, <1>5
  <2>3. \A i \in 1..Len(Tail(q)) : Tail(q)[i][1] = "join" => i = Len(Tail(q)) /\ view[c] = "waiting"
    <3>1. SUFFICES ASSUME NEW i \in 1..Len(Tail(q)), Tail(q)[i][1] = "join"
                   PROVE  i = Len(Tail(q)) /\ view[c] = "waiting"
      OBVIOUS
    <3>2. i + 1 = Len(q) /\ view[c] = "waiting"
      BY <1>4, <2>1, <3>1
    <3>3. QED
      BY <3>2, <1>5
  <2>4. op = "join" => Len(Tail(q)) = 0 /\ view[c] = "waiting"
    <3>1. 1 \in 1..Len(q)
      BY <1>5
    <3>2. q[1][1] = op
      BY <1>1, <1>5 DEF q
    <3>3. op = "join" => 1 = Len(q) /\ view[c] = "waiting"
      BY <1>4, <3>1, <3>2
    <3>4. 1 = Len(q) => Len(Tail(q)) = 0
      <4> DEFINE a == Len(q)
      <4> DEFINE b == Len(Tail(q))
      <4>1. b = a - 1 /\ a \in Nat
        BY <1>5
      <4> HIDE DEF a, b
      <4>2. 1 = a => b = 0
        BY <4>1
      <4>3. QED
        BY <4>2 DEF a, b
    <3>5. QED
      BY <3>3, <3>4, Zenon
  <2>5. QED
    BY <2>2, <2>3, <2>4
<1>7. OnceInv'
  <2>1. ASSUME NEW d \in Conns
        PROVE  \A i, j \in 1..Len(toServer'[d]) : toServer'[d][i][1] = "stroke" /\ toServer'[d][i] = toServer'[d][j] => i = j
    <3>1. CASE d # c
      <4>1. toServer'[d] = toServer[d]
        BY <1>1, <3>1
      <4>2. QED
        BY <4>1 DEF OnceInv
    <3>2. CASE d = c
      <4>1. toServer'[d] = Tail(q)
        BY <1>1, <3>2
      <4> HIDE DEF q
      <4>2. QED
        BY <1>6, <4>1
    <3>3. QED
      BY <3>1, <3>2
  <2>2. QED
    BY <2>1 DEF OnceInv
<1>8. ASSUME NEW d \in Conns
      PROVE  /\ \A i \in 1..Len(toServer'[d]) : toServer'[d][i][1] = "join" =>
                     i = Len(toServer'[d]) /\ view[d] = "waiting" /\ bpc'[d] # "state"
             /\ bpc'[d] = "state" => view[d] = "waiting"
  <2>1. CASE d # c
    BY <1>1, <1>2, <2>1 DEF JoinInv
  <2>2. CASE d = c
    <3>1. toServer'[d] = Tail(q) /\ bpc'[d] = to
      BY <1>1, <1>2, <2>2
    <3> HIDE DEF q
    <3>2. to = "state" => Len(Tail(q)) = 0 /\ view[d] = "waiting"
      BY <1>6, <2>2
    <3>3. ASSUME NEW i \in 1..Len(toServer'[d]), toServer'[d][i][1] = "join"
          PROVE  i = Len(toServer'[d]) /\ view[d] = "waiting" /\ bpc'[d] # "state"
      <4>1. i \in 1..Len(Tail(q)) /\ Tail(q)[i][1] = "join"
        BY <3>1, <3>3
      <4>2. i = Len(Tail(q)) /\ view[c] = "waiting"
        BY <1>6, <4>1
      <4>3. to # "state"
        BY <3>2, <4>1
      <4>4. QED
        BY <2>2, <3>1, <4>2, <4>3
    <3>4. QED
      BY <3>1, <3>2, <3>3
  <2>3. QED
    BY <2>1, <2>2
<1>9. JoinInv'
  BY <1>8 DEF JoinInv
<1>10. QED
  BY <1>7, <1>9

\* ... and when it does anything else.
LEMMA KeepQueue ==
    ASSUME BTypeOK, OnceInv, JoinInv, NEW c \in Conns, NEW from, NEW to, step(c, from, to), to # "state",
           toServer' = toServer,
           view' = IF from = "state" THEN [view EXCEPT ![c] = "ready"] ELSE view
    PROVE  OnceInv' /\ JoinInv'
<1>1. /\ bpc' = [bpc EXCEPT ![c] = to] /\ bpc[c] = from
      /\ bpc \in [Conns -> {"read", "count", "tellStroke", "undo", "tellUndo", "clear", "state"}]
      /\ view \in [Conns -> {"closed", "waiting", "ready"}]
  BY DEF step, BTypeOK
<1>2. OnceInv'
  BY DEF OnceInv
<1>3. JoinInv'
  BY <1>1 DEF JoinInv
<1>4. QED
  BY <1>2, <1>3

\* The types, and what they say of the rows.
LEMMA TypesOfBoard ==
    ASSUME BTypeOK
    PROVE  /\ strokes \in Seq(Uids) /\ Range(strokes) \subseteq Uids
           /\ bpc \in [Conns -> {"read", "count", "tellStroke", "undo", "tellUndo", "clear", "state"}]
           /\ toServer \in [Conns -> Seq(Messages)] /\ subject \in [Conns -> SUBSET Uids]
           /\ view \in [Conns -> {"closed", "waiting", "ready"}]
           /\ painted \in [Conns -> SUBSET Uids] /\ own \in [Conns -> SUBSET Uids]
           /\ lost \subseteq Uids /\ stale \in [Conns -> BOOLEAN] /\ crossed \in BOOLEAN /\ sent \in 0..MaxOps
<1>1. strokes \in Seq(Uids)
  BY DEF BTypeOK
<1>2. Range(strokes) \subseteq Uids
  BY <1>1 DEF Range
<1>3. QED
  BY <1>1, <1>2 DEF BTypeOK

\* What the server does not hear of leaves its state alone.
LEMMA TalkFrame ==
    ASSUME BoardInv, UNCHANGED <<strokes, bpc, subject, lost, crossed>>
    PROVE  RowsInv' /\ SubjectInv' /\ BoardBounded'
<1>1. RowsInv'
  BY DEF BoardInv, RowsInv
<1>2. SubjectInv'
  BY DEF BoardInv, SubjectInv, Storing
<1>3. BoardBounded'
  BY DEF BoardInv, BoardBounded
<1>4. QED
  BY <1>1, <1>2, <1>3

\* The steps of the client.
LEMMA OpenBoard ==
    ASSUME BoardInv, NEW c \in Conns, openBoard(c)
    PROVE  BoardInv'
<1>1. BTypeOK /\ NumberInv /\ OnceInv /\ JoinInv /\ FreshInv /\ OwnInv /\ ShownInv
  BY DEF BoardInv
<1>2. says(c, "join", Nothing) /\ view[c] # "waiting" /\ view' = [view EXCEPT ![c] = "waiting"]
      /\ painted' = [painted EXCEPT ![c] = {}] /\ own' = [own EXCEPT ![c] = {}]
      /\ UNCHANGED <<strokes, bpc, subject, lost, stale, crossed>>
  BY DEF openBoard, says
<1>3. sent \in 0..MaxOps /\ sent' \in 0..MaxOps /\ sent <= sent' /\ MaxOps \in Nat
  BY <1>1, WhiteboardAssumption DEF openBoard, counts, BTypeOK
<1>4. <<"join", Nothing>> \in Messages
  BY DEF Messages
<1>5. /\ toServer' \in [Conns -> Seq(Messages)]
      /\ \A d \in Conns : \A o, s : Asked(d, o, s)' <=> Asked(d, o, s)
  BY <1>1, <1>2, <1>4, SaysAsked DEF Nothing
<1>6. BTypeOK'
  BY <1>1, <1>2, <1>3, <1>5 DEF BTypeOK
<1>7. NumberInv'
  BY <1>1, <1>2, <1>3, <1>5, TypesOfBoard DEF NumberInv, Given, Uids
<1>8. OnceInv' /\ JoinInv'
  BY <1>1, <1>2, <1>4, SaysQueue
<1>9. FreshInv'
  BY <1>1, <1>2, <1>5 DEF FreshInv
<1>10. OwnInv'
  BY <1>1, <1>2, TypesOfBoard DEF OwnInv
<1>11. bpc[c] # "state"
  BY <1>1, <1>2 DEF JoinInv
<1>12. ShownInv'
  BY <1>1, <1>2, <1>5, <1>11, TypesOfBoard DEF ShownInv, Current, Shown, Storing
<1>13. QED
  BY <1>2, <1>6, <1>7, <1>8, <1>9, <1>10, <1>12, TalkFrame DEF BoardInv

LEMMA FinishStroke ==
    ASSUME BoardInv, NEW c \in Conns, finishStroke(c)
    PROVE  BoardInv'
<1> DEFINE s == <<c, sent + 1>>
<1>1. BTypeOK /\ NumberInv /\ OnceInv /\ JoinInv /\ FreshInv /\ OwnInv /\ ShownInv
  BY DEF BoardInv
<1>2. says(c, "stroke", {s}) /\ view[c] = "ready" /\ view' = view
      /\ painted' = [painted EXCEPT ![c] = @ \cup {s}] /\ own' = [own EXCEPT ![c] = @ \cup {s}]
      /\ UNCHANGED <<strokes, bpc, subject, lost, stale, crossed>>
  BY DEF finishStroke, says
<1>3. sent \in 0..MaxOps /\ sent' = sent + 1 /\ sent' \in 0..MaxOps /\ MaxOps \in Nat
  BY <1>1, WhiteboardAssumption DEF finishStroke, counts, BTypeOK
<1>4. s \in Uids /\ s[1] = c /\ s[2] = sent + 1
  BY <1>3 DEF Uids
<1>5. s \notin Given /\ Given \subseteq Given' /\ s \in Given'
  BY <1>3, <1>4 DEF Given, Uids
<1> HIDE DEF s
<1>6. s \notin Range(strokes) /\ s \notin lost /\ ~Asked(c, "stroke", s) /\ \A d \in Conns : s \notin subject[d]
  BY <1>1, <1>4, <1>5 DEF NumberInv
<1>7. <<"stroke", {s}>> \in Messages
  BY <1>4 DEF Messages
<1>8. /\ toServer' \in [Conns -> Seq(Messages)]
      /\ \A d \in Conns : \A o, t : Asked(d, o, t)' <=> Asked(d, o, t) \/ (d = c /\ o = "stroke" /\ t = s)
  <2>1. /\ toServer' \in [Conns -> Seq(Messages)]
        /\ \A d \in Conns : \A o, t : Asked(d, o, t)' <=> Asked(d, o, t) \/ (d = c /\ o = "stroke" /\ {s} = {t})
    BY <1>1, <1>2, <1>7, SaysAsked
  <2>2. ASSUME NEW d \in Conns, NEW o, NEW t
        PROVE  Asked(d, o, t)' <=> Asked(d, o, t) \/ (d = c /\ o = "stroke" /\ t = s)
    <3>1. {s} = {t} <=> t = s
      OBVIOUS
    <3>2. QED
      BY <2>1, <3>1
  <2>3. QED
    BY <2>1, <2>2
<1>9. BTypeOK'
  BY <1>1, <1>2, <1>3, <1>4, <1>8 DEF BTypeOK
<1>10. NumberInv'
  BY <1>1, <1>2, <1>4, <1>5, <1>8, TypesOfBoard DEF NumberInv
<1>11. OnceInv' /\ JoinInv'
  <2>1. view' = [view EXCEPT ![c] = IF "stroke" = "join" THEN "waiting" ELSE @]
    BY <1>1, <1>2, TypesOfBoard
  <2>2. \A t : "stroke" = "stroke" /\ {s} = {t} => ~Asked(c, "stroke", t)
    BY <1>6
  <2>3. QED
    BY <1>1, <1>2, <1>7, <2>1, <2>2, SaysQueue
<1>12. FreshInv'
  BY <1>1, <1>2, <1>6, <1>8 DEF FreshInv
<1>13. OwnInv'
  BY <1>1, <1>2, TypesOfBoard DEF OwnInv
<1>14. ShownInv'
  BY <1>1, <1>2, <1>6, <1>8, TypesOfBoard DEF ShownInv, Current, Shown, Storing
<1>15. QED
  BY <1>2, <1>9, <1>10, <1>11, <1>12, <1>13, <1>14, TalkFrame DEF BoardInv

LEMMA UndoPressed ==
    ASSUME BoardInv, NEW c \in Conns, undo(c)
    PROVE  BoardInv'
<1>1. BTypeOK /\ NumberInv /\ OnceInv /\ JoinInv /\ FreshInv /\ OwnInv /\ ShownInv
  BY DEF BoardInv
<1>2. PICK s \in own[c] :
         says(c, "undo", {s}) /\ view[c] = "ready" /\ view' = view
         /\ painted' = [painted EXCEPT ![c] = @ \ {s}] /\ own' = [own EXCEPT ![c] = @ \ {s}]
         /\ UNCHANGED <<strokes, bpc, subject, lost, stale, crossed>>
  BY DEF undo, says
<1>3. sent \in 0..MaxOps /\ sent' = sent + 1 /\ sent' \in 0..MaxOps /\ MaxOps \in Nat
  BY <1>1, WhiteboardAssumption DEF undo, counts, BTypeOK
<1>4. s \in Uids /\ s[1] = c /\ s \in Given
  BY <1>1, TypesOfBoard DEF NumberInv
<1>5. Given \subseteq Given'
  BY <1>3 DEF Given, Uids
<1>7. <<"undo", {s}>> \in Messages
  BY <1>4 DEF Messages
<1>8. /\ toServer' \in [Conns -> Seq(Messages)]
      /\ \A d \in Conns : \A o, t : Asked(d, o, t)' <=> Asked(d, o, t) \/ (d = c /\ o = "undo" /\ t = s)
  <2>1. /\ toServer' \in [Conns -> Seq(Messages)]
        /\ \A d \in Conns : \A o, t : Asked(d, o, t)' <=> Asked(d, o, t) \/ (d = c /\ o = "undo" /\ {s} = {t})
    BY <1>1, <1>2, <1>7, SaysAsked
  <2>2. ASSUME NEW d \in Conns, NEW o, NEW t
        PROVE  Asked(d, o, t)' <=> Asked(d, o, t) \/ (d = c /\ o = "undo" /\ t = s)
    <3>1. {s} = {t} <=> t = s
      OBVIOUS
    <3>2. QED
      BY <2>1, <3>1
  <2>3. QED
    BY <2>1, <2>2
<1>9. BTypeOK'
  BY <1>1, <1>2, <1>3, <1>4, <1>8 DEF BTypeOK
<1>10. NumberInv'
  BY <1>1, <1>2, <1>4, <1>5, <1>8, TypesOfBoard DEF NumberInv
<1>11. OnceInv' /\ JoinInv'
  <2>1. view' = [view EXCEPT ![c] = IF "undo" = "join" THEN "waiting" ELSE @]
    BY <1>1, <1>2, TypesOfBoard
  <2>2. \A t : "undo" = "stroke" /\ {s} = {t} => ~Asked(c, "undo", t)
    OBVIOUS
  <2>3. QED
    BY <1>1, <1>2, <1>7, <2>1, <2>2, SaysQueue
<1>12. FreshInv'
  BY <1>1, <1>2, <1>8 DEF FreshInv
<1>13. OwnInv'
  BY <1>1, <1>2, TypesOfBoard DEF OwnInv
<1>14. ShownInv'
  BY <1>1, <1>2, <1>8, TypesOfBoard DEF ShownInv, Current, Shown, Storing
<1>15. QED
  BY <1>2, <1>9, <1>10, <1>11, <1>12, <1>13, <1>14, TalkFrame DEF BoardInv

LEMMA AsksBoard ==
    ASSUME BoardInv, NEW c \in Conns, asks(c)
    PROVE  BoardInv'
<1>1. BTypeOK /\ NumberInv /\ OnceInv /\ JoinInv /\ FreshInv /\ OwnInv /\ ShownInv
  BY DEF BoardInv
<1>2. PICK op \in {"undoLast", "clear"} : says(c, op, Nothing)
  BY DEF asks
<1>3. UNCHANGED <<strokes, bpc, subject, lost, stale, crossed, view, painted, own>> /\ view[c] = "ready"
  BY <1>2 DEF says, asks, client
<1>4. sent \in 0..MaxOps /\ sent' = sent + 1 /\ sent' \in 0..MaxOps /\ MaxOps \in Nat
  BY <1>1, WhiteboardAssumption DEF asks, counts, BTypeOK
<1>5. Given \subseteq Given'
  BY <1>4 DEF Given, Uids
<1>7. <<op, Nothing>> \in Messages
  BY DEF Messages
<1>8. /\ toServer' \in [Conns -> Seq(Messages)]
      /\ \A d \in Conns : \A o, t : Asked(d, o, t)' <=> Asked(d, o, t)
  BY <1>1, <1>2, <1>7, SaysAsked DEF Nothing
<1>9. BTypeOK'
  BY <1>1, <1>3, <1>4, <1>8 DEF BTypeOK
<1>10. NumberInv'
  BY <1>1, <1>3, <1>5, <1>8, TypesOfBoard DEF NumberInv
<1>11. OnceInv' /\ JoinInv'
  <2>1. view' = [view EXCEPT ![c] = IF op = "join" THEN "waiting" ELSE @]
    BY <1>1, <1>2, <1>3, TypesOfBoard
  <2>2. \A t : op = "stroke" /\ Nothing = {t} => ~Asked(c, op, t)
    BY DEF Nothing
  <2>3. QED
    BY <1>1, <1>2, <1>3, <1>7, <2>1, <2>2, SaysQueue
<1>12. FreshInv'
  BY <1>1, <1>3, <1>8 DEF FreshInv
<1>13. OwnInv'
  BY <1>1, <1>3 DEF OwnInv
<1>14. ShownInv'
  BY <1>1, <1>3, <1>8 DEF ShownInv, Current, Shown, Storing
<1>15. QED
  BY <1>3, <1>9, <1>10, <1>11, <1>12, <1>13, <1>14, TalkFrame DEF BoardInv

\* The cap, where no row is added and nobody begins or ends counting.
LEMMA BoundKept ==
    ASSUME BTypeOK, BoardBounded, strokes' \in Seq(Uids), Len(strokes') <= Len(strokes),
           \A d \in Conns : bpc'[d] = "count" <=> bpc[d] = "count"
    PROVE  BoardBounded'
<1>1. {d \in Conns : bpc'[d] = "count"} = {d \in Conns : bpc[d] = "count"}
  OBVIOUS
<1>2. Len(strokes) <= Cap + Cardinality({d \in Conns : bpc[d] = "count"})
  BY DEF BoardBounded
<1>3. IsFiniteSet({d \in Conns : bpc[d] = "count"})
  BY HandlersAssumption, FS_Subset
<1>4. Cardinality({d \in Conns : bpc[d] = "count"}) \in Nat /\ Cap \in Nat
  BY <1>3, FS_CardinalityType, WhiteboardAssumption
<1>5. strokes \in Seq(Uids)
  BY DEF BTypeOK
<1>6. Len(strokes') <= Cap + Cardinality({d \in Conns : bpc[d] = "count"})
  BY <1>2, <1>4, <1>5
<1>7. QED
  BY <1>1, <1>6 DEF BoardBounded

\* Numbers, where nothing is drawn.
LEMMA NumberKept ==
    ASSUME BoardInv, sent' = sent, Range(strokes)' \subseteq Given, lost' \subseteq Given,
           \A c \in Conns : subject'[c] \subseteq Given,
           \A c \in Conns : own'[c] \subseteq own[c],
           \A c \in Conns : \A o, s : Asked(c, o, s)' => Asked(c, o, s)
    PROVE  NumberInv'
<1>1. Given' = Given
  BY DEF Given
<1>2. QED
  BY <1>1 DEF BoardInv, NumberInv

\* wb_join.
LEMMA BoardStateRead ==
    ASSUME BoardInv, NEW c \in Conns, whiteboardState(c)
    PROVE  BoardInv'
<1>1. BTypeOK /\ NumberInv /\ OnceInv /\ JoinInv /\ FreshInv /\ RowsInv /\ SubjectInv /\ OwnInv /\ ShownInv /\ BoardBounded
  BY DEF BoardInv
<1>2. takes(c, "join", "state")
  BY DEF whiteboardState
<1>3. /\ bpc[c] = "read" /\ bpc' = [bpc EXCEPT ![c] = "state"] /\ sent' = sent
      /\ subject' = [subject EXCEPT ![c] = Range(strokes)] /\ stale' = [stale EXCEPT ![c] = FALSE]
      /\ UNCHANGED <<strokes, lost, crossed, view, painted, own>>
  BY DEF whiteboardState, takes, step, carries, client
<1>4. /\ toServer' \in [Conns -> Seq(Messages)]
      /\ \A d \in Conns : \A o, s : Asked(d, o, s)' => Asked(d, o, s)
      /\ \A d \in Conns : \A o, s : Asked(d, o, s) /\ d # c => Asked(d, o, s)'
  BY <1>1, <1>2, TakesAsked
<1>5. BTypeOK'
  BY <1>1, <1>3, <1>4, TypesOfBoard DEF BTypeOK
<1>6. NumberInv'
  BY <1>1, <1>3, <1>4, TypesOfBoard, NumberKept DEF NumberInv
<1>7. OnceInv' /\ JoinInv'
  BY <1>1, <1>2, <1>3, TakesQueue
<1>8. FreshInv'
  BY <1>1, <1>3, <1>4, TypesOfBoard DEF FreshInv
<1>9. RowsInv'
  BY <1>1, <1>3 DEF RowsInv
<1>10. \A s : Storing(s)' <=> Storing(s)
  BY <1>1, <1>3, TypesOfBoard DEF Storing
<1>11. SubjectInv'
  BY <1>1, <1>3, <1>10, TypesOfBoard DEF SubjectInv
<1>12. OwnInv'
  BY <1>1, <1>3 DEF OwnInv
<1>13. ShownInv'
  BY <1>1, <1>3, <1>4, <1>10, TypesOfBoard DEF ShownInv, Current, Shown
<1>14. BoardBounded'
  BY <1>1, <1>3, TypesOfBoard, BoundKept
<1>15. QED
  BY <1>5, <1>6, <1>7, <1>8, <1>9, <1>11, <1>12, <1>13, <1>14 DEF BoardInv

LEMMA BoardStateSent ==
    ASSUME BoardInv, NEW c \in Conns, wbState(c)
    PROVE  BoardInv'
<1>1. BTypeOK /\ NumberInv /\ OnceInv /\ JoinInv /\ FreshInv /\ RowsInv /\ SubjectInv /\ OwnInv /\ ShownInv /\ BoardBounded
  BY DEF BoardInv
<1>2. step(c, "state", "read")
  BY DEF wbState
<1>3. /\ bpc[c] = "state" /\ bpc' = [bpc EXCEPT ![c] = "read"] /\ sent' = sent
      /\ subject' = [subject EXCEPT ![c] = {}] /\ view' = [view EXCEPT ![c] = "ready"]
      /\ painted' = [painted EXCEPT ![c] = subject[c]]
      /\ UNCHANGED <<strokes, toServer, lost, crossed, stale, own>>
  BY DEF wbState, step, carries, Nothing
<1>4. \A d, o, s : Asked(d, o, s)' <=> Asked(d, o, s)
  BY <1>3 DEF Asked
<1>5. BTypeOK'
  BY <1>1, <1>3, TypesOfBoard DEF BTypeOK
<1>6. NumberInv'
  BY <1>1, <1>3, <1>4, TypesOfBoard, NumberKept DEF NumberInv
<1>7. OnceInv' /\ JoinInv'
  BY <1>1, <1>2, <1>3, KeepQueue
<1>8. FreshInv'
  BY <1>1, <1>3, <1>4, TypesOfBoard DEF FreshInv
<1>9. RowsInv'
  BY <1>1, <1>3 DEF RowsInv
<1>10. \A s : Storing(s)' <=> Storing(s)
  BY <1>1, <1>3, TypesOfBoard DEF Storing
<1>11. SubjectInv'
  BY <1>1, <1>3, <1>10, TypesOfBoard DEF SubjectInv
<1>12. OwnInv'
  BY <1>1, <1>3, TypesOfBoard DEF OwnInv, JoinInv
<1>13. ShownInv'
  BY <1>1, <1>3, <1>4, <1>10, TypesOfBoard DEF ShownInv, Current, Shown
<1>14. BoardBounded'
  BY <1>1, <1>3, TypesOfBoard, BoundKept
<1>15. QED
  BY <1>5, <1>6, <1>7, <1>8, <1>9, <1>11, <1>12, <1>13, <1>14 DEF BoardInv

\* The stroke a handler of wb_stroke has just read is new to the server.
LEMMA TakenStroke ==
    ASSUME BoardInv, NEW c \in Conns, NEW to, takes(c, "stroke", to)
    PROVE  \E s \in Uids : /\ Head(toServer[c])[2] = {s} /\ s \in Given /\ s[1] = c
                           /\ s \notin Range(strokes) /\ s \notin lost /\ \A d \in Conns : s \notin subject[d]
                           /\ (\A d \in Conns : ~Asked(d, "stroke", s)')
                           /\ \A d \in Conns : \A t : (Asked(d, "undo", t) => Asked(d, "undo", t)') /\ (Asked(d, "stroke", t) => Asked(d, "stroke", t)' \/ t = s)
<1>1. BTypeOK /\ NumberInv /\ OnceInv /\ FreshInv
  BY DEF BoardInv
<1>2. Head(toServer[c]) \in Messages /\ Head(toServer[c])[1] = "stroke"
  BY <1>1, TakesAsked
<1>3. PICK s \in Uids : Head(toServer[c])[2] = {s}
  BY <1>2, MessageKinds
<1>4. Asked(c, "stroke", s) /\ ~Asked(c, "stroke", s)'
  BY <1>1, <1>3, TakesAsked
<1>5. s \in Given /\ s[1] = c
  BY <1>1, <1>4 DEF NumberInv
<1>6. s \notin Range(strokes) /\ s \notin lost /\ \A d \in Conns : s \notin subject[d]
  BY <1>1, <1>4 DEF FreshInv
<1>7. ASSUME NEW d \in Conns, Asked(d, "stroke", s)' PROVE FALSE
  <2>1. Asked(d, "stroke", s)
    BY <1>1, <1>7, TakesAsked
  <2>2. d = c
    BY <1>1, <1>5, <2>1 DEF NumberInv
  <2>3. QED
    BY <1>4, <1>7, <2>2
<1>8. ASSUME NEW d \in Conns, NEW o, NEW t, Asked(d, o, t), ~Asked(d, o, t)' PROVE o = "stroke" /\ t = s
  <2>1. o = "stroke" /\ Head(toServer[c])[2] = {t}
    BY <1>1, <1>8, TakesAsked
  <2>2. QED
    BY <1>3, <2>1
<1>9. "undo" # "stroke"
  OBVIOUS
<1>10. QED
  BY <1>3, <1>5, <1>6, <1>7, <1>8, <1>9

\* wb_stroke.
LEMMA RefuseStroke ==
    ASSUME BoardInv, NEW c \in Conns, refuseStroke(c)
    PROVE  BoardInv'
<1>1. BTypeOK /\ NumberInv /\ OnceInv /\ JoinInv /\ FreshInv /\ RowsInv /\ SubjectInv /\ OwnInv /\ ShownInv /\ BoardBounded
  BY DEF BoardInv
<1>2. takes(c, "stroke", "read")
  BY DEF refuseStroke
<1>3. PICK s \in Uids : /\ Head(toServer[c])[2] = {s} /\ s \in Given /\ s[1] = c
                        /\ s \notin Range(strokes) /\ s \notin lost /\ (\A d \in Conns : s \notin subject[d])
                        /\ (\A d \in Conns : ~Asked(d, "stroke", s)')
                        /\ \A d \in Conns : \A t : (Asked(d, "undo", t) => Asked(d, "undo", t)') /\ (Asked(d, "stroke", t) => Asked(d, "stroke", t)' \/ t = s)
  BY <1>2, TakenStroke
<1>4. /\ bpc[c] = "read" /\ bpc' = [bpc EXCEPT ![c] = "read"] /\ sent' = sent /\ lost' = lost \cup {s}
      /\ UNCHANGED <<strokes, subject, crossed, stale, view, painted, own>>
  BY <1>3 DEF refuseStroke, takes, step, client
<1>5. bpc' = bpc
  BY <1>1, <1>4, TypesOfBoard
<1>6. /\ toServer' \in [Conns -> Seq(Messages)]
      /\ \A d \in Conns : \A o, t : Asked(d, o, t)' => Asked(d, o, t)
  BY <1>1, <1>2, TakesAsked
<1>7. BTypeOK'
  BY <1>1, <1>4, <1>5, <1>6, TypesOfBoard DEF BTypeOK
<1>8. NumberInv'
  BY <1>1, <1>3, <1>4, <1>6, TypesOfBoard, NumberKept DEF NumberInv
<1>9. OnceInv' /\ JoinInv'
  BY <1>1, <1>2, <1>4, TakesQueue
<1>10. FreshInv'
  BY <1>1, <1>3, <1>4, <1>6 DEF FreshInv
<1>11. RowsInv'
  BY <1>1, <1>3, <1>4 DEF RowsInv
<1>12. SubjectInv'
  BY <1>1, <1>4, <1>5 DEF SubjectInv, Storing
<1>13. OwnInv'
  BY <1>1, <1>4 DEF OwnInv
<1>15. ShownInv'
  BY <1>1, <1>3, <1>4, <1>5 DEF ShownInv, Current, Shown, Storing
<1>16. BoardBounded'
  BY <1>1, <1>4, <1>5, TypesOfBoard, BoundKept
<1>17. QED
  BY <1>7, <1>8, <1>9, <1>10, <1>11, <1>12, <1>13, <1>15, <1>16 DEF BoardInv

LEMMA InsertStroke ==
    ASSUME BoardInv, NEW c \in Conns, insertStroke(c)
    PROVE  BoardInv'
<1>1. BTypeOK /\ NumberInv /\ OnceInv /\ JoinInv /\ FreshInv /\ RowsInv /\ SubjectInv /\ OwnInv /\ ShownInv /\ BoardBounded
  BY DEF BoardInv
<1>2. takes(c, "stroke", "count")
  BY DEF insertStroke
<1>3. PICK s \in Uids : /\ Head(toServer[c])[2] = {s} /\ s \in Given /\ s[1] = c
                        /\ s \notin Range(strokes) /\ s \notin lost /\ (\A d \in Conns : s \notin subject[d])
                        /\ (\A d \in Conns : ~Asked(d, "stroke", s)')
                        /\ \A d \in Conns : \A t : (Asked(d, "undo", t) => Asked(d, "undo", t)') /\ (Asked(d, "stroke", t) => Asked(d, "stroke", t)' \/ t = s)
  BY <1>2, TakenStroke
<1>4. /\ bpc[c] = "read" /\ bpc' = [bpc EXCEPT ![c] = "count"] /\ sent' = sent
      /\ subject' = [subject EXCEPT ![c] = {s}] /\ strokes' = Append(strokes, s)
      /\ crossed' = (crossed \/ \E d \in Conns : bpc[d] = "clear")
      /\ UNCHANGED <<lost, stale, view, painted, own>>
  BY <1>3 DEF insertStroke, takes, step, carries, client
<1>5. /\ strokes' \in Seq(Uids) /\ Len(strokes') = Len(strokes) + 1 /\ Len(strokes) \in Nat
      /\ \A i \in 1..Len(strokes) : strokes'[i] = strokes[i]
      /\ strokes'[Len(strokes) + 1] = s
      /\ Range(strokes)' = Range(strokes) \cup {s}
  BY <1>1, <1>4, AppendSeq, TypesOfBoard
<1>6. /\ toServer' \in [Conns -> Seq(Messages)]
      /\ \A d \in Conns : \A o, t : Asked(d, o, t)' => Asked(d, o, t)
  BY <1>1, <1>2, TakesAsked
<1>7. crossed' \in BOOLEAN
  BY <1>4
<1>8. BTypeOK'
  BY <1>1, <1>4, <1>5, <1>6, <1>7, TypesOfBoard DEF BTypeOK
<1>9. NumberInv'
  BY <1>1, <1>3, <1>4, <1>5, <1>6, TypesOfBoard, NumberKept DEF NumberInv
<1>10. OnceInv' /\ JoinInv'
  BY <1>1, <1>2, <1>4, TakesQueue
<1>11. FreshInv'
  BY <1>1, <1>3, <1>4, <1>5, <1>6, TypesOfBoard DEF FreshInv
<1>12. RowsInv'
  <2>1. ASSUME NEW i \in 1..Len(strokes) PROVE strokes[i] # s
    BY <1>1, <1>3, TypesOfBoard DEF Range
  <2>2. \A i, j \in 1..Len(strokes) : strokes[i] = strokes[j] => i = j
    BY <1>1 DEF RowsInv
  <2>3. \A i, j \in 1..Len(strokes) + 1 : strokes'[i] = strokes'[j] => i = j
    BY <1>5, <2>1, <2>2
  <2>4. (Range(strokes)' \cap lost') = {}
    BY <1>1, <1>3, <1>4, <1>5 DEF RowsInv
  <2>5. QED
    BY <1>5, <2>3, <2>4 DEF RowsInv
<1>13. \A t : Storing(t)' <=> Storing(t) \/ t = s
  BY <1>1, <1>4, TypesOfBoard DEF Storing
<1>14. crossed => crossed'
  BY <1>4
<1>15. SubjectInv'
  <2>1. ASSUME NEW d \in Conns, d # c
        PROVE  /\ bpc'[d] = bpc[d] /\ subject'[d] = subject[d] /\ s \notin subject[d]
    BY <1>1, <1>3, <1>4, <2>1, TypesOfBoard
  <2>2. bpc'[c] = "count" /\ subject'[c] = {s} /\ s \in Range(strokes)'
    BY <1>1, <1>4, <1>5, TypesOfBoard
  <2>3. \A d \in Conns : bpc[d] = "clear" => crossed'
    BY <1>4
  <2>4. ASSUME NEW d \in Conns
        PROVE  bpc'[d] \in {"count", "tellStroke"} => \E t \in Uids : subject'[d] = {t} /\ t[1] = d /\ (~crossed' => t \in Range(strokes)' \cup lost')
    BY <1>1, <1>3, <1>4, <1>5, <1>14, <2>1, <2>2 DEF SubjectInv
  <2>5. ASSUME NEW d \in Conns
        PROVE  bpc'[d] \in {"undo", "tellUndo"} => \E t \in Uids : subject'[d] = {t} /\ (~crossed' => ~Storing(t)') /\ (bpc'[d] = "tellUndo" => t \notin Range(strokes)')
    BY <1>1, <1>3, <1>4, <1>5, <1>13, <1>14, <2>1, <2>2 DEF SubjectInv
  <2>6. ASSUME NEW d \in Conns, bpc'[d] = "clear" PROVE crossed'
    BY <2>1, <2>2, <2>3, <2>6
  <2>7. QED
    BY <2>4, <2>5, <2>6 DEF SubjectInv
<1>16. OwnInv'
  BY <1>1, <1>4 DEF OwnInv
<1>18. ShownInv'
  <2>1. SUFFICES ASSUME ~crossed', NEW d \in Conns, Current(d)'
                 PROVE  /\ \A t \in Range(strokes)' :
                              \/ t \in Shown(d)'
                              \/ Storing(t)'
                              \/ Asked(d, "undo", t)'
                              \/ bpc'[d] = "undo" /\ t \in subject'[d]
                        /\ \A t \in Shown(d)' \ lost' :
                              \/ t \in Range(strokes)'
                              \/ Asked(d, "stroke", t)'
                              \/ \E e \in Conns : bpc'[e] = "tellUndo" /\ t \in subject'[e]
                              \/ \E e \in Conns : bpc'[e] = "clear"
    BY DEF ShownInv
  <2>2. ~crossed /\ Current(d) /\ Shown(d)' = Shown(d)
    BY <1>1, <1>4, <1>14, <2>1, TypesOfBoard DEF Current, Shown
  <2>3. /\ \A t \in Range(strokes) :
              \/ t \in Shown(d)
              \/ Storing(t)
              \/ Asked(d, "undo", t)
              \/ bpc[d] = "undo" /\ t \in subject[d]
        /\ \A t \in Shown(d) \ lost :
              \/ t \in Range(strokes)
              \/ Asked(d, "stroke", t)
              \/ \E e \in Conns : bpc[e] = "tellUndo" /\ t \in subject[e]
              \/ \E e \in Conns : bpc[e] = "clear"
    BY <1>1, <2>2 DEF ShownInv
  <2>4. \A e \in Conns : e # c => bpc'[e] = bpc[e] /\ subject'[e] = subject[e]
    BY <1>1, <1>4, TypesOfBoard
  <2>5. QED
    BY <1>3, <1>4, <1>5, <1>13, <2>2, <2>3, <2>4
<1>19. BoardBounded'
  <2> DEFINE A == {d \in Conns : bpc[d] = "count"}
  <2>1. {d \in Conns : bpc'[d] = "count"} = A \cup {c} /\ c \notin A
    BY <1>1, <1>4, TypesOfBoard
  <2>2. IsFiniteSet(A)
    BY HandlersAssumption, FS_Subset
  <2>3. Len(strokes) <= Cap + Cardinality(A)
    BY <1>1 DEF BoardBounded
  <2> HIDE DEF A
  <2>4. Cardinality(A \cup {c}) = Cardinality(A) + 1 /\ Cardinality(A) \in Nat
    BY <2>1, <2>2, FS_AddElement, FS_CardinalityType
  <2>5. Len(strokes') <= Cap + Cardinality(A \cup {c})
    BY <1>5, <2>3, <2>4, WhiteboardAssumption
  <2>6. QED
    BY <2>1, <2>5 DEF BoardBounded
<1>20. QED
  BY <1>8, <1>9, <1>10, <1>11, <1>12, <1>15, <1>16, <1>18, <1>19 DEF BoardInv

LEMMA TrimStrokes ==
    ASSUME BoardInv, NEW c \in Conns, trimStrokes(c)
    PROVE  BoardInv'
<1>1. BTypeOK /\ NumberInv /\ OnceInv /\ JoinInv /\ FreshInv /\ RowsInv /\ SubjectInv /\ OwnInv /\ ShownInv /\ BoardBounded
  BY DEF BoardInv
<1>2. step(c, "count", "tellStroke")
  BY DEF trimStrokes
<1>3. /\ bpc[c] = "count" /\ bpc' = [bpc EXCEPT ![c] = "tellStroke"] /\ sent' = sent
      /\ strokes' = kept /\ lost' = lost \cup (Range(strokes) \ Range(kept))
      /\ UNCHANGED <<toServer, subject, view, painted, own, stale, crossed>>
  BY DEF trimStrokes, step, client
<1> DEFINE m == IF Len(strokes) > Cap THEN Len(strokes) - Cap + 1 ELSE 1
<1>4. m \in 1..Len(strokes) + 1 /\ strokes \in Seq(Uids) /\ Len(strokes) \in Nat /\ Cap \in Nat
  BY <1>1, TypesOfBoard, WhiteboardAssumption
<1>5. kept = SubSeq(strokes, m, Len(strokes))
  BY DEF kept
<1>6. \A i, j \in 1..Len(strokes) : strokes[i] = strokes[j] => i = j
  BY <1>1 DEF RowsInv
<1> HIDE DEF m
<1>7. /\ kept \in Seq(Uids) /\ Len(kept) = Len(strokes) - m + 1
      /\ (\A i, j \in 1..Len(kept) : kept[i] = kept[j] => i = j)
      /\ Range(kept) \subseteq Range(strokes)
  BY <1>4, <1>5, <1>6, CutSeq
<1>8. Len(kept) <= Cap /\ (Len(strokes) = 0 => Len(kept) = 0)
  BY <1>4, <1>7 DEF m
<1>9. BTypeOK'
  BY <1>1, <1>3, <1>7, TypesOfBoard DEF BTypeOK
<1>10. \A d, o, s : Asked(d, o, s)' <=> Asked(d, o, s)
  BY <1>3 DEF Asked
<1>11. Range(strokes)' = Range(kept)
  BY <1>3
<1>12. NumberInv'
  BY <1>1, <1>3, <1>7, <1>10, <1>11, TypesOfBoard, NumberKept DEF NumberInv
<1>13. OnceInv' /\ JoinInv'
  BY <1>1, <1>2, <1>3, KeepQueue
<1>14. FreshInv'
  BY <1>1, <1>3, <1>7, <1>10, <1>11 DEF FreshInv
<1>15. RowsInv'
  <2>1. Range(strokes)' \cap lost' = {}
    BY <1>1, <1>3, <1>7, <1>11 DEF RowsInv
  <2>2. QED
    BY <1>3, <1>7, <2>1 DEF RowsInv
<1>16. \A s : Storing(s)' <=> Storing(s)
  BY <1>1, <1>3, TypesOfBoard DEF Storing
<1>17. SubjectInv'
  <2>1. strokes = <<>> => strokes' = <<>>
    BY <1>3, <1>4, <1>7, <1>8
  <2>2. Range(strokes) \cup lost \subseteq Range(strokes)' \cup lost'
    BY <1>3, <1>11
  <2>3. QED
    BY <1>1, <1>3, <1>7, <1>11, <1>16, <2>1, <2>2, TypesOfBoard DEF SubjectInv
<1>18. OwnInv'
  BY <1>1, <1>3 DEF OwnInv
<1>19. ShownInv'
  BY <1>1, <1>3, <1>7, <1>10, <1>11, <1>16, TypesOfBoard DEF ShownInv, Current, Shown
<1>20. BoardBounded'
  <2> DEFINE A == {d \in Conns : bpc'[d] = "count"}
  <2>1. IsFiniteSet(A)
    BY HandlersAssumption, FS_Subset
  <2> HIDE DEF A
  <2>2. Cardinality(A) \in Nat
    BY <2>1, FS_CardinalityType
  <2>3. Len(strokes') <= Cap + Cardinality(A)
    BY <1>3, <1>4, <1>7, <1>8, <2>2
  <2>4. QED
    BY <2>3 DEF BoardBounded, A
<1>21. QED
  BY <1>9, <1>12, <1>13, <1>14, <1>15, <1>17, <1>18, <1>19, <1>20 DEF BoardInv

LEMMA TellStroke ==
    ASSUME BoardInv, NEW c \in Conns, tellStroke(c)
    PROVE  BoardInv'
<1>1. BTypeOK /\ NumberInv /\ OnceInv /\ JoinInv /\ FreshInv /\ RowsInv /\ SubjectInv /\ OwnInv /\ ShownInv /\ BoardBounded
  BY DEF BoardInv
<1>2. step(c, "tellStroke", "read")
  BY DEF tellStroke
<1>3. bpc[c] = "tellStroke" /\ bpc' = [bpc EXCEPT ![c] = "read"]
  BY <1>2 DEF step
<1>4. PICK s \in Uids : subject[c] = {s} /\ s[1] = c /\ (~crossed => s \in Range(strokes) \cup lost)
  BY <1>1, <1>3 DEF SubjectInv
<1>5. /\ painted' = [d \in Conns |-> IF d \in watching /\ ~echo(d, s) THEN painted[d] \cup {s} ELSE painted[d]]
      /\ stale' = [d \in Conns |-> stale[d] \/ bpc[d] = "state"]
      /\ subject' = [subject EXCEPT ![c] = {}]
      /\ UNCHANGED <<view, own, strokes, toServer, lost, crossed, sent>>
  BY <1>4 DEF tellStroke, toldStroke, misses, carries, Nothing
<1>6. \A d, o, t : Asked(d, o, t)' <=> Asked(d, o, t)
  BY <1>5 DEF Asked
<1>7. stale' \in [Conns -> BOOLEAN]
  BY <1>5
<1>8. painted' \in [Conns -> SUBSET Uids]
  BY <1>1, <1>5, TypesOfBoard
<1>9. BTypeOK'
  BY <1>1, <1>3, <1>5, <1>7, <1>8, TypesOfBoard DEF BTypeOK
<1>10. NumberInv'
  BY <1>1, <1>5, <1>6, TypesOfBoard, NumberKept DEF NumberInv
<1>11. OnceInv' /\ JoinInv'
  BY <1>1, <1>2, <1>5, KeepQueue
<1>12. FreshInv'
  BY <1>1, <1>5, <1>6, TypesOfBoard DEF FreshInv
<1>13. RowsInv'
  BY <1>1, <1>5 DEF RowsInv
<1>14. \A t : (Storing(t)' => Storing(t)) /\ (Storing(t) => Storing(t)' \/ t = s)
  BY <1>1, <1>3, <1>4, <1>5, TypesOfBoard DEF Storing
<1>15. SubjectInv'
  BY <1>1, <1>3, <1>5, <1>14, TypesOfBoard DEF SubjectInv
<1>16. OwnInv'
  BY <1>1, <1>5, TypesOfBoard DEF OwnInv
<1>17. ShownInv'
  <2>1. SUFFICES ASSUME ~crossed, NEW d \in Conns, Current(d)'
                 PROVE  /\ \A t \in Range(strokes) :
                              \/ t \in Shown(d)'
                              \/ Storing(t)'
                              \/ Asked(d, "undo", t)
                              \/ bpc'[d] = "undo" /\ t \in subject'[d]
                        /\ \A t \in Shown(d)' \ lost :
                              \/ t \in Range(strokes)
                              \/ Asked(d, "stroke", t)
                              \/ \E e \in Conns : bpc'[e] = "tellUndo" /\ t \in subject'[e]
                              \/ \E e \in Conns : bpc'[e] = "clear"
    BY <1>5, <1>6 DEF ShownInv
  <2>2. ~stale[d] /\ bpc[d] # "state"
    BY <1>5, <2>1 DEF Current
  <2>3. bpc'[d] # "state" /\ view[d] = "ready"
    BY <1>1, <1>3, <1>5, <2>1, <2>2, TypesOfBoard DEF Current
  <2>4. Current(d) /\ Shown(d) = painted[d] /\ Shown(d)' = painted'[d]
    BY <2>2, <2>3 DEF Current, Shown
  <2>5. painted'[d] = painted[d] \cup {s}
    BY <1>1, <1>5, <2>3 DEF echo, watching, OwnInv
  <2>6. /\ \A t \in Range(strokes) :
              \/ t \in painted[d]
              \/ Storing(t)
              \/ Asked(d, "undo", t)
              \/ bpc[d] = "undo" /\ t \in subject[d]
        /\ \A t \in painted[d] \ lost :
              \/ t \in Range(strokes)
              \/ Asked(d, "stroke", t)
              \/ \E e \in Conns : bpc[e] = "tellUndo" /\ t \in subject[e]
              \/ \E e \in Conns : bpc[e] = "clear"
    BY <1>1, <2>1, <2>4 DEF ShownInv
  <2>7. \A e \in Conns : e # c => bpc'[e] = bpc[e] /\ subject'[e] = subject[e]
    BY <1>1, <1>3, <1>5, TypesOfBoard
  <2>8. QED
    BY <1>3, <1>4, <1>14, <2>1, <2>4, <2>5, <2>6, <2>7
<1>18. BoardBounded'
  BY <1>1, <1>3, <1>5, TypesOfBoard, BoundKept
<1>19. QED
  BY <1>9, <1>10, <1>11, <1>12, <1>13, <1>15, <1>16, <1>17, <1>18 DEF BoardInv

\* wb_undo.
LEMMA SelectStroke ==
    ASSUME BoardInv, NEW c \in Conns, selectStroke(c)
    PROVE  BoardInv'
<1>1. BTypeOK /\ NumberInv /\ OnceInv /\ JoinInv /\ FreshInv /\ RowsInv /\ SubjectInv /\ OwnInv /\ ShownInv /\ BoardBounded
  BY DEF BoardInv
<1> DEFINE to == IF target(c) = {} THEN "read" ELSE "undo"
<1>2. takes(c, "undo", to)
  BY DEF selectStroke
<1>3. /\ bpc[c] = "read" /\ bpc' = [bpc EXCEPT ![c] = to] /\ sent' = sent
      /\ subject' = [subject EXCEPT ![c] = target(c)]
      /\ UNCHANGED <<strokes, lost, crossed, stale, view, painted, own>>
  BY DEF selectStroke, takes, step, carries, client
<1>4. Head(toServer[c]) \in Messages /\ Head(toServer[c])[1] = "undo"
  BY <1>1, <1>2, TakesAsked
<1>5. PICK s \in Uids : Head(toServer[c])[2] = {s}
  BY <1>4, MessageKinds
<1>6. Asked(c, "undo", s)
  BY <1>1, <1>2, <1>5, TakesAsked
<1>7. s[1] = c /\ s \in Given
  BY <1>1, <1>6 DEF NumberInv
<1>8. target(c) = IF s \in Range(strokes) THEN {s} ELSE {}
  BY <1>5, <1>7 DEF target, author
<1>9. to = IF s \in Range(strokes) THEN "undo" ELSE "read"
  BY <1>8
<1> HIDE DEF to
<1>10. /\ toServer' \in [Conns -> Seq(Messages)]
       /\ \A d \in Conns : \A o, t : Asked(d, o, t)' => Asked(d, o, t)
  BY <1>1, <1>2, TakesAsked
<1>11. \A d \in Conns : \A t :
         /\ Asked(d, "stroke", t) => Asked(d, "stroke", t)'
         /\ Asked(d, "undo", t) => Asked(d, "undo", t)' \/ (d = c /\ t = s)
  <2>1. ASSUME NEW d \in Conns, NEW o, NEW t, Asked(d, o, t), ~Asked(d, o, t)' PROVE o = "undo" /\ d = c /\ t = s
    <3>1. d = c /\ o = "undo" /\ Head(toServer[c])[2] = {t}
      BY <1>1, <1>2, <2>1, TakesAsked
    <3>2. QED
      BY <1>5, <3>1
  <2>2. "undo" # "stroke"
    OBVIOUS
  <2>3. QED
    BY <2>1, <2>2
<1>12. BTypeOK'
  BY <1>1, <1>3, <1>8, <1>9, <1>10, TypesOfBoard DEF BTypeOK
<1>13. NumberInv'
  BY <1>1, <1>3, <1>7, <1>8, <1>10, TypesOfBoard, NumberKept DEF NumberInv
<1>14. OnceInv' /\ JoinInv'
  BY <1>1, <1>2, <1>3, <1>9, TakesQueue
<1>15. FreshInv'
  BY <1>1, <1>3, <1>8, <1>10, TypesOfBoard DEF FreshInv
<1>16. RowsInv'
  BY <1>1, <1>3 DEF RowsInv
<1>17. \A t : Storing(t)' <=> Storing(t)
  BY <1>1, <1>3, <1>9, TypesOfBoard DEF Storing
<1>18. ~Storing(s)
  <2>1. SUFFICES ASSUME NEW e \in Conns, bpc[e] \in {"count", "tellStroke"}, s \in subject[e] PROVE FALSE
    BY DEF Storing
  <2>2. PICK t \in Uids : subject[e] = {t} /\ t[1] = e
    BY <1>1, <2>1 DEF SubjectInv
  <2>3. e = c
    BY <1>7, <2>1, <2>2
  <2>4. QED
    BY <1>3, <2>1, <2>3
<1>19. SubjectInv'
  <2>1. ASSUME NEW d \in Conns, d # c PROVE bpc'[d] = bpc[d] /\ subject'[d] = subject[d]
    BY <1>1, <1>3, <2>1, TypesOfBoard
  <2>2. bpc'[c] = to /\ subject'[c] = target(c)
    BY <1>1, <1>3, TypesOfBoard
  <2>3. ASSUME NEW d \in Conns, d # c
        PROVE  /\ bpc'[d] \in {"count", "tellStroke"} => \E t \in Uids : subject'[d] = {t} /\ t[1] = d /\ (~crossed => t \in Range(strokes) \cup lost)
               /\ bpc'[d] \in {"undo", "tellUndo"} => \E t \in Uids : subject'[d] = {t} /\ (~crossed => ~Storing(t)') /\ (bpc'[d] = "tellUndo" => t \notin Range(strokes))
               /\ bpc'[d] = "clear" /\ ~crossed => strokes = <<>>
    BY <1>1, <1>17, <2>1, <2>3 DEF SubjectInv
  <2>4. /\ bpc'[c] \notin {"count", "tellStroke", "tellUndo", "clear"}
        /\ bpc'[c] = "undo" => subject'[c] = {s} /\ ~Storing(s)'
    BY <1>8, <1>9, <1>17, <1>18, <2>2
  <2>5. QED
    BY <1>3, <2>3, <2>4 DEF SubjectInv
<1>20. OwnInv'
  BY <1>1, <1>3 DEF OwnInv
<1>21. ShownInv'
  <2>1. SUFFICES ASSUME ~crossed, NEW d \in Conns, Current(d)'
                 PROVE  /\ \A t \in Range(strokes) :
                              \/ t \in Shown(d)'
                              \/ Storing(t)
                              \/ Asked(d, "undo", t)'
                              \/ bpc'[d] = "undo" /\ t \in subject'[d]
                        /\ \A t \in Shown(d)' \ lost :
                              \/ t \in Range(strokes)
                              \/ Asked(d, "stroke", t)'
                              \/ \E e \in Conns : bpc'[e] = "tellUndo" /\ t \in subject'[e]
                              \/ \E e \in Conns : bpc'[e] = "clear"
    BY <1>3, <1>17 DEF ShownInv
  <2>2. \A e \in Conns : e # c => bpc'[e] = bpc[e] /\ subject'[e] = subject[e]
    BY <1>1, <1>3, TypesOfBoard
  <2>3. bpc'[c] = to /\ subject'[c] = target(c) /\ to # "state"
    BY <1>1, <1>3, <1>9, TypesOfBoard
  <2>4. Current(d) /\ Shown(d)' = Shown(d)
    BY <1>3, <2>1, <2>2, <2>3 DEF Current, Shown
  <2>5. /\ \A t \in Range(strokes) :
              \/ t \in Shown(d)
              \/ Storing(t)
              \/ Asked(d, "undo", t)
              \/ bpc[d] = "undo" /\ t \in subject[d]
        /\ \A t \in Shown(d) \ lost :
              \/ t \in Range(strokes)
              \/ Asked(d, "stroke", t)
              \/ \E e \in Conns : bpc[e] = "tellUndo" /\ t \in subject[e]
              \/ \E e \in Conns : bpc[e] = "clear"
    BY <1>1, <2>1, <2>4 DEF ShownInv
  <2>6. ASSUME NEW t \in Range(strokes)
        PROVE  \/ t \in Shown(d)
               \/ Storing(t)
               \/ Asked(d, "undo", t)'
               \/ bpc'[d] = "undo" /\ t \in subject'[d]
    <3>1. CASE d = c /\ t = s
      BY <1>8, <1>9, <2>3, <3>1
    <3>2. CASE d # c
      BY <1>11, <2>2, <2>5, <3>2
    <3>3. CASE d = c /\ t # s
      BY <1>3, <1>11, <2>5, <3>3
    <3>4. QED
      BY <3>1, <3>2, <3>3
  <2>7. ASSUME NEW t \in Shown(d) \ lost
        PROVE  \/ t \in Range(strokes)
               \/ Asked(d, "stroke", t)'
               \/ \E e \in Conns : bpc'[e] = "tellUndo" /\ t \in subject'[e]
               \/ \E e \in Conns : bpc'[e] = "clear"
    BY <1>3, <1>11, <2>2, <2>5
  <2>8. QED
    BY <2>4, <2>6, <2>7
<1>22. BoardBounded'
  BY <1>1, <1>3, <1>9, TypesOfBoard, BoundKept
<1>23. QED
  BY <1>12, <1>13, <1>14, <1>15, <1>16, <1>19, <1>20, <1>21, <1>22 DEF BoardInv

\* Messages that name no stroke.
LEMMA TakenPlain ==
    ASSUME BTypeOK, NEW c \in Conns, NEW op \in {"join", "undoLast", "clear"}, NEW to, takes(c, op, to)
    PROVE  /\ toServer' \in [Conns -> Seq(Messages)]
           /\ \A d \in Conns : \A o, t : Asked(d, o, t)' <=> Asked(d, o, t)
<1>1. Head(toServer[c]) \in Messages /\ Head(toServer[c])[1] = op
  BY TakesAsked
<1>2. Head(toServer[c])[2] = {}
  BY <1>1, MessageKinds
<1>3. ASSUME NEW d \in Conns, NEW o, NEW t, Asked(d, o, t), ~Asked(d, o, t)' PROVE FALSE
  <2>1. Head(toServer[c])[2] = {t}
    BY <1>3, TakesAsked
  <2>2. QED
    BY <1>2, <2>1
<1>4. QED
  BY <1>3, TakesAsked

\* undoLastStroke finds one stroke or none.
LEMMA LastOne ==
    ASSUME BTypeOK, NEW c \in Conns
    PROVE  lastOf(c) = {} \/ \E s \in Uids : s \in Range(strokes) /\ lastOf(c) = {s}
<1> DEFINE mine == {i \in 1..Len(strokes) : author(strokes[i]) = Owner[c]}
<1> DEFINE top == {j \in mine : \A k \in mine : k <= j}
<1>1. lastOf(c) = {strokes[i] : i \in top}
  BY DEF lastOf
<1>2. strokes \in Seq(Uids) /\ Len(strokes) \in Nat /\ mine \subseteq 1..Len(strokes)
  BY DEF BTypeOK
<1>3. ASSUME NEW i \in top PROVE lastOf(c) = {strokes[i]} /\ strokes[i] \in Uids /\ strokes[i] \in Range(strokes)
  <2>1. \A j \in top : j = i
    <3> HIDE DEF mine
    <3>1. QED
      BY <1>2
  <2>2. i \in 1..Len(strokes)
    BY <1>2
  <2>3. strokes[i] \in Uids /\ strokes[i] \in Range(strokes)
    BY <1>2, <2>2 DEF Range
  <2> HIDE DEF top
  <2>4. QED
    BY <1>1, <2>1, <2>3
<1>4. CASE top = {}
  <2> HIDE DEF top
  <2>1. QED
    BY <1>1, <1>4
<1>5. CASE top # {}
  <2> HIDE DEF top
  <2>1. QED
    BY <1>3, <1>5
<1>6. QED
  BY <1>4, <1>5

LEMMA UndoLast ==
    ASSUME BoardInv, NEW c \in Conns, undoLastStroke(c)
    PROVE  BoardInv'
<1>1. BTypeOK /\ NumberInv /\ OnceInv /\ JoinInv /\ FreshInv /\ RowsInv /\ SubjectInv /\ OwnInv /\ ShownInv /\ BoardBounded
  BY DEF BoardInv
<1> DEFINE to == IF lastOf(c) = {} THEN "read" ELSE "undo"
<1>2. takes(c, "undoLast", to)
  BY DEF undoLastStroke
<1>3. /\ bpc[c] = "read" /\ bpc' = [bpc EXCEPT ![c] = to] /\ sent' = sent
      /\ subject' = [subject EXCEPT ![c] = lastOf(c)]
      /\ crossed' = (crossed \/ \E d \in storing : lastOf(c) \cap subject[d] # {})
      /\ UNCHANGED <<strokes, lost, stale, view, painted, own>>
  BY DEF undoLastStroke, takes, step, carries, client
<1>4. lastOf(c) = {} \/ \E s \in Uids : s \in Range(strokes) /\ lastOf(c) = {s}
  BY <1>1, LastOne
<1>5. lastOf(c) \subseteq Range(strokes) /\ to \in {"read", "undo"} /\ (to = "undo" <=> lastOf(c) # {})
  BY <1>4
<1> HIDE DEF to
<1>6. crossed' \in BOOLEAN /\ (crossed => crossed')
  BY <1>3
<1>7. /\ toServer' \in [Conns -> Seq(Messages)]
      /\ \A d \in Conns : \A o, t : Asked(d, o, t)' <=> Asked(d, o, t)
  BY <1>1, <1>2, TakenPlain
<1>8. BTypeOK'
  BY <1>1, <1>3, <1>5, <1>6, <1>7, TypesOfBoard DEF BTypeOK
<1>9. NumberInv'
  BY <1>1, <1>3, <1>5, <1>7, TypesOfBoard, NumberKept DEF NumberInv
<1>10. OnceInv' /\ JoinInv'
  BY <1>1, <1>2, <1>3, <1>5, TakesQueue
<1>11. FreshInv'
  BY <1>1, <1>3, <1>5, <1>7, TypesOfBoard DEF FreshInv
<1>12. RowsInv'
  BY <1>1, <1>3 DEF RowsInv
<1>13. \A t : Storing(t)' <=> Storing(t)
  BY <1>1, <1>3, <1>5, TypesOfBoard DEF Storing
<1>14. \A t \in lastOf(c) : Storing(t) => crossed'
  BY <1>3 DEF Storing, storing
<1>15. SubjectInv'
  <2>1. ASSUME NEW d \in Conns, d # c PROVE bpc'[d] = bpc[d] /\ subject'[d] = subject[d]
    BY <1>1, <1>3, <2>1, TypesOfBoard
  <2>2. bpc'[c] = to /\ subject'[c] = lastOf(c)
    BY <1>1, <1>3, TypesOfBoard
  <2>3. ASSUME NEW d \in Conns, d # c
        PROVE  /\ bpc'[d] \in {"count", "tellStroke"} => \E t \in Uids : subject'[d] = {t} /\ t[1] = d /\ (~crossed' => t \in Range(strokes) \cup lost)
               /\ bpc'[d] \in {"undo", "tellUndo"} => \E t \in Uids : subject'[d] = {t} /\ (~crossed' => ~Storing(t)') /\ (bpc'[d] = "tellUndo" => t \notin Range(strokes))
               /\ bpc'[d] = "clear" /\ ~crossed' => strokes = <<>>
    BY <1>1, <1>6, <1>13, <2>1, <2>3 DEF SubjectInv
  <2>4. /\ bpc'[c] \notin {"count", "tellStroke", "tellUndo", "clear"}
        /\ bpc'[c] = "undo" => \E t \in Uids : subject'[c] = {t} /\ (~crossed' => ~Storing(t)')
    BY <1>4, <1>5, <1>13, <1>14, <2>2
  <2>5. QED
    BY <1>3, <2>3, <2>4 DEF SubjectInv
<1>16. OwnInv'
  BY <1>1, <1>3 DEF OwnInv
<1>17. ShownInv'
  BY <1>1, <1>3, <1>5, <1>6, <1>7, <1>13, TypesOfBoard DEF ShownInv, Current, Shown
<1>18. BoardBounded'
  BY <1>1, <1>3, <1>5, TypesOfBoard, BoundKept
<1>19. QED
  BY <1>8, <1>9, <1>10, <1>11, <1>12, <1>15, <1>16, <1>17, <1>18 DEF BoardInv

LEMMA DeleteStroke ==
    ASSUME BoardInv, NEW c \in Conns, deleteStroke(c)
    PROVE  BoardInv'
<1>1. BTypeOK /\ NumberInv /\ OnceInv /\ JoinInv /\ FreshInv /\ RowsInv /\ SubjectInv /\ OwnInv /\ ShownInv /\ BoardBounded
  BY DEF BoardInv
<1>2. step(c, "undo", "tellUndo")
  BY DEF deleteStroke
<1>3. bpc[c] = "undo" /\ bpc' = [bpc EXCEPT ![c] = "tellUndo"]
  BY <1>2 DEF step
<1>4. PICK s \in Uids : subject[c] = {s} /\ (~crossed => ~Storing(s))
  BY <1>1, <1>3 DEF SubjectInv
<1> DEFINE at == CHOOSE i \in 1..Len(strokes) : strokes[i] = s
<1>5. /\ strokes' = IF s \in Range(strokes) THEN RemoveAt(strokes, at) ELSE strokes
      /\ UNCHANGED <<toServer, subject, view, painted, own, lost, stale, crossed, sent>>
  BY <1>4 DEF deleteStroke, client
<1>6. strokes \in Seq(Uids) /\ \A i, j \in 1..Len(strokes) : strokes[i] = strokes[j] => i = j
  BY <1>1, TypesOfBoard DEF RowsInv
<1>7. /\ strokes' \in Seq(Uids) /\ Len(strokes') <= Len(strokes) 
      /\ (\A i, j \in 1..Len(strokes') : strokes'[i] = strokes'[j] => i = j)
      /\ Range(strokes)' = Range(strokes) \ {s}
  <2>1. CASE s \notin Range(strokes)
    BY <1>5, <1>6, <2>1
  <2>2. CASE s \in Range(strokes)
    <3>1. \E i \in 1..Len(strokes) : strokes[i] = s
      BY <1>6, <2>2 DEF Range
    <3>2. at \in 1..Len(strokes) /\ strokes[at] = s
      BY <3>1
    <3> HIDE DEF at
    <3>3. strokes' = RemoveAt(strokes, at)
      BY <1>5, <2>2
    <3>4. /\ RemoveAt(strokes, at) \in Seq(Uids) /\ Len(RemoveAt(strokes, at)) = Len(strokes) - 1
          /\ (\A i, j \in 1..Len(RemoveAt(strokes, at)) : RemoveAt(strokes, at)[i] = RemoveAt(strokes, at)[j] => i = j)
          /\ Range(RemoveAt(strokes, at)) = Range(strokes) \ {strokes[at]}
      BY <1>6, <3>2, RemoveSeq
    <3>5. QED
      BY <1>6, <3>2, <3>3, <3>4
  <2>3. QED
    BY <2>1, <2>2
<1> HIDE DEF at
<1>8. \A d, o, t : Asked(d, o, t)' <=> Asked(d, o, t)
  BY <1>5 DEF Asked
<1>9. BTypeOK'
  BY <1>1, <1>3, <1>5, <1>7, TypesOfBoard DEF BTypeOK
<1>10. NumberInv'
  BY <1>1, <1>5, <1>7, <1>8, NumberKept DEF NumberInv
<1>11. OnceInv' /\ JoinInv'
  BY <1>1, <1>2, <1>5, KeepQueue
<1>12. FreshInv'
  BY <1>1, <1>5, <1>7, <1>8 DEF FreshInv
<1>13. RowsInv'
  <2>1. Range(strokes)' \cap lost' = {}
    BY <1>1, <1>5, <1>7 DEF RowsInv
  <2>2. QED
    BY <1>7, <2>1 DEF RowsInv
<1>14. \A t : Storing(t)' <=> Storing(t)
  BY <1>1, <1>3, <1>5, TypesOfBoard DEF Storing
<1>15. SubjectInv'
  <2>1. ASSUME NEW d \in Conns, d # c PROVE bpc'[d] = bpc[d] /\ subject'[d] = subject[d]
    BY <1>1, <1>3, <1>5, <2>1, TypesOfBoard
  <2>2. bpc'[c] = "tellUndo" /\ subject'[c] = {s}
    BY <1>1, <1>3, <1>4, <1>5, TypesOfBoard
  <2>3. strokes = <<>> => strokes' = <<>>
    <3>1. ASSUME strokes = <<>> PROVE s \notin Range(strokes)
      BY <3>1 DEF Range
    <3>2. QED
      BY <1>5, <3>1
  <2>4. ASSUME NEW d \in Conns, bpc[d] \in {"count", "tellStroke"}, ~crossed PROVE s \notin subject[d]
    BY <1>4, <2>4 DEF Storing
  <2>5. ASSUME NEW d \in Conns, d # c
        PROVE  /\ bpc'[d] \in {"count", "tellStroke"} => \E t \in Uids : subject'[d] = {t} /\ t[1] = d /\ (~crossed => t \in Range(strokes)' \cup lost)
               /\ bpc'[d] \in {"undo", "tellUndo"} => \E t \in Uids : subject'[d] = {t} /\ (~crossed => ~Storing(t)') /\ (bpc'[d] = "tellUndo" => t \notin Range(strokes)')
               /\ bpc'[d] = "clear" /\ ~crossed => strokes' = <<>>
    BY <1>1, <1>7, <1>14, <2>1, <2>3, <2>4, <2>5 DEF SubjectInv
  <2>6. /\ bpc'[c] \notin {"count", "tellStroke", "clear"}
        /\ \E t \in Uids : subject'[c] = {t} /\ (~crossed => ~Storing(t)') /\ t \notin Range(strokes)'
    BY <1>4, <1>7, <1>14, <2>2
  <2>7. QED
    BY <1>5, <2>5, <2>6 DEF SubjectInv
<1>16. OwnInv'
  BY <1>1, <1>5 DEF OwnInv
<1>17. ShownInv'
  BY <1>1, <1>3, <1>4, <1>5, <1>7, <1>8, <1>14, TypesOfBoard DEF ShownInv, Current, Shown
<1>18. BoardBounded'
  BY <1>1, <1>3, <1>7, TypesOfBoard, BoundKept
<1>19. QED
  BY <1>9, <1>10, <1>11, <1>12, <1>13, <1>15, <1>16, <1>17, <1>18 DEF BoardInv

LEMMA TellUndo ==
    ASSUME BoardInv, NEW c \in Conns, tellUndo(c)
    PROVE  BoardInv'
<1>1. BTypeOK /\ NumberInv /\ OnceInv /\ JoinInv /\ FreshInv /\ RowsInv /\ SubjectInv /\ OwnInv /\ ShownInv /\ BoardBounded
  BY DEF BoardInv
<1>2. step(c, "tellUndo", "read")
  BY DEF tellUndo
<1>3. bpc[c] = "tellUndo" /\ bpc' = [bpc EXCEPT ![c] = "read"]
  BY <1>2 DEF step
<1>4. PICK s \in Uids : subject[c] = {s} /\ s \notin Range(strokes)
  BY <1>1, <1>3 DEF SubjectInv
<1>5. /\ painted' = [d \in Conns |-> IF d \in watching THEN painted[d] \ {s} ELSE painted[d]]
      /\ own' = [d \in Conns |-> IF d \in watching THEN own[d] \ {s} ELSE own[d]]
      /\ stale' = [d \in Conns |-> stale[d] \/ bpc[d] = "state"]
      /\ subject' = [subject EXCEPT ![c] = {}]
      /\ UNCHANGED <<view, strokes, toServer, lost, crossed, sent>>
  BY <1>4 DEF tellUndo, toldUndo, misses, carries, Nothing
<1>6. \A d, o, t : Asked(d, o, t)' <=> Asked(d, o, t)
  BY <1>5 DEF Asked
<1>7. stale' \in [Conns -> BOOLEAN]
  BY <1>5
<1>8. painted' \in [Conns -> SUBSET Uids] /\ own' \in [Conns -> SUBSET Uids] /\ \A d \in Conns : own'[d] \subseteq own[d]
  BY <1>1, <1>5, TypesOfBoard
<1>9. BTypeOK'
  BY <1>1, <1>3, <1>5, <1>7, <1>8, TypesOfBoard DEF BTypeOK
<1>10. NumberInv'
  BY <1>1, <1>5, <1>6, <1>8, TypesOfBoard, NumberKept DEF NumberInv
<1>11. OnceInv' /\ JoinInv'
  BY <1>1, <1>2, <1>5, KeepQueue
<1>12. FreshInv'
  BY <1>1, <1>5, <1>6, TypesOfBoard DEF FreshInv
<1>13. RowsInv'
  BY <1>1, <1>5 DEF RowsInv
<1>14. \A t : Storing(t)' <=> Storing(t)
  BY <1>1, <1>3, <1>5, TypesOfBoard DEF Storing
<1>15. SubjectInv'
  BY <1>1, <1>3, <1>5, <1>14, TypesOfBoard DEF SubjectInv
<1>16. OwnInv'
  BY <1>1, <1>5, TypesOfBoard DEF OwnInv
<1>17. ShownInv'
  <2>1. SUFFICES ASSUME ~crossed, NEW d \in Conns, Current(d)'
                 PROVE  /\ \A t \in Range(strokes) :
                              \/ t \in Shown(d)'
                              \/ Storing(t)'
                              \/ Asked(d, "undo", t)
                              \/ bpc'[d] = "undo" /\ t \in subject'[d]
                        /\ \A t \in Shown(d)' \ lost :
                              \/ t \in Range(strokes)
                              \/ Asked(d, "stroke", t)
                              \/ \E e \in Conns : bpc'[e] = "tellUndo" /\ t \in subject'[e]
                              \/ \E e \in Conns : bpc'[e] = "clear"
    BY <1>5, <1>6 DEF ShownInv
  <2>2. ~stale[d] /\ bpc[d] # "state"
    BY <1>5, <2>1 DEF Current
  <2>3. bpc'[d] # "state" /\ view[d] = "ready"
    BY <1>1, <1>3, <1>5, <2>1, <2>2, TypesOfBoard DEF Current
  <2>4. Current(d) /\ Shown(d) = painted[d] /\ Shown(d)' = painted'[d]
    BY <2>2, <2>3 DEF Current, Shown
  <2>5. painted'[d] = painted[d] \ {s}
    BY <1>5, <2>3 DEF watching
  <2>6. /\ \A t \in Range(strokes) :
              \/ t \in painted[d]
              \/ Storing(t)
              \/ Asked(d, "undo", t)
              \/ bpc[d] = "undo" /\ t \in subject[d]
        /\ \A t \in painted[d] \ lost :
              \/ t \in Range(strokes)
              \/ Asked(d, "stroke", t)
              \/ \E e \in Conns : bpc[e] = "tellUndo" /\ t \in subject[e]
              \/ \E e \in Conns : bpc[e] = "clear"
    BY <1>1, <2>1, <2>4 DEF ShownInv
  <2>7. \A e \in Conns : e # c => bpc'[e] = bpc[e] /\ subject'[e] = subject[e]
    BY <1>1, <1>3, <1>5, TypesOfBoard
  <2>8. QED
    BY <1>3, <1>4, <1>14, <2>1, <2>4, <2>5, <2>6, <2>7
<1>18. BoardBounded'
  BY <1>1, <1>3, <1>5, TypesOfBoard, BoundKept
<1>19. QED
  BY <1>9, <1>10, <1>11, <1>12, <1>13, <1>15, <1>16, <1>17, <1>18 DEF BoardInv

\* wb_clear.
LEMMA ClearRefused ==
    ASSUME BoardInv, NEW c \in Conns, clearRefused(c)
    PROVE  BoardInv'
<1>1. BTypeOK /\ NumberInv /\ OnceInv /\ JoinInv /\ FreshInv /\ RowsInv /\ SubjectInv /\ OwnInv /\ ShownInv /\ BoardBounded
  BY DEF BoardInv
<1>2. takes(c, "clear", "read")
  BY DEF clearRefused
<1>3. bpc[c] = "read" /\ bpc' = [bpc EXCEPT ![c] = "read"] /\ sent' = sent
      /\ UNCHANGED <<strokes, subject, lost, crossed, stale, view, painted, own>>
  BY DEF clearRefused, takes, step, client
<1>4. bpc' = bpc
  BY <1>1, <1>3, TypesOfBoard
<1>5. /\ toServer' \in [Conns -> Seq(Messages)]
      /\ \A d \in Conns : \A o, t : Asked(d, o, t)' <=> Asked(d, o, t)
  BY <1>1, <1>2, TakenPlain
<1>6. BTypeOK'
  BY <1>1, <1>3, <1>4, <1>5 DEF BTypeOK
<1>7. NumberInv'
  BY <1>1, <1>3, <1>5, NumberKept DEF NumberInv
<1>8. OnceInv' /\ JoinInv'
  BY <1>1, <1>2, <1>3, TakesQueue
<1>9. FreshInv' /\ OwnInv'
  BY <1>1, <1>3, <1>5 DEF FreshInv, OwnInv
<1>10. ShownInv'
  <2>1. \A t : Storing(t)' <=> Storing(t)
    BY <1>3, <1>4 DEF Storing
  <2>2. QED
    BY <1>1, <1>3, <1>4, <1>5, <2>1 DEF ShownInv, Current, Shown
<1>11. QED
  BY <1>3, <1>4, <1>6, <1>7, <1>8, <1>9, <1>10, TalkFrame DEF BoardInv

LEMMA ClearBoard ==
    ASSUME BoardInv, NEW c \in Conns, clearWhiteboard(c)
    PROVE  BoardInv'
<1>1. BTypeOK /\ NumberInv /\ OnceInv /\ JoinInv /\ FreshInv /\ RowsInv /\ SubjectInv /\ OwnInv /\ ShownInv /\ BoardBounded
  BY DEF BoardInv
<1>2. takes(c, "clear", "clear")
  BY DEF clearWhiteboard
<1>3. /\ bpc[c] = "read" /\ bpc' = [bpc EXCEPT ![c] = "clear"] /\ sent' = sent
      /\ strokes' = <<>> /\ crossed' = (crossed \/ storing # {})
      /\ UNCHANGED <<subject, lost, stale, view, painted, own>>
  BY DEF clearWhiteboard, takes, step, client
<1>4. /\ toServer' \in [Conns -> Seq(Messages)]
      /\ \A d \in Conns : \A o, t : Asked(d, o, t)' <=> Asked(d, o, t)
  BY <1>1, <1>2, TakenPlain
<1>5. strokes' \in Seq(Uids) /\ Len(strokes') = 0 /\ Range(strokes)' = {}
  BY <1>3 DEF Range
<1>6. crossed' \in BOOLEAN /\ (crossed => crossed')
  BY <1>3
<1>7. BTypeOK'
  BY <1>1, <1>3, <1>4, <1>5, <1>6, TypesOfBoard DEF BTypeOK
<1>8. NumberInv'
  BY <1>1, <1>3, <1>4, <1>5, NumberKept DEF NumberInv
<1>9. OnceInv' /\ JoinInv'
  BY <1>1, <1>2, <1>3, TakesQueue
<1>10. FreshInv' /\ OwnInv'
  BY <1>1, <1>3, <1>4, <1>5 DEF FreshInv, OwnInv
<1>11. RowsInv'
  BY <1>5 DEF RowsInv
<1>12. \A t : Storing(t)' <=> Storing(t)
  BY <1>1, <1>3, TypesOfBoard DEF Storing
<1>13. \A d \in Conns : bpc[d] \in {"count", "tellStroke"} => crossed'
  BY <1>3 DEF storing
<1>14. SubjectInv'
  BY <1>1, <1>3, <1>5, <1>6, <1>12, <1>13, TypesOfBoard DEF SubjectInv
<1>15. ShownInv'
  <2>1. bpc'[c] = "clear"
    BY <1>1, <1>3, TypesOfBoard
  <2>2. QED
    BY <1>5, <2>1 DEF ShownInv
<1>16. BoardBounded'
  <2>1. strokes \in Seq(Uids) /\ Len(strokes) \in Nat
    BY <1>1, TypesOfBoard
  <2>2. QED
    BY <1>1, <1>3, <1>5, <2>1, TypesOfBoard, BoundKept
<1>17. QED
  BY <1>7, <1>8, <1>9, <1>10, <1>11, <1>14, <1>15, <1>16 DEF BoardInv

LEMMA TellClear ==
    ASSUME BoardInv, NEW c \in Conns, tellClear(c)
    PROVE  BoardInv'
<1>1. BTypeOK /\ NumberInv /\ OnceInv /\ JoinInv /\ FreshInv /\ RowsInv /\ SubjectInv /\ OwnInv /\ ShownInv /\ BoardBounded
  BY DEF BoardInv
<1>2. step(c, "clear", "read")
  BY DEF tellClear
<1>3. /\ bpc[c] = "clear" /\ bpc' = [bpc EXCEPT ![c] = "read"]
      /\ painted' = [d \in Conns |-> IF d \in watching THEN {} ELSE painted[d]]
      /\ own' = [d \in Conns |-> IF d \in watching THEN {} ELSE own[d]]
      /\ stale' = [d \in Conns |-> stale[d] \/ bpc[d] = "state"]
      /\ UNCHANGED <<view, strokes, toServer, subject, lost, crossed, sent>>
  BY <1>2 DEF tellClear, toldClear, misses, step
<1>4. \A d, o, t : Asked(d, o, t)' <=> Asked(d, o, t)
  BY <1>3 DEF Asked
<1>5. stale' \in [Conns -> BOOLEAN]
  BY <1>3
<1>6. painted' \in [Conns -> SUBSET Uids] /\ own' \in [Conns -> SUBSET Uids] /\ \A d \in Conns : own'[d] \subseteq own[d]
  BY <1>1, <1>3, TypesOfBoard
<1>7. BTypeOK'
  BY <1>1, <1>3, <1>5, <1>6, TypesOfBoard DEF BTypeOK
<1>8. NumberInv'
  BY <1>1, <1>3, <1>4, <1>6, NumberKept DEF NumberInv
<1>9. OnceInv' /\ JoinInv'
  BY <1>1, <1>2, <1>3, KeepQueue
<1>10. FreshInv' /\ RowsInv'
  BY <1>1, <1>3, <1>4 DEF FreshInv, RowsInv
<1>11. \A t : Storing(t)' <=> Storing(t)
  BY <1>1, <1>3, TypesOfBoard DEF Storing
<1>12. SubjectInv'
  BY <1>1, <1>3, <1>11, TypesOfBoard DEF SubjectInv
<1>13. OwnInv'
  BY <1>1, <1>3, TypesOfBoard DEF OwnInv
<1>14. ShownInv'
  <2>1. SUFFICES ASSUME ~crossed, NEW d \in Conns, Current(d)'
                 PROVE  Range(strokes) = {} /\ Shown(d)' = {}
    BY <1>3 DEF ShownInv
  <2>2. bpc[d] # "state" /\ bpc'[d] # "state" /\ view[d] = "ready"
    BY <1>1, <1>3, <2>1, TypesOfBoard DEF Current
  <2>3. Shown(d)' = {}
    BY <1>3, <2>2 DEF Shown, watching
  <2>4. strokes = <<>>
    BY <1>1, <1>3, <2>1 DEF SubjectInv
  <2>5. QED
    BY <2>3, <2>4 DEF Range
<1>15. BoardBounded'
  BY <1>1, <1>3, TypesOfBoard, BoundKept
<1>16. QED
  BY <1>7, <1>8, <1>9, <1>10, <1>12, <1>13, <1>14, <1>15 DEF BoardInv

\* All of it.
LEMMA BoardInit == BInit => BoardInv
<1>1. SUFFICES ASSUME BInit PROVE BoardInv
  OBVIOUS
<1>2. \A c \in Conns : toServer[c] = <<>> /\ bpc[c] = "read" /\ subject[c] = {} /\ own[c] = {} /\ view[c] = "closed"
  BY <1>1 DEF BInit, Nothing
<1>3. \A c \in Conns : \A o, s : ~Asked(c, o, s)
  BY <1>2 DEF Asked
<1>4. Range(strokes) = {} /\ lost = {} /\ strokes = <<>>
  BY <1>1 DEF BInit, Range
<1>5. BTypeOK
  <2>1. strokes \in Seq(Uids) /\ toServer \in [Conns -> Seq(Messages)]
    BY <1>1 DEF BInit
  <2>2. sent \in 0..MaxOps
    BY <1>1, WhiteboardAssumption DEF BInit
  <2>3. QED
    BY <1>1, <2>1, <2>2 DEF BInit, BTypeOK, Nothing
<1>6. NumberInv /\ FreshInv /\ RowsInv
  BY <1>2, <1>3, <1>4 DEF NumberInv, FreshInv, RowsInv
<1>7. OnceInv /\ JoinInv /\ SubjectInv /\ OwnInv
  BY <1>2 DEF OnceInv, JoinInv, SubjectInv, OwnInv
<1>8. ShownInv
  BY <1>2 DEF ShownInv, Current
<1>9. BoardBounded
  <2> DEFINE A == {c \in Conns : bpc[c] = "count"}
  <2>1. IsFiniteSet(A)
    BY HandlersAssumption, FS_Subset
  <2> HIDE DEF A
  <2>2. Cardinality(A) \in Nat
    BY <2>1, FS_CardinalityType
  <2>3. Len(strokes) <= Cap + Cardinality(A)
    BY <1>4, <2>2, WhiteboardAssumption
  <2>4. QED
    BY <2>3 DEF BoardBounded, A
<1>10. QED
  BY <1>5, <1>6, <1>7, <1>8, <1>9 DEF BoardInv

LEMMA BoardStep == BoardInv /\ [BNext]_bvars => BoardInv'
<1>1. SUFFICES ASSUME BoardInv, [BNext]_bvars PROVE BoardInv'
  OBVIOUS
<1>2. CASE UNCHANGED bvars
  <2>1. UNCHANGED <<strokes, bpc, toServer, subject, view, painted, own, lost, stale, crossed, sent>>
    BY <1>2 DEF bvars
  <2>2. \A d, o, t : Asked(d, o, t)' <=> Asked(d, o, t)
    BY <2>1 DEF Asked
  <2>3. \A t : Storing(t)' <=> Storing(t)
    BY <2>1 DEF Storing
  <2>4. BTypeOK' /\ OnceInv' /\ JoinInv' /\ OwnInv'
    <3>1. BTypeOK'
      BY <1>1, <2>1 DEF BoardInv, BTypeOK
    <3>2. OnceInv'
      BY <1>1, <2>1 DEF BoardInv, OnceInv
    <3>3. JoinInv' /\ OwnInv'
      BY <1>1, <2>1 DEF BoardInv, JoinInv, OwnInv
    <3>4. QED
      BY <3>1, <3>2, <3>3
  <2>5. NumberInv'
    BY <1>1, <2>1, <2>2, NumberKept DEF BoardInv, NumberInv
  <2>6. FreshInv'
    BY <1>1, <2>1, <2>2 DEF BoardInv, FreshInv
  <2>7. ShownInv'
    BY <1>1, <2>1, <2>2, <2>3 DEF BoardInv, ShownInv, Current, Shown
  <2>8. QED
    BY <1>1, <2>1, <2>4, <2>5, <2>6, <2>7, TalkFrame DEF BoardInv
<1>3. CASE BNext
  BY <1>1, <1>3, OpenBoard, FinishStroke, UndoPressed, AsksBoard, BoardStateRead, BoardStateSent, RefuseStroke,
     InsertStroke, TrimStrokes, TellStroke, SelectStroke, UndoLast, DeleteStroke, TellUndo, ClearRefused, ClearBoard,
     TellClear, Zenon DEF BNext
<1>4. QED
  BY <1>1, <1>2, <1>3

LEMMA BoardSafe == BoardInv => WhiteboardSafe
<1>1. SUFFICES ASSUME BoardInv PROVE BoardsAgree
  BY DEF BoardInv, WhiteboardSafe
<1>2. BTypeOK /\ RowsInv /\ ShownInv
  BY <1>1 DEF BoardInv
<1>3. SUFFICES ASSUME atRest, ~crossed, NEW c \in Conns, view[c] = "ready", ~stale[c]
               PROVE  painted[c] \ lost = Range(strokes)
  BY DEF BoardsAgree
<1>4. \A d \in Conns : bpc[d] = "read" /\ toServer[d] = <<>>
  BY <1>3 DEF atRest
<1>5. \A d \in Conns : \A o, s : ~Asked(d, o, s)
  BY <1>4 DEF Asked
<1>6. Current(c) /\ Shown(c) = painted[c]
  BY <1>3, <1>4 DEF Current, Shown
<1>7. \A s : ~Storing(s)
  BY <1>4 DEF Storing
<1>8. Range(strokes) \subseteq painted[c] /\ painted[c] \ lost \subseteq Range(strokes)
  BY <1>2, <1>3, <1>4, <1>5, <1>6, <1>7 DEF ShownInv
<1>9. QED
  BY <1>2, <1>8 DEF RowsInv

\* wb_join, wb_stroke, wb_undo and wb_clear, for any number of connections and
\* messages and any cap: whatever order the handlers' statements and relays come
\* in, a board that was told nothing while its wb_state was on the way ends with
\* the strokes of the table, and the table stays within its cap.
THEOREM WhiteboardKept == BSpec => []WhiteboardSafe
<1>1. BSpec => []BoardInv
  BY BoardInit, BoardStep, PTL DEF BSpec
<1>2. QED
  BY <1>1, BoardSafe, PTL
=============================================================================
