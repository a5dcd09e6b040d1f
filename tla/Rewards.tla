------------------------------ MODULE Rewards ------------------------------
(***************************************************************************)
(* The reward crates of one referrer: crates granted for verified          *)
(* referrals, opened for random items, and shards from duplicates spent on *)
(* crafting.  Several handlers work on the tables at once: the referrer's  *)
(* sessions, and the handlers in which referred accounts verify.  Every    *)
(* database statement is one step.                                         *)
(*                                                                         *)
(* A crate is named by its source, which is UNIQUE.  Weights of rarities   *)
(* are left out: whatever has a chance may drop.                           *)
(***************************************************************************)
EXTENDS Integers, Sequences, FiniteSets, Functions

CONSTANTS
    Referrals,     \* accounts signed up with the referrer's link
    IPs,           \* their addresses, NoIP for an unknown one
    NoIP,
    SignupIP,      \* users.signup_ip
    Items,         \* rewardCatalog
    Rank,          \* rarityRank of an item: 0 common to 3 legendary
    NoItem,        \* NULL in the column item
    NoCrate,       \* a local that is not set
    ShardsFor,     \* shardsForDuplicate, by rank
    CraftCost,     \* craftCost, by rank
    PityRareAfter, PityEpicAfter,
    MaxCratesPerSignupIP, MaxCratesPerDay,
    Procs,         \* handlers that may run at the same time
    MaxErasures    \* bound on deletions of referred accounts

ASSUME RewardsAssumption ==
    /\ SignupIP \in [Referrals -> IPs]
    /\ Rank \in [Items -> 0..3]
    /\ NoItem \notin Items /\ NoCrate \notin Referrals
    /\ ShardsFor \in [0..3 -> Nat \ {0}] /\ CraftCost \in [0..3 -> Nat \ {0}]
    /\ PityRareAfter \in Nat \ {0} /\ PityEpicAfter \in Nat \ {0}
    /\ MaxCratesPerSignupIP \in Nat \ {0} /\ MaxCratesPerDay \in Nat \ {0}
    /\ IsFiniteSet(Procs) /\ IsFiniteSet(Referrals) /\ IsFiniteSet(Items)
    /\ MaxErasures \in Nat

VARIABLES
    account,    \* users: "none", "signed" up, "verified"
    crates,     \* reward_crates: sources in the order of the ids
    item,       \* reward_crates.item
    shards,     \* reward_crates.shards
    opened,     \* reward_crates: sources in the order of opened_at
    recent,     \* crates whose created_at is less than a day ago
    crafts,     \* reward_crafts: items crafted
    pc,         \* where the handler is
    cands,      \* syncCrates: candidates the loop has still to visit
    crate,      \* syncCrates: the candidate; openCrate: the crate selected
    owned,      \* openCrate: items read as owned
    floor,      \* openCrate: the pity floor
    want,       \* craftReward: the item
    gained,     \* shardBalance: the shards that the first sum is over
    told,       \* history: what crate_opened told the referrer
    erased      \* history: how many referred accounts were deleted

tables == <<account, crates, item, shards, opened, recent, crafts>>
locals == <<cands, crate, owned, floor, want, gained>>
vars == <<tables, pc, locals, told, erased>>

TypeOK ==
    /\ account \in [Referrals -> {"none", "signed", "verified"}]
    /\ crates \in Seq(Referrals) /\ opened \in Seq(Referrals)
    /\ item \in [Referrals -> Items \cup {NoItem}]
    /\ shards \in [Referrals -> Nat]
    /\ recent \subseteq Referrals
    /\ crafts \subseteq Items
    /\ pc \in [Procs -> {"idle", "sync", "today", "ip", "grant", "owned",
                         "crafted", "pity", "update",
                         "have", "gained", "spent", "insert"}]
    /\ cands \in [Procs -> SUBSET Referrals]
    /\ crate \in [Procs -> Referrals \cup {NoCrate}]
    /\ owned \in [Procs -> SUBSET Items]
    /\ floor \in [Procs -> 0..2]
    /\ want \in [Procs -> Items \cup {NoItem}]
    /\ gained \in [Procs -> [Referrals -> Nat]]
    /\ told \subseteq Referrals \X Items
    /\ erased \in 0..MaxErasures

noShards == [r \in Referrals |-> 0]

Init ==
    /\ account = [r \in Referrals |-> "none"]
    /\ crates = <<>> /\ opened = <<>>
    /\ item = [r \in Referrals |-> NoItem]
    /\ shards = noShards
    /\ recent = {}
    /\ crafts = {}
    /\ pc = [p \in Procs |-> "idle"]
    /\ cands = [p \in Procs |-> {}]
    /\ crate = [p \in Procs |-> NoCrate]
    /\ owned = [p \in Procs |-> {}]
    /\ floor = [p \in Procs |-> 0]
    /\ want = [p \in Procs |-> NoItem]
    /\ gained = [p \in Procs |-> noShards]
    /\ told = {}
    /\ erased = 0

goto(p, label) == pc' = [pc EXCEPT ![p] = label]

\* A handler returns: its locals are gone.
Return(p) ==
    /\ goto(p, "idle")
    /\ cands' = [cands EXCEPT ![p] = {}]
    /\ crate' = [crate EXCEPT ![p] = NoCrate]
    /\ owned' = [owned EXCEPT ![p] = {}]
    /\ floor' = [floor EXCEPT ![p] = 0]
    /\ want' = [want EXCEPT ![p] = NoItem]
    /\ gained' = [gained EXCEPT ![p] = noShards]

\* The loop of syncCrates goes on to its next candidate, or ends.
NextTurn(p) ==
    IF cands[p] = {}
    THEN Return(p)
    ELSE /\ goto(p, "today")
         /\ crate' = [crate EXCEPT ![p] = NoCrate]
         /\ UNCHANGED <<cands, owned, floor, want, gained>>

-----------------------------------------------------------------------------
(* Accounts and time. *)

\* register with RefBy.
Register(r) ==
    /\ account[r] = "none"
    /\ account' = [account EXCEPT ![r] = "signed"]
    /\ UNCHANGED <<crates, item, shards, opened, recent, crafts, pc, locals, told, erased>>

\* deleteAccount: the users row goes, the crate it earned stays.
DeleteAccount(r) ==
    /\ account[r] # "none" /\ erased < MaxErasures
    /\ account' = [account EXCEPT ![r] = "none"]
    /\ erased' = erased + 1
    /\ UNCHANGED <<crates, item, shards, opened, recent, crafts, pc, locals, told>>

\* The oldest of the crates granted within a day becomes a day old.
Age ==
    \E i \in DOMAIN crates :
        /\ crates[i] \in recent
        /\ \A j \in 1..(i - 1) : crates[j] \notin recent
        /\ recent' = recent \ {crates[i]}
        /\ UNCHANGED <<account, crates, item, shards, opened, crafts, pc, locals, told, erased>>

-----------------------------------------------------------------------------
(* syncCrates *)

\* verify_email, or the link in the mail: verifyUser, then onReferralVerified.
Verify(p, r) ==
    /\ pc[p] = "idle" /\ account[r] = "signed"
    /\ account' = [account EXCEPT ![r] = "verified"]
    /\ goto(p, "sync")
    /\ UNCHANGED <<crates, item, shards, opened, recent, crafts, locals, told, erased>>

\* The query: verified referrals that have earned no crate.
readCands(p) ==
    LET found == {r \in Referrals : account[r] = "verified" /\ r \notin Range(crates)}
    IN  /\ cands' = [cands EXCEPT ![p] = found]
        /\ goto(p, IF found = {} THEN "idle" ELSE "today")
        /\ UNCHANGED <<tables, crate, owned, floor, want, gained, told, erased>>

SyncSelect(p) == pc[p] = "sync" /\ readCands(p)

\* get_referral_stats begins with syncCrates; the rest of it only reads.
GetReferralStats(p) == pc[p] = "idle" /\ readCands(p)

\* Mutant: one more than the limit passes.
underDayCap_OffByOne == Cardinality(recent) <= MaxCratesPerDay

underDayCap == Cardinality(recent) < MaxCratesPerDay

\* A turn of the loop begins with the crates of the last day; too many end it.
SyncToday(p) ==
    /\ pc[p] = "today"
    /\ IF underDayCap
       THEN \E r \in cands[p] :
               /\ crate' = [crate EXCEPT ![p] = r]
               /\ cands' = [cands EXCEPT ![p] = @ \ {r}]
               /\ goto(p, IF SignupIP[r] = NoIP THEN "grant" ELSE "ip")
               /\ UNCHANGED <<owned, floor, want, gained>>
       ELSE Return(p)
    /\ UNCHANGED <<tables, told, erased>>

\* reward_crates JOIN users: crates whose source still exists, by address.
fromIP(a) == {r \in Range(crates) : account[r] # "none" /\ SignupIP[r] = a}

\* Mutant: one more than the limit passes.
underIPCap_OffByOne(a) == Cardinality(fromIP(a)) <= MaxCratesPerSignupIP

underIPCap(a) == Cardinality(fromIP(a)) < MaxCratesPerSignupIP

SyncIP(p) ==
    /\ pc[p] = "ip"
    /\ IF underIPCap(SignupIP[crate[p]])
       THEN goto(p, "grant") /\ UNCHANGED locals
       ELSE NextTurn(p)
    /\ UNCHANGED <<tables, told, erased>>

\* INSERT OR IGNORE: a source that has its crate gets no second one.
SyncGrant(p) ==
    /\ pc[p] = "grant"
    /\ IF crate[p] \in Range(crates)
       THEN UNCHANGED <<crates, recent>>
       ELSE /\ crates' = Append(crates, crate[p])
            /\ recent' = recent \cup {crate[p]}
    /\ NextTurn(p)
    /\ UNCHANGED <<account, item, shards, opened, crafts, told, erased>>

-----------------------------------------------------------------------------
(* openCrate *)

rolledItems == [i \in DOMAIN opened |-> item[opened[i]]]

\* Mutant: SELECT without ORDER BY id.
nextUnopened_Any == {r \in Range(crates) : item[r] = NoItem}

\* ORDER BY id LIMIT 1: the oldest unopened crate, if there is one.
nextUnopened ==
    {crates[k] : k \in {i \in DOMAIN crates :
        item[crates[i]] = NoItem /\ \A j \in 1..(i - 1) : item[crates[j]] # NoItem}}

OpenSelect(p) ==
    /\ pc[p] = "idle"
    /\ \E r \in nextUnopened : crate' = [crate EXCEPT ![p] = r]
    /\ goto(p, "owned")
    /\ UNCHANGED <<tables, cands, owned, floor, want, gained, told, erased>>

\* openedItems: the items rolled, then the items crafted.
OpenOwned(p) ==
    /\ pc[p] = "owned"
    /\ owned' = [owned EXCEPT ![p] = Range(rolledItems)]
    /\ goto(p, "crafted")
    /\ UNCHANGED <<tables, cands, crate, floor, want, gained, told, erased>>

OpenCrafted(p) ==
    /\ pc[p] = "crafted"
    /\ owned' = [owned EXCEPT ![p] = @ \cup crafts]
    /\ goto(p, "pity")
    /\ UNCHANGED <<tables, cands, crate, floor, want, gained, told, erased>>

\* pityCounters: at least n crates in a row, the last ones, below the rank.
streak(s, rank, n) ==
    /\ Len(s) >= n
    /\ \A i \in (Len(s) - n + 1)..Len(s) : Rank[s[i]] < rank

\* Mutant: the two floors are added up.
pityFloor_Sum(s) ==
    (IF streak(s, 2, PityEpicAfter) THEN 2 ELSE 0) + (IF streak(s, 1, PityRareAfter) THEN 1 ELSE 0)

pityFloor(s) ==
    IF streak(s, 2, PityEpicAfter) THEN 2
    ELSE IF streak(s, 1, PityRareAfter) THEN 1
    ELSE 0

OpenPity(p) ==
    /\ pc[p] = "pity"
    /\ floor' = [floor EXCEPT ![p] = pityFloor(rolledItems)]
    /\ goto(p, "update")
    /\ UNCHANGED <<tables, cands, crate, owned, want, gained, told, erased>>

\* Every item of the rarity is owned.
complete(have, rank) == \A i \in Items : Rank[i] = rank => i \in have

\* Mutant: owned items are not passed over.
drops_Owned(have, least) == {i \in Items : Rank[i] >= least}

\* rollReward: an item not owned, or any when its rarity is complete.
drops(have, least) ==
    {i \in Items : Rank[i] >= least /\ (i \notin have \/ complete(have, Rank[i]))}

\* Mutant: the UPDATE without AND item IS NULL.
stillClosed_Unchecked(r) == TRUE

\* WHERE id = ? AND item IS NULL.
stillClosed(r) == item[r] = NoItem

OpenUpdate(p) ==
    /\ pc[p] = "update"
    /\ \E i \in drops(owned[p], floor[p]) :
          IF stillClosed(crate[p])
          THEN /\ item' = [item EXCEPT ![crate[p]] = i]
               /\ shards' = [shards EXCEPT ![crate[p]] =
                                IF i \in owned[p] THEN ShardsFor[Rank[i]] ELSE 0]
               /\ opened' = Append(opened, crate[p])
               /\ told' = told \cup {<<crate[p], i>>}
          ELSE UNCHANGED <<item, shards, opened, told>>
    /\ Return(p)
    /\ UNCHANGED <<account, crates, recent, crafts, erased>>

-----------------------------------------------------------------------------
(* craftReward *)

\* openedItems, its two queries.
CraftOwned(p, i) ==
    /\ pc[p] = "idle"
    /\ i \notin Range(rolledItems)
    /\ want' = [want EXCEPT ![p] = i]
    /\ goto(p, "have")
    /\ UNCHANGED <<tables, cands, crate, owned, floor, gained, told, erased>>

\* The two sums of shardBalance.
sumShards(rows) == SumFunction(rows)
spent(done) == SumFunctionOnSet([i \in Items |-> CraftCost[Rank[i]]], done)

CraftHave(p) ==
    /\ pc[p] = "have"
    /\ IF want[p] \in crafts
       THEN Return(p)
       ELSE goto(p, "gained") /\ UNCHANGED locals
    /\ UNCHANGED <<tables, told, erased>>

\* shardBalance, its two sums.
CraftGained(p) ==
    /\ pc[p] = "gained"
    /\ gained' = [gained EXCEPT ![p] = shards]
    /\ goto(p, "spent")
    /\ UNCHANGED <<tables, cands, crate, owned, floor, want, told, erased>>

\* Mutant: what was spent before is forgotten.
affords_Gained(p) == sumShards(gained[p]) >= CraftCost[Rank[want[p]]]

affords(p) == sumShards(gained[p]) - spent(crafts) >= CraftCost[Rank[want[p]]]

CraftSpent(p) ==
    /\ pc[p] = "spent"
    /\ IF affords(p) THEN goto(p, "insert") /\ UNCHANGED locals ELSE Return(p)
    /\ UNCHANGED <<tables, told, erased>>

\* UNIQUE(owner, item): a second INSERT of the item fails.
CraftInsert(p) ==
    /\ pc[p] = "insert"
    /\ crafts' = crafts \cup {want[p]}
    /\ Return(p)
    /\ UNCHANGED <<account, crates, item, shards, opened, recent, told, erased>>

\* A write the database refuses changes nothing: the loop of syncCrates goes
\* on, openCrate and craftReward return the error.
WriteRefused(p) ==
    /\ \/ pc[p] = "grant" /\ NextTurn(p)
       \/ pc[p] \in {"update", "insert"} /\ Return(p)
    /\ UNCHANGED <<tables, told, erased>>

-----------------------------------------------------------------------------
Sync(p) == SyncSelect(p) \/ SyncToday(p) \/ SyncIP(p) \/ SyncGrant(p)

Open(p) ==
    OpenSelect(p) \/ OpenOwned(p) \/ OpenCrafted(p) \/ OpenPity(p) \/ OpenUpdate(p)

Craft(p) ==
    \/ \E i \in Items : CraftOwned(p, i)
    \/ CraftHave(p) \/ CraftGained(p) \/ CraftSpent(p) \/ CraftInsert(p)

Next ==
    \/ \E r \in Referrals : Register(r) \/ DeleteAccount(r)
    \/ Age
    \/ \E p \in Procs :
          \/ \E r \in Referrals : Verify(p, r)
          \/ GetReferralStats(p)
          \/ Sync(p) \/ Open(p) \/ Craft(p) \/ WriteRefused(p)

Spec == Init /\ [][Next]_vars

-----------------------------------------------------------------------------
(* Properties. *)

(***************************************************************************)
(* A racing second open cannot double-spend a crate: what crate_opened     *)
(* announced is what the crate holds, for good.                            *)
(***************************************************************************)
ToldIsKept == \A t \in told : item[t[1]] = t[2]

(***************************************************************************)
(* Bad luck has a ceiling, also when sessions open crates at the same      *)
(* time: among the items in the order they were rolled, no more than       *)
(* PityRareAfter in a row are below rare, nor PityEpicAfter below epic.    *)
(***************************************************************************)
PityKept ==
    \A k \in DOMAIN opened :
        /\ k > PityRareAfter =>
              \E i \in (k - PityRareAfter)..k : Rank[item[opened[i]]] >= 1
        /\ k > PityEpicAfter =>
              \E i \in (k - PityEpicAfter)..k : Rank[item[opened[i]]] >= 2

(***************************************************************************)
(* A crate that gave what an earlier crate had given paid shards for it,   *)
(* and only when the whole rarity was owned.                               *)
(***************************************************************************)
DuplicatesPaid ==
    \A k \in DOMAIN opened :
        LET r == opened[k] IN
        /\ (\E j \in 1..(k - 1) : item[opened[j]] = item[r]) => shards[r] > 0
        /\ shards[r] > 0 => complete(Range(rolledItems) \cup crafts, Rank[item[r]])

(***************************************************************************)
(* The daily limit is tested before the INSERT, so handlers that run at    *)
(* the same time can pass it, but by no more than one crate each.          *)
(***************************************************************************)
DayCapNearlyKept == Cardinality(recent) < MaxCratesPerDay + Cardinality(Procs)

(***************************************************************************)
(* Likewise the limit per address, as long as no referred account has been *)
(* deleted: a deleted one no longer counts.                                *)
(***************************************************************************)
IPCapNearlyKept ==
    erased = 0 => \A a \in IPs \ {NoIP} :
        Cardinality(fromIP(a)) < MaxCratesPerSignupIP + Cardinality(Procs)

(***************************************************************************)
(* Both limits of syncCrates: however many handlers test them before the   *)
(* INSERT of any, neither is passed by more than a crate for each.         *)
(***************************************************************************)
CapsNearlyKept == DayCapNearlyKept /\ IPCapNearlyKept

(***************************************************************************)
(* Sessions that craft at the same time can spend the same shards, but the *)
(* debt stays below one item per session beyond the first.                 *)
(***************************************************************************)
DebtBounded ==
    spent(crafts) > sumShards(shards) =>
        \E i \in crafts : spent(crafts) - sumShards(shards)
                             <= (Cardinality(Procs) - 1) * CraftCost[Rank[i]]
=============================================================================
