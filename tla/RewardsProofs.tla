--------------------------- MODULE RewardsProofs ---------------------------
(***************************************************************************)
(* Proofs about Rewards, for any number of handlers, referrals and items.  *)
(***************************************************************************)
EXTENDS Rewards, FiniteSetTheorems, WellFoundedInduction, TLAPS

\* A handler's local is set where the handler uses it.
LocalsSet ==
    \A p \in Procs :
        /\ pc[p] \in {"ip", "grant", "owned", "crafted", "pity", "update"} =>
              crate[p] \in Referrals
        /\ pc[p] \in {"have", "gained", "spent", "insert"} => want[p] \in Items

\* A crate that was opened holds an item.
Filled == \A i \in DOMAIN opened : item[opened[i]] \in Items

TypeInv == TypeOK /\ LocalsSet /\ Filled

\* What an INSERT does to a table kept as a sequence.
LEMMA AppendFacts ==
    ASSUME NEW S, NEW s \in Seq(S), NEW c \in S
    PROVE  /\ Append(s, c) \in Seq(S)
           /\ Len(s) \in Nat /\ Len(Append(s, c)) = Len(s) + 1
           /\ DOMAIN s = 1..Len(s) /\ DOMAIN Append(s, c) = 1..(Len(s) + 1)
           /\ \A k \in 1..Len(s) : Append(s, c)[k] = s[k]
           /\ Append(s, c)[Len(s) + 1] = c
OBVIOUS

\* The initial tables and locals have their types.
LEMMA TypeInit == Init => TypeInv
<1> SUFFICES ASSUME Init PROVE TypeInv
  OBVIOUS
<1>1. TypeOK
  BY RewardsAssumption DEF Init, TypeOK, noShards
<1>2. LocalsSet
  BY DEF Init, LocalsSet
<1>3. Filled
  BY DEF Init, Filled
<1>4. QED
  BY <1>1, <1>2, <1>3 DEF TypeInv

\* What is read as rolled are items.
LEMMA RolledAreItems ==
    ASSUME TypeInv
    PROVE  rolledItems \in Seq(Items) /\ Len(rolledItems) = Len(opened)
           /\ Range(rolledItems) \subseteq Items
<1>1. opened \in Seq(Referrals) /\ DOMAIN opened = 1..Len(opened) /\ Len(opened) \in Nat
  BY DEF TypeInv, TypeOK
<1>2. rolledItems \in [1..Len(opened) -> Items]
  BY <1>1 DEF TypeInv, Filled, rolledItems
<1>3. QED
  BY <1>1, <1>2 DEF Range

\* A handler that returns leaves locals of their types.
LEMMA ReturnType ==
    ASSUME TypeInv, NEW p \in Procs, Return(p)
    PROVE  /\ pc' \in [Procs -> {"idle", "sync", "today", "ip", "grant", "owned",
                         "crafted", "pity", "update",
                         "have", "gained", "spent", "insert"}]
           /\ cands' \in [Procs -> SUBSET Referrals]
           /\ crate' \in [Procs -> Referrals \cup {NoCrate}]
           /\ owned' \in [Procs -> SUBSET Items]
           /\ floor' \in [Procs -> 0..2]
           /\ want' \in [Procs -> Items \cup {NoItem}]
           /\ gained' \in [Procs -> [Referrals -> Nat]]
           /\ LocalsSet'
<1>1. noShards \in [Referrals -> Nat]
  BY DEF noShards
<1>2. LocalsSet'
  BY DEF TypeInv, TypeOK, LocalsSet, Return, goto
<1>3. QED
  BY <1>1, <1>2 DEF TypeInv, TypeOK, Return, goto

\* So does one that goes on to the next candidate.
LEMMA NextTurnType ==
    ASSUME TypeInv, NEW p \in Procs, NextTurn(p)
    PROVE  /\ pc' \in [Procs -> {"idle", "sync", "today", "ip", "grant", "owned",
                         "crafted", "pity", "update",
                         "have", "gained", "spent", "insert"}]
           /\ cands' \in [Procs -> SUBSET Referrals]
           /\ crate' \in [Procs -> Referrals \cup {NoCrate}]
           /\ owned' \in [Procs -> SUBSET Items]
           /\ floor' \in [Procs -> 0..2]
           /\ want' \in [Procs -> Items \cup {NoItem}]
           /\ gained' \in [Procs -> [Referrals -> Nat]]
           /\ LocalsSet'
<1>1. CASE cands[p] = {}
  BY <1>1, ReturnType DEF NextTurn
<1>2. CASE cands[p] # {}
  <2>1. LocalsSet'
    BY <1>2 DEF TypeInv, TypeOK, LocalsSet, NextTurn, goto
  <2>2. QED
    BY <1>2, <2>1 DEF TypeInv, TypeOK, NextTurn, goto
<1>3. QED
  BY <1>1, <1>2

\* Every step of every handler keeps them.
LEMMA TypeStep == TypeInv /\ [Next]_vars => TypeInv'
<1> SUFFICES ASSUME TypeInv, [Next]_vars PROVE TypeInv'
  OBVIOUS
<1> USE RewardsAssumption
<1>1. ASSUME NEW r \in Referrals, Register(r) PROVE TypeInv'
  BY <1>1 DEF Register, TypeInv, TypeOK, LocalsSet, Filled, locals
<1>2. ASSUME NEW r \in Referrals, DeleteAccount(r) PROVE TypeInv'
  BY <1>2 DEF DeleteAccount, TypeInv, TypeOK, LocalsSet, Filled, locals
<1>3. CASE Age
  BY <1>3 DEF Age, TypeInv, TypeOK, LocalsSet, Filled, locals
<1>4. ASSUME NEW p \in Procs, NEW r \in Referrals, Verify(p, r) PROVE TypeInv'
  BY <1>4 DEF Verify, goto, TypeInv, TypeOK, LocalsSet, Filled, locals
<1>5. ASSUME NEW p \in Procs, readCands(p), pc[p] \in {"idle", "sync"} PROVE TypeInv'
  BY <1>5 DEF readCands, goto, TypeInv, TypeOK, LocalsSet, Filled, tables
<1>6. ASSUME NEW p \in Procs, SyncToday(p) PROVE TypeInv'
  <2>1. CASE underDayCap
    <3>1. PICK r \in cands[p] :
            /\ crate' = [crate EXCEPT ![p] = r]
            /\ cands' = [cands EXCEPT ![p] = @ \ {r}]
            /\ goto(p, IF SignupIP[r] = NoIP THEN "grant" ELSE "ip")
            /\ UNCHANGED <<owned, floor, want, gained>>
      BY <1>6, <2>1 DEF SyncToday
    <3>2. r \in Referrals
      BY DEF TypeInv, TypeOK
    <3>3. crate' \in [Procs -> Referrals \cup {NoCrate}] /\ cands' \in [Procs -> SUBSET Referrals]
      BY <3>1, <3>2 DEF TypeInv, TypeOK
    <3>4. LocalsSet'
      BY <3>1, <3>2 DEF goto, TypeInv, TypeOK, LocalsSet
    <3>5. QED
      BY <1>6, <3>1, <3>3, <3>4 DEF SyncToday, goto, TypeInv, TypeOK, Filled, tables
  <2>2. CASE ~underDayCap
    BY <1>6, <2>2, ReturnType DEF SyncToday, TypeInv, TypeOK, Filled, tables
  <2>3. QED
    BY <2>1, <2>2
<1>7. ASSUME NEW p \in Procs, SyncIP(p) PROVE TypeInv'
  <2>1. CASE underIPCap(SignupIP[crate[p]])
    BY <1>7, <2>1 DEF SyncIP, goto, TypeInv, TypeOK, LocalsSet, Filled, tables, locals
  <2>2. CASE ~underIPCap(SignupIP[crate[p]])
    BY <1>7, <2>2, NextTurnType DEF SyncIP, TypeInv, TypeOK, Filled, tables
  <2>3. QED
    BY <2>1, <2>2
<1>8. ASSUME NEW p \in Procs, SyncGrant(p) PROVE TypeInv'
  <2>1. crate[p] \in Referrals
    BY <1>8 DEF SyncGrant, TypeInv, LocalsSet
  <2>2. crates' \in Seq(Referrals) /\ recent' \subseteq Referrals
    <3>1. CASE crate[p] \in Range(crates)
      BY <1>8, <3>1 DEF SyncGrant, TypeInv, TypeOK
    <3>2. CASE crate[p] \notin Range(crates)
      <4>1. crates \in Seq(Referrals) /\ crates' = Append(crates, crate[p])
        BY <1>8, <3>2 DEF SyncGrant, TypeInv, TypeOK
      <4>2. crates' \in Seq(Referrals)
        BY <2>1, <4>1, AppendFacts
      <4>3. QED
        BY <1>8, <2>1, <3>2, <4>2 DEF SyncGrant, TypeInv, TypeOK
    <3>3. QED
      BY <3>1, <3>2
  <2>3. QED
    BY <1>8, <2>2, NextTurnType DEF SyncGrant, TypeInv, TypeOK, Filled
<1>9. ASSUME NEW p \in Procs, OpenSelect(p) PROVE TypeInv'
  <2>1. nextUnopened \subseteq Referrals
    BY DEF nextUnopened, TypeInv, TypeOK
  <2>2. QED
    BY <1>9, <2>1 DEF OpenSelect, goto, TypeInv, TypeOK, LocalsSet, Filled, tables
<1>10. ASSUME NEW p \in Procs, OpenOwned(p) PROVE TypeInv'
  BY <1>10, RolledAreItems DEF OpenOwned, goto, TypeInv, TypeOK, LocalsSet, Filled, tables
<1>11. ASSUME NEW p \in Procs, OpenCrafted(p) PROVE TypeInv'
  BY <1>11 DEF OpenCrafted, goto, TypeInv, TypeOK, LocalsSet, Filled, tables
<1>12. ASSUME NEW p \in Procs, OpenPity(p) PROVE TypeInv'
  BY <1>12 DEF OpenPity, pityFloor, goto, TypeInv, TypeOK, LocalsSet, Filled, tables
<1>13. ASSUME NEW p \in Procs, OpenUpdate(p) PROVE TypeInv'
  <2>1. PICK i \in drops(owned[p], floor[p]) :
          IF stillClosed(crate[p])
          THEN /\ item' = [item EXCEPT ![crate[p]] = i]
               /\ shards' = [shards EXCEPT ![crate[p]] =
                                IF i \in owned[p] THEN ShardsFor[Rank[i]] ELSE 0]
               /\ opened' = Append(opened, crate[p])
               /\ told' = told \cup {<<crate[p], i>>}
          ELSE UNCHANGED <<item, shards, opened, told>>
    BY <1>13 DEF OpenUpdate
  <2>2. i \in Items /\ crate[p] \in Referrals /\ ShardsFor[Rank[i]] \in Nat
    BY <1>13, <2>1 DEF drops, OpenUpdate, TypeInv, LocalsSet
  <2>3. CASE ~stillClosed(crate[p])
    <3>1. UNCHANGED <<item, shards, opened, told>>
      BY <2>1, <2>3
    <3>2. QED
      BY <1>13, <3>1, ReturnType DEF OpenUpdate, TypeInv, TypeOK, Filled
  <2>4. CASE stillClosed(crate[p])
    <3>1. /\ item' = [item EXCEPT ![crate[p]] = i]
          /\ shards' = [shards EXCEPT ![crate[p]] =
                           IF i \in owned[p] THEN ShardsFor[Rank[i]] ELSE 0]
          /\ opened' = Append(opened, crate[p])
          /\ told' = told \cup {<<crate[p], i>>}
      BY <2>1, <2>4
    <3>2. item' \in [Referrals -> Items \cup {NoItem}]
      BY <2>2, <3>1 DEF TypeInv, TypeOK
    <3>3. shards' \in [Referrals -> Nat]
      BY <2>2, <3>1 DEF TypeInv, TypeOK
    <3>4. opened \in Seq(Referrals)
      BY DEF TypeInv, TypeOK
    <3>5. opened' \in Seq(Referrals)
      BY <2>2, <3>1, <3>4, AppendFacts
    <3>6. told' \subseteq Referrals \X Items
      BY <2>2, <3>1 DEF TypeInv, TypeOK
    <3>7. Filled'
      <4>1. item'[crate[p]] = i /\ \A r \in Referrals : r # crate[p] => item'[r] = item[r]
        BY <2>2, <3>1 DEF TypeInv, TypeOK
      <4>2. \A k \in DOMAIN opened' : \/ k \in DOMAIN opened /\ opened'[k] = opened[k]
                                      \/ opened'[k] = crate[p]
        BY <2>2, <3>1, <3>4, AppendFacts
      <4>3. \A k \in DOMAIN opened : opened[k] \in Referrals
        BY <3>4
      <4>4. QED
        BY <2>2, <4>1, <4>2, <4>3 DEF TypeInv, Filled
    <3>8. QED
      BY <1>13, <3>2, <3>3, <3>5, <3>6, <3>7, ReturnType DEF OpenUpdate, TypeInv, TypeOK
  <2>6. QED
    BY <2>3, <2>4
<1>14. ASSUME NEW p \in Procs, NEW i \in Items, CraftOwned(p, i) PROVE TypeInv'
  BY <1>14 DEF CraftOwned, goto, TypeInv, TypeOK, LocalsSet, Filled, tables
<1>15. ASSUME NEW p \in Procs, CraftHave(p) PROVE TypeInv'
  <2>1. CASE want[p] \in crafts
    BY <1>15, <2>1, ReturnType DEF CraftHave, TypeInv, TypeOK, Filled, tables
  <2>2. CASE want[p] \notin crafts
    BY <1>15, <2>2 DEF CraftHave, goto, TypeInv, TypeOK, LocalsSet, Filled, tables, locals
  <2>3. QED
    BY <2>1, <2>2
<1>16. ASSUME NEW p \in Procs, CraftGained(p) PROVE TypeInv'
  BY <1>16 DEF CraftGained, goto, TypeInv, TypeOK, LocalsSet, Filled, tables
<1>17. ASSUME NEW p \in Procs, CraftSpent(p) PROVE TypeInv'
  <2>1. CASE affords(p)
    BY <1>17, <2>1 DEF CraftSpent, goto, TypeInv, TypeOK, LocalsSet, Filled, tables, locals
  <2>2. CASE ~affords(p)
    BY <1>17, <2>2, ReturnType DEF CraftSpent, TypeInv, TypeOK, Filled, tables
  <2>3. QED
    BY <2>1, <2>2
<1>18. ASSUME NEW p \in Procs, CraftInsert(p) PROVE TypeInv'
  <2>1. want[p] \in Items
    BY <1>18 DEF CraftInsert, TypeInv, LocalsSet
  <2>2. QED
    BY <1>18, <2>1, ReturnType DEF CraftInsert, TypeInv, TypeOK, Filled
<1>19. ASSUME NEW p \in Procs, WriteRefused(p) PROVE TypeInv'
  <2>1. CASE NextTurn(p)
    BY <1>19, <2>1, NextTurnType DEF WriteRefused, TypeInv, TypeOK, Filled, tables
  <2>2. CASE Return(p)
    BY <1>19, <2>2, ReturnType DEF WriteRefused, TypeInv, TypeOK, Filled, tables
  <2>3. QED
    BY <1>19, <2>1, <2>2 DEF WriteRefused
<1>20. CASE UNCHANGED vars
  BY <1>20 DEF vars, tables, locals, TypeInv, TypeOK, LocalsSet, Filled
<1>21. QED
  BY <1>1, <1>2, <1>3, <1>4, <1>5, <1>6, <1>7, <1>8, <1>9, <1>10, <1>11, <1>12, <1>13,
     <1>14, <1>15, <1>16, <1>17, <1>18, <1>19, <1>20
     DEF Next, Sync, Open, Craft, SyncSelect, GetReferralStats

\* The tables of the rewards and the handlers' locals have their types.
THEOREM TypeCorrect == Spec => []TypeOK
<1>1. TypeInv => TypeOK
  BY DEF TypeInv
<1>2. QED
  BY TypeInit, TypeStep, <1>1, PTL DEF Spec

-----------------------------------------------------------------------------
(* Opening crates.  Because every handler takes the oldest unopened crate  *)
(* and writes it only if it is still closed, crates are opened in the      *)
(* order of their ids, and what a handler read before it writes is still   *)
(* true when the write succeeds.                                           *)

opening(p) == pc[p] \in {"owned", "crafted", "pity", "update"}

\* Crates are opened in the order they were granted.
InOrder ==
    /\ \A i, j \in DOMAIN crates : crates[i] = crates[j] => i = j
    /\ Len(opened) <= Len(crates)
    /\ \A i \in DOMAIN opened : opened[i] = crates[i]
    /\ \A r \in Referrals : item[r] # NoItem => \E i \in DOMAIN opened : opened[i] = r

\* A handler's crate is the next to be opened, or has been opened.
TakesNext ==
    \A p \in Procs : opening(p) =>
        \E k \in 1..Len(crates) : k <= Len(opened) + 1 /\ crates[k] = crate[p]

\* What a handler read is true as long as its crate is closed.
ReadsHold ==
    \A p \in Procs : opening(p) /\ item[crate[p]] = NoItem =>
        /\ pc[p] # "owned" => Range(rolledItems) \subseteq owned[p]
        /\ pc[p] = "update" => floor[p] = pityFloor(rolledItems)

\* What a handler counts as owned is owned.
OwnedIsOwned ==
    \A p \in Procs : opening(p) /\ pc[p] # "owned" =>
        owned[p] \subseteq Range(rolledItems) \cup crafts

ReadInv == InOrder /\ TakesNext /\ ReadsHold /\ OwnedIsOwned

\* Steps that write no crate and read nothing for one.
LEMMA ReadQuiet ==
    ASSUME TypeInv, ReadInv, UNCHANGED <<crates, item, opened>>, crafts \subseteq crafts',
           \A q \in Procs : opening(q)' =>
               pc'[q] = pc[q] /\ crate'[q] = crate[q] /\ owned'[q] = owned[q] /\ floor'[q] = floor[q]
    PROVE  ReadInv'
<1>1. rolledItems' = rolledItems
  BY DEF rolledItems
<1>2. InOrder'
  BY DEF ReadInv, InOrder
<1>3. TakesNext'
  BY DEF ReadInv, TakesNext, opening
<1>4. ReadsHold'
  <2> SUFFICES ASSUME NEW q \in Procs, opening(q)', item'[crate'[q]] = NoItem
               PROVE  /\ pc'[q] # "owned" => Range(rolledItems') \subseteq owned'[q]
                      /\ pc'[q] = "update" => floor'[q] = pityFloor(rolledItems')
    BY DEF ReadsHold
  <2>1. opening(q) /\ item[crate[q]] = NoItem
    BY DEF opening
  <2>2. QED
    BY <1>1, <2>1 DEF ReadInv, ReadsHold
<1>5. OwnedIsOwned'
  <2> SUFFICES ASSUME NEW q \in Procs, opening(q)', pc'[q] # "owned"
               PROVE  owned'[q] \subseteq Range(rolledItems') \cup crafts'
    BY DEF OwnedIsOwned
  <2>1. opening(q) /\ pc[q] # "owned"
    BY DEF opening
  <2>2. QED
    BY <1>1, <2>1 DEF ReadInv, OwnedIsOwned
<1>6. QED
  BY <1>2, <1>3, <1>4, <1>5 DEF ReadInv

\* A handler that returns is not opening; the others stay as they are.
LEMMA ReturnQuiet ==
    ASSUME TypeInv, NEW p \in Procs, Return(p) \/ NextTurn(p)
    PROVE  /\ ~opening(p)'
           /\ \A q \in Procs : q # p =>
                pc'[q] = pc[q] /\ crate'[q] = crate[q] /\ owned'[q] = owned[q] /\ floor'[q] = floor[q]
BY DEF TypeInv, TypeOK, Return, NextTurn, goto, opening

\* A new crate is granted at the end.
LEMMA ReadGrant ==
    ASSUME TypeInv, ReadInv, NEW p \in Procs, SyncGrant(p)
    PROVE  ReadInv'
<1>1. CASE crate[p] \in Range(crates)
  BY <1>1, ReadQuiet, ReturnQuiet DEF SyncGrant
<1>2. CASE crate[p] \notin Range(crates)
  <2>1. crate[p] \in Referrals
    BY DEF SyncGrant, TypeInv, LocalsSet
  <2>2. crates \in Seq(Referrals) /\ opened \in Seq(Referrals)
    BY DEF TypeInv, TypeOK
  <2>3. crates' = Append(crates, crate[p]) /\ UNCHANGED <<item, opened, crafts>>
    BY <1>2 DEF SyncGrant
  <2>4. /\ Len(crates) \in Nat /\ Len(crates') = Len(crates) + 1
        /\ DOMAIN crates = 1..Len(crates) /\ DOMAIN crates' = 1..(Len(crates) + 1)
        /\ \A k \in 1..Len(crates) : crates'[k] = crates[k]
        /\ crates'[Len(crates) + 1] = crate[p]
    BY <2>1, <2>2, <2>3, AppendFacts
  <2>5. \A q \in Procs : opening(q)' =>
          /\ opening(q)
          /\ pc'[q] = pc[q] /\ crate'[q] = crate[q] /\ owned'[q] = owned[q] /\ floor'[q] = floor[q]
    BY ReturnQuiet DEF SyncGrant, opening
  <2>6. rolledItems' = rolledItems
    BY <2>3 DEF rolledItems
  <2>7. InOrder'
    <3>1. \A k \in 1..Len(crates) : crates[k] # crate[p]
      BY <1>2, <2>4 DEF Range
    <3>2. \A i, j \in DOMAIN crates' : crates'[i] = crates'[j] => i = j
      BY <2>4, <3>1 DEF ReadInv, InOrder
    <3>3. DOMAIN opened = 1..Len(opened) /\ Len(opened) \in Nat /\ Len(opened) <= Len(crates)
      BY <2>2 DEF ReadInv, InOrder
    <3>4. \A i \in DOMAIN opened' : opened'[i] = crates'[i]
      BY <2>3, <2>4, <3>3 DEF ReadInv, InOrder
    <3>5. QED
      BY <2>3, <2>4, <3>2, <3>3, <3>4 DEF ReadInv, InOrder
  <2>8. TakesNext'
    <3> SUFFICES ASSUME NEW q \in Procs, opening(q)'
                 PROVE  \E k \in 1..Len(crates') : k <= Len(opened') + 1 /\ crates'[k] = crate'[q]
      BY DEF TakesNext
    <3>1. PICK k \in 1..Len(crates) : k <= Len(opened) + 1 /\ crates[k] = crate[q]
      BY <2>5 DEF ReadInv, TakesNext
    <3>2. k \in 1..Len(crates') /\ crates'[k] = crate'[q]
      BY <2>4, <2>5, <3>1
    <3>3. QED
      BY <2>3, <3>1, <3>2
  <2>9. ReadsHold'
    BY <2>3, <2>5, <2>6 DEF ReadInv, ReadsHold
  <2>10. OwnedIsOwned'
    BY <2>3, <2>5, <2>6 DEF ReadInv, OwnedIsOwned
  <2>11. QED
    BY <2>7, <2>8, <2>9, <2>10 DEF ReadInv
<1>3. QED
  BY <1>1, <1>2

\* The oldest unopened crate is the next after the opened ones.
LEMMA ReadSelect ==
    ASSUME TypeInv, ReadInv, NEW p \in Procs, OpenSelect(p)
    PROVE  ReadInv'
<1>1. PICK r \in nextUnopened : crate' = [crate EXCEPT ![p] = r]
  BY DEF OpenSelect
<1>2. PICK k \in DOMAIN crates :
        /\ r = crates[k] /\ item[crates[k]] = NoItem
        /\ \A j \in 1..(k - 1) : item[crates[j]] # NoItem
  BY <1>1 DEF nextUnopened
<1>3. /\ UNCHANGED <<crates, item, opened, crafts, owned, floor>>
      /\ pc' = [pc EXCEPT ![p] = "owned"]
  BY DEF OpenSelect, goto, tables
<1>4. /\ Len(crates) \in Nat /\ DOMAIN crates = 1..Len(crates)
      /\ Len(opened) \in Nat /\ DOMAIN opened = 1..Len(opened)
      /\ \A j \in DOMAIN crates : crates[j] \in Referrals
  BY DEF TypeInv, TypeOK
<1>5. k <= Len(opened) + 1
  <2> SUFFICES ASSUME k > Len(opened) + 1 PROVE FALSE
    BY <1>2, <1>4
  <2>1. Len(opened) + 1 \in 1..(k - 1) /\ Len(opened) + 1 \in DOMAIN crates
    BY <1>2, <1>4
  <2>2. PICK i \in DOMAIN opened : opened[i] = crates[Len(opened) + 1]
    BY <1>2, <1>4, <2>1 DEF ReadInv, InOrder
  <2>3. crates[i] = crates[Len(opened) + 1] /\ i \in DOMAIN crates
    BY <1>4, <2>1, <2>2 DEF ReadInv, InOrder
  <2>4. QED
    BY <1>4, <2>1, <2>2, <2>3 DEF ReadInv, InOrder
<1>6. pc'[p] = "owned" /\ crate'[p] = crates[k]
  BY <1>1, <1>2, <1>3 DEF TypeInv, TypeOK
<1>7. \A q \in Procs : q # p => pc'[q] = pc[q] /\ crate'[q] = crate[q]
  BY <1>1, <1>3 DEF TypeInv, TypeOK
<1>8. rolledItems' = rolledItems
  BY <1>3 DEF rolledItems
<1>9. InOrder'
  BY <1>3 DEF ReadInv, InOrder
<1>10. TakesNext'
  BY <1>2, <1>3, <1>4, <1>5, <1>6, <1>7 DEF ReadInv, TakesNext, opening
<1>11. ReadsHold'
  BY <1>3, <1>6, <1>7, <1>8 DEF ReadInv, ReadsHold, opening
<1>12. OwnedIsOwned'
  BY <1>3, <1>6, <1>7, <1>8 DEF ReadInv, OwnedIsOwned, opening
<1>13. QED
  BY <1>9, <1>10, <1>11, <1>12 DEF ReadInv

\* The reads of openCrate before it rolls.
LEMMA ReadReads ==
    ASSUME TypeInv, ReadInv, NEW p \in Procs, OpenOwned(p) \/ OpenCrafted(p) \/ OpenPity(p)
    PROVE  ReadInv'
<1>1. UNCHANGED <<crates, item, opened, crafts, crate>>
  BY DEF OpenOwned, OpenCrafted, OpenPity, tables
<1>2. rolledItems' = rolledItems
  BY <1>1 DEF rolledItems
<1>3. \A q \in Procs : q # p => pc'[q] = pc[q] /\ owned'[q] = owned[q] /\ floor'[q] = floor[q]
  BY DEF OpenOwned, OpenCrafted, OpenPity, goto, TypeInv, TypeOK
<1>4. opening(p)
  BY DEF OpenOwned, OpenCrafted, OpenPity, opening
<1>5. InOrder'
  BY <1>1 DEF ReadInv, InOrder
<1>6. TakesNext'
  BY <1>1, <1>3, <1>4 DEF ReadInv, TakesNext, opening
<1>7. /\ Range(rolledItems) \subseteq owned'[p] \/ item[crate[p]] # NoItem
      /\ owned'[p] \subseteq Range(rolledItems) \cup crafts
      /\ pc'[p] = "update" => floor'[p] = pityFloor(rolledItems)
  <2>1. CASE OpenOwned(p)
    BY <2>1 DEF OpenOwned, goto, TypeInv, TypeOK
  <2>2. CASE OpenCrafted(p)
    <3>1. owned'[p] = owned[p] \cup crafts /\ pc'[p] = "pity" /\ pc[p] = "crafted"
      BY <2>2 DEF OpenCrafted, goto, TypeInv, TypeOK
    <3>2. QED
      BY <1>4, <3>1 DEF ReadInv, ReadsHold, OwnedIsOwned
  <2>3. CASE OpenPity(p)
    <3>1. owned'[p] = owned[p] /\ floor'[p] = pityFloor(rolledItems) /\ pc[p] = "pity"
      BY <2>3 DEF OpenPity, TypeInv, TypeOK
    <3>2. QED
      BY <1>4, <3>1 DEF ReadInv, ReadsHold, OwnedIsOwned
  <2>4. QED
    BY <2>1, <2>2, <2>3
<1>8. ReadsHold'
  BY <1>1, <1>2, <1>3, <1>7 DEF ReadInv, ReadsHold, opening
<1>9. OwnedIsOwned'
  BY <1>1, <1>2, <1>3, <1>7 DEF ReadInv, OwnedIsOwned, opening
<1>10. QED
  BY <1>5, <1>6, <1>8, <1>9 DEF ReadInv

\* The UPDATE of openCrate finds the crate closed and writes item i.
writes(p, i) ==
    /\ pc[p] = "update" /\ i \in drops(owned[p], floor[p]) /\ item[crate[p]] = NoItem
    /\ item' = [item EXCEPT ![crate[p]] = i]
    /\ shards' = [shards EXCEPT ![crate[p]] =
                     IF i \in owned[p] THEN ShardsFor[Rank[i]] ELSE 0]
    /\ opened' = Append(opened, crate[p])
    /\ told' = told \cup {<<crate[p], i>>}
    /\ Return(p)
    /\ UNCHANGED <<account, crates, recent, crafts, erased>>

\* An UPDATE writes, or finds the crate opened and leaves the tables alone.
LEMMA UpdateCases ==
    ASSUME NEW p \in Procs, OpenUpdate(p)
    PROVE  \/ \E i \in Items : writes(p, i)
           \/ Return(p) /\ UNCHANGED <<tables, told, erased>>
<1>1. PICK i \in drops(owned[p], floor[p]) :
        IF stillClosed(crate[p])
        THEN /\ item' = [item EXCEPT ![crate[p]] = i]
             /\ shards' = [shards EXCEPT ![crate[p]] =
                              IF i \in owned[p] THEN ShardsFor[Rank[i]] ELSE 0]
             /\ opened' = Append(opened, crate[p])
             /\ told' = told \cup {<<crate[p], i>>}
        ELSE UNCHANGED <<item, shards, opened, told>>
  BY DEF OpenUpdate
<1>2. i \in Items
  BY <1>1 DEF drops
<1>3. CASE stillClosed(crate[p])
  <2>1. writes(p, i)
    BY <1>1, <1>3 DEF writes, OpenUpdate, stillClosed
  <2>2. QED
    BY <1>2, <2>1
<1>4. CASE ~stillClosed(crate[p])
  BY <1>1, <1>4 DEF OpenUpdate, tables
<1>5. QED
  BY <1>3, <1>4

\* The crate written is the next in order, and the others stay as they are.
LEMMA WriteFacts ==
    ASSUME TypeInv, ReadInv, NEW p \in Procs, NEW i \in Items, writes(p, i)
    PROVE  /\ crate[p] \in Referrals
           /\ Len(opened) \in Nat /\ DOMAIN opened = 1..Len(opened)
           /\ Len(opened') = Len(opened) + 1 /\ DOMAIN opened' = 1..(Len(opened) + 1)
           /\ Len(opened) + 1 \in DOMAIN crates /\ crates[Len(opened) + 1] = crate[p]
           /\ opened'[Len(opened) + 1] = crate[p]
           /\ \A k \in 1..Len(opened) :
                 opened'[k] = opened[k] /\ opened[k] \in Referrals /\ opened[k] # crate[p]
           /\ item'[crate[p]] = i
           /\ \A r \in Referrals : r # crate[p] => item'[r] = item[r] /\ shards'[r] = shards[r]
           /\ shards'[crate[p]] = IF i \in owned[p] THEN ShardsFor[Rank[i]] ELSE 0
<1>1. crate[p] \in Referrals /\ opening(p)
  BY DEF writes, TypeInv, LocalsSet, opening
<1>2. opened \in Seq(Referrals) /\ crates \in Seq(Referrals) /\ opened' = Append(opened, crate[p])
  BY DEF TypeInv, TypeOK, writes
<1>3. /\ Len(opened) \in Nat /\ DOMAIN opened = 1..Len(opened)
      /\ Len(opened') = Len(opened) + 1 /\ DOMAIN opened' = 1..(Len(opened) + 1)
      /\ opened'[Len(opened) + 1] = crate[p]
      /\ \A k \in 1..Len(opened) : opened'[k] = opened[k]
  BY <1>1, <1>2, AppendFacts
<1>4. \A k \in 1..Len(opened) : opened[k] \in Referrals /\ item[opened[k]] # NoItem
  <2>1. \A k \in 1..Len(opened) : item[opened[k]] \in Items
    BY <1>3 DEF TypeInv, Filled
  <2>2. \A k \in 1..Len(opened) : opened[k] \in Referrals
    BY <1>2
  <2>3. NoItem \notin Items
    BY RewardsAssumption
  <2>4. QED
    BY <2>1, <2>2, <2>3
<1>5. Len(crates) \in Nat /\ DOMAIN crates = 1..Len(crates)
  BY <1>2
<1>6. \A k \in 1..Len(opened) : opened[k] # crate[p]
  BY <1>4 DEF writes
<1>7. Len(opened) + 1 \in DOMAIN crates /\ crates[Len(opened) + 1] = crate[p]
  <2>1. PICK k \in 1..Len(crates) : k <= Len(opened) + 1 /\ crates[k] = crate[p]
    BY <1>1 DEF ReadInv, TakesNext
  <2>2. k \notin 1..Len(opened)
    BY <1>3, <1>6, <2>1 DEF ReadInv, InOrder
  <2>3. k = Len(opened) + 1
    BY <1>3, <1>5, <2>1, <2>2
  <2>4. QED
    BY <1>5, <2>1, <2>3
<1>8. /\ item'[crate[p]] = i
      /\ \A r \in Referrals : r # crate[p] => item'[r] = item[r]
  BY <1>1 DEF writes, TypeInv, TypeOK
<1>9. /\ shards'[crate[p]] = IF i \in owned[p] THEN ShardsFor[Rank[i]] ELSE 0
      /\ \A r \in Referrals : r # crate[p] => shards'[r] = shards[r]
  BY <1>1 DEF writes, TypeInv, TypeOK
<1>10. QED
  BY <1>1, <1>3, <1>4, <1>6, <1>7, <1>8, <1>9

\* The item written is read as rolled from then on, after the others.
LEMMA WriteRolls ==
    ASSUME TypeInv, ReadInv, NEW p \in Procs, NEW i \in Items, writes(p, i)
    PROVE  /\ \A k \in 1..Len(opened) : rolledItems'[k] = rolledItems[k]
           /\ rolledItems'[Len(opened) + 1] = i
           /\ Range(rolledItems') = Range(rolledItems) \cup {i}
<1>1. /\ \A k \in 1..Len(opened) : rolledItems'[k] = rolledItems[k]
      /\ rolledItems'[Len(opened) + 1] = i
  BY WriteFacts DEF rolledItems
<1>2. DOMAIN rolledItems = 1..Len(opened) /\ DOMAIN rolledItems' = 1..(Len(opened) + 1)
  BY WriteFacts DEF rolledItems
<1>3. Len(opened) \in Nat
  BY WriteFacts
<1>4. \A x : x \in Range(rolledItems) <=> \E k \in 1..Len(opened) : rolledItems[k] = x
  BY <1>2 DEF Range
<1>5. \A x : x \in Range(rolledItems') <=> \E k \in 1..(Len(opened) + 1) : rolledItems'[k] = x
  BY <1>2 DEF Range
<1>6. \A k : k \in 1..(Len(opened) + 1) <=> k \in 1..Len(opened) \/ k = Len(opened) + 1
  BY <1>3
<1>7. QED
  BY <1>1, <1>4, <1>5, <1>6

\* Writing the next crate makes the reads of every other handler worthless
\* and its crate opened.
LEMMA ReadWrite ==
    ASSUME TypeInv, ReadInv, NEW p \in Procs, NEW i \in Items, writes(p, i)
    PROVE  ReadInv'
<1>1. crates' = crates /\ crafts' = crafts
  BY DEF writes
<1>2. \A q \in Procs : opening(q)' =>
        /\ q # p /\ opening(q)
        /\ pc'[q] = pc[q] /\ crate'[q] = crate[q] /\ owned'[q] = owned[q] /\ floor'[q] = floor[q]
  BY ReturnQuiet DEF writes, opening
<1>3. \A q \in Procs : opening(q) => crate[q] \in Referrals
  BY DEF opening, TypeInv, LocalsSet
<1>4. Len(crates) \in Nat /\ DOMAIN crates = 1..Len(crates)
  BY DEF TypeInv, TypeOK
<1>5. InOrder'
  <2>1. \A k \in DOMAIN opened' : opened'[k] = crates[k]
    BY WriteFacts DEF ReadInv, InOrder
  <2>2. ASSUME NEW r \in Referrals, item'[r] # NoItem
        PROVE  \E k \in DOMAIN opened' : opened'[k] = r
    <3>1. CASE r = crate[p]
      BY <3>1, WriteFacts
    <3>2. CASE r # crate[p]
      BY <2>2, <3>2, WriteFacts DEF ReadInv, InOrder
    <3>3. QED
      BY <3>1, <3>2
  <2>3. Len(opened') <= Len(crates)
    BY <1>4, WriteFacts
  <2>4. QED
    BY <1>1, <2>1, <2>2, <2>3 DEF ReadInv, InOrder
<1>6. TakesNext'
  <2> SUFFICES ASSUME NEW q \in Procs, opening(q)'
               PROVE  \E k \in 1..Len(crates') : k <= Len(opened') + 1 /\ crates'[k] = crate'[q]
    BY DEF TakesNext
  <2>1. PICK k \in 1..Len(crates) : k <= Len(opened) + 1 /\ crates[k] = crate[q]
    BY <1>2 DEF ReadInv, TakesNext
  <2>2. Len(opened') = Len(opened) + 1 /\ Len(opened) \in Nat
    BY WriteFacts
  <2>3. QED
    BY <1>1, <1>2, <1>4, <2>1, <2>2
<1>7. ReadsHold'
  <2>1. ASSUME NEW q \in Procs, opening(q)' PROVE item'[crate'[q]] # NoItem
    <3>1. PICK k \in 1..Len(crates) : k <= Len(opened) + 1 /\ crates[k] = crate[q]
      BY <1>2, <2>1 DEF ReadInv, TakesNext
    <3>2. Len(opened) \in Nat /\ crates[Len(opened) + 1] = crate[p] /\ item'[crate[p]] = i
      BY WriteFacts
    <3>3. CASE k = Len(opened) + 1
      BY <1>2, <2>1, <3>1, <3>2, <3>3, RewardsAssumption
    <3>4. CASE k \in 1..Len(opened)
      <4>1. opened[k] = crate[q] /\ opened[k] # crate[p] /\ crate[q] \in Referrals
        BY <1>2, <1>3, <2>1, <3>1, <3>4, WriteFacts DEF ReadInv, InOrder
      <4>2. item'[crate[q]] = item[crate[q]] /\ item[crate[q]] # NoItem
        BY <3>4, <4>1, WriteFacts, RewardsAssumption DEF TypeInv, Filled
      <4>3. QED
        BY <1>2, <2>1, <4>2
    <3>5. QED
      BY <1>4, <3>1, <3>2, <3>3, <3>4
  <2>2. QED
    BY <2>1 DEF ReadsHold
<1>8. OwnedIsOwned'
  BY <1>1, <1>2, WriteRolls DEF ReadInv, OwnedIsOwned
<1>9. QED
  BY <1>5, <1>6, <1>7, <1>8 DEF ReadInv

\* No crate is opened at first, and nobody is opening one.
LEMMA ReadInit == Init => ReadInv
BY DEF Init, ReadInv, InOrder, TakesNext, ReadsHold, OwnedIsOwned, opening

\* Every step keeps what the opening handlers rely on.
LEMMA ReadStep == TypeInv /\ ReadInv /\ [Next]_vars => ReadInv'
<1> SUFFICES ASSUME TypeInv, ReadInv, [Next]_vars PROVE ReadInv'
  OBVIOUS
<1>1. ASSUME NEW r \in Referrals, Register(r) \/ DeleteAccount(r) PROVE ReadInv'
  BY <1>1, ReadQuiet DEF Register, DeleteAccount, locals
<1>2. CASE Age
  BY <1>2, ReadQuiet DEF Age, locals
<1>3. ASSUME NEW p \in Procs, NEW r \in Referrals, Verify(p, r) PROVE ReadInv'
  <2>1. \A q \in Procs : opening(q)' => pc'[q] = pc[q]
    BY <1>3 DEF Verify, goto, opening, TypeInv, TypeOK
  <2>2. QED
    BY <1>3, <2>1, ReadQuiet DEF Verify, locals
<1>4. ASSUME NEW p \in Procs, readCands(p) PROVE ReadInv'
  <2>1. \A q \in Procs : opening(q)' => pc'[q] = pc[q]
    BY <1>4 DEF readCands, goto, opening, TypeInv, TypeOK
  <2>2. QED
    BY <1>4, <2>1, ReadQuiet DEF readCands, tables
<1>5. ASSUME NEW p \in Procs, SyncToday(p) PROVE ReadInv'
  <2>1. CASE underDayCap
    <3>1. PICK r \in cands[p] :
            /\ crate' = [crate EXCEPT ![p] = r]
            /\ goto(p, IF SignupIP[r] = NoIP THEN "grant" ELSE "ip")
            /\ UNCHANGED <<owned, floor, want, gained>>
      BY <1>5, <2>1 DEF SyncToday
    <3>2. \A q \in Procs : opening(q)' => pc'[q] = pc[q] /\ crate'[q] = crate[q]
      BY <3>1 DEF goto, opening, TypeInv, TypeOK
    <3>3. QED
      BY <1>5, <3>1, <3>2, ReadQuiet DEF SyncToday, tables
  <2>2. CASE ~underDayCap
    BY <1>5, <2>2, ReadQuiet, ReturnQuiet DEF SyncToday, tables
  <2>3. QED
    BY <2>1, <2>2
<1>6. ASSUME NEW p \in Procs, SyncIP(p) PROVE ReadInv'
  <2>1. CASE underIPCap(SignupIP[crate[p]])
    <3>1. \A q \in Procs : opening(q)' => pc'[q] = pc[q]
      BY <1>6, <2>1 DEF SyncIP, goto, opening, TypeInv, TypeOK
    <3>2. QED
      BY <1>6, <2>1, <3>1, ReadQuiet DEF SyncIP, tables, locals
  <2>2. CASE ~underIPCap(SignupIP[crate[p]])
    BY <1>6, <2>2, ReadQuiet, ReturnQuiet DEF SyncIP, tables
  <2>3. QED
    BY <2>1, <2>2
<1>7. ASSUME NEW p \in Procs, OpenUpdate(p) PROVE ReadInv'
  <2>1. CASE \E i \in Items : writes(p, i)
    BY <2>1, ReadWrite
  <2>2. CASE Return(p) /\ UNCHANGED <<tables, told, erased>>
    BY <2>2, ReadQuiet, ReturnQuiet DEF tables
  <2>3. QED
    BY <1>7, <2>1, <2>2, UpdateCases
<1>8. ASSUME NEW p \in Procs, NEW i \in Items, CraftOwned(p, i) PROVE ReadInv'
  <2>1. \A q \in Procs : opening(q)' => pc'[q] = pc[q]
    BY <1>8 DEF CraftOwned, goto, opening, TypeInv, TypeOK
  <2>2. QED
    BY <1>8, <2>1, ReadQuiet DEF CraftOwned, tables
<1>9. ASSUME NEW p \in Procs, CraftHave(p) \/ CraftSpent(p) PROVE ReadInv'
  <2>1. \/ Return(p)
        \/ (goto(p, "gained") \/ goto(p, "insert")) /\ UNCHANGED locals
    BY <1>9 DEF CraftHave, CraftSpent
  <2>2. UNCHANGED tables
    BY <1>9 DEF CraftHave, CraftSpent
  <2>3. CASE Return(p)
    BY <2>2, <2>3, ReadQuiet, ReturnQuiet DEF tables
  <2>4. CASE (goto(p, "gained") \/ goto(p, "insert")) /\ UNCHANGED locals
    <3>1. \A q \in Procs : opening(q)' => pc'[q] = pc[q]
      BY <2>4 DEF goto, opening, TypeInv, TypeOK
    <3>2. QED
      BY <2>2, <2>4, <3>1, ReadQuiet DEF tables, locals
  <2>5. QED
    BY <2>1, <2>3, <2>4
<1>10. ASSUME NEW p \in Procs, CraftGained(p) PROVE ReadInv'
  <2>1. \A q \in Procs : opening(q)' => pc'[q] = pc[q]
    BY <1>10 DEF CraftGained, goto, opening, TypeInv, TypeOK
  <2>2. QED
    BY <1>10, <2>1, ReadQuiet DEF CraftGained, tables
<1>11. ASSUME NEW p \in Procs, CraftInsert(p) PROVE ReadInv'
  BY <1>11, ReadQuiet, ReturnQuiet DEF CraftInsert
<1>12. ASSUME NEW p \in Procs, WriteRefused(p) PROVE ReadInv'
  <2>1. Return(p) \/ NextTurn(p)
    BY <1>12 DEF WriteRefused
  <2>2. QED
    BY <1>12, <2>1, ReadQuiet, ReturnQuiet DEF WriteRefused, tables
<1>13. CASE UNCHANGED vars
  BY <1>13, ReadQuiet DEF vars, tables, locals
<1>14. QED
  BY <1>1, <1>2, <1>3, <1>4, <1>5, <1>6, <1>7, <1>8, <1>9, <1>10, <1>11, <1>12, <1>13,
     ReadGrant, ReadSelect, ReadReads
     DEF Next, Sync, Open, Craft, SyncSelect, GetReferralStats

\* Only the UPDATE of openCrate changes what crates hold.
LEMMA OnlyWrites ==
    ASSUME [Next]_vars
    PROVE  \/ \E p \in Procs, i \in Items : writes(p, i)
           \/ UNCHANGED <<item, shards, opened, told>> /\ crafts \subseteq crafts'
<1>1. CASE \E r \in Referrals : Register(r) \/ DeleteAccount(r)
  BY <1>1 DEF Register, DeleteAccount
<1>2. CASE Age
  BY <1>2 DEF Age
<1>3. ASSUME NEW p \in Procs, NEW r \in Referrals, Verify(p, r)
      PROVE  UNCHANGED <<item, shards, opened, told>> /\ crafts \subseteq crafts'
  BY <1>3 DEF Verify
<1>4. ASSUME NEW p \in Procs, readCands(p) \/ SyncToday(p) \/ SyncIP(p) \/ SyncGrant(p)
      PROVE  UNCHANGED <<item, shards, opened, told>> /\ crafts \subseteq crafts'
  BY <1>4 DEF readCands, SyncToday, SyncIP, SyncGrant, tables
<1>5. ASSUME NEW p \in Procs, OpenSelect(p) \/ OpenOwned(p) \/ OpenCrafted(p) \/ OpenPity(p)
      PROVE  UNCHANGED <<item, shards, opened, told>> /\ crafts \subseteq crafts'
  BY <1>5 DEF OpenSelect, OpenOwned, OpenCrafted, OpenPity, tables
<1>6. ASSUME NEW p \in Procs, OpenUpdate(p)
      PROVE  \/ \E i \in Items : writes(p, i)
             \/ UNCHANGED <<item, shards, opened, told>> /\ crafts \subseteq crafts'
  BY <1>6, UpdateCases DEF tables
<1>7. ASSUME NEW p \in Procs, Craft(p) \/ WriteRefused(p)
      PROVE  UNCHANGED <<item, shards, opened, told>> /\ crafts \subseteq crafts'
  BY <1>7 DEF Craft, CraftOwned, CraftHave, CraftGained, CraftSpent, CraftInsert, WriteRefused, tables
<1>8. CASE UNCHANGED vars
  BY <1>8 DEF vars, tables
<1>9. QED
  BY <1>1, <1>2, <1>3, <1>4, <1>5, <1>6, <1>7, <1>8
     DEF Next, Sync, Open, SyncSelect, GetReferralStats

\* A racing second open cannot double-spend a crate.
THEOREM ToldKept == Spec => []ToldIsKept
<1>1. Init => ToldIsKept
  BY DEF Init, ToldIsKept
<1>2. TypeInv /\ ReadInv /\ ToldIsKept /\ [Next]_vars => ToldIsKept'
  <2> SUFFICES ASSUME TypeInv, ReadInv, ToldIsKept, [Next]_vars PROVE ToldIsKept'
    OBVIOUS
  <2>1. ASSUME NEW p \in Procs, NEW i \in Items, writes(p, i) PROVE ToldIsKept'
    <3> SUFFICES ASSUME NEW t \in told' PROVE item'[t[1]] = t[2]
      BY DEF ToldIsKept
    <3>1. CASE t = <<crate[p], i>>
      BY <2>1, <3>1, WriteFacts
    <3>2. CASE t \in told
      <4>1. t[1] \in Referrals /\ t[2] \in Items /\ item[t[1]] = t[2]
        BY <3>2 DEF TypeInv, TypeOK, ToldIsKept
      <4>2. t[1] # crate[p]
        BY <2>1, <4>1, RewardsAssumption DEF writes
      <4>3. QED
        BY <2>1, <4>1, <4>2, WriteFacts
    <3>3. QED
      BY <2>1, <3>1, <3>2 DEF writes
  <2>2. CASE UNCHANGED <<item, shards, opened, told>>
    BY <2>2 DEF ToldIsKept
  <2>3. QED
    BY <2>1, <2>2, OnlyWrites
<1>3. QED
  BY <1>1, <1>2, TypeInit, TypeStep, ReadInit, ReadStep, PTL DEF Spec

\* The pity floor holds, whatever sessions open crates at the same time.
THEOREM PityHolds == Spec => []PityKept
<1>1. Init => PityKept
  BY DEF Init, PityKept
<1>2. TypeInv /\ ReadInv /\ PityKept /\ [Next]_vars => PityKept'
  <2> SUFFICES ASSUME TypeInv, ReadInv, PityKept, [Next]_vars PROVE PityKept'
    OBVIOUS
  <2>1. ASSUME NEW p \in Procs, NEW i \in Items, writes(p, i) PROVE PityKept'
    <3> USE RewardsAssumption
    <3>1. /\ Len(opened) \in Nat /\ DOMAIN opened = 1..Len(opened)
          /\ DOMAIN opened' = 1..(Len(opened) + 1)
      BY <2>1, WriteFacts
    <3>2. \A k \in 1..Len(opened) : item'[opened'[k]] = item[opened[k]]
      BY <2>1, WriteFacts
    <3>3. item'[opened'[Len(opened) + 1]] = i /\ Rank[i] \in 0..3
      BY <2>1, WriteFacts
    <3>4. Rank[i] >= pityFloor(rolledItems)
      BY <2>1 DEF writes, drops, opening, ReadInv, ReadsHold
    <3>5. /\ rolledItems \in Seq(Items) /\ Len(rolledItems) = Len(opened)
          /\ \A k \in 1..Len(opened) : rolledItems[k] = item[opened[k]] /\ Rank[rolledItems[k]] \in 0..3
      <4>1. \A k \in 1..Len(opened) : rolledItems[k] = item[opened[k]]
        BY <3>1 DEF rolledItems
      <4>2. \A k \in 1..Len(opened) : item[opened[k]] \in Items
        BY <3>1 DEF TypeInv, Filled
      <4>3. QED
        BY <4>1, <4>2, RolledAreItems
    <3>6. Len(opened) + 1 > PityRareAfter =>
             \E j \in (Len(opened) + 1 - PityRareAfter)..(Len(opened) + 1) :
                 Rank[item'[opened'[j]]] >= 1
      <4> SUFFICES ASSUME Len(opened) + 1 > PityRareAfter,
                          \A j \in (Len(opened) + 1 - PityRareAfter)..(Len(opened) + 1) :
                              ~(Rank[item'[opened'[j]]] >= 1)
                   PROVE  FALSE
        OBVIOUS
      <4>1. ~(Rank[i] >= 1)
        BY <3>1, <3>3
      <4>2. \A j \in (Len(opened) - PityRareAfter + 1)..Len(opened) :
               /\ j \in 1..Len(opened)
               /\ j \in (Len(opened) + 1 - PityRareAfter)..(Len(opened) + 1)
        BY <3>1
      <4>3. ASSUME NEW j \in (Len(opened) - PityRareAfter + 1)..Len(opened)
            PROVE  Rank[rolledItems[j]] < 1
        <5>1. rolledItems[j] = item'[opened'[j]] /\ Rank[rolledItems[j]] \in 0..3
          BY <3>2, <3>5, <4>2
        <5>2. ~(Rank[rolledItems[j]] >= 1)
          BY <4>2, <5>1
        <5>3. QED
          BY <5>1, <5>2
      <4>4. streak(rolledItems, 1, PityRareAfter)
        BY <3>1, <3>5, <4>3 DEF streak
      <4>5. pityFloor(rolledItems) >= 1
        BY <4>4 DEF pityFloor
      <4>6. pityFloor(rolledItems) \in 0..2
        BY DEF pityFloor
      <4>7. QED
        BY <3>3, <3>4, <4>1, <4>5, <4>6
    <3>7. Len(opened) + 1 > PityEpicAfter =>
             \E j \in (Len(opened) + 1 - PityEpicAfter)..(Len(opened) + 1) :
                 Rank[item'[opened'[j]]] >= 2
      <4> SUFFICES ASSUME Len(opened) + 1 > PityEpicAfter,
                          \A j \in (Len(opened) + 1 - PityEpicAfter)..(Len(opened) + 1) :
                              ~(Rank[item'[opened'[j]]] >= 2)
                   PROVE  FALSE
        OBVIOUS
      <4>1. ~(Rank[i] >= 2)
        BY <3>1, <3>3
      <4>2. \A j \in (Len(opened) - PityEpicAfter + 1)..Len(opened) :
               /\ j \in 1..Len(opened)
               /\ j \in (Len(opened) + 1 - PityEpicAfter)..(Len(opened) + 1)
        BY <3>1
      <4>3. ASSUME NEW j \in (Len(opened) - PityEpicAfter + 1)..Len(opened)
            PROVE  Rank[rolledItems[j]] < 2
        <5>1. rolledItems[j] = item'[opened'[j]] /\ Rank[rolledItems[j]] \in 0..3
          BY <3>2, <3>5, <4>2
        <5>2. ~(Rank[rolledItems[j]] >= 2)
          BY <4>2, <5>1
        <5>3. QED
          BY <5>1, <5>2
      <4>4. streak(rolledItems, 2, PityEpicAfter)
        BY <3>1, <3>5, <4>3 DEF streak
      <4>5. pityFloor(rolledItems) = 2
        BY <4>4 DEF pityFloor
      <4>6. QED
        BY <3>3, <3>4, <4>1, <4>5
    <3>8. ASSUME NEW k \in 1..Len(opened)
          PROVE  /\ k > PityRareAfter =>
                       \E j \in (k - PityRareAfter)..k : Rank[item'[opened'[j]]] >= 1
                 /\ k > PityEpicAfter =>
                       \E j \in (k - PityEpicAfter)..k : Rank[item'[opened'[j]]] >= 2
      <4>1. \A n \in Nat : k > n => (k - n)..k \subseteq 1..Len(opened)
        BY <3>1, <3>8
      <4>2. /\ k > PityRareAfter => \E j \in (k - PityRareAfter)..k : Rank[item[opened[j]]] >= 1
            /\ k > PityEpicAfter => \E j \in (k - PityEpicAfter)..k : Rank[item[opened[j]]] >= 2
        BY <3>1 DEF PityKept
      <4>3. QED
        BY <3>2, <4>1, <4>2
    <3>9. \A k \in DOMAIN opened' : k \in 1..Len(opened) \/ k = Len(opened) + 1
      BY <3>1
    <3>10. ASSUME NEW k \in DOMAIN opened'
           PROVE  /\ k > PityRareAfter =>
                        \E j \in (k - PityRareAfter)..k : Rank[item'[opened'[j]]] >= 1
                  /\ k > PityEpicAfter =>
                        \E j \in (k - PityEpicAfter)..k : Rank[item'[opened'[j]]] >= 2
      <4>1. CASE k \in 1..Len(opened)
        BY <3>8, <4>1
      <4>2. CASE k = Len(opened) + 1
        BY <3>6, <3>7, <4>2
      <4>3. QED
        BY <3>9, <4>1, <4>2
    <3>11. QED
      BY <3>10, Zenon DEF PityKept
  <2>2. CASE UNCHANGED <<item, shards, opened, told>>
    BY <2>2 DEF PityKept
  <2>3. QED
    BY <2>1, <2>2, OnlyWrites
<1>3. QED
  BY <1>1, <1>2, TypeInit, TypeStep, ReadInit, ReadStep, PTL DEF Spec

\* Duplicates pay shards, and come only from a complete rarity.
THEOREM DuplicatesPay == Spec => []DuplicatesPaid
<1>1. Init => DuplicatesPaid
  BY DEF Init, DuplicatesPaid
<1>2. TypeInv /\ ReadInv /\ DuplicatesPaid /\ [Next]_vars => DuplicatesPaid'
  <2> SUFFICES ASSUME TypeInv, ReadInv, DuplicatesPaid, [Next]_vars PROVE DuplicatesPaid'
    OBVIOUS
  <2>1. ASSUME NEW p \in Procs, NEW i \in Items, writes(p, i) PROVE DuplicatesPaid'
    <3>1. /\ Len(opened) \in Nat /\ DOMAIN opened = 1..Len(opened)
          /\ DOMAIN opened' = 1..(Len(opened) + 1)
          /\ opened'[Len(opened) + 1] = crate[p] /\ item'[crate[p]] = i
      BY <2>1, WriteFacts
    <3>2. \A k \in 1..Len(opened) :
            /\ opened'[k] = opened[k]
            /\ item'[opened[k]] = item[opened[k]] /\ shards'[opened[k]] = shards[opened[k]]
      BY <2>1, WriteFacts
    <3>3. Range(rolledItems') = Range(rolledItems) \cup {i} /\ crafts' = crafts
      BY <2>1, WriteRolls DEF writes
    <3>4. Range(rolledItems) \subseteq owned[p] /\ owned[p] \subseteq Range(rolledItems) \cup crafts
      BY <2>1 DEF writes, opening, ReadInv, ReadsHold, OwnedIsOwned
    <3>5. ASSUME NEW k \in 1..Len(opened)
          PROVE  /\ (\E j \in 1..(k - 1) : item'[opened'[j]] = item'[opened'[k]])
                      => shards'[opened'[k]] > 0
                 /\ shards'[opened'[k]] > 0
                      => complete(Range(rolledItems') \cup crafts', Rank[item'[opened'[k]]])
      <4>1. 1..(k - 1) \subseteq 1..Len(opened)
        BY <3>1, <3>5
      <4>2. /\ (\E j \in 1..(k - 1) : item[opened[j]] = item[opened[k]]) => shards[opened[k]] > 0
            /\ shards[opened[k]] > 0
                  => complete(Range(rolledItems) \cup crafts, Rank[item[opened[k]]])
        BY <3>1 DEF DuplicatesPaid
      <4>3. QED
        BY <3>2, <3>3, <4>1, <4>2 DEF complete
    <3>6. (\E j \in 1..Len(opened) : item'[opened'[j]] = i) => shards'[crate[p]] > 0
      <4> SUFFICES ASSUME NEW j \in 1..Len(opened), item'[opened'[j]] = i
                   PROVE  shards'[crate[p]] > 0
        OBVIOUS
      <4>1. rolledItems[j] = i /\ j \in DOMAIN rolledItems
        BY <3>1, <3>2 DEF rolledItems
      <4>2. i \in owned[p]
        BY <3>4, <4>1 DEF Range
      <4>3. shards'[crate[p]] = ShardsFor[Rank[i]]
        BY <2>1, <4>2, WriteFacts
      <4>4. QED
        BY <4>3, RewardsAssumption
    <3>7. shards'[crate[p]] > 0 => complete(Range(rolledItems') \cup crafts', Rank[i])
      <4> SUFFICES ASSUME shards'[crate[p]] > 0
                   PROVE  complete(Range(rolledItems') \cup crafts', Rank[i])
        OBVIOUS
      <4>1. i \in owned[p]
        BY <2>1, WriteFacts
      <4>2. complete(owned[p], Rank[i])
        BY <2>1, <4>1 DEF writes, drops
      <4>3. QED
        BY <3>3, <3>4, <4>2 DEF complete
    <3>8. \A k \in DOMAIN opened' : k \in 1..Len(opened) \/ k = Len(opened) + 1
      BY <3>1
    <3>9. 1..(Len(opened) + 1 - 1) = 1..Len(opened)
      BY <3>1
    <3>10. ASSUME NEW k \in DOMAIN opened'
           PROVE  /\ (\E j \in 1..(k - 1) : item'[opened'[j]] = item'[opened'[k]])
                       => shards'[opened'[k]] > 0
                  /\ shards'[opened'[k]] > 0
                       => complete(Range(rolledItems') \cup crafts', Rank[item'[opened'[k]]])
      <4>1. CASE k \in 1..Len(opened)
        BY <3>5, <4>1
      <4>2. CASE k = Len(opened) + 1
        BY <3>1, <3>6, <3>7, <3>9, <4>2
      <4>3. QED
        BY <3>8, <4>1, <4>2
    <3>11. QED
      BY <3>10, Zenon DEF DuplicatesPaid
  <2>2. CASE UNCHANGED <<item, shards, opened, told>> /\ crafts \subseteq crafts'
    <3>1. rolledItems' = rolledItems
      BY <2>2 DEF rolledItems
    <3>2. QED
      BY <2>2, <3>1 DEF DuplicatesPaid, complete
  <2>3. QED
    BY <2>1, <2>2, OnlyWrites
<1>3. QED
  BY <1>1, <1>2, TypeInit, TypeStep, ReadInit, ReadStep, PTL DEF Spec

-----------------------------------------------------------------------------
(* The two limits.  A handler that has passed a limit and not yet granted  *)
(* its crate counts as if it had: that sum grows only when a handler       *)
(* passes the limit, which it does while the crates are below it.          *)

\* Crates and handlers that shrink.
LEMMA CountShrinks ==
    ASSUME NEW S, NEW Q, IsFiniteSet(S), IsFiniteSet(Q),
           NEW A \in SUBSET S, NEW B \in SUBSET Q
    PROVE  /\ Cardinality(A) \in Nat /\ Cardinality(B) \in Nat
           /\ Cardinality(S) \in Nat /\ Cardinality(Q) \in Nat
           /\ Cardinality(A) <= Cardinality(S) /\ Cardinality(B) <= Cardinality(Q)
           /\ Cardinality(A) + Cardinality(B) <= Cardinality(S) + Cardinality(Q)
<1>1. IsFiniteSet(A) /\ Cardinality(A) <= Cardinality(S)
  BY FS_Subset
<1>2. IsFiniteSet(B) /\ Cardinality(B) <= Cardinality(Q)
  BY FS_Subset
<1>3. /\ Cardinality(A) \in Nat /\ Cardinality(B) \in Nat
      /\ Cardinality(S) \in Nat /\ Cardinality(Q) \in Nat
  BY <1>1, <1>2, FS_CardinalityType
<1>4. QED
  BY <1>1, <1>2, <1>3

\* A crate more for a handler less.
LEMMA CountMoves ==
    ASSUME NEW S, NEW Q, IsFiniteSet(S), IsFiniteSet(Q), NEW x, NEW p \in Q,
           NEW A \in SUBSET (S \cup {x}), NEW B \in SUBSET (Q \ {p})
    PROVE  Cardinality(A) + Cardinality(B) <= Cardinality(S) + Cardinality(Q)
<1>1. IsFiniteSet(S \cup {x}) /\ Cardinality(S \cup {x}) <= Cardinality(S) + 1
  <2>1. Cardinality(S) \in Nat
    BY FS_CardinalityType
  <2>2. /\ IsFiniteSet(S \cup {x})
        /\ Cardinality(S \cup {x}) = IF x \in S THEN Cardinality(S) ELSE Cardinality(S) + 1
    BY FS_AddElement
  <2>3. QED
    BY <2>1, <2>2
<1>2. IsFiniteSet(Q \ {p}) /\ Cardinality(Q \ {p}) = Cardinality(Q) - 1
  BY FS_RemoveElement
<1>3. Cardinality(A) \in Nat /\ Cardinality(A) <= Cardinality(S \cup {x})
  BY <1>1, FS_Subset, FS_CardinalityType
<1>4. Cardinality(B) \in Nat /\ Cardinality(B) <= Cardinality(Q \ {p})
  BY <1>2, FS_Subset, FS_CardinalityType
<1>5. /\ Cardinality(S) \in Nat /\ Cardinality(Q) \in Nat
      /\ Cardinality(S \cup {x}) \in Nat /\ Cardinality(Q \ {p}) \in Nat
  BY <1>1, <1>2, FS_CardinalityType
<1>6. QED
  BY <1>1, <1>2, <1>3, <1>4, <1>5

\* Handlers past the daily limit.
granting == {p \in Procs : pc[p] \in {"ip", "grant"}}

DayInv == Cardinality(recent) + Cardinality(granting) <= MaxCratesPerDay - 1 + Cardinality(Procs)

\* The sets that are counted are finite.
LEMMA DayFinite ==
    ASSUME TypeInv
    PROVE  IsFiniteSet(recent) /\ IsFiniteSet(granting) /\ IsFiniteSet(Procs)
<1>1. recent \in SUBSET Referrals /\ granting \in SUBSET Procs
  BY DEF TypeInv, TypeOK, granting
<1>2. QED
  BY <1>1, FS_Subset, RewardsAssumption

\* Steps that pass no daily limit and grant nothing.
LEMMA DayQuiet ==
    ASSUME TypeInv, DayInv, recent' \subseteq recent, granting' \subseteq granting
    PROVE  DayInv'
<1>1. IsFiniteSet(recent) /\ IsFiniteSet(granting) /\ IsFiniteSet(Procs)
  BY DayFinite
<1>2. /\ Cardinality(recent') \in Nat /\ Cardinality(granting') \in Nat
      /\ Cardinality(recent) \in Nat /\ Cardinality(granting) \in Nat
      /\ Cardinality(recent') + Cardinality(granting') <= Cardinality(recent) + Cardinality(granting)
  BY <1>1, CountShrinks
<1>3. Cardinality(Procs) \in Nat
  BY <1>1, FS_CardinalityType
<1>4. QED
  BY <1>2, <1>3, RewardsAssumption DEF DayInv

\* A handler that is not before an INSERT of a crate afterwards.
LEMMA LeavesGranting ==
    ASSUME TypeInv, NEW p \in Procs, Return(p) \/ NextTurn(p)
    PROVE  granting' \subseteq granting \ {p}
BY DEF TypeInv, TypeOK, Return, NextTurn, goto, granting

\* Every step keeps the sum below its limit.
LEMMA DayStep == TypeInv /\ DayInv /\ [Next]_vars => DayInv'
<1> SUFFICES ASSUME TypeInv, DayInv, [Next]_vars PROVE DayInv'
  OBVIOUS
<1>1. ASSUME NEW r \in Referrals, Register(r) \/ DeleteAccount(r) PROVE DayInv'
  BY <1>1, DayQuiet DEF Register, DeleteAccount, granting
<1>2. CASE Age
  BY <1>2, DayQuiet DEF Age, granting
<1>3. ASSUME NEW p \in Procs, NEW r \in Referrals, Verify(p, r) PROVE DayInv'
  <2>1. granting' \subseteq granting
    BY <1>3 DEF Verify, goto, granting, TypeInv, TypeOK
  <2>2. QED
    BY <1>3, <2>1, DayQuiet DEF Verify
<1>4. ASSUME NEW p \in Procs, readCands(p) PROVE DayInv'
  <2>1. granting' \subseteq granting
    BY <1>4 DEF readCands, goto, granting, TypeInv, TypeOK
  <2>2. QED
    BY <1>4, <2>1, DayQuiet DEF readCands, tables
<1>5. ASSUME NEW p \in Procs, SyncToday(p) PROVE DayInv'
  <2>1. recent' = recent /\ IsFiniteSet(recent) /\ IsFiniteSet(Procs)
    BY <1>5, DayFinite DEF SyncToday, tables
  <2>2. CASE underDayCap
    <3>1. granting' \in SUBSET Procs
      BY DEF granting
    <3>2. /\ Cardinality(granting') \in Nat /\ Cardinality(Procs) \in Nat
          /\ Cardinality(granting') <= Cardinality(Procs) /\ Cardinality(recent) \in Nat
      BY <2>1, <3>1, FS_Subset, FS_CardinalityType
    <3>3. QED
      BY <2>1, <2>2, <3>2, RewardsAssumption DEF DayInv, underDayCap
  <2>3. CASE ~underDayCap
    BY <1>5, <2>1, <2>3, DayQuiet, LeavesGranting DEF SyncToday
  <2>4. QED
    BY <2>2, <2>3
<1>6. ASSUME NEW p \in Procs, SyncIP(p) PROVE DayInv'
  <2>1. CASE underIPCap(SignupIP[crate[p]])
    <3>1. granting' \subseteq granting
      BY <1>6, <2>1 DEF SyncIP, goto, granting, TypeInv, TypeOK
    <3>2. QED
      BY <1>6, <3>1, DayQuiet DEF SyncIP, tables
  <2>2. CASE ~underIPCap(SignupIP[crate[p]])
    BY <1>6, <2>2, DayQuiet, LeavesGranting DEF SyncIP, tables
  <2>3. QED
    BY <2>1, <2>2
<1>7. ASSUME NEW p \in Procs, SyncGrant(p) PROVE DayInv'
  <2>1. p \in granting /\ granting' \in SUBSET (granting \ {p})
    BY <1>7, LeavesGranting DEF SyncGrant, granting
  <2>2. recent' \in SUBSET (recent \cup {crate[p]})
    BY <1>7 DEF SyncGrant
  <2>3. IsFiniteSet(recent) /\ IsFiniteSet(granting) /\ IsFiniteSet(Procs)
    BY DayFinite
  <2>4. Cardinality(recent') + Cardinality(granting') <= Cardinality(recent) + Cardinality(granting)
    BY <2>1, <2>2, <2>3, CountMoves
  <2>5. /\ Cardinality(recent) \in Nat /\ Cardinality(granting) \in Nat /\ Cardinality(Procs) \in Nat
    BY <2>3, FS_CardinalityType
  <2>6. IsFiniteSet(recent') /\ IsFiniteSet(granting')
    <3>1. IsFiniteSet(recent \cup {crate[p]}) /\ IsFiniteSet(granting \ {p})
      BY <2>3, FS_AddElement, FS_RemoveElement
    <3>2. QED
      BY <2>1, <2>2, <3>1, FS_Subset
  <2>7. Cardinality(recent') \in Nat /\ Cardinality(granting') \in Nat
    BY <2>6, FS_CardinalityType
  <2>8. QED
    BY <2>4, <2>5, <2>7, RewardsAssumption DEF DayInv
<1>8. ASSUME NEW p \in Procs, Open(p) PROVE DayInv'
  <2>1. granting' \subseteq granting
    BY <1>8, LeavesGranting
       DEF Open, OpenSelect, OpenOwned, OpenCrafted, OpenPity, OpenUpdate, goto, granting, TypeInv, TypeOK
  <2>2. recent' = recent
    BY <1>8 DEF Open, OpenSelect, OpenOwned, OpenCrafted, OpenPity, OpenUpdate, tables
  <2>3. QED
    BY <2>1, <2>2, DayQuiet
<1>9. ASSUME NEW p \in Procs, Craft(p) \/ WriteRefused(p) PROVE DayInv'
  <2>1. granting' \subseteq granting
    BY <1>9, LeavesGranting
       DEF Craft, CraftOwned, CraftHave, CraftGained, CraftSpent, CraftInsert, WriteRefused,
           goto, granting, TypeInv, TypeOK
  <2>2. recent' = recent
    BY <1>9 DEF Craft, CraftOwned, CraftHave, CraftGained, CraftSpent, CraftInsert, WriteRefused, tables
  <2>3. QED
    BY <2>1, <2>2, DayQuiet
<1>10. CASE UNCHANGED vars
  BY <1>10, DayQuiet DEF vars, tables, granting
<1>11. QED
  BY <1>1, <1>2, <1>3, <1>4, <1>5, <1>6, <1>7, <1>8, <1>9, <1>10
     DEF Next, Sync, SyncSelect, GetReferralStats

\* The daily limit is passed by less than one crate for each handler.
THEOREM DayCap == Spec => []DayCapNearlyKept
<1>1. Init => DayInv
  <2> SUFFICES ASSUME Init PROVE DayInv
    OBVIOUS
  <2>1. recent = {} /\ granting = {}
    BY DEF Init, granting
  <2>2. Cardinality(Procs) \in Nat
    BY FS_CardinalityType, RewardsAssumption
  <2>3. QED
    BY <2>1, <2>2, FS_EmptySet, RewardsAssumption DEF DayInv
<1>2. TypeInv /\ DayInv => DayCapNearlyKept
  <2> SUFFICES ASSUME TypeInv, DayInv PROVE DayCapNearlyKept
    OBVIOUS
  <2>1. /\ Cardinality(recent) \in Nat /\ Cardinality(granting) \in Nat /\ Cardinality(Procs) \in Nat
    BY DayFinite, FS_CardinalityType
  <2>2. QED
    BY <2>1, RewardsAssumption DEF DayInv, DayCapNearlyKept
<1>3. QED
  BY <1>1, <1>2, TypeInit, TypeStep, DayStep, PTL DEF Spec

\* Handlers past the limit of an address.
grantingAt(a) == {p \in Procs : pc[p] = "grant" /\ SignupIP[crate[p]] = a}

\* Accounts that have earned a crate, or are about to, exist.
SourcesExist ==
    erased = 0 =>
        /\ \A i \in DOMAIN crates : account[crates[i]] # "none"
        /\ \A p \in Procs : \A r \in cands[p] : account[r] # "none"
        /\ \A p \in granting : account[crate[p]] # "none"

IPSum ==
    erased = 0 => \A a \in IPs \ {NoIP} :
        Cardinality(fromIP(a)) + Cardinality(grantingAt(a))
            <= MaxCratesPerSignupIP - 1 + Cardinality(Procs)

IPInv == SourcesExist /\ IPSum

\* The sets that are counted are finite.
LEMMA IPFinite ==
    ASSUME TypeInv, NEW a
    PROVE  IsFiniteSet(fromIP(a)) /\ IsFiniteSet(grantingAt(a)) /\ IsFiniteSet(Procs)
<1>1. fromIP(a) \in SUBSET Referrals /\ grantingAt(a) \in SUBSET Procs
  BY DEF TypeInv, TypeOK, fromIP, grantingAt, Range
<1>2. QED
  BY <1>1, FS_Subset, RewardsAssumption

\* Steps that pass no limit of an address and grant nothing.
LEMMA IPQuiet ==
    ASSUME TypeInv, IPInv, erased' = 0 => erased = 0,
           erased' = 0 => \A a \in IPs \ {NoIP} :
               fromIP(a)' \subseteq fromIP(a) /\ grantingAt(a)' \subseteq grantingAt(a)
    PROVE  IPSum'
<1> SUFFICES ASSUME erased' = 0, NEW a \in IPs \ {NoIP}
             PROVE  Cardinality(fromIP(a)') + Cardinality(grantingAt(a)')
                        <= MaxCratesPerSignupIP - 1 + Cardinality(Procs)
  BY DEF IPSum
<1>1. IsFiniteSet(fromIP(a)) /\ IsFiniteSet(grantingAt(a)) /\ IsFiniteSet(Procs)
  BY IPFinite
<1>2. fromIP(a)' \in SUBSET fromIP(a) /\ grantingAt(a)' \in SUBSET grantingAt(a)
  OBVIOUS
<1>3. /\ Cardinality(fromIP(a)') \in Nat /\ Cardinality(grantingAt(a)') \in Nat
      /\ Cardinality(fromIP(a)) \in Nat /\ Cardinality(grantingAt(a)) \in Nat
      /\ Cardinality(fromIP(a)') + Cardinality(grantingAt(a)')
            <= Cardinality(fromIP(a)) + Cardinality(grantingAt(a))
  BY <1>1, <1>2, CountShrinks
<1>4. Cardinality(Procs) \in Nat
  BY <1>1, FS_CardinalityType
<1>5. Cardinality(fromIP(a)) + Cardinality(grantingAt(a)) <= MaxCratesPerSignupIP - 1 + Cardinality(Procs)
  BY DEF IPInv, IPSum
<1>6. QED
  BY <1>3, <1>4, <1>5, RewardsAssumption

\* A handler that returns or goes on grants nothing, the others stay.
LEMMA LeavesAddress ==
    ASSUME TypeInv, NEW p \in Procs, Return(p) \/ NextTurn(p)
    PROVE  /\ \A a : grantingAt(a)' \subseteq grantingAt(a) \ {p}
           /\ \A q \in Procs : cands'[q] \subseteq cands[q]
           /\ \A q \in granting' : q \in granting /\ crate'[q] = crate[q]
<1>1. /\ pc'[p] \in {"idle", "today"}
      /\ \A q \in Procs : q # p => pc'[q] = pc[q] /\ crate'[q] = crate[q] /\ cands'[q] = cands[q]
      /\ cands'[p] \in {cands[p], {}}
  BY DEF TypeInv, TypeOK, Return, NextTurn, goto
<1>2. QED
  BY <1>1 DEF grantingAt, granting

\* A step that leaves accounts and crates alone.
LEMMA SourcesQuiet ==
    ASSUME TypeInv, SourcesExist, UNCHANGED <<account, crates, erased>>,
           \A q \in Procs : cands'[q] \subseteq cands[q],
           \A q \in granting' : q \in granting /\ crate'[q] = crate[q]
    PROVE  SourcesExist'
BY DEF SourcesExist

\* Every step keeps the sum for an address below its limit.
LEMMA IPStep == TypeInv /\ IPInv /\ [Next]_vars => IPInv'
<1> SUFFICES ASSUME TypeInv, IPInv, [Next]_vars PROVE IPInv'
  OBVIOUS
<1>1. ASSUME NEW r \in Referrals, Register(r) PROVE IPInv'
  <2>1. SourcesExist'
    <3>1. \A x \in Referrals : account[x] # "none" => account'[x] # "none"
      BY <1>1 DEF Register, TypeInv, TypeOK
    <3>2. \A i \in DOMAIN crates : crates[i] \in Referrals
      BY DEF TypeInv, TypeOK
    <3>3. UNCHANGED <<crates, cands, crate, pc, erased>>
      BY <1>1 DEF Register, locals
    <3>4. \A p \in granting : crate[p] \in Referrals
      BY DEF granting, TypeInv, LocalsSet
    <3>5. \A p \in Procs : cands[p] \subseteq Referrals
      BY DEF TypeInv, TypeOK
    <3>6. granting' = granting
      BY <3>3 DEF granting
    <3>7. QED
      BY <3>1, <3>2, <3>3, <3>4, <3>5, <3>6 DEF IPInv, SourcesExist
  <2>2. erased' = 0 => \A a \in IPs \ {NoIP} : fromIP(a)' \subseteq fromIP(a)
    BY <1>1 DEF Register, fromIP, Range, IPInv, SourcesExist
  <2>3. \A a : grantingAt(a)' = grantingAt(a)
    BY <1>1 DEF Register, grantingAt, locals
  <2>4. erased' = erased
    BY <1>1 DEF Register
  <2>5. IPSum'
    BY <2>2, <2>3, <2>4, IPQuiet
  <2>6. QED
    BY <2>1, <2>5 DEF IPInv
<1>2. ASSUME NEW r \in Referrals, DeleteAccount(r) PROVE IPInv'
  <2>1. erased' # 0
    BY <1>2 DEF DeleteAccount, TypeInv, TypeOK
  <2>2. QED
    BY <2>1 DEF IPInv, IPSum, SourcesExist
<1>3. CASE Age
  <2>1. UNCHANGED <<account, crates, erased, pc, cands, crate>>
    BY <1>3 DEF Age, locals
  <2>2. SourcesExist'
    BY <2>1, SourcesQuiet DEF IPInv, granting
  <2>3. \A a : fromIP(a)' = fromIP(a) /\ grantingAt(a)' = grantingAt(a)
    BY <2>1 DEF fromIP, grantingAt
  <2>4. IPSum'
    BY <2>1, <2>3, IPQuiet
  <2>5. QED
    BY <2>2, <2>4 DEF IPInv
<1>4. ASSUME NEW p \in Procs, NEW r \in Referrals, Verify(p, r) PROVE IPInv'
  <2>1. \A x \in Referrals : account'[x] # "none" <=> account[x] # "none"
    BY <1>4 DEF Verify, TypeInv, TypeOK
  <2>2. UNCHANGED <<crates, cands, crate, erased>>
    BY <1>4 DEF Verify, locals
  <2>3. \A q \in Procs : pc'[q] \in {"ip", "grant"} => pc'[q] = pc[q]
    BY <1>4 DEF Verify, goto, TypeInv, TypeOK
  <2>4. \A i \in DOMAIN crates : crates[i] \in Referrals
    BY DEF TypeInv, TypeOK
  <2>5. granting' \subseteq granting /\ \A q \in granting : crate[q] \in Referrals
    BY <2>3 DEF granting, TypeInv, LocalsSet
  <2>6. \A q \in Procs : cands[q] \subseteq Referrals
    BY DEF TypeInv, TypeOK
  <2>7. SourcesExist'
    BY <2>1, <2>2, <2>4, <2>5, <2>6 DEF IPInv, SourcesExist
  <2>8. \A a : fromIP(a)' \subseteq fromIP(a)
    BY <2>1, <2>2, <2>4 DEF fromIP, Range
  <2>9. \A a : grantingAt(a)' \subseteq grantingAt(a)
    BY <2>2, <2>3 DEF grantingAt
  <2>10. IPSum'
    BY <2>2, <2>8, <2>9, IPQuiet
  <2>11. QED
    BY <2>7, <2>10 DEF IPInv
<1>5. ASSUME NEW p \in Procs, readCands(p) PROVE IPInv'
  <2>1. UNCHANGED <<account, crates, crate, erased>>
    BY <1>5 DEF readCands, tables
  <2>2. \A q \in Procs : pc'[q] \in {"ip", "grant"} => pc'[q] = pc[q]
    BY <1>5 DEF readCands, goto, TypeInv, TypeOK
  <2>3. \A q \in Procs : \A r \in cands'[q] : r \in cands[q] \/ account[r] # "none"
    BY <1>5 DEF readCands, TypeInv, TypeOK
  <2>4. granting' \subseteq granting
    BY <2>2 DEF granting
  <2>5. SourcesExist'
    BY <2>1, <2>3, <2>4 DEF IPInv, SourcesExist
  <2>6. \A a : fromIP(a)' = fromIP(a) /\ grantingAt(a)' \subseteq grantingAt(a)
    BY <2>1, <2>2 DEF fromIP, grantingAt
  <2>7. IPSum'
    BY <2>1, <2>6, IPQuiet
  <2>8. QED
    BY <2>5, <2>7 DEF IPInv
<1>6. ASSUME NEW p \in Procs, SyncToday(p) PROVE IPInv'
  <2>1. UNCHANGED <<account, crates, erased>>
    BY <1>6 DEF SyncToday, tables
  <2>2. \A a : fromIP(a)' = fromIP(a)
    BY <2>1 DEF fromIP
  <2>3. CASE underDayCap
    <3>1. PICK r \in cands[p] :
            /\ crate' = [crate EXCEPT ![p] = r]
            /\ cands' = [cands EXCEPT ![p] = @ \ {r}]
            /\ goto(p, IF SignupIP[r] = NoIP THEN "grant" ELSE "ip")
      BY <1>6, <2>3 DEF SyncToday
    <3>2. /\ crate'[p] = r /\ cands'[p] \subseteq cands[p]
          /\ pc'[p] = IF SignupIP[r] = NoIP THEN "grant" ELSE "ip"
          /\ \A q \in Procs : q # p =>
                pc'[q] = pc[q] /\ crate'[q] = crate[q] /\ cands'[q] = cands[q]
      BY <3>1 DEF goto, TypeInv, TypeOK
    <3>3. SourcesExist'
      BY <2>1, <3>1, <3>2 DEF IPInv, SourcesExist, granting
    <3>4. \A a \in IPs \ {NoIP} : grantingAt(a)' \subseteq grantingAt(a)
      BY <3>2 DEF grantingAt
    <3>5. IPSum'
      BY <2>1, <2>2, <3>4, IPQuiet
    <3>6. QED
      BY <3>3, <3>5 DEF IPInv
  <2>4. CASE ~underDayCap
    <3>1. Return(p)
      BY <1>6, <2>4 DEF SyncToday
    <3>2. SourcesExist'
      BY <2>1, <3>1, LeavesAddress, SourcesQuiet DEF IPInv
    <3>3. IPSum'
      BY <2>1, <2>2, <3>1, LeavesAddress, IPQuiet
    <3>4. QED
      BY <3>2, <3>3 DEF IPInv
  <2>5. QED
    BY <2>3, <2>4
<1>7. ASSUME NEW p \in Procs, SyncIP(p) PROVE IPInv'
  <2>1. UNCHANGED <<account, crates, erased>>
    BY <1>7 DEF SyncIP, tables
  <2>2. \A a : fromIP(a)' = fromIP(a)
    BY <2>1 DEF fromIP
  <2>3. CASE underIPCap(SignupIP[crate[p]])
    <3>1. goto(p, "grant") /\ UNCHANGED <<cands, crate>> /\ pc[p] = "ip"
      BY <1>7, <2>3 DEF SyncIP, locals
    <3>2. SourcesExist'
      BY <2>1, <3>1, SourcesQuiet DEF IPInv, goto, granting, TypeInv, TypeOK
    <3>3. ASSUME erased' = 0, NEW a \in IPs \ {NoIP}
          PROVE  Cardinality(fromIP(a)') + Cardinality(grantingAt(a)')
                    <= MaxCratesPerSignupIP - 1 + Cardinality(Procs)
      <4>1. IsFiniteSet(fromIP(a)) /\ IsFiniteSet(grantingAt(a)) /\ IsFiniteSet(Procs)
        BY IPFinite
      <4>2. CASE a = SignupIP[crate[p]]
        <5>1. grantingAt(a)' \in SUBSET Procs
          BY DEF grantingAt
        <5>2. /\ Cardinality(grantingAt(a)') \in Nat /\ Cardinality(Procs) \in Nat
              /\ Cardinality(grantingAt(a)') <= Cardinality(Procs)
              /\ Cardinality(fromIP(a)) \in Nat
          BY <4>1, <5>1, FS_Subset, FS_CardinalityType
        <5>3. Cardinality(fromIP(a)) < MaxCratesPerSignupIP
          BY <2>3, <4>2 DEF underIPCap
        <5>4. QED
          BY <2>2, <5>2, <5>3, RewardsAssumption
      <4>3. CASE a # SignupIP[crate[p]]
        <5>1. grantingAt(a)' = grantingAt(a)
          BY <3>1, <4>3 DEF grantingAt, goto, TypeInv, TypeOK
        <5>2. QED
          BY <2>1, <2>2, <3>3, <5>1 DEF IPInv, IPSum
      <4>4. QED
        BY <4>2, <4>3
    <3>4. IPSum'
      BY <3>3 DEF IPSum
    <3>5. QED
      BY <3>2, <3>4 DEF IPInv
  <2>4. CASE ~underIPCap(SignupIP[crate[p]])
    <3>1. NextTurn(p)
      BY <1>7, <2>4 DEF SyncIP
    <3>2. SourcesExist'
      BY <2>1, <3>1, LeavesAddress, SourcesQuiet DEF IPInv
    <3>3. IPSum'
      BY <2>1, <2>2, <3>1, LeavesAddress, IPQuiet
    <3>4. QED
      BY <3>2, <3>3 DEF IPInv
  <2>5. QED
    BY <2>3, <2>4
<1>8. ASSUME NEW p \in Procs, SyncGrant(p) PROVE IPInv'
  <2>1. crate[p] \in Referrals /\ p \in granting /\ NextTurn(p) /\ UNCHANGED <<account, erased>>
    BY <1>8 DEF SyncGrant, granting, TypeInv, LocalsSet
  <2>2. \A x \in Range(crates') : x \in Range(crates) \/ x = crate[p]
    <3>1. CASE crate[p] \in Range(crates)
      BY <1>8, <3>1 DEF SyncGrant
    <3>2. CASE crate[p] \notin Range(crates)
      <4>1. crates \in Seq(Referrals) /\ crates' = Append(crates, crate[p])
        BY <1>8, <3>2 DEF SyncGrant, TypeInv, TypeOK
      <4>2. QED
        BY <2>1, <4>1, AppendFacts DEF Range
    <3>3. QED
      BY <3>1, <3>2
  <2>3. SourcesExist'
    <3> SUFFICES ASSUME erased = 0 PROVE SourcesExist'
      BY <2>1 DEF SourcesExist
    <3>1. \A x \in Range(crates) : account[x] # "none"
      BY DEF IPInv, SourcesExist, Range
    <3>2. account[crate[p]] # "none"
      BY <2>1 DEF IPInv, SourcesExist
    <3>3. \A i \in DOMAIN crates' : account'[crates'[i]] # "none"
      BY <2>1, <2>2, <3>1, <3>2 DEF Range
    <3>4. /\ \A q \in Procs : \A r \in cands'[q] : account'[r] # "none"
          /\ \A q \in granting' : account'[crate'[q]] # "none"
      BY <2>1, LeavesAddress DEF IPInv, SourcesExist
    <3>5. QED
      BY <3>3, <3>4 DEF SourcesExist
  <2>4. ASSUME erased' = 0, NEW a \in IPs \ {NoIP}
        PROVE  Cardinality(fromIP(a)') + Cardinality(grantingAt(a)')
                  <= MaxCratesPerSignupIP - 1 + Cardinality(Procs)
    <3>1. IsFiniteSet(fromIP(a)) /\ IsFiniteSet(grantingAt(a)) /\ IsFiniteSet(Procs)
      BY IPFinite
    <3>2. Cardinality(fromIP(a)) + Cardinality(grantingAt(a)) <= MaxCratesPerSignupIP - 1 + Cardinality(Procs)
      BY <2>1, <2>4 DEF IPInv, IPSum
    <3>3. grantingAt(a)' \in SUBSET (grantingAt(a) \ {p})
      BY <2>1, LeavesAddress
    <3>4. /\ Cardinality(fromIP(a)) \in Nat /\ Cardinality(grantingAt(a)) \in Nat
          /\ Cardinality(Procs) \in Nat
      BY <3>1, FS_CardinalityType
    <3>5. fromIP(a)' \in SUBSET (fromIP(a) \cup {crate[p]})
      BY <2>1, <2>2 DEF fromIP
    <3>6. Cardinality(fromIP(a)') \in Nat /\ Cardinality(grantingAt(a)') \in Nat
      <4>1. IsFiniteSet(fromIP(a) \cup {crate[p]}) /\ IsFiniteSet(grantingAt(a) \ {p})
        BY <3>1, FS_AddElement, FS_RemoveElement
      <4>2. QED
        BY <3>3, <3>5, <4>1, FS_Subset, FS_CardinalityType
    <3>7. Cardinality(fromIP(a)') + Cardinality(grantingAt(a)')
             <= Cardinality(fromIP(a)) + Cardinality(grantingAt(a))
      <4>1. CASE SignupIP[crate[p]] = a
        <5>1. p \in grantingAt(a)
          BY <1>8, <4>1 DEF SyncGrant, grantingAt
        <5>2. QED
          BY <3>1, <3>3, <3>5, <5>1, CountMoves
      <4>2. CASE SignupIP[crate[p]] # a
        <5>1. fromIP(a)' \in SUBSET fromIP(a)
          BY <2>1, <2>2, <4>2 DEF fromIP
        <5>2. grantingAt(a)' \in SUBSET grantingAt(a)
          BY <3>3
        <5>3. QED
          BY <3>1, <5>1, <5>2, CountShrinks
      <4>3. QED
        BY <4>1, <4>2
    <3>8. QED
      BY <3>2, <3>4, <3>6, <3>7, RewardsAssumption
  <2>5. IPSum'
    BY <2>4 DEF IPSum
  <2>6. QED
    BY <2>3, <2>5 DEF IPInv
<1>9. ASSUME NEW p \in Procs, Open(p) \/ Craft(p) \/ WriteRefused(p) PROVE IPInv'
  <2>1. UNCHANGED <<account, crates, erased>>
    BY <1>9 DEF Open, OpenSelect, OpenOwned, OpenCrafted, OpenPity, OpenUpdate,
                Craft, CraftOwned, CraftHave, CraftGained, CraftSpent, CraftInsert,
                WriteRefused, tables
  <2>2. /\ \A a : grantingAt(a)' \subseteq grantingAt(a)
        /\ \A q \in Procs : cands'[q] \subseteq cands[q]
        /\ \A q \in granting' : q \in granting /\ crate'[q] = crate[q]
    <3>1. CASE Return(p) \/ NextTurn(p)
      BY <3>1, LeavesAddress
    <3>2. CASE ~(Return(p) \/ NextTurn(p))
      <4>1. /\ pc'[p] \notin {"ip", "grant"}
            /\ \A q \in Procs : q # p => pc'[q] = pc[q] /\ crate'[q] = crate[q]
        BY <1>9, <3>2
           DEF Open, OpenSelect, OpenOwned, OpenCrafted, OpenPity, OpenUpdate,
               Craft, CraftOwned, CraftHave, CraftGained, CraftSpent, CraftInsert,
               WriteRefused, goto, locals, TypeInv, TypeOK
      <4>2. cands' = cands
        BY <1>9, <3>2
           DEF Open, OpenSelect, OpenOwned, OpenCrafted, OpenPity, OpenUpdate,
               Craft, CraftOwned, CraftHave, CraftGained, CraftSpent, CraftInsert,
               WriteRefused, locals
      <4>3. QED
        BY <4>1, <4>2 DEF grantingAt, granting
    <3>3. QED
      BY <3>1, <3>2
  <2>3. \A a : fromIP(a)' = fromIP(a)
    BY <2>1 DEF fromIP
  <2>4. SourcesExist'
    BY <2>1, <2>2, SourcesQuiet DEF IPInv
  <2>5. IPSum'
    BY <2>1, <2>2, <2>3, IPQuiet
  <2>6. QED
    BY <2>4, <2>5 DEF IPInv
<1>10. CASE UNCHANGED vars
  <2>1. UNCHANGED <<account, crates, erased, pc, cands, crate>>
    BY <1>10 DEF vars, tables, locals
  <2>2. SourcesExist'
    BY <2>1, SourcesQuiet DEF IPInv, granting
  <2>3. \A a : fromIP(a)' = fromIP(a) /\ grantingAt(a)' = grantingAt(a)
    BY <2>1 DEF fromIP, grantingAt
  <2>4. IPSum'
    BY <2>1, <2>3, IPQuiet
  <2>5. QED
    BY <2>2, <2>4 DEF IPInv
<1>11. QED
  BY <1>1, <1>2, <1>3, <1>4, <1>5, <1>6, <1>7, <1>8, <1>9, <1>10
     DEF Next, Sync, SyncSelect, GetReferralStats

\* So is the limit per address, as long as no referred account was deleted.
THEOREM IPCap == Spec => []IPCapNearlyKept
<1>1. Init => IPInv
  <2> SUFFICES ASSUME Init PROVE IPInv
    OBVIOUS
  <2>1. \A a : fromIP(a) = {} /\ grantingAt(a) = {}
    BY DEF Init, fromIP, grantingAt, Range
  <2>2. Cardinality(Procs) \in Nat
    BY FS_CardinalityType, RewardsAssumption
  <2>3. IPSum
    <3>1. \A a : Cardinality(fromIP(a)) = 0 /\ Cardinality(grantingAt(a)) = 0
      BY <2>1, FS_EmptySet
    <3>2. 0 <= MaxCratesPerSignupIP - 1 + Cardinality(Procs)
      BY <2>2, RewardsAssumption
    <3>3. QED
      BY <3>1, <3>2 DEF IPSum
  <2>4. SourcesExist
    BY DEF Init, SourcesExist, granting
  <2>5. QED
    BY <2>3, <2>4 DEF IPInv
<1>2. TypeInv /\ IPInv => IPCapNearlyKept
  <2> SUFFICES ASSUME TypeInv, IPInv, erased = 0, NEW a \in IPs \ {NoIP}
               PROVE  Cardinality(fromIP(a)) < MaxCratesPerSignupIP + Cardinality(Procs)
    BY DEF IPCapNearlyKept
  <2>1. /\ Cardinality(fromIP(a)) \in Nat /\ Cardinality(grantingAt(a)) \in Nat
        /\ Cardinality(Procs) \in Nat
    BY IPFinite, FS_CardinalityType
  <2>2. Cardinality(fromIP(a)) + Cardinality(grantingAt(a)) <= MaxCratesPerSignupIP - 1 + Cardinality(Procs)
    BY DEF IPInv, IPSum
  <2>3. QED
    BY <2>1, <2>2, RewardsAssumption
<1>3. QED
  BY <1>1, <1>2, TypeInit, TypeStep, IPStep, PTL DEF Spec


\* Both limits of syncCrates hold but for a crate per concurrent handler.
THEOREM CapsHold == Spec => []CapsNearlyKept
BY DayCap, IPCap, PTL DEF CapsNearlyKept

-----------------------------------------------------------------------------
(* Sums over a finite set, as the fold of module Functions defines them.   *)

\* Of some naturals one is the least: their order is well-founded.
LEMMA LeastOf ==
    ASSUME NEW T \in SUBSET Nat, T # {}
    PROVE  \E x \in T : \A y \in T : x <= y
<1> DEFINE R == {p \in Nat \X Nat : p[1] < p[2]}
<1>1. IsWellFoundedOn(R, Nat)
  BY NatLessThanWellFounded, Zenon DEF OpToRel
<1>2. PICK x \in T : \A y \in T : ~(<<y, x>> \in R)
  <2> HIDE DEF R
  <2>1. QED
    BY <1>1, WFMin, Zenon
<1>3. ASSUME NEW y \in T PROVE x <= y
  <2>1. <<y, x>> \in Nat \X Nat /\ <<y, x>>[1] = y /\ <<y, x>>[2] = x
    OBVIOUS
  <2>2. ~(y < x)
    BY <1>2, <2>1
  <2>3. QED
    BY <2>2
<1>4. QED
  BY <1>3

\* A counterexample among the subsets of a finite set has one none of whose
\* proper subsets is one: what an induction on the size would use.
LEMMA LeastSet ==
    ASSUME NEW S, IsFiniteSet(S), NEW Bad \in SUBSET (SUBSET S), Bad # {}
    PROVE  \E s \in Bad : \A t \in SUBSET s : t # s => t \notin Bad
<1> DEFINE T == {Cardinality(s) : s \in Bad}
<1>1. ASSUME NEW s \in SUBSET S PROVE IsFiniteSet(s) /\ Cardinality(s) \in Nat
  BY FS_Subset, FS_CardinalityType
<1>2. T \in SUBSET Nat /\ T # {}
  BY <1>1
<1>3. PICK n \in T : \A m \in T : n <= m
  <2> HIDE DEF T
  <2>1. QED
    BY <1>2, LeastOf
<1>4. PICK s \in Bad : Cardinality(s) = n
  OBVIOUS
<1>5. ASSUME NEW t \in SUBSET s, t # s, t \in Bad PROVE FALSE
  <2>1. Cardinality(t) < Cardinality(s)
    BY <1>1, <1>5, FS_Subset
  <2>2. Cardinality(s) <= Cardinality(t)
    BY <1>3, <1>4, <1>5
  <2>3. QED
    BY <1>1, <1>5, <2>1, <2>2
<1>6. QED
  BY <1>5

\* The element a fold over a set takes first.
pick(s) == CHOOSE x \in s : TRUE

LEMMA PickIn ==
    ASSUME NEW s, s # {}
    PROVE  pick(s) \in s
  BY DEF pick

\* g sums f over the subsets of S the way the fold does.
Rule(f, S, g) == g = [s \in SUBSET S |-> IF s = {} THEN 0 ELSE f[pick(s)] + g[s \ {pick(s)}]]

\* The sum is the value of a function that follows this rule, if there is one.
LEMMA SumIsRule ==
    ASSUME NEW f, NEW S
    PROVE  SumFunctionOnSet(f, S) = (CHOOSE g : Rule(f, S, g))[S]
  BY DEF SumFunctionOnSet, FoldFunctionOnSet, MapThenFoldSet, Rule, pick

\* The rule applied, to nothing and to something.
LEMMA RuleNone ==
    ASSUME NEW f, NEW S, NEW g, Rule(f, S, g)
    PROVE  g[{}] = 0
<1> DEFINE G == [t \in SUBSET S |-> IF t = {} THEN 0 ELSE f[pick(t)] + g[t \ {pick(t)}]]
<1>1. g = G
  BY DEF Rule
<1>2. G[{}] = 0
  OBVIOUS
<1> HIDE DEF G
<1>3. QED
  BY <1>1, <1>2, Zenon

LEMMA RuleAt ==
    ASSUME NEW f, NEW S, NEW g, Rule(f, S, g), NEW s \in SUBSET S, s # {}
    PROVE  g[s] = f[pick(s)] + g[s \ {pick(s)}]
<1> DEFINE G == [t \in SUBSET S |-> IF t = {} THEN 0 ELSE f[pick(t)] + g[t \ {pick(t)}]]
<1>1. g = G
  BY DEF Rule
<1>2. G[s] = f[pick(s)] + g[s \ {pick(s)}]
  BY Zenon
<1> HIDE DEF G
<1>3. QED
  BY <1>1, <1>2, Zenon

\* Two functions that follow the rule agree where both are defined.
LEMMA RulesAgree ==
    ASSUME NEW f, NEW S, NEW R, NEW g, NEW h, IsFiniteSet(S), Rule(f, S, g), Rule(f, R, h),
           NEW s \in SUBSET S, s \in SUBSET R
    PROVE  g[s] = h[s]
<1> DEFINE Bad == {t \in SUBSET s : g[t] # h[t]}
<1>1. IsFiniteSet(s)
  BY FS_Subset
<1>2. SUFFICES ASSUME Bad # {} PROVE FALSE
  OBVIOUS
<1>3. Bad \in SUBSET (SUBSET s)
  OBVIOUS
<1>4. PICK t \in Bad : \A r \in SUBSET t : r # t => r \notin Bad
  <2> HIDE DEF Bad
  <2>1. QED
    BY <1>1, <1>2, <1>3, LeastSet
<1>5. g[t] # h[t] /\ t \in SUBSET s
  OBVIOUS
<1>6. t \in SUBSET S /\ t \in SUBSET R
  BY <1>5
<1>7. t # {}
  <2>1. g[{}] = 0 /\ h[{}] = 0
    BY RuleNone
  <2>2. QED
    BY <1>5, <2>1, Zenon
<1>8. pick(t) \in t
  BY <1>7, PickIn
<1> DEFINE r == t \ {pick(t)}
<1>9. r \in SUBSET t /\ r # t /\ r \in SUBSET s
  BY <1>5, <1>8
<1>10. g[r] = h[r]
  BY <1>4, <1>9
<1>11. g[t] = f[pick(t)] + g[r]
  BY <1>6, <1>7, RuleAt
<1>12. h[t] = f[pick(t)] + h[r]
  BY <1>6, <1>7, RuleAt
<1> HIDE DEF r, Bad
<1>13. QED
  BY <1>5, <1>10, <1>11, <1>12, Zenon

Solved(f, S) == \E g : Rule(f, S, g)

\* Where there are such functions, a sum takes out an element.
LEMMA SumWhereSolved ==
    ASSUME NEW f, NEW S, IsFiniteSet(S), S # {}, Solved(f, S), Solved(f, S \ {pick(S)})
    PROVE  SumFunctionOnSet(f, S) = f[pick(S)] + SumFunctionOnSet(f, S \ {pick(S)})
<1> DEFINE g == CHOOSE h : Rule(f, S, h)
<1> DEFINE R == S \ {pick(S)}
<1> DEFINE k == CHOOSE h : Rule(f, R, h)
<1>1. Rule(f, S, g)
  BY Zenon DEF Solved
<1>2. Rule(f, R, k)
  BY Zenon DEF Solved
<1>3. SumFunctionOnSet(f, S) = g[S] /\ SumFunctionOnSet(f, R) = k[R]
  BY SumIsRule, Zenon
<1>4. R \in SUBSET S /\ R \in SUBSET R /\ S \in SUBSET S
  OBVIOUS
<1> HIDE DEF g, k
<1>5. g[S] = f[pick(S)] + g[R]
  BY <1>1, <1>4, RuleAt
<1>6. g[R] = k[R]
  <2> HIDE DEF R
  <2>1. QED
    BY <1>1, <1>2, <1>4, RulesAgree
<1>7. QED
  BY <1>3, <1>5, <1>6, Zenon

LEMMA SumWhereNone ==
    ASSUME NEW f, Solved(f, {})
    PROVE  SumFunctionOnSet(f, {}) = 0
<1> DEFINE g == CHOOSE h : Rule(f, {}, h)
<1>1. Rule(f, {}, g)
  BY Zenon DEF Solved
<1>2. SumFunctionOnSet(f, {}) = g[{}]
  BY SumIsRule, Zenon
<1> HIDE DEF g
<1>3. QED
  BY <1>1, <1>2, RuleNone

\* There always is one for a finite set: on a least set without one, the sums
\* over the smaller sets make one up.
LEMMA AlwaysSolved ==
    ASSUME NEW f, NEW S, IsFiniteSet(S)
    PROVE  Solved(f, S)
<1> DEFINE Bad == {t \in SUBSET S : ~Solved(f, t)}
<1>1. SUFFICES ASSUME Bad # {} PROVE FALSE
  BY DEF Bad
<1>2. Bad \in SUBSET (SUBSET S)
  OBVIOUS
<1>3. PICK s \in Bad : \A r \in SUBSET s : r # s => r \notin Bad
  <2> HIDE DEF Bad
  <2>1. QED
    BY <1>1, <1>2, LeastSet
<1>4. s \in SUBSET S /\ ~Solved(f, s) /\ IsFiniteSet(s)
  BY FS_Subset
<1>5. ASSUME NEW r \in SUBSET s, r # s PROVE Solved(f, r)
  BY <1>3, <1>4, <1>5
<1> HIDE DEF Bad
<1> DEFINE sum(t) == SumFunctionOnSet(f, t)
<1> DEFINE G == [t \in SUBSET s |-> IF t = {} THEN 0 ELSE IF t # s THEN sum(t) ELSE f[pick(s)] + sum(s \ {pick(s)})]
<1> DEFINE H == [t \in SUBSET s |-> IF t = {} THEN 0 ELSE f[pick(t)] + G[t \ {pick(t)}]]
<1>6. ASSUME NEW t \in SUBSET s PROVE G[t] = H[t]
  <2>1. CASE t = {}
    <3>1. G[t] = 0 /\ H[t] = 0
      BY <2>1
    <3>2. QED
      BY <3>1
  <2>2. CASE t # {}
    <3>1. pick(t) \in t
      BY <2>2, PickIn
    <3> DEFINE r == t \ {pick(t)}
    <3>2. r \in SUBSET s /\ r # s
      BY <3>1
    <3>3. Solved(f, r) /\ IsFiniteSet(r) /\ IsFiniteSet(t)
      BY <1>4, <1>5, <3>2, FS_Subset
    <3>4. G[r] = sum(r)
      <4>1. CASE r = {}
        <5>1. G[r] = 0
          BY <4>1, <3>2
        <5>2. Solved(f, {})
          BY <3>3, <4>1
        <5>3. sum({}) = 0
          BY <5>2, SumWhereNone
        <5>4. QED
          BY <4>1, <5>1, <5>3
      <4>2. CASE r # {}
        BY <4>2, <3>2, Zenon
      <4>3. QED
        BY <4>1, <4>2
    <3>5. H[t] = f[pick(t)] + sum(r)
      <4>1. H[t] = f[pick(t)] + G[r]
        <5> HIDE DEF G
        <5>1. QED
          BY <2>2, Zenon
      <4>2. QED
        BY <3>4, <4>1, Zenon
    <3>6. G[t] = f[pick(t)] + sum(r)
      <4>1. CASE t = s
        BY <2>2, <4>1, Zenon
      <4>2. CASE t # s
        <5>1. G[t] = sum(t)
          BY <2>2, <4>2, Zenon
        <5>2. Solved(f, t)
          BY <1>5, <4>2
        <5>3. sum(t) = f[pick(t)] + sum(r)
          BY <2>2, <3>3, <5>2, SumWhereSolved
        <5>4. QED
          BY <5>1, <5>3, Zenon
      <4>3. QED
        BY <4>1, <4>2
    <3>7. QED
      BY <3>5, <3>6, Zenon
  <2>3. QED
    BY <2>1, <2>2
<1>7. G = H
  BY <1>6
<1>8. Rule(f, s, G)
  <2>1. G = [t \in SUBSET s |-> IF t = {} THEN 0 ELSE f[pick(t)] + G[t \ {pick(t)}]]
    BY <1>7, Zenon
  <2> HIDE DEF G
  <2>2. QED
    BY <2>1 DEF Rule
<1>9. QED
  BY <1>4, <1>8, Zenon DEF Solved

\* So a sum over nothing is 0, and any other takes out an element.
LEMMA SumNone ==
    ASSUME NEW f
    PROVE  SumFunctionOnSet(f, {}) = 0
  BY FS_EmptySet, AlwaysSolved, SumWhereNone

LEMMA SumPick ==
    ASSUME NEW f, NEW S, IsFiniteSet(S), S # {}
    PROVE  SumFunctionOnSet(f, S) = f[pick(S)] + SumFunctionOnSet(f, S \ {pick(S)})
<1>1. IsFiniteSet(S \ {pick(S)})
  BY FS_Subset
<1>2. QED
  BY <1>1, AlwaysSolved, SumWhereSolved

\* A sum of naturals is one.
LEMMA SumType ==
    ASSUME NEW D, NEW f \in [D -> Nat], NEW S \in SUBSET D, IsFiniteSet(S)
    PROVE  SumFunctionOnSet(f, S) \in Nat
<1> DEFINE sum(t) == SumFunctionOnSet(f, t)
<1> DEFINE Bad == {t \in SUBSET S : sum(t) \notin Nat}
<1> HIDE DEF sum
<1>1. SUFFICES ASSUME Bad # {} PROVE FALSE
  BY DEF sum
<1>2. Bad \in SUBSET (SUBSET S)
  OBVIOUS
<1>3. PICK s \in Bad : \A r \in SUBSET s : r # s => r \notin Bad
  <2> HIDE DEF Bad
  <2>1. QED
    BY <1>1, <1>2, LeastSet
<1>4. s \in SUBSET S /\ sum(s) \notin Nat /\ IsFiniteSet(s)
  BY FS_Subset
<1>5. s # {}
  BY <1>4, SumNone DEF sum
<1>6. pick(s) \in s
  BY <1>5, PickIn
<1>7. sum(s \ {pick(s)}) \in Nat
  BY <1>3, <1>4, <1>6
<1>8. f[pick(s)] \in Nat
  BY <1>4, <1>6
<1>9. sum(s) = f[pick(s)] + sum(s \ {pick(s)})
  BY <1>4, <1>5, SumPick DEF sum
<1>10. QED
  BY <1>4, <1>7, <1>8, <1>9

\* Any element may be taken out of a sum first.
LEMMA SumTake ==
    ASSUME NEW D, NEW f \in [D -> Nat], NEW S \in SUBSET D, IsFiniteSet(S), NEW y \in S
    PROVE  SumFunctionOnSet(f, S) = f[y] + SumFunctionOnSet(f, S \ {y})
<1> DEFINE sum(t) == SumFunctionOnSet(f, t)
<1> DEFINE Bad == {t \in SUBSET S : \E z \in t : sum(t) # f[z] + sum(t \ {z})}
<1> HIDE DEF sum
<1>1. SUFFICES ASSUME Bad # {} PROVE FALSE
  BY DEF sum
<1>2. Bad \in SUBSET (SUBSET S)
  OBVIOUS
<1>3. PICK s \in Bad : \A r \in SUBSET s : r # s => r \notin Bad
  <2> HIDE DEF Bad
  <2>1. QED
    BY <1>1, <1>2, LeastSet
<1>4. s \in SUBSET S /\ IsFiniteSet(s)
  BY FS_Subset
<1>5. PICK z \in s : sum(s) # f[z] + sum(s \ {z})
  BY <1>3
<1> DEFINE x == pick(s)
<1>6. x \in s
  BY <1>5, PickIn
<1>7. sum(s) = f[x] + sum(s \ {x})
  BY <1>4, <1>5, SumPick DEF sum
<1> HIDE DEF x
<1>8. x # z
  BY <1>5, <1>7
<1> DEFINE r == s \ {x}
<1> DEFINE q == s \ {z}
<1> DEFINE p == s \ {x, z}
<1>9. r \ {z} = p /\ q \ {x} = p /\ z \in r /\ x \in q
  BY <1>5, <1>6, <1>8
<1>10. r \in SUBSET s /\ r # s /\ q \in SUBSET s /\ q # s
  BY <1>5, <1>6
<1>11. p \in SUBSET D /\ IsFiniteSet(p)
  BY <1>4, FS_Subset
<1>12. f[x] \in Nat /\ f[z] \in Nat
  BY <1>4, <1>5, <1>6
<1> HIDE DEF r, q, p
<1>13. r \notin Bad /\ q \notin Bad /\ r \in SUBSET S /\ q \in SUBSET S
  BY <1>3, <1>4, <1>10
<1>14. sum(r) = f[z] + sum(p)
  BY <1>9, <1>13
<1>15. sum(q) = f[x] + sum(p)
  BY <1>9, <1>13
<1>16. sum(p) \in Nat
  BY <1>11, SumType DEF sum
<1>17. sum(s) = f[x] + sum(r) /\ sum(s) # f[z] + sum(q)
  BY <1>5, <1>7 DEF r, q
<1>18. QED
  BY <1>12, <1>14, <1>15, <1>16, <1>17

\* Greater summands make no smaller sum.
LEMMA SumMono ==
    ASSUME NEW D, NEW f \in [D -> Nat], NEW h \in [D -> Nat], NEW S \in SUBSET D, IsFiniteSet(S),
           \A x \in S : f[x] <= h[x]
    PROVE  SumFunctionOnSet(f, S) <= SumFunctionOnSet(h, S)
<1> DEFINE sum(t) == SumFunctionOnSet(f, t)
<1> DEFINE tot(t) == SumFunctionOnSet(h, t)
<1> DEFINE Bad == {t \in SUBSET S : ~(sum(t) <= tot(t))}
<1> HIDE DEF sum, tot
<1>1. SUFFICES ASSUME Bad # {} PROVE FALSE
  BY DEF sum, tot
<1>2. Bad \in SUBSET (SUBSET S)
  OBVIOUS
<1>3. PICK s \in Bad : \A r \in SUBSET s : r # s => r \notin Bad
  <2> HIDE DEF Bad
  <2>1. QED
    BY <1>1, <1>2, LeastSet
<1>4. s \in SUBSET S /\ ~(sum(s) <= tot(s)) /\ IsFiniteSet(s)
  BY FS_Subset
<1>5. s # {}
  <2>1. sum({}) = 0 /\ tot({}) = 0
    BY SumNone DEF sum, tot
  <2>2. QED
    BY <1>4, <2>1
<1>6. pick(s) \in s
  BY <1>5, PickIn
<1> DEFINE r == s \ {pick(s)}
<1>7. sum(s) = f[pick(s)] + sum(r)
  BY <1>4, <1>5, SumPick DEF sum
<1>8. tot(s) = h[pick(s)] + tot(r)
  BY <1>4, <1>5, SumPick DEF tot
<1>9. sum(r) <= tot(r)
  BY <1>3, <1>4, <1>6
<1>10. r \in SUBSET D /\ IsFiniteSet(r)
  BY <1>4, FS_Subset
<1>11. f[pick(s)] \in Nat /\ h[pick(s)] \in Nat /\ f[pick(s)] <= h[pick(s)]
  BY <1>4, <1>6
<1> HIDE DEF r
<1>12. sum(r) \in Nat /\ tot(r) \in Nat
  BY <1>10, SumType DEF sum, tot
<1>13. QED
  BY <1>4, <1>7, <1>8, <1>9, <1>11, <1>12

-----------------------------------------------------------------------------
(* Crafting.  The handlers that have read a balance and not yet inserted   *)
(* may all spend it again; the more of them have inserted, the greater the *)
(* debt, and the fewer are left.                                           *)

cost(i) == CraftCost[Rank[i]]
costs == [i \in Items |-> CraftCost[Rank[i]]]

\* Handlers that found their item affordable and have not inserted it.
inserting == {p \in Procs : pc[p] = "insert"}
others == Cardinality(Procs) - Cardinality(inserting)

\* A balance a handler is about to use is no greater than the shards there are.
GainInv == \A p \in Procs : pc[p] = "spent" => \A r \in Referrals : gained[p][r] <= shards[r]

\* Shards come with an item.
ClosedEmpty == \A r \in Referrals : item[r] = NoItem => shards[r] = 0

\* With m no less than what any crafted item cost: each handler that is not
\* inserting may have overdrawn the shards by m, but one of them has not, or one
\* of those inserting has its item counted already.
DebtOf(m) ==
    \/ \E q \in inserting : spent(crafts) + cost(want[q]) <= sumShards(shards) + others * m
    \/ spent(crafts) + m <= sumShards(shards) + others * m

DebtSum ==
    /\ Procs = {} => crafts = {}
    /\ Procs # {} => \A m \in Nat : (\A i \in crafts : cost(i) <= m) => DebtOf(m)

DebtInv == GainInv /\ ClosedEmpty /\ DebtSum

\* What items cost.
LEMMA CostType ==
    /\ \A i \in Items : cost(i) \in Nat /\ costs[i] = cost(i)
    /\ costs \in [Items -> Nat]
<1>1. \A i \in Items : Rank[i] \in 0..3 /\ CraftCost[Rank[i]] \in Nat
  BY RewardsAssumption
<1>2. QED
  BY <1>1 DEF cost, costs

\* The two sums of a balance.
LEMMA SpentFacts ==
    ASSUME NEW done \in SUBSET Items
    PROVE  /\ spent(done) \in Nat
           /\ \A i \in Items \ done : spent(done \cup {i}) = spent(done) + cost(i)
<1>1. \A S : spent(S) = SumFunctionOnSet(costs, S)
  BY DEF spent, costs
<1>2. IsFiniteSet(done)
  BY RewardsAssumption, FS_Subset
<1>3. SumFunctionOnSet(costs, done) \in Nat
  BY <1>2, CostType, SumType
<1>4. ASSUME NEW i \in Items \ done PROVE spent(done \cup {i}) = spent(done) + cost(i)
  <2> DEFINE more == done \cup {i}
  <2>1. more \in SUBSET Items /\ i \in more /\ more \ {i} = done
    OBVIOUS
  <2>2. IsFiniteSet(more)
    BY <2>1, RewardsAssumption, FS_Subset
  <2> HIDE DEF more
  <2>3. SumFunctionOnSet(costs, more) = costs[i] + SumFunctionOnSet(costs, more \ {i})
    BY <2>1, <2>2, CostType, SumTake
  <2>4. spent(more) = cost(i) + spent(done)
    BY <1>1, <2>1, <2>3, CostType, Zenon
  <2>5. cost(i) \in Nat /\ spent(done) \in Nat
    BY <1>1, <1>3, CostType
  <2>6. QED
    BY <2>4, <2>5 DEF more
<1>5. QED
  BY <1>1, <1>3, <1>4

\* The shards add up to more where each crate has as many or more.
LEMMA ShardsFacts ==
    ASSUME NEW f \in [Referrals -> Nat], NEW g \in [Referrals -> Nat]
    PROVE  /\ sumShards(f) \in Nat
           /\ (\A r \in Referrals : f[r] <= g[r]) => sumShards(f) <= sumShards(g)
<1>1. sumShards(f) = SumFunctionOnSet(f, Referrals) /\ sumShards(g) = SumFunctionOnSet(g, Referrals)
  BY DEF sumShards, SumFunction
<1>2. IsFiniteSet(Referrals) /\ Referrals \in SUBSET Referrals
  BY RewardsAssumption
<1>3. SumFunctionOnSet(f, Referrals) \in Nat
  BY <1>2, SumType
<1>4. (\A r \in Referrals : f[r] <= g[r]) => SumFunctionOnSet(f, Referrals) <= SumFunctionOnSet(g, Referrals)
  BY <1>2, SumMono
<1>5. QED
  BY <1>1, <1>3, <1>4

\* Products of naturals.
LEMMA Times ==
    ASSUME NEW n \in Nat, NEW m \in Nat
    PROVE  n * m \in Nat /\ (n + 1) * m = n * m + m /\ (n >= 1 => m <= n * m)
<1>1. n * m \in Nat /\ (n + 1) * m = n * m + m
  OBVIOUS
<1>2. ASSUME n >= 1 PROVE m <= n * m
  <2>1. n - 1 \in Nat
    BY <1>2
  <2>2. (n - 1) * m \in Nat /\ ((n - 1) + 1) * m = (n - 1) * m + m
    BY <2>1
  <2>3. (n - 1) + 1 = n
    OBVIOUS
  <2>4. n * m = (n - 1) * m + m
    BY <2>2, <2>3
  <2>5. QED
    BY <2>2, <2>4
<1>3. QED
  BY <1>1, <1>2

LEMMA TimesMono ==
    ASSUME NEW k \in Nat, NEW n \in Nat, NEW m \in Nat, k <= n
    PROVE  k * m \in Nat /\ n * m \in Nat /\ k * m <= n * m
<1>1. n - k \in Nat
  OBVIOUS
<1>2. (n - k) * m \in Nat /\ k * m \in Nat /\ n * m \in Nat
  BY <1>1
<1>3. n * m = k * m + (n - k) * m
  OBVIOUS
<1>4. QED
  BY <1>2, <1>3

\* How many handlers are not inserting.
LEMMA OthersFacts ==
    ASSUME NEW P \in SUBSET Procs
    PROVE  /\ IsFiniteSet(P) /\ Cardinality(Procs) - Cardinality(P) \in Nat
           /\ Cardinality(P) \in Nat /\ Cardinality(Procs) \in Nat
           /\ P # {} => Cardinality(P) >= 1
           /\ \A p \in P : Cardinality(Procs) - Cardinality(P \ {p}) = Cardinality(Procs) - Cardinality(P) + 1
<1>1. IsFiniteSet(Procs) /\ IsFiniteSet(P)
  BY RewardsAssumption, FS_Subset
<1>2. Cardinality(P) \in Nat /\ Cardinality(Procs) \in Nat /\ Cardinality(P) <= Cardinality(Procs)
  BY <1>1, FS_CardinalityType, FS_Subset
<1>3. ASSUME NEW p \in P PROVE Cardinality(P \ {p}) = Cardinality(P) - 1
  BY <1>1, FS_RemoveElement
<1>4. P # {} => Cardinality(P) >= 1
  <2>1. P # {} => Cardinality(P) # 0
    BY <1>1, FS_EmptySet
  <2>2. QED
    BY <1>2, <2>1
<1>5. QED
  BY <1>1, <1>2, <1>3, <1>4

\* Steps that craft nothing and take no shards, and in which nobody begins or
\* ends inserting.
LEMMA DebtQuiet ==
    ASSUME TypeInv, TypeInv', DebtSum, crafts' = crafts, inserting' = inserting,
           \A q \in inserting : want'[q] = want[q],
           \A r \in Referrals : shards[r] <= shards'[r]
    PROVE  DebtSum'
<1>1. SUFFICES ASSUME Procs # {}, NEW m \in Nat, \A i \in crafts : cost(i) <= m PROVE DebtOf(m)'
  BY DEF DebtSum, cost
<1>2. DebtOf(m)
  BY <1>1 DEF DebtSum
<1>3. shards \in [Referrals -> Nat] /\ shards' \in [Referrals -> Nat] /\ crafts \in SUBSET Items
  BY DEF TypeInv, TypeOK
<1>4. sumShards(shards) \in Nat /\ sumShards(shards') \in Nat /\ sumShards(shards) <= sumShards(shards')
  BY <1>3, ShardsFacts
<1>5. spent(crafts) \in Nat
  BY <1>3, SpentFacts
<1>6. others' = others /\ others \in Nat
  <2>1. inserting \in SUBSET Procs
    BY DEF inserting
  <2>2. QED
    BY <2>1, OthersFacts DEF others
<1>7. others * m \in Nat
  BY <1>6, Times
<1> DEFINE k == others * m
<1> DEFINE a == sumShards(shards)
<1> DEFINE b == sumShards(shards')
<1> DEFINE d == spent(crafts)
<1>8. k \in Nat /\ a \in Nat /\ b \in Nat /\ a <= b /\ d \in Nat
  BY <1>4, <1>5, <1>7
<1>9. CASE \E q \in inserting : d + cost(want[q]) <= a + k
  <2>1. PICK q \in inserting : d + cost(want[q]) <= a + k
    BY <1>9
  <2>2. want[q] \in Items /\ cost(want[q]) \in Nat
    BY CostType DEF inserting, TypeInv, LocalsSet
  <2> HIDE DEF k, a, b, d
  <2>3. d + cost(want[q]) <= b + k
    BY <1>8, <2>1, <2>2
  <2>4. want'[q] = want[q] /\ q \in inserting'
    BY <2>1
  <2>5. d + cost(want'[q]) <= b + k
    BY <2>3, <2>4
  <2>6. spent(crafts') + cost(want'[q]) <= sumShards(shards') + others' * m
    BY <1>6, <2>5 DEF k, b, d
  <2>7. QED
    BY <2>4, <2>6 DEF DebtOf, cost
<1>10. CASE d + m <= a + k
  <2> HIDE DEF k, a, b, d
  <2>1. d + m <= b + k
    BY <1>8, <1>10
  <2>2. spent(crafts') + m <= sumShards(shards') + others' * m
    BY <1>6, <2>1 DEF k, b, d
  <2>3. QED
    BY <2>2 DEF DebtOf
<1>11. QED
  BY <1>2, <1>9, <1>10 DEF DebtOf

\* Somebody inserts, or is refused.
LEMMA DebtLeaves ==
    ASSUME TypeInv, DebtSum, NEW p \in inserting, inserting' = inserting \ {p},
           \A q \in inserting' : want'[q] = want[q], shards' = shards,
           crafts' = crafts \/ crafts' = crafts \cup {want[p]}
    PROVE  DebtSum'
<1>1. p \in Procs /\ want[p] \in Items /\ crafts \in SUBSET Items /\ shards \in [Referrals -> Nat]
  BY DEF inserting, TypeInv, TypeOK, LocalsSet
<1>2. SUFFICES ASSUME NEW m \in Nat, \A i \in crafts' : cost(i) <= m PROVE DebtOf(m)'
  BY <1>1 DEF DebtSum, cost
<1>3. \A i \in crafts : cost(i) <= m
  BY <1>2
<1>4. DebtOf(m)
  BY <1>1, <1>3 DEF DebtSum
<1>5. others \in Nat /\ others' = others + 1
  <2>1. inserting \in SUBSET Procs
    BY DEF inserting
  <2>2. QED
    BY <2>1, OthersFacts DEF others
<1> DEFINE k == others * m
<1> DEFINE a == sumShards(shards)
<1> DEFINE d == spent(crafts)
<1> DEFINE e == spent(crafts')
<1>6. k \in Nat /\ others' * m = k + m
  BY <1>5, Times
<1>7. a \in Nat /\ d \in Nat
  BY <1>1, ShardsFacts, SpentFacts
<1>8. cost(want[p]) \in Nat
  BY <1>1, CostType
<1>9. e \in Nat /\ d <= e /\ e <= d + cost(want[p]) /\ e <= d + m
  <2>1. CASE crafts' = crafts
    <3>1. e = d
      BY <2>1
    <3> HIDE DEF d, e
    <3>2. QED
      BY <1>7, <1>8, <3>1
  <2>2. CASE crafts' = crafts \cup {want[p]} /\ want[p] \notin crafts
    <3>1. e = d + cost(want[p])
      BY <1>1, <2>2, SpentFacts
    <3>2. cost(want[p]) <= m
      BY <1>2, <2>2
    <3> HIDE DEF d, e
    <3>3. QED
      BY <1>7, <1>8, <3>1, <3>2
  <2>3. CASE crafts' = crafts \cup {want[p]} /\ want[p] \in crafts
    <3>1. crafts' = crafts
      BY <2>3
    <3>2. QED
      BY <2>1, <3>1
  <2>4. QED
    BY <2>1, <2>2, <2>3
<1> HIDE DEF k, a, d, e
<1>10. CASE d + cost(want[p]) <= a + k
  <2>1. e + m <= a + (k + m)
    BY <1>6, <1>7, <1>8, <1>9, <1>10
  <2>2. QED
    BY <1>6, <2>1 DEF DebtOf, a, e
<1>11. ASSUME NEW q \in inserting, q # p, d + cost(want[q]) <= a + k PROVE DebtOf(m)'
  <2>1. cost(want[q]) \in Nat
    BY CostType DEF inserting, TypeInv, LocalsSet
  <2>2. e + cost(want[q]) <= a + (k + m)
    BY <1>6, <1>7, <1>9, <1>11, <2>1
  <2>3. q \in inserting' /\ want'[q] = want[q]
    BY <1>11
  <2>4. e + cost(want'[q]) <= a + others' * m
    BY <1>6, <2>2, <2>3
  <2>5. QED
    BY <2>3, <2>4 DEF DebtOf, a, e, cost
<1>12. CASE d + m <= a + k
  <2>1. e + m <= a + (k + m)
    BY <1>6, <1>7, <1>9, <1>12
  <2>2. QED
    BY <1>6, <2>1 DEF DebtOf, a, e
<1>13. QED
  BY <1>4, <1>10, <1>11, <1>12 DEF DebtOf, a, d, k

\* Somebody finds an item affordable.
LEMMA DebtAffords ==
    ASSUME TypeInv, DebtInv, NEW p \in Procs, pc[p] = "spent", affords(p), goto(p, "insert"),
           UNCHANGED locals, UNCHANGED tables
    PROVE  DebtSum'
<1>1. /\ want[p] \in Items /\ crafts \in SUBSET Items /\ shards \in [Referrals -> Nat]
      /\ gained[p] \in [Referrals -> Nat]
  BY DEF TypeInv, TypeOK, LocalsSet
<1>2. UNCHANGED <<crafts, shards, want>>
  BY DEF locals, tables
<1>3. SUFFICES ASSUME NEW m \in Nat PROVE DebtOf(m)'
  BY <1>2 DEF DebtSum
<1>4. p \in inserting' /\ inserting' \in SUBSET Procs
  BY DEF inserting, goto, TypeInv, TypeOK
<1>5. others' \in Nat
  BY <1>4, OthersFacts DEF others
<1>6. others' * m \in Nat
  BY <1>5, Times
<1>7. /\ sumShards(gained[p]) \in Nat /\ sumShards(shards) \in Nat
      /\ sumShards(gained[p]) <= sumShards(shards)
  BY <1>1, ShardsFacts DEF DebtInv, GainInv
<1>8. spent(crafts) \in Nat /\ cost(want[p]) \in Nat
  BY <1>1, SpentFacts, CostType
<1>9. sumShards(gained[p]) - spent(crafts) >= cost(want[p])
  BY DEF affords, cost
<1>10. spent(crafts) + cost(want[p]) <= sumShards(shards) + others' * m
  BY <1>6, <1>7, <1>8, <1>9
<1>11. QED
  BY <1>2, <1>4, <1>10 DEF DebtOf, cost

\* Who does what to the crafts and to the handlers about to craft.
LEMMA DebtCases ==
    ASSUME TypeInv, [Next]_vars
    PROVE  \/ \E p \in Procs : pc[p] = "spent" /\ affords(p) /\ goto(p, "insert") /\ UNCHANGED <<locals, tables>>
           \/ \E p \in inserting : /\ inserting' = inserting \ {p} /\ shards' = shards
                                   /\ \A q \in inserting' : want'[q] = want[q]
                                   /\ crafts' = crafts \/ crafts' = crafts \cup {want[p]}
           \/ crafts' = crafts /\ inserting' = inserting /\ \A q \in inserting : want'[q] = want[q]
<1> DEFINE Quiet == crafts' = crafts /\ inserting' = inserting /\ \A q \in inserting : want'[q] = want[q]
<1>1. ASSUME NEW p \in Procs, pc[p] # "insert", Return(p) \/ NextTurn(p), crafts' = crafts PROVE Quiet
  BY <1>1 DEF TypeInv, TypeOK, Return, NextTurn, goto, inserting
<1>2. ASSUME NEW p \in Procs, pc[p] # "insert", NEW l, l # "insert", goto(p, l),
             \A q \in Procs : q # p => want'[q] = want[q], crafts' = crafts PROVE Quiet
  BY <1>2 DEF TypeInv, TypeOK, goto, inserting
<1>3. ASSUME NEW r \in Referrals, Register(r) \/ DeleteAccount(r) PROVE Quiet
  BY <1>3 DEF Register, DeleteAccount, locals, inserting
<1>4. CASE Age
  BY <1>4 DEF Age, locals, inserting
<1>5. ASSUME NEW p \in Procs, NEW r \in Referrals, Verify(p, r) PROVE Quiet
  BY <1>2, <1>5 DEF Verify, locals
<1>6. ASSUME NEW p \in Procs, readCands(p), pc[p] \in {"idle", "sync"} PROVE Quiet
  BY <1>2, <1>6 DEF readCands, tables
<1>7. ASSUME NEW p \in Procs, SyncToday(p) PROVE Quiet
  <2>1. CASE underDayCap
    BY <1>2, <1>7, <2>1 DEF SyncToday, tables
  <2>2. CASE ~underDayCap
    BY <1>1, <1>7, <2>2 DEF SyncToday, tables
  <2>3. QED
    BY <2>1, <2>2
<1>8. ASSUME NEW p \in Procs, SyncIP(p) PROVE Quiet
  BY <1>1, <1>2, <1>8 DEF SyncIP, tables, locals
<1>9. ASSUME NEW p \in Procs, SyncGrant(p) PROVE Quiet
  BY <1>1, <1>9 DEF SyncGrant
<1>10. ASSUME NEW p \in Procs, OpenSelect(p) \/ OpenOwned(p) \/ OpenCrafted(p) \/ OpenPity(p) PROVE Quiet
  BY <1>2, <1>10 DEF OpenSelect, OpenOwned, OpenCrafted, OpenPity, tables
<1>11. ASSUME NEW p \in Procs, OpenUpdate(p) PROVE Quiet
  BY <1>1, <1>11 DEF OpenUpdate
<1>12. ASSUME NEW p \in Procs, NEW i \in Items, CraftOwned(p, i) PROVE Quiet
  <2>1. \A q \in Procs : q # p => want'[q] = want[q]
    BY <1>12 DEF CraftOwned, TypeInv, TypeOK
  <2>2. QED
    BY <1>2, <1>12, <2>1 DEF CraftOwned, tables
<1>13. ASSUME NEW p \in Procs, CraftHave(p) PROVE Quiet
  BY <1>1, <1>2, <1>13 DEF CraftHave, tables, locals
<1>14. ASSUME NEW p \in Procs, CraftGained(p) PROVE Quiet
  BY <1>2, <1>14 DEF CraftGained, tables
<1>15. ASSUME NEW p \in Procs, CraftSpent(p), ~affords(p) PROVE Quiet
  BY <1>1, <1>15 DEF CraftSpent, tables
<1>16. ASSUME NEW p \in Procs, CraftSpent(p), affords(p)
       PROVE  pc[p] = "spent" /\ affords(p) /\ goto(p, "insert") /\ UNCHANGED <<locals, tables>>
  BY <1>16 DEF CraftSpent
<1>17. ASSUME NEW p \in Procs, pc[p] = "insert", Return(p)
       PROVE  p \in inserting /\ inserting' = inserting \ {p} /\ \A q \in inserting' : want'[q] = want[q]
  BY <1>17 DEF TypeInv, TypeOK, Return, goto, inserting
<1>18. ASSUME NEW p \in Procs, CraftInsert(p)
       PROVE  /\ p \in inserting /\ inserting' = inserting \ {p} /\ \A q \in inserting' : want'[q] = want[q]
              /\ crafts' = crafts \cup {want[p]} /\ shards' = shards
  BY <1>17, <1>18 DEF CraftInsert
<1>19. ASSUME NEW p \in Procs, WriteRefused(p)
       PROVE  \/ Quiet
              \/ /\ p \in inserting /\ inserting' = inserting \ {p} /\ \A q \in inserting' : want'[q] = want[q]
                 /\ crafts' = crafts /\ shards' = shards
  <2>1. crafts' = crafts /\ shards' = shards
    BY <1>19 DEF WriteRefused, tables
  <2>2. CASE pc[p] = "insert"
    BY <1>17, <1>19, <2>1, <2>2 DEF WriteRefused
  <2>3. CASE pc[p] # "insert"
    BY <1>1, <1>19, <2>1, <2>3 DEF WriteRefused
  <2>4. QED
    BY <2>2, <2>3
<1>20. CASE UNCHANGED vars
  BY <1>20 DEF vars, tables, locals, inserting
<1> HIDE DEF Quiet
<1>21. CASE \E p \in Procs : Craft(p)
  <2>1. PICK p \in Procs : Craft(p)
    BY <1>21
  <2>2. CASE CraftSpent(p)
    BY <1>15, <1>16, <2>2 DEF Quiet
  <2>3. CASE CraftInsert(p)
    BY <1>18, <2>3
  <2>4. CASE ~CraftSpent(p) /\ ~CraftInsert(p)
    BY <1>12, <1>13, <1>14, <2>1, <2>4 DEF Craft, Quiet
  <2>5. QED
    BY <2>2, <2>3, <2>4
<1>22. CASE \E p \in Procs : WriteRefused(p)
  BY <1>19, <1>22 DEF Quiet
<1>23. CASE \E p \in Procs : Sync(p) \/ GetReferralStats(p) \/ \E r \in Referrals : Verify(p, r)
  BY <1>5, <1>6, <1>7, <1>8, <1>9, <1>23 DEF Sync, SyncSelect, GetReferralStats, Quiet
<1>24. CASE \E p \in Procs : Open(p)
  BY <1>10, <1>11, <1>24 DEF Open, Quiet
<1>25. CASE Age \/ \E r \in Referrals : Register(r) \/ DeleteAccount(r)
  BY <1>3, <1>4, <1>25 DEF Quiet
<1>26. QED
  BY <1>20, <1>21, <1>22, <1>23, <1>24, <1>25 DEF Next, Quiet

\* Shards are never taken, and come with an item.
LEMMA ShardsGrow ==
    ASSUME TypeInv, ClosedEmpty, [Next]_vars
    PROVE  (\A r \in Referrals : shards[r] <= shards'[r]) /\ ClosedEmpty'
<1>1. ASSUME NEW p \in Procs, NEW i \in Items, writes(p, i)
      PROVE  (\A r \in Referrals : shards[r] <= shards'[r]) /\ ClosedEmpty'
  <2>1. /\ crate[p] \in Referrals /\ item[crate[p]] = NoItem
        /\ item' = [item EXCEPT ![crate[p]] = i]
        /\ shards' = [shards EXCEPT ![crate[p]] = IF i \in owned[p] THEN ShardsFor[Rank[i]] ELSE 0]
    BY <1>1 DEF writes, TypeInv, LocalsSet
  <2>2. ShardsFor[Rank[i]] \in Nat /\ NoItem # i
    BY RewardsAssumption
  <2>3. shards[crate[p]] = 0
    BY <2>1 DEF ClosedEmpty
  <2>4. shards \in [Referrals -> Nat] /\ item \in [Referrals -> Items \cup {NoItem}]
    BY DEF TypeInv, TypeOK
  <2>5. QED
    BY <2>1, <2>2, <2>3, <2>4 DEF ClosedEmpty
<1>2. CASE UNCHANGED <<item, shards, opened, told>>
  <2>1. shards \in [Referrals -> Nat]
    BY DEF TypeInv, TypeOK
  <2>2. QED
    BY <1>2, <2>1 DEF ClosedEmpty
<1>3. QED
  BY <1>1, <1>2, OnlyWrites

\* Who comes to compare has just read the shards, who waits keeps what was read.
LEMMA GainCases ==
    ASSUME TypeInv, [Next]_vars, NEW p \in Procs, pc'[p] = "spent"
    PROVE  (gained'[p] = shards /\ shards' = shards) \/ (pc[p] = "spent" /\ gained'[p] = gained[p])
<1> DEFINE Kept == pc[p] = "spent" /\ gained'[p] = gained[p]
<1>1. ASSUME NEW q \in Procs, Return(q) \/ NextTurn(q) PROVE Kept
  BY <1>1 DEF TypeInv, TypeOK, Return, NextTurn, goto
<1>2. ASSUME NEW q \in Procs, NEW l, l # "spent", goto(q, l), gained' = gained PROVE Kept
  BY <1>2 DEF TypeInv, TypeOK, goto
<1>3. ASSUME NEW r \in Referrals, Register(r) \/ DeleteAccount(r) PROVE Kept
  BY <1>3 DEF Register, DeleteAccount, locals
<1>4. CASE Age
  BY <1>4 DEF Age, locals
<1>5. ASSUME NEW q \in Procs, NEW r \in Referrals, Verify(q, r) PROVE Kept
  BY <1>2, <1>5 DEF Verify, locals
<1>6. ASSUME NEW q \in Procs, readCands(q) PROVE Kept
  BY <1>2, <1>6 DEF readCands
<1>7. ASSUME NEW q \in Procs, SyncToday(q) PROVE Kept
  <2>1. CASE underDayCap
    BY <1>2, <1>7, <2>1 DEF SyncToday
  <2>2. CASE ~underDayCap
    BY <1>1, <1>7, <2>2 DEF SyncToday
  <2>3. QED
    BY <2>1, <2>2
<1>8. ASSUME NEW q \in Procs, SyncIP(q) PROVE Kept
  BY <1>1, <1>2, <1>8 DEF SyncIP, locals
<1>9. ASSUME NEW q \in Procs, SyncGrant(q) PROVE Kept
  BY <1>1, <1>9 DEF SyncGrant
<1>10. ASSUME NEW q \in Procs, OpenSelect(q) \/ OpenOwned(q) \/ OpenCrafted(q) \/ OpenPity(q) PROVE Kept
  BY <1>2, <1>10 DEF OpenSelect, OpenOwned, OpenCrafted, OpenPity
<1>11. ASSUME NEW q \in Procs, OpenUpdate(q) PROVE Kept
  BY <1>1, <1>11 DEF OpenUpdate
<1>12. ASSUME NEW q \in Procs, NEW i \in Items, CraftOwned(q, i) PROVE Kept
  BY <1>2, <1>12 DEF CraftOwned
<1>13. ASSUME NEW q \in Procs, CraftHave(q) PROVE Kept
  BY <1>1, <1>2, <1>13 DEF CraftHave, locals
<1>14. ASSUME NEW q \in Procs, CraftGained(q) PROVE Kept \/ (gained'[p] = shards /\ shards' = shards)
  BY <1>14 DEF CraftGained, tables, goto, TypeInv, TypeOK
<1>15. ASSUME NEW q \in Procs, CraftSpent(q) PROVE Kept
  BY <1>1, <1>2, <1>15 DEF CraftSpent, locals
<1>16. ASSUME NEW q \in Procs, CraftInsert(q) PROVE Kept
  BY <1>1, <1>16 DEF CraftInsert
<1>17. ASSUME NEW q \in Procs, WriteRefused(q) PROVE Kept
  BY <1>1, <1>17 DEF WriteRefused
<1>18. CASE UNCHANGED vars
  BY <1>18 DEF vars, locals
<1> HIDE DEF Kept
<1>19. CASE \E q \in Procs : Craft(q)
  <2>1. PICK q \in Procs : Craft(q)
    BY <1>19
  <2>2. CASE CraftGained(q)
    BY <1>14, <2>2, Zenon DEF Kept
  <2>3. CASE ~CraftGained(q)
    BY <1>12, <1>13, <1>15, <1>16, <2>1, <2>3 DEF Craft, Kept
  <2>4. QED
    BY <2>2, <2>3
<1>20. CASE \E q \in Procs : Sync(q) \/ GetReferralStats(q) \/ \E r \in Referrals : Verify(q, r)
  BY <1>5, <1>6, <1>7, <1>8, <1>9, <1>20 DEF Sync, SyncSelect, GetReferralStats, Kept
<1>21. CASE \E q \in Procs : Open(q)
  BY <1>10, <1>11, <1>21 DEF Open, Kept
<1>22. CASE Age \/ (\E r \in Referrals : Register(r) \/ DeleteAccount(r)) \/ \E q \in Procs : WriteRefused(q)
  BY <1>3, <1>4, <1>17, <1>22 DEF Kept
<1>23. QED
  BY <1>18, <1>19, <1>20, <1>21, <1>22 DEF Next, Kept

\* Every step keeps what is said about the debt.
LEMMA DebtStep == TypeInv /\ TypeInv' /\ DebtInv /\ [Next]_vars => DebtInv'
<1> SUFFICES ASSUME TypeInv, TypeInv', DebtInv, [Next]_vars PROVE DebtInv'
  OBVIOUS
<1>1. (\A r \in Referrals : shards[r] <= shards'[r]) /\ ClosedEmpty'
  BY ShardsGrow DEF DebtInv
<1>2. GainInv'
  <2> SUFFICES ASSUME NEW p \in Procs, pc'[p] = "spent", NEW r \in Referrals PROVE gained'[p][r] <= shards'[r]
    BY DEF GainInv
  <2>1. gained \in [Procs -> [Referrals -> Nat]] /\ shards \in [Referrals -> Nat] /\ shards' \in [Referrals -> Nat]
    BY DEF TypeInv, TypeOK
  <2>2. CASE gained'[p] = shards /\ shards' = shards
    BY <2>1, <2>2
  <2>3. CASE pc[p] = "spent" /\ gained'[p] = gained[p]
    <3>1. gained[p][r] <= shards[r] /\ shards[r] <= shards'[r]
      BY <1>1, <2>3 DEF DebtInv, GainInv
    <3>2. QED
      BY <2>1, <2>3, <3>1
  <2>4. QED
    BY <2>2, <2>3, GainCases
<1>3. DebtSum'
  <2>1. CASE \E p \in Procs : pc[p] = "spent" /\ affords(p) /\ goto(p, "insert") /\ UNCHANGED <<locals, tables>>
    BY <2>1, DebtAffords
  <2>2. CASE \E p \in inserting : /\ inserting' = inserting \ {p} /\ shards' = shards
                                  /\ \A q \in inserting' : want'[q] = want[q]
                                  /\ crafts' = crafts \/ crafts' = crafts \cup {want[p]}
    BY <2>2, DebtLeaves DEF DebtInv
  <2>3. CASE crafts' = crafts /\ inserting' = inserting /\ \A q \in inserting : want'[q] = want[q]
    BY <1>1, <2>3, DebtQuiet DEF DebtInv
  <2>4. QED
    BY <2>1, <2>2, <2>3, DebtCases
<1>4. QED
  BY <1>1, <1>2, <1>3 DEF DebtInv

\* Nothing is owed at first.
LEMMA DebtInit == Init => DebtInv
<1> SUFFICES ASSUME Init PROVE DebtInv
  OBVIOUS
<1>1. TypeInv
  BY TypeInit
<1>2. GainInv /\ ClosedEmpty
  BY DEF Init, GainInv, ClosedEmpty, noShards
<1>3. crafts = {} /\ inserting = {}
  BY DEF Init, inserting
<1>4. SUFFICES ASSUME Procs # {}, NEW m \in Nat PROVE spent(crafts) + m <= sumShards(shards) + others * m
  BY <1>2, <1>3 DEF DebtInv, DebtSum, DebtOf
<1>5. spent(crafts) = 0
  BY <1>3, SumNone DEF spent
<1>6. sumShards(shards) \in Nat
  BY <1>1, ShardsFacts DEF TypeInv, TypeOK
<1>7. others \in Nat /\ others >= 1
  <2>1. Cardinality(inserting) = 0
    BY <1>3, FS_EmptySet
  <2>2. Cardinality(Procs) \in Nat /\ Cardinality(Procs) >= 1
    <3>1. Procs \in SUBSET Procs
      OBVIOUS
    <3>2. QED
      BY <1>4, <3>1, OthersFacts
  <2>3. QED
    BY <2>1, <2>2 DEF others
<1>8. others * m \in Nat /\ m <= others * m
  BY <1>7, Times
<1>9. QED
  BY <1>5, <1>6, <1>8

\* Some crafted item cost no less than the others.
LEMMA Dearest ==
    ASSUME NEW done \in SUBSET Items, done # {}
    PROVE  \E i \in done : \A j \in done : cost(j) <= cost(i)
<1> DEFINE bounds == {n \in Nat : \A j \in done : cost(j) <= n}
<1> DEFINE total == spent(done)
<1>1. bounds # {}
  <2>1. total \in Nat
    BY SpentFacts
  <2>2. ASSUME NEW j \in done PROVE cost(j) <= total
    <3> DEFINE less == done \ {j}
    <3>1. less \in SUBSET Items /\ j \in Items \ less /\ less \cup {j} = done
      OBVIOUS
    <3> HIDE DEF less
    <3>2. spent(less) \in Nat /\ spent(less \cup {j}) = spent(less) + cost(j)
      BY <3>1, SpentFacts
    <3>3. cost(j) \in Nat
      BY CostType
    <3>4. total = spent(less) + cost(j)
      BY <3>1, <3>2, Zenon
    <3> HIDE DEF total
    <3>5. QED
      BY <3>2, <3>3, <3>4
  <2>3. QED
    BY <2>1, <2>2
<1>2. PICK n \in bounds : \A k \in bounds : n <= k
  <2>1. bounds \in SUBSET Nat
    OBVIOUS
  <2> HIDE DEF bounds
  <2>2. QED
    BY <1>1, <2>1, LeastOf
<1>3. n \in Nat /\ \A j \in done : cost(j) <= n /\ cost(j) \in Nat
  BY CostType
<1>4. SUFFICES ASSUME \A i \in done : cost(i) # n PROVE FALSE
  BY <1>3
<1>5. \A j \in done : cost(j) <= n - 1
  BY <1>3, <1>4
<1>6. n - 1 \in Nat
  <2>1. PICK j \in done : TRUE
    OBVIOUS
  <2>2. QED
    BY <1>3, <1>5, <2>1
<1>7. n - 1 \in bounds
  BY <1>5, <1>6
<1>8. QED
  BY <1>2, <1>3, <1>7

\* Handlers that craft at the same time overdraw the shards by less than one
\* item for each beyond the first.
THEOREM DebtStaysBounded == Spec => []DebtBounded
<1>1. TypeInv /\ DebtInv => DebtBounded
  <2> SUFFICES ASSUME TypeInv, DebtInv, spent(crafts) > sumShards(shards)
               PROVE  \E i \in crafts : spent(crafts) - sumShards(shards) <= (Cardinality(Procs) - 1) * cost(i)
    BY DEF DebtBounded, cost
  <2>1. crafts \in SUBSET Items /\ shards \in [Referrals -> Nat]
    BY DEF TypeInv, TypeOK
  <2>2. spent(crafts) \in Nat /\ sumShards(shards) \in Nat
    BY <2>1, SpentFacts, ShardsFacts
  <2>3. crafts # {}
    <3>1. spent({}) = 0
      BY SumNone DEF spent
    <3>2. QED
      BY <2>2, <3>1
  <2>4. PICK i \in crafts : \A j \in crafts : cost(j) <= cost(i)
    BY <2>1, <2>3, Dearest
  <2>5. Procs # {}
    BY <2>3 DEF DebtInv, DebtSum
  <2> DEFINE m == cost(i)
  <2>6. m \in Nat
    BY <2>1, CostType
  <2>7. DebtOf(m)
    BY <2>4, <2>5, <2>6 DEF DebtInv, DebtSum
  <2> HIDE DEF m
  <2> DEFINE n == Cardinality(Procs) - 1
  <2>8. /\ inserting \in SUBSET Procs /\ n \in Nat /\ Cardinality(inserting) \in Nat /\ others \in Nat
        /\ others = n + 1 - Cardinality(inserting)
        /\ inserting # {} => Cardinality(inserting) >= 1
    <3>1. inserting \in SUBSET Procs /\ Procs \in SUBSET Procs
      BY DEF inserting
    <3>2. Cardinality(Procs) \in Nat /\ Cardinality(Procs) >= 1
      BY <2>5, <3>1, OthersFacts
    <3>3. /\ Cardinality(inserting) \in Nat /\ others \in Nat
          /\ inserting # {} => Cardinality(inserting) >= 1
      BY <3>1, OthersFacts DEF others
    <3>4. others = Cardinality(Procs) - Cardinality(inserting)
      BY DEF others
    <3>5. QED
      BY <3>1, <3>2, <3>3, <3>4
  <2> HIDE DEF n
  <2> DEFINE d == spent(crafts)
  <2> DEFINE a == sumShards(shards)
  <2>9. CASE \E q \in inserting : d + cost(want[q]) <= a + others * m
    <3>1. PICK q \in inserting : d + cost(want[q]) <= a + others * m
      BY <2>9
    <3>2. cost(want[q]) \in Nat
      BY CostType DEF inserting, TypeInv, LocalsSet
    <3>3. others * m \in Nat /\ n * m \in Nat /\ others * m <= n * m
      <4>1. others <= n
        BY <2>8, <3>1
      <4>2. QED
        BY <2>6, <2>8, <4>1, TimesMono
    <3> HIDE DEF d, a
    <3>4. d - a <= n * m
      BY <2>2, <3>1, <3>2, <3>3 DEF d, a
    <3>5. QED
      BY <3>4 DEF d, a, n, m
  <2>10. CASE d + m <= a + others * m
    <3>1. (n + 1) * m = n * m + m /\ n * m \in Nat
      BY <2>6, <2>8, Times
    <3>2. others * m \in Nat /\ others * m <= (n + 1) * m
      <4>1. others <= n + 1 /\ n + 1 \in Nat
        BY <2>8
      <4>2. QED
        BY <2>6, <2>8, <4>1, TimesMono
    <3>3. d - a <= n * m
      BY <2>2, <2>6, <2>10, <3>1, <3>2
    <3>4. QED
      BY <3>3 DEF n, m
  <2>11. QED
    BY <2>7, <2>9, <2>10 DEF DebtOf
<1>2. QED
  BY <1>1, DebtInit, DebtStep, TypeInit, TypeStep, PTL DEF Spec
=============================================================================
