----------------------------- MODULE MCRewards -----------------------------
(***************************************************************************)
(* A small instance of Rewards.                                            *)
(***************************************************************************)
EXTENDS Rewards, TLC

CONSTANTS cheers, comet, crown, diamond, home

MCSignupIP == [r \in Referrals |-> home]
MCRank == [i \in Items |-> CASE i = cheers -> 0 [] i = comet -> 1 [] OTHER -> 2]
MCShardsFor == (0 :> 2) @@ (1 :> 3) @@ (2 :> 4) @@ (3 :> 5)
MCCraftCost == (0 :> 2) @@ (1 :> 3) @@ (2 :> 3) @@ (3 :> 4)

\* Handlers, referrals and the two epic items differ in nothing but their names.
RewardsSymmetry ==
    Permutations(Procs) \cup Permutations(Referrals) \cup Permutations({crown, diamond})
=============================================================================
