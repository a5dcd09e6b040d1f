----------------------------- MODULE MCAccounts -----------------------------
(***************************************************************************)
(* Accounts: their sessions, the counters of failures, the second factor,  *)
(* the QR code and the supporter badge, with two handlers under way.  The  *)
(* components share no variable; every behaviour follows one of them.  The *)
(* thresholds and windows are small, and as in the code the window of a    *)
(* user is the longer one, and an authenticator code is valid for longer   *)
(* than it is remembered.                                                  *)
(***************************************************************************)
EXTENDS Sessions, SignIn, SecondFactor, QRLogin, Supporters, TLC

VARIABLE followed   \* the component whose steps are taken

MCMax == [k \in Kinds |-> IF k = "user" THEN 2 ELSE 1]
MCWindow == [k \in Kinds |-> IF k = "user" THEN 2 ELSE 1]
Alike == Permutations(Reqs) \cup Permutations(Tokens)

MCInit ==
    /\ SInit /\ AInit /\ TInit /\ QInit /\ UInit
    /\ followed \in {"sessions", "signIn", "secondFactor", "qrLogin", "supporters"}

MCNext ==
    \/ followed = "sessions" /\ SNext /\ UNCHANGED <<avars, tvars, qvars, uvars, followed>>
    \/ followed = "signIn" /\ ANext /\ UNCHANGED <<svars, tvars, qvars, uvars, followed>>
    \/ followed = "secondFactor" /\ TNext /\ UNCHANGED <<svars, avars, qvars, uvars, followed>>
    \/ followed = "qrLogin" /\ QNext /\ UNCHANGED <<svars, avars, tvars, uvars, followed>>
    \/ followed = "supporters" /\ UNext /\ UNCHANGED <<svars, avars, tvars, qvars, followed>>

MCSpec == MCInit /\ [][MCNext]_<<svars, avars, tvars, qvars, uvars, followed>>
=============================================================================
