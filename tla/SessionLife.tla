---------------------------- MODULE SessionLife ----------------------------
(***************************************************************************)
(* What a session is to the client that holds its token: handed out held   *)
(* or live, let go once somebody has approved the device, and over for     *)
(* good when it ends.                                                      *)
(***************************************************************************)
CONSTANT Tokens

VARIABLES
    life,      \* life[t]: "none", "held", "live" or "over"
    approved   \* sessions whose device the user approved

Init == life = [t \in Tokens |-> "none"] /\ approved = {}

\* A session may have ended before its token reaches the client.
HandOut(t, how) ==
    /\ life[t] = "none"
    /\ how \in {"held", "live", "over"}
    /\ life' = [life EXCEPT ![t] = how]
    /\ UNCHANGED approved

Approve(t) == approved' = approved \cup {t} /\ UNCHANGED life

LetGo(t) ==
    /\ life[t] = "held" /\ t \in approved
    /\ life' = [life EXCEPT ![t] = "live"]
    /\ UNCHANGED approved

\* One or many, as when a password is reset.
End(S) ==
    /\ life' = [t \in Tokens |-> IF t \in S /\ life[t] # "none" THEN "over" ELSE life[t]]
    /\ UNCHANGED approved

Next ==
    \/ \E t \in Tokens : Approve(t) \/ LetGo(t)
    \/ \E t \in Tokens, how \in {"held", "live", "over"} : HandOut(t, how)
    \/ \E S \in SUBSET Tokens : End(S)

Spec == Init /\ [][Next]_<<life, approved>>
=============================================================================
