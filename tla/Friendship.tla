----------------------------- MODULE Friendship -----------------------------
(***************************************************************************)
(* What friendship means, without rows and statements: two people are      *)
(* friends from the moment the second of them agrees to what the first     *)
(* asked for, until one of them ends it or erases the account.             *)
(***************************************************************************)
CONSTANT Users

VARIABLES
    willing,     \* <<a, b>>: a has asked b, or agreed to b's asking
    friendship   \* {a, b}: a and b are friends

Init == willing = {} /\ friendship = {}

Ask(a, b) ==
    /\ willing' = willing \cup {<<a, b>>}
    /\ UNCHANGED friendship

Agree(a, b) ==
    /\ <<b, a>> \in willing
    /\ willing' = willing \cup {<<a, b>>}
    /\ friendship' = friendship \cup {{a, b}}

\* Turning down what a asked for ends no friendship.
Decline(a, b) ==
    /\ {a, b} \notin friendship
    /\ willing' = willing \ {<<a, b>>}
    /\ UNCHANGED friendship

Part(a, b) ==
    /\ willing' = willing \ {<<a, b>>, <<b, a>>}
    /\ friendship' = friendship \ {{a, b}}

Erase(u) ==
    /\ willing' = {w \in willing : u # w[1] /\ u # w[2]}
    /\ friendship' = {p \in friendship : u \notin p}

Next ==
    \/ \E a, b \in Users : Ask(a, b) \/ Agree(a, b) \/ Decline(a, b) \/ Part(a, b)
    \/ \E u \in Users : Erase(u)

Spec == Init /\ [][Next]_<<willing, friendship>>
=============================================================================
