----------------------------- MODULE MCMailbox -----------------------------
(***************************************************************************)
(* Small instances of Mailbox.  A direct message may be sent twice, a      *)
(* group message once.                                                     *)
(***************************************************************************)
EXTENDS Mailbox, TLC

MCMaxSends == [m \in Msgs |-> IF m \in GroupMsgs THEN 1 ELSE 2]

ConnSymmetry == Permutations(Conns)
=============================================================================
