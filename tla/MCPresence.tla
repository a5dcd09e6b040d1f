----------------------------- MODULE MCPresence -----------------------------
(***************************************************************************)
(* Small instances of Presence: all connections come from one address.     *)
(***************************************************************************)
EXTENDS Presence, TLC

CONSTANTS addr

MCConnAddr == [c \in Conns |-> addr]

ConnSymmetry == Permutations(Conns)
=============================================================================
