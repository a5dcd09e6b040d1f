------------------------------ MODULE Requests ------------------------------
(***************************************************************************)
(* The goroutines that serve HTTP requests and WebSocket messages, where   *)
(* it does not matter whose connection they serve.                         *)
(***************************************************************************)
EXTENDS Naturals, FiniteSets

CONSTANT Reqs   \* handlers that can be under way at the same time

ASSUME RequestsAssumption == IsFiniteSet(Reqs)
=============================================================================
