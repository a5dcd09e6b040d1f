--------------------------- MODULE MCRegistryLock ---------------------------
(* Small instances of RegistryLock; goroutines of one kind are interchangeable. *)
EXTENDS RegistryLock, TLC

ProcSymmetry == Permutations(Lookups) \cup Permutations(Updates) \cup Permutations(Convos)
=============================================================================
