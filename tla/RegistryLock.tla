---------------------------- MODULE RegistryLock ----------------------------
(***************************************************************************)
(* Who holds s.Mu, the read-write lock of the connection registry.         *)
(*                                                                         *)
(* Three kinds of goroutines use it: those that copy or look something up  *)
(* under RLock (clientsOf and its kin), those that change the registry or  *)
(* a Client under Lock (addClient, removeClient, the status loops, the     *)
(* call handlers), and the convo_msg handler, which holds RLock over its   *)
(* loop and calls sendTo, that is clientsOf, for every member of the       *)
(* group.                                                                  *)
(*                                                                         *)
(* The lock is Go's sync.RWMutex: a waiting writer keeps new readers out,  *)
(* and its Unlock lets all the readers that came meanwhile in.             *)
(***************************************************************************)
EXTENDS Naturals

CONSTANTS
    Lookups,    \* goroutines that read under RLock
    Updates,    \* goroutines that write under Lock
    Convos,     \* goroutines in convo_msg
    Members,    \* recipients of a group message
    Nobody      \* the lock has no owner

Procs == Lookups \cup Updates \cup Convos

ASSUME LockAssumption ==
    /\ Members \in Nat
    /\ Nobody \notin Procs
    /\ Lookups \cap Updates = {} /\ Lookups \cap Convos = {} /\ Updates \cap Convos = {}

VARIABLES
    pc,         \* where the goroutine is
    left,       \* convo_msg: recipients its loop has still to serve
    holds,      \* read locks the goroutine holds
    rwait,      \* goroutines blocked in RLock
    wmu,        \* RWMutex.w: the writer that owns or awaits the lock
    announced   \* that writer has made itself known to readers

lock == <<holds, rwait, wmu, announced>>
vars == <<pc, left, lock>>

TypeOK ==
    /\ pc \in [Procs -> {"idle", "rlock", "read", "lock", "drain", "change",
                         "outer", "loop", "inner", "copy"}]
    /\ left \in [Procs -> 0..Members]
    /\ holds \in [Procs -> 0..2]
    /\ rwait \subseteq Procs
    /\ wmu \in Procs \cup {Nobody}
    /\ announced \in BOOLEAN

Init ==
    /\ pc = [g \in Procs |-> "idle"]
    /\ left = [g \in Procs |-> 0]
    /\ holds = [g \in Procs |-> 0]
    /\ rwait = {}
    /\ wmu = Nobody
    /\ announced = FALSE

-----------------------------------------------------------------------------
(* sync.RWMutex. *)

goto(g, label) == pc' = [pc EXCEPT ![g] = label]

\* RLock takes the lock at once, or queues behind a writer that announced itself.
RLock(g) ==
    /\ IF announced
       THEN rwait' = rwait \cup {g} /\ UNCHANGED holds
       ELSE holds' = [holds EXCEPT ![g] = @ + 1] /\ UNCHANGED rwait
    /\ UNCHANGED <<wmu, announced>>

\* RLock has returned.
admitted(g) == g \notin rwait

RUnlock(g) ==
    /\ holds' = [holds EXCEPT ![g] = @ - 1]
    /\ UNCHANGED <<rwait, wmu, announced>>

\* Lock, first half: one writer at a time.
LockBegin(g) ==
    /\ wmu = Nobody
    /\ wmu' = g
    /\ announced' = TRUE
    /\ UNCHANGED <<holds, rwait>>

\* Lock, second half: the readers that were there before have left.
drained == \A g \in Procs : holds[g] = 0

Unlock ==
    /\ wmu' = Nobody
    /\ announced' = FALSE
    /\ holds' = [g \in Procs |-> IF g \in rwait THEN holds[g] + 1 ELSE holds[g]]
    /\ rwait' = {}

-----------------------------------------------------------------------------
(* A lookup: RLock, range over the connections, RUnlock. *)

LookupBegin(g) ==
    /\ g \in Lookups /\ pc[g] = "idle"
    /\ RLock(g)
    /\ goto(g, "rlock")
    /\ UNCHANGED left

LookupRead(g) ==
    /\ pc[g] = "rlock" /\ admitted(g)
    /\ goto(g, "read")
    /\ UNCHANGED <<left, lock>>

\* Mutant: a return without RUnlock.
LookupEnd_NoUnlock(g) ==
    /\ pc[g] = "read"
    /\ goto(g, "idle")
    /\ UNCHANGED <<left, lock>>

LookupEnd(g) ==
    /\ pc[g] = "read"
    /\ RUnlock(g)
    /\ goto(g, "idle")
    /\ UNCHANGED left

-----------------------------------------------------------------------------
(* An update: Lock, change the registry, Unlock. *)

\* Mutant: the registry is changed without the lock.
UpdateBegin_NoLock(g) ==
    /\ g \in Updates /\ pc[g] = "idle"
    /\ goto(g, "change")
    /\ UNCHANGED <<left, lock>>

UpdateBegin(g) ==
    /\ g \in Updates /\ pc[g] = "idle"
    /\ goto(g, "lock")
    /\ UNCHANGED <<left, lock>>

UpdateWaits(g) ==
    /\ pc[g] = "lock"
    /\ LockBegin(g)
    /\ goto(g, "drain")
    /\ UNCHANGED left

UpdateChange(g) ==
    /\ pc[g] = "drain" /\ drained
    /\ goto(g, "change")
    /\ UNCHANGED <<left, lock>>

\* Mutant: a return without Unlock.
UpdateEnd_NoUnlock(g) ==
    /\ pc[g] = "change"
    /\ goto(g, "idle")
    /\ UNCHANGED <<left, lock>>

UpdateEnd(g) ==
    /\ pc[g] = "change"
    /\ Unlock
    /\ goto(g, "idle")
    /\ UNCHANGED left

-----------------------------------------------------------------------------
(* convo_msg: RLock around a loop whose every turn calls sendTo. *)

ConvoBegin(g) ==
    /\ g \in Convos /\ pc[g] = "idle"
    /\ RLock(g)
    /\ left' = [left EXCEPT ![g] = Members]
    /\ goto(g, "outer")

ConvoLoop(g) ==
    /\ pc[g] = "outer" /\ admitted(g)
    /\ goto(g, "loop")
    /\ UNCHANGED <<left, lock>>

\* sendTo calls clientsOf, which takes RLock again.
ConvoSendTo(g) ==
    /\ pc[g] = "loop" /\ left[g] > 0
    /\ RLock(g)
    /\ goto(g, "inner")
    /\ UNCHANGED left

ConvoCopy(g) ==
    /\ pc[g] = "inner" /\ admitted(g)
    /\ goto(g, "copy")
    /\ UNCHANGED <<left, lock>>

\* clientsOf returns; the Send and the offline row follow under the outer lock.
ConvoSent(g) ==
    /\ pc[g] = "copy"
    /\ RUnlock(g)
    /\ left' = [left EXCEPT ![g] = @ - 1]
    /\ goto(g, "loop")

ConvoEnd(g) ==
    /\ pc[g] = "loop" /\ left[g] = 0
    /\ RUnlock(g)
    /\ goto(g, "idle")
    /\ UNCHANGED left

-----------------------------------------------------------------------------
Start(g) == LookupBegin(g) \/ UpdateBegin(g) \/ ConvoBegin(g)

Step(g) ==
    \/ LookupRead(g) \/ LookupEnd(g)
    \/ UpdateWaits(g) \/ UpdateChange(g) \/ UpdateEnd(g)
    \/ ConvoLoop(g) \/ ConvoSendTo(g) \/ ConvoCopy(g) \/ ConvoSent(g) \/ ConvoEnd(g)

Next == \E g \in Procs : Start(g) \/ Step(g)

Spec == Init /\ [][Next]_vars

\* A goroutine that can go on does.  Among the writers waiting for RWMutex.w
\* none is passed over for ever: a Go mutex turns to first come, first served
\* for a waiter that has waited a millisecond.
Fairness == \A g \in Procs : WF_vars(Step(g)) /\ SF_vars(UpdateWaits(g))

FairSpec == Spec /\ Fairness

-----------------------------------------------------------------------------
(* Properties. *)

reading(g) == pc[g] \in {"read", "loop", "copy"} \/ (pc[g] = "inner" /\ holds[g] > 0)

(***************************************************************************)
(* While one goroutine changes the registry or a Client nobody else reads  *)
(* or changes it: Go's maps and slices do not survive anything else.       *)
(***************************************************************************)
Exclusion ==
    \A g, h \in Procs : pc[g] = "change" /\ h # g => ~reading(h) /\ pc[h] # "change"

(***************************************************************************)
(* The lock does its work: no goroutine returns a read lock it does not    *)
(* hold or holds more than the two of convo_msg, and updates are alone.    *)
(***************************************************************************)
LockSafe ==
    /\ TypeOK
    /\ Exclusion

\* A group message waits inside its own read lock for a writer that waits for it.
nested == \E g \in Convos : pc[g] = "inner" /\ ~admitted(g)

(***************************************************************************)
(* Every handler that asked for the registry lock gets it and gives it     *)
(* back, however lookups and updates crowd the lock: the nested read lock  *)
(* of convo_msg is the only way to get stuck.                              *)
(***************************************************************************)
StuckOnlyNested == \A g \in Procs : pc[g] # "idle" ~> (pc[g] = "idle" \/ nested)

(***************************************************************************)
(* No goroutine is stuck in the lock.                                      *)
(***************************************************************************)
HandlersFinish == \A g \in Procs : pc[g] # "idle" ~> pc[g] = "idle"
=============================================================================
