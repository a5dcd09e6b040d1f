------------------------- MODULE RegistryLockProofs -------------------------
(***************************************************************************)
(* Proofs about RegistryLock, for any number of goroutines of each kind    *)
(* and any group size: the lock excludes, whether or not the handlers that *)
(* nest it get through.                                                    *)
(***************************************************************************)
EXTENDS RegistryLock, TLAPS

\* The read locks a goroutine holds, told by where it is and whether it waits.
HoldsInv ==
    \A g \in Procs :
        /\ pc[g] \in {"idle", "lock", "drain", "change"} => g \notin rwait /\ holds[g] = 0
        /\ pc[g] \in {"rlock", "outer"} => holds[g] = IF g \in rwait THEN 0 ELSE 1
        /\ pc[g] \in {"read", "loop"} => g \notin rwait /\ holds[g] = 1
        /\ pc[g] = "inner" => holds[g] = IF g \in rwait THEN 1 ELSE 2
        /\ pc[g] = "copy" => g \notin rwait /\ holds[g] = 2
        /\ pc[g] \in {"inner", "copy"} => left[g] > 0

\* The writer: known to the readers from LockBegin to Unlock.
WriterInv ==
    /\ announced <=> wmu # Nobody
    /\ \A g \in Procs : pc[g] \in {"drain", "change"} <=> wmu = g

\* Once a writer is in, no read lock is held.
DrainInv ==
    \A g, h \in Procs : pc[g] = "change" => holds[h] = 0

Inv == TypeOK /\ HoldsInv /\ WriterInv /\ DrainInv

LEMMA InitInv == Init => Inv
<1> SUFFICES ASSUME Init PROVE Inv
  OBVIOUS
<1>1. TypeOK
  <2>1. 0 \in 0..Members /\ 0 \in 0..2
    BY LockAssumption
  <2>2. QED
    BY <2>1 DEF Init, TypeOK
<1>2. HoldsInv /\ WriterInv /\ DrainInv
  BY LockAssumption DEF Init, HoldsInv, WriterInv, DrainInv
<1>3. QED
  BY <1>1, <1>2 DEF Inv

\* Taking a read lock: the caller holds one more, or waits for it.
LEMMA RLockInv ==
    ASSUME Inv, NEW g \in Procs, RLock(g),
           \/ pc[g] = "idle" /\ (goto(g, "rlock") \/ goto(g, "outer"))
           \/ pc[g] = "loop" /\ left[g] > 0 /\ goto(g, "inner"),
           left' \in [Procs -> 0..Members],
           \A h \in Procs \ {g} : left'[h] = left[h],
           pc[g] = "loop" => UNCHANGED left
    PROVE  Inv'
<1>1. g \notin rwait /\ holds[g] = IF pc[g] = "idle" THEN 0 ELSE 1
  BY DEF Inv, HoldsInv
<1>2. \A h \in Procs \ {g} : pc'[h] = pc[h] /\ holds'[h] = holds[h] /\ (h \in rwait' <=> h \in rwait)
  BY DEF RLock, goto, Inv, TypeOK
<1>3. /\ g \in rwait' <=> announced
      /\ holds'[g] = IF announced THEN holds[g] ELSE holds[g] + 1
      /\ wmu' = wmu /\ announced' = announced
  BY <1>1 DEF RLock, Inv, TypeOK
<1>4. \/ pc[g] = "idle" /\ pc'[g] \in {"rlock", "outer"}
      \/ pc[g] = "loop" /\ pc'[g] = "inner" /\ left'[g] > 0
  BY DEF goto, Inv, TypeOK
<1>5. TypeOK'
  <2>1. holds' \in [Procs -> 0..2] /\ rwait' \subseteq Procs
    BY <1>1 DEF RLock, Inv, TypeOK
  <2>2. pc' \in [Procs -> {"idle", "rlock", "read", "lock", "drain", "change",
                           "outer", "loop", "inner", "copy"}]
    BY DEF goto, Inv, TypeOK
  <2>3. QED
    BY <1>3, <2>1, <2>2 DEF Inv, TypeOK
<1>6. HoldsInv'
  BY <1>1, <1>2, <1>3, <1>4 DEF Inv, HoldsInv
<1>7. WriterInv'
  BY <1>2, <1>3, <1>4 DEF Inv, WriterInv
<1>8. DrainInv'
  <2>1. ASSUME NEW f \in Procs, NEW h \in Procs, pc'[f] = "change" PROVE holds'[h] = 0
    <3>1. f # g /\ pc[f] = "change"
      BY <1>2, <1>4, <2>1
    <3>2. announced
      BY <3>1, LockAssumption DEF Inv, WriterInv
    <3>3. holds'[h] = holds[h]
      BY <1>2, <1>3, <3>2
    <3>4. QED
      BY <3>1, <3>3 DEF Inv, DrainInv
  <2>2. QED
    BY <2>1 DEF DrainInv
<1>9. QED
  BY <1>5, <1>6, <1>7, <1>8 DEF Inv

\* Giving a read lock back.
LEMMA RUnlockInv ==
    ASSUME Inv, NEW g \in Procs, RUnlock(g),
           \/ pc[g] \in {"read", "loop"} /\ goto(g, "idle")
           \/ pc[g] = "copy" /\ goto(g, "loop"),
           left' \in [Procs -> 0..Members],
           \A h \in Procs \ {g} : left'[h] = left[h]
    PROVE  Inv'
<1>1. g \notin rwait /\ holds[g] = IF pc[g] = "copy" THEN 2 ELSE 1
  BY DEF Inv, HoldsInv
<1>2. \A h \in Procs \ {g} : pc'[h] = pc[h] /\ holds'[h] = holds[h]
  BY DEF RUnlock, goto, Inv, TypeOK
<1>3. UNCHANGED <<rwait, wmu, announced>> /\ holds'[g] = holds[g] - 1
  BY DEF RUnlock, Inv, TypeOK
<1>4. \/ pc[g] \in {"read", "loop"} /\ pc'[g] = "idle"
      \/ pc[g] = "copy" /\ pc'[g] = "loop"
  BY DEF goto, Inv, TypeOK
<1>5. TypeOK'
  <2>1. holds' \in [Procs -> 0..2]
    BY <1>1 DEF RUnlock, Inv, TypeOK
  <2>2. pc' \in [Procs -> {"idle", "rlock", "read", "lock", "drain", "change",
                           "outer", "loop", "inner", "copy"}]
    BY DEF goto, Inv, TypeOK
  <2>3. QED
    BY <1>3, <2>1, <2>2 DEF Inv, TypeOK
<1>6. HoldsInv'
  BY <1>1, <1>2, <1>3, <1>4 DEF Inv, HoldsInv
<1>7. WriterInv'
  BY <1>2, <1>3, <1>4 DEF Inv, WriterInv
<1>8. DrainInv'
  <2>1. ASSUME NEW f \in Procs, pc'[f] = "change" PROVE FALSE
    <3>1. pc[f] = "change"
      BY <1>2, <1>4, <2>1
    <3>2. QED
      BY <1>1, <3>1 DEF Inv, DrainInv
  <2>2. QED
    BY <2>1 DEF DrainInv
<1>9. QED
  BY <1>5, <1>6, <1>7, <1>8 DEF Inv

\* Moving on within a handler once RLock has returned.
LEMMA AdmittedInv ==
    ASSUME Inv, NEW g \in Procs, UNCHANGED <<left, lock>>, admitted(g),
           \/ pc[g] = "rlock" /\ goto(g, "read")
           \/ pc[g] = "outer" /\ goto(g, "loop")
           \/ pc[g] = "inner" /\ goto(g, "copy")
    PROVE  Inv'
<1>1. UNCHANGED <<left, holds, rwait, wmu, announced>> /\ g \notin rwait
  BY DEF lock, admitted
<1>2. /\ \/ pc[g] = "rlock" /\ pc'[g] = "read"
         \/ pc[g] = "outer" /\ pc'[g] = "loop"
         \/ pc[g] = "inner" /\ pc'[g] = "copy"
      /\ \A h \in Procs \ {g} : pc'[h] = pc[h]
  BY DEF goto, Inv, TypeOK
<1>3. TypeOK'
  BY <1>1 DEF goto, Inv, TypeOK
<1>4. HoldsInv' /\ WriterInv' /\ DrainInv'
  BY <1>1, <1>2 DEF Inv, HoldsInv, WriterInv, DrainInv
<1>5. QED
  BY <1>3, <1>4 DEF Inv

\* The writer's way in and out.
LEMMA WriterSteps ==
    ASSUME Inv, NEW g \in Procs,
           UpdateBegin(g) \/ UpdateWaits(g) \/ UpdateChange(g) \/ UpdateEnd(g)
    PROVE  Inv'
<1>1. CASE UpdateBegin(g)
  <2>1. /\ UNCHANGED <<left, holds, rwait, wmu, announced>>
        /\ pc[g] = "idle" /\ pc' = [pc EXCEPT ![g] = "lock"]
    BY <1>1 DEF UpdateBegin, goto, lock
  <2>2. TypeOK'
    BY <2>1 DEF Inv, TypeOK
  <2>3. pc'[g] = "lock" /\ \A h \in Procs \ {g} : pc'[h] = pc[h]
    BY <2>1 DEF Inv, TypeOK
  <2>4. HoldsInv' /\ WriterInv' /\ DrainInv'
    BY <2>1, <2>3 DEF Inv, HoldsInv, WriterInv, DrainInv
  <2>5. QED
    BY <2>2, <2>4 DEF Inv
<1>2. CASE UpdateWaits(g)
  <2>1. /\ UNCHANGED <<left, holds, rwait>> /\ wmu = Nobody /\ wmu' = g /\ announced' = TRUE
        /\ pc[g] = "lock" /\ pc' = [pc EXCEPT ![g] = "drain"]
    BY <1>2 DEF UpdateWaits, LockBegin, goto
  <2>2. TypeOK'
    BY <2>1 DEF Inv, TypeOK
  <2>3. pc'[g] = "drain" /\ \A h \in Procs \ {g} : pc'[h] = pc[h]
    BY <2>1 DEF Inv, TypeOK
  <2>4. \A h \in Procs : pc[h] \notin {"drain", "change"}
    BY <2>1, LockAssumption DEF Inv, WriterInv
  <2>5. HoldsInv' /\ WriterInv' /\ DrainInv'
    BY <2>1, <2>3, <2>4, LockAssumption DEF Inv, HoldsInv, WriterInv, DrainInv
  <2>6. QED
    BY <2>2, <2>5 DEF Inv
<1>3. CASE UpdateChange(g)
  <2>1. /\ UNCHANGED <<left, holds, rwait, wmu, announced>> /\ drained
        /\ pc[g] = "drain" /\ pc' = [pc EXCEPT ![g] = "change"]
    BY <1>3 DEF UpdateChange, goto, lock
  <2>2. TypeOK'
    BY <2>1 DEF Inv, TypeOK
  <2>3. pc'[g] = "change" /\ \A h \in Procs \ {g} : pc'[h] = pc[h]
    BY <2>1 DEF Inv, TypeOK
  <2>4. HoldsInv' /\ WriterInv' /\ DrainInv'
    BY <2>1, <2>3 DEF Inv, HoldsInv, WriterInv, DrainInv, drained
  <2>5. QED
    BY <2>2, <2>4 DEF Inv
<1>4. CASE UpdateEnd(g)
  <2>1. /\ UNCHANGED left /\ wmu' = Nobody /\ announced' = FALSE /\ rwait' = {}
        /\ \A h \in Procs : holds'[h] = IF h \in rwait THEN holds[h] + 1 ELSE holds[h]
        /\ pc[g] = "change" /\ pc' = [pc EXCEPT ![g] = "idle"]
    BY <1>4 DEF UpdateEnd, Unlock, goto
  <2>2. pc'[g] = "idle" /\ \A h \in Procs \ {g} : pc'[h] = pc[h]
    BY <2>1 DEF Inv, TypeOK
  <2>3. \A h \in Procs : h \in rwait => holds[h] + 1 \in 0..2
    BY DEF Inv, HoldsInv, TypeOK
  <2>4. holds' \in [Procs -> 0..2]
    BY <1>4, <2>3 DEF UpdateEnd, Unlock, Inv, TypeOK
  <2>5. TypeOK'
    BY <2>1, <2>4 DEF Inv, TypeOK
  <2>6. \A h \in Procs \ {g} : pc[h] \notin {"drain", "change"}
    BY <2>1, LockAssumption DEF Inv, WriterInv
  <2>7. HoldsInv'
    BY <2>1, <2>2 DEF Inv, HoldsInv, TypeOK
  <2>8. WriterInv' /\ DrainInv'
    BY <2>1, <2>2, <2>6, LockAssumption DEF WriterInv, DrainInv
  <2>9. QED
    BY <2>5, <2>7, <2>8 DEF Inv
<1>5. QED
  BY <1>1, <1>2, <1>3, <1>4

LEMMA NextInv == Inv /\ [Next]_vars => Inv'
<1> SUFFICES ASSUME Inv, [Next]_vars PROVE Inv'
  OBVIOUS
<1>0. left \in [Procs -> 0..Members] /\ Members \in Nat
  BY LockAssumption DEF Inv, TypeOK
<1>1. ASSUME NEW g \in Procs, LookupBegin(g) \/ ConvoSendTo(g) PROVE Inv'
  BY <1>0, <1>1, RLockInv DEF LookupBegin, ConvoSendTo
<1>2. ASSUME NEW g \in Procs, ConvoBegin(g) PROVE Inv'
  <2>1. left' \in [Procs -> 0..Members] /\ \A h \in Procs \ {g} : left'[h] = left[h]
    BY <1>0, <1>2 DEF ConvoBegin
  <2>2. QED
    BY <1>2, <2>1, RLockInv DEF ConvoBegin
<1>3. ASSUME NEW g \in Procs, LookupEnd(g) \/ ConvoEnd(g) PROVE Inv'
  BY <1>0, <1>3, RUnlockInv DEF LookupEnd, ConvoEnd
<1>4. ASSUME NEW g \in Procs, ConvoSent(g) PROVE Inv'
  <2>1. left[g] > 0 /\ left[g] \in 0..Members
    BY <1>0, <1>4 DEF ConvoSent, Inv, HoldsInv
  <2>2. left' \in [Procs -> 0..Members] /\ \A h \in Procs \ {g} : left'[h] = left[h]
    BY <1>0, <1>4, <2>1 DEF ConvoSent
  <2>3. QED
    BY <1>4, <2>2, RUnlockInv DEF ConvoSent
<1>5. ASSUME NEW g \in Procs, LookupRead(g) \/ ConvoLoop(g) \/ ConvoCopy(g) PROVE Inv'
  BY <1>5, AdmittedInv DEF LookupRead, ConvoLoop, ConvoCopy
<1>6. ASSUME NEW g \in Procs,
             UpdateBegin(g) \/ UpdateWaits(g) \/ UpdateChange(g) \/ UpdateEnd(g)
      PROVE  Inv'
  BY <1>6, WriterSteps
<1>7. CASE UNCHANGED vars
  BY <1>7 DEF Inv, TypeOK, HoldsInv, WriterInv, DrainInv, vars, lock
<1>8. QED
  BY <1>1, <1>2, <1>3, <1>4, <1>5, <1>6, <1>7 DEF Next, Start, Step

(***************************************************************************)
(* The variables keep their types: no goroutine ever holds more than two   *)
(* read locks, or gives back one it does not hold.                         *)
(***************************************************************************)
THEOREM TypeCorrect == Spec => []TypeOK
<1>1. Inv => TypeOK
  BY DEF Inv
<1>2. QED
  BY <1>1, InitInv, NextInv, PTL DEF Spec

(***************************************************************************)
(* Whoever changes the registry is alone with it, for any number of        *)
(* goroutines and also with the nested RLock of convo_msg.                 *)
(***************************************************************************)
THEOREM UpdatesExclude == Spec => []Exclusion
<1>1. Inv => Exclusion
  <2> SUFFICES ASSUME Inv, NEW g \in Procs, NEW h \in Procs, pc[g] = "change", h # g
               PROVE  ~reading(h) /\ pc[h] # "change"
    BY DEF Exclusion
  <2>1. holds[h] = 0
    BY DEF Inv, DrainInv
  <2>2. ~reading(h)
    BY <2>1 DEF Inv, HoldsInv, TypeOK, reading
  <2>3. pc[h] # "change"
    BY LockAssumption DEF Inv, WriterInv
  <2>4. QED
    BY <2>2, <2>3
<1>2. QED
  BY <1>1, InitInv, NextInv, PTL DEF Spec

\* RLock, RUnlock, Lock and Unlock are paired in every handler, and updates
\* of the registry exclude each other and every lookup.
THEOREM LockKept == Spec => []LockSafe
BY TypeCorrect, UpdatesExclude, PTL DEF LockSafe
=============================================================================
