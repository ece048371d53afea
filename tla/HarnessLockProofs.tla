--------------------------- MODULE HarnessLockProofs ---------------------------
(***************************************************************************)
(* Proofs about HarnessLock, for any number of commands: its types, and    *)
(* that exclusion is lost in one way only.                                 *)
(***************************************************************************)
EXTENDS HarnessLock, TLAPS

\* The lock file of a process between its creation and its release, by name.
HolderOwns == robbed = {} => \A p \in Proc : pc[p] \in Inside => owner = p

\* A command starts with both tries of acquireLock.
FreshTries == \A p \in Proc : pc[p] = "idle" => tries[p] = 0

LockTypes == TypeOK /\ FreshTries

\* The initial state has its types.
LEMMA InitTypes == Init => LockTypes
<1> SUFFICES ASSUME Init PROVE LockTypes
  OBVIOUS
<1>1. written \in BOOLEAN /\ owner \in Proc \cup {None} /\ robbed \subseteq Proc
  BY DEF Init
<1>2. pc \in [Proc -> PC] /\ seen \in [Proc -> Proc \cup {None}]
  BY DEF Init, PC
<1>3. tries \in [Proc -> 0..2] /\ \A p \in Proc : tries[p] = 0
  BY DEF Init
<1> QED
  BY <1>1, <1>2, <1>3 DEF LockTypes, TypeOK, FreshTries

\* Every action of a process keeps the types, and the tries of acquireLock
\* within the two that its loop allows (lock.ts, acquireLock).
LEMMA StepTypes == LockTypes /\ [Next]_vars => LockTypes'
<1> SUFFICES ASSUME LockTypes, [Next]_vars PROVE LockTypes'
  OBVIOUS
<1> USE DEF LockTypes, TypeOK, FreshTries, PC, Acquiring, Inside, Ended, Goto
<1>1. ASSUME NEW p \in Proc, Start(p) PROVE LockTypes'
  BY <1>1 DEF Start
<1>2. ASSUME NEW p \in Proc, Create(p) PROVE LockTypes'
  BY <1>2 DEF Create
<1>3. ASSUME NEW p \in Proc, Write(p) PROVE LockTypes'
  BY <1>3 DEF Write
<1>4. ASSUME NEW p \in Proc, ReadOwner(p) PROVE LockTypes'
  BY <1>4 DEF ReadOwner
<1>5. ASSUME NEW p \in Proc, Judge(p) PROVE LockTypes'
  BY <1>5 DEF Judge
<1>6. ASSUME NEW p \in Proc, Unlink(p) PROVE LockTypes'
  <2>1. tries[p] \in 0..1
    BY <1>6 DEF Unlink
  <2>2. /\ pc' \in [Proc -> PC]
        /\ tries' \in [Proc -> 0..2]
        /\ \A r \in Proc : pc'[r] \in Acquiring \ {"giveup"} => tries'[r] < 2
        /\ \A r \in Proc : pc'[r] = "idle" => tries'[r] = 0
    BY <1>6, <2>1 DEF Unlink
  <2>3. owner' \in Proc \cup {None} /\ seen' = seen
    BY <1>6 DEF Unlink, RemoveFile
  <2>4. written' \in BOOLEAN /\ robbed' \subseteq Proc
    BY <1>6 DEF Unlink, RemoveFile
  <2> QED
    BY <2>2, <2>3, <2>4
<1>7. ASSUME NEW p \in Proc, GiveUp(p) PROVE LockTypes'
  BY <1>7 DEF GiveUp
<1>8. ASSUME NEW p \in Proc, EndBody(p) PROVE LockTypes'
  BY <1>8 DEF EndBody
<1>9. ASSUME NEW p \in Proc, CheckOwner(p) PROVE LockTypes'
  BY <1>9 DEF CheckOwner
<1>10. ASSUME NEW p \in Proc, Remove(p) PROVE LockTypes'
  BY <1>10 DEF Remove, RemoveFile
<1>11. ASSUME NEW p \in Proc, Crash(p) PROVE LockTypes'
  BY <1>11 DEF Crash
<1>12. CASE UNCHANGED vars
  BY <1>12 DEF vars
<1> QED
  BY <1>1, <1>2, <1>3, <1>4, <1>5, <1>6, <1>7, <1>8, <1>9, <1>10, <1>11, <1>12
     DEF Next, Progress

\* The lock file, the locals and the two tries of acquireLock have their types
\* in every reachable state.
THEOREM LockTypesHold == Spec => []TypeOK
<1>1. LockTypes => TypeOK
  BY DEF LockTypes
<1> QED
  BY <1>1, InitTypes, StepTypes, PTL DEF Spec

--------------------------------------------------------------------------------
\* Initially nobody is inside.
LEMMA InitHolds == Init => HolderOwns
  BY DEF Init, HolderOwns, Inside

\* Whoever is inside owns the file, as long as no unlink robbed a live process:
\* creation is exclusive, and every removal names the live owner it hits.
LEMMA StepHolds == TypeOK /\ HolderOwns /\ [Next]_vars => HolderOwns'
<1> SUFFICES ASSUME TypeOK, HolderOwns, [Next]_vars, robbed' = {},
                    NEW q \in Proc, pc'[q] \in Inside
             PROVE  owner' = q
  BY DEF HolderOwns
<1> USE DEF TypeOK, Inside, Goto
\* robbed never shrinks, so whoever was inside before owned the file.
<1>0. \A r \in Proc : pc[r] \in Inside => owner = r
  <2>1. ASSUME NEW p \in Proc, Unlink(p) \/ Remove(p) PROVE robbed = {}
    BY <2>1 DEF Unlink, Remove, RemoveFile
  <2>2. \/ robbed = {}
        \/ \E p \in Proc : Unlink(p) \/ Remove(p)
    BY DEF Next, Progress, Start, Create, Write, ReadOwner, Judge, GiveUp, EndBody,
           CheckOwner, Crash, vars
  <2> QED
    BY <2>1, <2>2 DEF HolderOwns
<1>1. ASSUME NEW p \in Proc, Create(p) PROVE owner' = q
  <2>1. CASE owner = None
    BY <1>0, <1>1, <2>1, NoneAssumption DEF Create
  <2>2. CASE owner # None
    BY <1>0, <1>1, <2>2 DEF Create
  <2> QED
    BY <2>1, <2>2
<1>2. ASSUME NEW p \in Proc, Unlink(p) PROVE owner' = q
  <2>1. pc[q] \in Inside /\ q # p /\ owner = q
    BY <1>0, <1>2 DEF Unlink
  <2>2. q \in robbed'
    BY <1>2, <2>1 DEF Unlink, RemoveFile, Alive, Ended
  <2> QED
    BY <2>2
<1>3. ASSUME NEW p \in Proc, Remove(p) PROVE owner' = q
  <2>1. owner = p
    BY <1>0, <1>3 DEF Remove
  <2>2. q # p /\ pc[q] \in Inside
    BY <1>3 DEF Remove
  <2> QED
    BY <1>0, <2>1, <2>2
<1>4. ASSUME NEW p \in Proc,
             Start(p) \/ Write(p) \/ ReadOwner(p) \/ Judge(p) \/ GiveUp(p)
               \/ EndBody(p) \/ CheckOwner(p) \/ Crash(p)
      PROVE owner' = q
  BY <1>0, <1>4 DEF Start, Write, ReadOwner, Judge, GiveUp, EndBody, CheckOwner, Crash
<1>5. CASE UNCHANGED vars
  BY <1>0, <1>5 DEF vars
<1> QED
  BY <1>1, <1>2, <1>3, <1>4, <1>5 DEF Next, Progress

\* Exclusion holds until an unlink, of acquireLock or of release, removes the
\* file of a live process: for any number of commands, crashes included.
THEOREM ExclusionHolds == Spec => []ExclusionUnlessRobbed
<1>1. HolderOwns => ExclusionUnlessRobbed
  BY DEF HolderOwns, ExclusionUnlessRobbed, MutualExclusion, Inside
<1> QED
  BY <1>1, InitHolds, StepHolds, LockTypesHold, PTL DEF Spec
================================================================================
