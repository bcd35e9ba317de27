-------------------------- MODULE CognitiveLockProofs --------------------------
(***************************************************************************)
(* Proofs about the cognitive lock, for any set of tasks and names.        *)
(*                                                                         *)
(*   TypeCorrect        no assumption beyond those on the constants        *)
(*   OrphanFreedom      the same: pause, expiry and shared names may all   *)
(*                      happen                                             *)
(*   Exclusion          if every task has a name of its own, nobody pauses *)
(*                      the system and no section outlives its TTL; tasks  *)
(*                      may panic and the service may crash and restart    *)
(*   ImplementsExclusiveUse   under the same assumptions                   *)
(***************************************************************************)
EXTENDS CognitiveLock, TLAPS

\* A name is never one of the two special values of the key.
LEMMA NameFacts ==
    /\ \A t \in Tasks : /\ NameOf[t] \in Names
                         /\ NameOf[t] # NoLock
                         /\ NameOf[t] # PAUSED
    /\ NoLock # PAUSED
BY LockAssumption DEF LockAssumption

LEMMA TypeInit == Init => TypeOK
<1> SUFFICES ASSUME Init PROVE TypeOK
    OBVIOUS
<1>1. pc \in [Tasks -> TaskPc] /\ runs \in [Tasks -> Nat] /\ requests \in Nat
    BY DEF Init, TaskPc
<1>2. volatile \in BOOLEAN /\ isPaused \in BOOLEAN /\ broken \in BOOLEAN
    BY DEF Init
<1>3. opPc \in OpPc /\ sysState \in {"idle", "busy", "paused"}
    BY DEF Init, OpPc
<1> QED BY <1>1, <1>2, <1>3 DEF Init, TypeOK

\* One step of a task keeps every variable in its type.
LEMMA TypeStep == ASSUME TypeOK, NEW t \in Tasks, Step(t) PROVE TypeOK'
<1> USE DEF TypeOK, TaskPc, OpPc, Goto, lockVars, pauseVars, procVars
<1>1. CASE Announce(t)      BY <1>1 DEF Announce, Report
<1>2. CASE CheckReentry(t)  BY <1>2 DEF CheckReentry
<1>3. CASE Poll(t)          BY <1>3 DEF Poll
<1>4. CASE Override(t)      BY <1>4, NameFacts DEF Override, SetLock
<1>5. CASE Claim(t)         BY <1>5, NameFacts DEF Claim, SetLock
<1>6. CASE Queue(t)         BY <1>6 DEF Queue, Report
<1>7. CASE BeginWork(t)     BY <1>7 DEF BeginWork, Report
<1>8. CASE EndWork(t)       BY <1>8 DEF EndWork, Clear
<1>9. CASE CheckHolder(t)   BY <1>9 DEF CheckHolder
<1>10. CASE CheckPaused(t)  BY <1>10 DEF CheckPaused
<1>11. CASE RestoreMarker(t) BY <1>11 DEF RestoreMarker, SetMarker
<1>12. CASE FreeLock(t)     BY <1>12 DEF FreeLock, DelLock
<1>13. CASE Settle(t)       BY <1>13 DEF Settle, Clear
<1> QED BY <1>1, <1>2, <1>3, <1>4, <1>5, <1>6, <1>7, <1>8, <1>9, <1>10,
           <1>11, <1>12, <1>13 DEF Step

LEMMA TypeNext == TypeOK /\ [Next]_vars => TypeOK'
<1> SUFFICES ASSUME TypeOK, [Next]_vars PROVE TypeOK'
    OBVIOUS
<1> USE DEF TypeOK, TaskPc, OpPc, Goto, lockVars, pauseVars, procVars, opFrame
<1>1. ASSUME NEW t \in Tasks, Start(t) PROVE TypeOK'
    BY <1>1 DEF Start
<1>2. ASSUME NEW t \in Tasks, Step(t) PROVE TypeOK'
    BY <1>2, TypeStep
<1>3. ASSUME NEW t \in Tasks, Cancel(t) PROVE TypeOK'
    BY <1>3 DEF Cancel
<1>4. ASSUME NEW t \in Tasks, Panic(t) PROVE TypeOK'
    BY <1>4 DEF Panic
<1>5. CASE RequestPause  BY <1>5 DEF RequestPause
<1>6. CASE RequestResume BY <1>6 DEF RequestResume
<1>7. CASE Operator
    BY <1>7 DEF Operator, PauseFlag, PauseState, PauseLock, SetMarker,
                ResumeFlag, ResumeRead, ResumeFree, DelLock
<1>8. CASE Expire BY <1>8 DEF Expire, DelLock
<1>9. CASE Crash  BY <1>9 DEF Crash
<1>10. CASE UNCHANGED vars \/ Finished BY <1>10 DEF vars, Finished
<1> QED BY <1>1, <1>2, <1>3, <1>4, <1>5, <1>6, <1>7, <1>8, <1>9, <1>10
        DEF Next

\* Every reachable state has the types TypeOK names, whatever disturbs the
\* tasks of AcquireCognitiveLock and ReleaseCognitiveLock.
THEOREM TypeCorrect == Spec => []TypeOK
BY TypeInit, TypeNext, PTL DEF Spec

-----------------------------------------------------------------------------
(* The lock never outlives its owners.                                     *)

\* The strengthening NoOrphanLock needs: as long as no context was done, every
\* GET, SET and DEL of a task takes effect.
OrphanInv == TypeOK /\ (~broken => cancelled = {}) /\ NoOrphanLock

LEMMA OrphanNext ==
    ASSUME OrphanInv, [Next]_vars
    PROVE  OrphanInv'
<1> USE DEF OrphanInv, TypeOK
<1>1. TypeOK' BY TypeNext
<1>2. ~broken' => cancelled' = {} /\ ~broken
    BY DEF Next, Start, Step, Announce, CheckReentry, Poll, Override, Claim,
           Queue, BeginWork, EndWork, CheckHolder, CheckPaused, RestoreMarker,
           FreeLock, Settle, Cancel, Panic, RequestPause, RequestResume,
           Operator, PauseFlag, PauseState, PauseLock, ResumeFlag, ResumeRead,
           ResumeFree, opFrame, Expire, Crash, Finished, vars
<1>3. NoOrphanLock'
  <2> USE <1>2 DEF NoOrphanLock, lockVars, Goto
  <2>1. ASSUME NEW t \in Tasks,
               Start(t) \/ Announce(t) \/ CheckReentry(t) \/ Poll(t)
               \/ Queue(t) \/ BeginWork(t) \/ EndWork(t) \/ CheckPaused(t)
               \/ Settle(t)
        PROVE  NoOrphanLock'
      BY <2>1 DEF Start, Announce, CheckReentry, Poll, Queue, BeginWork,
                  EndWork, CheckPaused, Settle
  <2>2. ASSUME NEW t \in Tasks, CheckHolder(t) PROVE NoOrphanLock'
      BY <2>2 DEF CheckHolder
  <2>3. ASSUME NEW t \in Tasks, Override(t) PROVE NoOrphanLock'
      BY <2>3 DEF Override, SetLock
  <2>4. ASSUME NEW t \in Tasks, Claim(t) PROVE NoOrphanLock'
      BY <2>4 DEF Claim, SetLock
  <2>5. ASSUME NEW t \in Tasks, RestoreMarker(t) \/ FreeLock(t)
        PROVE  NoOrphanLock'
      BY <2>5, LockAssumption
         DEF RestoreMarker, FreeLock, SetMarker, DelLock, LockAssumption
  <2>6. ASSUME NEW t \in Tasks, Cancel(t) \/ Panic(t) PROVE NoOrphanLock'
      BY <2>6 DEF Cancel, Panic
  <2>7. CASE Crash BY <2>7 DEF Crash
  <2>8. CASE Expire \/ PauseLock \/ ResumeFree
      BY <2>8, LockAssumption
         DEF Expire, PauseLock, ResumeFree, SetMarker, DelLock, LockAssumption
  <2>9. CASE \/ RequestPause \/ RequestResume \/ PauseFlag \/ PauseState
             \/ ResumeFlag \/ ResumeRead
      BY <2>9 DEF RequestPause, RequestResume, PauseFlag, PauseState,
                  ResumeFlag, ResumeRead, opFrame
  <2>10. CASE UNCHANGED vars \/ Finished BY <2>10 DEF vars, Finished
  <2> QED BY <2>1, <2>2, <2>3, <2>4, <2>5, <2>6, <2>7, <2>8, <2>9, <2>10
          DEF Next, Step, Operator
<1> QED BY <1>1, <1>2, <1>3

\* While the key carries an agent's name, a task of that name is still on its
\* way through ReleaseCognitiveLock.  Only a cancelled context, a panic or a
\* crash leaves the lock behind: pause requests, expiry and several tasks
\* under one name do not.
THEOREM OrphanFreedom == Spec => []NoOrphanLock
<1>1. Init => OrphanInv
    BY TypeInit, LockAssumption
       DEF Init, OrphanInv, NoOrphanLock, LockAssumption
<1>2. OrphanInv /\ [Next]_vars => OrphanInv'
    BY OrphanNext
<1>3. OrphanInv => NoOrphanLock
    BY DEF OrphanInv
<1> QED BY <1>1, <1>2, <1>3, PTL DEF Spec

-----------------------------------------------------------------------------
(* Mutual exclusion, where the lock does provide it.                       *)

DistinctNames == \A s, t \in Tasks : NameOf[s] = NameOf[t] => s = t

\* From acquiring the key to deleting it.
Owns(t) == pc[t] \in {"held", "work", "release", "checkPause", "free"}

\* With names of their own, no marker and no expiry, whoever is between
\* acquire and the DEL of its release still finds its own name in the key.  A
\* bypassing task never writes the key, so its release stops at the GET.
ExclusionInv ==
    /\ TypeOK
    /\ cancelled = {}
    /\ opPc = "idle" /\ isPaused = FALSE /\ lock # PAUSED
    /\ \A t \in Tasks : pc[t] \notin {"override", "restore"}
    /\ \A t \in Tasks \ Bypass : Owns(t) => lock = NameOf[t]
    /\ \A t \in Bypass : /\ lock # NameOf[t]
                         /\ pc[t] \notin {"poll", "claim", "queue",
                                          "checkPause", "free"}

LEMMA ExclusionNext ==
    ASSUME DistinctNames, Disturbances \subseteq {"panic", "crash"},
           ExclusionInv, [Next]_vars
    PROVE  ExclusionInv'
<1> USE NameFacts DEF ExclusionInv, TypeOK, Owns, Goto, lockVars, pauseVars
<1> Bypass \subseteq Tasks BY LockAssumption DEF LockAssumption
<1>1. TypeOK' BY TypeNext
<1>2. ASSUME NEW t \in Tasks, Start(t) PROVE ExclusionInv'
    BY <1>1, <1>2 DEF Start
<1>3. ASSUME NEW t \in Tasks, Step(t) PROVE ExclusionInv'
  <2>1. CASE Announce(t)      BY <1>1, <2>1 DEF Announce
  <2>2. CASE CheckReentry(t)  BY <1>1, <2>2 DEF CheckReentry
  <2>3. CASE Poll(t)          BY <1>1, <2>3 DEF Poll
  <2>4. CASE Override(t)      BY <2>4 DEF Override
  <2>5. CASE Claim(t)
    <3>1. t \notin Bypass BY <2>5 DEF Claim
    <3>2. CASE lock = NoLock
      <4>1. lock' = NameOf[t] /\ pc' = [pc EXCEPT ![t] = "held"]
          BY <2>5, <3>2 DEF Claim, SetLock
      <4>2. \A s \in Tasks \ Bypass : ~Owns(s) BY <3>2
      <4> QED BY <1>1, <2>5, <3>1, <4>1, <4>2 DEF Claim, DistinctNames
    <3>3. CASE lock # NoLock BY <1>1, <2>5, <3>3 DEF Claim
    <3> QED BY <3>2, <3>3
  <2>6. CASE Queue(t)         BY <1>1, <2>6 DEF Queue
  <2>7. CASE BeginWork(t)     BY <1>1, <2>7 DEF BeginWork
  <2>8. CASE EndWork(t)       BY <1>1, <2>8 DEF EndWork
  <2>9. CASE CheckHolder(t)   BY <1>1, <2>9 DEF CheckHolder
  <2>10. CASE CheckPaused(t)  BY <1>1, <2>10 DEF CheckPaused
  <2>11. CASE RestoreMarker(t) BY <2>11 DEF RestoreMarker
  <2>12. CASE FreeLock(t)
    <3>1. t \notin Bypass /\ lock = NameOf[t] BY <2>12 DEF FreeLock
    <3>2. \A s \in Tasks \ Bypass : Owns(s) => s = t
        BY <3>1 DEF DistinctNames
    <3> QED BY <1>1, <2>12, <3>1, <3>2 DEF FreeLock, DelLock
  <2>13. CASE Settle(t)       BY <1>1, <2>13 DEF Settle
  <2> QED BY <1>3, <2>1, <2>2, <2>3, <2>4, <2>5, <2>6, <2>7, <2>8, <2>9,
             <2>10, <2>11, <2>12, <2>13 DEF Step
<1>4. ASSUME NEW t \in Tasks, Cancel(t) \/ Panic(t) PROVE ExclusionInv'
    BY <1>1, <1>4 DEF Cancel, Panic
<1>5. CASE RequestPause \/ RequestResume \/ Operator \/ Expire
    BY <1>5 DEF RequestPause, RequestResume, Operator, PauseFlag, PauseState,
                PauseLock, ResumeFlag, ResumeRead, ResumeFree, Expire
<1>6. CASE Crash BY <1>1, <1>6 DEF Crash
<1>7. CASE UNCHANGED vars \/ Finished BY <1>1, <1>7 DEF vars, Finished
<1> QED BY <1>2, <1>3, <1>4, <1>5, <1>6, <1>7 DEF Next

LEMMA ExclusionInit == Init => ExclusionInv
BY TypeInit, NameFacts, LockAssumption
   DEF Init, ExclusionInv, Owns, LockAssumption

LEMMA ExclusionImplies == ASSUME DistinctNames, ExclusionInv
                          PROVE  MutualExclusion
BY DEF DistinctNames, ExclusionInv, Owns, MutualExclusion, Heavy

\* One heavy protocol at a time, even across panics and restarts, provided
\* that no two goroutines share a name, nobody pauses the system and no
\* section outlives the lock's TTL or its own context.
THEOREM Exclusion ==
    ASSUME DistinctNames, Disturbances \subseteq {"panic", "crash"}
    PROVE  Spec => []MutualExclusion
<1>1. ExclusionInv /\ [Next]_vars => ExclusionInv'
    BY ExclusionNext
<1>2. ExclusionInv => MutualExclusion
    BY ExclusionImplies
<1> QED BY ExclusionInit, <1>1, <1>2, PTL DEF Spec

-----------------------------------------------------------------------------
(* The lock implements exclusive use.                                      *)

InsideNow == {t \in Tasks : Heavy(t)}

LEMMA ExclusionStep ==
    ASSUME DistinctNames, Disturbances \subseteq {"panic", "crash"},
           ExclusionInv, ExclusionInv', [Next]_vars
    PROVE  [Use!Next]_InsideNow
<1> USE DEF InsideNow, Heavy, Use!Next, Use!Enter, Use!Leave
<1> Bypass \subseteq Tasks BY LockAssumption DEF LockAssumption
<1>1. MutualExclusion /\ MutualExclusion'
    BY ExclusionImplies
    DEF DistinctNames, ExclusionInv, Owns, MutualExclusion
<1>2. CASE Crash
  <2>1. InsideNow' = {} BY <1>2 DEF Crash
  <2>2. CASE InsideNow = {} BY <2>1, <2>2
  <2>3. CASE InsideNow # {}
    <3>1. PICK t \in Tasks \ Bypass : t \in InsideNow BY <2>3
    <3>2. InsideNow = {t} BY <1>1, <3>1 DEF MutualExclusion
    <3> QED BY <2>1, <3>1, <3>2
  <2> QED BY <2>2, <2>3
<1>3. ASSUME NEW t \in Tasks, NEW label, pc' = [pc EXCEPT ![t] = label]
      PROVE  [Use!Next]_InsideNow
  <2>0. pc \in [Tasks -> TaskPc] BY DEF ExclusionInv, TypeOK
  <2>1. CASE Heavy(t)' /\ ~Heavy(t)
    <3>1. InsideNow' = InsideNow \union {t} BY <1>3, <2>0, <2>1
    <3>2. InsideNow = {}
      <4>1. ASSUME NEW s \in InsideNow PROVE FALSE
        <5>1. s # t BY <2>1
        <5>2. Heavy(s)' BY <1>3, <2>0, <5>1
        <5> QED BY <1>1, <2>1, <5>1, <5>2 DEF MutualExclusion
      <4> QED BY <4>1
    <3> QED BY <2>1, <3>1, <3>2
  <2>2. CASE Heavy(t) /\ ~Heavy(t)'
    <3>1. InsideNow' = InsideNow \ {t} BY <1>3, <2>0, <2>2
    <3> QED BY <2>2, <3>1
  <2>3. CASE Heavy(t) <=> Heavy(t)'
    <3>1. \A s \in Tasks : Heavy(s)' <=> Heavy(s) BY <1>3, <2>0, <2>3
    <3> QED BY <3>1
  <2> QED BY <2>1, <2>2, <2>3
<1>4. CASE UNCHANGED pc BY <1>4
<1>5. ASSUME NEW t \in Tasks, Start(t) \/ Step(t) \/ Panic(t)
      PROVE  \E label : pc' = [pc EXCEPT ![t] = label]
    BY <1>5 DEF Start, Step, Announce, CheckReentry, Poll, Override, Claim,
       Queue, BeginWork, EndWork, CheckHolder, CheckPaused, RestoreMarker,
       FreeLock, Settle, Panic, Goto
<1>6. ASSUME NEW t \in Tasks, Cancel(t) PROVE UNCHANGED pc
    BY <1>6 DEF Cancel
<1>7. CASE RequestPause \/ RequestResume \/ Operator \/ Expire \/ Finished
           \/ UNCHANGED vars
    BY <1>4, <1>7 DEF RequestPause, RequestResume, Operator, PauseFlag,
       PauseState, PauseLock, ResumeFlag, ResumeRead, ResumeFree, opFrame,
       Expire, Finished, vars
<1> QED BY <1>2, <1>3, <1>4, <1>5, <1>6, <1>7 DEF Next

\* AcquireCognitiveLock and ReleaseCognitiveLock implement a resource that
\* one user enters only while nobody is inside, under the same assumptions.
THEOREM ImplementsExclusiveUse ==
    ASSUME DistinctNames, Disturbances \subseteq {"panic", "crash"}
    PROVE  Spec => UsesExclusively
<1>1. Init => Use!Init
    BY DEF Init, Use!Init, Heavy
<1>2. ExclusionInv /\ [Next]_vars => ExclusionInv'
    BY ExclusionNext
<1>3. ExclusionInv /\ ExclusionInv' /\ [Next]_vars => [Use!Next]_InsideNow
    BY ExclusionStep
<1> QED BY ExclusionInit, <1>1, <1>2, <1>3, PTL
        DEF Spec, UsesExclusively, Use!Spec, InsideNow

=============================================================================
