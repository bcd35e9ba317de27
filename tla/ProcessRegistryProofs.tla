------------------------- MODULE ProcessRegistryProofs -------------------------
(***************************************************************************)
(* Proofs about the process registry, for any set of actors and processes  *)
(* and any assignment of operations to actors.                             *)
(***************************************************************************)
EXTENDS ProcessRegistry, FiniteSetTheorems, TLAPS

-----------------------------------------------------------------------------
(* Types of the three ways an actor moves on.                              *)

LEMMA RestingType == Resting \in Doings
<1>1. (CHOOSE p \in Procs : TRUE) \in Procs
    BY RegistryAssumption DEF RegistryAssumption
<1> QED BY <1>1 DEF Resting, Doings, Pc, Ops

LEMMA GotoType ==
    ASSUME act \in [Actors -> Doings], NEW a \in Actors, NEW label \in Pc,
           Goto(a, label)
    PROVE  act' \in [Actors -> Doings]
<1>1. [act[a] EXCEPT !.pc = label] \in Doings
    BY DEF Doings
<1> QED BY <1>1, RestingType DEF Goto

LEMMA LookType ==
    ASSUME act \in [Actors -> Doings], NEW a \in Actors, NEW label \in Pc,
           NEW b \in BOOLEAN, Look(a, b, label)
    PROVE  act' \in [Actors -> Doings]
<1>1. act[a] \in Doings OBVIOUS
<1>2. [[act[a] EXCEPT !.seen = b] EXCEPT !.pc = label] \in Doings
    BY <1>1 DEF Doings
<1>3. act' = [act EXCEPT ![a] = [[act[a] EXCEPT !.seen = b] EXCEPT !.pc = label]]
    BY DEF Look
<1> QED BY <1>2, <1>3

LEMMA AfterLabels ==
    ASSUME NEW a \in Actors, NEW n \in Int
    PROVE  AfterBusy(a) \in Pc /\ AfterIdle(a) \in Pc /\ AfterDecr(a, n) \in Pc
BY DEF AfterBusy, AfterIdle, AfterDecr, Pc

\* One key of the registry is written, the others stay.
LEMMA WriteType ==
    ASSUME redis \in Keys
    PROVE  /\ \A S \in SUBSET Procs : [redis EXCEPT !.info = S] \in Keys
           /\ \A S \in SUBSET Procs : [redis EXCEPT !.queued = S] \in Keys
           /\ \A n \in Int : [redis EXCEPT !.refCount = n] \in Keys
           /\ \A s \in {"idle", "busy", "paused"} :
                 [redis EXCEPT !.state = s] \in Keys
           /\ \A b \in BOOLEAN : [redis EXCEPT !.isPaused = b] \in Keys
           /\ \A h \in Procs \union {NoHolder, Other, PAUSED} :
                 [redis EXCEPT !.holder = h] \in Keys
BY DEF Keys

-----------------------------------------------------------------------------
(* Type correctness: one lemma per group of actions.                       *)

LEMMA TransitionType ==
    ASSUME TypeOK, NEW a \in Actors, TransitionStep(a)
    PROVE  redis' \in Keys /\ act' \in [Actors -> Doings]
<1> USE DEF TypeOK
<1>1. AfterBusy(a) \in Pc /\ AfterIdle(a) \in Pc
    BY AfterLabels, 0 \in Int
<1>2. {"busyState", "busySet", "idlePaused", "idleSet"} \subseteq Pc
    BY DEF Pc
<1>3. CASE BusyPaused(a)
    BY <1>1, <1>2, <1>3, GotoType DEF BusyPaused, Get
<1>4. CASE BusyState(a)
    BY <1>1, <1>2, <1>4, GotoType DEF BusyState, Get
<1>5. CASE BusySet(a)
    BY <1>1, <1>5, GotoType, WriteType DEF BusySet
<1>6. CASE IdleState(a)
    BY <1>1, <1>2, <1>6, GotoType DEF IdleState, Get
<1>7. CASE IdlePaused(a)
    <2>1. redis.isPaused \in BOOLEAN BY DEF Keys
    <2>2. redis' = redis BY <1>7 DEF IdlePaused, Look
    <2> QED BY <1>2, <1>7, <2>1, <2>2, LookType DEF IdlePaused
<1>8. CASE IdleSet(a)
    BY <1>1, <1>8, GotoType, WriteType DEF IdleSet
<1> QED BY <1>3, <1>4, <1>5, <1>6, <1>7, <1>8 DEF TransitionStep

LEMMA ReportType ==
    ASSUME TypeOK, NEW a \in Actors, ReportStep(a)
    PROVE  redis' \in Keys /\ act' \in [Actors -> Doings]
<1> USE DEF TypeOK
<1>1. {"dropOther", "existsInfo", "busyPaused", "existsQueued", "incr",
       "ready"} \subseteq Pc
    BY DEF Pc
<1>2. /\ act[a].on \in Procs /\ redis.refCount \in Int
      /\ redis.info \subseteq Procs /\ redis.queued \subseteq Procs
    BY DEF Doings, Keys
<1>3. CASE GetHolder(a)
    <2>1. redis' = redis BY <1>3 DEF GetHolder, Look
    <2>2. (redis.holder \notin {NoHolder, act[a].on}) \in BOOLEAN OBVIOUS
    <2> QED BY <1>1, <1>3, <2>1, <2>2, LookType DEF GetHolder
<1>4. CASE DropOther(a)
    BY <1>1, <1>2, <1>4, GotoType, WriteType DEF DropOther
<1>5. CASE ExistsInfo(a)
    BY <1>1, <1>5, GotoType DEF ExistsInfo, Get
<1>6. CASE ExistsQueued(a)
    BY <1>1, <1>6, GotoType DEF ExistsQueued, Get
<1>7. CASE Incr(a)
    BY <1>1, <1>2, <1>7, GotoType, WriteType DEF Incr
<1>8. CASE SetKey(a)
    BY <1>1, <1>2, <1>8, GotoType, WriteType DEF SetKey
<1> QED BY <1>3, <1>4, <1>5, <1>6, <1>7, <1>8 DEF ReportStep

LEMMA ClearType ==
    ASSUME TypeOK, NEW a \in Actors, ClearStep(a)
    PROVE  redis' \in Keys /\ act' \in [Actors -> Doings]
<1> USE DEF TypeOK
<1>1. {"delInfo", "clrQueued", "ready", "delQueued", "decr",
       "idleState"} \subseteq Pc
    BY DEF Pc
<1>2. /\ redis.refCount - 1 \in Int
      /\ redis.info \ {act[a].on} \subseteq Procs
      /\ redis.queued \ {act[a].on} \subseteq Procs
    BY DEF Keys
<1>3. CASE ClrInfo(a)
    BY <1>1, <1>3, GotoType DEF ClrInfo, Get
<1>4. CASE ClrQueued(a)
    BY <1>1, <1>4, GotoType DEF ClrQueued, Get
<1>5. CASE DelInfo(a)
    BY <1>1, <1>2, <1>5, GotoType, WriteType DEF DelInfo
<1>6. CASE DelQueued(a)
    BY <1>1, <1>2, <1>6, GotoType, WriteType DEF DelQueued
<1>7. CASE UnregDel(a)
    BY <1>1, <1>2, <1>7, GotoType, WriteType DEF UnregDel
<1>8. CASE Decr(a)
    <2>1. AfterDecr(a, redis.refCount - 1) \in Pc BY <1>2, AfterLabels
    <2> QED BY <1>2, <1>8, <2>1, GotoType, WriteType DEF Decr
<1>9. CASE ResetCount(a)
    BY <1>1, <1>9, GotoType, WriteType DEF ResetCount
<1> QED BY <1>3, <1>4, <1>5, <1>6, <1>7, <1>8, <1>9 DEF ClearStep

LEMMA EndpointType ==
    ASSUME TypeOK, NEW a \in Actors, EndpointStep(a)
    PROVE  redis' \in Keys /\ act' \in [Actors -> Doings]
<1> USE DEF TypeOK
<1>1. {"regSet", "busyPaused", "ready", "setOutcome"} \subseteq Pc
    BY DEF Pc
<1>2. redis.refCount + 1 \in Int /\ redis.info \union {act[a].on} \subseteq Procs
    BY DEF Doings, Keys
<1>3. CASE RegGet(a)
    <2>1. redis' = redis BY <1>3 DEF RegGet, Look
    <2>2. (act[a].on \in redis.info) \in BOOLEAN OBVIOUS
    <2> QED BY <1>1, <1>3, <2>1, <2>2, LookType DEF RegGet
<1>4. CASE RegSet(a)
    BY <1>1, <1>2, <1>4, GotoType, WriteType DEF RegSet
<1>5. CASE RegIncr(a)
    BY <1>1, <1>2, <1>5, GotoType, WriteType DEF RegIncr
<1>6. CASE GetOutcome(a)
    BY <1>1, <1>6, GotoType DEF GetOutcome, Get
<1>7. CASE SetOutcome(a)
    BY <1>1, <1>2, <1>7, GotoType, WriteType DEF SetOutcome
<1> QED BY <1>3, <1>4, <1>5, <1>6, <1>7 DEF EndpointStep

LEMMA RepairType ==
    ASSUME TypeOK, NEW a \in Actors, RepairStep(a)
    PROVE  redis' \in Keys /\ act' \in [Actors -> Doings]
<1> USE DEF TypeOK
<1>1. {"getCount", "ready", "busyPaused", "idleState", "setCount", "syncState",
       "syncLock", "syncSetPaused", "syncLast", "syncInfo",
       "syncQueued"} \subseteq Pc
    BY DEF Pc
<1>2. CASE KeysInfo(a)
    <2>1. Cardinality(redis.info) \in Nat
        <3>1. redis.info \subseteq Procs BY DEF Keys
        <3> QED BY <3>1, FS_Subset, FS_CardinalityType, RegistryAssumption
               DEF RegistryAssumption
    <2>2. [[act[a] EXCEPT !.count = Cardinality(redis.info)]
              EXCEPT !.pc = "getCount"] \in Doings
        BY <1>1, <2>1 DEF Doings
    <2>3. act' = [act EXCEPT ![a] = [[act[a] EXCEPT !.count = Cardinality(redis.info)]
                                        EXCEPT !.pc = "getCount"]]
        BY <1>2 DEF KeysInfo
    <2> QED BY <1>2, <2>2, <2>3 DEF KeysInfo
<1>3. CASE GetCount(a)
    <2> DEFINE n == act[a].count
               label == CASE n = redis.refCount           -> "ready"
                          [] n > 0 /\ redis.refCount = 0  -> "busyPaused"
                          [] n = 0 /\ redis.refCount > 0  -> "idleState"
                          [] OTHER                        -> "setCount"
    <2>1. label \in Pc BY <1>1
    <2>2. redis' = redis /\ Goto(a, label) BY <1>3 DEF GetCount, Get
    <2> HIDE DEF label
    <2> QED BY <2>1, <2>2, GotoType
<1>4. CASE SetCount(a)
    <2>1. act[a].count \in Int BY DEF Doings
    <2> QED BY <1>1, <1>4, <2>1, GotoType, WriteType DEF SetCount
<1>5. CASE SyncPaused(a)
    BY <1>1, <1>5, GotoType DEF SyncPaused, Get
<1>6. CASE SyncState(a)
    BY <1>1, <1>6, GotoType DEF SyncState, Get
<1>7. CASE SyncSetPaused(a)
    BY <1>1, <1>7, GotoType, WriteType DEF SyncSetPaused
<1>8. CASE SyncLock(a)
    <2> DEFINE busy == redis.holder \notin {NoHolder, PAUSED}
    <2>1. redis' = redis /\ Look(a, busy, IF busy THEN "syncLast" ELSE "syncInfo")
        BY <1>8 DEF SyncLock, Look
    <2>2. busy \in BOOLEAN OBVIOUS
    <2> HIDE DEF busy
    <2> QED BY <1>1, <2>1, <2>2, LookType
<1>9. CASE SyncInfo(a)
    <2> DEFINE busy == redis.info # {}
    <2>1. redis' = redis /\ Look(a, busy, IF busy THEN "syncLast" ELSE "syncQueued")
        BY <1>9 DEF SyncInfo, Look
    <2>2. busy \in BOOLEAN OBVIOUS
    <2> HIDE DEF busy
    <2> QED BY <1>1, <2>1, <2>2, LookType
<1>10. CASE SyncQueued(a)
    <2>1. redis' = redis BY <1>10 DEF SyncQueued, Look
    <2>2. (redis.queued # {}) \in BOOLEAN OBVIOUS
    <2> QED BY <1>1, <1>10, <2>1, <2>2, LookType DEF SyncQueued
<1>11. CASE SyncLast(a)
    <2> DEFINE label == CASE act[a].seen /\ redis.state # "busy"  -> "busyPaused"
                          [] ~act[a].seen /\ redis.state # "idle" -> "idleState"
                          [] OTHER                                -> "ready"
    <2>1. label \in Pc BY <1>1
    <2>2. redis' = redis /\ Goto(a, label) BY <1>11 DEF SyncLast, Get
    <2> HIDE DEF label
    <2> QED BY <2>1, <2>2, GotoType
<1> QED BY <1>2, <1>3, <1>4, <1>5, <1>6, <1>7, <1>8, <1>9, <1>10, <1>11
       DEF RepairStep

LEMMA PauseType ==
    ASSUME TypeOK, NEW a \in Actors, PauseStep(a)
    PROVE  redis' \in Keys /\ act' \in [Actors -> Doings]
<1> USE DEF TypeOK
<1>1. {"pauseState", "pauseLock", "ready", "resumeRead",
       "resumeDel"} \subseteq Pc
    BY DEF Pc
<1>2. CASE PauseFlag(a)
    BY <1>1, <1>2, GotoType, WriteType DEF PauseFlag
<1>3. CASE PauseState(a)
    BY <1>1, <1>3, GotoType, WriteType DEF PauseState
<1>4. CASE PauseLock(a)
    BY <1>1, <1>4, GotoType, WriteType DEF PauseLock
<1>5. CASE ResumeFlag(a)
    BY <1>1, <1>5, GotoType, WriteType DEF ResumeFlag
<1>6. CASE ResumeRead(a)
    BY <1>1, <1>6, GotoType DEF ResumeRead, Get
<1>7. CASE ResumeDel(a)
    BY <1>1, <1>7, GotoType, WriteType DEF ResumeDel
<1> QED BY <1>2, <1>3, <1>4, <1>5, <1>6, <1>7 DEF PauseStep

LEMMA BeginType ==
    ASSUME TypeOK, NEW a \in Actors, NEW o \in Performs[a], NEW p \in Serves[a],
           Begin(a, o, p)
    PROVE  TypeOK'
<1>1. o \in Ops /\ p \in Procs
    BY RegistryAssumption DEF RegistryAssumption
<1>2. FirstPc(o) \in Pc
    BY <1>1 DEF FirstPc, Pc, Ops
<1>3. [[[act[a] EXCEPT !.op = o] EXCEPT !.on = p] EXCEPT !.pc = FirstPc(o)] \in Doings
    BY <1>1, <1>2 DEF TypeOK, Doings
<1>4. act' = [act EXCEPT ![a] =
                 [[[act[a] EXCEPT !.op = o] EXCEPT !.on = p] EXCEPT !.pc = FirstPc(o)]]
    BY DEF Begin
<1>5. act' \in [Actors -> Doings]
    BY <1>3, <1>4 DEF TypeOK
<1>6. started' \in [Actors -> Nat]
    BY DEF Begin, TypeOK
<1>7. redis' \in Keys
    BY WriteType DEF Begin, TypeOK
<1>8. slips' \subseteq SlipKinds
    BY DEF Begin, TypeOK, SlipKinds, Uncounted
<1> QED BY <1>5, <1>6, <1>7, <1>8 DEF Begin, TypeOK

LEMMA TypeNext ==
    ASSUME TypeOK, [Next]_vars
    PROVE  TypeOK'
<1>1. CASE \E a \in Actors : Step(a)
    <2>1. PICK a \in Actors : Step(a) BY <1>1
    <2>2. redis' \in Keys /\ act' \in [Actors -> Doings]
        BY <2>1, TransitionType, ReportType, ClearType, EndpointType, RepairType,
           PauseType DEF Step
    <2>3. slips' \subseteq SlipKinds BY <2>1 DEF Step, Slips, TypeOK
    <2> QED BY <2>1, <2>2, <2>3 DEF Step, TypeOK
<1>2. CASE \E a \in Actors : \E o \in Performs[a], p \in Serves[a] : Begin(a, o, p)
    BY <1>2, BeginType
<1>3. CASE \E p \in External : Die(p)
    BY <1>3 DEF Die, TypeOK
<1>4. CASE MoveLock
    <2>1. redis' \in Keys BY <1>4, WriteType DEF MoveLock, TypeOK
    <2> QED BY <1>4, <2>1 DEF MoveLock, TypeOK
<1>5. CASE UNCHANGED vars
    BY <1>5 DEF TypeOK, vars
<1> QED BY <1>1, <1>2, <1>3, <1>4, <1>5 DEF Next, Rest

LEMMA TypeInit == ASSUME Init PROVE TypeOK
BY RestingType DEF Init, TypeOK, Keys

\* Every key and every actor's local state keeps its type.
THEOREM TypeCorrect == Spec => []TypeOK
<1>1. TypeOK /\ [Next]_vars => TypeOK' BY TypeNext
<1> QED BY <1>1, TypeInit, PTL DEF Spec

-----------------------------------------------------------------------------
(* A negative count is on its way to being reset.                          *)

LEMMA NegativeStep ==
    ASSUME TypeOK, CountNotNegative, NEW a \in Actors, Step(a),
           redis'.refCount < 0
    PROVE  \E b \in Actors : act'[b].pc = "resetCount"
<1> USE DEF TypeOK
<1>1. /\ redis.refCount \in Int /\ act[a] \in Doings
      /\ act[a].count \in Nat /\ act[a].count >= 0
    BY DEF Keys, Doings
<1>2. \A b \in Actors : b # a => act'[b] = act[b]
    BY DEF Step, TransitionStep, BusyPaused, BusyState, BusySet, IdleState,
           IdlePaused, IdleSet, ReportStep, GetHolder, DropOther, ExistsInfo,
           ExistsQueued, Incr, SetKey, ClearStep, ClrInfo, ClrQueued, DelInfo,
           DelQueued, UnregDel, Decr, ResetCount, EndpointStep, RegGet, RegSet,
           RegIncr, GetOutcome, SetOutcome, RepairStep, KeysInfo, GetCount,
           SetCount, SyncPaused, SyncState, SyncSetPaused, SyncLock, SyncInfo,
           SyncQueued, SyncLast, PauseStep, PauseFlag, PauseState, PauseLock,
           ResumeFlag, ResumeRead, ResumeDel, Get, Look, Goto
<1>3. CASE Decr(a)
    <2>1. redis.refCount - 1 < 0 /\ redis.refCount - 1 \in Int
        BY <1>1, <1>3 DEF Decr, Keys
    <2>2. AfterDecr(a, redis.refCount - 1) = "resetCount"
        BY <2>1 DEF AfterDecr
    <2>3. act'[a].pc = "resetCount"
        BY <1>1, <1>3, <2>2 DEF Decr, Goto, Doings
    <2> QED BY <2>3
<1>4. CASE ResetCount(a)
    BY <1>4 DEF ResetCount, Keys
<1>5. CASE SetCount(a)
    BY <1>1, <1>5 DEF SetCount, Keys
<1>6. CASE ~Decr(a) /\ ~ResetCount(a) /\ ~SetCount(a)
    <2>1. redis.refCount < 0 /\ act[a].pc # "resetCount"
        BY <1>1, <1>6 DEF Keys, At,
           Step, TransitionStep, BusyPaused, BusyState, BusySet, IdleState,
           IdlePaused, IdleSet, ReportStep, GetHolder, DropOther, ExistsInfo,
           ExistsQueued, Incr, SetKey, ClearStep, ClrInfo, ClrQueued, DelInfo,
           DelQueued, UnregDel, EndpointStep, RegGet, RegSet,
           RegIncr, GetOutcome, SetOutcome, RepairStep, KeysInfo, GetCount,
           SyncPaused, SyncState, SyncSetPaused, SyncLock, SyncInfo,
           SyncQueued, SyncLast, PauseStep, PauseFlag, PauseState, PauseLock,
           ResumeFlag, ResumeRead, ResumeDel, Get, Look
    <2>2. PICK b \in Actors : act[b].pc = "resetCount"
        BY <2>1 DEF CountNotNegative, At
    <2> QED BY <1>2, <2>1, <2>2
<1> QED BY <1>3, <1>4, <1>5, <1>6

\* A reference count below zero, which several actors decrementing at once can
\* produce, is always seen by the operation that made it and set to zero.
THEOREM CountMadeGood == Spec => []CountNotNegative
<1>1. Init => CountNotNegative
    BY DEF Init, CountNotNegative
<1>2. TypeOK /\ CountNotNegative /\ [Next]_vars => CountNotNegative'
    <2> SUFFICES ASSUME TypeOK, CountNotNegative, [Next]_vars
                 PROVE  CountNotNegative'
        OBVIOUS
    <2>1. CASE \E a \in Actors : Step(a)
        BY <2>1, NegativeStep DEF CountNotNegative, At
    <2>2. CASE \E a \in Actors : \E o \in Performs[a], p \in Serves[a] : Begin(a, o, p)
        <3>1. PICK a \in Actors : \E o \in Performs[a], p \in Serves[a] : Begin(a, o, p)
            BY <2>2
        <3>2. act[a].pc = "ready" /\ redis'.refCount = redis.refCount
            BY <3>1 DEF Begin, At, TypeOK, Keys
        <3>3. \A b \in Actors : b # a => act'[b] = act[b]
            BY <3>1 DEF Begin, TypeOK
        <3> QED BY <3>2, <3>3 DEF CountNotNegative, At
    <2>3. CASE \E p \in External : Die(p)
        BY <2>3 DEF Die, CountNotNegative, At
    <2>4. CASE MoveLock
        BY <2>4 DEF MoveLock, CountNotNegative, At, TypeOK, Keys
    <2>5. CASE UNCHANGED vars
        BY <2>5 DEF vars, CountNotNegative, At
    <2> QED BY <2>1, <2>2, <2>3, <2>4, <2>5 DEF Next, Rest
<1> QED BY <1>1, <1>2, TypeCorrect, PTL DEF Spec

-----------------------------------------------------------------------------
(* The count and the keys.  The invariant says what the count stands for:  *)
(* the known processes, but for those a registration is about to count,    *)
(* and those an operation has counted, but not yet written, or deleted,    *)
(* but not yet counted down.  It holds until one of the Uncounted slips.   *)

ReportPcs  == {"getHolder", "dropOther", "existsInfo", "existsQueued", "incr", "setKey"}
ClearPcs   == {"clrInfo", "clrQueued", "delInfo", "delQueued"}
DownPcs    == {"decr", "resetCount"}
BusyPcs    == {"busyPaused", "busyState", "busySet"}
IdlePcs    == {"idleState", "idlePaused", "idleSet"}
OutcomePcs == {"getOutcome", "setOutcome"}
RegPcs     == {"regGet", "regSet", "regIncr"}
CleanPcs   == {"keysInfo", "getCount", "setCount"}
SyncPcs    == {"syncPaused", "syncState", "syncSetPaused", "syncLock", "syncInfo",
               "syncQueued", "syncLast"}
PausePcs   == {"pauseFlag", "pauseState", "pauseLock", "resumeFlag", "resumeRead",
               "resumeDel"}

\* Which labels belong to which operation, and on which ids they work.
InOperation(a) ==
    LET pc == act[a].pc
        op == act[a].op
    IN  /\ pc \in ReportPcs  => op = "report" /\ act[a].on \notin External
        /\ pc \in ClearPcs   => op \in {"clear", "reap"}
        /\ pc \in DownPcs    => op \in {"clear", "reap", "unregister"}
        /\ pc \in BusyPcs    => op \in {"report", "register", "cleanup", "sync"}
        /\ pc \in BusyPcs /\ op = "report" => act[a].on \notin External
        /\ pc \in IdlePcs    => op \in {"clear", "reap", "unregister", "cleanup", "sync"}
        /\ pc \in OutcomePcs => op = "outcome"
        /\ pc \in RegPcs     => op = "register"
        /\ pc = "unregDel"   => op = "unregister" /\ act[a].on \in External
        /\ pc \in CleanPcs   => op = "cleanup"
        /\ pc \in SyncPcs    => op = "sync"
        /\ pc \in PausePcs   => op \in {"pause", "resume"}

\* What an operation has read of its own id still holds.
Standing(a) ==
    /\ act[a].pc = "delInfo" => act[a].on \in Known
    /\ act[a].pc = "delQueued" => act[a].on \notin redis.info
    /\ act[a].pc = "decr" => act[a].on \notin Known
    /\ act[a].pc = "setOutcome" => act[a].on \in redis.info
    /\ act[a].pc = "regSet" /\ act[a].seen => act[a].on \in redis.info

\* The operations under way on the keys of one id.
OnItsId(a) == act[a].pc # "ready" /\ act[a].op \in OnId
Alone == \A a, b \in Actors : OnItsId(a) /\ OnItsId(b) /\ a # b => act[a].on # act[b].on

Counting(a) ==
    \/ act[a].op = "report" /\ act[a].pc \in BusyPcs \union {"setKey"}
    \/ act[a].pc \in {"delQueued", "decr"}

Counted == (Known \ BeingAdded) \union {act[a].on : a \in {b \in Actors : Counting(b)}}

Ordinary == redis.queued \cap External = {}

Covered ==
    slips \cap Uncounted = {} =>
        /\ \A a \in Actors : InOperation(a) /\ Standing(a)
        /\ Alone /\ Ordinary
        /\ redis.refCount >= Cardinality(Counted)

\* A step of a: how the others, the keys and the count may change.
Effect(a) ==
    LET p == act[a].on
    IN  /\ \A b \in Actors : b # a => act'[b] = act[b]
        /\ act'[a].pc # "ready" => act'[a].op = act[a].op /\ act'[a].on = p
        /\ InOperation(a)' /\ Standing(a)' /\ Ordinary'
        /\ \A q : q # p \/ act[a].op \notin OnId =>
              (q \in redis'.info <=> q \in redis.info)
              /\ (q \in redis'.queued <=> q \in redis.queued)
        /\ act[a].op \notin OnId => ~Counting(a)'
        /\ \/ /\ redis'.refCount >= redis.refCount
              /\ (p \in Known' /\ ~Registering(a)') \/ Counting(a)' =>
                    (p \in Known /\ ~Registering(a)) \/ Counting(a)
           \/ redis'.refCount = redis.refCount + 1
           \/ /\ redis'.refCount = redis.refCount - 1
              /\ p \notin Known' /\ ~Counting(a)' /\ Counting(a)

LEMMA GotoFacts ==
    ASSUME TypeOK, NEW a \in Actors, NEW label, Goto(a, label)
    PROVE  /\ \A b \in Actors : b # a => act'[b] = act[b]
           /\ act'[a].pc = label
           /\ label # "ready" => /\ act'[a].op = act[a].op /\ act'[a].on = act[a].on
                                 /\ act'[a].seen = act[a].seen
BY DEF Goto, TypeOK, Doings, Resting

LEMMA LookFacts ==
    ASSUME TypeOK, NEW a \in Actors, NEW flag, NEW label, Look(a, flag, label)
    PROVE  /\ redis' = redis
           /\ \A b \in Actors : b # a => act'[b] = act[b]
           /\ act'[a].pc = label /\ act'[a].seen = flag
           /\ act'[a].op = act[a].op /\ act'[a].on = act[a].on
BY DEF Look, TypeOK, Doings

\* A step within an operation that leaves the keys alone.
LEMMA Still ==
    ASSUME TypeOK, NEW a \in Actors, InOperation(a), Ordinary,
           redis'.info = redis.info, redis'.queued = redis.queued,
           redis'.refCount \in Int, redis'.refCount >= redis.refCount,
           \A b \in Actors : b # a => act'[b] = act[b],
           act'[a].pc # "ready" => act'[a].op = act[a].op /\ act'[a].on = act[a].on,
           act'[a].pc # "ready" => InOperation(a)',
           act'[a].pc \notin {"delInfo", "delQueued", "decr", "setOutcome", "regSet"},
           Counting(a)' => Counting(a) \/ (act[a].on \in Known /\ ~Registering(a)),
           act[a].op \notin OnId => ~Counting(a)',
           Registering(a) => Registering(a)'
    PROVE  Effect(a)
<1>1. Known' = Known BY DEF Known
<1>2. InOperation(a)'
    BY DEF InOperation, ReportPcs, ClearPcs, DownPcs, BusyPcs, IdlePcs, OutcomePcs, RegPcs,
           CleanPcs, SyncPcs, PausePcs
<1>3. Standing(a)' /\ Ordinary' BY DEF Standing, Ordinary
<1> QED BY <1>1, <1>2, <1>3 DEF Effect

LEMMA TransitionEffect ==
    ASSUME TypeOK, NEW a \in Actors, InOperation(a), Ordinary, TransitionStep(a)
    PROVE  Effect(a)
<1>1. /\ redis'.info = redis.info /\ redis'.queued = redis.queued
      /\ redis'.refCount = redis.refCount /\ redis.refCount \in Int
    BY DEF TransitionStep, BusyPaused, BusyState, BusySet, IdleState, IdlePaused, IdleSet,
           At, Get, Look, TypeOK, Keys
<1>2. CASE BusyPaused(a) \/ BusyState(a) \/ BusySet(a)
    <2>1. /\ act[a].pc \in BusyPcs
          /\ act[a].op \in {"report", "register", "cleanup", "sync"}
          /\ act[a].op = "report" => act[a].on \notin External
        BY <1>2 DEF BusyPaused, BusyState, BusySet, At, InOperation, BusyPcs
    <2>2. PICK l \in {"busyState", "busySet", "setKey", "regIncr", "setCount", "ready"} :
              /\ Goto(a, l)
              /\ l = "setKey" => act[a].op = "report"
              /\ l = "regIncr" => act[a].op = "register"
              /\ l = "setCount" => act[a].op = "cleanup"
              /\ act[a].op = "register" /\ ~act[a].seen => l \notin {"setKey", "setCount", "ready"}
        BY <1>2, <2>1 DEF BusyPaused, BusyState, BusySet, Get, AfterBusy
    <2>3. /\ act'[a].pc = l
          /\ l # "ready" => /\ act'[a].op = act[a].op /\ act'[a].on = act[a].on
                            /\ act'[a].seen = act[a].seen
          /\ \A b \in Actors : b # a => act'[b] = act[b]
        BY <2>2, GotoFacts
    <2>4. act'[a].pc # "ready" => InOperation(a)'
        BY <2>1, <2>2, <2>3 DEF InOperation, ReportPcs, ClearPcs, DownPcs, BusyPcs, IdlePcs,
           OutcomePcs, RegPcs, CleanPcs, SyncPcs, PausePcs
    <2>5. (Counting(a)' => Counting(a)) /\ (act[a].op \notin OnId => ~Counting(a)')
        BY <2>1, <2>2, <2>3 DEF Counting, BusyPcs, OnId
    <2>6. Registering(a) => Registering(a)'
        BY <2>1, <2>2, <2>3 DEF Registering
    <2> QED BY <1>1, <2>2, <2>3, <2>4, <2>5, <2>6, Still
<1>3. CASE IdleState(a) \/ IdlePaused(a) \/ IdleSet(a)
    <2>1. /\ act[a].pc \in IdlePcs
          /\ act[a].op \in {"clear", "reap", "unregister", "cleanup", "sync"}
        BY <1>3 DEF IdleState, IdlePaused, IdleSet, At, InOperation, IdlePcs
    <2>2. /\ act'[a].pc \in {"idlePaused", "idleSet", "setCount", "ready"}
          /\ act'[a].pc = "setCount" => act[a].op = "cleanup"
          /\ act'[a].pc # "ready" => act'[a].op = act[a].op /\ act'[a].on = act[a].on
          /\ \A b \in Actors : b # a => act'[b] = act[b]
        <3>1. CASE IdlePaused(a)
            BY <3>1, LookFacts DEF IdlePaused
        <3>2. CASE IdleState(a) \/ IdleSet(a)
            <4>1. PICK l \in {"idlePaused", "setCount", "ready"} :
                      Goto(a, l) /\ (l = "setCount" => act[a].op = "cleanup")
                BY <3>2 DEF IdleState, IdleSet, Get, AfterIdle
            <4> QED BY <4>1, GotoFacts
        <3> QED BY <1>3, <3>1, <3>2
    <2>3. act'[a].pc # "ready" => InOperation(a)'
        BY <2>1, <2>2 DEF InOperation, ReportPcs, ClearPcs, DownPcs, BusyPcs, IdlePcs,
           OutcomePcs, RegPcs, CleanPcs, SyncPcs, PausePcs
    <2>4. ~Counting(a)' /\ ~Registering(a)
        BY <2>1, <2>2 DEF Counting, Registering, BusyPcs, IdlePcs
    <2> QED BY <1>1, <2>2, <2>3, <2>4, Still
<1> QED BY <1>2, <1>3 DEF TransitionStep

LEMMA ReportEffect ==
    ASSUME TypeOK, NEW a \in Actors, InOperation(a), Ordinary, ReportStep(a)
    PROVE  Effect(a)
<1> DEFINE p == act[a].on
<1>1. /\ act[a].op = "report" /\ act[a].op \in OnId /\ p \notin External
      /\ ~Registering(a) /\ redis.refCount \in Int
    BY DEF ReportStep, GetHolder, DropOther, ExistsInfo, ExistsQueued, Incr, SetKey, At,
           InOperation, ReportPcs, OnId, Registering, TypeOK, Keys
<1>2. ASSUME NEW l \in ReportPcs \union BusyPcs,
             act'[a].pc = l, act'[a].op = act[a].op, act'[a].on = p
      PROVE  InOperation(a)'
    BY <1>1, <1>2 DEF InOperation, ReportPcs, ClearPcs, DownPcs, BusyPcs, IdlePcs,
       OutcomePcs, RegPcs, CleanPcs, SyncPcs, PausePcs
<1>3. CASE GetHolder(a)
    <2>1. Look(a, redis.holder \notin {NoHolder, act[a].on}, "dropOther")
        BY <1>3 DEF GetHolder
    <2>2. /\ redis' = redis
          /\ act'[a].pc = "dropOther" /\ act'[a].op = act[a].op /\ act'[a].on = p
          /\ \A b \in Actors : b # a => act'[b] = act[b]
        BY <2>1, LookFacts
    <2>3. InOperation(a)' BY <1>2, <2>2 DEF ReportPcs
    <2>4. ~Counting(a)' BY <2>2 DEF Counting, BusyPcs
    <2> QED BY <1>1, <2>2, <2>3, <2>4, Still
<1>4. CASE ExistsInfo(a) \/ ExistsQueued(a)
    <2>1. PICK l \in {"busyPaused", "existsQueued", "incr"} :
              Goto(a, l) /\ (l = "busyPaused" => p \in Known)
        BY <1>4 DEF ExistsInfo, ExistsQueued, Get, Known
    <2>2. /\ act'[a].pc = l /\ act'[a].op = act[a].op /\ act'[a].on = p
          /\ \A b \in Actors : b # a => act'[b] = act[b]
        BY <2>1, GotoFacts
    <2>3. redis' = redis BY <1>4 DEF ExistsInfo, ExistsQueued, Get
    <2>4. InOperation(a)' BY <1>2, <2>2 DEF ReportPcs, BusyPcs
    <2>5. Counting(a)' => p \in Known BY <2>1, <2>2 DEF Counting, BusyPcs
    <2> QED BY <1>1, <2>2, <2>3, <2>4, <2>5, Still
<1>5. CASE DropOther(a)
    <2>1. /\ Goto(a, "existsInfo")
          /\ \A q : q # p => (q \in redis'.info <=> q \in redis.info)
                             /\ (q \in redis'.queued <=> q \in redis.queued)
          /\ p \in Known' => p \in Known
          /\ redis'.queued \subseteq redis.queued
          /\ redis'.refCount = redis.refCount
        BY <1>5 DEF DropOther, Known, TypeOK, Keys
    <2>2. /\ act'[a].pc = "existsInfo" /\ act'[a].op = act[a].op /\ act'[a].on = p
          /\ \A b \in Actors : b # a => act'[b] = act[b]
        BY <2>1, GotoFacts
    <2>3. InOperation(a)' BY <1>2, <2>2 DEF ReportPcs
    <2>4. Standing(a)' /\ ~Counting(a)' BY <2>2 DEF Standing, Counting, BusyPcs
    <2>5. Ordinary' BY <2>1 DEF Ordinary
    <2> QED BY <1>1, <2>1, <2>2, <2>3, <2>4, <2>5 DEF Effect
<1>6. CASE Incr(a)
    <2>1. /\ Goto(a, "busyPaused")
          /\ redis'.info = redis.info /\ redis'.queued = redis.queued
          /\ redis'.refCount = redis.refCount + 1
        BY <1>6 DEF Incr, TypeOK, Keys
    <2>2. /\ act'[a].pc = "busyPaused" /\ act'[a].op = act[a].op /\ act'[a].on = p
          /\ \A b \in Actors : b # a => act'[b] = act[b]
        BY <2>1, GotoFacts
    <2>3. InOperation(a)' BY <1>2, <2>2 DEF BusyPcs
    <2>4. Standing(a)' /\ Ordinary' BY <2>1, <2>2 DEF Standing, Ordinary
    <2> QED BY <1>1, <2>1, <2>2, <2>3, <2>4 DEF Effect
<1>7. CASE SetKey(a)
    <2>1. /\ Goto(a, "ready") /\ act[a].pc = "setKey"
          /\ \A q : q # p => (q \in redis'.info <=> q \in redis.info)
                             /\ (q \in redis'.queued <=> q \in redis.queued)
          /\ redis'.queued \subseteq redis.queued \union {p}
          /\ redis'.refCount = redis.refCount
        BY <1>7 DEF SetKey, At, TypeOK, Keys
    <2>2. /\ act'[a].pc = "ready"
          /\ \A b \in Actors : b # a => act'[b] = act[b]
        BY <2>1, GotoFacts
    <2>3. InOperation(a)'
        BY <2>2 DEF InOperation, ReportPcs, ClearPcs, DownPcs, BusyPcs, IdlePcs,
           OutcomePcs, RegPcs, CleanPcs, SyncPcs, PausePcs
    <2>4. Standing(a)' /\ ~Counting(a)' BY <2>2 DEF Standing, Counting, BusyPcs
    <2>5. Counting(a) BY <1>1, <2>1 DEF Counting
    <2>6. Ordinary' BY <1>1, <2>1 DEF Ordinary
    <2> QED BY <1>1, <2>1, <2>2, <2>3, <2>4, <2>5, <2>6 DEF Effect
<1> QED BY <1>3, <1>4, <1>5, <1>6, <1>7 DEF ReportStep

LEMMA ClearEffect ==
    ASSUME TypeOK, NEW a \in Actors, InOperation(a), Standing(a), Ordinary, ClearStep(a),
           Slips(a) \cap Uncounted = {}
    PROVE  Effect(a)
<1> DEFINE p == act[a].on
<1>1. /\ act[a].op \in {"clear", "reap", "unregister"} /\ act[a].op \in OnId
      /\ ~Registering(a) /\ redis.refCount \in Int
    BY DEF ClearStep, ClrInfo, ClrQueued, DelInfo, DelQueued, UnregDel, Decr, ResetCount, At,
           InOperation, ClearPcs, DownPcs, OnId, Registering, TypeOK, Keys
<1>2. ASSUME NEW l, act'[a].pc = l,
             l # "ready" => act'[a].op = act[a].op,
             \/ l \in ClearPcs /\ act[a].op \in {"clear", "reap"}
             \/ l \in DownPcs \union IdlePcs \union {"ready"}
      PROVE  InOperation(a)'
    BY <1>1, <1>2 DEF InOperation, ReportPcs, ClearPcs, DownPcs, BusyPcs, IdlePcs,
       OutcomePcs, RegPcs, CleanPcs, SyncPcs, PausePcs
<1>3. CASE ClrInfo(a) \/ ClrQueued(a)
    <2>1. PICK l \in {"delInfo", "clrQueued", "ready"} :
              Goto(a, l) /\ (l = "delInfo" => p \in Known)
        BY <1>3 DEF ClrInfo, ClrQueued, Get, Known
    <2>2. redis' = redis /\ act[a].op \in {"clear", "reap"}
        BY <1>3 DEF ClrInfo, ClrQueued, Get, At, InOperation, ClearPcs
    <2>3. /\ act'[a].pc = l
          /\ l # "ready" => act'[a].op = act[a].op /\ act'[a].on = p
          /\ \A b \in Actors : b # a => act'[b] = act[b]
        BY <2>1, GotoFacts
    <2>4. InOperation(a)' BY <1>2, <2>2, <2>3 DEF ClearPcs
    <2>5. Known' = Known /\ Ordinary' BY <2>2 DEF Known, Ordinary
    <2>6. Standing(a)' /\ ~Counting(a)'
        BY <2>1, <2>3, <2>5 DEF Standing, Counting, BusyPcs
    <2> QED BY <1>1, <2>2, <2>3, <2>4, <2>5, <2>6 DEF Effect
<1>4. CASE DelInfo(a)
    <2>1. /\ Goto(a, "delQueued") /\ act[a].pc = "delInfo"
          /\ \A q : q # p => (q \in redis'.info <=> q \in redis.info)
                             /\ (q \in redis'.queued <=> q \in redis.queued)
          /\ redis'.refCount = redis.refCount
          /\ p \notin redis'.info /\ redis'.queued = redis.queued
        BY <1>4 DEF DelInfo, At, TypeOK, Keys
    <2>2. p \in Known /\ act[a].op \in {"clear", "reap"}
        BY <2>1 DEF Standing, InOperation, ClearPcs
    <2>3. /\ act'[a].pc = "delQueued" /\ act'[a].op = act[a].op /\ act'[a].on = p
          /\ \A b \in Actors : b # a => act'[b] = act[b]
        BY <2>1, GotoFacts
    <2>4. InOperation(a)' BY <1>2, <2>2, <2>3 DEF ClearPcs
    <2>5. Standing(a)' /\ Ordinary' BY <2>1, <2>3 DEF Standing, Ordinary
    <2> QED BY <1>1, <2>1, <2>2, <2>3, <2>4, <2>5 DEF Effect
<1>5. CASE DelQueued(a)
    <2>1. /\ Goto(a, "decr") /\ act[a].pc = "delQueued"
          /\ redis'.info = redis.info
          /\ redis'.queued = redis.queued \ {p}
          /\ redis'.refCount = redis.refCount
        BY <1>5 DEF DelQueued, At, TypeOK, Keys
    <2>2. Counting(a) /\ p \notin redis.info BY <2>1 DEF Counting, Standing
    <2>3. /\ act'[a].pc = "decr" /\ act'[a].op = act[a].op /\ act'[a].on = p
          /\ \A b \in Actors : b # a => act'[b] = act[b]
        BY <2>1, GotoFacts
    <2>4. InOperation(a)' BY <1>2, <2>3 DEF DownPcs
    <2>5. Standing(a)' /\ Ordinary' BY <2>1, <2>2, <2>3 DEF Standing, Known, Ordinary
    <2> QED BY <1>1, <2>1, <2>2, <2>3, <2>4, <2>5 DEF Effect
<1>6. CASE UnregDel(a)
    <2>1. /\ Goto(a, "decr") /\ act[a].pc = "unregDel"
          /\ redis'.info = redis.info \ {p}
          /\ redis'.queued = redis.queued
          /\ redis'.refCount = redis.refCount
        BY <1>6 DEF UnregDel, At, TypeOK, Keys
    <2>2. p \in redis.info
        <3> SUFFICES ASSUME p \notin redis.info PROVE FALSE
            OBVIOUS
        <3>1. "unknown" \in Slips(a) /\ "unknown" \in Uncounted
            BY <2>1 DEF Slips, SlipKinds, Uncounted, At
        <3> QED BY <3>1
    <2>3. p \notin redis.queued BY <2>1 DEF InOperation, Ordinary
    <2>4. /\ act'[a].pc = "decr" /\ act'[a].op = act[a].op /\ act'[a].on = p
          /\ \A b \in Actors : b # a => act'[b] = act[b]
        BY <2>1, GotoFacts
    <2>5. InOperation(a)' BY <1>2, <2>4 DEF DownPcs
    <2>6. Standing(a)' /\ Ordinary' BY <2>1, <2>3, <2>4 DEF Standing, Known, Ordinary
    <2>7. p \in Known BY <2>2 DEF Known
    <2> QED BY <1>1, <2>1, <2>4, <2>5, <2>6, <2>7 DEF Effect
<1>7. CASE Decr(a)
    <2>1. /\ act[a].pc = "decr"
          /\ redis'.info = redis.info /\ redis'.queued = redis.queued
          /\ redis'.refCount = redis.refCount - 1
        BY <1>7 DEF Decr, At, TypeOK, Keys
    <2>2. AfterDecr(a, redis.refCount - 1) \in {"resetCount", "idleState", "ready"}
        BY DEF AfterDecr
    <2>3. PICK l \in {"resetCount", "idleState", "ready"} : Goto(a, l)
        BY <1>7, <2>2 DEF Decr
    <2>4. /\ act'[a].pc = l
          /\ l # "ready" => act'[a].op = act[a].op /\ act'[a].on = p
          /\ \A b \in Actors : b # a => act'[b] = act[b]
        BY <2>3, GotoFacts
    <2>5. InOperation(a)' BY <1>2, <2>4 DEF DownPcs, IdlePcs
    <2>6. Standing(a)' /\ ~Counting(a)' /\ Ordinary'
        BY <2>1, <2>4 DEF Standing, Counting, BusyPcs, Ordinary
    <2>7. Counting(a) /\ p \notin Known' /\ Known' = Known
        BY <2>1 DEF Counting, Standing, Known
    <2> QED BY <1>1, <2>1, <2>4, <2>5, <2>6, <2>7 DEF Effect
<1>8. CASE ResetCount(a)
    <2>1. /\ Goto(a, "idleState") /\ act[a].pc = "resetCount"
          /\ redis'.info = redis.info /\ redis'.queued = redis.queued
          /\ redis'.refCount = 0
        BY <1>8 DEF ResetCount, At, TypeOK, Keys
    <2>2. redis.refCount <= 0
        <3> SUFFICES ASSUME redis.refCount > 0 PROVE FALSE
            BY <1>1
        <3>1. "lowered" \in Slips(a) /\ "lowered" \in Uncounted
            BY <2>1 DEF Slips, SlipKinds, Uncounted, At
        <3> QED BY <3>1
    <2>3. /\ act'[a].pc = "idleState" /\ act'[a].op = act[a].op /\ act'[a].on = p
          /\ \A b \in Actors : b # a => act'[b] = act[b]
        BY <2>1, GotoFacts
    <2>4. InOperation(a)' BY <1>2, <2>3 DEF IdlePcs
    <2>5. ~Counting(a)' BY <2>3 DEF Counting, BusyPcs
    <2> QED BY <1>1, <2>1, <2>2, <2>3, <2>4, <2>5, Still
<1> QED BY <1>3, <1>4, <1>5, <1>6, <1>7, <1>8 DEF ClearStep

LEMMA EndpointEffect ==
    ASSUME TypeOK, NEW a \in Actors, InOperation(a), Standing(a), Ordinary, EndpointStep(a)
    PROVE  Effect(a)
<1> DEFINE p == act[a].on
<1>1. /\ act[a].op \in {"register", "outcome"} /\ act[a].op \in OnId
      /\ redis.refCount \in Int
    BY DEF EndpointStep, GetOutcome, SetOutcome, RegGet, RegSet, RegIncr, At,
           InOperation, OutcomePcs, RegPcs, OnId, TypeOK, Keys
<1>2. ASSUME NEW l, act'[a].pc = l,
             l # "ready" => act'[a].op = act[a].op,
             \/ l \in {"regSet", "busyPaused"} /\ act[a].op = "register"
             \/ l = "setOutcome" /\ act[a].op = "outcome"
             \/ l = "ready"
      PROVE  InOperation(a)'
    BY <1>2 DEF InOperation, ReportPcs, ClearPcs, DownPcs, BusyPcs, IdlePcs, OutcomePcs,
       RegPcs, CleanPcs, SyncPcs, PausePcs
<1>3. CASE RegGet(a)
    <2>1. /\ Look(a, p \in redis.info, "regSet")
          /\ act[a].pc = "regGet" /\ act[a].op = "register"
        BY <1>3 DEF RegGet, At, InOperation, RegPcs
    <2>2. /\ redis' = redis
          /\ act'[a].pc = "regSet" /\ act'[a].seen = (p \in redis.info)
          /\ act'[a].op = act[a].op /\ act'[a].on = p
          /\ \A b \in Actors : b # a => act'[b] = act[b]
        BY <2>1, LookFacts
    <2>3. InOperation(a)' BY <1>2, <2>1, <2>2
    <2>4. Known' = Known /\ Ordinary' BY <2>2 DEF Known, Ordinary
    <2>5. Standing(a)' /\ ~Counting(a)' BY <2>2 DEF Standing, Counting, BusyPcs
    <2>6. ~Registering(a) BY <2>1 DEF Registering
    <2> QED BY <1>1, <2>2, <2>3, <2>4, <2>5, <2>6 DEF Effect
<1>4. CASE RegSet(a)
    <2>1. /\ Goto(a, "busyPaused")
          /\ act[a].pc = "regSet" /\ act[a].op = "register"
          /\ redis'.info = redis.info \union {p} /\ redis'.queued = redis.queued
          /\ redis'.refCount = redis.refCount
        BY <1>4 DEF RegSet, At, InOperation, RegPcs, TypeOK, Keys
    <2>2. /\ act'[a].pc = "busyPaused" /\ act'[a].seen = act[a].seen
          /\ act'[a].op = act[a].op /\ act'[a].on = p
          /\ \A b \in Actors : b # a => act'[b] = act[b]
        BY <2>1, GotoFacts
    <2>3. InOperation(a)' BY <1>2, <2>1, <2>2
    <2>4. Standing(a)' /\ ~Counting(a)' /\ Ordinary'
        BY <2>1, <2>2 DEF Standing, Counting, BusyPcs, Ordinary
    <2>5. ~Registering(a)' => p \in Known
        BY <2>1, <2>2 DEF Registering, Standing, Known
    <2>6. ~Registering(a) BY <2>1 DEF Registering
    <2>7. \A q : q # p => (q \in redis'.info <=> q \in redis.info)
                          /\ (q \in redis'.queued <=> q \in redis.queued)
        BY <2>1
    <2> QED BY <1>1, <2>1, <2>2, <2>3, <2>4, <2>5, <2>6, <2>7 DEF Effect
<1>5. CASE RegIncr(a)
    <2>1. /\ Goto(a, "ready")
          /\ redis'.info = redis.info /\ redis'.queued = redis.queued
          /\ redis'.refCount = redis.refCount + 1
        BY <1>5 DEF RegIncr, TypeOK, Keys
    <2>2. /\ act'[a].pc = "ready"
          /\ \A b \in Actors : b # a => act'[b] = act[b]
        BY <2>1, GotoFacts
    <2>3. InOperation(a)' BY <1>2, <2>2
    <2>4. Standing(a)' /\ Ordinary' BY <2>1, <2>2 DEF Standing, Ordinary
    <2> QED BY <1>1, <2>1, <2>2, <2>3, <2>4 DEF Effect
<1>6. CASE GetOutcome(a)
    <2>1. PICK l \in {"setOutcome", "ready"} :
              Goto(a, l) /\ (l = "setOutcome" => p \in redis.info)
        BY <1>6 DEF GetOutcome, Get
    <2>2. redis' = redis /\ act[a].op = "outcome"
        BY <1>6 DEF GetOutcome, Get, At, InOperation, OutcomePcs
    <2>3. /\ act'[a].pc = l
          /\ l # "ready" => act'[a].op = act[a].op /\ act'[a].on = p
          /\ \A b \in Actors : b # a => act'[b] = act[b]
        BY <2>1, GotoFacts
    <2>4. InOperation(a)' BY <1>2, <2>2, <2>3
    <2>5. Known' = Known /\ Ordinary' BY <2>2 DEF Known, Ordinary
    <2>6. Standing(a)' /\ ~Counting(a)'
        BY <2>1, <2>2, <2>3 DEF Standing, Counting, BusyPcs
    <2>7. ~Registering(a) BY <2>2 DEF Registering
    <2> QED BY <1>1, <2>2, <2>3, <2>4, <2>5, <2>6, <2>7 DEF Effect
<1>7. CASE SetOutcome(a)
    <2>1. /\ Goto(a, "ready") /\ act[a].pc = "setOutcome" /\ act[a].op = "outcome"
          /\ redis'.info = redis.info \union {p} /\ redis'.queued = redis.queued
          /\ redis'.refCount = redis.refCount
        BY <1>7 DEF SetOutcome, At, InOperation, OutcomePcs, TypeOK, Keys
    <2>2. redis'.info = redis.info BY <2>1 DEF Standing
    <2>3. /\ act'[a].pc = "ready"
          /\ \A b \in Actors : b # a => act'[b] = act[b]
        BY <2>1, GotoFacts
    <2>4. ~Counting(a)' /\ ~Registering(a)
        BY <2>1, <2>3 DEF Counting, Registering, BusyPcs
    <2> QED BY <1>1, <2>1, <2>2, <2>3, <2>4, Still
<1> QED BY <1>3, <1>4, <1>5, <1>6, <1>7 DEF EndpointStep

LEMMA CleanupEffect ==
    ASSUME TypeOK, NEW a \in Actors, InOperation(a), Ordinary,
           KeysInfo(a) \/ GetCount(a) \/ SetCount(a), Slips(a) \cap Uncounted = {}
    PROVE  Effect(a)
<1>1. /\ act[a].op = "cleanup" /\ ~Registering(a)
      /\ redis.refCount \in Int /\ act[a].count \in Int
    BY DEF KeysInfo, GetCount, SetCount, At, InOperation, CleanPcs, Registering, TypeOK,
           Keys, Doings
<1>2. /\ redis'.info = redis.info /\ redis'.queued = redis.queued
      /\ redis'.refCount \in Int /\ redis'.refCount >= redis.refCount
    <2>1. CASE KeysInfo(a) \/ GetCount(a)
        BY <1>1, <2>1 DEF KeysInfo, GetCount, Get
    <2>2. CASE SetCount(a)
        <3>1. /\ act[a].pc = "setCount" /\ redis'.refCount = act[a].count
              /\ redis'.info = redis.info /\ redis'.queued = redis.queued
            BY <2>2 DEF SetCount, At, TypeOK, Keys
        <3>2. ~(act[a].count < redis.refCount)
            <4> SUFFICES ASSUME act[a].count < redis.refCount PROVE FALSE
                OBVIOUS
            <4>1. "lowered" \in Slips(a) /\ "lowered" \in Uncounted
                BY <3>1 DEF Slips, SlipKinds, Uncounted, At
            <4> QED BY <4>1
        <3> QED BY <1>1, <3>1, <3>2
    <2> QED BY <2>1, <2>2
<1>3. /\ act'[a].pc \in {"getCount", "busyPaused", "idleState", "setCount", "ready"}
      /\ act'[a].pc # "ready" => act'[a].op = act[a].op /\ act'[a].on = act[a].on
      /\ \A b \in Actors : b # a => act'[b] = act[b]
    <2>1. CASE KeysInfo(a)
        BY <2>1 DEF KeysInfo, TypeOK, Doings
    <2>2. CASE \E l \in {"busyPaused", "idleState", "setCount", "ready"} : Goto(a, l)
        BY <2>2, GotoFacts
    <2>3. CASE GetCount(a)
        <3> DEFINE n == act[a].count
                   label == CASE n = redis.refCount           -> "ready"
                              [] n > 0 /\ redis.refCount = 0  -> "busyPaused"
                              [] n = 0 /\ redis.refCount > 0  -> "idleState"
                              [] OTHER                        -> "setCount"
        <3>1. label \in {"busyPaused", "idleState", "setCount", "ready"} OBVIOUS
        <3>2. Goto(a, label) BY <2>3 DEF GetCount, Get
        <3> HIDE DEF label
        <3> QED BY <2>2, <3>1, <3>2
    <2> QED BY <2>1, <2>2, <2>3 DEF SetCount
<1>4. act'[a].pc # "ready" => InOperation(a)'
    BY <1>1, <1>3 DEF InOperation, ReportPcs, ClearPcs, DownPcs, BusyPcs, IdlePcs,
       OutcomePcs, RegPcs, CleanPcs, SyncPcs, PausePcs
<1>5. ~Counting(a)' BY <1>1, <1>3 DEF Counting, BusyPcs
<1> QED BY <1>1, <1>2, <1>3, <1>4, <1>5, Still

LEMMA SyncEffect ==
    ASSUME TypeOK, NEW a \in Actors, InOperation(a), Ordinary, RepairStep(a),
           ~(KeysInfo(a) \/ GetCount(a) \/ SetCount(a))
    PROVE  Effect(a)
<1>1. act[a].op = "sync" /\ ~Registering(a)
    BY DEF RepairStep, SyncPaused, SyncState, SyncSetPaused, SyncLock, SyncInfo, SyncQueued,
           SyncLast, At, InOperation, SyncPcs, Registering
<1>2. /\ redis'.info = redis.info /\ redis'.queued = redis.queued
      /\ redis'.refCount = redis.refCount /\ redis.refCount \in Int
    BY DEF RepairStep, SyncPaused, SyncState, SyncSetPaused,
           SyncLock, SyncInfo, SyncQueued, SyncLast, Get, Look, TypeOK, Keys
<1>3. /\ act'[a].pc \in {"ready", "busyPaused", "idleState", "syncState", "syncLock",
                         "syncSetPaused", "syncLast", "syncInfo", "syncQueued"}
      /\ act'[a].pc # "ready" => act'[a].op = act[a].op /\ act'[a].on = act[a].on
      /\ \A b \in Actors : b # a => act'[b] = act[b]
    <2>1. CASE \E l \in {"ready", "busyPaused", "idleState", "syncState", "syncLock",
                         "syncSetPaused"} : Goto(a, l)
        BY <2>1, GotoFacts
    <2>2. CASE \E l \in {"syncLast", "syncInfo", "syncQueued"}, flag \in BOOLEAN :
                   Look(a, flag, l)
        BY <2>2, LookFacts
    <2>3. CASE SyncPaused(a) \/ SyncState(a) \/ SyncSetPaused(a) \/ SyncLast(a)
        BY <2>1, <2>3 DEF SyncPaused, SyncState, SyncSetPaused, SyncLast, Get
    <2>4. CASE SyncLock(a)
        <3> DEFINE busy == redis.holder \notin {NoHolder, PAUSED}
        <3>1. Look(a, busy, IF busy THEN "syncLast" ELSE "syncInfo") BY <2>4 DEF SyncLock
        <3>2. busy \in BOOLEAN OBVIOUS
        <3> HIDE DEF busy
        <3> QED BY <2>2, <3>1, <3>2
    <2>5. CASE SyncInfo(a)
        <3> DEFINE busy == redis.info # {}
        <3>1. Look(a, busy, IF busy THEN "syncLast" ELSE "syncQueued") BY <2>5 DEF SyncInfo
        <3>2. busy \in BOOLEAN OBVIOUS
        <3> HIDE DEF busy
        <3> QED BY <2>2, <3>1, <3>2
    <2>6. CASE SyncQueued(a)
        <3>1. (redis.queued # {}) \in BOOLEAN OBVIOUS
        <3> QED BY <2>2, <2>6, <3>1 DEF SyncQueued
    <2> QED BY <2>3, <2>4, <2>5, <2>6 DEF RepairStep
<1>4. act'[a].pc # "ready" => InOperation(a)'
    BY <1>1, <1>3 DEF InOperation, ReportPcs, ClearPcs, DownPcs, BusyPcs, IdlePcs,
       OutcomePcs, RegPcs, CleanPcs, SyncPcs, PausePcs
<1>5. ~Counting(a)'
    BY <1>1, <1>3 DEF Counting, BusyPcs
<1> QED BY <1>1, <1>2, <1>3, <1>4, <1>5, Still

LEMMA PauseEffect ==
    ASSUME TypeOK, NEW a \in Actors, InOperation(a), Ordinary, PauseStep(a)
    PROVE  Effect(a)
<1>1. /\ act[a].op \in {"pause", "resume"} /\ ~Registering(a)
      /\ redis'.info = redis.info /\ redis'.queued = redis.queued
      /\ redis'.refCount = redis.refCount /\ redis.refCount \in Int
    BY DEF PauseStep, PauseFlag, PauseState, PauseLock, ResumeFlag, ResumeRead, ResumeDel, At,
           Get, TypeOK, Keys, InOperation, PausePcs, Registering
<1>2. PICK l \in {"pauseState", "pauseLock", "resumeRead", "resumeDel", "ready"} : Goto(a, l)
    BY DEF PauseStep, PauseFlag, PauseState, PauseLock, ResumeFlag, ResumeRead, ResumeDel, Get
<1>3. /\ act'[a].pc = l
      /\ l # "ready" => act'[a].op = act[a].op /\ act'[a].on = act[a].on
      /\ \A b \in Actors : b # a => act'[b] = act[b]
    BY <1>2, GotoFacts
<1>4. l # "ready" => InOperation(a)'
    BY <1>1, <1>2, <1>3 DEF InOperation, ReportPcs, ClearPcs, DownPcs, BusyPcs, IdlePcs,
       OutcomePcs, RegPcs, CleanPcs, SyncPcs, PausePcs
<1>5. ~Counting(a)'
    BY <1>2, <1>3 DEF Counting, BusyPcs
<1> QED BY <1>1, <1>2, <1>3, <1>4, <1>5, Still

LEMMA CountedFinite ==
    ASSUME TypeOK
    PROVE  /\ IsFiniteSet(Counted) /\ Cardinality(Counted) \in Nat
           /\ Counted \subseteq Procs
<1>1. Counted \subseteq Procs
    BY DEF TypeOK, Keys, Doings, Known, Counted
<1> QED BY <1>1, RegistryAssumption, FS_Subset, FS_CardinalityType DEF RegistryAssumption

\* What no longer happens until one of the slips: each step of an operation
\* leaves what stands for the others standing, ...
LEMMA OthersStand ==
    ASSUME \A b \in Actors : InOperation(b) /\ Standing(b),
           Alone, NEW a \in Actors, Effect(a), act[a].pc # "ready"
    PROVE  (\A b \in Actors : InOperation(b)' /\ Standing(b)') /\ Alone'
<1> DEFINE p == act[a].on
<1>1. /\ \A b \in Actors : b # a => act'[b] = act[b]
      /\ act'[a].pc # "ready" => act'[a].op = act[a].op /\ act'[a].on = p
      /\ InOperation(a)' /\ Standing(a)'
      /\ \A q : q # p \/ act[a].op \notin OnId =>
              (q \in redis'.info <=> q \in redis.info)
              /\ (q \in redis'.queued <=> q \in redis.queued)
    BY DEF Effect
<1>2. ASSUME NEW b \in Actors PROVE InOperation(b)' /\ Standing(b)'
    <2>1. CASE b = a BY <1>1, <2>1
    <2>2. CASE b # a
        <3>1. act'[b] = act[b] BY <1>1, <2>2
        <3>2. InOperation(b)' BY <3>1 DEF InOperation
        <3>3. act[b].pc \in {"delInfo", "delQueued", "decr", "setOutcome", "regSet"} =>
                  OnItsId(b)
            BY DEF InOperation, OnItsId, OnId, ClearPcs, DownPcs, OutcomePcs, RegPcs
        <3>4. OnItsId(b) => act[b].on # p \/ act[a].op \notin OnId
            BY <2>2 DEF Alone, OnItsId
        <3>5. OnItsId(b) =>
                  /\ act[b].on \in redis'.info <=> act[b].on \in redis.info
                  /\ act[b].on \in redis'.queued <=> act[b].on \in redis.queued
            BY <1>1, <3>4
        <3>6. Standing(b)' BY <3>1, <3>3, <3>5 DEF Standing, Known
        <3> QED BY <3>2, <3>6
    <2> QED BY <2>1, <2>2
<1>3. \A b \in Actors : OnItsId(b)' => OnItsId(b) /\ act'[b].on = act[b].on
    BY <1>1 DEF OnItsId
<1>4. Alone' BY <1>3 DEF Alone
<1> QED BY <1>2, <1>4

\* ... and the count keeps up with what it counts.
LEMMA CountKeepsUp ==
    ASSUME TypeOK, TypeOK', \A b \in Actors : InOperation(b),
           Alone, redis.refCount >= Cardinality(Counted),
           NEW a \in Actors, Effect(a), act[a].pc # "ready"
    PROVE  redis'.refCount >= Cardinality(Counted')
<1> DEFINE p == act[a].on
           In == (p \in Known /\ ~Registering(a)) \/ Counting(a)
           InNext == (p \in Known' /\ ~Registering(a)') \/ Counting(a)'
<1>1. /\ \A b \in Actors : b # a => act'[b] = act[b]
      /\ act'[a].pc # "ready" => act'[a].op = act[a].op /\ act'[a].on = p
      /\ \A q : q # p \/ act[a].op \notin OnId =>
              (q \in redis'.info <=> q \in redis.info)
              /\ (q \in redis'.queued <=> q \in redis.queued)
      /\ act[a].op \notin OnId => ~Counting(a)'
    BY DEF Effect
<1>2. \A b \in Actors : b # a =>
          /\ Registering(b)' <=> Registering(b)
          /\ Counting(b)' <=> Counting(b)
    BY <1>1 DEF Registering, Counting
<1>3. \A b \in Actors : Registering(b) \/ Counting(b) => OnItsId(b)
    BY DEF Registering, Counting, OnItsId, OnId, InOperation, ClearPcs, DownPcs, BusyPcs
<1>4. Counting(a)' \/ Registering(a)' => act'[a].on = p
    BY <1>1 DEF Counting, Registering, BusyPcs
<1>5. ASSUME NEW q, q \in Counted', q # p \/ act[a].op \notin OnId
      PROVE  q \in Counted
    <2>1. CASE \E b \in Actors : Counting(b)' /\ act'[b].on = q
        <3>1. PICK b \in Actors : Counting(b)' /\ act'[b].on = q BY <2>1
        <3>2. b # a BY <1>1, <1>4, <1>5, <3>1
        <3>3. Counting(b) /\ act[b].on = q BY <1>1, <1>2, <3>1, <3>2
        <3> QED BY <3>3 DEF Counted
    <2>2. CASE q \in Known' /\ ~(\E b \in Actors : Registering(b)' /\ act'[b].on = q)
        <3>1. q \in Known BY <1>1, <1>5, <2>2 DEF Known
        <3>2. ASSUME NEW b \in Actors, Registering(b), act[b].on = q PROVE FALSE
            <4>1. b # a BY <1>3, <1>5, <3>2 DEF OnItsId
            <4> QED BY <1>1, <1>2, <2>2, <3>2, <4>1
        <3> QED BY <3>1, <3>2 DEF Counted, BeingAdded
    <2> QED BY <1>5, <2>1, <2>2 DEF Counted, BeingAdded
<1>6. ASSUME act[a].op \in OnId, NEW b \in Actors, b # a, OnItsId(b)
      PROVE  act[b].on # p
    BY <1>6 DEF Alone, OnItsId
<1>7. act[a].op \in OnId /\ p \in Counted' => InNext
    <2> SUFFICES ASSUME act[a].op \in OnId, p \in Counted', ~InNext PROVE FALSE
        OBVIOUS
    <2>1. ~(\E b \in Actors : Counting(b)' /\ act'[b].on = p)
        <3> SUFFICES ASSUME NEW b \in Actors, Counting(b)', act'[b].on = p PROVE FALSE
            OBVIOUS
        <3>1. b # a OBVIOUS
        <3>2. OnItsId(b) /\ act[b].on = p BY <1>1, <1>2, <1>3, <3>1
        <3> QED BY <1>6, <3>1, <3>2
    <2>2. p \in Known' /\ ~(\E b \in Actors : Registering(b)' /\ act'[b].on = p)
        BY <2>1 DEF Counted, BeingAdded
    <2>3. ~Registering(a)' BY <1>4, <2>2
    <2> QED BY <2>2, <2>3
<1>8. act[a].op \in OnId /\ In => p \in Counted
    <2> SUFFICES ASSUME act[a].op \in OnId, In PROVE p \in Counted
        OBVIOUS
    <2>1. CASE Counting(a) BY <2>1 DEF Counted
    <2>2. CASE p \in Known /\ ~Registering(a)
        <3>1. ASSUME NEW b \in Actors, Registering(b), act[b].on = p PROVE FALSE
            <4>1. b # a /\ OnItsId(b) BY <1>3, <2>2, <3>1
            <4> QED BY <1>6, <3>1, <4>1
        <3> QED BY <2>2, <3>1 DEF Counted, BeingAdded
    <2> QED BY <2>1, <2>2
<1>9. /\ IsFiniteSet(Counted) /\ Cardinality(Counted) \in Nat
      /\ IsFiniteSet(Counted') /\ Cardinality(Counted') \in Nat
      /\ redis.refCount \in Int /\ redis'.refCount \in Int
    <2>1. IsFiniteSet(Counted') /\ Cardinality(Counted') \in Nat
        <3>1. Counted' \subseteq Procs
            BY DEF TypeOK, Keys, Doings, Known, Counted
        <3> QED BY <3>1, RegistryAssumption, FS_Subset, FS_CardinalityType
               DEF RegistryAssumption
    <2> QED BY <2>1, CountedFinite DEF TypeOK, Keys
<1>10. CASE redis'.refCount >= redis.refCount /\ (InNext => In)
    <2>1. Counted' \subseteq Counted BY <1>5, <1>7, <1>8, <1>10
    <2>2. Cardinality(Counted') <= Cardinality(Counted) BY <1>9, <2>1, FS_Subset
    <2> QED BY <1>9, <1>10, <2>2
<1>11. CASE redis'.refCount = redis.refCount + 1
    <2>1. /\ IsFiniteSet(Counted \union {p})
          /\ Cardinality(Counted \union {p}) =
                IF p \in Counted THEN Cardinality(Counted) ELSE Cardinality(Counted) + 1
        BY <1>9, FS_AddElement
    <2>2. Counted' \subseteq Counted \union {p} BY <1>5
    <2>3. Cardinality(Counted') <= Cardinality(Counted \union {p})
        BY <2>1, <2>2, FS_Subset
    <2> QED BY <1>9, <1>11, <2>1, <2>3
<1>12. CASE /\ redis'.refCount = redis.refCount - 1
            /\ p \notin Known' /\ ~Counting(a)' /\ Counting(a)
    <2>1. act[a].op \in OnId BY <1>3, <1>12 DEF OnItsId
    <2>2. p \in Counted /\ p \notin Counted' BY <1>7, <1>8, <1>12, <2>1
    <2>3. Counted' \subseteq Counted \ {p} BY <1>5, <2>2
    <2>4. /\ IsFiniteSet(Counted \ {p})
          /\ Cardinality(Counted \ {p}) = Cardinality(Counted) - 1
        BY <1>9, <2>2, FS_RemoveElement
    <2>5. Cardinality(Counted') <= Cardinality(Counted \ {p})
        BY <2>3, <2>4, FS_Subset
    <2> QED BY <1>9, <1>12, <2>4, <2>5
<1> QED BY <1>10, <1>11, <1>12 DEF Effect

LEMMA CoveredStep ==
    ASSUME TypeOK, TypeOK', Covered, NEW a \in Actors, Step(a)
    PROVE  Covered'
<1> SUFFICES ASSUME slips' \cap Uncounted = {}
             PROVE  /\ \A b \in Actors : InOperation(b)' /\ Standing(b)'
                    /\ Alone' /\ Ordinary'
                    /\ redis'.refCount >= Cardinality(Counted')
    BY DEF Covered
<1>1. slips \cap Uncounted = {} /\ Slips(a) \cap Uncounted = {} BY DEF Step
<1>2. /\ \A b \in Actors : InOperation(b) /\ Standing(b)
      /\ Alone /\ Ordinary
      /\ redis.refCount >= Cardinality(Counted)
    BY <1>1 DEF Covered
<1>3. Effect(a)
    <2>1. CASE RepairStep(a)
        BY <1>1, <1>2, <2>1, CleanupEffect, SyncEffect
    <2>2. CASE ~RepairStep(a)
        BY <1>1, <1>2, <2>2, TransitionEffect, ReportEffect, ClearEffect, EndpointEffect,
           PauseEffect DEF Step
    <2> QED BY <2>1, <2>2
<1>4. act[a].pc # "ready"
    BY DEF Step, TransitionStep, BusyPaused, BusyState, BusySet, IdleState,
       IdlePaused, IdleSet, ReportStep, GetHolder, DropOther, ExistsInfo,
       ExistsQueued, Incr, SetKey, ClearStep, ClrInfo, ClrQueued, DelInfo,
       DelQueued, UnregDel, Decr, ResetCount, EndpointStep, RegGet, RegSet,
       RegIncr, GetOutcome, SetOutcome, RepairStep, KeysInfo, GetCount,
       SetCount, SyncPaused, SyncState, SyncSetPaused, SyncLock, SyncInfo,
       SyncQueued, SyncLast, PauseStep, PauseFlag, PauseState, PauseLock,
       ResumeFlag, ResumeRead, ResumeDel, At
<1>5. Ordinary' BY <1>3 DEF Effect
<1> QED BY <1>2, <1>3, <1>4, <1>5, OthersStand, CountKeepsUp

LEMMA CoveredBegin ==
    ASSUME TypeOK, TypeOK', Covered, NEW a \in Actors,
           NEW o \in Performs[a], NEW p \in Serves[a], Begin(a, o, p)
    PROVE  Covered'
<1> SUFFICES ASSUME slips' \cap Uncounted = {}
             PROVE  /\ \A b \in Actors : InOperation(b)' /\ Standing(b)'
                    /\ Alone' /\ Ordinary'
                    /\ redis'.refCount >= Cardinality(Counted')
    BY DEF Covered
<1>1. slips \cap Uncounted = {} /\ ~(o \in OnId /\ Contested(a, p))
    BY DEF Begin, Uncounted
<1>2. /\ \A b \in Actors : InOperation(b) /\ Standing(b)
      /\ Alone /\ Ordinary
      /\ redis.refCount >= Cardinality(Counted)
    BY <1>1 DEF Covered
<1>3. /\ act'[a].pc = FirstPc(o) /\ act'[a].op = o /\ act'[a].on = p
      /\ act[a].pc = "ready"
      /\ \A b \in Actors : b # a => act'[b] = act[b]
      /\ redis'.info = redis.info /\ redis'.queued = redis.queued
      /\ redis'.refCount = redis.refCount
      /\ MayStart(o, p)
    BY DEF Begin, At, TypeOK, Doings, Keys
<1>4. o \in Ops BY RegistryAssumption DEF RegistryAssumption
<1>5. /\ o = "report" => p \notin External
      /\ o = "unregister" => p \in External
    BY <1>3 DEF MayStart
<1>6. InOperation(a)'
    <2>1. \/ o = "report" /\ FirstPc(o) = "getHolder"
          \/ o \in {"clear", "reap"} /\ FirstPc(o) = "clrInfo"
          \/ o = "outcome" /\ FirstPc(o) = "getOutcome"
          \/ o = "register" /\ FirstPc(o) = "regGet"
          \/ o = "unregister" /\ FirstPc(o) = "unregDel"
          \/ o = "cleanup" /\ FirstPc(o) = "keysInfo"
          \/ o = "sync" /\ FirstPc(o) = "syncPaused"
          \/ o = "pause" /\ FirstPc(o) = "pauseFlag"
          \/ o = "resume" /\ FirstPc(o) = "resumeFlag"
        BY <1>4 DEF FirstPc, Ops
    <2> QED BY <1>3, <1>5, <2>1 DEF InOperation, ReportPcs, ClearPcs, DownPcs, BusyPcs,
            IdlePcs, OutcomePcs, RegPcs, CleanPcs, SyncPcs, PausePcs
<1>7. /\ Standing(a)' /\ ~Counting(a)' /\ ~Counting(a)
      /\ ~Registering(a)' /\ ~Registering(a)
    BY <1>3, <1>4 DEF Standing, Counting, Registering, FirstPc, Ops, BusyPcs
<1>8. Known' = Known /\ Ordinary' BY <1>2, <1>3 DEF Known, Ordinary
<1>9. \A b \in Actors : InOperation(b)' /\ Standing(b)'
    BY <1>2, <1>3, <1>6, <1>7, <1>8 DEF InOperation, Standing
<1>10. Alone'
    <2>1. ASSUME NEW b \in Actors, b # a, OnItsId(a)', OnItsId(b)'
          PROVE  act'[b].on # p
        <3>1. act'[b] = act[b] /\ o \in OnId BY <1>3, <2>1 DEF OnItsId
        <3> QED BY <1>1, <2>1, <3>1 DEF Contested, OnItsId, At
    <2>2. ASSUME NEW b \in Actors, NEW c \in Actors, b # a, c # a, b # c,
                 OnItsId(b)', OnItsId(c)'
          PROVE  act'[b].on # act'[c].on
        BY <1>2, <1>3, <2>2 DEF Alone, OnItsId
    <2> QED BY <1>3, <2>1, <2>2 DEF Alone
<1>11. \A b \in Actors : /\ Counting(b)' <=> Counting(b)
                         /\ Registering(b)' <=> Registering(b)
                         /\ Counting(b) \/ Registering(b) => act'[b].on = act[b].on
    BY <1>3, <1>7 DEF Counting, Registering
<1>12. Counted' = Counted BY <1>8, <1>11 DEF Counted, BeingAdded
<1> QED BY <1>2, <1>3, <1>8, <1>9, <1>10, <1>12

LEMMA CoveredNext ==
    ASSUME TypeOK, TypeOK', Covered, [Next]_vars
    PROVE  Covered'
<1>1. CASE \E a \in Actors : Step(a)
    BY <1>1, CoveredStep
<1>2. CASE \E a \in Actors : \E o \in Performs[a], p \in Serves[a] : Begin(a, o, p)
    BY <1>2, CoveredBegin
<1>3. CASE (\E p \in External : Die(p)) \/ MoveLock \/ UNCHANGED vars
    <2>1. /\ act' = act /\ redis'.info = redis.info /\ redis'.queued = redis.queued
          /\ redis'.refCount = redis.refCount /\ slips' = slips
        BY <1>3 DEF Die, MoveLock, vars, TypeOK, Keys
    <2>2. Known' = Known BY <2>1 DEF Known
    <2>3. Counted' = Counted BY <2>1, <2>2 DEF Counted, Counting, BeingAdded, Registering
    <2>4. /\ \A b \in Actors : (InOperation(b)' <=> InOperation(b))
                               /\ (Standing(b)' <=> Standing(b))
          /\ (Alone' <=> Alone) /\ (Ordinary' <=> Ordinary)
        BY <2>1, <2>2 DEF InOperation, Standing, Alone, OnItsId, Ordinary
    <2> QED BY <2>1, <2>3, <2>4 DEF Covered
<1> QED BY <1>1, <1>2, <1>3 DEF Next, Rest

LEMMA CoveredInit == ASSUME Init PROVE Covered
<1>1. \A a \in Actors : act[a].pc = "ready" BY DEF Init, Resting
<1>2. redis.info = {} /\ redis.queued = {} /\ redis.refCount = 0 BY DEF Init
<1>3. \A a \in Actors : InOperation(a) /\ Standing(a)
    BY <1>1 DEF InOperation, Standing, ReportPcs, ClearPcs, DownPcs, BusyPcs, IdlePcs,
       OutcomePcs, RegPcs, CleanPcs, SyncPcs, PausePcs
<1>4. Alone /\ Ordinary BY <1>1, <1>2 DEF Alone, OnItsId, Ordinary
<1>5. Counted = {} BY <1>1, <1>2 DEF Counted, Counting, BusyPcs, Known
<1>6. redis.refCount >= Cardinality(Counted) BY <1>2, <1>5, FS_EmptySet
<1> QED BY <1>3, <1>4, <1>6 DEF Covered

LEMMA CoveredImplies ==
    ASSUME TypeOK, Covered
    PROVE  CountCoversKnown
<1> SUFFICES ASSUME slips \cap Uncounted = {}
             PROVE  redis.refCount >= Cardinality(Known \ BeingAdded)
    BY DEF CountCoversKnown
<1>1. Known \ BeingAdded \subseteq Counted BY DEF Counted
<1>2. Cardinality(Known \ BeingAdded) <= Cardinality(Counted)
    BY <1>1, CountedFinite, FS_Subset
<1>3. Cardinality(Known \ BeingAdded) \in Nat
    BY <1>1, CountedFinite, FS_Subset, FS_CardinalityType
<1> QED BY <1>2, <1>3, CountedFinite DEF Covered, TypeOK, Keys

\* Until two operations overlap on one id, an unknown id is unregistered, or a
\* count that has gone up is overwritten, the count is never below the number of
\* known processes, but for those a registration is about to count: for any
\* goroutines, ids and assignment of operations, the HTTP endpoints, the reaper
\* and the cleanup included, whatever the lock, pauses and syncs do in between.
THEOREM CountCovers == Spec => []CountCoversKnown
<1>1. TypeOK /\ TypeOK' /\ Covered /\ [Next]_vars => Covered'
    BY CoveredNext
<1>2. TypeOK /\ Covered => CountCoversKnown
    BY CoveredImplies
<1> QED BY <1>1, <1>2, CoveredInit, TypeCorrect, PTL DEF Spec

=============================================================================
