--------------------------- MODULE ProcessRegistry ---------------------------
(***************************************************************************)
(* The process registry of utils/process.go and endpoints/processes.go:    *)
(* the keys process:info:<id> and process:queued:<id>, the counter         *)
(* system:busy_ref_count and system:state, which all of them try to keep   *)
(* in step with one Redis command after the other.                         *)
(*                                                                         *)
(* An actor is a goroutine that runs one operation at a time on one        *)
(* process id; each action below is one Redis command of that operation.   *)
(* Timestamps, metrics, history entries, events and Discord updates are    *)
(* left out: no operation branches on them.                                *)
(***************************************************************************)
EXTENDS Integers, FiniteSets

CONSTANTS
    Actors,     \* goroutines
    Procs,      \* process ids
    External,   \* ids registered over HTTP by other services
    Serves,     \* Serves[a]: the ids actor a works on
    Performs,   \* Performs[a]: the operations actor a runs
    NoHolder, Other, PAUSED,    \* lock values that are not one of Procs
    MaxOps,     \* bound: MaxOps[a] operations started by a (sync is not counted)
    MaxMoves    \* bound: how often the cognitive lock changes hands

Ops == {"report", "clear", "outcome", "register", "unregister", "reap",
        "cleanup", "sync", "pause", "resume"}

ASSUME RegistryAssumption ==
    /\ External \subseteq Procs /\ Procs # {} /\ IsFiniteSet(Procs)
    /\ Serves \in [Actors -> SUBSET Procs]
    /\ Performs \in [Actors -> SUBSET Ops]
    /\ {NoHolder, Other, PAUSED} \cap Procs = {}
    /\ NoHolder # Other /\ NoHolder # PAUSED /\ Other # PAUSED
    /\ MaxOps \in [Actors -> Nat] /\ MaxMoves \in Nat

VARIABLES
    redis,      \* the keys of the registry
    act,        \* act[a]: what actor a is doing
    started,    \* started[a]: operations a has started
    dead,       \* external ids whose OS process has died
    moves,      \* changes of the lock so far
    slips       \* history: what has happened that the code does not guard against

vars == <<redis, act, started, dead, moves, slips>>

Pc == {"ready",
       "getHolder", "dropOther", "existsInfo", "existsQueued", "incr", "setKey",
       "clrInfo", "clrQueued", "delInfo", "delQueued", "decr", "resetCount",
       "getOutcome", "setOutcome",
       "regGet", "regSet", "regIncr", "unregDel",
       "busyPaused", "busyState", "busySet", "idleState", "idlePaused", "idleSet",
       "keysInfo", "getCount", "setCount",
       "syncPaused", "syncState", "syncSetPaused", "syncLock", "syncInfo",
       "syncQueued", "syncLast",
       "pauseFlag", "pauseState", "pauseLock",
       "resumeFlag", "resumeRead", "resumeDel"}

Keys == [info: SUBSET Procs, queued: SUBSET Procs, refCount: Int,
         state: {"idle", "busy", "paused"}, isPaused: BOOLEAN,
         holder: Procs \union {NoHolder, Other, PAUSED}]

\* The ways in which the code itself loses count, or a pause: see Slips.
Uncounted == {"shared", "unknown", "lowered"}
SlipKinds == Uncounted \union {"crossed"}

\* seen is the one flag an operation carries from a read to a later write,
\* count the number of keys a cleanup has read.
Doings == [pc: Pc, op: Ops, on: Procs, seen: BOOLEAN, count: Nat]
Resting == [pc |-> "ready", op |-> "clear", on |-> CHOOSE p \in Procs : TRUE,
            seen |-> FALSE, count |-> 0]

TypeOK ==
    /\ redis \in Keys
    /\ act \in [Actors -> Doings]
    /\ started \in [Actors -> Nat]
    /\ dead \subseteq External
    /\ moves \in Nat
    /\ slips \subseteq SlipKinds

\* Startup cleanup (main.go) leaves an empty registry and an idle system.
Init ==
    /\ redis = [info |-> {}, queued |-> {}, refCount |-> 0, state |-> "idle",
                isPaused |-> FALSE, holder |-> NoHolder]
    /\ act = [a \in Actors |-> Resting]
    /\ started = [a \in Actors |-> 0]
    /\ dead = {}
    /\ moves = 0
    /\ slips = {}

Known == redis.info \union redis.queued

-----------------------------------------------------------------------------
(* Control of one actor.                                                   *)

At(a, label) == act[a].pc = label

\* An actor that is done forgets what it has read.
Goto(a, label) ==
    act' = [act EXCEPT ![a] = IF label = "ready" THEN Resting
                                                 ELSE [@ EXCEPT !.pc = label]]

\* A command that only reads; one that also remembers a flag.
Get(a, label)       == redis' = redis /\ Goto(a, label)
Look(a, b, label)   == /\ redis' = redis
                       /\ act' = [act EXCEPT ![a].seen = b, ![a].pc = label]

FirstPc(o) ==
    CASE o = "report"     -> "getHolder"
      [] o = "clear"      -> "clrInfo"
      [] o = "reap"       -> "clrInfo"
      [] o = "outcome"    -> "getOutcome"
      [] o = "register"   -> "regGet"
      [] o = "unregister" -> "unregDel"
      [] o = "cleanup"    -> "keysInfo"
      [] o = "sync"       -> "syncPaused"
      [] o = "pause"      -> "pauseFlag"
      [] o = "resume"     -> "resumeFlag"

\* Which operation may start on which id.  The agents and handlers report and
\* clear their own ids; other services register theirs over HTTP while they
\* live; the reaper finds an active key whose PID is dead; a pause request
\* reads the state first and is refused unless it is idle.
MayStart(o, p) ==
    /\ o \in {"report", "clear", "outcome"} => p \notin External
    /\ o \in {"register", "unregister"} => p \in External \ dead
    /\ o = "reap" => p \in redis.info \cap dead
    /\ o = "pause" => redis.state = "idle"

\* The operations on the keys of one id; whether another one is at work on p.
OnId == {"report", "clear", "reap", "outcome", "register", "unregister"}
Contested(a, p) ==
    \E b \in Actors \ {a} : /\ ~At(b, "ready")
                            /\ act[b].op \in OnId /\ act[b].on = p

\* The first command of a resume request sets the state to idle.
Begin(a, o, p) ==
    /\ At(a, "ready")
    /\ o \in Performs[a] /\ p \in Serves[a]
    /\ MayStart(o, p)
    /\ \/ o = "sync" /\ UNCHANGED started
       \/ /\ o # "sync" /\ started[a] < MaxOps[a]
          /\ started' = [started EXCEPT ![a] = @ + 1]
    /\ act' = [act EXCEPT ![a].op = o, ![a].on = p, ![a].pc = FirstPc(o)]
    /\ redis' = IF o = "resume" THEN [redis EXCEPT !.state = "idle"] ELSE redis
    /\ slips' = IF o \in OnId /\ Contested(a, p) THEN slips \union {"shared"} ELSE slips
    /\ UNCHANGED <<dead, moves>>

-----------------------------------------------------------------------------
(* TransitionToBusy and TransitionToIdle, and where their callers go on.   *)

AfterBusy(a) ==
    CASE act[a].op = "report"                     -> "setKey"
      [] act[a].op = "register" /\ ~act[a].seen   -> "regIncr"
      [] act[a].op = "cleanup"                    -> "setCount"
      [] OTHER                                    -> "ready"

AfterIdle(a) == IF act[a].op = "cleanup" THEN "setCount" ELSE "ready"

BusyPaused(a) ==
    /\ At(a, "busyPaused")
    /\ Get(a, IF redis.isPaused THEN AfterBusy(a) ELSE "busyState")

BusyState(a) ==
    /\ At(a, "busyState")
    /\ Get(a, IF redis.state = "busy" THEN AfterBusy(a) ELSE "busySet")

BusySet(a) ==
    /\ At(a, "busySet")
    /\ redis' = [redis EXCEPT !.state = "busy"]
    /\ Goto(a, AfterBusy(a))

\* An idle or paused state is left as it is.
IdleState(a) ==
    /\ At(a, "idleState")
    /\ Get(a, IF redis.state = "busy" THEN "idlePaused" ELSE AfterIdle(a))

IdlePaused(a) == At(a, "idlePaused") /\ Look(a, redis.isPaused, "idleSet")

\* Variants of a definition under a name of their own are slips that the
\* properties are there to notice; no action uses them.  Here: DEL in place of
\* SET "idle".
IdleSetByDeleting(a) ==
    /\ At(a, "idleSet")
    /\ redis' = [redis EXCEPT !.state = IF act[a].seen THEN "paused" ELSE ""]
    /\ Goto(a, AfterIdle(a))

IdleSet(a) ==
    /\ At(a, "idleSet")
    /\ redis' = [redis EXCEPT !.state = IF act[a].seen THEN "paused" ELSE "idle"]
    /\ Goto(a, AfterIdle(a))

TransitionStep(a) ==
    \/ BusyPaused(a) \/ BusyState(a) \/ BusySet(a)
    \/ IdleState(a) \/ IdlePaused(a) \/ IdleSet(a)

-----------------------------------------------------------------------------
(* ReportProcess.                                                          *)

\* seen: somebody else holds the lock, so the process goes to the queue.
GetHolder(a) ==
    /\ At(a, "getHolder")
    /\ Look(a, redis.holder \notin {NoHolder, act[a].on}, "dropOther")

\* One DEL, of the active key or of the queued one ...
DropOther(a) ==
    /\ At(a, "dropOther")
    /\ redis' = IF act[a].seen
                THEN [redis EXCEPT !.info = @ \ {act[a].on}]
                ELSE [redis EXCEPT !.queued = @ \ {act[a].on}]
    /\ Goto(a, "existsInfo")

\* ... and only then the two EXISTS that decide whether the id is known.
ExistsInfo(a) ==
    /\ At(a, "existsInfo")
    /\ Get(a, IF act[a].on \in redis.info THEN "busyPaused" ELSE "existsQueued")

ExistsQueued(a) ==
    /\ At(a, "existsQueued")
    /\ Get(a, IF act[a].on \in redis.queued THEN "busyPaused" ELSE "incr")

Incr(a) ==
    /\ At(a, "incr")
    /\ redis' = [redis EXCEPT !.refCount = @ + 1]
    /\ Goto(a, "busyPaused")

SetKey(a) ==
    /\ At(a, "setKey")
    /\ redis' = IF act[a].seen
                THEN [redis EXCEPT !.queued = @ \union {act[a].on}]
                ELSE [redis EXCEPT !.info = @ \union {act[a].on}]
    /\ Goto(a, "ready")

ReportStep(a) ==
    \/ GetHolder(a) \/ DropOther(a) \/ ExistsInfo(a) \/ ExistsQueued(a)
    \/ Incr(a) \/ SetKey(a)

-----------------------------------------------------------------------------
(* ClearProcess (also run by the zombie reaper), the HTTP endpoints and    *)
(* RecordProcessOutcome.                                                   *)

ClrInfo(a) ==
    /\ At(a, "clrInfo")
    /\ Get(a, IF act[a].on \in redis.info THEN "delInfo" ELSE "clrQueued")

\* Variant: an unknown process is cleared, and counted down, like a known one.
ClrQueuedUnchecked(a) == At(a, "clrQueued") /\ Get(a, "delInfo")

ClrQueued(a) ==
    /\ At(a, "clrQueued")
    /\ Get(a, IF act[a].on \in redis.queued THEN "delInfo" ELSE "ready")

DelInfo(a) ==
    /\ At(a, "delInfo")
    /\ redis' = [redis EXCEPT !.info = @ \ {act[a].on}]
    /\ Goto(a, "delQueued")

DelQueued(a) ==
    /\ At(a, "delQueued")
    /\ redis' = [redis EXCEPT !.queued = @ \ {act[a].on}]
    /\ Goto(a, "decr")

\* Unregistration deletes the active key only, known or not.
UnregDel(a) ==
    /\ At(a, "unregDel")
    /\ redis' = [redis EXCEPT !.info = @ \ {act[a].on}]
    /\ Goto(a, "decr")

\* Variant: a negative count is not made good.
AfterDecrWithoutReset(a, n) == IF n <= 0 THEN "idleState" ELSE "ready"

\* Clearing resets a count below zero, unregistration one that is not above.
AfterDecr(a, n) ==
    IF n < 0 \/ (n = 0 /\ act[a].op = "unregister") THEN "resetCount"
    ELSE IF n = 0 THEN "idleState" ELSE "ready"

Decr(a) ==
    /\ At(a, "decr")
    /\ redis' = [redis EXCEPT !.refCount = @ - 1]
    /\ Goto(a, AfterDecr(a, redis.refCount - 1))

ResetCount(a) ==
    /\ At(a, "resetCount")
    /\ redis' = [redis EXCEPT !.refCount = 0]
    /\ Goto(a, "idleState")

ClearStep(a) ==
    \/ ClrInfo(a) \/ ClrQueued(a) \/ DelInfo(a) \/ DelQueued(a)
    \/ UnregDel(a) \/ Decr(a) \/ ResetCount(a)

\* Registration: seen is "already registered"; the count follows the key.
RegGet(a) == At(a, "regGet") /\ Look(a, act[a].on \in redis.info, "regSet")

RegSet(a) ==
    /\ At(a, "regSet")
    /\ redis' = [redis EXCEPT !.info = @ \union {act[a].on}]
    /\ Goto(a, "busyPaused")

RegIncr(a) ==
    /\ At(a, "regIncr")
    /\ redis' = [redis EXCEPT !.refCount = @ + 1]
    /\ Goto(a, "ready")

\* The outcome is read, changed and written back: the SET creates the key
\* again if it was deleted in between.
GetOutcome(a) ==
    /\ At(a, "getOutcome")
    /\ Get(a, IF act[a].on \in redis.info THEN "setOutcome" ELSE "ready")

SetOutcome(a) ==
    /\ At(a, "setOutcome")
    /\ redis' = [redis EXCEPT !.info = @ \union {act[a].on}]
    /\ Goto(a, "ready")

EndpointStep(a) ==
    RegGet(a) \/ RegSet(a) \/ RegIncr(a) \/ GetOutcome(a) \/ SetOutcome(a)

-----------------------------------------------------------------------------
(* The guardian's CleanupBusyCount, which counts the active keys only, and *)
(* the status endpoint's SyncSystemState.                                  *)

KeysInfo(a) ==
    /\ At(a, "keysInfo")
    /\ redis' = redis
    /\ act' = [act EXCEPT ![a].count = Cardinality(redis.info),
                          ![a].pc = "getCount"]

GetCount(a) ==
    /\ At(a, "getCount")
    /\ LET n == act[a].count IN
       Get(a, CASE n = redis.refCount              -> "ready"
                [] n > 0 /\ redis.refCount = 0     -> "busyPaused"
                [] n = 0 /\ redis.refCount > 0     -> "idleState"
                [] OTHER                           -> "setCount")

SetCount(a) ==
    /\ At(a, "setCount")
    /\ redis' = [redis EXCEPT !.refCount = act[a].count]
    /\ Goto(a, "ready")

\* A paused system is shown as paused whatever else goes on.
SyncPaused(a) ==
    /\ At(a, "syncPaused")
    /\ Get(a, IF redis.isPaused THEN "syncState" ELSE "syncLock")

SyncState(a) ==
    /\ At(a, "syncState")
    /\ Get(a, IF redis.state = "paused" THEN "ready" ELSE "syncSetPaused")

SyncSetPaused(a) ==
    /\ At(a, "syncSetPaused")
    /\ redis' = [redis EXCEPT !.state = "paused"]
    /\ Goto(a, "ready")

\* Lock, active keys, queued keys: busy at the first hit.
SyncLock(a) ==
    /\ At(a, "syncLock")
    /\ LET busy == redis.holder \notin {NoHolder, PAUSED}
       IN  Look(a, busy, IF busy THEN "syncLast" ELSE "syncInfo")

SyncInfo(a) ==
    /\ At(a, "syncInfo")
    /\ LET busy == redis.info # {}
       IN  Look(a, busy, IF busy THEN "syncLast" ELSE "syncQueued")

SyncQueued(a) == At(a, "syncQueued") /\ Look(a, redis.queued # {}, "syncLast")

\* Variant: a missing busy state is repaired, a stale one is not.
SyncLastBusyOnly(a) ==
    /\ At(a, "syncLast")
    /\ Get(a, IF act[a].seen /\ redis.state # "busy" THEN "busyPaused" ELSE "ready")

SyncLast(a) ==
    /\ At(a, "syncLast")
    /\ Get(a, CASE act[a].seen /\ redis.state # "busy"  -> "busyPaused"
                [] ~act[a].seen /\ redis.state # "idle" -> "idleState"
                [] OTHER                                -> "ready")

RepairStep(a) ==
    \/ KeysInfo(a) \/ GetCount(a) \/ SetCount(a)
    \/ SyncPaused(a) \/ SyncState(a) \/ SyncSetPaused(a)
    \/ SyncLock(a) \/ SyncInfo(a) \/ SyncQueued(a) \/ SyncLast(a)

-----------------------------------------------------------------------------
(* Pause and resume, as far as the registry reads what they write.         *)

PauseFlag(a) ==
    /\ At(a, "pauseFlag")
    /\ redis' = [redis EXCEPT !.isPaused = TRUE]
    /\ Goto(a, "pauseState")

PauseState(a) ==
    /\ At(a, "pauseState")
    /\ redis' = [redis EXCEPT !.state = "paused"]
    /\ Goto(a, "pauseLock")

PauseLock(a) ==
    /\ At(a, "pauseLock")
    /\ redis' = [redis EXCEPT !.holder = PAUSED]
    /\ Goto(a, "ready")

ResumeFlag(a) ==
    /\ At(a, "resumeFlag")
    /\ redis' = [redis EXCEPT !.isPaused = FALSE]
    /\ Goto(a, "resumeRead")

ResumeRead(a) ==
    /\ At(a, "resumeRead")
    /\ Get(a, IF redis.holder = PAUSED THEN "resumeDel" ELSE "ready")

ResumeDel(a) ==
    /\ At(a, "resumeDel")
    /\ redis' = [redis EXCEPT !.holder = NoHolder]
    /\ Goto(a, "ready")

PauseStep(a) ==
    \/ PauseFlag(a) \/ PauseState(a) \/ PauseLock(a)
    \/ ResumeFlag(a) \/ ResumeRead(a) \/ ResumeDel(a)

-----------------------------------------------------------------------------
(* What goes wrong in the code itself.  An id has two operations at once     *)
(* ("shared", noted when the second begins).  Of the next step of a: an id   *)
(* that is not there is unregistered, and counted down ("unknown"); the      *)
(* cleanup writes back a number that has been outrun, or an unregistration   *)
(* that found the count used up resets one that has gone up since            *)
(* ("lowered"); a resume takes the flag away while the state says paused, or *)
(* another goroutine has yet to write that ("crossed").                      *)

WritesPaused(b) ==
    \/ act[b].pc \in {"pauseState", "syncState", "syncSetPaused"}
    \/ At(b, "idleSet") /\ act[b].seen

Slips(a) ==
    {s \in SlipKinds :
        \/ /\ s = "unknown"
           /\ At(a, "unregDel") /\ act[a].on \notin redis.info
        \/ /\ s = "lowered"
           /\ \/ At(a, "setCount") /\ act[a].count < redis.refCount
              \/ At(a, "resetCount") /\ redis.refCount > 0
        \/ /\ s = "crossed"
           /\ At(a, "resumeFlag")
           /\ redis.state = "paused" \/ \E b \in Actors : WritesPaused(b)}

Step(a) ==
    /\ \/ TransitionStep(a) \/ ReportStep(a) \/ ClearStep(a) \/ EndpointStep(a)
       \/ RepairStep(a) \/ PauseStep(a)
    /\ slips' = slips \union Slips(a)
    /\ UNCHANGED <<started, dead, moves>>

\* The cognitive lock changes hands (CognitiveLock has the rules).
MoveLock ==
    /\ moves < MaxMoves
    /\ moves' = moves + 1
    /\ \E h \in (Procs \ External) \union {NoHolder, Other} :
          redis' = [redis EXCEPT !.holder = h]
    /\ UNCHANGED <<act, started, dead, slips>>

\* An external service dies without unregistering; its requests in flight
\* are served to the end.
Die(p) ==
    /\ p \in External \ dead
    /\ dead' = dead \union {p}
    /\ UNCHANGED <<redis, act, started, moves, slips>>

Quiet == \A a \in Actors : At(a, "ready")

\* Between operations the service may sit and wait.
Rest == Quiet /\ UNCHANGED vars

Next ==
    \/ \E a \in Actors : Step(a)
    \/ \E a \in Actors : \E o \in Performs[a], p \in Serves[a] : Begin(a, o, p)
    \/ \E p \in External : Die(p)
    \/ MoveLock
    \/ Rest

Spec == Init /\ [][Next]_vars

\* Operations that have started run on, and the status loop keeps syncing.
FairSpec ==
    /\ Spec
    /\ \A a \in Actors :
          /\ WF_vars(Step(a))
          /\ WF_vars(\E p \in Serves[a] : Begin(a, "sync", p))

-----------------------------------------------------------------------------
(* Properties.                                                             *)

\* An HTTP registration writes the key of a new id before it counts it.
Registering(a) ==
    /\ act[a].op = "register" /\ ~act[a].seen
    /\ act[a].pc \in {"busyPaused", "busyState", "busySet", "regIncr"}
BeingAdded == {act[a].on : a \in {b \in Actors : Registering(b)}}

\* Reporting, clearing, outcomes, reaping and HTTP registrations of different
\* ids never drive the reference count below the known processes (those that a
\* registration is about to count aside), whatever they overlap with.  The
\* code does lose count, and the property says so, once two operations work on
\* one id, an unknown id is unregistered, or a cleanup or an unregistration
\* overwrites a count that has gone up.  The count may lie above: ReportProcess
\* drops the other key before it asks whether the process is known.
CountCoversKnown ==
    slips \cap Uncounted = {} => redis.refCount >= Cardinality(Known \ BeingAdded)

\* A decrement that goes below zero is always made good: a negative count is
\* seen only between a DECR and the SET 0 of the same operation.
CountNotNegative == redis.refCount < 0 => \E a \in Actors : At(a, "resetCount")

Expected ==
    IF redis.isPaused THEN "paused"
    ELSE IF redis.holder \notin {NoHolder, PAUSED} \/ Known # {} THEN "busy"
    ELSE "idle"

\* SyncSystemState "enforces the correct busy/idle state": system:state is right
\* in the end and stays right.  One thing it does not heal: a pause, or a sync or
\* transition that saw one, which a resume overtakes writes "paused" after the
\* flag has gone; TransitionToIdle then leaves it there until something is busy.
SyncHeals ==
    <>[](\/ redis.state = Expected
         \/ "crossed" \in slips /\ redis.state = "paused" /\ Expected = "idle")

=============================================================================
