---------------------------- MODULE CognitiveLock ----------------------------
(***************************************************************************)
(* The global cognitive lock of utils/process.go: one Redis key,           *)
(* system:cognitive_lock, which the background agents, the context         *)
(* summariser and the message handlers take around a model call, and which *)
(* the pause and resume endpoints of endpoints/agent.go write as well.     *)
(*                                                                         *)
(* The atomic step is one Redis command: AcquireCognitiveLock and          *)
(* ReleaseCognitiveLock are several commands each and nothing makes them   *)
(* a transaction.  A "task" is one goroutine running one locked section.   *)
(* The busy/idle bookkeeping of ReportProcess and ClearProcess appears     *)
(* here only as far as the pause endpoint reads it (sysState);             *)
(* ProcessRegistry has it in full.                                         *)
(***************************************************************************)
EXTENDS Integers, FiniteSets

CONSTANTS
    Tasks,          \* goroutines that run a locked section
    Names,          \* the agent names used as lock values
    NameOf,         \* NameOf[t]: the name task t passes to Acquire and Release
    KindOf,         \* KindOf[t]: where t reports and clears its process
    Bypass,         \* tasks whose processID is a test process
    NoLock,         \* the key does not exist
    PAUSED,         \* the value the pause endpoint writes
    Disturbances,   \* what may happen besides the tasks' own steps
    MaxRuns,        \* bound: how often each task runs its section
    MaxPauses       \* bound: how many pause and resume requests are served

Kinds == {"agent", "summary", "handler"}

ASSUME LockAssumption ==
    /\ NameOf \in [Tasks -> Names]
    /\ KindOf \in [Tasks -> Kinds]
    /\ Bypass \subseteq Tasks
    /\ NoLock \notin Names /\ PAUSED \notin Names /\ NoLock # PAUSED
    /\ Disturbances \subseteq {"pause", "expiry", "cancel", "panic", "crash"}
    /\ MaxRuns \in Nat /\ MaxPauses \in Nat

VARIABLES
    lock,       \* the value of system:cognitive_lock
    volatile,   \* whether that key carries a TTL
    pc,         \* pc[t]: the next command of task t
    cancelled,  \* tasks whose context is done
    isPaused,   \* system:is_paused
    sysState,   \* system:state
    reported,   \* tasks whose process is known to the registry
    opPc,       \* the next command of the pause or resume handler
    runs,       \* runs[t]: sections task t has started
    requests,   \* pause and resume requests served
    broken      \* history: a context was done, a section panicked, or the
                \* service stopped

vars == <<lock, volatile, pc, cancelled, isPaused, sysState, reported, opPc,
          runs, requests, broken>>

pauseVars == <<isPaused, opPc, requests>>
procVars  == <<sysState, reported>>
lockVars  == <<lock, volatile>>

TaskPc == {"idle", "announce", "reentry", "poll", "override", "claim",
           "queue", "held", "work", "release", "checkPause", "restore",
           "free", "settle"}
OpPc == {"idle", "pauseFlag", "pauseState", "pauseLock",
         "resumeFlag", "resumeRead", "resumeFree"}

TypeOK ==
    /\ lock \in Names \union {NoLock, PAUSED}
    /\ volatile \in BOOLEAN
    /\ pc \in [Tasks -> TaskPc]
    /\ cancelled \subseteq Tasks
    /\ isPaused \in BOOLEAN
    /\ sysState \in {"idle", "busy", "paused"}
    /\ reported \subseteq Tasks
    /\ opPc \in OpPc
    /\ runs \in [Tasks -> Nat]
    /\ requests \in Nat
    /\ broken \in BOOLEAN

Init ==
    /\ lock = NoLock
    /\ volatile = FALSE
    /\ pc = [t \in Tasks |-> "idle"]
    /\ cancelled = {}
    /\ isPaused = FALSE
    /\ sysState = "idle"
    /\ reported = {}
    /\ opPc = "idle"
    /\ runs = [t \in Tasks |-> 0]
    /\ requests = 0
    /\ broken = FALSE

-----------------------------------------------------------------------------
(* What the other Redis keys do.                                           *)

Goto(t, label) == pc' = [pc EXCEPT ![t] = label]

\* Variants of a definition under a name of their own are slips that the
\* properties are there to notice; no action uses them.
SetLockWithoutTTL(n) == lock' = n /\ volatile' = FALSE
DelLockBySettingEmpty == lock' = "" /\ volatile' = FALSE

\* SET with the 60 minute TTL, SET without one, and DEL.
SetLock(n)     == lock' = n /\ volatile' = TRUE
SetMarker      == lock' = PAUSED /\ volatile' = FALSE
DelLock        == lock' = NoLock /\ volatile' = FALSE

\* ReportProcess: the process becomes known and, unless the system is
\* paused, the state becomes busy.  With a done context every command fails.
Report(t) ==
    IF t \in cancelled
    THEN UNCHANGED procVars
    ELSE /\ reported' = reported \union {t}
         /\ sysState' = IF isPaused THEN sysState ELSE "busy"

\* ClearProcess: the last process to leave makes the state idle (or paused).
Clear(t) ==
    /\ reported' = reported \ {t}
    /\ sysState' = IF t \in reported /\ reported' = {} /\ sysState = "busy"
                   THEN IF isPaused THEN "paused" ELSE "idle"
                   ELSE sysState

-----------------------------------------------------------------------------
(* A task: one locked section.                                             *)

\* The handler or agent worker reaches its locked section.  Message handlers
\* have reported "Thinking..." long before they ask for the lock.
Start(t) ==
    /\ pc[t] = "idle"
    /\ runs[t] < MaxRuns
    /\ runs' = [runs EXCEPT ![t] = @ + 1]
    /\ Goto(t, IF KindOf[t] = "handler" THEN "announce" ELSE "reentry")
    /\ cancelled' = cancelled \ {t}
    /\ UNCHANGED <<lockVars, pauseVars, procVars, broken>>

Announce(t) ==
    /\ pc[t] = "announce"
    /\ Report(t)
    /\ Goto(t, "reentry")
    /\ UNCHANGED <<lockVars, cancelled, pauseVars, runs, broken>>

\* Variant: any holder counts as a re-entrant call.
CheckReentryByAnyName(t) ==
    /\ pc[t] = "reentry"
    /\ Goto(t, IF t \in Bypass \/ (t \notin cancelled /\ lock \in Names)
               THEN "held" ELSE "poll")
    /\ UNCHANGED <<lockVars, cancelled, pauseVars, procVars, runs, broken>>

\* Test processes return at once; a holder of the same name counts as a
\* re-entrant call.  With a done context the GET fails and returns "".
CheckReentry(t) ==
    /\ pc[t] = "reentry"
    /\ Goto(t, IF t \in Bypass \/ (t \notin cancelled /\ lock = NameOf[t])
               THEN "held" ELSE "poll")
    /\ UNCHANGED <<lockVars, cancelled, pauseVars, procVars, runs, broken>>

\* Variant: a waiter does not override the marker.
PollWithoutOverride(t) ==
    /\ pc[t] = "poll"
    /\ Goto(t, IF t \in cancelled THEN "held" ELSE "claim")
    /\ UNCHANGED <<lockVars, cancelled, pauseVars, procVars, runs, broken>>

\* The top of the loop: a done context returns without the lock and without
\* telling the caller; otherwise GET decides between override and SETNX.
Poll(t) ==
    /\ pc[t] = "poll"
    /\ Goto(t, IF t \in cancelled THEN "held"
               ELSE IF lock = PAUSED THEN "override" ELSE "claim")
    /\ UNCHANGED <<lockVars, cancelled, pauseVars, procVars, runs, broken>>

\* The SET that takes the lock from PAUSED, whatever the key holds by now.
Override(t) ==
    /\ pc[t] = "override"
    /\ IF t \in cancelled THEN UNCHANGED lockVars ELSE SetLock(NameOf[t])
    /\ Goto(t, "held")
    /\ UNCHANGED <<cancelled, pauseVars, procVars, runs, broken>>

\* Variant: SET in place of SETNX.
ClaimWithoutNX(t) ==
    /\ pc[t] = "claim"
    /\ IF t \notin cancelled
       THEN SetLock(NameOf[t]) /\ Goto(t, "held")
       ELSE UNCHANGED lockVars /\ Goto(t, "queue")
    /\ UNCHANGED <<cancelled, pauseVars, procVars, runs, broken>>

\* SETNX succeeds only on a missing key.
Claim(t) ==
    /\ pc[t] = "claim"
    /\ IF t \notin cancelled /\ lock = NoLock
       THEN SetLock(NameOf[t]) /\ Goto(t, "held")
       ELSE UNCHANGED lockVars /\ Goto(t, "queue")
    /\ UNCHANGED <<cancelled, pauseVars, procVars, runs, broken>>

\* The first failure reports the process as Queued; then sleep and retry.
Queue(t) ==
    /\ pc[t] = "queue"
    /\ Report(t)
    /\ Goto(t, "poll")
    /\ UNCHANGED <<lockVars, cancelled, pauseVars, runs, broken>>

\* The caller reports the process it now runs.
BeginWork(t) ==
    /\ pc[t] = "held"
    /\ IF KindOf[t] = "handler" THEN UNCHANGED procVars ELSE Report(t)
    /\ Goto(t, "work")
    /\ UNCHANGED <<lockVars, cancelled, pauseVars, runs, broken>>

\* Variant: a return before the release.
EndWorkWithoutRelease(t) ==
    /\ pc[t] = "work"
    /\ IF KindOf[t] = "agent" THEN Clear(t) ELSE UNCHANGED procVars
    /\ Goto(t, "settle")
    /\ UNCHANGED <<lockVars, cancelled, pauseVars, runs, broken>>

\* Agents clear their process before the deferred release runs.
EndWork(t) ==
    /\ pc[t] = "work"
    /\ IF KindOf[t] = "agent" THEN Clear(t) ELSE UNCHANGED procVars
    /\ Goto(t, "release")
    /\ UNCHANGED <<lockVars, cancelled, pauseVars, runs, broken>>

\* Release, first command: GET the holder, compared by name.
CheckHolder(t) ==
    /\ pc[t] = "release"
    /\ Goto(t, IF t \notin cancelled /\ lock = NameOf[t]
               THEN "checkPause" ELSE "settle")
    /\ UNCHANGED <<lockVars, cancelled, pauseVars, procVars, runs, broken>>

\* Release, second command: GET system:is_paused (a failed GET reads FALSE).
CheckPaused(t) ==
    /\ pc[t] = "checkPause"
    /\ Goto(t, IF isPaused /\ t \notin cancelled THEN "restore" ELSE "free")
    /\ UNCHANGED <<lockVars, cancelled, pauseVars, procVars, runs, broken>>

\* Release, third command: SET "PAUSED" or DEL.
RestoreMarker(t) ==
    /\ pc[t] = "restore"
    /\ IF t \in cancelled THEN UNCHANGED lockVars ELSE SetMarker
    /\ Goto(t, "settle")
    /\ UNCHANGED <<cancelled, pauseVars, procVars, runs, broken>>

FreeLock(t) ==
    /\ pc[t] = "free"
    /\ IF t \in cancelled THEN UNCHANGED lockVars ELSE DelLock
    /\ Goto(t, "settle")
    /\ UNCHANGED <<cancelled, pauseVars, procVars, runs, broken>>

\* Summaries and handlers clear their process after the release (handlers
\* with a context of their own, so a done one does not stop them).
Settle(t) ==
    /\ pc[t] = "settle"
    /\ IF KindOf[t] = "agent" THEN UNCHANGED procVars ELSE Clear(t)
    /\ Goto(t, "idle")
    /\ UNCHANGED <<lockVars, cancelled, pauseVars, runs, broken>>

Step(t) ==
    \/ Announce(t) \/ CheckReentry(t) \/ Poll(t) \/ Override(t) \/ Claim(t)
    \/ Queue(t) \/ BeginWork(t) \/ EndWork(t) \/ CheckHolder(t)
    \/ CheckPaused(t) \/ RestoreMarker(t) \/ FreeLock(t) \/ Settle(t)

-----------------------------------------------------------------------------
(* The pause and resume endpoints.                                         *)

opFrame == <<pc, cancelled, reported, runs, broken>>

\* A pause request is refused (403) unless the state reads idle.
RequestPause ==
    /\ "pause" \in Disturbances
    /\ opPc = "idle"
    /\ requests < MaxPauses
    /\ sysState = "idle"
    /\ opPc' = "pauseFlag"
    /\ requests' = requests + 1
    /\ UNCHANGED <<opFrame, lockVars, isPaused, sysState>>

PauseFlag ==
    /\ opPc = "pauseFlag"
    /\ isPaused' = TRUE
    /\ opPc' = "pauseState"
    /\ UNCHANGED <<opFrame, lockVars, sysState, requests>>

PauseState ==
    /\ opPc = "pauseState"
    /\ sysState' = "paused"
    /\ opPc' = "pauseLock"
    /\ UNCHANGED <<opFrame, lockVars, isPaused, requests>>

\* "Set Cognitive Lock to PAUSED (forcibly)".
PauseLock ==
    /\ opPc = "pauseLock"
    /\ SetMarker
    /\ opPc' = "idle"
    /\ UNCHANGED <<opFrame, isPaused, sysState, requests>>

\* A resume request is never refused: its first command resets the state.
RequestResume ==
    /\ "pause" \in Disturbances
    /\ opPc = "idle"
    /\ requests < MaxPauses
    /\ sysState' = "idle"
    /\ opPc' = "resumeFlag"
    /\ requests' = requests + 1
    /\ UNCHANGED <<opFrame, lockVars, isPaused>>

ResumeFlag ==
    /\ opPc = "resumeFlag"
    /\ isPaused' = FALSE
    /\ opPc' = "resumeRead"
    /\ UNCHANGED <<opFrame, lockVars, sysState, requests>>

ResumeRead ==
    /\ opPc = "resumeRead"
    /\ opPc' = IF lock = PAUSED THEN "resumeFree" ELSE "idle"
    /\ UNCHANGED <<opFrame, lockVars, isPaused, sysState, requests>>

ResumeFree ==
    /\ opPc = "resumeFree"
    /\ DelLock
    /\ opPc' = "idle"
    /\ UNCHANGED <<opFrame, isPaused, sysState, requests>>

Operator ==
    \/ PauseFlag \/ PauseState \/ PauseLock
    \/ ResumeFlag \/ ResumeRead \/ ResumeFree

-----------------------------------------------------------------------------
(* What the environment does.                                              *)

\* The safety timeout: Redis drops the key once its TTL has run out.
Expire ==
    /\ "expiry" \in Disturbances
    /\ volatile
    /\ DelLock
    /\ UNCHANGED <<pc, cancelled, pauseVars, procVars, runs, broken>>

\* The handler's timeout ends its context; the goroutine keeps running.
Cancel(t) ==
    /\ "cancel" \in Disturbances
    /\ KindOf[t] = "handler"
    /\ pc[t] # "idle"
    /\ cancelled' = cancelled \union {t}
    /\ broken' = TRUE
    /\ UNCHANGED <<lockVars, pc, pauseVars, procVars, runs>>

\* A handler panics in its section: the executor recovers, the deferred
\* ClearProcess runs, the release (not deferred in the handlers) does not.
Panic(t) ==
    /\ "panic" \in Disturbances
    /\ KindOf[t] = "handler"
    /\ pc[t] = "work"
    /\ Goto(t, "settle")
    /\ broken' = TRUE
    /\ UNCHANGED <<lockVars, cancelled, pauseVars, procVars, runs>>

\* The service stops and restarts: goroutines vanish, startup cleanup resets
\* the registry and the state, and neither the lock nor is_paused is touched.
Crash ==
    /\ "crash" \in Disturbances
    /\ broken' = TRUE
    /\ pc' = [t \in Tasks |-> "idle"]
    /\ cancelled' = {}
    /\ opPc' = "idle"
    /\ reported' = {}
    /\ sysState' = "idle"
    /\ UNCHANGED <<lockVars, isPaused, runs, requests>>

Finished ==
    /\ \A t \in Tasks : pc[t] = "idle" /\ runs[t] = MaxRuns
    /\ opPc = "idle"
    /\ UNCHANGED vars

Next ==
    \/ \E t \in Tasks : Start(t) \/ Step(t) \/ Cancel(t) \/ Panic(t)
    \/ RequestPause \/ RequestResume \/ Operator
    \/ Expire \/ Crash
    \/ Finished

Spec == Init /\ [][Next]_vars

\* Goroutines and request handlers run on, and a key with a TTL expires.
FairSpec ==
    /\ Spec
    /\ \A t \in Tasks : WF_vars(Step(t))
    /\ WF_vars(Operator)
    /\ WF_vars(Expire)

-----------------------------------------------------------------------------
(* Properties.                                                             *)

Heavy(t) == t \in Tasks \ Bypass /\ pc[t] \in {"held", "work"}

\* "Only one heavy agent protocol runs at a time" (utils/process.go:17): two
\* tasks that had to take the lock are never both between acquire and release.
MutualExclusion ==
    \A s, t \in Tasks : Heavy(s) /\ Heavy(t) => s = t

\* ... and seen as a resource, the heavy section is entered only while nobody
\* is inside: taking the lock is an exclusive use of the model.
Use == INSTANCE ExclusiveUse WITH Users  <- Tasks \ Bypass,
                                  inside <- {t \in Tasks : Heavy(t)}
UsesExclusively == Use!Spec

\* The lock never outlives its owners: while it carries an agent's name, some
\* task of that name has acquired it and has not finished releasing it, unless
\* a context was done, a section panicked or the service stopped.
NoOrphanLock ==
    ~broken /\ lock \in Names =>
        \E t \in Tasks : /\ NameOf[t] = lock
                         /\ pc[t] \in {"held", "work", "release", "checkPause",
                                       "restore", "free"}

Waits(t) == pc[t] \in {"reentry", "poll", "override", "claim", "queue"}

\* A task that asks for the lock gets on in the end (it is let into its section,
\* or its service dies), whatever pause and resume requests come in between and
\* whatever became of the task that held the lock.
EveryWaiterServed == \A t \in Tasks : Waits(t) ~> ~Waits(t)

\* The safety timeout works: no agent's name stays on the lock for ever, even
\* when its task was cancelled, panicked or died with the service.
LockComesFree == \A n \in Names : lock = n ~> lock # n

=============================================================================
