------------------------------ MODULE IngestLock ------------------------------
(***************************************************************************)
(* The event ingestion lock (endpoints/lock.go and the head of             *)
(* CreateEventHandler in endpoints/events.go).  While the lock is on,      *)
(* events of ordinary services are answered 202 and pushed to the list     *)
(* events:queue:pending; each unlock starts a goroutine that pops them and *)
(* posts them to POST /events again, where they meet the lock once more.   *)
(*                                                                         *)
(* What the handler does with an event it lets pass (EventStore, Executor) *)
(* is one step here: the event is stored, or refused as malformed.         *)
(***************************************************************************)
EXTENDS Naturals, Sequences, FiniteSets

CONSTANTS
    Events,     \* event requests; a client posts each once
    Privileged, \* requests of dex-test-service and dex-cli, or with a test_id
    Malformed,  \* requests that validation refuses with 400
    Drains,     \* goroutines that run processPendingEvents
    NoEvent,
    Faults,     \* what may go wrong: "redis", "http", "crash"
    MaxLocks,   \* bound: lock requests
    MaxFaults   \* bound: things that go wrong

ASSUME IngestAssumption ==
    /\ Privileged \subseteq Events /\ Malformed \subseteq Events
    /\ NoEvent \notin Events
    /\ Faults \subseteq {"redis", "http", "crash"}
    /\ MaxLocks \in Nat /\ MaxFaults \in Nat

VARIABLES
    isLocked,   \* the flag, in memory
    pending,    \* the list events:queue:pending
    pc,         \* pc[e]: the request that carries e
    answer,     \* answer[e]: what the client of e was told
    drain,      \* drain[d]: a goroutine and the event it has popped
    stored,     \* events stored, in that order
    pushed,     \* history: events in the order of their first push
    locks,      \* lock requests so far
    faults      \* things that went wrong so far

vars == <<isLocked, pending, pc, answer, drain, stored, pushed, locks, faults>>

Goroutine == [pc: {"off", "pop", "post", "wait"}, ev: Events \union {NoEvent}]
Off       == [pc |-> "off", ev |-> NoEvent]
Popping   == [pc |-> "pop", ev |-> NoEvent]

TypeOK ==
    /\ isLocked \in BOOLEAN
    /\ pending \in Seq(Events)
    /\ pc \in [Events -> {"unsent", "posted", "push", "store", "done"}]
    /\ answer \in [Events -> {"none", "created", "queued", "error"}]
    /\ drain \in [Drains -> Goroutine]
    /\ stored \in Seq(Events)
    /\ pushed \in Seq(Events)
    /\ locks \in Nat /\ faults \in Nat

Init ==
    /\ isLocked = FALSE
    /\ pending = <<>>
    /\ pc = [e \in Events |-> "unsent"]
    /\ answer = [e \in Events |-> "none"]
    /\ drain = [d \in Drains |-> Off]
    /\ stored = <<>>
    /\ pushed = <<>>
    /\ locks = 0 /\ faults = 0

\* Redis, the loopback connection or the service fails.
GoesWrong(kind) ==
    /\ kind \in Faults /\ faults < MaxFaults
    /\ faults' = faults + 1

-----------------------------------------------------------------------------
(* Requests that carry an event.                                           *)

Resubmitted(e) == \E d \in Drains : drain[d].ev = e

\* The goroutine that resubmits an event ignores the status it gets and goes
\* on to the next one; only a client sees the answer.
Reply(e, status) ==
    /\ pc' = [pc EXCEPT ![e] = "done"]
    /\ answer' = IF Resubmitted(e) THEN answer
                                   ELSE [answer EXCEPT ![e] = status]
    /\ drain' = [d \in Drains |-> IF drain[d].ev = e THEN Popping ELSE drain[d]]

Submit(e) ==
    /\ pc[e] = "unsent"
    /\ pc' = [pc EXCEPT ![e] = "posted"]
    /\ UNCHANGED <<isLocked, pending, answer, drain, stored, pushed, locks, faults>>

\* Variants of a definition under a name of their own are slips that the
\* properties are there to notice; no action uses them.  Here: an event also
\* queues up behind the ones that wait already.
CheckBehindOthers(e) ==
    /\ pc[e] = "posted"
    /\ pc' = [pc EXCEPT ![e] = IF (isLocked \/ pending # <<>>) /\ e \notin Privileged
                               THEN "push" ELSE "store"]
    /\ UNCHANGED <<isLocked, pending, answer, drain, stored, pushed, locks, faults>>

\* IsEventLocked reads the flag under the read lock and lets go of it.
Check(e) ==
    /\ pc[e] = "posted"
    /\ pc' = [pc EXCEPT ![e] = IF isLocked /\ e \notin Privileged
                               THEN "push" ELSE "store"]
    /\ UNCHANGED <<isLocked, pending, answer, drain, stored, pushed, locks, faults>>

\* Variant: the flag is read again, and an event is not pushed once it is off.
PushIfStillLocked(e) ==
    /\ pc[e] = "push"
    /\ pending' = IF isLocked THEN Append(pending, e) ELSE pending
    /\ pushed' = IF Resubmitted(e) THEN pushed ELSE Append(pushed, e)
    /\ Reply(e, "queued")
    /\ UNCHANGED <<isLocked, stored, locks, faults>>

\* RPUSH, whatever the flag is by now.
Push(e) ==
    /\ pc[e] = "push"
    /\ pending' = Append(pending, e)
    /\ pushed' = IF Resubmitted(e) THEN pushed ELSE Append(pushed, e)
    /\ Reply(e, "queued")
    /\ UNCHANGED <<isLocked, stored, locks, faults>>

Store(e) ==
    /\ pc[e] = "store"
    /\ e \notin Malformed
    /\ stored' = Append(stored, e)
    /\ Reply(e, "created")
    /\ UNCHANGED <<isLocked, pending, pushed, locks, faults>>

\* 400 for a malformed event, 503 or 500 when Redis fails.
Refuse(e) ==
    /\ \/ pc[e] = "store" /\ e \in Malformed /\ UNCHANGED faults
       \/ pc[e] \in {"push", "store"} /\ GoesWrong("redis")
    /\ Reply(e, "error")
    /\ UNCHANGED <<isLocked, pending, stored, pushed, locks>>

-----------------------------------------------------------------------------
(* SystemLockHandler.                                                      *)

Lock ==
    /\ locks < MaxLocks
    /\ locks' = locks + 1
    /\ isLocked' = TRUE
    /\ UNCHANGED <<pending, pc, answer, drain, stored, pushed, faults>>

\* Only an unlock that finds the lock on starts a goroutine.
Unlock(d) ==
    /\ isLocked
    /\ isLocked' = FALSE
    /\ drain[d] = Off
    /\ drain' = [drain EXCEPT ![d] = Popping]
    /\ UNCHANGED <<pending, pc, answer, stored, pushed, locks, faults>>

-----------------------------------------------------------------------------
(* processPendingEvents.                                                   *)

\* Variants: the whole list at once, LINDEX in place of LPOP, RPOP.
PopBatch(d) ==
    /\ drain[d].pc = "pop"
    /\ pending # <<>>
    /\ pending' = <<>>
    /\ drain' = [drain EXCEPT ![d] = [pc |-> "post", ev |-> pending]]
    /\ UNCHANGED <<isLocked, pc, answer, stored, pushed, locks, faults>>

PopWithoutRemoving(d) ==
    /\ drain[d].pc = "pop"
    /\ pending # <<>>
    /\ drain' = [drain EXCEPT ![d] = [pc |-> "post", ev |-> Head(pending)]]
    /\ UNCHANGED <<isLocked, pending, pc, answer, stored, pushed, locks, faults>>

PopLast(d) ==
    /\ drain[d].pc = "pop"
    /\ pending # <<>>
    /\ pending' = SubSeq(pending, 1, Len(pending) - 1)
    /\ drain' = [drain EXCEPT ![d] = [pc |-> "post", ev |-> pending[Len(pending)]]]
    /\ UNCHANGED <<isLocked, pc, answer, stored, pushed, locks, faults>>

Pop(d) ==
    /\ drain[d].pc = "pop"
    /\ pending # <<>>
    /\ pending' = Tail(pending)
    /\ drain' = [drain EXCEPT ![d] = [pc |-> "post", ev |-> Head(pending)]]
    /\ UNCHANGED <<isLocked, pc, answer, stored, pushed, locks, faults>>

\* Nothing left, or LPOP failed: the goroutine ends.
Stop(d) ==
    /\ drain[d].pc = "pop"
    /\ \/ pending = <<>> /\ UNCHANGED faults
       \/ GoesWrong("redis")
    /\ drain' = [drain EXCEPT ![d] = Off]
    /\ UNCHANGED <<isLocked, pending, pc, answer, stored, pushed, locks>>

Post(d) ==
    /\ drain[d].pc = "post"
    /\ pc' = [pc EXCEPT ![drain[d].ev] = "posted"]
    /\ drain' = [drain EXCEPT ![d].pc = "wait"]
    /\ UNCHANGED <<isLocked, pending, answer, stored, pushed, locks, faults>>

\* "Push back? Maybe lost.  For now log it."
PostFails(d) ==
    /\ drain[d].pc = "post"
    /\ GoesWrong("http")
    /\ drain' = [drain EXCEPT ![d] = Popping]
    /\ UNCHANGED <<isLocked, pending, pc, answer, stored, pushed, locks>>

-----------------------------------------------------------------------------

\* The flag, the goroutines and the requests in flight are gone; the list is
\* in Redis and stays.  A restart unlocks and drains nothing.
Crash ==
    /\ GoesWrong("crash")
    /\ isLocked' = FALSE
    /\ drain' = [d \in Drains |-> Off]
    /\ pc' = [e \in Events |-> IF pc[e] = "unsent" THEN "unsent" ELSE "done"]
    /\ answer' = [e \in Events |-> IF answer[e] = "none" /\ pc[e] # "unsent"
                                   THEN "error" ELSE answer[e]]
    /\ UNCHANGED <<pending, stored, pushed, locks>>

Quiet ==
    /\ \A e \in Events : pc[e] \in {"unsent", "done"}
    /\ \A d \in Drains : drain[d] = Off

Rest == Quiet /\ UNCHANGED vars

Request(e) == Check(e) \/ Push(e) \/ Store(e) \/ Refuse(e)
Drain(d)   == Pop(d) \/ Stop(d) \/ Post(d) \/ PostFails(d)

Next ==
    \/ \E e \in Events : Submit(e) \/ Request(e)
    \/ Lock
    \/ \E d \in Drains : Unlock(d) \/ Drain(d)
    \/ Crash
    \/ Rest

Spec == Init /\ [][Next]_vars

\* Handlers and goroutines run on; nobody has to submit, lock or unlock.
FairSpec ==
    /\ Spec
    /\ \A e \in Events : WF_vars(Request(e))
    /\ \A d \in Drains : WF_vars(Drain(d))

-----------------------------------------------------------------------------
(* Properties.                                                             *)

NoRepeat(s)  == \A i, j \in 1 .. Len(s) : s[i] = s[j] => i = j
Occurs(e, s) == \E i \in 1 .. Len(s) : s[i] = e
Before(e, f, s) == \E i, j \in 1 .. Len(s) : i < j /\ s[i] = e /\ s[j] = f

\* An event is never in two places: waiting, in the hands of a goroutine, or
\* stored; nor is it twice in one of them.  So however often it is queued,
\* popped and queued again, by one goroutine or by several at once, it is
\* stored at most once.
OnePlace ==
    /\ NoRepeat(stored) /\ NoRepeat(pending)
    /\ \A c, d \in Drains : drain[c].ev = drain[d].ev /\ drain[c].ev # NoEvent => c = d
    /\ \A e \in Events :
          /\ ~ (Occurs(e, pending) /\ Occurs(e, stored))
          /\ Resubmitted(e) => ~ (Occurs(e, pending) \/ Occurs(e, stored))

\* An event that was answered 202 "queued" is not lost as long as Redis, the
\* loopback connection and the service hold: it waits, is being resubmitted,
\* or is stored.
QueuedIsKept ==
    faults = 0 =>
    \A e \in Events \ Malformed :
        answer[e] = "queued" =>
            Occurs(e, pending) \/ Resubmitted(e) \/ Occurs(e, stored)

\* With a single lock session, and nothing going wrong, events are replayed in
\* the order they arrived: what was queued and is stored follows, in the store,
\* every sound event that was queued before it.
ReplayInOrder ==
    locks <= 1 /\ faults = 0 =>
        /\ \A e \in Events :
              answer[e] = "queued" /\ Occurs(e, stored) => Occurs(e, pushed)
        /\ \A e \in Events \ Malformed, f \in Events :
              Before(e, f, pushed) /\ Occurs(f, stored) => Before(e, f, stored)

\* 202 means "received but not processed immediately" (events.go:272): when
\* the lock is off and nobody is at work, nothing waits in the list.
NothingStranded == Quiet /\ ~isLocked => pending = <<>>

\* When the lock stays off, the goroutines come to an end: the list is not
\* fed by the very requests that empty it.
DrainsEnd == <>[](~isLocked) => <>[](\A d \in Drains : drain[d] = Off)

=============================================================================
