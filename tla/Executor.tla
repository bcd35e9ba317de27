------------------------------- MODULE Executor -------------------------------
(***************************************************************************)
(* The executor (handlers/executor.go) and the tail of CreateEventHandler  *)
(* (endpoints/events.go): an event is stored, every handler of its type is *)
(* queued as a job, and one worker runs the jobs one after the other.      *)
(*                                                                         *)
(* The service posts events to itself as well: the bot's reply and the     *)
(* signals extracted from a message.  Such a POST is one step here; a      *)
(* client's is a step for each thing it does.  What a job does while it    *)
(* runs is in MessageHandling.                                             *)
(***************************************************************************)
EXTENDS Naturals, Sequences, FiniteSets

CONSTANTS
    Messages,  \* messages of users
    Channels,
    Private,   \* the channels without a server: direct messages
    Capacity,  \* bound: the buffer of jobQueue (1000 in the code)
    MaxTime,   \* bound: the clock, in seconds
    NoJob

ASSUME ExecutorAssumption ==
    /\ Private \subseteq Channels
    /\ Capacity \in Nat /\ MaxTime \in Nat

VARIABLES
    now,             \* time.Now().Unix()
    born,            \* born[m]: the timestamp of a stored message, else 0
    at,              \* at[m]: the channel m is posted to
    sync,            \* messages posted with handler_mode "sync"
    request,         \* request[m]: the POST that carries m
    interruptionMap, \* per channel, the timestamp stored last
    jobQueue,        \* what is beyond Capacity is a sync sender that blocks
    running,         \* the job on the worker
    cut,             \* messages whose context is done
    outcome          \* outcome[m]: what became of the message

executorVars == <<now, born, at, sync, request, interruptionMap, jobQueue,
                  running, cut, outcome>>

\* The message handlers, the profiler, and the profiler on an own event.
Job     == [msg: Messages, handler: {"chat", "profile", "own"}]
Request == [pc: {"none", "mark", "send", "wait", "done"},
            todo: SUBSET {"chat", "profile"}, handler: {"chat", "profile", "none"}]

ASSUME JobAssumption == NoJob \notin Job

\* The requester of the job waits for its result.
FromSync(job) == job.msg \in sync /\ job.handler # "own"

\* "ended": the handler left without a reply and without an error, because the
\* system is busy, the message is to be deleted, ignored, played or built.
Outcomes == {"none", "answered", "ended", "failed", "claimed", "exited",
             "interrupted", "panicked", "dropped", "lost"}

ExecutorType ==
    /\ now \in Nat
    /\ born \in [Messages -> Nat]
    /\ at \in [Messages -> Channels]
    /\ sync \subseteq Messages
    /\ request \in [Messages -> Request]
    /\ interruptionMap \in [Channels -> Nat]
    /\ jobQueue \in Seq(Job)
    /\ \A i \in 1 .. Len(jobQueue) : i > Capacity => FromSync(jobQueue[i])
    /\ running \in Job \union {NoJob}
    /\ cut \subseteq Messages
    /\ outcome \in [Messages -> Outcomes]

ExecutorInit ==
    /\ now = 1
    /\ born = [m \in Messages |-> 0]
    /\ at \in [Messages -> Channels]
    /\ sync = {}
    /\ request = [m \in Messages |-> [pc |-> "none", todo |-> {}, handler |-> "none"]]
    /\ interruptionMap = [c \in Channels |-> 0]
    /\ jobQueue = <<>>
    /\ running = NoJob
    /\ cut = {}
    /\ outcome = [m \in Messages |-> "none"]

Tick ==
    /\ now < MaxTime
    /\ now' = now + 1
    /\ UNCHANGED <<born, at, sync, request, interruptionMap, jobQueue, running, cut, outcome>>

-----------------------------------------------------------------------------
(* The requests.                                                           *)

\* Both message handlers listen to a user's message, and the filter on
\* server_id lets one of them through; the profiler listens to all messages.
Handlers == {"chat", "profile"}

\* A client posts a message and waits for its handlers, or does not.  It is
\* stored and indexed by channel (EventStore has the commands).
Post(m) ==
    /\ request[m].pc = "none"
    /\ \/ sync' = sync \union {m}
       \/ sync' = sync
    /\ born' = [born EXCEPT ![m] = now]
    /\ request' = [request EXCEPT ![m] = [pc |-> "mark", todo |-> Handlers, handler |-> "none"]]
    /\ UNCHANGED <<now, at, interruptionMap, jobQueue, running, cut, outcome>>

\* ExecuteHandler, for one handler after the other in no fixed order: the
\* channel's mark becomes this event's timestamp, be it older or newer.
Mark(m) ==
    /\ request[m].pc = "mark"
    /\ interruptionMap' = [interruptionMap EXCEPT ![at[m]] = born[m]]
    /\ \E h \in request[m].todo :
          request' = [request EXCEPT ![m] = [pc |-> "send", todo |-> @.todo \ {h}, handler |-> h]]
    /\ UNCHANGED <<now, born, at, sync, jobQueue, running, cut, outcome>>

Room == Len(jobQueue) < Capacity

\* Variant: the queue grows.
QueuedAlways(j) == Append(jobQueue, j)

Queued(j) == IF Room THEN Append(jobQueue, j) ELSE jobQueue
NextHandler(r) == [r EXCEPT !.pc = IF r.todo = {} THEN "done" ELSE "mark", !.handler = "none"]

\* A sync sender waits for room and then for the result; an async one finds
\* room or gives up, and its client is told 201 all the same.
Send(m) ==
    LET job == [msg |-> m, handler |-> request[m].handler]
    IN  /\ request[m].pc = "send"
        /\ IF m \in sync
           THEN /\ jobQueue' = Append(jobQueue, job)
                /\ request' = [request EXCEPT ![m].pc = "wait"]
                /\ outcome' = outcome
           ELSE /\ jobQueue' = Queued(job)
                /\ request' = [request EXCEPT ![m] = NextHandler(@)]
                /\ outcome' = IF job.handler = "chat" /\ ~Room
                              THEN [outcome EXCEPT ![m] = "dropped"] ELSE outcome
        /\ UNCHANGED <<now, born, at, sync, interruptionMap, running, cut>>

\* An event of the service itself, in m's channel: stored, marked, and queued
\* for the profiler if there is room.
Echo(m) ==
    /\ interruptionMap' = [interruptionMap EXCEPT ![at[m]] = now]
    /\ jobQueue' = Queued([msg |-> m, handler |-> "own"])
    /\ UNCHANGED <<now, born, at, sync, cut>>

\* The client of a sync request hangs up, or the deadline of a running
\* message handler passes: the job's context is done.
CutOff(m) ==
    /\ m \notin cut
    /\ \/ m \in sync /\ request[m].pc = "wait"
       \/ running = [msg |-> m, handler |-> "chat"]
    /\ cut' = cut \union {m}
    /\ UNCHANGED <<now, born, at, sync, request, interruptionMap, jobQueue, running, outcome>>

-----------------------------------------------------------------------------
(* The worker.                                                             *)

Take ==
    /\ running = NoJob /\ jobQueue # <<>>
    /\ running' = Head(jobQueue)
    /\ jobQueue' = Tail(jobQueue)
    /\ UNCHANGED <<now, born, at, sync, request, interruptionMap, cut, outcome>>

\* Variant: a message's own mark counts.
InterruptedByOwn(m) == interruptionMap[at[m]] >= born[m]

\* CheckInterruption: a newer event has marked the channel.
Interrupted(m) == interruptionMap[at[m]] > born[m]

\* Variant: nobody answers the requester of a handler that panicked.
ReturnSilent(o) ==
    LET m == running.msg
    IN  /\ running # NoJob
        /\ running' = NoJob
        /\ outcome' = IF running.handler = "chat" THEN [outcome EXCEPT ![m] = o] ELSE outcome
        /\ request' = IF FromSync(running) /\ o # "panicked"
                      THEN [request EXCEPT ![m] = NextHandler(@)] ELSE request

\* The worker is free again; a sync requester gets the result.
Return(o) ==
    LET m == running.msg
    IN  /\ running # NoJob
        /\ running' = NoJob
        /\ outcome' = IF running.handler = "chat" THEN [outcome EXCEPT ![m] = o] ELSE outcome
        /\ request' = IF FromSync(running)
                      THEN [request EXCEPT ![m] = NextHandler(@)] ELSE request

\* The job ends, well or in an error event (EventStore has those), or in a
\* panic that the worker recovers from.
End(o) == Return(o) /\ UNCHANGED <<now, born, at, sync, interruptionMap, jobQueue, cut>>

\* Queue, marks and requests are in memory; events and their index are not.
ExecutorCrash ==
    /\ request' = [m \in Messages |-> IF request[m].pc = "none" THEN request[m]
                                      ELSE [pc |-> "done", todo |-> {}, handler |-> "none"]]
    /\ interruptionMap' = [c \in Channels |-> 0]
    /\ jobQueue' = <<>>
    /\ running' = NoJob
    /\ outcome' = [m \in Messages |-> IF born[m] # 0 /\ outcome[m] = "none"
                                      THEN "lost" ELSE outcome[m]]
    /\ UNCHANGED <<now, born, at, sync, cut>>

=============================================================================
