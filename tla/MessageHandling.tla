---------------------------- MODULE MessageHandling ----------------------------
(***************************************************************************)
(* The handlers of public messages (internal/handlers/publicmessage) and   *)
(* of direct messages (privatemessage), on the worker of Executor.  Both   *)
(* expand a link, look at an image, back off when the system is busy, take *)
(* the channel's engagement lock, read the channel as context, claim what  *)
(* they read and generate a reply under the cognitive lock.                *)
(*                                                                         *)
(* Contents are choices: whether there is a link or an image, what a model *)
(* decides, what fails.  A message has at most one link and one image.     *)
(***************************************************************************)
EXTENDS Executor

CONSTANT
    MaxFaults  \* bound: contexts done, panics, restarts and expired keys

ASSUME HandlingAssumption == MaxFaults \in Nat

VARIABLES
    handler,  \* the message handler on the worker
    engaged,  \* the keys engagement:processing:<channel>
    claimed,  \* the keys handled:event:<id>
    claimants,\* history: claimants[m]: the messages whose handlers claimed m
    signalled,\* replies whose signals were posted
    lapsed,   \* history: messages whose claim expired
    replies,  \* history: replies with the context they were given
    crashes,  \* restarts so far
    faults    \* faults so far

handlingVars == <<handler, engaged, claimed, claimants, replies>>
restVars == <<signalled, lapsed, crashes, faults>>
vars == <<executorVars, handlingVars, restVars>>

Handler == [pc: {"begin", "links", "busy", "image", "engage", "decide",
                 "gather", "claim", "recheck", "stream", "emit"},
            image: BOOLEAN, ctx: SUBSET Messages]
Fresh   == [pc |-> "begin", image |-> FALSE, ctx |-> {}]
Reply   == [msg: Messages, ctx: SUBSET Messages]

TypeOK ==
    /\ ExecutorType
    /\ handler \in Handler
    /\ engaged \subseteq Channels
    /\ claimed \subseteq Messages /\ signalled \subseteq Messages /\ lapsed \subseteq Messages
    /\ claimants \in [Messages -> SUBSET Messages]
    /\ replies \in Seq(Reply)
    /\ crashes \in Nat /\ faults \in Nat

Init ==
    /\ ExecutorInit
    /\ handler = Fresh
    /\ engaged = {} /\ claimed = {} /\ signalled = {} /\ lapsed = {}
    /\ claimants = [m \in Messages |-> {}]
    /\ replies = <<>>
    /\ crashes = 0 /\ faults = 0

On(m, pc)     == running = [msg |-> m, handler |-> "chat"] /\ handler.pc = pc
Public(m, pc) == On(m, pc) /\ at[m] \notin Private
Direct(m, pc) == On(m, pc) /\ at[m] \in Private

\* With a context that is done, commands to Redis and models fail.
Live(m) == m \notin cut

\* The handler has taken the engagement lock.
Held == handler.pc \in {"decide", "gather", "claim", "recheck", "stream", "emit"}

Become(h) == handler' = h /\ UNCHANGED <<executorVars, engaged, claimed, claimants, replies>>
Goto(pc)  == Become([handler EXCEPT !.pc = pc])

\* Variant: the engagement lock is left to its TTL.
LeaveLocked(o) ==
    /\ End(o)
    /\ handler' = Fresh
    /\ UNCHANGED <<engaged, claimed, claimants, replies>>

\* The handler returns or panics: a deferred DEL frees the engagement lock it
\* took.
Leave(o) ==
    /\ End(o)
    /\ handler' = Fresh
    /\ engaged' = IF Held THEN engaged \ {at[running.msg]} ELSE engaged
    /\ UNCHANGED <<claimed, claimants, replies>>

-----------------------------------------------------------------------------
(* Steps that both handlers take.                                          *)

\* No link, or it cannot be fetched.
Fetch(next) == \E image \in BOOLEAN : Become([handler EXCEPT !.pc = next, !.image = image])

\* The metadata of a link is judged: the message is deleted when it is explicit,
\* otherwise the link may add an image to it.
Judge(next) == Leave("ended") \/ Fetch(next)

\* The vision model describes an image under the cognitive lock, and the message
\* is deleted when it is explicit.
Look(next) == Goto(next) \/ Leave("ended")

\* IsSystemBusy: some agent holds the lock, or the system is paused.
BackOff(m) == Live(m) /\ Leave("ended")

\* SETNX with a TTL; whoever finds the key leaves it alone.
Engage(m, next) ==
    IF at[m] \in engaged THEN Leave("exited")
    ELSE /\ engaged' = engaged \union {at[m]}
         /\ handler' = [handler EXCEPT !.pc = next, !.image = FALSE]
         /\ UNCHANGED <<executorVars, claimed, claimants, replies>>

\* GetMessages: the events of the channel so far, newer ones than m included.
Context(m) ==
    IF Live(m) THEN {k \in Messages : born[k] # 0 /\ at[k] = at[m]} ELSE {}

Claims(m) == IF Live(m) THEN handler.ctx \union {m} ELSE {}

Claim(m, next) ==
    /\ claimed' = claimed \union Claims(m)
    /\ claimants' = [k \in Messages |-> claimants[k] \union (IF k \in Claims(m) THEN {m} ELSE {})]
    /\ handler' = [handler EXCEPT !.pc = next]
    /\ UNCHANGED <<executorVars, engaged, replies>>

\* Variant: the claims come first.
CommandAfterClaim(m, next) ==
    \/ Claim(m, next)
    \/ /\ End("ended")
       /\ claimed' = claimed \union Claims(m)
       /\ claimants' = [k \in Messages |-> claimants[k] \union (IF k \in Claims(m) THEN {m} ELSE {})]
       /\ handler' = Fresh
       /\ engaged' = engaged \ {at[m]}
       /\ UNCHANGED replies

\* A message not worth a reply, or a command for the fabricator, ends the handler
\* before anything is claimed.
ClaimOrCommand(m, next) == Leave("ended") \/ Claim(m, next)

\* The reply is streamed under the cognitive lock; an error is told to the user and
\* makes the handler fail.
Generate(m) ==
    \/ Leave("failed")
    \/ /\ Live(m)
       /\ replies' = Append(replies, [msg |-> m, ctx |-> handler.ctx])
       /\ handler' = [handler EXCEPT !.pc = "emit"]
       /\ UNCHANGED <<executorVars, engaged, claimed, claimants>>

\* The bot's message becomes an event of the channel, unless the POST fails.
Emit(m) ==
    /\ Return("answered")
    /\ \/ Echo(m)
       \/ UNCHANGED <<now, born, at, sync, interruptionMap, jobQueue, cut>>
    /\ handler' = Fresh
    /\ engaged' = engaged \ {at[m]}
    /\ UNCHANGED <<claimed, claimants, replies>>

-----------------------------------------------------------------------------
(* publicmessage.Handle.                                                   *)

\* Variant: the claim check is the comment only.
PublicBeginUnchecked(m) == Public(m, "begin") /\ Goto("links")

PublicBegin(m) ==
    /\ Public(m, "begin")
    /\ IF m \in claimed /\ Live(m) THEN Leave("claimed") ELSE Goto("links")

PublicFetch(m) == Public(m, "links") /\ Fetch("busy")
PublicJudge(m) == Public(m, "links") /\ Judge("busy")

\* A link posted in the music channel is played, and that is all.
PublicBusy(m) ==
    /\ Public(m, "busy")
    /\ \/ BackOff(m)
       \/ Leave("ended")
       \/ Goto(IF handler.image THEN "image" ELSE "engage")

\* A description is cached, or the image cannot be loaded.
PublicImage(m) == Public(m, "image") /\ Goto("engage")
PublicLook(m) == Public(m, "image") /\ Look("engage")
PublicEngage(m) == Public(m, "engage") /\ Engage(m, "decide")

\* Quiet mode, a mention, the channel, or the model decides; the decision is acted
\* on when the context has been read.
PublicDecide(m) == Public(m, "decide") /\ Goto("gather")

PublicGather(m) ==
    Public(m, "gather") /\ Become([handler EXCEPT !.pc = "claim", !.ctx = Context(m)])

PublicClaim(m) == Public(m, "claim") /\ ClaimOrCommand(m, "stream")
\* The stream's message cannot be posted.
PublicStream(m) == Public(m, "stream") /\ Leave("failed")
PublicGenerate(m) == Public(m, "stream") /\ Generate(m)
PublicEmit(m) == Public(m, "emit") /\ Emit(m)

PublicStep(m) ==
    \/ PublicBegin(m) \/ PublicFetch(m) \/ PublicJudge(m) \/ PublicBusy(m)
    \/ PublicImage(m) \/ PublicLook(m) \/ PublicEngage(m) \/ PublicDecide(m)
    \/ PublicGather(m) \/ PublicClaim(m) \/ PublicStream(m) \/ PublicGenerate(m)
    \/ PublicEmit(m)

-----------------------------------------------------------------------------
(* privatemessage.Handle: no claim check, no decision, but the handler     *)
(* stops when a newer event has marked the channel.                        *)

GoOn(m, step) == IF Interrupted(m) THEN Leave("interrupted") ELSE step

DirectBegin(m) == Direct(m, "begin") /\ GoOn(m, Goto("links"))

DirectFetch(m) == Direct(m, "links") /\ Fetch("image")
DirectJudge(m) == Direct(m, "links") /\ Judge("image")

DirectImage(m) ==
    /\ Direct(m, "image")
    /\ IF handler.image THEN GoOn(m, Goto("busy")) ELSE Goto("busy")
DirectLook(m) == Direct(m, "image") /\ handler.image /\ GoOn(m, Look("busy"))

DirectBusy(m) == Direct(m, "busy") /\ (BackOff(m) \/ Goto("engage"))
DirectEngage(m) == Direct(m, "engage") /\ Engage(m, "gather")
DirectGather(m) ==
    Direct(m, "gather") /\ Become([handler EXCEPT !.pc = "claim", !.ctx = Context(m)])
DirectClaim(m) == Direct(m, "claim") /\ ClaimOrCommand(m, "recheck")
DirectRecheck(m) == Direct(m, "recheck") /\ GoOn(m, Goto("stream"))
DirectStream(m) == Direct(m, "stream") /\ Leave("failed")
DirectGenerate(m) == Direct(m, "stream") /\ Generate(m)
DirectEmit(m) == Direct(m, "emit") /\ Emit(m)

DirectStep(m) ==
    \/ DirectBegin(m) \/ DirectFetch(m) \/ DirectJudge(m) \/ DirectImage(m)
    \/ DirectLook(m) \/ DirectBusy(m) \/ DirectEngage(m) \/ DirectGather(m)
    \/ DirectClaim(m) \/ DirectRecheck(m) \/ DirectStream(m) \/ DirectGenerate(m)
    \/ DirectEmit(m)

-----------------------------------------------------------------------------

Step(m) == PublicStep(m) \/ DirectStep(m)

\* A job of the profiler; what it writes is in Records.
Profile ==
    /\ running # NoJob /\ running.handler # "chat"
    /\ End("none")
    /\ UNCHANGED handlingVars

Work == ((\E m \in Messages : Step(m)) \/ Profile) /\ UNCHANGED restVars

\* The goroutine a reply leaves behind posts the signals it extracted.
Signals(m) ==
    /\ outcome[m] = "answered" /\ m \notin signalled
    /\ signalled' = signalled \union {m}
    /\ Echo(m)
    /\ UNCHANGED <<request, running, outcome, handlingVars, lapsed, crashes, faults>>

Client(m) == Post(m) /\ UNCHANGED <<handlingVars, restVars>>
Submit(m) == (Mark(m) \/ Send(m)) /\ UNCHANGED <<handlingVars, restVars>>
TakeJob   == Take /\ UNCHANGED <<handlingVars, restVars>>
Clock     == Tick /\ UNCHANGED <<handlingVars, restVars>>

-----------------------------------------------------------------------------
(* What goes wrong.                                                        *)

Fault == faults < MaxFaults /\ faults' = faults + 1

Panic ==
    /\ Fault
    /\ running # NoJob /\ running.handler = "chat"
    /\ Leave("panicked")
    /\ UNCHANGED <<signalled, lapsed, crashes>>

ContextDone(m) == Fault /\ CutOff(m) /\ UNCHANGED <<handlingVars, signalled, lapsed, crashes>>

\* Two minutes for a claim, one for an engagement lock.
ExpireClaim(m) ==
    /\ Fault
    /\ m \in claimed
    /\ claimed' = claimed \ {m} /\ lapsed' = lapsed \union {m}
    /\ UNCHANGED <<executorVars, handler, engaged, claimants, replies, signalled, crashes>>
ExpireEngaged(c) ==
    /\ Fault
    /\ c \in engaged
    /\ engaged' = engaged \ {c}
    /\ UNCHANGED <<executorVars, handler, claimed, claimants, replies, signalled, lapsed, crashes>>

Crash ==
    /\ Fault
    /\ crashes' = crashes + 1
    /\ ExecutorCrash
    /\ handler' = Fresh
    /\ UNCHANGED <<engaged, claimed, claimants, replies, signalled, lapsed>>

Next ==
    \/ \E m \in Messages : Client(m) \/ Submit(m) \/ Signals(m) \/ ContextDone(m) \/ ExpireClaim(m)
    \/ TakeJob \/ Work \/ Clock \/ Panic \/ Crash
    \/ \E c \in Channels : ExpireEngaged(c)

Spec == Init /\ [][Next]_vars

-----------------------------------------------------------------------------
(* Properties.                                                             *)

\* "If this event was already included in a previous response's context
\* window, skip it" (publicmessage/handler.go:80): a public message that a
\* reply was given as context is not replied to later, unless its claim has
\* expired.  Direct messages are claimed too, but nobody looks at their claims.
NoDoubleAnswer ==
    \A i, j \in 1 .. Len(replies) :
        LET m == replies[j].msg
        IN  i < j /\ m \in replies[i].ctx /\ at[m] \notin Private => m \in lapsed

\* A message is skipped as claimed only when another message's handler came
\* as far as generating a reply: that reply was posted, or the handler failed
\* or panicked, but it did not decline, take the message for a command or
\* lose the channel to somebody else.
SkippedForReply ==
    \A m \in Messages : outcome[m] = "claimed" =>
        \E k \in claimants[m] \ {m} : outcome[k] \in {"answered", "failed", "panicked"}

\* When all direct messages of a channel were answered or interrupted, one of
\* them was answered: messages do not interrupt each other in a circle, though
\* marks are stored in any order and go back in time, and the bot's own events
\* raise them as well.
ChannelHeard ==
    \A c \in Private :
        LET said == {m \in Messages : at[m] = c /\ born[m] # 0}
        IN  /\ said # {}
            /\ \A m \in said : outcome[m] \in {"answered", "interrupted"}
            => \E m \in said : outcome[m] = "answered"

\* With one worker no handler meets the engagement lock of another one ("being
\* processed by another handler"): it is found taken only after a restart.
LockFoundFree == crashes = 0 => \A m \in Messages : outcome[m] # "exited"

\* A sync client that waits has its job in the queue or on the worker: none is
\* forgotten, whether its handler ends, fails, panics or is cut off.
WaiterHasJob ==
    \A m \in Messages : request[m].pc = "wait" =>
        \/ running = [msg |-> m, handler |-> request[m].handler]
        \/ \E i \in 1 .. Len(jobQueue) :
              jobQueue[i] = [msg |-> m, handler |-> request[m].handler]

=============================================================================
