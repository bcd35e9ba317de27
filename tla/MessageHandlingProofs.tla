------------------------- MODULE MessageHandlingProofs -------------------------
(***************************************************************************)
(* Proofs about the executor and the message handlers, for any messages,   *)
(* channels, queue sizes and numbers of faults.                            *)
(***************************************************************************)
EXTENDS MessageHandling, WellFoundedInduction, TLAPS

-----------------------------------------------------------------------------
(* The queue.                                                              *)

Waiting(q, job) == \E i \in 1 .. Len(q) : q[i] = job
Once(q, job)    == \A i, j \in 1 .. Len(q) : q[i] = job /\ q[j] = job => i = j

LEMMA QueueAppend ==
    ASSUME NEW q \in Seq(Job), NEW j \in Job
    PROVE  /\ Append(q, j) \in Seq(Job) /\ Len(Append(q, j)) = Len(q) + 1 /\ Len(q) \in Nat
           /\ \A i \in 1 .. Len(q) : Append(q, j)[i] = q[i]
           /\ Append(q, j)[Len(q) + 1] = j
           /\ \A x : Waiting(Append(q, j), x) <=> Waiting(q, x) \/ x = j
           /\ \A x : Once(q, x) /\ (x = j => ~Waiting(q, x)) => Once(Append(q, j), x)
<1> DEFINE t == Append(q, j)
<1>1. /\ t \in Seq(Job) /\ Len(t) = Len(q) + 1 /\ Len(q) \in Nat
      /\ \A i \in 1 .. Len(q) : t[i] = q[i]
      /\ t[Len(q) + 1] = j
    OBVIOUS
<1> HIDE DEF t
<1>2. 1 .. Len(t) = (1 .. Len(q)) \union {Len(q) + 1} BY <1>1
<1>3. \A x : Waiting(t, x) <=> Waiting(q, x) \/ x = j BY <1>1, <1>2 DEF Waiting
<1>4. \A x : Once(q, x) /\ (x = j => ~Waiting(q, x)) => Once(t, x)
    BY <1>1, <1>2 DEF Waiting, Once
<1> QED BY <1>1, <1>3, <1>4 DEF t

LEMMA QueueTail ==
    ASSUME NEW q \in Seq(Job), q # <<>>
    PROVE  /\ Tail(q) \in Seq(Job) /\ Len(Tail(q)) = Len(q) - 1 /\ Len(q) \in Nat
           /\ Head(q) \in Job
           /\ \A i \in 1 .. Len(Tail(q)) : i + 1 \in 1 .. Len(q) /\ Tail(q)[i] = q[i + 1]
           /\ \A x : Waiting(q, x) <=> x = Head(q) \/ Waiting(Tail(q), x)
           /\ \A x : Once(q, x) => Once(Tail(q), x)
           /\ Once(q, Head(q)) => ~Waiting(Tail(q), Head(q))
<1> DEFINE t == Tail(q)
<1>1. /\ t \in Seq(Job) /\ Len(t) = Len(q) - 1 /\ Len(q) \in Nat /\ Len(q) > 0
      /\ \A i \in 1 .. Len(t) : t[i] = q[i + 1]
      /\ Head(q) = q[1] /\ Head(q) \in Job
    OBVIOUS
<1> HIDE DEF t
<1>2. ASSUME NEW i \in 1 .. Len(q), i # 1 PROVE i - 1 \in 1 .. Len(t) /\ t[i - 1] = q[i]
    BY <1>1, <1>2
<1>3. ASSUME NEW i \in 1 .. Len(t) PROVE i + 1 \in 1 .. Len(q) /\ t[i] = q[i + 1]
    BY <1>1
<1>4. ASSUME NEW x PROVE Waiting(q, x) <=> x = Head(q) \/ Waiting(t, x)
    <2>1. ASSUME Waiting(q, x), x # Head(q) PROVE Waiting(t, x)
        <3>1. PICK i \in 1 .. Len(q) : q[i] = x BY <2>1 DEF Waiting
        <3> QED BY <1>1, <1>2, <2>1, <3>1 DEF Waiting
    <2>2. ASSUME Waiting(t, x) PROVE Waiting(q, x) BY <1>3, <2>2 DEF Waiting
    <2>3. Waiting(q, Head(q)) BY <1>1 DEF Waiting
    <2> QED BY <2>1, <2>2, <2>3
<1>5. ASSUME NEW x, Once(q, x) PROVE Once(t, x)
    <2> SUFFICES ASSUME NEW i \in 1 .. Len(t), NEW j \in 1 .. Len(t), t[i] = x, t[j] = x
                 PROVE  i = j
        BY DEF Once
    <2>1. i + 1 = j + 1 BY <1>3, <1>5 DEF Once
    <2> QED BY <2>1
<1>6. ASSUME Once(q, Head(q)) PROVE ~Waiting(t, Head(q))
    <2> SUFFICES ASSUME NEW i \in 1 .. Len(t), t[i] = Head(q) PROVE FALSE
        BY DEF Waiting
    <2>1. q[i + 1] = Head(q) /\ q[1] = Head(q) /\ i + 1 \in 1 .. Len(q) /\ 1 \in 1 .. Len(q)
        BY <1>1, <1>3
    <2>2. i + 1 = 1 BY <1>6, <2>1 DEF Once
    <2> QED BY <2>2
<1> QED BY <1>1, <1>3, <1>4, <1>5, <1>6 DEF t

-----------------------------------------------------------------------------
(* What a step of a handler is.                                            *)

Pcs   == {"begin", "links", "busy", "image", "engage", "decide",
          "gather", "claim", "recheck", "stream", "emit"}
Early == {"begin", "links", "busy", "image", "engage"}
Late  == {"recheck", "stream", "emit"}

Here(m) == {k \in Messages : born[k] # 0 /\ at[k] = at[m]}

\* It goes on,
Moves(m) ==
    /\ Become(handler')
    /\ handler' \in Handler
    /\ handler'.pc \in Early <=> handler.pc \in Early
    /\ handler.pc # "emit" /\ handler'.pc \notin {"begin", "emit"}
    /\ handler.pc = "begin" /\ at[m] \notin Private => m \notin claimed \/ ~Live(m)
    /\ handler'.pc \in Late => handler.pc \in Late /\ handler'.ctx = handler.ctx
    /\ handler.pc \in Late => handler'.pc \in Late
    /\ handler'.pc = "claim" => handler'.ctx \subseteq Here(m)
\* is over,
Leaves(m) ==
    \E o \in Outcomes :
        /\ Leave(o) /\ o \notin {"none", "answered"}
        /\ o = "interrupted" => Interrupted(m)
        /\ o = "exited" => ~Held /\ at[m] \in engaged
        /\ o = "claimed" => handler.pc = "begin" /\ at[m] \notin Private /\ m \in claimed
        /\ handler.pc \in Late /\ at[m] \notin Private => o = "failed"
\* takes the engagement lock,
Engages(m) ==
    /\ handler.pc = "engage" /\ at[m] \notin engaged
    /\ engaged' = engaged \union {at[m]}
    /\ \E pc \in {"decide", "gather"} : handler' = [handler EXCEPT !.pc = pc, !.image = FALSE]
    /\ UNCHANGED <<executorVars, claimed, claimants, replies>>
\* claims,
ClaimsNow(m) ==
    /\ handler.pc = "claim"
    /\ \E pc \in {"recheck", "stream"} : Claim(m, pc)
\* replies,
Replies(m) ==
    /\ handler.pc = "stream" /\ Live(m)
    /\ replies' = Append(replies, [msg |-> m, ctx |-> handler.ctx])
    /\ handler' = [handler EXCEPT !.pc = "emit"]
    /\ UNCHANGED <<executorVars, engaged, claimed, claimants>>
\* or posts the reply.
Emits(m) == handler.pc = "emit" /\ Emit(m)

Does(m) ==
    /\ running = [msg |-> m, handler |-> "chat"]
    /\ Moves(m) \/ Leaves(m) \/ Engages(m) \/ ClaimsNow(m) \/ Replies(m) \/ Emits(m)

LEMMA HandlerFields ==
    ASSUME NEW h \in Handler
    PROVE  /\ h.pc \in Pcs /\ h.image \in BOOLEAN /\ h.ctx \subseteq Messages
           /\ \A pc \in Pcs : /\ [h EXCEPT !.pc = pc] \in Handler
                              /\ [h EXCEPT !.pc = pc].pc = pc
                              /\ [h EXCEPT !.pc = pc].ctx = h.ctx
           /\ \A pc \in Pcs : \A image \in BOOLEAN :
                  /\ [h EXCEPT !.pc = pc, !.image = image] \in Handler
                  /\ [h EXCEPT !.pc = pc, !.image = image].pc = pc
                  /\ [h EXCEPT !.pc = pc, !.image = image].ctx = h.ctx
           /\ \A pc \in Pcs : \A ctx \in SUBSET Messages :
                  /\ [h EXCEPT !.pc = pc, !.ctx = ctx] \in Handler
                  /\ [h EXCEPT !.pc = pc, !.ctx = ctx].pc = pc
                  /\ [h EXCEPT !.pc = pc, !.ctx = ctx].ctx = ctx
BY DEF Handler, Pcs

\* The shapes that the actions are made of.
LEMMA GotoMoves ==
    ASSUME handler \in Handler, NEW m \in Messages, NEW pc \in Pcs, Goto(pc),
           handler.pc # "emit", pc \notin {"begin", "emit", "claim"},
           pc \in Early <=> handler.pc \in Early,
           handler.pc = "begin" /\ at[m] \notin Private => m \notin claimed \/ ~Live(m),
           pc \in Late <=> handler.pc \in Late
    PROVE  Moves(m)
<1> DEFINE new == [handler EXCEPT !.pc = pc]
<1>1. new \in Handler /\ new.pc = pc /\ new.ctx = handler.ctx BY HandlerFields, ZenonT(30)
<1>2. Become(new) BY DEF Goto
<1> HIDE DEF new
<1>3. handler' = new BY <1>2 DEF Become
<1> QED BY <1>1, <1>2, <1>3 DEF Moves

LEMMA FetchMoves ==
    ASSUME handler \in Handler, NEW m \in Messages, NEW pc \in Early \ {"begin"}, Fetch(pc),
           handler.pc \in Early \ {"begin"}
    PROVE  Moves(m)
<1>1. PICK image \in BOOLEAN : Become([handler EXCEPT !.pc = pc, !.image = image])
    BY DEF Fetch
<1> DEFINE new == [handler EXCEPT !.pc = pc, !.image = image]
<1>2. pc \in Pcs BY DEF Early, Pcs
<1>3. new \in Handler /\ new.pc = pc BY <1>2 DEF Handler, Pcs
<1>4. Become(new) BY <1>1
<1> HIDE DEF new
<1>5. handler' = new BY <1>4 DEF Become
<1> QED BY <1>3, <1>4, <1>5 DEF Moves, Early, Late

LEMMA GatherMoves ==
    ASSUME handler \in Handler, NEW m \in Messages, handler.pc = "gather",
           Become([handler EXCEPT !.pc = "claim", !.ctx = Context(m)])
    PROVE  Moves(m)
<1> DEFINE new == [handler EXCEPT !.pc = "claim", !.ctx = Context(m)]
<1>1. Context(m) \subseteq Here(m) /\ Here(m) \subseteq Messages BY DEF Context, Here
<1>2. "claim" \in Pcs BY DEF Pcs
<1>3. new \in Handler /\ new.pc = "claim" /\ new.ctx = Context(m) BY <1>1, <1>2 DEF Handler, Pcs
<1>4. Become(new) OBVIOUS
<1> HIDE DEF new
<1>5. handler' = new BY <1>4 DEF Become
<1> QED BY <1>1, <1>3, <1>4, <1>5 DEF Moves, Early, Late

\* An end that is neither for a claim nor for a lock.
LEMMA PlainLeaves ==
    ASSUME NEW m \in Messages, NEW o \in {"ended", "interrupted", "failed"}, Leave(o),
           handler.pc \in Late /\ at[m] \notin Private => o = "failed",
           o = "interrupted" => Interrupted(m)
    PROVE  Leaves(m)
BY DEF Leaves, Outcomes

LEMMA PublicDoes ==
    ASSUME handler \in Handler, NEW m \in Messages, PublicStep(m)
    PROVE  Does(m)
<1> USE DEF Public, On, Early, Late
<1>0. running = [msg |-> m, handler |-> "chat"] /\ at[m] \notin Private
    BY DEF PublicStep, PublicBegin, PublicFetch, PublicJudge, PublicBusy, PublicImage, PublicLook,
           PublicEngage, PublicDecide, PublicGather, PublicClaim, PublicStream, PublicGenerate,
           PublicEmit
<1>1. CASE PublicBegin(m)
    <2>1. CASE m \in claimed /\ Live(m)
        BY <1>0, <1>1, <2>1 DEF PublicBegin, Leaves, Outcomes, Does
    <2>2. CASE ~(m \in claimed /\ Live(m))
        <3>1. Goto("links") BY <1>1, <2>2 DEF PublicBegin
        <3> QED BY <1>0, <1>1, <2>2, <3>1, GotoMoves DEF PublicBegin, Does, Pcs
    <2> QED BY <2>1, <2>2
<1>2. CASE PublicFetch(m)
    BY <1>0, <1>2, FetchMoves DEF PublicFetch, Does
<1>3. CASE PublicJudge(m)
    BY <1>0, <1>3, FetchMoves, PlainLeaves DEF PublicJudge, Judge, Does
<1>4. CASE PublicBusy(m)
    <2>1. CASE Leave("ended") BY <1>0, <1>4, <2>1, PlainLeaves DEF PublicBusy, Does
    <2>2. CASE Goto(IF handler.image THEN "image" ELSE "engage")
        <3>1. PICK pc \in {"image", "engage"} : Goto(pc) BY <2>2
        <3> QED BY <1>0, <1>4, <3>1, GotoMoves DEF PublicBusy, Does, Pcs
    <2> QED BY <1>4, <2>1, <2>2 DEF PublicBusy, BackOff
<1>5. CASE PublicImage(m) BY <1>0, <1>5, GotoMoves DEF PublicImage, Does, Pcs
<1>6. CASE PublicLook(m)
    BY <1>0, <1>6, GotoMoves, PlainLeaves DEF PublicLook, Look, Does, Pcs
<1>7. CASE PublicEngage(m)
    <2>1. CASE at[m] \in engaged
        BY <1>0, <1>7, <2>1 DEF PublicEngage, Engage, Leaves, Outcomes, Held, Does
    <2>2. CASE at[m] \notin engaged
        BY <1>0, <1>7, <2>2 DEF PublicEngage, Engage, Engages, Does
    <2> QED BY <2>1, <2>2
<1>8. CASE PublicDecide(m) BY <1>0, <1>8, GotoMoves DEF PublicDecide, Does, Pcs
<1>9. CASE PublicGather(m) BY <1>0, <1>9, GatherMoves DEF PublicGather, Does
<1>10. CASE PublicClaim(m)
    BY <1>0, <1>10, PlainLeaves DEF PublicClaim, ClaimOrCommand, ClaimsNow, Does
<1>11. CASE PublicStream(m) BY <1>0, <1>11, PlainLeaves DEF PublicStream, Does
<1>12. CASE PublicGenerate(m)
    BY <1>0, <1>12, PlainLeaves DEF PublicGenerate, Generate, Replies, Does
<1>13. CASE PublicEmit(m) BY <1>0, <1>13 DEF PublicEmit, Emits, Does
<1> QED BY <1>1, <1>2, <1>3, <1>4, <1>5, <1>6, <1>7, <1>8, <1>9, <1>10, <1>11, <1>12, <1>13
        DEF PublicStep

LEMMA DirectDoes ==
    ASSUME handler \in Handler, NEW m \in Messages, DirectStep(m)
    PROVE  Does(m)
<1> USE DEF Direct, On, Early, Late
<1>0. running = [msg |-> m, handler |-> "chat"] /\ at[m] \in Private
    BY DEF DirectStep, DirectBegin, DirectFetch, DirectJudge, DirectImage, DirectLook, DirectBusy,
           DirectEngage, DirectGather, DirectClaim, DirectRecheck, DirectStream, DirectGenerate,
           DirectEmit
<1>1. CASE DirectBegin(m)
    BY <1>0, <1>1, GotoMoves, PlainLeaves DEF DirectBegin, GoOn, Does, Pcs
<1>2. CASE DirectFetch(m)
    BY <1>0, <1>2, FetchMoves DEF DirectFetch, Does
<1>3. CASE DirectJudge(m)
    BY <1>0, <1>3, FetchMoves, PlainLeaves DEF DirectJudge, Judge, Does
<1>4. CASE DirectImage(m)
    BY <1>0, <1>4, GotoMoves, PlainLeaves DEF DirectImage, GoOn, Does, Pcs
<1>5. CASE DirectLook(m)
    BY <1>0, <1>5, GotoMoves, PlainLeaves DEF DirectLook, Look, GoOn, Does, Pcs
<1>6. CASE DirectBusy(m)
    BY <1>0, <1>6, GotoMoves, PlainLeaves DEF DirectBusy, BackOff, Does, Pcs
<1>7. CASE DirectEngage(m)
    <2>1. CASE at[m] \in engaged
        BY <1>0, <1>7, <2>1 DEF DirectEngage, Engage, Leaves, Outcomes, Held, Does
    <2>2. CASE at[m] \notin engaged
        BY <1>0, <1>7, <2>2 DEF DirectEngage, Engage, Engages, Does
    <2> QED BY <2>1, <2>2
<1>8. CASE DirectGather(m) BY <1>0, <1>8, GatherMoves DEF DirectGather, Does
<1>9. CASE DirectClaim(m)
    BY <1>0, <1>9, PlainLeaves DEF DirectClaim, ClaimOrCommand, ClaimsNow, Does
<1>10. CASE DirectRecheck(m)
    BY <1>0, <1>10, GotoMoves, PlainLeaves DEF DirectRecheck, GoOn, Does, Pcs
<1>11. CASE DirectStream(m) BY <1>0, <1>11, PlainLeaves DEF DirectStream, Does
<1>12. CASE DirectGenerate(m)
    BY <1>0, <1>12, PlainLeaves DEF DirectGenerate, Generate, Replies, Does
<1>13. CASE DirectEmit(m) BY <1>0, <1>13 DEF DirectEmit, Emits, Does
<1> QED BY <1>1, <1>2, <1>3, <1>4, <1>5, <1>6, <1>7, <1>8, <1>9, <1>10, <1>11, <1>12, <1>13
        DEF DirectStep

LEMMA StepDoes ==
    ASSUME handler \in Handler, NEW m \in Messages, Step(m)
    PROVE  Does(m)
BY PublicDoes, DirectDoes DEF Step

-----------------------------------------------------------------------------
(* What the executor's parts do to its variables.                          *)

JobOf(m, h) == [msg |-> m, handler |-> h]
Overflow(q) == \A i \in 1 .. Len(q) : i > Capacity => FromSync(q[i])

\* A request that submits or waits is for a handler, and it waits only in sync mode.
Carried(m) ==
    /\ request[m].pc \in {"send", "wait"} => request[m].handler \in {"chat", "profile"}
    /\ request[m].pc = "wait" => m \in sync

LEMMA NextHandlerFields ==
    ASSUME NEW r \in Request
    PROVE  /\ NextHandler(r) \in Request
           /\ NextHandler(r).pc \in {"done", "mark"} /\ NextHandler(r).handler = "none"
           /\ NextHandler(r).todo = r.todo
BY DEF NextHandler, Request

LEMMA ReturnDoes ==
    ASSUME ExecutorType, NEW o \in Outcomes, Return(o)
    PROVE  /\ running \in Job /\ running' = NoJob
           /\ outcome' \in [Messages -> Outcomes]
           /\ \A m \in Messages : outcome'[m] =
                 IF running = JobOf(m, "chat") THEN o ELSE outcome[m]
           /\ request' \in [Messages -> Request]
           /\ \A m \in Messages : request'[m] = request[m] \/ request'[m] = NextHandler(request[m])
           /\ \A m \in Messages : running.msg = m /\ FromSync(running)
                 => request'[m] = NextHandler(request[m])
           /\ \A m \in Messages : running.msg # m => request'[m] = request[m]
<1>1. running \in Job /\ running' = NoJob /\ running.msg \in Messages
    BY DEF ExecutorType, Return, Job
<1>2. running = [msg |-> running.msg, handler |-> running.handler] BY <1>1 DEF Job
<1>3. /\ outcome' \in [Messages -> Outcomes]
      /\ \A m \in Messages : outcome'[m] = IF running = JobOf(m, "chat") THEN o ELSE outcome[m]
    BY <1>1, <1>2 DEF ExecutorType, Return, JobOf
<1>4. NextHandler(request[running.msg]) \in Request BY <1>1, NextHandlerFields DEF ExecutorType
<1> QED BY <1>1, <1>3, <1>4 DEF ExecutorType, Return

LEMMA QueuedDoes ==
    ASSUME jobQueue \in Seq(Job), Overflow(jobQueue), Capacity \in Nat, NEW j \in Job
    PROVE  /\ Queued(j) \in Seq(Job)
           /\ Overflow(Queued(j))
           /\ \A x : Waiting(jobQueue, x) => Waiting(Queued(j), x)
           /\ \A x : Waiting(Queued(j), x) => Waiting(jobQueue, x) \/ (Room /\ x = j)
           /\ \A x : Once(jobQueue, x) /\ (x = j => ~Waiting(jobQueue, x)) => Once(Queued(j), x)
<1>1. CASE ~Room BY <1>1 DEF Queued
<1>2. CASE Room
    <2> DEFINE t == Append(jobQueue, j)
    <2>1. /\ t \in Seq(Job) /\ Len(t) = Len(jobQueue) + 1 /\ Len(jobQueue) \in Nat
          /\ \A x : Waiting(t, x) <=> Waiting(jobQueue, x) \/ x = j
          /\ \A x : Once(jobQueue, x) /\ (x = j => ~Waiting(jobQueue, x)) => Once(t, x)
        BY QueueAppend
    <2>2. Queued(j) = t BY <1>2 DEF Queued
    <2> HIDE DEF t
    <2>3. \A i \in 1 .. Len(t) : ~(i > Capacity) BY <1>2, <2>1 DEF Room
    <2>4. Overflow(t) BY <2>3 DEF Overflow
    <2> QED BY <1>2, <2>1, <2>2, <2>4
<1> QED BY <1>1, <1>2

LEMMA EchoDoes ==
    ASSUME ExecutorType, NEW m \in Messages, Echo(m)
    PROVE  /\ interruptionMap' \in [Channels -> Nat]
           /\ \A c \in Channels : interruptionMap'[c] = IF c = at[m] THEN now ELSE interruptionMap[c]
           /\ jobQueue' \in Seq(Job)
           /\ Overflow(jobQueue')
           /\ \A x : Waiting(jobQueue, x) => Waiting(jobQueue', x)
           /\ \A k \in Messages : \A h \in {"chat", "profile"} :
                 /\ Waiting(jobQueue', JobOf(k, h)) => Waiting(jobQueue, JobOf(k, h))
                 /\ Once(jobQueue, JobOf(k, h)) => Once(jobQueue', JobOf(k, h))
<1> DEFINE j == JobOf(m, "own")
<1>1. j \in Job BY DEF JobOf, Job
<1>2. Overflow(jobQueue) /\ Capacity \in Nat /\ jobQueue \in Seq(Job)
    BY ExecutorAssumption DEF ExecutorType, Overflow
<1>3. jobQueue' = Queued(j) BY DEF Echo, JobOf
<1>4. \A k, h : h \in {"chat", "profile"} => JobOf(k, h) # j BY DEF JobOf
<1>5. /\ interruptionMap' \in [Channels -> Nat]
      /\ \A c \in Channels : interruptionMap'[c] = IF c = at[m] THEN now ELSE interruptionMap[c]
    BY DEF Echo, ExecutorType
<1> HIDE DEF j
<1> QED BY <1>1, <1>2, <1>3, <1>4, <1>5, QueuedDoes

-----------------------------------------------------------------------------
(* Types, and who waits.                                                   *)

Base == TypeOK /\ (\A m \in Messages : Carried(m)) /\ WaiterHasJob

LEMMA InitBase == Init => Base
<1> SUFFICES ASSUME Init PROVE Base OBVIOUS
<1> USE DEF Init, ExecutorInit
<1>1. ExecutorType
    BY DEF ExecutorType, Request, Outcomes
<1>2. TypeOK BY <1>1 DEF TypeOK, Handler, Fresh
<1> QED BY <1>2 DEF Base, Carried, WaiterHasJob

\* A result is for the requester of the job, and the others wait on.
LEMMA ReturnServes ==
    ASSUME Base, NEW o \in Outcomes, Return(o), sync' = sync,
           \A k \in Messages : \A h \in {"chat", "profile"} :
               Waiting(jobQueue, JobOf(k, h)) => Waiting(jobQueue', JobOf(k, h))
    PROVE  (\A k \in Messages : Carried(k)') /\ WaiterHasJob'
<1>0. ExecutorType BY DEF Base, TypeOK
<1>1. ASSUME NEW k \in Messages PROVE Carried(k)'
    <2>1. request[k] \in Request BY <1>0 DEF ExecutorType
    <2>2. request'[k] = request[k] \/ request'[k] = NextHandler(request[k]) BY <1>0, ReturnDoes
    <2> QED BY <2>1, <2>2, NextHandlerFields DEF Base, Carried
<1>2. ASSUME NEW k \in Messages, request'[k].pc = "wait"
      PROVE  Waiting(jobQueue', JobOf(k, request'[k].handler))
    <2>1. request[k] \in Request BY <1>0 DEF ExecutorType
    <2>2. request'[k] = request[k] BY <1>0, <1>2, <2>1, ReturnDoes, NextHandlerFields
    <2> DEFINE h == request[k].handler
    <2>3. h \in {"chat", "profile"} /\ k \in sync BY <1>2, <2>2 DEF Base, Carried
    <2>4. running = JobOf(k, h) \/ Waiting(jobQueue, JobOf(k, h))
        BY <1>2, <2>2 DEF Base, WaiterHasJob, JobOf, Waiting
    <2>5. ASSUME running = JobOf(k, h) PROVE FALSE
        <3>1. running.msg = k /\ running.handler = h BY <2>5 DEF JobOf
        <3>2. FromSync(running) BY <2>3, <3>1 DEF FromSync
        <3>3. request'[k] = NextHandler(request[k]) BY <1>0, <3>1, <3>2, ReturnDoes
        <3> QED BY <1>2, <2>1, <3>3, NextHandlerFields
    <2> QED BY <2>2, <2>3, <2>4, <2>5
<1> QED BY <1>1, <1>2 DEF WaiterHasJob, Waiting, JobOf

LEMMA LeaveKeepsBase ==
    ASSUME Base, NEW o \in Outcomes, Leave(o), lapsed' \subseteq Messages, signalled' \subseteq Messages,
           crashes' \in Nat, faults' \in Nat
    PROVE  Base'
<1>0. ExecutorType /\ TypeOK BY DEF Base, TypeOK
<1>1. Return(o) /\ UNCHANGED <<now, born, at, sync, interruptionMap, jobQueue, cut>>
    BY DEF Leave, End
<1>2. (\A k \in Messages : Carried(k)') /\ WaiterHasJob' BY <1>1, ReturnServes
<1>3. ExecutorType'
    BY <1>0, <1>1, ReturnDoes DEF ExecutorType, FromSync
<1>4. /\ handler' \in Handler /\ engaged' \subseteq Channels
      /\ claimed' = claimed /\ claimants' = claimants /\ replies' = replies
    BY <1>0 DEF Leave, TypeOK, Fresh, Handler
<1> QED BY <1>0, <1>2, <1>3, <1>4 DEF Base, TypeOK

LEMMA DoesKeepsBase ==
    ASSUME Base, NEW m \in Messages, Does(m), UNCHANGED restVars
    PROVE  Base'
<1>0. ExecutorType /\ TypeOK BY DEF Base, TypeOK
<1>1. ASSUME UNCHANGED executorVars, handler' \in Handler, engaged' \subseteq Channels,
             claimed' \subseteq Messages, claimants' \in [Messages -> SUBSET Messages],
             replies' \in Seq(Reply)
      PROVE  Base'
    <2>1. ExecutorType' BY <1>0, <1>1 DEF ExecutorType, executorVars, FromSync
    <2>2. TypeOK' BY <1>0, <1>1, <2>1 DEF TypeOK, restVars
    <2> QED BY <1>1, <2>2 DEF Base, Carried, WaiterHasJob, executorVars
<1>2. CASE Moves(m) BY <1>0, <1>1, <1>2 DEF Moves, Become, TypeOK
<1>3. CASE Leaves(m)
    <2>1. PICK o \in Outcomes : Leave(o) BY <1>3 DEF Leaves
    <2> QED BY <1>0, <2>1, LeaveKeepsBase DEF TypeOK, restVars
<1>4. CASE Engages(m)
    <2>1. PICK pc \in {"decide", "gather"} : handler' = [handler EXCEPT !.pc = pc, !.image = FALSE]
        BY <1>4 DEF Engages
    <2>2. pc \in Pcs /\ FALSE \in BOOLEAN BY DEF Pcs
    <2>3. handler' \in Handler BY <1>0, <2>1, <2>2 DEF TypeOK, Handler, Pcs
    <2>4. engaged' \subseteq Channels BY <1>0, <1>4 DEF Engages, TypeOK, ExecutorType
    <2> QED BY <1>0, <1>1, <1>4, <2>3, <2>4 DEF Engages, TypeOK
<1>5. CASE ClaimsNow(m)
    <2>1. PICK pc \in {"recheck", "stream"} : Claim(m, pc) BY <1>5 DEF ClaimsNow
    <2>2. handler' \in Handler BY <1>0, <2>1 DEF Claim, TypeOK, Handler
    <2>3. Claims(m) \subseteq Messages BY <1>0 DEF Claims, TypeOK, Handler
    <2>4. claimants' \in [Messages -> SUBSET Messages] /\ claimed' \subseteq Messages
        BY <1>0, <2>1, <2>3 DEF Claim, TypeOK
    <2> QED BY <1>0, <1>1, <2>1, <2>2, <2>4 DEF Claim, TypeOK
<1>6. CASE Replies(m)
    <2>1. handler' \in Handler BY <1>0, <1>6 DEF Replies, TypeOK, Handler
    <2>2. [msg |-> m, ctx |-> handler.ctx] \in Reply BY <1>0 DEF TypeOK, Handler, Reply
    <2>3. replies' \in Seq(Reply) BY <1>0, <1>6, <2>2 DEF Replies, TypeOK
    <2> QED BY <1>0, <1>1, <1>6, <2>1, <2>3 DEF Replies, TypeOK
<1>7. CASE Emits(m)
    <2>1. Return("answered") /\ "answered" \in Outcomes BY <1>7 DEF Emits, Emit, Outcomes
    <2>2. UNCHANGED <<now, born, at, sync, cut>> BY <1>7 DEF Emits, Emit, Echo
    <2>3. /\ interruptionMap' \in [Channels -> Nat]
          /\ jobQueue' \in Seq(Job) /\ Overflow(jobQueue')
          /\ \A x : Waiting(jobQueue, x) => Waiting(jobQueue', x)
        <3>1. CASE Echo(m) BY <1>0, <3>1, EchoDoes
        <3>2. CASE UNCHANGED <<interruptionMap, jobQueue>>
            BY <1>0, <3>2 DEF ExecutorType, Overflow
        <3> QED BY <1>7, <3>1, <3>2 DEF Emits, Emit
    <2>4. (\A k \in Messages : Carried(k)') /\ WaiterHasJob' BY <2>1, <2>2, <2>3, ReturnServes
    <2>5. ExecutorType'
        BY <1>0, <2>1, <2>2, <2>3, ReturnDoes DEF ExecutorType, FromSync, Overflow
    <2>6. TypeOK'
        BY <1>0, <1>7, <2>5 DEF TypeOK, Emits, Emit, Fresh, Handler, restVars
    <2> QED BY <2>4, <2>6 DEF Base
<1> QED BY <1>2, <1>3, <1>4, <1>5, <1>6, <1>7 DEF Does

LEMMA PostKeepsBase ==
    ASSUME Base, NEW m \in Messages, Post(m), UNCHANGED <<handlingVars, restVars>>
    PROVE  Base'
<1>0. ExecutorType /\ TypeOK BY DEF Base, TypeOK
<1>1. sync \subseteq sync' /\ sync' \subseteq Messages /\ jobQueue' = jobQueue /\ running' = running
    BY <1>0 DEF Post, ExecutorType
<1>2. Overflow(jobQueue)' BY <1>0, <1>1 DEF ExecutorType, Overflow, FromSync
<1> DEFINE r == [pc |-> "mark", todo |-> Handlers, handler |-> "none"]
<1>3. r \in Request BY DEF Request, Handlers
<1>4. request' \in [Messages -> Request] /\ born' \in [Messages -> Nat]
    BY <1>0, <1>3 DEF Post, ExecutorType
<1>5. TypeOK'
    BY <1>0, <1>1, <1>2, <1>4 DEF Post, TypeOK, ExecutorType, Overflow, handlingVars, restVars
<1>6. ASSUME NEW k \in Messages, request'[k].pc \in {"send", "wait"}
      PROVE  k # m /\ request'[k] = request[k]
    BY <1>0, <1>6 DEF Post, ExecutorType
<1>7. ASSUME NEW k \in Messages PROVE Carried(k)' BY <1>1, <1>6 DEF Base, Carried
<1>8. WaiterHasJob' BY <1>1, <1>6 DEF Base, WaiterHasJob
<1> QED BY <1>5, <1>7, <1>8 DEF Base

LEMMA MarkKeepsBase ==
    ASSUME Base, NEW m \in Messages, Mark(m), UNCHANGED <<handlingVars, restVars>>
    PROVE  Base'
<1>0. ExecutorType /\ TypeOK BY DEF Base, TypeOK
<1>1. PICK h \in request[m].todo :
          request' = [request EXCEPT ![m] = [pc |-> "send", todo |-> @.todo \ {h}, handler |-> h]]
    BY DEF Mark
<1>2. request[m] \in Request BY <1>0 DEF ExecutorType
<1>3. h \in {"chat", "profile"} BY <1>2 DEF Request
<1> DEFINE r == [pc |-> "send", todo |-> request[m].todo \ {h}, handler |-> h]
<1>4. r \in Request BY <1>2, <1>3 DEF Request
<1>5. request' \in [Messages -> Request] BY <1>0, <1>1, <1>4 DEF ExecutorType
<1>6. interruptionMap' \in [Channels -> Nat] BY <1>0 DEF Mark, ExecutorType
<1>7. TypeOK'
    BY <1>0, <1>5, <1>6 DEF Mark, TypeOK, ExecutorType, FromSync, handlingVars, restVars
<1>8. ASSUME NEW k \in Messages PROVE Carried(k)'
    BY <1>0, <1>1, <1>3 DEF Mark, Base, Carried, ExecutorType
<1>9. WaiterHasJob' BY <1>0, <1>1 DEF Mark, Base, WaiterHasJob, ExecutorType
<1> QED BY <1>7, <1>8, <1>9 DEF Base

LEMMA SendKeepsBase ==
    ASSUME Base, NEW m \in Messages, Send(m), UNCHANGED <<handlingVars, restVars>>
    PROVE  Base'
<1>0. ExecutorType /\ TypeOK BY DEF Base, TypeOK
<1> DEFINE job == JobOf(m, request[m].handler)
<1>1. request[m] \in Request /\ request[m].handler \in {"chat", "profile"}
    BY <1>0 DEF Send, Base, Carried, ExecutorType
<1>2. job \in Job /\ job.msg = m /\ job.handler = request[m].handler BY <1>1 DEF Job, JobOf
<1>3. Overflow(jobQueue) /\ Capacity \in Nat /\ jobQueue \in Seq(Job)
    BY <1>0, ExecutorAssumption DEF ExecutorType, Overflow
<1> HIDE DEF job
<1>4. CASE m \in sync
    <2>1. /\ jobQueue' = Append(jobQueue, job) /\ outcome' = outcome
          /\ request' = [request EXCEPT ![m].pc = "wait"]
          /\ UNCHANGED <<now, born, at, sync, interruptionMap, running, cut>>
        BY <1>4 DEF Send, job, JobOf
    <2>2. /\ jobQueue' \in Seq(Job) /\ Len(jobQueue') = Len(jobQueue) + 1 /\ Len(jobQueue) \in Nat
          /\ \A i \in 1 .. Len(jobQueue) : jobQueue'[i] = jobQueue[i]
          /\ jobQueue'[Len(jobQueue) + 1] = job
          /\ \A x : Waiting(jobQueue', x) <=> Waiting(jobQueue, x) \/ x = job
        BY <1>2, <1>3, <2>1, QueueAppend
    <2>3. FromSync(job) BY <1>1, <1>2, <1>4 DEF FromSync
    <2>4. ASSUME NEW i \in 1 .. Len(jobQueue'), i > Capacity PROVE FromSync(jobQueue'[i])
        <3>1. i \in 1 .. Len(jobQueue) \/ i = Len(jobQueue) + 1 BY <2>2
        <3> QED BY <1>3, <2>2, <2>3, <2>4, <3>1 DEF Overflow
    <2>5. request' \in [Messages -> Request] BY <1>0, <1>1, <2>1 DEF ExecutorType, Request
    <2>6. TypeOK'
        BY <1>0, <2>1, <2>2, <2>4, <2>5 DEF TypeOK, ExecutorType, FromSync, handlingVars, restVars
    <2>7. /\ \A k \in Messages \ {m} : request'[k] = request[k]
          /\ request'[m].handler = request[m].handler
        BY <1>0, <1>1, <2>1 DEF ExecutorType, Request
    <2>8. ASSUME NEW k \in Messages PROVE Carried(k)'
        <3>1. CASE k = m BY <1>1, <1>4, <2>1, <2>7, <3>1 DEF Carried
        <3>2. CASE k # m BY <2>1, <2>7, <3>2 DEF Base, Carried
        <3> QED BY <3>1, <3>2
    <2>9. ASSUME NEW k \in Messages, request'[k].pc = "wait"
          PROVE  running' = JobOf(k, request'[k].handler) \/ Waiting(jobQueue', JobOf(k, request'[k].handler))
        <3>1. CASE k = m BY <2>2, <2>7, <3>1 DEF job
        <3>2. CASE k # m
            <4>1. running = JobOf(k, request[k].handler) \/ Waiting(jobQueue, JobOf(k, request[k].handler))
                BY <2>7, <2>9, <3>2 DEF Base, WaiterHasJob, JobOf, Waiting
            <4> QED BY <2>1, <2>2, <2>7, <3>2, <4>1
        <3> QED BY <3>1, <3>2
    <2>10. WaiterHasJob' BY <2>9 DEF WaiterHasJob, JobOf, Waiting
    <2> QED BY <2>6, <2>8, <2>10 DEF Base
<1>5. CASE m \notin sync
    <2>1. /\ jobQueue' = Queued(job)
          /\ request' = [request EXCEPT ![m] = NextHandler(@)]
          /\ outcome' = outcome \/ outcome' = [outcome EXCEPT ![m] = "dropped"]
          /\ UNCHANGED <<now, born, at, sync, interruptionMap, running, cut>>
        BY <1>5 DEF Send, job, JobOf
    <2>2. jobQueue' \in Seq(Job) /\ Overflow(jobQueue') /\ \A x : Waiting(jobQueue, x) => Waiting(jobQueue', x)
        BY <1>2, <1>3, <2>1, QueuedDoes
    <2>3. outcome' \in [Messages -> Outcomes] BY <1>0, <2>1 DEF ExecutorType, Outcomes
    <2>4. /\ request' \in [Messages -> Request]
          /\ \A k \in Messages : k # m => request'[k] = request[k]
          /\ request'[m].pc \in {"done", "mark"}
        BY <1>0, <1>1, <2>1, NextHandlerFields DEF ExecutorType
    <2>5. Overflow(jobQueue)' BY <2>1, <2>2 DEF Overflow, FromSync
    <2>6. TypeOK'
        BY <1>0, <2>1, <2>2, <2>3, <2>4, <2>5 DEF TypeOK, ExecutorType, Overflow, handlingVars, restVars
    <2>7. ASSUME NEW k \in Messages PROVE Carried(k)' BY <2>1, <2>4 DEF Base, Carried
    <2>8. ASSUME NEW k \in Messages, request'[k].pc = "wait"
          PROVE  running' = JobOf(k, request'[k].handler) \/ Waiting(jobQueue', JobOf(k, request'[k].handler))
        <3>1. k # m /\ request'[k] = request[k] BY <2>4, <2>8
        <3>2. running = JobOf(k, request[k].handler) \/ Waiting(jobQueue, JobOf(k, request[k].handler))
            BY <2>8, <3>1 DEF Base, WaiterHasJob, JobOf, Waiting
        <3> QED BY <2>1, <2>2, <3>1, <3>2
    <2>9. WaiterHasJob' BY <2>8 DEF WaiterHasJob, JobOf, Waiting
    <2> QED BY <2>6, <2>7, <2>9 DEF Base
<1> QED BY <1>4, <1>5

LEMMA TakeKeepsBase ==
    ASSUME Base, Take, UNCHANGED <<handlingVars, restVars>>
    PROVE  Base'
<1>0. ExecutorType /\ TypeOK BY DEF Base, TypeOK
<1>1. /\ jobQueue' = Tail(jobQueue) /\ running' = Head(jobQueue) /\ running = NoJob
      /\ jobQueue \in Seq(Job) /\ jobQueue # <<>>
      /\ UNCHANGED <<now, born, at, sync, request, interruptionMap, cut, outcome>>
    BY <1>0 DEF Take, ExecutorType
<1>2. /\ jobQueue' \in Seq(Job) /\ running' \in Job
      /\ Len(jobQueue) \in Nat /\ Len(jobQueue') = Len(jobQueue) - 1
      /\ \A i \in 1 .. Len(jobQueue') : i + 1 \in 1 .. Len(jobQueue) /\ jobQueue'[i] = jobQueue[i + 1]
      /\ \A x : Waiting(jobQueue, x) <=> x = running' \/ Waiting(jobQueue', x)
    BY <1>1, QueueTail
<1>3. ASSUME NEW i \in 1 .. Len(jobQueue'), i > Capacity PROVE FromSync(jobQueue'[i])
    <2>1. i + 1 > Capacity BY <1>2, <1>3, ExecutorAssumption
    <2> QED BY <1>0, <1>2, <2>1 DEF ExecutorType
<1>4. TypeOK'
    BY <1>0, <1>1, <1>2, <1>3 DEF TypeOK, ExecutorType, FromSync, handlingVars, restVars
<1>5. ASSUME NEW k \in Messages PROVE Carried(k)' BY <1>1 DEF Base, Carried
<1>6. ASSUME NEW k \in Messages, request[k].pc = "wait"
      PROVE  running' = JobOf(k, request[k].handler) \/ Waiting(jobQueue', JobOf(k, request[k].handler))
    <2>1. running # JobOf(k, request[k].handler)
        <3>1. JobOf(k, request[k].handler) \in Job BY <1>6 DEF JobOf, Job, Base, Carried
        <3> QED BY <1>1, <3>1, JobAssumption
    <2>2. Waiting(jobQueue, JobOf(k, request[k].handler))
        BY <1>6, <2>1 DEF Base, WaiterHasJob, JobOf, Waiting
    <2> QED BY <1>2, <2>2
<1>7. WaiterHasJob' BY <1>1, <1>6 DEF WaiterHasJob, JobOf, Waiting
<1> QED BY <1>4, <1>5, <1>7 DEF Base

LEMMA SignalsKeepsBase ==
    ASSUME Base, NEW m \in Messages, Signals(m)
    PROVE  Base'
<1>0. ExecutorType /\ TypeOK BY DEF Base, TypeOK
<1>1. /\ UNCHANGED <<now, born, at, sync, cut, request, running, outcome>>
      /\ interruptionMap' \in [Channels -> Nat] /\ jobQueue' \in Seq(Job) /\ Overflow(jobQueue')
      /\ \A x : Waiting(jobQueue, x) => Waiting(jobQueue', x)
    BY <1>0, EchoDoes DEF Signals, Echo
<1>2. Overflow(jobQueue)' BY <1>1 DEF Overflow, FromSync
<1>3. TypeOK'
    BY <1>0, <1>1, <1>2 DEF Signals, TypeOK, ExecutorType, Overflow, handlingVars
<1>4. WaiterHasJob' BY <1>1 DEF Base, WaiterHasJob, Waiting
<1> QED BY <1>1, <1>3, <1>4 DEF Base, Carried

\* Steps that leave requests, queue and worker alone.
LEMMA OthersKeepBase ==
    ASSUME Base, UNCHANGED <<born, at, sync, request, interruptionMap, jobQueue, running, outcome>>,
           now' \in Nat, cut' \subseteq Messages, engaged' \subseteq Channels,
           claimed' \subseteq Messages, lapsed' \subseteq Messages, faults' \in Nat,
           UNCHANGED <<handler, claimants, replies, signalled, crashes>>
    PROVE  Base'
<1>1. TypeOK' BY DEF Base, TypeOK, ExecutorType, FromSync
<1> QED BY <1>1 DEF Base, Carried, WaiterHasJob

LEMMA CrashKeepsBase ==
    ASSUME Base, Crash
    PROVE  Base'
<1>0. ExecutorType /\ TypeOK BY DEF Base, TypeOK
<1> DEFINE r == [pc |-> "done", todo |-> {}, handler |-> "none"]
<1>1. r \in Request BY DEF Request
<1>2. request' \in [Messages -> Request] BY <1>0, <1>1 DEF Crash, ExecutorCrash, ExecutorType
<1>3. outcome' \in [Messages -> Outcomes]
    BY <1>0 DEF Crash, ExecutorCrash, ExecutorType, Outcomes
<1>4. ExecutorType'
    BY <1>0, <1>2, <1>3 DEF Crash, ExecutorCrash, ExecutorType
<1>5. Fresh \in Handler BY DEF Fresh, Handler
<1>6. TypeOK' BY <1>0, <1>4, <1>5 DEF Crash, Fault, TypeOK
<1>7. ASSUME NEW k \in Messages PROVE request'[k].pc \in {"none", "done"}
    BY <1>0 DEF Crash, ExecutorCrash, ExecutorType
<1>8. (\A k \in Messages : Carried(k)') /\ WaiterHasJob' BY <1>7 DEF Carried, WaiterHasJob
<1> QED BY <1>6, <1>8 DEF Base

LEMMA StepKeepsBase == Base /\ [Next]_vars => Base'
<1> SUFFICES ASSUME Base, [Next]_vars PROVE Base' OBVIOUS
<1>0. ExecutorType /\ TypeOK BY DEF Base, TypeOK
<1>a. /\ now \in Nat /\ cut \subseteq Messages /\ engaged \subseteq Channels
      /\ claimed \subseteq Messages /\ lapsed \subseteq Messages /\ faults \in Nat
    BY <1>0 DEF TypeOK, ExecutorType
<1>1. ASSUME NEW m \in Messages, Client(m) PROVE Base'
    BY <1>1, PostKeepsBase DEF Client
<1>2. ASSUME NEW m \in Messages, Submit(m) PROVE Base'
    BY <1>2, MarkKeepsBase, SendKeepsBase DEF Submit
<1>3. ASSUME NEW m \in Messages, Signals(m) PROVE Base' BY <1>3, SignalsKeepsBase
<1>4. ASSUME NEW m \in Messages, ContextDone(m) PROVE Base'
    BY <1>4, <1>a, OthersKeepBase DEF ContextDone, CutOff, Fault, handlingVars
<1>5. ASSUME NEW m \in Messages, ExpireClaim(m) PROVE Base'
    BY <1>5, <1>a, OthersKeepBase DEF ExpireClaim, Fault, executorVars
<1>6. CASE TakeJob BY <1>6, TakeKeepsBase DEF TakeJob
<1>7. CASE Work
    <2>1. ASSUME NEW m \in Messages, Step(m) PROVE Does(m) BY <1>0, <2>1, StepDoes DEF TypeOK
    <2>2. CASE \E m \in Messages : Step(m) BY <1>7, <2>1, <2>2, DoesKeepsBase DEF Work
    <2>3. CASE Profile
        <3>1. Return("none") /\ "none" \in Outcomes
              /\ UNCHANGED <<now, born, at, sync, interruptionMap, jobQueue, cut>>
            BY <2>3 DEF Profile, End, Outcomes
        <3>2. (\A k \in Messages : Carried(k)') /\ WaiterHasJob' BY <3>1, ReturnServes
        <3>3. ExecutorType' BY <1>0, <3>1, ReturnDoes DEF ExecutorType, FromSync
        <3>4. TypeOK' BY <1>0, <1>7, <2>3, <3>3 DEF TypeOK, Work, Profile, handlingVars, restVars
        <3> QED BY <3>2, <3>4 DEF Base
    <2> QED BY <1>7, <2>2, <2>3 DEF Work
<1>8. CASE Clock
    BY <1>8, <1>a, OthersKeepBase DEF Clock, Tick, handlingVars, restVars
<1>9. CASE Panic
    <2>1. Leave("panicked") /\ "panicked" \in Outcomes BY <1>9 DEF Panic, Outcomes
    <2> QED BY <1>0, <1>9, <2>1, LeaveKeepsBase DEF Panic, Fault, TypeOK
<1>10. CASE Crash BY <1>10, CrashKeepsBase
<1>11. ASSUME NEW c \in Channels, ExpireEngaged(c) PROVE Base'
    BY <1>11, <1>a, OthersKeepBase DEF ExpireEngaged, Fault, executorVars
<1>12. CASE UNCHANGED vars
    BY <1>12, <1>a, OthersKeepBase DEF vars, executorVars, handlingVars, restVars
<1> QED BY <1>1, <1>2, <1>3, <1>4, <1>5, <1>6, <1>7, <1>8, <1>9, <1>10, <1>11, <1>12 DEF Next

\* The state has its types; beyond its buffer the queue holds blocked sync senders only.
THEOREM TypeCorrect == Spec => []TypeOK
<1>1. Spec => []Base BY InitBase, StepKeepsBase, PTL DEF Spec
<1>2. Base => TypeOK BY DEF Base
<1> QED BY <1>1, <1>2, PTL

\* A sync client that waits has its job in the queue or on the worker.
THEOREM WaitersAreServed == Spec => []WaiterHasJob
<1>1. Spec => []Base BY InitBase, StepKeepsBase, PTL DEF Spec
<1>2. Base => WaiterHasJob BY DEF Base
<1> QED BY <1>1, <1>2, PTL

-----------------------------------------------------------------------------
(* The engagement lock.                                                    *)

Chatting(m) == running = JobOf(m, "chat")

\* Between two message handlers there is no handler state.
Idle == (\A m \in Messages : ~Chatting(m)) => handler = Fresh

\* Without a restart a key is there only while the handler that set it runs.
Locks ==
    /\ Idle
    /\ crashes = 0 => \A c \in engaged : Held /\ \E m \in Messages : Chatting(m) /\ c = at[m]
    /\ LockFoundFree

\* A handler leaves: its lock is gone and the worker is free.
LEMMA LeaveFrees ==
    ASSUME Base, Locks, NEW o \in Outcomes, Leave(o), crashes' = crashes,
           o = "exited" => \E c \in engaged : ~Held
    PROVE  Locks'
<1>0. ExecutorType /\ TypeOK BY DEF Base, TypeOK
<1>1. Return(o) /\ at' = at /\ handler' = Fresh
      /\ engaged' = IF Held THEN engaged \ {at[running.msg]} ELSE engaged
    BY DEF Leave, End
<1>2. running' = NoJob BY <1>0, <1>1, ReturnDoes
<1>3. ASSUME NEW m \in Messages, crashes = 0 PROVE outcome'[m] # "exited"
    <2>1. outcome'[m] = outcome[m] \/ outcome'[m] = o BY <1>0, <1>1, ReturnDoes
    <2> QED BY <1>3, <2>1 DEF Locks, LockFoundFree
<1>4. ASSUME crashes = 0 PROVE engaged' = {}
    <2> SUFFICES ASSUME NEW c \in engaged PROVE Held /\ c = at[running.msg]
        BY <1>1
    <2>1. PICK m \in Messages : Chatting(m) /\ c = at[m] /\ Held BY <1>4 DEF Locks
    <2>2. running.msg = m BY <2>1 DEF Chatting, JobOf
    <2> QED BY <2>1, <2>2
<1>5. LockFoundFree' BY <1>3 DEF LockFoundFree
<1>6. Idle' BY <1>1 DEF Idle
<1> QED BY <1>4, <1>5, <1>6 DEF Locks

LEMMA DoesKeepsLocks ==
    ASSUME Base, Locks, NEW m \in Messages, Does(m), UNCHANGED restVars
    PROVE  Locks'
<1>0. ExecutorType /\ TypeOK /\ handler.pc \in Pcs BY DEF Base, TypeOK, Handler, Pcs
<1>a. Chatting(m) BY DEF Does, Chatting, JobOf
<1>b. Held <=> handler.pc \notin Early BY <1>0 DEF Held, Early, Pcs
<1>1. ASSUME UNCHANGED executorVars, Held', engaged' \subseteq engaged \union {at[m]}
      PROVE  Locks'
    <2>1. running' = running /\ at' = at /\ outcome' = outcome BY <1>1 DEF executorVars
    <2>2. Chatting(m)' BY <1>a, <2>1 DEF Chatting
    <2>3. crashes' = crashes BY DEF restVars
    <2>4. ASSUME crashes = 0, NEW c \in engaged PROVE c = at[m]
        <3>1. PICK k \in Messages : Chatting(k) /\ c = at[k] BY <2>4 DEF Locks
        <3>2. k = m BY <1>a, <3>1 DEF Chatting, JobOf
        <3> QED BY <3>1, <3>2
    <2>5. Idle' BY <2>2 DEF Idle
    <2>6. LockFoundFree' BY <2>1, <2>3 DEF Locks, LockFoundFree
    <2> QED BY <1>1, <2>1, <2>2, <2>3, <2>4, <2>5, <2>6 DEF Locks
<1>2. CASE Moves(m)
    <2>1. UNCHANGED executorVars /\ engaged' = engaged /\ handler' \in Handler
          /\ (handler'.pc \in Early <=> handler.pc \in Early)
        BY <1>2 DEF Moves, Become
    <2>2. Held' <=> handler'.pc \notin Early BY <2>1 DEF Held, Early, Handler
    <2>3. CASE Held BY <1>1, <1>b, <2>1, <2>2, <2>3
    <2>4. CASE ~Held
        <3>1. running' = running /\ at' = at /\ outcome' = outcome BY <2>1 DEF executorVars
        <3>2. crashes' = crashes BY DEF restVars
        <3>3. Chatting(m)' BY <1>a, <3>1 DEF Chatting
        <3>4. Idle' BY <3>3 DEF Idle
        <3>5. crashes = 0 => engaged = {} BY <2>4 DEF Locks
        <3>6. LockFoundFree' BY <3>1, <3>2 DEF Locks, LockFoundFree
        <3> QED BY <2>1, <3>2, <3>4, <3>5, <3>6 DEF Locks
    <2> QED BY <2>3, <2>4
<1>3. CASE Leaves(m)
    <2>1. PICK o \in Outcomes : Leave(o) /\ (o = "exited" => ~Held /\ at[m] \in engaged)
        BY <1>3 DEF Leaves
    <2>2. crashes' = crashes BY DEF restVars
    <2> QED BY <2>1, <2>2, LeaveFrees
<1>4. CASE Engages(m)
    <2>1. UNCHANGED executorVars /\ engaged' = engaged \union {at[m]} BY <1>4 DEF Engages
    <2>2. PICK pc \in {"decide", "gather"} : handler' = [handler EXCEPT !.pc = pc, !.image = FALSE]
        BY <1>4 DEF Engages
    <2>3. handler'.pc = pc BY <1>0, <2>2 DEF TypeOK, Handler
    <2> QED BY <1>1, <2>1, <2>2, <2>3 DEF Held
<1>5. CASE ClaimsNow(m)
    <2>1. PICK pc \in {"recheck", "stream"} : Claim(m, pc) BY <1>5 DEF ClaimsNow
    <2>2. UNCHANGED <<executorVars, engaged>> /\ handler'.pc = pc
        BY <1>0, <2>1 DEF Claim, TypeOK, Handler
    <2> QED BY <1>1, <2>1, <2>2 DEF Held
<1>6. CASE Replies(m)
    <2>1. UNCHANGED <<executorVars, engaged>> /\ handler'.pc = "emit"
        BY <1>0, <1>6 DEF Replies, TypeOK, Handler
    <2> QED BY <1>1, <2>1 DEF Held
<1>7. CASE Emits(m)
    <2>1. /\ Return("answered") /\ "answered" \in Outcomes /\ at' = at
          /\ handler' = Fresh /\ engaged' = engaged \ {at[m]}
        BY <1>7 DEF Emits, Emit, Echo, Outcomes
    <2>2. crashes' = crashes BY DEF restVars
    <2>3. crashes = 0 => engaged' = {}
        <3> SUFFICES ASSUME crashes = 0, NEW c \in engaged PROVE c = at[m]
            BY <2>1
        <3>1. PICK k \in Messages : Chatting(k) /\ c = at[k] BY DEF Locks
        <3>2. k = m BY <1>a, <3>1 DEF Chatting, JobOf
        <3> QED BY <3>1, <3>2
    <2>4. ASSUME NEW k \in Messages, crashes = 0 PROVE outcome'[k] # "exited"
        <3>1. outcome'[k] = outcome[k] \/ outcome'[k] = "answered" BY <1>0, <2>1, ReturnDoes
        <3> QED BY <2>4, <3>1 DEF Locks, LockFoundFree
    <2>5. LockFoundFree' BY <2>2, <2>4 DEF LockFoundFree
    <2>6. Idle' BY <2>1 DEF Idle
    <2> QED BY <2>2, <2>3, <2>5, <2>6 DEF Locks
<1> QED BY <1>2, <1>3, <1>4, <1>5, <1>6, <1>7 DEF Does

\* Steps beside the worker.
LEMMA OthersKeepLocks ==
    ASSUME Locks, UNCHANGED <<at, running, handler, crashes>>, engaged' \subseteq engaged,
           \A m \in Messages : outcome'[m] = outcome[m] \/ outcome'[m] = "dropped"
    PROVE  Locks'
<1>1. Idle' BY DEF Locks, Idle, Chatting
<1>2. LockFoundFree' BY DEF Locks, LockFoundFree
<1>3. crashes' = 0 => \A c \in engaged' : Held' /\ \E m \in Messages : Chatting(m)' /\ c = at'[m]
    BY DEF Locks, Held, Chatting
<1> QED BY <1>1, <1>2, <1>3 DEF Locks

LEMMA StepKeepsLocks == Base /\ Locks /\ [Next]_vars => Locks'
<1> SUFFICES ASSUME Base, Locks, [Next]_vars PROVE Locks' OBVIOUS
<1>0. ExecutorType /\ TypeOK BY DEF Base, TypeOK
<1>1. ASSUME NEW m \in Messages, Client(m) PROVE Locks'
    BY <1>1, OthersKeepLocks DEF Client, Post, handlingVars, restVars
<1>2. ASSUME NEW m \in Messages, Submit(m) PROVE Locks'
    <2>1. UNCHANGED <<at, running, handler, crashes, engaged>>
        BY <1>2 DEF Submit, Mark, Send, handlingVars, restVars
    <2>2. outcome' = outcome \/ outcome' = [outcome EXCEPT ![m] = "dropped"]
        BY <1>2 DEF Submit, Mark, Send
    <2>3. \A k \in Messages : outcome'[k] = outcome[k] \/ outcome'[k] = "dropped"
        BY <1>0, <2>2 DEF ExecutorType
    <2> QED BY <2>1, <2>3, OthersKeepLocks
<1>3. ASSUME NEW m \in Messages, Signals(m) PROVE Locks'
    BY <1>3, OthersKeepLocks DEF Signals, Echo, handlingVars
<1>4. ASSUME NEW m \in Messages, ContextDone(m) PROVE Locks'
    BY <1>4, OthersKeepLocks DEF ContextDone, CutOff, handlingVars
<1>5. ASSUME NEW m \in Messages, ExpireClaim(m) PROVE Locks'
    BY <1>5, OthersKeepLocks DEF ExpireClaim, executorVars
<1>6. CASE TakeJob
    <2>1. /\ running = NoJob /\ outcome' = outcome /\ at' = at
          /\ UNCHANGED <<handler, engaged, crashes>>
        BY <1>6 DEF TakeJob, Take, handlingVars, restVars
    <2>2. ASSUME NEW m \in Messages PROVE ~Chatting(m)
        <3>1. JobOf(m, "chat") \in Job BY DEF JobOf, Job
        <3> QED BY <2>1, <3>1, JobAssumption DEF Chatting
    <2>3. handler = Fresh BY <2>2 DEF Locks, Idle
    <2>4. Idle' BY <2>1, <2>3 DEF Idle, Fresh
    <2>5. LockFoundFree' BY <2>1 DEF Locks, LockFoundFree
    <2>6. crashes = 0 => engaged = {} BY <2>2 DEF Locks
    <2> QED BY <2>1, <2>4, <2>5, <2>6 DEF Locks
<1>7. CASE Work
    <2>1. ASSUME NEW m \in Messages, Step(m) PROVE Does(m) BY <1>0, <2>1, StepDoes DEF TypeOK
    <2>2. CASE \E m \in Messages : Step(m) BY <1>7, <2>1, <2>2, DoesKeepsLocks DEF Work
    <2>3. CASE Profile
        <3>1. /\ Return("none") /\ "none" \in Outcomes /\ at' = at
              /\ UNCHANGED <<handler, engaged, crashes>>
            BY <1>7, <2>3 DEF Work, Profile, End, Outcomes, handlingVars, restVars
        <3>2. ASSUME NEW m \in Messages PROVE ~Chatting(m)
            BY <2>3 DEF Profile, Chatting, JobOf
        <3>3. handler = Fresh BY <3>2 DEF Locks, Idle
        <3>4. Idle' BY <3>1, <3>3 DEF Idle, Fresh
        <3>5. \A k \in Messages : outcome'[k] = outcome[k]
            BY <1>0, <3>1, <3>2, ReturnDoes DEF Chatting
        <3>6. LockFoundFree' BY <3>1, <3>5 DEF Locks, LockFoundFree
        <3>7. crashes = 0 => engaged = {} BY <3>2 DEF Locks
        <3> QED BY <3>1, <3>4, <3>6, <3>7 DEF Locks
    <2> QED BY <1>7, <2>2, <2>3 DEF Work
<1>8. CASE Clock
    BY <1>8, OthersKeepLocks DEF Clock, Tick, handlingVars, restVars
<1>9. CASE Panic
    <2>1. Leave("panicked") /\ "panicked" \in Outcomes /\ crashes' = crashes BY <1>9 DEF Panic, Outcomes
    <2> QED BY <2>1, LeaveFrees
<1>10. CASE Crash
    <2>1. crashes' # 0 BY <1>0, <1>10 DEF Crash, TypeOK
    <2>2. Idle' BY <1>10 DEF Crash, Idle
    <2> QED BY <2>1, <2>2 DEF Locks, LockFoundFree
<1>11. ASSUME NEW c \in Channels, ExpireEngaged(c) PROVE Locks'
    BY <1>11, OthersKeepLocks DEF ExpireEngaged, executorVars
<1>12. CASE UNCHANGED vars
    BY <1>12, OthersKeepLocks DEF vars, executorVars, handlingVars, restVars
<1> QED BY <1>1, <1>2, <1>3, <1>4, <1>5, <1>6, <1>7, <1>8, <1>9, <1>10, <1>11, <1>12 DEF Next

\* Until the first restart, no handler finds the engagement lock taken.
THEOREM LockIsFree == Spec => []LockFoundFree
<1>1. Init => Base /\ Locks
    BY InitBase DEF Init, ExecutorInit, Locks, Idle, LockFoundFree
<1>2. Base /\ Locks /\ [Next]_vars => (Base /\ Locks)' BY StepKeepsBase, StepKeepsLocks
<1>3. Base /\ Locks => LockFoundFree BY DEF Locks
<1> QED BY <1>1, <1>2, <1>3, PTL DEF Spec

-----------------------------------------------------------------------------
(* Claims and replies.                                                     *)

Replied == 1 .. Len(replies)

\* What a reply was given is claimed, or the claim has expired: already when it is
\* generated,
Covered == \A i \in Replied : replies[i].ctx \subseteq claimed \union lapsed
Covers  == \A m \in Messages : Chatting(m) /\ Live(m) /\ handler.pc \in {"recheck", "stream"}
              => handler.ctx \subseteq claimed \union lapsed
\* and who is past the check was in no reply, unless the claim had expired.
Checked == \A m \in Messages :
    Chatting(m) /\ Live(m) /\ at[m] \notin Private /\ handler.pc \notin {"begin", "emit"}
    => \A i \in Replied : m \in replies[i].ctx => m \in lapsed

Answers == Covered /\ Covers /\ Checked /\ NoDoubleAnswer

\* Steps after which nobody handles a message any more, or its handler is where it
\* was, or just begins.
LEMMA OthersKeepAnswers ==
    ASSUME Answers, UNCHANGED <<at, replies>>, cut \subseteq cut',
           claimed \union lapsed \subseteq claimed' \union lapsed', lapsed \subseteq lapsed',
           \A m \in Messages : Chatting(m)' =>
               (Chatting(m) /\ handler' = handler) \/ handler'.pc = "begin"
    PROVE  Answers'
<1>1. Covered' BY DEF Answers, Covered, Replied
<1>2. ASSUME NEW m \in Messages, Chatting(m)', Live(m)', handler'.pc # "begin"
      PROVE  Chatting(m) /\ Live(m) /\ handler' = handler
    BY <1>2 DEF Live
<1>3. Covers' BY <1>2 DEF Answers, Covers
<1>4. Checked' BY <1>2 DEF Answers, Checked, Replied
<1>5. NoDoubleAnswer' BY DEF Answers, NoDoubleAnswer
<1> QED BY <1>1, <1>3, <1>4, <1>5 DEF Answers

LEMMA FreedKeepsAnswers ==
    ASSUME Answers, UNCHANGED <<at, replies, cut, claimed, lapsed>>, running' = NoJob
    PROVE  Answers'
<1>1. \A m \in Messages : ~Chatting(m)' BY JobAssumption DEF Chatting, JobOf, Job
<1> QED BY <1>1, OthersKeepAnswers

LEMMA LeaveKeepsAnswers ==
    ASSUME Base, Answers, NEW o \in Outcomes, Leave(o), lapsed' = lapsed
    PROVE  Answers'
<1>1. UNCHANGED <<at, replies, cut, claimed>> /\ running' = NoJob
    BY DEF Leave, End, Return
<1> QED BY <1>1, FreedKeepsAnswers

LEMMA DoesKeepsAnswers ==
    ASSUME Base, Answers, NEW m \in Messages, Does(m), UNCHANGED restVars
    PROVE  Answers'
<1>0. ExecutorType /\ TypeOK /\ lapsed' = lapsed BY DEF Base, TypeOK, restVars
<1>a. Chatting(m) /\ \A k \in Messages : Chatting(k) => k = m BY DEF Does, Chatting, JobOf
\* The handler of m goes on to another place.
<1>1. ASSUME UNCHANGED executorVars, replies' = replies, claimed \subseteq claimed',
             Live(m) /\ handler'.pc \in {"recheck", "stream"} => handler'.ctx \subseteq claimed' \union lapsed,
             Live(m) /\ at[m] \notin Private /\ handler'.pc \notin {"begin", "emit"} =>
                 \/ handler.pc \notin {"begin", "emit"}
                 \/ m \notin claimed
      PROVE  Answers'
    <2>1. UNCHANGED <<running, at, cut>> BY <1>1 DEF executorVars
    <2>2. Covered' BY <1>0, <1>1 DEF Answers, Covered, Replied
    <2>3. \A k \in Messages : (Chatting(k)' <=> Chatting(k)) /\ (Live(k)' <=> Live(k))
        BY <2>1 DEF Chatting, Live
    <2>4. Covers' BY <1>0, <1>1, <1>a, <2>3 DEF Covers
    <2>5. ASSUME Live(m), at[m] \notin Private, handler'.pc \notin {"begin", "emit"},
                 NEW i \in Replied, m \in replies[i].ctx
          PROVE  m \in lapsed
        <3>1. CASE handler.pc \notin {"begin", "emit"} BY <1>a, <2>5, <3>1 DEF Answers, Checked
        <3>2. CASE m \notin claimed BY <2>5, <3>2 DEF Answers, Covered
        <3> QED BY <1>1, <2>5, <3>1, <3>2
    <2>6. Checked' BY <1>0, <1>1, <1>a, <2>1, <2>3, <2>5 DEF Checked, Replied
    <2>7. NoDoubleAnswer' BY <1>0, <1>1, <2>1 DEF Answers, NoDoubleAnswer
    <2> QED BY <2>2, <2>4, <2>6, <2>7 DEF Answers
<1>2. CASE Moves(m)
    <2>1. /\ UNCHANGED <<executorVars, claimed, replies>>
          /\ handler.pc # "emit" /\ handler'.pc \notin {"begin", "emit"}
          /\ handler.pc = "begin" /\ at[m] \notin Private => m \notin claimed \/ ~Live(m)
          /\ handler'.pc \in Late => handler.pc \in Late /\ handler'.ctx = handler.ctx
        BY <1>2 DEF Moves, Become
    <2>2. Live(m) /\ handler'.pc \in {"recheck", "stream"} => handler'.ctx \subseteq claimed' \union lapsed
        BY <1>a, <2>1 DEF Late, Answers, Covers
    <2> QED BY <1>1, <2>1, <2>2
<1>3. CASE Leaves(m)
    <2>1. PICK o \in Outcomes : Leave(o) BY <1>3 DEF Leaves
    <2> QED BY <1>0, <2>1, LeaveKeepsAnswers
<1>4. CASE Engages(m)
    <2>1. PICK pc \in {"decide", "gather"} : handler' = [handler EXCEPT !.pc = pc, !.image = FALSE]
        BY <1>4 DEF Engages
    <2>2. handler'.pc = pc BY <1>0, <2>1 DEF TypeOK, Handler
    <2> QED BY <1>1, <1>4, <2>2 DEF Engages
<1>5. CASE ClaimsNow(m)
    <2>1. PICK pc \in {"recheck", "stream"} : Claim(m, pc) BY <1>5 DEF ClaimsNow
    <2>2. handler'.pc = pc /\ handler'.ctx = handler.ctx BY <1>0, <2>1 DEF Claim, TypeOK, Handler
    <2>3. Live(m) => handler.ctx \subseteq claimed' BY <2>1 DEF Claim, Claims
    <2>4. UNCHANGED <<executorVars, replies>> /\ claimed \subseteq claimed' BY <2>1 DEF Claim
    <2>5. handler.pc \notin {"begin", "emit"} BY <1>5 DEF ClaimsNow
    <2> QED BY <1>1, <2>2, <2>3, <2>4, <2>5
<1>6. CASE Replies(m)
    <2>1. /\ replies' = Append(replies, [msg |-> m, ctx |-> handler.ctx])
          /\ UNCHANGED <<executorVars, claimed>> /\ handler.pc = "stream" /\ Live(m)
        BY <1>6 DEF Replies
    <2>2. handler'.pc = "emit" BY <1>0, <1>6 DEF Replies, TypeOK, Handler
    <2>3. UNCHANGED <<running, at, cut>> BY <2>1 DEF executorVars
    <2>4. [msg |-> m, ctx |-> handler.ctx] \in Reply BY <1>0 DEF TypeOK, Handler, Reply
    <2>5. replies \in Seq(Reply) BY <1>0 DEF TypeOK
    <2>6. /\ Len(replies) \in Nat /\ Len(replies') = Len(replies) + 1
          /\ \A i \in Replied : replies'[i] = replies[i]
          /\ replies'[Len(replies) + 1] = [msg |-> m, ctx |-> handler.ctx]
        BY <2>1, <2>4, <2>5 DEF Replied
    <2>7. Replied' = Replied \union {Len(replies) + 1} BY <2>6 DEF Replied
    <2>8. handler.ctx \subseteq claimed \union lapsed BY <1>a, <2>1 DEF Answers, Covers
    <2>9. Covered'
        <3>1. ASSUME NEW i \in Replied PROVE replies'[i].ctx \subseteq claimed \union lapsed
            BY <2>6, <3>1 DEF Answers, Covered
        <3>2. replies'[Len(replies) + 1].ctx \subseteq claimed \union lapsed BY <2>6, <2>8
        <3>3. claimed' = claimed BY <2>1
        <3> QED BY <1>0, <2>7, <3>1, <3>2, <3>3 DEF Covered
    <2>10. Covers' /\ Checked' BY <2>2 DEF Covers, Checked
    <2>11. at[m] \notin Private => \A i \in Replied : m \in replies[i].ctx => m \in lapsed
        BY <1>a, <2>1 DEF Answers, Checked
    <2>12. NoDoubleAnswer'
        <3> SUFFICES ASSUME NEW i \in Replied', NEW j \in Replied', i < j,
                            replies'[j].msg \in replies'[i].ctx, at[replies'[j].msg] \notin Private
                     PROVE  replies'[j].msg \in lapsed
            BY <1>0, <2>3 DEF NoDoubleAnswer, Replied
        <3>1. i \in Replied BY <2>6, <2>7 DEF Replied
        <3>2. CASE j \in Replied BY <2>6, <3>1, <3>2 DEF Answers, NoDoubleAnswer, Replied
        <3>3. CASE j = Len(replies) + 1 BY <2>6, <2>11, <3>1, <3>3
        <3> QED BY <2>7, <3>2, <3>3
    <2> QED BY <2>9, <2>10, <2>12 DEF Answers
<1>7. CASE Emits(m)
    <2>1. UNCHANGED <<at, replies, cut, claimed>> /\ running' = NoJob
        BY <1>7 DEF Emits, Emit, Echo, Return
    <2> QED BY <1>0, <2>1, FreedKeepsAnswers
<1> QED BY <1>2, <1>3, <1>4, <1>5, <1>6, <1>7 DEF Does

LEMMA StepKeepsAnswers == Base /\ Locks /\ Answers /\ [Next]_vars => Answers'
<1> SUFFICES ASSUME Base, Locks, Answers, [Next]_vars PROVE Answers' OBVIOUS
<1>0. ExecutorType /\ TypeOK BY DEF Base, TypeOK
<1>1. ASSUME NEW m \in Messages, Client(m) PROVE Answers'
    <2>1. UNCHANGED <<at, replies, cut, claimed, lapsed, running, handler>>
        BY <1>1 DEF Client, Post, handlingVars, restVars
    <2> QED BY <2>1, OthersKeepAnswers DEF Chatting
<1>2. ASSUME NEW m \in Messages, Submit(m) PROVE Answers'
    <2>1. UNCHANGED <<at, replies, cut, claimed, lapsed, running, handler>>
        BY <1>2 DEF Submit, Mark, Send, handlingVars, restVars
    <2> QED BY <2>1, OthersKeepAnswers DEF Chatting
<1>3. ASSUME NEW m \in Messages, Signals(m) PROVE Answers'
    <2>1. UNCHANGED <<at, replies, cut, claimed, lapsed, running, handler>>
        BY <1>3 DEF Signals, Echo, handlingVars
    <2> QED BY <2>1, OthersKeepAnswers DEF Chatting
<1>4. ASSUME NEW m \in Messages, ContextDone(m) PROVE Answers'
    <2>1. UNCHANGED <<at, replies, claimed, lapsed, running, handler>> /\ cut \subseteq cut'
        BY <1>4 DEF ContextDone, CutOff, handlingVars
    <2> QED BY <2>1, OthersKeepAnswers DEF Chatting
<1>5. ASSUME NEW m \in Messages, ExpireClaim(m) PROVE Answers'
    <2>1. /\ UNCHANGED <<at, replies, cut, running, handler>>
          /\ claimed' = claimed \ {m} /\ lapsed' = lapsed \union {m}
        BY <1>5 DEF ExpireClaim, executorVars
    <2> QED BY <2>1, OthersKeepAnswers DEF Chatting
<1>6. CASE TakeJob
    <2>1. UNCHANGED <<at, replies, cut, claimed, lapsed, handler>> /\ running = NoJob
        BY <1>6 DEF TakeJob, Take, handlingVars, restVars
    <2>2. \A m \in Messages : ~Chatting(m) BY <2>1, JobAssumption DEF Chatting, JobOf, Job
    <2>3. handler'.pc = "begin" BY <2>1, <2>2 DEF Locks, Idle, Fresh
    <2> QED BY <2>1, <2>3, OthersKeepAnswers
<1>7. CASE Work
    <2>1. ASSUME NEW m \in Messages, Step(m) PROVE Does(m) BY <1>0, <2>1, StepDoes DEF TypeOK
    <2>2. CASE \E m \in Messages : Step(m) BY <1>7, <2>1, <2>2, DoesKeepsAnswers DEF Work
    <2>3. CASE Profile
        <3>1. UNCHANGED <<at, replies, cut, claimed, lapsed>> /\ running' = NoJob
            BY <1>7, <2>3 DEF Work, Profile, End, Return, handlingVars, restVars
        <3> QED BY <3>1, FreedKeepsAnswers
    <2> QED BY <1>7, <2>2, <2>3 DEF Work
<1>8. CASE Clock
    <2>1. UNCHANGED <<at, replies, cut, claimed, lapsed, running, handler>>
        BY <1>8 DEF Clock, Tick, handlingVars, restVars
    <2> QED BY <2>1, OthersKeepAnswers DEF Chatting
<1>9. CASE Panic
    <2>1. Leave("panicked") /\ "panicked" \in Outcomes /\ lapsed' = lapsed BY <1>9 DEF Panic, Outcomes
    <2> QED BY <2>1, LeaveKeepsAnswers
<1>10. CASE Crash
    <2>1. UNCHANGED <<at, replies, cut, claimed, lapsed>> /\ running' = NoJob
        BY <1>10 DEF Crash, ExecutorCrash
    <2> QED BY <2>1, FreedKeepsAnswers
<1>11. ASSUME NEW c \in Channels, ExpireEngaged(c) PROVE Answers'
    <2>1. UNCHANGED <<at, replies, cut, claimed, lapsed, running, handler>>
        BY <1>11 DEF ExpireEngaged, executorVars
    <2> QED BY <2>1, OthersKeepAnswers DEF Chatting
<1>12. CASE UNCHANGED vars
    <2>1. UNCHANGED <<at, replies, cut, claimed, lapsed, running, handler>>
        BY <1>12 DEF vars, executorVars, handlingVars, restVars
    <2> QED BY <2>1, OthersKeepAnswers DEF Chatting
<1> QED BY <1>1, <1>2, <1>3, <1>4, <1>5, <1>6, <1>7, <1>8, <1>9, <1>10, <1>11, <1>12 DEF Next

\* A public message that a reply was given as context gets no reply of its own later,
\* unless its claim expired.
THEOREM AnsweredOnce == Spec => []NoDoubleAnswer
<1>1. Init => Base /\ Locks /\ Answers
    <2> SUFFICES ASSUME Init PROVE Base /\ Locks /\ Answers OBVIOUS
    <2>1. Base /\ Locks BY InitBase DEF Init, ExecutorInit, Locks, Idle, LockFoundFree
    <2>2. \A m \in Messages : ~Chatting(m)
        BY JobAssumption DEF Init, ExecutorInit, Chatting, JobOf, Job
    <2>3. replies = <<>> BY DEF Init
    <2>4. Answers BY <2>2, <2>3 DEF Answers, Covered, Covers, Checked, NoDoubleAnswer, Replied
    <2> QED BY <2>1, <2>4
<1>2. Base /\ Locks /\ Answers /\ [Next]_vars => (Base /\ Locks /\ Answers)'
    BY StepKeepsBase, StepKeepsLocks, StepKeepsAnswers
<1>3. Base /\ Locks /\ Answers => NoDoubleAnswer BY DEF Answers
<1> QED BY <1>1, <1>2, <1>3, PTL DEF Spec

-----------------------------------------------------------------------------
(* One message, one job.                                                   *)

ToCome(m) ==
    \/ request[m].pc = "none"
    \/ "chat" \in request[m].todo
    \/ request[m].pc = "send" /\ request[m].handler = "chat"
Queueing(m) == Waiting(jobQueue, JobOf(m, "chat"))

\* A message has no outcome while the job of its handler is to come, in the queue or
\* on the worker, and it is in one of these places only.
Single(m) ==
    /\ ToCome(m) \/ Queueing(m) \/ Chatting(m) => outcome[m] = "none"
    /\ ToCome(m) => ~Queueing(m) /\ ~Chatting(m)
    /\ Queueing(m) => ~Chatting(m)
    /\ Once(jobQueue, JobOf(m, "chat"))
    /\ request[m].pc = "send" /\ request[m].handler = "chat" => "chat" \notin request[m].todo
    /\ request[m].todo # {} \/ request[m].pc = "send" \/ Queueing(m) \/ Chatting(m) => born[m] # 0
    /\ request[m].pc = "none" => born[m] = 0

Singles == now # 0 /\ \A m \in Messages : Single(m)

LEMMA NotChatting == running = NoJob => \A m \in Messages : ~Chatting(m)
BY JobAssumption DEF Chatting, JobOf, Job

LEMMA InitSingles == Init => Singles
<1> SUFFICES ASSUME Init, NEW m \in Messages PROVE Single(m)
    BY DEF Singles, Init, ExecutorInit
<1>1. /\ request[m] = [pc |-> "none", todo |-> {}, handler |-> "none"]
      /\ jobQueue = <<>> /\ running = NoJob /\ outcome[m] = "none" /\ born[m] = 0
    BY DEF Init, ExecutorInit
<1>2. ~Chatting(m) BY <1>1, NotChatting
<1>3. ~Queueing(m) /\ Once(jobQueue, JobOf(m, "chat")) BY <1>1 DEF Queueing, Waiting, Once
<1>4. request[m].pc = "none" /\ request[m].todo = {} BY <1>1
<1> QED BY <1>1, <1>2, <1>3, <1>4 DEF Single

\* The queue's other jobs come and go.
LEMMA OthersKeepSingles ==
    ASSUME Singles, UNCHANGED <<born, running, request, outcome>>, now' # 0,
           \A m \in Messages : /\ Waiting(jobQueue', JobOf(m, "chat")) => Waiting(jobQueue, JobOf(m, "chat"))
                               /\ Once(jobQueue, JobOf(m, "chat")) => Once(jobQueue', JobOf(m, "chat"))
    PROVE  Singles'
<1> SUFFICES ASSUME NEW m \in Messages PROVE Single(m)' BY DEF Singles
<1>1. Single(m) BY DEF Singles
<1>2. (ToCome(m)' <=> ToCome(m)) /\ (Chatting(m)' <=> Chatting(m)) BY DEF ToCome, Chatting
<1>3. Queueing(m)' => Queueing(m) BY DEF Queueing, Waiting
<1>4. Once(jobQueue, JobOf(m, "chat"))' BY <1>1 DEF Single, Once, JobOf
<1> QED BY <1>1, <1>2, <1>3, <1>4 DEF Single

LEMMA ReturnKeepsSingles ==
    ASSUME Base, Singles, NEW o \in Outcomes, Return(o), UNCHANGED <<now, born>>,
           \A m \in Messages : /\ Waiting(jobQueue', JobOf(m, "chat")) => Waiting(jobQueue, JobOf(m, "chat"))
                               /\ Once(jobQueue, JobOf(m, "chat")) => Once(jobQueue', JobOf(m, "chat"))
    PROVE  Singles'
<1>0. ExecutorType BY DEF Base, TypeOK
<1> SUFFICES ASSUME NEW m \in Messages PROVE Single(m)' BY DEF Singles
<1>1. Single(m) BY DEF Singles
<1>2. request[m] \in Request BY <1>0 DEF ExecutorType
<1>3. request'[m] = request[m] \/ request'[m] = NextHandler(request[m]) BY <1>0, ReturnDoes
<1>4. ToCome(m)' => ToCome(m) BY <1>2, <1>3, NextHandlerFields DEF ToCome
<1>5. ~Chatting(m)'
    <2>1. running' = NoJob BY <1>0, ReturnDoes
    <2> QED BY <2>1, JobAssumption DEF Chatting, JobOf, Job
<1>6. Queueing(m)' => Queueing(m) BY DEF Queueing, Waiting
<1>7. Once(jobQueue, JobOf(m, "chat"))' BY <1>1 DEF Single, Once, JobOf
<1>8. ~Chatting(m) => outcome'[m] = outcome[m] BY <1>0, ReturnDoes DEF Chatting
<1>9. request'[m].pc = "send" => request'[m] = request[m] BY <1>2, <1>3, NextHandlerFields
<1>10. request'[m].pc = "none" => request'[m] = request[m] BY <1>2, <1>3, NextHandlerFields
<1>11. request'[m].todo = request[m].todo BY <1>2, <1>3, NextHandlerFields
<1> QED BY <1>1, <1>4, <1>5, <1>6, <1>7, <1>8, <1>9, <1>10, <1>11 DEF Single

LEMMA PostKeepsSingles ==
    ASSUME Base, Singles, NEW m \in Messages, Post(m)
    PROVE  Singles'
<1>0. ExecutorType BY DEF Base, TypeOK
<1>1. UNCHANGED <<now, running, outcome, jobQueue>> BY DEF Post
<1> SUFFICES ASSUME NEW k \in Messages PROVE Single(k)' BY <1>1 DEF Singles
<1>2. Single(k) /\ now # 0 BY DEF Singles
<1>3. /\ Chatting(k)' <=> Chatting(k)
      /\ Queueing(k)' <=> Queueing(k)
      /\ Once(jobQueue, JobOf(k, "chat"))' <=> Once(jobQueue, JobOf(k, "chat"))
    BY <1>1 DEF Chatting, Queueing, Waiting, Once, JobOf
<1>4. CASE k = m
    <2>1. /\ request[k].pc = "none" /\ request'[k].pc = "mark" /\ born'[k] = now
        BY <1>0, <1>4 DEF Post, ExecutorType
    <2>2. ToCome(k) BY <2>1 DEF ToCome
    <2> QED BY <1>1, <1>2, <1>3, <2>1, <2>2 DEF Single
<1>5. CASE k # m
    <2>1. request'[k] = request[k] /\ born'[k] = born[k] BY <1>0, <1>5 DEF Post, ExecutorType
    <2>2. ToCome(k)' <=> ToCome(k) BY <2>1 DEF ToCome
    <2> QED BY <1>1, <1>2, <1>3, <2>1, <2>2 DEF Single
<1> QED BY <1>4, <1>5

LEMMA MarkKeepsSingles ==
    ASSUME Base, Singles, NEW m \in Messages, Mark(m)
    PROVE  Singles'
<1>0. ExecutorType BY DEF Base, TypeOK
<1>1. UNCHANGED <<now, born, running, outcome, jobQueue>> BY DEF Mark
<1> SUFFICES ASSUME NEW k \in Messages PROVE Single(k)' BY <1>1 DEF Singles
<1>2. Single(k) /\ now # 0 BY DEF Singles
<1>3. /\ Chatting(k)' <=> Chatting(k)
      /\ Queueing(k)' <=> Queueing(k)
      /\ Once(jobQueue, JobOf(k, "chat"))' <=> Once(jobQueue, JobOf(k, "chat"))
    BY <1>1 DEF Chatting, Queueing, Waiting, Once, JobOf
<1>4. PICK h \in request[m].todo :
          request' = [request EXCEPT ![m] = [pc |-> "send", todo |-> @.todo \ {h}, handler |-> h]]
    BY DEF Mark
<1>5. CASE k = m
    <2>1. /\ request'[k].pc = "send" /\ request'[k].handler = h
          /\ request'[k].todo = request[k].todo \ {h} /\ h \in request[k].todo
        BY <1>0, <1>4, <1>5 DEF ExecutorType
    <2>2. ToCome(k)' => ToCome(k) BY <2>1 DEF ToCome
    <2> QED BY <1>1, <1>2, <1>3, <2>1, <2>2 DEF Single
<1>6. CASE k # m
    <2>1. request'[k] = request[k] BY <1>0, <1>4, <1>6 DEF ExecutorType
    <2>2. ToCome(k)' <=> ToCome(k) BY <2>1 DEF ToCome
    <2> QED BY <1>1, <1>2, <1>3, <2>1, <2>2 DEF Single
<1> QED BY <1>5, <1>6

LEMMA SendKeepsSingles ==
    ASSUME Base, Singles, NEW m \in Messages, Send(m)
    PROVE  Singles'
<1>0. ExecutorType BY DEF Base, TypeOK
<1> DEFINE h == request[m].handler
           job == JobOf(m, h)
<1>1. UNCHANGED <<now, born, running>> /\ request[m].pc = "send" BY DEF Send
<1>2. request[m] \in Request /\ h \in {"chat", "profile"}
    BY <1>0, <1>1 DEF Base, Carried, ExecutorType
<1>3. job \in Job BY <1>2 DEF Job, JobOf
<1>4. Overflow(jobQueue) /\ Capacity \in Nat /\ jobQueue \in Seq(Job)
    BY <1>0, ExecutorAssumption DEF ExecutorType, Overflow
<1>5. /\ jobQueue' = Append(jobQueue, job) \/ jobQueue' = Queued(job)
      /\ outcome' \in [Messages -> Outcomes]
      /\ \A k \in Messages : k # m => request'[k] = request[k] /\ outcome'[k] = outcome[k]
    BY <1>0 DEF Send, JobOf, ExecutorType, Outcomes
<1>6. /\ request'[m].todo = request[m].todo /\ request'[m].pc \in {"wait", "done", "mark"}
      /\ outcome'[m] # outcome[m] => h = "chat" /\ ~Room /\ jobQueue' = Queued(job)
    <2>1. NextHandler(request[m]) \in Request /\ NextHandler(request[m]).todo = request[m].todo
          /\ NextHandler(request[m]).pc \in {"done", "mark"}
        BY <1>2, NextHandlerFields
    <2>2. request' = [request EXCEPT ![m].pc = "wait"] \/ request' = [request EXCEPT ![m] = NextHandler(@)]
        BY DEF Send
    <2>3. request'[m].todo = request[m].todo /\ request'[m].pc \in {"wait", "done", "mark"}
        BY <1>0, <1>2, <2>1, <2>2 DEF ExecutorType, Request
    <2>4. outcome'[m] # outcome[m] => h = "chat" /\ ~Room /\ jobQueue' = Queued(job)
        BY <1>0 DEF Send, JobOf
    <2> QED BY <2>3, <2>4
<1>7. \A x : /\ Waiting(jobQueue', x) => Waiting(jobQueue, x) \/ x = job
             /\ Once(jobQueue, x) /\ (x = job => ~Waiting(jobQueue, x)) => Once(jobQueue', x)
    <2> HIDE DEF job
    <2>1. jobQueue' = Append(jobQueue, job) \/ jobQueue' = Queued(job) BY <1>5
    <2>2. CASE jobQueue' = Append(jobQueue, job) BY <1>3, <1>4, <2>2, QueueAppend
    <2>3. CASE jobQueue' = Queued(job) BY <1>3, <1>4, <2>3, QueuedDoes
    <2> QED BY <2>1, <2>2, <2>3
<1>8. ~Room /\ jobQueue' = Queued(job) => jobQueue' = jobQueue BY DEF Queued
<1> SUFFICES ASSUME NEW k \in Messages PROVE Single(k)' BY <1>1 DEF Singles
<1>9. Single(k) /\ (Chatting(k)' <=> Chatting(k)) BY <1>1 DEF Singles, Chatting
<1>10. CASE k # m
    <2>1. JobOf(k, "chat") # job BY <1>10 DEF JobOf
    <2>2. request'[k] = request[k] /\ outcome'[k] = outcome[k] BY <1>5, <1>10
    <2>3. ToCome(k)' <=> ToCome(k) BY <2>2 DEF ToCome
    <2> HIDE DEF job
    <2>4. Queueing(k)' => Queueing(k) BY <1>7, <2>1 DEF Queueing, Waiting, JobOf
    <2>5. Once(jobQueue, JobOf(k, "chat"))' BY <1>7, <1>9, <2>1 DEF Single, Once, JobOf
    <2> QED BY <1>1, <1>9, <2>2, <2>3, <2>4, <2>5 DEF Single
<1>11. CASE k = m /\ h = "chat"
    <2>1. ToCome(m) /\ job = JobOf(m, "chat") BY <1>1, <1>11 DEF ToCome
    <2>2. ~Queueing(m) /\ ~Chatting(m) /\ outcome[m] = "none" /\ born[m] # 0
          /\ "chat" \notin request[m].todo
        BY <1>1, <1>9, <1>11, <2>1 DEF Single
    <2>3. ~ToCome(m)' BY <1>6, <2>2 DEF ToCome
    <2> HIDE DEF job
    <2>4. Once(jobQueue, JobOf(m, "chat"))'
        BY <1>7, <1>9, <1>11, <2>1, <2>2 DEF Single, Once, JobOf, Queueing
    <2>5. outcome'[m] # outcome[m] => ~Queueing(m)'
        BY <1>6, <1>8, <2>2 DEF Queueing, Waiting
    <2> QED BY <1>1, <1>6, <1>9, <1>11, <2>2, <2>3, <2>4, <2>5 DEF Single
<1>12. CASE k = m /\ h # "chat"
    <2>1. JobOf(m, "chat") # job BY <1>12 DEF JobOf
    <2>2. outcome'[m] = outcome[m] BY <1>6, <1>12
    <2>3. ToCome(m)' => ToCome(m) BY <1>6 DEF ToCome
    <2> HIDE DEF job
    <2>4. Queueing(m)' => Queueing(m) BY <1>7, <2>1 DEF Queueing, Waiting, JobOf
    <2>5. Once(jobQueue, JobOf(m, "chat"))' BY <1>7, <1>9, <1>12, <2>1 DEF Single, Once, JobOf
    <2> QED BY <1>1, <1>6, <1>9, <1>12, <2>2, <2>3, <2>4, <2>5 DEF Single
<1> QED BY <1>10, <1>11, <1>12

LEMMA TakeKeepsSingles ==
    ASSUME Base, Singles, Take
    PROVE  Singles'
<1>0. ExecutorType BY DEF Base, TypeOK
<1>1. /\ jobQueue' = Tail(jobQueue) /\ running' = Head(jobQueue) /\ running = NoJob
      /\ jobQueue \in Seq(Job) /\ jobQueue # <<>>
      /\ UNCHANGED <<now, born, request, outcome>>
    BY <1>0 DEF Take, ExecutorType
<1>2. /\ \A x : Waiting(jobQueue, x) <=> x = running' \/ Waiting(jobQueue', x)
      /\ \A x : Once(jobQueue, x) => Once(jobQueue', x)
      /\ Once(jobQueue, running') => ~Waiting(jobQueue', running')
    BY <1>1, QueueTail
<1> SUFFICES ASSUME NEW m \in Messages PROVE Single(m)' BY <1>1 DEF Singles
<1>3. Single(m) BY DEF Singles
<1>4. ToCome(m)' <=> ToCome(m) BY <1>1 DEF ToCome
<1>5. Queueing(m) <=> Queueing(m)' \/ Chatting(m)'
    BY <1>2 DEF Queueing, Chatting, Waiting, JobOf
<1>6. Once(jobQueue, JobOf(m, "chat"))' BY <1>2, <1>3 DEF Single, Once, JobOf
<1>7. Chatting(m)' => ~Queueing(m)'
    BY <1>2, <1>3 DEF Single, Queueing, Chatting, Waiting, JobOf
<1> QED BY <1>1, <1>3, <1>4, <1>5, <1>6, <1>7 DEF Single

LEMMA CrashKeepsSingles ==
    ASSUME Base, Singles, Crash
    PROVE  Singles'
<1>0. ExecutorType BY DEF Base, TypeOK
<1>1. UNCHANGED <<now, born>> /\ jobQueue' = <<>> /\ running' = NoJob
    BY DEF Crash, ExecutorCrash
<1> SUFFICES ASSUME NEW m \in Messages PROVE Single(m)' BY <1>1 DEF Singles
<1>2. Single(m) BY DEF Singles
<1>3. ~Chatting(m)' BY <1>1, JobAssumption DEF Chatting, JobOf, Job
<1>4. ~Queueing(m)' /\ Once(jobQueue, JobOf(m, "chat"))' BY <1>1 DEF Queueing, Waiting, Once
<1>5. CASE request[m].pc = "none"
    <2>1. request'[m] = request[m] BY <1>0, <1>5 DEF Crash, ExecutorCrash, ExecutorType
    <2>2. born[m] = 0 /\ outcome[m] = "none" BY <1>2, <1>5 DEF Single, ToCome
    <2>3. outcome'[m] = "none" BY <1>0, <2>2 DEF Crash, ExecutorCrash, ExecutorType
    <2> QED BY <1>1, <1>2, <1>3, <1>4, <1>5, <2>1, <2>2, <2>3 DEF Single
<1>6. CASE request[m].pc # "none"
    <2>1. request'[m] = [pc |-> "done", todo |-> {}, handler |-> "none"]
        BY <1>0, <1>6 DEF Crash, ExecutorCrash, ExecutorType
    <2>2. request'[m].pc = "done" /\ request'[m].todo = {} BY <2>1
    <2>3. ~ToCome(m)' BY <2>2 DEF ToCome
    <2> QED BY <1>1, <1>3, <1>4, <2>2, <2>3 DEF Single
<1> QED BY <1>5, <1>6

LEMMA DoesKeepsSingles ==
    ASSUME Base, Singles, NEW m \in Messages, Does(m)
    PROVE  Singles'
<1>0. ExecutorType BY DEF Base, TypeOK
<1>1. CASE UNCHANGED executorVars
    BY <1>1, OthersKeepSingles DEF executorVars, Singles
<1>2. CASE Leaves(m)
    <2>1. PICK o \in Outcomes : Leave(o) BY <1>2 DEF Leaves
    <2>2. Return(o) /\ UNCHANGED <<now, born, jobQueue>> BY <2>1 DEF Leave, End
    <2> QED BY <2>2, ReturnKeepsSingles
<1>3. CASE Emits(m)
    <2>1. Return("answered") /\ UNCHANGED <<now, born>> /\ "answered" \in Outcomes
        BY <1>3 DEF Emits, Emit, Echo, Outcomes
    <2>2. CASE Echo(m) BY <1>0, <2>1, <2>2, EchoDoes, ReturnKeepsSingles
    <2>3. CASE jobQueue' = jobQueue BY <2>1, <2>3, ReturnKeepsSingles
    <2> QED BY <1>3, <2>2, <2>3 DEF Emits, Emit
<1>4. UNCHANGED executorVars \/ Leaves(m) \/ Emits(m)
    BY DEF Does, Moves, Become, Engages, ClaimsNow, Claim, Replies
<1> QED BY <1>1, <1>2, <1>3, <1>4

LEMMA StepKeepsSingles == Base /\ Singles /\ [Next]_vars => Singles'
<1> SUFFICES ASSUME Base, Singles, [Next]_vars PROVE Singles' OBVIOUS
<1>0. ExecutorType /\ TypeOK /\ now # 0 BY DEF Base, TypeOK, Singles
<1>1. ASSUME NEW m \in Messages, Client(m) PROVE Singles' BY <1>1, PostKeepsSingles DEF Client
<1>2. ASSUME NEW m \in Messages, Submit(m) PROVE Singles'
    BY <1>2, MarkKeepsSingles, SendKeepsSingles DEF Submit
<1>3. ASSUME NEW m \in Messages, Signals(m) PROVE Singles'
    <2>1. Echo(m) /\ UNCHANGED <<now, born, running, request, outcome>> BY <1>3 DEF Signals, Echo
    <2> QED BY <1>0, <2>1, EchoDoes, OthersKeepSingles
<1>4. ASSUME NEW m \in Messages, ContextDone(m) PROVE Singles'
    BY <1>0, <1>4, OthersKeepSingles DEF ContextDone, CutOff
<1>5. ASSUME NEW m \in Messages, ExpireClaim(m) PROVE Singles'
    BY <1>0, <1>5, OthersKeepSingles DEF ExpireClaim, executorVars
<1>6. CASE TakeJob BY <1>6, TakeKeepsSingles DEF TakeJob
<1>7. CASE Work
    <2>1. ASSUME NEW m \in Messages, Step(m) PROVE Does(m) BY <1>0, <2>1, StepDoes DEF TypeOK
    <2>2. CASE \E m \in Messages : Step(m) BY <2>1, <2>2, DoesKeepsSingles
    <2>3. CASE Profile
        <3>1. Return("none") /\ "none" \in Outcomes /\ UNCHANGED <<now, born, jobQueue>>
            BY <2>3 DEF Profile, End, Outcomes
        <3> QED BY <3>1, ReturnKeepsSingles
    <2> QED BY <1>7, <2>2, <2>3 DEF Work
<1>8. CASE Clock
    <2>1. now' # 0 BY <1>0, <1>8 DEF Clock, Tick, ExecutorType
    <2> QED BY <1>8, <2>1, OthersKeepSingles DEF Clock, Tick
<1>9. CASE Panic
    <2>1. Return("panicked") /\ "panicked" \in Outcomes /\ UNCHANGED <<now, born, jobQueue>>
        BY <1>9 DEF Panic, Leave, End, Outcomes
    <2> QED BY <2>1, ReturnKeepsSingles
<1>10. CASE Crash BY <1>10, CrashKeepsSingles
<1>11. ASSUME NEW c \in Channels, ExpireEngaged(c) PROVE Singles'
    BY <1>0, <1>11, OthersKeepSingles DEF ExpireEngaged, executorVars
<1>12. CASE UNCHANGED vars
    BY <1>0, <1>12, OthersKeepSingles DEF vars, executorVars
<1> QED BY <1>1, <1>2, <1>3, <1>4, <1>5, <1>6, <1>7, <1>8, <1>9, <1>10, <1>11, <1>12 DEF Next

-----------------------------------------------------------------------------
(* Whom a message is skipped for.                                          *)

Good == {"answered", "failed", "panicked"}

\* Another handler of the channel claimed m and came as far as generating, or is
\* about to.
Backed(m) == \E k \in claimants[m] \ {m} :
    at[k] = at[m] /\ (outcome[k] \in Good \/ (Chatting(k) /\ handler.pc \in Late))

AllBacked == \A m \in claimed :
    /\ at[m] \notin Private /\ outcome[m] = "none"
    /\ ~(Chatting(m) /\ handler.pc \in Late)
    => Backed(m)

\* What is claimed is stored, and a context is of the handler's channel.
Stored == \A m \in claimed : born[m] # 0
Reach  == \A m \in Messages :
    Chatting(m) /\ handler.pc \in Late \union {"claim"} => handler.ctx \subseteq Here(m)

Skips == Stored /\ Reach /\ AllBacked /\ SkippedForReply

LEMMA OthersKeepSkips ==
    ASSUME Skips, Singles, Base, UNCHANGED <<at, running, handler, claimants>>, claimed' \subseteq claimed,
           \A m \in Messages : born[m] # 0 => born'[m] # 0,
           \A m \in Messages : outcome'[m] = outcome[m] \/ (outcome[m] = "none" /\ outcome'[m] = "dropped")
    PROVE  Skips'
<1>0. TypeOK BY DEF Base
<1>1. Stored' BY <1>0 DEF Skips, Stored, TypeOK
<1>2. \A m \in Messages : Here(m) \subseteq Here(m)' BY DEF Here
<1>3. Reach' BY <1>2 DEF Skips, Reach, Chatting
<1>4. \A m \in Messages : outcome[m] \in Good => outcome'[m] \in Good BY DEF Good
<1>5. ASSUME NEW m \in Messages, Backed(m) PROVE Backed(m)'
    <2>1. claimants[m] \subseteq Messages BY <1>0 DEF TypeOK
    <2> QED BY <1>4, <1>5, <2>1 DEF Backed, Chatting
<1>6. AllBacked' BY <1>0, <1>5 DEF Skips, AllBacked, TypeOK, Chatting
<1>7. SkippedForReply'
    <2>1. \A m \in Messages : claimants[m] \subseteq Messages BY <1>0 DEF TypeOK
    <2> QED BY <1>4, <2>1 DEF Skips, SkippedForReply, Good
<1> QED BY <1>1, <1>3, <1>6, <1>7 DEF Skips

\* The handler on the worker ends: what it is about to do is done, or it is skipped.
LEMMA ReturnKeepsSkips ==
    ASSUME Skips, Singles, Base, NEW o \in Outcomes, Return(o), UNCHANGED <<at, born, claimants, claimed>>,
           \A m \in Messages : Chatting(m) => o # "none",
           \A m \in Messages : Chatting(m) /\ handler.pc \in Late /\ at[m] \notin Private => o \in Good,
           \A m \in Messages : Chatting(m) /\ o = "claimed"
               => handler.pc = "begin" /\ at[m] \notin Private /\ m \in claimed
    PROVE  Skips'
<1>0. TypeOK /\ ExecutorType BY DEF Base, TypeOK
<1>1. running' = NoJob /\ \A m \in Messages : outcome'[m] = IF Chatting(m) THEN o ELSE outcome[m]
    BY <1>0, ReturnDoes DEF Chatting
<1>2. \A m \in Messages : ~Chatting(m)' BY <1>1, JobAssumption DEF Chatting, JobOf, Job
<1>3. \A m \in Messages : claimants[m] \subseteq Messages BY <1>0 DEF TypeOK
<1>4. \A m \in Messages : outcome[m] \in Good => outcome'[m] = outcome[m]
    BY <1>1 DEF Singles, Single, Good
<1>5. Stored' BY DEF Skips, Stored
<1>6. Reach' BY <1>2 DEF Reach
<1>7. ASSUME NEW m \in claimed, at[m] \notin Private, outcome'[m] = "none" PROVE Backed(m)'
    <2>1. m \in Messages /\ ~Chatting(m) /\ outcome[m] = "none" BY <1>0, <1>1, <1>7 DEF TypeOK
    <2>2. PICK k \in claimants[m] \ {m} :
              at[k] = at[m] /\ (outcome[k] \in Good \/ (Chatting(k) /\ handler.pc \in Late))
        BY <1>7, <2>1 DEF Skips, AllBacked, Backed
    <2>3. k \in Messages BY <1>3, <2>1, <2>2
    <2>4. outcome'[k] \in Good BY <1>1, <1>4, <1>7, <2>2, <2>3
    <2> QED BY <2>2, <2>4 DEF Backed
<1>8. AllBacked' BY <1>7 DEF AllBacked
<1>9. ASSUME NEW m \in Messages, outcome'[m] = "claimed"
      PROVE  \E k \in claimants[m] \ {m} : outcome'[k] \in Good
    <2>1. CASE ~Chatting(m)
        <3>1. PICK k \in claimants[m] \ {m} : outcome[k] \in Good
            BY <1>1, <1>9, <2>1 DEF Skips, SkippedForReply, Good
        <3> QED BY <1>3, <1>4, <3>1
    <2>2. CASE Chatting(m)
        <3>1. handler.pc = "begin" /\ at[m] \notin Private /\ m \in claimed /\ outcome[m] = "none"
            BY <1>1, <1>9, <2>2 DEF Singles, Single
        <3>2. handler.pc \notin Late BY <3>1 DEF Late
        <3>3. PICK k \in claimants[m] \ {m} : outcome[k] \in Good
            BY <3>1, <3>2 DEF Skips, AllBacked, Backed
        <3> QED BY <1>3, <1>4, <3>3
    <2> QED BY <2>1, <2>2
<1>10. SkippedForReply' BY <1>9 DEF SkippedForReply, Good
<1> QED BY <1>5, <1>6, <1>8, <1>10 DEF Skips

LEMMA DoesKeepsSkips ==
    ASSUME Skips, Singles, Base, NEW m \in Messages, Does(m)
    PROVE  Skips'
<1>0. ExecutorType /\ TypeOK /\ handler.pc \in Pcs BY DEF Base, TypeOK, Handler, Pcs
<1>a. Chatting(m) /\ \A k \in Messages : Chatting(k) => k = m BY DEF Does, Chatting, JobOf
<1>b. \A k \in Messages : claimants[k] \subseteq Messages BY <1>0 DEF TypeOK
\* The handler of m goes on.
<1>1. ASSUME UNCHANGED <<executorVars, claimed, claimants>>,
             handler.pc \in Late <=> handler'.pc \in Late,
             handler'.pc \in Late => handler'.ctx = handler.ctx,
             handler'.pc = "claim" => handler'.ctx \subseteq Here(m)
      PROVE  Skips'
    <2>1. UNCHANGED <<running, born, at, outcome>> BY <1>1 DEF executorVars
    <2>2. \A k \in Messages : Chatting(k)' <=> Chatting(k) BY <2>1 DEF Chatting
    <2>3. Stored' BY <1>1, <2>1 DEF Skips, Stored
    <2>4. Here(m)' = Here(m) BY <2>1 DEF Here
    <2>5. handler'.pc \in Late \union {"claim"} => handler'.ctx \subseteq Here(m)
        BY <1>1, <1>a DEF Skips, Reach
    <2>6. Reach' BY <1>a, <2>2, <2>4, <2>5 DEF Reach
    <2>7. AllBacked'
        <3>1. ASSUME NEW k \in Messages, Backed(k) PROVE Backed(k)'
            BY <1>1, <1>b, <2>1, <2>2, <3>1 DEF Backed
        <3> QED BY <1>0, <1>1, <2>1, <2>2, <3>1 DEF Skips, AllBacked, TypeOK
    <2>8. SkippedForReply' BY <1>1, <2>1 DEF Skips, SkippedForReply
    <2> QED BY <2>3, <2>6, <2>7, <2>8 DEF Skips
<1>2. CASE Moves(m)
    <2>1. /\ UNCHANGED <<executorVars, claimed, claimants>>
          /\ handler'.pc \in Late => handler.pc \in Late /\ handler'.ctx = handler.ctx
          /\ handler.pc \in Late => handler'.pc \in Late
          /\ handler'.pc = "claim" => handler'.ctx \subseteq Here(m)
        BY <1>2 DEF Moves, Become
    <2> QED BY <1>1, <2>1
<1>3. CASE Leaves(m)
    <2>1. PICK o \in Outcomes :
              /\ Leave(o) /\ o # "none"
              /\ o = "claimed" => handler.pc = "begin" /\ at[m] \notin Private /\ m \in claimed
              /\ handler.pc \in Late /\ at[m] \notin Private => o = "failed"
        BY <1>3 DEF Leaves
    <2>2. Return(o) /\ UNCHANGED <<at, born, claimants, claimed>> BY <2>1 DEF Leave, End
    <2>3. o = "failed" => o \in Good BY DEF Good
    <2> QED BY <1>a, <2>1, <2>2, <2>3, ReturnKeepsSkips
<1>4. CASE Engages(m)
    <2>1. PICK pc \in {"decide", "gather"} : handler' = [handler EXCEPT !.pc = pc, !.image = FALSE]
        BY <1>4 DEF Engages
    <2>2. handler'.pc = pc BY <1>0, <2>1 DEF TypeOK, Handler
    <2>3. handler'.pc \notin Late /\ handler'.pc # "claim" BY <2>2 DEF Late
    <2>4. handler.pc \notin Late BY <1>4 DEF Engages, Late
    <2> QED BY <1>1, <1>4, <2>3, <2>4 DEF Engages
<1>5. CASE ClaimsNow(m)
    <2>1. PICK pc \in {"recheck", "stream"} : Claim(m, pc) BY <1>5 DEF ClaimsNow
    <2>2. handler'.pc = pc /\ handler'.ctx = handler.ctx BY <1>0, <2>1 DEF Claim, TypeOK, Handler
    <2>3. handler.pc = "claim" /\ handler.pc \notin Late /\ handler'.pc \in Late
        BY <1>5, <2>2 DEF ClaimsNow, Late
    <2>4. UNCHANGED <<running, born, at, outcome>> /\ \A k \in Messages : Chatting(k)' <=> Chatting(k)
        BY <2>1 DEF Claim, executorVars, Chatting
    <2>5. handler.ctx \subseteq Here(m) /\ born[m] # 0
        BY <1>a, <2>3 DEF Skips, Reach, Singles, Single
    <2>6. \A k \in Claims(m) : k \in Messages /\ born[k] # 0 /\ at[k] = at[m]
        BY <2>5 DEF Claims, Here
    <2>7. /\ claimed' = claimed \union Claims(m)
          /\ \A k \in Messages :
                 claimants'[k] = claimants[k] \union (IF k \in Claims(m) THEN {m} ELSE {})
        BY <2>1 DEF Claim
    <2>8. Stored' BY <2>4, <2>6, <2>7 DEF Skips, Stored
    <2>9. Here(m)' = Here(m) BY <2>4 DEF Here
    <2>10. Reach' BY <1>a, <2>2, <2>4, <2>5, <2>9 DEF Reach
    <2>11. ASSUME NEW k \in claimed', at[k] \notin Private, outcome[k] = "none", k # m PROVE Backed(k)'
        <3>1. CASE k \in Claims(m)
            <4>1. m \in claimants'[k] \ {k} BY <2>6, <2>7, <2>11, <3>1
            <4>2. Chatting(m)' BY <1>a, <2>4
            <4> QED BY <2>3, <2>4, <2>6, <3>1, <4>1, <4>2 DEF Backed
        <3>2. CASE k \notin Claims(m)
            <4>1. k \in claimed /\ k \in Messages BY <1>0, <2>7, <2>11, <3>2 DEF TypeOK
            <4>2. Backed(k) BY <2>3, <2>11, <4>1 DEF Skips, AllBacked
            <4>3. PICK j \in claimants[k] \ {k} : at[j] = at[k] /\ outcome[j] \in Good
                BY <2>3, <4>2 DEF Backed
            <4> QED BY <2>4, <2>7, <4>1, <4>3 DEF Backed
        <3> QED BY <3>1, <3>2
    <2>12. Chatting(m)' BY <1>a, <2>4
    <2>13. AllBacked' BY <2>3, <2>4, <2>11, <2>12 DEF AllBacked
    <2>14. SkippedForReply' BY <2>4, <2>7 DEF Skips, SkippedForReply
    <2> QED BY <2>8, <2>10, <2>13, <2>14 DEF Skips
<1>6. CASE Replies(m)
    <2>1. UNCHANGED <<executorVars, claimed, claimants>> /\ handler.pc = "stream"
        BY <1>6 DEF Replies
    <2>2. handler'.pc = "emit" /\ handler'.ctx = handler.ctx BY <1>0, <1>6 DEF Replies, TypeOK, Handler
    <2>3. handler.pc \in Late /\ handler'.pc \in Late BY <2>1, <2>2 DEF Late
    <2> QED BY <1>1, <2>1, <2>2, <2>3
<1>7. CASE Emits(m)
    <2>1. Return("answered") /\ UNCHANGED <<at, born, claimants, claimed>>
        BY <1>7 DEF Emits, Emit, Echo
    <2>2. "answered" \in Outcomes /\ "answered" \in Good BY DEF Outcomes, Good
    <2> QED BY <2>1, <2>2, ReturnKeepsSkips
<1> QED BY <1>2, <1>3, <1>4, <1>5, <1>6, <1>7 DEF Does

LEMMA StepKeepsSkips == Base /\ Locks /\ Singles /\ Skips /\ [Next]_vars => Skips'
<1> SUFFICES ASSUME Base, Locks, Singles, Skips, [Next]_vars PROVE Skips' OBVIOUS
<1>0. ExecutorType /\ TypeOK /\ now # 0 BY DEF Base, TypeOK, Singles
<1>1. ASSUME NEW m \in Messages, Client(m) PROVE Skips'
    <2>1. UNCHANGED <<at, running, handler, claimants, claimed, outcome>>
        BY <1>1 DEF Client, Post, handlingVars
    <2>2. \A k \in Messages : born[k] # 0 => born'[k] # 0
        BY <1>0, <1>1 DEF Client, Post, ExecutorType
    <2> QED BY <2>1, <2>2, OthersKeepSkips
<1>2. ASSUME NEW m \in Messages, Submit(m) PROVE Skips'
    <2>1. UNCHANGED <<at, running, handler, claimants, claimed, born>>
        BY <1>2 DEF Submit, Mark, Send, handlingVars
    <2>2. CASE Mark(m)
        <3>1. outcome' = outcome BY <2>2 DEF Mark
        <3> QED BY <2>1, <3>1, OthersKeepSkips
    <2>3. CASE Send(m)
        <3>1. outcome' = outcome \/ (request[m].pc = "send" /\ request[m].handler = "chat"
                                     /\ outcome' = [outcome EXCEPT ![m] = "dropped"])
            BY <2>3 DEF Send
        <3>2. request[m].pc = "send" /\ request[m].handler = "chat" => outcome[m] = "none"
            BY DEF Singles, Single, ToCome
        <3>3. \A k \in Messages : outcome'[k] = outcome[k] \/ (outcome[k] = "none" /\ outcome'[k] = "dropped")
            BY <1>0, <3>1, <3>2 DEF ExecutorType
        <3> QED BY <2>1, <3>3, OthersKeepSkips
    <2> QED BY <1>2, <2>2, <2>3 DEF Submit
<1>3. ASSUME NEW m \in Messages, Signals(m) PROVE Skips'
    <2>1. UNCHANGED <<at, running, handler, claimants, claimed, born, outcome>>
        BY <1>3 DEF Signals, Echo, handlingVars
    <2> QED BY <2>1, OthersKeepSkips
<1>4. ASSUME NEW m \in Messages, ContextDone(m) PROVE Skips'
    <2>1. UNCHANGED <<at, running, handler, claimants, claimed, born, outcome>>
        BY <1>4 DEF ContextDone, CutOff, handlingVars
    <2> QED BY <2>1, OthersKeepSkips
<1>5. ASSUME NEW m \in Messages, ExpireClaim(m) PROVE Skips'
    <2>1. UNCHANGED <<at, running, handler, claimants, born, outcome>> /\ claimed' \subseteq claimed
        BY <1>5 DEF ExpireClaim, executorVars
    <2> QED BY <2>1, OthersKeepSkips
<1>6. CASE TakeJob
    <2>1. UNCHANGED <<at, handler, claimants, claimed, born, outcome>> /\ running = NoJob
        BY <1>6 DEF TakeJob, Take, handlingVars
    <2>2. \A m \in Messages : ~Chatting(m) BY <2>1, NotChatting
    <2>3. handler.pc = "begin" BY <2>2 DEF Locks, Idle, Fresh
    <2>4. handler'.pc \notin Late \union {"claim"} BY <2>1, <2>3 DEF Late
    <2>5. Reach' BY <2>4 DEF Reach
    <2>6. ASSUME NEW m \in Messages, Backed(m) PROVE Backed(m)'
        <3>1. claimants[m] \subseteq Messages BY <1>0 DEF TypeOK
        <3> QED BY <2>1, <2>2, <2>6, <3>1 DEF Backed
    <2>7. AllBacked' BY <1>0, <2>1, <2>2, <2>6 DEF Skips, AllBacked, TypeOK
    <2>8. Stored' /\ SkippedForReply' BY <2>1 DEF Skips, Stored, SkippedForReply
    <2> QED BY <2>5, <2>7, <2>8 DEF Skips
<1>7. CASE Work
    <2>1. ASSUME NEW m \in Messages, Step(m) PROVE Does(m) BY <1>0, <2>1, StepDoes DEF TypeOK
    <2>2. CASE \E m \in Messages : Step(m) BY <2>1, <2>2, DoesKeepsSkips
    <2>3. CASE Profile
        <3>1. Return("none") /\ "none" \in Outcomes /\ UNCHANGED <<at, born, claimants, claimed>>
            BY <2>3 DEF Profile, End, Outcomes, handlingVars
        <3>2. \A m \in Messages : ~Chatting(m) BY <2>3 DEF Profile, Chatting, JobOf
        <3> QED BY <3>1, <3>2, ReturnKeepsSkips
    <2> QED BY <1>7, <2>2, <2>3 DEF Work
<1>8. CASE Clock
    <2>1. UNCHANGED <<at, running, handler, claimants, claimed, born, outcome>>
        BY <1>8 DEF Clock, Tick, handlingVars
    <2> QED BY <2>1, OthersKeepSkips
<1>9. CASE Panic
    <2>1. Return("panicked") /\ UNCHANGED <<at, born, claimants, claimed>>
        BY <1>9 DEF Panic, Leave, End
    <2>2. "panicked" \in Outcomes /\ "panicked" \in Good BY DEF Outcomes, Good
    <2> QED BY <2>1, <2>2, ReturnKeepsSkips
<1>10. CASE Crash
    <2>1. UNCHANGED <<at, born, claimants, claimed>> /\ running' = NoJob
        BY <1>10 DEF Crash, ExecutorCrash
    <2>2. \A m \in Messages : outcome'[m] = IF born[m] # 0 /\ outcome[m] = "none" THEN "lost" ELSE outcome[m]
        BY <1>10 DEF Crash, ExecutorCrash
    <2>3. \A m \in Messages : ~Chatting(m)' BY <2>1, JobAssumption DEF Chatting, JobOf, Job
    <2>4. Stored' /\ Reach' BY <2>1, <2>3 DEF Skips, Stored, Reach
    <2>5. AllBacked' BY <1>0, <2>1, <2>2 DEF Skips, Stored, AllBacked, TypeOK
    <2>6. \A m \in Messages : outcome[m] \in Good => outcome'[m] \in Good BY <2>2 DEF Good
    <2>7. \A m \in Messages : claimants[m] \subseteq Messages BY <1>0 DEF TypeOK
    <2>8. SkippedForReply' BY <2>1, <2>2, <2>6, <2>7 DEF Skips, SkippedForReply, Good
    <2> QED BY <2>4, <2>5, <2>8 DEF Skips
<1>11. ASSUME NEW c \in Channels, ExpireEngaged(c) PROVE Skips'
    <2>1. UNCHANGED <<at, running, handler, claimants, claimed, born, outcome>>
        BY <1>11 DEF ExpireEngaged, executorVars
    <2> QED BY <2>1, OthersKeepSkips
<1>12. CASE UNCHANGED vars
    <2>1. UNCHANGED <<at, running, handler, claimants, claimed, born, outcome>>
        BY <1>12 DEF vars, executorVars, handlingVars
    <2> QED BY <2>1, OthersKeepSkips
<1> QED BY <1>1, <1>2, <1>3, <1>4, <1>5, <1>6, <1>7, <1>8, <1>9, <1>10, <1>11, <1>12 DEF Next

\* A message skipped as claimed was claimed by another one whose handler came as far
\* as generating a reply.
THEOREM SkippedForAReply == Spec => []SkippedForReply
<1>1. Init => Base /\ Locks /\ Singles /\ Skips
    <2> SUFFICES ASSUME Init PROVE Base /\ Locks /\ Singles /\ Skips OBVIOUS
    <2>1. Base /\ Locks BY InitBase DEF Init, ExecutorInit, Locks, Idle, LockFoundFree
    <2>2. Singles BY InitSingles
    <2>3. \A m \in Messages : ~Chatting(m) /\ outcome[m] = "none"
        BY NotChatting DEF Init, ExecutorInit
    <2>4. claimed = {} BY DEF Init
    <2>5. Skips BY <2>3, <2>4 DEF Skips, Stored, Reach, AllBacked, SkippedForReply
    <2> QED BY <2>1, <2>2, <2>5
<1>2. Base /\ Locks /\ Singles /\ Skips /\ [Next]_vars => (Base /\ Locks /\ Singles /\ Skips)'
    BY StepKeepsBase, StepKeepsLocks, StepKeepsSingles, StepKeepsSkips
<1>3. Base /\ Locks /\ Singles /\ Skips => SkippedForReply BY DEF Skips
<1> QED BY <1>1, <1>2, <1>3, PTL DEF Spec

-----------------------------------------------------------------------------
(* Interruptions.                                                          *)

Spoken(c) == \E m \in Messages : at[m] = c /\ born[m] # 0 /\ outcome[m] = "answered"

\* A mark is the timestamp of a message, or the bot has spoken in the channel.
Raised == \A c \in Channels : interruptionMap[c] # 0 =>
    Spoken(c) \/ \E m \in Messages : at[m] = c /\ born[m] = interruptionMap[c]

\* Who was interrupted has a newer message beside it, or the bot has spoken.
Overtaken == \A m \in Messages : outcome[m] = "interrupted" =>
    Spoken(at[m]) \/ \E k \in Messages : at[k] = at[m] /\ born[k] > born[m]

Known == \A m \in Messages : born[m] <= now /\ (outcome[m] = "answered" => born[m] # 0)

Marks == Raised /\ Overtaken /\ Known

LEMMA Least ==
    ASSUME NEW T \in SUBSET Nat, T # {}
    PROVE  \E x \in T : \A y \in T : x <= y
<1> DEFINE R == OpToRel(<, Nat)
<1>1. R = {ss \in Nat \X Nat : ss[1] < ss[2]} BY DEF OpToRel
<1>2. IsWellFoundedOn(R, Nat) BY NatLessThanWellFounded
<1> HIDE DEF R
<1>3. PICK x \in T : \A y \in T : <<y, x>> \notin R BY <1>2, WFMin
<1>4. ASSUME NEW y \in T PROVE x <= y
    <2>1. <<y, x>> \in Nat \X Nat BY <1>3
    <2>2. ~(y < x) BY <1>1, <1>3, <2>1
    <2> QED BY <1>3, <2>2
<1> QED BY <1>3, <1>4

\* The newest message of a channel has none beside it that is newer.
LEMMA NewestIsHeard == TypeOK /\ Marks => ChannelHeard
<1> SUFFICES ASSUME TypeOK, Marks, NEW c \in Private,
                    {m \in Messages : at[m] = c /\ born[m] # 0} # {},
                    \A m \in {m \in Messages : at[m] = c /\ born[m] # 0} :
                        outcome[m] \in {"answered", "interrupted"}
             PROVE  \E m \in {m \in Messages : at[m] = c /\ born[m] # 0} : outcome[m] = "answered"
    BY DEF ChannelHeard
<1> DEFINE said == {m \in Messages : at[m] = c /\ born[m] # 0}
           T == {now - born[m] : m \in said}
<1>1. \A m \in Messages : born[m] \in Nat /\ now \in Nat /\ born[m] <= now
    BY DEF TypeOK, ExecutorType, Marks, Known
<1>2. T \in SUBSET Nat /\ T # {} BY <1>1
<1>3. PICK x \in T : \A y \in T : x <= y BY <1>2, Least
<1>4. PICK m \in said : x = now - born[m] BY <1>3
<1>5. ASSUME NEW k \in said PROVE x <= now - born[k]
    <2>1. now - born[k] \in T OBVIOUS
    <2> HIDE DEF T
    <2> QED BY <1>3, <2>1
<1>6. ASSUME NEW k \in said PROVE born[k] <= born[m]
    <2>1. now - born[m] <= now - born[k] BY <1>4, <1>5
    <2> HIDE DEF T
    <2> QED BY <1>1, <2>1
<1>7. CASE outcome[m] = "answered" BY <1>7
<1>8. CASE outcome[m] = "interrupted"
    <2>1. ASSUME NEW k \in Messages, at[k] = at[m], born[k] > born[m] PROVE FALSE
        <3>1. k \in said BY <1>1, <2>1
        <3> QED BY <1>1, <1>6, <2>1, <3>1
    <2>2. Spoken(c) BY <1>8, <2>1 DEF Marks, Overtaken
    <2> QED BY <2>2 DEF Spoken
<1> QED BY <1>7, <1>8

\* Steps that move no mark and interrupt nobody.
LEMMA OthersKeepMarks ==
    ASSUME Base, Marks, UNCHANGED <<at, interruptionMap>>, now' >= now, now' \in Nat,
           born' \in [Messages -> Nat],
           \A m \in Messages : born'[m] = born[m] \/ (born[m] = 0 /\ born'[m] = now /\ outcome[m] = "none"),
           \A m \in Messages : outcome[m] = "answered" => outcome'[m] = "answered",
           \A m \in Messages : outcome'[m] = "answered" => outcome[m] = "answered" \/ born[m] # 0,
           \A m \in Messages : outcome'[m] = "interrupted" => outcome[m] = "interrupted"
    PROVE  Marks'
<1>1. /\ now \in Nat /\ born \in [Messages -> Nat] /\ interruptionMap \in [Channels -> Nat]
      /\ at \in [Messages -> Channels]
    BY DEF Base, TypeOK, ExecutorType
<1>2. \A m \in Messages : born[m] # 0 => born'[m] = born[m] OBVIOUS
<1>3. \A c : Spoken(c) => Spoken(c)' BY <1>2 DEF Spoken
<1>4. Raised'
    <2> SUFFICES ASSUME NEW c \in Channels, interruptionMap[c] # 0
                 PROVE  Spoken(c)' \/ \E m \in Messages : at[m] = c /\ born'[m] = interruptionMap[c]
        BY DEF Raised
    <2>1. Spoken(c) \/ \E m \in Messages : at[m] = c /\ born[m] = interruptionMap[c]
        BY DEF Marks, Raised
    <2> QED BY <1>2, <1>3, <2>1
<1>5. Overtaken'
    <2> SUFFICES ASSUME NEW m \in Messages, outcome'[m] = "interrupted"
                 PROVE  Spoken(at[m])' \/ \E k \in Messages : at[k] = at[m] /\ born'[k] > born'[m]
        BY DEF Overtaken, Spoken
    <2>1. outcome[m] = "interrupted" /\ born'[m] = born[m] OBVIOUS
    <2>2. Spoken(at[m]) \/ \E k \in Messages : at[k] = at[m] /\ born[k] > born[m]
        BY <2>1 DEF Marks, Overtaken
    <2>3. \A k \in Messages : born[k] > born[m] => born[k] # 0 BY <1>1
    <2>4. \A k \in Messages : born[k] > born[m] => born'[k] > born'[m] BY <1>2, <2>1, <2>3
    <2> QED BY <1>3, <2>2, <2>4
<1>6. Known' BY <1>1, <1>2 DEF Marks, Known
<1> QED BY <1>4, <1>5, <1>6 DEF Marks

\* Marks that the bot's own events leave.
LEMMA EchoKeepsMarks ==
    ASSUME Base, Marks, NEW m \in Messages, Echo(m), born[m] # 0, outcome'[m] = "answered",
           \A k \in Messages : outcome[k] = "answered" => outcome'[k] = "answered",
           \A k \in Messages : outcome'[k] = "answered" => outcome[k] = "answered" \/ k = m,
           \A k \in Messages : outcome'[k] = "interrupted" => outcome[k] = "interrupted"
    PROVE  Marks'
<1>0. ExecutorType BY DEF Base, TypeOK
<1>1. UNCHANGED <<at, born, now>>
      /\ \A c \in Channels : interruptionMap'[c] = IF c = at[m] THEN now ELSE interruptionMap[c]
    BY <1>0, EchoDoes DEF Echo
<1>2. \A c : Spoken(c) => Spoken(c)' BY <1>1 DEF Spoken
<1>4. Raised'
    <2> SUFFICES ASSUME NEW c \in Channels, interruptionMap'[c] # 0
                 PROVE  Spoken(c)' \/ \E k \in Messages : at'[k] = c /\ born'[k] = interruptionMap'[c]
        BY DEF Raised
    <2>1. CASE c = at[m]
        <3>1. outcome'[m] = "answered" /\ at'[m] = c /\ born'[m] # 0 BY <1>1, <2>1
        <3> QED BY <3>1 DEF Spoken
    <2>2. CASE c # at[m]
        <3>1. interruptionMap[c] = interruptionMap'[c] BY <1>1, <2>2
        <3>2. Spoken(c) \/ \E k \in Messages : at[k] = c /\ born[k] = interruptionMap[c]
            BY <3>1 DEF Marks, Raised
        <3> QED BY <1>1, <1>2, <3>1, <3>2
    <2> QED BY <2>1, <2>2
<1>5. Overtaken'
    <2> SUFFICES ASSUME NEW k \in Messages, outcome'[k] = "interrupted"
                 PROVE  Spoken(at[k])' \/ \E l \in Messages : at'[l] = at'[k] /\ born'[l] > born'[k]
        BY DEF Overtaken
    <2>1. at' = at /\ born' = born BY <1>1
    <2>2. Spoken(at[k]) \/ \E l \in Messages : at[l] = at[k] /\ born[l] > born[k]
        BY DEF Marks, Overtaken
    <2>3. Spoken(at[k]) => Spoken(at[k])' BY <1>2, <2>1
    <2> QED BY <2>1, <2>2, <2>3
<1>6. Known' BY <1>1 DEF Marks, Known
<1> QED BY <1>4, <1>5, <1>6 DEF Marks

LEMMA LeaveKeepsMarks ==
    ASSUME Base, Singles, Marks, NEW m \in Messages, Chatting(m), NEW o \in Outcomes, Leave(o),
           o # "answered", o = "interrupted" => Interrupted(m)
    PROVE  Marks'
<1>0. ExecutorType BY DEF Base, TypeOK
<1>1. Return(o) /\ UNCHANGED <<at, born, now, interruptionMap>> BY DEF Leave, End
<1>2. \A k \in Messages : outcome'[k] = IF k = m THEN o ELSE outcome[k]
    <2>1. \A k \in Messages : Chatting(k) <=> k = m BY DEF Chatting, JobOf
    <2> QED BY <1>0, <1>1, <2>1, ReturnDoes DEF Chatting
<1>3. outcome[m] = "none" BY DEF Singles, Single
<1>4. \A c : Spoken(c) => Spoken(c)' BY <1>1, <1>2, <1>3 DEF Spoken
<1>5. Raised' BY <1>1, <1>4 DEF Marks, Raised
<1>6. Overtaken'
    <2> SUFFICES ASSUME NEW k \in Messages, outcome'[k] = "interrupted"
                 PROVE  Spoken(at[k])' \/ \E l \in Messages : at'[l] = at'[k] /\ born'[l] > born'[k]
        BY DEF Overtaken
    <2>a. at' = at /\ born' = born BY <1>1
    <2>b. Spoken(at[k]) => Spoken(at[k])' BY <1>4, <2>a
    <2>1. CASE k # m
        <3>1. outcome[k] = "interrupted" BY <1>2, <2>1
        <3>2. Spoken(at[k]) \/ \E l \in Messages : at[l] = at[k] /\ born[l] > born[k]
            BY <3>1 DEF Marks, Overtaken
        <3> QED BY <2>a, <2>b, <3>2
    <2>2. CASE k = m
        <3>1. interruptionMap[at[m]] > born[m] BY <1>2, <2>2 DEF Interrupted
        <3>2. interruptionMap[at[m]] # 0 /\ at[m] \in Channels BY <1>0, <3>1 DEF ExecutorType
        <3>3. Spoken(at[m]) \/ \E l \in Messages : at[l] = at[m] /\ born[l] = interruptionMap[at[m]]
            BY <3>2 DEF Marks, Raised
        <3> QED BY <2>a, <2>b, <2>2, <3>1, <3>3
    <2> QED BY <2>1, <2>2
<1>7. Known' BY <1>1, <1>2 DEF Marks, Known
<1> QED BY <1>5, <1>6, <1>7 DEF Marks

LEMMA StepKeepsMarks == Base /\ Singles /\ Marks /\ [Next]_vars => Marks'
<1> SUFFICES ASSUME Base, Singles, Marks, [Next]_vars PROVE Marks' OBVIOUS
<1>0. ExecutorType /\ TypeOK BY DEF Base, TypeOK
<1>a. /\ now \in Nat /\ now >= now /\ born \in [Messages -> Nat] BY <1>0 DEF ExecutorType
\* Steps that change none of it.
<1>b. ASSUME UNCHANGED <<at, interruptionMap, now, born, outcome>> PROVE Marks'
    BY <1>a, <1>b, OthersKeepMarks
<1>1. ASSUME NEW m \in Messages, Client(m) PROVE Marks'
    <2>1. UNCHANGED <<at, interruptionMap, now, outcome>> /\ born' = [born EXCEPT ![m] = now]
          /\ request[m].pc = "none"
        BY <1>1 DEF Client, Post
    <2>2. born[m] = 0 /\ outcome[m] = "none" BY <2>1 DEF Singles, Single, ToCome
    <2>3. born' \in [Messages -> Nat] BY <1>a, <2>1
    <2>4. \A k \in Messages :
              born'[k] = born[k] \/ (born[k] = 0 /\ born'[k] = now /\ outcome[k] = "none")
        BY <1>a, <2>1, <2>2
    <2> QED BY <1>a, <2>1, <2>3, <2>4, OthersKeepMarks
<1>2. ASSUME NEW m \in Messages, Mark(m) PROVE Marks'
    <2>1. UNCHANGED <<at, now, born, outcome>>
          /\ interruptionMap' = [interruptionMap EXCEPT ![at[m]] = born[m]]
        BY <1>2 DEF Mark
    <2>2. \A c \in Channels : interruptionMap'[c] = IF c = at[m] THEN born[m] ELSE interruptionMap[c]
        BY <1>0, <2>1 DEF ExecutorType
    <2>3. Raised' BY <2>1, <2>2 DEF Marks, Raised, Spoken
    <2>4. Overtaken' /\ Known' BY <2>1 DEF Marks, Overtaken, Known, Spoken
    <2> QED BY <2>3, <2>4 DEF Marks
<1>3. ASSUME NEW m \in Messages, Send(m) PROVE Marks'
    <2>1. UNCHANGED <<at, interruptionMap, now, born>>
          /\ (outcome' = outcome \/ (request[m].pc = "send" /\ request[m].handler = "chat"
                                     /\ outcome' = [outcome EXCEPT ![m] = "dropped"]))
        BY <1>3 DEF Send
    <2>2. request[m].pc = "send" /\ request[m].handler = "chat" => outcome[m] = "none"
        BY DEF Singles, Single, ToCome
    <2>3. \A k \in Messages : outcome'[k] = outcome[k] \/ (outcome[k] = "none" /\ outcome'[k] = "dropped")
        BY <1>0, <2>1, <2>2 DEF ExecutorType
    <2> QED BY <1>a, <2>1, <2>3, OthersKeepMarks
<1>4. ASSUME NEW m \in Messages, Signals(m) PROVE Marks'
    <2>1. Echo(m) /\ outcome' = outcome /\ outcome[m] = "answered" BY <1>4 DEF Signals
    <2>2. born[m] # 0 BY <2>1 DEF Marks, Known
    <2> QED BY <2>1, <2>2, EchoKeepsMarks
<1>5. CASE Work
    <2>1. ASSUME NEW m \in Messages, Does(m) PROVE Marks'
        <3>1. Chatting(m) BY <2>1 DEF Does, Chatting, JobOf
        <3>2. CASE UNCHANGED executorVars BY <1>b, <3>2 DEF executorVars
        <3>3. CASE Leaves(m)
            <4>1. PICK o \in Outcomes : Leave(o) /\ (o = "interrupted" => Interrupted(m)) /\ o # "answered"
                BY <3>3 DEF Leaves
            <4> QED BY <3>1, <4>1, LeaveKeepsMarks
        <3>4. CASE Emits(m)
            <4>1. Return("answered") /\ "answered" \in Outcomes BY <3>4 DEF Emits, Emit, Outcomes
            <4>2. \A k \in Messages : outcome'[k] = IF k = m THEN "answered" ELSE outcome[k]
                <5>1. \A k \in Messages : Chatting(k) <=> k = m BY <3>1 DEF Chatting, JobOf
                <5> QED BY <1>0, <4>1, <5>1, ReturnDoes DEF Chatting
            <4>3. outcome[m] = "none" /\ born[m] # 0 BY <3>1 DEF Singles, Single
            <4>4. CASE Echo(m) BY <4>2, <4>3, <4>4, EchoKeepsMarks
            <4>5. CASE UNCHANGED <<now, born, at, interruptionMap>>
                BY <1>a, <4>2, <4>3, <4>5, OthersKeepMarks
            <4> QED BY <3>4, <4>4, <4>5 DEF Emits, Emit
        <3>5. UNCHANGED executorVars \/ Leaves(m) \/ Emits(m)
            BY <2>1 DEF Does, Moves, Become, Engages, ClaimsNow, Claim, Replies
        <3> QED BY <3>2, <3>3, <3>4, <3>5
    <2>2. ASSUME NEW m \in Messages, Step(m) PROVE Does(m) BY <1>0, <2>2, StepDoes DEF TypeOK
    <2>3. CASE Profile
        <3>1. Return("none") /\ UNCHANGED <<at, interruptionMap, now, born>>
            BY <2>3 DEF Profile, End
        <3>2. outcome' = outcome BY <2>3, <3>1 DEF Profile, Return
        <3> QED BY <1>b, <3>1, <3>2
    <2> QED BY <1>5, <2>1, <2>2, <2>3 DEF Work
<1>6. CASE Clock
    <2>1. UNCHANGED <<at, interruptionMap, born, outcome>> /\ now' = now + 1
        BY <1>6 DEF Clock, Tick
    <2>2. now' >= now /\ now' \in Nat BY <1>a, <2>1
    <2> QED BY <1>a, <2>1, <2>2, OthersKeepMarks
<1>7. CASE Panic
    <2>1. running \in Job /\ running.handler = "chat" /\ Leave("panicked") /\ "panicked" \in Outcomes
        BY <1>0, <1>7 DEF Panic, ExecutorType, Outcomes
    <2>2. PICK m \in Messages : Chatting(m) BY <2>1 DEF Job, Chatting, JobOf
    <2> QED BY <2>1, <2>2, LeaveKeepsMarks
<1>8. CASE Crash
    <2>1. UNCHANGED <<at, born, now>> /\ \A c \in Channels : interruptionMap'[c] = 0
        BY <1>8 DEF Crash, ExecutorCrash
    <2>2. \A m \in Messages : outcome'[m] = IF born[m] # 0 /\ outcome[m] = "none" THEN "lost" ELSE outcome[m]
        BY <1>8 DEF Crash, ExecutorCrash
    <2>3. \A c : Spoken(c) => Spoken(c)' BY <2>1, <2>2 DEF Spoken
    <2>4. Raised' BY <2>1 DEF Raised
    <2>5. Overtaken' BY <2>1, <2>2, <2>3 DEF Marks, Overtaken
    <2>6. Known' BY <2>1, <2>2 DEF Marks, Known
    <2> QED BY <2>4, <2>5, <2>6 DEF Marks
<1>9. ASSUME NEW m \in Messages, ContextDone(m) PROVE Marks'
    BY <1>b, <1>9 DEF ContextDone, CutOff
<1>10. ASSUME NEW m \in Messages, ExpireClaim(m) PROVE Marks'
    BY <1>b, <1>10 DEF ExpireClaim, executorVars
<1>11. CASE TakeJob BY <1>b, <1>11 DEF TakeJob, Take
<1>12. ASSUME NEW c \in Channels, ExpireEngaged(c) PROVE Marks'
    BY <1>b, <1>12 DEF ExpireEngaged, executorVars
<1>13. CASE UNCHANGED vars BY <1>b, <1>13 DEF vars, executorVars
<1> QED BY <1>1, <1>2, <1>3, <1>4, <1>5, <1>6, <1>7, <1>8, <1>9, <1>10, <1>11, <1>12, <1>13
        DEF Next, Submit

\* The direct messages of a channel cannot all interrupt each other: when each was
\* answered or interrupted, one was answered.
THEOREM SomebodyIsHeard == Spec => []ChannelHeard
<1>1. Init => Base /\ Singles /\ Marks
    <2> SUFFICES ASSUME Init PROVE Base /\ Singles /\ Marks OBVIOUS
    <2>1. Base /\ Singles BY InitBase, InitSingles
    <2>2. /\ \A c \in Channels : interruptionMap[c] = 0
          /\ \A m \in Messages : outcome[m] = "none" /\ born[m] = 0
          /\ now = 1
        BY DEF Init, ExecutorInit
    <2>3. Marks BY <2>2 DEF Marks, Raised, Overtaken, Known
    <2> QED BY <2>1, <2>3
<1>2. Base /\ Singles /\ Marks /\ [Next]_vars => (Base /\ Singles /\ Marks)'
    BY StepKeepsBase, StepKeepsSingles, StepKeepsMarks
<1>3. Base /\ Singles /\ Marks => ChannelHeard BY NewestIsHeard DEF Base
<1> QED BY <1>1, <1>2, <1>3, PTL DEF Spec

=============================================================================
