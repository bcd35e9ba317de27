--------------------------- MODULE IngestLockProofs ---------------------------
(***************************************************************************)
(* Proofs about the ingestion lock, for any number of events, goroutines,  *)
(* lock requests and faults.                                               *)
(***************************************************************************)
EXTENDS IngestLock, SequenceTheorems, TLAPS

-----------------------------------------------------------------------------
(* What Append and Tail do to the elements of a sequence.                  *)

LEMMA AppendFacts ==
    ASSUME NEW S, NEW s \in Seq(S), NEW x \in S
    PROVE  /\ Append(s, x) \in Seq(S)
           /\ \A e : Occurs(e, Append(s, x)) <=> Occurs(e, s) \/ e = x
           /\ NoRepeat(s) /\ ~Occurs(x, s) => NoRepeat(Append(s, x))
<1> DEFINE t == Append(s, x)
<1>1. /\ t \in Seq(S) /\ Len(t) = Len(s) + 1 /\ Len(s) \in Nat
      /\ \A i \in 1 .. Len(s) : t[i] = s[i]
      /\ t[Len(s) + 1] = x
    OBVIOUS
<1> HIDE DEF t
<1>2. \A i \in 1 .. Len(t) : i \in 1 .. Len(s) \/ i = Len(s) + 1
    BY <1>1
<1>3. \A e : Occurs(e, t) <=> Occurs(e, s) \/ e = x
    <2> TAKE e
    <2>1. ASSUME Occurs(e, t) PROVE Occurs(e, s) \/ e = x
        BY <1>1, <1>2, <2>1 DEF Occurs
    <2>2. ASSUME Occurs(e, s) PROVE Occurs(e, t)
        <3>1. PICK i \in 1 .. Len(s) : s[i] = e BY <2>2 DEF Occurs
        <3>2. i \in 1 .. Len(t) /\ t[i] = e BY <1>1, <3>1
        <3> QED BY <3>2 DEF Occurs
    <2>3. ASSUME e = x PROVE Occurs(e, t)
        <3>1. Len(s) + 1 \in 1 .. Len(t) BY <1>1
        <3> QED BY <1>1, <2>3, <3>1 DEF Occurs
    <2> QED BY <2>1, <2>2, <2>3
<1>4. NoRepeat(s) /\ ~Occurs(x, s) => NoRepeat(t)
    BY <1>1, <1>2 DEF NoRepeat, Occurs
<1> QED BY <1>1, <1>3, <1>4 DEF t

LEMMA TailFacts ==
    ASSUME NEW S, NEW s \in Seq(S), s # <<>>
    PROVE  /\ Head(s) \in S /\ Tail(s) \in Seq(S) /\ Occurs(Head(s), s)
           /\ \A e : Occurs(e, s) <=> e = Head(s) \/ Occurs(e, Tail(s))
           /\ NoRepeat(s) => NoRepeat(Tail(s)) /\ ~Occurs(Head(s), Tail(s))
<1> DEFINE t == Tail(s)
<1>1. /\ t \in Seq(S) /\ Len(s) \in Nat /\ Len(s) > 0
      /\ Len(t) = Len(s) - 1 /\ Len(t) \in Nat
      /\ Head(s) = s[1] /\ Head(s) \in S
      /\ \A i \in 1 .. Len(t) : i + 1 \in 1 .. Len(s) /\ t[i] = s[i + 1]
    OBVIOUS
<1> HIDE DEF t
<1>2. \A i \in 1 .. Len(s) : i = 1 \/ i - 1 \in 1 .. Len(t)
    BY <1>1
<1>3. \A e : Occurs(e, s) <=> e = Head(s) \/ Occurs(e, t)
    <2> TAKE e
    <2>1. ASSUME Occurs(e, s) PROVE e = Head(s) \/ Occurs(e, t)
        <3>1. PICK i \in 1 .. Len(s) : s[i] = e BY <2>1 DEF Occurs
        <3>2. CASE i = 1 BY <1>1, <3>1, <3>2
        <3>3. CASE i - 1 \in 1 .. Len(t)
            <4>1. t[i - 1] = e BY <1>1, <3>1, <3>3
            <4> QED BY <3>3, <4>1 DEF Occurs
        <3> QED BY <1>2, <3>2, <3>3
    <2>2. ASSUME e = Head(s) PROVE Occurs(e, s)
        <3>1. 1 \in 1 .. Len(s) BY <1>1
        <3> QED BY <1>1, <2>2, <3>1 DEF Occurs
    <2>3. ASSUME Occurs(e, t) PROVE Occurs(e, s)
        BY <1>1, <2>3 DEF Occurs
    <2> QED BY <2>1, <2>2, <2>3
<1>4. ASSUME NoRepeat(s) PROVE NoRepeat(t)
    <2> SUFFICES ASSUME NEW i \in 1 .. Len(t), NEW j \in 1 .. Len(t), t[i] = t[j]
                 PROVE  i = j
        BY DEF NoRepeat
    <2>1. i + 1 = j + 1 BY <1>1, <1>4 DEF NoRepeat
    <2> QED BY <2>1
<1>5. ASSUME NoRepeat(s) PROVE ~Occurs(Head(s), t)
    BY <1>1, <1>5 DEF NoRepeat, Occurs
<1> QED BY <1>1, <1>3, <1>4, <1>5 DEF t

-----------------------------------------------------------------------------
(* Type correctness.                                                       *)

LEMMA GoroutineType ==
    /\ Off \in Goroutine /\ Popping \in Goroutine
    /\ \A e \in Events : [pc |-> "post", ev |-> e] \in Goroutine
BY DEF Off, Popping, Goroutine

LEMMA TypeInit == ASSUME Init PROVE TypeOK
<1>1. isLocked \in BOOLEAN BY DEF Init
<1>2. pending \in Seq(Events) /\ stored \in Seq(Events) /\ pushed \in Seq(Events)
    BY DEF Init
<1>3. pc \in [Events -> {"unsent", "posted", "push", "store", "done"}]
    BY DEF Init
<1>4. answer \in [Events -> {"none", "created", "queued", "error"}]
    BY DEF Init
<1>5. drain \in [Drains -> Goroutine] BY GoroutineType DEF Init
<1>6. locks \in Nat /\ faults \in Nat BY DEF Init
<1> QED BY <1>1, <1>2, <1>3, <1>4, <1>5, <1>6 DEF TypeOK

LEMMA ReplyType ==
    ASSUME TypeOK, NEW e \in Events, NEW status \in {"created", "queued", "error"},
           Reply(e, status)
    PROVE  /\ pc' \in [Events -> {"unsent", "posted", "push", "store", "done"}]
           /\ answer' \in [Events -> {"none", "created", "queued", "error"}]
           /\ drain' \in [Drains -> Goroutine]
BY GoroutineType DEF TypeOK, Reply

LEMMA TypeNext ==
    ASSUME TypeOK, [Next]_vars
    PROVE  TypeOK'
<1> USE DEF TypeOK
<1>1. ASSUME NEW e \in Events, Submit(e) PROVE TypeOK'
    BY <1>1 DEF Submit
<1>2. ASSUME NEW e \in Events, Check(e) PROVE TypeOK'
    BY <1>2 DEF Check
<1>3. ASSUME NEW e \in Events, Push(e) PROVE TypeOK'
    <2>1. pending' \in Seq(Events) /\ pushed' \in Seq(Events)
        BY <1>3, AppendFacts DEF Push
    <2>2. Reply(e, "queued") BY <1>3 DEF Push
    <2> QED BY <1>3, <2>1, <2>2, ReplyType DEF Push
<1>4. ASSUME NEW e \in Events, Store(e) PROVE TypeOK'
    <2>1. stored' \in Seq(Events)
        BY <1>4, AppendFacts DEF Store
    <2>2. Reply(e, "created") BY <1>4 DEF Store
    <2> QED BY <1>4, <2>1, <2>2, ReplyType DEF Store
<1>5. ASSUME NEW e \in Events, Refuse(e) PROVE TypeOK'
    <2>1. Reply(e, "error") BY <1>5 DEF Refuse
    <2> QED BY <1>5, <2>1, ReplyType DEF Refuse, GoesWrong
<1>6. CASE Lock
    BY <1>6 DEF Lock
<1>7. ASSUME NEW d \in Drains, Unlock(d) PROVE TypeOK'
    BY <1>7, GoroutineType DEF Unlock
<1>8. ASSUME NEW d \in Drains, Pop(d) PROVE TypeOK'
    BY <1>8, TailFacts, GoroutineType DEF Pop
<1>9. ASSUME NEW d \in Drains, Stop(d) PROVE TypeOK'
    BY <1>9, GoroutineType DEF Stop, GoesWrong
<1>10. ASSUME NEW d \in Drains, Post(d) PROVE TypeOK'
    <2>1. pc' \in [Events -> {"unsent", "posted", "push", "store", "done"}]
        BY <1>10 DEF Post
    <2>2. [drain[d] EXCEPT !.pc = "wait"] \in Goroutine
        BY DEF Goroutine
    <2> QED BY <1>10, <2>1, <2>2 DEF Post
<1>11. ASSUME NEW d \in Drains, PostFails(d) PROVE TypeOK'
    BY <1>11, GoroutineType DEF PostFails, GoesWrong
<1>12. CASE Crash
    <2>1. drain' \in [Drains -> Goroutine]
        BY <1>12, GoroutineType DEF Crash
    <2>2. /\ pc' \in [Events -> {"unsent", "posted", "push", "store", "done"}]
          /\ answer' \in [Events -> {"none", "created", "queued", "error"}]
        BY <1>12 DEF Crash
    <2>3. isLocked' \in BOOLEAN BY <1>12 DEF Crash
    <2>4. locks' \in Nat /\ faults' \in Nat BY <1>12 DEF Crash, GoesWrong
    <2>5. UNCHANGED <<pending, stored, pushed>> BY <1>12 DEF Crash
    <2> QED BY <2>1, <2>2, <2>3, <2>4, <2>5
<1>13. CASE UNCHANGED vars
    BY <1>13 DEF vars
<1> QED BY <1>1, <1>2, <1>3, <1>4, <1>5, <1>6, <1>7, <1>8, <1>9, <1>10, <1>11,
       <1>12, <1>13 DEF Next, Request, Drain, Rest

\* Every variable of the lock keeps its type.
THEOREM TypeCorrect == Spec => []TypeOK
<1>1. TypeOK /\ [Next]_vars => TypeOK' BY TypeNext
<1> QED BY <1>1, TypeInit, PTL DEF Spec

-----------------------------------------------------------------------------
(* Where an event can be.  OnePlace is not inductive: that an event handed *)
(* on by a goroutine or a request is nowhere else has to be known while it *)
(* is on its way.                                                          *)

InFlight == {"posted", "push", "store"}

\* At rest: nobody carries the event.
AtRest(e) == pc[e] = "done" /\ \A d \in Drains : drain[d].ev # e

Kept(d) ==
    /\ drain[d].pc = "post" => drain[d].ev # NoEvent /\ pc[drain[d].ev] = "done"
    /\ drain[d].pc = "wait" => drain[d].ev # NoEvent /\ pc[drain[d].ev] \in InFlight
    /\ drain[d].pc \in {"off", "pop"} => drain[d].ev = NoEvent

NotShared == \A c, d \in Drains :
                drain[c].ev = drain[d].ev /\ drain[c].ev # NoEvent => c = d

Places ==
    /\ NoRepeat(stored) /\ NoRepeat(pending)
    /\ \A e \in Events : Occurs(e, pending) => ~Occurs(e, stored)
    /\ \A e \in Events : Occurs(e, pending) => AtRest(e)
    /\ \A e \in Events : Occurs(e, stored) => AtRest(e)
    /\ NotShared
    /\ \A d \in Drains : Kept(d)

LEMMA PlacesImply == ASSUME Places PROVE OnePlace
BY DEF Places, OnePlace, NotShared, AtRest, Resubmitted

LEMMA PlacesInit == ASSUME Init PROVE Places
BY DEF Init, Places, NotShared, Kept, NoRepeat, Occurs, Off

LEMMA Apart ==
    /\ NoEvent \notin Events
    /\ Popping.ev = NoEvent /\ Popping.pc = "pop" /\ Off.ev = NoEvent /\ Off.pc = "off"
BY IngestAssumption DEF IngestAssumption, Popping, Off

\* A request that ends leaves its event at rest.
LEMMA ReplyFacts ==
    ASSUME TypeOK, Places, NEW e \in Events, NEW status, Reply(e, status),
           pc[e] \in InFlight
    PROVE  /\ ~Occurs(e, pending) /\ ~Occurs(e, stored)
           /\ AtRest(e)'
           /\ \A f \in Events : AtRest(f) => AtRest(f)'
           /\ NotShared' /\ \A d \in Drains : Kept(d)'
<1>1. ~Occurs(e, pending) /\ ~Occurs(e, stored)
    BY DEF Places, InFlight, AtRest
<1>2. pc'[e] = "done" /\ \A f \in Events : f # e => pc'[f] = pc[f]
    BY DEF Reply, TypeOK
<1>3. \A d \in Drains : \/ drain'[d] = Popping
                        \/ drain'[d] = drain[d] /\ drain[d].ev # e
    BY DEF Reply, TypeOK
<1>4. AtRest(e)'
    BY <1>2, <1>3, Apart DEF AtRest
<1>5. ASSUME NEW f \in Events, AtRest(f) PROVE AtRest(f)'
    BY <1>2, <1>3, <1>5, Apart DEF AtRest
<1>6. NotShared'
    BY <1>3, Apart DEF Places, NotShared
<1>7. ASSUME NEW d \in Drains PROVE Kept(d)'
    <2>1. Kept(d) BY DEF Places
    <2>2. drain[d].ev \in Events \union {NoEvent} BY DEF TypeOK, Goroutine
    <2>3. CASE drain'[d] = Popping BY <2>3, Apart DEF Kept
    <2>4. CASE drain'[d] = drain[d] /\ drain[d].ev # e
        BY <1>2, <2>1, <2>2, <2>4 DEF Kept
    <2> QED BY <1>3, <2>3, <2>4
<1> QED BY <1>1, <1>4, <1>5, <1>6, <1>7

LEMMA PlacesReply ==
    ASSUME TypeOK, Places, NEW e \in Events, Push(e) \/ Store(e) \/ Refuse(e)
    PROVE  Places'
<1>1. CASE Push(e)
    <2>1. Reply(e, "queued") /\ pc[e] \in InFlight
        BY <1>1 DEF Push, InFlight
    <2>2. stored' = stored /\ pending' = Append(pending, e)
        BY <1>1 DEF Push
    <2>3. /\ \A f : Occurs(f, pending') <=> Occurs(f, pending) \/ f = e
          /\ NoRepeat(pending')
        BY <2>1, <2>2, AppendFacts, ReplyFacts DEF Places, TypeOK
    <2> QED BY <2>1, <2>2, <2>3, ReplyFacts DEF Places
<1>2. CASE Store(e)
    <2>1. Reply(e, "created") /\ pc[e] \in InFlight
        BY <1>2 DEF Store, InFlight
    <2>2. pending' = pending /\ stored' = Append(stored, e)
        BY <1>2 DEF Store
    <2>3. /\ \A f : Occurs(f, stored') <=> Occurs(f, stored) \/ f = e
          /\ NoRepeat(stored')
        BY <2>1, <2>2, AppendFacts, ReplyFacts DEF Places, TypeOK
    <2> QED BY <2>1, <2>2, <2>3, ReplyFacts DEF Places
<1>3. CASE Refuse(e)
    <2>1. Reply(e, "error") /\ pc[e] \in InFlight
        BY <1>3 DEF Refuse, InFlight
    <2>2. pending' = pending /\ stored' = stored
        BY <1>3 DEF Refuse
    <2> QED BY <2>1, <2>2, ReplyFacts DEF Places
<1> QED BY <1>1, <1>2, <1>3

\* A request arrives, or gets past the lock.
LEMMA PlacesArrive ==
    ASSUME TypeOK, Places, NEW e \in Events, Submit(e) \/ Check(e)
    PROVE  Places'
<1>1. /\ UNCHANGED <<pending, stored, drain>>
      /\ pc[e] # "done" /\ pc'[e] \in InFlight
      /\ \A f \in Events : f # e => pc'[f] = pc[f]
    BY DEF Submit, Check, InFlight, TypeOK
<1>2. \A f \in Events : AtRest(f) => AtRest(f)'
    BY <1>1 DEF AtRest
<1>3. ASSUME NEW d \in Drains PROVE Kept(d)'
    <2>1. Kept(d) /\ drain[d].ev \in Events \union {NoEvent}
        BY DEF Places, TypeOK, Goroutine
    <2> QED BY <1>1, <2>1 DEF Kept
<1> QED BY <1>1, <1>2, <1>3 DEF Places, NotShared

\* A goroutine starts or ends, or drops what it has popped.
LEMMA PlacesIdle ==
    ASSUME TypeOK, Places, NEW d \in Drains, Unlock(d) \/ Stop(d) \/ PostFails(d)
    PROVE  Places'
<1>1. /\ UNCHANGED <<pending, stored, pc>>
      /\ drain'[d] \in {Off, Popping}
      /\ \A c \in Drains : c # d => drain'[c] = drain[c]
    BY DEF Unlock, Stop, PostFails, TypeOK
<1>2. drain'[d].ev = NoEvent /\ Kept(d)'
    BY <1>1, Apart DEF Kept
<1>3. \A f \in Events : AtRest(f) => AtRest(f)'
    BY <1>1, <1>2, Apart DEF AtRest
<1>4. NotShared'
    BY <1>1, <1>2 DEF Places, NotShared
<1>5. \A c \in Drains : Kept(c)'
    BY <1>1, <1>2 DEF Places, Kept
<1> QED BY <1>1, <1>3, <1>4, <1>5 DEF Places

LEMMA PlacesPop ==
    ASSUME TypeOK, Places, NEW d \in Drains, Pop(d)
    PROVE  Places'
<1> DEFINE h == Head(pending)
<1>1. /\ UNCHANGED <<stored, pc>> /\ pending' = Tail(pending) /\ pending # <<>>
      /\ drain'[d] = [pc |-> "post", ev |-> h] /\ drain[d].ev = NoEvent
      /\ \A c \in Drains : c # d => drain'[c] = drain[c]
    BY DEF Pop, Places, Kept, TypeOK
<1>2. /\ h \in Events /\ Occurs(h, pending) /\ ~Occurs(h, pending')
      /\ NoRepeat(pending')
      /\ \A e : Occurs(e, pending') => Occurs(e, pending)
    BY <1>1, TailFacts DEF Places, TypeOK
<1>3. pc[h] = "done" /\ ~Occurs(h, stored) /\ \A c \in Drains : drain[c].ev # h
    BY <1>2 DEF Places, AtRest
<1> HIDE DEF h
<1>4. \A f \in Events : f # h /\ AtRest(f) => AtRest(f)'
    BY <1>1 DEF AtRest
<1>5. NotShared'
    BY <1>1, <1>3 DEF Places, NotShared
<1>6. Kept(d)'
    BY <1>1, <1>2, <1>3, Apart DEF Kept
<1>7. \A c \in Drains : Kept(c)'
    BY <1>1, <1>6 DEF Places, Kept
<1> QED BY <1>1, <1>2, <1>3, <1>4, <1>5, <1>7 DEF Places

LEMMA PlacesPost ==
    ASSUME TypeOK, Places, NEW d \in Drains, Post(d)
    PROVE  Places'
<1> DEFINE h == drain[d].ev
<1>1. /\ UNCHANGED <<stored, pending>> /\ h \in Events
      /\ pc'[h] = "posted" /\ \A e \in Events : e # h => pc'[e] = pc[e]
      /\ drain'[d].pc = "wait" /\ drain'[d].ev = h
      /\ \A c \in Drains : c # d => drain'[c] = drain[c]
    BY DEF Post, Places, Kept, TypeOK, Goroutine
<1>2. \A c \in Drains : c # d => drain[c].ev # h
    BY <1>1, Apart DEF Places, NotShared
<1>3. \A f \in Events : AtRest(f) => AtRest(f)'
    BY <1>1 DEF AtRest
<1>4. NotShared'
    BY <1>1 DEF Places, NotShared
<1>5. Kept(d)'
    BY <1>1, Apart DEF Kept, InFlight
<1>6. ASSUME NEW c \in Drains, c # d PROVE Kept(c)'
    <2>1. Kept(c) /\ drain[c].ev \in Events \union {NoEvent}
        BY DEF Places, TypeOK, Goroutine
    <2> QED BY <1>1, <1>2, <1>6, <2>1 DEF Kept
<1> QED BY <1>1, <1>3, <1>4, <1>5, <1>6 DEF Places

LEMMA PlacesCrash ==
    ASSUME TypeOK, Places, Crash
    PROVE  Places'
<1>1. /\ UNCHANGED <<pending, stored>>
      /\ \A d \in Drains : drain'[d] = Off
      /\ \A e \in Events : pc[e] = "done" => pc'[e] = "done"
    BY DEF Crash, TypeOK
<1>2. \A f \in Events : AtRest(f) => AtRest(f)'
    BY <1>1, Apart DEF AtRest
<1>3. NotShared' /\ \A d \in Drains : Kept(d)'
    BY <1>1, Apart DEF NotShared, Kept
<1> QED BY <1>1, <1>2, <1>3 DEF Places

LEMMA PlacesNext ==
    ASSUME TypeOK, Places, [Next]_vars
    PROVE  Places'
<1>1. CASE Lock \/ UNCHANGED vars
    <2>1. UNCHANGED <<pending, stored, pc, drain>> BY <1>1 DEF Lock, vars
    <2> QED BY <2>1 DEF Places, AtRest, NotShared, Kept
<1> QED BY <1>1, PlacesReply, PlacesArrive, PlacesIdle, PlacesPop, PlacesPost,
       PlacesCrash DEF Next, Request, Drain, Rest

\* Whatever faults, lock sessions and goroutines there are, an event is in one
\* place at a time and is stored at most once.
THEOREM AtMostOnce == Spec => []OnePlace
<1>1. TypeOK /\ Places /\ [Next]_vars => Places' BY PlacesNext
<1> QED BY <1>1, PlacesInit, PlacesImply, TypeCorrect, PTL DEF Spec

-----------------------------------------------------------------------------
(* Conservation: as long as nothing went wrong, an accepted event is kept. *)

\* A fault is counted, and stays counted.
LEMMA FaultsCount ==
    ASSUME TypeOK, [Next]_vars, faults' = 0
    PROVE  faults = 0 /\ \A kind : ~GoesWrong(kind)
<1>1. \A kind : ~GoesWrong(kind)
    BY DEF GoesWrong, TypeOK
<1>2. UNCHANGED faults
    BY <1>1 DEF Next, Submit, Request, Check, Push, Store, Refuse, Lock, Unlock,
                Drain, Pop, Stop, Post, PostFails, Crash, Rest, vars
<1> QED BY <1>1, <1>2

KeptSomewhere(e) == Occurs(e, pending) \/ Resubmitted(e) \/ Occurs(e, stored)

\* A request that ends hurts no other event.
LEMMA KeptReply ==
    ASSUME \A kind : ~GoesWrong(kind), TypeOK, Places, NEW f \in Events,
           Push(f) \/ Store(f) \/ Refuse(f),
           NEW e \in Events \ Malformed, answer'[e] = "queued",
           answer[e] = "queued" => KeptSomewhere(e)
    PROVE  KeptSomewhere(e)'
<1>1. /\ e # f => answer'[e] = answer[e]
      /\ \A d \in Drains : drain[d].ev # f => drain'[d] = drain[d]
    BY DEF Push, Store, Refuse, Reply, TypeOK
<1>2. Occurs(e, pending) => Occurs(e, pending')
    <2>1. pending' = pending \/ pending' = Append(pending, f)
        BY DEF Push, Store, Refuse
    <2>2. pending \in Seq(Events) BY DEF TypeOK
    <2>3. Occurs(e, pending) => Occurs(e, Append(pending, f)) BY <2>2, AppendFacts
    <2> QED BY <2>1, <2>3
<1>3. Occurs(e, stored) => Occurs(e, stored')
    <2>1. stored' = stored \/ stored' = Append(stored, f)
        BY DEF Push, Store, Refuse
    <2>2. stored \in Seq(Events) BY DEF TypeOK
    <2>3. Occurs(e, stored) => Occurs(e, Append(stored, f)) BY <2>2, AppendFacts
    <2> QED BY <2>1, <2>3
<1>4. CASE e # f
    <2>1. Resubmitted(e) => Resubmitted(e)'
        BY <1>1, <1>4 DEF Resubmitted
    <2> QED BY <1>1, <1>2, <1>3, <1>4, <2>1 DEF KeptSomewhere
<1>5. CASE e = f
    <2>1. CASE Push(f)
        BY <1>5, <2>1, AppendFacts DEF Push, TypeOK, KeptSomewhere
    <2>2. CASE Store(f)
        BY <1>5, <2>2, AppendFacts DEF Store, TypeOK, KeptSomewhere
    <2>3. ~Refuse(f)
        BY <1>5 DEF Refuse
    <2> QED BY <2>1, <2>2, <2>3
<1> QED BY <1>4, <1>5

LEMMA KeptDrain ==
    ASSUME \A kind : ~GoesWrong(kind), TypeOK, Places, NEW d \in Drains, Unlock(d) \/ Drain(d),
           NEW e \in Events, KeptSomewhere(e)
    PROVE  KeptSomewhere(e)'
<1> USE DEF KeptSomewhere
<1>1. CASE Unlock(d) \/ Stop(d)
    <2>1. /\ UNCHANGED <<pending, stored>>
          /\ drain[d].ev = NoEvent
          /\ \A c \in Drains : c # d => drain'[c] = drain[c]
        BY <1>1 DEF Unlock, Stop, Off, Places, Kept, TypeOK
    <2>2. Resubmitted(e) => Resubmitted(e)'
        BY <2>1, Apart DEF Resubmitted
    <2> QED BY <2>1, <2>2
<1>2. CASE Pop(d)
    <2>1. /\ stored' = stored /\ pending' = Tail(pending) /\ pending # <<>>
          /\ drain'[d].ev = Head(pending) /\ drain[d].ev = NoEvent
          /\ \A c \in Drains : c # d => drain'[c] = drain[c]
        BY <1>2 DEF Pop, Places, Kept, TypeOK
    <2>2. Occurs(e, pending) => e = Head(pending) \/ Occurs(e, pending')
        BY <2>1, TailFacts DEF TypeOK
    <2>3. e = Head(pending) => Resubmitted(e)'
        BY <2>1 DEF Resubmitted
    <2>4. Resubmitted(e) => Resubmitted(e)'
        BY <2>1, Apart DEF Resubmitted
    <2> QED BY <2>1, <2>2, <2>3, <2>4
<1>3. CASE Post(d)
    <2>1. UNCHANGED <<pending, stored>> /\ \A c \in Drains : drain'[c].ev = drain[c].ev
        BY <1>3 DEF Post, TypeOK, Goroutine
    <2> QED BY <2>1 DEF Resubmitted
<1>4. ~PostFails(d)
    BY DEF PostFails
<1> QED BY <1>1, <1>2, <1>3, <1>4 DEF Drain

LEMMA KeptNext ==
    ASSUME TypeOK, Places, QueuedIsKept, [Next]_vars
    PROVE  QueuedIsKept'
<1> SUFFICES ASSUME faults' = 0,
                    NEW e \in Events \ Malformed, answer'[e] = "queued"
             PROVE  KeptSomewhere(e)'
    BY DEF QueuedIsKept, KeptSomewhere
<1>0. faults = 0 /\ \A kind : ~GoesWrong(kind)
    BY FaultsCount
<1>1. answer[e] = "queued" => KeptSomewhere(e)
    BY <1>0 DEF QueuedIsKept, KeptSomewhere
<1>2. ASSUME NEW f \in Events, Submit(f) \/ Check(f) PROVE KeptSomewhere(e)'
    <2>1. UNCHANGED <<pending, stored, answer, drain>>
        BY <1>2 DEF Submit, Check
    <2> QED BY <1>1, <2>1 DEF KeptSomewhere, Resubmitted
<1>3. CASE Lock \/ UNCHANGED vars
    <2>1. UNCHANGED <<pending, stored, answer, drain>>
        BY <1>3 DEF Lock, vars
    <2> QED BY <1>1, <2>1 DEF KeptSomewhere, Resubmitted
<1>4. ASSUME NEW d \in Drains, Unlock(d) \/ Drain(d) PROVE KeptSomewhere(e)'
    <2>1. answer' = answer
        BY <1>4 DEF Unlock, Drain, Pop, Stop, Post, PostFails
    <2> QED BY <1>0, <1>1, <1>4, <2>1, KeptDrain
<1>5. ~Crash
    BY <1>0 DEF Crash
<1>6. ASSUME NEW f \in Events, Push(f) \/ Store(f) \/ Refuse(f) PROVE KeptSomewhere(e)'
    BY <1>0, <1>1, <1>6, KeptReply
<1> QED BY <1>2, <1>3, <1>4, <1>5, <1>6 DEF Next, Request, Rest

\* As long as Redis, the loopback connection and the service hold, an event that
\* was answered 202 waits, is being resubmitted or has been stored.
THEOREM NothingLost == Spec => []QueuedIsKept
<1>1. Init => QueuedIsKept BY DEF Init, QueuedIsKept
<1>2. TypeOK /\ Places /\ QueuedIsKept /\ [Next]_vars => QueuedIsKept'
    BY KeptNext
<1>3. TypeOK /\ Places /\ [Next]_vars => Places' BY PlacesNext
<1> QED BY <1>1, <1>2, <1>3, PlacesInit, TypeCorrect, PTL DEF Spec

-----------------------------------------------------------------------------
(* Order.  With one lock session and no fault there is one goroutine, which *)
(* nobody makes push: it takes the events in the order of their arrival.    *)

LEMMA BeforeAppend ==
    ASSUME NEW S, NEW s \in Seq(S), NEW x \in S, NEW e, NEW f
    PROVE  Before(e, f, Append(s, x)) <=> Before(e, f, s) \/ (Occurs(e, s) /\ f = x)
<1> DEFINE t == Append(s, x)
<1>1. /\ Len(t) = Len(s) + 1 /\ Len(s) \in Nat
      /\ \A i \in 1 .. Len(s) : i \in 1 .. Len(t) /\ t[i] = s[i] /\ i < Len(s) + 1
      /\ t[Len(s) + 1] = x /\ Len(s) + 1 \in 1 .. Len(t)
    OBVIOUS
<1> HIDE DEF t
<1>2. ASSUME Before(e, f, t) PROVE Before(e, f, s) \/ (Occurs(e, s) /\ f = x)
    <2>1. PICK i, j \in 1 .. Len(t) : i < j /\ t[i] = e /\ t[j] = f
        BY <1>2 DEF Before
    <2>2. i \in 1 .. Len(s) /\ s[i] = e BY <1>1, <2>1
    <2>3. CASE j = Len(s) + 1 BY <1>1, <2>1, <2>2, <2>3 DEF Occurs
    <2>4. CASE j # Len(s) + 1
        <3>1. j \in 1 .. Len(s) /\ s[j] = f BY <1>1, <2>1, <2>4
        <3> QED BY <2>1, <2>2, <3>1 DEF Before
    <2> QED BY <2>3, <2>4
<1>3. ASSUME Before(e, f, s) PROVE Before(e, f, t)
    <2>1. PICK i, j \in 1 .. Len(s) : i < j /\ s[i] = e /\ s[j] = f
        BY <1>3 DEF Before
    <2> QED BY <1>1, <2>1 DEF Before
<1>4. ASSUME Occurs(e, s), f = x PROVE Before(e, f, t)
    <2>1. PICK i \in 1 .. Len(s) : s[i] = e BY <1>4 DEF Occurs
    <2> QED BY <1>1, <1>4, <2>1 DEF Before
<1> QED BY <1>2, <1>3, <1>4 DEF t

LEMMA BeforeTail ==
    ASSUME NEW S, NEW s \in Seq(S), s # <<>>, NoRepeat(s), NEW e, NEW f, Before(e, f, s)
    PROVE  f # Head(s) /\ (e # Head(s) => Before(e, f, Tail(s)))
<1> DEFINE t == Tail(s)
<1>1. /\ Len(s) \in Nat /\ Len(s) > 0
      /\ Len(t) = Len(s) - 1 /\ Head(s) = s[1] /\ 1 \in 1 .. Len(s)
      /\ \A i \in 1 .. Len(t) : t[i] = s[i + 1]
    OBVIOUS
<1> HIDE DEF t
<1>2. PICK i, j \in 1 .. Len(s) : i < j /\ s[i] = e /\ s[j] = f
    BY DEF Before
<1>3. f # Head(s) BY <1>1, <1>2 DEF NoRepeat
<1>4. ASSUME e # Head(s) PROVE Before(e, f, t)
    <2>1. i # 1 BY <1>1, <1>2, <1>4
    <2>2. /\ i - 1 \in 1 .. Len(t) /\ j - 1 \in 1 .. Len(t) /\ i - 1 < j - 1
          /\ (i - 1) + 1 = i /\ (j - 1) + 1 = j
        BY <1>1, <1>2, <2>1
    <2>3. t[i - 1] = e /\ t[j - 1] = f
        <3>1. t[i - 1] = s[(i - 1) + 1] /\ t[j - 1] = s[(j - 1) + 1] BY <1>1, <2>2
        <3> QED BY <1>2, <2>2, <3>1
    <2> QED BY <2>2, <2>3 DEF Before
<1> QED BY <1>3, <1>4 DEF t

LEMMA BeforeOccurs ==
    ASSUME NEW s, NEW e, NEW f, Before(e, f, s)
    PROVE  Occurs(e, s) /\ Occurs(f, s)
BY DEF Before, Occurs

\* At most one goroutine runs, and none while the lock is on: what it posts is
\* not pushed again.
OneSession ==
    /\ locks = 0 => ~isLocked
    /\ \A d \in Drains : drain[d] # Off => locks # 0 /\ ~isLocked
    /\ \A c, d \in Drains : drain[c] # Off /\ drain[d] # Off => c = d
    /\ \A e \in Events : Resubmitted(e) => pc[e] # "push"

\* The history lists what was answered 202, once each, and what waits or is
\* being resubmitted is in it.
Queue ==
    /\ \A e \in Events : Occurs(e, pushed) => pc[e] = "done" \/ Resubmitted(e)
    /\ \A e \in Events : Occurs(e, pushed) <=> answer[e] = "queued"
    /\ \A e \in Events : Occurs(e, pending) \/ Resubmitted(e) => Occurs(e, pushed)

\* Of two events in the history the first is never behind the second.
InLine ==
    \A e \in Events \ Malformed, f \in Events :
        Before(e, f, pushed) =>
            /\ Occurs(e, pending) /\ Occurs(f, pending) => Before(e, f, pending)
            /\ Resubmitted(f) => Occurs(e, stored)
            /\ Occurs(f, stored) => Before(e, f, stored)

InOrder == OneSession /\ Queue /\ InLine

OneByOne == locks <= 1 /\ faults = 0 => InOrder

LEMMA OrderInit == ASSUME Init PROVE OneByOne
<1>1. OneSession BY DEF Init, OneSession, Resubmitted, Off
<1>2. Queue BY IngestAssumption DEF Init, Queue, Resubmitted, Off, Occurs, IngestAssumption
<1>3. InLine BY DEF Init, InLine, Before
<1> QED BY <1>1, <1>2, <1>3 DEF OneByOne, InOrder

LEMMA OrderImplies == ASSUME OneByOne PROVE ReplayInOrder
BY DEF OneByOne, InOrder, Queue, InLine, ReplayInOrder

\* A request arrives; the lock is put on.
LEMMA OrderArrive ==
    ASSUME TypeOK, Places, InOrder, locks' <= 1,
           Lock \/ (\E e \in Events : Submit(e) \/ Check(e))
    PROVE  InOrder'
<1>1. UNCHANGED <<pending, stored, pushed, answer, drain>>
    BY DEF Lock, Submit, Check
<1>2. \A e \in Events : Resubmitted(e)' <=> Resubmitted(e)
    BY <1>1 DEF Resubmitted
<1>3. CASE Lock
    <2>1. locks' = locks + 1 /\ isLocked' = TRUE /\ pc' = pc BY <1>3 DEF Lock
    <2>2. locks = 0 /\ locks' # 0 BY <2>1 DEF TypeOK
    <2>3. \A d \in Drains : drain[d] = Off BY <2>2 DEF InOrder, OneSession
    <2>4. OneSession' BY <1>1, <1>2, <2>1, <2>2, <2>3 DEF OneSession, InOrder
    <2>5. Queue' BY <1>1, <1>2, <2>1 DEF Queue, InOrder
    <2>6. InLine' BY <1>1, <1>2 DEF InLine, InOrder
    <2> QED BY <2>4, <2>5, <2>6 DEF InOrder
<1>4. ASSUME NEW e \in Events, Submit(e) \/ Check(e) PROVE InOrder'
    <2>1. /\ UNCHANGED <<isLocked, locks>>
          /\ pc[e] \in {"unsent", "posted"}
          /\ pc'[e] = "push" => isLocked
          /\ \A f \in Events : f # e => pc'[f] = pc[f]
        BY <1>4 DEF Submit, Check, TypeOK
    <2>2. Resubmitted(e) => ~isLocked
        <3>1. \A d \in Drains : drain[d].ev = e => drain[d] # Off
            BY Apart
        <3> QED BY <3>1 DEF Resubmitted, InOrder, OneSession
    <2>3. OneSession' BY <1>1, <1>2, <2>1, <2>2 DEF OneSession, InOrder
    <2>4. Queue'
        <3>1. Occurs(e, pushed) => Resubmitted(e) BY <2>1 DEF InOrder, Queue
        <3> QED BY <1>1, <1>2, <2>1, <3>1 DEF Queue, InOrder
    <2>5. InLine' BY <1>1, <1>2 DEF InLine, InOrder
    <2> QED BY <2>3, <2>4, <2>5 DEF InOrder
<1> QED BY <1>3, <1>4

\* A request that ends takes its event out of the hands of the goroutine, and
\* changes nothing for another event.
LEMMA OrderReply ==
    ASSUME TypeOK, Places, InOrder, NEW e \in Events, NEW status, Reply(e, status),
           pc[e] \in InFlight
    PROVE  /\ pc'[e] = "done" /\ \A f \in Events : f # e => pc'[f] = pc[f]
           /\ \A f \in Events : f # e => answer'[f] = answer[f]
           /\ answer'[e] = IF Resubmitted(e) THEN answer[e] ELSE status
           /\ ~Resubmitted(e)'
           /\ \A f \in Events : f # e => (Resubmitted(f)' <=> Resubmitted(f))
           /\ Occurs(e, pushed) <=> Resubmitted(e)
           /\ \A d \in Drains : drain'[d] # Off => drain[d] # Off
<1>1. /\ pc'[e] = "done" /\ \A f \in Events : f # e => pc'[f] = pc[f]
      /\ \A f \in Events : f # e => answer'[f] = answer[f]
      /\ answer'[e] = IF Resubmitted(e) THEN answer[e] ELSE status
    BY DEF Reply, TypeOK
<1>2. \A d \in Drains : \/ drain'[d] = Popping /\ drain[d].ev = e
                        \/ drain'[d] = drain[d] /\ drain[d].ev # e
    BY DEF Reply, TypeOK
<1>3. /\ ~Resubmitted(e)'
      /\ \A f \in Events : f # e => (Resubmitted(f)' <=> Resubmitted(f))
    BY <1>2, Apart DEF Resubmitted
<1>4. Occurs(e, pushed) <=> Resubmitted(e)
    BY DEF InOrder, Queue, InFlight
<1>5. \A d \in Drains : drain'[d] # Off => drain[d] # Off
    BY <1>2, Apart
<1> QED BY <1>1, <1>3, <1>4, <1>5

LEMMA OrderPush ==
    ASSUME TypeOK, Places, InOrder, NEW e \in Events, Push(e)
    PROVE  InOrder'
<1>1. /\ UNCHANGED <<isLocked, stored, locks>> /\ pending' = Append(pending, e)
      /\ Reply(e, "queued") /\ pc[e] \in InFlight /\ pc[e] = "push"
    BY DEF Push, InFlight
<1>2. /\ pc'[e] = "done" /\ \A f \in Events : f # e => pc'[f] = pc[f]
      /\ \A f \in Events : f # e => answer'[f] = answer[f]
      /\ answer'[e] = IF Resubmitted(e) THEN answer[e] ELSE "queued"
      /\ ~Resubmitted(e)'
      /\ \A f \in Events : f # e => (Resubmitted(f)' <=> Resubmitted(f))
      /\ Occurs(e, pushed) <=> Resubmitted(e)
      /\ \A d \in Drains : drain'[d] # Off => drain[d] # Off
    BY <1>1, OrderReply
<1>3. ~Resubmitted(e) BY <1>1 DEF InOrder, OneSession
<1>4. pushed' = Append(pushed, e) /\ answer'[e] = "queued" /\ ~Occurs(e, pushed)
    BY <1>2, <1>3 DEF Push
<1>5. /\ \A f : Occurs(f, pushed') <=> Occurs(f, pushed) \/ f = e
      /\ \A f : Occurs(f, pending') <=> Occurs(f, pending) \/ f = e
    BY <1>1, <1>4, AppendFacts DEF TypeOK
<1>6. \A f, g : /\ Before(f, g, pushed') <=> Before(f, g, pushed) \/ (Occurs(f, pushed) /\ g = e)
                /\ Before(f, g, pending') <=> Before(f, g, pending) \/ (Occurs(f, pending) /\ g = e)
    BY <1>1, <1>4, BeforeAppend DEF TypeOK
<1>7. ~Occurs(e, stored) BY <1>1, ReplyFacts
<1>8. OneSession' BY <1>1, <1>2 DEF InOrder, OneSession
<1>9. Queue' BY <1>2, <1>4, <1>5 DEF InOrder, Queue
<1>10. InLine'
    <2> SUFFICES ASSUME NEW f \in Events \ Malformed, NEW g \in Events,
                        Before(f, g, pushed')
                 PROVE  /\ Occurs(f, pending') /\ Occurs(g, pending') => Before(f, g, pending')
                        /\ Resubmitted(g)' => Occurs(f, stored)
                        /\ Occurs(g, stored) => Before(f, g, stored)
        BY <1>1 DEF InLine
    <2>1. CASE g = e
        <3>1. Occurs(f, pushed) /\ f # e BY <1>4, <1>6, <2>1, BeforeOccurs
        <3> QED BY <1>2, <1>5, <1>6, <1>7, <2>1, <3>1
    <2>2. CASE g # e
        <3>1. Before(f, g, pushed) BY <1>6, <2>2
        <3>2. f # e BY <1>4, <3>1, BeforeOccurs
        <3> QED BY <1>2, <1>5, <1>6, <2>2, <3>1, <3>2 DEF InOrder, InLine
    <2> QED BY <2>1, <2>2
<1> QED BY <1>8, <1>9, <1>10 DEF InOrder

LEMMA OrderStore ==
    ASSUME TypeOK, Places, InOrder, NEW e \in Events, Store(e)
    PROVE  InOrder'
<1>1. /\ UNCHANGED <<isLocked, pending, pushed, locks>> /\ stored' = Append(stored, e)
      /\ Reply(e, "created") /\ pc[e] \in InFlight /\ e \notin Malformed
    BY DEF Store, InFlight
<1>2. /\ pc'[e] = "done" /\ \A f \in Events : f # e => pc'[f] = pc[f]
      /\ \A f \in Events : f # e => answer'[f] = answer[f]
      /\ answer'[e] = IF Resubmitted(e) THEN answer[e] ELSE "created"
      /\ ~Resubmitted(e)'
      /\ \A f \in Events : f # e => (Resubmitted(f)' <=> Resubmitted(f))
      /\ Occurs(e, pushed) <=> Resubmitted(e)
      /\ \A d \in Drains : drain'[d] # Off => drain[d] # Off
    BY <1>1, OrderReply
<1>3. \A f : Occurs(f, stored') <=> Occurs(f, stored) \/ f = e
    BY <1>1, AppendFacts DEF TypeOK
<1>4. \A f, g : Before(f, g, stored') <=> Before(f, g, stored) \/ (Occurs(f, stored) /\ g = e)
    BY <1>1, BeforeAppend DEF TypeOK
<1>5. ~Occurs(e, stored) /\ ~Occurs(e, pending) BY <1>1, ReplyFacts
<1>6. OneSession' BY <1>1, <1>2 DEF InOrder, OneSession
<1>7. Queue' BY <1>1, <1>2, <1>5 DEF InOrder, Queue
<1>8. InLine'
    <2> SUFFICES ASSUME NEW f \in Events \ Malformed, NEW g \in Events,
                        Before(f, g, pushed)
                 PROVE  /\ Occurs(f, pending) /\ Occurs(g, pending) => Before(f, g, pending)
                        /\ Resubmitted(g)' => Occurs(f, stored')
                        /\ Occurs(g, stored') => Before(f, g, stored')
        BY <1>1 DEF InLine
    <2>1. /\ Occurs(f, pending) /\ Occurs(g, pending) => Before(f, g, pending)
          /\ Resubmitted(g) => Occurs(f, stored)
          /\ Occurs(g, stored) => Before(f, g, stored)
        BY DEF InOrder, InLine
    <2>2. CASE g = e
        <3>1. Resubmitted(e) BY <1>2, <2>2, BeforeOccurs
        <3> QED BY <1>2, <1>3, <1>4, <2>1, <2>2, <3>1
    <2>3. CASE g # e BY <1>2, <1>3, <1>4, <2>1, <2>3
    <2> QED BY <2>2, <2>3
<1> QED BY <1>6, <1>7, <1>8 DEF InOrder

LEMMA OrderRefuse ==
    ASSUME TypeOK, Places, InOrder, NEW e \in Events, Refuse(e)
    PROVE  InOrder'
<1>1. /\ UNCHANGED <<isLocked, pending, stored, pushed, locks>>
      /\ Reply(e, "error") /\ pc[e] \in InFlight
    BY DEF Refuse, InFlight
<1>2. /\ pc'[e] = "done" /\ \A f \in Events : f # e => pc'[f] = pc[f]
      /\ \A f \in Events : f # e => answer'[f] = answer[f]
      /\ answer'[e] = IF Resubmitted(e) THEN answer[e] ELSE "error"
      /\ ~Resubmitted(e)'
      /\ \A f \in Events : f # e => (Resubmitted(f)' <=> Resubmitted(f))
      /\ Occurs(e, pushed) <=> Resubmitted(e)
      /\ \A d \in Drains : drain'[d] # Off => drain[d] # Off
    BY <1>1, OrderReply
<1>3. ~Occurs(e, pending) BY <1>1, ReplyFacts
<1>4. OneSession' BY <1>1, <1>2 DEF InOrder, OneSession
<1>5. Queue' BY <1>1, <1>2, <1>3 DEF InOrder, Queue
<1>6. InLine' BY <1>1, <1>2 DEF InOrder, InLine
<1> QED BY <1>4, <1>5, <1>6 DEF InOrder

\* A goroutine starts, ends or posts.
LEMMA OrderRun ==
    ASSUME TypeOK, Places, InOrder, locks <= 1, \A kind : ~GoesWrong(kind),
           NEW d \in Drains, Unlock(d) \/ Stop(d) \/ Post(d)
    PROVE  InOrder'
<1>1. /\ UNCHANGED <<pending, stored, pushed, answer, locks>>
      /\ \A c \in Drains : c # d => drain'[c] = drain[c]
      /\ drain'[d].ev = drain[d].ev
    <2>1. CASE Unlock(d) BY <2>1, Apart DEF Unlock, TypeOK
    <2>2. CASE Stop(d)
        <3>1. drain[d].ev = NoEvent BY <2>2 DEF Stop, Places, Kept
        <3> QED BY <2>2, <3>1, Apart DEF Stop, TypeOK
    <2>3. CASE Post(d) BY <2>3 DEF Post, TypeOK, Goroutine
    <2> QED BY <2>1, <2>2, <2>3
<1>2. \A e \in Events : Resubmitted(e)' <=> Resubmitted(e)
    BY <1>1 DEF Resubmitted
<1>3. CASE Unlock(d)
    <2>1. /\ isLocked /\ isLocked' = FALSE /\ pc' = pc
        BY <1>3 DEF Unlock
    <2>2. locks # 0 /\ \A c \in Drains : drain[c] = Off
        BY <2>1 DEF InOrder, OneSession
    <2>3. OneSession'
        BY <1>1, <1>2, <2>1, <2>2 DEF InOrder, OneSession
    <2>4. Queue' BY <1>1, <1>2, <2>1 DEF InOrder, Queue
    <2>5. InLine' BY <1>1, <1>2 DEF InOrder, InLine
    <2> QED BY <2>3, <2>4, <2>5 DEF InOrder
<1>4. CASE Stop(d) \/ Post(d)
    <2>1. isLocked' = isLocked /\ drain[d] # Off
        BY <1>4, Apart DEF Stop, Post
    <2>2. \A e \in Events : \/ pc'[e] = pc[e]
                            \/ Resubmitted(e) /\ pc'[e] = "posted"
        BY <1>4 DEF Stop, Post, Resubmitted, TypeOK
    <2>3. \A c \in Drains : drain'[c] # Off => drain[c] # Off
        BY <1>1, <2>1
    <2>4. OneSession'
        BY <1>1, <1>2, <2>1, <2>2, <2>3 DEF InOrder, OneSession
    <2>5. Queue' BY <1>1, <1>2, <2>2 DEF InOrder, Queue
    <2>6. InLine' BY <1>1, <1>2 DEF InOrder, InLine
    <2> QED BY <2>4, <2>5, <2>6 DEF InOrder
<1> QED BY <1>3, <1>4

\* LPOP: whatever arrived before the head of the list is stored, for nothing
\* before it waits and nobody else carries an event.
LEMMA OrderPop ==
    ASSUME TypeOK, Places, InOrder, QueuedIsKept, faults = 0, NEW d \in Drains, Pop(d)
    PROVE  InOrder'
<1> DEFINE h == Head(pending)
<1>1. /\ UNCHANGED <<isLocked, stored, pushed, answer, locks, pc>>
      /\ pending' = Tail(pending) /\ pending # <<>>
      /\ drain'[d] = [pc |-> "post", ev |-> h]
      /\ drain[d].ev = NoEvent /\ drain[d] # Off
      /\ \A c \in Drains : c # d => drain'[c] = drain[c]
    BY Apart DEF Pop, Places, Kept, TypeOK
<1>2. /\ h \in Events /\ Occurs(h, pending)
      /\ \A e : Occurs(e, pending') => Occurs(e, pending) /\ e # h
    BY <1>1, TailFacts DEF Places, TypeOK
<1>3. \A c \in Drains : drain[c].ev = NoEvent
    BY <1>1, Apart DEF InOrder, OneSession
<1>4. \A e \in Events : ~Resubmitted(e) BY <1>3, Apart DEF Resubmitted
<1>5. drain'[d].ev = h /\ \A c \in Drains : drain'[c].ev = h \/ drain'[c].ev = NoEvent
    BY <1>1, <1>3
<1>6. \A e \in Events : Resubmitted(e)' <=> e = h
    BY <1>2, <1>5, Apart DEF Resubmitted
<1> HIDE DEF h
<1>7. pc[h] = "done" BY <1>2 DEF Places, AtRest
<1>8. OneSession'
    BY <1>1, <1>6, <1>7 DEF InOrder, OneSession
<1>9. Queue' BY <1>1, <1>2, <1>4, <1>6, <1>7 DEF InOrder, Queue
<1>10. InLine'
    <2> SUFFICES ASSUME NEW e \in Events \ Malformed, NEW f \in Events,
                        Before(e, f, pushed)
                 PROVE  /\ Occurs(e, pending') /\ Occurs(f, pending') => Before(e, f, pending')
                        /\ Resubmitted(f)' => Occurs(e, stored)
                        /\ Occurs(f, stored) => Before(e, f, stored)
        BY <1>1 DEF InLine
    <2>1. /\ Occurs(e, pending) /\ Occurs(f, pending) => Before(e, f, pending)
          /\ Occurs(f, stored) => Before(e, f, stored)
        BY DEF InOrder, InLine
    <2>2. Before(e, f, pending) => f # h /\ (e # h => Before(e, f, pending'))
        BY <1>1, BeforeTail DEF TypeOK, Places, h
    <2>3. ASSUME f = h PROVE Occurs(e, stored)
        <3>1. ~Occurs(e, pending) BY <1>2, <2>1, <2>2, <2>3
        <3>2. answer[e] = "queued" BY BeforeOccurs DEF InOrder, Queue
        <3>3. Occurs(e, pending) \/ Resubmitted(e) \/ Occurs(e, stored)
            BY <3>2 DEF QueuedIsKept
        <3> QED BY <1>4, <3>1, <3>3
    <2> QED BY <1>2, <1>6, <2>1, <2>2, <2>3
<1> QED BY <1>8, <1>9, <1>10 DEF InOrder

LEMMA OrderNext ==
    ASSUME TypeOK, Places, QueuedIsKept, OneByOne, [Next]_vars
    PROVE  OneByOne'
<1> SUFFICES ASSUME locks' <= 1, faults' = 0 PROVE InOrder'
    BY DEF OneByOne
<1>1. faults = 0 /\ \A kind : ~GoesWrong(kind) BY FaultsCount
<1>2. locks <= 1
    <2>1. locks' = locks \/ locks' = locks + 1
        BY DEF Next, Submit, Request, Check, Push, Store, Refuse, Lock, Unlock,
               Drain, Pop, Stop, Post, PostFails, Crash, Rest, vars
    <2> QED BY <2>1 DEF TypeOK
<1>3. InOrder BY <1>1, <1>2 DEF OneByOne
<1>4. CASE UNCHANGED vars
    <2>1. \A e \in Events : Resubmitted(e)' <=> Resubmitted(e)
        BY <1>4 DEF vars, Resubmitted
    <2> QED BY <1>3, <1>4, <2>1 DEF vars, InOrder, OneSession, Queue, InLine
<1>5. ~Crash /\ \A d \in Drains : ~PostFails(d) BY <1>1 DEF Crash, PostFails
<1> QED BY <1>1, <1>2, <1>3, <1>4, <1>5, OrderArrive, OrderPush, OrderStore, OrderRefuse,
       OrderRun, OrderPop DEF Next, Request, Drain, Rest

\* In a single lock session in which nothing goes wrong, the events that were
\* queued are stored in the order in which they were queued.
THEOREM ReplayedInOrder == Spec => []ReplayInOrder
<1>1. Init => QueuedIsKept BY DEF Init, QueuedIsKept
<1>2. TypeOK /\ Places /\ QueuedIsKept /\ [Next]_vars => QueuedIsKept'
    BY KeptNext
<1>3. TypeOK /\ Places /\ [Next]_vars => Places' BY PlacesNext
<1>4. TypeOK /\ Places /\ QueuedIsKept /\ OneByOne /\ [Next]_vars => OneByOne'
    BY OrderNext
<1> QED BY <1>1, <1>2, <1>3, <1>4, PlacesInit, OrderInit, OrderImplies, TypeCorrect,
       PTL DEF Spec

=============================================================================
