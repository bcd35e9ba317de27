----------------------------- MODULE RecordsProofs -----------------------------
(***************************************************************************)
(* Proofs about the records, for any number of tasks, chores, users,       *)
(* channels and events.                                                    *)
(***************************************************************************)
EXTENDS Records, TLAPS

-----------------------------------------------------------------------------
(* Type correctness.                                                       *)

\* Which records a task may be, kind by kind.
LEMMA TaskKinds ==
    ASSUME NEW k \in Task
    PROVE  /\ k # NoTask
           /\ k.op \in {"mark", "edit"} => k.key \in Chores /\ k.chore \in Chore
           /\ k.op = "signals" => k.key \in Users /\ k.profile \in Profile
           /\ k.op = "synthesis" => k.key \in Users /\ k.profile \in Profile
           /\ k.op = "summary" => k.key \in Channels /\ k.upto \in Nat
           /\ k.op \in {"mark", "edit", "signals", "synthesis", "summary"}
           /\ k.key \in Chores => k.op \in {"mark", "edit"}
           /\ k.key \in Users => k.op \in {"signals", "synthesis"}
           /\ k.key \in Channels => k.op = "summary"
           /\ k.key \in Chores \union Users \union Channels
BY NoneAssumption, RecordsAssumption DEF Task

LEMMA TaskMakes ==
    /\ \A op \in {"mark", "edit"}, c \in Chores, r \in Chore :
          [op |-> op, key |-> c, chore |-> r] \in Task
    /\ \A u \in Users, p \in Profile :
          [op |-> "signals", key |-> u, profile |-> p] \in Task
    /\ \A pc \in {"sanitize", "ask"}, u \in Users, p \in Profile :
          [op |-> "synthesis", pc |-> pc, key |-> u, profile |-> p] \in Task
    /\ \A pc \in {"fetch", "save", "unlock"}, ch \in Channels, n \in Nat :
          [op |-> "summary", pc |-> pc, key |-> ch, upto |-> n] \in Task
BY DEF Task

LEMMA TaskMoves ==
    ASSUME NEW k \in Task
    PROVE  /\ k.op = "synthesis" =>
                 /\ [k EXCEPT !.pc = "ask"] \in Task
                 /\ [k EXCEPT !.pc = "ask"].key = k.key
                 /\ [k EXCEPT !.pc = "ask"].op = "synthesis"
                 /\ [k EXCEPT !.pc = "ask"].profile = k.profile
           /\ k.op = "summary" =>
                 /\ [k EXCEPT !.pc = "unlock"] \in Task
                 /\ [k EXCEPT !.pc = "unlock"].key = k.key
                 /\ [k EXCEPT !.pc = "unlock"].op = "summary"
                 /\ [k EXCEPT !.pc = "unlock"].pc = "unlock"
                 /\ \A n \in Nat :
                       /\ [k EXCEPT !.pc = "save", !.upto = n] \in Task
                       /\ [k EXCEPT !.pc = "save", !.upto = n].key = k.key
                       /\ [k EXCEPT !.pc = "save", !.upto = n].op = "summary"
                       /\ [k EXCEPT !.pc = "save", !.upto = n].pc = "save"
                       /\ [k EXCEPT !.pc = "save", !.upto = n].upto = n
BY DEF Task

LEMMA RewriteType ==
    ASSUME NEW r \in Chore
    PROVE  /\ r.edits \in Nat /\ r.lastRun \in Nat
           /\ [r EXCEPT !.lastRun = r.lastRun + 1] \in Chore
           /\ \A n \in Nat : [r EXCEPT !.lastRun = n] \in Chore
           /\ \A n \in {0, r.lastRun} : [edits |-> r.edits + 1, lastRun |-> n] \in Chore
           /\ \A reset \in BOOLEAN :
                 [edits |-> r.edits + 1, lastRun |-> IF reset THEN 0 ELSE r.lastRun] \in Chore
BY DEF Chore

\* What a rewrite makes of the chore and of its history.
LEMMA WriteType ==
    ASSUME TypeOK, NEW t \in Tasks, MarkWrite(t) \/ UpdateWrite(t),
           NEW c \in Chores, c = task[t].key, task[t].chore \in Chore, asked[c] \in Chore
    PROVE  \E r \in Chore, h \in Chore :
              /\ chore' = [chore EXCEPT ![c] = r]
              /\ asked' = [asked EXCEPT ![c] = h]
              /\ task[t].chore = asked[c] => r = h
<1>1. CASE MarkWrite(t)
    <2> DEFINE r == [task[t].chore EXCEPT !.lastRun = asked[c].lastRun + 1]
               h == [asked[c] EXCEPT !.lastRun = asked[c].lastRun + 1]
    <2>1. r \in Chore /\ h \in Chore BY RewriteType
    <2>2. chore' = [chore EXCEPT ![c] = r] /\ asked' = [asked EXCEPT ![c] = h]
        BY <1>1 DEF MarkWrite
    <2> QED BY <2>1, <2>2
<1>2. CASE UpdateWrite(t)
    <2>1. PICK reset \in BOOLEAN :
             /\ chore' = [chore EXCEPT ![c] =
                            [edits |-> task[t].chore.edits + 1,
                             lastRun |-> IF reset THEN 0 ELSE task[t].chore.lastRun]]
             /\ asked' = [asked EXCEPT ![c] =
                            [edits |-> @.edits + 1, lastRun |-> IF reset THEN 0 ELSE @.lastRun]]
        BY <1>2 DEF UpdateWrite
    <2> DEFINE r == [edits |-> task[t].chore.edits + 1,
                     lastRun |-> IF reset THEN 0 ELSE task[t].chore.lastRun]
               h == [edits |-> asked[c].edits + 1,
                     lastRun |-> IF reset THEN 0 ELSE asked[c].lastRun]
    <2>2. r \in Chore /\ h \in Chore BY RewriteType
    <2>3. chore' = [chore EXCEPT ![c] = r] /\ asked' = [asked EXCEPT ![c] = h]
        BY <2>1
    <2> QED BY <2>2, <2>3
<1> QED BY <1>1, <1>2

LEMMA ProfileType ==
    ASSUME NEW p \in Profile
    PROVE  /\ [p EXCEPT !.messages = @ + 1] \in Profile
           /\ [p EXCEPT !.dossier = @ + 1] \in Profile
BY DEF Profile

\* What a save makes of the profile and of its history.
LEMMA SaveType ==
    ASSUME TypeOK, NEW t \in Tasks, SignalsSave(t) \/ SynthesisSave(t),
           NEW u \in Users, u = task[t].key, task[t].profile \in Profile
    PROVE  \/ UNCHANGED <<profile, sent>>
           \/ \E p \in Profile, h \in Profile :
                 /\ profile' = [profile EXCEPT ![u] = p]
                 /\ sent' = [sent EXCEPT ![u] = h]
                 /\ task[t].profile = sent[u] => p = h
<1>0. sent[u] \in Profile BY DEF TypeOK
<1>1. CASE SignalsSave(t)
    <2> DEFINE p == [task[t].profile EXCEPT !.messages = @ + 1]
               h == [sent[u] EXCEPT !.messages = @ + 1]
    <2>1. p \in Profile /\ h \in Profile BY <1>0, ProfileType
    <2>2. profile' = [profile EXCEPT ![u] = p] /\ sent' = [sent EXCEPT ![u] = h]
        BY <1>1 DEF SignalsSave
    <2> QED BY <2>1, <2>2
<1>2. CASE SynthesisSave(t)
    <2> DEFINE p == [task[t].profile EXCEPT !.dossier = @ + 1]
               h == [sent[u] EXCEPT !.dossier = @ + 1]
    <2>1. p \in Profile /\ h \in Profile BY <1>0, ProfileType
    <2>2. \/ profile' = [profile EXCEPT ![u] = p] /\ sent' = [sent EXCEPT ![u] = h]
          \/ UNCHANGED <<profile, sent>>
        BY <1>2 DEF SynthesisSave, profiles
    <2> QED BY <2>1, <2>2
<1> QED BY <1>1, <1>2

LEMMA SummaryReach ==
    ASSUME TypeOK, NEW ch \in Channels, Read(ch) >= Batch, IsNew(ch) >= Batch
    PROVE  /\ events[ch] - Keep \in Nat
           /\ ch \notin headless => events[ch] - Keep >= summary[ch]
BY RecordsAssumption DEF TypeOK, Read, IsNew

\* A task that has read the channel saves what it read, or leaves.
LEMMA FetchMoves ==
    ASSUME TypeOK, NEW t \in Tasks, SummaryFetch(t)
    PROVE  /\ task[t].op = "summary" /\ task[t].key \in Channels
           /\ \E k \in Task :
                 /\ Goto(t, k) /\ k.key = task[t].key /\ k.op = "summary"
                 /\ \/ k.pc = "unlock"
                    \/ /\ k.pc = "save"
                       /\ k.key \notin headless => k.upto >= summary[k.key]
<1>1. task[t] \in Task /\ task[t].op = "summary" /\ task[t].key \in Channels
    BY TaskKinds DEF SummaryFetch, At, Op, TypeOK
<1> DEFINE ch == task[t].key
           n  == events[ch] - Keep
<1>2. CASE /\ Read(ch) >= Batch /\ IsNew(ch) >= Batch
           /\ Goto(t, [task[t] EXCEPT !.pc = "save", !.upto = n])
    <2>1. n \in Nat /\ (ch \notin headless => n >= summary[ch]) BY <1>1, <1>2, SummaryReach
    <2> HIDE DEF n
    <2> DEFINE k == [task[t] EXCEPT !.pc = "save", !.upto = n]
    <2>2. /\ k \in Task /\ k.key = ch /\ k.op = "summary" /\ k.pc = "save" /\ k.upto = n
        BY <1>1, <2>1, TaskMoves, ZenonT(30)
    <2>3. Goto(t, k) BY <1>2
    <2> HIDE DEF k
    <2> QED BY <1>1, <2>1, <2>2, <2>3
<1>3. CASE Goto(t, [task[t] EXCEPT !.pc = "unlock"])
    BY <1>1, <1>3, TaskMoves
<1> QED BY <1>1, <1>2, <1>3 DEF SummaryFetch

LEMMA TypeInit == ASSUME Init PROVE TypeOK
BY DEF Init, TypeOK, Profile

\* What a task's bookkeeping keeps well typed.
LEMMA TaskType ==
    ASSUME TypeOK, NEW t \in Tasks, NEW k \in Task \union {NoTask},
           (k \in Task /\ Begin(t, k)) \/ Goto(t, k)
    PROVE  /\ task' \in [Tasks -> Task \union {NoTask}]
           /\ raced' \subseteq Chores \union Users /\ ops' \in Nat
BY TaskKinds DEF TypeOK, Begin, Goto

\* What exists, existed or is rewritten was created.
Asked ==
    \A c \in Chores :
        chore[c] # NoChore \/ c \in deleted \/ Rewriting(c) # {} => asked[c] # NoChore

LEMMA TypeNext == ASSUME TypeOK, Asked, [Next]_vars PROVE TypeOK'
<1> USE DEF chores, profiles, summaries
<1>1. ASSUME NEW t \in Tasks, NEW c \in Chores, ChoreRead(t, c) PROVE TypeOK'
    <2>1. chore[c] \in Chore BY <1>1 DEF ChoreRead, TypeOK
    <2>2. PICK op \in {"mark", "edit"} : Begin(t, [op |-> op, key |-> c, chore |-> chore[c]])
        BY <1>1 DEF ChoreRead
    <2>3. [op |-> op, key |-> c, chore |-> chore[c]] \in Task BY <2>1, TaskMakes
    <2> QED BY <1>1, <2>2, <2>3, TaskType DEF ChoreRead, TypeOK
<1>2. ASSUME NEW t \in Tasks, NEW u \in Users, SignalsLoad(t, u) \/ SynthesisLoad(t, u)
      PROVE  TypeOK'
    <2>1. profile[u] \in Profile BY DEF TypeOK
    <2>2. PICK k \in Task : Begin(t, k)
        BY <1>2, <2>1, TaskMakes DEF SignalsLoad, SynthesisLoad
    <2> QED BY <1>2, <2>2, TaskType DEF SignalsLoad, SynthesisLoad, TypeOK
<1>3. ASSUME NEW t \in Tasks, NEW ch \in Channels, SummaryBegin(t, ch) PROVE TypeOK'
    <2>1. [op |-> "summary", pc |-> "fetch", key |-> ch, upto |-> 0] \in Task BY TaskMakes
    <2> QED BY <1>3, <2>1, TaskType DEF SummaryBegin, TypeOK
<1>4. ASSUME NEW t \in Tasks, MarkWrite(t) \/ UpdateWrite(t) PROVE TypeOK'
    <2>1. task[t] \in Task /\ task[t].key \in Chores /\ task[t].chore \in Chore
        BY <1>4, TaskKinds DEF MarkWrite, UpdateWrite, Op, TypeOK
    <2>2. asked[task[t].key] \in Chore
        BY <2>1, TaskKinds DEF Asked, Rewriting, TypeOK
    <2>3. Goto(t, NoTask) BY <1>4 DEF MarkWrite, UpdateWrite, Done
    <2>4. /\ chore' \in [Chores -> Chore \union {NoChore}]
          /\ asked' \in [Chores -> Chore \union {NoChore}]
        BY <1>4, <2>1, <2>2, WriteType DEF TypeOK
    <2> QED BY <1>4, <2>3, <2>4, TaskType DEF MarkWrite, UpdateWrite, TypeOK
<1>5. ASSUME NEW t \in Tasks, SignalsSave(t) PROVE TypeOK'
    <2>1. task[t] \in Task /\ task[t].key \in Users /\ task[t].profile \in Profile
        BY <1>5, TaskKinds DEF SignalsSave, Op, TypeOK
    <2>2. Goto(t, NoTask) BY <1>5 DEF SignalsSave, Done
    <2>3. profile' \in [Users -> Profile] /\ sent' \in [Users -> Profile]
        BY <1>5, <2>1, SaveType DEF TypeOK
    <2> QED BY <1>5, <2>2, <2>3, TaskType DEF SignalsSave, TypeOK
<1>6. ASSUME NEW t \in Tasks, SynthesisSanitize(t) PROVE TypeOK'
    <2>1. task[t] \in Task /\ task[t].key \in Users /\ task[t].profile \in Profile
        BY <1>6, TaskKinds DEF SynthesisSanitize, At, Op, TypeOK
    <2>2. [task[t] EXCEPT !.pc = "ask"] \in Task
        BY <1>6, <2>1, TaskMoves DEF SynthesisSanitize, At, Op
    <2>3. PICK k \in Task \union {NoTask} : Goto(t, k)
        BY <1>6, <2>2 DEF SynthesisSanitize, Done
    <2>4. profile' \in [Users -> Profile] BY <1>6, <2>1 DEF SynthesisSanitize, TypeOK
    <2> QED BY <1>6, <2>3, <2>4, TaskType DEF SynthesisSanitize, TypeOK
<1>7. ASSUME NEW t \in Tasks, SynthesisSave(t) PROVE TypeOK'
    <2>1. task[t] \in Task /\ task[t].key \in Users /\ task[t].profile \in Profile
        BY <1>7, TaskKinds DEF SynthesisSave, At, Op, TypeOK
    <2>2. Goto(t, NoTask) BY <1>7 DEF SynthesisSave, Done
    <2>3. profile' \in [Users -> Profile] /\ sent' \in [Users -> Profile]
        BY <1>7, <2>1, SaveType DEF TypeOK
    <2> QED BY <1>7, <2>2, <2>3, TaskType DEF SynthesisSave, TypeOK
<1>8. ASSUME NEW t \in Tasks, SummaryFetch(t) PROVE TypeOK'
    <2>1. task[t] \in Task /\ task[t].key \in Channels /\ task[t].op = "summary"
        BY <1>8, TaskKinds DEF SummaryFetch, At, Op, TypeOK
    <2>2. PICK k \in Task : Goto(t, k)
        BY <1>8, FetchMoves
    <2> QED BY <1>8, <2>2, TaskType DEF SummaryFetch, TypeOK
<1>9. ASSUME NEW t \in Tasks, SummarySave(t) \/ SummaryUnlock(t) PROVE TypeOK'
    <2>1. /\ task[t] \in Task /\ task[t].key \in Channels /\ task[t].op = "summary"
          /\ task[t].upto \in Nat
        BY <1>9, TaskKinds DEF SummarySave, SummaryUnlock, At, Op, TypeOK
    <2>2. PICK k \in Task \union {NoTask} : Goto(t, k)
        BY <1>9, <2>1, TaskMoves DEF SummarySave, SummaryUnlock, Done
    <2>3. summary' \in [Channels -> Nat] /\ headless' \subseteq Channels
        BY <1>9, <2>1 DEF SummarySave, SummaryUnlock, TypeOK
    <2> QED BY <1>9, <2>2, <2>3, TaskType DEF SummarySave, SummaryUnlock, TypeOK
<1>10. ASSUME NEW c \in Chores, Create(c) \/ Delete(c) PROVE TypeOK'
    <2>1. [edits |-> 0, lastRun |-> 0] \in Chore BY DEF Chore
    <2> QED BY <1>10, <2>1 DEF Create, Delete, TypeOK
<1>11. ASSUME NEW ch \in Channels, LockExpires(ch) \/ HeadDeleted(ch) \/ EventAdded(ch)
       PROVE  TypeOK'
    BY <1>11 DEF LockExpires, HeadDeleted, EventAdded, TypeOK
<1>12. CASE Crash
    BY <1>12 DEF Crash, TypeOK
<1>13. CASE UNCHANGED vars
    BY <1>13 DEF vars, TypeOK
<1> QED BY <1>1, <1>2, <1>3, <1>4, <1>5, <1>6, <1>7, <1>8, <1>9, <1>10, <1>11, <1>12, <1>13
        DEF Next

LEMMA AskedNext == ASSUME TypeOK, TypeOK', Asked, [Next]_vars PROVE Asked'
<1> USE DEF chores, profiles, summaries
<1>0. ASSUME NEW t \in Tasks, NEW k \in Task, Begin(t, k), UNCHANGED chores,
             k.key \in Chores => asked[k.key] # NoChore
      PROVE  Asked'
    BY <1>0 DEF Asked, Rewriting, Begin, TypeOK
<1>1. ASSUME NEW t \in Tasks, NEW k \in Task, Goto(t, k), UNCHANGED chores,
             k.key = task[t].key, task[t] # NoTask
      PROVE  Asked'
    BY <1>1 DEF Asked, Rewriting, Goto, TypeOK
<1>2. ASSUME NEW t \in Tasks, Done(t), UNCHANGED chores PROVE Asked'
    BY <1>2 DEF Asked, Rewriting, Done, Goto, TypeOK
<1>3. ASSUME NEW t \in Tasks, NEW c \in Chores, ChoreRead(t, c) PROVE Asked'
    <2>1. chore[c] \in Chore /\ asked[c] # NoChore BY <1>3 DEF ChoreRead, TypeOK, Asked
    <2> QED BY <1>0, <1>3, <2>1, TaskMakes DEF ChoreRead
<1>4. ASSUME NEW t \in Tasks, NEW u \in Users, SignalsLoad(t, u) \/ SynthesisLoad(t, u)
      PROVE  Asked'
    <2>1. profile[u] \in Profile BY DEF TypeOK
    <2>2. u \notin Chores BY RecordsAssumption
    <2> QED BY <1>0, <1>4, <2>1, <2>2, TaskMakes DEF SignalsLoad, SynthesisLoad
<1>5. ASSUME NEW t \in Tasks, NEW ch \in Channels, SummaryBegin(t, ch) PROVE Asked'
    <2>1. ch \notin Chores BY RecordsAssumption
    <2> QED BY <1>0, <1>5, <2>1, TaskMakes DEF SummaryBegin
<1>6. ASSUME NEW t \in Tasks, MarkWrite(t) \/ UpdateWrite(t) PROVE Asked'
    <2>1. task[t] \in Task /\ task[t].key \in Chores /\ task[t].chore \in Chore
        BY <1>6, TaskKinds DEF MarkWrite, UpdateWrite, Op, TypeOK
    <2>2. asked[task[t].key] \in Chore
        BY <2>1, TaskKinds DEF Asked, Rewriting, TypeOK
    <2>3. PICK h \in Chore : asked' = [asked EXCEPT ![task[t].key] = h]
        BY <1>6, <2>1, <2>2, WriteType
    <2>4. /\ \A c \in Chores \ {task[t].key} : asked'[c] = asked[c] /\ chore'[c] = chore[c]
          /\ deleted' = deleted
          /\ Goto(t, NoTask)
        BY <1>6 DEF MarkWrite, UpdateWrite, TypeOK, Done
    <2>5. \A c \in Chores : Rewriting(c)' # {} => Rewriting(c) # {}
        BY <2>4 DEF Rewriting, Goto, TypeOK
    <2> QED BY <2>1, <2>3, <2>4, <2>5, NoneAssumption DEF Asked, TypeOK
<1>7. ASSUME NEW t \in Tasks, SignalsSave(t) \/ SynthesisSave(t) \/ SummaryUnlock(t)
      PROVE  Asked'
    BY <1>2, <1>7 DEF SignalsSave, SynthesisSave, SummaryUnlock
<1>8. ASSUME NEW t \in Tasks, SynthesisSanitize(t) \/ SummaryFetch(t) \/ SummarySave(t)
      PROVE  Asked'
    <2>1. /\ task[t] \in Task /\ task[t].key \notin Chores
        BY <1>8, TaskKinds, RecordsAssumption
        DEF SynthesisSanitize, SummaryFetch, SummarySave, At, Op, TypeOK
    <2>2. PICK k \in Task \union {NoTask} : Goto(t, k) /\ (k = NoTask \/ k.key = task[t].key)
        <3>1. CASE SynthesisSanitize(t)
            <4> DEFINE k == [task[t] EXCEPT !.pc = "ask"]
            <4>1. k \in Task /\ k.key = task[t].key
                BY <2>1, <3>1, TaskMoves DEF SynthesisSanitize, At, Op
            <4>2. Goto(t, NoTask) \/ Goto(t, k) BY <3>1 DEF SynthesisSanitize, Done
            <4> HIDE DEF k
            <4> QED BY <4>1, <4>2
        <3>2. CASE SummaryFetch(t)
            BY <2>1, <3>2, FetchMoves
        <3>3. CASE SummarySave(t)
            <4> DEFINE k == [task[t] EXCEPT !.pc = "unlock"]
            <4>1. k \in Task /\ k.key = task[t].key
                BY <2>1, <3>3, TaskMoves DEF SummarySave, At, Op
            <4>2. Goto(t, k) BY <3>3 DEF SummarySave
            <4> HIDE DEF k
            <4> QED BY <4>1, <4>2
        <3> QED BY <1>8, <3>1, <3>2, <3>3
    <2>3. UNCHANGED chores
        BY <1>8 DEF SynthesisSanitize, SummaryFetch, SummarySave
    <2> QED BY <2>1, <2>2, <2>3 DEF Asked, Rewriting, Goto, TypeOK
<1>9. ASSUME NEW c \in Chores, Create(c) \/ Delete(c) PROVE Asked'
    <2>1. [edits |-> 0, lastRun |-> 0] # NoChore BY NoneAssumption DEF Chore
    <2> QED BY <1>9, <2>1 DEF Create, Delete, Asked, Rewriting, TypeOK
<1>10. ASSUME NEW ch \in Channels, LockExpires(ch) \/ HeadDeleted(ch) \/ EventAdded(ch)
       PROVE  Asked'
    BY <1>10 DEF LockExpires, HeadDeleted, EventAdded, Asked, Rewriting
<1>11. CASE Crash
    BY <1>11 DEF Crash, Asked, Rewriting
<1>12. CASE UNCHANGED vars
    BY <1>12 DEF vars, Asked, Rewriting
<1> QED BY <1>3, <1>4, <1>5, <1>6, <1>7, <1>8, <1>9, <1>10, <1>11, <1>12 DEF Next

LEMMA AskedInit == ASSUME Init PROVE Asked
BY DEF Init, Asked, Rewriting

LEMMA Typed == Spec => [](TypeOK /\ Asked)
BY TypeInit, AskedInit, TypeNext, AskedNext, PTL DEF Spec

\* The records, the tasks and the history have their types in every reachable
\* state: above all, no summary ends before the first event.
THEOREM TypeCorrect == Spec => []TypeOK
BY Typed, PTL

-----------------------------------------------------------------------------
(* What the records are when nobody raced.                                 *)

\* The only rewrite of a record under way, and the only summary of a channel.
Sole ==
    \A t, q \in Tasks :
        /\ task[t] # NoTask /\ task[q] # NoTask /\ task[t].key = task[q].key
        /\ task[t].key \notin raced \union loose
        => t = q

\* It read what is still there.
Unchanged ==
    \A t \in Tasks :
        task[t] # NoTask /\ task[t].key \notin raced =>
            /\ task[t].key \in Chores => task[t].key \notin deleted /\ task[t].chore = asked[task[t].key]
            /\ task[t].key \in Users => task[t].profile = sent[task[t].key]

\* A summary holds its channel's lock, and does not end behind the last one.
Ahead ==
    \A t \in Tasks :
        task[t] # NoTask /\ task[t].op = "summary" /\ task[t].key \notin loose =>
            /\ task[t].key \in locked
            /\ task[t].pc = "save" => task[t].upto >= summary[task[t].key]

HeadsKnown == headless \subseteq loose

NoneListed == index \intersect deleted = {}

IInv == TypeOK /\ Asked /\ Sole /\ Unchanged /\ Ahead /\ HeadsKnown /\ NoneListed
        /\ ChoresKept /\ ProfilesKept

LoadStep(t) ==
    \/ \E c \in Chores : ChoreRead(t, c)
    \/ \E u \in Users : SignalsLoad(t, u) \/ SynthesisLoad(t, u)
    \/ \E ch \in Channels : SummaryBegin(t, ch)
WriteStep(t) == MarkWrite(t) \/ UpdateWrite(t)
SaveStep(t)  == SignalsSave(t) \/ SynthesisSave(t)
MoveStep(t)  == SynthesisSanitize(t) \/ SummaryFetch(t) \/ SummarySave(t) \/ SummaryUnlock(t)
OtherStep ==
    \/ \E c \in Chores : Create(c) \/ Delete(c)
    \/ \E ch \in Channels : LockExpires(ch) \/ HeadDeleted(ch) \/ EventAdded(ch)
    \/ Crash \/ UNCHANGED vars

LEMMA StepKinds ==
    ASSUME [Next]_vars
    PROVE  \/ \E t \in Tasks : LoadStep(t) \/ WriteStep(t) \/ SaveStep(t) \/ MoveStep(t)
           \/ OtherStep
BY DEF Next, LoadStep, WriteStep, SaveStep, MoveStep, OtherStep

\* A task begins with the record as it is, and a summary with the lock.
Loaded(t, k) ==
    /\ Begin(t, k)
    /\ k.key \in Chores => chore[k.key] # NoChore /\ k.chore = chore[k.key]
    /\ k.key \in Users => k.profile = profile[k.key]
    /\ k.op = "summary" => k.key \notin locked /\ k.key \in locked' /\ k.pc = "fetch"
    /\ locked \subseteq locked'
    /\ UNCHANGED <<chore, index, deleted, asked, profile, sent, summary, headless, events, loose>>

LEMMA LoadFacts ==
    ASSUME TypeOK, NEW t \in Tasks, LoadStep(t)
    PROVE  \E k \in Task : Loaded(t, k)
<1> USE DEF chores, profiles, summaries
<1>1. ASSUME NEW c \in Chores, ChoreRead(t, c) PROVE \E k \in Task : Loaded(t, k)
    <2>1. PICK op \in {"mark", "edit"} : Begin(t, [op |-> op, key |-> c, chore |-> chore[c]])
        BY <1>1 DEF ChoreRead
    <2>2. chore[c] \in Chore BY <1>1 DEF ChoreRead, TypeOK
    <2> DEFINE k == [op |-> op, key |-> c, chore |-> chore[c]]
    <2>3. k \in Task /\ k.key = c /\ k.chore = chore[c] /\ k.op # "summary" BY <2>2, TaskMakes
    <2>4. c \notin Users BY RecordsAssumption
    <2>5. Begin(t, k) BY <2>1
    <2> HIDE DEF k
    <2> QED BY <1>1, <2>3, <2>4, <2>5 DEF Loaded, ChoreRead
<1>2. ASSUME NEW u \in Users, SignalsLoad(t, u) PROVE \E k \in Task : Loaded(t, k)
    <2> DEFINE k == [op |-> "signals", key |-> u, profile |-> profile[u]]
    <2>1. profile[u] \in Profile BY DEF TypeOK
    <2>2. k \in Task /\ k.key = u /\ k.profile = profile[u] /\ k.op # "summary"
        BY <2>1, TaskMakes
    <2>3. u \notin Chores BY RecordsAssumption
    <2>4. Begin(t, k) BY <1>2 DEF SignalsLoad
    <2> HIDE DEF k
    <2> QED BY <1>2, <2>2, <2>3, <2>4 DEF Loaded, SignalsLoad
<1>3. ASSUME NEW u \in Users, SynthesisLoad(t, u) PROVE \E k \in Task : Loaded(t, k)
    <2> DEFINE k == [op |-> "synthesis", pc |-> "sanitize", key |-> u, profile |-> profile[u]]
    <2>1. profile[u] \in Profile BY DEF TypeOK
    <2>2. k \in Task /\ k.key = u /\ k.profile = profile[u] /\ k.op # "summary"
        BY <2>1, TaskMakes
    <2>3. u \notin Chores BY RecordsAssumption
    <2>4. Begin(t, k) BY <1>3 DEF SynthesisLoad
    <2> HIDE DEF k
    <2> QED BY <1>3, <2>2, <2>3, <2>4 DEF Loaded, SynthesisLoad
<1>4. ASSUME NEW ch \in Channels, SummaryBegin(t, ch) PROVE \E k \in Task : Loaded(t, k)
    <2> DEFINE k == [op |-> "summary", pc |-> "fetch", key |-> ch, upto |-> 0]
    <2>1. k \in Task /\ k.key = ch /\ k.pc = "fetch" BY TaskMakes
    <2>2. ch \notin Chores /\ ch \notin Users BY RecordsAssumption
    <2>3. Begin(t, k) BY <1>4 DEF SummaryBegin
    <2> HIDE DEF k
    <2> QED BY <1>4, <2>1, <2>2, <2>3 DEF Loaded, SummaryBegin
<1> QED BY <1>1, <1>2, <1>3, <1>4 DEF LoadStep

\* A task that goes on keeps its key and its profile; one that is over frees no
\* other channel's lock.
LEMMA MoveFacts ==
    ASSUME TypeOK, NEW t \in Tasks, MoveStep(t)
    PROVE  /\ task[t] \in Task
           /\ \E k \in Task \union {NoTask} :
                 /\ Goto(t, k)
                 /\ k # NoTask => /\ k.key = task[t].key /\ k.op = task[t].op
                                  /\ k.op = "synthesis" => k.profile = task[t].profile
           /\ UNCHANGED <<chores, sent, events, loose>>
<1> USE DEF chores, profiles, summaries
<1>1. task[t] \in Task BY DEF MoveStep, SynthesisSanitize, SummaryFetch, SummarySave,
                              SummaryUnlock, At, Op, TypeOK
<1>2. CASE SynthesisSanitize(t)
    <2> DEFINE k == [task[t] EXCEPT !.pc = "ask"]
    <2>1. task[t].op = "synthesis" BY <1>2 DEF SynthesisSanitize, At, Op
    <2>2. k \in Task /\ k.key = task[t].key /\ k.op = "synthesis" /\ k.profile = task[t].profile
        BY <1>1, <2>1, TaskMoves
    <2>3. Goto(t, NoTask) \/ Goto(t, k) BY <1>2 DEF SynthesisSanitize, Done
    <2> HIDE DEF k
    <2> QED BY <1>1, <1>2, <2>1, <2>2, <2>3 DEF SynthesisSanitize
<1>3. CASE SummaryFetch(t)
    BY <1>1, <1>3, FetchMoves DEF SummaryFetch
<1>4. CASE SummarySave(t)
    <2> DEFINE k == [task[t] EXCEPT !.pc = "unlock"]
    <2>1. task[t].op = "summary" BY <1>4 DEF SummarySave, At, Op
    <2>2. k \in Task /\ k.key = task[t].key /\ k.op = "summary" BY <1>1, <2>1, TaskMoves
    <2>3. Goto(t, k) BY <1>4 DEF SummarySave
    <2> HIDE DEF k
    <2> QED BY <1>1, <1>4, <2>1, <2>2, <2>3 DEF SummarySave
<1>5. CASE SummaryUnlock(t)
    BY <1>1, <1>5 DEF SummaryUnlock, Done
<1> QED BY <1>2, <1>3, <1>4, <1>5 DEF MoveStep

LEMMA EndFacts ==
    ASSUME TypeOK, NEW t \in Tasks, WriteStep(t) \/ SaveStep(t)
    PROVE  /\ task[t] \in Task /\ Goto(t, NoTask)
           /\ UNCHANGED <<index, deleted, summaries>>
           /\ WriteStep(t) => /\ task[t].key \in Chores /\ task[t].chore \in Chore
                              /\ UNCHANGED profiles
           /\ SaveStep(t) => /\ task[t].key \in Users /\ task[t].profile \in Profile
                             /\ UNCHANGED chores
<1>1. task[t] \in Task BY DEF WriteStep, SaveStep, MarkWrite, UpdateWrite, SignalsSave,
                              SynthesisSave, At, Op, TypeOK
<1>2. ~(WriteStep(t) /\ SaveStep(t))
    BY DEF WriteStep, SaveStep, MarkWrite, UpdateWrite, SignalsSave, SynthesisSave, At, Op
<1>3. CASE WriteStep(t)
    <2>1. task[t].key \in Chores /\ task[t].chore \in Chore
        BY <1>1, <1>3, TaskKinds DEF WriteStep, MarkWrite, UpdateWrite, Op
    <2>2. Goto(t, NoTask) /\ UNCHANGED <<index, deleted, profiles, summaries>>
        BY <1>3 DEF WriteStep, MarkWrite, UpdateWrite, Done
    <2> QED BY <1>1, <1>2, <1>3, <2>1, <2>2
<1>4. CASE SaveStep(t)
    <2>1. task[t].key \in Users /\ task[t].profile \in Profile
        BY <1>1, <1>4, TaskKinds DEF SaveStep, SignalsSave, SynthesisSave, At, Op
    <2>2. Goto(t, NoTask) /\ UNCHANGED <<chores, summaries>>
        BY <1>4 DEF SaveStep, SignalsSave, SynthesisSave, Done
    <2> QED BY <1>1, <1>2, <1>4, <2>1, <2>2 DEF chores
<1> QED BY <1>3, <1>4

LEMMA OtherFacts ==
    ASSUME OtherStep
    PROVE  /\ task' = task \/ task' = [t \in Tasks |-> NoTask]
           /\ raced \subseteq raced' /\ loose \subseteq loose'
           /\ UNCHANGED <<profile, sent, summary>>
<1> USE DEF chores, profiles, summaries
<1>1. ASSUME NEW c \in Chores, Create(c) \/ Delete(c)
      PROVE  UNCHANGED <<task, profile, sent, summary, loose>> /\ raced \subseteq raced'
    BY <1>1 DEF Create, Delete
<1>2. ASSUME NEW ch \in Channels, LockExpires(ch) \/ HeadDeleted(ch) \/ EventAdded(ch)
      PROVE  UNCHANGED <<task, profile, sent, summary, raced>> /\ loose \subseteq loose'
    BY <1>2 DEF LockExpires, HeadDeleted, EventAdded
<1> QED BY <1>1, <1>2 DEF OtherStep, Crash, vars

LEMMA SoleNext ==
    ASSUME TypeOK, Sole, Ahead, [Next]_vars
    PROVE  Sole'
<1> SUFFICES ASSUME NEW p \in Tasks, NEW q \in Tasks, task'[p] # NoTask, task'[q] # NoTask,
                    task'[p].key = task'[q].key, task'[p].key \notin raced' \union loose'
             PROVE  p = q
    BY DEF Sole
<1>1. ASSUME NEW t \in Tasks, LoadStep(t) PROVE p = q
    <2>1. PICK k \in Task : Loaded(t, k) BY <1>1, LoadFacts
    <2>2. /\ task[t] = NoTask /\ task' = [task EXCEPT ![t] = k] /\ loose' = loose
          /\ raced \subseteq raced'
          /\ Rewriting(k.key) # {} => k.key \in raced' \/ k.key \in Channels
        BY <2>1 DEF Loaded, Begin
    <2>3. k.key \in Channels => k.op = "summary" /\ k.key \notin locked
        BY <2>1, TaskKinds DEF Loaded
    <2>4. ASSUME NEW o \in Tasks, o # t, task[o] # NoTask, task[o].key = k.key
          PROVE  k.key \in raced' \union loose
        <3>1. o \in Rewriting(k.key) BY <2>4 DEF Rewriting
        <3>2. k.key \in Channels => task[o].op = "summary"
            BY <2>4, TaskKinds DEF TypeOK
        <3> QED BY <2>2, <2>3, <2>4, <3>1, <3>2 DEF Ahead
    <2> QED BY <2>2, <2>4 DEF Sole, TypeOK
<1>2. ASSUME NEW t \in Tasks, WriteStep(t) \/ SaveStep(t) PROVE p = q
    BY <1>2, EndFacts DEF Goto, Sole, TypeOK, summaries
<1>3. ASSUME NEW t \in Tasks, MoveStep(t) PROVE p = q
    BY <1>3, MoveFacts, TaskKinds DEF Goto, Sole, TypeOK
<1>4. CASE OtherStep
    BY <1>4, OtherFacts DEF Sole
<1> QED BY <1>1, <1>2, <1>3, <1>4, StepKinds

LEMMA UnchangedNext ==
    ASSUME TypeOK, Asked, ChoresKept, ProfilesKept, Sole, Unchanged, [Next]_vars
    PROVE  Unchanged'
<1> SUFFICES ASSUME NEW p \in Tasks, task'[p] # NoTask, task'[p].key \notin raced'
             PROVE  /\ task'[p].key \in Chores => /\ task'[p].key \notin deleted'
                                                  /\ task'[p].chore = asked'[task'[p].key]
                    /\ task'[p].key \in Users => task'[p].profile = sent'[task'[p].key]
    BY DEF Unchanged
<1>0. Chores \intersect Users = {} /\ (Chores \union Users) \intersect Channels = {}
    BY RecordsAssumption
<1>1. ASSUME NEW t \in Tasks, LoadStep(t)
      PROVE  /\ task'[p].key \in Chores => /\ task'[p].key \notin deleted'
                                           /\ task'[p].chore = asked'[task'[p].key]
             /\ task'[p].key \in Users => task'[p].profile = sent'[task'[p].key]
    <2>1. PICK k \in Task : Loaded(t, k) BY <1>1, LoadFacts
    <2>2. task' = [task EXCEPT ![t] = k] /\ raced \subseteq raced'
        BY <2>1 DEF Loaded, Begin
    <2>3. CASE p = t
        BY <2>1, <2>2, <2>3 DEF Loaded, ChoresKept, ProfilesKept, TypeOK
    <2>4. CASE p # t
        BY <2>1, <2>2, <2>4 DEF Loaded, Unchanged, TypeOK
    <2> QED BY <2>3, <2>4
<1>2. ASSUME NEW t \in Tasks, WriteStep(t) \/ SaveStep(t)
      PROVE  /\ task'[p].key \in Chores => /\ task'[p].key \notin deleted'
                                           /\ task'[p].chore = asked'[task'[p].key]
             /\ task'[p].key \in Users => task'[p].profile = sent'[task'[p].key]
    <2>1. /\ p # t /\ task'[p] = task[p] /\ raced' = raced /\ task[t] # NoTask
          /\ deleted' = deleted
        BY <1>2, EndFacts, TaskKinds DEF Goto, TypeOK
    <2>2. task[p].key # task[t].key \/ task[p].key \in loose
        BY <2>1 DEF Sole
    <2>3. task[p].key \in Chores \union Users => task[p].key # task[t].key
        BY <1>0, <2>2 DEF TypeOK
    <2>4. CASE WriteStep(t)
        <3>1. asked[task[t].key] \in Chore
            BY <2>4, EndFacts, <2>1 DEF Asked, Rewriting, TypeOK
        <3>2. PICK h \in Chore : asked' = [asked EXCEPT ![task[t].key] = h]
            BY <2>4, EndFacts, WriteType, <3>1 DEF WriteStep
        <3>3. sent' = sent BY <2>4, EndFacts DEF profiles
        <3> QED BY <2>1, <2>3, <3>2, <3>3 DEF Unchanged, TypeOK
    <2>5. CASE SaveStep(t)
        <3>1. \/ sent' = sent
              \/ \E h \in Profile : sent' = [sent EXCEPT ![task[t].key] = h]
            BY <2>5, EndFacts, SaveType DEF SaveStep
        <3>2. asked' = asked BY <2>5, EndFacts DEF chores
        <3> QED BY <2>1, <2>3, <3>1, <3>2 DEF Unchanged, TypeOK
    <2> QED BY <1>2, <2>4, <2>5
<1>3. ASSUME NEW t \in Tasks, MoveStep(t)
      PROVE  /\ task'[p].key \in Chores => /\ task'[p].key \notin deleted'
                                           /\ task'[p].chore = asked'[task'[p].key]
             /\ task'[p].key \in Users => task'[p].profile = sent'[task'[p].key]
    <2>1. PICK k \in Task \union {NoTask} :
             /\ Goto(t, k)
             /\ k # NoTask => /\ k.key = task[t].key /\ k.op = task[t].op
                              /\ k.op = "synthesis" => k.profile = task[t].profile
        BY <1>3, MoveFacts
    <2>2. task[t] \in Task /\ UNCHANGED <<chore, index, deleted, asked, sent>>
        BY <1>3, MoveFacts DEF chores
    <2>3. task[t].op \in {"synthesis", "summary"}
        BY <1>3 DEF MoveStep, SynthesisSanitize, SummaryFetch, SummarySave, SummaryUnlock, At, Op
    <2>4. task[t].key \in Users => task[t].op = "synthesis"
        BY <2>2, <2>3, TaskKinds
    <2>5. task[t].key \notin Chores
        BY <2>2, <2>3, TaskKinds
    <2> QED BY <2>1, <2>2, <2>4, <2>5, TaskKinds DEF Goto, Unchanged, TypeOK
<1>4. CASE OtherStep
    <2>1. /\ task' = task /\ raced \subseteq raced' /\ sent' = sent
        BY <1>4, OtherFacts
    <2>2. p \in Rewriting(task[p].key) BY <2>1 DEF Rewriting
    <2>3. ASSUME NEW c \in Chores, Create(c) \/ Delete(c), task[p].key \in Chores
          PROVE  task[p].key \notin deleted' /\ asked'[task[p].key] = asked[task[p].key]
        <3>1. asked[task[p].key] # NoChore BY <2>2, <2>3 DEF Asked
        <3>2. task[p].key \notin deleted BY <2>1, <2>3 DEF Unchanged
        <3> QED BY <2>1, <2>2, <2>3, <3>1, <3>2 DEF Create, Delete, TypeOK
    <2>4. (\A c \in Chores : ~Create(c) /\ ~Delete(c)) => UNCHANGED <<asked, deleted>>
        BY <1>4 DEF OtherStep, LockExpires, HeadDeleted, EventAdded, Crash, vars, chores
    <2> QED BY <2>1, <2>3, <2>4 DEF Unchanged
<1> QED BY <1>1, <1>2, <1>3, <1>4, StepKinds

LEMMA ChoresNext ==
    ASSUME TypeOK, Asked, Unchanged, NoneListed, ChoresKept, [Next]_vars
    PROVE  ChoresKept' /\ NoneListed'
<1>1. ASSUME UNCHANGED <<chore, index, deleted, asked>>, raced \subseteq raced'
      PROVE  ChoresKept' /\ NoneListed'
    BY <1>1 DEF ChoresKept, NoneListed, GetAll
<1>2. ASSUME NEW t \in Tasks, LoadStep(t) PROVE ChoresKept' /\ NoneListed'
    <2>1. PICK k \in Task : Loaded(t, k) BY <1>2, LoadFacts
    <2> QED BY <1>1, <2>1 DEF Loaded, Begin
<1>3. ASSUME NEW t \in Tasks, WriteStep(t) PROVE ChoresKept' /\ NoneListed'
    <2> DEFINE c == task[t].key
    <2>1. /\ task[t] # NoTask /\ c \in Chores /\ task[t].chore \in Chore
          /\ UNCHANGED <<index, deleted, raced>>
        BY <1>3, EndFacts, TaskKinds DEF Goto
    <2>2. asked[c] \in Chore BY <2>1 DEF Asked, Rewriting, TypeOK
    <2>3. PICK r \in Chore, h \in Chore :
             /\ chore' = [chore EXCEPT ![c] = r]
             /\ asked' = [asked EXCEPT ![c] = h]
             /\ task[t].chore = asked[c] => r = h
        BY <1>3, <2>1, <2>2, WriteType DEF WriteStep
    <2>4. c \notin raced => c \notin deleted /\ r = h
        BY <2>1, <2>3 DEF Unchanged
    <2> HIDE DEF c
    <2> QED BY <2>1, <2>3, <2>4 DEF ChoresKept, NoneListed, GetAll, TypeOK
<1>4. ASSUME NEW t \in Tasks, SaveStep(t) PROVE ChoresKept' /\ NoneListed'
    BY <1>1, <1>4, EndFacts DEF Goto, chores
<1>5. ASSUME NEW t \in Tasks, MoveStep(t) PROVE ChoresKept' /\ NoneListed'
    BY <1>1, <1>5, MoveFacts DEF Goto, chores
<1>6. ASSUME NEW c \in Chores, Create(c) PROVE ChoresKept' /\ NoneListed'
    <2>1. c \notin deleted /\ UNCHANGED <<deleted, raced>>
        BY <1>6 DEF Create, Asked
    <2> QED BY <1>6, <2>1 DEF Create, ChoresKept, NoneListed, GetAll, TypeOK
<1>7. ASSUME NEW c \in Chores, Delete(c) PROVE ChoresKept' /\ NoneListed'
    <2>1. raced \subseteq raced' BY <1>7 DEF Delete
    <2> QED BY <1>7, <2>1 DEF Delete, ChoresKept, NoneListed, GetAll, TypeOK
<1>8. CASE OtherStep
    <2>1. (\A c \in Chores : ~Create(c) /\ ~Delete(c)) => UNCHANGED <<chore, index, asked, deleted>>
        BY <1>8 DEF OtherStep, LockExpires, HeadDeleted, EventAdded, Crash, vars, chores
    <2> QED BY <1>1, <1>6, <1>7, <1>8, <2>1, OtherFacts
<1> QED BY <1>2, <1>3, <1>4, <1>5, <1>8, StepKinds

LEMMA ProfilesNext ==
    ASSUME TypeOK, Unchanged, ProfilesKept, [Next]_vars
    PROVE  ProfilesKept'
<1>1. ASSUME UNCHANGED <<profile, sent>>, raced \subseteq raced' PROVE ProfilesKept'
    BY <1>1 DEF ProfilesKept
<1>2. ASSUME NEW t \in Tasks, LoadStep(t) PROVE ProfilesKept'
    <2>1. PICK k \in Task : Loaded(t, k) BY <1>2, LoadFacts
    <2> QED BY <1>1, <2>1 DEF Loaded, Begin
<1>3. ASSUME NEW t \in Tasks, WriteStep(t) PROVE ProfilesKept'
    BY <1>1, <1>3, EndFacts DEF Goto, profiles
<1>4. ASSUME NEW t \in Tasks, SaveStep(t) PROVE ProfilesKept'
    <2> DEFINE u == task[t].key
    <2>1. task[t] # NoTask /\ u \in Users /\ task[t].profile \in Profile /\ raced' = raced
        BY <1>4, EndFacts, TaskKinds DEF Goto
    <2>2. CASE UNCHANGED <<profile, sent>> BY <1>1, <2>1, <2>2
    <2>3. ASSUME NEW p \in Profile, NEW h \in Profile, profile' = [profile EXCEPT ![u] = p],
                 sent' = [sent EXCEPT ![u] = h], task[t].profile = sent[u] => p = h
          PROVE  ProfilesKept'
        <3>1. u \notin raced => p = h BY <2>1, <2>3 DEF Unchanged
        <3> HIDE DEF u
        <3> QED BY <2>1, <2>3, <3>1 DEF ProfilesKept, TypeOK
    <2> QED BY <1>4, <2>1, <2>2, <2>3, SaveType DEF SaveStep
<1>5. ASSUME NEW t \in Tasks, MoveStep(t) PROVE ProfilesKept'
    <2>1. sent' = sent /\ raced' = raced BY <1>5, MoveFacts DEF Goto
    <2>2. CASE SynthesisSanitize(t)
        <3>1. task[t] \in Task /\ task[t].op = "synthesis"
            BY <2>2 DEF SynthesisSanitize, At, Op, TypeOK
        <3>2. task[t].key \notin raced => task[t].profile = sent[task[t].key]
            BY <3>1, TaskKinds DEF Unchanged
        <3>3. profile' = [profile EXCEPT ![task[t].key] = task[t].profile]
            BY <2>2 DEF SynthesisSanitize
        <3> QED BY <2>1, <3>2, <3>3 DEF ProfilesKept, TypeOK
    <2>3. CASE SummaryFetch(t) \/ SummarySave(t) \/ SummaryUnlock(t)
        <3>1. profile' = profile
            BY <2>3 DEF SummaryFetch, SummarySave, SummaryUnlock, profiles
        <3> QED BY <1>1, <2>1, <3>1
    <2> QED BY <1>5, <2>2, <2>3 DEF MoveStep
<1>6. CASE OtherStep
    BY <1>1, <1>6, OtherFacts
<1> QED BY <1>2, <1>3, <1>4, <1>5, <1>6, StepKinds

\* Only a save moves a summary, and only forward unless its channel is loose.
LEMMA ForwardStep ==
    ASSUME TypeOK, Ahead, [Next]_vars
    PROVE  /\ loose \subseteq loose'
           /\ \A ch \in Channels \ loose : summary'[ch] >= summary[ch]
<1>1. ASSUME NEW t \in Tasks, LoadStep(t) PROVE UNCHANGED <<loose, summary>>
    <2>1. PICK k \in Task : Loaded(t, k) BY <1>1, LoadFacts
    <2> QED BY <2>1 DEF Loaded
<1>2. ASSUME NEW t \in Tasks, WriteStep(t) \/ SaveStep(t) PROVE UNCHANGED <<loose, summary>>
    BY <1>2, EndFacts DEF summaries
<1>3. ASSUME NEW t \in Tasks, MoveStep(t)
      PROVE  loose' = loose /\ \A ch \in Channels \ loose : summary'[ch] >= summary[ch]
    <2>1. loose' = loose BY <1>3, MoveFacts
    <2>2. CASE SummarySave(t)
        <3>1. /\ task[t] \in Task /\ task[t].op = "summary" /\ task[t].pc = "save"
              /\ task[t].key \in Channels /\ task[t].upto \in Nat
            BY <2>2, TaskKinds DEF SummarySave, At, Op, TypeOK
        <3>2. task[t].key \notin loose => task[t].upto >= summary[task[t].key]
            BY <3>1, TaskKinds DEF Ahead
        <3>3. summary' = summary \/ summary' = [summary EXCEPT ![task[t].key] = task[t].upto]
            BY <2>2 DEF SummarySave
        <3> QED BY <2>1, <3>1, <3>2, <3>3 DEF TypeOK
    <2>3. CASE SynthesisSanitize(t) \/ SummaryFetch(t) \/ SummaryUnlock(t)
        <3>1. summary' = summary
            BY <2>3 DEF SynthesisSanitize, SummaryFetch, SummaryUnlock, summaries
        <3> QED BY <2>1, <3>1 DEF TypeOK
    <2> QED BY <1>3, <2>2, <2>3 DEF MoveStep
<1>4. CASE OtherStep
    <2>1. loose \subseteq loose' /\ summary' = summary BY <1>4, OtherFacts
    <2> QED BY <2>1 DEF TypeOK
<1>5. summary' = summary => \A ch \in Channels \ loose : summary'[ch] >= summary[ch]
    BY DEF TypeOK
<1> QED BY <1>1, <1>2, <1>3, <1>4, <1>5, StepKinds

LEMMA HeadsNext ==
    ASSUME TypeOK, HeadsKnown, [Next]_vars
    PROVE  HeadsKnown'
<1>1. ASSUME NEW t \in Tasks, LoadStep(t) PROVE HeadsKnown'
    <2>1. PICK k \in Task : Loaded(t, k) BY <1>1, LoadFacts
    <2> QED BY <2>1 DEF Loaded, HeadsKnown
<1>2. ASSUME NEW t \in Tasks, WriteStep(t) \/ SaveStep(t) PROVE HeadsKnown'
    BY <1>2, EndFacts DEF summaries, HeadsKnown
<1>3. ASSUME NEW t \in Tasks, MoveStep(t) PROVE HeadsKnown'
    <2>1. loose' = loose BY <1>3, MoveFacts
    <2>2. headless' \subseteq headless
        BY <1>3 DEF MoveStep, SynthesisSanitize, SummaryFetch, SummarySave, SummaryUnlock, summaries
    <2> QED BY <2>1, <2>2 DEF HeadsKnown
<1>4. CASE OtherStep
    BY <1>4 DEF OtherStep, Create, Delete, LockExpires, HeadDeleted, EventAdded, Crash, vars,
                summaries, HeadsKnown
<1> QED BY <1>1, <1>2, <1>3, <1>4, StepKinds

LEMMA AheadNext ==
    ASSUME TypeOK, Sole, HeadsKnown, Ahead, [Next]_vars
    PROVE  Ahead'
<1> SUFFICES ASSUME NEW p \in Tasks, task'[p] # NoTask, task'[p].op = "summary",
                    task'[p].key \notin loose'
             PROVE  /\ task'[p].key \in locked'
                    /\ task'[p].pc = "save" => task'[p].upto >= summary'[task'[p].key]
    BY DEF Ahead
<1> DEFINE Goal == /\ task'[p].key \in locked'
                   /\ task'[p].pc = "save" => task'[p].upto >= summary'[task'[p].key]
<1>1. ASSUME task'[p] = task[p], task[p].key \in locked => task[p].key \in locked',
             summary'[task[p].key] = summary[task[p].key], loose \subseteq loose'
      PROVE  Goal
    BY <1>1 DEF Ahead
<1>2. ASSUME NEW t \in Tasks, LoadStep(t) PROVE Goal
    <2>1. PICK k \in Task : Loaded(t, k) BY <1>2, LoadFacts
    <2>2. task' = [task EXCEPT ![t] = k] BY <2>1 DEF Loaded, Begin
    <2>3. CASE p = t
        BY <2>1, <2>2, <2>3 DEF Loaded, TypeOK
    <2>4. CASE p # t
        <3>1. task'[p] = task[p] BY <2>2, <2>4 DEF TypeOK
        <3>2. locked \subseteq locked' /\ UNCHANGED <<summary, loose>> BY <2>1 DEF Loaded
        <3> HIDE DEF Goal
        <3> QED BY <1>1, <3>1, <3>2
    <2> QED BY <2>3, <2>4
<1>3. ASSUME NEW t \in Tasks, WriteStep(t) \/ SaveStep(t) PROVE Goal
    <2>1. task'[p] = task[p] /\ UNCHANGED <<locked, summary, loose>>
        BY <1>3, EndFacts DEF Goto, summaries, TypeOK
    <2> HIDE DEF Goal
    <2> QED BY <1>1, <2>1
<1>4. ASSUME NEW t \in Tasks, MoveStep(t) PROVE Goal
    <2>1. loose' = loose /\ task[t] \in Task BY <1>4, MoveFacts
    <2>2. ASSUME p # t PROVE task'[p] = task[p]
        <3>1. PICK k : Goto(t, k) BY <1>4, MoveFacts
        <3> QED BY <2>2, <3>1 DEF Goto, TypeOK
    <2>3. ASSUME p # t PROVE task[p].key # task[t].key
        <3>1. task[p] # NoTask /\ task[t] # NoTask /\ task[p].op = "summary"
            BY <2>1, <2>2, <2>3, TaskKinds
        <3>2. task[p].key \in Channels BY <3>1, TaskKinds DEF TypeOK
        <3>3. task[p].key \notin loose BY <2>1, <2>2, <2>3
        <3>4. task[p].key \notin raced BY <3>2, RecordsAssumption DEF TypeOK
        <3> QED BY <2>3, <3>1, <3>3, <3>4 DEF Sole
    <2>4. CASE SynthesisSanitize(t)
        <3>1. UNCHANGED <<locked, summary>> BY <2>4 DEF SynthesisSanitize, summaries
        <3>2. p # t
            <4>1. PICK k \in Task \union {NoTask} :
                     Goto(t, k) /\ (k # NoTask => k.op = task[t].op)
                BY <1>4, MoveFacts
            <4>2. task[t].op = "synthesis" BY <2>4 DEF SynthesisSanitize, At, Op
            <4> QED BY <4>1, <4>2 DEF Goto, TypeOK
        <3> HIDE DEF Goal
        <3> QED BY <1>1, <2>1, <2>2, <3>1, <3>2
    <2>5. CASE SummaryFetch(t)
        <3>1. UNCHANGED <<locked, summary>> BY <2>5 DEF SummaryFetch, summaries
        <3>2. CASE p # t
            <4> HIDE DEF Goal
            <4> QED BY <1>1, <2>1, <2>2, <3>1, <3>2
        <3>3. CASE p = t
            <4>1. PICK k \in Task :
                     /\ Goto(t, k) /\ k.key = task[t].key /\ k.op = "summary"
                     /\ \/ k.pc = "unlock"
                        \/ /\ k.pc = "save"
                           /\ k.key \notin headless => k.upto >= summary[k.key]
                BY <2>5, FetchMoves
            <4>2. task'[p] = k BY <3>3, <4>1 DEF Goto, TypeOK
            <4>3. k.key \in locked
                BY <2>1, <2>5, <4>1, <4>2, TaskKinds DEF Ahead, SummaryFetch, At, Op
            <4>4. k.key \notin headless BY <2>1, <4>2 DEF HeadsKnown
            <4> QED BY <3>1, <4>1, <4>2, <4>3, <4>4
        <3> QED BY <3>2, <3>3
    <2>6. CASE SummarySave(t)
        <3>1. locked' = locked BY <2>6 DEF SummarySave
        <3>2. task[t].op = "summary" /\ task[t] # NoTask BY <2>6 DEF SummarySave, At, Op
        <3>3. CASE p # t
            <4>1. summary'[task[p].key] = summary[task[p].key]
                <5>1. task[p].key \in Channels
                    BY <2>2, <3>3, TaskKinds DEF TypeOK
                <5> QED BY <2>3, <2>6, <3>3, <5>1 DEF SummarySave, TypeOK
            <4> HIDE DEF Goal
            <4> QED BY <1>1, <2>1, <2>2, <3>1, <3>3, <4>1
        <3>4. CASE p = t
            <4> DEFINE k == [task[t] EXCEPT !.pc = "unlock"]
            <4>1. k.key = task[t].key /\ k.pc = "unlock" BY <2>1, <3>2, TaskMoves
            <4>2. Goto(t, k) BY <2>6 DEF SummarySave
            <4> HIDE DEF k
            <4>3. task'[p] = k BY <3>4, <4>2 DEF Goto, TypeOK
            <4>4. k.key \in locked BY <2>1, <3>2, <4>1, <4>3 DEF Ahead
            <4> QED BY <3>1, <4>1, <4>3, <4>4
        <3> QED BY <3>3, <3>4
    <2>7. CASE SummaryUnlock(t)
        <3>1. Goto(t, NoTask) /\ locked' = locked \ {task[t].key} /\ summary' = summary
            BY <2>7 DEF SummaryUnlock, Done
        <3>2. p # t BY <3>1 DEF Goto, TypeOK
        <3> HIDE DEF Goal
        <3> QED BY <1>1, <2>1, <2>2, <2>3, <3>1, <3>2
    <2> QED BY <1>4, <2>4, <2>5, <2>6, <2>7 DEF MoveStep
<1>5. CASE OtherStep
    <2>1. task'[p] = task[p] /\ loose \subseteq loose' /\ summary' = summary
        BY <1>5, OtherFacts
    <2>2. task[p].key \in locked => task[p].key \in locked'
        <3>1. CASE \E c \in Chores : Create(c) \/ Delete(c)
            BY <3>1 DEF Create, Delete, summaries
        <3>2. CASE \E ch \in Channels : LockExpires(ch)
            BY <2>1, <3>2 DEF LockExpires
        <3>3. CASE \E ch \in Channels : HeadDeleted(ch) \/ EventAdded(ch)
            BY <3>3 DEF HeadDeleted, EventAdded
        <3>4. CASE Crash
            <4>1. task'[p] = NoTask BY <3>4 DEF Crash
            <4> QED BY <4>1
        <3>5. CASE UNCHANGED vars
            BY <3>5 DEF vars
        <3> QED BY <1>5, <3>1, <3>2, <3>3, <3>4, <3>5 DEF OtherStep
    <2> QED BY <1>1, <2>1, <2>2
<1> QED BY <1>2, <1>3, <1>4, <1>5, StepKinds

LEMMA Inductive ==
    /\ Init => IInv
    /\ IInv /\ [Next]_vars => IInv'
<1>1. Init => IInv
    BY TypeInit, AskedInit DEF Init, IInv, Sole, Unchanged, Ahead, HeadsKnown, NoneListed,
                               ChoresKept, ProfilesKept, GetAll
<1>2. IInv /\ [Next]_vars => IInv'
    BY TypeNext, AskedNext, SoleNext, UnchangedNext, AheadNext, HeadsNext, ChoresNext, ProfilesNext
    DEF IInv
<1> QED BY <1>1, <1>2

\* A deleted chore is never listed again, and a chore nobody raced over is what the
\* requests and the runs made of it.
THEOREM ChoresAreKept == Spec => []ChoresKept
<1>1. IInv => ChoresKept BY DEF IInv
<1> QED BY <1>1, Inductive, PTL DEF Spec

\* A profile nobody raced over counts every message and every dossier.
THEOREM ProfilesAreKept == Spec => []ProfilesKept
<1>1. IInv => ProfilesKept BY DEF IInv
<1> QED BY <1>1, Inductive, PTL DEF Spec

\* As long as its lock did not expire and its head was not deleted, a summary moves
\* only forward.
THEOREM SummariesMoveForward == Spec => HeadForward
<1>1. IInv /\ [Next]_vars => [\A ch \in Channels : ch \notin loose' => summary'[ch] >= summary[ch]]_vars
    BY ForwardStep DEF IInv
<1> QED BY <1>1, Inductive, PTL DEF Spec, HeadForward

=============================================================================
