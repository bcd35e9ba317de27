-------------------------------- MODULE Records --------------------------------
(***************************************************************************)
(* Records in Redis that are read, changed and written back as a whole:    *)
(* chores (internal/chores/store.go), user profiles (profiler) and the     *)
(* summaries of channels (internal/smartcontext).  Requests, the worker    *)
(* and the agents do so at the same time; only a summary has a lock.       *)
(*                                                                         *)
(* A task is one such operation under way, between its read and its last   *)
(* write.  Deletion and creation are one pipeline each.  What the records  *)
(* should be is kept as history, with those two tasks rewrote at a time.   *)
(***************************************************************************)
EXTENDS Naturals, FiniteSets

CONSTANTS
    Tasks,      \* bound: operations at the same time
    Chores, Users, Channels,
    NoTask, NoChore,
    RawEvents,  \* events of a channel that are read (50 in the code)
    Batch,      \* new events that are worth a summary (15)
    Keep,       \* latest events that are not summarized (6)
    MaxEvents,  \* bound: events of a channel
    MaxOps      \* bound: operations started

ASSUME RecordsAssumption ==
    /\ Keep \in Nat /\ Batch \in Nat /\ RawEvents \in Nat
    /\ Keep < Batch /\ Batch <= RawEvents
    /\ MaxEvents \in Nat /\ MaxOps \in Nat
    /\ Chores \intersect Users = {} /\ (Chores \union Users) \intersect Channels = {}

\* edits counts the changes of the request fields; lastRun is a time, the number
\* of the mark.  Both are what tells two versions of a chore apart.
Chore   == [edits: Nat, lastRun: Nat]
Profile == [messages: Nat, dossier: Nat]
Task    == [op: {"mark", "edit"}, key: Chores, chore: Chore]
             \union [op: {"signals"}, key: Users, profile: Profile]
             \union [op: {"synthesis"}, pc: {"sanitize", "ask"}, key: Users, profile: Profile]
             \union [op: {"summary"}, pc: {"fetch", "save", "unlock"}, key: Channels, upto: Nat]

ASSUME NoneAssumption == NoTask \notin Task /\ NoChore \notin Chore

VARIABLES
    chore, index,           \* chore:<id> and the set of all ids
    profile,                \* user:profile:<id>
    summary,                \* LastEventID of context:summary:<channel>, as a position
    headless,               \* channels whose event at the head was deleted
    locked,                 \* channels with context:summary:lock:<channel>
    events,                 \* events of a channel, by position
    task,
    deleted, asked,         \* history: chores deleted, and what requests made of each
    sent,                   \* history: what messages and syntheses made of a profile
    raced,                  \* history: chores and users two tasks rewrote at a time
    loose,                  \* history: channels whose lock expired, or that were headless
    ops

vars == <<chore, index, profile, summary, headless, locked, events, task, deleted, asked, sent,
          raced, loose, ops>>
chores    == <<chore, index, deleted, asked>>
profiles  == <<profile, sent>>
summaries == <<summary, headless, locked, events, loose>>

TypeOK ==
    /\ chore \in [Chores -> Chore \union {NoChore}] /\ index \subseteq Chores
    /\ profile \in [Users -> Profile]
    /\ summary \in [Channels -> Nat] /\ headless \subseteq Channels /\ locked \subseteq Channels
    /\ events \in [Channels -> Nat]
    /\ task \in [Tasks -> Task \union {NoTask}]
    /\ deleted \subseteq Chores
    /\ asked \in [Chores -> Chore \union {NoChore}]
    /\ sent \in [Users -> Profile]
    /\ raced \subseteq Chores \union Users /\ loose \subseteq Channels
    /\ ops \in Nat

Init ==
    /\ chore = [c \in Chores |-> NoChore] /\ index = {}
    /\ profile = [u \in Users |-> [messages |-> 0, dossier |-> 0]]
    /\ summary = [ch \in Channels |-> 0] /\ headless = {} /\ locked = {}
    /\ events = [ch \in Channels |-> 0]
    /\ task = [t \in Tasks |-> NoTask]
    /\ deleted = {} /\ asked = chore /\ sent = profile /\ raced = {} /\ loose = {}
    /\ ops = 0

-----------------------------------------------------------------------------
Op(t, op) == task[t] # NoTask /\ task[t].op = op
At(t, op, pc) == Op(t, op) /\ task[t].pc = pc
Rewriting(k) == {t \in Tasks : task[t] # NoTask /\ task[t].key = k}

Begin(t, new) ==
    /\ task[t] = NoTask /\ ops < MaxOps
    /\ ops' = ops + 1
    /\ task' = [task EXCEPT ![t] = new]
    /\ raced' = IF Rewriting(new.key) # {} THEN raced \union ({new.key} \ Channels) ELSE raced
Goto(t, new) == task' = [task EXCEPT ![t] = new] /\ UNCHANGED <<raced, ops>>
Done(t)      == Goto(t, NoTask)

-----------------------------------------------------------------------------
(* Chores.                                                                 *)

\* Create: the key and its id in one pipeline; ids are never used again.
Create(c) ==
    /\ asked[c] = NoChore
    /\ chore' = [chore EXCEPT ![c] = [edits |-> 0, lastRun |-> 0]]
    /\ asked' = [asked EXCEPT ![c] = [edits |-> 0, lastRun |-> 0]]
    /\ index' = index \union {c}
    /\ UNCHANGED <<deleted, profiles, summaries, task, raced, ops>>

\* Get, the first step of Update and MarkRun: not found is an error.
ChoreRead(t, c) ==
    /\ chore[c] # NoChore
    /\ \E op \in {"mark", "edit"} : Begin(t, [op |-> op, key |-> c, chore |-> chore[c]])
    /\ UNCHANGED <<chores, profiles, summaries>>

\* MarkRun writes the whole chore with the time of now.
MarkWrite(t) ==
    /\ Op(t, "mark")
    /\ LET c   == task[t].key
           now == asked[c].lastRun + 1
       IN  /\ chore' = [chore EXCEPT ![c] = [task[t].chore EXCEPT !.lastRun = now]]
           /\ asked' = [asked EXCEPT ![c].lastRun = now]
    /\ Done(t)
    /\ UNCHANGED <<index, deleted, profiles, summaries>>

\* Variant: a chore that is written is indexed too.
UpdateWriteIndexed(t) ==
    /\ Op(t, "edit")
    /\ LET c == task[t].key
       IN  /\ chore' = [chore EXCEPT ![c] = [task[t].chore EXCEPT !.edits = @ + 1]]
           /\ asked' = [asked EXCEPT ![c].edits = @ + 1]
           /\ index' = index \union {c}
    /\ Done(t)
    /\ UNCHANGED <<deleted, profiles, summaries>>

\* Update writes the whole chore with the fields of the request, which may
\* reset the last run.  Neither touches the index.
UpdateWrite(t) ==
    /\ Op(t, "edit")
    /\ LET c == task[t].key
       IN  \E reset \in BOOLEAN :
             /\ chore' = [chore EXCEPT ![c] =
                            [edits |-> task[t].chore.edits + 1,
                             lastRun |-> IF reset THEN 0 ELSE task[t].chore.lastRun]]
             /\ asked' = [asked EXCEPT ![c] =
                            [edits |-> @.edits + 1, lastRun |-> IF reset THEN 0 ELSE @.lastRun]]
    /\ Done(t)
    /\ UNCHANGED <<index, deleted, profiles, summaries>>

\* Delete removes the key and the id in one pipeline.
Delete(c) ==
    /\ asked[c] # NoChore
    /\ chore' = [chore EXCEPT ![c] = NoChore]
    /\ index' = index \ {c}
    /\ deleted' = deleted \union {c}
    /\ raced' = IF Rewriting(c) # {} THEN raced \union {c} ELSE raced
    /\ UNCHANGED <<asked, profiles, summaries, task, ops>>

\* GetAll: an id whose key is gone is passed over.
GetAll == {c \in index : chore[c] # NoChore}

-----------------------------------------------------------------------------
(* Profiles.                                                               *)

\* handleUserSignals runs on the executor's only worker.
SignalsLoad(t, u) ==
    /\ \A q \in Tasks : ~Op(q, "signals")
    /\ Begin(t, [op |-> "signals", key |-> u, profile |-> profile[u]])
    /\ UNCHANGED <<chores, profiles, summaries>>

SignalsSave(t) ==
    /\ Op(t, "signals")
    /\ LET u == task[t].key
       IN  /\ profile' = [profile EXCEPT ![u] = [task[t].profile EXCEPT !.messages = @ + 1]]
           /\ sent' = [sent EXCEPT ![u].messages = @ + 1]
    /\ Done(t)
    /\ UNCHANGED <<chores, summaries>>

\* processUserSynthesis: a waterfall's, and a triggered one's at the same time.
SynthesisLoad(t, u) ==
    /\ Begin(t, [op |-> "synthesis", pc |-> "sanitize", key |-> u, profile |-> profile[u]])
    /\ UNCHANGED <<chores, profiles, summaries>>

\* SanitizeAndEnrichProfile and the first save; without a summary of the user
\* nobody is asked.
SynthesisSanitize(t) ==
    /\ At(t, "synthesis", "sanitize")
    /\ profile' = [profile EXCEPT ![task[t].key] = task[t].profile]
    /\ Done(t) \/ Goto(t, [task[t] EXCEPT !.pc = "ask"])
    /\ UNCHANGED <<chores, sent, summaries>>

\* Variant: the statistics are the model's too.
SynthesisSaveAll(t) ==
    /\ At(t, "synthesis", "ask")
    /\ LET u == task[t].key
       IN  /\ profile' = [profile EXCEPT ![u] = [messages |-> 0, dossier |-> task[t].profile.dossier + 1]]
           /\ sent' = [sent EXCEPT ![u].dossier = @ + 1]
    /\ Done(t)
    /\ UNCHANGED <<chores, summaries>>

\* What the model answers replaces the profile but for the id, the first seen
\* and the statistics, which are those read before it was asked.  With an error
\* or an empty answer nothing is saved.
SynthesisSave(t) ==
    /\ At(t, "synthesis", "ask")
    /\ LET u == task[t].key
       IN  \/ /\ profile' = [profile EXCEPT ![u] = [task[t].profile EXCEPT !.dossier = @ + 1]]
              /\ sent' = [sent EXCEPT ![u].dossier = @ + 1]
           \/ UNCHANGED profiles
    /\ Done(t)
    /\ UNCHANGED <<chores, summaries>>

-----------------------------------------------------------------------------
(* Summaries.                                                              *)

\* Variant: the answer of SETNX is not looked at.
SummaryBeginAnyway(t, ch) ==
    /\ locked' = locked \union {ch}
    /\ Begin(t, [op |-> "summary", pc |-> "fetch", key |-> ch, upto |-> 0])
    /\ UNCHANGED <<chores, profiles, summary, headless, events, loose>>

\* SETNX of the lock; whoever fails returns.
SummaryBegin(t, ch) ==
    /\ ch \notin locked
    /\ locked' = locked \union {ch}
    /\ Begin(t, [op |-> "summary", pc |-> "fetch", key |-> ch, upto |-> 0])
    /\ UNCHANGED <<chores, profiles, summary, headless, events, loose>>

\* The events that are read, and how many of them are new: all of them when the
\* head of the summary is not among them.
Read(ch)   == IF events[ch] < RawEvents THEN events[ch] ELSE RawEvents
IsNew(ch)  == IF summary[ch] = 0 \/ ch \in headless \/ summary[ch] + Read(ch) <= events[ch]
              THEN Read(ch) ELSE events[ch] - summary[ch]

\* Variant: any number of events will do.
SummaryFetchFew(t) ==
    /\ At(t, "summary", "fetch")
    /\ Goto(t, [task[t] EXCEPT !.pc = "save", !.upto = events[task[t].key] - Keep])
    /\ UNCHANGED <<chores, profiles, summaries>>

\* The summary and the events are read; with too little that is new the task is
\* over.  Otherwise it waits for the cognitive lock and asks the model.
SummaryFetch(t) ==
    /\ At(t, "summary", "fetch")
    /\ LET ch   == task[t].key
           upto == events[ch] - Keep
       IN  \/ /\ Read(ch) >= Batch /\ IsNew(ch) >= Batch /\ upto # summary[ch]
              /\ Goto(t, [task[t] EXCEPT !.pc = "save", !.upto = upto])
           \/ /\ Read(ch) < Batch \/ IsNew(ch) < Batch \/ upto = summary[ch]
              /\ Goto(t, [task[t] EXCEPT !.pc = "unlock"])
    /\ UNCHANGED <<chores, profiles, summaries>>

\* The answer is saved with the head of the events it was made from.
SummarySave(t) ==
    /\ At(t, "summary", "save")
    /\ \/ /\ summary' = [summary EXCEPT ![task[t].key] = task[t].upto]
          /\ headless' = headless \ {task[t].key}
       \/ UNCHANGED <<summary, headless>>
    /\ Goto(t, [task[t] EXCEPT !.pc = "unlock"])
    /\ UNCHANGED <<chores, profiles, locked, events, loose>>

\* The deferred DEL, whoever holds the lock by then.
SummaryUnlock(t) ==
    /\ At(t, "summary", "unlock")
    /\ locked' = locked \ {task[t].key}
    /\ Done(t)
    /\ UNCHANGED <<chores, profiles, summary, headless, events, loose>>

\* Two minutes are over.
LockExpires(ch) ==
    /\ ch \in locked
    /\ locked' = locked \ {ch}
    /\ loose' = loose \union {ch}
    /\ UNCHANGED <<chores, profiles, summary, headless, events, task, raced, ops>>

\* The event at the head is deleted: from then on it is not found.
HeadDeleted(ch) ==
    /\ summary[ch] # 0
    /\ headless' = headless \union {ch}
    /\ loose' = loose \union {ch}
    /\ UNCHANGED <<chores, profiles, summary, locked, events, task, raced, ops>>

EventAdded(ch) ==
    /\ events[ch] < MaxEvents
    /\ events' = [events EXCEPT ![ch] = @ + 1]
    /\ UNCHANGED <<chores, profiles, summary, headless, locked, task, loose, raced, ops>>

\* The service restarts: tasks are gone, and performStartupCleanup removes the
\* locks of summaries.
Crash ==
    /\ task' = [t \in Tasks |-> NoTask]
    /\ locked' = {}
    /\ UNCHANGED <<chores, profiles, summary, headless, events, loose, raced, ops>>

Next ==
    \/ \E t \in Tasks :
          \/ \E c \in Chores : ChoreRead(t, c)
          \/ \E u \in Users : SignalsLoad(t, u) \/ SynthesisLoad(t, u)
          \/ \E ch \in Channels : SummaryBegin(t, ch)
          \/ MarkWrite(t) \/ UpdateWrite(t) \/ SignalsSave(t)
          \/ SynthesisSanitize(t) \/ SynthesisSave(t)
          \/ SummaryFetch(t) \/ SummarySave(t) \/ SummaryUnlock(t)
    \/ \E c \in Chores : Create(c) \/ Delete(c)
    \/ \E ch \in Channels : LockExpires(ch) \/ HeadDeleted(ch) \/ EventAdded(ch)
    \/ Crash

Spec == Init /\ [][Next]_vars

-----------------------------------------------------------------------------
(* Properties.                                                             *)

\* A deleted chore is never listed again, though a late rewrite may bring its
\* key back; and unless two rewrites, or one and the deletion, overlapped, a
\* chore is what the requests and the runs made of it.
ChoresKept ==
    /\ GetAll \intersect deleted = {}
    /\ \A c \in Chores \ raced :
          chore[c] = IF c \in deleted THEN NoChore ELSE asked[c]

\* Unless a message was counted while a synthesis of its user was under way, or
\* two syntheses overlapped, every message counts and every dossier stays.
ProfilesKept == \A u \in Users \ raced : profile[u] = sent[u]

\* A summary never falls back behind the events it already covers, unless its
\* lock expired under a slow model or the event at its head was deleted.
HeadForward ==
    [][\A ch \in Channels : ch \notin loose' => summary'[ch] >= summary[ch]]_vars
=============================================================================
