# dex-event-service in TLA+

Models, model checks and proofs for the protocols of dex-event-service: the Go
service that receives events over HTTP, stores them in Redis, runs handlers on
them (a single worker), and runs background agents that share one language model
under a global "cognitive lock". The reference is the code under `src/`; a
definition's comment and `PROJECT.json` ("map") say which lines it stands for.

Almost everything hard in this service has one cause: state is in Redis, an
operation is a sequence of Redis commands, and nothing makes a sequence a
transaction. So the unit of interleaving is one Redis command in the modules
about such sequences, and one call to another part in the modules about what
the handlers and agents do with them.

## Inventory

### The parts, their state, and what each has to get right

| Part | Source | State | Operations | What makes it correct | Module |
|---|---|---|---|---|---|
| Cognitive lock | `utils/process.go` 17-155, `endpoints/agent.go` 426-482 | `system:cognitive_lock` (TTL 60 min), `system:is_paused` | acquire (GET, SET NX in a polling loop), release (GET, GET, SET or DEL), pause, resume | one heavy protocol at a time; no name outlives its owner; waiters get in; the TTL frees what was left | `CognitiveLock` |
| Process registry | `utils/process.go` 157-480, `endpoints/processes.go`, `handlers/executor.go` 97-161, `internal/agent/base.go` 30-60 | `process:info:*`, `process:queued:*`, `system:busy_ref_count`, `system:state` | report, clear, record outcome, register and unregister over HTTP, reap, clean up the count, sync the state | the count covers the known processes, as long as nothing it does not guard against has happened, and is never negative for long; the state is right in the end | `ProcessRegistry` |
| Ingestion lock | `endpoints/lock.go`, `endpoints/events.go` 249-276 | `isLocked` (memory, mutex), `events:queue:pending` | lock, unlock and replay, check, push | a queued event is kept, stored once, in order; replays end | `IngestLock` |
| Event store | `endpoints/events.go`, `endpoints/system_monitor.go` 880-957, `delete.go`, `handlers/executor.go` 384-490 | `event:*` (TTL), sorted sets `events:timeline`, `events:service:*`, `events:type:*`, `events:channel:*` | create, delete, cascade, bulk delete, alert cleanup, the deletion tool, patch, children of failing handlers | stored events are indexed and deleted ones are not; parents and children agree; deleted stays deleted | `EventStore` |
| Executor | `handlers/executor.go` 273-382, `handlers/registry.go`, tail of `CreateEventHandler` | `jobQueue` (1000), `interruptionMap` | sync and async execution, the single worker, deadlines, panics | every sync request is answered; jobs run one at a time; the queue is bounded | `Executor` |
| Message handlers | `internal/handlers/publicmessage`, `privatemessage`, `utils.go` | `engagement:processing:<channel>` (60 s), `handled:event:<id>` (2 min), the interruption marks | links, images, back-off, decision, context, claims, reply, signals | a message is answered once or handed to another reply; a skipped message was taken in; direct messages do not all interrupt each other | `MessageHandling` |
| Background agents | `internal/handlers/{guardian,courier,fabricator,profiler}`, `endpoints/{agent,courier,fabricator,analyzer}.go` | cooldown keys, `guardian:active_tier`, runs (goroutines) | ticks, HTTP triggers, protocols and waterfalls under the lock | what shows as active is at work; a chore that is due is delivered once; runs end | `Agents` |
| Cognitive loop | `internal/agent/base.go` 60-654 | attempts, last error, last results | model call, parse, validate, retry | bounded attempts; nothing rejected is posted | `Agents` |
| Context summaries | `internal/smartcontext/smart_context.go` | `context:summary:*`, a per-channel lock (SETNX, 2 min) | read cached summary, update in the background | the summary never goes backwards | `Records` |
| Chores | `internal/chores`, `endpoints/chores.go` | `chore:<id>`, an index set | create, update, mark run, delete | a deleted chore is not listed again; an edit and a run are recorded | `Records` |
| Profiles | `internal/handlers/profiler` | `user:profile:<id>` | read-modify-write by signals and synthesis | updates are not lost | `Records` |
| Transcription and speech | `internal/handlers/transcription` | two bounded channels between three goroutines | stream, cut, speak, play | sentences are heard in order, once; all goroutines end | `VoiceReply` |
| Architect, greeting handler | `internal/handlers/{architect,greeting}` | none of their own | a report on request, a spoken greeting | - | - |
| Chat contexts, text utilities, templates | `utils/*.go`, `templates/*.go` | bounded Redis lists | append and trim, clean, validate | bounds; pure functions | - |
| Discord, model, web, GitHub clients | `internal/discord`, `internal/model`, `internal/web`, `utils/github.go` | none, or a reference count of model loads | HTTP calls | splitting of long messages loses nothing | - |
| Dashboards, options, roadmap, logs, CLI, status | `endpoints/*.go`, `middleware` | single keys and files | request and response | no protocol of their own | - |
| `core.go` | `RunCoreLogic` | - | - | not called by `main.go` | - |

### How they interact

- `POST /events` passes the ingestion lock, then stores the event (event store),
  marks its channel and queues its handlers (executor). A failing handler
  creates two children.
- The one worker runs message handlers and the profiler. A handler's reply and
  the signals it extracts are posted to the service's own `POST /events`: they
  mark the channel and are queued in turn.
- Message handlers and background agents report to the process registry, take
  the cognitive lock around every model call and report again as "Queued" while
  they wait. `ReportProcess` reads the lock to tell active from queued.
- Agents start a run only when no other process is registered; message handlers
  back off while an agent holds the lock.
- Pause and resume write the lock, the flag and the registry's state. A pause is
  refused unless the state reads idle, so the registry guards the lock.
- The registry's state is repaired by the status endpoint (`SyncSystemState`),
  by the guardian's worker (`CleanupBusyCount`) and by the zombie reaper.
- The courier marks chores, its compressor starts a summary per channel; the
  analyzer rewrites profiles that the worker's profiler also writes.
- Unlocking the ingestion lock posts the queued events to the service's own
  `POST /events`.
- Startup (`performStartupCleanup`) deletes the active processes and resets the
  count and the state; it leaves the cognitive lock, `is_paused` and the queued
  processes of the previous run.

### What is hard

`PROJECT.json` ("hazards") lists every place with its line. The kinds that
matter here: sequences of Redis commands of two actors that interleave (release
against pause, report against clear, creation against bulk deletion); values
read, changed and written back whole (PATCH, `updateEvent`,
`removeChildFromParent`, `RecordProcessOutcome`, chores, profiles); a check under
a mutex that is used after it (`IsEventLocked`); names taken for identities (lock
values); contexts that end while a goroutine runs on; panics and restarts
between acquire and release; a counter that several parties keep in step by
hand; messages claimed, skipped and interrupted on behalf of one another;
bounded channels between goroutines that wait for each other.

## Modules

| Module | What it is |
|---|---|
| `CognitiveLock` | acquire, release, pause, resume, TTL, done contexts, panics, restarts |
| `ExclusiveUse` | what the lock promises: a resource with at most one user |
| `ProcessRegistry` | the registry's operations, command by command |
| `IngestLock` | the ingestion lock, its list and its replays |
| `EventStore` | events, indexes, families, all ways to delete |
| `Executor` | requests, interruption marks, the job queue, the worker |
| `MessageHandling` | the two message handlers, on the worker of `Executor` (which it extends) |
| `Agents` | the four agents, their waterfalls, and the cognitive loop |
| `Records` | chores, profiles and summaries, read and written back whole |
| `VoiceReply` | the three goroutines of a spoken reply |
| `MC*` | instances for TLC: who the actors are and what each does |
| `*Proofs` | theorems |

"Variants" in the modules (`ClaimWithoutNX` and the like) are plausible slips.
No action uses them; each property is shown to notice one.

### CognitiveLock

`lock` and `volatile` are the key and its TTL; `pc[t]` is the next Redis command
of task `t`, one goroutine with one locked section. `KindOf` tells where the
code reports and clears its process: agents clear before the deferred release,
summaries and handlers after it, handlers report long before they acquire.
`CheckReentry`, `Poll`, `Override`, `Claim` and `Queue` are
`AcquireCognitiveLock`; `CheckHolder`, `CheckPaused`, `RestoreMarker` and
`FreeLock` are `ReleaseCognitiveLock`. A done context makes every command of its
task fail: reads come back empty and writes do nothing, and the loop of acquire
returns without the lock and without telling its caller. `sysState` and
`reported` are the part of the registry a pause request looks at.
`Disturbances` chooses what else may happen.

### ProcessRegistry

`redis` is a record of the keys; `act[a]` is the operation an actor runs, the id
it works on and what it has read. Every step is a command; where the code goes
on after a shared piece (`TransitionToBusy`, `TransitionToIdle`) is `AfterBusy`
and `AfterIdle`. `CountPerforms` and `SyncPerforms` in `MCProcessRegistry` say
which operations an actor has, as the service's goroutines do. `slips` is a
history of what the code does not guard against: two operations on one id at a
time ("shared"), the unregistration of an unknown id ("unknown"), a count that
went up and was overwritten by a cleanup or a reset ("lowered"), and a resume
that took the flag away while "paused" was written or about to be ("crossed").
The properties say what holds until then; none of these is kept out of the model
or of the runs.

### IngestLock

`pc[e]` is the request that carries an event, `drain[d]` a goroutine of
`processPendingEvents`. The status of a resubmission is ignored by the code, so
only the first answer reaches a client. `faults` counts what went wrong: a
failed Redis command, a failed POST, a crash of the service (which forgets the
flag and the goroutines, not the list).

### EventStore

A pipeline is a list of commands worked off one at a time, since the code uses
`Pipeline` and not `TxPipeline`. `jobs` are handler runs that will fail, in the
order of the worker's queue; `memory` is the copy of an event that all of its
handlers share, for as long as one of them is queued. `copied` is a history: the
ids of which somebody had a copy (a queued handler, a PATCH or the deletion of a
child that had read it) when their key was deleted. Redis commands do not fail
in this module. `Alone` names the operations that a run lets meet no other; it
is how a run separates what holds under overlap from what does not. `SendEvent`,
`SaveInternalEvent` and the successful children of handlers make an event with
the same commands as `Create` and `CreateChild` and are not actions of their
own.

### Executor and MessageHandling

`request[m]` is the POST that carries message `m`: for one handler after the
other, in the arbitrary order of a Go map, the channel's mark is stored (`Mark`)
and the job is sent (`Send`). A sync sender blocks until there is room, which is
the part of `jobQueue` beyond `Capacity`, and then waits for its result; an async
one gives up when the queue is full (`dropped`). `running` is the job on the one
worker; `Return` frees the worker and answers a sync requester, also after a
panic. `interruptionMap` holds the timestamp stored last, which may be older than
the one before. The clock has seconds, so that two events may share one.

`handler` is the handler on the worker, step by step: claim check (public
handler only), links, images, the busy check, the engagement lock, the decision,
the context (`Context`: all events of the channel so far, later messages
included), commands for the fabricator before anything is claimed
(`ClaimOrCommand`), claims, generation, reply. `cut` are messages whose context is
done: their Redis commands and model calls fail. The bot's own events (the
reply, the signals posted by a goroutine that outlives the handler) are one step
each (`Echo`). Contents are choices: whether there is a link or an image (one at
most), what a model decides, what fails. `outcome`, `claimants`, `replies` and
`lapsed` are what the properties look back at.

### Agents

A run is a goroutine: its agent, who started it, its tier, the state of its
cognitive loop, and for waterfalls the chores or users still to do. `MayRun` is
the tick's test (not paused, nobody else registered, cooldowns over); triggers
over HTTP have fewer tests or none, so runs of one agent overlap. `Acquire`,
`Report`, `End` and `Release` are single steps here, since `CognitiveLock` and
`ProcessRegistry` have their commands. `ChatFails`, `SyntaxRejected`,
`ReportsRejected`, `Accepted` and `GiveUp` are the loop's attempts, with the
results and the error that the loop returns together. The fabricator goes on
from a review to an issue, its construction and a deployment; its safety check
is part of the guard of a started run. Time is a choice: a cooldown ends, a
chore falls due, a key expires at any moment; only the 24 h TTL of a process is
taken to be longer than a run. A chat reply is one actor that may hold the lock.

### Records

A task is one read-modify-write between its read and its last write. A chore is
the number of its edits and its last run, a profile two counters, a summary the
position of its last event in the channel: what tells two versions apart, and no
more. `asked` and `sent` are what the records should be when every change
counts; `raced` are the records that two tasks rewrote at a time. A summary has
a lock with a TTL (`LockExpires`), freed unconditionally (`SummaryUnlock`).

### VoiceReply

The handler's callback cuts sentences and sends them (`Cut`, `CutSend`,
`Flush`), the text-to-speech worker takes, generates and sends audio, the player
plays; `close` and `wg.Wait` are steps of their own. A sentence is its number in
the reply.

## What TLC checks

| Run | Setting | Shows |
|---|---|---|
| `CognitiveLock_exclusive` | guardian, summary, response and a bypassing test task, two sections each; panics and restarts | `MutualExclusion`; the lock implements `ExclusiveUse` |
| `CognitiveLock_disturbed` | guardian and response, two sections each, two pause or resume requests, expiry, done contexts, panics, restarts | `NoOrphanLock`, `EveryWaiterServed`, `LockComesFree` |
| `ProcessRegistry_covers` | a handler that reports, clears and judges, an external service that registers, unregisters and dies (two operations each), the reaper and the cleanup once each, a lock that moves once | `CountCoversKnown`, `CountNotNegative` |
| `ProcessRegistry_sync` | report and clear, an outcome of the same id, a pause, a resume, the status loop | `SyncHeals` |
| `IngestLock_replay` | four events (one malformed, one privileged), two replays, two lock requests, two faults | `OnePlace`, `QueuedIsKept`, `ReplayInOrder`, `DrainsEnd` |
| `IngestLock_stranded` (violated) | the same code, asked for more | `NothingStranded` fails, see below |
| `EventStore_families` | up to two events with two children each, or six without, at most one failing handler per event; four requests, one after the other | `Findable`, `FamiliesAgree`, `CascadeComplete`, `LastChildOnly` |
| `EventStore_deleted` | two clients, three events, two requests of any kind, deletions and patches, that overlap, expiry; creations and failing handlers alone | `NoLeftovers`, `StaysDeleted`, `Unlisted` |
| `MessageHandling_replies` | two messages, each in a public or a direct channel, sync or not; a queue of one; two seconds; one fault (panic, restart, done context, expired key) | `NoDoubleAnswer`, `SkippedForReply`, `ChannelHeard`, `LockFoundFree`, `WaiterHasJob` |
| `Agents_runs` | two runs of any agents at a time, two starts, two attempts per loop, a restart, a pause, a chat; one chore, one user, one issue | `EntryHasRun`, `OnlyValidated`, `OncePerDue`, `NoWayBack` |
| `Records_kept` | two tasks at a time, four operations, one chore, one user, one channel of up to five events; expiry, deletion of the head, restarts | `ChoresKept`, `ProfilesKept`, `HeadForward` |
| `VoiceReply_order` | two replies of up to six sentences, channels of capacity two | `HeardInOrder`, `Ends` |

Every module's `TypeOK` is an invariant of one of its runs, except that of
`VoiceReply`, which is proved only.

Why the bounds are enough: each race in this code is between two operations on
the same key, and the runs have two or three actors with two operations each, so
an operation can start before, in and after every step of another one.

- A second section per task lets a task meet the leftovers of its own first one;
  two clients with two deletions and a parent with two children are the least
  with which cascades, unlinking and bulk deletion meet; two lock requests and
  two replays are the least with which two replays pop one list.
- Two messages with two handlers each make four jobs for a queue of one, besides
  the bot's own events, so that jobs are dropped, senders block, a message waits
  while another one is answered, and marks go back in time. A circle of
  interruptions could be longer than two; that there is none of any length is
  proved.
- Two runs of one agent are the least that overlap; with two attempts a loop has
  a first, a last and one after a failure. A waterfall's second chore differs
  from its first only in what was found before, and `NoWayBack` is proved for
  any number.
- With `Batch` 2, `Keep` 1 and five events a channel is summarized twice, so one
  update can begin while an earlier one still writes.
- Six sentences are more than the two channels and the two hands between can
  hold, so every goroutine waits for the next one at some point.

Counters (`MaxRuns`, `MaxPauses`, `MaxOps`, `MaxMoves`, `MaxLocks`, `MaxFaults`,
`MaxFails`, `MaxEvents`, `MaxRequests`, `MaxTime`, `MaxStarts`, `MaxRestarts`,
`MaxTurns`, `MaxSentences`) stop the environment, never a step that completes
what was begun. `EventStore_deleted` treats its clients as symmetric and
`Records_kept` its tasks; runs with liveness use no symmetry.
`MessageHandling_replies`, `Records_kept` and `VoiceReply_order` may stop when
all their messages, operations and turns are used up, and do not check deadlock;
`Ends` says that a voice reply never stops half way.

`MaxEvents` never stops a child, whose id its parent's creation has promised:
`EventStore_families` would report the deadlock.

Three things the runs of `EventStore` keep apart or except, because the code
does not hold there: a creation does not overlap a bulk deletion (the creation
goes on to index an event that is gone); `NoLeftovers` excepts events that the
tool deleted (it cleans two of four indexes) or that a patch moved to another
type; and `StaysDeleted` excepts events of which somebody had a copy when their
key was deleted (`updateEvent`, `removeChildFromParent` and PATCH write back
what they have read). Each is listed as a hazard at its line. The theorems need
less apart than the run, each its own (see below). In the same way
`CountCoversKnown` ends with a slip, `SyncHeals` allows what a crossing leaves,
`EntryHasRun` excepts the analyzer, and `ChoresKept` and `ProfilesKept` except
records that two tasks rewrote at a time, `HeadForward` summaries whose lock
expired or whose head event was deleted, `NoDoubleAnswer` messages whose claim
expired, and `OncePerDue` two waterfalls that research at a time.

### Fairness

- `CognitiveLock`: `WF` on a task's steps (goroutines are scheduled, and each
  Redis command returns or fails), on the handler of a pause request once it has
  begun, and on expiry (Redis drops keys when their TTL ends). Not on starting a
  section, on requests, or on any disturbance. With weak fairness a `Claim` can
  find the lock taken again and again; the sections are bounded, as a task's
  retries against a bounded number of competitors are.
- `ProcessRegistry`: `WF` on the steps of operations that have begun, and on the
  start of a sync: the status endpoint is polled by the dashboard for as long as
  the system runs. Nobody has to report, clear or register.
- `IngestLock`: `WF` on requests and replays. Nobody has to lock or unlock.
- `VoiceReply`: `WF` on the handler, the text-to-speech worker and the player:
  three goroutines, each of which is scheduled, and whose calls (the stream, the
  speech service, Discord) return or fail.
- `EventStore`, `MessageHandling`, `Agents` and `Records` have no liveness
  property. That a run of an agent ends is stated as `NoWayBack`, an action
  property that needs no fairness; that nobody who waits is forgotten is the
  invariant `WaiterHasJob`.

### Where the code does not do what it says

One run expects a violation; `PROJECT.json` ("findings") quotes the lines.
`IngestLock_stranded`: an event pushed just after the replay found the list empty
waits for the next unlock, because `IsEventLocked` lets go of the mutex before
`QueuePendingEvent` pushes.

Met while modelling, and left out of the properties for it:

- `utils/process.go:94`: callers of one name pass the re-entrancy test, so two
  summaries, or two runs of one agent, can be in the section together, although
  the lock is there for "exclusive" use. `MutualExclusion` has distinct names.
- `utils/process.go:144`: a pause request between the GET and the DEL of a
  release loses its marker; the flag stays, the lock is free.
- `utils/process.go:242`: the other key is deleted before it is asked whether
  the process exists, so a process that moves from queued to active is counted
  twice, where the comment (`:246`) says that existing ones are not: the count
  is too high.
- The count also falls below the known processes. `CleanupBusyCount`
  (`internal/agent/base.go:46`) counts the active keys only, so it drops the
  queued ones, and writes a number that others may have outrun since its KEYS.
  Unregistration (`endpoints/processes.go:125`) counts down ids that it never
  found, and where the count reaches zero its SET 0 wipes out an increment made
  since its DECR, as the SET 0 of `ClearProcess` does below zero. Registration
  (`:59`) writes the key before it counts it. Two goroutines that clear one id
  count it down twice, and `RecordProcessOutcome` (`utils/process.go:464`)
  writes back a process that was cleared since its GET. `CountCoversKnown`
  states what is left: until one of these has happened the count covers
  everything known, ids whose registration is about to be counted aside. The
  runs reach all of these.
- `utils/process.go:192`, `:390`: a pause that a resume overtakes leaves
  `system:state` at paused, and so does a sync or a transition between the SET
  of the state and the DEL of the flag of a resume (`endpoints/agent.go:467`,
  `:471`). `SyncSystemState` (`:341`, "enforces the correct busy/idle state")
  takes that as done, and pauses are refused from then on until something has
  been busy or somebody resumes again. `SyncHeals` excepts this one wrong state
  and no other.
- `endpoints/events.go:1036` (`removeChildFromParent`), `:1123` (PATCH) and
  `handlers/executor.go:445` (`updateEvent`) write back a whole event that they
  read earlier, and so restore one that was deleted meanwhile: a parent comes
  back when its own DELETE overlaps that of its last child.
- `handlers/executor.go:446`: two handlers fail on one event: the second's
  children replace the first's in the list, and the cascade
  (`endpoints/events.go:950`) misses those.
- `endpoints/events.go:953`: a cascade stops when a listed child is missing
  (after a deletion in bulk, an expiry, a second failing handler, or an
  overlapping deletion), and its parent cannot be deleted any more.
  `CascadeComplete` has none of these.
- `internal/handlers/privatemessage/handler.go:79` has the comment of the claim
  check and no check: `NoDoubleAnswer` is about public channels.
- `internal/agent/base.go:201`: the error of a failed attempt is not reset, so a
  later success is returned with it and its report is thrown away; the comment
  at `:114` says three attempts, the default (`:190`) is five; what follows a
  stop token (`:253`) is not validated.
- `endpoints/analyzer.go` (triggered synthesis) reports a process that nobody
  clears; it is the service's own pid, so the reaper keeps it, and other agents
  find the system busy for up to a day. `EntryHasRun` excepts the analyzer.
- `internal/handlers/profiler/analyzer.go:222`: `EnforceJSON` of one shared
  configuration is set by concurrent protocols without a lock.
- `internal/handlers/transcription/handler.go:449`: when the stream failed, what
  was already spoken is neither recorded as an event nor followed by the
  cooldown of `:111`.

## What is proved

All theorems are about the modules' specifications for every value of the
constants that satisfies their assumptions, and have proofs that TLAPS checks.
The assumptions are the `ASSUME`s of the modules: bounds are natural numbers,
model values are distinct from what they stand apart from.

**CognitiveLockProofs.** `TypeCorrect`. `OrphanFreedom`: `NoOrphanLock` with the
invariant `OrphanInv`: unless something broke, no context is done, so each
command of a release takes effect; whoever finds its name in the key has
acquired it and is on its way through release. `Exclusion`: if names are
distinct and only panics and restarts happen, `MutualExclusion`. It is not
inductive: that two tasks are not in the section together follows from the key,
so `ExclusionInv` says that whoever is between acquiring the key and its DEL
finds its own name there, that the pause marker never appears, and that a
bypassing task, which never writes the key, stops at the GET of its release.
`ImplementsExclusiveUse`: a refinement, with the same invariant; a restart maps
to the one user's leaving.

**ProcessRegistryProofs.** `TypeCorrect`, and `CountMadeGood`
(`CountNotNegative`): the step that takes the count below zero goes on to the
reset of the same operation, for any actors, ids and operations. `CountCovers`
(`CountCoversKnown`) has no condition on the constants either: any goroutines
run any of the ten operations on any ids. The count is moved by commands that
are apart from those that make or remove a key, so it is compared with more than
is known: `Counted` are the known ids that no registration is about to count,
and those an operation has counted but not yet written, or removed but not yet
counted down. `Covered` says that, until a slip, the count is at least their
number; that no two operations are on one id (`Alone`); that what an operation
has read of its id is still so (`Standing`), as no other goroutine's step
touches it; and that no external id is queued (`Ordinary`). So each operation
moves the count by what it moves `Counted` (`CountKeepsUp`, with the library's
theorems about `Cardinality`). A step that slips needs no more than its being
noted.

**IngestLockProofs.** `TypeCorrect`. `AtMostOnce` (`OnePlace`), with any faults
and any number of replays. Its invariant `Places` adds where an event is on its
way: an event in the list or in the store is at rest, carried by no request and
no goroutine; a goroutine that waits for a POST has an event that is in flight;
no two goroutines hold one event. `NothingLost` (`QueuedIsKept`), from `Places`
and the fact that faults are counted. `ReplayedInOrder` (`ReplayInOrder`) is about
one lock session without faults, with any events and any number of goroutines:
`OneSession` (one goroutine runs, and only after the lock was taken off), `Queue`
(what waits or is being posted was pushed, once) and `InLine` (of two pushed
events the first is not behind the second: in the list, at the POST, or in the store).

**EventStoreProofs.** Commands of a pipeline aside, a step only moves an actor on
(`Moves`), makes a new event (`Makes`) or writes back a copy; lemma `StepDoes`
says so, and each invariant is shown for these kinds. `TypeCorrect` needs the
whole of `Base`: `Working` (what an actor holds fits the step it is at) and `Kept`
(an id that an index, the queue or an event names was handed out and is past the
first two commands of its creation, so that nobody deletes an event that is not
in the timeline yet, and a parent stays in the executor's memory).
`DeletedIsUnlisted` (`Unlisted`) adds `Cleans`: a deletion under way still has the
ZREM of the timeline before it, or its event is not there. It holds whatever
overlaps. So does `DeletedStaysDeleted` (`StaysDeleted`): `Deletion` says that an
id that is `Cleared` (deleted, or past the DEL of a deletion under way) is neither
stored nor `Held`, unless somebody had a copy at that DEL. No copy can be taken
of what is not stored, so nobody restores it; a deletion that comes later and
finds nobody with a copy ends the exception.
`DeletedLeavesNothing` (`NoLeftovers`) assumes that creations and failing
handlers run alone, and takes all copies of an event together, in its key, in the
executor's memory and in the hands of whoever will write it back: `Faithful` says
that they agree on type and channel and that the indexes that name the event are
among those the copies name, so a deletion that read any of them has a ZREM for
each (`Sweeps`). An alert deleted through the alert cleanup is one (`Alarms`), and
who is made was not deleted (`Newborn`). `Ascending` chooses a rising sequence;
that there is one (`AscendingOf`) is an induction over the number of ids, carried
out as a least counterexample.

`StoredIsFound` (`Findable`) assumes that deletions meet no other operation
(`ErasingAlone`) and that patches keep type and channel (`SameKind`); creations,
failing handlers and patches overlap in any number, and keys may expire. An event
comes back to the store from any copy of it, so `Entering` is about all of `Live`,
the copies that may still be written: each index such a copy names has the entry,
or has it `Underway` in a pipeline. A copy in the executor's memory counts only
while a failing handler is queued, and none is during a deletion (`Calm`).

Families: `FamiliesStayWhole` (`FamiliesAgree`), `YoungestGoesFirst`
(`LastChildOnly`) and `CascadeIsComplete` (`CascadeComplete`) assume
`FamiliesAlone` and share the invariant `Families`. Between operations it says
that listed children are stored and name their parent (`Listed`), that a child's
parent is stored, is no child itself and lists it (`Lists`), and that lists rise
(`Rising`), so that the last one listed is the youngest. During operations it says
how far each has come: a DELETE request has its target's children, all of them,
still before it (`Cascade`), or is at the last child of a parent whose list it will
shorten by that one (`Removal`, `Unlinks`); a failing handler has made a beginning
of the children it will list (`Fails`); and what a parent may list wrongly
meanwhile (`Excuses`). Creations and patches may overlap in any number, which the
run does not try. Each condition of `FamiliesAlone` is needed: deletion in bulk,
by the alert cleanup or by the tool takes a child and leaves it listed; so does
expiry, as every event has its own TTL; a second failing handler overwrites the
first one's list; a DELETE of a parent that overlaps one of its child finds the
child missing, or is undone when the child's request writes the parent back; and
a handler that fails during a DELETE writes back, with new children, an event
that is gone.

**MessageHandlingProofs.** Every step of a handler is one of six kinds (lemma
`StepDoes`: it moves on, leaves, engages, claims, replies, emits), and each
invariant is shown for the kinds instead of for 26 actions. `TypeCorrect` and
`WaitersAreServed` (`WaiterHasJob`) need `Carried`: a request that sends or
waits has a handler to send to, and only a sync one waits. `LockIsFree`
(`LockFoundFree`) needs `Locks`: between two handlers there is no handler state,
and, without a restart, an engagement key exists only while the handler that
took it is on the worker. `AnsweredOnce` (`NoDoubleAnswer`) needs `Answers`:
what a reply was given as context is claimed or its claim expired, already from
the claim on, and a public handler that is past its claim check was not claimed
by an earlier reply. `SkippedForAReply` (`SkippedForReply`) needs `Singles` (a
message has at most one handler job, and no outcome before that ended) and
`Skips`: a claim that is set was made by a handler that is still on its way to a
reply or came that far. `SomebodyIsHeard` (`ChannelHeard`) needs `Marks`: a mark
is the time of a stored event or of the bot's, and a message was interrupted
only when a later one of its channel, or a reply to one, had marked it. Then the
argument is well-founded: of the messages that ended interrupted, a latest one
would have been overtaken by an even later one; the lemma `Least` takes the
minimum, by the library's theorem that `<` is well-founded on the naturals.

**AgentsProofs.** `TypeCorrect`, with `Courteous` (the tasks of a courier's run
are chores), which the others use too. `RejectedStaysIn` (`OnlyValidated`) needs
`AllValid`: past the attempts, rejected results come with an error, and a run that
delivers or emits has neither.
`ActiveHasRun` (`EntryHasRun`; the analyzer is excepted, whose triggered synthesis
leaves its entry) needs `Shown`: an active entry of any other agent has a run that
has not come to its release; overlapping runs of one agent make it weaker than "each
run has its own". `RunsComeCloser` (`NoWayBack`): `StepsLeft` falls with
every step; `StepRuns` says what a step does to its run, and the lemmas about
`Cardinality` carry the waterfall's remaining chores and users. `DeliveredOnce`
(`OncePerDue`) needs `Once`: unless two courier runs worked at a time or the
service restarted, one run is `Researching`, its remaining tasks are due, and a
due chore that was delivered is the one this run is about to mark.

**RecordsProofs.** `TypeCorrect`, with `Asked` (what a task writes back existed).
`ChoresAreKept`, `ProfilesAreKept` and `SummariesMoveForward` share one
invariant: `Sole` (a record nobody raced over has one rewrite at a time),
`Unchanged` (that rewrite read what is still there), `Ahead` (a summary under way
holds its lock and ends no earlier than the last one), `NoneListed`.

**VoiceReplyProofs.** `TypeCorrect`, and `InOrder` (`HeardInOrder`) for channels
of any capacity: what was heard, is at the player, in the audio channel, at the
text-to-speech worker and in the sentence channel is one rising sequence
(`Ordered`), every sentence cut is in one of them or lost (`Accounted`), and the
phases of closing follow each other (`Phases`). From the first two it follows that a
sentence is heard only when every earlier one was heard or lost: what is still on
its way is later.

### What is model-checked only

Liveness: `EveryWaiterServed`, `LockComesFree`, `SyncHeals`, `DrainsEnd` and `Ends`
rest on fairness, which the prover does not handle. Every safety invariant and
action property that a passing run checks is also a theorem, some under a named
condition on the constants (`MakingAlone`,
`ErasingAlone` with `SameKind`, `FamiliesAlone`, and the assumptions of the
lock's `Exclusion`), which the run's instance satisfies.

## What is not modelled

The parts without a module in the inventory; each has its reason under
"components". The chat contexts and text utilities are bounded lists and pure
functions on strings; the clients are calls to other services; the dashboards
read; `core.go` is dead code; the architect answers one request with one loop of
`Agents`' kind; the greeting handler speaks one sentence.

In the modelled parts: what a model answers, the text of events and messages,
metrics, process history, Discord status, logging; the scores of sorted sets and
the readers of the store; the 24 h TTL of process keys; Redis failures in the
registry, the event store, the agents and the records (so that a `MarkRun` whose
error the courier drops, `internal/handlers/courier/handler.go:257`, leaves its
chore due and has it delivered again is not seen), and in `IngestLock` a command
that takes effect and whose reply is lost; pipelines of chores, which are one
step; several links or images
in one message; contexts of more than fifty events or with a summary; the idle
timer of `CreateEventHandler` that starts agents after a message; the seven-day
TTL of summaries, and the deletion of events other than a summary's head; what
the tools of agents fetch or build.

## Plan

1. `CognitiveLock`, `ExclusiveUse`, `ProcessRegistry`, `IngestLock`,
   `EventStore`: done.
2. `Executor` and `MessageHandling`, `Agents` with the cognitive loop, `Records`,
   `VoiceReply`: done.
3. Proofs of every safety property that the runs check: done.
4. Open: splitting of long messages and the event filters against reference
   definitions; the idle timer; families under deletions in bulk, stated for
   what the code does keep there.
