--------------------------------- MODULE Agents ---------------------------------
(***************************************************************************)
(* The background agents: guardian, courier, fabricator and analyzer       *)
(* (internal/handlers), the cognitive loop they ask a model in             *)
(* (internal/agent/base.go), and the requests that trigger them.           *)
(*                                                                         *)
(* A worker per agent ticks and starts a run when no other process is      *)
(* registered and all cooldowns of the agent are over; a run is a          *)
(* goroutine, and so is a triggered one, so runs of one agent may overlap. *)
(* Time is a choice: a cooldown is over, a chore is due or a key expires   *)
(* at any moment.  The steps inside the lock and the registry are in       *)
(* CognitiveLock and ProcessRegistry; here a call to them is one step.     *)
(***************************************************************************)
EXTENDS Naturals, FiniteSets

CONSTANTS
    MaxRuns,    \* bound: runs at the same time
    Chores, Users, Issues,
    NoRun, NoChore, NoIssue,
    NoLock, PAUSED,
    MaxRetries, \* attempts of a cognitive loop (5 in the code)
    MaxStarts,  \* bound: runs and replies started
    MaxRestarts \* bound: restarts of the service

ASSUME AgentsAssumption ==
    /\ MaxRuns \in Nat \ {0} /\ MaxRetries \in Nat \ {0} /\ MaxStarts \in Nat /\ MaxRestarts \in Nat
    /\ IsFiniteSet(Chores \union Users)
    /\ NoChore \notin Chores \union Users /\ NoIssue \notin Issues

Runs      == 1 .. MaxRuns
Names     == {"guardian", "courier", "fabricator", "analyzer"}
Protocols == {"sentry", "researcher", "compressor", "review", "issue",
              "construct", "reporter", "summary", "synthesis"}

VARIABLES
    lock,     \* system:cognitive_lock
    paused,   \* system:is_paused
    chat,     \* a reply is generated
    ready,    \* agents with all cooldowns over (<agent>:last_run:*)
    entry,    \* process:info and process:queued of an agent
    sentry,   \* guardian:active_tier is set (those of the others are for display)
    due,      \* chores that are due
    open,     \* open issues
    run,
    reports,  \* history: deliveries of a chore since it was due, up to 2
    shared,   \* history: two courier runs researched at a time
    starts, restarts

vars == <<lock, paused, chat, ready, entry, sentry, due, open, run,
          reports, shared, starts, restarts>>

\* tier is the protocol at work; found, whether a chore was reported or a user
\* summarized; attempts, err and results belong to the cognitive loop.
Run == [agent: Names, by: {"tick", "http"},
        pc: {"claim", "lock", "queued", "begin", "loop", "judge", "emit", "pick",
             "search", "deliver", "mark", "compress", "review", "issue", "construct",
             "deploy", "report", "end", "release"},
        tier: Protocols \union {"none"},
        attempts: 0 .. MaxRetries, err: BOOLEAN,
        results: {"none", "rejected", "accepted"},
        todo: SUBSET (Chores \union Users), chore: Chores \union {NoChore}, found: BOOLEAN,
        issue: Issues \union {NoIssue}]

ASSUME RunAssumption == NoRun \notin Run

Started(a, by, pc, tier) ==
    [agent |-> a, by |-> by, pc |-> pc, tier |-> tier, attempts |-> 0, err |-> FALSE,
     results |-> "none", todo |-> {}, chore |-> NoChore, found |-> FALSE, issue |-> NoIssue]

TypeOK ==
    /\ lock \in Names \union {"chat", NoLock, PAUSED}
    /\ paused \in BOOLEAN /\ chat \in BOOLEAN /\ shared \in BOOLEAN
    /\ ready \subseteq Names /\ sentry \in BOOLEAN
    /\ entry \in [Names -> {"none", "queued", "active"}]
    /\ due \subseteq Chores /\ open \subseteq Issues
    /\ run \in [Runs -> Run \union {NoRun}]
    /\ reports \in [Chores -> 0 .. 2]
    /\ starts \in Nat /\ restarts \in Nat

Init ==
    /\ lock = NoLock /\ paused = FALSE /\ chat = FALSE
    /\ ready = Names
    /\ entry = [a \in Names |-> "none"]
    /\ sentry = FALSE
    /\ due = Chores /\ open = {}
    /\ run = [r \in Runs |-> NoRun]
    /\ reports = [c \in Chores |-> 0] /\ shared = FALSE
    /\ starts = 0 /\ restarts = 0

-----------------------------------------------------------------------------
(* Starting a run.                                                         *)

\* IsActuallyBusy: any other process is registered.
IsActuallyBusy(a) == chat \/ \E b \in Names \ {a} : entry[b] # "none"

RunsOf(a) == {r \in Runs : run[r] # NoRun /\ run[r].agent = a}

Start(a, by, pc, tier) ==
    /\ starts < MaxStarts /\ starts' = starts + 1
    /\ \E r \in Runs :
          /\ run[r] = NoRun /\ \A q \in 1 .. r - 1 : run[q] # NoRun
          /\ run' = [run EXCEPT ![r] = Started(a, by, pc, tier)]
    /\ UNCHANGED <<lock, paused, chat, ready, entry, sentry, due, open, reports,
                   shared, restarts>>

MayRun(a) == ~paused /\ ~IsActuallyBusy(a) /\ a \in ready

\* The guardian's worker waits for the run to end.
GuardianTick ==
    /\ MayRun("guardian") /\ ~sentry
    /\ \A r \in RunsOf("guardian") : run[r].by # "tick"
    /\ Start("guardian", "tick", "claim", "sentry")
CourierTick    == MayRun("courier") /\ due # {} /\ Start("courier", "tick", "claim", "none")
FabricatorTick ==
    MayRun("fabricator") /\ Start("fabricator", "tick", "claim", "none")
AnalyzerTick   == MayRun("analyzer") /\ Start("analyzer", "tick", "claim", "none")

\* Tiers above 1 take the lock for nothing.
GuardianTrigger   == \E tier \in {"sentry", "none"} : Start("guardian", "http", "claim", tier)
FabricatorTrigger == Start("fabricator", "http", "claim", "none")
\* Synthesis only, with neither claim nor lock.
AnalyzerTrigger   == Start("analyzer", "http", "begin", "synthesis")
\* Compression of all channels in the request itself.
CourierTrigger ==
    /\ starts < MaxStarts /\ "courier" \in ready
    /\ ready' = ready \ {"courier"}
    /\ UNCHANGED <<lock, paused, chat, entry, sentry, due, open, run, reports, shared,
                   starts, restarts>>

-----------------------------------------------------------------------------
(* What every run does.                                                    *)

Set(r, new) ==
    /\ run' = [run EXCEPT ![r] = new]
    /\ UNCHANGED <<paused, chat, starts, restarts>>
To(r, pc) == Set(r, [run[r] EXCEPT !.pc = pc])
At(r, pc) == run[r] # NoRun /\ run[r].pc = pc
AtOf(r, pc, a) == At(r, pc) /\ run[r].agent = a

\* ReportProcess: whoever does not hold a lock that is held is queued.
Report(a) == entry' = [entry EXCEPT ![a] = IF lock \in {a, NoLock} THEN "active" ELSE "queued"]

\* last_run is set before the lock is taken, so that the next ticks find a cooldown.
Claim(r) ==
    /\ At(r, "claim")
    /\ ready' = ready \ {run[r].agent}
    /\ To(r, "lock")
    /\ UNCHANGED <<lock, entry, sentry, due, open, reports, shared>>

\* AcquireCognitiveLock: its own name lets a run in at once, but not once it is
\* queued; the pause marker is overridden.
Acquire(r) ==
    LET a == run[r].agent
    IN  /\ At(r, "lock") \/ At(r, "queued")
        /\ \/ /\ lock \in {NoLock, PAUSED} \/ (At(r, "lock") /\ lock = a)
              /\ lock' = a
              /\ To(r, "begin")
              /\ UNCHANGED entry
           \/ /\ At(r, "lock") /\ lock \notin {NoLock, PAUSED, a}
              /\ Report(a)
              /\ To(r, "queued")
              /\ UNCHANGED lock
        /\ UNCHANGED <<ready, sentry, due, open, reports, shared>>

\* The first protocol: active_tier and the process, for the triggered synthesis
\* the process only.
FirstPc(a) == CASE a = "guardian" -> "loop" [] a = "courier" -> "pick"
                [] a = "fabricator" -> "review" [] OTHER -> "pick"
FirstTier(r) == CASE run[r].agent = "courier" -> "researcher" [] run[r].agent = "fabricator" -> "review"
                  [] run[r].agent = "analyzer" /\ run[r].by = "tick" -> "summary"
                  [] OTHER -> run[r].tier

\* A courier run that works through its chores.
Researching(h) ==
    /\ h # NoRun /\ h.agent = "courier"
    /\ h.pc \in {"pick", "search", "loop", "judge", "deliver", "mark"}

Begin(r) ==
    LET a == run[r].agent
    IN  /\ At(r, "begin")
        /\ \/ /\ FirstTier(r) = "none"
              /\ To(r, "end")
              /\ UNCHANGED <<sentry, entry, shared>>
           \/ /\ FirstTier(r) # "none"
              /\ sentry' = (sentry \/ a = "guardian")
              /\ Report(a)
              /\ shared' = (shared \/ (a = "courier" /\ \E q \in Runs \ {r} : Researching(run[q])))
              /\ Set(r, [run[r] EXCEPT !.pc = FirstPc(a), !.tier = FirstTier(r),
                                       !.todo = CASE a = "courier" -> due [] a = "analyzer" -> Users
                                                   [] OTHER -> {}])
        /\ UNCHANGED <<lock, ready, due, open, reports>>

\* Variant: the courier forgets its process.
EndOfFoundOnly(r) ==
    /\ At(r, "end")
    /\ sentry' = (sentry /\ run[r].agent # "guardian")
    /\ entry' = IF run[r].agent # "courier" \/ run[r].found
                THEN [entry EXCEPT ![run[r].agent] = "none"] ELSE entry
    /\ To(r, "release")
    /\ UNCHANGED <<lock, ready, due, open, reports, shared>>

\* cleanupRun, or the guardian's deferred calls.
End(r) ==
    /\ At(r, "end")
    /\ sentry' = (sentry /\ run[r].agent # "guardian")
    /\ entry' = [entry EXCEPT ![run[r].agent] = "none"]
    /\ Set(r, Started(run[r].agent, run[r].by, "release", "none"))
    /\ UNCHANGED <<lock, ready, due, open, reports, shared>>

\* ReleaseCognitiveLock; the run is over.
Release(r) ==
    /\ At(r, "release")
    /\ lock' = IF lock # run[r].agent THEN lock ELSE IF paused THEN PAUSED ELSE NoLock
    /\ Set(r, NoRun)
    /\ UNCHANGED <<ready, entry, sentry, due, open, reports, shared>>

-----------------------------------------------------------------------------
(* RunCognitiveLoop.                                                       *)

Loop(r, new) ==
    Set(r, new) /\ UNCHANGED <<lock, ready, entry, sentry, due, open, reports, shared>>

\* Variant: one attempt too many.
LeftOneMore(r) == At(r, "loop") /\ run[r].attempts <= MaxRetries

Left(r) == At(r, "loop") /\ run[r].attempts < MaxRetries

\* Variant: a failed call is not an attempt.
ChatFailsUncounted(r) == Left(r) /\ Loop(r, [run[r] EXCEPT !.err = TRUE])

\* The model does not answer.
ChatFails(r) ==
    Left(r) /\ Loop(r, [run[r] EXCEPT !.err = TRUE, !.attempts = @ + 1])

\* Syntax first: markdown, contradicting sections, JSON.
SyntaxRejected(r) == Left(r) /\ Loop(r, [run[r] EXCEPT !.attempts = @ + 1])

\* The reports are parsed, and schema or logic rejects them, or there is none.
ReportsRejected(r) ==
    Left(r) /\ \E found \in {"none", "rejected"} :
        Loop(r, [run[r] EXCEPT !.attempts = @ + 1, !.results = found])

\* The reports pass, or a stop token makes the checks pass over them.  An
\* error of an earlier attempt is returned along with them.
Accepted(r) ==
    Left(r) /\ \E found \in {"none", "accepted"} :
        Loop(r, [run[r] EXCEPT !.results = found, !.pc = "judge"])

\* Variant: rejections are no error.
GiveUpSilently(r) ==
    At(r, "loop") /\ run[r].attempts = MaxRetries /\ Loop(r, [run[r] EXCEPT !.pc = "judge"])

\* All attempts are used up: an error, and the results of the last one.
GiveUp(r) ==
    /\ At(r, "loop") /\ run[r].attempts = MaxRetries
    /\ Loop(r, [run[r] EXCEPT !.err = TRUE, !.pc = "judge"])

Attempt(r) ==
    ChatFails(r) \/ SyntaxRejected(r) \/ ReportsRejected(r) \/ Accepted(r) \/ GiveUp(r)

Fresh(h) == [h EXCEPT !.attempts = 0, !.err = FALSE, !.results = "none"]
Ask(h)   == [Fresh(h) EXCEPT !.pc = "loop"]

-----------------------------------------------------------------------------
(* Guardian and courier.                                                   *)

\* PerformAnalysis: the outcome is recorded, and the report posted if there is
\* no error.
GuardianJudge(r) ==
    /\ AtOf(r, "judge", "guardian")
    /\ To(r, IF run[r].err THEN "end" ELSE "emit")
    /\ UNCHANGED <<lock, ready, entry, sentry, due, open, reports, shared>>
\* The report, and another alert for major issues.
GuardianEmit(r) ==
    /\ AtOf(r, "emit", "guardian")
    /\ ready' = ready \ {"guardian"}
    /\ To(r, "end")
    /\ UNCHANGED <<lock, entry, sentry, due, open, reports, shared>>

\* PerformResearch: the chores that were due at the start, one by one; with
\* none reported the waterfall stops.
CourierPick(r) ==
    /\ AtOf(r, "pick", "courier")
    /\ \/ \E c \in run[r].todo :
             /\ Report("courier")
             /\ Set(r, [run[r] EXCEPT !.pc = "search", !.chore = c, !.todo = @ \ {c}])
             /\ UNCHANGED ready
       \/ /\ run[r].todo = {} /\ run[r].found
          /\ ready' = ready \ {"courier"}
          /\ Report("courier")
          /\ Set(r, [run[r] EXCEPT !.pc = "compress", !.tier = "compressor"])
       \/ /\ run[r].todo = {} /\ ~run[r].found
          /\ To(r, "end")
          /\ UNCHANGED <<ready, entry>>
    /\ UNCHANGED <<lock, sentry, due, open, reports, shared>>

\* MarkRun of a chore (Records has its steps).
Marked(c) == due' = due \ {c}

\* executeTask: without any source the chore is put off, else a report is asked for.
CourierSearch(r) ==
    /\ AtOf(r, "search", "courier")
    /\ Report("courier")
    /\ \/ Marked(run[r].chore) /\ Set(r, [run[r] EXCEPT !.pc = "pick", !.chore = NoChore])
       \/ Set(r, Ask(run[r])) /\ UNCHANGED due
    /\ UNCHANGED <<lock, ready, sentry, open, reports, shared>>

CourierJudge(r) ==
    /\ AtOf(r, "judge", "courier")
    /\ IF ~run[r].err /\ run[r].results # "none"
       THEN To(r, "deliver")
       ELSE Set(r, [Fresh(run[r]) EXCEPT !.pc = "pick", !.chore = NoChore])
    /\ UNCHANGED <<lock, ready, entry, sentry, due, open, reports, shared>>

\* Variant: after an error the chore is delivered once more.
CourierDeliverRetried(r) ==
    /\ AtOf(r, "deliver", "courier")
    /\ reports' = [reports EXCEPT ![run[r].chore] = IF @ = 2 THEN 2 ELSE @ + 1]
    /\ To(r, "mark") \/ To(r, "deliver")
    /\ UNCHANGED <<lock, ready, entry, sentry, due, open, shared>>

\* To all recipients; errors are logged.
CourierDeliver(r) ==
    /\ AtOf(r, "deliver", "courier")
    /\ reports' = [reports EXCEPT ![run[r].chore] = IF @ = 2 THEN 2 ELSE @ + 1]
    /\ To(r, "mark")
    /\ UNCHANGED <<lock, ready, entry, sentry, due, open, shared>>

CourierMark(r) ==
    /\ AtOf(r, "mark", "courier")
    /\ Marked(run[r].chore)
    /\ Set(r, [Fresh(run[r]) EXCEPT !.pc = "pick", !.chore = NoChore, !.found = TRUE])
    /\ UNCHANGED <<lock, ready, entry, sentry, open, reports, shared>>

\* PerformCompression starts a summary per channel (Records) and does not wait.
CourierCompress(r) ==
    /\ AtOf(r, "compress", "courier")
    /\ ready' = ready \ {"courier"}
    /\ To(r, "end")
    /\ UNCHANGED <<lock, entry, sentry, due, open, reports, shared>>

-----------------------------------------------------------------------------
(* Fabricator: alerts become an issue, the oldest open issue is            *)
(* investigated, fixed and closed, and every run ends with the reporter.   *)

ToProtocol(r, pc) ==
    /\ ready' = ready \ {"fabricator"}
    /\ Report("fabricator")
    /\ Set(r, [run[r] EXCEPT !.pc = pc, !.tier = pc])

Finalize(r) ==
    /\ Report("fabricator")
    /\ Set(r, [run[r] EXCEPT !.pc = "report", !.tier = "reporter", !.issue = NoIssue])
    /\ UNCHANGED ready

\* Without alerts, without an answer, or with nothing worth an issue the run
\* ends here, open issues or not.
FabricatorReview(r) ==
    /\ AtOf(r, "review", "fabricator")
    /\ \/ Finalize(r) /\ UNCHANGED open
       \/ /\ \E i \in Issues : open' = open \union {i}
          /\ ToProtocol(r, "issue")
    /\ UNCHANGED <<lock, sentry, due, reports, shared>>

FabricatorIssue(r) ==
    /\ AtOf(r, "issue", "fabricator")
    /\ \/ Finalize(r) /\ UNCHANGED open
       \/ \E i \in open :
             \/ open' = open \ {i} /\ Finalize(r)
             \/ /\ ready' = ready \ {"fabricator"}
                /\ Report("fabricator")
                /\ Set(r, [run[r] EXCEPT !.pc = "construct", !.tier = "construct", !.issue = i])
                /\ UNCHANGED open
    /\ UNCHANGED <<lock, sentry, due, reports, shared>>

\* A mocked construction succeeds and leaves the issue open.
FabricatorConstruct(r) ==
    /\ AtOf(r, "construct", "fabricator")
    /\ \/ Finalize(r) /\ UNCHANGED open
       \/ /\ open' \in {open, open \ {run[r].issue}}
          /\ Report("fabricator")
          /\ To(r, "deploy")
          /\ UNCHANGED ready
    /\ UNCHANGED <<lock, sentry, due, reports, shared>>

\* `dex build' commits and pushes, or fails.
FabricatorDeploy(r) ==
    /\ AtOf(r, "deploy", "fabricator")
    /\ ready' = ready \ {"fabricator"}
    /\ Report("fabricator")
    /\ Set(r, [run[r] EXCEPT !.pc = "report", !.tier = "reporter", !.issue = NoIssue])
    /\ UNCHANGED <<lock, sentry, due, open, reports, shared>>

\* finalizeRun: the summary of the run, if the model answers.
FabricatorReport(r) ==
    /\ AtOf(r, "report", "fabricator")
    /\ ready' \in {ready, ready \ {"fabricator"}}
    /\ To(r, "end")
    /\ UNCHANGED <<lock, entry, sentry, due, open, reports, shared>>

-----------------------------------------------------------------------------
(* Analyzer.                                                               *)

\* PerformSummary and PerformSynthesis: the users one by one.  One who is cooling
\* down or about whom nothing is known is passed over.  A run that summarized
\* nobody ends; the triggered one ends without clearing its process.
AnalyzerPick(r) ==
    /\ AtOf(r, "pick", "analyzer")
    /\ \/ \E u \in run[r].todo :
             LET h == [run[r] EXCEPT !.todo = @ \ {u}]
             IN  /\ \/ Set(r, h) /\ UNCHANGED entry
                    \/ Set(r, h) /\ Report("analyzer")
                    \/ Set(r, Ask(h)) /\ Report("analyzer")
                 /\ UNCHANGED ready
       \/ /\ run[r].todo = {} /\ run[r].tier = "summary" /\ run[r].found
          /\ ready' = ready \ {"analyzer"}
          /\ Report("analyzer")
          /\ Set(r, [run[r] EXCEPT !.tier = "synthesis", !.todo = Users, !.found = FALSE])
       \/ /\ run[r].todo = {} /\ (run[r].tier = "synthesis" \/ ~run[r].found)
          /\ IF run[r].by = "http" THEN Set(r, NoRun) ELSE To(r, "end")
          /\ UNCHANGED <<ready, entry>>
    /\ UNCHANGED <<lock, sentry, due, open, reports, shared>>

\* What is kept of an answer is in Records.
AnalyzerJudge(r) ==
    /\ AtOf(r, "judge", "analyzer")
    /\ Set(r, [Fresh(run[r]) EXCEPT !.pc = "pick",
                             !.found = @ \/ (~run[r].err /\ run[r].results # "none")])
    /\ UNCHANGED <<lock, ready, entry, sentry, due, open, reports, shared>>

Step(r) ==
    \/ Claim(r) \/ Acquire(r) \/ Begin(r) \/ End(r) \/ Release(r) \/ Attempt(r)
    \/ GuardianJudge(r) \/ GuardianEmit(r)
    \/ CourierPick(r) \/ CourierSearch(r) \/ CourierJudge(r) \/ CourierDeliver(r)
    \/ CourierMark(r) \/ CourierCompress(r)
    \/ FabricatorReview(r) \/ FabricatorIssue(r) \/ FabricatorConstruct(r)
    \/ FabricatorDeploy(r) \/ FabricatorReport(r)
    \/ AnalyzerPick(r) \/ AnalyzerJudge(r)

-----------------------------------------------------------------------------
(* Around the runs.                                                        *)

\* The cooldowns of an agent are over, or were reset over HTTP.
Cool(a) ==
    /\ starts < MaxStarts
    /\ ready' = ready \union {a}
    /\ UNCHANGED <<lock, paused, chat, entry, sentry, due, open, run, reports, shared,
                   starts, restarts>>

\* isTaskDue: the interval since the last run has passed.
Due(c) ==
    /\ starts < MaxStarts /\ c \notin due
    /\ due' = due \union {c}
    /\ reports' = [reports EXCEPT ![c] = 0]
    /\ UNCHANGED <<lock, paused, chat, ready, entry, sentry, open, run, shared,
                   starts, restarts>>

\* A reply takes the lock when it is free; its steps are in MessageHandling.
ChatBegin ==
    /\ ~chat /\ lock \in {NoLock, PAUSED} /\ starts < MaxStarts
    /\ lock' = "chat" /\ chat' = TRUE /\ starts' = starts + 1
    /\ UNCHANGED <<paused, ready, entry, sentry, due, open, run, reports, shared, restarts>>

ChatEnd ==
    /\ chat
    /\ chat' = FALSE
    /\ lock' = IF lock # "chat" THEN lock ELSE IF paused THEN PAUSED ELSE NoLock
    /\ UNCHANGED <<paused, ready, entry, sentry, due, open, run, reports, shared, starts,
                   restarts>>

\* Only an idle system is paused; whoever waits for the lock overrides it.
Pause ==
    /\ ~paused /\ ~chat /\ \A a \in Names : entry[a] = "none"
    /\ paused' = TRUE /\ lock' = PAUSED
    /\ UNCHANGED <<chat, ready, entry, sentry, due, open, run, reports, shared, starts,
                   restarts>>

Resume ==
    /\ paused
    /\ paused' = FALSE
    /\ lock' = IF lock = PAUSED THEN NoLock ELSE lock
    /\ UNCHANGED <<chat, ready, entry, sentry, due, open, run, reports, shared, starts,
                   restarts>>

\* The TTL of a held lock.
Expire ==
    /\ lock \notin {NoLock, PAUSED}
    /\ lock' = NoLock
    /\ UNCHANGED <<paused, chat, ready, entry, sentry, due, open, run, reports, shared,
                   starts, restarts>>

\* The TTL of a process, a day, is longer than any run.
EntryExpire(a) ==
    /\ entry[a] # "none" /\ RunsOf(a) = {}
    /\ entry' = [entry EXCEPT ![a] = "none"]
    /\ UNCHANGED <<lock, paused, chat, ready, sentry, due, open, run, reports, shared,
                   starts, restarts>>

\* performStartupCleanup: active processes are forgotten, queued ones are not.
Restart(left) ==
    /\ restarts < MaxRestarts /\ restarts' = restarts + 1
    /\ run' = [r \in Runs |-> NoRun]
    /\ entry' = [a \in Names |-> IF left[a] = "queued" THEN "queued" ELSE "none"]
    /\ sentry' = FALSE
    /\ chat' \in {FALSE, chat}
    /\ UNCHANGED <<lock, paused, ready, due, open, reports, shared, starts>>

Crash    == Restart(entry)
\* CloseExecutor clears the process of every agent first.
Shutdown == Restart([a \in Names |-> "none"])

Tick    == GuardianTick \/ CourierTick \/ FabricatorTick \/ AnalyzerTick
Trigger == GuardianTrigger \/ FabricatorTrigger \/ AnalyzerTrigger \/ CourierTrigger

Next ==
    \/ Tick \/ Trigger
    \/ \E r \in Runs : Step(r)
    \/ \E a \in Names : Cool(a) \/ EntryExpire(a)
    \/ \E c \in Chores : Due(c)
    \/ ChatBegin \/ ChatEnd \/ Pause \/ Resume \/ Expire \/ Crash \/ Shutdown

Spec == Init /\ [][Next]_vars

-----------------------------------------------------------------------------
(* Properties.                                                             *)

\* An agent that shows as active, or a guardian with a tier, has a run at work:
\* a stale one would keep every other agent, or the guardian itself, from
\* running, and the chat from answering (base.go:24, "checks if the system is
\* currently processing tasks").  The triggered synthesis of the analyzer is the
\* exception: it reports the process, and nobody clears it.
EntryHasRun ==
    /\ \A a \in Names \ {"analyzer"} : entry[a] = "active" => RunsOf(a) # {}
    /\ sentry => RunsOf("guardian") # {}

\* Nothing that the checks of the cognitive loop rejected is posted: the loop
\* returns the last rejected results too, only its error tells them apart.
OnlyValidated ==
    \A r \in Runs :
        At(r, "deliver") \/ At(r, "emit") => ~run[r].err /\ run[r].results # "rejected"

\* Unless two waterfalls of the courier overlapped or the service was restarted
\* in between, what is due is delivered once.
OncePerDue == ~shared /\ restarts = 0 => \A c \in Chores : reports[c] <= 1

\* An upper bound of the steps that a run has left: a turn is what a chore or a
\* user takes, and the summary is followed by the synthesis of all users.
StepsLeft(h) ==
    LET turn    == MaxRetries + 6
        batches == turn * Cardinality(Chores \union Users)
        todo    == turn * Cardinality(h.todo) + IF h.tier = "summary" THEN batches + 1 ELSE 0
        start   == 2 * batches + turn + 5
    IN  CASE h.pc = "release" -> 1
          [] h.pc = "end" -> 2
          [] h.pc \in {"compress", "report", "emit"} -> 3
          [] h.pc = "deploy" -> 4
          [] h.pc = "construct" -> 5
          [] h.pc = "issue" -> 6
          [] h.pc = "review" -> 7
          [] h.pc = "pick" -> todo + 4
          [] h.pc = "mark" -> todo + 5
          [] h.pc = "deliver" -> todo + 6
          [] h.pc = "judge" -> todo + 7
          [] h.pc = "loop" -> todo + 8 + MaxRetries - h.attempts
          [] h.pc = "search" -> todo + 9 + MaxRetries
          [] h.pc = "begin" -> start
          [] h.pc = "queued" -> start + 1
          [] h.pc = "lock" -> start + 2
          [] OTHER -> start + 3

\* Every step of a run brings it closer to its end, whatever the model and the
\* services answer: a waterfall has no way back, and failed calls and rejected
\* answers count as attempts alike.
NoWayBack ==
    [][\A r \in Runs : run[r] # NoRun /\ run'[r] \notin {run[r], NoRun} =>
          StepsLeft(run'[r]) < StepsLeft(run[r])]_vars
=============================================================================
