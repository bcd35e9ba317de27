----------------------------- MODULE AgentsProofs -----------------------------
(***************************************************************************)
(* Proofs about the background agents, for any number of runs, chores,     *)
(* users, issues and attempts.                                             *)
(***************************************************************************)
EXTENDS Agents, FiniteSetTheorems, TLAPS

Pcs == {"claim", "lock", "queued", "begin", "loop", "judge", "emit", "pick",
        "search", "deliver", "mark", "compress", "review", "issue", "construct",
        "deploy", "report", "end", "release"}
Tiers == Protocols \union {"none"}
Todos == SUBSET (Chores \union Users)

-----------------------------------------------------------------------------
(* Type correctness.                                                       *)

LEMMA RunIs ==
    Run = [agent: Names, by: {"tick", "http"}, pc: Pcs, tier: Tiers,
           attempts: 0 .. MaxRetries, err: BOOLEAN,
           results: {"none", "rejected", "accepted"},
           todo: Todos, chore: Chores \union {NoChore}, found: BOOLEAN,
           issue: Issues \union {NoIssue}]
BY DEF Run, Pcs, Tiers, Todos

LEMMA RunFields ==
    ASSUME NEW h \in Run
    PROVE  /\ h # NoRun
           /\ h.agent \in Names /\ h.by \in {"tick", "http"} /\ h.pc \in Pcs /\ h.tier \in Tiers
           /\ h.attempts \in 0 .. MaxRetries /\ h.err \in BOOLEAN
           /\ h.results \in {"none", "rejected", "accepted"}
           /\ h.todo \subseteq Chores \union Users /\ h.chore \in Chores \union {NoChore}
           /\ h.found \in BOOLEAN /\ h.issue \in Issues \union {NoIssue}
BY RunAssumption DEF Run, Pcs, Tiers

\* A run with these values in the fields that matter.
Has(h, a, pc, tier, todo, attempts, err, results) ==
    /\ h \in Run
    /\ h.agent = a /\ h.pc = pc /\ h.tier = tier /\ h.todo = todo
    /\ h.attempts = attempts /\ h.err = err /\ h.results = results

Like(h, new, pc) ==
    Has(new, h.agent, pc, h.tier, h.todo, h.attempts, h.err, h.results)

LEMMA StartedType ==
    ASSUME NEW a \in Names, NEW by \in {"tick", "http"}, NEW pc \in Pcs, NEW tier \in Tiers
    PROVE  Has(Started(a, by, pc, tier), a, pc, tier, {}, 0, FALSE, "none")
<1>1. 0 \in 0 .. MaxRetries BY AgentsAssumption
<1> QED BY <1>1 DEF Run, Started, Pcs, Tiers, Has

LEMMA PcEdit ==
    ASSUME NEW h \in Run, NEW pc \in Pcs
    PROVE  Like(h, [h EXCEPT !.pc = pc], pc)
BY RunIs DEF Like, Has

LEMMA TierEdit ==
    ASSUME NEW h \in Run, NEW pc \in Pcs, NEW tier \in Tiers
    PROVE  Has([h EXCEPT !.pc = pc, !.tier = tier],
               h.agent, pc, tier, h.todo, h.attempts, h.err, h.results)
BY RunIs DEF Has

LEMMA BeginEdit ==
    ASSUME NEW h \in Run, NEW pc \in Pcs, NEW tier \in Tiers, NEW todo \in Todos
    PROVE  Has([h EXCEPT !.pc = pc, !.tier = tier, !.todo = todo],
               h.agent, pc, tier, todo, h.attempts, h.err, h.results)
BY RunIs DEF Has

LEMMA IssueEdit ==
    ASSUME NEW h \in Run, NEW pc \in Pcs, NEW tier \in Tiers, NEW i \in Issues \union {NoIssue}
    PROVE  Has([h EXCEPT !.pc = pc, !.tier = tier, !.issue = i],
               h.agent, pc, tier, h.todo, h.attempts, h.err, h.results)
BY RunIs DEF Has

LEMMA ChoreEdit ==
    ASSUME NEW h \in Run, NEW pc \in Pcs, NEW c \in Chores \union {NoChore}, NEW todo \in Todos
    PROVE  Has([h EXCEPT !.pc = pc, !.chore = c, !.todo = todo],
               h.agent, pc, h.tier, todo, h.attempts, h.err, h.results)
BY RunIs DEF Has

LEMMA NextChoreEdit ==
    ASSUME NEW h \in Run, NEW pc \in Pcs
    PROVE  /\ Like(h, [h EXCEPT !.pc = pc, !.chore = NoChore], pc)
           /\ Like(h, [h EXCEPT !.pc = pc, !.chore = NoChore, !.found = TRUE], pc)
BY RunIs DEF Like, Has

LEMMA FoundEdit ==
    ASSUME NEW h \in Run, NEW pc \in Pcs, NEW f \in BOOLEAN
    PROVE  Like(h, [h EXCEPT !.pc = pc, !.found = f], pc)
BY RunIs DEF Like, Has

LEMMA TodoEdit ==
    ASSUME NEW h \in Run, NEW todo \in Todos
    PROVE  Has([h EXCEPT !.todo = todo],
               h.agent, h.pc, h.tier, todo, h.attempts, h.err, h.results)
BY RunIs DEF Has

LEMMA SynthesisEdit ==
    ASSUME NEW h \in Run, NEW tier \in Tiers, NEW todo \in Todos
    PROVE  Has([h EXCEPT !.tier = tier, !.todo = todo, !.found = FALSE],
               h.agent, h.pc, tier, todo, h.attempts, h.err, h.results)
BY RunIs DEF Has

LEMMA FreshEdit ==
    ASSUME NEW h \in Run
    PROVE  /\ Has(Fresh(h), h.agent, h.pc, h.tier, h.todo, 0, FALSE, "none")
           /\ Has(Ask(h), h.agent, "loop", h.tier, h.todo, 0, FALSE, "none")
<1>1. 0 \in 0 .. MaxRetries BY AgentsAssumption
<1>2. Has(Fresh(h), h.agent, h.pc, h.tier, h.todo, 0, FALSE, "none")
    BY <1>1, RunIs DEF Fresh, Has
<1>3. Like(Fresh(h), [Fresh(h) EXCEPT !.pc = "loop"], "loop")
    BY <1>2, PcEdit DEF Has, Pcs
<1> QED BY <1>2, <1>3 DEF Ask, Like, Has

\* A loop is left behind, and the next task is looked for.
LEMMA LeaveEdit ==
    ASSUME NEW h \in Run, NEW f \in BOOLEAN
    PROVE  /\ Has([Fresh(h) EXCEPT !.pc = "pick", !.chore = NoChore],
                  h.agent, "pick", h.tier, h.todo, 0, FALSE, "none")
           /\ Has([Fresh(h) EXCEPT !.pc = "pick", !.chore = NoChore, !.found = TRUE],
                  h.agent, "pick", h.tier, h.todo, 0, FALSE, "none")
           /\ Has([Fresh(h) EXCEPT !.pc = "pick", !.found = f],
                  h.agent, "pick", h.tier, h.todo, 0, FALSE, "none")
<1> DEFINE g == Fresh(h)
<1>1. Has(g, h.agent, h.pc, h.tier, h.todo, 0, FALSE, "none") BY FreshEdit
<1>2. "pick" \in Pcs BY DEF Pcs
<1> HIDE DEF g
<1>3. g \in Run BY <1>1 DEF Has
<1>4. /\ Like(g, [g EXCEPT !.pc = "pick", !.chore = NoChore], "pick")
      /\ Like(g, [g EXCEPT !.pc = "pick", !.chore = NoChore, !.found = TRUE], "pick")
      /\ Like(g, [g EXCEPT !.pc = "pick", !.found = f], "pick")
    BY <1>2, <1>3, NextChoreEdit, FoundEdit
<1>5. /\ Has([g EXCEPT !.pc = "pick", !.chore = NoChore],
             h.agent, "pick", h.tier, h.todo, 0, FALSE, "none")
      /\ Has([g EXCEPT !.pc = "pick", !.chore = NoChore, !.found = TRUE],
             h.agent, "pick", h.tier, h.todo, 0, FALSE, "none")
      /\ Has([g EXCEPT !.pc = "pick", !.found = f],
             h.agent, "pick", h.tier, h.todo, 0, FALSE, "none")
    BY <1>1, <1>4 DEF Like, Has
<1> QED BY <1>5 DEF g

LEMMA LoopEdits ==
    ASSUME NEW h \in Run, NEW res \in {"none", "rejected", "accepted"}
    PROVE  /\ h.attempts < MaxRetries =>
                 /\ Has([h EXCEPT !.attempts = @ + 1],
                        h.agent, h.pc, h.tier, h.todo, h.attempts + 1, h.err, h.results)
                 /\ Has([h EXCEPT !.err = TRUE, !.attempts = @ + 1],
                        h.agent, h.pc, h.tier, h.todo, h.attempts + 1, TRUE, h.results)
                 /\ Has([h EXCEPT !.attempts = @ + 1, !.results = res],
                        h.agent, h.pc, h.tier, h.todo, h.attempts + 1, h.err, res)
           /\ Has([h EXCEPT !.results = res, !.pc = "judge"],
                  h.agent, "judge", h.tier, h.todo, h.attempts, h.err, res)
           /\ Has([h EXCEPT !.err = TRUE, !.pc = "judge"],
                  h.agent, "judge", h.tier, h.todo, h.attempts, TRUE, h.results)
<1>1. h.attempts < MaxRetries => h.attempts + 1 \in 0 .. MaxRetries
    BY AgentsAssumption, RunFields
<1>2. h.attempts < MaxRetries =>
          Has([h EXCEPT !.attempts = @ + 1],
              h.agent, h.pc, h.tier, h.todo, h.attempts + 1, h.err, h.results)
    BY <1>1, RunIs DEF Has
<1>3. h.attempts < MaxRetries =>
          Has([h EXCEPT !.err = TRUE, !.attempts = @ + 1],
              h.agent, h.pc, h.tier, h.todo, h.attempts + 1, TRUE, h.results)
    BY <1>1, RunIs DEF Has
<1>4. h.attempts < MaxRetries =>
          Has([h EXCEPT !.attempts = @ + 1, !.results = res],
              h.agent, h.pc, h.tier, h.todo, h.attempts + 1, h.err, res)
    BY <1>1, RunIs DEF Has
<1>5. Has([h EXCEPT !.results = res, !.pc = "judge"],
          h.agent, "judge", h.tier, h.todo, h.attempts, h.err, res)
    BY RunIs DEF Has, Pcs
<1>6. Has([h EXCEPT !.err = TRUE, !.pc = "judge"],
          h.agent, "judge", h.tier, h.todo, h.attempts, TRUE, h.results)
    BY RunIs DEF Has, Pcs
<1> QED BY <1>2, <1>3, <1>4, <1>5, <1>6

-----------------------------------------------------------------------------
(* The steps that a run has left.                                          *)

Turn     == MaxRetries + 6
Count(S) == Turn * Cardinality(S)
All      == Count(Chores \union Users)
Rest(h)  == Count(h.todo) + IF h.tier = "summary" THEN All + 1 ELSE 0

LEMMA CountFacts ==
    /\ Count({}) = 0
    /\ \A S \in Todos : Count(S) \in Nat /\ Count(S) <= All
    /\ \A S \in Todos : \A x \in S : S \ {x} \in Todos /\ Count(S \ {x}) + Turn = Count(S)
<1>1. Turn \in Nat BY AgentsAssumption DEF Turn
<1>2. Count({}) = 0
    BY <1>1, FS_EmptySet DEF Count
<1>3. IsFiniteSet(Chores \union Users) BY AgentsAssumption
<1>4. ASSUME NEW S \in Todos
      PROVE  /\ IsFiniteSet(S) /\ Cardinality(S) \in Nat
             /\ Cardinality(S) <= Cardinality(Chores \union Users)
             /\ Cardinality(Chores \union Users) \in Nat
    BY <1>3, FS_Subset, FS_CardinalityType DEF Todos
<1>5. ASSUME NEW m \in Nat, NEW n \in Nat, m <= n
      PROVE  Turn * m \in Nat /\ Turn * m <= Turn * n
    BY <1>1, <1>5
<1>6. ASSUME NEW n \in Nat PROVE Turn * (n - 1) + Turn = Turn * n
    BY <1>1
<1>7. ASSUME NEW S \in Todos, NEW x \in S
      PROVE  S \ {x} \in Todos /\ Count(S \ {x}) + Turn = Count(S)
    <2>1. Cardinality(S \ {x}) = Cardinality(S) - 1
        BY <1>4, FS_RemoveElement
    <2>2. Count(S \ {x}) = Turn * (Cardinality(S) - 1) BY <2>1 DEF Count
    <2> QED BY <1>4, <1>6, <2>2 DEF Count, Todos
<1> QED BY <1>2, <1>4, <1>5, <1>7 DEF Count, All

LEMMA RestType ==
    ASSUME NEW h \in Run
    PROVE  Rest(h) \in Nat /\ Count(h.todo) \in Nat /\ All \in Nat /\ Rest(h) <= 2 * All + 1
<1>1. h.todo \in Todos BY RunIs
<1>2. Chores \union Users \in Todos BY DEF Todos
<1>3. All \in Nat BY <1>2, CountFacts DEF All
<1> QED BY <1>1, <1>3, CountFacts DEF Rest

LEMMA StepsAre ==
    ASSUME NEW h \in Run
    PROVE  /\ h.pc = "release" => StepsLeft(h) = 1
           /\ h.pc = "end" => StepsLeft(h) = 2
           /\ h.pc \in {"compress", "report", "emit"} => StepsLeft(h) = 3
           /\ h.pc = "deploy" => StepsLeft(h) = 4
           /\ h.pc = "construct" => StepsLeft(h) = 5
           /\ h.pc = "issue" => StepsLeft(h) = 6
           /\ h.pc = "review" => StepsLeft(h) = 7
           /\ h.pc = "pick" => StepsLeft(h) = Rest(h) + 4
           /\ h.pc = "mark" => StepsLeft(h) = Rest(h) + 5
           /\ h.pc = "deliver" => StepsLeft(h) = Rest(h) + 6
           /\ h.pc = "judge" => StepsLeft(h) = Rest(h) + 7
           /\ h.pc = "loop" => StepsLeft(h) = Rest(h) + 8 + MaxRetries - h.attempts
           /\ h.pc = "search" => StepsLeft(h) = Rest(h) + 9 + MaxRetries
           /\ h.pc = "begin" => StepsLeft(h) = 2 * All + Turn + 5
           /\ h.pc = "queued" => StepsLeft(h) = 2 * All + Turn + 6
           /\ h.pc = "lock" => StepsLeft(h) = 2 * All + Turn + 7
           /\ h.pc = "claim" => StepsLeft(h) = 2 * All + Turn + 8
<1>1. MaxRetries \in Nat /\ Turn = MaxRetries + 6 /\ Turn \in Nat BY AgentsAssumption DEF Turn
<1>2. Rest(h) \in Nat /\ All \in Nat /\ h.attempts \in Nat
    BY RestType, RunFields, <1>1
<1>3. /\ Rest(h) = (MaxRetries + 6) * Cardinality(h.todo)
                   + IF h.tier = "summary"
                     THEN (MaxRetries + 6) * Cardinality(Chores \union Users) + 1 ELSE 0
      /\ All = (MaxRetries + 6) * Cardinality(Chores \union Users)
    BY DEF Rest, All, Count, Turn
<1> HIDE DEF Rest, All, Count, Turn
<1>4. h.pc = "loop" => StepsLeft(h) = Rest(h) + 8 + MaxRetries - h.attempts
    BY <1>3 DEF StepsLeft
<1>5. h.pc = "begin" => StepsLeft(h) = 2 * All + (MaxRetries + 6) + 5 BY <1>3 DEF StepsLeft
<1>6. h.pc = "queued" => StepsLeft(h) = 2 * All + (MaxRetries + 6) + 5 + 1 BY <1>3 DEF StepsLeft
<1>7. h.pc = "lock" => StepsLeft(h) = 2 * All + (MaxRetries + 6) + 5 + 2 BY <1>3 DEF StepsLeft
<1>8. h.pc = "claim" => StepsLeft(h) = 2 * All + (MaxRetries + 6) + 5 + 3 BY <1>3 DEF StepsLeft
<1>9. /\ h.pc = "pick" => StepsLeft(h) = Rest(h) + 4
      /\ h.pc = "mark" => StepsLeft(h) = Rest(h) + 5
      /\ h.pc = "deliver" => StepsLeft(h) = Rest(h) + 6
      /\ h.pc = "judge" => StepsLeft(h) = Rest(h) + 7
      /\ h.pc = "search" => StepsLeft(h) = Rest(h) + 9 + MaxRetries
    BY <1>3 DEF StepsLeft
<1>10. /\ h.pc = "release" => StepsLeft(h) = 1
       /\ h.pc = "end" => StepsLeft(h) = 2
       /\ h.pc \in {"compress", "report", "emit"} => StepsLeft(h) = 3
       /\ h.pc = "deploy" => StepsLeft(h) = 4
       /\ h.pc = "construct" => StepsLeft(h) = 5
       /\ h.pc = "issue" => StepsLeft(h) = 6
       /\ h.pc = "review" => StepsLeft(h) = 7
    BY DEF StepsLeft
<1> QED BY <1>1, <1>2, <1>4, <1>5, <1>6, <1>7, <1>8, <1>9, <1>10

-----------------------------------------------------------------------------
(* What a step makes of its run.                                           *)

\* Rejected results are told apart by the error alone.
Valid(h) ==
    /\ h.pc = "judge" => h.err \/ h.results # "rejected"
    /\ h.pc \in {"deliver", "emit"} => ~h.err /\ h.results # "rejected"

\* A courier's tasks are chores.
Own(h) == h.agent = "courier" => h.todo \subseteq Chores

Good(h, new) ==
    /\ new \in Run
    /\ new.agent = h.agent
    /\ new.pc = "release" => h.pc = "end"
    /\ Valid(h) => Valid(new)
    /\ Own(h) => Own(new)
    /\ StepsLeft(new) < StepsLeft(h)

Advances(r) ==
    /\ run[r] \in Run
    /\ \E new \in Run \union {NoRun} :
          /\ run' = [run EXCEPT ![r] = new]
          /\ new # NoRun => Good(run[r], new)
          /\ new = NoRun => run[r].pc = "release" \/ run[r].agent = "analyzer"
    /\ UNCHANGED <<paused, chat, starts, restarts>>

LEMMA SetAdvances ==
    ASSUME NEW r \in Runs, run[r] \in Run, NEW new, Good(run[r], new), Set(r, new)
    PROVE  Advances(r)
BY RunFields DEF Advances, Set, Good

LEMMA GoneAdvances ==
    ASSUME NEW r \in Runs, run[r] \in Run, Set(r, NoRun),
           run[r].pc = "release" \/ run[r].agent = "analyzer"
    PROVE  Advances(r)
BY DEF Advances, Set

\* A run that goes on to a place with fewer steps left.
LEMMA ToAdvances ==
    ASSUME NEW r \in Runs, run[r] \in Run, NEW pc \in Pcs, To(r, pc),
           pc = "release" => run[r].pc = "end",
           pc = "judge" => run[r].err \/ run[r].results # "rejected",
           pc \in {"deliver", "emit"} => ~run[r].err /\ run[r].results # "rejected",
           StepsLeft([run[r] EXCEPT !.pc = pc]) < StepsLeft(run[r])
    PROVE  Advances(r)
<1> DEFINE new == [run[r] EXCEPT !.pc = pc]
<1>1. Like(run[r], new, pc) BY PcEdit
<1>2. Set(r, new) /\ StepsLeft(new) < StepsLeft(run[r]) BY DEF To
<1> HIDE DEF new
<1>3. Good(run[r], new) BY <1>1, <1>2 DEF Like, Has, Good, Valid, Own
<1> QED BY <1>2, <1>3, SetAdvances

LEMMA SamePlan ==
    ASSUME NEW h \in Run, NEW new, NEW pc \in Pcs, Like(h, new, pc)
    PROVE  new \in Run /\ Rest(new) = Rest(h)
BY DEF Like, Has, Rest

LEMMA ToSteps ==
    ASSUME NEW r \in Runs, run[r] \in Run, NEW pc \in Pcs
    PROVE  /\ [run[r] EXCEPT !.pc = pc] \in Run
           /\ [run[r] EXCEPT !.pc = pc].pc = pc
           /\ [run[r] EXCEPT !.pc = pc].attempts = run[r].attempts
           /\ Rest([run[r] EXCEPT !.pc = pc]) = Rest(run[r])
<1> DEFINE new == [run[r] EXCEPT !.pc = pc]
<1>1. Like(run[r], new, pc) BY PcEdit
<1> HIDE DEF new
<1>2. new \in Run /\ new.pc = pc /\ new.attempts = run[r].attempts /\ Rest(new) = Rest(run[r])
    BY <1>1, SamePlan DEF Like, Has
<1> QED BY <1>2 DEF new

\* The steps between tasks.
LEMMA SimpleSteps ==
    ASSUME TypeOK, NEW r \in Runs,
           \/ Claim(r) \/ Acquire(r) \/ Release(r) \/ GuardianJudge(r) \/ GuardianEmit(r)
           \/ CourierDeliver(r) \/ CourierCompress(r) \/ FabricatorReport(r)
    PROVE  Advances(r)
<1>0. run[r] \in Run
    BY DEF TypeOK, Claim, Acquire, Release, GuardianJudge, GuardianEmit, CourierDeliver,
           CourierCompress, FabricatorReport, At, AtOf
<1>t. Turn \in Nat /\ Rest(run[r]) \in Nat /\ All \in Nat
    BY <1>0, RestType, AgentsAssumption DEF Turn
<1> DEFINE e(pc) == [run[r] EXCEPT !.pc = pc]
<1>s. \A pc \in Pcs : e(pc) \in Run /\ e(pc).pc = pc /\ Rest(e(pc)) = Rest(run[r])
    BY <1>0, ToSteps
<1>a. \A pc \in Pcs : To(r, pc) /\ StepsLeft(e(pc)) < StepsLeft(run[r])
                      /\ pc \notin {"release", "judge", "deliver", "emit"} => Advances(r)
    BY <1>0, ToAdvances
<1> HIDE DEF e
<1>1. CASE Claim(r)
    <2>1. run[r].pc = "claim" /\ To(r, "lock") BY <1>1 DEF Claim, At
    <2>2. StepsLeft(e("lock")) < StepsLeft(run[r])
        BY <1>0, <1>s, <1>t, <2>1, StepsAre DEF Pcs
    <2> QED BY <1>a, <2>1, <2>2 DEF Pcs
<1>2. CASE Acquire(r)
    <2>1. \/ run[r].pc = "lock" /\ (To(r, "begin") \/ To(r, "queued"))
          \/ run[r].pc = "queued" /\ To(r, "begin")
        BY <1>2 DEF Acquire, At
    <2>2. /\ StepsLeft(e("begin")) < StepsLeft(run[r])
          /\ run[r].pc = "lock" => StepsLeft(e("queued")) < StepsLeft(run[r])
        BY <1>0, <1>s, <1>t, <2>1, StepsAre DEF Pcs
    <2> QED BY <1>a, <2>1, <2>2 DEF Pcs
<1>3. CASE Release(r)
    BY <1>0, <1>3, GoneAdvances DEF Release, At
<1>4. CASE GuardianJudge(r)
    <2>1. run[r].pc = "judge" /\ To(r, IF run[r].err THEN "end" ELSE "emit")
        BY <1>4 DEF GuardianJudge, At, AtOf
    <2>2. /\ StepsLeft(e("end")) < StepsLeft(run[r]) /\ StepsLeft(e("emit")) < StepsLeft(run[r])
        BY <1>0, <1>s, <1>t, <2>1, StepsAre DEF Pcs
    <2>3. CASE run[r].err
        BY <1>a, <2>1, <2>2, <2>3 DEF Pcs
    <2>4. CASE ~run[r].err
        <3>1. Like(run[r], e("emit"), "emit") BY <1>0, PcEdit DEF e, Pcs
        <3>2. Set(r, e("emit")) BY <2>1, <2>4 DEF e, To
        <3>3. Good(run[r], e("emit"))
            BY <2>1, <2>2, <2>4, <3>1 DEF Like, Has, Good, Valid, Own
        <3> QED BY <1>0, <3>2, <3>3, SetAdvances
    <2> QED BY <2>3, <2>4
<1>5. CASE GuardianEmit(r)
    <2>1. run[r].pc = "emit" /\ To(r, "end") BY <1>5 DEF GuardianEmit, At, AtOf
    <2>2. StepsLeft(e("end")) < StepsLeft(run[r])
        BY <1>0, <1>s, <1>t, <2>1, StepsAre DEF Pcs
    <2> QED BY <1>a, <2>1, <2>2 DEF Pcs
<1>6. CASE CourierDeliver(r)
    <2>1. run[r].pc = "deliver" /\ To(r, "mark") BY <1>6 DEF CourierDeliver, At, AtOf
    <2>2. StepsLeft(e("mark")) < StepsLeft(run[r])
        BY <1>0, <1>s, <1>t, <2>1, StepsAre DEF Pcs
    <2> QED BY <1>a, <2>1, <2>2 DEF Pcs
<1>7. CASE CourierCompress(r)
    <2>1. run[r].pc = "compress" /\ To(r, "end") BY <1>7 DEF CourierCompress, At, AtOf
    <2>2. StepsLeft(e("end")) < StepsLeft(run[r])
        BY <1>0, <1>s, <1>t, <2>1, StepsAre DEF Pcs
    <2> QED BY <1>a, <2>1, <2>2 DEF Pcs
<1>8. CASE FabricatorReport(r)
    <2>1. run[r].pc = "report" /\ To(r, "end") BY <1>8 DEF FabricatorReport, At, AtOf
    <2>2. StepsLeft(e("end")) < StepsLeft(run[r])
        BY <1>0, <1>s, <1>t, <2>1, StepsAre DEF Pcs
    <2> QED BY <1>a, <2>1, <2>2 DEF Pcs
<1> QED BY <1>1, <1>2, <1>3, <1>4, <1>5, <1>6, <1>7, <1>8

\* A run whose fields are known, and what it takes for them to be a good step.
LEMMA KnownAdvances ==
    ASSUME NEW r \in Runs, run[r] \in Run, NEW new, Set(r, new),
           NEW pc \in Pcs, NEW tier, NEW todo \in Todos, NEW attempts, NEW err, NEW results,
           Has(new, run[r].agent, pc, tier, todo, attempts, err, results),
           pc = "release" => run[r].pc = "end",
           Valid(run[r]) => /\ pc = "judge" => err \/ results # "rejected"
                            /\ pc \in {"deliver", "emit"} => ~err /\ results # "rejected",
           run[r].agent = "courier" => todo \subseteq run[r].todo \union Chores,
           StepsLeft(new) < StepsLeft(run[r])
    PROVE  Advances(r)
<1>1. Good(run[r], new) BY DEF Good, Has, Valid, Own
<1> QED BY <1>1, SetAdvances

LEMMA RestIs ==
    ASSUME NEW h \in Run
    PROVE  Rest(h) = Count(h.todo) + IF h.tier = "summary" THEN All + 1 ELSE 0
BY DEF Rest

LEMMA Bounds ==
    /\ Turn \in Nat /\ Turn = MaxRetries + 6 /\ MaxRetries \in Nat /\ All \in Nat
    /\ Chores \in Todos /\ Users \in Todos /\ {} \in Todos
<1>1. Chores \union Users \in Todos BY DEF Todos
<1>2. All \in Nat BY <1>1, CountFacts DEF All
<1> QED BY <1>2, AgentsAssumption DEF Turn, Todos

LEMMA BeginAdvances ==
    ASSUME TypeOK, NEW r \in Runs, Begin(r)
    PROVE  Advances(r)
<1>0. run[r] \in Run /\ run[r].pc = "begin" BY DEF Begin, At, TypeOK
<1>1. StepsLeft(run[r]) = 2 * All + Turn + 5 BY <1>0, StepsAre
<1>2. CASE To(r, "end")
    <2> DEFINE new == [run[r] EXCEPT !.pc = "end"]
    <2>1. new \in Run /\ new.pc = "end" BY <1>0, ToSteps DEF Pcs
    <2> HIDE DEF new
    <2>2. StepsLeft(new) < StepsLeft(run[r]) BY <1>1, <2>1, Bounds, StepsAre
    <2> QED BY <1>0, <1>2, <2>2, ToAdvances DEF Pcs, new
<1>3. CASE ~To(r, "end")
    <2> DEFINE a == run[r].agent
               todo == CASE a = "courier" -> due [] a = "analyzer" -> Users [] OTHER -> {}
               new == [run[r] EXCEPT !.pc = FirstPc(a), !.tier = FirstTier(r), !.todo = todo]
    <2>1. Set(r, new) BY <1>3 DEF Begin
    <2>2. FirstPc(a) \in {"loop", "pick", "review"} /\ FirstPc(a) \in Pcs BY DEF FirstPc, Pcs
    <2>3. FirstTier(r) \in Tiers
        BY <1>0, RunFields DEF FirstTier, Tiers, Protocols
    <2>4. todo \in Todos BY Bounds DEF TypeOK, Todos
    <2>5. Has(new, a, FirstPc(a), FirstTier(r), todo,
              run[r].attempts, run[r].err, run[r].results)
        BY <1>0, <2>2, <2>3, <2>4, BeginEdit
    <2>6. new \in Run /\ new.pc = FirstPc(a) BY <2>5 DEF Has
    <2>7. Rest(new) \in Nat /\ Rest(new) <= 2 * All + 1 BY <2>6, RestType
    <2>8. FirstPc(a) = "loop" => todo = {}
        <3>1. FirstPc(a) = "loop" => a = "guardian"
            BY <1>0, RunFields DEF FirstPc, Names
        <3> QED BY <3>1
    <2>9. a = "courier" => todo \subseteq Chores BY DEF TypeOK
    <2> HIDE DEF new, todo
    <2>10. new.attempts \in Nat BY <2>6, RunFields, AgentsAssumption
    <2>11. new.pc = "loop" => Rest(new) <= All + 1
        <3>1. SUFFICES ASSUME new.pc = "loop" PROVE Rest(new) <= All + 1
            OBVIOUS
        <3>2. new.todo = {} BY <2>5, <2>6, <2>8, <3>1 DEF Has
        <3>3. Count(new.todo) = 0 BY <3>2, CountFacts
        <3>4. Rest(new) = IF new.tier = "summary" THEN 0 + (All + 1) ELSE 0 + 0
            BY <3>3 DEF Rest
        <3> QED BY <3>4, Bounds
    <2>12. StepsLeft(new) < StepsLeft(run[r])
        BY <1>1, <2>2, <2>6, <2>7, <2>10, <2>11, Bounds, StepsAre
    <2> QED BY <1>0, <2>1, <2>2, <2>4, <2>5, <2>12, <2>9, KnownAdvances
<1> QED BY <1>2, <1>3

LEMMA EndAdvances ==
    ASSUME TypeOK, NEW r \in Runs, End(r)
    PROVE  Advances(r)
<1>0. run[r] \in Run /\ run[r].pc = "end" BY DEF End, At, TypeOK
<1> DEFINE new == Started(run[r].agent, run[r].by, "release", "none")
<1>1. Has(new, run[r].agent, "release", "none", {}, 0, FALSE, "none")
    BY <1>0, RunFields, StartedType DEF Pcs, Tiers
<1>2. Set(r, new) BY DEF End
<1> HIDE DEF new
<1>3. StepsLeft(new) < StepsLeft(run[r]) BY <1>0, <1>1, StepsAre DEF Has
<1> QED BY <1>0, <1>1, <1>2, <1>3, Bounds, KnownAdvances DEF Pcs

LEMMA LoopAdvances ==
    ASSUME NEW r \in Runs, run[r] \in Run, run[r].pc = "loop", NEW new, Set(r, new),
           NEW pc \in {"loop", "judge"}, NEW attempts, NEW err, NEW results,
           Has(new, run[r].agent, pc, run[r].tier, run[r].todo, attempts, err, results),
           pc = "loop" => attempts = run[r].attempts + 1 /\ run[r].attempts < MaxRetries,
           pc = "judge" => err \/ results # "rejected"
    PROVE  Advances(r)
<1>1. /\ StepsLeft(run[r]) = Rest(run[r]) + 8 + MaxRetries - run[r].attempts
      /\ Rest(run[r]) \in Nat /\ MaxRetries \in Nat /\ run[r].attempts \in 0 .. MaxRetries
      /\ run[r].todo \in Todos
    BY StepsAre, RestType, RunFields, RunIs, Bounds
<1>2. new \in Run /\ new.pc = pc /\ new.attempts = attempts /\ Rest(new) = Rest(run[r])
    BY DEF Has, Rest
<1>3. StepsLeft(new) < StepsLeft(run[r])
    BY <1>1, <1>2, StepsAre
<1>4. pc \in Pcs /\ pc \notin {"release", "deliver", "emit"} BY DEF Pcs
<1> QED BY <1>1, <1>3, <1>4, KnownAdvances

LEMMA AttemptAdvances ==
    ASSUME TypeOK, NEW r \in Runs, Attempt(r)
    PROVE  Advances(r)
<1> DEFINE h == run[r]
<1>0. h \in Run /\ h.pc = "loop"
    BY DEF Attempt, ChatFails, SyntaxRejected, ReportsRejected, Accepted, GiveUp, Left, At, TypeOK
<1>1. CASE ChatFails(r)
    <2> DEFINE new == [h EXCEPT !.err = TRUE, !.attempts = @ + 1]
    <2>1. Set(r, new) /\ h.attempts < MaxRetries BY <1>1 DEF ChatFails, Left, Loop
    <2>2. Has(new, h.agent, "loop", h.tier, h.todo, h.attempts + 1, TRUE, h.results)
        BY <1>0, <2>1, LoopEdits
    <2> HIDE DEF new
    <2> QED BY <1>0, <2>1, <2>2, LoopAdvances
<1>2. CASE SyntaxRejected(r)
    <2> DEFINE new == [h EXCEPT !.attempts = @ + 1]
    <2>1. Set(r, new) /\ h.attempts < MaxRetries BY <1>2 DEF SyntaxRejected, Left, Loop
    <2>2. Has(new, h.agent, "loop", h.tier, h.todo, h.attempts + 1, h.err, h.results)
        BY <1>0, <2>1, LoopEdits
    <2> HIDE DEF new
    <2> QED BY <1>0, <2>1, <2>2, LoopAdvances
<1>3. CASE ReportsRejected(r)
    <2>1. PICK found \in {"none", "rejected"} :
             Set(r, [h EXCEPT !.attempts = @ + 1, !.results = found])
        BY <1>3 DEF ReportsRejected, Loop
    <2> DEFINE new == [h EXCEPT !.attempts = @ + 1, !.results = found]
    <2>2. Set(r, new) /\ h.attempts < MaxRetries BY <1>3, <2>1 DEF ReportsRejected, Left
    <2>3. Has(new, h.agent, "loop", h.tier, h.todo, h.attempts + 1, h.err, found)
        BY <1>0, <2>2, LoopEdits
    <2> HIDE DEF new
    <2> QED BY <1>0, <2>2, <2>3, LoopAdvances
<1>4. CASE Accepted(r)
    <2>1. PICK found \in {"none", "accepted"} :
             Set(r, [h EXCEPT !.results = found, !.pc = "judge"])
        BY <1>4 DEF Accepted, Loop
    <2> DEFINE new == [h EXCEPT !.results = found, !.pc = "judge"]
    <2>2. Set(r, new) BY <2>1
    <2>3. Has(new, h.agent, "judge", h.tier, h.todo, h.attempts, h.err, found)
        BY <1>0, LoopEdits
    <2> HIDE DEF new
    <2> QED BY <1>0, <2>2, <2>3, LoopAdvances
<1>5. CASE GiveUp(r)
    <2> DEFINE new == [h EXCEPT !.err = TRUE, !.pc = "judge"]
    <2>1. Set(r, new) BY <1>5 DEF GiveUp, Loop
    <2>2. Has(new, h.agent, "judge", h.tier, h.todo, h.attempts, TRUE, h.results)
        BY <1>0, LoopEdits
    <2> HIDE DEF new
    <2> QED BY <1>0, <2>1, <2>2, LoopAdvances
<1> QED BY <1>1, <1>2, <1>3, <1>4, <1>5 DEF Attempt

\* What a turn of a waterfall costs.
LEMMA TurnCosts ==
    ASSUME NEW h \in Run, NEW new \in Run, new.tier = h.tier, NEW x \in h.todo,
           new.todo = h.todo \ {x}
    PROVE  Rest(new) + Turn = Rest(h) /\ Rest(new) \in Nat
<1>1. h.todo \in Todos BY RunIs
<1>2. Count(h.todo \ {x}) + Turn = Count(h.todo) /\ h.todo \ {x} \in Todos
    BY <1>1, CountFacts
<1>3. Count(h.todo) \in Nat /\ Count(h.todo \ {x}) \in Nat /\ Rest(new) \in Nat
    BY <1>1, <1>2, CountFacts, RestType
<1> QED BY <1>2, <1>3, Bounds, RestIs

LEMMA CourierAdvances ==
    ASSUME TypeOK, NEW r \in Runs, run[r] # NoRun => Own(run[r]),
           CourierPick(r) \/ CourierSearch(r) \/ CourierJudge(r) \/ CourierMark(r)
    PROVE  Advances(r)
<1> DEFINE h == run[r]
<1>0. h \in Run /\ h.agent = "courier"
    BY DEF CourierPick, CourierSearch, CourierJudge, CourierMark, AtOf, At, TypeOK
<1>t. /\ h.todo \in Todos /\ Rest(h) \in Nat /\ h.tier \in Tiers /\ h.attempts \in Nat
      /\ h.todo \subseteq Chores
    BY <1>0, RunIs, RestType, RunFields, Bounds DEF Own
<1>1. CASE CourierPick(r)
    <2>0. h.pc = "pick" /\ StepsLeft(h) = Rest(h) + 4
        BY <1>0, <1>1, StepsAre DEF CourierPick, AtOf, At
    <2>1. ASSUME NEW c \in h.todo,
                 Set(r, [h EXCEPT !.pc = "search", !.chore = c, !.todo = @ \ {c}])
          PROVE  Advances(r)
        <3> DEFINE new == [h EXCEPT !.pc = "search", !.chore = c, !.todo = @ \ {c}]
        <3>1. h.todo \ {c} \in Todos BY <1>t DEF Todos
        <3>2. Has(new, h.agent, "search", h.tier, h.todo \ {c}, h.attempts, h.err, h.results)
            BY <1>0, <1>t, <3>1, ChoreEdit DEF Pcs
        <3>3. Set(r, new) BY <2>1
        <3> HIDE DEF new
        <3>4. Rest(new) + Turn = Rest(h) /\ Rest(new) \in Nat
            BY <1>0, <3>2, TurnCosts DEF Has
        <3>5. StepsLeft(new) < StepsLeft(h)
            BY <2>0, <3>2, <3>4, Bounds, StepsAre DEF Has
        <3> QED BY <1>0, <3>1, <3>2, <3>3, <3>5, KnownAdvances DEF Pcs
    <2>2. ASSUME Set(r, [h EXCEPT !.pc = "compress", !.tier = "compressor"])
          PROVE  Advances(r)
        <3> DEFINE new == [h EXCEPT !.pc = "compress", !.tier = "compressor"]
        <3>1. Has(new, h.agent, "compress", "compressor", h.todo, h.attempts, h.err, h.results)
            BY <1>0, TierEdit DEF Pcs, Tiers, Protocols
        <3>2. Set(r, new) BY <2>2
        <3> HIDE DEF new
        <3>3. StepsLeft(new) < StepsLeft(h) BY <1>t, <2>0, <3>1, StepsAre DEF Has
        <3> QED BY <1>0, <1>t, <3>1, <3>2, <3>3, KnownAdvances DEF Pcs
    <2>3. ASSUME To(r, "end") PROVE Advances(r)
        <3> DEFINE new == [h EXCEPT !.pc = "end"]
        <3>1. new \in Run /\ new.pc = "end" BY <1>0, ToSteps DEF Pcs
        <3> HIDE DEF new
        <3>2. StepsLeft(new) < StepsLeft(h) BY <1>t, <2>0, <3>1, StepsAre
        <3> QED BY <1>0, <2>3, <3>2, ToAdvances DEF Pcs, new
    <2> QED BY <1>1, <2>1, <2>2, <2>3 DEF CourierPick
<1>2. CASE CourierSearch(r)
    <2>0. h.pc = "search" /\ StepsLeft(h) = Rest(h) + 9 + MaxRetries
        BY <1>0, <1>2, StepsAre DEF CourierSearch, AtOf, At
    <2>1. ASSUME Set(r, [h EXCEPT !.pc = "pick", !.chore = NoChore]) PROVE Advances(r)
        <3> DEFINE new == [h EXCEPT !.pc = "pick", !.chore = NoChore]
        <3>1. Has(new, h.agent, "pick", h.tier, h.todo, h.attempts, h.err, h.results)
            BY <1>0, NextChoreEdit DEF Pcs, Like
        <3>2. Set(r, new) BY <2>1
        <3> HIDE DEF new
        <3>3. Rest(new) = Rest(h) BY <3>1 DEF Has, Rest
        <3>4. StepsLeft(new) < StepsLeft(h) BY <1>t, <2>0, <3>1, <3>3, Bounds, StepsAre DEF Has
        <3> QED BY <1>0, <1>t, <3>1, <3>2, <3>4, KnownAdvances DEF Pcs
    <2>2. ASSUME Set(r, Ask(h)) PROVE Advances(r)
        <3>1. Has(Ask(h), h.agent, "loop", h.tier, h.todo, 0, FALSE, "none")
            BY <1>0, FreshEdit
        <3>2. Rest(Ask(h)) = Rest(h) BY <3>1 DEF Has, Rest
        <3>3. StepsLeft(Ask(h)) < StepsLeft(h)
            BY <1>t, <2>0, <3>1, <3>2, Bounds, StepsAre DEF Has
        <3> QED BY <1>0, <1>t, <2>2, <3>1, <3>3, KnownAdvances DEF Pcs
    <2> QED BY <1>2, <2>1, <2>2 DEF CourierSearch
<1>3. CASE CourierJudge(r)
    <2>0. h.pc = "judge" /\ StepsLeft(h) = Rest(h) + 7
        BY <1>0, <1>3, StepsAre DEF CourierJudge, AtOf, At
    <2>1. CASE ~h.err /\ h.results # "none"
        <3> DEFINE new == [h EXCEPT !.pc = "deliver"]
        <3>1. Has(new, h.agent, "deliver", h.tier, h.todo, h.attempts, h.err, h.results)
            BY <1>0, PcEdit DEF Pcs, Like
        <3>2. Set(r, new) BY <1>3, <2>1 DEF CourierJudge, To
        <3> HIDE DEF new
        <3>3. Rest(new) = Rest(h) BY <3>1 DEF Has, Rest
        <3>4. StepsLeft(new) < StepsLeft(h) BY <1>t, <2>0, <3>1, <3>3, StepsAre DEF Has
        <3>5. Valid(h) => ~h.err /\ h.results # "rejected" BY <2>0, <2>1 DEF Valid
        <3> QED BY <1>0, <1>t, <3>1, <3>2, <3>4, <3>5, KnownAdvances DEF Pcs
    <2>2. CASE ~(~h.err /\ h.results # "none")
        <3> DEFINE new == [Fresh(h) EXCEPT !.pc = "pick", !.chore = NoChore]
        <3>2. Has(new, h.agent, "pick", h.tier, h.todo, 0, FALSE, "none")
            BY <1>0, LeaveEdit
        <3>3. Set(r, new) BY <1>3, <2>2 DEF CourierJudge
        <3> HIDE DEF new
        <3>4. Rest(new) = Rest(h) BY <3>2 DEF Has, Rest
        <3>5. StepsLeft(new) < StepsLeft(h) BY <1>t, <2>0, <3>2, <3>4, StepsAre DEF Has
        <3> QED BY <1>0, <1>t, <3>2, <3>3, <3>5, KnownAdvances DEF Pcs
    <2> QED BY <2>1, <2>2
<1>4. CASE CourierMark(r)
    <2>0. h.pc = "mark" /\ StepsLeft(h) = Rest(h) + 5
        BY <1>0, <1>4, StepsAre DEF CourierMark, AtOf, At
    <2> DEFINE new == [Fresh(h) EXCEPT !.pc = "pick", !.chore = NoChore, !.found = TRUE]
    <2>2. Has(new, h.agent, "pick", h.tier, h.todo, 0, FALSE, "none")
        BY <1>0, LeaveEdit
    <2>3. Set(r, new) BY <1>4 DEF CourierMark
    <2> HIDE DEF new
    <2>4. Rest(new) = Rest(h) BY <2>2 DEF Has, Rest
    <2>5. StepsLeft(new) < StepsLeft(h) BY <1>t, <2>0, <2>2, <2>4, StepsAre DEF Has
    <2> QED BY <1>0, <1>t, <2>2, <2>3, <2>5, KnownAdvances DEF Pcs
<1> QED BY <1>1, <1>2, <1>3, <1>4

LEMMA FabricatorAdvances ==
    ASSUME TypeOK, NEW r \in Runs, run[r] # NoRun => Own(run[r]),
           FabricatorReview(r) \/ FabricatorIssue(r) \/ FabricatorConstruct(r) \/ FabricatorDeploy(r)
    PROVE  Advances(r)
<1> DEFINE h == run[r]
<1>0. h \in Run /\ h.agent = "fabricator"
    BY DEF FabricatorReview, FabricatorIssue, FabricatorConstruct, FabricatorDeploy, AtOf, At, TypeOK
<1>t. h.todo \in Todos BY <1>0, RunIs
<1>s. /\ h.pc = "review" => StepsLeft(h) = 7
      /\ h.pc = "issue" => StepsLeft(h) = 6
      /\ h.pc = "construct" => StepsLeft(h) = 5
      /\ h.pc = "deploy" => StepsLeft(h) = 4
    BY <1>0, StepsAre
<1>1. ASSUME Set(r, [h EXCEPT !.pc = "report", !.tier = "reporter", !.issue = NoIssue]),
             h.pc \in {"review", "issue", "construct", "deploy"}
      PROVE  Advances(r)
    <2> DEFINE new == [h EXCEPT !.pc = "report", !.tier = "reporter", !.issue = NoIssue]
    <2>1. Has(new, h.agent, "report", "reporter", h.todo, h.attempts, h.err, h.results)
        BY <1>0, IssueEdit DEF Pcs, Tiers, Protocols
    <2>2. Set(r, new) BY <1>1
    <2> HIDE DEF new
    <2>3. StepsLeft(new) < StepsLeft(h) BY <1>1, <1>s, <2>1, StepsAre DEF Has
    <2> QED BY <1>0, <1>t, <2>1, <2>2, <2>3, KnownAdvances DEF Pcs
<1>2. CASE FabricatorReview(r)
    <2>0. h.pc = "review" BY <1>2 DEF FabricatorReview, AtOf, At
    <2>1. ASSUME Set(r, [h EXCEPT !.pc = "issue", !.tier = "issue"]) PROVE Advances(r)
        <3> DEFINE new == [h EXCEPT !.pc = "issue", !.tier = "issue"]
        <3>1. Has(new, h.agent, "issue", "issue", h.todo, h.attempts, h.err, h.results)
            BY <1>0, TierEdit DEF Pcs, Tiers, Protocols
        <3>2. Set(r, new) BY <2>1
        <3> HIDE DEF new
        <3>3. StepsLeft(new) < StepsLeft(h) BY <1>s, <2>0, <3>1, StepsAre DEF Has
        <3> QED BY <1>0, <1>t, <3>1, <3>2, <3>3, KnownAdvances DEF Pcs
    <2> QED BY <1>1, <1>2, <2>0, <2>1 DEF FabricatorReview, Finalize, ToProtocol
<1>3. CASE FabricatorIssue(r)
    <2>0. h.pc = "issue" BY <1>3 DEF FabricatorIssue, AtOf, At
    <2>1. ASSUME NEW i \in Issues,
                 Set(r, [h EXCEPT !.pc = "construct", !.tier = "construct", !.issue = i])
          PROVE  Advances(r)
        <3> DEFINE new == [h EXCEPT !.pc = "construct", !.tier = "construct", !.issue = i]
        <3>1. Has(new, h.agent, "construct", "construct", h.todo, h.attempts, h.err, h.results)
            BY <1>0, IssueEdit DEF Pcs, Tiers, Protocols
        <3>2. Set(r, new) BY <2>1
        <3> HIDE DEF new
        <3>3. StepsLeft(new) < StepsLeft(h) BY <1>s, <2>0, <3>1, StepsAre DEF Has
        <3> QED BY <1>0, <1>t, <3>1, <3>2, <3>3, KnownAdvances DEF Pcs
    <2>2. open \subseteq Issues BY DEF TypeOK
    <2> QED BY <1>1, <1>3, <2>0, <2>1, <2>2 DEF FabricatorIssue, Finalize
<1>4. CASE FabricatorConstruct(r)
    <2>0. h.pc = "construct" BY <1>4 DEF FabricatorConstruct, AtOf, At
    <2>1. ASSUME To(r, "deploy") PROVE Advances(r)
        <3> DEFINE new == [h EXCEPT !.pc = "deploy"]
        <3>1. new \in Run /\ new.pc = "deploy" BY <1>0, ToSteps DEF Pcs
        <3> HIDE DEF new
        <3>2. StepsLeft(new) < StepsLeft(h) BY <1>s, <2>0, <3>1, StepsAre
        <3> QED BY <1>0, <2>1, <3>2, ToAdvances DEF Pcs, new
    <2> QED BY <1>1, <1>4, <2>0, <2>1 DEF FabricatorConstruct, Finalize
<1>5. CASE FabricatorDeploy(r)
    BY <1>1, <1>5 DEF FabricatorDeploy, AtOf, At
<1> QED BY <1>2, <1>3, <1>4, <1>5

LEMMA AnalyzerAdvances ==
    ASSUME TypeOK, NEW r \in Runs, AnalyzerPick(r) \/ AnalyzerJudge(r)
    PROVE  Advances(r)
<1> DEFINE h == run[r]
<1>0. h \in Run /\ h.agent = "analyzer"
    BY DEF AnalyzerPick, AnalyzerJudge, AtOf, At, TypeOK
<1>t. /\ h.todo \in Todos /\ Rest(h) \in Nat /\ h.tier \in Tiers /\ h.attempts \in Nat
      /\ h.pc \in Pcs
    BY <1>0, RunIs, RestType, RunFields, Bounds
<1>1. CASE AnalyzerPick(r)
    <2>0. h.pc = "pick" /\ StepsLeft(h) = Rest(h) + 4
        BY <1>0, <1>1, StepsAre DEF AnalyzerPick, AtOf, At
    <2>1. ASSUME NEW u \in h.todo,
                 \/ Set(r, [h EXCEPT !.todo = @ \ {u}])
                 \/ Set(r, Ask([h EXCEPT !.todo = @ \ {u}]))
          PROVE  Advances(r)
        <3> DEFINE g == [h EXCEPT !.todo = @ \ {u}]
        <3>1. h.todo \ {u} \in Todos BY <1>t DEF Todos
        <3>2. Has(g, h.agent, "pick", h.tier, h.todo \ {u}, h.attempts, h.err, h.results)
            BY <1>0, <2>0, <3>1, TodoEdit
        <3>3. Set(r, g) \/ Set(r, Ask(g)) BY <2>1
        <3> HIDE DEF g
        <3>4. g \in Run BY <3>2 DEF Has
        <3>5. Rest(g) + Turn = Rest(h) /\ Rest(g) \in Nat
            BY <1>0, <3>2, TurnCosts DEF Has
        <3>6. CASE Set(r, g)
            <4>1. StepsLeft(g) < StepsLeft(h) BY <2>0, <3>2, <3>5, Bounds, StepsAre DEF Has
            <4> QED BY <1>0, <3>1, <3>2, <3>6, <4>1, KnownAdvances DEF Pcs
        <3>7. CASE Set(r, Ask(g))
            <4>1. Has(Ask(g), h.agent, "loop", h.tier, h.todo \ {u}, 0, FALSE, "none")
                BY <3>2, <3>4, FreshEdit DEF Has
            <4>2. Rest(Ask(g)) = Rest(g) BY <3>2, <4>1 DEF Has, Rest
            <4>3. StepsLeft(Ask(g)) < StepsLeft(h)
                BY <2>0, <3>5, <4>1, <4>2, Bounds, StepsAre DEF Has
            <4> QED BY <1>0, <3>1, <3>7, <4>1, <4>3, KnownAdvances DEF Pcs
        <3> QED BY <3>3, <3>6, <3>7
    <2>2. ASSUME h.todo = {}, h.tier = "summary",
                 Set(r, [h EXCEPT !.tier = "synthesis", !.todo = Users, !.found = FALSE])
          PROVE  Advances(r)
        <3> DEFINE new == [h EXCEPT !.tier = "synthesis", !.todo = Users, !.found = FALSE]
        <3>1. Has(new, h.agent, "pick", "synthesis", Users, h.attempts, h.err, h.results)
            <4>1. "synthesis" \in Tiers BY DEF Tiers, Protocols
            <4>2. Users \in Todos BY DEF Todos
            <4> QED BY <1>0, <2>0, <4>1, <4>2, SynthesisEdit
        <3>2. Set(r, new) BY <2>2
        <3> HIDE DEF new
        <3>3. Rest(new) = Count(Users) + 0 BY <3>1 DEF Has, Rest
        <3>4. Count(Users) \in Nat /\ Count(Users) <= All BY Bounds, CountFacts
        <3>5. Count(h.todo) = 0 BY <2>2, CountFacts
        <3>6. Rest(h) = 0 + (All + 1) BY <2>2, <3>5 DEF Rest
        <3>7. StepsLeft(new) < StepsLeft(h)
            BY <2>0, <3>1, <3>3, <3>4, <3>6, Bounds, StepsAre DEF Has
        <3> QED BY <1>0, <3>1, <3>2, <3>7, Bounds, KnownAdvances DEF Pcs
    <2>3. ASSUME To(r, "end") PROVE Advances(r)
        <3> DEFINE new == [h EXCEPT !.pc = "end"]
        <3>1. new \in Run /\ new.pc = "end" BY <1>0, ToSteps DEF Pcs
        <3> HIDE DEF new
        <3>2. StepsLeft(new) < StepsLeft(h) BY <1>t, <2>0, <3>1, StepsAre
        <3> QED BY <1>0, <2>3, <3>2, ToAdvances DEF Pcs, new
    <2>4. ASSUME Set(r, NoRun) PROVE Advances(r)
        BY <1>0, <2>4, GoneAdvances
    <2>5. \/ \E u \in h.todo : \/ Set(r, [h EXCEPT !.todo = @ \ {u}])
                              \/ Set(r, Ask([h EXCEPT !.todo = @ \ {u}]))
          \/ /\ h.todo = {} /\ h.tier = "summary"
             /\ Set(r, [h EXCEPT !.tier = "synthesis", !.todo = Users, !.found = FALSE])
          \/ To(r, "end") \/ Set(r, NoRun)
        BY <1>1 DEF AnalyzerPick
    <2> QED BY <2>1, <2>2, <2>3, <2>4, <2>5
<1>2. CASE AnalyzerJudge(r)
    <2>0. h.pc = "judge" /\ StepsLeft(h) = Rest(h) + 7
        BY <1>0, <1>2, StepsAre DEF AnalyzerJudge, AtOf, At
    <2> DEFINE f == h.found \/ (~h.err /\ h.results # "none")
               new == [Fresh(h) EXCEPT !.pc = "pick", !.found = f]
    <2>1. Fresh(h).found = h.found BY <1>0, RunIs DEF Fresh
    <2>2. f \in BOOLEAN BY <1>0, RunFields
    <2>3. Has(new, h.agent, "pick", h.tier, h.todo, 0, FALSE, "none")
        BY <1>0, <2>2, LeaveEdit
    <2>4. Set(r, new) BY <1>2, <2>1 DEF AnalyzerJudge
    <2> HIDE DEF new
    <2>5. Rest(new) = Rest(h) BY <2>3 DEF Has, Rest
    <2>6. StepsLeft(new) < StepsLeft(h) BY <1>t, <2>0, <2>3, <2>5, StepsAre DEF Has
    <2> QED BY <1>0, <1>t, <2>3, <2>4, <2>6, KnownAdvances DEF Pcs
<1> QED BY <1>1, <1>2

\* Every step of a run advances it.
LEMMA StepAdvances ==
    ASSUME TypeOK, NEW r \in Runs, run[r] # NoRun => Own(run[r]), Step(r)
    PROVE  Advances(r)
BY SimpleSteps, BeginAdvances, EndAdvances, AttemptAdvances, CourierAdvances,
   FabricatorAdvances, AnalyzerAdvances DEF Step

\* What a step of a run does to everything but the runs.
LEMMA StepEffects ==
    ASSUME TypeOK, NEW r \in Runs, Step(r)
    PROVE  /\ run[r] # NoRun /\ run[r] \in Run /\ run[r].agent \in Names
           /\ lock' \in {lock, run[r].agent, NoLock, PAUSED}
           /\ ready' \subseteq ready
           /\ due' \subseteq due
           /\ \/ At(r, "end") /\ entry' = [entry EXCEPT ![run[r].agent] = "none"]
              \/ ~At(r, "end") /\ entry' = entry
              \/ ~At(r, "end") /\ ~At(r, "release") /\ Report(run[r].agent)
           /\ \/ At(r, "end") /\ sentry' = (sentry /\ run[r].agent # "guardian")
              \/ ~At(r, "end") /\ sentry' = sentry
              \/ /\ ~At(r, "end") /\ ~At(r, "release")
                 /\ sentry' = (sentry \/ run[r].agent = "guardian")
           /\ open' \subseteq Issues
           /\ reports' \in [Chores -> 0 .. 2]
           /\ shared' \in BOOLEAN
<1> USE DEF At
<1>0. /\ run[r] # NoRun => run[r] \in Run /\ run[r].agent \in Names
      /\ open \subseteq Issues /\ reports \in [Chores -> 0 .. 2] /\ shared \in BOOLEAN
    BY RunFields DEF TypeOK
<1>1. CASE Claim(r) BY <1>0, <1>1 DEF Claim
<1>2. CASE Acquire(r) BY <1>0, <1>2 DEF Acquire
<1>3. CASE Begin(r)
    <2>1. At(r, "begin") BY <1>3 DEF Begin
    <2>2. shared' \in BOOLEAN BY <1>0, <1>3 DEF Begin
    <2>3. UNCHANGED <<lock, ready, due, open, reports>> BY <1>3 DEF Begin
    <2>4. \/ sentry' = sentry /\ entry' = entry
          \/ sentry' = (sentry \/ run[r].agent = "guardian") /\ Report(run[r].agent)
        BY <1>3 DEF Begin
    <2> QED BY <1>0, <2>1, <2>2, <2>3, <2>4
<1>4. CASE End(r) BY <1>0, <1>4 DEF End
<1>5. CASE Release(r) BY <1>0, <1>5 DEF Release
<1>6. CASE Attempt(r)
    BY <1>0, <1>6
    DEF Attempt, ChatFails, SyntaxRejected, ReportsRejected, Accepted, GiveUp, Loop, Left
<1>7. CASE GuardianJudge(r) \/ GuardianEmit(r)
    BY <1>0, <1>7 DEF GuardianJudge, GuardianEmit, AtOf
<1>8. CASE CourierPick(r) BY <1>0, <1>8 DEF CourierPick, AtOf
<1>9. CASE CourierSearch(r) BY <1>0, <1>9 DEF CourierSearch, AtOf, Marked
<1>10. CASE CourierJudge(r) \/ CourierMark(r) \/ CourierCompress(r)
    BY <1>0, <1>10 DEF CourierJudge, CourierMark, CourierCompress, AtOf, Marked
<1>11. CASE CourierDeliver(r)
    <2>1. reports' = [reports EXCEPT ![run[r].chore] = IF @ = 2 THEN 2 ELSE @ + 1]
        BY <1>11 DEF CourierDeliver
    <2>2. \A n \in 0 .. 2 : (IF n = 2 THEN 2 ELSE n + 1) \in 0 .. 2 OBVIOUS
    <2>3. reports' \in [Chores -> 0 .. 2] BY <1>0, <2>1, <2>2
    <2> QED BY <1>0, <1>11, <2>3 DEF CourierDeliver, AtOf
<1>12. CASE FabricatorReview(r)
    BY <1>0, <1>12 DEF FabricatorReview, Finalize, ToProtocol, AtOf
<1>13. CASE FabricatorIssue(r) BY <1>0, <1>13 DEF FabricatorIssue, Finalize, AtOf
<1>14. CASE FabricatorConstruct(r) BY <1>0, <1>14 DEF FabricatorConstruct, Finalize, AtOf
<1>15. CASE FabricatorDeploy(r) \/ FabricatorReport(r)
    BY <1>0, <1>15 DEF FabricatorDeploy, FabricatorReport, AtOf
<1>16. CASE AnalyzerPick(r) BY <1>0, <1>16 DEF AnalyzerPick, AtOf
<1>17. CASE AnalyzerJudge(r) BY <1>0, <1>17 DEF AnalyzerJudge, AtOf
<1> QED BY <1>1, <1>2, <1>3, <1>4, <1>5, <1>6, <1>7, <1>8, <1>9, <1>10, <1>11, <1>12,
           <1>13, <1>14, <1>15, <1>16, <1>17 DEF Step

\* Everything else that may happen, by what it does to the runs: one is started,
\* all are gone, or none is touched.
Fills == \E r \in Runs, a \in Names, by \in {"tick", "http"}, pc \in {"claim", "begin"}, tier \in Tiers :
             /\ run[r] = NoRun
             /\ run' = [run EXCEPT ![r] = Started(a, by, pc, tier)]
             /\ UNCHANGED <<lock, paused, chat, ready, entry, sentry, due, open, reports,
                            shared, restarts>>

LEMMA StartFills ==
    ASSUME TypeOK, Tick \/ GuardianTrigger \/ FabricatorTrigger \/ AnalyzerTrigger
    PROVE  Fills /\ starts' \in Nat
<1>1. ASSUME NEW a \in Names, NEW by \in {"tick", "http"}, NEW pc \in {"claim", "begin"},
             NEW tier \in Tiers, Start(a, by, pc, tier)
      PROVE  Fills /\ starts' \in Nat
    <2>1. PICK r \in Runs : /\ run[r] = NoRun
                            /\ run' = [run EXCEPT ![r] = Started(a, by, pc, tier)]
        BY <1>1 DEF Start
    <2>2. Fills BY <1>1, <2>1 DEF Start, Fills
    <2>3. starts' \in Nat BY <1>1 DEF Start, TypeOK
    <2> QED BY <2>2, <2>3
<1>2. /\ {"guardian", "courier", "fabricator", "analyzer"} = Names
      /\ {"sentry", "none", "synthesis"} \subseteq Tiers
    BY DEF Names, Tiers, Protocols
<1>3. CASE GuardianTrigger
    <2>1. PICK tier \in {"sentry", "none"} : Start("guardian", "http", "claim", tier)
        BY <1>3 DEF GuardianTrigger
    <2> QED BY <1>1, <1>2, <2>1
<1>4. CASE Tick
    BY <1>1, <1>2, <1>4 DEF Tick, GuardianTick, CourierTick, FabricatorTick, AnalyzerTick
<1>5. CASE FabricatorTrigger BY <1>1, <1>2, <1>5 DEF FabricatorTrigger
<1>6. CASE AnalyzerTrigger BY <1>1, <1>2, <1>6 DEF AnalyzerTrigger
<1> QED BY <1>3, <1>4, <1>5, <1>6

\* What happens around the runs.
Around == \/ CourierTrigger \/ \E a \in Names : Cool(a) \/ EntryExpire(a)
          \/ \E c \in Chores : Due(c)
          \/ ChatBegin \/ ChatEnd \/ Pause \/ Resume \/ Expire

LEMMA AroundRuns ==
    ASSUME TypeOK, Around
    PROVE  /\ run' = run /\ sentry' = sentry
           /\ \A a \in Names : entry'[a] = "active" => entry[a] = "active"
BY DEF Around, CourierTrigger, Cool, EntryExpire, Due, ChatBegin, ChatEnd, Pause, Resume,
       Expire, TypeOK

LEMMA AroundType ==
    ASSUME TypeOK, Around
    PROVE  TypeOK'
<1>1. CASE CourierTrigger \/ \E a \in Names : Cool(a)
    BY <1>1 DEF CourierTrigger, Cool, TypeOK
<1>2. CASE \E a \in Names : EntryExpire(a) BY <1>2 DEF EntryExpire, TypeOK
<1>3. CASE \E c \in Chores : Due(c) BY <1>3 DEF Due, TypeOK
<1>4. CASE ChatBegin
    <2>1. lock' \in Names \union {"chat", NoLock, PAUSED} /\ chat' \in BOOLEAN /\ starts' \in Nat
        BY <1>4 DEF ChatBegin, TypeOK
    <2> QED BY <1>4, <2>1 DEF ChatBegin, TypeOK
<1>6. CASE ChatEnd
    <2>1. lock' \in Names \union {"chat", NoLock, PAUSED} /\ chat' \in BOOLEAN
        BY <1>6 DEF ChatEnd, TypeOK
    <2> QED BY <1>6, <2>1 DEF ChatEnd, TypeOK
<1>5. CASE Pause \/ Resume \/ Expire BY <1>5 DEF Pause, Resume, Expire, TypeOK
<1> QED BY <1>1, <1>2, <1>3, <1>4, <1>5, <1>6 DEF Around

LEMMA RestartType ==
    ASSUME TypeOK, Crash \/ Shutdown
    PROVE  /\ TypeOK'
           /\ run' = [r \in Runs |-> NoRun] /\ sentry' = FALSE
           /\ \A a \in Names : entry'[a] # "active"
<1>1. PICK left : Restart(left) BY DEF Crash, Shutdown
<1>2. entry' = [a \in Names |-> IF left[a] = "queued" THEN "queued" ELSE "none"]
    BY <1>1 DEF Restart
<1>3. entry' \in [Names -> {"none", "queued", "active"}] /\ \A a \in Names : entry'[a] # "active"
    BY <1>2
<1>4. run' = [r \in Runs |-> NoRun] /\ sentry' = FALSE BY <1>1 DEF Restart
<1>5. chat' \in BOOLEAN BY <1>1 DEF Restart, TypeOK
<1>9. restarts' \in Nat BY <1>1 DEF Restart, TypeOK
<1>6. UNCHANGED <<lock, paused, ready, due, open, reports, shared, starts>>
    BY <1>1 DEF Restart
<1>7. run' \in [Runs -> Run \union {NoRun}] BY <1>4
<1>8. TypeOK' BY <1>3, <1>4, <1>5, <1>6, <1>7, <1>9 DEF TypeOK
<1> QED BY <1>3, <1>4, <1>8

\* The next-state relation by cases, for the proofs below.
LEMMA NextCases ==
    ASSUME TypeOK, [Next]_vars
    PROVE  \/ Fills /\ starts' \in Nat
           \/ \E r \in Runs : Step(r)
           \/ Around \/ Crash \/ Shutdown
           \/ UNCHANGED vars
BY StartFills DEF Next, Trigger, Around

-----------------------------------------------------------------------------
(* Invariants.                                                             *)

Courteous == \A r \in Runs : run[r] # NoRun => Own(run[r])

LEMMA StartedOwn ==
    ASSUME NEW a, NEW by, NEW pc, NEW tier
    PROVE  Own(Started(a, by, pc, tier))
BY DEF Own, Started

\* A step of a run, seen from all runs.
LEMMA StepRuns ==
    ASSUME TypeOK, Courteous, NEW r \in Runs, Step(r)
    PROVE  \E new \in Run \union {NoRun} :
               /\ run' = [run EXCEPT ![r] = new]
               /\ run'[r] = new
               /\ \A q \in Runs \ {r} : run'[q] = run[q]
               /\ new # NoRun => Good(run[r], new)
               /\ new = NoRun => run[r].pc = "release" \/ run[r].agent = "analyzer"
<1>1. Advances(r) BY StepAdvances DEF Courteous
<1> QED BY <1>1 DEF Advances, TypeOK

LEMMA TypeInit == Init => TypeOK /\ Courteous
<1> SUFFICES ASSUME Init PROVE TypeOK /\ Courteous OBVIOUS
<1>1. Courteous BY DEF Init, Courteous
<1>2. lock \in Names \union {"chat", NoLock, PAUSED} /\ ready \subseteq Names BY DEF Init
<1>3. entry \in [Names -> {"none", "queued", "active"}] BY DEF Init
<1>4. run \in [Runs -> Run \union {NoRun}] /\ reports \in [Chores -> 0 .. 2] BY DEF Init
<1>5. due \subseteq Chores /\ open \subseteq Issues /\ starts \in Nat /\ restarts \in Nat
    BY DEF Init
<1>6. paused \in BOOLEAN /\ chat \in BOOLEAN /\ shared \in BOOLEAN /\ sentry \in BOOLEAN
    BY DEF Init
<1>7. TypeOK BY <1>2, <1>3, <1>4, <1>5, <1>6 DEF TypeOK
<1> QED BY <1>1, <1>7

LEMMA TypeNext == TypeOK /\ Courteous /\ [Next]_vars => TypeOK' /\ Courteous'
<1> SUFFICES ASSUME TypeOK, Courteous, [Next]_vars PROVE TypeOK' /\ Courteous' OBVIOUS
<1>1. ASSUME Fills, starts' \in Nat PROVE TypeOK' /\ Courteous'
    <2>1. PICK r \in Runs, a \in Names, by \in {"tick", "http"}, pc \in {"claim", "begin"},
               tier \in Tiers :
               /\ run[r] = NoRun
               /\ run' = [run EXCEPT ![r] = Started(a, by, pc, tier)]
               /\ UNCHANGED <<lock, paused, chat, ready, entry, sentry, due, open, reports,
                              shared, restarts>>
        BY <1>1 DEF Fills
    <2> DEFINE new == Started(a, by, pc, tier)
    <2>p. pc \in Pcs BY DEF Pcs
    <2>2. new \in Run BY <2>p, StartedType DEF Has
    <2>3. Own(new) BY StartedOwn
    <2>4. run' = [run EXCEPT ![r] = new] BY <2>1
    <2> HIDE DEF new
    <2>5. run' \in [Runs -> Run \union {NoRun}] BY <2>2, <2>4 DEF TypeOK
    <2>6. TypeOK' BY <1>1, <2>1, <2>5 DEF TypeOK
    <2>7. Courteous' BY <2>3, <2>4 DEF Courteous, TypeOK
    <2> QED BY <2>6, <2>7
<1>2. ASSUME NEW r \in Runs, Step(r) PROVE TypeOK' /\ Courteous'
    <2>1. PICK new \in Run \union {NoRun} :
              /\ run' = [run EXCEPT ![r] = new]
              /\ run'[r] = new
              /\ \A q \in Runs \ {r} : run'[q] = run[q]
              /\ new # NoRun => Good(run[r], new)
        BY <1>2, StepRuns
    <2>2. run' \in [Runs -> Run \union {NoRun}] BY <2>1 DEF TypeOK
    <2>3. UNCHANGED <<paused, chat, starts, restarts>>
        BY <1>2, StepAdvances DEF Courteous, Advances
    <2>e. /\ run[r].agent \in Names
          /\ lock' \in {lock, run[r].agent, NoLock, PAUSED}
          /\ ready' \subseteq ready /\ due' \subseteq due /\ open' \subseteq Issues
          /\ reports' \in [Chores -> 0 .. 2] /\ shared' \in BOOLEAN
        BY <1>2, StepEffects
    <2>4. entry' \in [Names -> {"none", "queued", "active"}]
        BY <1>2, StepEffects DEF Report, TypeOK
    <2>5. sentry' \in BOOLEAN BY <1>2, StepEffects DEF TypeOK
    <2>6. lock' \in Names \union {"chat", NoLock, PAUSED} BY <2>e DEF TypeOK
    <2>7. TypeOK' BY <2>e, <2>2, <2>3, <2>4, <2>5, <2>6 DEF TypeOK
    <2>8. run[r] # NoRun BY <1>2, StepEffects
    <2>9. new # NoRun => Own(new) BY <2>1, <2>8 DEF Courteous, Good
    <2>10. Courteous' BY <2>1, <2>9 DEF Courteous
    <2> QED BY <2>7, <2>10
<1>3. CASE Around
    BY <1>3, AroundType, AroundRuns DEF Courteous
<1>4. CASE Crash \/ Shutdown
    BY <1>4, RestartType DEF Courteous
<1>5. CASE UNCHANGED vars
    BY <1>5 DEF TypeOK, Courteous, vars
<1> QED BY <1>1, <1>2, <1>3, <1>4, <1>5, NextCases

\* The state of the agents stays within its types: no more attempts than the
\* loop has, no run in a protocol that does not exist.
THEOREM TypeCorrect == Spec => []TypeOK
<1>1. Spec => [](TypeOK /\ Courteous) BY TypeInit, TypeNext, PTL DEF Spec
<1> QED BY <1>1, PTL

-----------------------------------------------------------------------------
(* Only validated reports are posted.                                      *)

AllValid == \A r \in Runs : run[r] # NoRun => Valid(run[r])

LEMMA ValidNext == TypeOK /\ Courteous /\ AllValid /\ [Next]_vars => AllValid'
<1> SUFFICES ASSUME TypeOK, Courteous, AllValid, [Next]_vars PROVE AllValid' OBVIOUS
<1>1. ASSUME Fills PROVE AllValid'
    <2>1. PICK r \in Runs, a \in Names, by \in {"tick", "http"}, pc \in {"claim", "begin"},
               tier \in Tiers : run' = [run EXCEPT ![r] = Started(a, by, pc, tier)]
        BY <1>1 DEF Fills
    <2>2. Valid(Started(a, by, pc, tier)) BY DEF Valid, Started
    <2> QED BY <2>1, <2>2 DEF AllValid, TypeOK
<1>2. ASSUME NEW r \in Runs, Step(r) PROVE AllValid'
    <2>1. PICK new \in Run \union {NoRun} :
              /\ run'[r] = new
              /\ \A q \in Runs \ {r} : run'[q] = run[q]
              /\ new # NoRun => Good(run[r], new)
        BY <1>2, StepRuns
    <2>2. run[r] # NoRun BY <1>2, StepEffects
    <2>3. new # NoRun => Valid(new) BY <2>1, <2>2 DEF AllValid, Good
    <2> QED BY <2>1, <2>3 DEF AllValid
<1>3. CASE Around BY <1>3, AroundRuns DEF AllValid
<1>4. CASE Crash \/ Shutdown BY <1>4, RestartType DEF AllValid
<1>5. CASE UNCHANGED vars BY <1>5 DEF AllValid, vars
<1> QED BY <1>1, <1>2, <1>3, <1>4, <1>5, NextCases

\* A report that the checks of the cognitive loop rejected is neither delivered
\* nor posted.
THEOREM RejectedStaysIn == Spec => []OnlyValidated
<1>1. Init => TypeOK /\ Courteous /\ AllValid
    <2> SUFFICES ASSUME Init PROVE TypeOK /\ Courteous /\ AllValid OBVIOUS
    <2>1. AllValid BY DEF Init, AllValid
    <2> QED BY <2>1, TypeInit
<1>2. AllValid => OnlyValidated BY DEF AllValid, OnlyValidated, Valid, At
<1>3. Spec => [](TypeOK /\ Courteous /\ AllValid) BY <1>1, TypeNext, ValidNext, PTL DEF Spec
<1> QED BY <1>2, <1>3, PTL

-----------------------------------------------------------------------------
(* What shows as active is at work.                                        *)

\* A run that still has to clear what it reported.
Busy(a) == \E r \in RunsOf(a) : run[r].pc # "release"

Shown ==
    /\ \A a \in Names \ {"analyzer"} : entry[a] = "active" => Busy(a)
    /\ sentry => Busy("guardian")

LEMMA ShownNext == TypeOK /\ Courteous /\ Shown /\ [Next]_vars => Shown'
<1> SUFFICES ASSUME TypeOK, Courteous, Shown, [Next]_vars PROVE Shown' OBVIOUS
<1> USE DEF Busy, RunsOf
<1>0. "guardian" \in Names \ {"analyzer"} BY DEF Names
<1>1. ASSUME Fills PROVE Shown'
    <2>1. PICK r \in Runs, a \in Names, by \in {"tick", "http"}, pc \in {"claim", "begin"},
               tier \in Tiers :
               /\ run[r] = NoRun
               /\ run' = [run EXCEPT ![r] = Started(a, by, pc, tier)]
               /\ UNCHANGED <<entry, sentry>>
        BY <1>1 DEF Fills
    <2>2. \A q \in Runs : run[q] # NoRun => run'[q] = run[q]
        BY <2>1 DEF TypeOK
    <2>3. \A b \in Names : Busy(b) => Busy(b)' BY <2>2
    <2> QED BY <1>0, <2>1, <2>3 DEF Shown
<1>2. ASSUME NEW r \in Runs, Step(r) PROVE Shown'
    <2>a. PICK a \in Names : a = run[r].agent BY <1>2, StepEffects
    <2>1. PICK new \in Run \union {NoRun} :
              /\ run'[r] = new
              /\ \A q \in Runs \ {r} : run'[q] = run[q]
              /\ new # NoRun => Good(run[r], new)
              /\ new = NoRun => run[r].pc = "release" \/ a = "analyzer"
        BY <1>2, <2>a, StepRuns
    <2>2. /\ run[r] # NoRun
          /\ \/ At(r, "end") /\ entry' = [entry EXCEPT ![a] = "none"]
             \/ ~At(r, "end") /\ entry' = entry
             \/ ~At(r, "end") /\ ~At(r, "release") /\ Report(a)
          /\ \/ At(r, "end") /\ sentry' = (sentry /\ a # "guardian")
             \/ ~At(r, "end") /\ sentry' = sentry
             \/ ~At(r, "end") /\ ~At(r, "release") /\ sentry' = (sentry \/ a = "guardian")
        BY <1>2, <2>a, StepEffects
    <2>3. entry \in [Names -> {"none", "queued", "active"}] BY DEF TypeOK
    <2>4. \A b \in Names : b # a /\ Busy(b) => Busy(b)' BY <2>1, <2>a
    \* A run that stays, or goes on from where it had reported.
    <2>5. ASSUME a # "analyzer", ~At(r, "end"), ~At(r, "release") PROVE Busy(a)'
        <3>1. new # NoRun BY <2>1, <2>2, <2>5 DEF At
        <3>2. new.agent = a /\ new.pc # "release" BY <2>1, <2>2, <2>5, <2>a, <3>1 DEF Good, At
        <3> QED BY <2>1, <3>1, <3>2
    <2>6. ASSUME a # "analyzer", ~At(r, "end"), Busy(a) PROVE Busy(a)'
        <3>1. PICK q \in Runs : run[q] # NoRun /\ run[q].agent = a /\ run[q].pc # "release"
            BY <2>6
        <3>2. CASE q = r BY <2>5, <2>6, <3>1, <3>2 DEF At
        <3>3. CASE q # r BY <2>1, <3>1, <3>3
        <3> QED BY <3>2, <3>3
    <2> HIDE DEF Busy
    <2>7. ASSUME NEW b \in Names \ {"analyzer"}, entry'[b] = "active" PROVE Busy(b)'
        <3>1. CASE b # a
            <4>1. entry[b] = "active" BY <2>2, <2>3, <2>7, <3>1 DEF Report
            <4> QED BY <2>4, <2>7, <3>1, <4>1 DEF Shown
        <3>2. CASE b = a
            <4>1. ~At(r, "end") BY <2>2, <2>3, <2>7, <3>2
            <4>2. entry' = entry \/ ~At(r, "release") BY <2>2, <4>1
            <4> QED BY <2>5, <2>6, <2>7, <3>2, <4>1, <4>2 DEF Shown
        <3> QED BY <3>1, <3>2
    <2>8. ASSUME sentry' PROVE Busy("guardian")'
        <3>1. CASE a # "guardian" BY <1>0, <2>2, <2>4, <2>8, <3>1 DEF Shown
        <3>2. CASE a = "guardian" BY <2>2, <2>5, <2>6, <2>8, <3>2 DEF Shown
        <3> QED BY <3>1, <3>2
    <2> QED BY <2>7, <2>8 DEF Shown
<1>3. CASE Around
    <2>1. \A b \in Names : Busy(b) => Busy(b)' BY <1>3, AroundRuns
    <2> QED BY <1>0, <1>3, <2>1, AroundRuns DEF Shown
<1>4. CASE Crash \/ Shutdown BY <1>4, RestartType DEF Shown
<1>5. CASE UNCHANGED vars BY <1>5 DEF Shown, vars
<1> QED BY <1>1, <1>2, <1>3, <1>4, <1>5, NextCases

\* No agent but the analyzer shows as active, and the guardian has no tier,
\* unless one of its runs is at work.
THEOREM ActiveHasRun == Spec => []EntryHasRun
<1>1. Init => TypeOK /\ Courteous /\ Shown
    <2> SUFFICES ASSUME Init PROVE TypeOK /\ Courteous /\ Shown OBVIOUS
    <2>1. Shown BY DEF Init, Shown
    <2> QED BY <2>1, TypeInit
<1>2. Shown => EntryHasRun BY DEF Shown, EntryHasRun, Busy
<1>3. Spec => [](TypeOK /\ Courteous /\ Shown) BY <1>1, TypeNext, ShownNext, PTL DEF Spec
<1> QED BY <1>2, <1>3, PTL

-----------------------------------------------------------------------------
(* No run goes back.                                                       *)

\* Whatever models and services answer, a step of a run leaves it with fewer
\* steps to go.
THEOREM RunsComeCloser == Spec => NoWayBack
<1> DEFINE Closer == \A r \in Runs : run[r] # NoRun /\ run'[r] \notin {run[r], NoRun} =>
                         StepsLeft(run'[r]) < StepsLeft(run[r])
<1>1. TypeOK /\ Courteous /\ [Next]_vars => Closer
    <2> SUFFICES ASSUME TypeOK, Courteous, [Next]_vars PROVE Closer OBVIOUS
    <2>1. ASSUME Fills PROVE Closer BY <2>1 DEF Fills, TypeOK
    <2>2. ASSUME NEW r \in Runs, Step(r) PROVE Closer
        <3>1. PICK new \in Run \union {NoRun} :
                  /\ run'[r] = new
                  /\ \A q \in Runs \ {r} : run'[q] = run[q]
                  /\ new # NoRun => Good(run[r], new)
            BY <2>2, StepRuns
        <3> QED BY <3>1 DEF Good
    <2>3. CASE Around BY <2>3, AroundRuns
    <2>4. CASE Crash \/ Shutdown BY <2>4, RestartType
    <2>5. CASE UNCHANGED vars BY <2>5 DEF vars
    <2> QED BY <2>1, <2>2, <2>3, <2>4, <2>5, NextCases
<1>2. Spec => [](TypeOK /\ Courteous) BY TypeInit, TypeNext, PTL DEF Spec
<1> HIDE DEF Closer
<1>3. TypeOK /\ Courteous /\ [Next]_vars => [Closer]_vars BY <1>1
<1>4. Spec => [][Closer]_vars BY <1>2, <1>3, PTL DEF Spec
<1> QED BY <1>4 DEF NoWayBack, Closer

-----------------------------------------------------------------------------
(* A chore is delivered once.                                              *)

\* What a run has still to do is due, and the chore it is at is not to come again.
Tasks(h) ==
    /\ h.todo \subseteq due
    /\ h.pc # "pick" => h.chore \in due /\ h.chore \notin h.todo

\* One courier run works at a time; what it has delivered it is about to mark.
Once ==
    /\ \A q, r \in Runs : Researching(run[q]) /\ Researching(run[r]) => q = r
    /\ \A r \in Runs : Researching(run[r]) => Tasks(run[r])
    /\ \A c \in Chores : reports[c] <= 1
    /\ \A c \in due :
          \/ reports[c] = 0
          \/ \E r \in Runs : Researching(run[r]) /\ run[r].pc = "mark" /\ run[r].chore = c

\* A run that does not begin its chores, go on to another one or deliver.
Carries(h, new) ==
    Researching(new) =>
        /\ Researching(h) /\ new.todo = h.todo
        /\ new.pc = "pick" \/ (h.pc # "pick" /\ new.chore = h.chore)

LEMMA OnceCarried ==
    ASSUME TypeOK, Once, NEW r \in Runs, NEW new, run' = [run EXCEPT ![r] = new],
           due' = due, reports' = reports,
           Researching(run[r]) => run[r].pc # "mark",
           Carries(run[r], new)
    PROVE  Once'
<1>1. run'[r] = new /\ \A q \in Runs : q # r => run'[q] = run[q]
    BY DEF TypeOK
<1>2. \A q \in Runs : Researching(run'[q]) => Researching(run[q])
    BY <1>1 DEF Carries
<1>3. ASSUME NEW q \in Runs, Researching(run'[q]) PROVE Tasks(run[q])'
    <2>1. Tasks(run[q]) BY <1>2, <1>3 DEF Once
    <2>2. CASE q = r BY <1>1, <1>3, <2>1, <2>2 DEF Carries, Tasks
    <2>3. CASE q # r BY <1>1, <2>1, <2>3 DEF Tasks
    <2> QED BY <2>2, <2>3
<1>4. ASSUME NEW c \in due, reports[c] # 0
      PROVE  \E q \in Runs : Researching(run'[q]) /\ run'[q].pc = "mark" /\ run'[q].chore = c
    <2>1. PICK q \in Runs : Researching(run[q]) /\ run[q].pc = "mark" /\ run[q].chore = c
        BY <1>4 DEF Once
    <2> QED BY <1>1, <2>1
<1> QED BY <1>2, <1>3, <1>4 DEF Once

\* MarkRun: the chore of a run that works alone is not due any more.
LEMMA OnceMarked ==
    ASSUME TypeOK, Once, NEW r \in Runs, Researching(run[r]), run[r].pc # "pick",
           NEW new, run' = [run EXCEPT ![r] = new],
           Researching(new) => new.pc = "pick" /\ new.todo = run[r].todo,
           due' = due \ {run[r].chore}, reports' = reports
    PROVE  Once'
<1>1. run'[r] = new /\ \A q \in Runs : q # r => run'[q] = run[q]
    BY DEF TypeOK
<1>2. \A q \in Runs : Researching(run[q]) => q = r BY DEF Once
<1>3. \A q \in Runs : Researching(run'[q]) => q = r BY <1>1, <1>2
<1>4. Tasks(run[r]) BY DEF Once
<1>5. Researching(new) => Tasks(new)' BY <1>4 DEF Tasks
<1>6. ASSUME NEW c \in due' PROVE reports[c] = 0
    <2>1. c \in due /\ c # run[r].chore OBVIOUS
    <2> QED BY <1>2, <2>1 DEF Once
<1> QED BY <1>1, <1>3, <1>5, <1>6 DEF Once

LEMMA OnceBegin ==
    ASSUME TypeOK, Once, NEW r \in Runs, Begin(r), run[r].agent = "courier", ~shared'
    PROVE  Once'
<1>1. run[r] \in Run /\ run[r].pc = "begin" BY DEF Begin, At, TypeOK
<1>2. ~Researching(run[r]) BY <1>1 DEF Researching
<1>3. due' = due /\ reports' = reports BY DEF Begin
<1>4. PICK new : /\ run' = [run EXCEPT ![r] = new]
                 /\ \A q \in Runs \ {r} : ~Researching(run[q])
                 /\ new = [run[r] EXCEPT !.pc = "pick", !.tier = "researcher", !.todo = due]
    <2>1. FirstTier(r) = "researcher" /\ FirstPc("courier") = "pick"
        BY DEF FirstTier, FirstPc
    <2>2. Set(r, [run[r] EXCEPT !.pc = "pick", !.tier = "researcher", !.todo = due])
        BY <2>1 DEF Begin
    <2>3. \A q \in Runs \ {r} : ~Researching(run[q])
        BY <2>1 DEF Begin
    <2> QED BY <2>2, <2>3 DEF Set
<1>5. new.todo = due /\ new.pc = "pick" BY <1>1, <1>4, RunIs
<1>6. run'[r] = new /\ \A q \in Runs : q # r => run'[q] = run[q]
    BY <1>4 DEF TypeOK
<1>7. \A q \in Runs : Researching(run'[q]) => q = r BY <1>4, <1>6
<1>8. Tasks(new)' BY <1>3, <1>5 DEF Tasks
<1>9. \A c \in due : reports[c] = 0 BY <1>2, <1>4 DEF Once
<1> QED BY <1>3, <1>6, <1>7, <1>8, <1>9 DEF Once

LEMMA OncePick ==
    ASSUME TypeOK, Once, NEW r \in Runs, CourierPick(r)
    PROVE  Once'
<1> DEFINE h == run[r]
<1>1. /\ h \in Run /\ h.pc = "pick" /\ h.agent = "courier" /\ h # NoRun
      /\ due' = due /\ reports' = reports
    BY DEF CourierPick, AtOf, At, TypeOK
<1>2. Researching(h) /\ Tasks(h) BY <1>1 DEF Researching, Once
<1>3. CASE \E c \in h.todo :
               Set(r, [h EXCEPT !.pc = "search", !.chore = c, !.todo = @ \ {c}])
    <2>1. PICK c \in h.todo :
              Set(r, [h EXCEPT !.pc = "search", !.chore = c, !.todo = @ \ {c}])
        BY <1>3
    <2>2. PICK new : new = [h EXCEPT !.pc = "search", !.chore = c, !.todo = @ \ {c}]
        OBVIOUS
    <2>3. new.pc = "search" /\ new.chore = c /\ new.todo = h.todo \ {c}
        BY <1>1, <2>2, RunIs
    <2>4. run' = [run EXCEPT ![r] = new] BY <2>1, <2>2 DEF Set
    <2>5. run'[r] = new /\ \A q \in Runs : q # r => run'[q] = run[q]
        BY <2>4 DEF TypeOK
    <2>6. \A q \in Runs : Researching(run'[q]) => q = r
        BY <1>2, <2>5 DEF Once
    <2>7. Tasks(new)' BY <1>1, <1>2, <2>3 DEF Tasks
    <2>8. \A c2 \in due : reports[c2] = 0
        BY <1>1, <1>2 DEF Once
    <2> QED BY <1>1, <2>5, <2>6, <2>7, <2>8 DEF Once
<1>4. CASE Set(r, [h EXCEPT !.pc = "compress", !.tier = "compressor"]) \/ To(r, "end")
    <2>1. PICK new : run' = [run EXCEPT ![r] = new] /\ new.pc \in {"compress", "end"}
        <3>1. /\ [h EXCEPT !.pc = "compress", !.tier = "compressor"].pc = "compress"
              /\ [h EXCEPT !.pc = "end"].pc = "end"
            BY <1>1, RunIs
        <3> QED BY <1>4, <3>1 DEF To, Set
    <2>2. Carries(h, new) BY <2>1 DEF Carries, Researching
    <2> QED BY <1>1, <2>1, <2>2, OnceCarried
<1> QED BY <1>3, <1>4 DEF CourierPick

LEMMA OnceSearch ==
    ASSUME TypeOK, Once, NEW r \in Runs, CourierSearch(r)
    PROVE  Once'
<1> DEFINE h == run[r]
<1>1. /\ h \in Run /\ h.pc = "search" /\ h.agent = "courier" /\ h # NoRun
      /\ reports' = reports
    BY DEF CourierSearch, AtOf, At, TypeOK
<1>2. Researching(h) BY <1>1 DEF Researching
<1>3. CASE Marked(h.chore) /\ Set(r, [h EXCEPT !.pc = "pick", !.chore = NoChore])
    <2>1. /\ [h EXCEPT !.pc = "pick", !.chore = NoChore].pc = "pick"
          /\ [h EXCEPT !.pc = "pick", !.chore = NoChore].todo = h.todo
        BY <1>1, RunIs
    <2> QED BY <1>1, <1>2, <1>3, <2>1, OnceMarked DEF Set, Marked
<1>4. CASE Set(r, Ask(h)) /\ UNCHANGED due
    <2>1. PICK new : new = Ask(h) OBVIOUS
    <2>2. new.todo = h.todo /\ new.chore = h.chore
        BY <1>1, <2>1, RunIs DEF Ask, Fresh
    <2>3. Carries(h, new) BY <1>1, <1>2, <2>2 DEF Carries
    <2>4. run' = [run EXCEPT ![r] = new] /\ due' = due BY <1>4, <2>1 DEF Set
    <2> QED BY <1>1, <2>3, <2>4, OnceCarried
<1> QED BY <1>3, <1>4 DEF CourierSearch

LEMMA OnceDeliver ==
    ASSUME TypeOK, Once, NEW r \in Runs, CourierDeliver(r)
    PROVE  Once'
<1> DEFINE h == run[r]
           c == h.chore
<1>1. /\ h \in Run /\ h.pc = "deliver" /\ h.agent = "courier" /\ h # NoRun
      /\ due' = due /\ To(r, "mark")
    BY DEF CourierDeliver, AtOf, At, TypeOK
<1>2. Researching(h) BY <1>1 DEF Researching
<1>3. Tasks(h) /\ \A q \in Runs : Researching(run[q]) => q = r BY <1>2 DEF Once
<1>4. c \in due /\ c \in Chores BY <1>1, <1>3 DEF Tasks, TypeOK
<1>5. \A d \in due : reports[d] = 0 BY <1>1, <1>3 DEF Once
<1>6. reports'[c] = 1 /\ \A d \in Chores : d # c => reports'[d] = reports[d]
    BY <1>4, <1>5 DEF CourierDeliver, TypeOK
<1>7. PICK new : /\ run' = [run EXCEPT ![r] = new]
                 /\ new = [h EXCEPT !.pc = "mark"]
    BY <1>1 DEF To, Set
<1>8. /\ new.pc = "mark" /\ new.chore = c /\ new.todo = h.todo /\ new.agent = "courier"
      /\ new \in Run
    <2>1. "mark" \in Pcs BY DEF Pcs
    <2> QED BY <1>1, <1>7, <2>1, RunIs
<1>9. run'[r] = new /\ \A q \in Runs : q # r => run'[q] = run[q]
    BY <1>7 DEF TypeOK
<1>10. Researching(new) BY <1>8, RunAssumption DEF Researching
<1>11. \A q \in Runs : Researching(run'[q]) => q = r BY <1>3, <1>9
<1>12. Tasks(new)' BY <1>1, <1>3, <1>8 DEF Tasks
<1>13. \A d \in Chores : reports'[d] <= 1 BY <1>6 DEF Once
<1>14. ASSUME NEW d \in due, reports'[d] # 0 PROVE d = c
    <2>1. d \in Chores BY DEF TypeOK
    <2> QED BY <1>5, <1>6, <1>14, <2>1
<1> QED BY <1>1, <1>8, <1>9, <1>10, <1>11, <1>12, <1>13, <1>14 DEF Once

LEMMA OnceMark ==
    ASSUME TypeOK, Once, NEW r \in Runs, CourierMark(r)
    PROVE  Once'
<1> DEFINE h == run[r]
<1>1. /\ h \in Run /\ h.pc = "mark" /\ h.agent = "courier" /\ h # NoRun
      /\ reports' = reports /\ due' = due \ {h.chore}
    BY DEF CourierMark, AtOf, At, TypeOK, Marked
<1>2. Researching(h) BY <1>1 DEF Researching
<1>3. PICK new : /\ run' = [run EXCEPT ![r] = new]
                 /\ new = [Fresh(h) EXCEPT !.pc = "pick", !.chore = NoChore, !.found = TRUE]
    BY DEF CourierMark, Set
<1>4. new.pc = "pick" /\ new.todo = h.todo
    BY <1>1, <1>3, LeaveEdit, TRUE \in BOOLEAN DEF Has
<1> QED BY <1>1, <1>2, <1>3, <1>4, OnceMarked

\* The steps of a courier run before and after its chores, and in the loop.
LEMMA OnceAside ==
    ASSUME TypeOK, Once, NEW r \in Runs, run[r] \in Run,
           Claim(r) \/ Acquire(r) \/ End(r) \/ Release(r) \/ Attempt(r) \/ CourierJudge(r)
           \/ CourierCompress(r)
    PROVE  Once'
<1> DEFINE h == run[r]
<1>1. /\ due' = due /\ reports' = reports /\ h.pc # "mark" /\ h # NoRun
    BY DEF Claim, Acquire, End, Release, Attempt, Left, ChatFails, SyntaxRejected, ReportsRejected,
           Accepted, GiveUp, Loop, CourierJudge, CourierCompress, At, AtOf
<1>2. CASE Claim(r) \/ Acquire(r) \/ CourierCompress(r)
    <2>1. PICK pc \in {"lock", "begin", "queued", "end"} : To(r, pc)
        BY <1>2 DEF Claim, Acquire, CourierCompress
    <2>2. PICK new : run' = [run EXCEPT ![r] = new] /\ new = [h EXCEPT !.pc = pc]
        BY <2>1 DEF To, Set
    <2>3. new.pc = pc BY <2>2, RunIs
    <2>4. Carries(h, new) BY <2>3 DEF Carries, Researching
    <2> QED BY <1>1, <2>2, <2>4, OnceCarried
<1>3. CASE End(r) \/ Release(r)
    <2>1. PICK new : /\ run' = [run EXCEPT ![r] = new]
                     /\ new = NoRun \/ new.pc = "release"
        BY <1>3 DEF End, Release, Set, Started
    <2>2. Carries(h, new) BY <2>1 DEF Carries, Researching
    <2> QED BY <1>1, <2>1, <2>2, OnceCarried
<1>4. CASE Attempt(r)
    <2>1. At(r, "loop") /\ \E new : Loop(r, new)
        BY <1>4 DEF Attempt, Left, ChatFails, SyntaxRejected, ReportsRejected, Accepted, GiveUp
    <2>2. PICK new : /\ Loop(r, new)
                     /\ new.todo = h.todo /\ new.chore = h.chore /\ new.agent = h.agent
        <3>1. /\ \A n \in Nat : [h EXCEPT !.attempts = n].todo = h.todo
                     /\ [h EXCEPT !.attempts = n].chore = h.chore
                     /\ [h EXCEPT !.attempts = n].agent = h.agent
            BY RunIs
        <3>2. CASE ChatFails(r)
            <4>1. PICK new : new = [h EXCEPT !.err = TRUE, !.attempts = @ + 1] OBVIOUS
            <4>2. new.todo = h.todo /\ new.chore = h.chore /\ new.agent = h.agent
                BY <4>1, RunIs
            <4> QED BY <3>2, <4>1, <4>2 DEF ChatFails
        <3>3. CASE SyntaxRejected(r)
            <4>1. PICK new : new = [h EXCEPT !.attempts = @ + 1] OBVIOUS
            <4>2. new.todo = h.todo /\ new.chore = h.chore /\ new.agent = h.agent
                BY <4>1, RunIs
            <4> QED BY <3>3, <4>1, <4>2 DEF SyntaxRejected
        <3>4. CASE ReportsRejected(r)
            <4>1. PICK found \in {"none", "rejected"} :
                      Loop(r, [h EXCEPT !.attempts = @ + 1, !.results = found])
                BY <3>4 DEF ReportsRejected
            <4>2. PICK new : new = [h EXCEPT !.attempts = @ + 1, !.results = found] OBVIOUS
            <4>3. new.todo = h.todo /\ new.chore = h.chore /\ new.agent = h.agent
                BY <4>2, RunIs
            <4> QED BY <4>1, <4>2, <4>3
        <3>5. CASE Accepted(r)
            <4>1. PICK found \in {"none", "accepted"} :
                      Loop(r, [h EXCEPT !.results = found, !.pc = "judge"])
                BY <3>5 DEF Accepted
            <4>2. PICK new : new = [h EXCEPT !.results = found, !.pc = "judge"] OBVIOUS
            <4>3. new.todo = h.todo /\ new.chore = h.chore /\ new.agent = h.agent
                BY <4>2, RunIs
            <4> QED BY <4>1, <4>2, <4>3
        <3>6. CASE GiveUp(r)
            <4>1. PICK new : new = [h EXCEPT !.err = TRUE, !.pc = "judge"] OBVIOUS
            <4>2. new.todo = h.todo /\ new.chore = h.chore /\ new.agent = h.agent
                BY <4>1, RunIs
            <4> QED BY <3>6, <4>1, <4>2 DEF GiveUp
        <3> QED BY <1>4, <3>2, <3>3, <3>4, <3>5, <3>6 DEF Attempt
    <2>3. h.pc = "loop" BY <2>1 DEF At
    <2>4. run' = [run EXCEPT ![r] = new] BY <2>2 DEF Loop, Set
    <2>5. Carries(h, new) BY <1>1, <2>2, <2>3 DEF Carries, Researching
    <2> QED BY <1>1, <2>4, <2>5, OnceCarried
<1>5. CASE CourierJudge(r)
    <2>1. h.pc = "judge" /\ h.agent = "courier" BY <1>5 DEF CourierJudge, AtOf, At
    <2>2. Researching(h) BY <1>1, <2>1 DEF Researching
    <2>3. PICK new : /\ run' = [run EXCEPT ![r] = new] /\ new.todo = h.todo
                     /\ new.pc = "pick" \/ new.chore = h.chore
        <3>1. /\ [h EXCEPT !.pc = "deliver"].todo = h.todo
              /\ [h EXCEPT !.pc = "deliver"].chore = h.chore
            BY RunIs
        <3>2. /\ [Fresh(h) EXCEPT !.pc = "pick", !.chore = NoChore].todo = h.todo
              /\ [Fresh(h) EXCEPT !.pc = "pick", !.chore = NoChore].pc = "pick"
            BY LeaveEdit, TRUE \in BOOLEAN DEF Has
        <3> QED BY <1>5, <3>1, <3>2 DEF CourierJudge, To, Set
    <2>4. Carries(h, new) BY <2>1, <2>2, <2>3 DEF Carries
    <2> QED BY <1>1, <2>1, <2>3, <2>4, OnceCarried
<1> QED BY <1>2, <1>3, <1>4, <1>5

LEMMA OnceStep ==
    ASSUME TypeOK, Courteous, Once, NEW r \in Runs, Step(r), ~shared'
    PROVE  Once'
<1>1. run[r] \in Run BY StepEffects DEF TypeOK
<1>2. CASE run[r].agent = "courier"
    <2>1. /\ ~GuardianJudge(r) /\ ~GuardianEmit(r) /\ ~AnalyzerPick(r) /\ ~AnalyzerJudge(r)
          /\ ~FabricatorReview(r) /\ ~FabricatorIssue(r) /\ ~FabricatorConstruct(r)
          /\ ~FabricatorDeploy(r) /\ ~FabricatorReport(r)
        BY <1>2 DEF GuardianJudge, GuardianEmit, AnalyzerPick, AnalyzerJudge, FabricatorReview,
           FabricatorIssue, FabricatorConstruct, FabricatorDeploy, FabricatorReport, AtOf
    <2> QED BY <1>1, <1>2, <2>1, OnceBegin, OncePick, OnceSearch, OnceDeliver, OnceMark,
           OnceAside DEF Step
<1>3. CASE run[r].agent # "courier"
    <2>1. PICK new \in Run \union {NoRun} :
              /\ run' = [run EXCEPT ![r] = new]
              /\ new # NoRun => Good(run[r], new)
        BY StepRuns
    <2>2. Carries(run[r], new) BY <1>3, <2>1 DEF Good, Carries, Researching
    <2>3. ~Researching(run[r]) BY <1>3 DEF Researching
    <2>4. due' = due /\ reports' = reports
        <3>1. ~CourierPick(r) /\ ~CourierSearch(r) /\ ~CourierJudge(r) /\ ~CourierDeliver(r)
              /\ ~CourierMark(r) /\ ~CourierCompress(r)
            BY <1>3 DEF CourierPick, CourierSearch, CourierJudge, CourierDeliver, CourierMark,
               CourierCompress, AtOf
        <3>2. CASE Claim(r) \/ Acquire(r) \/ Begin(r) \/ End(r) \/ Release(r) \/ Attempt(r)
            BY <3>2 DEF Claim, Acquire, Begin, End, Release, Attempt, ChatFails, SyntaxRejected,
               ReportsRejected, Accepted, GiveUp, Loop
        <3>3. CASE GuardianJudge(r) \/ GuardianEmit(r) \/ AnalyzerPick(r) \/ AnalyzerJudge(r)
            BY <3>3 DEF GuardianJudge, GuardianEmit, AnalyzerPick, AnalyzerJudge
        <3>4. CASE FabricatorReview(r) \/ FabricatorIssue(r) \/ FabricatorConstruct(r)
                   \/ FabricatorDeploy(r) \/ FabricatorReport(r)
            BY <3>4 DEF FabricatorReview, FabricatorIssue, FabricatorConstruct,
               FabricatorDeploy, FabricatorReport
        <3> QED BY <3>1, <3>2, <3>3, <3>4 DEF Step
    <2> QED BY <2>1, <2>2, <2>3, <2>4, OnceCarried
<1> QED BY <1>2, <1>3

LEMMA OnceDue ==
    ASSUME TypeOK, Once, NEW c \in Chores, Due(c)
    PROVE  Once'
<1>1. /\ run' = run /\ due' = due \union {c} /\ c \notin due
      /\ reports'[c] = 0 /\ \A d \in Chores : d # c => reports'[d] = reports[d]
    BY DEF Due, TypeOK
<1>2. \A r \in Runs : Researching(run[r]) => Tasks(run[r])'
    <2> SUFFICES ASSUME NEW r \in Runs, Researching(run[r]) PROVE Tasks(run[r])'
        OBVIOUS
    <2>1. Tasks(run[r]) BY DEF Once
    <2>2. run'[r] = run[r] BY <1>1
    <2> QED BY <1>1, <2>1, <2>2 DEF Tasks
<1>3. \A d \in Chores : reports'[d] <= 1 BY <1>1 DEF Once
<1>4. ASSUME NEW d \in due', reports'[d] # 0
      PROVE  \E r \in Runs : Researching(run[r]) /\ run[r].pc = "mark" /\ run[r].chore = d
    <2>1. d \in due /\ d \in Chores /\ d # c BY <1>1, <1>4 DEF TypeOK
    <2> QED BY <1>1, <1>4, <2>1 DEF Once
<1> QED BY <1>1, <1>2, <1>3, <1>4 DEF Once

OnceUnshared == ~shared /\ restarts = 0 => Once

LEMMA OnceNext ==
    ASSUME TypeOK, Courteous, OnceUnshared, [Next]_vars
    PROVE  OnceUnshared'
<1> SUFFICES ASSUME ~shared', restarts' = 0 PROVE Once'
    BY DEF OnceUnshared
<1>1. ASSUME Fills PROVE Once'
    <2>1. PICK r \in Runs, a \in Names, by \in {"tick", "http"}, pc \in {"claim", "begin"},
               tier \in Tiers :
               /\ run[r] = NoRun
               /\ run' = [run EXCEPT ![r] = Started(a, by, pc, tier)]
               /\ UNCHANGED <<due, reports, shared, restarts>>
        BY <1>1 DEF Fills
    <2>2. Once BY <2>1 DEF OnceUnshared
    <2>3. Carries(run[r], Started(a, by, pc, tier)) BY DEF Carries, Researching, Started
    <2>4. ~Researching(run[r]) BY <2>1 DEF Researching
    <2> QED BY <2>1, <2>2, <2>3, <2>4, OnceCarried
<1>2. ASSUME NEW r \in Runs, Step(r) PROVE Once'
    <2>1. restarts' = restarts BY <1>2, StepAdvances DEF Courteous, Advances
    <2>2. shared => shared'
        <3>1. shared' = shared \/ Begin(r)
            BY <1>2 DEF Step, Claim, Acquire, End, Release, Attempt, ChatFails, SyntaxRejected,
               ReportsRejected, Accepted, GiveUp, Loop, GuardianJudge, GuardianEmit,
               AnalyzerPick, AnalyzerJudge, FabricatorReview, FabricatorIssue,
               FabricatorConstruct, FabricatorDeploy, FabricatorReport, CourierPick,
               CourierSearch, CourierJudge, CourierDeliver, CourierMark, CourierCompress
        <3> QED BY <3>1 DEF Begin
    <2> QED BY <1>2, <2>1, <2>2, OnceStep DEF OnceUnshared
<1>3. CASE Around
    <2>1. UNCHANGED <<run, shared, restarts>>
        BY <1>3 DEF Around, CourierTrigger, Cool, EntryExpire, Due, ChatBegin, ChatEnd, Pause,
           Resume, Expire
    <2>2. Once BY <2>1 DEF OnceUnshared
    <2>3. CASE \E c \in Chores : Due(c) BY <2>2, <2>3, OnceDue
    <2>4. CASE ~(\E c \in Chores : Due(c))
        <3>1. UNCHANGED <<due, reports>>
            BY <1>3, <2>4 DEF Around, CourierTrigger, Cool, EntryExpire, ChatBegin, ChatEnd,
               Pause, Resume, Expire
        <3> QED BY <2>1, <2>2, <3>1 DEF Once, Tasks
    <2> QED BY <2>3, <2>4
<1>4. ~(Crash \/ Shutdown)
    <2> SUFFICES ASSUME Crash \/ Shutdown PROVE FALSE OBVIOUS
    <2>1. PICK left : Restart(left) BY DEF Crash, Shutdown
    <2>2. restarts' = restarts + 1 BY <2>1 DEF Restart
    <2> QED BY <2>2 DEF TypeOK
<1>5. CASE UNCHANGED vars
    <2>1. UNCHANGED <<run, due, reports, shared, restarts>> BY <1>5 DEF vars
    <2>2. Once BY <2>1 DEF OnceUnshared
    <2> QED BY <2>1, <2>2 DEF Once, Tasks
<1> QED BY <1>1, <1>2, <1>3, <1>4, <1>5, NextCases

\* A chore is delivered at most once while it is due, unless two courier runs
\* worked at a time or the service was restarted.
THEOREM DeliveredOnce == Spec => []OncePerDue
<1>1. Init => TypeOK /\ Courteous /\ OnceUnshared
    <2> SUFFICES ASSUME Init PROVE TypeOK /\ Courteous /\ OnceUnshared OBVIOUS
    <2>1. Once BY DEF Init, Once, Researching
    <2> QED BY <2>1, TypeInit DEF OnceUnshared
<1>2. OnceUnshared => OncePerDue BY DEF OnceUnshared, Once, OncePerDue
<1>3. TypeOK /\ Courteous /\ OnceUnshared /\ [Next]_vars => OnceUnshared' BY OnceNext
<1>4. Spec => [](TypeOK /\ Courteous /\ OnceUnshared) BY <1>1, <1>3, TypeNext, PTL DEF Spec
<1> QED BY <1>2, <1>4, PTL

=============================================================================
