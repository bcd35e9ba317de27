------------------------------ MODULE EventStore ------------------------------
(***************************************************************************)
(* The event store: the keys event:<id> and the sorted sets that index     *)
(* them (events:timeline, events:service:<s>, events:type:<t> and          *)
(* events:channel:<c>), under the operations of endpoints/events.go, the   *)
(* alert cleanup, the deletion tool and the error events that the executor *)
(* creates as children of an event whose handler failed.                   *)
(*                                                                         *)
(* Every Redis command is a step.  The code sends the commands of a        *)
(* creation or a deletion as a Pipeline, not as a transaction (TxPipeline):*)
(* commands of other clients may be served in between.                     *)
(*                                                                         *)
(* All events are of one service.  An index is the set of its members, its *)
(* scores are left out; so is what an event says beyond type and channel.  *)
(* Redis commands do not fail.                                             *)
(***************************************************************************)
EXTENDS Naturals, Sequences, FiniteSets, SequencesExt

CONSTANTS
    Clients,        \* goroutines that serve requests, and the deletion tool
    Worker,         \* the executor's worker
    Types,          \* event types of client events
    ErrorType,      \* "error_occurred"
    AlertType,      \* "system.notification.generated"
    Channels, NoChannel,
    Nothing,        \* a missing key
    Operations,     \* which requests are made
    Alone,          \* operations that meet no other ("fail": the worker's)
    Expiry,         \* TRUE: keys may reach their TTL
    MaxFails,       \* bound: handlers that can fail on one event
    MaxEvents,      \* bound: events created, children included
    MaxRequests     \* bound: requests other than creations

AllOperations == {"create", "delete", "bulk", "patch", "retype", "alerts", "tool"}

ASSUME StoreAssumption ==
    /\ Worker \notin Clients
    /\ ErrorType \notin Types /\ AlertType \notin Types /\ ErrorType # AlertType
    /\ NoChannel \notin Channels
    /\ Operations \subseteq AllOperations
    /\ Alone \subseteq AllOperations \union {"fail"}
    /\ Expiry \in BOOLEAN
    /\ MaxFails \in Nat /\ MaxEvents \in Nat /\ MaxRequests \in Nat

Ids      == 1 .. MaxEvents
AllTypes == Types \union {ErrorType, AlertType}
Timeline == <<"timeline", "">>
Service  == <<"service", "">>
OfType(t)    == <<"type", t>>
OfChannel(c) == <<"channel", c>>
Indexes  == {Timeline, Service} \union {OfType(t) : t \in AllTypes}
                                \union {OfChannel(c) : c \in Channels}

\* parent is 0 for an event without one.
Event    == [type: AllTypes, channel: Channels \union {NoChannel},
             parent: {0} \union Ids, children: Seq(Ids)]

ASSUME NothingAssumption == Nothing \notin Event

VARIABLES
    store,      \* store[i]: the value of event:<i>, or Nothing
    index,      \* index[n]: the members of a sorted set
    act,        \* act[a]: what a goroutine is doing
    jobs,       \* failing handler runs to come, by event
    memory,     \* memory[i]: the copy of event i that its queued runs share
    minted,     \* ids handed out
    spent,      \* ids promised: handed out, or for children of runs to come
    requests,   \* requests other than creations
    gone,       \* history: ids whose deletion has been carried out
    loose,      \* history: ids that the tool deleted, or whose type was patched
    copied      \* history: ids of which somebody had a copy when their key was deleted

vars == <<store, index, act, jobs, memory, minted, spent, requests, gone, loose, copied>>
data == <<store, index, jobs, memory, minted, spent, requests, gone, loose, copied>>

Actors == Clients \union {Worker}

\* on: the id worked on; ev: the copy of an event that was read or is to be
\* written; ids: ids still to be worked through, or made so far; types: the
\* filter of a bulk deletion; cmds: the rest of a pipeline.
Resting == [pc |-> "ready", op |-> "none", on |-> 0, ev |-> Nothing,
            ids |-> <<>>, types |-> {}, cmds |-> <<>>]

Steps == {"ready", "pipe", "created", "child", "update", "get", "getParent", "erase",
          "unlinkGet", "unlinkSet", "next", "patchGet", "patchSet", "finish", "failed"}

TypeOK ==
    /\ store \in [Ids -> Event \union {Nothing}]
    /\ index \in [Indexes -> SUBSET Ids]
    /\ jobs \in Seq(Ids)
    /\ memory \in [Ids -> Event \union {Nothing}]
    /\ spent \in 0 .. MaxEvents /\ minted \in 0 .. MaxEvents
    /\ requests \in 0 .. MaxRequests
    /\ gone \subseteq 1 .. minted /\ loose \subseteq 1 .. minted /\ copied \subseteq 1 .. minted
    /\ DOMAIN act = Actors
    /\ \A a \in Actors : /\ act[a].pc \in Steps
                         /\ act[a].on \in {0} \union Ids
                         /\ act[a].ev \in Event \union {Nothing}
                         /\ act[a].ids \in Seq(Ids)

Init ==
    /\ store = [i \in Ids |-> Nothing]
    /\ index = [n \in Indexes |-> {}]
    /\ act = [a \in Actors |-> Resting]
    /\ jobs = <<>>
    /\ memory = [i \in Ids |-> Nothing]
    /\ minted = 0 /\ spent = 0 /\ requests = 0
    /\ gone = {} /\ loose = {} /\ copied = {}

Members(s) == {s[k] : k \in DOMAIN s}

Stored(i)  == store[i] # Nothing
Entries(i) == {n \in Indexes : i \in index[n]}
Idle       == \A a \in Actors : act[a].pc = "ready"
Quiet      == Idle /\ jobs = <<>>

\* Somebody has read event i, or made it for runs to come, and may write it
\* again: a failing handler, the deletion of a child, a patch.
Held(i) ==
    \/ i \in Members(jobs)
    \/ \E a \in Actors : act[a].on = i /\
          \/ act[a].pc \in {"unlinkSet", "patchSet"}
          \/ act[a].op = "create" /\ act[a].ids # <<>>

\* A new id.  The bound never stops a child: Create has reserved its id.
Mint == minted < MaxEvents /\ minted' = minted + 1

Goto(a, pc) == act' = [act EXCEPT ![a].pc = pc]
Done(a)     == act' = [act EXCEPT ![a] = Resting]

-----------------------------------------------------------------------------
(* Pipelines.                                                              *)

\* The indexes an event is entered in, and is removed from when it is deleted.
IndexesOf(ev) ==
    <<Timeline, Service, OfType(ev.type)>>
    \o (IF ev.channel = NoChannel THEN <<>> ELSE <<OfChannel(ev.channel)>>)

Zadd(names) == [k \in DOMAIN names |-> [do |-> "zadd", name |-> names[k]]]
Zrem(names) == [k \in DOMAIN names |-> [do |-> "zrem", name |-> names[k]]]

\* Variants of a definition under a name of their own are slips that the
\* properties are there to notice; no action uses them.  Here: the channel's
\* index is forgotten, the type's index is not cleaned, and the tool leaves the
\* entries of an event whose key is missing.
CreateCommandsWithoutChannel(ev) ==
    <<[do |-> "set"]>> \o Zadd(<<Timeline, Service, OfType(ev.type)>>)

DeleteCommandsWithoutType(ev) ==
    <<[do |-> "del"]>> \o Zrem(SelectSeq(IndexesOf(ev), LAMBDA n : n # OfType(ev.type)))

ToolCommandsIfStored(ev) ==
    <<[do |-> "del"]>> \o Zrem(IF ev = Nothing THEN <<>> ELSE <<Timeline, Service>>)

CreateCommands(ev) == <<[do |-> "set"]>> \o Zadd(IndexesOf(ev))

DeleteCommands(ev) == <<[do |-> "del"]>> \o Zrem(IndexesOf(ev))

\* CleanupAlertsHandler, no pipeline here: one command after the other.
AlertCommands == <<[do |-> "del"]>> \o Zrem(<<Timeline, OfType(AlertType), Service>>)

\* The deletion tool searches the value for the service and nothing else.
ToolCommands(ev) ==
    <<[do |-> "del"]>> \o Zrem(IF ev = Nothing THEN <<Timeline>> ELSE <<Timeline, Service>>)

\* Variant: the parent of a deleted child is not updated.
AfterPipeWithoutUnlink(a) ==
    CASE act[a].op = "create" -> "created"
      [] act[a].op = "fail"   -> IF Len(act[a].ids) = 1 THEN "child" ELSE "update"
      [] act[a].op = "delete" -> IF act[a].ids # <<>> THEN "erase" ELSE "finish"
      [] OTHER                -> "next"

\* Where an actor goes on when its pipeline is through.
AfterPipe(a) ==
    CASE act[a].op = "create" -> "created"
      [] act[a].op = "fail"   -> IF Len(act[a].ids) = 1 THEN "child" ELSE "update"
      [] act[a].op = "delete" -> IF act[a].ids # <<>> THEN "erase"
                                 ELSE IF act[a].ev.parent # 0 THEN "unlinkGet" ELSE "finish"
      [] OTHER                -> "next"

\* The next command of a pipeline, on the id the actor works on.
Command(a) ==
    /\ act[a].pc = "pipe"
    /\ LET c    == Head(act[a].cmds)
           i    == act[a].on
           last == Len(act[a].cmds) = 1
       IN  /\ store' = CASE c.do = "set" -> [store EXCEPT ![i] = act[a].ev]
                         [] c.do = "del" -> [store EXCEPT ![i] = Nothing]
                         [] OTHER        -> store
           /\ index' = CASE c.do = "zadd" -> [index EXCEPT ![c.name] = @ \union {i}]
                         [] c.do = "zrem" -> [index EXCEPT ![c.name] = @ \ {i}]
                         [] OTHER         -> index
           /\ gone' = IF last /\ act[a].op \notin {"create", "fail"}
                      THEN gone \union {i} ELSE gone
           /\ loose' = IF act[a].op = "tool" THEN loose \union {i} ELSE loose
           /\ copied' = IF c.do # "del" THEN copied
                        ELSE IF Held(i) THEN copied \union {i} ELSE copied \ {i}
           /\ act' = [act EXCEPT ![a].cmds = Tail(@),
                                 ![a].pc = IF last THEN AfterPipe(a) ELSE "pipe"]
    /\ UNCHANGED <<jobs, memory, minted, spent, requests>>

-----------------------------------------------------------------------------
(* CreateEventHandler.                                                     *)

\* An operation that runs alone waits until everybody rests, and nobody begins
\* while it runs.
MayBegin(a, op) ==
    /\ act[a].pc = "ready"
    /\ op \in Operations \union {"fail"}
    /\ op \in Alone => IF op = "fail" THEN Idle ELSE Quiet
    /\ \A b \in Actors : act[b].op \notin Alone

\* fails handlers will fail on the event, and each creates two children.
Create(a) ==
    /\ MayBegin(a, "create")
    /\ \E t \in Types, ch \in Channels \union {NoChannel}, fails \in 0 .. MaxFails :
          /\ spent + 1 + 2 * fails <= MaxEvents
          /\ spent' = spent + 1 + 2 * fails
          /\ Mint
          /\ LET ev == [type |-> t, channel |-> ch, parent |-> 0, children |-> <<>>]
             IN  act' = [act EXCEPT ![a] =
                            [Resting EXCEPT !.pc = "pipe", !.op = "create", !.on = minted + 1,
                                !.ev = ev, !.cmds = CreateCommands(ev),
                                !.ids = [k \in 1 .. fails |-> minted + 1]]]
    /\ UNCHANGED <<store, index, jobs, memory, requests, gone, loose, copied>>

\* The handlers are queued, all with a pointer to one copy of the event.
Created(a) ==
    /\ act[a].pc = "created"
    /\ jobs' = jobs \o act[a].ids
    /\ memory' = IF act[a].ids = <<>> THEN memory
                 ELSE [memory EXCEPT ![act[a].on] = act[a].ev]
    /\ Done(a)
    /\ UNCHANGED <<store, index, minted, spent, requests, gone, loose, copied>>

-----------------------------------------------------------------------------
(* A handler fails: createErrorEvent.                                      *)

Fail ==
    /\ MayBegin(Worker, "fail")
    /\ jobs # <<>>
    /\ act' = [act EXCEPT ![Worker].pc = "child", ![Worker].op = "fail"]
    /\ UNCHANGED data

\* The error event, then the alert.  No channel entry for a child.
CreateChild ==
    /\ act[Worker].pc = "child"
    /\ Mint
    /\ LET made == act[Worker].ids
           ev   == [type |-> IF made = <<>> THEN ErrorType ELSE AlertType,
                    channel |-> NoChannel, parent |-> Head(jobs), children |-> <<>>]
       IN  act' = [act EXCEPT ![Worker].pc = "pipe", ![Worker].on = minted + 1,
                      ![Worker].ev = ev, ![Worker].cmds = CreateCommands(ev),
                      ![Worker].ids = Append(made, minted + 1)]
    /\ UNCHANGED <<store, index, jobs, memory, spent, requests, gone, loose, copied>>

\* Variant: a child that could not be created is listed with an empty id.
UpdateParentWithEmptyId ==
    /\ act[Worker].pc = "update"
    /\ LET i  == Head(jobs)
           ev == [memory[i] EXCEPT !.children = Append(act[Worker].ids, 0)]
       IN  /\ memory' = [memory EXCEPT ![i] = IF i \in Members(Tail(jobs)) THEN ev ELSE Nothing]
           /\ store' = [store EXCEPT ![i] = ev]
    /\ jobs' = Tail(jobs)
    /\ Done(Worker)
    /\ UNCHANGED <<index, minted, spent, requests, gone, loose, copied>>

\* updateEvent writes the copy in memory, with these children and no others.  The
\* copy goes with the last queued run that shares it.
UpdateParent ==
    /\ act[Worker].pc = "update"
    /\ LET i  == Head(jobs)
           ev == [memory[i] EXCEPT !.children = act[Worker].ids]
       IN  /\ memory' = [memory EXCEPT ![i] = IF i \in Members(Tail(jobs)) THEN ev ELSE Nothing]
           /\ store' = [store EXCEPT ![i] = ev]
    /\ jobs' = Tail(jobs)
    /\ Done(Worker)
    /\ UNCHANGED <<index, minted, spent, requests, gone, loose, copied>>

-----------------------------------------------------------------------------
(* DeleteEventHandler.  Requests name ids that are in the timeline.        *)

\* A request other than a creation begins with the fields of r.
Request(a, op, r) ==
    /\ MayBegin(a, op)
    /\ requests < MaxRequests /\ requests' = requests + 1
    /\ act' = [act EXCEPT ![a] = [r EXCEPT !.op = op]]
    /\ UNCHANGED <<store, index, jobs, memory, minted, spent, gone, loose, copied>>

Delete(a) ==
    \E i \in index[Timeline] :
        Request(a, "delete", [Resting EXCEPT !.pc = "get", !.on = i])

\* Variant: the children of the event are not deleted with it.
GetTargetWithoutChildren(a) ==
    /\ act[a].pc = "get"
    /\ LET ev == store[act[a].on]
       IN  IF ev = Nothing \/ (ev.parent # 0 /\ ev.children # <<>>)
           THEN Done(a)
           ELSE act' = [act EXCEPT ![a].ev = ev,
                           ![a].ids = <<act[a].on>>,
                           ![a].pc = IF ev.parent # 0 THEN "getParent" ELSE "erase"]
    /\ UNCHANGED data

\* 404 for a missing event, 403 for a child with children.  ids: the children
\* and then the event itself.
GetTarget(a) ==
    /\ act[a].pc = "get"
    /\ LET ev == store[act[a].on]
       IN  IF ev = Nothing \/ (ev.parent # 0 /\ ev.children # <<>>)
           THEN Done(a)
           ELSE act' = [act EXCEPT ![a].ev = ev,
                           ![a].ids = Append(ev.children, act[a].on),
                           ![a].pc = IF ev.parent # 0 THEN "getParent" ELSE "erase"]
    /\ UNCHANGED data

\* Variant: the first child is compared.
GetParentFirst(a) ==
    /\ act[a].pc = "getParent"
    /\ LET parent == store[act[a].ev.parent]
       IN  IF parent # Nothing /\ parent.children # <<>> /\ Head(parent.children) # act[a].on
           THEN Done(a)
           ELSE Goto(a, "erase")
    /\ UNCHANGED data

\* 403 unless the child is the last one its parent lists; a parent that is
\* missing or lists none does not object.
GetParent(a) ==
    /\ act[a].pc = "getParent"
    /\ LET parent == store[act[a].ev.parent]
       IN  IF parent # Nothing /\ parent.children # <<>> /\ Last(parent.children) # act[a].on
           THEN Done(a)
           ELSE Goto(a, "erase")
    /\ UNCHANGED data

\* deleteEventByID: a GET, then the pipeline.  A missing event ends a DELETE
\* request with 500; a bulk deletion passes over it.
Erase(a) ==
    /\ act[a].pc = "erase"
    /\ LET i  == Head(act[a].ids)
           ev == store[i]
       IN  IF ev # Nothing
           THEN act' = [act EXCEPT ![a].pc = "pipe", ![a].on = i, ![a].ids = Tail(@),
                                   ![a].cmds = DeleteCommands(ev)]
           ELSE act' = [act EXCEPT ![a].pc = IF act[a].op = "bulk" THEN "next" ELSE "failed",
                                   ![a].ids = Tail(@)]
    /\ UNCHANGED data

\* Ids are handed out once, and a parent lists a child once: one occurrence is all.
Without(ids, k) ==
    IF \E n \in DOMAIN ids : ids[n] = k
    THEN RemoveAt(ids, CHOOSE n \in DOMAIN ids : ids[n] = k) ELSE ids

\* removeChildFromParent reads the parent and writes it back without the child.
UnlinkGet(a) ==
    /\ act[a].pc = "unlinkGet"
    /\ LET parent == store[act[a].ev.parent]
       IN  IF parent = Nothing
           THEN Goto(a, "finish")
           ELSE act' = [act EXCEPT ![a].pc = "unlinkSet", ![a].on = act[a].ev.parent,
                           ![a].ev = [parent EXCEPT !.children = Without(@, act[a].on)]]
    /\ UNCHANGED data

UnlinkSet(a) ==
    /\ act[a].pc = "unlinkSet"
    /\ store' = [store EXCEPT ![act[a].on] = act[a].ev]
    /\ Goto(a, "finish")
    /\ UNCHANGED <<index, jobs, memory, minted, spent, requests, gone, loose, copied>>

\* 204, or 500.
Finish(a) ==
    /\ act[a].pc \in {"finish", "failed"}
    /\ Done(a)
    /\ UNCHANGED data

-----------------------------------------------------------------------------
(* Deletions of many events: a list of ids, worked through one by one.     *)

\* In the order of the timeline, which is that of the ids.
Ascending(ids) ==
    CHOOSE s \in [1 .. Cardinality(ids) -> ids] : \A j, k \in DOMAIN s : j < k => s[j] < s[k]

\* Without a type or a category everything goes but the protected types.
Bulk(a) ==
    \E types \in {{t} : t \in AllTypes} \union {AllTypes \ {AlertType}} :
        Request(a, "bulk", [Resting EXCEPT !.pc = "next", !.types = types,
                                           !.ids = Ascending(index[Timeline])])

Alerts(a) ==
    Request(a, "alerts", [Resting EXCEPT !.pc = "next",
                              !.ids = Reverse(Ascending(index[OfType(AlertType)]))])

Tool(a) ==
    \E ids \in SUBSET index[Timeline] \ {{}} :
        Request(a, "tool", [Resting EXCEPT !.pc = "next", !.ids = Ascending(ids)])

\* The next id of the list: erased, or passed over because it is missing, of
\* another type, or (alerts) has a title without the prefix asked for.
NextId(a) ==
    /\ act[a].pc = "next" /\ act[a].ids # <<>>
    /\ LET i       == Head(act[a].ids)
           ev      == store[i]
           skip    == [act EXCEPT ![a].ids = Tail(@)]
           erase(cmds) == [act EXCEPT ![a].pc = "pipe", ![a].on = i,
                                      ![a].ids = Tail(@), ![a].cmds = cmds]
       IN  \/ /\ act[a].op = "bulk"
              /\ act' = IF ev # Nothing /\ ev.type \in act[a].types
                        THEN [act EXCEPT ![a].pc = "erase"] ELSE skip
           \/ act[a].op = "alerts" /\ act' = skip
           \/ act[a].op = "alerts" /\ ev # Nothing /\ act' = erase(AlertCommands)
           \/ act[a].op = "tool" /\ act' = erase(ToolCommands(ev))
    /\ UNCHANGED data

ListDone(a) ==
    /\ act[a].pc = "next" /\ act[a].ids = <<>>
    /\ Done(a)
    /\ UNCHANGED data

-----------------------------------------------------------------------------
(* PatchEventHandler: GET, change, SET; the indexes are not touched.       *)

Patch(a) ==
    \E i \in index[Timeline], op \in {"patch", "retype"} :
        Request(a, op, [Resting EXCEPT !.pc = "patchGet", !.on = i])

\* Variant: a patch of a missing event makes a new one.
PatchGetMakingEvents(a) ==
    /\ act[a].pc = "patchGet"
    /\ act' = [act EXCEPT ![a].pc = "patchSet",
                  ![a].ev = [type |-> ErrorType, channel |-> NoChannel,
                             parent |-> 0, children |-> <<>>]]
    /\ UNCHANGED data

\* 404 for a missing event.  Only a "retype" changes type or channel.
PatchGet(a) ==
    /\ act[a].pc = "patchGet"
    /\ LET ev == store[act[a].on]
       IN  IF ev = Nothing
           THEN Done(a)
           ELSE \E t \in AllTypes, ch \in Channels \union {NoChannel} :
                   /\ act[a].op = "patch" => t = ev.type /\ ch = ev.channel
                   /\ act' = [act EXCEPT ![a].pc = "patchSet",
                                 ![a].ev = [ev EXCEPT !.type = t, !.channel = ch]]
    /\ UNCHANGED data

PatchSet(a) ==
    /\ act[a].pc = "patchSet"
    /\ store' = [store EXCEPT ![act[a].on] = act[a].ev]
    /\ loose' = IF act[a].op = "retype" THEN loose \union {act[a].on} ELSE loose
    /\ Done(a)
    /\ UNCHANGED <<index, jobs, memory, minted, spent, requests, gone, copied>>

-----------------------------------------------------------------------------

\* The TTL of a key runs out; index entries have none.
Expire(i) ==
    /\ Expiry /\ Stored(i)
    /\ store' = [store EXCEPT ![i] = Nothing]
    /\ UNCHANGED <<index, act, jobs, memory, minted, spent, requests, gone, loose, copied>>

Rest == Quiet /\ UNCHANGED vars

Step(a) ==
    \/ Create(a) \/ Created(a) \/ Command(a)
    \/ Delete(a) \/ GetTarget(a) \/ GetParent(a) \/ Erase(a)
    \/ UnlinkGet(a) \/ UnlinkSet(a) \/ Finish(a)
    \/ Bulk(a) \/ Alerts(a) \/ Tool(a) \/ NextId(a) \/ ListDone(a)
    \/ Patch(a) \/ PatchGet(a) \/ PatchSet(a)

WorkerStep == Fail \/ CreateChild \/ Command(Worker) \/ UpdateParent

Next ==
    \/ \E a \in Clients : Step(a)
    \/ WorkerStep
    \/ \E i \in Ids : Expire(i)
    \/ Rest

Spec == Init /\ [][Next]_vars

-----------------------------------------------------------------------------
(* Properties.                                                             *)

\* At rest an event that is stored can be found: it is in the timeline, in its
\* service's, its type's and its channel's index, whatever was created,
\* deleted and patched before.
Findable ==
    Quiet => \A i \in Ids : Stored(i) => Members(IndexesOf(store[i])) \subseteq Entries(i)

\* At rest parents and children agree: a listed child is stored and names its
\* parent, and a stored child whose parent is stored is listed there.
FamiliesAgree ==
    Quiet => \A p \in Ids : Stored(p) =>
        /\ \A c \in Members(store[p].children) : Stored(c) /\ store[c].parent = p
        /\ \A c \in Ids : Stored(c) /\ store[c].parent = p => c \in Members(store[p].children)

\* Deletions that overlap (of one event, of a parent and its child, one by one,
\* in bulk and by the tool) leave no entry of a deleted event in any index,
\* unless the tool deleted it or a patch has moved it to another type.
NoLeftovers == \A i \in gone \ loose : Entries(i) = {}

\* "If this event has children, delete them all (cascade delete)"
\* (endpoints/events.go:950): no DELETE request stops half way because a listed
\* child is missing (:953), and at rest no child of a deleted event is stored.
CascadeComplete ==
    /\ \A a \in Clients : act[a].pc # "failed"
    /\ Quiet => \A c \in Ids : Stored(c) => store[c].parent \notin gone

\* "Can only delete if it's the last child" (endpoints/events.go:926): a child
\* that a DELETE request removes has no younger sibling in the store.
LastChildOnly ==
    \A a \in Clients :
        /\ act[a].pc = "pipe" /\ act[a].op = "delete"
        /\ Head(act[a].cmds).do = "del"
        /\ act[a].ev.parent # 0
        => \A c \in Ids : Stored(c) /\ store[c].parent = act[a].ev.parent => c <= act[a].on

\* Whatever deletes an event, the tool included, whether its key has expired,
\* and whatever its type has been patched to: the timeline does not name it any
\* more.
Unlisted == \A i \in gone : i \notin index[Timeline]

\* An event whose deletion was carried out never comes back, whatever overlaps:
\* only a copy taken before its key went restores it (updateEvent,
\* removeChildFromParent and PATCH write what they have read).
StaysDeleted == \A i \in gone : Stored(i) => i \in copied

=============================================================================
