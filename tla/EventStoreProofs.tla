--------------------------- MODULE EventStoreProofs ---------------------------
(***************************************************************************)
(* Proofs about the event store, for any clients, types, channels, numbers *)
(* of events and failing handlers.                                         *)
(***************************************************************************)
EXTENDS EventStore, FiniteSetTheorems, SequenceTheorems, WellFoundedInduction, TLAPS

-----------------------------------------------------------------------------
(* What an actor may be doing.                                             *)

SetIt     == [do |-> "set"]
DelIt     == [do |-> "del"]
ZaddTo(n) == [do |-> "zadd", name |-> n]
ZremOf(n) == [do |-> "zrem", name |-> n]
Cmd == {SetIt, DelIt} \union {ZaddTo(n) : n \in Indexes} \union {ZremOf(n) : n \in Indexes}

Ops == Operations \union {"fail"}
Act == [pc: Steps, op: Ops \union {"none"}, on: {0} \union Ids, ev: Event \union {Nothing},
        ids: Seq(Ids), types: SUBSET AllTypes, cmds: Seq(Cmd)]

Making(h)   == h.pc = "pipe" /\ h.op \in {"create", "fail"}
Deleting(h) == h.pc = "pipe" /\ h.op \notin {"create", "fail"}

\* The new event is not in the timeline yet, so that nobody else knows its id.
Unseen(h) == Making(h) /\ Len(h.cmds) + 1 >= Len(CreateCommands(h.ev))

Suffix(s, t) ==
    Len(s) <= Len(t) /\ \A k \in 1 .. Len(s) : s[k] = t[Len(t) - Len(s) + k]

\* Which operation is at which step, and what it holds there.
Shape(h) ==
    /\ h.pc = "ready" => h = Resting
    /\ h.pc = "created" => h.op = "create"
    /\ h.pc \in {"child", "update"} => h.op = "fail"
    /\ h.pc \in {"get", "getParent", "unlinkGet", "unlinkSet"} => h.op = "delete"
    /\ h.pc = "erase" => h.op \in {"delete", "bulk"}
    /\ h.pc = "next" => h.op \in {"bulk", "alerts", "tool"}
    /\ h.pc \in {"patchGet", "patchSet"} => h.op \in {"patch", "retype"}
    /\ h.pc = "pipe" => h.op \notin {"patch", "retype", "none"}
    /\ h.pc \in {"finish", "failed"} => h.op = "delete"
    /\ h.pc \in {"pipe", "created", "get", "patchGet", "patchSet", "unlinkSet"} => h.on # 0
    /\ Making(h) \/ h.pc \in {"created", "getParent", "unlinkGet", "unlinkSet", "patchSet"}
       \/ (h.op = "delete" /\ h.pc \in {"erase", "pipe"}) => h.ev # Nothing
    /\ h.pc \in {"getParent", "unlinkGet"} => h.ev.parent # 0
    /\ h.op = "create" => Members(h.ids) \subseteq {h.on}
    /\ h.pc \in {"getParent", "erase"} => h.ids # <<>>
    /\ h.pc = "pipe" => h.cmds # <<>>
    /\ Making(h) => Suffix(h.cmds, CreateCommands(h.ev))
    /\ Deleting(h) => \A k \in 1 .. Len(h.cmds) : h.cmds[k].do \in {"del", "zrem"}

\* Children and parents that an event names are known.
Refers(ev, S) ==
    ev # Nothing => /\ Members(ev.children) \subseteq S
                    /\ ev.parent # 0 => ev.parent \in S

\* The ids an actor works on are known, but for the one it makes.
Placed(h, S) ==
    /\ Refers(h.ev, S)
    /\ Unseen(h) \/ h.on \in {0} \union S
    /\ Members(h.ids) \subseteq S \union (IF Making(h) THEN {h.on} ELSE {})

Seen == {i \in 1 .. minted : \A a \in Actors : Unseen(act[a]) => act[a].on # i}

Working ==
    /\ act \in [Actors -> Act]
    /\ \A a \in Actors : Shape(act[a]) /\ Placed(act[a], Seen)
    /\ \A a \in Clients : act[a].op # "fail"
    /\ act[Worker].op \in {"none", "fail"}
    /\ act[Worker].op = "fail" => jobs # <<>>
    /\ \A a, b \in Actors : Unseen(act[a]) /\ Unseen(act[b]) /\ act[a].on = act[b].on => a = b
    /\ \A a \in Actors : Unseen(act[a]) => act[a].on <= minted

Kept ==
    /\ \A n \in Indexes : index[n] \subseteq Seen
    /\ \A k \in 1 .. Len(jobs) : jobs[k] \in Seen /\ memory[jobs[k]] # Nothing
    /\ \A i \in Ids : /\ memory[i] # Nothing => i \in Seen
                      /\ store[i] # Nothing => i <= minted
                      /\ Refers(store[i], Seen)
                      /\ Refers(memory[i], Seen)
    /\ gone \subseteq Seen /\ loose \subseteq Seen /\ copied \subseteq Seen

Base == TypeOK /\ Working /\ Kept

-----------------------------------------------------------------------------
Cleans == \A a \in Actors : Deleting(act[a]) =>
    act[a].on \notin index[Timeline] \/ ZremOf(Timeline) \in Members(act[a].cmds)

Listing == Cleans /\ Unlisted

Solo == \A a, b \in Actors : act[a].op \in Alone /\ a # b => act[b].pc = "ready"

\* The key of i has gone with a deletion that is under way or over.
Cleared(i) == \/ i \in gone
              \/ \E a \in Actors : /\ Deleting(act[a]) /\ act[a].on = i
                                   /\ DelIt \notin Members(act[a].cmds)
Deletion == \A i \in Ids \ copied : Cleared(i) => ~Stored(i) /\ ~Held(i)

MakingAlone == {"create", "fail"} \subseteq Alone

Carries(h, i) == h.on = i /\ \/ Making(h) \/ h.pc \in {"created", "unlinkSet"}
                             \/ h.pc = "patchSet" /\ h.op = "patch"
Copies(i) == ({store[i], memory[i]} \union {act[a].ev : a \in {b \in Actors : Carries(act[b], i)}})
             \ {Nothing}
Names(ev) == {Timeline, Service, OfType(ev.type)}
             \union (IF ev.channel = NoChannel THEN {} ELSE {OfChannel(ev.channel)})

Alike(i) == \A x, y \in Copies(i) : x.type = y.type /\ x.channel = y.channel
Entered(i) == \A x \in Copies(i) : Entries(i) \subseteq Names(x) /\ (x.type = AlertType => x.channel = NoChannel)
Faithful == \A i \in Ids \ loose : Alike(i) /\ Entered(i)
Sweeps == \A a \in Actors : Deleting(act[a]) /\ act[a].op # "tool" /\ act[a].on \notin loose =>
    \A n \in Entries(act[a].on) : ZremOf(n) \in Members(act[a].cmds)
Alarms == \A a \in Actors : act[a].op = "alerts" =>
    \A i \in Members(act[a].ids) \ loose : \A x \in Copies(i) : x.type = AlertType
Newborn == \A a \in Actors : Making(act[a]) => act[a].on \notin gone
Leftovers == Faithful /\ Sweeps /\ Alarms /\ Newborn /\ NoLeftovers

-----------------------------------------------------------------------------
(* Sequences.                                                              *)

LEMMA MembersOf ==
    ASSUME NEW S, NEW s \in Seq(S)
    PROVE  /\ Len(s) \in Nat /\ DOMAIN s = 1 .. Len(s)
           /\ Members(s) \subseteq S
           /\ \A k \in 1 .. Len(s) : s[k] \in Members(s)
           /\ \A x \in Members(s) : \E k \in 1 .. Len(s) : s[k] = x
           /\ (s = <<>> <=> Len(s) = 0)
BY DEF Members

LEMMA TailOf ==
    ASSUME NEW S, NEW s \in Seq(S), s # <<>>
    PROVE  /\ Len(s) >= 1 /\ Head(s) = s[1] /\ Head(s) \in S
           /\ Tail(s) \in Seq(S) /\ Len(Tail(s)) = Len(s) - 1
           /\ \A k \in 1 .. Len(Tail(s)) : Tail(s)[k] = s[k + 1]
           /\ Members(s) = {Head(s)} \union Members(Tail(s))
<1>1. /\ Len(s) >= 1 /\ Len(s) \in Nat /\ Head(s) = s[1] /\ Head(s) \in S
      /\ Tail(s) \in Seq(S) /\ Len(Tail(s)) = Len(s) - 1
      /\ \A k \in 1 .. Len(Tail(s)) : Tail(s)[k] = s[k + 1]
    OBVIOUS
<1>2. Members(s) \subseteq {Head(s)} \union Members(Tail(s))
    <2> SUFFICES ASSUME NEW x \in Members(s), x # s[1] PROVE x \in Members(Tail(s)) BY <1>1
    <2>1. PICK k \in 1 .. Len(s) : s[k] = x BY MembersOf
    <2>2. k - 1 \in 1 .. Len(Tail(s)) /\ Tail(s)[k - 1] = x BY <1>1, <2>1
    <2> QED BY <1>1, <2>2, MembersOf
<1>3. Members(Tail(s)) \subseteq Members(s)
    <2> SUFFICES ASSUME NEW x \in Members(Tail(s)) PROVE x \in Members(s) OBVIOUS
    <2>0. Tail(s) \in Seq(S) BY <1>1
    <2>1. PICK k \in 1 .. Len(Tail(s)) : Tail(s)[k] = x BY <2>0, MembersOf
    <2>2. k + 1 \in 1 .. Len(s) /\ s[k + 1] = x BY <1>1, <2>1
    <2> QED BY <2>2, MembersOf
<1>4. Head(s) \in Members(s) BY <1>1, MembersOf
<1> QED BY <1>1, <1>2, <1>3, <1>4

LEMMA TailSuffix ==
    ASSUME NEW S, NEW s \in Seq(S), s # <<>>, NEW t \in Seq(S), Suffix(s, t)
    PROVE  Suffix(Tail(s), t)
BY TailOf DEF Suffix

LEMMA AppendOf ==
    ASSUME NEW S, NEW s \in Seq(S), NEW x \in S
    PROVE  /\ Append(s, x) \in Seq(S) /\ Len(Append(s, x)) = Len(s) + 1 /\ Append(s, x) # <<>>
           /\ Members(Append(s, x)) = Members(s) \union {x}
<1> DEFINE t == Append(s, x)
<1>1. /\ t \in Seq(S) /\ Len(t) = Len(s) + 1 /\ Len(s) \in Nat /\ t # <<>>
      /\ \A k \in 1 .. Len(s) : t[k] = s[k]
      /\ t[Len(s) + 1] = x
    OBVIOUS
<1> HIDE DEF t
<1>2. Members(t) \subseteq Members(s) \union {x}
    <2> SUFFICES ASSUME NEW y \in Members(t), y # x PROVE y \in Members(s) OBVIOUS
    <2>1. PICK k \in 1 .. Len(t) : t[k] = y BY <1>1, MembersOf
    <2>2. k \in 1 .. Len(s) /\ s[k] = y BY <1>1, <2>1
    <2> QED BY <2>2, MembersOf
<1>3. Members(s) \subseteq Members(t)
    <2> SUFFICES ASSUME NEW y \in Members(s) PROVE y \in Members(t) OBVIOUS
    <2>1. PICK k \in 1 .. Len(s) : s[k] = y BY MembersOf
    <2>2. k \in 1 .. Len(t) /\ t[k] = y BY <1>1, <2>1
    <2> QED BY <1>1, <2>2, MembersOf
<1>4. x \in Members(t) BY <1>1, MembersOf
<1> QED BY <1>1, <1>2, <1>3, <1>4 DEF t

LEMMA ReverseOf ==
    ASSUME NEW S, NEW s \in Seq(S)
    PROVE  Reverse(s) \in Seq(S) /\ Members(Reverse(s)) \subseteq Members(s)
<1>1. Len(s) \in Nat OBVIOUS
<1>2. \A k \in 1 .. Len(s) : Len(s) - k + 1 \in 1 .. Len(s) BY <1>1
<1>3. Reverse(s) \in Seq(S) /\ Len(Reverse(s)) = Len(s)
    BY <1>1, <1>2 DEF Reverse
<1>4. ASSUME NEW x \in Members(Reverse(s)) PROVE x \in Members(s)
    <2>1. PICK k \in 1 .. Len(s) : Reverse(s)[k] = x BY <1>3, <1>4, MembersOf
    <2>2. x = s[Len(s) - k + 1] BY <2>1 DEF Reverse
    <2> QED BY <1>2, <2>2, MembersOf
<1> QED BY <1>3, <1>4

\* An occurrence of x is taken out.
LEMMA WithoutIs ==
    ASSUME NEW S, NEW s \in Seq(S), NEW x
    PROVE  \/ x \notin Members(s) /\ Without(s, x) = s
           \/ /\ Without(s, x) \in Seq(S) /\ Len(Without(s, x)) = Len(s) - 1
              /\ \E n \in 1 .. Len(s) :
                    /\ s[n] = x
                    /\ \A k \in 1 .. Len(s) - 1 : Without(s, x)[k] = IF k < n THEN s[k] ELSE s[k + 1]
<1>1. Len(s) \in Nat /\ DOMAIN s = 1 .. Len(s) BY MembersOf
<1>2. CASE ~ \E n \in DOMAIN s : s[n] = x
    <2>1. Without(s, x) = s BY <1>2 DEF Without
    <2>2. x \notin Members(s) BY <1>2 DEF Members
    <2> QED BY <2>1, <2>2
<1>3. CASE \E n \in DOMAIN s : s[n] = x
    <2> DEFINE n == CHOOSE n \in DOMAIN s : s[n] = x
               u == SubSeq(s, 1, n - 1)
               v == SubSeq(s, n + 1, Len(s))
    <2>1. n \in 1 .. Len(s) /\ s[n] = x BY <1>1, <1>3
    <2>2. Without(s, x) = u \o v BY <1>3 DEF Without, RemoveAt
    <2> HIDE DEF n
    <2>3. \A k \in 1 .. Len(s) : s[k] \in S OBVIOUS
    <2>4. u \in Seq(S) /\ Len(u) = n - 1 /\ \A k \in 1 .. n - 1 : u[k] = s[k]
        <3>1. \A k \in 1 .. n - 1 : s[k] \in S BY <1>1, <2>1, <2>3
        <3>2. 1 \in Int /\ n - 1 \in Int BY <2>1
        <3>3. /\ u \in Seq(S)
              /\ Len(u) = IF 1 <= n - 1 THEN n - 1 - 1 + 1 ELSE 0
              /\ \A k \in 1 .. n - 1 - 1 + 1 : u[k] = s[1 + k - 1]
            BY <3>1, <3>2, SubSeqProperties
        <3> HIDE DEF u
        <3> QED BY <1>1, <2>1, <3>3
    <2>5. v \in Seq(S) /\ Len(v) = Len(s) - n /\ \A k \in 1 .. Len(s) - n : v[k] = s[n + k]
        <3>1. \A k \in n + 1 .. Len(s) : s[k] \in S BY <1>1, <2>1, <2>3
        <3>2. n + 1 \in Int /\ Len(s) \in Int BY <1>1, <2>1
        <3>3. /\ v \in Seq(S)
              /\ Len(v) = IF n + 1 <= Len(s) THEN Len(s) - (n + 1) + 1 ELSE 0
              /\ \A k \in 1 .. Len(s) - (n + 1) + 1 : v[k] = s[n + 1 + k - 1]
            BY <3>1, <3>2, SubSeqProperties
        <3> HIDE DEF v
        <3>4. Len(v) = Len(s) - n
            <4>1. Len(s) - (n + 1) + 1 = Len(s) - n BY <1>1, <2>1
            <4>2. ASSUME ~(n + 1 <= Len(s)) PROVE Len(s) - n = 0
                <5>1. n \in Nat /\ n <= Len(s) /\ Len(s) \in Nat BY <1>1, <2>1
                <5>2. n = Len(s) BY <4>2, <5>1
                <5> QED BY <5>1, <5>2
            <4> QED BY <3>3, <4>1, <4>2
        <3>5. ASSUME NEW k \in 1 .. Len(s) - n PROVE v[k] = s[n + k]
            <4>1. k \in 1 .. Len(s) - (n + 1) + 1 /\ n + 1 + k - 1 = n + k BY <1>1, <2>1
            <4> QED BY <3>3, <4>1
        <3> QED BY <3>3, <3>4, <3>5
    <2> HIDE DEF u, v
    <2>6. /\ u \o v \in Seq(S) /\ Len(u \o v) = Len(s) - 1
          /\ \A k \in 1 .. Len(s) - 1 : (u \o v)[k] = IF k < n THEN s[k] ELSE s[k + 1]
        <3>1. /\ u \o v \in Seq(S)
              /\ Len(u \o v) = Len(u) + Len(v)
              /\ \A k \in 1 .. Len(u) + Len(v) : (u \o v)[k] = IF k <= Len(u) THEN u[k] ELSE v[k - Len(u)]
            BY <2>4, <2>5, ConcatProperties
        <3>2. Len(u) = n - 1 /\ Len(v) = Len(s) - n BY <2>4, <2>5
        <3>3. ASSUME NEW k \in 1 .. Len(s) - 1
              PROVE  (u \o v)[k] = IF k < n THEN s[k] ELSE s[k + 1]
            <4>1. k \in 1 .. Len(u) + Len(v) BY <1>1, <2>1, <3>2
            <4>2. CASE k < n
                <5>1. k \in 1 .. n - 1 /\ k <= Len(u) BY <2>1, <3>2, <4>2
                <5> QED BY <2>4, <3>1, <4>1, <4>2, <5>1
            <4>3. CASE ~(k < n)
                <5>1. /\ ~(k <= Len(u)) /\ k - Len(u) \in 1 .. Len(s) - n /\ n + (k - Len(u)) = k + 1
                    BY <1>1, <2>1, <3>2, <4>3
                <5> QED BY <2>5, <3>1, <4>1, <4>3, <5>1
            <4> QED BY <4>2, <4>3
        <3> QED BY <1>1, <2>1, <3>1, <3>2, <3>3
    <2> QED BY <2>1, <2>2, <2>6
<1> QED BY <1>2, <1>3

LEMMA WithoutOf ==
    ASSUME NEW S, NEW s \in Seq(S), NEW x
    PROVE  Without(s, x) \in Seq(S) /\ Members(Without(s, x)) \subseteq Members(s)
<1> DEFINE w == Without(s, x)
<1>1. CASE w = s BY <1>1
<1> HIDE DEF w
<1>2. CASE /\ w \in Seq(S) /\ Len(w) = Len(s) - 1
           /\ \E n \in 1 .. Len(s) :
                 s[n] = x /\ \A k \in 1 .. Len(s) - 1 : w[k] = IF k < n THEN s[k] ELSE s[k + 1]
    <2>1. PICK n \in 1 .. Len(s) : \A k \in 1 .. Len(s) - 1 : w[k] = IF k < n THEN s[k] ELSE s[k + 1]
        BY <1>2
    <2>2. ASSUME NEW y \in Members(w) PROVE y \in Members(s)
        <3>1. PICK k \in 1 .. Len(w) : w[k] = y BY <1>2, <2>2, MembersOf
        <3>2. k \in 1 .. Len(s) - 1 /\ Len(s) \in Nat BY <1>2, <3>1, MembersOf
        <3>3. y = s[k] \/ y = s[k + 1] BY <2>1, <3>1, <3>2
        <3>4. k \in 1 .. Len(s) /\ k + 1 \in 1 .. Len(s) BY <3>2
        <3> QED BY <3>3, <3>4, MembersOf
    <2> QED BY <1>2, <2>2 DEF w
<1> QED BY <1>1, <1>2, WithoutIs DEF w

LEMMA Least ==
    ASSUME NEW T \in SUBSET Nat, T # {}
    PROVE  \E x \in T : \A y \in T : x <= y
<1> DEFINE R == OpToRel(<, Nat)
<1>1. R = {ss \in Nat \X Nat : ss[1] < ss[2]} BY DEF OpToRel
<1>2. IsWellFoundedOn(R, Nat) BY NatLessThanWellFounded
<1> HIDE DEF R
<1>3. PICK x \in T : \A y \in T : <<y, x>> \notin R BY <1>2, WFMin
<1>4. ASSUME NEW y \in T PROVE x <= y
    <2>1. <<y, x>> \in Nat \X Nat BY <1>3
    <2>2. ~(y < x) BY <1>1, <1>3, <2>1
    <2> QED BY <1>3, <2>2
<1> QED BY <1>3, <1>4

LEMMA JoinOf ==
    ASSUME NEW S, NEW s \in Seq(S), NEW t \in Seq(S)
    PROVE  s \o t \in Seq(S) /\ Members(s \o t) = Members(s) \union Members(t)
<1>1. /\ s \o t \in Seq(S) /\ Len(s \o t) = Len(s) + Len(t) /\ Len(s) \in Nat /\ Len(t) \in Nat
      /\ \A k \in 1 .. Len(s) + Len(t) : (s \o t)[k] = IF k <= Len(s) THEN s[k] ELSE t[k - Len(s)]
    BY ConcatProperties
<1> DEFINE u == s \o t
<1>2. /\ u \in Seq(S) /\ Len(u) = Len(s) + Len(t)
      /\ \A k \in 1 .. Len(u) : u[k] = IF k <= Len(s) THEN s[k] ELSE t[k - Len(s)]
    BY <1>1
<1> HIDE DEF u
<1>3. ASSUME NEW x \in Members(u) PROVE x \in Members(s) \union Members(t)
    <2>1. PICK k \in 1 .. Len(u) : u[k] = x BY <1>2, <1>3, MembersOf
    <2>2. CASE k <= Len(s)
        <3>1. k \in 1 .. Len(s) /\ x = s[k] BY <1>1, <1>2, <2>1, <2>2
        <3> QED BY <3>1, MembersOf
    <2>3. CASE ~(k <= Len(s))
        <3>1. k - Len(s) \in 1 .. Len(t) /\ x = t[k - Len(s)] BY <1>1, <1>2, <2>1, <2>3
        <3> QED BY <3>1, MembersOf
    <2> QED BY <2>2, <2>3
<1>4. ASSUME NEW x \in Members(s) PROVE x \in Members(u)
    <2>1. PICK k \in 1 .. Len(s) : s[k] = x BY <1>4, MembersOf
    <2>2. k \in 1 .. Len(u) /\ u[k] = x BY <1>1, <1>2, <2>1
    <2> QED BY <1>2, <2>2, MembersOf
<1>5. ASSUME NEW x \in Members(t) PROVE x \in Members(u)
    <2>1. PICK k \in 1 .. Len(t) : t[k] = x BY <1>5, MembersOf
    <2>2. k + Len(s) \in 1 .. Len(u) /\ ~(k + Len(s) <= Len(s)) /\ k + Len(s) - Len(s) = k
        BY <1>1, <1>2, <2>1
    <2>3. u[k + Len(s)] = x BY <1>2, <2>1, <2>2
    <2> QED BY <1>2, <2>2, <2>3, MembersOf
<1> QED BY <1>1, <1>3, <1>4, <1>5 DEF u

-----------------------------------------------------------------------------
(* Pipelines.                                                              *)

LEMMA InFront ==
    ASSUME NEW S, NEW x \in S, NEW s \in Seq(S)
    PROVE  /\ <<x>> \o s \in Seq(S) /\ Len(<<x>> \o s) = Len(s) + 1 /\ <<x>> \o s # <<>>
           /\ (<<x>> \o s)[1] = x
           /\ \A k \in 1 .. Len(s) : (<<x>> \o s)[k + 1] = s[k]
           /\ Members(<<x>> \o s) = {x} \union Members(s)
<1> DEFINE t == <<x>> \o s
<1>1. <<x>> \in Seq(S) /\ Len(<<x>>) = 1 /\ <<x>>[1] = x /\ Len(s) \in Nat OBVIOUS
<1>2. /\ t \in Seq(S) /\ Len(t) = 1 + Len(s)
      /\ \A k \in 1 .. 1 + Len(s) : t[k] = IF k <= 1 THEN <<x>>[k] ELSE s[k - 1]
    BY <1>1, ConcatProperties
<1> HIDE DEF t
<1>3. t[1] = x BY <1>1, <1>2
<1>4. ASSUME NEW k \in 1 .. Len(s) PROVE t[k + 1] = s[k]
    <2>1. k + 1 \in 1 .. 1 + Len(s) /\ ~(k + 1 <= 1) /\ k + 1 - 1 = k BY <1>1
    <2> QED BY <1>2, <2>1
<1>5. t # <<>> /\ Len(t) = Len(s) + 1 BY <1>1, <1>2
<1>6. Head(t) = x /\ Tail(t) = s
    <2>1. Head(t) = x /\ Len(Tail(t)) = Len(s) /\ Tail(t) \in Seq(S)
          /\ \A k \in 1 .. Len(Tail(t)) : Tail(t)[k] = t[k + 1]
        BY <1>1, <1>2, <1>3, <1>5, TailOf
    <2>2. \A k \in 1 .. Len(s) : Tail(t)[k] = s[k] BY <1>4, <2>1
    <2> QED BY <2>1, <2>2, SeqEqual
<1>7. Members(t) = {x} \union Members(s) BY <1>2, <1>5, <1>6, TailOf
<1> QED BY <1>2, <1>3, <1>4, <1>5, <1>7 DEF t

LEMMA IndexesAre ==
    ASSUME NEW ev \in Event
    PROVE  /\ IndexesOf(ev) \in Seq(Indexes) /\ Len(IndexesOf(ev)) \in {3, 4}
           /\ IndexesOf(ev)[1] = Timeline
           /\ \A k \in 2 .. Len(IndexesOf(ev)) : IndexesOf(ev)[k] # Timeline
           /\ Members(IndexesOf(ev)) = Names(ev)
<1>1. ev.type \in AllTypes /\ ev.channel \in Channels \union {NoChannel} BY DEF Event
<1>2. /\ Timeline \in Indexes /\ Service \in Indexes /\ OfType(ev.type) \in Indexes
      /\ ev.channel # NoChannel => OfChannel(ev.channel) \in Indexes
    BY <1>1 DEF Indexes
<1> DEFINE s == <<Timeline, Service, OfType(ev.type)>>
           t == IF ev.channel = NoChannel THEN <<>> ELSE <<OfChannel(ev.channel)>>
<1>3. s \in Seq(Indexes) /\ Len(s) = 3 /\ s[1] = Timeline /\ s[2] = Service /\ s[3] = OfType(ev.type)
    BY <1>2
<1>4. /\ t \in Seq(Indexes) /\ Len(t) = IF ev.channel = NoChannel THEN 0 ELSE 1
      /\ ev.channel # NoChannel => t[1] = OfChannel(ev.channel)
    BY <1>2
<1>5. IndexesOf(ev) = s \o t BY DEF IndexesOf
<1> HIDE DEF s, t
<1>6. /\ s \o t \in Seq(Indexes) /\ Len(s \o t) = 3 + Len(t)
      /\ \A k \in 1 .. 3 + Len(t) : (s \o t)[k] = IF k <= 3 THEN s[k] ELSE t[k - 3]
    <2>1. /\ s \o t \in Seq(Indexes) /\ Len(s \o t) = Len(s) + Len(t)
          /\ \A k \in 1 .. Len(s) + Len(t) : (s \o t)[k] = IF k <= Len(s) THEN s[k] ELSE t[k - Len(s)]
        BY <1>3, <1>4, ConcatProperties
    <2> QED BY <1>3, <2>1
<1>7. /\ (s \o t)[1] = Timeline /\ (s \o t)[2] = Service /\ (s \o t)[3] = OfType(ev.type)
      /\ ev.channel # NoChannel => (s \o t)[4] = OfChannel(ev.channel)
      /\ Len(s \o t) = IF ev.channel = NoChannel THEN 3 ELSE 4
    BY <1>3, <1>4, <1>6
<1>8. Members(s \o t) \subseteq Names(ev)
    <2> SUFFICES ASSUME NEW x \in Members(s \o t) PROVE x \in Names(ev) OBVIOUS
    <2>1. PICK k \in 1 .. Len(s \o t) : (s \o t)[k] = x BY <1>6, MembersOf
    <2>2. k \in {1, 2, 3} \/ (k = 4 /\ ev.channel # NoChannel) BY <1>7, <2>1
    <2> QED BY <1>7, <2>1, <2>2 DEF Names
<1>9. Names(ev) \subseteq Members(s \o t)
    <2>1. {1, 2, 3} \subseteq 1 .. Len(s \o t) BY <1>7
    <2>2. ev.channel # NoChannel => 4 \in 1 .. Len(s \o t) BY <1>7
    <2>3. \A k \in 1 .. Len(s \o t) : (s \o t)[k] \in Members(s \o t) BY <1>6, MembersOf
    <2>4. 1 \in 1 .. Len(s \o t) /\ 2 \in 1 .. Len(s \o t) /\ 3 \in 1 .. Len(s \o t) BY <2>1
    <2>5. {Timeline, Service, OfType(ev.type)} \subseteq Members(s \o t) BY <1>7, <2>3, <2>4
    <2>6. ev.channel # NoChannel => OfChannel(ev.channel) \in Members(s \o t) BY <1>7, <2>2, <2>3
    <2> QED BY <2>5, <2>6 DEF Names
<1>10. ASSUME NEW k \in 2 .. Len(s \o t) PROVE (s \o t)[k] # Timeline
    <2>1. k \in {2, 3} \/ (k = 4 /\ ev.channel # NoChannel) BY <1>7
    <2>2. /\ Service # Timeline /\ OfType(ev.type) # Timeline /\ OfChannel(ev.channel) # Timeline
        BY DEF Service, Timeline, OfType, OfChannel
    <2> QED BY <1>7, <2>1, <2>2
<1> QED BY <1>5, <1>6, <1>7, <1>8, <1>9, <1>10

LEMMA ZaddOf ==
    ASSUME NEW s \in Seq(Indexes)
    PROVE  /\ Zadd(s) \in Seq(Cmd) /\ Len(Zadd(s)) = Len(s)
           /\ \A k \in 1 .. Len(s) : Zadd(s)[k] = ZaddTo(s[k])
<1>1. \A k \in 1 .. Len(s) : s[k] \in Indexes /\ ZaddTo(s[k]) \in Cmd BY DEF Cmd
<1>2. Zadd(s) = [k \in 1 .. Len(s) |-> ZaddTo(s[k])] BY MembersOf DEF Zadd, ZaddTo
<1> QED BY <1>1, <1>2

LEMMA ZremOfAll ==
    ASSUME NEW s \in Seq(Indexes)
    PROVE  /\ Zrem(s) \in Seq(Cmd)
           /\ \A x \in Members(Zrem(s)) : \E n \in Members(s) : x = ZremOf(n)
           /\ \A n \in Members(s) : ZremOf(n) \in Members(Zrem(s))
<1>1. \A k \in 1 .. Len(s) : s[k] \in Indexes /\ ZremOf(s[k]) \in Cmd BY DEF Cmd
<1>2. Zrem(s) = [k \in 1 .. Len(s) |-> ZremOf(s[k])] BY MembersOf DEF Zrem, ZremOf
<1>3. Zrem(s) \in Seq(Cmd) /\ Len(Zrem(s)) = Len(s) /\ \A k \in 1 .. Len(s) : Zrem(s)[k] = ZremOf(s[k])
    BY <1>1, <1>2
<1>4. ASSUME NEW x \in Members(Zrem(s)) PROVE \E n \in Members(s) : x = ZremOf(n)
    <2>1. PICK k \in 1 .. Len(s) : Zrem(s)[k] = x BY <1>3, <1>4, MembersOf
    <2> QED BY <1>3, <2>1, MembersOf
<1>5. ASSUME NEW n \in Members(s) PROVE ZremOf(n) \in Members(Zrem(s))
    <2>1. PICK k \in 1 .. Len(s) : s[k] = n BY <1>5, MembersOf
    <2>2. k \in 1 .. Len(Zrem(s)) /\ Zrem(s)[k] = ZremOf(n) BY <1>3, <2>1
    <2> QED BY <1>3, <2>2, MembersOf
<1> QED BY <1>3, <1>4, <1>5

\* A creation sets the key, enters the event in the timeline, and then in the rest.
LEMMA CreateIs ==
    ASSUME NEW ev \in Event
    PROVE  /\ CreateCommands(ev) \in Seq(Cmd) /\ Len(CreateCommands(ev)) \in {4, 5}
           /\ CreateCommands(ev)[1] = SetIt /\ CreateCommands(ev)[2] = ZaddTo(Timeline)
           /\ \A k \in 2 .. Len(CreateCommands(ev)) :
                 \E n \in Names(ev) : /\ CreateCommands(ev)[k] = ZaddTo(n)
                                      /\ k > 2 => n # Timeline
<1> DEFINE s == IndexesOf(ev)
<1>1. /\ s \in Seq(Indexes) /\ Len(s) \in {3, 4} /\ s[1] = Timeline /\ Members(s) = Names(ev)
      /\ \A k \in 2 .. Len(s) : s[k] # Timeline
    BY IndexesAre
<1>2. CreateCommands(ev) = <<SetIt>> \o Zadd(s) BY DEF CreateCommands, SetIt
<1>3. SetIt \in Cmd BY DEF Cmd
<1> HIDE DEF s
<1>4. /\ Zadd(s) \in Seq(Cmd) /\ Len(Zadd(s)) = Len(s)
      /\ \A k \in 1 .. Len(s) : Zadd(s)[k] = ZaddTo(s[k])
    BY <1>1, ZaddOf
<1>5. /\ <<SetIt>> \o Zadd(s) \in Seq(Cmd) /\ Len(<<SetIt>> \o Zadd(s)) = Len(s) + 1
      /\ (<<SetIt>> \o Zadd(s))[1] = SetIt
      /\ \A k \in 1 .. Len(s) : (<<SetIt>> \o Zadd(s))[k + 1] = ZaddTo(s[k])
    <2>1. /\ <<SetIt>> \o Zadd(s) \in Seq(Cmd) /\ Len(<<SetIt>> \o Zadd(s)) = Len(Zadd(s)) + 1
          /\ (<<SetIt>> \o Zadd(s))[1] = SetIt
          /\ \A k \in 1 .. Len(Zadd(s)) : (<<SetIt>> \o Zadd(s))[k + 1] = Zadd(s)[k]
        BY <1>3, <1>4, InFront
    <2> HIDE DEF Zadd
    <2> QED BY <1>4, <2>1
<1>6. ASSUME NEW k \in 2 .. Len(s) + 1
      PROVE  \E n \in Names(ev) : (<<SetIt>> \o Zadd(s))[k] = ZaddTo(n) /\ (k > 2 => n # Timeline)
    <2>1. k - 1 \in 1 .. Len(s) /\ (k - 1) + 1 = k /\ (k > 2 => k - 1 \in 2 .. Len(s)) BY <1>1
    <2>2. (<<SetIt>> \o Zadd(s))[k] = ZaddTo(s[k - 1]) BY <1>5, <2>1
    <2>3. s[k - 1] \in Names(ev) BY <1>1, <2>1, MembersOf
    <2>4. k > 2 => s[k - 1] # Timeline BY <1>1, <2>1
    <2> QED BY <2>2, <2>3, <2>4
<1>7. 1 \in 1 .. Len(s) /\ 1 + 1 = 2 /\ Len(s) + 1 \in {4, 5}
    <2>1. CASE Len(s) = 3 BY <2>1
    <2>2. CASE Len(s) = 4 BY <2>2
    <2> QED BY <1>1, <2>1, <2>2
<1>8. (<<SetIt>> \o Zadd(s))[2] = ZaddTo(Timeline) BY <1>1, <1>5, <1>7
<1> DEFINE t == <<SetIt>> \o Zadd(s)
<1>9. /\ t \in Seq(Cmd) /\ Len(t) \in {4, 5} /\ t[1] = SetIt /\ t[2] = ZaddTo(Timeline)
      /\ \A k \in 2 .. Len(t) : \E n \in Names(ev) : t[k] = ZaddTo(n) /\ (k > 2 => n # Timeline)
    BY <1>5, <1>6, <1>7, <1>8
<1> HIDE DEF t
<1>10. CreateCommands(ev) = t BY ONLY <1>2, Zenon DEF t
<1> QED BY <1>9, <1>10

\* A deletion removes the key, and the event from the timeline and other indexes.
Removes(cmds, names) ==
    /\ cmds \in Seq(Cmd) /\ cmds # <<>>
    /\ \A k \in 1 .. Len(cmds) : cmds[k].do \in {"del", "zrem"}
    /\ DelIt \in Members(cmds) /\ Timeline \in names
    /\ \A n \in names : ZremOf(n) \in Members(cmds)

LEMMA RemovesOf ==
    ASSUME NEW s \in Seq(Indexes), Timeline \in Members(s)
    PROVE  Removes(<<DelIt>> \o Zrem(s), Members(s))
<1>1. DelIt \in Cmd BY DEF Cmd
<1>2. /\ Zrem(s) \in Seq(Cmd)
      /\ \A x \in Members(Zrem(s)) : \E n \in Members(s) : x = ZremOf(n)
      /\ \A n \in Members(s) : ZremOf(n) \in Members(Zrem(s))
    BY ZremOfAll
<1> DEFINE t == <<DelIt>> \o Zrem(s)
<1>3. /\ t \in Seq(Cmd) /\ t # <<>> /\ Members(t) = {DelIt} \union Members(Zrem(s))
    BY <1>1, <1>2, InFront
<1> HIDE DEF t
<1>4. \A x \in Members(t) : x.do \in {"del", "zrem"} BY <1>2, <1>3 DEF DelIt, ZremOf
<1>5. \A k \in 1 .. Len(t) : t[k].do \in {"del", "zrem"} BY <1>3, <1>4, MembersOf
<1>6. Removes(t, Members(s)) BY <1>2, <1>3, <1>5 DEF Removes
<1> QED BY <1>6 DEF t

LEMMA ListOf ==
    ASSUME NEW S, NEW s \in Seq(S)
    PROVE  /\ Len(s) = 3 => Members(s) = {s[1], s[2], s[3]}
           /\ Len(s) = 2 => Members(s) = {s[1], s[2]}
           /\ Len(s) = 1 => Members(s) = {s[1]}
<1>1. Len(s) = 3 => 1 .. Len(s) = {1, 2, 3} OBVIOUS
<1>2. Len(s) = 2 => 1 .. Len(s) = {1, 2} OBVIOUS
<1>3. Len(s) = 1 => 1 .. Len(s) = {1} OBVIOUS
<1>4. Members(s) = {s[k] : k \in 1 .. Len(s)} BY MembersOf DEF Members
<1> QED BY <1>1, <1>2, <1>3, <1>4

LEMMA DeletionsRemove ==
    /\ \A ev \in Event : Removes(DeleteCommands(ev), Names(ev))
    /\ Removes(AlertCommands, {Timeline, Service, OfType(AlertType)})
    /\ \A ev : Removes(ToolCommands(ev), {Timeline})
<1>1. Timeline \in Indexes /\ Service \in Indexes /\ OfType(AlertType) \in Indexes
    BY DEF Indexes, AllTypes
<1>2. ASSUME NEW ev \in Event PROVE Removes(DeleteCommands(ev), Names(ev))
    <2>1. Timeline \in Names(ev) BY DEF Names
    <2>2. Removes(<<DelIt>> \o Zrem(IndexesOf(ev)), Names(ev)) BY <2>1, IndexesAre, RemovesOf
    <2> QED BY <2>2 DEF DeleteCommands, DelIt
<1>3. Removes(AlertCommands, {Timeline, Service, OfType(AlertType)})
    <2> DEFINE s == <<Timeline, OfType(AlertType), Service>>
    <2>1. s \in Seq(Indexes) /\ Len(s) = 3 /\ s[1] = Timeline /\ s[2] = OfType(AlertType) /\ s[3] = Service
        BY <1>1
    <2>2. AlertCommands = <<DelIt>> \o Zrem(s) BY DEF AlertCommands, DelIt
    <2> HIDE DEF s
    <2>3. Members(s) = {Timeline, Service, OfType(AlertType)} BY <2>1, ListOf
    <2>4. Removes(<<DelIt>> \o Zrem(s), Members(s)) BY <2>1, <2>3, RemovesOf
    <2> QED BY <2>2, <2>3, <2>4
<1>4. ASSUME NEW ev PROVE Removes(ToolCommands(ev), {Timeline})
    <2>1. ASSUME NEW s \in Seq(Indexes), Timeline \in Members(s)
          PROVE  Removes(<<DelIt>> \o Zrem(s), {Timeline})
        BY <2>1, RemovesOf DEF Removes
    <2> DEFINE u == <<Timeline>>
               v == <<Timeline, Service>>
    <2>2. u \in Seq(Indexes) /\ Len(u) = 1 /\ u[1] = Timeline BY <1>1
    <2>3. v \in Seq(Indexes) /\ Len(v) = 2 /\ v[1] = Timeline BY <1>1
    <2>4. ToolCommands(ev) = <<DelIt>> \o Zrem(IF ev = Nothing THEN u ELSE v)
        BY DEF ToolCommands, DelIt
    <2> HIDE DEF u, v
    <2>5. Timeline \in Members(u) /\ Timeline \in Members(v) BY <2>2, <2>3, ListOf
    <2> QED BY <2>1, <2>2, <2>3, <2>4, <2>5
<1> QED BY <1>2, <1>3, <1>4

LEMMA CmdIs ==
    ASSUME NEW c \in Cmd
    PROVE  /\ c.do \in {"set", "del", "zadd", "zrem"}
           /\ c.do = "set" => c = SetIt
           /\ c.do = "del" => c = DelIt
           /\ c.do = "zadd" => c.name \in Indexes /\ c = ZaddTo(c.name)
           /\ c.do = "zrem" => c.name \in Indexes /\ c = ZremOf(c.name)
BY DEF Cmd, SetIt, DelIt, ZaddTo, ZremOf

LEMMA NamesOf ==
    /\ \A n \in Indexes : ZremOf(n).do = "zrem" /\ ZremOf(n).name = n
    /\ DelIt.do = "del"
    /\ \A ev \in Event : Names(ev) \subseteq Indexes /\ Timeline \in Names(ev)
    /\ OfType(AlertType) \in Indexes /\ Timeline \in Indexes
    /\ \A x, y : ZremOf(x) = ZremOf(y) => x = y
    /\ \A n : DelIt # ZremOf(n)
<1>1. /\ \A n \in Indexes : ZremOf(n).do = "zrem" /\ ZremOf(n).name = n
      /\ DelIt.do = "del"
      /\ \A n : ZremOf(n).do = "zrem" /\ ZremOf(n).name = n
    BY DEF ZremOf, DelIt
<1>2. \A ev \in Event : Names(ev) \subseteq Indexes /\ Timeline \in Names(ev)
    BY DEF Event, Names, Indexes
<1>3. OfType(AlertType) \in Indexes /\ Timeline \in Indexes BY DEF Indexes, AllTypes
<1> QED BY <1>1, <1>2, <1>3

Rises(s) == \A j, k \in DOMAIN s : j < k => s[j] < s[k]

LEMMA AscendingOf ==
    ASSUME NEW S \in SUBSET Ids
    PROVE  Ascending(S) \in Seq(S) /\ Members(Ascending(S)) \subseteq S
<1> DEFINE Bad == {n \in Nat : \E T \in SUBSET Ids :
                      Cardinality(T) = n /\ ~ \E s \in [1 .. n -> T] : Rises(s)}
<1>1. MaxEvents \in Nat BY StoreAssumption
<1>2. ASSUME NEW T \in SUBSET Ids PROVE IsFiniteSet(T) /\ Cardinality(T) \in Nat
    <2>1. IsFiniteSet(Ids) BY <1>1, FS_Interval DEF Ids
    <2> QED BY <2>1, FS_Subset, FS_CardinalityType
<1>3. Bad = {}
    <2> SUFFICES ASSUME Bad # {} PROVE FALSE OBVIOUS
    <2>1. PICK n \in Bad : \A m \in Bad : n <= m BY Least
    <2>2. PICK T \in SUBSET Ids : Cardinality(T) = n /\ ~ \E s \in [1 .. n -> T] : Rises(s) BY <2>1
    <2>3. n \in Nat BY <2>1
    <2> HIDE DEF Bad
    <2>4. CASE T = {}
        <3>1. n = 0 BY <2>2, <2>4, FS_EmptySet
        <3> DEFINE s == [k \in 1 .. 0 |-> k]
        <3>2. s \in [1 .. n -> T] /\ Rises(s) BY <2>4, <3>1 DEF Rises
        <3> QED BY <2>2, <3>2
    <2>5. CASE T # {}
        <3>1. T \subseteq Nat BY <1>1 DEF Ids
        <3>2. PICK x \in T : \A y \in T : x <= y BY <2>5, <3>1, Least
        <3> DEFINE U == T \ {x}
        <3>3. Cardinality(U) = n - 1 /\ U \in SUBSET Ids /\ n - 1 \in Nat
            <4>1. IsFiniteSet(T) /\ IsFiniteSet(U) /\ U \in SUBSET Ids BY <1>2
            <4>2. Cardinality(U) = Cardinality(T) - 1 BY <3>2, <4>1, FS_RemoveElement
            <4>3. Cardinality(U) \in Nat BY <1>2, <4>1
            <4> QED BY <2>2, <2>3, <4>1, <4>2, <4>3
        <3>4. n - 1 \notin Bad
            <4> SUFFICES ASSUME n - 1 \in Bad PROVE FALSE OBVIOUS
            <4>1. n <= n - 1 BY <2>1
            <4> QED BY <2>3, <4>1
        <3>5. PICK f \in [1 .. n - 1 -> U] : Rises(f) BY <3>3, <3>4 DEF Bad
        <3> DEFINE s == [k \in 1 .. n |-> IF k = 1 THEN x ELSE f[k - 1]]
        <3>6. ASSUME NEW k \in 1 .. n, k # 1 PROVE k - 1 \in 1 .. n - 1 /\ f[k - 1] \in U /\ x < f[k - 1]
            <4>1. k - 1 \in 1 .. n - 1 BY <2>3, <3>6
            <4>2. f[k - 1] \in U BY <3>5, <4>1
            <4>3. x \in Nat /\ f[k - 1] \in Nat /\ x <= f[k - 1] /\ x # f[k - 1] BY <3>1, <3>2, <4>2
            <4> QED BY <4>1, <4>2, <4>3
        <3>7. s \in [1 .. n -> T] BY <3>2, <3>6
        <3>8. ASSUME NEW j \in 1 .. n, NEW k \in 1 .. n, j < k PROVE s[j] < s[k]
            <4>1. k # 1 BY <3>8
            <4>2. CASE j = 1 BY <3>6, <4>1, <4>2
            <4>3. CASE j # 1
                <5>1. j - 1 \in 1 .. n - 1 /\ k - 1 \in 1 .. n - 1 BY <3>6, <4>1, <4>3
                <5>2. j - 1 < k - 1 BY <3>8
                <5>3. DOMAIN f = 1 .. n - 1 BY <3>5
                <5>4. f[j - 1] < f[k - 1] BY <3>5, <5>1, <5>2, <5>3 DEF Rises
                <5> QED BY <4>1, <4>3, <5>4
            <4> QED BY <4>2, <4>3
        <3>9. DOMAIN s = 1 .. n OBVIOUS
        <3> HIDE DEF s
        <3>10. Rises(s) BY <3>8, <3>9 DEF Rises
        <3> QED BY <2>2, <3>7, <3>10
    <2> QED BY <2>4, <2>5
<1>4. Cardinality(S) \in Nat BY <1>2
<1>5. \E s \in [1 .. Cardinality(S) -> S] : Rises(s) BY <1>3, <1>4
<1>6. Ascending(S) \in [1 .. Cardinality(S) -> S] BY <1>5 DEF Ascending, Rises
<1>7. Ascending(S) \in Seq(S)
    <2>1. \A s : s \in [1 .. Cardinality(S) -> S] => s \in Seq(S) BY <1>4
    <2> QED BY <1>6, <2>1
<1> QED BY <1>7, MembersOf

-----------------------------------------------------------------------------
(* What the steps do.                                                      *)

Counted == spent' \in 0 .. MaxEvents /\ requests' \in 0 .. MaxRequests

\* Actor a goes on as g: as part of what it does, to rest, or with a new request.
Turns(a, g) ==
    /\ act' = [act EXCEPT ![a] = g] /\ g \in Act /\ Shape(g)
    /\ a = Worker => g.op \in {"none", "fail"}
    /\ a \in Clients => g.op # "fail"
    /\ MayBegin(a, g.op) \/ g = Resting \/ (act[a].pc # "ready" /\ g.op = act[a].op)
    /\ Counted

\* What a deletion is about to do covers what it read.
Covers(a, g) ==
    \E names \in SUBSET Indexes :
        /\ Removes(g.cmds, names)
        /\ g.op # "tool" =>
              /\ store[g.on] # Nothing
              /\ \/ Names(store[g.on]) \subseteq names
                 \/ /\ g.op = "alerts" /\ act[a].op = "alerts"
                    /\ g.on \in Members(act[a].ids)
                    /\ names = {Timeline, Service, OfType(AlertType)}

\* A step that changes nothing but what actor a does.
Moves(a, g) ==
    /\ Turns(a, g) /\ Placed(g, Seen)
    /\ UNCHANGED <<store, index, jobs, memory, minted, gone, loose, copied>>
    /\ act[a].pc \notin {"pipe", "created", "update", "unlinkSet", "patchSet"}
    /\ g.pc \notin {"created", "update"} /\ ~Making(g)
    /\ g.op = "fail" => jobs # <<>>
    /\ Deleting(g) => Covers(a, g)
    /\ g.pc = "patchGet" => g.on \in index[Timeline]
    /\ g.pc = "patchSet" => /\ act[a].pc = "patchGet" /\ g.on = act[a].on /\ g.op = act[a].op
                            /\ store[g.on] # Nothing
    /\ g.pc = "unlinkSet" \/ (g.pc = "patchSet" /\ g.op = "patch") =>
          /\ store[g.on] # Nothing
          /\ g.ev.type = store[g.on].type /\ g.ev.channel = store[g.on].channel
    /\ g.op = "alerts" =>
          \/ Members(g.ids) \subseteq index[OfType(AlertType)]
          \/ act[a].op = "alerts" /\ Members(g.ids) \subseteq Members(act[a].ids)

\* Actor a has a new id and is about to create an event.
Makes(a, g) ==
    /\ Turns(a, g) /\ Making(g)
    /\ minted + 1 \in Ids /\ minted' = minted + 1 /\ g.on = minted + 1
    /\ g.ev \in Event /\ g.cmds = CreateCommands(g.ev)
    /\ g.ev.type = AlertType => g.ev.channel = NoChannel
    /\ Refers(g.ev, Seen) /\ Members(g.ids) \subseteq Seen \union {g.on}
    /\ act[a].pc \in {"ready", "child"}
    /\ g.op = "fail" => jobs # <<>>
    /\ UNCHANGED <<store, index, jobs, memory, gone, loose, copied>>

LEMMA ActorIs ==
    ASSUME Base, NEW a \in Actors
    PROVE  /\ act[a] \in Act /\ Shape(act[a]) /\ Placed(act[a], Seen)
           /\ DOMAIN act = Actors
           /\ act[a].op \notin Alone \/ act[a].op \in Operations \union {"fail"}
           /\ a = Worker => act[a].op \in {"none", "fail"}
           /\ a \in Clients => act[a].op # "fail"
<1>1. act \in [Actors -> Act] BY DEF Base, Working
<1>2. act[a] \in Act /\ DOMAIN act = Actors BY <1>1
<1>3. act[a].op \in Operations \union {"fail", "none"} BY <1>2 DEF Act, Ops
<1>4. "none" \notin Alone BY StoreAssumption DEF AllOperations
<1>5. /\ Shape(act[a]) /\ Placed(act[a], Seen)
      /\ a = Worker => act[a].op \in {"none", "fail"}
      /\ a \in Clients => act[a].op # "fail"
    BY DEF Base, Working
<1> QED BY <1>2, <1>3, <1>4, <1>5

LEMMA IdsAre ==
    ASSUME Base
    PROVE  /\ MaxEvents \in Nat /\ minted \in Nat /\ minted <= MaxEvents
           /\ Seen \subseteq 1 .. minted /\ Seen \subseteq Ids
           /\ spent \in 0 .. MaxEvents /\ requests \in 0 .. MaxRequests
BY StoreAssumption DEF Base, TypeOK, Seen, Ids

LEMMA StoredIs ==
    ASSUME Base, NEW i \in Ids
    PROVE  /\ store[i] \in Event \union {Nothing} /\ memory[i] \in Event \union {Nothing}
           /\ Refers(store[i], Seen) /\ Refers(memory[i], Seen)
BY DEF Base, TypeOK, Kept

LEMMA ListingsAre ==
    ASSUME Base, NEW n \in Indexes
    PROVE  index[n] \subseteq Seen /\ index[n] \in SUBSET Ids
BY DEF Base, TypeOK, Kept

LEMMA RestingIs == Resting \in Act /\ Shape(Resting) /\ \A S : Placed(Resting, S)
<1>1. Resting \in Act BY DEF Resting, Act, Steps
<1>2. Members(<<>>) = {} BY DEF Members
<1>3. Shape(Resting) BY DEF Resting, Shape, Making, Deleting
<1>4. \A S : Placed(Resting, S) BY <1>2 DEF Resting, Placed, Refers, Unseen, Making
<1> QED BY <1>1, <1>3, <1>4

\* A request, with the fields of r.
LEMMA RequestTurns ==
    ASSUME Base, NEW a \in Clients, NEW op \in {"delete", "bulk", "patch", "retype", "alerts", "tool"},
           NEW r, Request(a, op, r), NEW g, g = [r EXCEPT !.op = op], g \in Act, g.op = op, Shape(g)
    PROVE  /\ Turns(a, g) /\ act[a] = Resting
           /\ UNCHANGED <<store, index, jobs, memory, minted, gone, loose, copied>>
<1>1. a \in Actors BY DEF Actors
<1>2. a # Worker BY StoreAssumption
<1>3. spent \in 0 .. MaxEvents /\ requests \in 0 .. MaxRequests /\ MaxRequests \in Nat
    BY StoreAssumption, IdsAre
<1>4. Counted BY <1>3 DEF Request, Counted
<1>5. act[a] = Resting BY <1>1, ActorIs DEF Shape, Request, MayBegin
<1> QED BY <1>1, <1>2, <1>4, <1>5 DEF Request, Turns

LEMMA DeleteMoves ==
    ASSUME Base, NEW a \in Clients, Delete(a)
    PROVE  \E g : Moves(a, g)
<1>1. PICK i \in index[Timeline] : Request(a, "delete", [Resting EXCEPT !.pc = "get", !.on = i])
    BY DEF Delete
<1>2. i \in Seen /\ i \in Ids /\ i # 0 BY ListingsAre, NamesOf, IdsAre
<1> DEFINE g == [[Resting EXCEPT !.pc = "get", !.on = i] EXCEPT !.op = "delete"]
<1>4. "delete" \in Operations BY <1>1 DEF Request, MayBegin
<1>5. g \in Act BY <1>2, <1>4, RestingIs DEF Act, Steps, Ops
<1>3. /\ g.pc = "get" /\ g.op = "delete" /\ g.on = i /\ g.ev = Nothing /\ g.ids = <<>>
      /\ g.types = {} /\ g.cmds = <<>>
    BY DEF Resting
<1>6. Members(<<>>) = {} BY DEF Members
<1> HIDE DEF g
<1>7. Shape(g) BY <1>2, <1>3 DEF Shape, Making, Deleting
<1>8. Placed(g, Seen) BY <1>2, <1>3, <1>6 DEF Placed, Refers, Unseen, Making
<1>9. /\ Turns(a, g) /\ act[a] = Resting
      /\ UNCHANGED <<store, index, jobs, memory, minted, gone, loose, copied>>
    <2>1. g = [[Resting EXCEPT !.pc = "get", !.on = i] EXCEPT !.op = "delete"] BY DEF g
    <2>2. g.op = "delete" BY <1>3
    <2> QED BY <1>1, <1>5, <1>7, <2>1, <2>2, RequestTurns
<1>10. Moves(a, g) BY <1>3, <1>8, <1>9 DEF Moves, Resting, Making, Deleting
<1> QED BY <1>10

\* The step of an actor that has begun and goes on with what it does, or rests.
LEMMA GoesOn ==
    ASSUME Base, NEW a \in Actors, NEW g \in Act, act' = [act EXCEPT ![a] = g], Shape(g),
           act[a].pc # "ready", g.op = act[a].op \/ g = Resting,
           spent' = spent, requests' = requests
    PROVE  Turns(a, g)
<1>1. Counted BY IdsAre DEF Counted
<1>2. Resting.op = "none" BY DEF Resting
<1> QED BY <1>1, <1>2, ActorIs DEF Turns

LEMMA RestMoves ==
    ASSUME Base, NEW a \in Actors, Done(a), UNCHANGED data,
           act[a].pc \notin {"ready", "pipe", "created", "update", "unlinkSet", "patchSet"}
    PROVE  Moves(a, Resting)
<1>1. act' = [act EXCEPT ![a] = Resting] BY DEF Done
<1>2. Turns(a, Resting)
    BY <1>1, RestingIs, GoesOn DEF data
<1>3. /\ Placed(Resting, Seen) /\ Resting.pc = "ready" /\ Resting.op = "none"
    BY RestingIs DEF Resting
<1> QED BY <1>2, <1>3 DEF Moves, data, Making, Deleting

LEMMA GetMoves ==
    ASSUME Base, NEW a \in Clients, GetTarget(a)
    PROVE  \E g : Moves(a, g)
<1> DEFINE h == act[a]
           ev == store[h.on]
<1>1. a \in Actors BY DEF Actors
<1>2. h \in Act /\ Shape(h) /\ Placed(h, Seen) BY <1>1, ActorIs
<1>3. h.pc = "get" /\ UNCHANGED data BY DEF GetTarget
<1>4. h.op = "delete" /\ h.on \in Seen /\ h.on \in Ids
    BY <1>2, <1>3, IdsAre DEF Shape, Placed, Unseen, Making
<1>5. CASE Done(a) BY <1>1, <1>3, <1>5, RestMoves
<1>6. CASE ~ Done(a)
    <2>1. /\ ev # Nothing /\ ~(ev.parent # 0 /\ ev.children # <<>>)
          /\ act' = [act EXCEPT ![a].ev = ev, ![a].ids = Append(ev.children, h.on),
                                ![a].pc = IF ev.parent # 0 THEN "getParent" ELSE "erase"]
        BY <1>6 DEF GetTarget
    <2>2. ev \in Event /\ Refers(ev, Seen) BY <1>4, <2>1, StoredIs
    <2>3. ev.children \in Seq(Ids) /\ ev.parent \in {0} \union Ids BY <2>2 DEF Event
    <2> DEFINE ids == Append(ev.children, h.on)
    <2>4. ids \in Seq(Ids) /\ ids # <<>> /\ Members(ids) = Members(ev.children) \union {h.on}
        BY <1>4, <2>3, AppendOf
    <2>5. Members(ids) \subseteq Seen BY <1>4, <2>1, <2>2, <2>4 DEF Refers
    <2> DEFINE pc == IF ev.parent # 0 THEN "getParent" ELSE "erase"
               g == [h EXCEPT !.ev = ev, !.ids = ids, !.pc = pc]
    <2>6. act' = [act EXCEPT ![a] = g] BY <2>1
    <2>7. pc \in {"getParent", "erase"} /\ (pc = "getParent" => ev.parent # 0) OBVIOUS
    <2> HIDE DEF ids, pc, ev
    <2>8. /\ g.pc = pc /\ g.op = "delete" /\ g.on = h.on /\ g.ev = ev /\ g.ids = ids
          /\ g \in Act
        BY <1>2, <1>4, <2>2, <2>4, <2>7 DEF Act, Steps
    <2> HIDE DEF g
    <2>9. Shape(g) BY <2>1, <2>4, <2>7, <2>8 DEF Shape, Making, Deleting
    <2>10. Placed(g, Seen)
        BY <1>4, <2>2, <2>5, <2>7, <2>8 DEF Placed, Unseen, Making
    <2>11. Turns(a, g) BY <1>1, <1>3, <1>4, <2>6, <2>8, <2>9, GoesOn DEF data
    <2>12. Moves(a, g) BY <1>3, <2>7, <2>8, <2>10, <2>11 DEF Moves, data, Making, Deleting
    <2> QED BY <2>12
<1> QED BY <1>5, <1>6

LEMMA ParentMoves ==
    ASSUME Base, NEW a \in Clients, GetParent(a)
    PROVE  \E g : Moves(a, g)
<1> DEFINE h == act[a]
           g == [h EXCEPT !.pc = "erase"]
<1>1. a \in Actors BY DEF Actors
<1>2. h \in Act /\ Shape(h) /\ Placed(h, Seen) BY <1>1, ActorIs
<1>3. h.pc = "getParent" /\ UNCHANGED data BY DEF GetParent
<1>4. CASE Done(a) BY <1>1, <1>3, <1>4, RestMoves
<1>5. CASE Goto(a, "erase")
    <2>1. act' = [act EXCEPT ![a] = g] BY <1>5 DEF Goto
    <2>2. /\ g \in Act /\ g.pc = "erase" /\ g.op = h.op /\ g.on = h.on /\ g.ev = h.ev
          /\ g.ids = h.ids /\ g.cmds = h.cmds
        BY <1>2 DEF Act, Steps
    <2> HIDE DEF g
    <2>3. h.op = "delete" BY <1>2, <1>3 DEF Shape
    <2>4. Shape(g) BY <1>2, <1>3, <2>2, <2>3 DEF Shape, Making, Deleting
    <2>5. Placed(g, Seen) BY <1>2, <1>3, <2>2 DEF Placed, Unseen, Making
    <2>6. Turns(a, g) BY <1>1, <1>3, <2>1, <2>2, <2>4, GoesOn DEF data
    <2>7. Moves(a, g) BY <1>3, <2>2, <2>3, <2>5, <2>6 DEF Moves, data, Making, Deleting
    <2> QED BY <2>7
<1> QED BY <1>4, <1>5 DEF GetParent

LEMMA EraseMoves ==
    ASSUME Base, NEW a \in Clients, Erase(a)
    PROVE  \E g : Moves(a, g)
<1> DEFINE h == act[a]
           i == Head(h.ids)
           ev == store[i]
<1>1. a \in Actors BY DEF Actors
<1>2. h \in Act /\ Shape(h) /\ Placed(h, Seen) BY <1>1, ActorIs
<1>3. h.pc = "erase" /\ UNCHANGED data BY DEF Erase
<1>4. h.op \in {"delete", "bulk"} /\ h.ids # <<>> /\ h.ids \in Seq(Ids)
      /\ (h.op = "delete" => h.ev # Nothing)
    BY <1>2, <1>3 DEF Shape, Act
<1>5. i \in Ids /\ Tail(h.ids) \in Seq(Ids) /\ Members(h.ids) = {i} \union Members(Tail(h.ids))
    BY <1>4, TailOf
<1>6. i \in Seen /\ Members(Tail(h.ids)) \subseteq Seen /\ i # 0
    BY <1>2, <1>3, <1>5, IdsAre DEF Placed, Making
<1>7. CASE ev # Nothing
    <2> DEFINE g == [h EXCEPT !.pc = "pipe", !.on = i, !.ids = Tail(h.ids),
                              !.cmds = DeleteCommands(ev)]
    <2>1. act' = [act EXCEPT ![a] = g] BY <1>7 DEF Erase
    <2>2. ev \in Event BY <1>5, <1>7, StoredIs
    <2>3. Removes(DeleteCommands(ev), Names(ev)) BY <2>2, DeletionsRemove
    <2>4. Names(ev) \subseteq Indexes BY <2>2, NamesOf
    <2> HIDE DEF ev
    <2>5. /\ g \in Act /\ g.pc = "pipe" /\ g.op = h.op /\ g.on = i /\ g.ev = h.ev
          /\ g.ids = Tail(h.ids) /\ g.cmds = DeleteCommands(ev)
        BY <1>2, <1>5, <2>3 DEF Act, Steps, Removes
    <2> HIDE DEF g
    <2>6. Shape(g) BY <1>4, <1>6, <2>3, <2>5 DEF Shape, Making, Deleting, Removes
    <2>7. Placed(g, Seen) BY <1>2, <1>4, <1>6, <2>5 DEF Placed, Unseen, Making
    <2>8. Turns(a, g) BY <1>1, <1>3, <2>1, <2>5, <2>6, GoesOn DEF data
    <2>9. Covers(a, g) BY <1>7, <2>3, <2>4, <2>5 DEF Covers, ev
    <2>10. Moves(a, g) BY <1>3, <1>4, <2>5, <2>7, <2>8, <2>9 DEF Moves, data, Making, Deleting
    <2> QED BY <2>10
<1>8. CASE ev = Nothing
    <2> DEFINE pc == IF h.op = "bulk" THEN "next" ELSE "failed"
               g == [h EXCEPT !.pc = pc, !.ids = Tail(h.ids)]
    <2>1. act' = [act EXCEPT ![a] = g] BY <1>8 DEF Erase
    <2>2. pc \in {"next", "failed"} /\ (pc = "next" <=> h.op = "bulk") OBVIOUS
    <2> HIDE DEF pc
    <2>3. /\ g \in Act /\ g.pc = pc /\ g.op = h.op /\ g.on = h.on /\ g.ev = h.ev
          /\ g.ids = Tail(h.ids) /\ g.cmds = h.cmds
        BY <1>2, <1>5, <2>2 DEF Act, Steps
    <2> HIDE DEF g
    <2>4. Shape(g) BY <1>2, <1>4, <2>2, <2>3 DEF Shape, Making, Deleting
    <2>5. Placed(g, Seen) BY <1>2, <1>3, <1>6, <2>2, <2>3 DEF Placed, Unseen, Making
    <2>6. Turns(a, g) BY <1>1, <1>3, <2>1, <2>3, <2>4, GoesOn DEF data
    <2>7. Moves(a, g) BY <1>3, <1>4, <2>2, <2>3, <2>5, <2>6 DEF Moves, data, Making, Deleting
    <2> QED BY <2>7
<1> QED BY <1>7, <1>8

LEMMA UnlinkMoves ==
    ASSUME Base, NEW a \in Clients, UnlinkGet(a)
    PROVE  \E g : Moves(a, g)
<1> DEFINE h == act[a]
           p == h.ev.parent
           parent == store[p]
<1>1. a \in Actors BY DEF Actors
<1>2. h \in Act /\ Shape(h) /\ Placed(h, Seen) BY <1>1, ActorIs
<1>3. h.pc = "unlinkGet" /\ UNCHANGED data BY DEF UnlinkGet
<1>4. h.op = "delete" /\ h.ev # Nothing /\ p # 0 BY <1>2, <1>3 DEF Shape
<1>5. p \in Seen /\ p \in Ids BY <1>2, <1>4, IdsAre DEF Placed, Refers
<1>6. Members(h.ids) \subseteq Seen /\ (h.on \in {0} \union Seen)
    BY <1>2, <1>3 DEF Placed, Making, Unseen
<1>7. CASE parent = Nothing
    <2> DEFINE g == [h EXCEPT !.pc = "finish"]
    <2>1. act' = [act EXCEPT ![a] = g] BY <1>7 DEF UnlinkGet, Goto
    <2>2. /\ g \in Act /\ g.pc = "finish" /\ g.op = h.op /\ g.on = h.on /\ g.ev = h.ev
          /\ g.ids = h.ids /\ g.cmds = h.cmds
        BY <1>2 DEF Act, Steps
    <2> HIDE DEF g
    <2>3. Shape(g) BY <1>4, <2>2 DEF Shape, Making, Deleting
    <2>4. Placed(g, Seen) BY <1>2, <1>6, <2>2 DEF Placed, Unseen, Making
    <2>5. Turns(a, g) BY <1>1, <1>3, <2>1, <2>2, <2>3, GoesOn DEF data
    <2>6. Moves(a, g) BY <1>3, <1>4, <2>2, <2>4, <2>5 DEF Moves, data, Making, Deleting
    <2> QED BY <2>6
<1>8. CASE parent # Nothing
    <2> DEFINE left == Without(parent.children, h.on)
               ev == [parent EXCEPT !.children = left]
               g == [h EXCEPT !.pc = "unlinkSet", !.on = p, !.ev = ev]
    <2>1. act' = [act EXCEPT ![a] = g] BY <1>8 DEF UnlinkGet
    <2>2. parent \in Event /\ Refers(parent, Seen) BY <1>5, <1>8, StoredIs
    <2>3. left \in Seq(Ids) /\ Members(left) \subseteq Members(parent.children)
        BY <2>2, WithoutOf DEF Event
    <2> HIDE DEF left
    <2>4. /\ ev \in Event /\ ev.type = parent.type /\ ev.channel = parent.channel
          /\ ev.parent = parent.parent /\ ev.children = left
        BY <2>2, <2>3 DEF Event
    <2>5. ev # Nothing BY <2>4, NothingAssumption
    <2>6. Refers(ev, Seen) BY <1>8, <2>2, <2>3, <2>4 DEF Refers
    <2> HIDE DEF ev
    <2>7. /\ g \in Act /\ g.pc = "unlinkSet" /\ g.op = h.op /\ g.on = p /\ g.ev = ev
          /\ g.ids = h.ids /\ g.cmds = h.cmds
        BY <1>2, <1>5, <2>4 DEF Act, Steps
    <2> HIDE DEF g
    <2>8. Shape(g) BY <1>4, <2>5, <2>7 DEF Shape, Making, Deleting
    <2>9. Placed(g, Seen) BY <1>5, <1>6, <2>6, <2>7 DEF Placed, Unseen, Making
    <2>10. Turns(a, g) BY <1>1, <1>3, <2>1, <2>7, <2>8, GoesOn DEF data
    <2>11. Moves(a, g) BY <1>3, <1>4, <1>8, <2>4, <2>7, <2>9, <2>10 DEF Moves, data, Making, Deleting
    <2> QED BY <2>11
<1> QED BY <1>7, <1>8

\* A request that works through a list.
LEMMA ListMoves ==
    ASSUME Base, NEW a \in Clients, NEW op \in {"bulk", "alerts", "tool"},
           NEW n \in Indexes, NEW S \in SUBSET index[n], NEW ids \in Seq(S),
           op = "alerts" => n = OfType(AlertType),
           NEW r \in Act, r.pc = "next", r.on = 0, r.ev = Nothing, r.ids = ids,
           Request(a, op, r)
    PROVE  Moves(a, [r EXCEPT !.op = op])
<1> DEFINE g == [r EXCEPT !.op = op]
<1>1. op \in Operations BY DEF Request, MayBegin
<1>2. /\ g \in Act /\ g.pc = "next" /\ g.op = op /\ g.on = 0 /\ g.ev = Nothing /\ g.ids = ids
    BY <1>1 DEF Act, Ops
<1> HIDE DEF g
<1>3. g = [r EXCEPT !.op = op] BY DEF g
<1>4. Shape(g) BY <1>2 DEF Shape, Making, Deleting
<1>5. /\ Turns(a, g) /\ act[a] = Resting
      /\ UNCHANGED <<store, index, jobs, memory, minted, gone, loose, copied>>
    <2>1. op \in {"delete", "bulk", "patch", "retype", "alerts", "tool"} OBVIOUS
    <2>2. g \in Act /\ g.op = op BY <1>2
    <2> QED BY <1>3, <1>4, <2>1, <2>2, RequestTurns
<1>6. Members(ids) \subseteq S /\ S \subseteq Seen BY MembersOf, ListingsAre
<1>7. Placed(g, Seen) BY <1>2, <1>6 DEF Placed, Refers, Unseen, Making
<1>8. Moves(a, g) BY <1>2, <1>5, <1>6, <1>7 DEF Moves, Resting, Making, Deleting
<1> QED BY <1>3, <1>8

LEMMA ListsAre ==
    ASSUME NEW types \in SUBSET AllTypes, NEW ids \in Seq(Ids)
    PROVE  /\ [Resting EXCEPT !.pc = "next", !.types = types, !.ids = ids] \in Act
           /\ [Resting EXCEPT !.pc = "next", !.ids = ids] \in Act
BY RestingIs DEF Act, Steps

LEMMA ManyMove ==
    ASSUME Base, NEW a \in Clients, Bulk(a) \/ Alerts(a) \/ Tool(a)
    PROVE  \E g : Moves(a, g)
<1>1. Timeline \in Indexes /\ OfType(AlertType) \in Indexes BY NamesOf
<1>2. index[Timeline] \in SUBSET Ids /\ index[OfType(AlertType)] \in SUBSET Ids
    BY <1>1, ListingsAre
<1>3. CASE Bulk(a)
    <2> DEFINE S == index[Timeline]
               ids == Ascending(S)
    <2>1. PICK types \in {{t} : t \in AllTypes} \union {AllTypes \ {AlertType}} :
             Request(a, "bulk", [Resting EXCEPT !.pc = "next", !.types = types, !.ids = ids])
        BY <1>3 DEF Bulk
    <2> DEFINE r == [Resting EXCEPT !.pc = "next", !.types = types, !.ids = ids]
    <2>2. S \in SUBSET index[Timeline] /\ S \in SUBSET Ids BY <1>2
    <2>3. ids \in Seq(S) BY <2>2, AscendingOf
    <2>4. ids \in Seq(Ids) BY <2>2, <2>3
    <2> HIDE DEF ids, S
    <2>5. r \in Act /\ r.pc = "next" /\ r.on = 0 /\ r.ev = Nothing /\ r.ids = ids
        BY <2>1, <2>4, ListsAre DEF Resting
    <2>6. Request(a, "bulk", r) BY <1>3, <2>1 DEF ids, S
    <2> HIDE DEF r
    <2>7. Moves(a, [r EXCEPT !.op = "bulk"]) BY <1>1, <2>2, <2>3, <2>5, <2>6, ListMoves
    <2> QED BY <2>7
<1>4. CASE Alerts(a)
    <2> DEFINE S == index[OfType(AlertType)]
               ids == Reverse(Ascending(S))
               r == [Resting EXCEPT !.pc = "next", !.ids = ids]
    <2>1. Request(a, "alerts", r) BY <1>4 DEF Alerts
    <2>2. S \in SUBSET index[OfType(AlertType)] /\ S \in SUBSET Ids BY <1>2
    <2>3. ids \in Seq(S) BY <2>2, AscendingOf, ReverseOf
    <2>4. ids \in Seq(Ids) BY <2>2, <2>3
    <2> HIDE DEF ids, S
    <2>5. r \in Act /\ r.pc = "next" /\ r.on = 0 /\ r.ev = Nothing /\ r.ids = ids
        BY <2>1, <2>4, ListsAre DEF Resting
    <2>6. Request(a, "alerts", r) BY <1>4, <2>1 DEF ids, S, Alerts
    <2> HIDE DEF r
    <2>7. Moves(a, [r EXCEPT !.op = "alerts"]) BY <1>1, <2>2, <2>3, <2>5, <2>6, ListMoves
    <2> QED BY <2>7
<1>5. CASE Tool(a)
    <2>1. PICK S \in SUBSET index[Timeline] \ {{}} :
             Request(a, "tool", [Resting EXCEPT !.pc = "next", !.ids = Ascending(S)])
        BY <1>5 DEF Tool
    <2> DEFINE ids == Ascending(S)
               r == [Resting EXCEPT !.pc = "next", !.ids = ids]
    <2>2. S \in SUBSET index[Timeline] /\ S \in SUBSET Ids BY <1>2, <2>1
    <2>3. ids \in Seq(S) BY <2>2, AscendingOf
    <2>4. ids \in Seq(Ids) BY <2>2, <2>3
    <2> HIDE DEF ids
    <2>5. r \in Act /\ r.pc = "next" /\ r.on = 0 /\ r.ev = Nothing /\ r.ids = ids
        BY <2>1, <2>4, ListsAre DEF Resting
    <2>6. Request(a, "tool", r) BY <1>5, <2>1 DEF ids
    <2> HIDE DEF r
    <2>7. Moves(a, [r EXCEPT !.op = "tool"]) BY <1>1, <2>2, <2>3, <2>5, <2>6, ListMoves
    <2> QED BY <2>7
<1> QED BY <1>3, <1>4, <1>5

LEMMA NextMoves ==
    ASSUME Base, NEW a \in Clients, NextId(a)
    PROVE  \E g : Moves(a, g)
<1> DEFINE h == act[a]
           i == Head(h.ids)
           ev == store[i]
<1>1. a \in Actors BY DEF Actors
<1>2. h \in Act /\ Shape(h) /\ Placed(h, Seen) BY <1>1, ActorIs
<1>3. h.pc = "next" /\ h.ids # <<>> /\ UNCHANGED data BY DEF NextId
<1>4. h.op \in {"bulk", "alerts", "tool"} /\ h.ids \in Seq(Ids)
    BY <1>2, <1>3 DEF Shape, Act
<1>5. i \in Ids /\ Tail(h.ids) \in Seq(Ids) /\ Members(h.ids) = {i} \union Members(Tail(h.ids))
    BY <1>3, <1>4, TailOf
<1>6. i \in Seen /\ Members(Tail(h.ids)) \subseteq Seen /\ i # 0 /\ h.on \in {0} \union Seen
    BY <1>2, <1>3, <1>5, IdsAre DEF Placed, Making, Unseen
<1>7. CASE act' = [act EXCEPT ![a].ids = Tail(@)]
    <2> DEFINE g == [h EXCEPT !.ids = Tail(h.ids)]
    <2>1. act' = [act EXCEPT ![a] = g] BY <1>7
    <2>2. /\ g \in Act /\ g.pc = "next" /\ g.op = h.op /\ g.on = h.on /\ g.ev = h.ev
          /\ g.ids = Tail(h.ids) /\ g.cmds = h.cmds
        BY <1>2, <1>3, <1>5 DEF Act
    <2> HIDE DEF g
    <2>3. Shape(g) BY <1>4, <2>2 DEF Shape, Making, Deleting
    <2>4. Placed(g, Seen) BY <1>2, <1>6, <2>2 DEF Placed, Unseen, Making
    <2>5. Turns(a, g) BY <1>1, <1>3, <2>1, <2>2, <2>3, GoesOn DEF data
    <2>6. Moves(a, g) BY <1>3, <1>4, <1>5, <2>2, <2>4, <2>5 DEF Moves, data, Making, Deleting
    <2> QED BY <2>6
<1>8. CASE h.op = "bulk" /\ act' = [act EXCEPT ![a].pc = "erase"]
    <2> DEFINE g == [h EXCEPT !.pc = "erase"]
    <2>1. act' = [act EXCEPT ![a] = g] BY <1>8
    <2>2. /\ g \in Act /\ g.pc = "erase" /\ g.op = "bulk" /\ g.on = h.on /\ g.ev = h.ev
          /\ g.ids = h.ids /\ g.cmds = h.cmds
        BY <1>2, <1>8 DEF Act, Steps
    <2> HIDE DEF g
    <2>3. Shape(g) BY <1>3, <2>2 DEF Shape, Making, Deleting
    <2>4. Placed(g, Seen) BY <1>2, <1>5, <1>6, <2>2 DEF Placed, Unseen, Making
    <2>5. Turns(a, g) BY <1>1, <1>3, <1>8, <2>1, <2>2, <2>3, GoesOn DEF data
    <2>6. Moves(a, g) BY <1>3, <2>2, <2>4, <2>5 DEF Moves, data, Making, Deleting
    <2> QED BY <2>6
<1>9. ASSUME h.op \in {"alerts", "tool"}, NEW cmds, NEW names \in SUBSET Indexes,
             Removes(cmds, names),
             h.op = "alerts" => ev # Nothing /\ names = {Timeline, Service, OfType(AlertType)},
             act' = [act EXCEPT ![a].pc = "pipe", ![a].on = i, ![a].ids = Tail(@), ![a].cmds = cmds]
      PROVE  \E g : Moves(a, g)
    <2> DEFINE g == [h EXCEPT !.pc = "pipe", !.on = i, !.ids = Tail(h.ids), !.cmds = cmds]
    <2>1. act' = [act EXCEPT ![a] = g] BY <1>9
    <2>2. /\ g \in Act /\ g.pc = "pipe" /\ g.op = h.op /\ g.on = i /\ g.ev = h.ev
          /\ g.ids = Tail(h.ids) /\ g.cmds = cmds
        BY <1>2, <1>5, <1>9 DEF Act, Steps, Removes
    <2> HIDE DEF g, ev
    <2>3. Shape(g) BY <1>6, <1>9, <2>2 DEF Shape, Making, Deleting, Removes
    <2>4. Placed(g, Seen) BY <1>2, <1>6, <1>9, <2>2 DEF Placed, Unseen, Making
    <2>5. Turns(a, g) BY <1>1, <1>3, <2>1, <2>2, <2>3, GoesOn DEF data
    <2>6. Covers(a, g) BY <1>5, <1>9, <2>2 DEF Covers, ev
    <2>7. Moves(a, g) BY <1>3, <1>5, <1>9, <2>2, <2>4, <2>5, <2>6 DEF Moves, data, Making, Deleting
    <2> QED BY <2>7
<1>10. CASE h.op = "alerts" /\ ev # Nothing /\ act' = [act EXCEPT ![a].pc = "pipe", ![a].on = i,
                                        ![a].ids = Tail(@), ![a].cmds = AlertCommands]
    <2>1. Removes(AlertCommands, {Timeline, Service, OfType(AlertType)}) BY DeletionsRemove
    <2>2. {Timeline, Service, OfType(AlertType)} \in SUBSET Indexes BY NamesOf DEF Indexes
    <2> QED BY <1>9, <1>10, <2>1, <2>2
<1>11. CASE h.op = "tool" /\ act' = [act EXCEPT ![a].pc = "pipe", ![a].on = i,
                                        ![a].ids = Tail(@), ![a].cmds = ToolCommands(ev)]
    <2>1. Removes(ToolCommands(ev), {Timeline}) BY DeletionsRemove
    <2>2. {Timeline} \in SUBSET Indexes BY NamesOf
    <2> QED BY <1>9, <1>11, <2>1, <2>2
<1> QED BY <1>7, <1>8, <1>10, <1>11 DEF NextId

LEMMA EndMoves ==
    ASSUME Base, NEW a \in Clients, Finish(a) \/ ListDone(a)
    PROVE  \E g : Moves(a, g)
<1>1. a \in Actors BY DEF Actors
<1>2. /\ Done(a) /\ UNCHANGED data
      /\ act[a].pc \notin {"ready", "pipe", "created", "update", "unlinkSet", "patchSet"}
    BY DEF Finish, ListDone
<1> QED BY <1>1, <1>2, RestMoves

LEMMA PatchMoves ==
    ASSUME Base, NEW a \in Clients, Patch(a)
    PROVE  \E g : Moves(a, g)
<1>1. PICK i \in index[Timeline], op \in {"patch", "retype"} :
          Request(a, op, [Resting EXCEPT !.pc = "patchGet", !.on = i])
    BY DEF Patch
<1>2. i \in Seen /\ i \in Ids /\ i # 0 BY ListingsAre, NamesOf, IdsAre
<1> DEFINE g == [[Resting EXCEPT !.pc = "patchGet", !.on = i] EXCEPT !.op = op]
<1>3. op \in Operations BY <1>1 DEF Request, MayBegin
<1>4. g \in Act BY <1>2, <1>3, RestingIs DEF Act, Steps, Ops
<1>5. g.pc = "patchGet" /\ g.op = op /\ g.on = i /\ g.ev = Nothing /\ g.ids = <<>> BY DEF Resting
<1>6. Members(<<>>) = {} BY DEF Members
<1> HIDE DEF g
<1>7. Shape(g) BY <1>2, <1>5 DEF Shape, Making, Deleting
<1>8. Placed(g, Seen) BY <1>2, <1>5, <1>6 DEF Placed, Refers, Unseen, Making
<1>9. /\ Turns(a, g) /\ act[a] = Resting
      /\ UNCHANGED <<store, index, jobs, memory, minted, gone, loose, copied>>
    <2>1. PICK r : r = [Resting EXCEPT !.pc = "patchGet", !.on = i] OBVIOUS
    <2>2. PICK h : h = g OBVIOUS
    <2>3. /\ h = [r EXCEPT !.op = op] /\ Request(a, op, r)
          /\ op \in {"delete", "bulk", "patch", "retype", "alerts", "tool"}
        BY <1>1, <2>1, <2>2 DEF g
    <2>4. h \in Act /\ h.op = op /\ Shape(h) BY <1>4, <1>5, <1>7, <2>2
    <2>5. Turns(a, h) /\ act[a] = Resting
          /\ UNCHANGED <<store, index, jobs, memory, minted, gone, loose, copied>>
        BY <2>3, <2>4, RequestTurns
    <2> QED BY <2>2, <2>5
<1>10. Moves(a, g) BY <1>5, <1>8, <1>9 DEF Moves, Resting, Making, Deleting
<1> QED BY <1>10

LEMMA PatchGetMoves ==
    ASSUME Base, NEW a \in Clients, PatchGet(a)
    PROVE  \E g : Moves(a, g)
<1> DEFINE h == act[a]
           old == store[h.on]
<1>1. a \in Actors BY DEF Actors
<1>2. h \in Act /\ Shape(h) /\ Placed(h, Seen) BY <1>1, ActorIs
<1>3. h.pc = "patchGet" /\ UNCHANGED data BY DEF PatchGet
<1>4. h.op \in {"patch", "retype"} /\ h.on \in Seen /\ h.on \in Ids /\ h.on # 0
    BY <1>2, <1>3, IdsAre DEF Shape, Placed, Unseen, Making
<1>5. Members(h.ids) \subseteq Seen BY <1>2, <1>3 DEF Placed, Making
<1>6. CASE Done(a) BY <1>1, <1>3, <1>6, RestMoves
<1>7. CASE ~ Done(a)
    <2>1. old # Nothing BY <1>7 DEF PatchGet
    <2>2. PICK t \in AllTypes, ch \in Channels \union {NoChannel} :
             /\ h.op = "patch" => t = old.type /\ ch = old.channel
             /\ act' = [act EXCEPT ![a].pc = "patchSet",
                                   ![a].ev = [old EXCEPT !.type = t, !.channel = ch]]
        BY <1>7 DEF PatchGet
    <2> DEFINE ev == [old EXCEPT !.type = t, !.channel = ch]
               g == [h EXCEPT !.pc = "patchSet", !.ev = ev]
    <2>3. act' = [act EXCEPT ![a] = g] BY <2>2
    <2>4. old \in Event /\ Refers(old, Seen) BY <1>4, <2>1, StoredIs
    <2>5. /\ ev \in Event /\ ev.type = t /\ ev.channel = ch
          /\ ev.parent = old.parent /\ ev.children = old.children
        BY <2>4 DEF Event
    <2>6. ev # Nothing /\ Refers(ev, Seen)
        BY <2>1, <2>4, <2>5, NothingAssumption DEF Refers
    <2> HIDE DEF ev
    <2>7. /\ g \in Act /\ g.pc = "patchSet" /\ g.op = h.op /\ g.on = h.on /\ g.ev = ev
          /\ g.ids = h.ids /\ g.cmds = h.cmds
        BY <1>2, <2>5 DEF Act, Steps
    <2> HIDE DEF g
    <2>8. Shape(g) BY <1>4, <2>6, <2>7 DEF Shape, Making, Deleting
    <2>9. Placed(g, Seen) BY <1>4, <1>5, <2>6, <2>7 DEF Placed, Unseen, Making
    <2>10. Turns(a, g) BY <1>1, <1>3, <2>3, <2>7, <2>8, GoesOn DEF data
    <2>11. Moves(a, g)
        BY <1>3, <1>4, <2>1, <2>2, <2>5, <2>7, <2>9, <2>10 DEF Moves, data, Making, Deleting
    <2> QED BY <2>11
<1> QED BY <1>6, <1>7

LEMMA FailMoves ==
    ASSUME Base, Fail
    PROVE  \E g : Moves(Worker, g)
<1>1. Worker \in Actors BY DEF Actors
<1>2. act[Worker] = Resting BY <1>1, ActorIs DEF Fail, MayBegin, Shape
<1> DEFINE g == [Resting EXCEPT !.pc = "child", !.op = "fail"]
<1>3. act' = [act EXCEPT ![Worker] = g] BY <1>2 DEF Fail
<1>4. g \in Act BY RestingIs DEF Act, Steps, Ops
<1>5. g.pc = "child" /\ g.op = "fail" /\ g.on = 0 /\ g.ev = Nothing /\ g.ids = <<>> BY DEF Resting
<1>6. Members(<<>>) = {} BY DEF Members
<1> HIDE DEF g
<1>7. Shape(g) BY <1>5 DEF Shape, Making, Deleting
<1>8. Placed(g, Seen) BY <1>5, <1>6 DEF Placed, Refers, Unseen, Making
<1>9. MayBegin(Worker, g.op) /\ jobs # <<>> /\ UNCHANGED data BY <1>5 DEF Fail
<1>10. Counted BY <1>9, IdsAre DEF Counted, data
<1>11. Turns(Worker, g) BY <1>3, <1>4, <1>5, <1>7, <1>9, <1>10, StoreAssumption DEF Turns
<1>12. Moves(Worker, g) BY <1>2, <1>5, <1>8, <1>9, <1>11 DEF Moves, data, Resting, Making, Deleting
<1> QED BY <1>12

LEMMA NewIs ==
    ASSUME Base, Mint
    PROVE  minted + 1 \in Ids /\ minted' = minted + 1 /\ minted + 1 # 0
BY IdsAre DEF Mint, Ids

LEMMA CreateMakes ==
    ASSUME Base, NEW a \in Clients, Create(a)
    PROVE  \E g : Makes(a, g)
<1>1. a \in Actors BY DEF Actors
<1>2. /\ MayBegin(a, "create") /\ Mint
      /\ UNCHANGED <<store, index, jobs, memory, requests, gone, loose, copied>>
    BY DEF Create
<1>3. minted + 1 \in Ids /\ minted' = minted + 1 /\ minted + 1 # 0 BY <1>2, NewIs
<1>4. act[a] = Resting BY <1>1, <1>2, ActorIs DEF MayBegin, Shape
<1>5. PICK t \in Types, ch \in Channels \union {NoChannel}, fails \in 0 .. MaxFails :
         /\ spent + 1 + 2 * fails <= MaxEvents
         /\ spent' = spent + 1 + 2 * fails
         /\ LET ev == [type |-> t, channel |-> ch, parent |-> 0, children |-> <<>>]
            IN  act' = [act EXCEPT ![a] =
                           [Resting EXCEPT !.pc = "pipe", !.op = "create", !.on = minted + 1,
                               !.ev = ev, !.cmds = CreateCommands(ev),
                               !.ids = [k \in 1 .. fails |-> minted + 1]]]
    BY DEF Create
<1> DEFINE ev == [type |-> t, channel |-> ch, parent |-> 0, children |-> <<>>]
           cmds == CreateCommands(ev)
           ids == [k \in 1 .. fails |-> minted + 1]
           g == [Resting EXCEPT !.pc = "pipe", !.op = "create", !.on = minted + 1,
                                !.ev = ev, !.cmds = cmds, !.ids = ids]
<1>6. act' = [act EXCEPT ![a] = g] BY <1>5
<1>7. /\ ev \in Event /\ ev.type = t /\ ev.channel = ch /\ ev.parent = 0 /\ ev.children = <<>>
      /\ t # AlertType
    <2>1. t \in AllTypes /\ t # AlertType BY StoreAssumption DEF AllTypes
    <2>2. <<>> \in Seq(Ids) OBVIOUS
    <2> QED BY <2>1, <2>2 DEF Event
<1>8. fails \in Nat /\ MaxEvents \in Nat BY StoreAssumption
<1>9. ids \in Seq(Ids) /\ Members(ids) \subseteq {minted + 1}
    BY <1>3, <1>8 DEF Members
<1>10. Counted BY <1>2, <1>5, <1>8, IdsAre DEF Counted
<1> HIDE DEF ev, ids
<1>11. ev # Nothing BY <1>7, NothingAssumption
<1>12. cmds \in Seq(Cmd) /\ Len(cmds) \in {4, 5} BY <1>7, CreateIs
<1>13. cmds = CreateCommands(ev) OBVIOUS
<1> HIDE DEF cmds
<1>14. "create" \in Ops BY <1>2, StoreAssumption DEF MayBegin, Ops
<1>15. /\ g \in Act /\ g.pc = "pipe" /\ g.op = "create" /\ g.on = minted + 1 /\ g.ev = ev
       /\ g.ids = ids /\ g.cmds = cmds
    BY <1>3, <1>7, <1>9, <1>12, <1>14, RestingIs DEF Act, Steps, Resting
<1> HIDE DEF g
<1>16. cmds # <<>> /\ Suffix(cmds, cmds)
    <2>1. cmds # <<>>
        <3>1. Len(cmds) # 0
            <4>1. CASE Len(cmds) = 4 BY <4>1
            <4>2. CASE Len(cmds) = 5 BY <4>2
            <4> QED BY <1>12, <4>1, <4>2
        <3> QED BY <1>12, <3>1, MembersOf
    <2>2. Len(cmds) \in Nat BY <1>12
    <2> QED BY <2>1, <2>2 DEF Suffix
<1>17. Shape(g) BY <1>3, <1>9, <1>11, <1>13, <1>15, <1>16 DEF Shape, Making, Deleting
<1>18. Turns(a, g)
    <2>1. a # Worker BY StoreAssumption
    <2> QED BY <1>2, <1>6, <1>10, <1>15, <1>17, <2>1 DEF Turns
<1>19. Members(<<>>) = {} BY DEF Members
<1>20. Refers(ev, Seen) BY <1>7, <1>19 DEF Refers
<1>21. Makes(a, g)
    BY <1>2, <1>3, <1>4, <1>7, <1>9, <1>13, <1>15, <1>18, <1>20 DEF Makes, Making, Resting
<1> QED BY <1>21

LEMMA ChildMakes ==
    ASSUME Base, CreateChild
    PROVE  \E g : Makes(Worker, g)
<1> DEFINE h == act[Worker]
           ev == [type |-> IF h.ids = <<>> THEN ErrorType ELSE AlertType,
                  channel |-> NoChannel, parent |-> Head(jobs), children |-> <<>>]
           cmds == CreateCommands(ev)
           ids == Append(h.ids, minted + 1)
           g == [h EXCEPT !.pc = "pipe", !.on = minted + 1, !.ev = ev, !.cmds = cmds, !.ids = ids]
<1>1. Worker \in Actors BY DEF Actors
<1>2. h \in Act /\ Shape(h) /\ Placed(h, Seen) BY <1>1, ActorIs
<1>3. /\ h.pc = "child" /\ Mint
      /\ UNCHANGED <<store, index, jobs, memory, spent, requests, gone, loose, copied>>
    BY DEF CreateChild
<1>4. minted + 1 \in Ids /\ minted' = minted + 1 /\ minted + 1 # 0 BY <1>3, NewIs
<1>5. h.op = "fail" /\ jobs # <<>> BY <1>2, <1>3 DEF Shape, Base, Working
<1>6. act' = [act EXCEPT ![Worker] = g] BY DEF CreateChild
<1>7. Head(jobs) \in Ids /\ Head(jobs) \in Seen /\ memory[Head(jobs)] # Nothing
    <2>1. jobs \in Seq(Ids) BY DEF Base, TypeOK
    <2>2. Head(jobs) = jobs[1] /\ 1 \in 1 .. Len(jobs) /\ Head(jobs) \in Ids BY <1>5, <2>1
    <2> QED BY <2>2 DEF Base, Kept
<1>8. /\ ev \in Event /\ ev.type \in AllTypes /\ ev.channel = NoChannel /\ ev.parent = Head(jobs)
      /\ ev.children = <<>>
    <2>1. <<>> \in Seq(Ids) OBVIOUS
    <2> QED BY <1>7, <2>1 DEF Event, AllTypes
<1>9. ids \in Seq(Ids) /\ Members(ids) = Members(h.ids) \union {minted + 1}
    BY <1>2, <1>4, AppendOf DEF Act
<1>10. Members(h.ids) \subseteq Seen BY <1>2, <1>3 DEF Placed, Making
<1> HIDE DEF ev, ids
<1>11. ev # Nothing BY <1>8, NothingAssumption
<1>12. cmds \in Seq(Cmd) /\ Len(cmds) \in {4, 5} BY <1>8, CreateIs
<1>13. cmds = CreateCommands(ev) OBVIOUS
<1> HIDE DEF cmds
<1>14. /\ g \in Act /\ g.pc = "pipe" /\ g.op = "fail" /\ g.on = minted + 1 /\ g.ev = ev
       /\ g.ids = ids /\ g.cmds = cmds
    BY <1>2, <1>4, <1>5, <1>8, <1>9, <1>12 DEF Act, Steps
<1> HIDE DEF g
<1>15. cmds # <<>> /\ Suffix(cmds, cmds)
    <2>1. cmds # <<>>
        <3>1. Len(cmds) # 0
            <4>1. CASE Len(cmds) = 4 BY <4>1
            <4>2. CASE Len(cmds) = 5 BY <4>2
            <4> QED BY <1>12, <4>1, <4>2
        <3> QED BY <1>12, <3>1, MembersOf
    <2>2. Len(cmds) \in Nat BY <1>12
    <2> QED BY <2>1, <2>2 DEF Suffix
<1>16. Shape(g) BY <1>4, <1>11, <1>13, <1>14, <1>15 DEF Shape, Making, Deleting
<1>17. Turns(Worker, g) BY <1>1, <1>3, <1>5, <1>6, <1>14, <1>16, GoesOn
<1>18. Members(<<>>) = {} BY DEF Members
<1>19. Refers(ev, Seen) BY <1>7, <1>8, <1>18 DEF Refers
<1>20. Makes(Worker, g)
    BY <1>3, <1>4, <1>5, <1>8, <1>9, <1>10, <1>13, <1>14, <1>17, <1>19 DEF Makes, Making
<1> QED BY <1>20

\* Every step is of one of these kinds.
LEMMA StepDoes ==
    ASSUME Base, [Next]_vars
    PROVE  \/ \E a \in Actors : \E g : Moves(a, g) \/ Makes(a, g)
           \/ \E a \in Actors : Command(a)
           \/ \E a \in Clients : Created(a) \/ UnlinkSet(a) \/ PatchSet(a)
           \/ UpdateParent
           \/ \E i \in Ids : Expire(i)
           \/ UNCHANGED vars
<1>1. Worker \in Actors /\ Clients \subseteq Actors BY DEF Actors
<1>2. ASSUME NEW a \in Clients, Step(a)
      PROVE  \/ \E g : Moves(a, g) \/ Makes(a, g)
             \/ Command(a) \/ Created(a) \/ UnlinkSet(a) \/ PatchSet(a)
    BY <1>2, CreateMakes, DeleteMoves, GetMoves, ParentMoves, EraseMoves, UnlinkMoves, EndMoves,
       ManyMove, NextMoves, PatchMoves, PatchGetMoves DEF Step
<1>3. CASE WorkerStep BY <1>1, <1>3, FailMoves, ChildMakes DEF WorkerStep
<1>4. CASE \E a \in Clients : Step(a) BY <1>1, <1>2, <1>4
<1> QED BY <1>3, <1>4 DEF Next, Rest

-----------------------------------------------------------------------------
(* The base of the invariants.                                             *)

\* Ids become known, and stay so.
Grows(a, g) ==
    /\ act' = [act EXCEPT ![a] = g]
    /\ minted' \in Nat /\ minted' >= minted
    /\ Unseen(g) => \/ Unseen(act[a]) /\ g.on = act[a].on
                    \/ g.on = minted + 1 /\ g.on <= minted'

LEMMA OthersStay ==
    ASSUME Base, NEW a \in Actors, NEW g, act' = [act EXCEPT ![a] = g]
    PROVE  act'[a] = g /\ DOMAIN act' = Actors /\ \A b \in Actors \ {a} : act'[b] = act[b]
BY ActorIs

LEMMA SeenGrows ==
    ASSUME Base, NEW a \in Actors, NEW g, Grows(a, g)
    PROVE  Seen \subseteq Seen'
<1> SUFFICES ASSUME NEW i \in Seen PROVE i \in Seen' OBVIOUS
<1>1. /\ i \in 1 .. minted /\ minted \in Nat /\ minted' \in Nat /\ minted' >= minted
      /\ \A b \in Actors : Unseen(act[b]) => act[b].on # i
    BY IdsAre DEF Seen, Grows
<1>2. i \in 1 .. minted' /\ i # minted + 1 BY <1>1
<1>3. ASSUME NEW b \in Actors, Unseen(act'[b]) PROVE act'[b].on # i
    BY <1>1, <1>2, <1>3, OthersStay DEF Grows
<1> QED BY <1>2, <1>3 DEF Seen

LEMMA RefersGrow ==
    ASSUME NEW ev, NEW S \in SUBSET Ids, NEW T, S \subseteq T, Refers(ev, S)
    PROVE  Refers(ev, T)
BY DEF Refers

LEMMA PlacedGrows ==
    ASSUME NEW h, NEW S \in SUBSET Ids, NEW T, S \subseteq T, Placed(h, S)
    PROVE  Placed(h, T)
<1>1. Refers(h.ev, T) BY RefersGrow DEF Placed
<1> QED BY <1>1 DEF Placed

LEMMA WorkingStays ==
    ASSUME Base, NEW a \in Actors, NEW g \in Act, Grows(a, g), Shape(g),
           Placed(g, Seen'),
           a = Worker => g.op \in {"none", "fail"},
           a \in Clients => g.op # "fail",
           act'[Worker].op = "fail" => jobs' # <<>>
    PROVE  Working'
<1>1. Seen \subseteq Seen' /\ Seen \in SUBSET Ids BY SeenGrows, IdsAre
<1>2. /\ act'[a] = g /\ \A b \in Actors \ {a} : act'[b] = act[b]
      /\ act' = [act EXCEPT ![a] = g]
    BY OthersStay DEF Grows
<1>3. act \in [Actors -> Act] BY DEF Base, Working
<1>4. act' \in [Actors -> Act] BY <1>2, <1>3
<1>5. ASSUME NEW b \in Actors PROVE Shape(act'[b]) /\ Placed(act'[b], Seen')
    <2>1. CASE b = a BY <1>2, <2>1
    <2>2. CASE b # a
        <3>1. act[b] \in Act /\ Shape(act[b]) /\ Placed(act[b], Seen) BY ActorIs
        <3>2. Placed(act[b], Seen') BY <1>1, <3>1, PlacedGrows
        <3> QED BY <1>2, <2>2, <3>1, <3>2
    <2> QED BY <2>1, <2>2
<1>6. \A b \in Clients : act'[b].op # "fail" BY <1>2, ActorIs DEF Actors
<1>7. act'[Worker].op \in {"none", "fail"} BY <1>2, ActorIs DEF Actors
<1>8. /\ minted \in Nat /\ minted' \in Nat /\ minted' >= minted
      /\ Unseen(g) => \/ Unseen(act[a]) /\ g.on = act[a].on
                      \/ g.on = minted + 1 /\ g.on <= minted'
    BY IdsAre DEF Grows
<1>9. \A b \in Actors : Unseen(act[b]) => act[b].on <= minted /\ act[b].on \in Nat
    <2>1. ASSUME NEW b \in Actors, Unseen(act[b]) PROVE act[b].on <= minted BY <2>1 DEF Base, Working
    <2>2. ASSUME NEW b \in Actors PROVE act[b].on \in Nat BY <1>3 DEF Act, Ids
    <2> QED BY <2>1, <2>2
<1>10. ASSUME NEW b \in Actors, Unseen(act'[b]) PROVE act'[b].on <= minted'
    <2>1. CASE b = a BY <1>2, <1>8, <1>9, <1>10, <2>1
    <2>2. CASE b # a BY <1>2, <1>8, <1>9, <1>10, <2>2
    <2> QED BY <2>1, <2>2
<1>11. ASSUME NEW b \in Actors, NEW c \in Actors, Unseen(act'[b]), Unseen(act'[c]),
              act'[b].on = act'[c].on
       PROVE  b = c
    <2>1. \A x, y \in Actors : Unseen(act[x]) /\ Unseen(act[y]) /\ act[x].on = act[y].on => x = y
        BY DEF Base, Working
    <2>2. ASSUME NEW x \in Actors, x # a, Unseen(act[x]), Unseen(g), act[x].on = g.on PROVE FALSE
        BY <1>8, <1>9, <2>1, <2>2
    <2>3. CASE b = a /\ c = a BY <2>3
    <2>4. CASE b # a /\ c = a BY <1>2, <1>11, <2>2, <2>4
    <2>5. CASE b = a /\ c # a BY <1>2, <1>11, <2>2, <2>5
    <2>6. CASE b # a /\ c # a BY <1>2, <1>11, <2>1, <2>6
    <2> QED BY <2>3, <2>4, <2>5, <2>6
<1> QED BY <1>4, <1>5, <1>6, <1>7, <1>10, <1>11 DEF Working

LEMMA BaseStays ==
    ASSUME Base, Working', Seen \subseteq Seen', Counted,
           minted' \in 0 .. MaxEvents, minted' >= minted,
           index' \in [Indexes -> SUBSET Ids],
           \A n \in Indexes : index'[n] \subseteq index[n] \union Seen',
           jobs' \in Seq(Ids),
           \A k \in 1 .. Len(jobs') : jobs'[k] \in Seen' /\ memory'[jobs'[k]] # Nothing,
           store' \in [Ids -> Event \union {Nothing}],
           \A i \in Ids : \/ store'[i] = store[i] \/ store'[i] = Nothing
                          \/ i <= minted' /\ Refers(store'[i], Seen'),
           memory' \in [Ids -> Event \union {Nothing}],
           \A i \in Ids : \/ memory'[i] = memory[i] \/ memory'[i] = Nothing
                          \/ i \in Seen' /\ Refers(memory'[i], Seen'),
           gone' \subseteq gone \union Seen', loose' \subseteq loose \union Seen',
           copied' \subseteq copied \union Seen'
    PROVE  Base'
<1>1. /\ Seen \in SUBSET Ids /\ minted \in Nat /\ MaxEvents \in Nat /\ \A i \in Ids : i \in Nat
      /\ minted' \in Nat
    BY IdsAre DEF Ids
<1>2. ASSUME NEW ev, Refers(ev, Seen) PROVE Refers(ev, Seen')
    BY <1>1, <1>2, RefersGrow
<1>3. Kept'
    <2>1. \A n \in Indexes : index'[n] \subseteq Seen' BY ListingsAre
    <2>2. ASSUME NEW i \in Ids
          PROVE  /\ memory'[i] # Nothing => i \in Seen'
                 /\ store'[i] # Nothing => i <= minted'
                 /\ Refers(store'[i], Seen')
                 /\ Refers(memory'[i], Seen')
        <3>1. /\ memory[i] # Nothing => i \in Seen
              /\ store[i] # Nothing => i <= minted
            BY DEF Base, Kept
        <3>2. Refers(store[i], Seen') /\ Refers(memory[i], Seen')
            BY <1>2, StoredIs
        <3>3. Refers(Nothing, Seen') BY DEF Refers
        <3>4. store[i] # Nothing => i <= minted' BY <1>1, <3>1
        <3>5. /\ store'[i] # Nothing => i <= minted'
              /\ Refers(store'[i], Seen')
            BY <3>2, <3>3, <3>4
        <3> QED BY <3>1, <3>2, <3>3, <3>5
    <2>3. gone' \subseteq Seen' /\ loose' \subseteq Seen' /\ copied' \subseteq Seen'
        BY DEF Base, Kept
    <2> QED BY <2>1, <2>2, <2>3 DEF Kept
<1>4. TypeOK'
    <2>1. gone' \subseteq 1 .. minted' /\ loose' \subseteq 1 .. minted' /\ copied' \subseteq 1 .. minted'
        BY <1>3 DEF Kept, Seen
    <2>2. /\ DOMAIN act' = Actors
          /\ \A a \in Actors : /\ act'[a].pc \in Steps
                               /\ act'[a].on \in {0} \union Ids
                               /\ act'[a].ev \in Event \union {Nothing}
                               /\ act'[a].ids \in Seq(Ids)
        <3>1. act' \in [Actors -> Act] BY DEF Working
        <3> QED BY <3>1 DEF Act
    <2> QED BY <2>1, <2>2 DEF TypeOK, Counted
<1> QED BY <1>3, <1>4 DEF Base

LEMMA DataIs ==
    ASSUME Base
    PROVE  /\ index \in [Indexes -> SUBSET Ids] /\ jobs \in Seq(Ids)
           /\ store \in [Ids -> Event \union {Nothing}]
           /\ memory \in [Ids -> Event \union {Nothing}]
           /\ minted \in 0 .. MaxEvents /\ minted \in Nat /\ minted >= minted
           /\ \A k \in 1 .. Len(jobs) : jobs[k] \in Seen /\ memory[jobs[k]] # Nothing
BY IdsAre DEF Base, TypeOK, Kept

LEMMA MoveKeepsBase ==
    ASSUME Base, NEW a \in Actors, NEW g, Moves(a, g)
    PROVE  Base' /\ Seen \subseteq Seen'
<1>1. /\ Turns(a, g) /\ Placed(g, Seen) /\ ~Making(g)
      /\ UNCHANGED <<store, index, jobs, memory, minted, gone, loose, copied>>
      /\ g.op = "fail" => jobs # <<>>
    BY DEF Moves
<1>2. Grows(a, g) BY <1>1, DataIs DEF Grows, Turns, Unseen
<1>3. Seen \subseteq Seen' BY <1>2, SeenGrows
<1>4. g \in Act /\ Shape(g) BY <1>1 DEF Turns
<1>5. Placed(g, Seen')
    BY <1>1, <1>3, IdsAre, PlacedGrows
<1>6. act'[Worker].op = "fail" => jobs' # <<>>
    <2>1. CASE a = Worker BY <1>1, <1>2, <2>1, OthersStay DEF Grows
    <2>2. CASE a # Worker BY <1>1, <1>2, <2>2, OthersStay DEF Grows, Actors, Base, Working
    <2> QED BY <2>1, <2>2
<1>7. Working' BY <1>1, <1>2, <1>4, <1>5, <1>6, WorkingStays DEF Turns
<1>8. Base' BY <1>1, <1>3, <1>7, DataIs, BaseStays DEF Turns
<1> QED BY <1>3, <1>8

LEMMA MakeKeepsBase ==
    ASSUME Base, NEW a \in Actors, NEW g, Makes(a, g)
    PROVE  Base' /\ Seen \subseteq Seen'
<1>1. /\ Turns(a, g) /\ Making(g) /\ minted + 1 \in Ids /\ minted' = minted + 1
      /\ g.on = minted + 1 /\ g.cmds = CreateCommands(g.ev) /\ g.ev \in Event
      /\ UNCHANGED <<store, index, jobs, memory, gone, loose, copied>>
      /\ Refers(g.ev, Seen) /\ Members(g.ids) \subseteq Seen \union {g.on}
      /\ g.op = "fail" => jobs # <<>>
    BY DEF Makes
<1>2. minted' \in 0 .. MaxEvents /\ minted' \in Nat /\ minted' >= minted
    BY <1>1, IdsAre DEF Ids
<1>3. Grows(a, g) BY <1>1, <1>2 DEF Grows, Turns
<1>4. Seen \subseteq Seen' BY <1>3, SeenGrows
<1>5. g \in Act /\ Shape(g) BY <1>1 DEF Turns
<1>6. Placed(g, Seen')
    <2>1. Refers(g.ev, Seen') BY <1>1, <1>4, IdsAre, RefersGrow
    <2>2. Unseen(g)
        <3>1. Len(g.cmds) \in Nat BY <1>5 DEF Act
        <3> QED BY <1>1, <3>1 DEF Unseen
    <2> QED BY <1>1, <1>4, <2>1, <2>2 DEF Placed
<1>7. act'[Worker].op = "fail" => jobs' # <<>>
    <2>1. CASE a = Worker BY <1>1, <1>3, <2>1, OthersStay DEF Grows
    <2>2. CASE a # Worker BY <1>1, <1>3, <2>2, OthersStay DEF Grows, Actors, Base, Working
    <2> QED BY <2>1, <2>2
<1>8. Working' BY <1>1, <1>3, <1>5, <1>6, <1>7, WorkingStays DEF Turns
<1>9. Base' BY <1>1, <1>2, <1>4, <1>8, DataIs, BaseStays DEF Turns
<1> QED BY <1>4, <1>9

-----------------------------------------------------------------------------
(* A command of a pipeline.                                                *)

After(a) == [act[a] EXCEPT !.cmds = Tail(@), !.pc = IF Len(act[a].cmds) = 1 THEN AfterPipe(a) ELSE "pipe"]

LEMMA PipeIs ==
    ASSUME NEW h \in Act, Shape(h), h.pc = "pipe"
    PROVE  /\ h.cmds \in Seq(Cmd) /\ h.cmds # <<>> /\ Head(h.cmds) \in Cmd /\ Tail(h.cmds) \in Seq(Cmd)
           /\ Members(h.cmds) = {Head(h.cmds)} \union Members(Tail(h.cmds))
           /\ Len(h.cmds) = 1 <=> Tail(h.cmds) = <<>>
           /\ Len(h.cmds) = 1 => Members(Tail(h.cmds)) = {}
           /\ Making(h) \/ Deleting(h)
           /\ ~(Making(h) /\ Deleting(h))
           /\ Deleting(h) => Head(h.cmds).do \in {"del", "zrem"}
                             /\ \A k \in 1 .. Len(Tail(h.cmds)) : Tail(h.cmds)[k].do \in {"del", "zrem"}
<1>1. h.cmds \in Seq(Cmd) /\ h.cmds # <<>> BY DEF Act, Shape
<1>2. /\ Len(h.cmds) >= 1 /\ Len(h.cmds) \in Nat /\ Head(h.cmds) = h.cmds[1] /\ Head(h.cmds) \in Cmd
      /\ Tail(h.cmds) \in Seq(Cmd) /\ Len(Tail(h.cmds)) = Len(h.cmds) - 1
      /\ \A k \in 1 .. Len(Tail(h.cmds)) : Tail(h.cmds)[k] = h.cmds[k + 1]
      /\ Members(h.cmds) = {Head(h.cmds)} \union Members(Tail(h.cmds))
    BY <1>1, TailOf, MembersOf
<1>3. Len(h.cmds) = 1 <=> Tail(h.cmds) = <<>>
    <2>1. Tail(h.cmds) = <<>> <=> Len(Tail(h.cmds)) = 0 BY <1>2, MembersOf
    <2> QED BY <1>2, <2>1
<1>4. Members(<<>>) = {} BY DEF Members
<1>5. Deleting(h) => \A k \in 1 .. Len(h.cmds) : h.cmds[k].do \in {"del", "zrem"} BY DEF Shape
<1>6. ASSUME Deleting(h)
      PROVE  /\ Head(h.cmds).do \in {"del", "zrem"}
             /\ \A k \in 1 .. Len(Tail(h.cmds)) : Tail(h.cmds)[k].do \in {"del", "zrem"}
    <2>1. 1 \in 1 .. Len(h.cmds) BY <1>2
    <2>2. \A k \in 1 .. Len(Tail(h.cmds)) : k + 1 \in 1 .. Len(h.cmds) BY <1>2
    <2>3. \A k \in 1 .. Len(Tail(h.cmds)) : Tail(h.cmds)[k].do \in {"del", "zrem"}
        <3> TAKE k \in 1 .. Len(Tail(h.cmds))
        <3>1. k + 1 \in 1 .. Len(h.cmds) BY <2>2
        <3>2. h.cmds[k + 1].do \in {"del", "zrem"} BY <1>5, <1>6, <3>1
        <3>3. Tail(h.cmds)[k] = h.cmds[k + 1] BY <1>2
        <3> QED BY <3>2, <3>3
    <2> QED BY <1>2, <1>5, <1>6, <2>1, <2>3
<1> QED BY <1>1, <1>2, <1>3, <1>4, <1>6 DEF Making, Deleting

\* How far a creation has come.
LEMMA MakingIs ==
    ASSUME NEW h \in Act, Shape(h), Making(h)
    PROVE  /\ h.ev \in Event
           /\ \/ Head(h.cmds) = SetIt /\ Unseen(h) /\ Len(h.cmds) = Len(CreateCommands(h.ev))
              \/ /\ \E n \in Names(h.ev) : Head(h.cmds) = ZaddTo(n)
                 /\ Len(h.cmds) < Len(CreateCommands(h.ev))
           /\ Head(h.cmds) = ZaddTo(Timeline) => Unseen(h)
           /\ Unseen(h) => Len(h.cmds) > 1 /\ (Len(h.cmds) = Len(CreateCommands(h.ev))
                                               \/ Head(h.cmds) = ZaddTo(Timeline))
           /\ Len(h.cmds) \in Nat /\ Len(CreateCommands(h.ev)) \in Nat
           /\ Suffix(Tail(h.cmds), CreateCommands(h.ev))
<1> DEFINE t == CreateCommands(h.ev)
<1>1. h.ev \in Event BY DEF Shape, Act
<1>2. /\ t \in Seq(Cmd) /\ Len(t) \in {4, 5} /\ t[1] = SetIt /\ t[2] = ZaddTo(Timeline)
      /\ \A k \in 2 .. Len(t) : \E n \in Names(h.ev) : t[k] = ZaddTo(n) /\ (k > 2 => n # Timeline)
    BY <1>1, CreateIs
<1>3. h.pc = "pipe" BY DEF Making
<1>4. h.cmds \in Seq(Cmd) /\ h.cmds # <<>> /\ Suffix(h.cmds, t) BY <1>3 DEF Shape, Act
<1>5. Len(h.cmds) \in Nat /\ Len(h.cmds) >= 1 /\ Head(h.cmds) = h.cmds[1] BY <1>4
<1>6. Suffix(Tail(h.cmds), t) BY <1>2, <1>4, TailSuffix
<1> HIDE DEF t
<1>7. Len(t) \in Nat /\ Len(t) >= 4
    <2>1. CASE Len(t) = 4 BY <2>1
    <2>2. CASE Len(t) = 5 BY <2>2
    <2> QED BY <1>2, <2>1, <2>2
<1>8. Len(h.cmds) <= Len(t) /\ Head(h.cmds) = t[Len(t) - Len(h.cmds) + 1]
    <2>1. 1 \in 1 .. Len(h.cmds) BY <1>5
    <2> QED BY <1>4, <1>5, <2>1 DEF Suffix
<1>9. Unseen(h) <=> Len(h.cmds) + 1 >= Len(t) BY DEF Unseen, t
<1>10. CASE Len(h.cmds) = Len(t)
    <2>1. Len(t) - Len(h.cmds) + 1 = 1 BY <1>7, <1>10
    <2>2. Head(h.cmds) = SetIt BY <1>2, <1>8, <2>1
    <2>3. Unseen(h) /\ Len(h.cmds) > 1 BY <1>7, <1>9, <1>10
    <2> QED BY <1>1, <1>5, <1>6, <1>7, <1>10, <2>2, <2>3 DEF t
<1>11. CASE Len(h.cmds) < Len(t)
    <2>1. Len(t) - Len(h.cmds) + 1 \in 2 .. Len(t) BY <1>5, <1>7, <1>11
    <2>2. \E n \in Names(h.ev) : Head(h.cmds) = ZaddTo(n) BY <1>2, <1>8, <2>1
    <2>3. ASSUME Unseen(h) PROVE Len(h.cmds) > 1 /\ Head(h.cmds) = ZaddTo(Timeline)
        <3>1. Len(h.cmds) + 1 = Len(t) BY <1>5, <1>7, <1>9, <1>11, <2>3
        <3>2. Len(t) - Len(h.cmds) + 1 = 2 /\ Len(h.cmds) > 1 BY <1>5, <1>7, <3>1
        <3> QED BY <1>2, <1>8, <3>2
    <2>4. ASSUME ~Unseen(h) PROVE Head(h.cmds) # ZaddTo(Timeline)
        <3>3. ~(Len(h.cmds) + 1 >= Len(t)) BY <1>9, <2>4
        <3>1. Len(t) - Len(h.cmds) + 1 > 2
            <4>1. \A x, y \in Nat : ~(x + 1 >= y) => y - x + 1 > 2 OBVIOUS
            <4> QED BY <1>5, <1>7, <3>3, <4>1
        <3>2. PICK n \in Names(h.ev) : Head(h.cmds) = ZaddTo(n) /\ n # Timeline
            BY <1>2, <1>8, <2>1, <3>1
        <3> QED BY <3>2 DEF ZaddTo
    <2> QED BY <1>1, <1>5, <1>6, <1>7, <1>11, <2>2, <2>3, <2>4 DEF t
<1> QED BY <1>5, <1>7, <1>8, <1>10, <1>11

LEMMA AfterPipeIs ==
    ASSUME NEW a, act[a] \in Act, Shape(act[a]), act[a].pc = "pipe"
    PROVE  /\ AfterPipe(a) \in Steps \ {"ready", "pipe"}
           /\ AfterPipe(a) \in {"created", "child", "update", "erase", "unlinkGet", "finish", "next"}
           /\ AfterPipe(a) = "created" => act[a].op = "create"
           /\ AfterPipe(a) \in {"child", "update"} => act[a].op = "fail"
           /\ AfterPipe(a) \in {"erase", "unlinkGet", "finish"} => act[a].op = "delete"
           /\ AfterPipe(a) = "erase" => act[a].ids # <<>>
           /\ AfterPipe(a) = "unlinkGet" => act[a].ev.parent # 0
           /\ AfterPipe(a) = "next" => act[a].op \in {"bulk", "alerts", "tool"}
<1>1. act[a].op \in {"create", "fail", "delete", "bulk", "alerts", "tool"}
    BY StoreAssumption DEF Act, Ops, AllOperations, Shape
<1>2. CASE act[a].op = "create" BY <1>2 DEF AfterPipe, Steps
<1>3. CASE act[a].op = "fail" BY <1>3 DEF AfterPipe, Steps
<1>4. CASE act[a].op = "delete" BY <1>4 DEF AfterPipe, Steps
<1>5. CASE act[a].op \in {"bulk", "alerts", "tool"} BY <1>5 DEF AfterPipe, Steps
<1> QED BY <1>1, <1>2, <1>3, <1>4, <1>5

LEMMA CommandTurns ==
    ASSUME Base, NEW a \in Actors, Command(a)
    PROVE  /\ act[a].pc = "pipe" /\ act[a].on # 0 /\ act[a].on \in Ids
           /\ Turns(a, After(a)) /\ Grows(a, After(a)) /\ Seen \subseteq Seen'
           /\ After(a).op = act[a].op /\ After(a).on = act[a].on /\ After(a).ev = act[a].ev
           /\ After(a).ids = act[a].ids /\ After(a).cmds = Tail(act[a].cmds)
           /\ After(a).pc \in {"pipe", "created", "child", "update", "erase", "unlinkGet", "finish", "next"}
           /\ Len(act[a].cmds) = 1 <=> After(a).pc # "pipe"
           /\ After(a).pc = "created" => act[a].op = "create"
           /\ Unseen(After(a)) => Unseen(act[a]) /\ Head(act[a].cmds) = SetIt
           /\ Unseen(act[a]) => Making(After(a))
           /\ act[a].on \in Seen' \/ Unseen(After(a))
<1> DEFINE h == act[a]
           pc == IF Len(h.cmds) = 1 THEN AfterPipe(a) ELSE "pipe"
           g == [h EXCEPT !.cmds = Tail(h.cmds), !.pc = pc]
<1>1. h \in Act /\ Shape(h) /\ Placed(h, Seen) BY ActorIs
<1>2. h.pc = "pipe" /\ UNCHANGED <<jobs, memory, minted, spent, requests>> BY DEF Command
<1>3. h.on # 0 /\ h.on \in Ids BY <1>1, <1>2 DEF Shape, Act
<1>4. act' = [act EXCEPT ![a] = g] /\ g = After(a) BY DEF Command, After
<1>5. /\ h.cmds \in Seq(Cmd) /\ h.cmds # <<>> /\ Head(h.cmds) \in Cmd /\ Tail(h.cmds) \in Seq(Cmd)
      /\ Len(h.cmds) = 1 <=> Tail(h.cmds) = <<>>
      /\ Len(Tail(h.cmds)) = Len(h.cmds) - 1 /\ Len(h.cmds) \in Nat
      /\ Making(h) \/ Deleting(h)
      /\ Deleting(h) => /\ Head(h.cmds).do \in {"del", "zrem"}
                        /\ \A k \in 1 .. Len(Tail(h.cmds)) : Tail(h.cmds)[k].do \in {"del", "zrem"}
    BY <1>1, <1>2, PipeIs, TailOf, MembersOf
<1>6. /\ pc \in Steps /\ pc # "ready"
      /\ pc \in {"pipe", "created", "child", "update", "erase", "unlinkGet", "finish", "next"}
      /\ Len(h.cmds) = 1 <=> pc # "pipe"
      /\ pc = "created" => h.op = "create"
      /\ pc \in {"child", "update"} => h.op = "fail"
      /\ pc \in {"erase", "unlinkGet", "finish"} => h.op = "delete"
      /\ pc = "erase" => h.ids # <<>>
      /\ pc = "unlinkGet" => h.ev.parent # 0
      /\ pc = "next" => h.op \in {"bulk", "alerts", "tool"}
    <2>1. CASE Len(h.cmds) = 1
        <3>1. pc = AfterPipe(a) BY <2>1
        <3> HIDE DEF pc
        <3> QED BY <1>1, <1>2, <2>1, <3>1, AfterPipeIs
    <2>2. CASE Len(h.cmds) # 1 BY <2>2 DEF Steps
    <2> QED BY <2>1, <2>2
<1> HIDE DEF pc
<1>7. /\ g \in Act /\ g.op = h.op /\ g.on = h.on /\ g.ev = h.ev /\ g.ids = h.ids
      /\ g.cmds = Tail(h.cmds) /\ g.pc = pc
    BY <1>1, <1>5, <1>6 DEF Act
<1> HIDE DEF g
<1>8. Shape(h) /\ (Making(h) => Suffix(Tail(h.cmds), CreateCommands(h.ev)))
    BY <1>1, MakingIs
<1>9. Shape(g)
    <2>1. Making(g) => Making(h) BY <1>2, <1>7 DEF Making
    <2>2. Deleting(g) => Deleting(h) BY <1>2, <1>7 DEF Deleting
    <2>3. Making(g) => Suffix(g.cmds, CreateCommands(g.ev)) BY <1>7, <1>8, <2>1
    <2>4. Deleting(g) => \A k \in 1 .. Len(g.cmds) : g.cmds[k].do \in {"del", "zrem"}
        BY <1>5, <1>7, <2>2
    <2>5. pc = "pipe" => g.cmds # <<>> BY <1>5, <1>6, <1>7
    <2>6. h.ev # Nothing \/ h.op \in {"bulk", "alerts", "tool"}
        BY <1>1, <1>2, StoreAssumption DEF Shape, Act, Ops, AllOperations, Making
    <2>7. Making(g) => h.ev # Nothing BY <1>8, <2>1 DEF Shape
    <2>8. h.op = "create" => Members(h.ids) \subseteq {h.on} BY <1>8 DEF Shape
    <2>9. h.op \notin {"patch", "retype", "none"} BY <1>2, <1>8 DEF Shape
    <2> QED BY <1>3, <1>6, <1>7, <2>3, <2>4, <2>5, <2>6, <2>7, <2>8, <2>9 DEF Shape
<1>10. Unseen(h) => Making(h) /\ Len(h.cmds) > 1
    BY <1>1, MakingIs DEF Unseen
<1>11. ASSUME Unseen(h) PROVE Making(g)
    <2>1. Making(h) /\ Len(h.cmds) # 1
        <3>1. Making(h) /\ Len(h.cmds) > 1 BY <1>10, <1>11
        <3>2. Len(h.cmds) \in Nat BY <1>5
        <3>3. \A n \in Nat : n > 1 => n # 1 OBVIOUS
        <3> QED BY <3>1, <3>2, <3>3, Zenon
    <2>2. g.pc = "pipe" /\ g.op = h.op BY <1>6, <1>7, <2>1
    <2> QED BY <2>1, <2>2 DEF Making
<1>12. Unseen(g) => Unseen(h) /\ Head(h.cmds) = SetIt
    <2> SUFFICES ASSUME Unseen(g) PROVE Unseen(h) /\ Head(h.cmds) = SetIt OBVIOUS
    <2>1. Making(h) BY <1>2, <1>7 DEF Unseen, Making
    <2>2. Len(h.cmds) - 1 + 1 >= Len(CreateCommands(h.ev)) BY <1>5, <1>7 DEF Unseen
    <2>3. /\ Len(CreateCommands(h.ev)) \in Nat
          /\ \/ Head(h.cmds) = SetIt /\ Unseen(h)
             \/ Len(h.cmds) < Len(CreateCommands(h.ev))
        BY <1>1, <2>1, MakingIs
    <2> QED BY <1>5, <2>2, <2>3
<1>13. Turns(a, g) BY <1>1, <1>2, <1>4, <1>7, <1>9, GoesOn
<1>14. Grows(a, g) BY <1>2, <1>4, <1>7, <1>12, DataIs DEF Grows
<1>15. Seen \subseteq Seen' BY <1>14, SeenGrows
<1>16. h.on \in Seen' \/ Unseen(g)
    <2>1. CASE ~Unseen(h) BY <1>1, <1>3, <1>15, <2>1 DEF Placed
    <2>2. CASE Unseen(h) /\ ~Unseen(g)
        <3>1. h.on \in 1 .. minted' BY <1>2, <1>3, <2>2, IdsAre DEF Base, Working, Ids
        <3>2. ASSUME NEW b \in Actors, Unseen(act'[b]) PROVE act'[b].on # h.on
            <4>1. b # a /\ act'[b] = act[b] BY <1>4, <2>2, <3>2, OthersStay
            <4> QED BY <2>2, <3>2, <4>1 DEF Base, Working
        <3> QED BY <3>1, <3>2 DEF Seen
    <2> QED BY <2>1, <2>2
<1> QED BY <1>2, <1>3, <1>4, <1>6, <1>7, <1>11, <1>12, <1>13, <1>14, <1>15, <1>16

LEMMA CommandWrites ==
    ASSUME Base, NEW a \in Actors, Command(a), NEW c, c = Head(act[a].cmds), NEW i, i = act[a].on
    PROVE  /\ c \in Cmd /\ c.do \in {"set", "del", "zadd", "zrem"}
           /\ c.do = "set" => /\ c = SetIt /\ Making(act[a]) /\ Unseen(act[a]) /\ act[a].ev \in Event
                              /\ store' = [store EXCEPT ![i] = act[a].ev] /\ index' = index
           /\ c.do = "del" => /\ c = DelIt /\ Deleting(act[a])
                              /\ store' = [store EXCEPT ![i] = Nothing] /\ index' = index
                              /\ copied' = IF Held(i) THEN copied \union {i} ELSE copied \ {i}
           /\ c.do # "del" => copied' = copied
           /\ c.do = "zadd" => /\ c.name \in Indexes /\ c = ZaddTo(c.name) /\ Making(act[a])
                               /\ act[a].ev \in Event /\ c.name \in Names(act[a].ev) /\ i \in Seen'
                               /\ c.name = Timeline => Unseen(act[a])
                               /\ index' = [index EXCEPT ![c.name] = @ \union {i}] /\ store' = store
           /\ c.do = "zrem" => /\ c.name \in Indexes /\ c = ZremOf(c.name) /\ Deleting(act[a])
                               /\ index' = [index EXCEPT ![c.name] = @ \ {i}] /\ store' = store
           /\ gone' = IF Len(act[a].cmds) = 1 /\ Deleting(act[a]) THEN gone \union {i} ELSE gone
           /\ loose' = IF act[a].op = "tool" THEN loose \union {i} ELSE loose
           /\ UNCHANGED <<jobs, memory, minted, spent, requests>>
<1> DEFINE h == act[a]
<1>1. h \in Act /\ Shape(h) /\ h.pc = "pipe" BY ActorIs DEF Command
<1>2. /\ c \in Cmd /\ (Making(h) \/ Deleting(h)) /\ ~(Making(h) /\ Deleting(h))
      /\ Deleting(h) => c.do \in {"del", "zrem"}
    BY <1>1, PipeIs
<1>3. /\ c.do \in {"set", "del", "zadd", "zrem"}
      /\ c.do = "set" => c = SetIt
      /\ c.do = "del" => c = DelIt
      /\ c.do = "zadd" => c.name \in Indexes /\ c = ZaddTo(c.name)
      /\ c.do = "zrem" => c.name \in Indexes /\ c = ZremOf(c.name)
    BY <1>2, CmdIs
<1>4. /\ store' = CASE c.do = "set" -> [store EXCEPT ![i] = h.ev]
                    [] c.do = "del" -> [store EXCEPT ![i] = Nothing]
                    [] OTHER        -> store
      /\ index' = CASE c.do = "zadd" -> [index EXCEPT ![c.name] = @ \union {i}]
                    [] c.do = "zrem" -> [index EXCEPT ![c.name] = @ \ {i}]
                    [] OTHER         -> index
      /\ gone' = IF Len(h.cmds) = 1 /\ h.op \notin {"create", "fail"} THEN gone \union {i} ELSE gone
      /\ loose' = IF h.op = "tool" THEN loose \union {i} ELSE loose
      /\ copied' = IF c.do # "del" THEN copied
                   ELSE IF Held(i) THEN copied \union {i} ELSE copied \ {i}
      /\ UNCHANGED <<jobs, memory, minted, spent, requests>>
    BY DEF Command
<1>5. Deleting(h) <=> h.op \notin {"create", "fail"} BY <1>1 DEF Deleting
<1>6. ASSUME Making(h)
      PROVE  /\ h.ev \in Event
             /\ \/ c = SetIt /\ Unseen(h)
                \/ \E n \in Names(h.ev) : c = ZaddTo(n)
             /\ c = ZaddTo(Timeline) => Unseen(h)
    BY <1>1, <1>6, MakingIs
<1>7. \A n : ZaddTo(n).name = n /\ ZaddTo(n).do = "zadd" /\ SetIt.do = "set" BY DEF ZaddTo, SetIt
<1>8. Unseen(After(a)) => c = SetIt BY CommandTurns
<1>9. i \in Seen' \/ Unseen(After(a)) BY CommandTurns
<1>10. c.do # "del" => copied' = copied BY <1>4
<1>11. CASE c.do = "set"
    <2>1. Making(h) /\ ~Deleting(h) BY <1>2, <1>11
    <2>2. c = SetIt /\ Unseen(h) /\ h.ev \in Event BY <1>6, <1>7, <1>11, <2>1
    <2> QED BY <1>2, <1>3, <1>4, <1>5, <1>10, <1>11, <2>1, <2>2
<1>12. CASE c.do = "del"
    <2>1. Deleting(h) BY <1>2, <1>6, <1>7, <1>12
    <2>2. copied' = IF Held(i) THEN copied \union {i} ELSE copied \ {i} BY <1>4, <1>12
    <2> QED BY <1>2, <1>3, <1>4, <1>5, <1>12, <2>1, <2>2
<1>13. CASE c.do = "zadd"
    <2>1. Making(h) /\ c # SetIt BY <1>2, <1>7, <1>13
    <2>2. h.ev \in Event /\ c.name \in Names(h.ev) BY <1>6, <1>7, <2>1
    <2>3. i \in Seen' BY <1>8, <1>9, <2>1
    <2>4. c.name = Timeline => Unseen(h) BY <1>3, <1>6, <1>13, <2>1
    <2> QED BY <1>2, <1>3, <1>4, <1>5, <1>10, <1>13, <2>1, <2>2, <2>3, <2>4
<1>14. CASE c.do = "zrem"
    <2>1. Deleting(h) BY <1>2, <1>6, <1>7, <1>14
    <2> QED BY <1>2, <1>3, <1>4, <1>5, <1>10, <1>14, <2>1
<1> QED BY <1>3, <1>11, <1>12, <1>13, <1>14, <1>10

LEMMA CommandKeepsBase ==
    ASSUME Base, NEW a \in Actors, Command(a)
    PROVE  Base' /\ Seen \subseteq Seen'
<1> DEFINE h == act[a]
           c == Head(h.cmds)
           i == h.on
           g == After(a)
<1>1. h \in Act /\ Shape(h) /\ Placed(h, Seen) BY ActorIs
<1>2. /\ h.pc = "pipe" /\ i # 0 /\ i \in Ids /\ Turns(a, g) /\ Grows(a, g) /\ Seen \subseteq Seen'
      /\ g.op = h.op /\ g.on = i /\ g.ev = h.ev /\ g.ids = h.ids
      /\ g.pc \in {"pipe", "created", "child", "update", "erase", "unlinkGet", "finish", "next"}
      /\ Unseen(g) => Unseen(h)
      /\ i \in Seen' \/ Unseen(g)
    BY CommandTurns
<1>3. /\ c \in Cmd /\ c.do \in {"set", "del", "zadd", "zrem"}
      /\ c.do = "set" => /\ Unseen(h) /\ h.ev \in Event
                         /\ store' = [store EXCEPT ![i] = h.ev] /\ index' = index
      /\ c.do = "del" => /\ store' = [store EXCEPT ![i] = Nothing] /\ index' = index
                         /\ Deleting(h) /\ copied' \subseteq copied \union {i}
      /\ c.do # "del" => copied' = copied
      /\ c.do = "zadd" => /\ c.name \in Indexes /\ i \in Seen'
                          /\ index' = [index EXCEPT ![c.name] = @ \union {i}] /\ store' = store
      /\ c.do = "zrem" => /\ c.name \in Indexes
                          /\ index' = [index EXCEPT ![c.name] = @ \ {i}] /\ store' = store
      /\ gone' = IF Len(h.cmds) = 1 /\ Deleting(h) THEN gone \union {i} ELSE gone
      /\ loose' = IF h.op = "tool" THEN loose \union {i} ELSE loose
      /\ UNCHANGED <<jobs, memory, minted, spent, requests>>
    BY CommandWrites
<1> HIDE DEF g, c
<1>4. g \in Act /\ Shape(g) /\ Counted BY <1>2 DEF Turns
<1>5. Refers(h.ev, Seen') BY <1>1, <1>2, <1>3, IdsAre, RefersGrow DEF Placed
<1>6. Placed(g, Seen')
    <2>1. Unseen(g) \/ g.on \in {0} \union Seen' BY <1>2
    <2>2. Members(g.ids) \subseteq Seen' \union (IF Making(g) THEN {g.on} ELSE {})
        <3>1. Members(h.ids) \subseteq Seen \union (IF Making(h) THEN {i} ELSE {}) BY <1>1 DEF Placed
        <3>2. Unseen(g) => Making(g) BY DEF Unseen
        <3> QED BY <1>2, <3>1, <3>2
    <2> QED BY <1>2, <1>5, <2>1, <2>2 DEF Placed
<1>7. act'[Worker].op = "fail" => jobs' # <<>>
    <2>1. jobs' = jobs BY <1>3
    <2>2. act'[Worker].op = act[Worker].op BY <1>2, OthersStay DEF Grows, Actors
    <2> QED BY <2>1, <2>2 DEF Base, Working
<1>8. Working' BY <1>2, <1>4, <1>6, <1>7, WorkingStays DEF Turns
<1>9. /\ store' \in [Ids -> Event \union {Nothing}]
      /\ \A k \in Ids : store'[k] = store[k] \/ store'[k] = Nothing \/ (k = i /\ store'[k] = h.ev /\ Unseen(h))
    BY <1>2, <1>3, DataIs
<1>10. Unseen(h) => i <= minted' BY <1>3 DEF Base, Working
<1>11. /\ index' \in [Indexes -> SUBSET Ids]
       /\ \A n \in Indexes : index'[n] \subseteq index[n] \union Seen'
    BY <1>2, <1>3, DataIs
<1>12. /\ gone' \subseteq gone \union Seen' /\ loose' \subseteq loose \union Seen'
       /\ copied' \subseteq copied \union Seen'
    <2>1. Deleting(h) \/ h.op = "tool" => ~Unseen(h) BY DEF Deleting, Unseen, Making
    <2>2. Deleting(h) \/ h.op = "tool" => i \in Seen' BY <1>2, <2>1
    <2> QED BY <1>3, <2>2
<1>13. \A k \in Ids : \/ store'[k] = store[k] \/ store'[k] = Nothing
                      \/ k <= minted' /\ Refers(store'[k], Seen')
    BY <1>5, <1>9, <1>10
<1>14. Base'
    <2>1. /\ jobs' = jobs /\ memory' = memory /\ minted' = minted
          /\ minted' \in 0 .. MaxEvents /\ minted' >= minted
          /\ jobs' \in Seq(Ids) /\ memory' \in [Ids -> Event \union {Nothing}]
          /\ \A k \in Ids : memory'[k] = memory[k]
          /\ \A k \in 1 .. Len(jobs') : jobs'[k] \in Seen' /\ memory'[jobs'[k]] # Nothing
        BY <1>2, <1>3, DataIs
    <2> QED BY <1>2, <1>4, <1>8, <1>9, <1>11, <1>12, <1>13, <2>1, BaseStays
<1> QED BY <1>2, <1>14

-----------------------------------------------------------------------------
(* The other steps.                                                        *)

\* An actor rests, or a DELETE request ends.
LEMMA ClosesKeepsWorking ==
    ASSUME Base, NEW a \in Actors, NEW g \in Act, Shape(g), act' = [act EXCEPT ![a] = g],
           \/ g = Resting
           \/ g.pc = "finish" /\ a \in Clients /\ act[a].pc = "unlinkSet" /\ g.op = act[a].op
              /\ g.on = act[a].on /\ g.ev = act[a].ev /\ g.ids = act[a].ids,
           minted' = minted,
           a # Worker => jobs' = jobs \/ jobs' # <<>>
    PROVE  Working' /\ Seen \subseteq Seen'
<1>1. /\ act[a] \in Act /\ Shape(act[a]) /\ Placed(act[a], Seen)
      /\ a \in Clients => act[a].op # "fail"
    BY ActorIs
<1>2. Resting.pc = "ready" /\ Resting.op = "none" BY DEF Resting
<1>3. ~Unseen(g) BY <1>2 DEF Unseen, Making
<1>4. Grows(a, g) BY <1>3, DataIs DEF Grows
<1>5. Seen \subseteq Seen' /\ Seen \in SUBSET Ids BY <1>4, SeenGrows, IdsAre
<1>6. Placed(g, Seen')
    <2>1. CASE g = Resting BY <2>1, RestingIs
    <2>2. CASE g.pc = "finish" /\ act[a].pc = "unlinkSet" /\ g.op = act[a].op
               /\ g.on = act[a].on /\ g.ev = act[a].ev /\ g.ids = act[a].ids
        <3>1. Placed(g, Seen) BY <1>1, <2>2 DEF Placed, Unseen, Making
        <3> QED BY <1>5, <2>2, <3>1, PlacedGrows
    <2> QED BY <2>1, <2>2
<1>7. a = Worker => g.op \in {"none", "fail"} BY <1>2, StoreAssumption
<1>8. a \in Clients => g.op # "fail" BY <1>1, <1>2
<1>9. act'[Worker].op = "fail" => jobs' # <<>>
    <2>1. CASE a = Worker
        <3>1. g = Resting BY <2>1, StoreAssumption
        <3> QED BY <1>2, <2>1, <3>1, OthersStay
    <2>2. CASE a # Worker
        <3>1. act'[Worker] = act[Worker] BY <2>2, OthersStay DEF Actors
        <3> QED BY <2>2, <3>1 DEF Base, Working
    <2> QED BY <2>1, <2>2
<1>10. Working' BY <1>4, <1>6, <1>7, <1>8, <1>9, WorkingStays
<1> QED BY <1>5, <1>10

LEMMA CreatedKeepsBase ==
    ASSUME Base, NEW a \in Clients, Created(a)
    PROVE  Base' /\ Seen \subseteq Seen' /\ jobs \o act[a].ids \in Seq(Ids)
<1> DEFINE h == act[a]
           i == h.on
<1>1. a \in Actors /\ a # Worker BY StoreAssumption DEF Actors
<1>2. h \in Act /\ Shape(h) /\ Placed(h, Seen) BY <1>1, ActorIs
<1>3. /\ h.pc = "created" /\ jobs' = jobs \o h.ids
      /\ memory' = IF h.ids = <<>> THEN memory ELSE [memory EXCEPT ![i] = h.ev]
      /\ act' = [act EXCEPT ![a] = Resting]
      /\ UNCHANGED <<store, index, minted, spent, requests, gone, loose, copied>>
    BY DEF Created, Done
<1>4. i \in Seen /\ i \in Ids /\ h.ev # Nothing /\ h.ev \in Event /\ h.ids \in Seq(Ids)
      /\ Members(h.ids) \subseteq {i}
    BY <1>2, <1>3, IdsAre DEF Shape, Act, Placed, Unseen, Making
<1>5. jobs \in Seq(Ids) BY DataIs
<1>6. /\ jobs' \in Seq(Ids) /\ Len(jobs') = Len(jobs) + Len(h.ids)
      /\ \A k \in 1 .. Len(jobs) + Len(h.ids) :
            jobs'[k] = IF k <= Len(jobs) THEN jobs[k] ELSE h.ids[k - Len(jobs)]
    BY <1>3, <1>4, <1>5, ConcatProperties
<1>7. jobs' = jobs \/ jobs' # <<>>
    <2>1. Len(jobs) \in Nat /\ Len(h.ids) \in Nat BY <1>4, <1>5
    <2>2. CASE h.ids = <<>> BY <1>3, <1>5, <2>2
    <2>3. CASE h.ids # <<>>
        <3>1. Len(h.ids) # 0 BY <1>4, <2>3
        <3>2. Len(jobs') # 0 BY <1>6, <2>1, <3>1
        <3> QED BY <1>6, <3>2
    <2> QED BY <2>2, <2>3
<1>8. memory' \in [Ids -> Event \union {Nothing}] /\ \A k \in Ids : memory[k] # Nothing => memory'[k] # Nothing
    BY <1>3, <1>4, DataIs
<1>9. Working' /\ Seen \subseteq Seen' BY <1>1, <1>3, <1>7, <1>8, RestingIs, ClosesKeepsWorking
<1>10. ASSUME NEW k \in 1 .. Len(jobs') PROVE jobs'[k] \in Seen' /\ memory'[jobs'[k]] # Nothing
    <2>1. Len(jobs) \in Nat /\ Len(h.ids) \in Nat BY <1>4, <1>5
    <2>2. CASE k <= Len(jobs)
        <3>1. k \in 1 .. Len(jobs) /\ jobs'[k] = jobs[k] BY <1>6, <2>1, <2>2
        <3>2. jobs[k] \in Seen /\ memory[jobs[k]] # Nothing BY <3>1, DataIs
        <3> QED BY <1>8, <1>9, <3>1, <3>2, IdsAre
    <2>3. CASE ~(k <= Len(jobs))
        <3>1. k - Len(jobs) \in 1 .. Len(h.ids) /\ jobs'[k] = h.ids[k - Len(jobs)]
            BY <1>6, <2>1, <2>3
        <3>2. h.ids[k - Len(jobs)] \in Members(h.ids) BY <1>4, <3>1, MembersOf
        <3>3. jobs'[k] = i BY <1>4, <3>1, <3>2
        <3>4. h.ids # <<>> BY <1>4, <3>2 DEF Members
        <3>5. memory'[i] = h.ev BY <1>3, <1>4, <3>4, DataIs
        <3> QED BY <1>4, <1>9, <3>3, <3>5
    <2> QED BY <2>2, <2>3
<1>11. Refers(h.ev, Seen') BY <1>2, <1>8, <1>9, IdsAre, RefersGrow DEF Placed
<1>12. \A k \in Ids : memory'[k] = memory[k] \/ (k \in Seen' /\ Refers(memory'[k], Seen'))
    BY <1>3, <1>4, <1>9, <1>11, DataIs
<1>13. Counted BY <1>3, IdsAre DEF Counted
<1>14. Base' BY <1>3, <1>6, <1>8, <1>9, <1>10, <1>12, <1>13, DataIs, BaseStays
<1> QED BY <1>3, <1>6, <1>9, <1>14

LEMMA UpdateKeepsBase ==
    ASSUME Base, UpdateParent
    PROVE  Base' /\ Seen \subseteq Seen'
<1> DEFINE h == act[Worker]
           i == Head(jobs)
           ev == [memory[i] EXCEPT !.children = h.ids]
<1>1. Worker \in Actors BY DEF Actors
<1>2. h \in Act /\ Shape(h) /\ Placed(h, Seen) BY <1>1, ActorIs
<1>3. /\ h.pc = "update" /\ jobs' = Tail(jobs)
      /\ memory' = [memory EXCEPT ![i] = IF i \in Members(Tail(jobs)) THEN ev ELSE Nothing]
      /\ store' = [store EXCEPT ![i] = ev]
      /\ act' = [act EXCEPT ![Worker] = Resting]
      /\ UNCHANGED <<index, minted, spent, requests, gone, loose, copied>>
    BY DEF UpdateParent, Done
<1>4. jobs # <<>> /\ jobs \in Seq(Ids) BY <1>2, <1>3, DataIs DEF Shape, Base, Working
<1>5. /\ i \in Ids /\ i \in Seen /\ memory[i] # Nothing /\ Tail(jobs) \in Seq(Ids)
      /\ \A k \in 1 .. Len(Tail(jobs)) : Tail(jobs)[k] \in Seen /\ memory[Tail(jobs)[k]] # Nothing
    <2>1. /\ Len(jobs) >= 1 /\ i = jobs[1] /\ i \in Ids /\ Tail(jobs) \in Seq(Ids)
          /\ Len(Tail(jobs)) = Len(jobs) - 1 /\ Len(jobs) \in Nat
          /\ \A k \in 1 .. Len(Tail(jobs)) : Tail(jobs)[k] = jobs[k + 1]
        BY <1>4, TailOf, MembersOf
    <2>2. \A k \in 1 .. Len(jobs) : jobs[k] \in Seen /\ memory[jobs[k]] # Nothing BY DataIs
    <2>3. 1 \in 1 .. Len(jobs) BY <2>1
    <2>4. ASSUME NEW k \in 1 .. Len(Tail(jobs))
          PROVE  Tail(jobs)[k] \in Seen /\ memory[Tail(jobs)[k]] # Nothing
        <3>1. k + 1 \in 1 .. Len(jobs) /\ Tail(jobs)[k] = jobs[k + 1] BY <2>1
        <3> QED BY <2>2, <3>1
    <2> QED BY <2>1, <2>2, <2>3, <2>4
<1>6. memory[i] \in Event /\ Refers(memory[i], Seen) BY <1>5, StoredIs
<1>7. ev \in Event /\ ev.parent = memory[i].parent /\ ev.children = h.ids
    BY <1>2, <1>6 DEF Event, Act
<1>8. Refers(ev, Seen)
    <2>1. Members(h.ids) \subseteq Seen BY <1>2, <1>3 DEF Placed, Making
    <2> QED BY <1>5, <1>6, <1>7, <2>1 DEF Refers
<1> HIDE DEF ev
<1>9. ev # Nothing BY <1>7, NothingAssumption
<1>10. /\ memory' \in [Ids -> Event \union {Nothing}] /\ store' \in [Ids -> Event \union {Nothing}]
       /\ \A k \in Members(Tail(jobs)) : memory[k] # Nothing => memory'[k] # Nothing
    BY <1>3, <1>5, <1>7, <1>9, DataIs
<1>11. Working' /\ Seen \subseteq Seen' BY <1>1, <1>3, <1>10, RestingIs, ClosesKeepsWorking
<1>12. Refers(ev, Seen') BY <1>8, <1>10, <1>11, IdsAre, RefersGrow
<1>13. \A k \in Ids : /\ \/ memory'[k] = memory[k] \/ memory'[k] = Nothing
                         \/ k \in Seen' /\ Refers(memory'[k], Seen')
                      /\ store'[k] = store[k] \/ (k <= minted' /\ Refers(store'[k], Seen'))
    <2>1. i <= minted' BY <1>3, <1>5, IdsAre
    <2> QED BY <1>3, <1>5, <1>11, <1>12, <2>1, DataIs
<1>14. \A k \in 1 .. Len(jobs') : jobs'[k] \in Seen' /\ memory'[jobs'[k]] # Nothing
    BY <1>3, <1>5, <1>10, <1>11, IdsAre, MembersOf
<1>15. Counted BY <1>3, IdsAre DEF Counted
<1>16. Base' BY <1>3, <1>5, <1>10, <1>11, <1>13, <1>14, <1>15, DataIs, BaseStays
<1> QED BY <1>11, <1>16

\* A copy is written back.
LEMMA WriteKeepsBase ==
    ASSUME Base, NEW a \in Clients, UnlinkSet(a) \/ PatchSet(a)
    PROVE  /\ Base' /\ Seen \subseteq Seen'
           /\ act[a].on \in Seen /\ act[a].on \in Ids /\ act[a].ev \in Event
           /\ store' = [store EXCEPT ![act[a].on] = act[a].ev]
           /\ \E g : /\ act' = [act EXCEPT ![a] = g]
                     /\ \/ g = Resting
                        \/ /\ g.pc = "finish" /\ act[a].pc = "unlinkSet" /\ g.op = act[a].op
                           /\ g.on = act[a].on /\ g.ev = act[a].ev /\ g.ids = act[a].ids
<1> DEFINE h == act[a]
           i == h.on
<1>1. a \in Actors /\ a # Worker BY StoreAssumption DEF Actors
<1>2. h \in Act /\ Shape(h) /\ Placed(h, Seen) BY <1>1, ActorIs
<1>3. /\ h.pc \in {"unlinkSet", "patchSet"} /\ store' = [store EXCEPT ![i] = h.ev]
      /\ UNCHANGED <<index, jobs, memory, minted, spent, requests, gone>>
      /\ loose' = loose \/ loose' = loose \union {i}
      /\ copied' = copied
    BY DEF UnlinkSet, PatchSet
<1>4. i \in Seen /\ i \in Ids /\ h.ev # Nothing /\ h.ev \in Event
    BY <1>2, <1>3, IdsAre DEF Shape, Act, Placed, Unseen, Making
<1>5. \E g \in Act : /\ Shape(g) /\ act' = [act EXCEPT ![a] = g]
                     /\ \/ g = Resting
                        \/ /\ g.pc = "finish" /\ act[a].pc = "unlinkSet" /\ g.op = act[a].op
                           /\ g.on = act[a].on /\ g.ev = act[a].ev /\ g.ids = act[a].ids
    <2>1. CASE PatchSet(a)
        <3>1. act' = [act EXCEPT ![a] = Resting] BY <2>1 DEF PatchSet, Done
        <3> QED BY <3>1, RestingIs
    <2>2. CASE UnlinkSet(a)
        <3> DEFINE g == [h EXCEPT !.pc = "finish"]
        <3>1. act' = [act EXCEPT ![a] = g] /\ h.pc = "unlinkSet" BY <2>2 DEF UnlinkSet, Goto
        <3>2. /\ g \in Act /\ g.pc = "finish" /\ g.op = h.op /\ g.on = h.on /\ g.ev = h.ev
              /\ g.ids = h.ids /\ g.cmds = h.cmds
            BY <1>2 DEF Act, Steps
        <3>3. h.op = "delete" BY <1>2, <3>1 DEF Shape
        <3> HIDE DEF g
        <3>4. Shape(g) BY <1>4, <3>2, <3>3 DEF Shape, Making, Deleting
        <3> QED BY <3>1, <3>2, <3>4
    <2> QED BY <2>1, <2>2
<1>6. PICK g \in Act : /\ Shape(g) /\ act' = [act EXCEPT ![a] = g]
                       /\ \/ g = Resting
                          \/ /\ g.pc = "finish" /\ act[a].pc = "unlinkSet" /\ g.op = act[a].op
                             /\ g.on = act[a].on /\ g.ev = act[a].ev /\ g.ids = act[a].ids
    BY <1>5
<1>7. Working' /\ Seen \subseteq Seen' BY <1>1, <1>3, <1>6, ClosesKeepsWorking
<1>8. store' \in [Ids -> Event \union {Nothing}] BY <1>3, <1>4, DataIs
<1>9. Refers(h.ev, Seen') BY <1>2, <1>3, <1>7, IdsAre, RefersGrow DEF Placed
<1>10. \A k \in Ids : store'[k] = store[k] \/ (k <= minted' /\ Refers(store'[k], Seen'))
    <2>1. i <= minted' BY <1>3, <1>4, IdsAre
    <2> QED BY <1>3, <1>4, <1>9, <2>1, DataIs
<1>11. Counted BY <1>3, IdsAre DEF Counted
<1>12. loose' \subseteq loose \union Seen' BY <1>3, <1>4, <1>7
<1>13. /\ jobs' = jobs /\ memory' = memory /\ minted' = minted
       /\ minted' \in 0 .. MaxEvents /\ minted' >= minted
       /\ jobs' \in Seq(Ids) /\ memory' \in [Ids -> Event \union {Nothing}]
       /\ \A k \in Ids : memory'[k] = memory[k]
       /\ \A k \in 1 .. Len(jobs') : jobs'[k] \in Seen' /\ memory'[jobs'[k]] # Nothing
    BY <1>3, <1>7, DataIs
<1>14. Base' BY <1>3, <1>7, <1>8, <1>10, <1>11, <1>12, <1>13, DataIs, BaseStays
<1> QED BY <1>3, <1>4, <1>6, <1>7, <1>14

LEMMA ExpireKeepsBase ==
    ASSUME Base, NEW i \in Ids, Expire(i)
    PROVE  Base' /\ Seen' = Seen
<1>1. /\ store' = [store EXCEPT ![i] = Nothing]
      /\ UNCHANGED <<index, act, jobs, memory, minted, spent, requests, gone, loose, copied>>
    BY DEF Expire
<1>2. Seen' = Seen BY <1>1 DEF Seen
<1>3. Working' BY <1>1, <1>2 DEF Base, Working
<1>4. Counted BY <1>1, IdsAre DEF Counted
<1>5. /\ store' \in [Ids -> Event \union {Nothing}]
      /\ \A k \in Ids : store'[k] = store[k] \/ store'[k] = Nothing
    BY <1>1, DataIs
<1>6. Base' BY <1>1, <1>2, <1>3, <1>4, <1>5, DataIs, BaseStays
<1> QED BY <1>2, <1>6

LEMMA StutterKeepsBase ==
    ASSUME Base, UNCHANGED vars
    PROVE  Base' /\ Seen' = Seen
<1>1. Seen' = Seen BY DEF vars, Seen
<1>2. Working' BY <1>1 DEF vars, Base, Working
<1>3. Kept' BY <1>1 DEF vars, Base, Kept
<1>4. TypeOK' BY DEF vars, Base, TypeOK
<1> QED BY <1>1, <1>2, <1>3, <1>4 DEF Base

LEMMA StepKeepsBase ==
    ASSUME Base, [Next]_vars
    PROVE  Base'
BY StepDoes, MoveKeepsBase, MakeKeepsBase, CommandKeepsBase, CreatedKeepsBase, WriteKeepsBase,
   UpdateKeepsBase, ExpireKeepsBase, StutterKeepsBase

LEMMA InitBase ==
    ASSUME Init
    PROVE  Base /\ \A a \in Actors : act[a] = Resting
<1>1. \A a \in Actors : act[a] = Resting BY DEF Init
<1>2. MaxEvents \in Nat /\ MaxRequests \in Nat BY StoreAssumption
<1>3. \A a \in Actors : ~Unseen(act[a]) BY <1>1 DEF Resting, Unseen, Making
<1>4. Working
    <2>1. act \in [Actors -> Act] BY RestingIs DEF Init
    <2>2. Resting.op = "none" /\ Worker \in Actors /\ Clients \subseteq Actors
        BY DEF Resting, Actors
    <2> QED BY <1>1, <1>3, <2>1, <2>2, RestingIs DEF Working
<1>5. Kept
    <2>1. \A S : Refers(Nothing, S) BY DEF Refers
    <2>2. /\ \A n \in Indexes : index[n] = {}
          /\ \A i \in Ids : store[i] = Nothing /\ memory[i] = Nothing
          /\ gone = {} /\ loose = {} /\ copied = {} /\ jobs = <<>>
        BY DEF Init
    <2>3. Len(jobs) = 0 BY <2>2
    <2>4. \A k \in 1 .. Len(jobs) : FALSE BY <2>3
    <2> QED BY <2>1, <2>2, <2>4 DEF Kept
<1>6. TypeOK
    <2>1. \A a \in Actors : /\ act[a].pc \in Steps /\ act[a].on \in {0} \union Ids
                            /\ act[a].ev \in Event \union {Nothing} /\ act[a].ids \in Seq(Ids)
        BY <1>1, RestingIs DEF Act
    <2> QED BY <1>2, <2>1 DEF Init, TypeOK
<1> QED BY <1>1, <1>4, <1>5, <1>6 DEF Base

LEMMA BaseHolds == Spec => []Base
<1>1. Init => Base BY InitBase
<1>2. Base /\ [Next]_vars => Base' BY StepKeepsBase
<1> QED BY <1>1, <1>2, PTL DEF Spec

\* The variables keep their types, whatever is created, deleted, patched and
\* expires, and in whatever order.
THEOREM TypeCorrect == Spec => []TypeOK
<1>1. Base => TypeOK BY DEF Base
<1> QED BY <1>1, BaseHolds, PTL

-----------------------------------------------------------------------------
(* A deleted event is not in the timeline.                                 *)

\* A creation that enters its event in the timeline is the first to name it.
LEMMA NewInTimeline ==
    ASSUME Base, NEW a \in Actors, Unseen(act[a])
    PROVE  /\ act[a].on \notin Seen
           /\ \A b \in Actors : Deleting(act[b]) => act[b].on # act[a].on
<1>1. act[a].on \notin Seen BY DEF Seen
<1>2. ASSUME NEW b \in Actors, Deleting(act[b]) PROVE act[b].on \in Seen
    <2>1. /\ act[b] \in Act /\ Shape(act[b]) /\ Placed(act[b], Seen) BY ActorIs
    <2>2. ~Unseen(act[b]) /\ act[b].pc = "pipe" BY <1>2 DEF Deleting, Unseen, Making
    <2> QED BY <2>1, <2>2 DEF Shape, Placed
<1> QED BY <1>1, <1>2

LEMMA CommandKeepsListing ==
    ASSUME Base, Listing, NEW a \in Actors, Command(a)
    PROVE  Listing'
<1> DEFINE h == act[a]
           c == Head(h.cmds)
           i == h.on
           g == After(a)
<1>1. h \in Act /\ Shape(h) /\ h.pc = "pipe" /\ i \in Ids BY ActorIs, CommandTurns
<1>2. /\ act' = [act EXCEPT ![a] = g] /\ g.op = h.op /\ g.on = i /\ g.cmds = Tail(h.cmds)
      /\ Deleting(g) => Deleting(h)
    BY CommandTurns DEF Turns, Deleting
<1>3. /\ Members(h.cmds) = {c} \union Members(Tail(h.cmds))
      /\ Len(h.cmds) = 1 => Members(Tail(h.cmds)) = {}
    BY <1>1, PipeIs
<1>4. /\ c.do \in {"set", "del", "zadd", "zrem"}
      /\ c.do \in {"set", "del"} => index' = index
      /\ c.do = "zadd" => /\ c.name \in Indexes /\ (c.name = Timeline => Unseen(h)) /\ Making(h)
                          /\ index' = [index EXCEPT ![c.name] = @ \union {i}]
      /\ c.do = "zrem" => /\ c.name \in Indexes /\ c = ZremOf(c.name)
                          /\ index' = [index EXCEPT ![c.name] = @ \ {i}]
      /\ gone' = IF Len(h.cmds) = 1 /\ Deleting(h) THEN gone \union {i} ELSE gone
    BY CommandWrites
<1>5. /\ Timeline \in Indexes /\ index \in [Indexes -> SUBSET Ids] BY NamesOf, DataIs
<1>6. \A k : k \in index'[Timeline] => k \in index[Timeline] \/ (k = i /\ Unseen(h))
    BY <1>4, <1>5
<1>7. ASSUME Deleting(h) PROVE i \notin index'[Timeline] \/ ZremOf(Timeline) \in Members(Tail(h.cmds))
    <2>1. ~Unseen(h) BY <1>7 DEF Deleting, Unseen, Making
    <2>2. i \notin index[Timeline] \/ ZremOf(Timeline) = c \/ ZremOf(Timeline) \in Members(Tail(h.cmds))
        BY <1>3, <1>7 DEF Listing, Cleans
    <2>3. ASSUME ZremOf(Timeline) = c PROVE i \notin index'[Timeline]
        <3>1. c.do = "zrem" /\ c.name = Timeline BY <1>5, <2>3, NamesOf
        <3> QED BY <1>4, <1>5, <3>1
    <2> QED BY <1>6, <2>1, <2>2, <2>3
<1>8. Cleans'
    <2> SUFFICES ASSUME NEW b \in Actors, Deleting(act'[b])
                 PROVE  act'[b].on \notin index'[Timeline] \/ ZremOf(Timeline) \in Members(act'[b].cmds)
        BY DEF Cleans
    <2>1. CASE b = a BY <1>2, <1>7, <2>1, OthersStay
    <2>2. CASE b # a
        <3>1. act'[b] = act[b] BY <1>2, <2>2, OthersStay
        <3>2. act[b].on \notin index[Timeline] \/ ZremOf(Timeline) \in Members(act[b].cmds)
            BY <3>1 DEF Listing, Cleans
        <3>3. Unseen(h) => act[b].on # i BY <3>1, NewInTimeline
        <3> QED BY <1>6, <3>1, <3>2, <3>3
    <2> QED BY <2>1, <2>2
<1>9. Unlisted'
    <2> SUFFICES ASSUME NEW k \in gone' PROVE k \notin index'[Timeline] BY DEF Unlisted
    <2>1. CASE k \in gone
        <3>1. k \in Seen /\ k \notin index[Timeline] BY <2>1 DEF Base, Kept, Listing, Unlisted
        <3> QED BY <1>6, <3>1, NewInTimeline
    <2>2. CASE k \notin gone BY <1>3, <1>4, <1>7, <2>2
    <2> QED BY <2>1, <2>2
<1> QED BY <1>8, <1>9 DEF Listing

LEMMA StepKeepsListing ==
    ASSUME Base, Listing, [Next]_vars
    PROVE  Listing'
<1>1. Clients \subseteq Actors /\ Worker \in Actors BY DEF Actors
<1>2. ASSUME NEW a \in Actors, NEW g, act' = [act EXCEPT ![a] = g],
             Deleting(g) => ZremOf(Timeline) \in Members(g.cmds), index' = index, gone' = gone
      PROVE  Listing'
    <2>1. ASSUME NEW b \in Actors, Deleting(act'[b])
          PROVE  act'[b].on \notin index'[Timeline] \/ ZremOf(Timeline) \in Members(act'[b].cmds)
        <3>1. CASE b = a BY <1>2, <2>1, <3>1, OthersStay
        <3>2. CASE b # a BY <1>2, <2>1, <3>2, OthersStay DEF Listing, Cleans
        <3> QED BY <3>1, <3>2
    <2> QED BY <1>2, <2>1 DEF Listing, Cleans, Unlisted
<1>3. ASSUME NEW a \in Actors, NEW g, Moves(a, g) PROVE Listing'
    <2>1. act' = [act EXCEPT ![a] = g] /\ index' = index /\ gone' = gone BY <1>3 DEF Moves, Turns
    <2>2. Deleting(g) => ZremOf(Timeline) \in Members(g.cmds)
        BY <1>3 DEF Moves, Covers, Removes
    <2> QED BY <1>2, <2>1, <2>2
<1>4. ASSUME NEW a \in Actors, NEW g, Makes(a, g) PROVE Listing'
    <2>1. /\ act' = [act EXCEPT ![a] = g] /\ index' = index /\ gone' = gone /\ ~Deleting(g)
        BY <1>4 DEF Makes, Turns, Making, Deleting
    <2> QED BY <1>2, <2>1
<1>5. ~Deleting(Resting) /\ \A g : g.pc = "finish" => ~Deleting(g) BY DEF Deleting, Resting
<1>6. ASSUME NEW a \in Clients, Created(a) \/ UnlinkSet(a) \/ PatchSet(a) PROVE Listing'
    <2>1. index' = index /\ gone' = gone BY <1>6 DEF Created, UnlinkSet, PatchSet
    <2>2. \E g : act' = [act EXCEPT ![a] = g] /\ ~Deleting(g)
        BY <1>5, <1>6, WriteKeepsBase DEF Created, Done
    <2> QED BY <1>1, <1>2, <2>1, <2>2
<1>7. CASE UpdateParent BY <1>1, <1>2, <1>5, <1>7 DEF UpdateParent, Done
<1>8. CASE \E i \in Ids : Expire(i) BY <1>8 DEF Expire, Listing, Cleans, Unlisted
<1>9. CASE UNCHANGED vars BY <1>9 DEF vars, Listing, Cleans, Unlisted
<1> QED BY <1>3, <1>4, <1>6, <1>7, <1>8, <1>9, StepDoes, CommandKeepsListing

\* Whatever deletes an event, and whatever happens at the same time, the timeline
\* does not name it any more once its deletion has been carried out.
THEOREM DeletedIsUnlisted == Spec => []Unlisted
<1>1. Init => Listing
    <2> SUFFICES ASSUME Init PROVE Listing OBVIOUS
    <2>1. \A a \in Actors : ~Deleting(act[a]) BY InitBase DEF Deleting, Resting
    <2>2. gone = {} BY DEF Init
    <2> QED BY <2>1, <2>2 DEF Listing, Cleans, Unlisted
<1>2. Base /\ Listing /\ [Next]_vars => Listing' BY StepKeepsListing
<1>3. Listing => Unlisted BY DEF Listing
<1> QED BY <1>1, <1>2, <1>3, BaseHolds, PTL DEF Spec

-----------------------------------------------------------------------------
(* A deleted event stays deleted.                                          *)

\* An actor begins, goes on, or rests.
Begins(a, g) ==
    /\ act' = [act EXCEPT ![a] = g]
    /\ MayBegin(a, g.op) \/ g = Resting \/ (act[a].pc # "ready" /\ g.op = act[a].op)

LEMMA BeginsKeepsSolo ==
    ASSUME Base, Solo, NEW a \in Actors, NEW g, Begins(a, g)
    PROVE  Solo'
<1> SUFFICES ASSUME NEW b \in Actors, NEW c \in Actors, act'[b].op \in Alone, b # c
             PROVE  act'[c].pc = "ready"
    BY DEF Solo
<1>1. act'[a] = g /\ \A x \in Actors \ {a} : act'[x] = act[x] BY OthersStay DEF Begins
<1>2. Resting.op \notin Alone /\ Resting.pc = "ready"
    BY StoreAssumption DEF Resting, AllOperations
<1>3. \A x, y \in Actors : act[x].op \in Alone /\ x # y => act[y].pc = "ready" BY DEF Solo
<1>4. MayBegin(a, g.op) =>
         /\ act[a].pc = "ready" /\ \A x \in Actors : act[x].op \notin Alone
         /\ g.op \in Alone => \A x \in Actors : act[x].pc = "ready"
    BY DEF MayBegin, Quiet, Idle
<1>5. CASE b = a BY <1>1, <1>2, <1>3, <1>4, <1>5 DEF Begins
<1>6. CASE c = a BY <1>1, <1>2, <1>3, <1>4, <1>6 DEF Begins
<1>7. CASE b # a /\ c # a BY <1>1, <1>3, <1>7
<1> QED BY <1>5, <1>6, <1>7

LEMMA StepBegins ==
    ASSUME Base, [Next]_vars
    PROVE  act' = act \/ \E a \in Actors : \E g : Begins(a, g)
<1>1. Clients \subseteq Actors /\ Worker \in Actors BY DEF Actors
<1>2. ASSUME NEW a \in Actors, NEW g, Moves(a, g) \/ Makes(a, g) PROVE Begins(a, g)
    BY <1>2 DEF Moves, Makes, Turns, Begins
<1>3. ASSUME NEW a \in Actors, Command(a) PROVE Begins(a, After(a))
    BY <1>3, CommandTurns DEF Turns, Begins
<1>4. ASSUME NEW a \in Clients, Created(a) \/ UnlinkSet(a) \/ PatchSet(a) PROVE \E g : Begins(a, g)
    BY <1>4, WriteKeepsBase DEF Created, Done, Begins
<1>5. CASE UpdateParent
    <2>1. Begins(Worker, Resting) BY <1>5 DEF UpdateParent, Done, Begins
    <2> QED BY <1>1, <2>1
<1>6. CASE \E i \in Ids : Expire(i) BY <1>6 DEF Expire
<1>7. CASE UNCHANGED vars BY <1>7 DEF vars
<1>8. CASE \E a \in Actors : \E g : Moves(a, g) \/ Makes(a, g) BY <1>2, <1>8
<1>9. CASE \E a \in Actors : Command(a) BY <1>3, <1>9
<1>10. CASE \E a \in Clients : Created(a) \/ UnlinkSet(a) \/ PatchSet(a) BY <1>1, <1>4, <1>10
<1> QED BY <1>5, <1>6, <1>7, <1>8, <1>9, <1>10, StepDoes

LEMMA StepKeepsSolo ==
    ASSUME Base, Solo, [Next]_vars
    PROVE  Solo'
<1>1. CASE act' = act BY <1>1 DEF Solo
<1>2. CASE \E a \in Actors : \E g : Begins(a, g) BY <1>2, BeginsKeepsSolo
<1> QED BY <1>1, <1>2, StepBegins

LEMMA ClearedIsSeen ==
    ASSUME Base, NEW i, Cleared(i)
    PROVE  i \in Seen
<1>1. CASE i \in gone BY <1>1 DEF Base, Kept
<1>2. CASE \E a \in Actors : Deleting(act[a]) /\ act[a].on = i
    <2>1. PICK a \in Actors : Deleting(act[a]) /\ act[a].on = i BY <1>2
    <2>2. Shape(act[a]) /\ Placed(act[a], Seen) BY ActorIs
    <2>3. ~Unseen(act[a]) /\ act[a].on # 0 BY <2>1, <2>2 DEF Deleting, Unseen, Making, Shape
    <2> QED BY <2>1, <2>2, <2>3 DEF Placed
<1> QED BY <1>1, <1>2 DEF Cleared

\* Who has a copy for runs to come is making the event, or has just made it.
LEMMA HeldIs ==
    ASSUME NEW h \in Act, Shape(h), h.op = "create"
    PROVE  Making(h) \/ h.pc = "created"
<1>1. h.pc \in Steps BY DEF Act
<1>2. h.pc \in {"pipe", "created"} BY <1>1 DEF Steps, Shape, Resting
<1> QED BY <1>2 DEF Making

\* Nobody takes a copy of a deleted event or writes it, and no other event is
\* deleted.
LEMMA DeletionStays ==
    ASSUME Base, Deletion, copied' = copied, \A i \in Ids : Cleared(i)' => Cleared(i),
           \A i \in Seen : Stored(i)' \/ Held(i)' => Stored(i) \/ Held(i)
    PROVE  Deletion'
<1> SUFFICES ASSUME NEW i \in Ids, i \notin copied, Cleared(i)' PROVE ~Stored(i)' /\ ~Held(i)'
    BY DEF Deletion
<1>1. Cleared(i) /\ i \in Seen BY ClearedIsSeen
<1> QED BY <1>1 DEF Deletion

LEMMA TurnKeepsCleared ==
    ASSUME Base, NEW a \in Actors, NEW g, act' = [act EXCEPT ![a] = g], gone' = gone,
           Deleting(g) => DelIt \in Members(g.cmds)
    PROVE  \A i \in Ids : Cleared(i)' => Cleared(i)
BY OthersStay DEF Cleared

LEMMA MoveKeepsDeletion ==
    ASSUME Base, Deletion, NEW a \in Actors, NEW g, Moves(a, g) \/ Makes(a, g)
    PROVE  Deletion'
<1>1. /\ act' = [act EXCEPT ![a] = g] /\ UNCHANGED <<store, jobs, gone, copied>>
      /\ g \in Act /\ Shape(g)
    BY DEF Moves, Makes, Turns
<1>2. act'[a] = g /\ \A x \in Actors \ {a} : act'[x] = act[x] BY <1>1, OthersStay
<1>3. ASSUME Deleting(g) PROVE DelIt \in Members(g.cmds)
    <2>1. Moves(a, g) BY <1>3 DEF Makes, Making, Deleting
    <2> QED BY <1>3, <2>1 DEF Moves, Covers, Removes
<1>4. ASSUME NEW i \in Seen, Held(i)' PROVE Stored(i) \/ Held(i)
    <2>1. CASE i \in Members(jobs) BY <2>1 DEF Held
    <2>2. CASE \E b \in Actors \ {a} : act'[b].on = i /\
                  \/ act'[b].pc \in {"unlinkSet", "patchSet"}
                  \/ act'[b].op = "create" /\ act'[b].ids # <<>>
        BY <1>2, <2>2 DEF Held
    <2>3. CASE g.on = i /\ (g.pc \in {"unlinkSet", "patchSet"} \/ g.op = "create")
        <3>1. CASE Moves(a, g)
            <4>1. g.pc \in {"unlinkSet", "patchSet"} => store[g.on] # Nothing BY <3>1 DEF Moves
            <4>2. g.op # "create" BY <1>1, <3>1, HeldIs DEF Moves
            <4> QED BY <2>3, <4>1, <4>2 DEF Stored
        <3>2. CASE Makes(a, g)
            <4>1. g.on = minted + 1 BY <3>2 DEF Makes
            <4>2. i \in 1 .. minted /\ minted \in Nat BY IdsAre
            <4> QED BY <2>3, <4>1, <4>2
        <3> QED BY <3>1, <3>2
    <2> QED BY <1>1, <1>2, <1>4, <2>1, <2>2, <2>3 DEF Held
<1>5. \A i \in Ids : Cleared(i)' => Cleared(i) BY <1>1, <1>3, TurnKeepsCleared
<1>6. \A i \in Seen : Stored(i)' => Stored(i) BY <1>1 DEF Stored
<1> QED BY <1>1, <1>4, <1>5, <1>6, DeletionStays

LEMMA CommandKeepsDeletion ==
    ASSUME Base, Deletion, NEW a \in Actors, Command(a)
    PROVE  Deletion'
<1> DEFINE h == act[a]
           c == Head(h.cmds)
           i == h.on
           g == After(a)
<1>1. h \in Act /\ Shape(h) /\ h.pc = "pipe" /\ i \in Ids BY ActorIs, CommandTurns
<1>2. /\ act' = [act EXCEPT ![a] = g] /\ g.op = h.op /\ g.on = i /\ g.ids = h.ids
      /\ g.cmds = Tail(h.cmds)
      /\ g.pc \notin {"patchSet", "unlinkSet"}
      /\ Deleting(g) => Deleting(h)
    BY CommandTurns DEF Turns, Deleting
<1>3. /\ Members(h.cmds) = {c} \union Members(Tail(h.cmds))
      /\ Len(h.cmds) = 1 => Members(Tail(h.cmds)) = {}
    BY <1>1, PipeIs
<1>4. /\ c.do \in {"set", "del", "zadd", "zrem"}
      /\ c.do = "set" => Unseen(h) /\ Making(h) /\ store' = [store EXCEPT ![i] = h.ev]
      /\ c.do = "del" => /\ c = DelIt /\ Deleting(h) /\ store' = [store EXCEPT ![i] = Nothing]
                         /\ copied' = IF Held(i) THEN copied \union {i} ELSE copied \ {i}
      /\ c.do # "del" => copied' = copied
      /\ c.do = "zadd" => store' = store /\ c = ZaddTo(c.name) /\ c.name \in Indexes
      /\ c.do = "zrem" => store' = store /\ c = ZremOf(c.name) /\ c.name \in Indexes
      /\ gone' = IF Len(h.cmds) = 1 /\ Deleting(h) THEN gone \union {i} ELSE gone
      /\ jobs' = jobs
    BY CommandWrites
<1> HIDE DEF c, g
<1>5. act'[a] = g /\ \A x \in Actors \ {a} : act'[x] = act[x] BY <1>2, OthersStay
<1>6. \A k : Held(k)' => Held(k) BY <1>2, <1>4, <1>5 DEF Held
<1>7. ASSUME NEW k \in Ids, Cleared(k)', k # i \/ c # DelIt PROVE Cleared(k)
    <2>1. CASE k # i BY <1>2, <1>4, <1>5, <1>7, <2>1 DEF Cleared
    <2>2. CASE k = i /\ c # DelIt
        <3>1. CASE \E b \in Actors \ {a} : /\ Deleting(act'[b]) /\ act'[b].on = k
                                           /\ DelIt \notin Members(act'[b].cmds)
            BY <1>5, <3>1 DEF Cleared
        <3>2. CASE Deleting(g) /\ DelIt \notin Members(g.cmds)
            <4>1. Deleting(h) /\ DelIt \notin Members(h.cmds) BY <1>2, <1>3, <2>2, <3>2
            <4> QED BY <2>2, <4>1 DEF Cleared
        <3>3. CASE k \in gone' /\ k \notin gone
            <4>1. Deleting(h) /\ DelIt \notin Members(h.cmds) BY <1>3, <1>4, <2>2, <3>3
            <4> QED BY <2>2, <4>1 DEF Cleared
        <3>4. CASE k \in gone BY <3>4 DEF Cleared
        <3> QED BY <1>5, <1>7, <3>1, <3>2, <3>3, <3>4 DEF Cleared
    <2> QED BY <1>7, <2>1, <2>2
<1>8. \A k \in Seen : Stored(k)' => Stored(k) \/ c.do = "set"
    BY <1>1, <1>4, DataIs, IdsAre DEF Stored
<1>9. CASE c.do = "set"
    <2>1. i \notin Seen BY <1>4, <1>9, NewInTimeline
    <2>2. \A k \in Seen : Stored(k)' => Stored(k) BY <1>1, <1>4, <1>9, <2>1, DataIs, IdsAre DEF Stored
    <2>3. c # DelIt BY <1>9 DEF DelIt
    <2> QED BY <1>4, <1>6, <1>7, <1>9, <2>2, <2>3, DeletionStays
<1>10. CASE c.do \in {"zadd", "zrem"}
    <2>1. c # DelIt BY <1>10 DEF DelIt
    <2> QED BY <1>4, <1>6, <1>7, <1>8, <1>10, <2>1, DeletionStays
<1>11. CASE c.do = "del"
    <2> SUFFICES ASSUME NEW k \in Ids, k \notin copied', Cleared(k)' PROVE ~Stored(k)' /\ ~Held(k)'
        BY DEF Deletion
    <2>1. CASE k = i
        <3>1. ~Held(i) BY <1>4, <1>11, <2>1
        <3>2. store'[i] = Nothing BY <1>1, <1>4, <1>11, DataIs
        <3> QED BY <1>6, <2>1, <3>1, <3>2 DEF Stored
    <2>2. CASE k # i
        <3>1. Cleared(k) /\ k \notin copied BY <1>4, <1>7, <1>11, <2>2
        <3>2. ~Stored(k) /\ ~Held(k) BY <3>1 DEF Deletion
        <3>3. store'[k] = store[k] BY <1>4, <1>11, <2>2, DataIs
        <3> QED BY <1>6, <3>2, <3>3 DEF Stored
    <2> QED BY <2>1, <2>2
<1> QED BY <1>4, <1>9, <1>10, <1>11

LEMMA StepKeepsDeletion ==
    ASSUME Base, Deletion, [Next]_vars
    PROVE  Deletion'
<1>1. Clients \subseteq Actors /\ Worker \in Actors BY DEF Actors
<1>2. ~Deleting(Resting) /\ Resting.op = "none" /\ Resting.pc = "ready" BY DEF Deleting, Resting
<1>3. ASSUME NEW a \in Actors, NEW g, act' = [act EXCEPT ![a] = g], ~Deleting(g),
             g.pc \notin {"unlinkSet", "patchSet"}, g.op # "create", UNCHANGED <<gone, copied>>,
             \A i \in Members(jobs') : Held(i),
             \A i \in Ids : Stored(i)' => Stored(i) \/ Held(i)
      PROVE  Deletion'
    <2>1. act'[a] = g /\ \A x \in Actors \ {a} : act'[x] = act[x] BY <1>3, OthersStay
    <2>2. \A i : Held(i)' => Held(i) BY <1>3, <2>1 DEF Held
    <2>3. \A i \in Ids : Cleared(i)' => Cleared(i) BY <1>3, TurnKeepsCleared
    <2> QED BY <1>3, <2>2, <2>3, IdsAre, DeletionStays
<1>4. \A i \in Members(jobs) : Held(i) BY DEF Held
<1>5. ASSUME NEW a \in Clients, Created(a) PROVE Deletion'
    <2>1. /\ act[a] \in Act /\ Shape(act[a]) /\ act[a].pc = "created"
          /\ jobs' = jobs \o act[a].ids /\ act' = [act EXCEPT ![a] = Resting]
          /\ UNCHANGED <<store, gone, copied>>
        BY <1>1, <1>5, ActorIs DEF Created, Done
    <2>2. /\ act[a].op = "create" /\ act[a].ids \in Seq(Ids)
          /\ Members(act[a].ids) \subseteq {act[a].on}
        BY <2>1 DEF Shape, Act
    <2>3. Members(jobs') = Members(jobs) \union Members(act[a].ids) BY <2>1, <2>2, DataIs, JoinOf
    <2>4. ASSUME NEW i \in Members(act[a].ids) PROVE Held(i)
        <3>1. act[a].ids # <<>> /\ i = act[a].on BY <2>2, <2>4 DEF Members
        <3> QED BY <1>1, <2>2, <3>1 DEF Held
    <2>5. \A i \in Ids : Stored(i)' => Stored(i) BY <2>1 DEF Stored
    <2> QED BY <1>1, <1>2, <1>3, <1>4, <2>1, <2>3, <2>4, <2>5
<1>6. ASSUME NEW a \in Clients, UnlinkSet(a) \/ PatchSet(a) PROVE Deletion'
    <2>1. UNCHANGED <<jobs, gone, copied>> /\ act[a].pc \in {"unlinkSet", "patchSet"}
        BY <1>6 DEF UnlinkSet, PatchSet
    <2>2. act[a] \in Act /\ Shape(act[a]) BY <1>1, ActorIs
    <2>3. PICK g : /\ act' = [act EXCEPT ![a] = g]
                   /\ \/ g = Resting
                      \/ g.pc = "finish" /\ act[a].pc = "unlinkSet" /\ g.op = act[a].op
        BY <1>6, WriteKeepsBase
    <2>4. ~Deleting(g) /\ g.pc \notin {"unlinkSet", "patchSet"} /\ g.op # "create"
        BY <1>2, <2>2, <2>3 DEF Deleting, Shape
    <2>5. Held(act[a].on) BY <1>1, <2>1 DEF Held
    <2>6. act[a].on \in Ids /\ store' = [store EXCEPT ![act[a].on] = act[a].ev] BY <1>6, WriteKeepsBase
    <2>7. \A i \in Ids : Stored(i)' => Stored(i) \/ Held(i) BY <2>5, <2>6, DataIs DEF Stored
    <2> QED BY <1>1, <1>3, <1>4, <2>1, <2>3, <2>4, <2>7
<1>7. CASE UpdateParent
    <2>1. act[Worker].op = "fail" BY <1>1, <1>7, ActorIs DEF UpdateParent, Shape
    <2>2. jobs # <<>> /\ jobs \in Seq(Ids) BY <2>1, DataIs DEF Base, Working
    <2>3. PICK i, ev : /\ i = Head(jobs) /\ store' = [store EXCEPT ![i] = ev] /\ jobs' = Tail(jobs)
                       /\ act' = [act EXCEPT ![Worker] = Resting] /\ UNCHANGED <<gone, copied>>
        BY <1>7 DEF UpdateParent, Done
    <2>4. i \in Members(jobs) /\ Members(jobs') \subseteq Members(jobs) BY <2>2, <2>3, TailOf
    <2>5. \A k \in Ids : Stored(k)' => Stored(k) \/ Held(k) BY <1>4, <2>3, <2>4, DataIs DEF Stored
    <2> QED BY <1>1, <1>2, <1>3, <1>4, <2>3, <2>4, <2>5
<1>8. ASSUME NEW i \in Ids, Expire(i) PROVE Deletion'
    <2>1. /\ UNCHANGED <<act, jobs, gone, copied>>
          /\ \A k \in Ids : store'[k] = store[k] \/ store'[k] = Nothing
        BY <1>8, DataIs DEF Expire
    <2> QED BY <2>1 DEF Deletion, Cleared, Stored, Held
<1>9. CASE UNCHANGED vars BY <1>9 DEF vars, Deletion, Cleared, Stored, Held
<1> QED BY <1>5, <1>6, <1>7, <1>8, <1>9, StepDoes, MoveKeepsDeletion, CommandKeepsDeletion

LEMMA BaseAndListing == Spec => [](Base /\ Listing /\ Solo)
<1>1. Init => Listing /\ Solo
    <2> SUFFICES ASSUME Init PROVE Listing /\ Solo OBVIOUS
    <2>1. \A a \in Actors : act[a].pc = "ready" /\ ~Deleting(act[a]) BY InitBase DEF Deleting, Resting
    <2>2. gone = {} BY DEF Init
    <2> QED BY <2>1, <2>2 DEF Listing, Cleans, Unlisted, Solo
<1>2. Base /\ Listing /\ Solo /\ [Next]_vars => Listing' /\ Solo' BY StepKeepsListing, StepKeepsSolo
<1> QED BY <1>1, <1>2, BaseHolds, PTL DEF Spec

\* An event whose deletion was carried out never comes back, unless somebody had a
\* copy of it when its key went: whatever overlaps, creations, failing handlers,
\* patches, expiry and deletions of every kind.  The invariant says more: from the
\* DEL on the key is missing and nobody takes a copy.
THEOREM DeletedStaysDeleted == Spec => []StaysDeleted
<1>1. Init => Deletion
    <2> SUFFICES ASSUME Init PROVE Deletion OBVIOUS
    <2>1. \A a \in Actors : ~Deleting(act[a]) BY InitBase DEF Resting, Deleting
    <2>2. gone = {} BY DEF Init
    <2> QED BY <2>1, <2>2 DEF Deletion, Cleared
<1>2. Base /\ Deletion /\ [Next]_vars => Deletion' BY StepKeepsDeletion
<1>3. Base /\ Deletion => StaysDeleted
    <2> SUFFICES ASSUME Base, Deletion, NEW i \in gone, Stored(i), i \notin copied PROVE FALSE
        BY DEF StaysDeleted
    <2>1. i \in Ids BY IdsAre DEF Base, Kept
    <2> QED BY <2>1 DEF Deletion, Cleared
<1> QED BY <1>1, <1>2, <1>3, BaseHolds, PTL DEF Spec

-----------------------------------------------------------------------------
(* Nothing is left of a deleted event.                                     *)

Looks(x, y) == x.type = y.type /\ x.channel = y.channel

LEMMA CopiesAre ==
    \A i, x : /\ x \in Copies(i) <=>
                    /\ x # Nothing
                    /\ \/ x = store[i] \/ x = memory[i]
                       \/ \E a \in Actors : Carries(act[a], i) /\ x = act[a].ev
              /\ x \in Copies(i)' <=>
                    /\ x # Nothing
                    /\ \/ x = store'[i] \/ x = memory'[i]
                       \/ \E a \in Actors : Carries(act'[a], i) /\ x = act'[a].ev
<1>1. \A i, x : x \in Copies(i) <=>
                    /\ x # Nothing
                    /\ \/ x = store[i] \/ x = memory[i]
                       \/ \E a \in Actors : Carries(act[a], i) /\ x = act[a].ev
    BY DEF Copies
<1>2. \A i, x : x \in Copies(i)' <=>
                    /\ x # Nothing
                    /\ \/ x = store'[i] \/ x = memory'[i]
                       \/ \E a \in Actors : Carries(act'[a], i) /\ x = act'[a].ev
    BY DEF Copies, Carries
<1> QED BY <1>1, <1>2

LEMMA LooksNames ==
    /\ \A x, y : Looks(x, y) => Names(x) = Names(y)
    /\ \A x : OfType(AlertType) \in Names(x) => x.type = AlertType
    /\ \A x : x.type = AlertType /\ x.channel = NoChannel
                 => Names(x) = {Timeline, Service, OfType(AlertType)}
<1>1. \A x, y : Looks(x, y) => Names(x) = Names(y) BY DEF Looks, Names
<1>2. ASSUME NEW x, OfType(AlertType) \in Names(x) PROVE x.type = AlertType
    <2>1. \/ OfType(AlertType) \in {Timeline, Service, OfType(x.type)}
          \/ OfType(AlertType) = OfChannel(x.channel)
        BY <1>2 DEF Names
    <2>2. OfType(AlertType) # Timeline /\ OfType(AlertType) # Service
          /\ OfType(AlertType) # OfChannel(x.channel)
        BY DEF OfType, Timeline, Service, OfChannel
    <2>3. OfType(AlertType) = OfType(x.type) BY <2>1, <2>2
    <2> QED BY <2>3 DEF OfType
<1>3. \A x : x.type = AlertType /\ x.channel = NoChannel
                 => Names(x) = {Timeline, Service, OfType(AlertType)}
    BY DEF Names
<1> QED BY <1>1, <1>2, <1>3

\* The copies of an event look as some copy did before.
KeepsLooks ==
    \A i \in Ids \ loose' : \A x \in Copies(i)' : \E y \in Copies(i) : Looks(x, y)

LEMMA FaithfulStays ==
    ASSUME Faithful, loose \subseteq loose', KeepsLooks,
           \A i \in Ids \ loose' : \A n \in Entries(i)' :
              n \in Entries(i) \/ \E y \in Copies(i) : n \in Names(y)
    PROVE  Faithful'
<1> SUFFICES ASSUME NEW i \in Ids \ loose' PROVE Alike(i)' /\ Entered(i)'
    BY DEF Faithful
<1>1. /\ \A x, y \in Copies(i) : Looks(x, y)
      /\ \A x \in Copies(i) : Entries(i) \subseteq Names(x) /\ (x.type = AlertType => x.channel = NoChannel)
    BY DEF Faithful, Alike, Entered, Looks
<1>2. \A x \in Copies(i)' : \E y \in Copies(i) : Looks(x, y) BY DEF KeepsLooks
<1>3. ASSUME NEW x \in Copies(i)', NEW y \in Copies(i)'
      PROVE  x.type = y.type /\ x.channel = y.channel
    <2>1. PICK u \in Copies(i) : Looks(x, u) BY <1>2
    <2>2. PICK v \in Copies(i) : Looks(y, v) BY <1>2
    <2> QED BY <1>1, <2>1, <2>2 DEF Looks
<1>4. ASSUME NEW x \in Copies(i)'
      PROVE  Entries(i)' \subseteq Names(x) /\ (x.type = AlertType => x.channel = NoChannel)
    <2>1. PICK u \in Copies(i) : Looks(x, u) BY <1>2
    <2>2. Names(x) = Names(u) BY <2>1, LooksNames
    <2>3. ASSUME NEW n \in Entries(i)' PROVE n \in Names(u)
        <3>1. CASE n \in Entries(i) BY <1>1, <3>1
        <3>2. CASE \E y \in Copies(i) : n \in Names(y)
            <4>1. PICK y \in Copies(i) : n \in Names(y) BY <3>2
            <4>2. Names(y) = Names(u) BY <1>1, LooksNames
            <4> QED BY <4>1, <4>2
        <3> QED BY <3>1, <3>2
    <2> QED BY <1>1, <2>1, <2>2, <2>3 DEF Looks
<1>5. Alike(i)' BY <1>3 DEF Alike
<1>6. Entered(i)'
    <2>1. \A x \in Copies(i)' : Entries(i)' \subseteq Names(x) /\ (x.type = AlertType => x.channel = NoChannel)
        BY <1>4
    <2> QED BY <2>1 DEF Entered, Names, OfType, OfChannel, Timeline, Service
<1> QED BY <1>5, <1>6

\* An alarm stays one.
LEMMA AlarmsStay ==
    ASSUME Alarms, KeepsLooks, loose \subseteq loose', NEW a \in Actors, act[a].op = "alerts",
           NEW i \in Ids \ loose', i \in Members(act[a].ids), NEW x \in Copies(i)'
    PROVE  x.type = AlertType
<1>1. PICK y \in Copies(i) : Looks(x, y) BY DEF KeepsLooks
<1>2. y.type = AlertType BY DEF Alarms
<1> QED BY <1>1, <1>2 DEF Looks

\* A copy is written, and nothing else happens.
LEMMA WritesKeepLeftovers ==
    ASSUME Base, Leftovers, KeepsLooks, index' = index, gone' = gone, loose \subseteq loose',
           \A b \in Actors : \/ act'[b] = act[b]
                             \/ ~Deleting(act'[b]) /\ ~Making(act'[b]) /\ act'[b].op # "alerts"
    PROVE  Leftovers'
<1>1. \A i : Entries(i)' = Entries(i) BY DEF Entries
<1>2. Faithful' BY <1>1, FaithfulStays DEF Leftovers
<1>3. Sweeps' BY <1>1 DEF Leftovers, Sweeps
<1>4. Alarms'
    <2> SUFFICES ASSUME NEW a \in Actors, act'[a].op = "alerts",
                        NEW i \in Members(act'[a].ids) \ loose', NEW x \in Copies(i)'
                 PROVE  x.type = AlertType
        BY DEF Alarms
    <2>1. act'[a] = act[a] OBVIOUS
    <2>2. act[a].ids \in Seq(Ids) BY ActorIs DEF Act
    <2>3. i \in Ids BY <2>1, <2>2, MembersOf
    <2> QED BY <2>1, <2>3, AlarmsStay DEF Leftovers
<1>5. Newborn' BY DEF Leftovers, Newborn
<1>6. NoLeftovers' BY <1>1 DEF Leftovers, NoLeftovers
<1> QED BY <1>2, <1>3, <1>4, <1>5, <1>6 DEF Leftovers

LEMMA MoveKeepsLeftovers ==
    ASSUME Base, Leftovers, NEW a \in Actors, NEW g, Moves(a, g)
    PROVE  Leftovers'
<1>1. /\ act' = [act EXCEPT ![a] = g] /\ ~Making(g) /\ g.pc # "created" /\ g \in Act
      /\ UNCHANGED <<store, index, memory, gone, loose, copied>>
    BY DEF Moves, Turns
<1>2. act'[a] = g /\ \A b \in Actors \ {a} : act'[b] = act[b] BY <1>1, OthersStay
<1>3. \A i : Entries(i)' = Entries(i) BY <1>1 DEF Entries
<1>4. KeepsLooks
    <2> SUFFICES ASSUME NEW i \in Ids, NEW x \in Copies(i)' PROVE \E y \in Copies(i) : Looks(x, y)
        BY DEF KeepsLooks
    <2>1. /\ x # Nothing
          /\ \/ x = store[i] \/ x = memory[i]
             \/ \E b \in Actors : Carries(act'[b], i) /\ x = act'[b].ev
        BY <1>1, CopiesAre
    <2>2. CASE x \in Copies(i) BY <2>2 DEF Looks
    <2>3. CASE x \notin Copies(i)
        <3>1. PICK b \in Actors : Carries(act'[b], i) /\ x = act'[b].ev BY <2>1, <2>3, CopiesAre
        <3>2. b = a BY <1>2, <2>1, <2>3, <3>1, CopiesAre
        <3>3. /\ g.on = i /\ x = g.ev
              /\ g.pc = "unlinkSet" \/ (g.pc = "patchSet" /\ g.op = "patch")
            BY <1>1, <1>2, <3>1, <3>2 DEF Carries
        <3>4. store[i] # Nothing /\ Looks(x, store[i]) BY <3>3 DEF Moves, Looks
        <3>5. store[i] \in Copies(i) BY <3>4, CopiesAre
        <3> QED BY <3>4, <3>5
    <2> QED BY <2>2, <2>3
<1>5. Faithful' BY <1>1, <1>3, <1>4, FaithfulStays DEF Leftovers
<1>6. ASSUME Deleting(g), g.op # "tool", g.on \notin loose, NEW n \in Entries(g.on)
      PROVE  ZremOf(n) \in Members(g.cmds)
    <2>1. PICK names \in SUBSET Indexes :
             /\ Removes(g.cmds, names)
             /\ store[g.on] # Nothing
             /\ \/ Names(store[g.on]) \subseteq names
                \/ /\ g.op = "alerts" /\ act[a].op = "alerts"
                   /\ g.on \in Members(act[a].ids)
                   /\ names = {Timeline, Service, OfType(AlertType)}
        BY <1>6 DEF Moves, Covers
    <2>2. g.on \in Ids BY <1>1, <1>6 DEF Moves, Turns, Shape, Act, Deleting
    <2>3. store[g.on] \in Copies(g.on) BY <2>1, CopiesAre
    <2>4. /\ Entries(g.on) \subseteq Names(store[g.on])
          /\ store[g.on].type = AlertType => store[g.on].channel = NoChannel
        BY <1>6, <2>2, <2>3 DEF Leftovers, Faithful, Entered
    <2>5. Names(store[g.on]) \subseteq names
        <3>1. CASE act[a].op = "alerts" /\ g.on \in Members(act[a].ids)
                   /\ names = {Timeline, Service, OfType(AlertType)}
            <4>1. store[g.on].type = AlertType BY <1>6, <2>3, <3>1 DEF Leftovers, Alarms
            <4> QED BY <2>4, <3>1, <4>1, LooksNames
        <3> QED BY <2>1, <3>1
    <2> QED BY <2>1, <2>4, <2>5 DEF Removes
<1>7. Sweeps'
    <2> SUFFICES ASSUME NEW b \in Actors, Deleting(act'[b]), act'[b].op # "tool", act'[b].on \notin loose,
                        NEW n \in Entries(act'[b].on)
                 PROVE  ZremOf(n) \in Members(act'[b].cmds)
        BY <1>1, <1>3 DEF Sweeps
    <2>1. CASE b = a BY <1>2, <1>6, <2>1
    <2>2. CASE b # a BY <1>2, <2>2 DEF Leftovers, Sweeps
    <2> QED BY <2>1, <2>2
<1>8. Alarms'
    <2> SUFFICES ASSUME NEW b \in Actors, act'[b].op = "alerts",
                        NEW i \in Members(act'[b].ids), i \notin loose, NEW x \in Copies(i)'
                 PROVE  x.type = AlertType
        BY <1>1 DEF Alarms
    <2>1. act'[b] \in Act BY <1>1, <1>2, ActorIs
    <2>2. i \in Ids \ loose' BY <1>1, <2>1, MembersOf DEF Act
    <2>3. CASE \E c \in Actors : act[c].op = "alerts" /\ i \in Members(act[c].ids)
        BY <1>1, <1>4, <2>2, <2>3, AlarmsStay DEF Leftovers
    <2>4. CASE ~ \E c \in Actors : act[c].op = "alerts" /\ i \in Members(act[c].ids)
        <3>1. b = a BY <1>2, <2>4
        <3>2. i \in index[OfType(AlertType)] BY <1>2, <2>4, <3>1 DEF Moves
        <3>3. OfType(AlertType) \in Entries(i) BY <3>2, NamesOf DEF Entries
        <3>4. PICK y \in Copies(i) : Looks(x, y) BY <1>4, <2>2 DEF KeepsLooks
        <3>5. OfType(AlertType) \in Names(y) BY <1>1, <2>2, <3>3, <3>4 DEF Leftovers, Faithful, Entered
        <3> QED BY <3>4, <3>5, LooksNames DEF Looks
    <2> QED BY <2>3, <2>4
<1>9. Newborn'
    <2> SUFFICES ASSUME NEW b \in Actors, Making(act'[b]) PROVE act'[b].on \notin gone
        BY <1>1 DEF Newborn
    <2>1. b # a BY <1>1, <1>2
    <2> QED BY <1>2, <2>1 DEF Leftovers, Newborn
<1>10. NoLeftovers' BY <1>1, <1>3 DEF Leftovers, NoLeftovers
<1> QED BY <1>5, <1>7, <1>8, <1>9, <1>10 DEF Leftovers

LEMMA MakeKeepsLeftovers ==
    ASSUME Base, Leftovers, NEW a \in Actors, NEW g, Makes(a, g)
    PROVE  Leftovers'
<1>0. PICK new \in Ids : new = minted + 1 BY DEF Makes, Turns, Shape, Act
<1>1. /\ act' = [act EXCEPT ![a] = g] /\ Making(g) /\ g \in Act /\ g.on = new
      /\ UNCHANGED <<store, index, memory, gone, loose, copied>>
      /\ g.ev.type = AlertType => g.ev.channel = NoChannel
    BY <1>0 DEF Makes, Turns
<1>2. act'[a] = g /\ \A b \in Actors \ {a} : act'[b] = act[b] BY <1>1, OthersStay
<1>3. \A i : Entries(i)' = Entries(i) BY <1>1 DEF Entries
<1>4. new \notin Seen /\ minted \in Nat /\ ~(new <= minted)
    <2>1. minted \in Nat /\ ~(new <= minted) BY <1>0, IdsAre
    <2> QED BY <2>1 DEF Seen
<1>5. \A b \in Actors : act[b].on # new
    <2> TAKE b \in Actors
    <2>1. Placed(act[b], Seen) /\ (Unseen(act[b]) => act[b].on <= minted)
        BY ActorIs DEF Base, Working
    <2>2. act[b].on \in {0} \union Seen => act[b].on # new BY <1>4 DEF Ids
    <2>3. act[b].on <= minted => act[b].on # new BY <1>4
    <2> QED BY <2>1, <2>2, <2>3 DEF Placed
<1>6. ASSUME NEW i \in Ids, i # new, NEW x \in Copies(i)' PROVE x \in Copies(i)
    <2>1. /\ x # Nothing
          /\ \/ x = store[i] \/ x = memory[i]
             \/ \E b \in Actors : Carries(act'[b], i) /\ x = act'[b].ev
        BY <1>1, <1>6, CopiesAre
    <2>2. \A b \in Actors : Carries(act'[b], i) => act'[b] = act[b] BY <1>1, <1>2, <1>6 DEF Carries
    <2> QED BY <2>1, <2>2, CopiesAre
<1>7. ASSUME NEW x \in Copies(new)' PROVE x = g.ev
    <2>1. /\ x # Nothing
          /\ \/ x = store[new] \/ x = memory[new]
             \/ \E b \in Actors : Carries(act'[b], new) /\ x = act'[b].ev
        BY <1>1, <1>7, CopiesAre
    <2>2. store[new] = Nothing /\ memory[new] = Nothing
        <3>1. /\ memory[new] # Nothing => new \in Seen
              /\ store[new] # Nothing => new <= minted
            BY DEF Base, Kept
        <3> QED BY <1>4, <3>1
    <2>3. \A b \in Actors : Carries(act'[b], new) => b = a BY <1>2, <1>5 DEF Carries
    <2> QED BY <1>2, <2>1, <2>2, <2>3
<1>8. Entries(new) = {}
    <2>1. \A n \in Indexes : new \notin index[n] BY <1>4, ListingsAre
    <2> QED BY <2>1 DEF Entries
<1>9. Faithful'
    <2> SUFFICES ASSUME NEW i \in Ids \ loose PROVE Alike(i)' /\ Entered(i)' BY <1>1 DEF Faithful
    <2>1. \A x, y \in Copies(i)' : x.type = y.type /\ x.channel = y.channel
        <3>1. CASE i = new BY <1>7, <3>1
        <3>2. CASE i # new BY <1>6, <3>2 DEF Leftovers, Faithful, Alike
        <3> QED BY <3>1, <3>2
    <2>2. \A x \in Copies(i)' : Entries(i)' \subseteq Names(x) /\ (x.type = AlertType => x.channel = NoChannel)
        <3>1. CASE i = new BY <1>1, <1>3, <1>7, <1>8, <3>1
        <3>2. CASE i # new BY <1>3, <1>6, <3>2 DEF Leftovers, Faithful, Entered
        <3> QED BY <3>1, <3>2
    <2>3. Alike(i)' BY <2>1 DEF Alike
    <2>4. Entered(i)' BY <2>2 DEF Entered, Names, OfType, OfChannel, Timeline, Service
    <2> QED BY <2>3, <2>4
<1>10. Sweeps'
    <2> SUFFICES ASSUME NEW b \in Actors, Deleting(act'[b]), act'[b].op # "tool", act'[b].on \notin loose,
                        NEW n \in Entries(act'[b].on)
                 PROVE  ZremOf(n) \in Members(act'[b].cmds)
        BY <1>1, <1>3 DEF Sweeps
    <2>1. b # a BY <1>1, <1>2 DEF Making, Deleting
    <2> QED BY <1>2, <2>1 DEF Leftovers, Sweeps
<1>11. Alarms'
    <2> SUFFICES ASSUME NEW b \in Actors, act'[b].op = "alerts",
                        NEW i \in Members(act'[b].ids), i \notin loose, NEW x \in Copies(i)'
                 PROVE  x.type = AlertType
        BY <1>1 DEF Alarms
    <2>1. b # a /\ act'[b] = act[b] BY <1>1, <1>2 DEF Making
    <2>2. i \in Seen
        <3>1. Placed(act[b], Seen) BY ActorIs
        <3>2. ~Making(act[b]) BY <2>1 DEF Making
        <3> QED BY <2>1, <3>1, <3>2 DEF Placed
    <2>3. i \in Ids /\ i # new BY <1>4, <2>2, IdsAre
    <2> QED BY <1>6, <2>1, <2>3 DEF Leftovers, Alarms
<1>12. Newborn'
    <2> SUFFICES ASSUME NEW b \in Actors, Making(act'[b]) PROVE act'[b].on \notin gone
        BY <1>1 DEF Newborn
    <2>1. new \notin gone BY <1>4 DEF Base, Kept
    <2> QED BY <1>1, <1>2, <2>1 DEF Leftovers, Newborn
<1>13. NoLeftovers' BY <1>1, <1>3 DEF Leftovers, NoLeftovers
<1> QED BY <1>9, <1>10, <1>11, <1>12, <1>13 DEF Leftovers

\* Who creates is alone.
LEMMA MakingIsAlone ==
    ASSUME Base, Solo, MakingAlone, NEW a \in Actors, Making(act[a]), NEW b \in Actors, b # a
    PROVE  act[b].pc = "ready"
BY DEF Solo, MakingAlone, Making

LEMMA CommandKeepsLeftovers ==
    ASSUME Base, Solo, MakingAlone, Leftovers, NEW a \in Actors, Command(a)
    PROVE  Leftovers'
<1> DEFINE h == act[a]
           c == Head(h.cmds)
           g == After(a)
<1>0. PICK i \in Ids : i = h.on BY CommandTurns
<1>1. h \in Act /\ Shape(h) /\ h.pc = "pipe" BY ActorIs, CommandTurns
<1>2. /\ act' = [act EXCEPT ![a] = g] /\ g.on = i /\ g.op = h.op /\ g.ev = h.ev /\ g.ids = h.ids
      /\ g.cmds = Tail(h.cmds)
      /\ g.pc \in {"pipe", "created", "child", "update", "erase", "unlinkGet", "finish", "next"}
      /\ g.pc = "created" => h.op = "create"
    BY <1>0, CommandTurns DEF Turns
<1>3. /\ Members(h.cmds) = {c} \union Members(Tail(h.cmds))
      /\ Len(h.cmds) = 1 => Members(Tail(h.cmds)) = {}
      /\ Making(h) \/ Deleting(h)
      /\ ~(Making(h) /\ Deleting(h))
    BY <1>1, PipeIs
<1>4. /\ c.do \in {"set", "del", "zadd", "zrem"}
      /\ c.do = "set" => Making(h) /\ h.ev \in Event /\ store' = [store EXCEPT ![i] = h.ev] /\ index' = index
      /\ c.do = "del" => store' = [store EXCEPT ![i] = Nothing] /\ index' = index
      /\ c.do = "zadd" => /\ store' = store /\ Making(h) /\ h.ev \in Event
                          /\ c.name \in Names(h.ev) /\ c.name \in Indexes
                          /\ index' = [index EXCEPT ![c.name] = @ \union {i}]
      /\ c.do = "zrem" => /\ store' = store /\ c.name \in Indexes /\ c = ZremOf(c.name)
                          /\ index' = [index EXCEPT ![c.name] = @ \ {i}]
      /\ gone' = IF Len(h.cmds) = 1 /\ Deleting(h) THEN gone \union {i} ELSE gone
      /\ loose' = IF h.op = "tool" THEN loose \union {i} ELSE loose
      /\ memory' = memory
    BY <1>0, CommandWrites
<1>5. act'[a] = g /\ \A x \in Actors \ {a} : act'[x] = act[x] BY <1>2, OthersStay
<1>6. /\ Making(g) => Making(h)
      /\ Deleting(g) => Deleting(h)
      /\ \A k : Carries(g, k) => k = i /\ Making(h)
    BY <1>1, <1>2 DEF Making, Deleting, Carries
<1> HIDE DEF g
<1>7. Making(h) => Carries(h, i) BY <1>0 DEF Carries
<1>8. ASSUME NEW k \in Ids, NEW x \in Copies(k)' PROVE x \in Copies(k)
    <2>1. /\ x # Nothing
          /\ \/ x = store'[k] \/ x = memory[k]
             \/ \E b \in Actors : Carries(act'[b], k) /\ x = act'[b].ev
        BY <1>4, <1>8, CopiesAre
    <2>2. CASE x = store'[k]
        <3>1. x = store[k] \/ (k = i /\ Making(h) /\ x = h.ev) BY <1>4, <2>1, <2>2, DataIs
        <3> QED BY <1>7, <2>1, <3>1, CopiesAre
    <2>3. CASE x = memory[k] BY <2>1, <2>3, CopiesAre
    <2>4. CASE \E b \in Actors : Carries(act'[b], k) /\ x = act'[b].ev
        <3>1. PICK b \in Actors : Carries(act'[b], k) /\ x = act'[b].ev BY <2>4
        <3>2. CASE b = a BY <1>2, <1>5, <1>6, <1>7, <2>1, <3>1, <3>2, CopiesAre
        <3>3. CASE b # a BY <1>5, <2>1, <3>1, <3>3, CopiesAre
        <3> QED BY <3>2, <3>3
    <2> QED BY <2>1, <2>2, <2>3, <2>4
<1>9. ASSUME NEW k \in Ids, NEW n \in Entries(k)'
      PROVE  n \in Indexes /\ (n \in Entries(k) \/ (k = i /\ Making(h) /\ h.ev \in Copies(i) /\ n \in Names(h.ev)))
    <2>1. n \in Indexes /\ k \in index'[n] BY <1>9 DEF Entries
    <2>2. k \in index[n] \/ (k = i /\ Making(h) /\ h.ev \in Event /\ n \in Names(h.ev))
        BY <1>4, <2>1, DataIs
    <2>3. h.ev \in Event => h.ev # Nothing BY NothingAssumption
    <2> QED BY <1>7, <2>1, <2>2, <2>3, CopiesAre DEF Entries
<1>10. ASSUME NEW n \in Entries(i)' PROVE ZremOf(n) # c
    <2>1. n \in Indexes /\ i \in index'[n] BY <1>10 DEF Entries
    <2>2. ASSUME ZremOf(n) = c PROVE c.do = "zrem" /\ c.name = n BY <2>2 DEF ZremOf
    <2> QED BY <1>4, <2>1, <2>2, DataIs
<1>11. KeepsLooks
    <2> SUFFICES ASSUME NEW k \in Ids, NEW x \in Copies(k)' PROVE \E y \in Copies(k) : Looks(x, y)
        BY DEF KeepsLooks
    <2> QED BY <1>8 DEF Looks
<1>12. loose \subseteq loose' BY <1>4
<1>13. Faithful'
    <2>1. \A k \in Ids \ loose' : \A n \in Entries(k)' :
              n \in Entries(k) \/ \E y \in Copies(k) : n \in Names(y)
        BY <1>9
    <2> QED BY <1>11, <1>12, <2>1, FaithfulStays DEF Leftovers
<1>14. Sweeps'
    <2> SUFFICES ASSUME NEW b \in Actors, Deleting(act'[b]), act'[b].op # "tool", act'[b].on \notin loose',
                        NEW n \in Entries(act[b].on)'
                 PROVE  ZremOf(n) \in Members(act'[b].cmds)
        BY DEF Sweeps
    <2>0. PICK k : k = act'[b].on OBVIOUS
    <2>1. k = act[b].on /\ act'[b].op = act[b].op /\ Deleting(act[b]) BY <1>0, <1>2, <1>5, <1>6, <2>0
    <2>2. k \in Ids BY <2>1, ActorIs DEF Shape, Act, Deleting
    <2>3. n \in Entries(k)' BY <2>0 DEF Entries
    <2>4. ~(k = i /\ Making(h))
        <3>1. CASE b = a BY <1>3, <2>1, <3>1
        <3>2. CASE b # a
            <4>1. act[b].pc # "ready" BY <2>1 DEF Deleting
            <4> QED BY <3>2, <4>1, MakingIsAlone
        <3> QED BY <3>1, <3>2
    <2>5. n \in Entries(act[b].on) BY <1>9, <2>1, <2>2, <2>3, <2>4
    <2>6. ZremOf(n) \in Members(act[b].cmds) BY <1>12, <2>0, <2>1, <2>5 DEF Leftovers, Sweeps
    <2>7. CASE b = a
        <3>1. ZremOf(n) # c BY <1>0, <1>10, <2>1, <2>3, <2>7
        <3> QED BY <1>2, <1>3, <1>5, <2>6, <2>7, <3>1
    <2>8. CASE b # a BY <1>5, <2>6, <2>8
    <2> QED BY <2>7, <2>8
<1>15. Alarms'
    <2> SUFFICES ASSUME NEW b \in Actors, act'[b].op = "alerts",
                        NEW k \in Members(act'[b].ids), k \notin loose', NEW x \in Copies(k)'
                 PROVE  x.type = AlertType
        BY DEF Alarms
    <2>1. act[b].op = "alerts" /\ k \in Members(act[b].ids) BY <1>2, <1>5
    <2>2. act[b].ids \in Seq(Ids) BY ActorIs DEF Act
    <2>3. k \in Ids BY <2>1, <2>2, MembersOf
    <2> QED BY <1>11, <1>12, <2>1, <2>3, AlarmsStay DEF Leftovers
<1>16. Newborn'
    <2> SUFFICES ASSUME NEW b \in Actors, Making(act'[b]) PROVE act'[b].on \notin gone'
        BY DEF Newborn
    <2>1. act'[b].on = act[b].on /\ Making(act[b]) BY <1>0, <1>2, <1>5, <1>6
    <2>2. act[b].on \notin gone BY <2>1 DEF Leftovers, Newborn
    <2>3. ~Deleting(h)
        <3>1. CASE b = a BY <1>3, <2>1, <3>1
        <3>2. CASE b # a BY <1>1, <2>1, <3>2, MakingIsAlone
        <3> QED BY <3>1, <3>2
    <2> QED BY <1>4, <2>1, <2>2, <2>3
<1>17. NoLeftovers'
    <2> SUFFICES ASSUME NEW k \in gone', k \notin loose', NEW n \in Entries(k)' PROVE FALSE
        BY DEF NoLeftovers
    <2>1. CASE k \in gone
        <3>1. k \in Ids BY <2>1, IdsAre DEF Base, Kept
        <3>2. Entries(k) = {} BY <1>12, <2>1 DEF Leftovers, NoLeftovers
        <3>3. Making(h) => i \notin gone BY <1>0 DEF Leftovers, Newborn
        <3> QED BY <1>9, <2>1, <3>1, <3>2, <3>3
    <2>2. CASE k \notin gone
        <3>1. k = i /\ Deleting(h) /\ Len(h.cmds) = 1 BY <1>4, <2>2
        <3>2. h.op # "tool" /\ i \notin loose BY <1>4, <3>1
        <3>3. n \in Entries(h.on) BY <1>0, <1>3, <1>9, <3>1
        <3>4. ZremOf(n) \in Members(h.cmds) BY <1>0, <3>1, <3>2, <3>3 DEF Leftovers, Sweeps
        <3> QED BY <1>3, <1>10, <3>1, <3>4
    <2> QED BY <2>1, <2>2
<1> QED BY <1>13, <1>14, <1>15, <1>16, <1>17 DEF Leftovers

\* An actor puts a copy of i where it can be read, and then carries none itself
\* but for the one it carried.
LEMMA CopyWritten ==
    ASSUME Base, NEW a \in Actors, NEW g, act' = [act EXCEPT ![a] = g],
           ~Making(g), g.pc \notin {"created", "unlinkSet", "patchSet"}, loose \subseteq loose',
           NEW i \in Ids, NEW ev, ev # Nothing,
           i \in loose' \/ \E y \in Copies(i) : Looks(ev, y),
           \A k \in Ids : /\ store'[k] \in {store[k], Nothing} \/ (k = i /\ store'[k] = ev)
                          /\ memory'[k] \in {memory[k], Nothing} \/ (k = i /\ memory'[k] = ev)
    PROVE  KeepsLooks
<1>1. act'[a] = g /\ \A b \in Actors \ {a} : act'[b] = act[b] BY OthersStay
<1> SUFFICES ASSUME NEW k \in Ids \ loose', NEW x \in Copies(k)' PROVE \E y \in Copies(k) : Looks(x, y)
    BY DEF KeepsLooks
<1>2. /\ x # Nothing
      /\ \/ x = store'[k] \/ x = memory'[k]
         \/ \E b \in Actors : Carries(act'[b], k) /\ x = act'[b].ev
    BY CopiesAre
<1>3. \A b \in Actors : Carries(act'[b], k) => act'[b] = act[b] BY <1>1 DEF Carries
<1>4. x \in Copies(k) \/ (k = i /\ x = ev) BY <1>2, <1>3, CopiesAre
<1> QED BY <1>4 DEF Looks

LEMMA StepKeepsLeftovers ==
    ASSUME Base, Solo, MakingAlone, Leftovers, [Next]_vars
    PROVE  Leftovers'
<1>1. Clients \subseteq Actors /\ Worker \in Actors BY DEF Actors
<1>2. /\ ~Deleting(Resting) /\ ~Making(Resting) /\ Resting.op # "alerts" /\ Resting.pc = "ready"
      /\ \A g : g.pc = "finish" => ~Deleting(g) /\ ~Making(g)
    BY DEF Deleting, Making, Resting
<1>3. ASSUME NEW a \in Clients, Created(a) PROVE Leftovers'
    <2>1. act[a] \in Act /\ Shape(act[a]) /\ act[a].pc = "created" BY <1>1, <1>3, ActorIs DEF Created
    <2>2. PICK i \in Ids : i = act[a].on BY <2>1 DEF Act, Shape
    <2>3. act[a].ev # Nothing BY <2>1 DEF Shape
    <2>4. Carries(act[a], i) BY <2>1, <2>2 DEF Carries
    <2>5. act[a].ev \in Copies(i) BY <1>1, <2>3, <2>4, CopiesAre
    <2>6. /\ act' = [act EXCEPT ![a] = Resting] /\ UNCHANGED <<store, index, gone, loose, copied>>
          /\ \A k \in Ids : memory'[k] = memory[k] \/ (k = i /\ memory'[k] = act[a].ev)
        BY <1>3, <2>2, DataIs DEF Created, Done
    <2>7. \E y \in Copies(i) : Looks(act[a].ev, y) BY <2>5 DEF Looks
    <2>8. PICK ev : ev = act[a].ev OBVIOUS
    <2>9. KeepsLooks BY <1>1, <1>2, <2>3, <2>6, <2>7, <2>8, CopyWritten
    <2>10. \A b \in Actors : act'[b] = act[b] \/ act'[b] = Resting BY <1>1, <2>6, OthersStay
    <2> QED BY <1>2, <2>6, <2>9, <2>10, WritesKeepLeftovers
<1>4. ASSUME NEW a \in Clients, UnlinkSet(a) \/ PatchSet(a) PROVE Leftovers'
    <2>1. a \in Actors /\ gone' = gone /\ memory' = memory /\ index' = index /\ loose \subseteq loose'
        BY <1>1, <1>4 DEF UnlinkSet, PatchSet
    <2>2. act[a] \in Act /\ Shape(act[a]) BY <2>1, ActorIs
    <2>3. PICK g : /\ act' = [act EXCEPT ![a] = g]
                   /\ \/ g = Resting
                      \/ g.pc = "finish" /\ act[a].pc = "unlinkSet" /\ g.op = act[a].op
        BY <1>4, WriteKeepsBase
    <2>4. ~Deleting(g) /\ ~Making(g) /\ g.op # "alerts" /\ g.pc \in {"ready", "finish"}
        BY <1>2, <2>2, <2>3 DEF Shape
    <2>5. PICK i \in Ids : i = act[a].on BY <1>4, WriteKeepsBase
    <2>6. act[a].ev \in Event /\ store' = [store EXCEPT ![i] = act[a].ev]
        BY <1>4, <2>5, WriteKeepsBase
    <2>7. i \in loose' \/ Carries(act[a], i)
        <3>1. CASE UnlinkSet(a) BY <2>5, <3>1 DEF UnlinkSet, Carries
        <3>2. CASE PatchSet(a)
            <4>1. act[a].pc = "patchSet" /\ act[a].op \in {"patch", "retype"}
                BY <2>2, <3>2 DEF PatchSet, Shape
            <4>2. act[a].op = "retype" => i \in loose' BY <2>5, <3>2 DEF PatchSet
            <4> QED BY <2>5, <4>1, <4>2 DEF Carries
        <3> QED BY <1>4, <3>1, <3>2
    <2>8. act[a].ev # Nothing BY <2>6, NothingAssumption
    <2>9. i \in loose' \/ \E y \in Copies(i) : Looks(act[a].ev, y)
        BY <2>1, <2>7, <2>8, CopiesAre DEF Looks
    <2>10. \A k \in Ids : /\ store'[k] = store[k] \/ (k = i /\ store'[k] = act[a].ev)
                          /\ memory'[k] = memory[k]
        BY <2>1, <2>6, DataIs
    <2>11. PICK ev : ev = act[a].ev OBVIOUS
    <2>12. KeepsLooks
        <3>1. ev # Nothing /\ (i \in loose' \/ \E y \in Copies(i) : Looks(ev, y)) BY <2>8, <2>9, <2>11
        <3>2. \A k \in Ids : /\ store'[k] \in {store[k], Nothing} \/ (k = i /\ store'[k] = ev)
                             /\ memory'[k] \in {memory[k], Nothing} \/ (k = i /\ memory'[k] = ev)
            BY <2>10, <2>11
        <3>3. ~Making(g) /\ g.pc \notin {"created", "unlinkSet", "patchSet"} BY <2>4
        <3>4. act' = [act EXCEPT ![a] = g] BY <2>3
        <3> QED BY <2>1, <3>1, <3>2, <3>3, <3>4, CopyWritten
    <2>13. \A b \in Actors : act'[b] = act[b] \/ act'[b] = g BY <2>1, <2>3, OthersStay
    <2> QED BY <2>1, <2>4, <2>12, <2>13, WritesKeepLeftovers
<1>5. CASE UpdateParent
    <2>1. PICK i : i = Head(jobs) OBVIOUS
    <2>2. i \in Ids /\ memory[i] # Nothing
        <3>1. act[Worker].op = "fail" BY <1>1, <1>5, ActorIs DEF UpdateParent, Shape
        <3>2. jobs # <<>> /\ jobs \in Seq(Ids) BY <3>1, DataIs DEF Base, Working
        <3>3. i = jobs[1] /\ 1 \in 1 .. Len(jobs) /\ i \in Ids BY <2>1, <3>2
        <3> QED BY <3>3, DataIs
    <2>3. memory[i] \in Event /\ act[Worker].ids \in Seq(Ids)
        BY <1>1, <2>2, StoredIs, ActorIs DEF Act
    <2>4. PICK ev : ev = [memory[i] EXCEPT !.children = act[Worker].ids] OBVIOUS
    <2>5. ev \in Event /\ Looks(ev, memory[i]) BY <2>3, <2>4 DEF Event, Looks
    <2>6. ev # Nothing BY <2>5, NothingAssumption
    <2>7. /\ memory' = [memory EXCEPT ![i] = IF i \in Members(Tail(jobs)) THEN ev ELSE Nothing]
          /\ store' = [store EXCEPT ![i] = ev]
          /\ act' = [act EXCEPT ![Worker] = Resting] /\ UNCHANGED <<index, gone, loose, copied>>
        BY <1>5, <2>1, <2>4 DEF UpdateParent, Done
    <2>8. \E y \in Copies(i) : Looks(ev, y) BY <2>2, <2>5, CopiesAre
    <2>9. \A k \in Ids : /\ store'[k] = store[k] \/ (k = i /\ store'[k] = ev)
                         /\ memory'[k] \in {memory[k], Nothing} \/ (k = i /\ memory'[k] = ev)
        BY <2>2, <2>7, DataIs
    <2>10. KeepsLooks
        <3>1. \A k \in Ids : /\ store'[k] \in {store[k], Nothing} \/ (k = i /\ store'[k] = ev)
                             /\ memory'[k] \in {memory[k], Nothing} \/ (k = i /\ memory'[k] = ev)
            BY <2>9
        <3>2. Resting.pc \notin {"created", "unlinkSet", "patchSet"} BY <1>2
        <3>3. act' = [act EXCEPT ![Worker] = Resting] /\ loose \subseteq loose' BY <2>7
        <3> QED BY <1>1, <1>2, <2>2, <2>6, <2>8, <3>1, <3>2, <3>3, CopyWritten
    <2>11. \A b \in Actors : act'[b] = act[b] \/ act'[b] = Resting BY <1>1, <2>7, OthersStay
    <2> QED BY <1>2, <2>7, <2>10, <2>11, WritesKeepLeftovers
<1>6. ASSUME NEW i \in Ids, Expire(i) PROVE Leftovers'
    <2>1. /\ act' = act /\ UNCHANGED <<index, gone, loose, copied, memory>>
          /\ \A k \in Ids : store'[k] = store[k] \/ store'[k] = Nothing
        BY <1>6, DataIs DEF Expire
    <2>2. \A k \in Ids : \A x : x \in Copies(k)' => x \in Copies(k) BY <2>1, CopiesAre
    <2>3. KeepsLooks BY <2>2 DEF KeepsLooks, Looks
    <2> QED BY <2>1, <2>3, WritesKeepLeftovers
<1>7. CASE UNCHANGED vars
    <2>1. act' = act /\ UNCHANGED <<store, index, gone, loose, copied, memory>> BY <1>7 DEF vars
    <2>2. \A k \in Ids : \A x : x \in Copies(k)' => x \in Copies(k) BY <2>1, CopiesAre
    <2>3. KeepsLooks BY <2>2 DEF KeepsLooks, Looks
    <2> QED BY <2>1, <2>3, WritesKeepLeftovers
<1> QED BY <1>3, <1>4, <1>5, <1>6, <1>7, StepDoes, MoveKeepsLeftovers, MakeKeepsLeftovers,
           CommandKeepsLeftovers

\* When creations and failing handlers meet no other operation, deletions of
\* every kind and patches may overlap and no index names an event whose deletion
\* has been carried out, unless the tool deleted it or a patch has changed its type.
THEOREM DeletedLeavesNothing == ASSUME MakingAlone PROVE Spec => []NoLeftovers
<1>1. Init => Leftovers
    <2> SUFFICES ASSUME Init PROVE Leftovers OBVIOUS
    <2>1. \A a \in Actors : act[a] = Resting BY InitBase
    <2>2. \A i \in Ids : Copies(i) = {}
        <3>1. \A a \in Actors : \A i : ~Carries(act[a], i) BY <2>1 DEF Carries, Making, Resting
        <3>2. \A i \in Ids : store[i] = Nothing /\ memory[i] = Nothing BY DEF Init
        <3> QED BY <3>1, <3>2, CopiesAre
    <2>3. gone = {} BY DEF Init
    <2>4. Faithful BY <2>2 DEF Faithful, Alike, Entered
    <2>5. \A a \in Actors : ~Deleting(act[a]) /\ ~Making(act[a]) /\ act[a].op # "alerts"
        BY <2>1 DEF Deleting, Making, Resting
    <2> QED BY <2>3, <2>4, <2>5 DEF Leftovers, Sweeps, Alarms, Newborn, NoLeftovers
<1>2. Base /\ Listing /\ Solo /\ Leftovers /\ [Next]_vars => Leftovers' BY StepKeepsLeftovers
<1>3. Leftovers => NoLeftovers BY DEF Leftovers
<1> QED BY <1>1, <1>2, <1>3, BaseAndListing, PTL DEF Spec

-----------------------------------------------------------------------------
(* Whoever erases is alone, and no failing handler is queued then.         *)

\* Deletions of every kind meet no other operation.
ErasingAlone == {"delete", "bulk", "alerts", "tool"} \intersect Operations \subseteq Alone

Erases(h) == h.op \in {"delete", "bulk", "alerts", "tool"}
\* No failing handler is queued while somebody erases.
Calm == \A a \in Actors : Erases(act[a]) => jobs = <<>>

\* What is being deleted is not stored, or is about to go.
Erased == \A a \in Actors : Deleting(act[a]) =>
    store[act[a].on] = Nothing \/ DelIt \in Members(act[a].cmds)

LEMMA EraserIsAlone ==
    ASSUME Base, Solo, ErasingAlone, NEW a \in Actors, Erases(act[a]), NEW b \in Actors, b # a
    PROVE  act[b].pc = "ready"
<1>1. act[a].op \in Operations BY ActorIs DEF Act, Ops, Erases
<1>2. act[a].op \in Alone BY <1>1 DEF ErasingAlone, Erases
<1> QED BY <1>2 DEF Solo

LEMMA DeletingErases ==
    ASSUME NEW h \in Act, Shape(h), Deleting(h)
    PROVE  Erases(h)
BY StoreAssumption DEF Act, Ops, AllOperations, Shape, Deleting, Erases

\* Actor a goes on as g, and only a's own deletion can be disturbed by it.
LEMMA CalmStays ==
    ASSUME Base, Solo, ErasingAlone, Calm, Erased,
           NEW a \in Actors, NEW g, act' = [act EXCEPT ![a] = g],
           Erases(g) => jobs' = <<>>,
           Deleting(g) => store'[g.on] = Nothing \/ DelIt \in Members(g.cmds),
           act[a].pc # "ready" \/ (jobs' = jobs /\ store' = store)
    PROVE  Calm' /\ Erased'
<1>1. act'[a] = g /\ \A b \in Actors \ {a} : act'[b] = act[b] BY OthersStay
<1>2. ASSUME NEW b \in Actors \ {a}, Erases(act[b]) PROVE jobs' = jobs /\ store' = store
    BY <1>2, EraserIsAlone
<1>3. Calm'
    <2> SUFFICES ASSUME NEW b \in Actors, Erases(act'[b]) PROVE jobs' = <<>>
        BY DEF Calm, Erases
    <2>1. CASE b = a BY <1>1, <2>1
    <2>2. CASE b # a BY <1>1, <1>2, <2>2 DEF Calm
    <2> QED BY <2>1, <2>2
<1>4. Erased'
    <2> SUFFICES ASSUME NEW b \in Actors, Deleting(act'[b])
                 PROVE  store'[act'[b].on] = Nothing \/ DelIt \in Members(act'[b].cmds)
        BY DEF Erased
    <2>1. CASE b = a BY <1>1, <2>1
    <2>2. CASE b # a
        <3>1. act'[b] = act[b] /\ Deleting(act[b]) BY <1>1, <2>2
        <3>2. store' = store BY <1>2, <2>2, <3>1, ActorIs, DeletingErases
        <3> QED BY <3>1, <3>2 DEF Erased
    <2> QED BY <2>1, <2>2
<1> QED BY <1>3, <1>4

LEMMA MoveKeepsCalm ==
    ASSUME Base, Solo, ErasingAlone, Calm, Erased, NEW a \in Actors, NEW g, Moves(a, g)
    PROVE  Calm' /\ Erased'
<1>1. act' = [act EXCEPT ![a] = g] /\ jobs' = jobs /\ store' = store BY DEF Moves, Turns
<1>2. ASSUME Erases(g) PROVE jobs = <<>>
    <2>1. g.op = act[a].op => jobs = <<>> BY <1>2 DEF Calm, Erases
    <2>2. g # Resting BY <1>2 DEF Erases, Resting
    <2>3. MayBegin(a, g.op) => jobs = <<>> BY <1>2 DEF MayBegin, Quiet, ErasingAlone, Erases
    <2> QED BY <2>1, <2>2, <2>3 DEF Moves, Turns
<1>3. Deleting(g) => DelIt \in Members(g.cmds) BY DEF Moves, Covers, Removes
<1> QED BY <1>1, <1>2, <1>3, CalmStays

LEMMA CommandKeepsCalm ==
    ASSUME Base, Solo, ErasingAlone, Calm, Erased, NEW a \in Actors, Command(a)
    PROVE  Calm' /\ Erased'
<1> DEFINE h == act[a]
           c == Head(h.cmds)
           g == After(a)
<1>0. PICK i \in Ids : i = h.on BY CommandTurns
<1>1. h \in Act /\ Shape(h) /\ h.pc = "pipe" BY ActorIs, CommandTurns
<1>2. act' = [act EXCEPT ![a] = g] /\ g.on = i /\ g.op = h.op /\ g.cmds = Tail(h.cmds)
    BY <1>0, CommandTurns DEF Turns
<1>3. Members(h.cmds) = {c} \union Members(Tail(h.cmds)) /\ ~(Making(h) /\ Deleting(h))
    BY <1>1, PipeIs
<1>4. /\ c.do \in {"set", "del", "zadd", "zrem"}
      /\ c.do = "set" => Making(h)
      /\ c.do = "del" => store' = [store EXCEPT ![i] = Nothing]
      /\ c.do \in {"zadd", "zrem"} => store' = store
      /\ jobs' = jobs
    BY <1>0, CommandWrites
<1> HIDE DEF g
<1>5. ASSUME Deleting(g) PROVE store'[i] = Nothing \/ DelIt \in Members(g.cmds)
    <2>1. Deleting(h) BY <1>1, <1>2, <1>5 DEF Deleting
    <2>2. store[i] = Nothing \/ DelIt \in Members(h.cmds) BY <1>0, <2>1 DEF Erased
    <2>3. c.do = "del" => store'[i] = Nothing BY <1>4, DataIs
    <2>4. c.do # "del" => store' = store /\ c # DelIt BY <1>3, <1>4, <2>1 DEF DelIt
    <2> QED BY <1>2, <1>3, <2>2, <2>3, <2>4
<1>6. Erases(g) => jobs' = <<>> BY <1>2, <1>4 DEF Calm, Erases
<1> QED BY <1>1, <1>2, <1>5, <1>6, CalmStays

LEMMA StepKeepsCalm ==
    ASSUME Base, Solo, ErasingAlone, Calm, Erased, [Next]_vars
    PROVE  Calm' /\ Erased'
<1>1. Clients \subseteq Actors /\ Worker \in Actors BY DEF Actors
<1>2. ~Deleting(Resting) /\ ~Erases(Resting) BY DEF Deleting, Resting, Erases
<1>3. ASSUME NEW a \in Actors, NEW g, Makes(a, g) PROVE Calm' /\ Erased'
    <2>1. /\ act' = [act EXCEPT ![a] = g] /\ jobs' = jobs /\ store' = store
          /\ ~Deleting(g) /\ ~Erases(g)
        BY <1>3 DEF Makes, Turns, Making, Deleting, Erases
    <2> QED BY <2>1, CalmStays
<1>4. ASSUME NEW a \in Clients, Created(a) \/ PatchSet(a) PROVE Calm' /\ Erased'
    <2>1. act' = [act EXCEPT ![a] = Resting] /\ act[a].pc # "ready"
        BY <1>4 DEF Created, PatchSet, Done
    <2> QED BY <1>1, <1>2, <2>1, CalmStays
<1>5. ASSUME NEW a \in Clients, UnlinkSet(a) PROVE Calm' /\ Erased'
    <2>1. act[a] \in Act /\ Shape(act[a]) BY <1>1, ActorIs
    <2>2. PICK g : g = [act[a] EXCEPT !.pc = "finish"] OBVIOUS
    <2>3. act' = [act EXCEPT ![a] = g] /\ jobs' = jobs /\ act[a].pc # "ready"
        BY <1>5, <2>2 DEF UnlinkSet, Goto
    <2>4. g.pc = "finish" /\ g.op = act[a].op BY <2>1, <2>2 DEF Act
    <2>5. ~Deleting(g) BY <2>4 DEF Deleting
    <2>6. Erases(g) => jobs' = <<>> BY <1>1, <2>3, <2>4 DEF Erases, Calm
    <2> QED BY <1>1, <2>3, <2>5, <2>6, CalmStays
<1>6. CASE UpdateParent
    <2>1. act' = [act EXCEPT ![Worker] = Resting] /\ act[Worker].pc # "ready"
        BY <1>6 DEF UpdateParent, Done
    <2> QED BY <1>1, <1>2, <2>1, CalmStays
<1>7. ASSUME act' = act, jobs' = jobs, \A k \in Ids : store'[k] = store[k] \/ store'[k] = Nothing
      PROVE  Calm' /\ Erased'
    <2>1. Calm' BY <1>7 DEF Calm
    <2>2. ASSUME NEW b \in Actors, Deleting(act[b])
          PROVE  store'[act[b].on] = Nothing \/ DelIt \in Members(act[b].cmds)
        <3>1. act[b].on \in Ids BY <2>2, ActorIs DEF Act, Shape, Deleting
        <3> QED BY <1>7, <2>2, <3>1 DEF Erased
    <2> QED BY <1>7, <2>1, <2>2 DEF Erased
<1>8. ASSUME NEW i \in Ids, Expire(i) PROVE Calm' /\ Erased'
    BY <1>7, <1>8, DataIs DEF Expire
<1>9. CASE UNCHANGED vars BY <1>7, <1>9 DEF vars
<1> QED BY <1>3, <1>4, <1>5, <1>6, <1>8, <1>9, StepDoes, MoveKeepsCalm, CommandKeepsCalm

LEMMA InitCalm == Init => Calm /\ Erased
BY InitBase DEF Calm, Erased, Erases, Deleting, Resting

-----------------------------------------------------------------------------
(* An event that is stored can be found.                                   *)

\* A patch changes neither type nor channel of an event.
SameKind == "retype" \notin Operations

\* What is or may come to be stored as event i: its key, the copy that a queued
\* handler will write, and those that actors hold and may write.
Live(i) == ({store[i]} \union (IF i \in Members(jobs) THEN {memory[i]} ELSE {})
            \union {act[a].ev : a \in {b \in Actors : Carries(act[b], i)}}) \ {Nothing}

\* The entry of i in index n is being made, or i is about to go.
Underway(i, n) == \E a \in Actors : act[a].on = i /\
    \/ Making(act[a]) /\ ZaddTo(n) \in Members(act[a].cmds)
    \/ Deleting(act[a]) /\ DelIt \in Members(act[a].cmds)

\* Whatever may be stored as i is in its indexes, or its entry is underway.
Entering == \A i \in Ids : \A x \in Live(i) : \A n \in Names(x) : n \in Entries(i) \/ Underway(i, n)

LEMMA LiveAre ==
    \A i, x : /\ x \in Live(i) <=>
                    /\ x # Nothing
                    /\ \/ x = store[i] \/ (i \in Members(jobs) /\ x = memory[i])
                       \/ \E a \in Actors : Carries(act[a], i) /\ x = act[a].ev
              /\ x \in Live(i)' <=>
                    /\ x # Nothing
                    /\ \/ x = store'[i] \/ (i \in Members(jobs') /\ x = memory'[i])
                       \/ \E a \in Actors : Carries(act'[a], i) /\ x = act'[a].ev
<1>1. \A i, x : x \in Live(i) <=>
                    /\ x # Nothing
                    /\ \/ x = store[i] \/ (i \in Members(jobs) /\ x = memory[i])
                       \/ \E a \in Actors : Carries(act[a], i) /\ x = act[a].ev
    BY DEF Live
<1>2. \A i, x : x \in Live(i)' <=>
                    /\ x # Nothing
                    /\ \/ x = store'[i] \/ (i \in Members(jobs') /\ x = memory'[i])
                       \/ \E a \in Actors : Carries(act'[a], i) /\ x = act'[a].ev
    BY DEF Live, Carries, Members
<1> QED BY <1>1, <1>2

\* What is to be written looks as before, and what was entered, or is about to be, stays so.
KeepsLive == \A i \in Ids : \A x \in Live(i)' : \E y \in Live(i) : Looks(x, y)

LEMMA EnteringStays ==
    ASSUME Entering, KeepsLive,
           \A i \in Ids : \A n : n \in Entries(i) => n \in Entries(i)',
           \A i \in Ids : \A n : Underway(i, n) => Underway(i, n)'
    PROVE  Entering'
<1> SUFFICES ASSUME NEW i \in Ids, NEW x \in Live(i)', NEW n \in Names(x)
             PROVE  n \in Entries(i)' \/ Underway(i, n)'
    BY DEF Entering, Names, OfType, OfChannel, Timeline, Service
<1>1. PICK y \in Live(i) : Looks(x, y) BY DEF KeepsLive
<1>2. n \in Names(y) BY <1>1, LooksNames
<1>3. n \in Entries(i) \/ Underway(i, n) BY <1>1, <1>2 DEF Entering
<1> QED BY <1>3

\* Steps that run no command of a pipeline.
LEMMA OthersKeepEntering ==
    ASSUME Entering, index' = index, KeepsLive,
           \A b \in Actors : act[b].pc = "pipe" => act'[b] = act[b]
    PROVE  Entering'
<1>1. \A i \in Ids : \A n : n \in Entries(i) => n \in Entries(i)' BY DEF Entries
<1>2. ASSUME NEW i \in Ids, NEW n, Underway(i, n) PROVE Underway(i, n)'
    <2>1. PICK b \in Actors : /\ act[b].on = i
                              /\ \/ Making(act[b]) /\ ZaddTo(n) \in Members(act[b].cmds)
                                 \/ Deleting(act[b]) /\ DelIt \in Members(act[b].cmds)
        BY <1>2 DEF Underway
    <2>2. act'[b] = act[b] BY <2>1 DEF Making, Deleting
    <2> QED BY <2>1, <2>2 DEF Underway, Making, Deleting, ZaddTo, DelIt, Members
<1> QED BY <1>1, <1>2, EnteringStays

LEMMA MoveKeepsEntering ==
    ASSUME Base, Entering, NEW a \in Actors, NEW g, Moves(a, g)
    PROVE  Entering'
<1>1. /\ act' = [act EXCEPT ![a] = g] /\ ~Making(g) /\ g.pc # "created" /\ g \in Act
      /\ UNCHANGED <<store, index, memory, jobs>>
      /\ act[a].pc # "pipe"
    BY DEF Moves, Turns
<1>2. act'[a] = g /\ \A b \in Actors \ {a} : act'[b] = act[b] BY <1>1, OthersStay
<1>3. KeepsLive
    <2> SUFFICES ASSUME NEW i \in Ids, NEW x \in Live(i)' PROVE \E y \in Live(i) : Looks(x, y)
        BY DEF KeepsLive
    <2>1. /\ x # Nothing
          /\ \/ x = store[i] \/ (i \in Members(jobs) /\ x = memory[i])
             \/ \E b \in Actors : Carries(act'[b], i) /\ x = act'[b].ev
        BY <1>1, LiveAre
    <2>2. CASE x \in Live(i) BY <2>2 DEF Looks
    <2>3. CASE x \notin Live(i)
        <3>1. PICK b \in Actors : Carries(act'[b], i) /\ x = act'[b].ev BY <2>1, <2>3, LiveAre
        <3>2. b = a BY <1>2, <2>1, <2>3, <3>1, LiveAre
        <3>3. /\ g.on = i /\ x = g.ev
              /\ g.pc = "unlinkSet" \/ (g.pc = "patchSet" /\ g.op = "patch")
            BY <1>1, <1>2, <3>1, <3>2 DEF Carries
        <3>4. store[i] # Nothing /\ Looks(x, store[i]) BY <3>3 DEF Moves, Looks
        <3>5. store[i] \in Live(i) BY <3>4, LiveAre
        <3> QED BY <3>4, <3>5
    <2> QED BY <2>2, <2>3
<1> QED BY <1>1, <1>2, <1>3, OthersKeepEntering

\* A pipeline that creates an event enters it in all its indexes.
LEMMA CreateEnters ==
    ASSUME NEW ev \in Event, NEW n \in Names(ev)
    PROVE  ZaddTo(n) \in Members(CreateCommands(ev))
<1> DEFINE s == IndexesOf(ev)
<1>1. s \in Seq(Indexes) /\ Members(s) = Names(ev) BY IndexesAre
<1>2. CreateCommands(ev) = <<SetIt>> \o Zadd(s) BY DEF CreateCommands, SetIt
<1> HIDE DEF s
<1>3. Zadd(s) \in Seq(Cmd) /\ Len(Zadd(s)) = Len(s) /\ \A k \in 1 .. Len(s) : Zadd(s)[k] = ZaddTo(s[k])
    BY <1>1, ZaddOf
<1>4. PICK k \in 1 .. Len(s) : s[k] = n BY <1>1, MembersOf
<1>5. Zadd(s)[k] \in Members(Zadd(s)) BY <1>3, MembersOf
<1>6. SetIt \in Cmd BY DEF Cmd
<1>7. Members(<<SetIt>> \o Zadd(s)) = {SetIt} \union Members(Zadd(s)) BY <1>3, <1>6, InFront
<1> QED BY <1>2, <1>3, <1>4, <1>5, <1>7

LEMMA MakeKeepsEntering ==
    ASSUME Base, Entering, NEW a \in Actors, NEW g, Makes(a, g)
    PROVE  Entering'
<1>0. PICK new \in Ids : new = minted + 1 BY DEF Makes, Turns, Shape, Act
<1>1. /\ act' = [act EXCEPT ![a] = g] /\ Making(g) /\ g \in Act /\ g.on = new /\ g.ev \in Event
      /\ g.cmds = CreateCommands(g.ev) /\ act[a].pc \in {"ready", "child"}
      /\ UNCHANGED <<store, index, memory, jobs>>
    BY <1>0 DEF Makes, Turns
<1>2. act'[a] = g /\ \A b \in Actors \ {a} : act'[b] = act[b] BY <1>1, OthersStay
<1>3. \A i : Entries(i)' = Entries(i) BY <1>1 DEF Entries
<1>4. \A i \in Ids : \A n : Underway(i, n) => Underway(i, n)'
    <2> SUFFICES ASSUME NEW i \in Ids, NEW n, Underway(i, n) PROVE Underway(i, n)' OBVIOUS
    <2>1. PICK b \in Actors : /\ act[b].on = i
                              /\ \/ Making(act[b]) /\ ZaddTo(n) \in Members(act[b].cmds)
                                 \/ Deleting(act[b]) /\ DelIt \in Members(act[b].cmds)
        BY DEF Underway
    <2>2. act'[b] = act[b] BY <1>1, <1>2, <2>1 DEF Making, Deleting
    <2> QED BY <2>1, <2>2 DEF Underway, Making, Deleting, ZaddTo, DelIt, Members
<1>5. new \notin Seen /\ store[new] = Nothing /\ new \notin Members(jobs)
    <2>1. minted \in Nat /\ ~(new <= minted) BY <1>0, IdsAre
    <2>2. new \notin Seen BY <2>1 DEF Seen
    <2>3. store[new] = Nothing BY <2>1 DEF Base, Kept
    <2>4. \A k \in 1 .. Len(jobs) : jobs[k] # new BY <2>2 DEF Base, Kept
    <2> QED BY <2>2, <2>3, <2>4, DataIs, MembersOf
<1>6. ASSUME NEW i \in Ids, NEW x \in Live(i)', x \notin Live(i) PROVE i = new /\ x = g.ev
    <2>1. PICK b \in Actors : Carries(act'[b], i) /\ x = act'[b].ev BY <1>1, <1>6, LiveAre
    <2>2. b = a BY <1>2, <1>6, <2>1, LiveAre
    <2> QED BY <1>1, <1>2, <2>1, <2>2 DEF Carries
<1>7. Entering'
    <2> SUFFICES ASSUME NEW i \in Ids, NEW x \in Live(i)', NEW n \in Names(x)
                 PROVE  n \in Entries(i)' \/ Underway(i, n)'
        BY DEF Entering, Names, OfType, OfChannel, Timeline, Service
    <2>1. CASE x \in Live(i) BY <1>3, <1>4, <2>1 DEF Entering
    <2>2. CASE x \notin Live(i)
        <3>1. i = new /\ n \in Names(g.ev) BY <1>6, <2>2
        <3>2. ZaddTo(n) \in Members(g.cmds) BY <1>1, <3>1, CreateEnters
        <3>3. act'[a].on = i /\ Making(act'[a]) /\ ZaddTo(n) \in Members(act'[a].cmds)
            BY <1>1, <1>2, <3>1, <3>2
        <3> QED BY <3>3 DEF Underway, Making, ZaddTo, Members
    <2> QED BY <2>1, <2>2
<1> QED BY <1>7

LEMMA CommandKeepsEntering ==
    ASSUME Base, Solo, ErasingAlone, Calm, Erased, Entering, NEW a \in Actors, Command(a)
    PROVE  Entering'
<1> DEFINE h == act[a]
           c == Head(h.cmds)
           g == After(a)
<1>0. PICK i \in Ids : i = h.on BY CommandTurns
<1>1. h \in Act /\ Shape(h) /\ h.pc = "pipe" BY ActorIs, CommandTurns
<1>2. /\ act' = [act EXCEPT ![a] = g] /\ g.on = i /\ g.op = h.op /\ g.ev = h.ev /\ g.ids = h.ids
      /\ g.cmds = Tail(h.cmds)
      /\ g.pc \in {"pipe", "created", "child", "update", "erase", "unlinkGet", "finish", "next"}
      /\ g.pc = "created" => h.op = "create"
      /\ Len(h.cmds) = 1 <=> g.pc # "pipe"
    BY <1>0, CommandTurns DEF Turns
<1>3. /\ Members(h.cmds) = {c} \union Members(Tail(h.cmds))
      /\ Len(h.cmds) = 1 => Members(Tail(h.cmds)) = {}
      /\ Making(h) \/ Deleting(h)
      /\ ~(Making(h) /\ Deleting(h))
    BY <1>1, PipeIs
<1>4. /\ c.do \in {"set", "del", "zadd", "zrem"}
      /\ c.do = "set" => c = SetIt /\ Making(h) /\ h.ev \in Event /\ store' = [store EXCEPT ![i] = h.ev] /\ index' = index
      /\ c.do = "del" => c = DelIt /\ Deleting(h) /\ store' = [store EXCEPT ![i] = Nothing] /\ index' = index
      /\ c.do = "zadd" => /\ store' = store /\ Making(h) /\ c = ZaddTo(c.name) /\ c.name \in Indexes
                          /\ index' = [index EXCEPT ![c.name] = @ \union {i}]
      /\ c.do = "zrem" => /\ store' = store /\ c.name \in Indexes /\ c = ZremOf(c.name) /\ Deleting(h)
                          /\ index' = [index EXCEPT ![c.name] = @ \ {i}]
      /\ memory' = memory /\ jobs' = jobs
    BY <1>0, CommandWrites
<1>5. act'[a] = g /\ \A x \in Actors \ {a} : act'[x] = act[x] BY <1>2, OthersStay
<1>6. /\ Making(g) <=> Making(h) /\ g.pc = "pipe"
      /\ Deleting(g) <=> Deleting(h) /\ g.pc = "pipe"
      /\ \A k : Carries(g, k) => k = i /\ Making(h)
    BY <1>1, <1>2 DEF Making, Deleting, Carries
<1> HIDE DEF g
<1>7. Making(h) => Carries(h, i) BY <1>0 DEF Carries
<1>8. /\ \A n : DelIt # ZremOf(n) /\ DelIt # ZaddTo(n) /\ SetIt # ZaddTo(n)
      /\ \A n, m : ZaddTo(n) = ZaddTo(m) => n = m
    BY DEF DelIt, SetIt, ZremOf, ZaddTo
<1>9. ASSUME Deleting(h)
      PROVE  /\ store'[i] = Nothing \/ (Deleting(g) /\ DelIt \in Members(g.cmds))
             /\ jobs = <<>> /\ \A b \in Actors \ {a} : act[b].pc = "ready"
    <2>1. Erases(h) BY <1>1, <1>9, DeletingErases
    <2>2. jobs = <<>> /\ \A b \in Actors \ {a} : act[b].pc = "ready"
        BY <2>1, EraserIsAlone DEF Calm
    <2>3. store[i] = Nothing \/ DelIt \in Members(h.cmds) BY <1>0, <1>9 DEF Erased
    <2>4. c.do = "del" => store'[i] = Nothing BY <1>4, DataIs
    <2>5. c.do # "del" => store' = store /\ c # DelIt BY <1>3, <1>4, <1>8, <1>9
    <2> QED BY <1>2, <1>3, <1>6, <1>9, <2>2, <2>3, <2>4, <2>5
<1>10. ASSUME NEW k \in Ids, NEW x \in Live(k)' PROVE x \in Live(k)
    <2>1. /\ x # Nothing
          /\ \/ x = store'[k] \/ (k \in Members(jobs) /\ x = memory[k])
             \/ \E b \in Actors : Carries(act'[b], k) /\ x = act'[b].ev
        BY <1>4, <1>10, LiveAre
    <2>2. CASE x = store'[k]
        <3>1. x = store[k] \/ (k = i /\ Making(h) /\ x = h.ev) BY <1>4, <2>1, <2>2, DataIs
        <3> QED BY <1>7, <2>1, <3>1, LiveAre
    <2>3. CASE k \in Members(jobs) /\ x = memory[k] BY <2>1, <2>3, LiveAre
    <2>4. CASE \E b \in Actors : Carries(act'[b], k) /\ x = act'[b].ev
        <3>1. PICK b \in Actors : Carries(act'[b], k) /\ x = act'[b].ev BY <2>4
        <3>2. CASE b = a BY <1>2, <1>5, <1>6, <1>7, <2>1, <3>1, <3>2, LiveAre
        <3>3. CASE b # a BY <1>5, <2>1, <3>1, <3>3, LiveAre
        <3> QED BY <3>2, <3>3
    <2> QED BY <2>1, <2>2, <2>3, <2>4
<1>11. ASSUME NEW k \in Ids, NEW n, n \in Entries(k)
       PROVE  n \in Entries(k)' \/ (k = i /\ Deleting(h))
    <2>1. n \in Indexes /\ k \in index[n] BY <1>11 DEF Entries
    <2>2. k \in index'[n] \/ (k = i /\ Deleting(h)) BY <1>4, <2>1, DataIs
    <2> QED BY <2>1, <2>2 DEF Entries
<1>12. ASSUME NEW k \in Ids, NEW n \in Indexes, Underway(k, n)
       PROVE  Underway(k, n)' \/ n \in Entries(k)' \/ (k = i /\ Deleting(h))
    <2>1. PICK b \in Actors : /\ act[b].on = k
                              /\ \/ Making(act[b]) /\ ZaddTo(n) \in Members(act[b].cmds)
                                 \/ Deleting(act[b]) /\ DelIt \in Members(act[b].cmds)
        BY <1>12 DEF Underway
    <2>2. CASE b # a
        <3>1. act'[b] = act[b] BY <1>5, <2>2
        <3> QED BY <2>1, <3>1 DEF Underway, Making, Deleting, ZaddTo, DelIt, Members
    <2>3. CASE b = a /\ Making(h)
        <3>1. ZaddTo(n) \in Members(h.cmds) BY <1>3, <2>1, <2>3
        <3>2. CASE ZaddTo(n) \in Members(Tail(h.cmds))
            <4>1. Making(g) BY <1>2, <1>3, <1>6, <2>3, <3>2
            <4>2. act'[a].on = k /\ Making(act'[a]) /\ ZaddTo(n) \in Members(act'[a].cmds)
                BY <1>0, <1>2, <1>5, <2>1, <2>3, <3>2, <4>1
            <4> QED BY <4>2 DEF Underway, Making, ZaddTo, Members
        <3>3. CASE c = ZaddTo(n)
            <4>1. c.do = "zadd" /\ c.name = n BY <3>3 DEF ZaddTo
            <4>2. k \in index'[n] BY <1>0, <1>4, <2>1, <2>3, <4>1, DataIs
            <4> QED BY <4>2 DEF Entries
        <3> QED BY <1>3, <3>1, <3>2, <3>3
    <2> QED BY <1>0, <1>3, <2>1, <2>2, <2>3
<1>13. Entering'
    <2> SUFFICES ASSUME NEW k \in Ids, NEW x \in Live(k)', NEW n \in Names(x)
                 PROVE  n \in Entries(k)' \/ Underway(k, n)'
        BY DEF Entering, Names, OfType, OfChannel, Timeline, Service
    <2>1. x \in Live(k) BY <1>10
    <2>2. n \in Entries(k) \/ Underway(k, n) BY <2>1 DEF Entering
    <2>3. n \in Indexes
        <3>1. x \in Event
            <4>1. x \in {store[k], memory[k]} \/ \E b \in Actors : x = act[b].ev BY <2>1, LiveAre
            <4>2. \A b \in Actors : act[b].ev \in Event \union {Nothing} BY ActorIs DEF Act
            <4> QED BY <2>1, <4>1, <4>2, StoredIs, LiveAre
        <3> QED BY <3>1, NamesOf
    <2>4. CASE ~(k = i /\ Deleting(h)) BY <1>11, <1>12, <2>2, <2>3, <2>4
    <2>5. CASE k = i /\ Deleting(h)
        <3>1. CASE store'[i] = Nothing
            <4>1. \A b \in Actors : ~Carries(act'[b], k)
                <5>1. \A b \in Actors \ {a} : act'[b].pc = "ready" BY <1>5, <1>9, <2>5
                <5>2. ~Carries(act'[a], k) BY <1>3, <1>5, <1>6, <2>5
                <5> QED BY <5>1, <5>2 DEF Carries, Making
            <4>2. Members(<<>>) = {} BY DEF Members
            <4> QED BY <1>4, <1>9, <2>5, <3>1, <4>1, <4>2, LiveAre
        <3>2. CASE Deleting(g) /\ DelIt \in Members(g.cmds)
            <4>1. act'[a].on = k /\ Deleting(act'[a]) /\ DelIt \in Members(act'[a].cmds)
                BY <1>2, <1>5, <2>5, <3>2
            <4> QED BY <4>1 DEF Underway, Deleting, DelIt, Members
        <3> QED BY <1>9, <2>5, <3>1, <3>2
    <2> QED BY <2>4, <2>5
<1> QED BY <1>13

\* Actor a puts a copy of i where it can be read.
LEMMA WriteKeepsEntering ==
    ASSUME Base, Entering, index' = index,
           NEW a \in Actors, act[a].pc \notin {"ready", "pipe"}, NEW g, act' = [act EXCEPT ![a] = g],
           ~Making(g), ~Deleting(g), g.pc \notin {"created", "unlinkSet", "patchSet"},
           NEW i \in Ids, NEW ev, \E y \in Live(i) : Looks(ev, y),
           \A k \in Ids : /\ store'[k] = store[k] \/ (k = i /\ store'[k] = ev)
                          /\ k \in Members(jobs') =>
                                (k \in Members(jobs) /\ memory'[k] = memory[k]) \/ (k = i /\ memory'[k] = ev)
    PROVE  Entering'
<1>1. act'[a] = g /\ \A b \in Actors \ {a} : act'[b] = act[b] BY OthersStay
<1>2. KeepsLive
    <2> SUFFICES ASSUME NEW k \in Ids, NEW x \in Live(k)' PROVE \E y \in Live(k) : Looks(x, y)
        BY DEF KeepsLive
    <2>1. /\ x # Nothing
          /\ \/ x = store'[k] \/ (k \in Members(jobs') /\ x = memory'[k])
             \/ \E b \in Actors : Carries(act'[b], k) /\ x = act'[b].ev
        BY LiveAre
    <2>2. \A b \in Actors : Carries(act'[b], k) => act'[b] = act[b] BY <1>1 DEF Carries
    <2>3. x \in Live(k) \/ (k = i /\ x = ev) BY <2>1, <2>2, LiveAre
    <2> QED BY <2>3 DEF Looks
<1> QED BY <1>1, <1>2, OthersKeepEntering

LEMMA StepKeepsEntering ==
    ASSUME Base, Solo, ErasingAlone, SameKind, Calm, Erased, Entering, [Next]_vars
    PROVE  Entering'
<1>1. Clients \subseteq Actors /\ Worker \in Actors BY DEF Actors
<1>2. /\ ~Deleting(Resting) /\ ~Making(Resting) /\ Resting.pc = "ready"
      /\ \A g : g.pc = "finish" => ~Deleting(g) /\ ~Making(g)
    BY DEF Deleting, Making, Resting
<1>3. ASSUME NEW a \in Clients, Created(a) PROVE Entering'
    <2>1. act[a] \in Act /\ Shape(act[a]) /\ act[a].pc = "created" BY <1>1, <1>3, ActorIs DEF Created
    <2>2. PICK i \in Ids : i = act[a].on BY <2>1 DEF Act, Shape
    <2>3. PICK ev : ev = act[a].ev OBVIOUS
    <2>4. /\ ev # Nothing /\ act[a].op = "create" /\ act[a].ids \in Seq(Ids)
          /\ Members(act[a].ids) \subseteq {i}
        BY <2>1, <2>2, <2>3 DEF Shape, Act
    <2>5. Carries(act[a], i) BY <2>1, <2>2 DEF Carries
    <2>6. ev \in Live(i) BY <1>1, <2>3, <2>4, <2>5, LiveAre
    <2>7. /\ act' = [act EXCEPT ![a] = Resting] /\ UNCHANGED <<store, index>>
          /\ jobs' = jobs \o act[a].ids
          /\ memory' = IF act[a].ids = <<>> THEN memory ELSE [memory EXCEPT ![i] = ev]
        BY <1>3, <2>2, <2>3 DEF Created, Done
    <2>8. Members(jobs') \subseteq Members(jobs) \union Members(act[a].ids) BY <2>4, <2>7, DataIs, JoinOf
    <2>9. Members(<<>>) = {} BY DEF Members
    <2>10. ASSUME NEW k \in Ids, k \in Members(jobs')
           PROVE  (k \in Members(jobs) /\ memory'[k] = memory[k]) \/ (k = i /\ memory'[k] = ev)
        <3>1. CASE k \in Members(jobs) BY <2>7, <3>1, DataIs
        <3>2. CASE k \in Members(act[a].ids)
            <4>1. act[a].ids # <<>> /\ k = i BY <2>4, <2>9, <3>2
            <4> QED BY <2>7, <4>1, DataIs
        <3> QED BY <2>8, <2>10, <3>1, <3>2
    <2>11. \E y \in Live(i) : Looks(ev, y) BY <2>6 DEF Looks
    <2>12. \A k \in Ids : /\ store'[k] = store[k] \/ (k = i /\ store'[k] = ev)
                          /\ k \in Members(jobs') =>
                               (k \in Members(jobs) /\ memory'[k] = memory[k]) \/ (k = i /\ memory'[k] = ev)
        BY <2>7, <2>10
    <2>13. /\ index' = index /\ a \in Actors /\ act[a].pc \notin {"ready", "pipe"}
           /\ act' = [act EXCEPT ![a] = Resting] /\ ~Making(Resting) /\ ~Deleting(Resting)
           /\ Resting.pc \notin {"created", "unlinkSet", "patchSet"}
        BY <1>1, <1>2, <2>1, <2>7
    <2> QED BY <2>11, <2>12, <2>13, WriteKeepsEntering
<1>4. ASSUME NEW a \in Clients, UnlinkSet(a) \/ PatchSet(a) PROVE Entering'
    <2>1. a \in Actors /\ UNCHANGED <<memory, index, jobs>>
        BY <1>1, <1>4 DEF UnlinkSet, PatchSet
    <2>2. act[a] \in Act /\ Shape(act[a]) BY <2>1, ActorIs
    <2>3. PICK g : /\ act' = [act EXCEPT ![a] = g]
                   /\ \/ g = Resting
                      \/ g.pc = "finish" /\ act[a].pc = "unlinkSet" /\ g.op = act[a].op
        BY <1>4, WriteKeepsBase
    <2>4. /\ ~Deleting(g) /\ ~Making(g) /\ g.pc \notin {"created", "unlinkSet", "patchSet"}
        BY <1>2, <2>3
    <2>5. PICK i \in Ids : i = act[a].on BY <1>4, WriteKeepsBase
    <2>6. PICK ev : ev = act[a].ev OBVIOUS
    <2>7. ev \in Event /\ store' = [store EXCEPT ![i] = ev] BY <1>4, <2>5, <2>6, WriteKeepsBase
    <2>8. Carries(act[a], i) /\ act[a].pc \notin {"ready", "pipe"}
        <3>1. CASE UnlinkSet(a) BY <2>5, <3>1 DEF UnlinkSet, Carries
        <3>2. CASE PatchSet(a)
            <4>1. act[a].pc = "patchSet" /\ act[a].op \in {"patch", "retype"}
                BY <2>2, <3>2 DEF PatchSet, Shape
            <4>2. act[a].op \in Operations BY <2>2, <4>1 DEF Act, Ops
            <4> QED BY <2>5, <4>1, <4>2 DEF Carries, SameKind
        <3> QED BY <1>4, <3>1, <3>2
    <2>9. ev \in Live(i) BY <2>1, <2>6, <2>7, <2>8, NothingAssumption, LiveAre
    <2>10. \A k \in Ids : /\ store'[k] = store[k] \/ (k = i /\ store'[k] = ev)
                          /\ memory'[k] = memory[k]
        BY <2>1, <2>7, DataIs
    <2>11. \E y \in Live(i) : Looks(ev, y) BY <2>9 DEF Looks
    <2> QED BY <2>1, <2>3, <2>4, <2>8, <2>10, <2>11, WriteKeepsEntering
<1>5. CASE UpdateParent
    <2>1. PICK i : i = Head(jobs) OBVIOUS
    <2>2. act[Worker].op = "fail" /\ act[Worker].pc = "update" /\ act[Worker].ids \in Seq(Ids)
        BY <1>1, <1>5, ActorIs DEF UpdateParent, Shape, Act
    <2>3. jobs # <<>> /\ jobs \in Seq(Ids) BY <2>2, DataIs DEF Base, Working
    <2>4. i \in Ids /\ Members(jobs) = {i} \union Members(Tail(jobs)) BY <2>1, <2>3, TailOf
    <2>5. memory[i] # Nothing
        <3>1. i = jobs[1] /\ 1 \in 1 .. Len(jobs) BY <2>1, <2>3
        <3> QED BY <3>1, DataIs
    <2>6. memory[i] \in Event BY <2>4, <2>5, StoredIs
    <2>7. PICK ev : ev = [memory[i] EXCEPT !.children = act[Worker].ids] OBVIOUS
    <2>8. Looks(ev, memory[i]) BY <2>6, <2>7 DEF Event, Looks
    <2>9. /\ memory' = [memory EXCEPT ![i] = IF i \in Members(Tail(jobs)) THEN ev ELSE Nothing]
          /\ store' = [store EXCEPT ![i] = ev]
          /\ act' = [act EXCEPT ![Worker] = Resting] /\ index' = index /\ jobs' = Tail(jobs)
        BY <1>5, <2>1, <2>7 DEF UpdateParent, Done
    <2>10. memory[i] \in Live(i) BY <2>4, <2>5, LiveAre
    <2>11. \A k \in Ids : /\ store'[k] = store[k] \/ (k = i /\ store'[k] = ev)
                          /\ k \in Members(jobs') => memory'[k] = memory[k] \/ (k = i /\ memory'[k] = ev)
        BY <2>4, <2>9, DataIs
    <2>12. \A k \in Members(jobs') : k \in Members(jobs) BY <2>4, <2>9
    <2>14. \E y \in Live(i) : Looks(ev, y) BY <2>8, <2>10
    <2>15. \A k \in Ids : /\ store'[k] = store[k] \/ (k = i /\ store'[k] = ev)
                          /\ k \in Members(jobs') =>
                                (k \in Members(jobs) /\ memory'[k] = memory[k]) \/ (k = i /\ memory'[k] = ev)
        BY <2>11, <2>12
    <2>16. /\ index' = index /\ act' = [act EXCEPT ![Worker] = Resting]
           /\ Worker \in Actors /\ act[Worker].pc \notin {"ready", "pipe"}
           /\ Resting.pc \notin {"created", "unlinkSet", "patchSet"}
        BY <1>1, <1>2, <2>2, <2>9
    <2> QED BY <1>2, <2>4, <2>14, <2>15, <2>16, WriteKeepsEntering
<1>6. ASSUME act' = act, UNCHANGED <<index, jobs, memory>>,
             \A k \in Ids : store'[k] = store[k] \/ store'[k] = Nothing
      PROVE  Entering'
    <2>1. \A k \in Ids : \A x : x \in Live(k)' => x \in Live(k) BY <1>6, LiveAre
    <2>2. KeepsLive BY <2>1 DEF KeepsLive, Looks
    <2> QED BY <1>6, <2>2, OthersKeepEntering
<1>7. ASSUME NEW i \in Ids, Expire(i) PROVE Entering'
    <2>1. act' = act /\ UNCHANGED <<index, jobs, memory>>
          /\ \A k \in Ids : store'[k] = store[k] \/ store'[k] = Nothing
        BY <1>7, DataIs DEF Expire
    <2> QED BY <1>6, <2>1
<1>8. CASE UNCHANGED vars
    <2>1. act' = act /\ UNCHANGED <<index, jobs, memory, store>> BY <1>8 DEF vars
    <2> QED BY <1>6, <2>1
<1> QED BY <1>3, <1>4, <1>5, <1>7, <1>8, StepDoes, MoveKeepsEntering, MakeKeepsEntering,
           CommandKeepsEntering

\* When deletions of every kind meet no other operation, and no patch changes the
\* type of an event, an event that is stored can be found at rest: creations,
\* patches and failing handlers may overlap, in any number, and keys may expire.
THEOREM StoredIsFound == ASSUME ErasingAlone, SameKind PROVE Spec => []Findable
<1>1. Init => Entering
    <2> SUFFICES ASSUME Init PROVE Entering OBVIOUS
    <2>1. \A a \in Actors : act[a] = Resting BY InitBase
    <2>2. \A i \in Ids : Live(i) = {}
        <3>1. \A a \in Actors : \A i : ~Carries(act[a], i) BY <2>1 DEF Carries, Making, Resting
        <3>2. \A i \in Ids : store[i] = Nothing /\ memory[i] = Nothing BY DEF Init
        <3> QED BY <3>1, <3>2, LiveAre
    <2> QED BY <2>2 DEF Entering
<1>2. Base /\ Solo /\ Calm /\ Erased /\ Entering /\ [Next]_vars => Calm' /\ Erased' /\ Entering'
    BY StepKeepsCalm, StepKeepsEntering
<1>3. Base /\ Entering => Findable
    <2> SUFFICES ASSUME Base, Entering, Quiet, NEW i \in Ids, Stored(i)
                 PROVE  Members(IndexesOf(store[i])) \subseteq Entries(i)
        BY DEF Findable
    <2>1. store[i] \in Event /\ store[i] \in Live(i) BY StoredIs, LiveAre DEF Stored
    <2>2. \A n : ~Underway(i, n) BY DEF Underway, Quiet, Idle, Making, Deleting
    <2> QED BY <2>1, <2>2, IndexesAre DEF Entering
<1> QED BY <1>1, <1>2, <1>3, InitCalm, BaseAndListing, PTL DEF Spec

-----------------------------------------------------------------------------
(* Rising sequences, and sequences without repetition.                     *)

Apart(s) == \A j, k \in DOMAIN s : s[j] = s[k] => j = k

LEMMA RisingIs ==
    ASSUME NEW s \in Seq(Ids), Rises(s)
    PROVE  /\ Apart(s)
           /\ s # <<>> => Last(s) \in Members(s) /\ \A x \in Members(s) : x <= Last(s)
<1>1. Len(s) \in Nat /\ DOMAIN s = 1 .. Len(s) /\ \A k \in 1 .. Len(s) : s[k] \in Nat
    BY MembersOf, StoreAssumption DEF Ids
<1>2. Apart(s)
    <2> SUFFICES ASSUME NEW j \in 1 .. Len(s), NEW k \in 1 .. Len(s), s[j] = s[k], j < k PROVE FALSE
        BY <1>1 DEF Apart
    <2>1. s[j] < s[k] BY <1>1 DEF Rises
    <2> QED BY <1>1, <2>1
<1>3. ASSUME s # <<>> PROVE Last(s) \in Members(s) /\ \A x \in Members(s) : x <= Last(s)
    <2>1. Len(s) \in 1 .. Len(s) BY <1>1, <1>3, MembersOf
    <2>2. Last(s) = s[Len(s)] BY DEF Last
    <2>3. ASSUME NEW x \in Members(s) PROVE x <= s[Len(s)]
        <3>1. PICK k \in 1 .. Len(s) : s[k] = x BY <2>3, MembersOf
        <3>2. CASE k = Len(s) BY <1>1, <2>1, <3>1, <3>2
        <3>3. CASE k < Len(s)
            <4>1. s[k] < s[Len(s)] BY <1>1, <2>1, <3>1, <3>3 DEF Rises
            <4> QED BY <1>1, <2>1, <3>1, <4>1
        <3>4. k < Len(s) \/ k = Len(s)
            <4>1. \A m \in Nat : \A n \in 1 .. m : n < m \/ n = m OBVIOUS
            <4> QED BY <1>1, <3>1, <4>1
        <3> QED BY <3>2, <3>3, <3>4
    <2> QED BY <2>1, <2>2, <2>3, MembersOf
<1> QED BY <1>2, <1>3

LEMMA AppendApart ==
    ASSUME NEW S, NEW s \in Seq(S), NEW x \in S, Apart(s), x \notin Members(s)
    PROVE  Apart(Append(s, x)) /\ Last(Append(s, x)) = x
<1> DEFINE t == Append(s, x)
<1>1. /\ t \in Seq(S) /\ Len(t) = Len(s) + 1 /\ Len(s) \in Nat /\ DOMAIN t = 1 .. Len(s) + 1
      /\ \A k \in 1 .. Len(s) : t[k] = s[k] /\ t[k] # x
      /\ t[Len(s) + 1] = x /\ DOMAIN s = 1 .. Len(s)
    BY MembersOf
<1> HIDE DEF t
<1>2. ASSUME NEW j \in 1 .. Len(s) + 1, NEW k \in 1 .. Len(s) + 1, t[j] = t[k] PROVE j = k
    <2>1. j \in 1 .. Len(s) \/ j = Len(s) + 1 BY <1>1
    <2>2. k \in 1 .. Len(s) \/ k = Len(s) + 1 BY <1>1
    <2> QED BY <1>1, <1>2, <2>1, <2>2 DEF Apart
<1>3. Last(t) = x BY <1>1 DEF Last
<1> QED BY <1>1, <1>2, <1>3 DEF Apart, t

LEMMA AppendRises ==
    ASSUME NEW s \in Seq(Ids), NEW x \in Ids, Rises(s), \A y \in Members(s) : y < x
    PROVE  Rises(Append(s, x))
<1> DEFINE t == Append(s, x)
<1>1. /\ Len(t) = Len(s) + 1 /\ Len(s) \in Nat /\ DOMAIN t = 1 .. Len(s) + 1
      /\ \A k \in 1 .. Len(s) : t[k] = s[k] /\ t[k] < x
      /\ t[Len(s) + 1] = x /\ DOMAIN s = 1 .. Len(s)
    BY MembersOf
<1> HIDE DEF t
<1>2. ASSUME NEW j \in 1 .. Len(s) + 1, NEW k \in 1 .. Len(s) + 1, j < k PROVE t[j] < t[k]
    <2>1. j \in 1 .. Len(s) BY <1>1, <1>2
    <2>2. k \in 1 .. Len(s) \/ k = Len(s) + 1 BY <1>1
    <2> QED BY <1>1, <1>2, <2>1, <2>2 DEF Rises
<1> QED BY <1>1, <1>2 DEF Rises, t

LEMMA TailApart ==
    ASSUME NEW S, NEW s \in Seq(S), s # <<>>, Apart(s)
    PROVE  /\ Apart(Tail(s)) /\ Head(s) \notin Members(Tail(s))
           /\ Last(s) = IF Tail(s) = <<>> THEN Head(s) ELSE Last(Tail(s))
           /\ Len(s) = 1 => Tail(s) = <<>>
<1> DEFINE t == Tail(s)
<1>1. /\ Len(s) >= 1 /\ Len(s) \in Nat /\ Head(s) = s[1]
      /\ t \in Seq(S) /\ Len(t) = Len(s) - 1 /\ DOMAIN t = 1 .. Len(t) /\ DOMAIN s = 1 .. Len(s)
      /\ \A k \in 1 .. Len(t) : t[k] = s[k + 1]
      /\ t = <<>> <=> Len(t) = 0
    <2>1. /\ Len(s) >= 1 /\ Head(s) = s[1] /\ t \in Seq(S) /\ Len(t) = Len(s) - 1
          /\ \A k \in 1 .. Len(t) : t[k] = s[k + 1]
        BY TailOf
    <2> HIDE DEF t
    <2>2. Len(s) \in Nat /\ DOMAIN s = 1 .. Len(s) BY MembersOf
    <2>3. DOMAIN t = 1 .. Len(t) /\ (t = <<>> <=> Len(t) = 0) BY <2>1, MembersOf
    <2> QED BY <2>1, <2>2, <2>3
<1> HIDE DEF t
<1>2. \A k \in 1 .. Len(t) : k + 1 \in 1 .. Len(s) /\ k + 1 # 1 BY <1>1
<1>3. 1 \in 1 .. Len(s) BY <1>1
<1>4. ASSUME NEW j \in 1 .. Len(t), NEW k \in 1 .. Len(t), t[j] = t[k] PROVE j = k
    <2>1. j + 1 \in 1 .. Len(s) /\ k + 1 \in 1 .. Len(s) /\ s[j + 1] = s[k + 1] BY <1>1, <1>2, <1>4
    <2>2. j + 1 = k + 1 BY <1>1, <2>1 DEF Apart
    <2> QED BY <2>2
<1>5. ASSUME Head(s) \in Members(t) PROVE FALSE
    <2>1. PICK k \in 1 .. Len(t) : t[k] = Head(s) BY <1>1, <1>5, MembersOf
    <2>2. s[k + 1] = s[1] BY <1>1, <2>1
    <2> QED BY <1>1, <1>2, <1>3, <2>1, <2>2 DEF Apart
<1>6. CASE Len(t) = 0
    <2>1. Len(s) = 1 /\ t = <<>> BY <1>1, <1>6
    <2> QED BY <1>1, <1>4, <1>5, <2>1 DEF Apart, Last, t
<1>7. CASE Len(t) # 0
    <2>1. t # <<>> /\ Len(t) \in 1 .. Len(t) /\ Len(t) + 1 = Len(s) /\ Len(s) # 1 BY <1>1, <1>7
    <2>2. Last(t) = Last(s) BY <1>1, <2>1 DEF Last
    <2> QED BY <1>1, <1>4, <1>5, <2>1, <2>2 DEF Apart, t
<1> QED BY <1>6, <1>7

LEMMA JoinApart ==
    ASSUME NEW S, NEW s \in Seq(S), NEW t \in Seq(S), Apart(s), Len(t) <= 1,
           Members(s) \intersect Members(t) = {}
    PROVE  Apart(s \o t)
<1> DEFINE u == s \o t
<1>1. /\ u \in Seq(S) /\ Len(u) = Len(s) + Len(t) /\ Len(s) \in Nat /\ Len(t) \in {0, 1}
      /\ \A k \in 1 .. Len(s) + Len(t) : u[k] = IF k <= Len(s) THEN s[k] ELSE t[k - Len(s)]
      /\ DOMAIN s = 1 .. Len(s)
    <2>1. Len(t) \in Nat BY MembersOf
    <2>2. Len(t) \in {0, 1}
        <3>1. \A n \in Nat : n <= 1 => n = 0 \/ n = 1 OBVIOUS
        <3> QED BY <2>1, <3>1
    <2> QED BY <2>2, ConcatProperties, MembersOf
<1>2. DOMAIN u = 1 .. Len(s) + Len(t) BY <1>1
<1> HIDE DEF u
<1>3. CASE Len(t) = 0 BY <1>1, <1>2, <1>3 DEF Apart, u
<1>4. CASE Len(t) = 1
    <2>1. 1 \in 1 .. Len(t) /\ t[1] \in Members(t) BY <1>4, MembersOf
    <2>2. \A k \in 1 .. Len(s) : u[k] = s[k] /\ s[k] # t[1] BY <1>1, <1>4, <2>1, MembersOf
    <2>3. u[Len(s) + 1] = t[1]
        <3>1. Len(s) + 1 \in 1 .. Len(s) + Len(t) /\ ~(Len(s) + 1 <= Len(s)) /\ Len(s) + 1 - Len(s) = 1
            BY <1>1, <1>4
        <3> QED BY <1>1, <3>1
    <2>4. ASSUME NEW j \in 1 .. Len(s) + 1, NEW k \in 1 .. Len(s) + 1, u[j] = u[k] PROVE j = k
        <3>1. j \in 1 .. Len(s) \/ j = Len(s) + 1 BY <1>1
        <3>2. k \in 1 .. Len(s) \/ k = Len(s) + 1 BY <1>1
        <3>3. \A m, n \in 1 .. Len(s) : s[m] = s[n] => m = n BY MembersOf DEF Apart
        <3>4. CASE j \in 1 .. Len(s) /\ k \in 1 .. Len(s) BY <2>2, <2>4, <3>3, <3>4
        <3>5. CASE j = Len(s) + 1 \/ k = Len(s) + 1 BY <2>2, <2>3, <2>4, <3>1, <3>2, <3>5
        <3> QED BY <3>1, <3>2, <3>4, <3>5
    <2> QED BY <1>2, <1>4, <2>4 DEF Apart, u
<1> QED BY <1>1, <1>3, <1>4

LEMMA WithoutRises ==
    ASSUME NEW s \in Seq(Ids), NEW x, Rises(s)
    PROVE  /\ Without(s, x) \in Seq(Ids) /\ Rises(Without(s, x))
           /\ Members(Without(s, x)) = Members(s) \ {x}
<1> DEFINE w == Without(s, x)
<1>1. CASE x \notin Members(s) /\ w = s BY <1>1
<1> HIDE DEF w
<1>2. CASE /\ w \in Seq(Ids) /\ Len(w) = Len(s) - 1
           /\ \E n \in 1 .. Len(s) :
                 s[n] = x /\ \A k \in 1 .. Len(s) - 1 : w[k] = IF k < n THEN s[k] ELSE s[k + 1]
    <2>1. PICK n \in 1 .. Len(s) :
             s[n] = x /\ \A k \in 1 .. Len(s) - 1 : w[k] = IF k < n THEN s[k] ELSE s[k + 1]
        BY <1>2
    <2>2. Len(s) \in Nat /\ DOMAIN s = 1 .. Len(s) /\ DOMAIN w = 1 .. Len(s) - 1
        BY <1>2, MembersOf
    <2>3. \A j, k \in 1 .. Len(s) : j < k => s[j] < s[k] BY <2>2 DEF Rises
    <2> DEFINE Old(k) == IF k < n THEN k ELSE k + 1
    <2>4. /\ \A k \in 1 .. Len(s) - 1 : Old(k) \in 1 .. Len(s) /\ Old(k) # n /\ w[k] = s[Old(k)]
          /\ \A j, k \in 1 .. Len(s) - 1 : j < k => Old(j) < Old(k)
        BY <2>1, <2>2
    <2>5. \A m \in 1 .. Len(s) : m # n => \E k \in 1 .. Len(s) - 1 : Old(k) = m
        <3> SUFFICES ASSUME NEW m \in 1 .. Len(s), m # n PROVE \E k \in 1 .. Len(s) - 1 : Old(k) = m
            OBVIOUS
        <3>1. CASE m < n
            <4>1. m \in 1 .. Len(s) - 1 /\ Old(m) = m BY <2>1, <2>2, <3>1
            <4> QED BY <4>1
        <3>2. CASE m > n
            <4>1. m - 1 \in 1 .. Len(s) - 1 /\ Old(m - 1) = m BY <2>1, <2>2, <3>2
            <4> QED BY <4>1
        <3> QED BY <2>1, <2>2, <3>1, <3>2
    <2> HIDE DEF Old
    <2>6. Rises(w)
        <3> SUFFICES ASSUME NEW j \in 1 .. Len(s) - 1, NEW k \in 1 .. Len(s) - 1, j < k
                     PROVE  w[j] < w[k]
            BY <2>2 DEF Rises
        <3>1. Old(j) \in 1 .. Len(s) /\ Old(k) \in 1 .. Len(s) /\ Old(j) < Old(k) BY <2>4
        <3> QED BY <2>3, <2>4, <3>1
    <2>7. \A m \in 1 .. Len(s) : s[m] = x => m = n
        <3>1. \A m \in 1 .. Len(s) : s[m] = s[n] => m = n BY <2>2, RisingIs DEF Apart
        <3> QED BY <2>1, <3>1
    <2>8. ASSUME NEW y \in Members(w) PROVE y \in Members(s) \ {x}
        <3>1. PICK k \in 1 .. Len(s) - 1 : w[k] = y BY <1>2, <2>8, MembersOf
        <3>2. Old(k) \in 1 .. Len(s) /\ Old(k) # n /\ y = s[Old(k)] BY <2>4, <3>1
        <3> QED BY <2>7, <3>2, MembersOf
    <2>9. ASSUME NEW y \in Members(s) \ {x} PROVE y \in Members(w)
        <3>1. PICK m \in 1 .. Len(s) : s[m] = y BY <2>9, MembersOf
        <3>2. m # n BY <2>1, <2>9, <3>1
        <3>3. PICK k \in 1 .. Len(s) - 1 : Old(k) = m BY <2>5, <3>2
        <3>4. w[k] = y /\ k \in 1 .. Len(w) BY <1>2, <2>4, <3>1, <3>3
        <3> QED BY <1>2, <3>4, MembersOf
    <2> QED BY <1>2, <2>6, <2>8, <2>9 DEF w
<1> QED BY <1>1, <1>2, WithoutIs DEF w

-----------------------------------------------------------------------------
(* Parents and children.                                                   *)

\* The worker's failing handlers and the DELETE requests meet no other operation,
\* there are no deletions in bulk, an event fails at most once, and no key expires.
FamiliesAlone ==
    /\ {"delete", "fail"} \subseteq Alone
    /\ Operations \subseteq {"create", "delete", "patch", "retype"}
    /\ MaxFails <= 1 /\ ~Expiry

\* c is stored in S and names p as its parent.
Child(S, c, p) == S[c] # Nothing /\ S[c].parent = p
Lone(ev) == ev.parent = 0 /\ ev.children = <<>>

\* What a DELETE request has still to erase, and the event it was made for.
Doomed(h) == Members(h.ids) \union (IF h.pc = "pipe" THEN {h.on} ELSE {})
Target(h) == IF h.ids = <<>> THEN h.on ELSE Last(h.ids)

\* It erases the children of its target, all of them, and the target last.
Cascade(h, S) ==
    /\ Apart(h.ids) /\ \A c \in Members(h.ids) : S[c] # Nothing
    /\ h.pc = "pipe" => h.on \notin Members(h.ids)
    /\ \A c \in Doomed(h) : S[c] # Nothing =>
          S[c].parent = IF c = Target(h) THEN h.ev.parent ELSE Target(h)
    /\ \A c \in Ids : \A p \in Doomed(h) : Child(S, c, p) => p = Target(h) /\ c \in Doomed(h) \ {p}

\* A child that is deleted is the last of its parent's, once that was compared.
Removal(h, S) ==
    /\ h.pc \in {"getParent", "erase"} => Len(h.ids) = 1
    /\ h.pc = "getParent" => Target(h) = h.on
    /\ h.pc \in {"pipe", "unlinkGet"} => h.ids = <<>>
    /\ S[h.ev.parent] # Nothing
    /\ h.pc # "getParent" => \A c \in Ids : Child(S, c, h.ev.parent) => c <= Target(h)
    /\ h.pc = "unlinkGet" => S[h.on] = Nothing

\* The copy of the parent lists its children without the deleted one.
Unlinks(h, S) ==
    /\ S[h.on] # Nothing /\ h.ev.parent = S[h.on].parent /\ Rises(h.ev.children)
    /\ \A c \in Ids : c \in Members(h.ev.children) <=> Child(S, c, h.on)

Starts(h, S, J) ==
    /\ Lone(h.ev) /\ Len(h.ids) <= 1 /\ h.on \notin Members(J)
    /\ S[h.on] # Nothing => Lone(S[h.on])
    /\ h.pc = "created" => S[h.on] # Nothing

Fails(h, S, J) ==
    /\ Rises(h.ids)
    /\ \A c \in Members(h.ids) :
          Child(S, c, Head(J)) \/ (h.pc = "pipe" /\ c = h.on /\ Head(h.cmds) = SetIt)
    /\ h.pc = "pipe" => h.on \in Members(h.ids) /\ h.ev.parent = Head(J) /\ h.ev.children = <<>>

\* What holds of actor h, the store S, the queue J and the deleted ids G.
Fits(h, S, J, G) ==
    /\ h.op = "create" => Starts(h, S, J)
    /\ h.op = "fail" => Fails(h, S, J)
    /\ Making(h) => h.on \notin G /\ (S[h.on] = Nothing <=> Head(h.cmds) = SetIt)
    /\ h.op = "delete" =>
          /\ h.pc \in {"getParent", "erase", "pipe"} => Cascade(h, S)
          /\ h.pc \in {"getParent", "erase", "pipe", "unlinkGet"} /\ h.ev.parent # 0 => Removal(h, S)
          /\ h.pc = "unlinkSet" => Unlinks(h, S)
    /\ h.pc = "patchSet" => /\ S[h.on] # Nothing /\ h.ev.parent = S[h.on].parent
                            /\ h.ev.children = S[h.on].children

\* While h deletes, p may list c although c is not its child any more.
Excuses(h, p, c) ==
    h.op = "delete" /\ \/ h.pc \in {"erase", "pipe"} /\ h.ev.parent = 0 /\ p = Target(h)
                       \/ h.pc \in {"pipe", "unlinkGet"} /\ h.ev.parent = p /\ c = h.on
                       \/ h.pc = "unlinkSet" /\ p = h.on

Listed == \A p \in Ids : Stored(p) => \A c \in Members(store[p].children) :
    Child(store, c, p) \/ \E a \in Clients : Excuses(act[a], p, c)

\* A parent has no parent, and lists its children but for those just made.
Lists == \A c \in Ids : \A p \in Ids : Child(store, c, p) =>
    /\ Stored(p) /\ store[p].parent = 0
    /\ \/ c \in Members(store[p].children)
       \/ act[Worker].op = "fail" /\ p = Head(jobs) /\ c \in Members(act[Worker].ids)

Rising == \A p \in Ids : Stored(p) => Rises(store[p].children)
Dead == \A i \in gone : ~Stored(i)
Queue == Apart(jobs) /\ \A i \in Members(jobs) :
    Stored(i) /\ Lone(store[i]) /\ memory[i].parent = 0
Distinct == \A a, b \in Actors :
    (act[a].op = "create" /\ act[b].op = "create" /\ act[a].on = act[b].on) => a = b

Families ==
    /\ \A a \in Actors : Fits(act[a], store, jobs, gone)
    /\ Listed /\ Lists /\ Rising /\ Dead /\ Queue /\ Distinct

LEMMA NoExcuse ==
    /\ \A S, J, G : Fits(Resting, S, J, G)
    /\ \A h : h.op # "delete" => \A p, c : ~Excuses(h, p, c)
    /\ Resting.op = "none" /\ Resting.pc = "ready"
BY DEF Resting, Fits, Making, Excuses

\* Deletions and failing handlers meet nobody.
LEMMA AloneHere ==
    ASSUME Base, Solo, FamiliesAlone, NEW a \in Actors, act[a].op \in {"delete", "fail"}
    PROVE  \A b \in Actors : b # a => act[b] = Resting
<1> SUFFICES ASSUME NEW b \in Actors, b # a PROVE act[b] = Resting OBVIOUS
<1>1. act[b].pc = "ready" BY DEF FamiliesAlone, Solo
<1> QED BY <1>1, ActorIs DEF Shape

LEMMA NobodyAlone ==
    ASSUME Base, Solo, FamiliesAlone, NEW a \in Actors, act[a].pc # "ready",
           act[a].op \notin {"delete", "fail"}, NEW b \in Actors
    PROVE  act[b].op \notin {"delete", "fail"}
BY DEF FamiliesAlone, Solo

LEMMA OperationsAre ==
    ASSUME Base, FamiliesAlone
    PROVE  /\ ErasingAlone /\ ~Expiry /\ MaxFails \in {0, 1}
           /\ \A a \in Actors : act[a].op \in {"none", "create", "delete", "patch", "retype", "fail"}
           /\ \A a \in Actors : Deleting(act[a]) => act[a].op = "delete"
           /\ \A a \in Clients : a \in Actors /\ a # Worker /\ act[a].op # "fail"
           /\ Worker \in Actors /\ act[Worker].op \in {"none", "fail"}
<1>1. ErasingAlone /\ ~Expiry BY DEF ErasingAlone, FamiliesAlone
<1>2. MaxFails \in {0, 1}
    <2>1. \A n \in Nat : n <= 1 => n \in {0, 1} OBVIOUS
    <2> QED BY <2>1, StoreAssumption DEF FamiliesAlone
<1>3. ASSUME NEW a \in Actors PROVE act[a].op \in {"none", "create", "delete", "patch", "retype", "fail"}
    BY ActorIs DEF Act, Ops, FamiliesAlone
<1>4. ASSUME NEW a \in Actors, Deleting(act[a]) PROVE act[a].op = "delete"
    BY <1>3, <1>4, ActorIs DEF Deleting, Shape
<1>5. \A a \in Clients : a \in Actors /\ a # Worker BY StoreAssumption DEF Actors
<1>6. Worker \in Actors BY DEF Actors
<1> QED BY <1>1, <1>2, <1>3, <1>4, <1>5, <1>6, ActorIs

\* What the invariant says of the store.
LEMMA ParentsAre ==
    ASSUME Base, Families
    PROVE  /\ \A c, p \in Ids : Child(store, c, p) =>
                 Stored(p) /\ store[p].parent = 0 /\ ~Child(store, p, p) /\ c # p
           /\ \A c, p \in Ids : Child(store, c, p) /\ act[Worker].op # "fail" =>
                 c \in Members(store[p].children)
           /\ \A p \in Ids : Stored(p) => /\ store[p].children \in Seq(Ids)
                                          /\ Members(store[p].children) \subseteq Ids
                                          /\ Rises(store[p].children)
           /\ 0 \notin Ids
<1>1. 0 \notin Ids BY DEF Ids
<1>2. ASSUME NEW c \in Ids, NEW p \in Ids, Child(store, c, p)
      PROVE  /\ Stored(p) /\ store[p].parent = 0 /\ ~Child(store, p, p) /\ c # p
             /\ act[Worker].op # "fail" => c \in Members(store[p].children)
    <2>1. /\ Stored(p) /\ store[p].parent = 0
          /\ \/ c \in Members(store[p].children)
             \/ act[Worker].op = "fail" /\ p = Head(jobs) /\ c \in Members(act[Worker].ids)
        BY <1>2 DEF Families, Lists
    <2> QED BY <1>1, <1>2, <2>1 DEF Child
<1>3. ASSUME NEW p \in Ids, Stored(p)
      PROVE  /\ store[p].children \in Seq(Ids) /\ Members(store[p].children) \subseteq Ids
             /\ Rises(store[p].children)
    <2>1. store[p].children \in Seq(Ids) BY <1>3, StoredIs DEF Stored, Event
    <2> QED BY <1>3, <2>1, MembersOf DEF Families, Rising
<1> QED BY <1>1, <1>2, <1>3

\* A step that changes nothing but what actor a does.
LEMMA QuietStep ==
    ASSUME Base, Families, NEW a \in Actors, NEW g, act' = [act EXCEPT ![a] = g],
           UNCHANGED <<store, jobs, memory, gone>>,
           Fits(g, store, jobs, gone),
           \A p, c \in Ids : Excuses(act[a], p, c) => Excuses(g, p, c),
           act[a].op = "fail" => g.op = "fail" /\ Members(act[a].ids) \subseteq Members(g.ids),
           g.op = "create" => \A b \in Actors \ {a} : act[b].op = "create" => act[b].on # g.on
    PROVE  Families'
<1>1. act'[a] = g /\ \A b \in Actors \ {a} : act'[b] = act[b] BY OthersStay
<1>2. \A b \in Actors : Fits(act'[b], store, jobs, gone) BY <1>1 DEF Families
<1>3. Listed'
    <2> SUFFICES ASSUME NEW p \in Ids, Stored(p), NEW c \in Members(store[p].children)
                 PROVE  Child(store, c, p) \/ \E b \in Clients : Excuses(act'[b], p, c)
        BY DEF Listed, Stored
    <2>1. Child(store, c, p) \/ \E b \in Clients : Excuses(act[b], p, c) BY DEF Families, Listed
    <2>2. c \in Ids BY ParentsAre
    <2>3. ASSUME NEW b \in Clients, Excuses(act[b], p, c) PROVE Excuses(act'[b], p, c)
        <3>1. b \in Actors BY DEF Actors
        <3> QED BY <1>1, <2>2, <2>3, <3>1
    <2> QED BY <2>1, <2>3
<1>4. Lists'
    <2> SUFFICES ASSUME NEW c \in Ids, NEW p \in Ids, Child(store, c, p)
                 PROVE  /\ Stored(p) /\ store[p].parent = 0
                        /\ \/ c \in Members(store[p].children)
                           \/ act'[Worker].op = "fail" /\ p = Head(jobs) /\ c \in Members(act'[Worker].ids)
        BY DEF Lists, Stored
    <2>1. /\ Stored(p) /\ store[p].parent = 0
          /\ \/ c \in Members(store[p].children)
             \/ act[Worker].op = "fail" /\ p = Head(jobs) /\ c \in Members(act[Worker].ids)
        BY DEF Families, Lists
    <2>2. Worker \in Actors BY DEF Actors
    <2>3. act[Worker].op = "fail" /\ c \in Members(act[Worker].ids)
             => act'[Worker].op = "fail" /\ c \in Members(act'[Worker].ids)
        BY <1>1, <2>2
    <2> QED BY <2>1, <2>3
<1>5. Rising' /\ Dead' /\ Queue' BY DEF Families, Rising, Dead, Queue, Stored
<1>6. Distinct' BY <1>1 DEF Families, Distinct
<1> QED BY <1>2, <1>3, <1>4, <1>5, <1>6 DEF Families

LEMMA RestKeepsFamilies ==
    ASSUME Base, Families, NEW a \in Actors, Done(a), UNCHANGED data,
           act[a].op # "fail", \A p, c \in Ids : ~Excuses(act[a], p, c)
    PROVE  Families'
<1>1. act' = [act EXCEPT ![a] = Resting] /\ UNCHANGED <<store, jobs, memory, gone>>
    BY DEF Done, data
<1> QED BY <1>1, NoExcuse, QuietStep

\* Requests, and the worker's, begin with nothing read.
LEMMA BeginKeepsFamilies ==
    ASSUME Base, FamiliesAlone, Families, NEW a \in Actors, NEW g, act' = [act EXCEPT ![a] = g],
           UNCHANGED <<store, jobs, memory, gone>>, act[a] = Resting,
           \/ g.op = "delete" /\ g.pc = "get"
           \/ g.op \in {"patch", "retype"} /\ g.pc = "patchGet"
           \/ g.op = "fail" /\ g.pc = "child" /\ g.ids = <<>>
    PROVE  Families'
<1>1. Rises(<<>>) /\ Members(<<>>) = {} BY DEF Rises, Members
<1>2. Fits(g, store, jobs, gone) BY <1>1 DEF Fits, Fails, Making
<1> QED BY <1>2, NoExcuse, QuietStep

LEMMA PatchGetKeepsFamilies ==
    ASSUME Base, FamiliesAlone, Families, NEW a \in Clients, PatchGet(a)
    PROVE  Families'
<1> DEFINE h == act[a]
           old == store[h.on]
<1>1. a \in Actors /\ h \in Act /\ Shape(h) BY ActorIs DEF Actors
<1>2. h.pc = "patchGet" /\ UNCHANGED data BY DEF PatchGet
<1>3. h.op \in {"patch", "retype"} /\ h.on \in Ids BY <1>1, <1>2 DEF Shape, Act
<1>4. \A p, c : ~Excuses(h, p, c) BY <1>3, NoExcuse
<1>5. CASE Done(a) BY <1>1, <1>2, <1>3, <1>4, <1>5, RestKeepsFamilies
<1>6. CASE ~ Done(a)
    <2>1. old # Nothing BY <1>6 DEF PatchGet
    <2>2. PICK t, ch : act' = [act EXCEPT ![a].pc = "patchSet",
                                          ![a].ev = [old EXCEPT !.type = t, !.channel = ch]]
        BY <1>6 DEF PatchGet
    <2>3. PICK ev : ev = [old EXCEPT !.type = t, !.channel = ch] OBVIOUS
    <2>4. old \in Event BY <1>3, <2>1, StoredIs
    <2>5. ev.parent = old.parent /\ ev.children = old.children BY <2>3, <2>4 DEF Event
    <2> DEFINE g == [h EXCEPT !.pc = "patchSet", !.ev = ev]
    <2>6. act' = [act EXCEPT ![a] = g] BY <2>2, <2>3
    <2>7. g.pc = "patchSet" /\ g.op = h.op /\ g.on = h.on /\ g.ev = ev BY <1>1 DEF Act
    <2> HIDE DEF g
    <2>8. Fits(g, store, jobs, gone) BY <1>3, <2>1, <2>5, <2>7 DEF Fits, Making
    <2>9. UNCHANGED <<store, jobs, memory, gone>> BY <1>2 DEF data
    <2> QED BY <1>1, <1>3, <1>4, <2>6, <2>7, <2>8, <2>9, QuietStep
<1> QED BY <1>5, <1>6

\* The cascade: the children that the event lists are all that name it.
LEMMA GetKeepsFamilies ==
    ASSUME Base, Solo, FamiliesAlone, Families, NEW a \in Clients, GetTarget(a)
    PROVE  Families'
<1> DEFINE h == act[a]
<1>1. a \in Actors /\ h \in Act /\ Shape(h) BY ActorIs DEF Actors
<1>2. h.pc = "get" /\ UNCHANGED data BY DEF GetTarget
<1>3. h.op = "delete" BY <1>1, <1>2 DEF Shape
<1>4. \A p, c : ~Excuses(h, p, c) BY <1>2 DEF Excuses
<1>5. PICK t \in Ids : t = h.on BY <1>1, <1>2 DEF Shape, Act
<1>6. CASE Done(a) BY <1>1, <1>2, <1>3, <1>4, <1>6, RestKeepsFamilies
<1>7. CASE ~ Done(a)
    <2>1. PICK ev : ev = store[t] OBVIOUS
    <2>2. PICK ids : ids = Append(ev.children, t) OBVIOUS
    <2>3. PICK pc : pc = IF ev.parent # 0 THEN "getParent" ELSE "erase" OBVIOUS
    <2>4. /\ ev # Nothing /\ ~(ev.parent # 0 /\ ev.children # <<>>)
          /\ act' = [act EXCEPT ![a].ev = ev, ![a].ids = ids, ![a].pc = pc]
        BY <1>5, <1>7, <2>1, <2>2, <2>3 DEF GetTarget
    <2> DEFINE g == [h EXCEPT !.ev = ev, !.ids = ids, !.pc = pc]
    <2>5. act' = [act EXCEPT ![a] = g] BY <2>4
    <2>6. /\ g.pc = pc /\ g.op = "delete" /\ g.on = t /\ g.ev = ev /\ g.ids = ids
          /\ pc \in {"getParent", "erase"}
        BY <1>1, <1>3, <1>5, <2>3 DEF Act
    <2> HIDE DEF g
    <2>7. Stored(t) /\ ev \in Event /\ ev.children \in Seq(Ids) /\ Rises(ev.children)
          /\ Members(ev.children) \subseteq Ids
        BY <2>1, <2>4, ParentsAre, StoredIs DEF Stored
    <2>8. act[Worker].op # "fail" /\ \A b \in Clients : \A p, c : ~Excuses(act[b], p, c)
        <3>1. \A b \in Actors : b # a => act[b] = Resting BY <1>1, <1>3, AloneHere
        <3> QED BY <1>4, <3>1, NoExcuse, OperationsAre
    <2>9. \A c \in Members(ev.children) : Child(store, c, t)
        BY <2>1, <2>7, <2>8 DEF Families, Listed
    <2>10. t \notin Members(ev.children) BY <2>7, <2>9, ParentsAre
    <2>11. /\ Apart(ids) /\ Last(ids) = t /\ ids # <<>> /\ Members(ids) = Members(ev.children) \union {t}
           /\ ids \in Seq(Ids) /\ Len(ids) = Len(ev.children) + 1
        <3>1. Apart(ev.children) BY <2>7, RisingIs
        <3> QED BY <2>2, <2>7, <2>10, <3>1, AppendApart, AppendOf
    <2>12. Target(g) = t /\ Doomed(g) = Members(ids) BY <2>6, <2>11 DEF Target, Doomed
    <2>13. Cascade(g, store)
        <3>1. \A c \in Members(ids) : store[c] # Nothing /\ store[c].parent = IF c = t THEN ev.parent ELSE t
            BY <2>1, <2>4, <2>9, <2>10, <2>11 DEF Child
        <3>2. ASSUME NEW c \in Ids, NEW p \in Members(ids), Child(store, c, p)
              PROVE  p = t /\ c \in Members(ids) \ {p}
            <4>1. p \in Ids BY <2>7, <2>11
            <4>2. Stored(p) /\ store[p].parent = 0 /\ c \in Members(store[p].children) /\ c # p
                BY <2>8, <3>2, <4>1, ParentsAre
            <4>3. p = t BY <2>9, <2>11, <4>2, ParentsAre DEF Child
            <4> QED BY <2>1, <2>11, <4>2, <4>3
        <3> QED BY <2>6, <2>11, <2>12, <3>1, <3>2 DEF Cascade
    <2>14. ASSUME ev.parent # 0 PROVE Removal(g, store)
        <3>1. pc = "getParent" /\ ev.children = <<>> BY <2>3, <2>4, <2>14
        <3>2. Len(ids) = 1 BY <2>11, <3>1
        <3>3. Child(store, t, ev.parent) /\ ev.parent \in Ids BY <2>1, <2>4, <2>7, <2>14 DEF Child, Event
        <3>4. store[ev.parent] # Nothing BY <3>3, ParentsAre DEF Stored
        <3> QED BY <2>6, <2>12, <3>1, <3>2, <3>4 DEF Removal
    <2>15. Fits(g, store, jobs, gone) BY <2>6, <2>13, <2>14 DEF Fits, Making
    <2>16. UNCHANGED <<store, jobs, memory, gone>> BY <1>2 DEF data
    <2> QED BY <1>1, <1>3, <1>4, <2>5, <2>6, <2>15, <2>16, QuietStep
<1> QED BY <1>6, <1>7

LEMMA ParentKeepsFamilies ==
    ASSUME Base, Solo, FamiliesAlone, Families, NEW a \in Clients, GetParent(a)
    PROVE  Families'
<1> DEFINE h == act[a]
           g == [h EXCEPT !.pc = "erase"]
<1>1. a \in Actors /\ h \in Act /\ Shape(h) BY ActorIs DEF Actors
<1>2. h.pc = "getParent" /\ UNCHANGED data BY DEF GetParent
<1>3. h.op = "delete" /\ h.ev.parent # 0 /\ h.ev # Nothing BY <1>1, <1>2 DEF Shape
<1>4. \A p, c : ~Excuses(h, p, c) BY <1>2 DEF Excuses
<1>5. CASE Done(a) BY <1>1, <1>2, <1>3, <1>4, <1>5, RestKeepsFamilies
<1>6. CASE Goto(a, "erase") /\ ~Done(a)
    <2>1. act' = [act EXCEPT ![a] = g] BY <1>6 DEF Goto
    <2>2. g.pc = "erase" /\ g.op = "delete" /\ g.on = h.on /\ g.ev = h.ev /\ g.ids = h.ids
        BY <1>1, <1>3 DEF Act
    <2> HIDE DEF g
    <2>3. PICK p \in Ids : p = h.ev.parent BY <1>1, <1>3 DEF Act, Event
    <2>4. Cascade(h, store) /\ Removal(h, store) BY <1>1, <1>2, <1>3 DEF Families, Fits
    <2>5. Target(g) = Target(h) /\ Doomed(g) = Doomed(h) BY <1>2, <2>2 DEF Target, Doomed
    <2>6. Cascade(g, store) BY <1>2, <2>2, <2>4, <2>5 DEF Cascade
    <2>7. Stored(p) /\ Target(h) = h.on /\ Len(h.ids) = 1 BY <1>2, <2>3, <2>4 DEF Removal, Stored
    <2>8. store[p].children = <<>> \/ Last(store[p].children) = h.on
        BY <1>6, <2>3, <2>7 DEF GetParent, Stored
    <2>9. act[Worker].op # "fail"
        <3>1. \A b \in Actors : b # a => act[b] = Resting BY <1>1, <1>3, AloneHere
        <3> QED BY <3>1, NoExcuse, OperationsAre
    <2>10. ASSUME NEW c \in Ids, Child(store, c, p) PROVE c <= Target(g)
        <3>1. c \in Members(store[p].children) BY <2>9, <2>10, ParentsAre
        <3>2. store[p].children \in Seq(Ids) /\ Rises(store[p].children) BY <2>7, ParentsAre
        <3>3. Members(<<>>) = {} BY DEF Members
        <3> QED BY <2>5, <2>7, <2>8, <3>1, <3>2, <3>3, RisingIs
    <2>11. Removal(g, store) BY <2>2, <2>3, <2>7, <2>10 DEF Removal, Stored
    <2>12. Fits(g, store, jobs, gone) BY <2>2, <2>6, <2>11 DEF Fits, Making
    <2>13. UNCHANGED <<store, jobs, memory, gone>> BY <1>2 DEF data
    <2> QED BY <1>1, <1>3, <1>4, <2>1, <2>2, <2>12, <2>13, QuietStep
<1> QED BY <1>5, <1>6 DEF GetParent

LEMMA EraseKeepsFamilies ==
    ASSUME Base, Solo, FamiliesAlone, Families, NEW a \in Clients, Erase(a)
    PROVE  Families'
<1> DEFINE h == act[a]
<1>1. a \in Actors /\ h \in Act /\ Shape(h) BY ActorIs DEF Actors
<1>2. h.pc = "erase" /\ UNCHANGED data BY DEF Erase
<1>3. h.op = "delete" /\ h.ev # Nothing /\ h.ids # <<>> /\ h.ids \in Seq(Ids)
    BY <1>1, <1>2, OperationsAre DEF Shape, Act
<1>4. PICK i \in Ids : i = Head(h.ids) BY <1>3, TailOf
<1>5. Members(h.ids) = {i} \union Members(Tail(h.ids)) BY <1>3, <1>4, TailOf
<1>6. Cascade(h, store) /\ (h.ev.parent # 0 => Removal(h, store))
    BY <1>1, <1>2, <1>3 DEF Families, Fits
<1>7. /\ Apart(Tail(h.ids)) /\ i \notin Members(Tail(h.ids))
      /\ Last(h.ids) = IF Tail(h.ids) = <<>> THEN i ELSE Last(Tail(h.ids))
      /\ Len(h.ids) = 1 => Tail(h.ids) = <<>>
    BY <1>3, <1>4, <1>6, TailApart DEF Cascade
<1>8. store[i] # Nothing BY <1>5, <1>6 DEF Cascade
<1> DEFINE g == [h EXCEPT !.pc = "pipe", !.on = i, !.ids = Tail(h.ids), !.cmds = DeleteCommands(store[i])]
<1>9. act' = [act EXCEPT ![a] = g] BY <1>4, <1>8 DEF Erase
<1>10. g.pc = "pipe" /\ g.op = "delete" /\ g.on = i /\ g.ev = h.ev /\ g.ids = Tail(h.ids)
    BY <1>1, <1>3 DEF Act
<1> HIDE DEF g
<1>11. Target(g) = Target(h) /\ Doomed(g) = Doomed(h)
    BY <1>2, <1>3, <1>5, <1>7, <1>10 DEF Target, Doomed
<1>12. Cascade(g, store) BY <1>5, <1>6, <1>7, <1>10, <1>11 DEF Cascade
<1>13. ASSUME h.ev.parent # 0 PROVE Removal(g, store)
    BY <1>2, <1>6, <1>7, <1>10, <1>11, <1>13 DEF Removal
<1>14. Fits(g, store, jobs, gone) BY <1>10, <1>12, <1>13 DEF Fits, Making
<1>15. \A p, c : Excuses(h, p, c) => Excuses(g, p, c) BY <1>2, <1>10, <1>11 DEF Excuses
<1>16. UNCHANGED <<store, jobs, memory, gone>> BY <1>2 DEF data
<1> QED BY <1>1, <1>3, <1>9, <1>10, <1>14, <1>15, <1>16, QuietStep

LEMMA UnlinkGetKeepsFamilies ==
    ASSUME Base, Solo, FamiliesAlone, Families, NEW a \in Clients, UnlinkGet(a)
    PROVE  Families'
<1> DEFINE h == act[a]
<1>1. a \in Actors /\ h \in Act /\ Shape(h) BY ActorIs DEF Actors
<1>2. h.pc = "unlinkGet" /\ UNCHANGED data BY DEF UnlinkGet
<1>3. h.op = "delete" /\ h.ev # Nothing /\ h.ev.parent # 0 BY <1>1, <1>2 DEF Shape
<1>4. PICK p \in Ids : p = h.ev.parent BY <1>1, <1>3 DEF Act, Event
<1>5. PICK t : t = h.on OBVIOUS
<1>6. store[p] # Nothing /\ store[t] = Nothing
    BY <1>1, <1>2, <1>3, <1>4, <1>5 DEF Families, Fits, Removal
<1>7. PICK ev : ev = [store[p] EXCEPT !.children = Without(@, t)] OBVIOUS
<1>8. store[p] \in Event BY <1>6, StoredIs
<1>9. ev.parent = store[p].parent /\ ev.children = Without(store[p].children, t)
    BY <1>7, <1>8 DEF Event
<1> DEFINE g == [h EXCEPT !.pc = "unlinkSet", !.on = p, !.ev = ev]
<1>10. act' = [act EXCEPT ![a] = g] BY <1>4, <1>5, <1>6, <1>7 DEF UnlinkGet
<1>11. g.pc = "unlinkSet" /\ g.op = "delete" /\ g.on = p /\ g.ev = ev BY <1>1, <1>3 DEF Act
<1> HIDE DEF g
<1>12. act[Worker].op # "fail" /\ \A b \in Clients : b # a => \A q, c : ~Excuses(act[b], q, c)
    <2>1. \A b \in Actors : b # a => act[b] = Resting BY <1>1, <1>3, AloneHere
    <2> QED BY <2>1, NoExcuse, OperationsAre
<1>13. Rises(store[p].children) /\ Members(store[p].children) \subseteq Ids
       /\ store[p].children \in Seq(Ids)
    BY <1>6, ParentsAre DEF Stored
<1>14. Rises(ev.children) /\ Members(ev.children) = Members(store[p].children) \ {t}
    BY <1>9, <1>13, WithoutRises
<1>15. ASSUME NEW c \in Ids PROVE c \in Members(ev.children) <=> Child(store, c, p)
    <2>1. ASSUME c \in Members(ev.children) PROVE Child(store, c, p)
        <3>1. c \in Members(store[p].children) /\ c # t BY <1>14, <2>1
        <3>2. ~Excuses(h, p, c) BY <1>2, <1>5, <3>1 DEF Excuses
        <3> QED BY <1>6, <1>12, <3>1, <3>2 DEF Families, Listed, Stored
    <2>2. ASSUME Child(store, c, p) PROVE c \in Members(ev.children)
        <3>1. c # t BY <1>6, <2>2 DEF Child
        <3>2. c \in Members(store[p].children) BY <1>12, <2>2, ParentsAre
        <3> QED BY <1>14, <3>1, <3>2
    <2> QED BY <2>1, <2>2
<1>16. Unlinks(g, store) BY <1>6, <1>9, <1>11, <1>14, <1>15 DEF Unlinks
<1>17. Fits(g, store, jobs, gone) BY <1>11, <1>16 DEF Fits, Making
<1>18. \A q, c : Excuses(h, q, c) => Excuses(g, q, c) BY <1>2, <1>4, <1>11 DEF Excuses
<1>19. UNCHANGED <<store, jobs, memory, gone>> BY <1>2 DEF data
<1> QED BY <1>1, <1>3, <1>10, <1>11, <1>17, <1>18, <1>19, QuietStep

\* A new id is nobody's.
LEMMA NewIsNew ==
    ASSUME Base, Mint, NEW new, new = minted + 1
    PROVE  /\ new \in Ids /\ store[new] = Nothing /\ new \notin gone /\ new \notin Members(jobs)
           /\ \A a \in Actors : act[a].on # new
           /\ \A i \in Seen : i < new
<1>1. new \in Ids /\ minted \in Nat /\ Seen \subseteq 1 .. minted BY NewIs, IdsAre
<1>2. ~(new <= minted) /\ new # 0 BY <1>1
<1>3. \A i \in Seen : i < new BY <1>1
<1>4. new \notin Seen BY <1>1, <1>2
<1>5. store[new] = Nothing /\ new \notin gone BY <1>1, <1>2, <1>4 DEF Base, Kept
<1>6. new \notin Members(jobs)
    <2>1. \A k \in 1 .. Len(jobs) : jobs[k] # new BY <1>4 DEF Base, Kept
    <2> QED BY <2>1, DataIs, MembersOf
<1>7. ASSUME NEW a \in Actors PROVE act[a].on # new
    <2>1. Unseen(act[a]) => act[a].on <= minted BY DEF Base, Working
    <2>2. ~Unseen(act[a]) => act[a].on \in {0} \union Seen BY ActorIs DEF Placed
    <2> QED BY <1>2, <1>4, <2>1, <2>2
<1> QED BY <1>1, <1>3, <1>5, <1>6, <1>7

LEMMA CreateKeepsFamilies ==
    ASSUME Base, FamiliesAlone, Families, NEW a \in Clients, Create(a)
    PROVE  Families'
<1>1. a \in Actors BY DEF Actors
<1>2. /\ MayBegin(a, "create") /\ Mint
      /\ UNCHANGED <<store, index, jobs, memory, requests, gone, loose, copied>>
    BY DEF Create
<1>3. act[a] = Resting BY <1>1, <1>2, ActorIs DEF MayBegin, Shape
<1>4. PICK new \in Ids : new = minted + 1 BY <1>2, NewIs
<1>5. /\ store[new] = Nothing /\ new \notin gone /\ new \notin Members(jobs)
      /\ \A b \in Actors : act[b].on # new
    BY <1>2, <1>4, NewIsNew
<1>6. PICK t \in Types, ch \in Channels \union {NoChannel}, fails \in 0 .. MaxFails :
         LET ev == [type |-> t, channel |-> ch, parent |-> 0, children |-> <<>>]
         IN  act' = [act EXCEPT ![a] =
                        [Resting EXCEPT !.pc = "pipe", !.op = "create", !.on = minted + 1,
                            !.ev = ev, !.cmds = CreateCommands(ev),
                            !.ids = [k \in 1 .. fails |-> minted + 1]]]
    BY DEF Create
<1>7. PICK ev : ev = [type |-> t, channel |-> ch, parent |-> 0, children |-> <<>>] OBVIOUS
<1>8. PICK cmds : cmds = CreateCommands(ev) OBVIOUS
<1>9. PICK ids : ids = [k \in 1 .. fails |-> minted + 1] OBVIOUS
<1>10. ev \in Event /\ Lone(ev)
    <2>1. <<>> \in Seq(Ids) OBVIOUS
    <2>2. t \in AllTypes BY DEF AllTypes
    <2> QED BY <1>7, <2>1, <2>2 DEF Event, Lone
<1>11. Head(cmds) = SetIt
    <2>1. cmds \in Seq(Cmd) /\ Len(cmds) \in {4, 5} /\ cmds[1] = SetIt BY <1>8, <1>10, CreateIs
    <2> QED BY <2>1
<1>12. Len(ids) <= 1
    <2>1. fails \in {0, 1}
        <3>1. \A m \in {0, 1} : \A n \in 0 .. m : n \in {0, 1} OBVIOUS
        <3> QED BY <3>1, OperationsAre
    <2> QED BY <1>4, <1>9, <2>1
<1> DEFINE g == [Resting EXCEPT !.pc = "pipe", !.op = "create", !.on = new,
                                !.ev = ev, !.cmds = cmds, !.ids = ids]
<1>13. act' = [act EXCEPT ![a] = g] BY <1>4, <1>6, <1>7, <1>8, <1>9
<1>14. g.pc = "pipe" /\ g.op = "create" /\ g.on = new /\ g.ev = ev /\ g.cmds = cmds /\ g.ids = ids
    BY DEF Resting
<1> HIDE DEF g
<1>15. Starts(g, store, jobs) BY <1>5, <1>10, <1>12, <1>14 DEF Starts
<1>16. Fits(g, store, jobs, gone) BY <1>5, <1>11, <1>14, <1>15 DEF Fits
<1>17. act[a].op # "fail" /\ \A p, c : ~Excuses(act[a], p, c) BY <1>3, NoExcuse
<1> QED BY <1>1, <1>2, <1>5, <1>13, <1>14, <1>16, <1>17, QuietStep

LEMMA ChildKeepsFamilies ==
    ASSUME Base, FamiliesAlone, Families, CreateChild
    PROVE  Families'
<1> DEFINE h == act[Worker]
<1>1. Worker \in Actors /\ h \in Act /\ Shape(h) /\ Placed(h, Seen) BY ActorIs DEF Actors
<1>2. /\ h.pc = "child" /\ Mint
      /\ UNCHANGED <<store, index, jobs, memory, spent, requests, gone, loose, copied>>
    BY DEF CreateChild
<1>3. h.op = "fail" /\ h.ids \in Seq(Ids) /\ Members(h.ids) \subseteq Seen
    BY <1>1, <1>2 DEF Shape, Act, Placed, Making
<1>4. PICK new \in Ids : new = minted + 1 BY <1>2, NewIs
<1>5. store[new] = Nothing /\ new \notin gone /\ \A i \in Seen : i < new BY <1>2, <1>4, NewIsNew
<1>6. Fails(h, store, jobs) BY <1>1, <1>3 DEF Families, Fits
<1>7. PICK ev : ev = [type |-> IF h.ids = <<>> THEN ErrorType ELSE AlertType,
                      channel |-> NoChannel, parent |-> Head(jobs), children |-> <<>>]
    OBVIOUS
<1>8. PICK cmds : cmds = CreateCommands(ev) OBVIOUS
<1>9. PICK ids : ids = Append(h.ids, new) OBVIOUS
<1>10. ev \in Event /\ ev.parent = Head(jobs) /\ ev.children = <<>>
    <2>1. <<>> \in Seq(Ids) OBVIOUS
    <2>2. jobs # <<>> /\ jobs \in Seq(Ids) BY <1>3, DataIs DEF Base, Working
    <2>3. Head(jobs) \in Ids BY <2>2
    <2> QED BY <1>7, <2>1, <2>3 DEF Event, AllTypes
<1>11. Head(cmds) = SetIt
    <2>1. cmds \in Seq(Cmd) /\ Len(cmds) \in {4, 5} /\ cmds[1] = SetIt BY <1>8, <1>10, CreateIs
    <2> QED BY <2>1
<1>12. Members(ids) = Members(h.ids) \union {new} BY <1>3, <1>9, AppendOf
<1>13. Rises(ids) BY <1>3, <1>5, <1>6, <1>9, AppendRises DEF Fails
<1> DEFINE g == [h EXCEPT !.pc = "pipe", !.on = new, !.ev = ev, !.cmds = cmds, !.ids = ids]
<1>14. act' = [act EXCEPT ![Worker] = g] BY <1>4, <1>7, <1>8, <1>9 DEF CreateChild
<1>15. g.pc = "pipe" /\ g.op = "fail" /\ g.on = new /\ g.ev = ev /\ g.cmds = cmds /\ g.ids = ids
    BY <1>1, <1>3 DEF Act
<1> HIDE DEF g
<1>16. ASSUME NEW c \in Members(ids) PROVE Child(store, c, Head(jobs)) \/ c = new
    BY <1>2, <1>6, <1>12, <1>16 DEF Fails
<1>17. Fails(g, store, jobs) BY <1>10, <1>11, <1>12, <1>13, <1>15, <1>16 DEF Fails
<1>18. Fits(g, store, jobs, gone) BY <1>5, <1>11, <1>15, <1>17 DEF Fits
<1> QED BY <1>1, <1>2, <1>3, <1>12, <1>14, <1>15, <1>18, NoExcuse, QuietStep

\* The first command of a creation has not been run before.
LEMMA SetKeepsFamilies ==
    ASSUME Base, Solo, FamiliesAlone, Families, NEW a \in Actors, Making(act[a]),
           NEW i \in Ids, i = act[a].on, NEW ev \in Event, ev = act[a].ev,
           Head(act[a].cmds) = SetIt,
           NEW g, act' = [act EXCEPT ![a] = g], g.pc = "pipe", g.op = act[a].op, g.on = i, g.ev = ev,
           g.ids = act[a].ids, Head(g.cmds) # SetIt,
           store' = [store EXCEPT ![i] = ev], UNCHANGED <<jobs, memory, gone>>
    PROVE  Families'
<1> DEFINE h == act[a]
<1>1. act'[a] = g /\ \A b \in Actors \ {a} : act'[b] = act[b] BY OthersStay
<1>2. h.pc = "pipe" /\ h.op \in {"create", "fail"} BY DEF Making
<1>3. Fits(h, store, jobs, gone) BY DEF Families
<1>4. store[i] = Nothing /\ i \notin gone BY <1>3 DEF Fits
<1>5. /\ store'[i] = ev /\ ev # Nothing /\ \A k \in Ids : k # i => store'[k] = store[k]
    BY DataIs, NothingAssumption
<1>6. i \notin Members(jobs) BY <1>4 DEF Families, Queue, Stored
<1>7. ev.children = <<>> /\ Members(<<>>) = {} /\ Rises(<<>>)
      /\ (h.op = "create" => ev.parent = 0) /\ (h.op = "fail" => ev.parent = Head(jobs) /\ i \in Members(h.ids))
    BY <1>2, <1>3 DEF Fits, Starts, Fails, Lone, Members, Rises
<1>8. \A b \in Clients : \A p, c : ~Excuses(act[b], p, c)
    <2>1. h.op = "fail" => \A b \in Actors : b # a => act[b] = Resting BY AloneHere
    <2>2. h.op = "create" => \A b \in Actors : act[b].op # "delete" BY <1>2, NobodyAlone
    <2> QED BY <1>2, <2>1, <2>2, NoExcuse, OperationsAre
<1>9. \A c \in Ids : Child(store, c, h.ev.parent) => Child(store', c, h.ev.parent)
    BY <1>4, <1>5 DEF Child
<1>10. Fits(g, store', jobs, gone)
    <2>1. h.op = "create" => Starts(g, store', jobs)
        BY <1>3, <1>5, <1>7 DEF Fits, Starts, Lone
    <2>2. ASSUME h.op = "fail" PROVE Fails(g, store', jobs)
        <3>1. Fails(h, store, jobs) BY <1>3, <2>2 DEF Fits
        <3>2. ASSUME NEW c \in Members(h.ids) PROVE Child(store', c, Head(jobs))
            <4>1. CASE c = i BY <1>5, <1>7, <2>2, <4>1 DEF Child
            <4>2. CASE c # i
                <5>1. Child(store, c, Head(jobs)) BY <3>1, <4>2 DEF Fails
                <5>2. h.ids \in Seq(Ids) BY ActorIs DEF Act
                <5>3. c \in Ids BY <5>2, MembersOf
                <5> QED BY <1>2, <1>7, <1>9, <2>2, <5>1, <5>3
            <4> QED BY <4>1, <4>2
        <3> QED BY <1>2, <3>1, <3>2 DEF Fails
    <2> QED BY <1>2, <1>4, <1>5, <2>1, <2>2 DEF Fits, Making
<1>11. ASSUME NEW b \in Actors PROVE Fits(act'[b], store', jobs, gone)
    <2>1. CASE b = a BY <1>1, <1>10, <2>1
    <2>2. CASE b # a /\ act[b] = Resting BY <1>1, <2>2, NoExcuse
    <2>3. CASE b # a /\ act[b] # Resting
        <3>1. act'[b] = act[b] BY <1>1, <2>3
        <3>2. h.op = "create" BY <1>2, <2>3, AloneHere
        <3>3. act[b].op \notin {"delete", "fail"} BY <1>2, <3>2, NobodyAlone
        <3>4. Fits(act[b], store, jobs, gone) BY DEF Families
        <3>5. act[b] \in Act /\ Shape(act[b]) BY ActorIs
        <3>6. act[b].op = "create" => act[b].on # i BY <2>3, <3>2 DEF Families, Distinct
        <3>7. act[b].on \in Ids => (store'[act[b].on] = store[act[b].on] \/ act[b].on = i) BY <1>5
        <3>8. ASSUME act[b].op = "create" PROVE Starts(act[b], store', jobs)
            <4>1. act[b].on \in Ids BY <3>5, <3>8 DEF Shape, Act, Steps, Resting
            <4> QED BY <3>4, <3>6, <3>7, <3>8, <4>1 DEF Fits, Starts
        <3>9. ASSUME Making(act[b]) PROVE act[b].on \in Ids /\ act[b].op = "create"
            BY <3>3, <3>5, <3>9 DEF Shape, Act, Making
        <3>10. ASSUME act[b].pc = "patchSet" PROVE act[b].on \in Ids /\ act[b].on # i
            BY <1>4, <3>4, <3>5, <3>10 DEF Shape, Act, Fits
        <3> QED BY <3>1, <3>3, <3>4, <3>6, <3>7, <3>8, <3>9, <3>10 DEF Fits
    <2> QED BY <2>1, <2>2, <2>3
<1>12. ASSUME NEW p \in Ids, store'[p] # Nothing, NEW c \in Members(store'[p].children)
       PROVE  Child(store', c, p)
    <2>1. p # i BY <1>5, <1>7, <1>12
    <2>2. store'[p] = store[p] BY <1>5, <2>1
    <2>3. Child(store, c, p) BY <1>8, <1>12, <2>2 DEF Families, Listed, Stored
    <2>4. c \in Ids BY <1>12, <2>2, ParentsAre DEF Stored
    <2> QED BY <1>4, <1>5, <2>3, <2>4 DEF Child
<1>13. ASSUME NEW c \in Ids, NEW p \in Ids, Child(store', c, p)
       PROVE  /\ store'[p] # Nothing /\ store'[p].parent = 0
              /\ \/ c \in Members(store'[p].children)
                 \/ act'[Worker].op = "fail" /\ p = Head(jobs) /\ c \in Members(act'[Worker].ids)
    <2>1. Worker \in Actors BY OperationsAre
    <2>2. CASE c = i
        <3>1. h.op = "fail" /\ p = Head(jobs) /\ i \in Members(h.ids)
            BY <1>2, <1>5, <1>7, <1>13, <2>2, ParentsAre DEF Child
        <3>2. a = Worker BY <3>1, OperationsAre DEF Actors
        <3>3. p \in Members(jobs)
            <4>1. jobs # <<>> /\ jobs \in Seq(Ids) BY <3>1, <3>2, DataIs DEF Base, Working
            <4> QED BY <3>1, <4>1, TailOf
        <3>4. Stored(p) /\ store[p].parent = 0 /\ p # i BY <1>6, <3>3 DEF Families, Queue, Lone
        <3> QED BY <1>1, <1>5, <2>2, <3>1, <3>2, <3>4 DEF Stored
    <2>3. CASE c # i
        <3>1. Child(store, c, p) BY <1>5, <1>13, <2>3 DEF Child
        <3>2. /\ Stored(p) /\ store[p].parent = 0
              /\ \/ c \in Members(store[p].children)
                 \/ act[Worker].op = "fail" /\ p = Head(jobs) /\ c \in Members(act[Worker].ids)
            BY <3>1 DEF Families, Lists
        <3>3. store'[p] = store[p] BY <1>4, <1>5, <3>2 DEF Stored
        <3> QED BY <1>1, <2>1, <3>2, <3>3 DEF Stored
    <2> QED BY <2>2, <2>3
<1>14. Listed' BY <1>12 DEF Listed, Stored
<1>15. Lists' BY <1>13 DEF Lists, Stored
<1>16. Rising' BY <1>5, <1>7 DEF Families, Rising, Stored
<1>17. Dead' BY <1>4, <1>5, DataIs DEF Families, Dead, Stored, Base, TypeOK
<1>18. Queue'
    <2>1. \A k \in Members(jobs) : k \in Ids /\ k # i BY <1>6, DataIs, MembersOf
    <2> QED BY <1>5, <2>1 DEF Families, Queue, Stored
<1>19. Distinct' BY <1>1 DEF Families, Distinct
<1>20. \A b \in Actors : Fits(act'[b], store', jobs', gone') BY <1>11
<1> QED BY <1>14, <1>15, <1>16, <1>17, <1>18, <1>19, <1>20 DEF Families

\* Afterwards the event is stored: entered in an index, it may be a child.
LEMMA ZaddKeepsFamilies ==
    ASSUME Base, FamiliesAlone, Families, NEW a \in Actors, Making(act[a]),
           Head(act[a].cmds) # SetIt,
           NEW g, act' = [act EXCEPT ![a] = g], g.op = act[a].op, g.on = act[a].on, g.ev = act[a].ev,
           g.ids = act[a].ids, g.pc = "pipe" => Head(g.cmds) # SetIt,
           g.pc \in {"pipe", "created", "child", "update"},
           UNCHANGED <<store, jobs, memory, gone>>
    PROVE  Families'
<1> DEFINE h == act[a]
<1>1. h.pc = "pipe" /\ h.op \in {"create", "fail"} BY DEF Making
<1>2. Fits(h, store, jobs, gone) BY DEF Families
<1>3. store[h.on] # Nothing /\ h.on \notin gone BY <1>2 DEF Fits
<1>4. h.op = "create" => Starts(g, store, jobs) BY <1>2, <1>3 DEF Fits, Starts
<1>5. h.op = "fail" => Fails(g, store, jobs) BY <1>1, <1>2 DEF Fits, Fails
<1>6. Fits(g, store, jobs, gone) BY <1>1, <1>3, <1>4, <1>5 DEF Fits, Making
<1>7. \A p, c : ~Excuses(h, p, c) BY <1>1, NoExcuse
<1>8. g.op = "create" => \A b \in Actors \ {a} : act[b].op = "create" => act[b].on # g.on
    BY DEF Families, Distinct
<1> QED BY <1>1, <1>6, <1>7, <1>8, QuietStep

\* A command of a deletion: the key goes, and nobody else is at work.
LEMMA RemovalKeepsFamilies ==
    ASSUME Base, Solo, FamiliesAlone, Families, Calm, Erased, NEW a \in Actors, Deleting(act[a]),
           NEW i \in Ids, i = act[a].on,
           NEW g, act' = [act EXCEPT ![a] = g], g.op = act[a].op, g.on = i, g.ev = act[a].ev,
           g.ids = act[a].ids,
           g.pc = "pipe" \/ g.pc = (IF act[a].ids # <<>> THEN "erase"
                                    ELSE IF act[a].ev.parent # 0 THEN "unlinkGet" ELSE "finish"),
           store'[i] \in {store[i], Nothing}, \A k \in Ids : k # i => store'[k] = store[k],
           g.pc # "pipe" => store'[i] = Nothing,
           UNCHANGED <<jobs, memory>>,
           gone' = IF g.pc = "pipe" THEN gone ELSE gone \union {i}
    PROVE  Families'
<1> DEFINE h == act[a]
           par == h.ev.parent
<1>1. act'[a] = g /\ \A b \in Actors \ {a} : act'[b] = act[b] BY OthersStay
<1>2. h \in Act /\ Shape(h) /\ h.pc = "pipe" /\ h.op = "delete" BY ActorIs, OperationsAre DEF Deleting
<1>3. h.ev \in Event /\ par \in {0} \union Ids /\ h.ids \in Seq(Ids) BY <1>2 DEF Shape, Act, Event
<1>4. /\ a # Worker /\ a \in Clients /\ Worker \in Actors
      /\ \A b \in Actors : b # a => act[b] = Resting /\ act'[b] = Resting
      /\ jobs = <<>>
    <2>1. a # Worker /\ a \in Clients /\ Worker \in Actors BY <1>2, OperationsAre DEF Actors
    <2>2. \A b \in Actors : b # a => act[b] = Resting BY <1>2, AloneHere
    <2>3. Erases(h) BY <1>2 DEF Erases
    <2> QED BY <1>1, <2>1, <2>2, <2>3 DEF Calm
<1>5. Cascade(h, store) /\ (par # 0 => Removal(h, store)) BY <1>2 DEF Families, Fits
<1>6. /\ Apart(h.ids) /\ i \notin Members(h.ids) /\ Members(h.ids) \subseteq Ids
      /\ Doomed(h) = Members(h.ids) \union {i}
      /\ \A c \in Members(h.ids) : store[c] # Nothing
      /\ \A c \in Doomed(h) : store[c] # Nothing =>
            store[c].parent = IF c = Target(h) THEN par ELSE Target(h)
      /\ \A c \in Ids : \A p \in Doomed(h) : Child(store, c, p) => p = Target(h) /\ c \in Doomed(h) \ {p}
    BY <1>2, <1>3, <1>5, MembersOf DEF Cascade, Doomed
<1>7. Target(h) \in Ids /\ Target(g) = Target(h) /\ (h.ids = <<>> => Target(h) = i)
      /\ (h.ids # <<>> => Target(h) \in Members(h.ids) /\ Target(h) # i)
    <2>1. h.ids # <<>> => Last(h.ids) \in Members(h.ids)
        <3>1. Len(h.ids) \in Nat /\ (h.ids # <<>> => Len(h.ids) \in 1 .. Len(h.ids)) BY <1>3
        <3> QED BY <1>3, <3>1, MembersOf DEF Last
    <2> QED BY <1>3, <1>6, <2>1, MembersOf DEF Target
<1>8. par # 0 => /\ h.ids = <<>> /\ par \in Ids /\ store[par] # Nothing /\ Target(h) = i /\ g.pc \in {"pipe", "unlinkGet"}
                 /\ \A c \in Ids : Child(store, c, par) => c <= i
    BY <1>2, <1>3, <1>5, <1>7 DEF Removal
<1>9. par # 0 /\ store[i] # Nothing => par # i
    <2> SUFFICES ASSUME par # 0, store[i] # Nothing PROVE par # i OBVIOUS
    <2>1. Child(store, i, par) BY <1>6, <1>8 DEF Child
    <2> QED BY <1>8, <2>1, ParentsAre
<1>10. par # 0 => store'[par] # Nothing BY <1>8, <1>9
<1>11. \A c, p \in Ids : Child(store', c, p) => Child(store, c, p) BY DEF Child
<1>12. ASSUME NEW c \in Ids, Child(store, c, i) PROVE FALSE
    <2>1. i = Target(h) /\ c \in Members(h.ids) BY <1>6, <1>12
    <2>2. Members(<<>>) = {} BY DEF Members
    <2> QED BY <1>7, <2>1, <2>2
<1>13. Doomed(g) = IF g.pc = "pipe" THEN Doomed(h) ELSE Members(h.ids) BY <1>6 DEF Doomed
<1>14. ASSUME g.pc \in {"pipe", "erase"} PROVE Cascade(g, store')
    <2>1. \A c \in Members(h.ids) : store'[c] # Nothing BY <1>6
    <2>2. \A c \in Doomed(g) : c \in Doomed(h) /\ c \in Ids BY <1>6, <1>13
    <2>3. \A c \in Doomed(g) : store'[c] # Nothing =>
             store'[c].parent = IF c = Target(g) THEN par ELSE Target(g)
        BY <1>6, <1>7, <2>2
    <2>4. ASSUME NEW c \in Ids, NEW p \in Doomed(g), Child(store', c, p)
          PROVE  p = Target(g) /\ c \in Doomed(g) \ {p}
        <3>1. p = Target(h) /\ c \in Doomed(h) \ {p} BY <1>6, <1>11, <2>2, <2>4
        <3>2. g.pc # "pipe" => c # i BY <2>4 DEF Child
        <3> QED BY <1>6, <1>7, <1>13, <3>1, <3>2
    <2> QED BY <1>6, <2>1, <2>3, <2>4 DEF Cascade
<1>15. ASSUME par # 0 PROVE Removal(g, store')
    BY <1>7, <1>8, <1>10, <1>11, <1>15 DEF Removal
<1>16. Fits(g, store', jobs, gone') BY <1>2, <1>8, <1>14, <1>15 DEF Fits, Making
<1>17. \A b \in Actors : Fits(act'[b], store', jobs', gone') BY <1>1, <1>4, <1>16, NoExcuse
<1>18. Listed'
    <2> SUFFICES ASSUME NEW p \in Ids, store'[p] # Nothing, NEW c \in Members(store'[p].children)
                 PROVE  Child(store', c, p) \/ \E b \in Clients : Excuses(act'[b], p, c)
        BY DEF Listed, Stored
    <2>1. store'[p] = store[p] /\ (g.pc # "pipe" => p # i) OBVIOUS
    <2>2. c \in Ids BY <2>1, ParentsAre DEF Stored
    <2>3. Child(store, c, p) \/ Excuses(h, p, c)
        <3>1. Child(store, c, p) \/ \E b \in Clients : Excuses(act[b], p, c)
            BY <2>1 DEF Families, Listed, Stored
        <3> QED BY <1>4, <3>1, NoExcuse, OperationsAre
    <2>4. CASE Excuses(h, p, c)
        <3>1. \/ par = 0 /\ p = Target(h)
              \/ par = p /\ c = i
            BY <1>2, <2>4 DEF Excuses
        <3>2. CASE par = 0 /\ p = Target(h)
            <4>1. g.pc \in {"pipe", "erase"} BY <1>7, <2>1, <3>2
            <4> QED BY <1>1, <1>2, <1>4, <1>7, <3>2, <4>1 DEF Excuses
        <3>3. CASE par = p /\ c = i
            <4>1. par # 0 BY <3>3, ParentsAre
            <4> QED BY <1>1, <1>2, <1>4, <1>8, <3>3, <4>1 DEF Excuses
        <3> QED BY <3>1, <3>2, <3>3
    <2>5. CASE Child(store, c, p) /\ (c # i \/ store'[i] = store[i])
        <3>1. store'[c] = store[c] BY <2>2, <2>5
        <3> QED BY <2>5, <3>1 DEF Child
    <2>6. CASE Child(store, c, p) /\ c = i
        <3>1. store[i] # Nothing /\ p = (IF i = Target(h) THEN par ELSE Target(h))
            BY <1>6, <2>6 DEF Child
        <3>2. CASE i = Target(h)
            <4>1. p = par /\ par # 0 BY <3>1, <3>2, ParentsAre
            <4> QED BY <1>1, <1>2, <1>4, <1>8, <2>6, <4>1 DEF Excuses
        <3>3. CASE i # Target(h)
            <4>1. par = 0 /\ p = Target(h) /\ h.ids # <<>> BY <1>7, <1>8, <3>1, <3>3
            <4> QED BY <1>1, <1>2, <1>4, <1>7, <4>1 DEF Excuses
        <3> QED BY <3>2, <3>3
    <2> QED BY <2>3, <2>4, <2>5, <2>6
<1>19. Lists'
    <2> SUFFICES ASSUME NEW c \in Ids, NEW p \in Ids, Child(store', c, p)
                 PROVE  store'[p] # Nothing /\ store'[p].parent = 0 /\ c \in Members(store'[p].children)
        BY DEF Lists, Stored
    <2>1. Child(store, c, p) /\ p # i BY <1>11, <1>12
    <2>2. act[Worker].op # "fail" BY <1>4, NoExcuse
    <2> QED BY <2>1, <2>2, ParentsAre DEF Stored
<1>20. Rising' BY DEF Families, Rising, Stored
<1>21. Dead'
    <2>1. gone \subseteq Ids BY IdsAre DEF Base, Kept
    <2>2. \A k \in gone : store[k] = Nothing BY DEF Families, Dead, Stored
    <2>3. ASSUME NEW k \in gone' PROVE store'[k] = Nothing
        <3>1. k \in gone \/ (k = i /\ g.pc # "pipe") BY <2>3
        <3> QED BY <2>1, <2>2, <3>1
    <2> QED BY <2>3 DEF Dead, Stored
<1>22. Queue'
    <2>1. Members(<<>>) = {} /\ Apart(<<>>) BY DEF Members, Apart
    <2> QED BY <1>4, <2>1 DEF Queue
<1>23. Distinct' BY <1>1, <1>2, <1>4, NoExcuse DEF Distinct
<1> QED BY <1>17, <1>18, <1>19, <1>20, <1>21, <1>22, <1>23 DEF Families

\* The key is set by the first command of a creation only.
LEMMA SetOnce ==
    ASSUME NEW h \in Act, Shape(h), Making(h), Len(h.cmds) < Len(CreateCommands(h.ev))
    PROVE  Head(h.cmds) # SetIt
<1>1. \A n : SetIt # ZaddTo(n) BY DEF SetIt, ZaddTo
<1>2. \/ Len(h.cmds) = Len(CreateCommands(h.ev))
      \/ \E n \in Names(h.ev) : Head(h.cmds) = ZaddTo(n)
    BY MakingIs
<1>3. Len(h.cmds) \in Nat /\ Len(CreateCommands(h.ev)) \in Nat BY MakingIs
<1> QED BY <1>1, <1>2, <1>3

LEMMA CommandKeepsFamilies ==
    ASSUME Base, Solo, FamiliesAlone, Families, Calm, Erased, NEW a \in Actors, Command(a)
    PROVE  Families'
<1> DEFINE h == act[a]
           c == Head(h.cmds)
<1>0. PICK i \in Ids : i = h.on BY CommandTurns
<1>00. PICK g : g = After(a) OBVIOUS
<1>1. h \in Act /\ Shape(h) /\ h.pc = "pipe" BY ActorIs, CommandTurns
<1>2. /\ act' = [act EXCEPT ![a] = g] /\ g.on = i /\ g.op = h.op /\ g.ev = h.ev /\ g.ids = h.ids
      /\ g.cmds = Tail(h.cmds) /\ g \in Act /\ Shape(g)
      /\ g.pc \in {"pipe", "created", "child", "update", "erase", "unlinkGet", "finish", "next"}
      /\ Len(h.cmds) = 1 <=> g.pc # "pipe"
      /\ Unseen(h) => Making(g)
    BY <1>0, <1>00, CommandTurns DEF Turns
<1>3. g.pc = IF Len(h.cmds) = 1 THEN AfterPipe(a) ELSE "pipe" BY <1>1, <1>00 DEF After, Act
<1>4. /\ c.do \in {"set", "del", "zadd", "zrem"}
      /\ c.do = "set" => c = SetIt /\ Making(h) /\ Unseen(h) /\ h.ev \in Event /\ store' = [store EXCEPT ![i] = h.ev]
      /\ c.do = "del" => c = DelIt /\ Deleting(h) /\ store' = [store EXCEPT ![i] = Nothing]
      /\ c.do = "zadd" => store' = store /\ Making(h) /\ c = ZaddTo(c.name)
      /\ c.do = "zrem" => store' = store /\ Deleting(h) /\ c = ZremOf(c.name)
      /\ gone' = IF Len(h.cmds) = 1 /\ Deleting(h) THEN gone \union {i} ELSE gone
      /\ memory' = memory /\ jobs' = jobs
    BY <1>0, CommandWrites
<1>5. ~(Making(h) /\ Deleting(h)) /\ Members(h.cmds) = {c} \union Members(Tail(h.cmds))
      /\ (Len(h.cmds) = 1 => Members(Tail(h.cmds)) = {})
    BY <1>1, PipeIs
<1>6. \A n : SetIt # ZaddTo(n) /\ DelIt # ZremOf(n) BY DEF SetIt, ZaddTo, DelIt, ZremOf
<1>7. ASSUME Making(h), Making(g) PROVE Head(g.cmds) # SetIt
    <2>1. /\ Len(h.cmds) <= Len(CreateCommands(h.ev)) /\ Len(CreateCommands(h.ev)) \in Nat
        BY <1>1, <1>7, MakingIs
    <2>2. Len(Tail(h.cmds)) = Len(h.cmds) - 1 /\ Len(h.cmds) \in Nat
        BY <1>1, PipeIs, TailOf, MembersOf
    <2>3. Len(g.cmds) < Len(CreateCommands(g.ev)) BY <1>2, <2>1, <2>2
    <2> QED BY <1>2, <1>7, <2>3, SetOnce
<1>8. CASE c.do = "set"
    <2>1. Making(h) /\ Making(g) /\ g.pc = "pipe" /\ c = SetIt /\ h.ev \in Event
        BY <1>2, <1>4, <1>8 DEF Making
    <2>2. Head(g.cmds) # SetIt BY <1>7, <2>1
    <2>3. UNCHANGED <<jobs, memory, gone>> /\ store' = [store EXCEPT ![i] = h.ev]
        BY <1>4, <1>5, <1>8, <2>1
    <2>4. PICK ev \in Event : ev = h.ev BY <2>1
    <2>6. /\ a \in Actors /\ Making(h) /\ i = h.on /\ ev = h.ev /\ Head(h.cmds) = SetIt
          /\ act' = [act EXCEPT ![a] = g] /\ g.pc = "pipe" /\ g.op = h.op /\ g.on = i /\ g.ev = ev
          /\ g.ids = h.ids /\ Head(g.cmds) # SetIt
        BY <1>0, <1>2, <2>1, <2>2, <2>4
    <2>7. UNCHANGED <<jobs, memory, gone>> /\ store' = [store EXCEPT ![i] = ev] BY <2>3, <2>4
    <2> HIDE DEF c
    <2> QED BY <2>6, <2>7, SetKeepsFamilies
<1>9. CASE c.do = "zadd"
    <2>1. Making(h) /\ c # SetIt /\ UNCHANGED <<store, jobs, memory, gone>>
        BY <1>4, <1>5, <1>6, <1>9
    <2>2. g.pc = "pipe" => Head(g.cmds) # SetIt BY <1>2, <1>7, <2>1 DEF Making
    <2>3. g.pc \in {"pipe", "created", "child", "update"} BY <1>2, <2>1 DEF Making, Shape
    <2>4. /\ Head(h.cmds) # SetIt /\ act' = [act EXCEPT ![a] = g] /\ g.op = h.op /\ g.on = h.on
          /\ g.ev = h.ev /\ g.ids = h.ids
        BY <1>0, <1>2, <2>1
    <2> QED BY <2>1, <2>2, <2>3, <2>4, ZaddKeepsFamilies
<1>10. CASE c.do \in {"del", "zrem"}
    <2>1. Deleting(h) /\ h.op = "delete" BY <1>4, <1>10, OperationsAre
    <2>2. g.pc = "pipe" \/ g.pc = (IF h.ids # <<>> THEN "erase"
                                   ELSE IF h.ev.parent # 0 THEN "unlinkGet" ELSE "finish")
        BY <1>3, <2>1 DEF AfterPipe
    <2>3. store'[i] \in {store[i], Nothing} /\ \A k \in Ids : k # i => store'[k] = store[k]
        BY <1>4, <1>10, DataIs
    <2>4. ASSUME g.pc # "pipe" PROVE store'[i] = Nothing
        <3>1. store[i] = Nothing \/ DelIt = c BY <1>0, <1>2, <1>5, <2>1, <2>4 DEF Erased
        <3>2. CASE c.do = "del" BY <1>4, <3>2, DataIs
        <3>3. CASE c.do = "zrem" BY <1>4, <1>6, <3>1, <3>3
        <3> QED BY <1>10, <3>2, <3>3
    <2>5. gone' = IF g.pc = "pipe" THEN gone ELSE gone \union {i} BY <1>2, <1>4, <2>1
    <2>6. /\ act' = [act EXCEPT ![a] = g] /\ g.op = h.op /\ g.on = i /\ g.ev = h.ev /\ g.ids = h.ids
          /\ UNCHANGED <<jobs, memory>>
        BY <1>2, <1>4
    <2> QED BY <1>0, <2>1, <2>2, <2>3, <2>4, <2>5, <2>6, RemovalKeepsFamilies
<1> QED BY <1>4, <1>8, <1>9, <1>10

LEMMA CreatedKeepsFamilies ==
    ASSUME Base, Solo, FamiliesAlone, Families, NEW a \in Clients, Created(a)
    PROVE  Families'
<1> DEFINE h == act[a]
<1>1. a \in Actors /\ h \in Act /\ Shape(h) BY ActorIs DEF Actors
<1>2. h.pc = "created" BY DEF Created
<1>3. h.op = "create" /\ h.ids \in Seq(Ids) /\ Members(h.ids) \subseteq {h.on}
    BY <1>1, <1>2 DEF Shape, Act
<1>4. PICK i \in Ids : i = h.on BY <1>1, <1>2 DEF Shape, Act
<1>5. /\ act' = [act EXCEPT ![a] = Resting] /\ UNCHANGED <<store, gone>>
      /\ jobs' = jobs \o h.ids
      /\ memory' = IF h.ids = <<>> THEN memory ELSE [memory EXCEPT ![i] = h.ev]
    BY <1>4 DEF Created, Done
<1>6. act'[a] = Resting /\ \A b \in Actors \ {a} : act'[b] = act[b] BY <1>1, <1>5, OthersStay
<1>7. Starts(h, store, jobs) BY <1>1, <1>3 DEF Families, Fits
<1>8. /\ Lone(h.ev) /\ Len(h.ids) <= 1 /\ i \notin Members(jobs) /\ store[i] # Nothing /\ Lone(store[i])
    BY <1>2, <1>4, <1>7 DEF Starts
<1>9. Members(jobs') = Members(jobs) \union Members(h.ids) /\ Members(jobs) \subseteq Ids
    BY <1>3, <1>5, DataIs, JoinOf, MembersOf
<1>10. \A b \in Actors : act[b].op \notin {"delete", "fail"} BY <1>1, <1>2, <1>3, NobodyAlone
<1>11. \A b \in Actors : act'[b].op \notin {"delete", "fail"} BY <1>6, <1>10, NoExcuse
<1>12. ASSUME NEW b \in Actors PROVE Fits(act'[b], store, jobs', gone)
    <2>1. CASE b = a BY <1>6, <2>1, NoExcuse
    <2>2. CASE b # a
        <3>1. act'[b] = act[b] BY <1>6, <2>2
        <3>2. act[b].op = "create" => act[b].on # i BY <1>1, <1>3, <1>4, <2>2 DEF Families, Distinct
        <3>3. Fits(act[b], store, jobs, gone) BY DEF Families
        <3>4. act[b].op = "create" => Starts(act[b], store, jobs')
            BY <1>3, <1>4, <1>9, <3>2, <3>3 DEF Fits, Starts
        <3> QED BY <1>10, <3>1, <3>3, <3>4 DEF Fits
    <2> QED BY <2>1, <2>2
<1>13. \A b \in Clients : \A p, c : ~Excuses(act[b], p, c) BY <1>10, NoExcuse, OperationsAre
<1>14. Listed' BY <1>5, <1>13 DEF Families, Listed, Stored
<1>15. Lists'
    <2>1. Worker \in Actors BY OperationsAre
    <2> QED BY <1>5, <1>10, <2>1 DEF Families, Lists, Stored
<1>16. Rising' /\ Dead' BY <1>5 DEF Families, Rising, Dead, Stored
<1>17. Queue'
    <2>1. Apart(jobs')
        <3>1. Members(jobs) \intersect Members(h.ids) = {} BY <1>3, <1>4, <1>8
        <3> QED BY <1>3, <1>5, <1>8, <3>1, DataIs, JoinApart DEF Families, Queue
    <2>2. ASSUME NEW k \in Members(jobs') PROVE store[k] # Nothing /\ Lone(store[k]) /\ memory'[k].parent = 0
        <3>1. CASE k \in Members(jobs)
            <4>1. store[k] # Nothing /\ Lone(store[k]) /\ memory[k].parent = 0 /\ k # i
                BY <1>8, <3>1 DEF Families, Queue, Stored
            <4>2. memory'[k] = memory[k] BY <1>5, <1>9, <3>1, <4>1, DataIs
            <4> QED BY <4>1, <4>2
        <3>2. CASE k \in Members(h.ids)
            <4>1. Members(<<>>) = {} BY DEF Members
            <4>2. k = i /\ memory'[i] = h.ev BY <1>3, <1>4, <1>5, <3>2, <4>1, DataIs
            <4> QED BY <1>8, <4>2 DEF Lone
        <3> QED BY <1>9, <3>1, <3>2
    <2> QED BY <1>5, <2>1, <2>2 DEF Queue, Stored
<1>18. Distinct' BY <1>6, NoExcuse DEF Families, Distinct
<1>19. \A b \in Actors : Fits(act'[b], store', jobs', gone') BY <1>5, <1>12
<1> QED BY <1>14, <1>15, <1>16, <1>17, <1>18, <1>19 DEF Families

\* A write that leaves parents, children and what is stored as they are.
Resembles(S, T) == \A k \in Ids :
    /\ S[k] = Nothing <=> T[k] = Nothing
    /\ S[k] # Nothing => S[k].parent = T[k].parent /\ S[k].children = T[k].children

LEMMA PatchSetKeepsFamilies ==
    ASSUME Base, Solo, FamiliesAlone, Families, NEW a \in Clients, PatchSet(a)
    PROVE  Families'
<1> DEFINE h == act[a]
<1>1. a \in Actors /\ h \in Act /\ Shape(h) BY ActorIs DEF Actors
<1>2. h.pc = "patchSet" /\ h.op \in {"patch", "retype"} /\ h.on \in Ids BY <1>1 DEF PatchSet, Shape, Act
<1>3. PICK i \in Ids : i = h.on BY <1>2
<1>4. PICK ev \in Event : ev = h.ev BY <1>1, <1>2 DEF Shape, Act
<1>5. /\ act' = [act EXCEPT ![a] = Resting] /\ UNCHANGED <<jobs, memory, gone>>
      /\ store' = [store EXCEPT ![i] = ev]
    BY <1>3, <1>4 DEF PatchSet, Done
<1>6. act'[a] = Resting /\ \A b \in Actors \ {a} : act'[b] = act[b] BY <1>1, <1>5, OthersStay
<1>7. store[i] # Nothing /\ ev.parent = store[i].parent /\ ev.children = store[i].children
    BY <1>1, <1>2, <1>3, <1>4 DEF Families, Fits
<1>8. Resembles(store, store') BY <1>5, <1>7, DataIs, NothingAssumption DEF Resembles
<1>9. \A b \in Actors : act[b].op \notin {"delete", "fail"} BY <1>1, <1>2, NobodyAlone
<1>10. \A b \in Actors : act'[b].op \notin {"delete", "fail"} BY <1>6, <1>9, NoExcuse
<1>11. ASSUME NEW b \in Actors PROVE Fits(act'[b], store', jobs, gone)
    <2>1. CASE b = a BY <1>6, <2>1, NoExcuse
    <2>2. CASE b # a
        <3>1. act'[b] = act[b] BY <1>6, <2>2
        <3>2. PICK k : k = act[b] OBVIOUS
        <3>3. Fits(k, store, jobs, gone) /\ k \in Act /\ Shape(k) /\ k.op \notin {"delete", "fail"}
            BY <1>9, <3>2, ActorIs DEF Families
        <3>4. k.op = "create" \/ Making(k) \/ k.pc = "patchSet" => k.on \in Ids
            BY <3>3 DEF Act, Shape, Making, Steps, Resting
        <3>5. k.op = "create" => Starts(k, store', jobs)
            BY <1>8, <3>3, <3>4 DEF Fits, Starts, Lone, Resembles
        <3>6. Making(k) => k.on \notin gone /\ (store'[k.on] = Nothing <=> Head(k.cmds) = SetIt)
            BY <1>8, <3>3, <3>4 DEF Fits, Resembles
        <3>7. k.pc = "patchSet" => /\ store'[k.on] # Nothing /\ k.ev.parent = store'[k.on].parent
                                   /\ k.ev.children = store'[k.on].children
            BY <1>8, <3>3, <3>4 DEF Fits, Resembles
        <3> QED BY <3>1, <3>2, <3>3, <3>5, <3>6, <3>7 DEF Fits
    <2> QED BY <2>1, <2>2
<1>12. \A c, p \in Ids : Child(store', c, p) <=> Child(store, c, p) BY <1>8 DEF Child, Resembles
<1>13. Listed'
    <2> SUFFICES ASSUME NEW p \in Ids, store'[p] # Nothing, NEW c \in Members(store'[p].children)
                 PROVE  Child(store', c, p)
        BY DEF Listed, Stored
    <2>1. Stored(p) /\ c \in Members(store[p].children) BY <1>8 DEF Resembles, Stored
    <2>2. c \in Ids BY <2>1, ParentsAre
    <2>3. \A b \in Clients : ~Excuses(act[b], p, c) BY <1>9, NoExcuse, OperationsAre
    <2> QED BY <1>12, <2>1, <2>2, <2>3 DEF Families, Listed
<1>14. Lists'
    <2>1. act[Worker].op # "fail" BY <1>9, OperationsAre
    <2> QED BY <1>8, <1>12, <2>1, ParentsAre DEF Lists, Stored, Resembles
<1>15. Rising' BY <1>8 DEF Families, Rising, Stored, Resembles
<1>16. Dead'
    <2>1. gone \subseteq Ids BY IdsAre DEF Base, Kept
    <2> QED BY <1>5, <1>8, <2>1 DEF Families, Dead, Stored, Resembles
<1>17. Queue'
    <2>1. Members(jobs) \subseteq Ids BY DataIs, MembersOf
    <2> QED BY <1>5, <1>8, <2>1 DEF Families, Queue, Stored, Lone, Resembles
<1>18. Distinct' BY <1>6, NoExcuse DEF Families, Distinct
<1>19. \A b \in Actors : Fits(act'[b], store', jobs', gone') BY <1>5, <1>11
<1> QED BY <1>13, <1>14, <1>15, <1>16, <1>17, <1>18, <1>19 DEF Families

\* The parent lists its children again, without the deleted one.
LEMMA UnlinkSetKeepsFamilies ==
    ASSUME Base, Solo, FamiliesAlone, Families, Calm, NEW a \in Clients, UnlinkSet(a)
    PROVE  Families'
<1> DEFINE h == act[a]
<1>1. a \in Actors /\ h \in Act /\ Shape(h) BY ActorIs DEF Actors
<1>2. h.pc = "unlinkSet" /\ h.op = "delete" /\ h.on \in Ids BY <1>1 DEF UnlinkSet, Shape, Act
<1>3. PICK i \in Ids : i = h.on BY <1>2
<1>4. PICK ev \in Event : ev = h.ev BY <1>1, <1>2 DEF Shape, Act
<1>5. PICK g : g = [h EXCEPT !.pc = "finish"] OBVIOUS
<1>6. /\ act' = [act EXCEPT ![a] = g] /\ UNCHANGED <<jobs, memory, gone>>
      /\ store' = [store EXCEPT ![i] = ev]
    BY <1>3, <1>4, <1>5 DEF UnlinkSet, Goto
<1>7. g.pc = "finish" /\ g.op = "delete" BY <1>1, <1>2, <1>5 DEF Act
<1>8. act'[a] = g /\ \A b \in Actors \ {a} : act'[b] = act[b] BY <1>1, <1>6, OthersStay
<1>9. /\ store[i] # Nothing /\ ev.parent = store[i].parent /\ Rises(ev.children)
      /\ \A c \in Ids : c \in Members(ev.children) <=> Child(store, c, i)
    <2>1. Unlinks(h, store) BY <1>1, <1>2 DEF Families, Fits
    <2> QED BY <1>3, <1>4, <2>1 DEF Unlinks
<1>10. store'[i] = ev /\ ev # Nothing /\ \A k \in Ids : k # i => store'[k] = store[k]
    BY <1>6, DataIs, NothingAssumption
<1>11. /\ a # Worker /\ Worker \in Actors /\ jobs = <<>>
       /\ \A b \in Actors : b # a => act[b] = Resting /\ act'[b] = Resting
    <2>1. a # Worker /\ Worker \in Actors BY OperationsAre
    <2>2. \A b \in Actors : b # a => act[b] = Resting BY <1>1, <1>2, AloneHere
    <2>3. Erases(h) BY <1>2 DEF Erases
    <2> QED BY <1>1, <1>8, <2>1, <2>2, <2>3 DEF Calm
<1>12. \A c, p \in Ids : Child(store', c, p) <=> Child(store, c, p) BY <1>9, <1>10 DEF Child
<1>13. Members(ev.children) \subseteq Ids BY MembersOf DEF Event
<1>14. ~Making(g) /\ Fits(g, store', jobs', gone') BY <1>7 DEF Fits, Making
<1>15. \A b \in Actors : Fits(act'[b], store', jobs', gone') BY <1>8, <1>11, <1>14, NoExcuse
<1>16. Listed'
    <2> SUFFICES ASSUME NEW p \in Ids, store'[p] # Nothing, NEW c \in Members(store'[p].children)
                 PROVE  Child(store', c, p)
        BY DEF Listed, Stored
    <2>1. CASE p = i BY <1>9, <1>10, <1>12, <1>13, <2>1
    <2>2. CASE p # i
        <3>1. Stored(p) /\ c \in Members(store[p].children) BY <1>10, <2>2 DEF Stored
        <3>2. c \in Ids BY <3>1, ParentsAre
        <3>3. \A b \in Clients : ~Excuses(act[b], p, c)
            <4>1. ~Excuses(h, p, c) BY <1>2, <1>3, <2>2 DEF Excuses
            <4> QED BY <1>11, <4>1, NoExcuse, OperationsAre
        <3> QED BY <1>12, <3>1, <3>2, <3>3 DEF Families, Listed
    <2> QED BY <2>1, <2>2
<1>17. Lists'
    <2> SUFFICES ASSUME NEW c \in Ids, NEW p \in Ids, Child(store', c, p)
                 PROVE  store'[p] # Nothing /\ store'[p].parent = 0 /\ c \in Members(store'[p].children)
        BY DEF Lists, Stored
    <2>1. Child(store, c, p) /\ act[Worker].op # "fail" BY <1>11, <1>12, NoExcuse
    <2>2. Stored(p) /\ store[p].parent = 0 /\ c \in Members(store[p].children) BY <2>1, ParentsAre
    <2>3. CASE p = i BY <1>9, <1>10, <2>1, <2>2, <2>3
    <2>4. CASE p # i BY <1>10, <2>2, <2>4 DEF Stored
    <2> QED BY <2>3, <2>4
<1>18. Rising' BY <1>9, <1>10 DEF Families, Rising, Stored
<1>19. Dead'
    <2>1. gone \subseteq Ids BY IdsAre DEF Base, Kept
    <2> QED BY <1>6, <1>9, <1>10, <2>1 DEF Families, Dead, Stored
<1>20. Queue'
    <2>1. Members(<<>>) = {} /\ Apart(<<>>) BY DEF Members, Apart
    <2> QED BY <1>6, <1>11, <2>1 DEF Queue
<1>21. Distinct' BY <1>7, <1>8, <1>11, NoExcuse DEF Distinct
<1> QED BY <1>15, <1>16, <1>17, <1>18, <1>19, <1>20, <1>21 DEF Families

\* The parent lists the children that its handler made; it had none before.
LEMMA UpdateKeepsFamilies ==
    ASSUME Base, Solo, FamiliesAlone, Families, UpdateParent
    PROVE  Families'
<1> DEFINE h == act[Worker]
<1>1. Worker \in Actors /\ h \in Act /\ Shape(h) BY ActorIs DEF Actors
<1>2. h.pc = "update" /\ h.op = "fail" BY <1>1 DEF UpdateParent, Shape
<1>3. jobs # <<>> /\ jobs \in Seq(Ids) BY <1>2, DataIs DEF Base, Working
<1>4. PICK i \in Ids : i = Head(jobs) BY <1>3, TailOf
<1>5. PICK ids \in Seq(Ids) : ids = h.ids BY <1>1 DEF Act
<1>6. PICK ev : ev = [memory[i] EXCEPT !.children = ids] OBVIOUS
<1>7. /\ act' = [act EXCEPT ![Worker] = Resting] /\ gone' = gone /\ jobs' = Tail(jobs)
      /\ store' = [store EXCEPT ![i] = ev]
      /\ memory' = [memory EXCEPT ![i] = IF i \in Members(Tail(jobs)) THEN ev ELSE Nothing]
    BY <1>4, <1>5, <1>6 DEF UpdateParent, Done
<1>8. /\ Members(jobs) = {i} \union Members(Tail(jobs)) /\ i \notin Members(Tail(jobs))
      /\ Apart(Tail(jobs)) /\ Members(jobs) \subseteq Ids
    BY <1>3, <1>4, TailOf, TailApart, MembersOf DEF Families, Queue
<1>9. store[i] # Nothing /\ Lone(store[i]) /\ memory[i].parent = 0
    BY <1>8 DEF Families, Queue, Stored
<1>10. memory[i] \in Event
    <2>1. jobs[1] = i /\ 1 \in 1 .. Len(jobs) BY <1>3, <1>4, TailOf, MembersOf
    <2> QED BY <2>1, DataIs
<1>11. ev \in Event /\ ev.parent = 0 /\ ev.children = ids BY <1>6, <1>9, <1>10 DEF Event
<1>12. /\ store'[i] = ev /\ ev # Nothing
       /\ \A k \in Ids : k # i => store'[k] = store[k] /\ memory'[k] = memory[k]
    BY <1>7, <1>11, DataIs, NothingAssumption
<1>13. Rises(ids) /\ \A c \in Members(ids) : Child(store, c, i)
    BY <1>1, <1>2, <1>4, <1>5 DEF Families, Fits, Fails
<1>14. \A b \in Actors : act'[b] = Resting /\ (b # Worker => act[b] = Resting)
    <2>1. \A b \in Actors : b # Worker => act[b] = Resting BY <1>1, <1>2, AloneHere
    <2> QED BY <1>1, <1>7, <2>1, OthersStay
<1>15. \A c, p \in Ids : Child(store', c, p) <=> Child(store, c, p)
    BY <1>9, <1>11, <1>12, ParentsAre DEF Child, Lone
<1>16. Members(ids) \subseteq Ids BY MembersOf
<1>17. \A b \in Actors : Fits(act'[b], store', jobs', gone') BY <1>14, NoExcuse
<1>18. Listed'
    <2> SUFFICES ASSUME NEW p \in Ids, store'[p] # Nothing, NEW c \in Members(store'[p].children)
                 PROVE  Child(store', c, p)
        BY DEF Listed, Stored
    <2>1. CASE p = i BY <1>11, <1>12, <1>13, <1>15, <1>16, <2>1
    <2>2. CASE p # i
        <3>1. Stored(p) /\ c \in Members(store[p].children) BY <1>12, <2>2 DEF Stored
        <3>2. c \in Ids BY <3>1, ParentsAre
        <3>3. \A b \in Clients : ~Excuses(act[b], p, c) BY <1>14, NoExcuse, OperationsAre
        <3> QED BY <1>15, <3>1, <3>2, <3>3 DEF Families, Listed
    <2> QED BY <2>1, <2>2
<1>19. Lists'
    <2> SUFFICES ASSUME NEW c \in Ids, NEW p \in Ids, Child(store', c, p)
                 PROVE  store'[p] # Nothing /\ store'[p].parent = 0 /\ c \in Members(store'[p].children)
        BY DEF Lists, Stored
    <2>1. /\ Stored(p) /\ store[p].parent = 0
          /\ c \in Members(store[p].children) \/ (p = i /\ c \in Members(ids))
        BY <1>4, <1>5, <1>15 DEF Families, Lists
    <2>2. Members(<<>>) = {} BY DEF Members
    <2>3. CASE p = i BY <1>9, <1>11, <1>12, <2>1, <2>2, <2>3 DEF Lone
    <2>4. CASE p # i BY <1>12, <2>1, <2>4 DEF Stored
    <2> QED BY <2>3, <2>4
<1>20. Rising' BY <1>11, <1>12, <1>13 DEF Families, Rising, Stored
<1>21. Dead'
    <2>1. gone \subseteq Ids BY IdsAre DEF Base, Kept
    <2> QED BY <1>7, <1>9, <1>12, <2>1 DEF Families, Dead, Stored
<1>22. Queue' BY <1>7, <1>8, <1>12 DEF Families, Queue, Stored
<1>23. Distinct' BY <1>14, NoExcuse DEF Distinct
<1> QED BY <1>17, <1>18, <1>19, <1>20, <1>21, <1>22, <1>23 DEF Families

\* Requests but creations, and failing handlers, begin.
LEMMA RequestKeepsFamilies ==
    ASSUME Base, FamiliesAlone, Families, NEW a \in Clients, Delete(a) \/ Patch(a)
    PROVE  Families'
<1>1. a \in Actors BY DEF Actors
<1>2. PICK i, op, pc : /\ Request(a, op, [Resting EXCEPT !.pc = pc, !.on = i])
                       /\ \/ op = "delete" /\ pc = "get"
                          \/ op \in {"patch", "retype"} /\ pc = "patchGet"
    BY DEF Delete, Patch
<1>3. PICK g : g = [[Resting EXCEPT !.pc = pc, !.on = i] EXCEPT !.op = op] OBVIOUS
<1>4. g.pc = pc /\ g.op = op BY <1>3 DEF Resting
<1>5. /\ act' = [act EXCEPT ![a] = g] /\ UNCHANGED <<store, jobs, memory, gone>>
      /\ act[a].pc = "ready"
    BY <1>2, <1>3 DEF Request, MayBegin
<1>6. act[a] = Resting BY <1>1, <1>5, ActorIs DEF Shape
<1> QED BY <1>1, <1>2, <1>4, <1>5, <1>6, BeginKeepsFamilies

LEMMA FailKeepsFamilies ==
    ASSUME Base, FamiliesAlone, Families, Fail
    PROVE  Families'
<1>1. Worker \in Actors /\ act[Worker] = Resting BY ActorIs DEF Fail, MayBegin, Shape, Actors
<1>2. PICK g : g = [act[Worker] EXCEPT !.pc = "child", !.op = "fail"] OBVIOUS
<1>3. g.pc = "child" /\ g.op = "fail" /\ g.ids = <<>> BY <1>1, <1>2 DEF Resting
<1>4. act' = [act EXCEPT ![Worker] = g] /\ UNCHANGED <<store, jobs, memory, gone>>
    BY <1>2 DEF Fail, data
<1> QED BY <1>1, <1>3, <1>4, BeginKeepsFamilies

LEMMA StepKeepsFamilies ==
    ASSUME Base, Solo, FamiliesAlone, Calm, Erased, Families, [Next]_vars
    PROVE  Families'
<1>1. Worker \in Actors /\ Clients \subseteq Actors BY DEF Actors
<1>2. ASSUME NEW a \in Clients, Step(a) PROVE Families'
    <2>1. act[a] \in Act /\ Shape(act[a]) BY <1>1, ActorIs
    <2>2. CASE Finish(a)
        <3>1. act[a].op = "delete" /\ \A p, c : ~Excuses(act[a], p, c)
            BY <2>1, <2>2 DEF Finish, Shape, Excuses
        <3> QED BY <1>1, <2>2, <3>1, RestKeepsFamilies DEF Finish
    <2>3. ~Bulk(a) /\ ~Alerts(a) /\ ~Tool(a)
        BY DEF FamiliesAlone, Bulk, Alerts, Tool, Request, MayBegin
    <2>4. ~NextId(a) /\ ~ListDone(a)
        <3>1. act[a].op \notin {"bulk", "alerts", "tool"} BY <1>1, OperationsAre
        <3> QED BY <2>1, <3>1 DEF NextId, ListDone, Shape
    <2> QED BY <1>1, <1>2, <2>2, <2>3, <2>4, CreateKeepsFamilies, CreatedKeepsFamilies,
               CommandKeepsFamilies, RequestKeepsFamilies, GetKeepsFamilies, ParentKeepsFamilies,
               EraseKeepsFamilies, UnlinkGetKeepsFamilies, UnlinkSetKeepsFamilies,
               PatchGetKeepsFamilies, PatchSetKeepsFamilies DEF Step
<1>3. CASE WorkerStep
    BY <1>1, <1>3, FailKeepsFamilies, ChildKeepsFamilies, CommandKeepsFamilies,
       UpdateKeepsFamilies DEF WorkerStep
<1>4. ~ \E i \in Ids : Expire(i) BY OperationsAre DEF Expire
<1>5. CASE UNCHANGED vars
    BY <1>5 DEF vars, Families, Listed, Lists, Rising, Dead, Queue, Distinct, Stored
<1> QED BY <1>2, <1>3, <1>4, <1>5 DEF Next, Rest

LEMMA InitFamilies == Init => Families
<1> SUFFICES ASSUME Init PROVE Families OBVIOUS
<1>1. /\ Base /\ \A a \in Actors : act[a] = Resting BY InitBase
<1>2. \A i \in Ids : store[i] = Nothing BY DEF Init
<1>3. gone = {} /\ jobs = <<>> BY DEF Init
<1>4. Members(<<>>) = {} /\ Apart(<<>>) BY DEF Members, Apart
<1>5. Queue BY <1>3, <1>4 DEF Queue
<1>6. Distinct BY <1>1, NoExcuse DEF Distinct
<1>7. Listed /\ Lists /\ Rising /\ Dead BY <1>2, <1>3 DEF Listed, Lists, Rising, Dead, Stored, Child
<1> QED BY <1>1, <1>5, <1>6, <1>7, NoExcuse DEF Families

LEMMA FamiliesHold == ASSUME FamiliesAlone PROVE Spec => [](Base /\ Families)
<1>1. Base /\ Solo /\ Calm /\ Erased /\ Families /\ [Next]_vars => Calm' /\ Erased' /\ Families'
    BY OperationsAre, StepKeepsCalm, StepKeepsFamilies
<1> QED BY <1>1, InitCalm, InitFamilies, BaseAndListing, PTL DEF Spec

\* When DELETE requests and failing handlers meet no other operation, when nothing
\* is deleted in bulk, no key expires and no second handler fails on an event,
\* parents and children agree at rest: creations and patches may overlap, in any
\* number.
THEOREM FamiliesStayWhole == ASSUME FamiliesAlone PROVE Spec => []FamiliesAgree
<1>1. Base /\ Families => FamiliesAgree
    <2> SUFFICES ASSUME Base, Families, Quiet, NEW p \in Ids, Stored(p)
                 PROVE  /\ \A c \in Members(store[p].children) : Stored(c) /\ store[c].parent = p
                        /\ \A c \in Ids : Stored(c) /\ store[c].parent = p => c \in Members(store[p].children)
        BY DEF FamiliesAgree
    <2>1. \A a \in Actors : act[a] = Resting BY ActorIs DEF Quiet, Idle, Shape
    <2>2. act[Worker].op # "fail" /\ \A a \in Clients : ~ \E q, c : Excuses(act[a], q, c)
        BY <2>1, NoExcuse DEF Actors
    <2>3. \A c \in Members(store[p].children) : Child(store, c, p)
        BY <2>2 DEF Families, Listed
    <2>4. \A c \in Ids : Child(store, c, p) => c \in Members(store[p].children) BY <2>2, ParentsAre
    <2> QED BY <2>3, <2>4 DEF Child, Stored
<1> QED BY <1>1, FamiliesHold, PTL

\* Under the same conditions a child that a DELETE request removes has no younger
\* sibling in the store when its key goes: what was compared still holds.
THEOREM YoungestGoesFirst == ASSUME FamiliesAlone PROVE Spec => []LastChildOnly
<1>1. Base /\ Families => LastChildOnly
    <2> SUFFICES ASSUME Base, Families, NEW a \in Clients, act[a].pc = "pipe", act[a].op = "delete",
                        act[a].ev.parent # 0, NEW c \in Ids, Stored(c), store[c].parent = act[a].ev.parent
                 PROVE  c <= act[a].on
        BY DEF LastChildOnly
    <2>1. Removal(act[a], store) BY DEF Families, Fits, Actors
    <2>2. Target(act[a]) = act[a].on /\ Child(store, c, act[a].ev.parent)
        BY <2>1 DEF Removal, Target, Child, Stored
    <2> QED BY <2>1, <2>2 DEF Removal
<1> QED BY <1>1, FamiliesHold, PTL

\* No DELETE request stops half way.
NoneFails == \A a \in Clients : act[a].pc # "failed"

LEMMA EraseGoesOn ==
    ASSUME Base, Solo, FamiliesAlone, Families, NEW a \in Clients, Erase(a)
    PROVE  \E g : act' = [act EXCEPT ![a] = g] /\ g.pc # "failed"
<1> DEFINE h == act[a]
<1>1. a \in Actors /\ h \in Act /\ Shape(h) BY ActorIs DEF Actors
<1>2. h.pc = "erase" BY DEF Erase
<1>3. h.op = "delete" /\ h.ids # <<>> /\ h.ids \in Seq(Ids) BY <1>1, <1>2, OperationsAre DEF Shape, Act
<1>4. PICK i \in Ids : i = Head(h.ids) BY <1>3, TailOf
<1>5. i \in Members(h.ids) BY <1>3, <1>4, TailOf
<1>6. store[i] # Nothing BY <1>1, <1>2, <1>3, <1>5 DEF Families, Fits, Cascade
<1>7. PICK g : g = [h EXCEPT !.pc = "pipe", !.on = i, !.ids = Tail(h.ids), !.cmds = DeleteCommands(store[i])]
    OBVIOUS
<1>8. act' = [act EXCEPT ![a] = g] BY <1>4, <1>6, <1>7 DEF Erase
<1>9. g.pc = "pipe" BY <1>1, <1>7 DEF Act
<1> QED BY <1>8, <1>9

LEMMA StepKeepsNoneFails ==
    ASSUME Base, Solo, FamiliesAlone, Families, NoneFails, [Next]_vars
    PROVE  NoneFails'
<1>1. Worker \in Actors /\ Clients \subseteq Actors BY DEF Actors
<1>2. ASSUME NEW a \in Actors, NEW g, act' = [act EXCEPT ![a] = g], g.pc # "failed" PROVE NoneFails'
    BY <1>1, <1>2, OthersStay DEF NoneFails
<1>3. ASSUME NEW a \in Actors, NEW pc, Goto(a, pc), pc # "failed" PROVE NoneFails'
    <2>1. act[a] \in Act BY ActorIs
    <2>2. PICK g : g = [act[a] EXCEPT !.pc = pc] OBVIOUS
    <2>3. g.pc = pc /\ act' = [act EXCEPT ![a] = g] BY <1>3, <2>1, <2>2 DEF Act, Goto
    <2> QED BY <1>2, <1>3, <2>3
<1>4. ASSUME NEW a \in Actors, Done(a) PROVE NoneFails'
    BY <1>2, <1>4, NoExcuse DEF Done
<1>5. ASSUME NEW a \in Actors, Command(a) PROVE NoneFails'
    <2>1. PICK g : g = After(a) OBVIOUS
    <2>2. act' = [act EXCEPT ![a] = g] /\ g.pc # "failed" BY <1>5, <2>1, CommandTurns DEF Turns
    <2> QED BY <1>2, <2>2
<1>6. ASSUME NEW a \in Clients, Step(a) PROVE NoneFails'
    <2>1. act[a] \in Act /\ Shape(act[a]) /\ a \in Actors BY <1>1, ActorIs
    <2>2. CASE Create(a)
        <3>1. PICK ev, cmds, ids : act' = [act EXCEPT ![a] =
                  [Resting EXCEPT !.pc = "pipe", !.op = "create", !.on = minted + 1,
                                  !.ev = ev, !.cmds = cmds, !.ids = ids]]
            BY <2>2 DEF Create
        <3>2. PICK g : g = [Resting EXCEPT !.pc = "pipe", !.op = "create", !.on = minted + 1,
                                           !.ev = ev, !.cmds = cmds, !.ids = ids]
            OBVIOUS
        <3>3. g.pc = "pipe" BY <3>2 DEF Resting
        <3> QED BY <1>2, <2>1, <3>1, <3>2, <3>3
    <2>3. CASE Created(a) \/ PatchSet(a) \/ Finish(a)
        BY <1>4, <2>1, <2>3 DEF Created, PatchSet, Finish
    <2>4. CASE UnlinkSet(a) BY <1>3, <2>1, <2>4 DEF UnlinkSet
    <2>5. CASE Delete(a) \/ Patch(a)
        <3>1. PICK i, op, pc :
                 Request(a, op, [Resting EXCEPT !.pc = pc, !.on = i]) /\ pc \in {"get", "patchGet"}
            BY <2>5 DEF Delete, Patch
        <3>2. PICK g : g = [[Resting EXCEPT !.pc = pc, !.on = i] EXCEPT !.op = op] OBVIOUS
        <3>3. g.pc = pc /\ act' = [act EXCEPT ![a] = g] BY <3>1, <3>2 DEF Resting, Request
        <3> QED BY <1>2, <2>1, <3>1, <3>3
    <2>6. CASE GetTarget(a) /\ ~Done(a)
        <3>0. PICK ev, ids, pc : /\ ev = store[act[a].on] /\ ids = Append(ev.children, act[a].on)
                                 /\ pc = IF ev.parent # 0 THEN "getParent" ELSE "erase"
            OBVIOUS
        <3>1. /\ act' = [act EXCEPT ![a].ev = ev, ![a].ids = ids, ![a].pc = pc]
              /\ pc \in {"getParent", "erase"}
            BY <2>6, <3>0 DEF GetTarget
        <3>2. PICK g : g = [act[a] EXCEPT !.ev = ev, !.ids = ids, !.pc = pc] OBVIOUS
        <3>3. g.pc = pc BY <2>1, <3>2 DEF Act
        <3>4. act' = [act EXCEPT ![a] = g] BY <3>1, <3>2
        <3> QED BY <1>2, <2>1, <3>1, <3>3, <3>4
    <2>7. CASE GetParent(a) BY <1>3, <1>4, <2>1, <2>7 DEF GetParent
    <2>8. CASE Erase(a) BY <1>2, <2>1, <2>8, EraseGoesOn
    <2>9. CASE UnlinkGet(a) /\ ~Goto(a, "finish")
        <3>1. PICK on, ev : act' = [act EXCEPT ![a].pc = "unlinkSet", ![a].on = on, ![a].ev = ev]
            BY <2>9 DEF UnlinkGet
        <3>2. PICK g : g = [act[a] EXCEPT !.pc = "unlinkSet", !.on = on, !.ev = ev] OBVIOUS
        <3>3. g.pc = "unlinkSet" BY <2>1, <3>2 DEF Act
        <3>4. act' = [act EXCEPT ![a] = g] BY <3>1, <3>2
        <3> QED BY <1>2, <2>1, <3>3, <3>4
    <2>10. CASE PatchGet(a) /\ ~Done(a)
        <3>1. PICK ev : act' = [act EXCEPT ![a].pc = "patchSet", ![a].ev = ev] BY <2>10 DEF PatchGet
        <3>2. PICK g : g = [act[a] EXCEPT !.pc = "patchSet", !.ev = ev] OBVIOUS
        <3>3. g.pc = "patchSet" BY <2>1, <3>2 DEF Act
        <3>4. act' = [act EXCEPT ![a] = g] BY <3>1, <3>2
        <3> QED BY <1>2, <2>1, <3>3, <3>4
    <2>11. ~Bulk(a) /\ ~Alerts(a) /\ ~Tool(a)
        BY DEF FamiliesAlone, Bulk, Alerts, Tool, Request, MayBegin
    <2>12. ~NextId(a) /\ ~ListDone(a)
        <3>1. act[a].op \notin {"bulk", "alerts", "tool"} BY <2>1, OperationsAre
        <3> QED BY <2>1, <3>1 DEF NextId, ListDone, Shape
    <2> QED BY <1>3, <1>4, <1>5, <1>6, <2>1, <2>2, <2>3, <2>4, <2>5, <2>6, <2>7, <2>8, <2>9, <2>10,
               <2>11, <2>12 DEF Step
<1>7. CASE ~ \E a \in Clients : act'[a] # act[a] BY <1>7 DEF NoneFails
<1>8. CASE Fail \/ CreateChild \/ UpdateParent
    <2>1. act[Worker] \in Act /\ Worker \notin Clients BY <1>1, ActorIs, StoreAssumption
    <2>2. PICK g : act' = [act EXCEPT ![Worker] = g]
        BY <1>8 DEF Fail, CreateChild, UpdateParent, Done
    <2>3. \A b \in Actors \ {Worker} : act'[b] = act[b] BY <1>1, <2>2, OthersStay
    <2> QED BY <1>1, <1>7, <2>1, <2>3
<1>9. CASE UNCHANGED vars \/ \E i \in Ids : Expire(i) BY <1>7, <1>9 DEF vars, Expire
<1> QED BY <1>1, <1>5, <1>6, <1>8, <1>9 DEF Next, WorkerStep, Rest

\* Under the same conditions a cascade never stops half way, because a listed child
\* is missing, and no child of a deleted event is stored, at rest or not: only the
\* overlaps excluded here can make deleteEventByID fail there.
THEOREM CascadeIsComplete == ASSUME FamiliesAlone PROVE Spec => []CascadeComplete
<1>1. Init => NoneFails
    <2> SUFFICES ASSUME Init PROVE NoneFails OBVIOUS
    <2>1. \A a \in Actors : act[a] = Resting BY InitBase
    <2> QED BY <2>1, NoExcuse DEF NoneFails, Actors
<1>2. Base /\ Solo /\ Families /\ NoneFails /\ [Next]_vars => NoneFails' BY StepKeepsNoneFails
<1>3. Base /\ Families /\ NoneFails => CascadeComplete
    <2> SUFFICES ASSUME Base, Families, NEW c \in Ids, Stored(c), store[c].parent \in gone
                 PROVE  FALSE
        BY DEF CascadeComplete, NoneFails
    <2>1. store[c].parent \in Ids BY IdsAre DEF Base, Kept
    <2>2. Child(store, c, store[c].parent) BY DEF Child, Stored
    <2> QED BY <2>1, <2>2, ParentsAre DEF Families, Dead
<1> QED BY <1>1, <1>2, <1>3, FamiliesHold, BaseAndListing, PTL DEF Spec

=============================================================================
