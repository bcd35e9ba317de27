--------------------------- MODULE VoiceReplyProofs ---------------------------
(***************************************************************************)
(* Proofs about the voice reply, for channels of any capacity and replies  *)
(* of any length: sentences stay in order through three goroutines, and    *)
(* none slips behind the end of the reply.                                 *)
(***************************************************************************)
EXTENDS VoiceReply, TLAPS

Elements(s)  == {s[i] : i \in 1 .. Len(s)}
Rising(s)    == \A i, j \in 1 .. Len(s) : i < j => s[i] < s[j]
Before(A, B) == \A x \in A, y \in B : x < y
Held(k)      == {k} \ {0}

-----------------------------------------------------------------------------
(* Sequences that rise.                                                    *)

LEMMA EmptySequence == Elements(<<>>) = {} /\ Rising(<<>>)
BY DEF Elements, Rising

LEMMA AppendLast ==
    ASSUME NEW s \in Seq(Sentences), NEW e \in Sentences
    PROVE  /\ Append(s, e) \in Seq(Sentences) /\ Len(Append(s, e)) = Len(s) + 1
           /\ Elements(Append(s, e)) = Elements(s) \union {e}
           /\ Rising(s) /\ Before(Elements(s), {e}) => Rising(Append(s, e))
<1> DEFINE t == Append(s, e)
<1>1. /\ t \in Seq(Sentences) /\ Len(t) = Len(s) + 1 /\ Len(s) \in Nat
      /\ \A i \in 1 .. Len(s) : t[i] = s[i]
      /\ t[Len(s) + 1] = e
    OBVIOUS
<1> HIDE DEF t
<1>2. 1 .. Len(t) = (1 .. Len(s)) \union {Len(s) + 1} BY <1>1
<1>3. Elements(t) = Elements(s) \union {e} BY <1>1, <1>2 DEF Elements
<1>4. ASSUME Rising(s), Before(Elements(s), {e}) PROVE Rising(t)
    <2> SUFFICES ASSUME NEW i \in 1 .. Len(t), NEW j \in 1 .. Len(t), i < j
                 PROVE  t[i] < t[j]
        BY DEF Rising
    <2>1. i \in 1 .. Len(s) BY <1>1
    <2>2. CASE j \in 1 .. Len(s) BY <1>1, <1>4, <2>1, <2>2 DEF Rising
    <2>3. CASE j = Len(s) + 1
        <3>1. s[i] \in Elements(s) BY <2>1 DEF Elements
        <3> QED BY <1>1, <1>4, <2>1, <2>3, <3>1 DEF Before
    <2> QED BY <1>2, <2>2, <2>3
<1> QED BY <1>1, <1>3, <1>4 DEF t

LEMMA HeadFirst ==
    ASSUME NEW s \in Seq(Sentences), s # <<>>
    PROVE  /\ Tail(s) \in Seq(Sentences) /\ Len(Tail(s)) = Len(s) - 1 /\ Len(s) \in Nat
           /\ Head(s) \in Sentences
           /\ Elements(s) = {Head(s)} \union Elements(Tail(s))
           /\ Rising(s) => Rising(Tail(s)) /\ Before({Head(s)}, Elements(Tail(s)))
<1> DEFINE t == Tail(s)
<1>1. /\ t \in Seq(Sentences) /\ Len(t) = Len(s) - 1 /\ Len(s) \in Nat /\ Len(s) > 0
      /\ \A i \in 1 .. Len(t) : t[i] = s[i + 1]
      /\ Head(s) = s[1] /\ Head(s) \in Sentences
    OBVIOUS
<1> HIDE DEF t
<1>2. ASSUME NEW i \in 1 .. Len(s), i # 1 PROVE i - 1 \in 1 .. Len(t) /\ t[i - 1] = s[i]
    BY <1>1, <1>2
<1>3. ASSUME NEW i \in 1 .. Len(t) PROVE i + 1 \in 1 .. Len(s) /\ t[i] = s[i + 1]
    BY <1>1
<1>4. Elements(s) = {Head(s)} \union Elements(t)
    <2>1. Elements(s) \subseteq {Head(s)} \union Elements(t)
        BY <1>1, <1>2 DEF Elements
    <2>2. Elements(t) \subseteq Elements(s) BY <1>3 DEF Elements
    <2>3. Head(s) \in Elements(s) BY <1>1 DEF Elements
    <2> QED BY <2>1, <2>2, <2>3
<1>5. ASSUME Rising(s) PROVE Rising(t)
    <2> SUFFICES ASSUME NEW i \in 1 .. Len(t), NEW j \in 1 .. Len(t), i < j
                 PROVE  t[i] < t[j]
        BY DEF Rising
    <2>1. i + 1 \in 1 .. Len(s) /\ j + 1 \in 1 .. Len(s) /\ i + 1 < j + 1 BY <1>3
    <2>2. s[i + 1] < s[j + 1] BY <1>5, <2>1 DEF Rising
    <2> QED BY <1>3, <2>2
<1>6. ASSUME Rising(s) PROVE Before({Head(s)}, Elements(t))
    <2> SUFFICES ASSUME NEW i \in 1 .. Len(t) PROVE Head(s) < t[i]
        BY DEF Before, Elements
    <2>1. i + 1 \in 1 .. Len(s) /\ 1 \in 1 .. Len(s) /\ 1 < i + 1 BY <1>1, <1>3
    <2>2. s[1] < s[i + 1] BY <1>6, <2>1 DEF Rising
    <2> QED BY <1>1, <1>3, <2>2
<1> QED BY <1>1, <1>4, <1>5, <1>6 DEF t

-----------------------------------------------------------------------------
(* The invariant.                                                          *)

\* Where a sentence may be, in the order of the way it goes.
Heard    == Elements(heard)
AtPlayer == Held(playing)
ToPlay   == Elements(audio)
AtTts    == Held(speaking)
ToSpeak  == Elements(sentences)

\* Sends come before the close, and outside of a reply nothing is under way.
Phases ==
    /\ pc \in {"cut", "flush"} => said < MaxSentences
    /\ spoken => speaking # 0
    /\ closed => pc \in {"wait", "record", "idle", "engage"}
    /\ audioClosed => closed /\ sentences = <<>> /\ speaking = 0
    /\ pc \in {"idle", "engage", "record"} =>
          sentences = <<>> /\ speaking = 0 /\ audio = <<>> /\ playing = 0

\* Nobody overtakes.
Ordered ==
    /\ Rising(heard) /\ Rising(audio) /\ Rising(sentences)
    /\ Before(Heard, AtPlayer) /\ Before(Heard, ToPlay) /\ Before(Heard, AtTts)
    /\ Before(Heard, ToSpeak)
    /\ Before(AtPlayer, ToPlay) /\ Before(AtPlayer, AtTts) /\ Before(AtPlayer, ToSpeak)
    /\ Before(ToPlay, AtTts) /\ Before(ToPlay, ToSpeak)
    /\ Before(AtTts, ToSpeak)
    /\ Heard \union AtPlayer \union ToPlay \union AtTts \union ToSpeak \subseteq 1 .. said

\* What was said is somewhere, or given up.
Accounted == 1 .. said \subseteq lost \union Heard \union AtPlayer \union ToPlay \union AtTts \union ToSpeak

IInv == TypeOK /\ Phases /\ Ordered /\ Accounted

\* The parts of the way that a step leaves alone.
LEMMA SameWay ==
    ASSUME IInv, UNCHANGED <<said, sentences, speaking, audio, playing, heard, lost>>
    PROVE  Ordered' /\ Accounted'
BY DEF IInv, Ordered, Accounted, Heard, AtPlayer, ToPlay, AtTts, ToSpeak, Held

LEMMA SayKeeps ==
    ASSUME IInv, CutSend \/ Flush
    PROVE  IInv'
<1>1. PICK next \in {"stream", "close"} : Send(next) BY DEF CutSend, Flush
<1>2. said < MaxSentences /\ pc \in {"cut", "flush"} /\ ~closed /\ ~audioClosed
    BY DEF CutSend, Flush, IInv, Phases
<1>3. /\ said' = said + 1 /\ sentences' = Append(sentences, said + 1) /\ pc' = next
      /\ Len(sentences) < Capacity
      /\ UNCHANGED <<failed, recorded, turns, closed, worker, audio, playing, heard, lost>>
    BY <1>1 DEF Send
<1>4. said \in Nat /\ said + 1 \in Sentences /\ sentences \in Seq(Sentences)
    BY <1>2, VoiceAssumption DEF IInv, TypeOK, Sentences
<1>5. /\ sentences' \in Seq(Sentences) /\ Len(sentences') = Len(sentences) + 1
      /\ ToSpeak' = ToSpeak \union {said + 1}
      /\ Rising(sentences) /\ Before(ToSpeak, {said + 1}) => Rising(sentences')
    BY <1>3, <1>4, AppendLast DEF ToSpeak
<1>6. UNCHANGED <<Heard, AtPlayer, ToPlay, AtTts>>
    BY <1>3 DEF worker, Heard, AtPlayer, ToPlay, AtTts, Held
<1>7. 1 .. (said + 1) = (1 .. said) \union {said + 1} BY <1>4
<1>8. \A S \in SUBSET (1 .. said) : Before(S, {said + 1}) BY <1>4 DEF Before
<1>9. Ordered /\ Accounted BY DEF IInv
<1>10. Ordered'
    <2>1. Before(ToSpeak, {said + 1}) BY <1>8, <1>9 DEF Ordered
    <2>2. /\ Before(Heard, {said + 1}) /\ Before(AtPlayer, {said + 1})
          /\ Before(ToPlay, {said + 1}) /\ Before(AtTts, {said + 1})
        BY <1>8, <1>9 DEF Ordered
    <2>3. \A S : Before(S, ToSpeak) /\ Before(S, {said + 1}) => Before(S, ToSpeak')
        BY <1>5 DEF Before
    <2>4. Rising(heard') /\ Rising(audio') /\ Rising(sentences')
        BY <1>3, <1>5, <1>9, <2>1 DEF Ordered
    <2> QED BY <1>3, <1>5, <1>6, <1>7, <1>9, <2>2, <2>3, <2>4 DEF Ordered
<1>11. Accounted' BY <1>3, <1>5, <1>6, <1>7, <1>9 DEF Accounted
<1>12. TypeOK'
    <2>1. said' \in 0 .. MaxSentences BY <1>2, <1>3, <1>4, VoiceAssumption
    <2>2. Len(sentences') <= Capacity
        BY <1>3, <1>4, <1>5, VoiceAssumption
    <2> QED BY <1>3, <1>5, <2>1, <2>2 DEF IInv, TypeOK, worker
<1>13. Phases' BY <1>2, <1>3 DEF IInv, Phases, worker
<1> QED BY <1>10, <1>11, <1>12, <1>13 DEF IInv

LEMMA TakeKeeps ==
    ASSUME IInv, TtsTake
    PROVE  IInv'
<1>1. /\ speaking = 0 /\ sentences # <<>>
      /\ speaking' = Head(sentences) /\ sentences' = Tail(sentences)
      /\ UNCHANGED <<handler, closed, spoken, audioClosed, audio, playing, heard, lost>>
    BY DEF TtsTake
<1>2. sentences \in Seq(Sentences) /\ said \in Nat BY DEF IInv, TypeOK
<1>3. /\ sentences' \in Seq(Sentences) /\ Len(sentences') = Len(sentences) - 1
      /\ Len(sentences) \in Nat
      /\ speaking' \in Sentences
      /\ ToSpeak = {speaking'} \union ToSpeak'
      /\ Rising(sentences) => Rising(sentences') /\ Before({speaking'}, ToSpeak')
    BY <1>1, <1>2, HeadFirst DEF ToSpeak
<1>4. AtTts = {} /\ AtTts' = {speaking'}
    BY <1>1, <1>3 DEF AtTts, Held, Sentences
<1>5. UNCHANGED <<Heard, AtPlayer, ToPlay, said>>
    BY <1>1 DEF Heard, AtPlayer, ToPlay, Held, handler
<1>6. Ordered /\ Accounted BY DEF IInv
<1>7. \A S : Before(S, ToSpeak) => Before(S, AtTts') /\ Before(S, ToSpeak')
    BY <1>3, <1>4 DEF Before
<1>8. Ordered'
    <2>1. Rising(heard') /\ Rising(audio') BY <1>1, <1>6 DEF Ordered
    <2>2. Rising(sentences') /\ Before(AtTts', ToSpeak') BY <1>3, <1>4, <1>6 DEF Ordered
    <2> QED BY <1>3, <1>4, <1>5, <1>6, <1>7, <2>1, <2>2 DEF Ordered
<1>9. Accounted' BY <1>1, <1>3, <1>4, <1>5, <1>6 DEF Accounted
<1>10. TypeOK' BY <1>1, <1>3, VoiceAssumption DEF IInv, TypeOK, handler, Sentences
<1>11. Phases' BY <1>1, <1>3 DEF IInv, Phases, handler, Sentences
<1> QED BY <1>8, <1>9, <1>10, <1>11 DEF IInv

\* A sentence is given up where it is.
LEMMA GenerateKeeps ==
    ASSUME IInv, TtsGenerate
    PROVE  IInv'
<1>1. /\ speaking # 0 /\ ~spoken
      /\ UNCHANGED <<handler, sentences, closed, audioClosed, audio, playing, heard>>
    BY DEF TtsGenerate
<1>2. CASE spoken' = TRUE /\ UNCHANGED <<speaking, lost>>
    <2>1. Ordered' /\ Accounted' BY <1>1, <1>2, SameWay DEF handler
    <2>2. TypeOK' BY <1>1, <1>2 DEF IInv, TypeOK, handler
    <2>3. Phases' BY <1>1, <1>2 DEF IInv, Phases, handler
    <2> QED BY <2>1, <2>2, <2>3 DEF IInv
<1>3. CASE lost' = lost \union {speaking} /\ speaking' = 0 /\ UNCHANGED spoken
    <2>1. AtTts = {speaking} /\ AtTts' = {} BY <1>1, <1>3 DEF AtTts, Held
    <2>2. UNCHANGED <<Heard, AtPlayer, ToPlay, ToSpeak, said, heard, audio, sentences>>
        BY <1>1 DEF Heard, AtPlayer, ToPlay, ToSpeak, Held, handler
    <2>3. \A S : Before(S, AtTts') /\ Before(AtTts', S) BY <2>1 DEF Before
    <2>4. Ordered' BY <2>1, <2>2, <2>3 DEF IInv, Ordered
    <2>5. Accounted' BY <1>3, <2>1, <2>2 DEF IInv, Accounted
    <2>6. TypeOK'
        BY <1>1, <1>3, VoiceAssumption DEF IInv, TypeOK, handler, Sentences
    <2>7. Phases' BY <1>1, <1>3 DEF IInv, Phases, handler
    <2> QED BY <2>4, <2>5, <2>6, <2>7 DEF IInv
<1> QED BY <1>2, <1>3 DEF TtsGenerate

LEMMA SpokenKeeps ==
    ASSUME IInv, TtsSend
    PROVE  IInv'
<1>1. /\ spoken /\ Len(audio) < Capacity
      /\ audio' = Append(audio, speaking) /\ speaking' = 0 /\ spoken' = FALSE
      /\ UNCHANGED <<handler, sentences, closed, audioClosed, playing, heard, lost>>
    BY DEF TtsSend
<1>2. speaking # 0 /\ speaking \in Sentences /\ audio \in Seq(Sentences) /\ said \in Nat
    BY <1>1, VoiceAssumption DEF IInv, Phases, TypeOK, Sentences
<1>3. /\ audio' \in Seq(Sentences) /\ Len(audio') = Len(audio) + 1
      /\ ToPlay' = ToPlay \union {speaking}
      /\ Rising(audio) /\ Before(ToPlay, {speaking}) => Rising(audio')
    BY <1>1, <1>2, AppendLast DEF ToPlay
<1>4. AtTts = {speaking} /\ AtTts' = {} BY <1>1, <1>2 DEF AtTts, Held
<1>5. UNCHANGED <<Heard, AtPlayer, ToSpeak, said>>
    BY <1>1 DEF Heard, AtPlayer, ToSpeak, Held, handler
<1>6. Ordered /\ Accounted BY DEF IInv
<1>7. Ordered'
    <2>1. \A S : Before(S, AtTts') /\ Before(AtTts', S) BY <1>4 DEF Before
    <2>2. \A S : Before(S, ToPlay) /\ Before(S, AtTts) => Before(S, ToPlay')
        BY <1>3, <1>4 DEF Before
    <2>3. \A S : Before(ToPlay, S) /\ Before(AtTts, S) => Before(ToPlay', S)
        BY <1>3, <1>4 DEF Before
    <2>4. Rising(heard') /\ Rising(audio') /\ Rising(sentences')
        BY <1>1, <1>3, <1>4, <1>6 DEF Ordered
    <2> QED BY <1>3, <1>4, <1>5, <1>6, <2>1, <2>2, <2>3, <2>4 DEF Ordered
<1>8. Accounted' BY <1>1, <1>3, <1>4, <1>5, <1>6 DEF Accounted
<1>9. TypeOK'
    <2>1. Len(audio') <= Capacity BY <1>1, <1>2, <1>3, VoiceAssumption
    <2>2. speaking' \in 0 .. MaxSentences BY <1>1, VoiceAssumption
    <2>3. spoken' \in BOOLEAN BY <1>1
    <2>4. UNCHANGED <<pc, failed, said, recorded, turns, sentences, closed, audioClosed, playing,
                     heard, lost>>
        BY <1>1 DEF handler
    <2>5. TypeOK BY DEF IInv
    <2> QED BY <1>3, <2>1, <2>2, <2>3, <2>4, <2>5 DEF TypeOK
<1>10. Phases' BY <1>1, <1>2 DEF IInv, Phases, handler
<1> QED BY <1>7, <1>8, <1>9, <1>10 DEF IInv

LEMMA FetchKeeps ==
    ASSUME IInv, PlayerTake
    PROVE  IInv'
<1>1. /\ playing = 0 /\ audio # <<>>
      /\ playing' = Head(audio) /\ audio' = Tail(audio)
      /\ UNCHANGED <<handler, sentences, closed, worker, heard, lost>>
    BY DEF PlayerTake
<1>2. audio \in Seq(Sentences) /\ said \in Nat BY DEF IInv, TypeOK
<1>3. /\ audio' \in Seq(Sentences) /\ Len(audio') = Len(audio) - 1 /\ Len(audio) \in Nat
      /\ playing' \in Sentences
      /\ ToPlay = {playing'} \union ToPlay'
      /\ Rising(audio) => Rising(audio') /\ Before({playing'}, ToPlay')
    BY <1>1, <1>2, HeadFirst DEF ToPlay
<1>4. AtPlayer = {} /\ AtPlayer' = {playing'}
    BY <1>1, <1>3 DEF AtPlayer, Held, Sentences
<1>5. UNCHANGED <<Heard, AtTts, ToSpeak, said>>
    BY <1>1 DEF Heard, AtTts, ToSpeak, Held, handler, worker
<1>6. Ordered /\ Accounted BY DEF IInv
<1>7. Ordered'
    <2>1. \A S : Before(S, ToPlay) => Before(S, AtPlayer') /\ Before(S, ToPlay')
        BY <1>3, <1>4 DEF Before
    <2>2. \A S : Before(ToPlay, S) => Before(AtPlayer', S) /\ Before(ToPlay', S)
        BY <1>3, <1>4 DEF Before
    <2>3. Rising(heard') /\ Rising(sentences') BY <1>1, <1>6 DEF Ordered
    <2>4. Rising(audio') /\ Before(AtPlayer', ToPlay') BY <1>3, <1>4, <1>6 DEF Ordered
    <2> QED BY <1>3, <1>4, <1>5, <1>6, <2>1, <2>2, <2>3, <2>4 DEF Ordered
<1>8. Accounted' BY <1>1, <1>3, <1>4, <1>5, <1>6 DEF Accounted
<1>9. TypeOK' BY <1>1, <1>3, VoiceAssumption DEF IInv, TypeOK, handler, worker, Sentences
<1>10. Phases' BY <1>1, <1>3 DEF IInv, Phases, handler, worker, Sentences
<1> QED BY <1>7, <1>8, <1>9, <1>10 DEF IInv

LEMMA PlayKeeps ==
    ASSUME IInv, PlayerPlay
    PROVE  IInv'
<1>1. /\ playing # 0 /\ playing' = 0
      /\ UNCHANGED <<handler, sentences, closed, worker, audio>>
    BY DEF PlayerPlay
<1>2. playing \in Sentences /\ heard \in Seq(Sentences) /\ said \in Nat
    BY <1>1, VoiceAssumption DEF IInv, TypeOK, Sentences
<1>3. AtPlayer = {playing} /\ AtPlayer' = {} BY <1>1 DEF AtPlayer, Held
<1>4. UNCHANGED <<ToPlay, AtTts, ToSpeak, said>>
    BY <1>1 DEF ToPlay, AtTts, ToSpeak, Held, handler, worker
<1>5. Ordered /\ Accounted BY DEF IInv
<1>6. \A S : Before(S, AtPlayer') /\ Before(AtPlayer', S) BY <1>3 DEF Before
<1>7. Rising(audio') /\ Rising(sentences') BY <1>1, <1>5 DEF Ordered
<1>8. Phases' BY <1>1 DEF IInv, Phases, handler, worker
<1>9. CASE heard' = Append(heard, playing) /\ UNCHANGED lost
    <2>1. /\ heard' \in Seq(Sentences)
          /\ Heard' = Heard \union {playing}
          /\ Rising(heard) /\ Before(Heard, {playing}) => Rising(heard')
        BY <1>2, <1>9, AppendLast DEF Heard
    <2>2. \A S : Before(Heard, S) /\ Before(AtPlayer, S) => Before(Heard', S)
        BY <1>3, <2>1 DEF Before
    <2>3. Rising(heard') BY <1>3, <1>5, <2>1 DEF Ordered
    <2>4. Ordered' BY <1>3, <1>4, <1>5, <1>6, <1>7, <2>1, <2>2, <2>3 DEF Ordered
    <2>5. Accounted' BY <1>3, <1>4, <1>5, <1>9, <2>1 DEF Accounted
    <2>6. TypeOK' BY <1>1, <1>9, <2>1, VoiceAssumption DEF IInv, TypeOK, handler, worker
    <2> QED BY <1>8, <2>4, <2>5, <2>6 DEF IInv
<1>10. CASE lost' = lost \union {playing} /\ UNCHANGED heard
    <2>1. UNCHANGED Heard BY <1>10 DEF Heard
    <2>2. Ordered' BY <1>3, <1>4, <1>5, <1>6, <1>7, <1>10, <2>1 DEF Ordered
    <2>3. Accounted' BY <1>3, <1>4, <1>5, <1>10, <2>1 DEF Accounted
    <2>4. TypeOK' BY <1>1, <1>2, <1>10, VoiceAssumption DEF IInv, TypeOK, handler, worker
    <2> QED BY <1>8, <2>2, <2>3, <2>4 DEF IInv
<1> QED BY <1>9, <1>10 DEF PlayerPlay

\* A reply begins with nothing under way.
LEMMA EngageKeeps ==
    ASSUME IInv, Engage
    PROVE  IInv'
<1>1. /\ sentences = <<>> /\ speaking = 0 /\ audio = <<>> /\ playing = 0
      /\ UNCHANGED <<turns, sentences, speaking, spoken, audio, playing>>
      /\ said' = 0 /\ heard' = <<>> /\ lost' = {}
    BY DEF Engage, IInv, Phases
<1>2. /\ Heard' = {} /\ AtPlayer' = {} /\ ToPlay' = {} /\ AtTts' = {} /\ ToSpeak' = {}
      /\ Rising(heard') /\ Rising(audio') /\ Rising(sentences')
    BY <1>1, EmptySequence DEF Heard, AtPlayer, ToPlay, AtTts, ToSpeak, Held
<1>3. Ordered' BY <1>2 DEF Ordered, Before
<1>4. 1 .. 0 = {} OBVIOUS
<1>5. Accounted' BY <1>1, <1>4 DEF Accounted
<1>6. TypeOK' BY <1>1, VoiceAssumption DEF Engage, IInv, TypeOK
<1>7. Phases' BY <1>1 DEF Engage, IInv, Phases
<1> QED BY <1>3, <1>5, <1>6, <1>7 DEF IInv

\* Every other step moves no sentence.
LEMMA QuietKeeps ==
    ASSUME IInv, Begin \/ Cut \/ StreamEnds \/ Close \/ WaitWorkers \/ Record \/ TtsCloses
    PROVE  IInv'
<1>1. UNCHANGED <<said, sentences, speaking, audio, playing, heard, lost>>
    BY DEF Begin, Cut, StreamEnds, Close, WaitWorkers, Record, TtsCloses, handler, worker
<1>2. Ordered' /\ Accounted' BY <1>1, SameWay
<1>3. TypeOK'
    <2> USE DEF IInv, TypeOK, worker
    <2>1. CASE Begin
        <3>1. turns' \in 0 .. MaxTurns BY <2>1, VoiceAssumption DEF Begin
        <3> QED BY <2>1, <3>1 DEF Begin
    <2>2. CASE Cut \/ Close \/ WaitWorkers BY <2>2 DEF Cut, Close, WaitWorkers
    <2>3. CASE StreamEnds
        <3>1. pc' \in {"flush", "close"} /\ failed' \in BOOLEAN BY <2>3 DEF StreamEnds
        <3> QED BY <2>3, <3>1 DEF StreamEnds
    <2>4. CASE Record
        <3>1. recorded' \in BOOLEAN /\ pc' = "idle" BY <2>4 DEF Record
        <3> QED BY <2>4, <3>1 DEF Record
    <2>5. CASE TtsCloses BY <2>5 DEF TtsCloses, handler
    <2> QED BY <2>1, <2>2, <2>3, <2>4, <2>5
<1>4. Phases'
    BY DEF Begin, Cut, StreamEnds, Close, WaitWorkers, Record, TtsCloses, handler, worker,
           IInv, TypeOK, Phases
<1> QED BY <1>2, <1>3, <1>4 DEF IInv

LEMMA IInvInit == Init => IInv
<1> SUFFICES ASSUME Init PROVE IInv OBVIOUS
<1>1. /\ Heard = {} /\ AtPlayer = {} /\ ToPlay = {} /\ AtTts = {} /\ ToSpeak = {}
      /\ Rising(heard) /\ Rising(audio) /\ Rising(sentences)
    BY EmptySequence DEF Init, Heard, AtPlayer, ToPlay, AtTts, ToSpeak, Held
<1>2. Ordered BY <1>1 DEF Ordered, Before
<1>3. 1 .. 0 = {} OBVIOUS
<1>4. Accounted BY <1>3 DEF Accounted, Init
<1>5. TypeOK
    <2>1. <<>> \in Seq(Sentences) /\ Len(<<>>) <= Capacity BY VoiceAssumption
    <2>2. 0 \in 0 .. MaxSentences /\ 0 \in 0 .. MaxTurns BY VoiceAssumption
    <2> QED BY <2>1, <2>2 DEF Init, TypeOK
<1>6. Phases BY DEF Init, Phases
<1> QED BY <1>2, <1>4, <1>5, <1>6 DEF IInv

LEMMA IInvNext == IInv /\ [Next]_vars => IInv'
<1> SUFFICES ASSUME IInv, [Next]_vars PROVE IInv' OBVIOUS
<1>1. CASE Handler BY <1>1, SayKeeps, EngageKeeps, QuietKeeps DEF Handler
<1>2. CASE Tts BY <1>2, TakeKeeps, GenerateKeeps, SpokenKeeps, QuietKeeps DEF Tts
<1>3. CASE Player BY <1>3, FetchKeeps, PlayKeeps DEF Player
<1>4. CASE UNCHANGED vars
    BY <1>4 DEF vars, handler, worker, IInv, TypeOK, Phases, Ordered, Accounted, Heard, AtPlayer,
           ToPlay, AtTts, ToSpeak, Held
<1> QED BY <1>1, <1>2, <1>3, <1>4 DEF Next

LEMMA Invariance == Spec => []IInv
BY IInvInit, IInvNext, PTL DEF Spec

\* The state of the reply has its type; in particular no channel holds more
\* than its capacity.
THEOREM TypeCorrect == Spec => []TypeOK
<1>1. IInv => TypeOK BY DEF IInv
<1> QED BY <1>1, Invariance, PTL

\* Sentences are heard in the order of the reply, once; none before every earlier
\* one was heard or given up, and the same holds of the whole reply before it is
\* recorded and the next transcription handled.
THEOREM InOrder == Spec => []HeardInOrder
<1>1. IInv => HeardInOrder
    <2> SUFFICES ASSUME IInv PROVE HeardInOrder OBVIOUS
    <2>1. \A i, j \in 1 .. Len(heard) : i < j => heard[i] < heard[j]
        BY DEF IInv, Ordered, Rising
    <2>2. ASSUME NEW k \in Heard PROVE \E i \in 1 .. Len(heard) : heard[i] = k
        BY <2>2 DEF Heard, Elements
    <2>3. ASSUME NEW i \in 1 .. Len(heard), NEW k \in 1 .. heard[i]
          PROVE  k \in lost \/ \E j \in 1 .. Len(heard) : heard[j] = k
        <3>1. heard[i] \in Heard /\ heard[i] \in 1 .. said /\ said \in Nat
            <4>1. heard[i] \in Heard BY DEF Heard, Elements
            <4>2. said \in Nat BY VoiceAssumption DEF IInv, TypeOK
            <4> QED BY <4>1, <4>2 DEF IInv, Ordered
        <3>2. k \in 1 .. said /\ k <= heard[i] BY <3>1
        <3>3. k \notin AtPlayer \union ToPlay \union AtTts \union ToSpeak
            <4>1. \A x \in AtPlayer \union ToPlay \union AtTts \union ToSpeak : heard[i] < x
                BY <3>1 DEF IInv, Ordered, Before
            <4> QED BY <3>1, <3>2, <4>1
        <3>4. k \in lost \union Heard BY <3>2, <3>3 DEF IInv, Accounted
        <3> QED BY <2>2, <3>4
    <2>4. ASSUME pc \in {"record", "idle"}, NEW k \in 1 .. said
          PROVE  k \in lost \/ \E i \in 1 .. Len(heard) : heard[i] = k
        <3>1. AtPlayer = {} /\ ToPlay = {} /\ AtTts = {} /\ ToSpeak = {}
            BY <2>4, EmptySequence DEF IInv, Phases, AtPlayer, ToPlay, AtTts, ToSpeak, Held
        <3>2. k \in lost \union Heard BY <2>4, <3>1 DEF IInv, Accounted
        <3> QED BY <2>2, <3>2
    <2> QED BY <2>1, <2>3, <2>4 DEF HeardInOrder
<1> QED BY <1>1, Invariance, PTL

=============================================================================
