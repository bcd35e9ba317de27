------------------------------ MODULE VoiceReply ------------------------------
(***************************************************************************)
(* The transcription handler (internal/handlers/transcription): a reply is *)
(* cut into sentences while the model still streams it, a worker turns     *)
(* sentences into audio, and a player plays them; two bounded channels     *)
(* connect the three.  A sentence is its number in the reply.              *)
(***************************************************************************)
EXTENDS Naturals, Sequences

CONSTANTS
    Capacity,      \* of each channel (10 in the code)
    MaxSentences,  \* bound: sentences of a reply
    MaxTurns       \* bound: transcriptions handled

ASSUME VoiceAssumption ==
    Capacity \in Nat \ {0} /\ MaxSentences \in Nat \ {0} /\ MaxTurns \in Nat

Sentences == 1 .. MaxSentences

VARIABLES
    pc,           \* of the handler
    failed,       \* the stream ended with an error
    said,         \* sentences cut so far
    sentences, closed,       \* sentenceChan
    speaking,     \* the sentence at the TTS worker, 0 for none
    spoken,       \* its audio is ready
    audio, audioClosed,      \* audioChan
    playing,      \* the sentence at the player, 0 for none
    heard, lost,  \* history: sentences played, in order, and those that were not
    recorded,     \* history: an event was emitted for the last reply
    turns

handler == <<pc, failed, said, recorded, turns>>
worker  == <<speaking, spoken, audioClosed>>
vars == <<handler, sentences, closed, worker, audio, playing, heard, lost>>

TypeOK ==
    /\ pc \in {"idle", "engage", "stream", "cut", "flush", "close", "wait", "record"}
    /\ failed \in BOOLEAN /\ closed \in BOOLEAN /\ audioClosed \in BOOLEAN /\ recorded \in BOOLEAN
    /\ spoken \in BOOLEAN
    /\ said \in 0 .. MaxSentences /\ turns \in 0 .. MaxTurns
    /\ speaking \in 0 .. MaxSentences /\ playing \in 0 .. MaxSentences
    /\ sentences \in Seq(Sentences) /\ Len(sentences) <= Capacity
    /\ audio \in Seq(Sentences) /\ Len(audio) <= Capacity
    /\ heard \in Seq(Sentences) /\ lost \subseteq Sentences

Init ==
    /\ pc = "idle" /\ failed = FALSE /\ said = 0
    /\ sentences = <<>> /\ closed = FALSE /\ speaking = 0 /\ spoken = FALSE
    /\ audio = <<>> /\ audioClosed = FALSE /\ playing = 0
    /\ heard = <<>> /\ lost = {} /\ recorded = FALSE /\ turns = 0

-----------------------------------------------------------------------------
(* The handler.                                                            *)

\* Skipped when the event is claimed, after the last reply, or with the system
\* busy; what is claimed is the subject of MessageHandling.
Begin ==
    /\ pc = "idle" /\ turns < MaxTurns
    /\ turns' = turns + 1
    /\ pc' \in {"idle", "engage"}
    /\ UNCHANGED <<failed, said, recorded, sentences, closed, worker, audio, playing, heard, lost>>

\* Ignored, the engagement model failed, or a construction was acknowledged;
\* else the context is claimed and the channels and workers are made.
Engage ==
    /\ pc = "engage"
    /\ pc' \in {"idle", "stream"}
    /\ failed' = FALSE /\ said' = 0 /\ recorded' = FALSE
    /\ closed' = FALSE /\ audioClosed' = FALSE
    /\ heard' = <<>> /\ lost' = {}
    /\ UNCHANGED <<turns, sentences, speaking, spoken, audio, playing>>

\* The callback of the stream finds the end of a sentence and sends it; while the
\* channel is full the stream waits.  Sentences of which nothing is left to
\* speak are not counted.
Cut ==
    /\ pc = "stream" /\ said < MaxSentences
    /\ pc' = "cut"
    /\ UNCHANGED <<failed, said, recorded, turns, sentences, closed, worker, audio, playing,
                   heard, lost>>

Send(next) ==
    /\ Len(sentences) < Capacity
    /\ said' = said + 1
    /\ sentences' = Append(sentences, said + 1)
    /\ pc' = next
    /\ UNCHANGED <<failed, recorded, turns, closed, worker, audio, playing, heard, lost>>

CutSend == pc = "cut" /\ Send("stream")

\* What is left in the buffer is a sentence too.
StreamEnds ==
    /\ pc = "stream"
    /\ pc' \in (IF said < MaxSentences THEN {"flush", "close"} ELSE {"close"})
    /\ failed' \in BOOLEAN
    /\ UNCHANGED <<said, recorded, turns, sentences, closed, worker, audio, playing, heard, lost>>

Flush == pc = "flush" /\ Send("close")

Close ==
    /\ pc = "close"
    /\ closed' = TRUE
    /\ pc' = "wait"
    /\ UNCHANGED <<failed, said, recorded, turns, sentences, worker, audio, playing, heard, lost>>

\* Variant: the handler waits for the worker but not for the player.
WaitWorkersOfTts ==
    /\ pc = "wait" /\ audioClosed
    /\ pc' = "record"
    /\ UNCHANGED <<failed, said, recorded, turns, sentences, closed, worker, audio, playing,
                   heard, lost>>

\* wg.Wait.
WaitWorkers ==
    /\ pc = "wait"
    /\ audioClosed /\ audio = <<>> /\ playing = 0
    /\ pc' = "record"
    /\ UNCHANGED <<failed, said, recorded, turns, sentences, closed, worker, audio, playing,
                   heard, lost>>

\* Without an error the reply becomes an event, and a cooldown begins.
Record ==
    /\ pc = "record"
    /\ recorded' = ~failed
    /\ pc' = "idle"
    /\ UNCHANGED <<failed, said, turns, sentences, closed, worker, audio, playing, heard, lost>>

-----------------------------------------------------------------------------
(* The TTS worker and the player.                                          *)

TtsTake ==
    /\ speaking = 0 /\ sentences # <<>>
    /\ speaking' = Head(sentences)
    /\ sentences' = Tail(sentences)
    /\ UNCHANGED <<handler, closed, spoken, audioClosed, audio, playing, heard, lost>>

\* A sentence without audio is left out.
TtsGenerate ==
    /\ speaking # 0 /\ ~spoken
    /\ \/ spoken' = TRUE /\ UNCHANGED <<speaking, lost>>
       \/ lost' = lost \union {speaking} /\ speaking' = 0 /\ UNCHANGED spoken
    /\ UNCHANGED <<handler, sentences, closed, audioClosed, audio, playing, heard>>

TtsSend ==
    /\ spoken /\ Len(audio) < Capacity
    /\ audio' = Append(audio, speaking)
    /\ speaking' = 0 /\ spoken' = FALSE
    /\ UNCHANGED <<handler, sentences, closed, audioClosed, playing, heard, lost>>

\* Variant: the worker returns without closing its channel.
TtsReturns == FALSE /\ UNCHANGED vars

TtsCloses ==
    /\ closed /\ sentences = <<>> /\ speaking = 0 /\ ~audioClosed
    /\ audioClosed' = TRUE
    /\ UNCHANGED <<handler, sentences, closed, speaking, spoken, audio, playing, heard, lost>>

PlayerTake ==
    /\ playing = 0 /\ audio # <<>>
    /\ playing' = Head(audio)
    /\ audio' = Tail(audio)
    /\ UNCHANGED <<handler, sentences, closed, worker, heard, lost>>

PlayerPlay ==
    /\ playing # 0
    /\ \/ heard' = Append(heard, playing) /\ UNCHANGED lost
       \/ lost' = lost \union {playing} /\ UNCHANGED heard
    /\ playing' = 0
    /\ UNCHANGED <<handler, sentences, closed, worker, audio>>

Handler == Begin \/ Engage \/ Cut \/ CutSend \/ StreamEnds \/ Flush \/ Close \/ WaitWorkers \/ Record
Tts     == TtsTake \/ TtsGenerate \/ TtsSend \/ TtsCloses
Player  == PlayerTake \/ PlayerPlay

Next == Handler \/ Tts \/ Player

\* The handler and its two goroutines are scheduled; the stream, the TTS service
\* and Discord answer or fail.
Spec == Init /\ [][Next]_vars /\ WF_vars(Handler) /\ WF_vars(Tts) /\ WF_vars(Player)

-----------------------------------------------------------------------------
(* Properties.                                                             *)

\* What is heard keeps the order of the reply, without repetition, whatever
\* fails on the way; a sentence is heard only after every earlier one was heard
\* or given up, none is still under way; and no reply is recorded, nor the next
\* transcription handled, before that is so of the whole reply.
HeardInOrder ==
    LET Done(k) == k \in lost \/ \E i \in 1 .. Len(heard) : heard[i] = k
    IN  /\ \A i, j \in 1 .. Len(heard) : i < j => heard[i] < heard[j]
        /\ \A i \in 1 .. Len(heard) : \A k \in 1 .. heard[i] : Done(k)
        /\ pc \in {"record", "idle"} => \A k \in 1 .. said : Done(k)

\* Every reply comes to an end, though its channels may be full: nobody waits
\* for someone who waits for him.
Ends == pc # "idle" ~> pc = "idle"
=============================================================================
