------------------------- MODULE ProgressivePlayback ------------------------
(***************************************************************************)
(* One progressively queued speech source (omnivox-audio/src/output.rs,    *)
(* ProgressivePlaybackProducer and ProgressivePlaybackSource).  The worker *)
(* pushes PCM windows and cues into a bounded channel while an engine is   *)
(* still synthesizing; the sink's thread pulls frames out of it.  A device *)
(* sink gets the source only once it is primed (or finished), under the    *)
(* stream gate, long after the caller's staleness check; the null sink     *)
(* gets it at once.  Others may stop the stream, cancel the request, queue *)
(* more speech, or retire the output at any point in between.              *)
(*                                                                         *)
(* A window is a number of frames; a cue is the frame offset it carries.   *)
(***************************************************************************)
EXTENDS Naturals, Sequences, FiniteSets, SequencesExt

CONSTANTS
    PROGRESSIVE_PLAYBACK_CAPACITY,          \* messages in the channel
    PROGRESSIVE_PLAYBACK_PREBUFFER_WINDOWS, \* windows that prime a source
    SPEECH_STOP_FADE_FRAMES,
    SpeechMax,     \* depth of the speech stream
    MaxFrames,     \* bound: frames of the utterance
    MaxWindow,     \* bound: frames of one window
    MaxStopCount,  \* bound: stops of the stream
    MaxOthers      \* bound: other buffers queued on the stream

ASSUME ProgressiveAssumption ==
    /\ PROGRESSIVE_PLAYBACK_PREBUFFER_WINDOWS <= PROGRESSIVE_PLAYBACK_CAPACITY
    /\ {PROGRESSIVE_PLAYBACK_PREBUFFER_WINDOWS, SpeechMax} \subseteq Nat \ {0}
    /\ {SPEECH_STOP_FADE_FRAMES, MaxFrames, MaxWindow, MaxStopCount, MaxOthers}
            \subseteq Nat

VARIABLES
    producer,      \* the worker's end
    channel,       \* messages on their way to the source
    source,        \* the sink's end
    speech,        \* the speech sink: "p" is the source, "b" another buffer
    stopState,     \* schedule generation, stop token, request cancellation
    progTicket,    \* the playback ticket
    reported       \* cues handed to the callback, with the frame they came at

progressiveVars ==
    <<producer, channel, source, speech, stopState, progTicket, reported>>

ProgressiveInit ==
    /\ producer = [pc |-> "new", frames |-> 0, windows |-> 0, cues |-> <<>>,
                   sending |-> <<>>, last |-> 0, token |-> 0, generation |-> 0, finished |-> FALSE]
    /\ channel = <<>>
    /\ source = [place |-> "none", position |-> 0, current |-> 0, cues |-> <<>>,
                 fade |-> "Playing", faded |-> 0, token |-> 0]
    /\ speech = <<>>
    /\ stopState = [generation |-> 0, token |-> 0, request |-> FALSE, others |-> 0,
                    null |-> FALSE]
    /\ progTicket = "none"
    /\ reported = <<>>

-----------------------------------------------------------------------------
ProducerCancelled == stopState.request \/ producer.token # stopState.token

\* PlaybackCancellation::is_requested of the source.
SourceCancelled == stopState.request \/ source.token # stopState.token

\* Clearing the sink drops what is in it; a dropped source reports Cancelled.
ClearSpeech(next) ==
    /\ speech' = next
    /\ IF source.place = "sink"
       THEN /\ source' = [source EXCEPT !.place = "ended"]
            /\ progTicket' = "Cancelled"
       ELSE UNCHANGED <<source, progTicket>>

\* queue_progressive_speech_...: under the gate, after the caller's predicate.
\* A stream at capacity is cleared and its stop token rotated.
OpenProgressive(null) ==
    /\ producer.pc = "new"
    /\ LET full == Len(speech) >= SpeechMax
           token == IF full THEN stopState.token + 1 ELSE stopState.token
           rest == IF full THEN <<>> ELSE speech IN
       /\ stopState' = [stopState EXCEPT !.token = token, !.null = null]
       /\ producer' = [producer EXCEPT !.pc = "ready", !.token = token,
                                       !.generation = stopState.generation]
       /\ source' = [source EXCEPT !.token = token,
                                   !.place = IF null THEN "sink" ELSE "held"]
       /\ speech' = IF null THEN Append(rest, "p") ELSE rest
    /\ progTicket' = "pending"
    /\ UNCHANGED <<channel, reported>>

-----------------------------------------------------------------------------
(* The producer.  A call that fails makes the worker drop the producer.     *)

\* push_cues: refused when late or out of order.
PushCue(offset) ==
    /\ producer.pc = "ready" /\ producer.cues = <<>>
    /\ producer' = IF offset >= producer.frames /\ offset >= producer.last
                   THEN [producer EXCEPT !.cues = Append(@, offset), !.last = offset]
                   ELSE [producer EXCEPT !.pc = "failed"]
    /\ UNCHANGED <<channel, source, speech, stopState, progTicket, reported>>

\* push_audio and finish start with a send that polls for room.
SendStart(message) ==
    /\ producer.pc = "ready"
    /\ producer' = [producer EXCEPT !.pc = "send", !.sending = <<message>>,
                                   !.cues = <<>>]
    /\ UNCHANGED <<channel, source, speech, stopState, progTicket, reported>>

PushAudio(frames) ==
    /\ producer.frames + frames <= MaxFrames
    /\ SendStart([kind |-> "Audio", frames |-> frames, cues |-> producer.cues])

FinishProgressive ==
    IF producer.last > producer.frames
    THEN /\ producer.pc = "ready"
         /\ producer' = [producer EXCEPT !.pc = "failed"]
         /\ UNCHANGED <<channel, source, speech, stopState, progTicket, reported>>
    ELSE SendStart([kind |-> "Complete", frames |-> 0, cues |-> producer.cues])

\* One round of the send loop: cancelled, full, consumer gone, or sent.
SendRound ==
    /\ producer.pc = "send"
    /\ LET message == Head(producer.sending) IN
       \/ /\ ProducerCancelled \/ source.place = "ended"
          /\ producer' = [producer EXCEPT !.pc = "failed"]
          /\ UNCHANGED channel
       \/ /\ ~ProducerCancelled /\ source.place # "ended"
          /\ Len(channel) < PROGRESSIVE_PLAYBACK_CAPACITY
          /\ channel' = Append(channel, message)
          /\ producer' = [producer EXCEPT
                !.pc = "attach", !.sending = <<>>,
                !.frames = @ + message.frames,
                !.windows = IF message.kind = "Audio" THEN @ + 1 ELSE @,
                !.finished = message.kind = "Complete"]
    /\ UNCHANGED <<source, speech, stopState, progTicket, reported>>

Primed == producer.windows >= PROGRESSIVE_PLAYBACK_PREBUFFER_WINDOWS

AfterAttach == IF producer.finished THEN "done" ELSE "ready"

\* Mutant: finishing does not attach a source too short to be primed.
AttachPrimedOnly(letter) ==
    /\ producer.pc = "attach"
    /\ IF source.place # "held" \/ ~(Primed \/ letter)
       THEN producer' = [producer EXCEPT !.pc = AfterAttach]
       ELSE producer' = [producer EXCEPT
                            !.pc = IF ProducerCancelled THEN "failed" ELSE "gate"]
    /\ UNCHANGED <<channel, source, speech, stopState, progTicket, reported>>

\* attach_if_primed: nothing to attach yet or any more, or cancelled before.
AttachCheck(letter) ==
    /\ producer.pc = "attach"
    /\ IF source.place # "held" \/ ~(Primed \/ letter \/ producer.finished)
       THEN producer' = [producer EXCEPT !.pc = AfterAttach]
       ELSE producer' = [producer EXCEPT
                            !.pc = IF ProducerCancelled THEN "failed" ELSE "gate"]
    /\ UNCHANGED <<channel, source, speech, stopState, progTicket, reported>>

\* Mutant: the cancellations are not looked at again inside the gate.
AttachGateUnchecked ==
    /\ producer.pc = "gate"
    /\ LET full == Len(speech) >= SpeechMax
           token == IF full THEN stopState.token + 1 ELSE stopState.token IN
       /\ stopState' = [stopState EXCEPT !.token = token]
       /\ producer' = [producer EXCEPT !.pc = AfterAttach, !.token = token]
       /\ source' = [source EXCEPT !.place = "sink", !.token = token]
       /\ speech' = IF full THEN <<"p">> ELSE Append(speech, "p")
    /\ UNCHANGED <<channel, progTicket, reported>>

\* Inside the gate: check again, make room (rotating the stop token, which the
\* source and its producer then share), append.
AttachGate ==
    /\ producer.pc = "gate"
    /\ IF ProducerCancelled \/ stopState.generation # producer.generation
       THEN /\ producer' = [producer EXCEPT !.pc = "failed"]
            /\ UNCHANGED <<source, speech, stopState>>
       ELSE LET full == Len(speech) >= SpeechMax
                token == IF full THEN stopState.token + 1 ELSE producer.token IN
            /\ stopState' = [stopState EXCEPT !.token = IF full THEN token ELSE @]
            /\ producer' = [producer EXCEPT !.pc = AfterAttach, !.token = token]
            /\ source' = [source EXCEPT !.place = "sink", !.token = token]
            /\ speech' = IF full THEN <<"p">> ELSE Append(speech, "p")
    /\ UNCHANGED <<channel, progTicket, reported>>

\* The sink has no connection to append to.
AttachRefused ==
    /\ producer.pc = "gate" /\ ~stopState.null
    /\ producer' = [producer EXCEPT !.pc = "failed"]
    /\ UNCHANGED <<channel, source, speech, stopState, progTicket, reported>>

\* The worker lets go of the producer: after an error, or a synthesis failure.
\* A source never attached is dropped with it.
DropProducer ==
    /\ producer.pc \in {"ready", "failed"}
    /\ producer' = [producer EXCEPT !.pc = "done"]
    /\ IF source.place = "held"
       THEN /\ source' = [source EXCEPT !.place = "ended"]
            /\ progTicket' = "Cancelled"
       ELSE UNCHANGED <<source, progTicket>>
    /\ UNCHANGED <<channel, speech, stopState, reported>>

-----------------------------------------------------------------------------
(* ProgressivePlaybackSource::next, on the sink's thread.                   *)

Playing == speech # <<>> /\ Head(speech) = "p"

EndSource(status) ==
    /\ source' = [source EXCEPT !.place = "ended"]
    /\ progTicket' = status
    /\ speech' = Tail(speech)

\* What is popped from the front while its frame is this one, and what stays.
TakeDue(cues, position) ==
    LET n == Cardinality({i \in DOMAIN cues : \A j \in 1 .. i : cues[j] = position}) IN
    [due |-> SubSeq(cues, 1, n), left |-> SubSeq(cues, n + 1, Len(cues))]

Reports(cues) == reported \o
    [i \in DOMAIN cues |-> [cue |-> cues[i], at |-> source.position]]

\* Mutant: a cue is reported with the frame before its own.
ReportCuesEarly(s) == TakeDue(s.cues, s.position + 1)

\* report_cues_at_current_frame
ReportCues(s) == TakeDue(s.cues, s.position)

Begins == source.fade = "Playing" /\ SourceCancelled

\* next_gain has no gain for this frame.
GainEnds ==
    \/ source.fade = "Finished"
    \/ Begins /\ (source.position = 0 \/ SPEECH_STOP_FADE_FRAMES = 0)

FadeState == IF Begins THEN "Fading" ELSE source.fade

SourceGainEnds ==
    /\ Playing /\ GainEnds
    /\ EndSource("Cancelled")
    /\ UNCHANGED <<producer, channel, stopState, reported>>

\* A frame of the current window, after the cues at its boundary.
SourceFrame ==
    /\ Playing /\ ~GainEnds /\ source.current > 0
    /\ LET fading == FadeState = "Fading"
           cues == IF fading THEN [due |-> <<>>, left |-> source.cues]
                   ELSE ReportCues(source)
           faded == IF fading THEN source.faded + 1 ELSE 0 IN
       /\ reported' = Reports(cues.due)
       /\ source' = [source EXCEPT
             !.position = @ + 1, !.current = @ - 1, !.cues = cues.left,
             !.faded = faded,
             !.fade = IF faded >= SPEECH_STOP_FADE_FRAMES /\ fading
                      THEN "Finished" ELSE FadeState]
    /\ UNCHANGED <<producer, channel, speech, stopState, progTicket>>

\* The window is exhausted while fading.
SourceFadeEnds ==
    /\ Playing /\ ~GainEnds /\ source.current = 0 /\ FadeState # "Playing"
    /\ EndSource("Cancelled")
    /\ UNCHANGED <<producer, channel, stopState, reported>>

\* recv_timeout: the next window, completion, or a producer that went away.
SourceReceive ==
    /\ Playing /\ ~GainEnds /\ source.current = 0 /\ FadeState = "Playing"
    /\ LET before == ReportCues(source) IN
       IF channel = <<>>
       THEN /\ producer.pc = "done"
            /\ EndSource("Cancelled")
            /\ reported' = Reports(before.due)
            /\ UNCHANGED channel
       ELSE LET message == Head(channel)
                cues == [source EXCEPT !.cues = before.left \o message.cues]
                after == ReportCues(cues) IN
            /\ channel' = Tail(channel)
            /\ IF message.kind = "Audio"
               THEN /\ source' = [cues EXCEPT !.current = message.frames]
                    /\ reported' = Reports(before.due)
                    /\ UNCHANGED <<speech, progTicket>>
               ELSE /\ EndSource(IF after.left = <<>> THEN "Completed"
                                 ELSE "Cancelled")
                    /\ reported' = Reports(before.due \o after.due)
    /\ UNCHANGED <<producer, stopState>>

\* A buffer ahead of it ends.
OtherEnds ==
    /\ speech # <<>> /\ Head(speech) = "b"
    /\ speech' = Tail(speech)
    /\ UNCHANGED <<producer, channel, source, stopState, progTicket, reported>>

-----------------------------------------------------------------------------
(* Everyone else *)

\* prepare_queue and an append by another caller; clears at capacity.
QueueOther ==
    /\ stopState.others < MaxOthers
    /\ stopState' = [stopState EXCEPT !.others = @ + 1]
    /\ IF Len(speech) >= SpeechMax THEN ClearSpeech(<<"b">>)
       ELSE speech' = Append(speech, "b") /\ UNCHANGED <<source, progTicket>>
    /\ UNCHANGED <<producer, channel, reported>>

\* stop(Speech): the generation rises and the stop token is rotated.
StopSpeech ==
    /\ stopState.generation < MaxStopCount
    /\ stopState' = [stopState EXCEPT !.generation = @ + 1, !.token = @ + 1]
    /\ UNCHANGED <<producer, channel, source, speech, progTicket, reported>>

\* interrupt_output: as stop, and the sink loses its sources.
RetireOutput ==
    /\ stopState.generation < MaxStopCount /\ ~stopState.null
    /\ stopState' = [stopState EXCEPT !.generation = @ + 1, !.token = @ + 1]
    /\ ClearSpeech(<<>>)
    /\ UNCHANGED <<producer, channel, reported>>

CancelRequest ==
    /\ ~stopState.request
    /\ stopState' = [stopState EXCEPT !.request = TRUE]
    /\ UNCHANGED <<producer, channel, source, speech, progTicket, reported>>

-----------------------------------------------------------------------------
ProducerCall ==
    \/ \E offset \in 0 .. MaxFrames : PushCue(offset)
    \/ \E frames \in 1 .. MaxWindow : PushAudio(frames)
    \/ FinishProgressive

ProducerStep ==
    SendRound \/ (\E letter \in BOOLEAN : AttachCheck(letter)) \/ AttachGate
    \/ AttachRefused

SinkStep ==
    SourceGainEnds \/ SourceFrame \/ SourceFadeEnds \/ SourceReceive \/ OtherEnds

Interference == QueueOther \/ StopSpeech \/ RetireOutput \/ CancelRequest

ProgressiveDone ==
    /\ producer.pc = "done" /\ source.place # "sink"
    /\ UNCHANGED progressiveVars

ProgressiveNext ==
    \/ \E null \in BOOLEAN : OpenProgressive(null)
    \/ ProducerCall \/ ProducerStep \/ DropProducer \/ SinkStep \/ Interference
    \/ ProgressiveDone

\* The worker goes on with what it synthesizes until it finishes or gives up,
\* and the sink's thread plays.
ProgressiveFairness ==
    /\ WF_progressiveVars(ProducerStep)
    /\ WF_progressiveVars(FinishProgressive \/ DropProducer)
    /\ WF_progressiveVars(SinkStep)

ProgressiveSpec ==
    ProgressiveInit /\ [][ProgressiveNext]_progressiveVars /\ ProgressiveFairness

-----------------------------------------------------------------------------
\* Each cue's callback runs exactly when playback reaches its frame, in order;
\* and a source that reports Completed has played every published frame and
\* reported every cue it accepted.
CuesExact ==
    /\ \A i \in DOMAIN reported :
          /\ reported[i].cue = reported[i].at
          /\ \A j \in 1 .. i : reported[j].at <= reported[i].at
    /\ progTicket = "Completed" =>
          /\ source.position = producer.frames
          /\ producer.last > 0 => \E i \in DOMAIN reported : reported[i].cue = producer.last

\* A stop is never outrun by a source that was still being primed: what can be
\* heard was checked after the last stop.
StopReachesProgressive ==
    source.place = "sink" /\ ~SourceCancelled
        => producer.generation = stopState.generation

\* The ticket of a progressive source is answered whatever happens to either
\* end: neither waits for the other for ever.
ProgressiveOwed == progTicket = "pending"
ProgressiveMet == progTicket \in {"Completed", "Cancelled"}
=============================================================================
