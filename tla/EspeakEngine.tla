---------------------------- MODULE EspeakEngine ----------------------------
(***************************************************************************)
(* The in-process eSpeak engine.  The native library is one global, used   *)
(* under ESPEAK_LOCK; its callback fills the one SYNTH_CAPTURE.  A         *)
(* buffered call collects there; a streaming call has a producer thread    *)
(* whose callback sends through a bounded channel to the caller, which     *)
(* converts PCM into windows and holds each mark until the window its      *)
(* frame lies in.  stop() only moves an epoch and never waits.             *)
(*                                                                         *)
(* A request carries its native script: the blocks the library would call  *)
(* back with.  A word is one character of the source text.                 *)
(***************************************************************************)
EXTENDS Naturals, Sequences, FiniteSets, SequencesExt

CONSTANTS
    EsCall,          \* callers: positive numbers
    EsRequests,      \* call -> [stream, known, text, anchors, blocks, status], a set of these
    EsCapacity,      \* STREAM_CHANNEL_CAPACITY
    EsWindow,        \* INPUT_WINDOW_FRAMES of the PCM converter
    EsMarkLimit,     \* MAX_HELPER_MARKERS
    EsFrameLimit,    \* MAX_NATIVE_SAMPLES
    EsMaxStops       \* bound on stops

VARIABLES
    esRequest,    \* call -> its request
    esStage,      \* call -> idle, waiting, locked, native, produced, ended
    esCaller,     \* streaming call -> none, receiving, refused
    esResult,     \* call -> none, ok, error
    esLock,       \* holder of ESPEAK_LOCK
    esEpoch,      \* SYNTH_STOP_EPOCH
    esExpected,   \* call -> the epoch its capture holds
    esTokens,     \* calls whose request token is cancelled
    esCapture,    \* SYNTH_CAPTURE
    esAt,         \* next block of the native call that holds the lock
    esOut,        \* events the running callback has yet to send
    esQueue,      \* call -> its channel
    esPushed,     \* call -> native frames given to the converter
    esPending,    \* call -> marks held for a later window
    esHeard       \* call -> sink calls

esVars == <<esRequest, esStage, esCaller, esResult, esLock, esEpoch, esExpected, esTokens,
            esCapture, esAt, esOut, esQueue, esPushed, esPending, esHeard>>

EsNobody == 0
EsNoCapture == [owner |-> EsNobody, frames |-> 0, marks |-> <<>>, count |-> 0,
                reported |-> {}, failed |-> FALSE]

------------------------------
\* The input.  With anchors the text becomes SSML, and every generated
\* character boundary is mapped to a byte boundary of the plain text.
EsSpeakOpen == 2
EsSpeakClose == 2
EsMarkWidth == 3
EsBytes(text, n) == FoldLeft(LAMBDA sum, c : sum + c.width, 0, SubSeq(text, 1, n))
EsLength(request) == EsBytes(request.text, Len(request.text))
EsAnchorsAt(request, offset) ==
    Cardinality({a \in DOMAIN request.anchors : request.anchors[a] = offset})

EsGenerated(width, from, to) == [k \in 1..width |-> IF k = width THEN to ELSE from]
EsGeneratedMarks(request, offset) ==
    EsGenerated(EsAnchorsAt(request, offset) * EsMarkWidth, offset, offset)
EsGeneratedBefore(request, n) ==
    FoldLeft(LAMBDA run, i : LET from == EsBytes(request.text, i - 1)
                             IN run \o EsGeneratedMarks(request, from)
                                    \o EsGenerated(request.text[i].escape, from,
                                                   EsBytes(request.text, i)),
             EsGenerated(EsSpeakOpen, 0, 0), [i \in 1..n |-> i])
EsBoundaries(request) ==
    IF request.anchors = <<>>
    THEN [i \in 1..(Len(request.text) + 1) |-> EsBytes(request.text, i - 1)]
    ELSE LET end == EsLength(request)
         IN <<0>> \o EsGeneratedBefore(request, Len(request.text))
                  \o EsGeneratedMarks(request, end) \o EsGenerated(EsSpeakClose, end, end)

\* Positions are one-based characters of what the library was given.
EsSourceRange(request, position, length) ==
    LET boundaries == EsBoundaries(request)
    IN [start |-> boundaries[position], end |-> boundaries[position + length]]

(* Where the library reports character c of the source. *)
EsNativePosition(request, c) ==
    IF request.anchors = <<>> THEN c
    ELSE Len(EsGeneratedBefore(request, c - 1)
             \o EsGeneratedMarks(request, EsBytes(request.text, c - 1))) + 1
EsNativeLength(request, c) == IF request.anchors = <<>> THEN 1 ELSE request.text[c].escape

EsTiming(request, mark) ==
    IF mark.kind = "anchor" THEN mark
    ELSE LET range == EsSourceRange(request, EsNativePosition(request, mark.ref),
                                    EsNativeLength(request, mark.ref))
         IN [kind |-> "word", frame |-> mark.frame, ref |-> range]
EsTimings(request, marks) == [m \in 1..Len(marks) |-> EsTiming(request, marks[m])]

------------------------------
EsInit ==
    /\ esRequest \in EsRequests
    /\ esStage = [c \in EsCall |-> "idle"]
    /\ esCaller = [c \in EsCall |-> "none"]
    /\ esResult = [c \in EsCall |-> "none"]
    /\ esLock = EsNobody
    /\ esEpoch = 0
    /\ esExpected = [c \in EsCall |-> 0]
    /\ esTokens = {}
    /\ esCapture = EsNoCapture
    /\ esAt = 0
    /\ esOut = <<>>
    /\ esQueue = [c \in EsCall |-> <<>>]
    /\ esPushed = [c \in EsCall |-> 0]
    /\ esPending = [c \in EsCall |-> <<>>]
    /\ esHeard = [c \in EsCall |-> <<>>]

EsCancelled(c) == esEpoch # esExpected[c] \/ c \in esTokens
esSinkVars == <<esPushed, esPending, esHeard>>

AnchorsAtZero(request) ==
    [a \in 1..Len(request.anchors) |-> [kind |-> "anchor", frame |-> 0, ref |-> a]]
EsMarksCall(marks) == IF marks = <<>> THEN <<>> ELSE <<[kind |-> "marks", marks |-> marks]>>
EsAudioCall(frames) == IF frames = 0 THEN <<>> ELSE <<[kind |-> "audio", frames |-> frames]>>

\* A request already cancelled, and one with no text, end here.
EsEnter(c) ==
    /\ esStage[c] = "idle"
    /\ IF c \in esTokens \/ esRequest[c].text = <<>>
       THEN /\ esStage' = [esStage EXCEPT ![c] = "ended"]
            /\ esResult' = [esResult EXCEPT ![c] = IF c \in esTokens THEN "error" ELSE "ok"]
            /\ esHeard' = IF c \in esTokens THEN esHeard
                          ELSE [esHeard EXCEPT ![c] = EsMarksCall(AnchorsAtZero(esRequest[c]))]
            /\ UNCHANGED esCaller
       ELSE /\ esStage' = [esStage EXCEPT ![c] = "waiting"]
            /\ esCaller' = [esCaller EXCEPT ![c] = IF esRequest[c].stream THEN "receiving"
                                                   ELSE "none"]
            /\ UNCHANGED <<esResult, esHeard>>
    /\ UNCHANGED <<esRequest, esLock, esEpoch, esExpected, esTokens, esCapture, esAt, esOut,
                   esQueue, esPushed, esPending>>

\* The library's lock, then the epoch this call answers to.
EsAcquire(c) ==
    /\ esStage[c] = "waiting"
    /\ esLock = EsNobody
    /\ esLock' = c
    /\ esExpected' = [esExpected EXCEPT ![c] = esEpoch]
    /\ esStage' = [esStage EXCEPT ![c] = "locked"]
    /\ UNCHANGED <<esRequest, esCaller, esResult, esEpoch, esTokens, esCapture, esAt, esOut,
                   esQueue, esSinkVars>>

\* The native part is over: a buffered call returns, a producer thread
\* ends and its sender goes with it.
EsLeave(c, result) ==
    /\ esLock' = EsNobody
    /\ esCapture' = EsNoCapture
    /\ esAt' = 0
    /\ esStage' = [esStage EXCEPT ![c] = IF esRequest[c].stream THEN "produced" ELSE "ended"]
    /\ esResult' = [esResult EXCEPT ![c] = result]

\* Voice and parameters, the stream's metadata, the capture, espeak_Synth.
EsStart(c) ==
    /\ esStage[c] = "locked"
    /\ IF ~esRequest[c].known
       THEN EsLeave(c, "error") /\ UNCHANGED esQueue
       ELSE /\ esQueue' = IF esRequest[c].stream
                          THEN [esQueue EXCEPT ![c] = Append(@, [kind |-> "started"])]
                          ELSE esQueue
            /\ esCapture' = [EsNoCapture EXCEPT !.owner = c]
            /\ esAt' = 1
            /\ esStage' = [esStage EXCEPT ![c] = "native"]
            /\ UNCHANGED <<esLock, esResult>>
    /\ UNCHANGED <<esRequest, esCaller, esEpoch, esExpected, esTokens, esOut, esSinkVars>>

EsBlocks(c) == Len(esRequest[c].blocks)
EsAnchorRefs(marks) == {marks[m].ref : m \in {n \in 1..Len(marks) : marks[n].kind = "anchor"}}
EsRefused(capture, request, block) ==
    \/ capture.count + Len(block.marks) > EsMarkLimit
    \/ ~(EsAnchorRefs(block.marks) \subseteq DOMAIN request.anchors)
    \/ EsAnchorRefs(block.marks) \cap capture.reported # {}
    \/ capture.frames + block.frames > EsFrameLimit

\* The callback: 1, which ends the utterance, once the request is
\* cancelled or the block is refused.
EsCallback(c) ==
    /\ esStage[c] = "native"
    /\ esLock = c
    /\ esOut = <<>>
    /\ esAt <= EsBlocks(c)
    /\ LET block == esRequest[c].blocks[esAt]
           refused == EsRefused(esCapture, esRequest[c], block)
           ends == EsCancelled(c) \/ refused
       IN /\ esAt' = IF ends THEN EsBlocks(c) + 1 ELSE esAt + 1
          /\ esCapture' =
                IF EsCancelled(c) THEN esCapture
                ELSE IF refused THEN [esCapture EXCEPT !.failed = TRUE]
                ELSE [esCapture EXCEPT !.count = @ + Len(block.marks),
                                       !.reported = @ \cup EsAnchorRefs(block.marks),
                                       !.frames = @ + block.frames,
                                       !.marks = IF esRequest[c].stream THEN @
                                                 ELSE @ \o block.marks]
          /\ esOut' = IF ends \/ ~esRequest[c].stream THEN <<>>
                      ELSE EsMarksCall(block.marks) \o EsAudioCall(block.frames)
    /\ UNCHANGED <<esRequest, esStage, esCaller, esResult, esLock, esEpoch, esExpected,
                   esTokens, esQueue, esSinkVars>>

\* send_stream_event: tries, and gives up on a cancel or a gone consumer.
EsGivesUpOnCancel(c) == EsCancelled(c)
EsGivesUp(c) == EsCancelled(c) \/ esCaller[c] # "receiving"
EsSend(c) ==
    /\ esLock = c
    /\ esOut # <<>>
    /\ IF EsGivesUp(c)
       THEN /\ esOut' = <<>>
            /\ esAt' = EsBlocks(c) + 1
            /\ esCapture' = [esCapture EXCEPT !.failed = TRUE]
            /\ UNCHANGED esQueue
       ELSE /\ Len(esQueue[c]) < EsCapacity
            /\ esQueue' = [esQueue EXCEPT ![c] = Append(@, Head(esOut))]
            /\ esOut' = Tail(esOut)
            /\ UNCHANGED <<esAt, esCapture>>
    /\ UNCHANGED <<esRequest, esStage, esCaller, esResult, esLock, esEpoch, esExpected,
                   esTokens, esSinkVars>>

\* espeak_Synth failed, or espeak_Synchronize returned and the capture is
\* taken and judged.
EsJudged(c) ==
    IF \/ ~esRequest[c].status \/ EsCancelled(c) \/ esCapture.failed
       \/ Cardinality(esCapture.reported) # Len(esRequest[c].anchors)
    THEN "error" ELSE "ok"
EsBufferedCalls(c) ==
    LET end == esCapture.frames
        timings == EsTimings(esRequest[c], esCapture.marks)
        within == [m \in 1..Len(timings) |->
                     [timings[m] EXCEPT !.frame = IF @ < end THEN @ ELSE end]]
    IN IF end = 0 THEN <<>> ELSE EsAudioCall(end) \o EsMarksCall(within)
EsSynchronized(c) ==
    /\ esStage[c] = "native"
    /\ esOut = <<>>
    /\ esAt > EsBlocks(c) \/ (esAt = 1 /\ ~esRequest[c].status)
    /\ EsLeave(c, EsJudged(c))
    /\ esHeard' = IF esRequest[c].stream \/ EsJudged(c) = "error" THEN esHeard
                  ELSE [esHeard EXCEPT ![c] = EsBufferedCalls(c)]
    /\ UNCHANGED <<esRequest, esCaller, esEpoch, esExpected, esTokens, esOut, esQueue,
                   esPushed, esPending>>

------------------------------
\* The streaming caller.  Marks before a frame are the marks whose window
\* ends after it, in frame order; audio follows its marks.
EsByFrame(marks) == SortSeq(marks, LAMBDA m, n : m.frame < n.frame)
EsExtendUnsorted(pending, marks) == pending \o EsByFrame(marks)
EsExtend(pending, marks) == EsByFrame(pending \o EsByFrame(marks))
EsEmitBefore(pending, end) == SelectSeq(pending, LAMBDA m : m.frame < end)
EsEmitRest(pending, end) == SelectSeq(pending, LAMBDA m : m.frame >= end)

EsEmitWindow(state, frames) ==
    LET end == state.emitted + frames
    IN [emitted |-> end, pending |-> EsEmitRest(state.pending, end),
        calls |-> state.calls \o EsMarksCall(EsEmitBefore(state.pending, end))
                              \o EsAudioCall(frames)]

\* push: every complete window of what has been pushed and not converted.
EsConvert(c, frames) ==
    LET before == (esPushed[c] \div EsWindow) * EsWindow
        after == ((esPushed[c] + frames) \div EsWindow) * EsWindow
    IN FoldLeft(EsEmitWindow, [emitted |-> before, pending |-> esPending[c], calls |-> <<>>],
                [w \in 1..((after - before) \div EsWindow) |-> EsWindow])
\* finish: the rest of the PCM, and then every mark left.
EsFinish(c) ==
    LET before == (esPushed[c] \div EsWindow) * EsWindow
        last == EsEmitWindow([emitted |-> before, pending |-> esPending[c], calls |-> <<>>],
                             esPushed[c] - before)
    IN IF esPushed[c] = before THEN EsMarksCall(esPending[c])
       ELSE last.calls \o EsMarksCall(last.pending)

\* The sink takes the calls of one event, or refuses one of them: then the
\* receiver is dropped, which wakes a waiting callback.
EsReceive(c) ==
    /\ esCaller[c] = "receiving"
    /\ esQueue[c] # <<>>
    /\ LET event == Head(esQueue[c])
           converted == EsConvert(c, event.frames)
           calls == CASE event.kind = "started" -> <<event>>
                      [] event.kind = "marks"   -> <<>>
                      [] event.kind = "audio"   -> converted.calls
       IN \E taken \in 0..Len(calls) :
            /\ esHeard' = [esHeard EXCEPT ![c] = @ \o SubSeq(calls, 1, taken)]
            /\ esCaller' = IF taken < Len(calls) THEN [esCaller EXCEPT ![c] = "refused"]
                           ELSE esCaller
            /\ esQueue' = [esQueue EXCEPT ![c] = IF taken < Len(calls) THEN <<>> ELSE Tail(@)]
            /\ esPushed' = IF event.kind = "audio"
                           THEN [esPushed EXCEPT ![c] = @ + event.frames] ELSE esPushed
            /\ esPending' = CASE event.kind = "marks" ->
                                   [esPending EXCEPT ![c] =
                                       EsExtend(@, EsTimings(esRequest[c], event.marks))]
                              [] event.kind = "audio" ->
                                   [esPending EXCEPT ![c] = converted.pending]
                              [] event.kind = "started" -> esPending
    /\ UNCHANGED <<esRequest, esStage, esResult, esLock, esEpoch, esExpected, esTokens,
                   esCapture, esAt, esOut>>

\* The producer is joined: its error is the call's, unless the sink's was
\* first; otherwise the converter is flushed.
EsJoin(c) ==
    /\ esStage[c] = "produced"
    /\ esCaller[c] = "refused" \/ esQueue[c] = <<>>
    /\ LET calls == IF esCaller[c] = "receiving" /\ esResult[c] = "ok" THEN EsFinish(c)
                    ELSE <<>>
       IN \E taken \in 0..Len(calls) :
            /\ esHeard' = [esHeard EXCEPT ![c] = @ \o SubSeq(calls, 1, taken)]
            /\ esResult' = IF esCaller[c] = "refused" \/ taken < Len(calls)
                           THEN [esResult EXCEPT ![c] = "error"] ELSE esResult
    /\ esStage' = [esStage EXCEPT ![c] = "ended"]
    /\ esCaller' = [esCaller EXCEPT ![c] = "none"]
    /\ UNCHANGED <<esRequest, esLock, esEpoch, esExpected, esTokens, esCapture, esAt, esOut,
                   esQueue, esPushed, esPending>>

EsStop ==
    /\ esEpoch < EsMaxStops
    /\ esEpoch' = esEpoch + 1
    /\ UNCHANGED <<esRequest, esStage, esCaller, esResult, esLock, esExpected, esTokens,
                   esCapture, esAt, esOut, esQueue, esSinkVars>>
EsCancelToken(c) ==
    /\ esStage[c] # "ended"
    /\ c \notin esTokens
    /\ esTokens' = esTokens \cup {c}
    /\ UNCHANGED <<esRequest, esStage, esCaller, esResult, esLock, esEpoch, esExpected,
                   esCapture, esAt, esOut, esQueue, esSinkVars>>

EsNative(c) == EsAcquire(c) \/ EsStart(c) \/ EsCallback(c) \/ EsSend(c) \/ EsSynchronized(c)
EsStep(c) == EsEnter(c) \/ EsReceive(c) \/ EsJoin(c)
EsDone == (\A c \in EsCall : esStage[c] = "ended") /\ UNCHANGED esVars

EsNext ==
    \/ \E c \in EsCall : EsNative(c) \/ EsStep(c) \/ EsCancelToken(c)
    \/ EsStop
    \/ EsDone

EsSpec ==
    /\ EsInit /\ [][EsNext]_esVars
    /\ \A c \in EsCall : WF_esVars(EsNative(c)) /\ WF_esVars(EsStep(c))

------------------------------
EsFramesHeard(calls) ==
    FoldLeft(LAMBDA sum, h : IF h.kind = "audio" THEN sum + h.frames ELSE sum, 0, calls)
EsMarksHeard(c) ==
    FoldLeft(LAMBDA marks, h : IF h.kind = "marks" THEN marks \o h.marks ELSE marks, <<>>,
             esHeard[c])
EsFramesIn(blocks) == FoldLeft(LAMBDA sum, b : sum + b.frames, 0, blocks)
\* What the script's marks are in the source's own terms; a buffered call
\* moves a mark behind the end to it.
EsOwnMark(request, mark) ==
    LET end == EsFramesIn(request.blocks)
        frame == IF request.stream \/ mark.frame < end THEN mark.frame ELSE end
    IN IF mark.kind = "anchor" THEN [mark EXCEPT !.frame = frame]
       ELSE [kind |-> "word", frame |-> frame,
             ref |-> [start |-> EsBytes(request.text, mark.ref - 1),
                      end |-> EsBytes(request.text, mark.ref)]]
EsOwnMarks(request) ==
    UNION {{EsOwnMark(request, m) : m \in Range(request.blocks[b].marks)} :
           b \in DOMAIN request.blocks}

\* What the code assumes of the library: "eSpeak events describe the
\* accompanying PCM block" (espeak.rs:384), or as a later comment says PCM
\* yet to come.  No mark is for a frame that an earlier block held.
DescribesItsBlocks(request) ==
    \A b \in DOMAIN request.blocks : \A m \in Range(request.blocks[b].marks) :
        m.frame >= EsFramesIn(SubSeq(request.blocks, 1, b - 1))

\* The sink gets the marks of the request's own words and anchors, at
\* their bytes, and from a call that ends well all of them.  In a stream
\* whose marks describe their own block or a later one, each comes before
\* the audio at its frame and in frame order (emit_before,
\* EspeakInput::source_range).  Of a late mark no order is claimed:
\* emit_before has no check for it and hands it on with the next window.
MarksBeforeTheirAudio ==
    \A c \in EsCall :
        LET marks == EsMarksHeard(c)
            request == esRequest[c]
        IN /\ Range(marks) \subseteq EsOwnMarks(request) \cup Range(AnchorsAtZero(request))
           /\ request.stream /\ DescribesItsBlocks(request) =>
                /\ \A h \in 1..Len(esHeard[c]) : esHeard[c][h].kind = "marks" =>
                      \A m \in Range(esHeard[c][h].marks) :
                         m.frame >= EsFramesHeard(SubSeq(esHeard[c], 1, h - 1))
                /\ \A m \in 1..(Len(marks) - 1) : marks[m].frame <= marks[m + 1].frame
           /\ (esResult[c] = "ok" /\ esStage[c] = "ended" /\ EsFramesHeard(esHeard[c]) > 0) =>
                Range(marks) = EsOwnMarks(request)

\* Every call ends, also when its sink refuses while a callback waits on a
\* full channel with the library's lock held.
EspeakOwed == \E c \in EsCall : esStage[c] \notin {"idle", "ended"}
EspeakMet == \A c \in EsCall : esStage[c] \in {"idle", "ended"}
=============================================================================
