-------------------------- MODULE CallbackHelpers --------------------------
(***************************************************************************)
(* The RHVoice, Flite and RuTTS helpers' engines.  Each runs one blocking  *)
(* native call per request; the native library calls back with rates, PCM, *)
(* words and marks, and the callbacks fill a capture: a buffer, or the     *)
(* host's stream sink.  The host's reader thread cancels the active        *)
(* request meanwhile: its token, then the engine's process-wide stop flag, *)
(* which the engine clears when it begins the next request.                *)
(*                                                                         *)
(* A request carries its native script: the callbacks the library makes    *)
(* for it while they ask to continue.  A text is a sequence of characters  *)
(* with their UTF-8 width and the width of their SSML escape.              *)
(***************************************************************************)
EXTENDS Naturals, Sequences, FiniteSets, SequencesExt

CONSTANTS
    CbRequests,      \* [engine, stream, text, anchors, script, status]
    CbMaxServed,     \* bound on the requests one helper serves
    CbSampleLimit,   \* MAX_NATIVE_SAMPLES
    CbMarkerLimit    \* MAX_HELPER_MARKERS

VARIABLES
    cbServed,     \* requests served so far
    cbRequest,    \* the active request
    cbPhase,      \* idle, accepted, native, inside, returned, ended
    cbToken,      \* the active request's cancellation token
    cbFlag,       \* the engine's stop flag
    cbCancelling, \* the host is between token.cancel() and engine.stop()
    cbNext,       \* position in the native script
    cbCapture,    \* the capture the callbacks fill
    cbResult      \* what the engine's call returned

cbVars == <<cbServed, cbRequest, cbPhase, cbToken, cbFlag, cbCancelling, cbNext,
            cbCapture, cbResult>>

EmptyCapture ==
    [rate |-> 0, samples |-> 0, markers |-> 0, pending |-> <<>>, reported |-> {},
     timed |-> FALSE, last |-> FALSE, failed |-> FALSE, heard |-> <<>>]

------------------------------
\* RHVoice input.  With anchors the text becomes SSML, and every generated
\* byte boundary is mapped to the boundary of the source it came from.
SPEAK_OPEN == 7
MARK_WIDTH == 3
SPEAK_CLOSE == 8

Constantly(n, value) == [k \in 1..n |-> value]
AppendLastByteEarly(boundaries, width, from, to) == boundaries \o Constantly(width, from)
AppendGenerated(boundaries, width, from, to) ==
    boundaries \o Constantly(width - 1, from) \o <<to>>

SourceWidth(text, n) == FoldLeft(LAMBDA sum, c : sum + c.width, 0, SubSeq(text, 1, n))
MarksAt(request, offset) ==
    Cardinality({a \in 1..Len(request.anchors) : request.anchors[a].offset = offset})

\* The marks at an offset come before the character that starts there.
AppendMarks(boundaries, request, offset) ==
    FoldLeft(LAMBDA b, m : AppendGenerated(b, MARK_WIDTH, offset, offset), boundaries,
             [m \in 1..MarksAt(request, offset) |-> m])
GeneratedBefore(request, n) ==
    LET Upto(b, c) ==
            LET from == SourceWidth(request.text, c - 1)
            IN AppendGenerated(AppendMarks(b, request, from), request.text[c].escaped,
                               from, from + request.text[c].width)
    IN FoldLeft(Upto, AppendGenerated(<<0>>, SPEAK_OPEN, 0, 0), [c \in 1..n |-> c])
SourceBoundaries(request) ==
    LET end == SourceWidth(request.text, Len(request.text))
    IN AppendGenerated(AppendMarks(GeneratedBefore(request, Len(request.text)),
                                   request, end), SPEAK_CLOSE, end, end)

\* Where the native library sees a character: after the marks before it.
NativeStart(request, c) ==
    IF request.anchors = <<>> THEN SourceWidth(request.text, c - 1)
    ELSE Len(AppendMarks(GeneratedBefore(request, c - 1), request,
                         SourceWidth(request.text, c - 1))) - 1
NativeEnd(request, c) ==
    IF request.anchors = <<>> THEN SourceWidth(request.text, c)
    ELSE Len(GeneratedBefore(request, c)) - 1

SourceRange(request, start, end) ==
    IF request.anchors = <<>> THEN <<start, end>>
    ELSE <<SourceBoundaries(request)[start + 1], SourceBoundaries(request)[end + 1]>>

------------------------------
\* What callbacks do to a capture.  A buffer takes everything; a stream's
\* sink refuses once the token is set, which fails the capture.
Emit(c, events) ==
    IF events = <<>> THEN c
    ELSE IF cbRequest.stream /\ cbToken THEN [c EXCEPT !.failed = TRUE]
    ELSE [c EXCEPT !.heard = @ \o events]
Failed(c) == [c EXCEPT !.failed = TRUE]

WordEvent(c, callback) ==
    [kind |-> "word", frame |-> c.samples, word |-> callback.word,
     range |-> SourceRange(cbRequest, NativeStart(cbRequest, callback.word[1]),
                           NativeEnd(cbRequest, callback.word[2]))]
AnchorEvent(c, index) == [kind |-> "anchor", frame |-> c.samples, anchor |-> index]
AudioEvent(frames) == [kind |-> "audio", frames |-> frames]

\* A stream cannot place events before it knows the rate: it keeps them.
Place(c, event) ==
    IF cbRequest.stream /\ c.rate = 0 THEN [c EXCEPT !.pending = Append(@, event)]
    ELSE Emit(c, <<event>>)

IsWord(event) == event.kind = "word"
IsAnchor(event) == event.kind = "anchor"

\* set_sample_rate: a changed rate fails; the first one releases the
\* pending markers and then the pending anchors.
SetSampleRateWordsOnly(c, rate) ==
    LET known == [c EXCEPT !.rate = rate]
    IN IF c.rate # 0 /\ c.rate # rate THEN Failed(known)
       ELSE IF c.rate # 0 THEN known
       ELSE Emit([known EXCEPT !.pending = <<>>], SelectSeq(c.pending, IsWord))
SetSampleRate(c, rate) ==
    LET known == [c EXCEPT !.rate = rate]
        words == Emit([known EXCEPT !.pending = <<>>], SelectSeq(c.pending, IsWord))
    IN IF c.rate # 0 /\ c.rate # rate THEN Failed(known)
       ELSE IF c.rate # 0 THEN known
       ELSE IF words.failed THEN words
       ELSE Emit(words, SelectSeq(c.pending, IsAnchor))

PlaySpeech(c, frames) ==
    IF c.samples + frames > CbSampleLimit THEN Failed(c)
    ELSE IF cbRequest.stream /\ c.rate = 0 THEN Failed([c EXCEPT !.samples = @ + frames])
    ELSE Emit([c EXCEPT !.samples = @ + frames], <<AudioEvent(frames)>>)

RecordMarker(c, callback) ==
    IF c.markers >= CbMarkerLimit THEN Failed(c)
    ELSE Place([c EXCEPT !.markers = @ + 1], WordEvent(c, callback))

RecordAnchor(c, index) ==
    IF index > Len(cbRequest.anchors) \/ index \in c.reported THEN Failed(c)
    ELSE Place([c EXCEPT !.reported = @ \cup {index}], AnchorEvent(c, index))

RhVoiceCallback(c, callback) ==
    CASE callback.call = "rate" -> SetSampleRate(c, callback.rate)
      [] callback.call = "play" -> PlaySpeech(c, callback.frames)
      [] callback.call = "word" -> RecordMarker(c, callback)
      [] callback.call = "mark" -> RecordAnchor(c, callback.anchor)

\* Flite: the words of the utterance come with the first chunk; an anchor
\* is the first word at or after it, or the last at or before it.
WordStarts(words) == {words[w].start : w \in 1..Len(words)}
AnchorWord(anchor, words) ==
    IF anchor.before
    THEN {w \in 1..Len(words) : /\ words[w].start >= anchor.offset
                                /\ \A s \in WordStarts(words) :
                                      s >= anchor.offset => words[w].start <= s}
    ELSE {w \in 1..Len(words) : /\ words[w].start <= anchor.offset
                                /\ \A s \in WordStarts(words) :
                                      s <= anchor.offset => words[w].start >= s}
ResolveWordAnchors(anchors, words) ==
    [a \in 1..Len(anchors) |->
        LET found == AnchorWord(anchors[a], words)
        IN [kind |-> "anchor", anchor |-> a,
            frame |-> IF found = {} THEN CbSampleLimit + 1   \* omitted
                      ELSE words[CHOOSE w \in found : TRUE].frame]]
WordsFit(words) ==
    /\ Len(words) <= CbMarkerLimit
    /\ \A w \in 1..Len(words) : words[w].start <= SourceWidth(cbRequest.text, Len(cbRequest.text))
WordMarkers(words) ==
    [w \in 1..Len(words) |-> [kind |-> "flite word", frame |-> words[w].frame]]

Timing(c, words) ==
    IF c.timed THEN IF words = <<>> THEN c ELSE Failed(c)
    ELSE IF ~WordsFit(words) THEN Failed(c)
    ELSE LET anchors == IF cbRequest.stream THEN ResolveWordAnchors(cbRequest.anchors, words)
                        ELSE <<>>
         IN [Emit(c, WordMarkers(words) \o anchors) EXCEPT !.timed = TRUE]
ConsumeChunk(c, callback) ==
    IF c.rate # 0 /\ c.rate # callback.rate THEN Failed([c EXCEPT !.rate = callback.rate])
    ELSE LET timed == Timing([c EXCEPT !.rate = callback.rate], callback.words)
             played == [timed EXCEPT !.samples = @ + callback.frames]
         IN IF timed.failed \/ played.samples > CbSampleLimit THEN Failed(timed)
            ELSE LET out == IF callback.frames = 0 THEN played
                            ELSE Emit(played, <<AudioEvent(callback.frames)>>)
                 IN IF out.failed THEN out ELSE [out EXCEPT !.last = @ \/ callback.last]

\* RuTTS: signed bytes at a fixed rate, no marks.
ConsumePcm(c, frames) ==
    IF c.samples + frames > CbSampleLimit THEN Failed(c)
    ELSE Emit([c EXCEPT !.samples = @ + frames], <<AudioEvent(frames)>>)

Consume(c, callback) ==
    CASE cbRequest.engine = "rhvoice" -> RhVoiceCallback(c, callback)
      [] cbRequest.engine = "flite"   -> ConsumeChunk(c, callback)
      [] cbRequest.engine = "rutts"   -> ConsumePcm(c, callback.frames)

\* The rate and word callbacks of RHVoice do not ask first whether to go
\* on, and Flite's buffered call has no callback: its result is one chunk.
AsksFirst(callback) ==
    /\ cbRequest.engine = "rhvoice" => callback.call \notin {"rate", "word"}
    /\ cbRequest.engine = "flite" => cbRequest.stream

------------------------------
CbInit ==
    /\ cbServed = 0
    /\ cbRequest \in CbRequests
    /\ cbPhase = "idle"
    /\ cbToken = FALSE
    /\ cbFlag = FALSE
    /\ cbCancelling = FALSE
    /\ cbNext = 1
    /\ cbCapture = EmptyCapture
    /\ cbResult = "none"

CbCancelled == cbToken \/ cbFlag

CbAccept ==
    /\ cbPhase = "idle"
    /\ cbServed < CbMaxServed
    /\ cbRequest' \in {r \in CbRequests : r.engine = cbRequest.engine}
    /\ cbServed' = cbServed + 1
    /\ cbPhase' = "accepted"
    /\ cbToken' = FALSE
    /\ cbNext' = 1
    /\ cbCapture' = EmptyCapture
    /\ cbResult' = "none"
    /\ UNCHANGED <<cbFlag, cbCancelling>>

(* RuTTS refuses what KOI8-R cannot say. *)
Encodable(request) ==
    request.engine = "rutts" => \A c \in Range(request.text) : c.koi

\* What each engine answers to an empty text: Flite's buffered call and
\* RuTTS report no anchors.
EmptyAnchors ==
    CASE cbRequest.engine = "rhvoice" ->
            [a \in 1..Len(cbRequest.anchors) |-> AnchorEvent(EmptyCapture, a)]
      [] cbRequest.engine = "flite" /\ cbRequest.stream ->
            ResolveWordAnchors(cbRequest.anchors, <<>>)
      [] OTHER -> <<>>

\* sink.start, an empty text, the encoding, and then the stop flag of an
\* earlier request is cleared and the native call begins.
BeginKeepingFlag ==
    /\ cbPhase = "accepted"
    /\ cbFlag' = cbFlag
    /\ cbPhase' = "native"
    /\ UNCHANGED <<cbServed, cbRequest, cbToken, cbCancelling, cbNext, cbCapture, cbResult>>
CbBegin ==
    /\ cbPhase = "accepted"
    /\ IF \/ cbRequest.stream /\ cbToken
          \/ ~Encodable(cbRequest)
       THEN /\ cbPhase' = "ended"
            /\ cbResult' = "error"
            /\ UNCHANGED <<cbFlag, cbCapture>>
       ELSE IF cbRequest.text = <<>>
       THEN /\ cbPhase' = "ended"
            /\ cbResult' = "ok"
            /\ cbCapture' = Emit(cbCapture, EmptyAnchors)
            /\ UNCHANGED cbFlag
       ELSE /\ cbPhase' = "native"
            /\ cbFlag' = FALSE
            /\ UNCHANGED <<cbCapture, cbResult>>
    /\ UNCHANGED <<cbServed, cbRequest, cbToken, cbCancelling, cbNext>>

\* The library's next callback: entry, which asks whether to continue, and
\* the rest, during which the host may cancel.
CbEnter ==
    /\ cbPhase = "native"
    /\ cbNext <= Len(cbRequest.script)
    /\ cbPhase' = IF AsksFirst(cbRequest.script[cbNext]) /\ (CbCancelled \/ cbCapture.failed)
                  THEN "returned" ELSE "inside"
    /\ UNCHANGED <<cbServed, cbRequest, cbToken, cbFlag, cbCancelling, cbNext, cbCapture,
                   cbResult>>
CbConsume ==
    /\ cbPhase = "inside"
    /\ cbCapture' = Consume(cbCapture, cbRequest.script[cbNext])
    /\ cbNext' = cbNext + 1
    /\ cbPhase' = IF cbCapture'.failed \/ CbCancelled THEN "returned" ELSE "native"
    /\ UNCHANGED <<cbServed, cbRequest, cbToken, cbFlag, cbCancelling, cbResult>>
CbNativeEnds ==
    /\ cbPhase = "native"
    /\ cbNext > Len(cbRequest.script)
    /\ cbPhase' = "returned"
    /\ UNCHANGED <<cbServed, cbRequest, cbToken, cbFlag, cbCancelling, cbNext, cbCapture,
                   cbResult>>

\* The checks after the native call, in each engine's order.  Flite's
\* buffered call reads the stop flag and never the token.
RhVoiceAccepts(c) ==
    /\ ~CbCancelled
    /\ ~c.failed
    /\ Cardinality(c.reported) = Len(cbRequest.anchors)
    /\ cbRequest.status
    /\ c.samples > 0 => c.rate # 0
FliteStreamAccepts(c) ==
    ~c.failed /\ ~CbCancelled /\ cbRequest.status /\ c.timed /\ c.last /\ c.samples # 0
FliteAccepts(c) == ~c.failed /\ cbRequest.status /\ ~cbFlag /\ c.samples # 0
RuttsAccepts(c) == ~c.failed /\ ~CbCancelled /\ cbRequest.status /\ c.samples # 0
Accepted(c) ==
    CASE cbRequest.engine = "rhvoice" -> RhVoiceAccepts(c)
      [] cbRequest.engine = "flite" /\ cbRequest.stream -> FliteStreamAccepts(c)
      [] cbRequest.engine = "flite" /\ ~cbRequest.stream -> FliteAccepts(c)
      [] cbRequest.engine = "rutts" -> RuttsAccepts(c)
CbReturn ==
    /\ cbPhase = "returned"
    /\ cbResult' = IF Accepted(cbCapture) THEN "ok" ELSE "error"
    /\ cbPhase' = "ended"
    /\ UNCHANGED <<cbServed, cbRequest, cbToken, cbFlag, cbCancelling, cbNext, cbCapture>>

\* The worker publishes the terminal under the host's lock, which a cancel
\* holds until it has also stopped the engine: a set token is cancelled.
CbPublish ==
    /\ cbPhase = "ended"
    /\ ~cbCancelling
    /\ cbResult' = IF cbToken THEN "cancelled" ELSE cbResult
    /\ cbPhase' = "idle"
    /\ UNCHANGED <<cbServed, cbRequest, cbToken, cbFlag, cbCancelling, cbNext, cbCapture>>

CbCancelToken ==
    /\ cbPhase # "idle"
    /\ ~cbToken
    /\ cbToken' = TRUE
    /\ cbCancelling' = TRUE
    /\ UNCHANGED <<cbServed, cbRequest, cbPhase, cbFlag, cbNext, cbCapture, cbResult>>
CbStop ==
    /\ cbCancelling
    /\ cbFlag' = TRUE
    /\ cbCancelling' = FALSE
    /\ UNCHANGED <<cbServed, cbRequest, cbPhase, cbToken, cbNext, cbCapture, cbResult>>

CbDone ==
    /\ cbPhase = "idle"
    /\ cbServed = CbMaxServed
    /\ UNCHANGED cbVars

CbNextStep ==
    \/ CbAccept \/ CbBegin \/ CbEnter \/ CbConsume \/ CbNativeEnds \/ CbReturn
    \/ CbPublish \/ CbCancelToken \/ CbStop \/ CbDone

CbSpec == CbInit /\ [][CbNextStep]_cbVars

------------------------------
\* A stop meant for an earlier request never ends a later one: a request
\* nobody cancelled goes through every callback its library makes.
StopsOnlyItsRequest ==
    cbPhase = "returned" /\ ~cbToken =>
        cbCapture.failed \/ cbNext > Len(cbRequest.script)

\* A completed RHVoice request that produced audio answered every anchor
\* exactly once, at the frames its library had produced before the mark,
\* even for marks made before the rate was known.
MarksBefore(request, a) ==
    CHOOSE k \in 1..Len(request.script) :
        request.script[k].call = "mark" /\ request.script[k].anchor = a
FramesBefore(request, k) ==
    FoldLeft(LAMBDA sum, callback : sum + (IF callback.call = "play" THEN callback.frames ELSE 0),
             0, SubSeq(request.script, 1, k - 1))
AnchorsAnswered ==
    cbPhase = "ended" /\ cbResult = "ok" /\ cbRequest.engine = "rhvoice" /\ cbCapture.samples > 0 =>
        LET heard == SelectSeq(cbCapture.heard, IsAnchor)
        IN /\ Len(heard) = Len(cbRequest.anchors)
           /\ \A a \in 1..Len(cbRequest.anchors) : \E h \in Range(heard) :
                 /\ h.anchor = a
                 /\ h.frame = FramesBefore(cbRequest, MarksBefore(cbRequest, a))

\* A word RHVoice finds in the generated SSML is reported at the bytes it
\* has in the caller's text, whatever was escaped or marked around it.
WordsAtTheirSource ==
    \A h \in Range(cbCapture.heard) :
        h.kind = "word" => h.range = <<SourceWidth(cbRequest.text, h.word[1] - 1),
                                       SourceWidth(cbRequest.text, h.word[2])>>
=============================================================================
