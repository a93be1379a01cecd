------------------------------ MODULE HelperWire ------------------------------
(***************************************************************************)
(* One synthesis over the helper wire, end to end: the engine behind the    *)
(* shared helper host (buffered, or through ProgressiveWireSink), the       *)
(* responses on the pipe, and the collectors of the helper engine client    *)
(* that turn them back into a result or into calls of the speech sink.      *)
(* A helper that is not built on the shared host is any sender of           *)
(* well-typed responses.  HelperHost and HelperEngine model the processes,  *)
(* requests and cancellations around this stream; here the subject is the   *)
(* stream itself: sequence numbers, frame clocks, markers and anchors.      *)
(***************************************************************************)
EXTENDS Integers, Sequences, SequencesExt, FiniteSets, FiniteSetsExt

CONSTANTS
    HwChunk,       \* MAX_HELPER_AUDIO_CHUNK_BYTES, in frames
    HwFrameLimit,  \* MAX_HELPER_SYNTHESIS_BYTES, in frames
    HwMarkLimit,   \* MAX_HELPER_MARKERS
    HwInputWindow, \* INPUT_WINDOW_FRAMES of the canonicalizer
    HwFilterDelay, \* canonical frames the sinc filter holds back (external)
    HwAnchors,     \* the request's anchors: <<[id, offset, affinity], ...>>
    HwWordStarts,  \* text offsets of the request's words
    HwSizes,       \* sizes of the audio windows an engine may emit
    HwMaxCalls,    \* bound: calls a progressive engine, or responses a foreign helper, makes
    HwMaxStops     \* bound: stops requested by the client's user

ASSUME HwAssumption ==
    /\ {HwChunk, HwFrameLimit, HwMarkLimit, HwInputWindow} \subseteq Nat \ {0}
    /\ HwFilterDelay \in Nat /\ HwMaxCalls \in Nat /\ HwMaxStops \in Nat
    /\ HwWordStarts \subseteq Nat /\ HwSizes \subseteq Nat

VARIABLES
    hwHost,    \* the helper: its worker, ProgressiveWireSink's counters and the engine's log
    hwWire,    \* responses written and not yet received
    hwClient,  \* the collector of the request in flight
    hwSink,    \* calls of the speech sink, in order (or the one buffered result)
    hwStop     \* [count, sent, heard]: stops, the cancel frame, the host's token

hwVars == <<hwHost, hwWire, hwClient, hwSink, hwStop>>

HwAnchorIds == {HwAnchors[i].id : i \in DOMAIN HwAnchors}

\* A marker: kind "word" (at = text_start) or "anchor" (at = id), its frame
\* (-1: frame_offset is None), and the resolution of an anchor.
HwWord(start, frame) == [kind |-> "word", at |-> start, frame |-> frame, res |-> "none"]
HwAnchor(id, frame, res) == [kind |-> "anchor", at |-> id, frame |-> frame, res |-> res]

HwByFrame(ms) == SortSeq(ms, LAMBDA a, b : a.frame < b.frame)

------------------------------
\* SynthesisResult: anchors resolved and validated on both ends.

HwWordsOf(ms) == {ms[i] : i \in {j \in DOMAIN ms : ms[j].kind = "word"}}

\* approximate_at_word_boundary
HwApproximate(a, words, frames) ==
    LET near == {w \in words : IF a.affinity = "before" THEN w.at >= a.offset ELSE w.at <= a.offset}
        best == {w \in near : \A v \in near : IF a.affinity = "before" THEN w.at <= v.at ELSE w.at >= v.at}
    IN  IF near = {} THEN HwAnchor(a.id, -1, "omitted")
        ELSE HwAnchor(a.id, Min({(CHOOSE w \in best : TRUE).frame, frames}), "word_boundary")

\* resolve_anchors: what the engine reported stays, the rest is approximated,
\* in request order.
HwResolveAnchors(words, anchors, frames) ==
    [i \in DOMAIN HwAnchors |->
        LET reported == {anchors[k] : k \in {j \in DOMAIN anchors : anchors[j].at = HwAnchors[i].id}}
        IN  IF reported # {} THEN CHOOSE r \in reported : TRUE
            ELSE HwApproximate(HwAnchors[i], words, frames)]

\* SynthesisResult::validate (the voice identities agree by construction here)
HwValid(words, anchors, frames) ==
    /\ \A w \in words : w.frame <= frames
    /\ \A i \in DOMAIN anchors : (anchors[i].res = "omitted") = (anchors[i].frame = -1)
    /\ \A i \in DOMAIN anchors : anchors[i].frame <= frames

------------------------------
\* The wire.

HwFrames(n, seq) == [type |-> "audio", seq |-> seq, n |-> n]
HwMarks(ms) == [type |-> "markers", marks |-> ms]
HwStarted(rate) == [type |-> "started", rate |-> rate]
HwCompleted(n) == [type |-> "completed", n |-> n]
HwCancelled == [type |-> "cancelled"]
HwError(retryable) == [type |-> "error", retryable |-> retryable]
HwTerminal(r) == r.type \in {"completed", "cancelled", "error"}

\* Mutant: a progressive batch forgets the resolutions, as a buffered reply does.
HwWireMarksExactOnly(marks, resolutions) ==
    LET kept == SelectSeq(marks, LAMBDA m : m.kind = "word" \/ m.res = "exact")
    IN  HwByFrame([i \in DOMAIN kept |-> [kept[i] EXCEPT !.res = "none"]])

\* helper_markers_from_parts: a buffered result keeps only exact anchors, a
\* progressive batch every resolution, an omitted one at frame 0.
HwWireMarks(marks, resolutions) ==
    LET kept == SelectSeq(marks, LAMBDA m :
                    m.kind = "word" \/ resolutions \/ m.res = "exact")
    IN  HwByFrame([i \in DOMAIN kept |->
            [kept[i] EXCEPT !.frame = IF @ = -1 THEN 0 ELSE @,
                            !.res = IF resolutions THEN @ ELSE "none"]])

\* split_helper_markers, for one marker
HwSplit(m) ==
    IF m.kind = "word" THEN m
    ELSE LET res == IF m.res = "none" THEN "exact" ELSE m.res
         IN  HwAnchor(m.at, IF res = "omitted" THEN -1 ELSE m.frame, res)

------------------------------
\* The helper's side.

HwNoHost == [kind |-> "shared", pc |-> "idle", started |-> FALSE, seq |-> 0,
             frames |-> 0, window |-> 0, left |-> 0, bytes |-> 0, marks |-> 0,
             last |-> 0, calls |-> 0, log |-> <<>>, terminal |-> HwCancelled]

HwSend(rs) == hwWire' = hwWire \o rs

\* ProgressiveWireSink::ensure_active fails once the token is cancelled.
HwActive == ~hwStop.heard

\* A sink call that returns an error: the engine gives up and returns it.
HwRefused == hwHost' = [hwHost EXCEPT !.pc = "failed"] /\ UNCHANGED hwWire

\* ensure_started: what is sent when nothing has started the stream yet
HwEnsureStarted == IF hwHost.started THEN <<>> ELSE <<HwStarted("standard")>>

\* start: refused twice, for a cancelled request or for another voice.
HwEngineStarts(rightVoice) ==
    /\ hwHost.pc = "progressive"
    /\ IF HwActive /\ ~hwHost.started /\ rightVoice
       THEN /\ HwSend(HwEnsureStarted)
            /\ hwHost' = [hwHost EXCEPT !.started = TRUE]
       ELSE HwRefused
    /\ UNCHANGED <<hwClient, hwSink, hwStop>>

\* audio: the window is accepted whole, then sent chunk by chunk.
HwEngineAudio(n) ==
    /\ hwHost.pc = "progressive" /\ hwHost.calls < HwMaxCalls
    /\ IF HwActive /\ hwHost.started /\ n > 0 /\ hwHost.bytes + n <= HwFrameLimit
       THEN hwHost' = [hwHost EXCEPT !.pc = "sending", !.window = n, !.left = n,
                                     !.bytes = @ + n, !.calls = @ + 1]
       ELSE hwHost' = [hwHost EXCEPT !.pc = "failed"]
    /\ UNCHANGED <<hwWire, hwClient, hwSink, hwStop>>

\* one chunk of the window; frame_count grows when the last one is sent
HwSendChunk ==
    /\ hwHost.pc = "sending"
    /\ IF ~HwActive THEN HwRefused
       ELSE LET n == Min({HwChunk, hwHost.left}) IN
            /\ HwSend(<<HwFrames(n, hwHost.seq)>>)
            /\ hwHost' = [hwHost EXCEPT
                    !.seq = @ + 1, !.left = @ - n,
                    !.pc = IF hwHost.left = n THEN "progressive" ELSE @,
                    !.frames = IF hwHost.left = n THEN @ + hwHost.window ELSE @,
                    !.log = IF hwHost.left = n THEN Append(@, <<"audio", hwHost.window>>) ELSE @]
    /\ UNCHANGED <<hwClient, hwSink, hwStop>>

\* Mutant: only the number of markers is checked.
HwBatchOkUnordered(ms, sofar, frames, last) ==
    sofar + Len(ms) <= HwMarkLimit

\* What both ends ask of a batch: no more than the limit in all, each marker
\* at or after the audio already sent, and none before an earlier one.
HwBatchOk(ms, sofar, frames, last) ==
    /\ sofar + Len(ms) <= HwMarkLimit
    /\ \A i \in DOMAIN ms : ms[i].frame >= frames
    /\ \A i \in DOMAIN ms : ms[i].frame >= (IF i = 1 THEN last ELSE ms[i - 1].frame)

HwEngineMarkers(batch) ==
    /\ hwHost.pc = "progressive" /\ hwHost.calls < HwMaxCalls
    /\ LET ms == HwWireMarks(batch, TRUE) IN
       IF /\ HwActive /\ hwHost.started /\ ms # <<>>
          /\ HwBatchOk(ms, hwHost.marks, hwHost.frames, hwHost.last)
       THEN /\ HwSend(<<HwMarks(ms)>>)
            /\ hwHost' = [hwHost EXCEPT !.marks = @ + Len(ms), !.last = Last(ms).frame,
                                        !.calls = @ + 1,
                                        !.log = Append(@, <<"markers", ToSet(batch)>>)]
       ELSE HwRefused
    /\ UNCHANGED <<hwClient, hwSink, hwStop>>

\* complete: the engine's count is the frames sent and no marker is beyond it.
HwComplete(count) ==
    count = hwHost.frames /\ (hwHost.marks > 0 => hwHost.last <= count)

\* progressive_synthesis_worker after the engine returned; unless the request
\* was cancelled, the stream is started first if it was not.
HwEngineReturns(count) ==
    /\ hwHost.pc \in {"progressive", "failed"}
    /\ HwSend(IF HwActive THEN HwEnsureStarted ELSE <<>>)
    /\ hwHost' = [hwHost EXCEPT !.pc = "ending", !.started = @ \/ HwActive,
            !.terminal = IF ~HwActive THEN HwCancelled
                         ELSE IF hwHost.pc = "progressive" /\ HwComplete(count)
                              THEN HwCompleted(count) ELSE HwError(TRUE)]
    /\ UNCHANGED <<hwClient, hwSink, hwStop>>

\* The buffered worker: the engine's whole result, resolved and validated, and
\* emit_result's way of sending it.  -1: the engine failed.
HwBufferedResult(n, words, exact) ==
    /\ hwHost.pc = "buffered"
    /\ LET ws == {HwWord(s, words[s]) : s \in DOMAIN words}
           es == SetToSeq({HwAnchor(id, exact[id], "exact") : id \in DOMAIN exact})
           anchors == HwResolveAnchors(ws, es, n)
       IN  hwHost' =
             IF n >= 0 /\ HwActive /\ HwValid(ws, anchors, n) /\ n <= HwFrameLimit
             THEN [hwHost EXCEPT !.pc = "emitting", !.left = n, !.frames = n,
                                 !.log = SetToSeq(ws) \o anchors]
             ELSE [hwHost EXCEPT !.pc = "ending",
                                 !.terminal = IF HwActive THEN HwError(TRUE) ELSE HwCancelled]
    /\ UNCHANGED <<hwWire, hwClient, hwSink, hwStop>>

\* emit_result: the chunks, each only while not cancelled, then the markers
HwEmitChunk ==
    /\ hwHost.pc = "emitting" /\ hwHost.left > 0
    /\ IF ~HwActive
       THEN hwHost' = [hwHost EXCEPT !.pc = "ending", !.terminal = HwCancelled] /\ UNCHANGED hwWire
       ELSE LET n == Min({HwChunk, hwHost.left}) IN
            /\ HwSend(<<HwFrames(n, hwHost.seq)>>)
            /\ hwHost' = [hwHost EXCEPT !.seq = @ + 1, !.left = @ - n]
    /\ UNCHANGED <<hwClient, hwSink, hwStop>>

HwEmitMarkers ==
    /\ hwHost.pc = "emitting" /\ hwHost.left = 0
    /\ LET ms == HwWireMarks(hwHost.log, FALSE) IN
       IF Len(ms) > HwMarkLimit
       THEN /\ hwHost' = [hwHost EXCEPT !.pc = "ending", !.terminal = HwError(TRUE)]
            /\ UNCHANGED hwWire
       ELSE /\ HwSend(IF ms = <<>> THEN <<>> ELSE <<HwMarks(ms)>>)
            /\ hwHost' = [hwHost EXCEPT !.pc = "ending",
                   !.terminal = IF HwActive THEN HwCompleted(hwHost.frames) ELSE HwCancelled]
    /\ UNCHANGED <<hwClient, hwSink, hwStop>>

\* finish_synthesis: a cancel heard until now wins over the terminal chosen
HwFinishSynthesis ==
    /\ hwHost.pc = "ending"
    /\ HwSend(<<IF HwActive THEN hwHost.terminal ELSE HwCancelled>>)
    /\ hwHost' = [hwHost EXCEPT !.pc = "done"]
    /\ UNCHANGED <<hwClient, hwSink, hwStop>>

\* External: a helper of another build sends whatever the protocol's types allow.
HwForeignSends(r) ==
    /\ hwHost.pc = "foreign" /\ hwHost.calls < HwMaxCalls
    /\ HwSend(<<r>>)
    /\ hwHost' = [hwHost EXCEPT !.calls = @ + 1]
    /\ UNCHANGED <<hwClient, hwSink, hwStop>>

HwForeignResponses ==
    {HwStarted(r) : r \in {"standard", "half"}} \cup {HwCancelled}
    \cup {HwFrames(n, s) : n \in HwSizes, s \in 0..1}
    \cup {HwMarks(<<HwWord(0, f)>>) : f \in 0..HwFrameLimit}
    \cup {HwCompleted(n) : n \in 0..HwFrameLimit}

------------------------------
\* The client's side.

\* canonical_frame_offset, for a helper at the standard or at half the rate
HwCanonical(rate, f) == IF rate = "standard" THEN f ELSE 2 * f

HwNoClient == [mode |-> "none", phase |-> "idle", rate |-> "standard", seq |-> 0,
               source |-> 0, out |-> 0, count |-> 0, last |-> 0, marks |-> <<>>,
               stopped |-> FALSE, epoch |-> 0, draining |-> FALSE, outcome |-> "none",
               connection |-> "kept"]

\* handle_synthesis: a voice the helper lacks is refused at once; a buffered
\* stream is started before its worker, a progressive one by its engine.
HwHandleSynthesis(mode, kind, knownVoice) ==
    /\ hwHost' = [HwNoHost EXCEPT
            !.kind = kind,
            !.pc = IF kind = "foreign" THEN "foreign" ELSE IF knownVoice THEN mode ELSE "done"]
    /\ hwWire' = IF kind = "foreign" THEN <<>>
                 ELSE IF ~knownVoice THEN <<HwError(FALSE)>>
                 ELSE IF mode = "buffered" THEN <<HwStarted("standard")>> ELSE <<>>

\* the client dispatches a request and makes its collector
HwDispatch(mode, kind, knownVoice) ==
    /\ hwClient.phase = "idle"
    /\ hwClient' = [HwNoClient EXCEPT !.mode = mode, !.phase = "awaiting", !.epoch = hwStop.count]
    /\ HwHandleSynthesis(mode, kind, knownVoice)
    /\ UNCHANGED <<hwSink, hwStop>>

\* What the canonicalizer has put out once f source frames went in: all of
\* them at the standard rate, else what whole input windows release.
HwConverted(rate, f) ==
    IF rate = "standard" THEN f
    ELSE Max({0, HwCanonical(rate, (f \div HwInputWindow) * HwInputWindow) - HwFilterDelay})

\* A call of the sink: made unless the consumer has stopped.
HwDeliver(call) ==
    hwSink' = IF hwClient.stopped \/ call = <<>> THEN hwSink ELSE Append(hwSink, call)

\* synthesis_error: every failure but a final remote answer retires the connection
HwFails(outcome, retires) ==
    /\ hwClient' = [hwClient EXCEPT !.phase = "terminal", !.outcome = outcome,
                                    !.connection = IF retires THEN "retired" ELSE @]
    /\ UNCHANGED hwSink

\* The consumer's refusal after an accepted response: without a stop since the
\* dispatch it ends the request, otherwise the rest of the stream is drained.
HwAccepted(next, call, ok) ==
    LET refused == call # <<>> /\ ~ok /\ ~hwClient.stopped IN
    /\ HwDeliver(call)
    /\ hwClient' =
         IF refused /\ hwStop.count = hwClient.epoch
         THEN [next EXCEPT !.phase = "terminal", !.outcome = "consumer", !.stopped = TRUE,
                           !.connection = "retired"]
         ELSE LET now == [next EXCEPT !.stopped = @ \/ refused, !.draining = @ \/ refused]
              IN  IF now.phase = "terminal"
                  THEN [now EXCEPT !.outcome = IF now.draining THEN "cancelled" ELSE "ok"]
                  ELSE now

HwProgressive == hwClient.mode = "progressive"

\* SynthesisStarted, for either collector: once, and first
HwAcceptStarted(r, ok) ==
    IF hwClient.phase = "awaiting"
    THEN HwAccepted([hwClient EXCEPT !.phase = "audio", !.rate = r.rate],
                    IF HwProgressive THEN <<"start">> ELSE <<>>, ok)
    ELSE HwFails("protocol", TRUE)

\* the next chunk in sequence, within the limit
HwChunkOk(r) ==
    /\ hwClient.phase = "audio" /\ r.seq = hwClient.seq
    /\ hwClient.source + r.n <= HwFrameLimit

\* HelperSynthesisCollector keeps the chunk,
HwCollectAudio(r) ==
    HwAccepted([hwClient EXCEPT !.seq = @ + 1, !.source = @ + r.n], <<>>, TRUE)

\* ProgressiveHelperCollector forwards what the canonicalizer releases.
HwForwardAudio(r, ok) ==
    LET out == HwConverted(hwClient.rate, hwClient.source + r.n) IN
    HwAccepted([hwClient EXCEPT !.seq = @ + 1, !.source = @ + r.n, !.out = out],
               IF out > hwClient.out THEN <<"audio", out - hwClient.out>> ELSE <<>>, ok)

HwAcceptAudio(r, ok) ==
    IF ~HwChunkOk(r) THEN HwFails("protocol", TRUE)
    ELSE IF HwProgressive THEN HwForwardAudio(r, ok) ELSE HwCollectAudio(r)

\* Markers: a buffered reply's end its audio,
HwCollectMarkers(ms) ==
    IF hwClient.phase \in {"audio", "markers"} /\ hwClient.count + Len(ms) <= HwMarkLimit
    THEN HwAccepted([hwClient EXCEPT !.count = @ + Len(ms), !.last = Last(ms).frame,
                                     !.marks = @ \o ms, !.phase = "markers"], <<>>, TRUE)
    ELSE HwFails("protocol", TRUE)

\* a progressive batch is checked against the audio so far and goes on at
\* once, in canonical frames.
HwForwardMarkers(ms, ok) ==
    IF hwClient.phase = "audio" /\ HwBatchOk(ms, hwClient.count, hwClient.source, hwClient.last)
    THEN HwAccepted([hwClient EXCEPT !.count = @ + Len(ms), !.last = Last(ms).frame],
                    <<"markers", {HwSplit([m EXCEPT !.frame = HwCanonical(hwClient.rate, @)])
                                    : m \in ToSet(ms)}>>, ok)
    ELSE HwFails("protocol", TRUE)

HwAcceptMarkers(r, ok) ==
    IF HwProgressive THEN HwForwardMarkers(r.marks, ok) ELSE HwCollectMarkers(r.marks)

\* SynthesisCompleted: the count and every marker are checked against the
\* frames received.
HwCounted(n) ==
    /\ hwClient.phase \in {"audio", "markers"} /\ n = hwClient.source
    /\ hwClient.count > 0 => hwClient.last <= n
    /\ \A m \in ToSet(hwClient.marks) : m.frame <= n

\* A progressive stream is flushed,
HwFlush(total, ok) ==
    HwAccepted([hwClient EXCEPT !.phase = "terminal", !.out = total],
               IF total > hwClient.out THEN <<"audio", total - hwClient.out>> ELSE <<>>, ok)

\* a buffered one becomes a result in canonical frames whose anchors are
\* resolved against the request again.
HwResult(total) ==
    LET parts == [i \in DOMAIN hwClient.marks |->
                     HwSplit([hwClient.marks[i] EXCEPT !.frame = HwCanonical(hwClient.rate, @)])]
        words == HwWordsOf(parts)
        anchors == HwResolveAnchors(words, SelectSeq(parts, LAMBDA p : p.kind = "anchor"), total)
    IN  IF HwValid(words, anchors, total)
        THEN HwAccepted([hwClient EXCEPT !.phase = "terminal", !.out = total],
                        <<"result", total, words \cup ToSet(anchors)>>, TRUE)
        ELSE HwFails("invalid", FALSE)

HwAcceptCompleted(r, ok) ==
    IF ~HwCounted(r.n) THEN HwFails("protocol", TRUE)
    ELSE LET total == HwCanonical(hwClient.rate, r.n) IN
         IF HwProgressive THEN HwFlush(total, ok) ELSE HwResult(total)

\* One response of the stream.  A terminal one settles the request; a remote
\* error retires the connection only when it is a retryable synthesis failure.
HwReceive(ok) ==
    /\ hwWire # <<>> /\ hwClient.phase \in {"awaiting", "audio", "markers"}
    /\ hwWire' = Tail(hwWire)
    /\ LET r == Head(hwWire) IN
       CASE r.type = "started"   -> HwAcceptStarted(r, ok)
         [] r.type = "audio"     -> HwAcceptAudio(r, ok)
         [] r.type = "markers"   -> HwAcceptMarkers(r, ok)
         [] r.type = "completed" -> HwAcceptCompleted(r, ok)
         [] r.type = "cancelled" -> HwFails("cancelled", FALSE)
         [] r.type = "error"     -> HwFails("remote", r.retryable)
    /\ UNCHANGED <<hwHost, hwStop>>

\* stop of the engine: a new epoch and a cancel frame for the active request;
\* its acknowledgement is not part of this stream.
HwStopEngine ==
    /\ hwStop.count < HwMaxStops
    /\ hwStop' = [hwStop EXCEPT !.count = @ + 1, !.sent = hwClient.phase \notin {"idle", "terminal"}]
    /\ UNCHANGED <<hwHost, hwWire, hwClient, hwSink>>

\* the helper's reader hears it and cancels the request's token
HwCancelHeard ==
    /\ hwStop.sent /\ ~hwStop.heard /\ hwHost.pc \notin {"idle", "done"}
    /\ hwStop' = [hwStop EXCEPT !.heard = TRUE]
    /\ UNCHANGED <<hwHost, hwWire, hwClient, hwSink>>

------------------------------
HwInit ==
    /\ hwHost = HwNoHost /\ hwWire = <<>> /\ hwClient = HwNoClient /\ hwSink = <<>>
    /\ hwStop = [count |-> 0, sent |-> FALSE, heard |-> FALSE]

\* Batches an engine may report: a word, an anchor in any resolution, both.
HwBatches ==
    LET word == {HwWord(0, f) : f \in 0..HwFrameLimit}
        anchor == {HwAnchor(HwAnchors[1].id, hwHost.frames, res) :
                                          res \in {"exact", "word_boundary"}}
                  \cup {HwAnchor(HwAnchors[1].id, -1, "omitted")}
    IN  {<<m>> : m \in word \cup anchor} \cup {<<HwWord(0, hwHost.frames), a>> : a \in anchor}

HwNext ==
    \/ \E mode \in {"buffered", "progressive"}, kind \in {"shared", "foreign"}, v \in BOOLEAN :
          HwDispatch(mode, kind, v)
    \/ \E v \in BOOLEAN : HwEngineStarts(v)
    \/ \E n \in HwSizes \cup {0} : HwEngineAudio(n)
    \/ HwSendChunk
    \/ \E b \in HwBatches : HwEngineMarkers(b)
    \/ \E n \in 0..HwFrameLimit : HwEngineReturns(n)
    \/ /\ hwHost.pc = "buffered"
       /\ \E n \in -1..HwFrameLimit, w \in [HwWordStarts -> {0, 1, 2}], ids \in SUBSET HwAnchorIds :
             \E e \in [ids -> {0, 2}] : HwBufferedResult(n, w, e)
    \/ HwEmitChunk \/ HwEmitMarkers \/ HwFinishSynthesis
    \/ hwHost.pc = "foreign" /\ \E r \in HwForeignResponses : HwForeignSends(r)
    \/ \E ok \in BOOLEAN : HwReceive(ok)
    \/ HwStopEngine \/ HwCancelHeard

HwSpec == HwInit /\ [][HwNext]_hwVars

------------------------------
\* Properties.

HwSettled == hwClient.phase = "terminal"

HwAudioIn(calls) ==
    FoldSeq(LAMBDA c, n : IF c[1] = "audio" THEN n + c[2] ELSE n, 0, calls)

\* The markers of a log of calls, in order, each batch as a set.
HwMarkersIn(calls) ==
    LET batches == SelectSeq(calls, LAMBDA c : c[1] = "markers")
    IN  [i \in DOMAIN batches |-> batches[i][2]]

\* A stream the shared host let through is never refused by the client as a
\* protocol error, and when the client answers Ok the sink (or the result) holds
\* exactly what the engine reported to the host: the same frames, the same
\* markers in the same batches, every anchor at its frame and with its
\* resolution, the ones a buffered reply leaves out resolved to the same place.
StreamRoundTrips ==
    (HwSettled /\ hwHost.kind = "shared") =>
        /\ hwClient.outcome \notin {"protocol", "invalid"}
        /\ (hwClient.outcome = "ok" /\ hwClient.mode = "progressive") =>
              /\ hwSink[1] = <<"start">>
              /\ HwAudioIn(hwSink) = hwHost.frames
              /\ HwMarkersIn(hwSink) = HwMarkersIn(hwHost.log)
        /\ (hwClient.outcome = "ok" /\ hwClient.mode = "buffered") =>
              hwSink = << <<"result", hwHost.frames, ToSet(hwHost.log)>> >>

\* Whatever program speaks the protocol on the other end, the progressive sink
\* sees no marker behind the audio it already has, and a stream accepted as
\* complete holds the frames it reports and no marker beyond them.
AcceptedIsWellFormed ==
    hwClient.mode = "progressive" =>
        /\ \A i \in DOMAIN hwSink : hwSink[i][1] = "markers" =>
              \A m \in hwSink[i][2] :
                  m.res # "omitted" => m.frame >= HwAudioIn(SubSeq(hwSink, 1, i))
        /\ hwClient.outcome = "ok" =>
              /\ HwAudioIn(hwSink) = hwClient.out
              /\ \A i \in DOMAIN hwSink : hwSink[i][1] = "markers" =>
                    \A m \in hwSink[i][2] : m.frame <= hwClient.out
=============================================================================
