------------------------- MODULE TgSpeechBoxHelper -------------------------
(***************************************************************************)
(* The TGSpeechBox helper's engine (omnivox-tgspeechbox-helper/src/lib.rs).*)
(* The native player keeps one queue of frames for the whole life of the   *)
(* process.  A request cuts its text at the requested anchors, queues the  *)
(* segments, each led by a native user index when anchors precede it, and  *)
(* then pulls PCM and indexes until the queue is empty.  What an earlier   *)
(* request left in the queue comes out first.                              *)
(*                                                                         *)
(* A text is a sequence of units; a unit is the number of frames it        *)
(* becomes, 0 when phonemization makes nothing of it.                      *)
(***************************************************************************)
EXTENDS Naturals, Sequences, FiniteSets, SequencesExt

CONSTANTS
    TgRequests,        \* sequence of requests served, in order:
                       \* [text |-> units, anchors |-> offsets, stream |-> BOOLEAN]
    PCM_CHUNK,         \* frames one native pull may return
    MAX_NATIVE_FRAMES, \* frames one request may return
    INDEX_LIMIT,       \* largest value of the native index counter
    MaxTgFailures      \* bound on native failures

VARIABLES
    tgServed,     \* requests accepted so far; the last one is current
    tgPhase,      \* where the current request's call stands
    tgToken,      \* the request's cancellation token
    tgFlag,       \* the engine's stop flag
    tgPlayer,     \* the native queue: frames and indexes with their owner
    tgNextIndex,  \* runtime.next_user_index
    tgQueued,     \* QueuedSynthesis of the current request
    tgNextBatch,  \* next_native_anchor
    tgPulled,     \* the chunk a pull returned and the sink has not had
    tgHeard,      \* frames and anchors the request has delivered
    tgFailures    \* native failures so far

tgVars == <<tgServed, tgPhase, tgToken, tgFlag, tgPlayer, tgNextIndex, tgQueued,
            tgNextBatch, tgPulled, tgHeard, tgFailures>>

NoQueued == [initial |-> <<>>, base |-> 0, batches |-> <<>>, trailing |-> <<>>]
NoChunk == [frames |-> <<>>, index |-> 0, by |-> 0, indexed |-> FALSE]

TgRequest == TgRequests[tgServed]
TgFrame == [kind |-> "frame", owner |-> tgServed]
TgIndex(i) == [kind |-> "index", owner |-> tgServed, index |-> i]

(* The frames the current request has delivered. *)
TgFrames == Len(SelectSeq(tgHeard, LAMBDA h : h.kind = "frame"))

------------------------------
\* Indices of the anchors at an offset, in request order.  BTreeMap order
\* of the offsets gives the stops, and the text's end is always the last.
AnchorsAt(request, offset) ==
    SelectSeq([i \in 1..Len(request.anchors) |-> i],
              LAMBDA i : request.anchors[i] = offset)
Stops(request) ==
    SetToSortSeq((Range(request.anchors) \ {0}) \cup {Len(request.text)}, <)

UnitsBetween(text, start, end) == SubSeq(text, start + 1, end)
SpokenFrames(units) == FoldLeft(+, 0, units)

\* One stop of queue_synthesis: the segment up to it is prepared when its
\* phonemes are not empty and takes the anchors pending so far; the anchors
\* at the stop become pending for the next segment.
PrepareSegment(request, prepared, stop) ==
    LET frames == SpokenFrames(UnitsBetween(request.text, prepared.start, stop))
        spoken == frames > 0
    IN [start |-> stop,
        pending |-> (IF spoken THEN <<>> ELSE prepared.pending) \o AnchorsAt(request, stop),
        segments |-> IF spoken
                     THEN Append(prepared.segments,
                                 [frames |-> frames, anchors |-> prepared.pending])
                     ELSE prepared.segments]
PreparedSegments(request) ==
    FoldLeft(LAMBDA prepared, stop : PrepareSegment(request, prepared, stop),
             [start |-> 0, pending |-> <<>>, segments |-> <<>>], Stops(request))

Anchored(segments) == SelectSeq(segments, LAMBDA s : s.anchors # <<>>)

\* reserve_user_indexes: the counter restarts, and the player is reset,
\* when the reservation would overflow.
ReserveKeepsPlayer(count) ==
    [reset |-> FALSE, base |-> IF tgNextIndex + count > INDEX_LIMIT THEN 0 ELSE tgNextIndex]
ReserveUserIndexes(count) ==
    IF tgNextIndex + count > INDEX_LIMIT
    THEN [reset |-> TRUE, base |-> 0]
    ELSE [reset |-> FALSE, base |-> tgNextIndex]

\* omnivox_tgspeechbox_begin for every segment: a segment with anchors is
\* led by the next index of the reservation.
SegmentItems(segments, base, s) ==
    LET local == Len(Anchored(SubSeq(segments, 1, s - 1)))
    IN (IF segments[s].anchors = <<>> THEN <<>> ELSE <<TgIndex(base + local)>>)
       \o [f \in 1..segments[s].frames |-> TgFrame]
QueueItems(segments, base) ==
    FlattenSeq([s \in 1..Len(segments) |-> SegmentItems(segments, base, s)])

------------------------------
TgInit ==
    /\ tgServed = 0
    /\ tgPhase = "idle"
    /\ tgToken = FALSE
    /\ tgFlag = FALSE
    /\ tgPlayer = <<>>
    /\ tgNextIndex \in {0, INDEX_LIMIT}   \* a fresh or a long-lived helper
    /\ tgQueued = NoQueued
    /\ tgNextBatch = 0
    /\ tgPulled = NoChunk
    /\ tgHeard = <<>>
    /\ tgFailures = 0

TgCancelled == tgToken \/ tgFlag

\* The host hands the next request to the engine: a new token, and the lock
\* on the runtime, which is free because the host serves one at a time.
TgAccept ==
    /\ tgPhase = "idle"
    /\ tgServed < Len(TgRequests)
    /\ tgServed' = tgServed + 1
    /\ tgPhase' = "accepted"
    /\ tgToken' = FALSE
    /\ tgHeard' = <<>>
    /\ tgQueued' = NoQueued
    /\ tgNextBatch' = 0
    /\ tgPulled' = NoChunk
    /\ UNCHANGED <<tgFlag, tgPlayer, tgNextIndex, tgFailures>>

\* The stop flag of an earlier request is cleared, the token is not.
TgBegin ==
    /\ tgPhase = "accepted"
    /\ tgFlag' = FALSE
    /\ tgPhase' = IF tgToken THEN "idle" ELSE "configuring"
    /\ UNCHANGED <<tgServed, tgToken, tgPlayer, tgNextIndex, tgQueued, tgNextBatch,
                   tgPulled, tgHeard, tgFailures>>

\* configure and apply_quality, and sink.start for a stream.  They touch
\* the voice and never the queue.
TgConfigure ==
    /\ tgPhase = "configuring"
    /\ tgPhase' = IF TgRequest.stream /\ tgToken THEN "idle" ELSE "queueing"
    /\ UNCHANGED <<tgServed, tgToken, tgFlag, tgPlayer, tgNextIndex, tgQueued,
                   tgNextBatch, tgPulled, tgHeard, tgFailures>>

TgAnchorsHeard(anchors, frame, owner) ==
    [a \in 1..Len(anchors) |->
        [kind |-> "anchor", owner |-> owner, anchor |-> anchors[a], frame |-> frame]]

\* queue_synthesis and the anchors at offset zero, which need no index.  An
\* empty text queues nothing and resolves every anchor at frame zero.
TgQueue ==
    /\ tgPhase = "queueing"
    /\ LET prepared == PreparedSegments(TgRequest)
           batches == Anchored(prepared.segments)
           initial == AnchorsAt(TgRequest, 0)
           reserved == ReserveUserIndexes(Len(batches))
           kept == IF reserved.reset THEN <<>> ELSE tgPlayer
           refused == TgRequest.stream /\ tgToken /\ initial # <<>>
       IN IF TgRequest.text = <<>>
          THEN /\ tgHeard' = IF refused THEN <<>> ELSE TgAnchorsHeard(initial, 0, tgServed)
               /\ tgPhase' = "idle"
               /\ UNCHANGED <<tgPlayer, tgNextIndex, tgQueued>>
          ELSE /\ tgNextIndex' = reserved.base + Len(batches)
               /\ tgPlayer' = kept \o QueueItems(prepared.segments, reserved.base)
               /\ tgQueued' = [initial |-> initial, base |-> reserved.base,
                               batches |-> [b \in 1..Len(batches) |-> batches[b].anchors],
                               trailing |-> prepared.pending]
               /\ tgHeard' = IF refused THEN <<>> ELSE TgAnchorsHeard(initial, 0, tgServed)
               /\ tgPhase' = IF refused THEN "idle" ELSE "pulling"
    /\ UNCHANGED <<tgServed, tgToken, tgFlag, tgNextBatch, tgPulled, tgFailures>>

\* The native side refuses a segment, or a pull fails: the player is reset.
TgNativeFails ==
    /\ tgPhase \in {"queueing", "pulling"}
    /\ tgFailures < MaxTgFailures
    /\ ~TgCancelled
    /\ tgFailures' = tgFailures + 1
    /\ tgPlayer' = <<>>
    /\ tgPhase' = "idle"
    /\ UNCHANGED <<tgServed, tgToken, tgFlag, tgNextIndex, tgQueued, tgNextBatch,
                   tgPulled, tgHeard>>

\* The index-aware pull of the native player: frames up to the chunk size,
\* ending at the first index it consumes.
NativePull ==
    LET before == Cardinality({i \in 1..Len(tgPlayer) :
                                 \A j \in 1..i : tgPlayer[j].kind = "frame"})
        count == IF before < PCM_CHUNK THEN before ELSE PCM_CHUNK
        indexed == count < PCM_CHUNK /\ count < Len(tgPlayer)
    IN [frames |-> SubSeq(tgPlayer, 1, count),
        indexed |-> indexed,
        index |-> IF indexed THEN tgPlayer[count + 1].index ELSE 0,
        by |-> IF indexed THEN tgPlayer[count + 1].owner ELSE 0]
ChunkItems(chunk) == Len(chunk.frames) + (IF chunk.indexed THEN 1 ELSE 0)

\* The head of the loop: a cancelled call resets the player, a pull that
\* returns nothing ends the loop, one over the limit resets and fails.
TgPull ==
    /\ tgPhase = "pulling"
    /\ LET chunk == NativePull
           over == TgFrames + Len(chunk.frames) > MAX_NATIVE_FRAMES
       IN IF TgCancelled
          THEN /\ tgPlayer' = <<>>
               /\ tgPhase' = "idle"
               /\ UNCHANGED tgPulled
          ELSE /\ tgPlayer' = IF over THEN <<>>
                              ELSE SubSeq(tgPlayer, ChunkItems(chunk) + 1, Len(tgPlayer))
               /\ tgPulled' = chunk
               /\ tgPhase' = IF ChunkItems(chunk) = 0 THEN "finishing"
                             ELSE IF over THEN "idle" ELSE "delivering"
    /\ UNCHANGED <<tgServed, tgToken, tgFlag, tgNextIndex, tgQueued, tgNextBatch,
                   tgHeard, tgFailures>>

\* resolve_native_anchors: an index below the reservation is stale, one
\* past it unknown, one already passed resolves nothing.
ResolvesIndex(index) ==
    /\ index >= tgQueued.base
    /\ index - tgQueued.base < Len(tgQueued.batches)
ResolvedAnchors(index) ==
    FlattenSeq(SubSeq(tgQueued.batches, tgNextBatch + 1, index - tgQueued.base + 1))
BatchAfter(index) ==
    IF index - tgQueued.base < tgNextBatch THEN tgNextBatch ELSE index - tgQueued.base + 1

\* sink.audio, then the index's anchors through sink.markers.  A sink whose
\* request is cancelled refuses, and the call returns without a reset; so
\* does an index it cannot resolve.
TgDeliver ==
    /\ tgPhase = "delivering"
    /\ LET frames == [f \in 1..Len(tgPulled.frames) |-> tgPulled.frames[f]]
           total == TgFrames + Len(frames)
           refused == TgRequest.stream /\ tgToken
           resolves == tgPulled.indexed => ResolvesIndex(tgPulled.index)
           anchors == IF tgPulled.indexed /\ resolves
                      THEN ResolvedAnchors(tgPulled.index) ELSE <<>>
       IN \E heard \in IF refused THEN {<<>>, frames} ELSE {frames} :
             \* the token may be set before the audio or between the two calls
             LET ends == \/ heard # frames
                         \/ ~resolves
                         \/ refused /\ anchors # <<>>
             IN /\ tgHeard' = tgHeard \o heard \o
                                (IF ends THEN <<>>
                                 ELSE TgAnchorsHeard(anchors, total, tgPulled.by))
                /\ tgNextBatch' = IF ends \/ ~tgPulled.indexed THEN tgNextBatch
                                  ELSE BatchAfter(tgPulled.index)
                /\ tgPhase' = IF ends THEN "idle" ELSE "pulling"
    /\ tgPulled' = NoChunk
    /\ UNCHANGED <<tgServed, tgToken, tgFlag, tgPlayer, tgNextIndex, tgQueued, tgFailures>>

\* The queue is empty: the anchors left, and the trailing ones, resolve at
\* the final frame.
TgFinish ==
    /\ tgPhase = "finishing"
    /\ tgHeard' = IF TgCancelled THEN tgHeard
                  ELSE tgHeard \o
                       TgAnchorsHeard(FlattenSeq(SubSeq(tgQueued.batches, tgNextBatch + 1,
                                                        Len(tgQueued.batches)))
                                      \o tgQueued.trailing, TgFrames, tgServed)
    /\ tgPhase' = "idle"
    /\ UNCHANGED <<tgServed, tgToken, tgFlag, tgPlayer, tgNextIndex, tgQueued,
                   tgNextBatch, tgPulled, tgFailures>>

\* The host cancels the active request: its token, then the engine's stop.
TgCancelToken ==
    /\ tgPhase # "idle"
    /\ ~tgToken
    /\ tgToken' = TRUE
    /\ UNCHANGED <<tgServed, tgPhase, tgFlag, tgPlayer, tgNextIndex, tgQueued,
                   tgNextBatch, tgPulled, tgHeard, tgFailures>>
TgStop ==
    /\ tgToken
    /\ ~tgFlag
    /\ tgFlag' = TRUE
    /\ UNCHANGED <<tgServed, tgPhase, tgToken, tgPlayer, tgNextIndex, tgQueued,
                   tgNextBatch, tgPulled, tgHeard, tgFailures>>

TgDone ==
    /\ tgPhase = "idle"
    /\ tgServed = Len(TgRequests)
    /\ UNCHANGED tgVars

TgNext ==
    \/ TgAccept \/ TgBegin \/ TgConfigure \/ TgQueue \/ TgNativeFails \/ TgPull
    \/ TgDeliver \/ TgFinish \/ TgCancelToken \/ TgStop \/ TgDone

TgSpec == TgInit /\ [][TgNext]_tgVars

------------------------------
\* An anchor a request reports was reached by that request's own index:
\* whatever an abandoned request left in the player, the numbering the
\* counter hands out never lets an old index pass for a new one.
AnchorsAreOwn ==
    \A h \in Range(tgHeard) : h.kind = "anchor" => h.owner = tgServed

\* docs/engines/tgspeechbox.md: an index is reported "as an exact requested
\* anchor at the corresponding PCM boundary": the frames before an anchor
\* are the ones its text before that offset became.
AnchorsAtTheirBoundary ==
    \A h \in Range(tgHeard) :
        h.kind = "anchor" =>
            h.frame = SpokenFrames(UnitsBetween(TgRequest.text, 0,
                                                TgRequest.anchors[h.anchor]))
=============================================================================
