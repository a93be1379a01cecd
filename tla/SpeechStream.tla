---------------------------- MODULE SpeechStream ----------------------------
(***************************************************************************)
(* ProgressiveChunkSink (omnivox-cli/src/pipeline.rs): the speech of one   *)
(* chunk is trimmed, mixed with its timeline's sounds and played while the *)
(* engine is still speaking.  The engine calls start, audio and markers in *)
(* whatever order and sizes it likes; the sink answers each with an error  *)
(* or goes on.  What it plays is compared with what the buffered path      *)
(* (queue_synthesis_result_inner) makes of the same speech.                *)
(*                                                                         *)
(* Frame n of the engine's PCM is <<0, n>>, and audible or silent; frame n *)
(* of an action's sound is <<action, n>>; mixing keeps the set of what     *)
(* sounds.  Levels, pan and effects are left out: they move no frame.      *)
(***************************************************************************)
EXTENDS Integers, Sequences, FiniteSets, SequencesExt

CONSTANTS
    Timelines,          \* sequences of actions [mode, duration] of a chunk
    MaxFrames,          \* longest utterance
    MaxMarkers,         \* markers the engine reports
    TRAILING_PADDING    \* frames of silence kept after the last chunk of speech

ASSUME StreamAssumption ==
    /\ MaxFrames \in Nat /\ MaxMarkers \in Nat /\ TRAILING_PADDING \in Nat
    /\ \A t \in Timelines : \A i \in DOMAIN t :
          t[i].mode \in {"Insert", "Overlay", "SemanticEvent"} /\ t[i].duration \in Nat

VARIABLES
    pcm,            \* what the engine speaks: whether each frame is audible
    actions,        \* timeline_actions
    fed,            \* frames of pcm the sink was given
    sinkState,      \* "new", "started", "failed" or "finished"
    trimmer,        \* ProgressiveSilenceTrimmer
    anchors,        \* where the engine put each action, in the order reported
    unplaced,       \* resolved_timeline_actions
    markers,        \* pending_markers
    lastMarker,     \* last_marker_offset
    primaryFrames,  \* primary_frame_count
    played,         \* the frames published: [primary, over]
    overlayCarry,   \* the renderer's overlay_carry
    published       \* events pushed: [what, source, frame]

streamVars == <<pcm, actions, fed, sinkState, trimmer, anchors, unplaced, markers,
                lastMarker, primaryFrames, played, overlayCarry, published>>

NewTrimmer == [audible |-> FALSE, removed |-> 0, pending |-> <<>>]

StreamInit ==
    /\ pcm \in UNION {[1..n -> BOOLEAN] : n \in 0..MaxFrames}
    /\ actions \in Timelines
    /\ fed = 0 /\ sinkState = "new"
    /\ trimmer = NewTrimmer
    /\ anchors = <<>> /\ unplaced = {} /\ markers = <<>> /\ lastMarker = 0
    /\ primaryFrames = 0 /\ played = <<>> /\ overlayCarry = <<>>
    /\ published = {}

------------------------------
(* Trimming (omnivox-audio/src/effects.rs) *)

AudibleIn(a, b) == {x \in a..b : pcm[x]}
FramesOf(a, b) == [x \in 1..(b - a + 1) |-> a + x - 1]

\* ProgressiveSilenceTrimmer::process_window on k more frames: silence is held until
\* later sound proves it internal.  Speech is trimmed without leading padding.
TrimWindow(k) ==
    LET loud == AudibleIn(fed + 1, fed + k)
        start == IF trimmer.audible THEN fed + 1 ELSE Min(loud)
    IN  IF loud = {}
        THEN [out |-> <<>>,
              next |-> IF trimmer.audible
                       THEN [trimmer EXCEPT !.pending = @ \o FramesOf(fed + 1, fed + k)]
                       ELSE [trimmer EXCEPT !.removed = @ + k]]
        ELSE [out |-> trimmer.pending \o FramesOf(start, Max(loud)),
              next |-> [audible |-> TRUE,
                        removed |-> trimmer.removed + start - fed - 1,
                        pending |-> FramesOf(Max(loud) + 1, fed + k)]]

\* ProgressiveSilenceTrimmer::finish: the padding is the end of the held silence.
TrimTail ==
    LET n == Len(trimmer.pending)
        kept == IF n < TRAILING_PADDING THEN n ELSE TRAILING_PADDING
    IN  SubSeq(trimmer.pending, n - kept + 1, n)

\* SilenceTrimmer::process_with_report on the whole utterance.
BufferedTrim ==
    LET loud == AudibleIn(1, Len(pcm))
        end == IF Max(loud) + TRAILING_PADDING < Len(pcm)
               THEN Max(loud) + TRAILING_PADDING ELSE Len(pcm)
    IN  IF loud = {} THEN [frames |-> <<>>, removed |-> Len(pcm)]
        ELSE [frames |-> FramesOf(Min(loud), end), removed |-> Min(loud) - 1]

Clamp(x, low, high) == IF x < low THEN low ELSE IF x > high THEN high ELSE x

\* SilenceTrimReport::map_frame_offset
MapFrameOffset(f, removed, output) == Clamp(f - removed, 0, output)

------------------------------
(* Scheduling and mixing one window (omnivox-core and omnivox-audio timeline) *)

Duration(a) == IF actions[a].mode = "SemanticEvent" THEN 0 ELSE actions[a].duration
IsInsert(a) == actions[a].mode = "Insert"

\* Frames inserted by a sequence of actions.
Inserted(as) == FoldSeq(LAMBDA p, n : n + (IF IsInsert(p.a) THEN Duration(p.a) ELSE 0), 0, as)

\* Equal frames keep the order of the timeline.
ByFrame(ps) == SetToSortSeq(ps, LAMBDA p, q : p.at < q.at \/ (p.at = q.at /\ p.a < q.a))

\* ScheduledTimeline::build: an insertion moves everything after it.
ScheduleTimeline(ps) ==
    LET s == ByFrame(ps)
    IN  [i \in DOMAIN s |-> [a |-> s[i].a, at |-> s[i].at,
                             output |-> s[i].at + Inserted(SubSeq(s, 1, i - 1))]]

\* FrameMap::map_after
MapAfter(sched, f) == f + Inserted(SelectSeq(sched, LAMBDA p : p.at <= f))

\* copy_primary_with_insertions: the sound of output frame x (from 1), before mixing.
PrimaryAt(primary, sched, x) ==
    LET here == {i \in DOMAIN sched : /\ IsInsert(sched[i].a) /\ sched[i].output < x
                                      /\ x <= sched[i].output + Duration(sched[i].a)}
        before == SelectSeq(sched, LAMBDA p : p.output < x)
    IN  IF here # {} THEN LET i == CHOOSE i \in here : TRUE
                          IN  <<sched[i].a, x - sched[i].output>>
        ELSE <<0, primary[x - Inserted(before)]>>

OverlaysAt(sched, x) ==
    {<<sched[i].a, x - sched[i].output>> :
        i \in {j \in DOMAIN sched : /\ actions[sched[j].a].mode = "Overlay"
                                    /\ sched[j].output < x
                                    /\ x <= sched[j].output + Duration(sched[j].a)}}

CarriedAt(carried, x) == IF x \in DOMAIN carried THEN carried[x] ELSE {}

\* render_window_with_resources: overlays past the end are carried to the next window.
RenderWindow(primary, ps, carried) ==
    LET sched == ScheduleTimeline(ps)
        n == Len(primary) + Inserted(sched)
        longest == Max({n, Len(carried)} \cup
                       {sched[i].output + Duration(sched[i].a) : i \in DOMAIN sched})
        over == [x \in 1..longest |-> OverlaysAt(sched, x) \cup CarriedAt(carried, x)]
    IN  [audio |-> [x \in 1..n |-> [primary |-> PrimaryAt(primary, sched, x), over |-> over[x]]],
         rest |-> SubSeq(over, n + 1, longest),
         events |-> {[what |-> "action", source |-> sched[i].a,
                      frame |-> MapAfter(sched, sched[i].at)] : i \in DOMAIN sched}
                    \cup {[what |-> "semantic", source |-> sched[i].a, frame |-> sched[i].output] :
                            i \in {j \in DOMAIN sched : actions[sched[j].a].mode = "SemanticEvent"}}]

------------------------------
(* The sink *)

Fails ==
    /\ sinkState' = "failed"
    /\ UNCHANGED <<pcm, actions, fed, trimmer, anchors, unplaced, markers, lastMarker,
                   primaryFrames, played, overlayCarry, published>>

\* ProgressiveChunkSink::new and start: the timeline's sounds may not be prepared.
StartStream ==
    /\ sinkState = "new"
    /\ sinkState' = "started"
    /\ UNCHANGED <<pcm, actions, fed, trimmer, anchors, unplaced, markers, lastMarker,
                   primaryFrames, played, overlayCarry, published>>

StartFails == sinkState \in {"new", "started"} /\ Fails

\* Audio, markers or completion before start.
BeforeStart == sinkState = "new" /\ Fails

LastAnchor == IF anchors = <<>> THEN 0 ELSE Last(anchors).at

\* register_timeline_anchors: in order, each action once.
RegisterAnchor(a, f) ==
    /\ sinkState = "started"
    /\ IF f < LastAnchor \/ \E i \in DOMAIN anchors : anchors[i].a = a THEN Fails
       ELSE /\ anchors' = Append(anchors, [a |-> a, at |-> f])
            /\ unplaced' = unplaced \cup {[a |-> a, at |-> f]}
            /\ UNCHANGED <<pcm, actions, fed, sinkState, trimmer, markers, lastMarker,
                           primaryFrames, played, overlayCarry, published>>

Marker(f) ==
    /\ sinkState = "started"
    /\ Len(markers) + Cardinality({e \in published : e.what = "marker"}) < MaxMarkers
    /\ IF f < lastMarker THEN Fails
       ELSE /\ markers' = Append(markers, f) /\ lastMarker' = f
            /\ UNCHANGED <<pcm, actions, fed, sinkState, trimmer, anchors, unplaced,
                           primaryFrames, played, overlayCarry, published>>

\* Mutant: the silence that was removed is not counted.
MapUntrimmed(f, t) == f

\* map_primary_frame while streaming
MapPrimaryFrame(f, t) == Clamp(f - t.removed, 0, Len(pcm) + 1)

\* The frames an engine may name, one beyond its last included; a map takes each
\* to its place in what is played.
SourceFrame == 0 .. Len(pcm) + 1

\* map_output_frame: a primary frame after the insertions reported so far.
MapOutputFrame(f, map) ==
    map[f] + Inserted(SelectSeq(anchors, LAMBDA p : map[p.at] <= map[f]))

\* publish_events_through: markers up to a frame, with the window's events.
ReadyMarkers(through, map) ==
    LET late == {i \in DOMAIN markers : MapOutputFrame(markers[i], map) > through}
    IN  IF late = {} THEN Len(markers) ELSE Min(late) - 1

PublishEvents(events, through, map) ==
    LET n == ReadyMarkers(through, map)
    IN  /\ published' = IF through = 0 THEN published ELSE published
             \cup {[what |-> e.what, source |-> e.source, frame |-> Len(played) + e.frame] : e \in events}
             \cup {[what |-> "marker", source |-> markers[i],
                    frame |-> MapOutputFrame(markers[i], map)] : i \in 1..n}
        /\ markers' = SubSeq(markers, n + 1, Len(markers))

\* take_ready_timeline_actions: an action whose frame was played is an error.
Ready(end, inclusive, map) ==
    {p \in unplaced : map[p.at] < end \/ (inclusive /\ map[p.at] = end)}

TooLate(map) == \E p \in unplaced : map[p.at] < primaryFrames

Relative(ps, map) == {[a |-> p.a, at |-> map[p.at] - primaryFrames] : p \in ps}

\* Mutant: what sounds past the end of a window is cut off.
CarryNothing(rendered) == <<>>

\* What sounds past the end of a window is kept for the next one.
Carry(rendered) == rendered.rest

\* render_timeline_window
PlayWindow(primary, inclusive, map) ==
    LET ready == Ready(primaryFrames + Len(primary), inclusive, map)
        rendered == RenderWindow(primary, Relative(ready, map), overlayCarry)
    IN  /\ unplaced' = unplaced \ ready
        /\ primaryFrames' = primaryFrames + Len(primary)
        /\ played' = played \o rendered.audio
        /\ overlayCarry' = Carry(rendered)
        /\ PublishEvents(rendered.events, Len(played) + Len(rendered.audio), map)

\* process_audio with k frames
Audio(k) ==
    /\ sinkState = "started" /\ fed + k <= Len(pcm)
    /\ LET trimmed == TrimWindow(k)
           map == [f \in SourceFrame |-> MapPrimaryFrame(f, trimmed.next)]
       IN  IF trimmed.out = <<>>
           THEN /\ trimmer' = trimmed.next /\ fed' = fed + k
                /\ UNCHANGED <<sinkState, anchors, unplaced, markers, primaryFrames, played,
                               overlayCarry, published>>
           ELSE IF TooLate(map) THEN Fails
           ELSE /\ trimmer' = trimmed.next /\ fed' = fed + k
                /\ PlayWindow(trimmed.out, FALSE, map)
                /\ UNCHANGED <<sinkState, anchors>>
    /\ UNCHANGED <<pcm, actions, lastMarker>>

\* ensure_playback, push_audio or push_cues fails, or the request is superseded.
OutputFails == sinkState = "started" /\ fed > 0 /\ Fails

\* finish
Finished ==
    /\ sinkState = "started" /\ fed = Len(pcm)
    /\ LET tail == TrimTail
           output == primaryFrames + Len(tail)
           removed == IF trimmer.audible THEN trimmer.removed ELSE Len(pcm)
           map == [f \in SourceFrame |-> MapFrameOffset(f, removed, output)]
       IN  IF \/ lastMarker > Len(pcm) \/ LastAnchor > Len(pcm)
              \/ Len(anchors) # Len(actions)
              \/ TooLate(map)
           THEN Fails
           ELSE /\ sinkState' = "finished"
                /\ PlayWindow(tail, TRUE, map)
                /\ UNCHANGED <<trimmer, fed, anchors>>
    /\ UNCHANGED <<pcm, actions, lastMarker>>

\* The engine stops, or says it made another number of frames.
EngineStops == sinkState = "started" /\ Fails

StreamEnded == sinkState \in {"failed", "finished"} /\ UNCHANGED streamVars

StreamNext ==
    \/ StartStream \/ StartFails \/ BeforeStart \/ OutputFails \/ Finished \/ EngineStops
    \/ \E f \in SourceFrame :
          \/ \E a \in DOMAIN actions : RegisterAnchor(a, f)
          \/ Marker(f)
    \/ \E k \in 1..MaxFrames : Audio(k)
    \/ StreamEnded

StreamSpec == StreamInit /\ [][StreamNext]_streamVars

------------------------------
(* What the buffered path makes of the same speech *)

BufferedActions ==
    {[a |-> anchors[i].a,
      at |-> MapFrameOffset(anchors[i].at, BufferedTrim.removed, Len(BufferedTrim.frames))] :
        i \in DOMAIN anchors}

Buffered == RenderWindow(BufferedTrim.frames, BufferedActions, <<>>)

LastAudible == Max({0} \cup AudibleIn(1, Len(pcm)))
IsSpeech(frame) == frame.primary[1] = 0 /\ frame.primary[2] <= LastAudible

\* Padding is silence: which frame of it is kept is another matter.
Heard(frames) ==
    [x \in DOMAIN frames |->
        IF frames[x].primary[1] # 0 \/ IsSpeech(frames[x]) THEN frames[x]
        ELSE [frames[x] EXCEPT !.primary = <<0, 0>>]]

\* A stream that finishes has played what the buffered path would have queued: the
\* same frames in the same order, every sound at the same place however the engine
\* cut its windows, the same left over for what follows, and the same report of
\* where each action was.
StreamedAsBuffered ==
    sinkState = "finished" =>
        /\ Heard(played) = Heard(Buffered.audio)
        /\ overlayCarry = Buffered.rest
        /\ {e \in published : e.what # "marker"}
              = IF Buffered.audio = <<>> THEN {} ELSE Buffered.events

\* A marker is put between the speech before it and the speech after it, whatever was
\* trimmed and inserted.
MarkersInPlace ==
    \A e \in published : e.what = "marker" =>
        \A x \in DOMAIN played : IsSpeech(played[x]) =>
            (x <= e.frame <=> played[x].primary[2] <= e.source)

\* Of a rendered stream: it is what the buffered renderer makes, with its markers
\* at their frames, however the engine cut its windows.
StreamSound == StreamedAsBuffered /\ MarkersInPlace
=============================================================================
