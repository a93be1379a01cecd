---------------------------- MODULE SpeechBatch ----------------------------
(***************************************************************************)
(* The synthesis worker on one request (omnivox-cli/src/pipeline.rs): a    *)
(* dispatched batch, a presentation timeline, a preview or a letter is     *)
(* spoken window by window.  Each window goes through the effects          *)
(* processor and the timeline renderer, both of which keep sound for       *)
(* later (wet, carry), and what sounds beside speech waits in              *)
(* pending_overlays until the next speech is queued.                       *)
(*                                                                         *)
(* The server may make the request stale between any two steps.  Failures  *)
(* of an engine, of rendering or of the output are choices of the step.    *)
(* Every window has audio; sounds are named by the window they belong to.  *)
(*                                                                         *)
(* The second half is what precedes it: how the text of one span is        *)
(* prepared.  It shares no state with the first.                           *)
(***************************************************************************)
EXTENDS Integers, Sequences, FiniteSets, SequencesExt

CONSTANT Requests   \* requests: [job |-> .., plan |-> sequence of items]

\* An item: what it is, who owns its effects, whether a cue outlasts its window.
Items == [k : {"speech", "silence", "insert", "overlay", "tone", "icon", "code"},
          owner : STRING, cue : BOOLEAN]

ASSUME BatchAssumption ==
    \A r \in Requests :
        /\ r.job \in {"batch", "timeline", "mixed", "preview", "choice", "letter"}
        /\ \A i \in DOMAIN r.plan : r.plan[i] \in Items

VARIABLES
    request,    \* the request being spoken
    at,         \* the item the worker is at
    batchPc,
    stale,      \* SynthCtx::is_stale
    failed,     \* batch_failed
    exhausted,  \* logical_route_exhausted
    window,     \* the window in hand: mode, effect tail, overlay tail, accepted
    effects,    \* DispatchEffects: owner, and the windows still sounding in it
    carry,      \* cues that the timeline renderer carries over
    pending,    \* pending_overlays: [piece, clock length when it was added]
    heard,      \* what was queued, in order
    status

batchVars == <<request, at, batchPc, stale, failed, exhausted, window, effects,
               carry, pending, heard, status>>

NoWindow == [mode |-> "none", direct |-> FALSE, tail |-> {}, overlay |-> {},
             accepted |-> FALSE]

BatchInit ==
    /\ request \in Requests
    /\ at = 1 /\ batchPc = "prepare"
    /\ stale = FALSE /\ failed = FALSE /\ exhausted = FALSE
    /\ window = NoWindow
    /\ effects = [owner |-> "legacy", wet |-> {}]
    /\ carry = {} /\ pending = {} /\ heard = <<>>
    /\ status = "none"

------------------------------
plan == request.plan
Item == plan[at]
Job(js) == request.job \in js

\* Prepared attempts: layered timelines and layered or native previews.
HasAttempt == Job({"mixed", "choice"})
Owner == IF HasAttempt THEN Item.owner ELSE "legacy"

IsWindow(i) == plan[i].k \in {"speech", "silence"}
FinalWindow == \A i \in DOMAIN plan : IsWindow(i) => i <= at

\* presentation_clock: the speech that was queued.
Clock == SelectSeq(heard, LAMBDA h : h.stream = "Speech")

Tails(ws) == {<<"tail", w>> : w \in ws}
Cues(ws) == {<<"cue", w>> : w \in ws}

\* mark_failed: letters have no flag.
SpeechFailed == IF Job({"letter"}) THEN failed ELSE TRUE

Ends(s) == batchPc' = "done" /\ status' = s
Proceeds == at' = at + 1 /\ batchPc' = "item" /\ window' = NoWindow /\ UNCHANGED status

\* queue_overlay
Waiting(pieces) ==
    IF stale THEN pending ELSE pending \cup {[piece |-> p, made |-> Len(Clock)] : p \in pieces}

\* discard_effects
Discarded == effects' = [effects EXCEPT !.wet = {}]

\* What each caller does with a chunk that was not spoken.

EndsRequest(s) == Ends(s) /\ UNCHANGED <<at, window>>
GoesOn == IF stale THEN EndsRequest("Cancelled") ELSE Proceeds

AfterBatchChunk == GoesOn /\ UNCHANGED effects
AfterTimelineChunk == GoesOn /\ UNCHANGED effects

AfterPreviewChunk ==
    EndsRequest(IF stale THEN "Cancelled" ELSE "Failed") /\ UNCHANGED effects

\* A letter spoken by the engine itself is over whatever came of it.
AfterLetter(direct) ==
    /\ IF direct THEN GoesOn ELSE EndsRequest(IF stale THEN "Cancelled" ELSE "Failed")
    /\ UNCHANGED effects

\* Mixed timelines and layered previews end with a chunk that has no sound.
AfterPreparedChunk(mode) ==
    /\ Discarded
    /\ EndsRequest(IF stale /\ (mode = "buffered" \/ ~failed') THEN "Cancelled" ELSE "Failed")

AfterMixedChunk(mode) == AfterPreparedChunk(mode)
AfterChoiceChunk(mode) == AfterPreparedChunk(mode)

GivesUp(w) ==
    CASE Job({"batch"}) -> AfterBatchChunk
      [] Job({"timeline"}) -> AfterTimelineChunk
      [] Job({"preview"}) -> AfterPreviewChunk
      [] Job({"letter"}) -> AfterLetter(w.direct)
      [] Job({"mixed"}) -> AfterMixedChunk(w.mode)
      [] Job({"choice"}) -> AfterChoiceChunk(w.mode)

------------------------------
Interrupt ==
    /\ ~stale /\ batchPc # "done" /\ stale' = TRUE
    /\ UNCHANGED <<request, at, batchPc, failed, exhausted, window, effects, carry,
                   pending, heard, status>>

\* The head of each process_ function: resources, spans, definitions and the
\* initial route.
Prepare(valid) ==
    /\ batchPc = "prepare"
    /\ IF stale THEN Ends("Cancelled") /\ UNCHANGED failed
       ELSE IF valid \/ Job({"batch", "letter"})
            THEN batchPc' = "item" /\ UNCHANGED <<status, failed>>
       ELSE Ends("Failed") /\ failed' = SpeechFailed
    /\ UNCHANGED <<request, at, stale, exhausted, window, effects, carry, pending, heard>>

AtItem(ks) ==
    /\ batchPc = "item" /\ at <= Len(plan)
    /\ Item.k \in ks

ItemCancelled ==
    /\ batchPc = "item" /\ stale /\ at <= Len(plan)
    /\ Ends("Cancelled")
    /\ UNCHANGED <<request, at, stale, failed, exhausted, window, effects, carry,
                   pending, heard>>

CodeItem ==
    /\ AtItem({"code"}) /\ ~stale
    /\ exhausted' = FALSE /\ Proceeds
    /\ UNCHANGED <<request, stale, failed, effects, carry, pending, heard>>

\* Tones and icons beside speech; loading or preparing one may fail.
BesideItem(ok) ==
    /\ AtItem({"overlay", "icon", "tone"}) /\ ~stale
    /\ failed' = IF ok THEN failed ELSE SpeechFailed
    /\ pending' = IF ok /\ Item.k # "tone" THEN Waiting({<<"beside", at>>}) ELSE pending
    /\ heard' = IF ok /\ Item.k = "tone"
                THEN Append(heard, [stream |-> "Tone", w |-> at, pieces |-> {}, after |-> 0])
                ELSE heard
    /\ Proceeds
    /\ UNCHANGED <<request, stale, exhausted, effects, carry>>

\* An inserted tone is speech-stream audio without effects.
InsertItem(ok) ==
    /\ AtItem({"insert"}) /\ ~stale
    /\ IF ok THEN /\ window' = [NoWindow EXCEPT !.mode = "insert"]
                  /\ batchPc' = "flush" /\ UNCHANGED <<at, failed, status>>
       ELSE failed' = SpeechFailed /\ Proceeds
    /\ UNCHANGED <<request, stale, exhausted, effects, carry, pending, heard>>

\* render_primary_window on silence; an error queues it dry.
SilenceItem(ok) ==
    /\ AtItem({"silence"}) /\ ~stale
    /\ batchPc' = "flush"
    /\ failed' = IF ok THEN failed ELSE SpeechFailed
    /\ LET last == FinalWindow /\ ok IN
       /\ window' = [NoWindow EXCEPT !.mode = "silence",
                     !.tail = IF last THEN Tails(effects.wet) ELSE {},
                     !.overlay = IF last THEN Cues(carry) ELSE {}]
       /\ effects' = IF last THEN [effects EXCEPT !.wet = {}] ELSE effects
       /\ carry' = IF last THEN {} ELSE carry
    /\ UNCHANGED <<request, at, stale, exhausted, pending, heard, status>>

------------------------------
(* Speech *)

\* After an exhausted route the speech of a batch is passed over.
SkipSpeech ==
    /\ AtItem({"speech"}) /\ ~stale /\ exhausted
    /\ Proceeds
    /\ UNCHANGED <<request, stale, failed, exhausted, effects, carry, pending, heard>>

\* What the functions that synthesize a chunk bring: a whole result, the start of a
\* stream, or nothing (EngineRouting has the routes).
DirectOutcomes == {"buffered", "stream", "failed"}
DirectTimelineOutcomes == {"buffered", "stream", "failed"}
ProgressiveOutcomes == {"stream", "buffered", "failed", "exhausted"}
RoutedOutcomes == {"buffered", "failed", "exhausted"} \cup ProgressiveOutcomes
PreparedOutcomes == {"stream", "buffered", "failed", "exhausted"}

\* The preferred engine speaks itself when there is no route.
DirectPath == Job({"batch", "timeline", "letter"})

Outcomes(direct) ==
    IF direct THEN IF Job({"timeline"}) THEN DirectTimelineOutcomes ELSE DirectOutcomes
    ELSE IF HasAttempt THEN PreparedOutcomes
    ELSE IF Job({"letter"}) THEN ProgressiveOutcomes ELSE RoutedOutcomes

Synthesize(direct) ==
    /\ AtItem({"speech"}) /\ ~stale /\ ~exhausted
    /\ direct => DirectPath
    /\ \E outcome \in Outcomes(direct) :
         IF outcome \in {"buffered", "stream"}
         THEN /\ window' = [NoWindow EXCEPT !.mode = outcome, !.direct = direct]
              /\ batchPc' = "select"
              /\ UNCHANGED <<at, failed, exhausted, effects, status>>
         ELSE /\ failed' = SpeechFailed
              /\ exhausted' = (outcome = "exhausted" /\ Job({"batch"}))
              /\ GivesUp([NoWindow EXCEPT !.direct = direct])
    /\ UNCHANGED <<request, stale, carry, pending, heard>>

\* select_effect_owner: the sound of another owner is flushed beside what follows.
SelectOwner ==
    /\ batchPc = "select"
    /\ batchPc' = IF window.mode = "buffered" THEN "render" ELSE "audio"
    /\ IF Owner = effects.owner THEN UNCHANGED <<effects, pending>>
       ELSE /\ pending' = Waiting(Tails(effects.wet))
            /\ effects' = [owner |-> Owner, wet |-> {}]
    /\ UNCHANGED <<request, at, stale, failed, exhausted, window, carry, heard, status>>

\* What is left to sound when the last window of the request has been rendered.
RenderedWindow(final) ==
    LET wet == effects.wet \cup {at}
        cues == IF Item.cue THEN carry \cup {at} ELSE carry
    IN  /\ effects' = [effects EXCEPT !.wet = IF final THEN {} ELSE wet]
        /\ carry' = IF final THEN {} ELSE cues
        /\ window' = [window EXCEPT !.tail = IF final THEN Tails(wet) ELSE {},
                                    !.overlay = IF final THEN Cues(cues) ELSE {}]

\* queue_synthesis_result_inner before it queues: trimming, effects, timeline.
\* A legacy window whose rendering failed is queued dry.
RenderBuffered(ok) ==
    /\ batchPc = "render"
    /\ IF ok
       THEN /\ RenderedWindow(FinalWindow) /\ batchPc' = "flush"
            /\ UNCHANGED <<at, failed, status>>
       ELSE /\ failed' = SpeechFailed /\ UNCHANGED carry
            /\ IF HasAttempt THEN GivesUp(window)
               ELSE batchPc' = "flush" /\ UNCHANGED <<at, window, effects, status>>
    /\ UNCHANGED <<request, stale, exhausted, pending, heard>>

\* materialize and the renderer notice staleness.
RenderCancelled ==
    /\ batchPc = "render" /\ stale
    /\ Discarded /\ Ends("Cancelled")
    /\ UNCHANGED <<request, at, stale, failed, exhausted, window, carry, pending, heard>>

\* ProgressiveChunkSink::process_audio up to ensure_playback; the cue may fall
\* in any of the stream's windows.
StreamAudio ==
    /\ batchPc = "audio" /\ ~window.accepted
    /\ effects' = [effects EXCEPT !.wet = @ \cup {at}]
    /\ carry' = IF Item.cue THEN carry \cup {at} ELSE carry
    /\ batchPc' = "flush"
    /\ UNCHANGED <<request, at, stale, failed, exhausted, window, pending, heard, status>>

\* The engine, the sink or the output fails while streaming.
StreamFails ==
    /\ batchPc = "audio"
    /\ failed' = IF stale THEN failed ELSE SpeechFailed
    /\ GivesUp(window)
    /\ UNCHANGED <<request, stale, exhausted, carry, pending, heard>>

\* ProgressiveChunkSink::finish
StreamFinish ==
    /\ batchPc = "audio" /\ window.accepted
    /\ RenderedWindow(FinalWindow)
    /\ batchPc' = "tails"
    /\ UNCHANGED <<request, at, stale, failed, exhausted, pending, heard, status>>

------------------------------
(* Queueing *)

\* mix_overlays and queue_overlay_after_if: what waits is mixed and played after
\* the speech queued so far.
FlushedOverlays ==
    IF pending = {} \/ stale THEN heard
    ELSE Append(heard, [stream |-> "Overlay", w |-> 0, pieces |-> pending,
                        after |-> Len(Clock)])

\* Mutant: overlays are left for later.
FlushLater ==
    /\ batchPc = "flush"
    /\ batchPc' = "queue"
    /\ UNCHANGED <<request, at, stale, failed, exhausted, window, effects, carry, status,
                   heard, pending>>

FlushOverlays ==
    /\ batchPc = "flush"
    /\ heard' = FlushedOverlays /\ pending' = {}
    /\ batchPc' = "queue"
    /\ UNCHANGED <<request, at, stale, failed, exhausted, window, effects, carry, status>>

SpeechHeard == Append(heard, [stream |-> "Speech", w |-> at, pieces |-> {}, after |-> 0])

\* queue, queue_tracked_if, ensure_playback: the output refuses a stale request, and
\* may fail.
QueueSpeech(ok) ==
    /\ batchPc = "queue"
    /\ IF ok /\ ~stale
       THEN /\ heard' = SpeechHeard
            /\ window' = [window EXCEPT !.accepted = TRUE]
            /\ batchPc' = IF window.mode = "stream" THEN "audio" ELSE "tails"
            /\ UNCHANGED <<failed, effects, status, at>>
       ELSE /\ failed' = IF stale THEN failed ELSE SpeechFailed
            /\ IF HasAttempt \/ window.mode = "stream" THEN GivesUp(window)
               ELSE batchPc' = "tails" /\ UNCHANGED <<at, window, effects, status>>
            /\ UNCHANGED heard
    /\ UNCHANGED <<request, stale, exhausted, carry, pending>>

\* Mutant: the sound of cues that outlast their window is forgotten.
QueueEffectTail ==
    /\ batchPc = "tails"
    /\ IF HasAttempt /\ failed
       THEN /\ Discarded /\ UNCHANGED pending
            /\ EndsRequest(IF stale /\ window.mode = "buffered" THEN "Cancelled" ELSE "Failed")
       ELSE /\ pending' = Waiting(window.tail)
            /\ IF stale /\ Item.k = "speech"
               THEN Ends("Cancelled") /\ UNCHANGED <<at, window>>
               ELSE Proceeds
            /\ UNCHANGED effects
    /\ UNCHANGED <<request, stale, failed, exhausted, carry, heard>>

\* The tails go to the overlays; then the caller looks whether to go on.
QueueTails ==
    /\ batchPc = "tails"
    /\ IF HasAttempt /\ failed
       THEN /\ Discarded /\ UNCHANGED pending
            /\ EndsRequest(IF stale /\ window.mode = "buffered" THEN "Cancelled" ELSE "Failed")
       ELSE /\ pending' = Waiting(window.tail \cup window.overlay)
            /\ IF stale /\ Item.k = "speech"
               THEN Ends("Cancelled") /\ UNCHANGED <<at, window>>
               ELSE Proceeds
            /\ UNCHANGED effects
    /\ UNCHANGED <<request, stale, failed, exhausted, carry, heard>>

------------------------------
(* After the last item *)

FinishRequest ==
    /\ batchPc = "item" /\ at > Len(plan)
    /\ IF ~Job({"batch", "timeline", "mixed"})
       THEN batchPc' = "last" /\ UNCHANGED status
       ELSE IF stale THEN Ends("Cancelled") ELSE batchPc' = "effectTail" /\ UNCHANGED status
    /\ UNCHANGED <<request, at, stale, failed, exhausted, window, effects, carry,
                   pending, heard>>

FinishEffectTail ==
    /\ batchPc = "effectTail" /\ batchPc' = "timelineTail"
    /\ pending' = Waiting(Tails(effects.wet))
    /\ effects' = [effects EXCEPT !.wet = {}]
    /\ UNCHANGED <<request, at, stale, failed, exhausted, window, carry, heard, status>>

FinishTimelineTail(ok) ==
    /\ batchPc = "timelineTail" /\ batchPc' = "last"
    /\ failed' = IF ok \/ carry = {} THEN failed ELSE SpeechFailed
    /\ pending' = IF ok THEN Waiting(Cues(carry)) ELSE pending
    /\ carry' = IF ok THEN {} ELSE carry
    /\ UNCHANGED <<request, at, stale, exhausted, window, effects, heard, status>>

LastFlush ==
    /\ batchPc = "last"
    /\ heard' = FlushedOverlays /\ pending' = {}
    /\ batchPc' = "report"
    /\ UNCHANGED <<request, at, stale, failed, exhausted, window, effects, carry, status>>

Report ==
    /\ batchPc = "report"
    /\ Ends(IF stale /\ Job({"batch", "timeline", "mixed"}) THEN "Cancelled"
            ELSE IF failed THEN "Failed" ELSE "Completed")
    /\ UNCHANGED <<request, at, stale, failed, exhausted, window, effects, carry,
                   pending, heard>>

BatchDone == batchPc = "done" /\ UNCHANGED batchVars

BatchNext ==
    \/ Interrupt \/ ItemCancelled \/ CodeItem \/ SkipSpeech \/ SelectOwner
    \/ \E ok \in BOOLEAN :
          \/ Prepare(ok) \/ BesideItem(ok) \/ InsertItem(ok) \/ SilenceItem(ok)
          \/ RenderBuffered(ok) \/ QueueSpeech(ok) \/ FinishTimelineTail(ok)
    \/ \E direct \in BOOLEAN : Synthesize(direct)
    \/ RenderCancelled \/ StreamAudio \/ StreamFails \/ StreamFinish
    \/ FlushOverlays \/ QueueTails \/ FinishRequest \/ FinishEffectTail \/ LastFlush \/ Report
    \/ BatchDone

BatchSpec == BatchInit /\ [][BatchNext]_batchVars

------------------------------
HeardPieces == UNION {{x.piece : x \in heard[i].pieces} : i \in DOMAIN heard}
HeardWindows == {heard[i].w : i \in {j \in DOMAIN heard : heard[j].stream # "Overlay"}}

\* A sound beside speech (a cue, an icon, an effect's tail) starts when exactly the
\* speech before it has been spoken: it waits for no later window and overtakes no
\* earlier one.
OverlaysInPlace ==
    \A i \in DOMAIN heard : \A x \in heard[i].pieces : heard[i].after = x.made

\* A request that reports Completed has let everything be heard: each item, and all
\* the sound that effects and cues leave after their windows.  (A preview or letter
\* made stale at the end may lose sound and still report Completed; its tickets
\* say that it was stopped.)
CompletedIsWhole ==
    status = "Completed" /\ (stale => Job({"batch", "timeline", "mixed"})) /\ ~Job({"letter"})
        => \A i \in DOMAIN plan :
             /\ plan[i].k \in {"speech", "silence", "insert", "tone"} => i \in HeardWindows
             /\ plan[i].k \in {"icon", "overlay"} => <<"beside", i>> \in HeardPieces
             /\ plan[i].k = "speech" =>
                  /\ <<"tail", i>> \in HeardPieces
                  /\ plan[i].cue => <<"cue", i>> \in HeardPieces

------------------------------
\* Preparing one span of a presentation timeline for speech
\* (omnivox-cli/src/text.rs and the layout half of pipeline.rs): its
\* punctuation is spelled out, CamelCase is split, the text is cut into
\* chunks of a few words, and every sound or event that the client put at
\* a character is moved along to its place in a chunk.  The server makes
\* the layout once before it admits the timeline and the worker again
\* before it speaks, after loading the sounds against a limit of decoded
\* PCM.
\* 
\* A character is a letter of a small alphabet and one byte long: offsets
\* are character boundaries, which is what the code requires of them.  A
\* character of the prepared text remembers the source character it comes
\* from.

CONSTANTS
    Spans,          \* [text, actions, max_words, split_caps, table]
    Spoken,         \* what each spelled-out character is replaced by
    FileSize,       \* decoded samples of each file
    EFFECT_TAIL,    \* MAX_EFFECT_TAIL_FRAMES * CHANNELS
    SAMPLE_LIMIT,   \* MAX_PRESENTATION_DECODED_PCM_SAMPLES
    MAX_ACTIONS     \* actions in one speech window

ASSUME TextAssumption ==
    /\ EFFECT_TAIL \in Nat /\ SAMPLE_LIMIT \in Nat /\ MAX_ACTIONS \in Nat
    /\ \A f \in DOMAIN FileSize : FileSize[f] \in Nat
    /\ \A s \in Spans : \A i \in DOMAIN s.actions : s.actions[i].offset \in -1..(Len(s.text) + 1)

VARIABLES
    span,       \* the span to be spoken
    textPc,     \* "preflight", "resources", "layout", and how it ended
    nextAction, \* the action whose sound is prepared next
    shared,     \* PresentationPcmBudget: shared_allocations
    retained,   \* PresentationPcmBudget: retained
    chunks,     \* the chunks, as ranges of the prepared text
    inChunk     \* per chunk, its actions with their local offsets

textVars == <<span, textPc, nextAction, shared, retained, chunks, inChunk>>

TextInit ==
    /\ span \in Spans
    /\ textPc = "preflight" /\ nextAction = 1
    /\ shared = {} /\ retained = 0
    /\ chunks = <<>> /\ inChunk = <<>>

------------------------------
(* Text processing *)

IsSpace(c) == c \in {" ", "\n"}
IsUpper(c) == c = "A"
IsLower(c) == c = "a"
IsCloser(c) == c = ")"

SEPARATOR == <<"[", "*", "]">>
StartsSeparator(t, i) == i + 2 <= Len(t) /\ SubSeq(t, i, i + 2) = SEPARATOR

From(cs, i) == [j \in DOMAIN cs |-> [c |-> cs[j], src |-> i]]

\* apply_punctuation_with_offsets: the prepared characters, and for each boundary of
\* the source the boundary it becomes.
ApplyPunctuation(t, table) ==
    LET Step(acc, i) ==
            LET places == Append(acc.map, Len(acc.out))
            IN  IF acc.skip > 0 THEN [acc EXCEPT !.skip = @ - 1, !.map = places]
                ELSE IF StartsSeparator(t, i)
                THEN [out |-> acc.out \o From(<<" ">>, i), map |-> places, skip |-> 2]
                ELSE IF t[i] \in table
                THEN [out |-> acc.out \o From(<<" ">> \o Spoken[t[i]] \o <<" ">>, i),
                      map |-> places, skip |-> 0]
                ELSE [out |-> acc.out \o From(<<t[i]>>, i), map |-> places, skip |-> 0]
        done == FoldLeft(Step, [out |-> <<>>, map |-> <<>>, skip |-> 0], [i \in DOMAIN t |-> i])
    IN  [out |-> done.out, map |-> Append(done.map, Len(done.out))]

\* insert_space_before_uppercase_with_offsets
SplitCaps(p) ==
    LET Step(acc, i) ==
            LET split == IsUpper(p[i].c) /\ i > 1 /\ IsLower(p[i - 1].c)
                out == IF split THEN acc.out \o From(<<" ">>, p[i].src) ELSE acc.out
            IN  [out |-> Append(out, p[i]), map |-> Append(acc.map, Len(out))]
        done == FoldLeft(Step, [out |-> <<>>, map |-> <<>>], [i \in DOMAIN p |-> i])
    IN  [out |-> done.out, map |-> Append(done.map, Len(done.out))]

\* prepare_speech_text_with_offsets
PrepareSpeechText(s) ==
    LET punctuated == ApplyPunctuation(s.text, s.table)
        split == SplitCaps(punctuated.out)
    IN  IF s.split_caps
        THEN [out |-> split.out,
              map |-> [b \in DOMAIN punctuated.map |-> split.map[punctuated.map[b] + 1]]]
        ELSE punctuated

\* word_spans: maximal runs of characters that are no white space, as <<start, end>>.
WordSpans(p) ==
    LET space(i) == i \notin DOMAIN p \/ IsSpace(p[i].c)
        starts == {i \in DOMAIN p : ~space(i) /\ space(i - 1)}
        end(i) == Min({j \in i..Len(p) : space(j + 1)})
    IN  SetToSortSeq({<<i - 1, end(i)>> : i \in starts}, LAMBDA x, y : x[1] < y[1])

\* boundary_after_word
BoundaryAfterWord(p, spans, w) ==
    LET gap == IF w < Len(spans) THEN (spans[w][2] + 1)..spans[w + 1][1] ELSE {}
        open == {i \in (spans[w][1] + 1)..spans[w][2] : ~IsCloser(p[i].c)}
        last == IF open = {} THEN "none" ELSE p[Max(open)].c
    IN  IF \E i \in gap : p[i].c = "\n" THEN "Sentence"
        ELSE IF last = "." THEN "Sentence"
        ELSE IF last = "," THEN "Clause" ELSE "None"

\* preferred_chunk_end
PreferredChunkEnd(p, spans, first, hard) ==
    LET endsIn(b) == {w \in first..hard : BoundaryAfterWord(p, spans, w) = b}
    IN  IF endsIn("Sentence") # {} THEN Max(endsIn("Sentence"))
        ELSE IF endsIn("Clause") # {} THEN Max(endsIn("Clause")) ELSE hard

\* Mutant: the word that reaches the limit is left for the next chunk.
FirstWordAfterHardEnd(word_end, hard) == IF word_end = hard THEN hard + 2 ELSE word_end + 1

FirstWordAfter(word_end, hard) == word_end + 1

\* chunk_prepared_speech
ChunkPreparedSpeech(p, max_words) ==
    LET spans == WordSpans(p)
        n == Len(spans)
        hard(f) == IF f + max_words - 1 < n THEN f + max_words - 1 ELSE n
        end(f) == IF hard(f) = n THEN n ELSE PreferredChunkEnd(p, spans, f, hard(f))
        next(f) == FirstWordAfter(end(f), hard(f))
        from[f \in 1..(n + 2)] ==
            IF f > n THEN <<>>
            ELSE <<[start |-> spans[f][1], end |-> spans[end(f)][2]]>> \o from[next(f)]
    IN  IF n <= max_words \/ max_words = 0 THEN <<[start |-> 0, end |-> Len(p)]>>
        ELSE from[1]

------------------------------
\* Layout: an action at offset -1 is at its span's boundary.

IsBoundary(action) == action.offset = -1

\* Mutant: the client's offset is used in the prepared text as it is.
PreparedOffsetUnmapped(action, prepared, cs) ==
    IF IsBoundary(action)
    THEN IF action.affinity = "Before" THEN 0 ELSE Last(cs).end
    ELSE action.offset

PreparedOffset(action, prepared, cs) ==
    IF IsBoundary(action)
    THEN IF action.affinity = "Before" THEN 0 ELSE Last(cs).end
    ELSE prepared.map[action.offset + 1]

\* locate_timeline_chunk
LocateChunk(cs, offset, affinity) ==
    LET passed == IF affinity = "Before" THEN {i \in DOMAIN cs : cs[i].end <= offset}
                  ELSE {i \in DOMAIN cs : cs[i].start < offset}
    IN  IF affinity = "Before" THEN Min({Cardinality(passed) + 1, Len(cs)})
        ELSE Max({Cardinality(passed), 1})

Within(offset, chunk) == Max({chunk.start, Min({chunk.end, offset})})

\* prepare_timeline_text_layout
PlaceIn(cs, offset, c) == [chunk |-> c, local |-> Within(offset, cs[c]) - cs[c].start]

LayoutOf(s, prepared, cs) ==
    LET offset(a) == PreparedOffset(a, prepared, cs)
        place(a) == PlaceIn(cs, offset(a), LocateChunk(cs, offset(a), a.affinity))
    IN  [chunks |-> cs, at |-> [i \in DOMAIN s.actions |-> place(s.actions[i])]]

\* The one layout of a span, as a set.
Layouts(s) ==
    UNION {{LayoutOf(s, prepared, cs) : cs \in {ChunkPreparedSpeech(prepared.out, s.max_words)}} :
               prepared \in {PrepareSpeechText(s)}}

\* validate_timeline_span_layout.  Capitalization tones would count too, but
\* prepare_speech_text_with_offsets leaves their list empty (text.rs:289-294).
LayoutFits(l) ==
    \A c \in DOMAIN l.chunks : Cardinality({i \in DOMAIN l.at : l.at[i].chunk = c}) <= MAX_ACTIONS

------------------------------
(* Admission *)

\* validate_presentation_timeline(_v4)_action_windows, before anything is cancelled
Preflight ==
    /\ textPc = "preflight"
    /\ \E l \in Layouts(span) :
          textPc' = IF LayoutFits(l) THEN "resources" ELSE "refused"
    /\ UNCHANGED <<span, nextAction, shared, retained, chunks, inChunk>>

(* The worker *)

\* check_timeline_preparation_cancelled
PreparationCancelled ==
    /\ textPc \in {"resources", "layout"}
    /\ textPc' = "cancelled"
    /\ UNCHANGED <<span, nextAction, shared, retained, chunks, inChunk>>

EffectTail(a) == IF a.speech_bus THEN EFFECT_TAIL ELSE 0

\* A file that needs its own copy: volume, routing, pan or the speech's effects.
NeedsCopy(a) == a.changed \/ a.speech_bus

SharedSamples(a) == IF a.kind = "Audio" /\ a.file \notin shared THEN FileSize[a.file] ELSE 0

\* Mutant: copies of a file are not counted.
PrivateSamplesOfTones(a) == IF a.kind \in {"Tone", "Silence"} THEN a.samples + EffectTail(a) ELSE 0

\* retain_private
PrivateSamples(a) ==
    CASE a.kind = "Audio" -> IF NeedsCopy(a) THEN FileSize[a.file] + EffectTail(a) ELSE 0
      [] a.kind \in {"Tone", "Silence"} -> a.samples + EffectTail(a)
      [] a.kind = "SemanticEvent" -> 0

\* prepare_timeline_resources_with_sample_limit, one action; a file may fail to load.
PrepareResource(loads) ==
    /\ textPc = "resources" /\ nextAction <= Len(span.actions)
    /\ LET a == span.actions[nextAction]
           wanted == retained + SharedSamples(a) + PrivateSamples(a)
       IN  IF \/ wanted > SAMPLE_LIMIT
              \/ a.kind = "Audio" /\ (~loads \/ FileSize[a.file] = 0)
           THEN textPc' = "failed" /\ UNCHANGED <<nextAction, shared, retained>>
           ELSE /\ retained' = wanted
                /\ shared' = IF a.kind = "Audio" THEN shared \cup {a.file} ELSE shared
                /\ nextAction' = nextAction + 1 /\ UNCHANGED textPc
    /\ UNCHANGED <<span, chunks, inChunk>>

ResourcesReady ==
    /\ textPc = "resources" /\ nextAction > Len(span.actions)
    /\ textPc' = "layout"
    /\ UNCHANGED <<span, nextAction, shared, retained, chunks, inChunk>>

\* prepare_timeline_span_data
PrepareSpan ==
    /\ textPc = "layout"
    /\ \E l \in Layouts(span) :
       IF LayoutFits(l)
       THEN /\ chunks' = l.chunks
            /\ inChunk' = [c \in DOMAIN l.chunks |->
                             [i \in {j \in DOMAIN l.at : l.at[j].chunk = c} |-> l.at[i].local]]
            /\ textPc' = "ready"
       ELSE textPc' = "failed" /\ UNCHANGED <<chunks, inChunk>>
    /\ UNCHANGED <<span, nextAction, shared, retained>>

TextDone == textPc \in {"ready", "refused", "failed", "cancelled"} /\ UNCHANGED textVars

TextNext ==
    \/ Preflight \/ PreparationCancelled \/ ResourcesReady \/ PrepareSpan \/ TextDone
    \/ \E loads \in BOOLEAN : PrepareResource(loads)

TextSpec == TextInit /\ [][TextNext]_textVars

------------------------------
Prepared == PrepareSpeechText(span).out
Speakable(i) == ~IsSpace(Prepared[i].c)

\* Cutting into chunks neither loses nor repeats a word, and no chunk is longer than
\* the words allowed: the chunks are apart, in order, and hold everything speakable.
ChunksHoldTheText ==
    textPc = "ready" =>
        /\ \A i \in DOMAIN Prepared : Speakable(i) =>
              Cardinality({c \in DOMAIN chunks : chunks[c].start < i /\ i <= chunks[c].end}) = 1
        /\ \A c \in DOMAIN chunks :
              Len(WordSpans(SubSeq(Prepared, chunks[c].start + 1, chunks[c].end))) <= span.max_words

\* A sound or event stays at its character: in the order of speaking, what comes from
\* the source before it is spoken before it and the rest after it, through spelled-out
\* punctuation, split words and chunks.
ActionsStayInPlace ==
    textPc = "ready" =>
        \A c \in DOMAIN chunks : \A i \in DOMAIN inChunk[c] :
            LET a == span.actions[i]
                here == chunks[c].start + inChunk[c][i]
            IN  \A x \in DOMAIN Prepared : Speakable(x) /\ ~IsBoundary(a) =>
                    (x <= here <=> Prepared[x].src <= a.offset)

\* What the prepared sounds occupy, each file once and each copy of it, is within the
\* limit of decoded PCM.
PcmWithinLimit ==
    textPc = "ready" =>
        LET files == {span.actions[i].file : i \in {j \in DOMAIN span.actions : span.actions[j].kind = "Audio"}}
            copies == FoldSeq(LAMBDA a, n : n +
                        (CASE a.kind = "Audio" -> IF a.changed \/ a.speech_bus
                                                  THEN FileSize[a.file] + EffectTail(a) ELSE 0
                           [] a.kind = "SemanticEvent" -> 0
                           [] OTHER -> a.samples + EffectTail(a)), 0, span.actions)
        IN  FoldSet(LAMBDA f, n : n + FileSize[f], 0, files) + copies <= SAMPLE_LIMIT
=============================================================================
