---------------------------- MODULE MarkerEvents ----------------------------
(***************************************************************************)
(* Playback events on their way to stdout (omnivox-cli/src/marker_events.rs)*)
(* Before an utterance is queued the worker encodes its event records and  *)
(* reserves room for them against two limits, waiting while the request is *)
(* current.  A cue's callback, on the audio thread, takes its records and  *)
(* sends them without blocking; a record that is never sent gives its room *)
(* back when it is dropped.  When playback has ended the completion thread *)
(* of the dispatch sends one terminal record, in a slot of its own.  One   *)
(* reporter thread writes everything.                                      *)
(*                                                                         *)
(* A dispatch has one utterance here; a record is its index in the         *)
(* utterance, which is also the order of its sequence numbers.             *)
(***************************************************************************)
EXTENDS Naturals, Sequences, FiniteSets

CONSTANTS
    Dispatch,      \* 1 .. n, in the order the worker takes them
    Initial,       \* Initial[d]: records known when the utterance is queued
    Paired,        \* dispatches whose start record has a voice choice behind it
    Progressive,   \* dispatches played while they are synthesized
    Size,          \* Size[i]: encoded bytes of record i
    max_events, max_bytes,
    MAX_PROGRESSIVE_MARKERS

ASSUME MarkerAssumption ==
    /\ Dispatch \subseteq Nat \ {0} /\ IsFiniteSet(Dispatch)
    /\ Paired \cup Progressive \subseteq Dispatch
    /\ {max_events, max_bytes, MAX_PROGRESSIVE_MARKERS} \subseteq Nat \ {0}
    /\ Initial \in [Dispatch -> Nat \ {0}]
    /\ \A d \in Paired : Initial[d] >= 2
    /\ \A d \in Dispatch : \A i \in 0 .. Initial[d] + MAX_PROGRESSIVE_MARKERS - 1 :
          Size[i] \in Nat

VARIABLES
    capacity,    \* MarkerReporterCapacityState
    worker,      \* the dispatch the synthesis worker is at, and where in it
    records,     \* records[d]: how many it has reserved in all
    unsent,      \* unsent[d]: reserved records not taken by a cue yet
    cue,         \* cue[d]: the next record whose frame playback reaches
    playback,    \* playback[d]: "none", "queued", "ended"
    output,      \* the speech sink: dispatches in order
    current,     \* requests not stopped or superseded
    terminal,    \* terminal[d]: where its completion thread is
    reports,     \* the reporter's channel
    writing,     \* the message the reporter holds, if any
    written      \* what stdout has received

markerVars == <<capacity, worker, records, unsent, cue, playback, output, current,
                terminal, reports, writing, written>>

MarkerInit ==
    /\ capacity = [events |-> 0, bytes |-> 0, terminal_in_flight |-> FALSE,
                   closed |-> FALSE]
    /\ worker = [d |-> 1, pc |-> "prepare", batch |-> {}]
    /\ records = [d \in Dispatch |-> 0]
    /\ unsent = [d \in Dispatch |-> {}]
    /\ cue = [d \in Dispatch |-> 0]
    /\ playback = [d \in Dispatch |-> "none"]
    /\ output = <<>>
    /\ current = Dispatch
    /\ terminal = [d \in Dispatch |-> "waiting"]
    /\ reports = <<>>
    /\ writing = <<>>
    /\ written = <<>>

-----------------------------------------------------------------------------
\* What is in any f[x], told apart by x: as many as all the f[x] have together.
Pairs(f) == UNION {{x} \X f[x] : x \in DOMAIN f}

Bytes(rs) == Cardinality(Pairs([i \in rs |-> 1 .. Size[i]]))

\* Mutant: a batch dropped with its source keeps its room.
ReleaseNone(c, rs) == [c EXCEPT !.events = @, !.bytes = @]

\* release_marker for each dropped record.
Release(c, rs) ==
    [c EXCEPT !.events = @ - Cardinality(rs), !.bytes = @ - Bytes(rs)]

\* Mutant: a batch is let in while the byte limit is not exceeded yet.
FitsNext(rs) ==
    /\ capacity.events + Cardinality(rs) <= max_events
    /\ capacity.bytes <= max_bytes

Fits(rs) ==
    /\ capacity.events + Cardinality(rs) <= max_events
    /\ capacity.bytes + Bytes(rs) <= max_bytes

TooBig(rs) == Cardinality(rs) > max_events \/ Bytes(rs) > max_bytes

NextDispatch == [d |-> worker.d + 1, pc |-> "prepare", batch |-> {}]

\* The dispatch ends without (more) audio; its completion follows.
Abandon(d) ==
    /\ worker' = NextDispatch
    /\ playback' = [playback EXCEPT ![d] = IF @ = "none" THEN "ended" ELSE @]

\* prepare_timeline_utterance_with_choice: number the records in playback
\* order, start first, then the choice, diagnostics, markers and events.
PrepareUtterance ==
    /\ worker.d \in Dispatch /\ worker.pc = "prepare"
    /\ worker' = [worker EXCEPT !.pc = "reserve",
                                !.batch = 0 .. Initial[worker.d] - 1]
    /\ UNCHANGED <<capacity, records, unsent, cue, playback, output, current,
                   terminal, reports, writing, written>>

\* push_timeline_events: one more batch for a progressive source.
PushTimelineEvents ==
    /\ worker.pc = "push"
    /\ LET d == worker.d
           batch == {records[d]} IN
       IF records[d] - Initial[d] + 1 <= MAX_PROGRESSIVE_MARKERS
       THEN /\ worker' = [worker EXCEPT !.pc = "reserve", !.batch = batch]
            /\ UNCHANGED playback
       ELSE Abandon(d)
    /\ UNCHANGED <<capacity, records, unsent, cue, output, current, terminal,
                   reports, writing, written>>

\* reserve_marker_records: refused when too big or closed, given up when the
\* request is no longer current, granted when both limits allow it.
ReserveRefused ==
    /\ worker.pc = "reserve"
    /\ TooBig(worker.batch) \/ capacity.closed \/ worker.d \notin current
    /\ Abandon(worker.d)
    /\ UNCHANGED <<capacity, records, unsent, cue, output, current, terminal,
                   reports, writing, written>>

ReserveGranted ==
    /\ worker.pc = "reserve"
    /\ ~TooBig(worker.batch) /\ ~capacity.closed /\ worker.d \in current
    /\ Fits(worker.batch)
    /\ capacity' = [capacity EXCEPT !.events = @ + Cardinality(worker.batch),
                                    !.bytes = @ + Bytes(worker.batch)]
    /\ unsent' = [unsent EXCEPT ![worker.d] = @ \cup worker.batch]
    /\ records' = [records EXCEPT ![worker.d] = @ + Cardinality(worker.batch)]
    /\ worker' = [worker EXCEPT
          !.pc = IF playback[worker.d] = "none" THEN "queue" ELSE "cues",
          !.batch = {}]
    /\ UNCHANGED <<cue, playback, output, current, terminal, reports, writing,
                   written>>

\* queue_if_with_cancellation or queue_progressive_cancellable_if: the records
\* move into the cue callback; a refused source drops them.
QueueUtterance(queued) ==
    /\ worker.pc = "queue"
    /\ LET d == worker.d IN
       IF queued /\ d \in current
       THEN /\ output' = Append(output, d)
            /\ playback' = [playback EXCEPT ![d] = "queued"]
            /\ worker' = IF d \in Progressive THEN [worker EXCEPT !.pc = "push"]
                         ELSE NextDispatch
            /\ UNCHANGED <<capacity, unsent>>
       ELSE /\ capacity' = Release(capacity, unsent[d])
            /\ unsent' = [unsent EXCEPT ![d] = {}]
            /\ Abandon(d)
            /\ UNCHANGED output
    /\ UNCHANGED <<records, cue, current, terminal, reports, writing, written>>

\* The cues of a further batch reach the source, or it is already over.  Then
\* the last owner of the records, the publisher, drops them.
PushCues ==
    /\ worker.pc = "cues"
    /\ LET d == worker.d IN
       IF playback[d] = "queued"
       THEN /\ worker' = [worker EXCEPT !.pc = "push"]
            /\ UNCHANGED <<capacity, unsent>>
       ELSE /\ worker' = NextDispatch
            /\ capacity' = Release(capacity, unsent[d])
            /\ unsent' = [unsent EXCEPT ![d] = {}]
    /\ UNCHANGED <<records, cue, playback, output, current, terminal, reports,
                   writing, written>>

\* The engine has no more PCM: the producer is finished or dropped, and the
\* publisher with it.
EndProgressive ==
    /\ worker.pc = "push"
    /\ worker' = NextDispatch
    /\ LET d == worker.d IN
       IF playback[d] = "ended"
       THEN /\ capacity' = Release(capacity, unsent[d])
            /\ unsent' = [unsent EXCEPT ![d] = {}]
       ELSE UNCHANGED <<capacity, unsent>>
    /\ UNCHANGED <<records, cue, playback, output, current, terminal, reports,
                   writing, written>>

-----------------------------------------------------------------------------
(* The audio thread *)

\* Mutant: the choice is sent by a cue of its own.
TakeOneRecord(d, i) == unsent[d] \cap {i}

\* take_cue_records: the choice goes with the start record.
TakeCueRecords(d, i) ==
    unsent[d] \cap (IF i = 0 /\ d \in Paired THEN {0, 1} ELSE {i})

CueStep(d) == IF cue[d] = 0 /\ d \in Paired THEN 2 ELSE 1

\* on_cue: emit never blocks, the reservation is the room in the channel.
OnCue ==
    /\ output # <<>>
    /\ LET d == Head(output)
           taken == TakeCueRecords(d, cue[d]) IN
       /\ cue[d] < records[d] /\ d \in current
       /\ Len(reports) < max_events + 1
       /\ reports' = IF taken = {} THEN reports
                     ELSE Append(reports, [d |-> d, records |-> taken])
       /\ unsent' = [unsent EXCEPT ![d] = @ \ taken]
       /\ cue' = [cue EXCEPT ![d] = @ + CueStep(d)]
    /\ UNCHANGED <<capacity, worker, records, playback, output, current, terminal,
                   writing, written>>

\* The source ends: all its cues passed, or it is cancelled; its callback drops
\* what it did not send, unless a publisher still shares it.
SourceFinishes ==
    /\ output # <<>>
    /\ LET d == Head(output) IN
       /\ \/ d \notin current
          \/ cue[d] >= records[d] /\ worker.d # d
       /\ playback' = [playback EXCEPT ![d] = "ended"]
       /\ IF worker.d = d
          THEN UNCHANGED <<capacity, unsent>>
          ELSE /\ capacity' = Release(capacity, unsent[d])
               /\ unsent' = [unsent EXCEPT ![d] = {}]
    /\ output' = Tail(output)
    /\ UNCHANGED <<worker, records, cue, current, terminal, reports, writing, written>>

StopDispatch(d) ==
    /\ d \in current
    /\ current' = current \ {d}
    /\ UNCHANGED <<capacity, worker, records, unsent, cue, playback, output, terminal,
                   reports, writing, written>>

-----------------------------------------------------------------------------
(* The completion thread of a dispatch: emit_terminal *)

ReserveTerminal(d) ==
    /\ terminal[d] = "waiting" /\ playback[d] = "ended" /\ worker.d # d
    /\ capacity.closed \/ ~capacity.terminal_in_flight
    /\ IF capacity.closed
       THEN /\ terminal' = [terminal EXCEPT ![d] = "lost"]
            /\ UNCHANGED capacity
       ELSE /\ capacity' = [capacity EXCEPT !.terminal_in_flight = TRUE]
            /\ terminal' = [terminal EXCEPT ![d] = "reserved"]
    /\ UNCHANGED <<worker, records, unsent, cue, playback, output, current, reports,
                   writing, written>>

SendTerminal(d) ==
    /\ terminal[d] = "reserved"
    /\ Len(reports) < max_events + 1
    /\ terminal' = [terminal EXCEPT ![d] = "sent"]
    /\ reports' = Append(reports, [d |-> d, records |-> {}])
    /\ UNCHANGED <<capacity, worker, records, unsent, cue, playback, output, current,
                   writing, written>>

-----------------------------------------------------------------------------
(* The reporter *)

ReporterReceive ==
    /\ ~capacity.closed /\ writing = <<>> /\ reports # <<>>
    /\ writing' = <<Head(reports)>>
    /\ reports' = Tail(reports)
    /\ UNCHANGED <<capacity, worker, records, unsent, cue, playback, output, current,
                   terminal, written>>

\* write_marker_reporter_message, then the message is dropped.
ReporterWrite ==
    /\ writing # <<>>
    /\ LET m == writing[1] IN
       /\ written' = Append(written, m)
       /\ capacity' = IF m.records = {}
                      THEN [capacity EXCEPT !.terminal_in_flight = FALSE]
                      ELSE Release(capacity, m.records)
    /\ writing' = <<>>
    /\ UNCHANGED <<worker, records, unsent, cue, playback, output, current, terminal,
                   reports>>

AllReported == \A d \in Dispatch : terminal[d] \in {"sent", "lost"}

\* Every sender is gone: the receiver ends and the guard closes the capacity.
ReporterEnds ==
    /\ AllReported /\ reports = <<>> /\ writing = <<>> /\ ~capacity.closed
    /\ capacity' = [capacity EXCEPT !.closed = TRUE]
    /\ UNCHANGED <<worker, records, unsent, cue, playback, output, current, terminal,
                   reports, writing, written>>

-----------------------------------------------------------------------------
MarkerWorker ==
    PrepareUtterance \/ PushTimelineEvents \/ ReserveRefused \/ ReserveGranted
    \/ (\E queued \in BOOLEAN : QueueUtterance(queued)) \/ PushCues \/ EndProgressive

AudioThread == OnCue \/ SourceFinishes

Completion(d) == ReserveTerminal(d) \/ SendTerminal(d)

Reporter == ReporterReceive \/ ReporterWrite \/ ReporterEnds

MarkersDone == capacity.closed /\ UNCHANGED markerVars

MarkerNext ==
    \/ MarkerWorker \/ AudioThread \/ Reporter \/ MarkersDone
    \/ \E d \in Dispatch : Completion(d) \/ StopDispatch(d)

\* Every thread runs; no dispatch has to be stopped for another to go on.
MarkerFairness ==
    /\ WF_markerVars(MarkerWorker)
    /\ WF_markerVars(AudioThread)
    /\ WF_markerVars(Reporter)
    /\ \A d \in Dispatch : WF_markerVars(Completion(d))

MarkerSpec == MarkerInit /\ [][MarkerNext]_markerVars /\ MarkerFairness

-----------------------------------------------------------------------------
InChannel == [i \in DOMAIN reports |-> reports[i].records]

\* Records reserved and not yet dropped, wherever they are.
Reserved ==
    Cardinality(Pairs(unsent)) + Cardinality(Pairs(InChannel))
      + (IF writing = <<>> THEN 0 ELSE Cardinality(writing[1].records))

\* The limits hold, the counts are those of the records alive, and so the audio
\* thread always finds room in the channel for a record it holds.
ReservationsHold ==
    /\ capacity.events = Reserved
    /\ capacity.events <= max_events /\ capacity.bytes <= max_bytes
    /\ Len(reports) <= max_events + 1
    /\ (\E d \in Dispatch : unsent[d] # {}) => Len(reports) < max_events + 1

Lines(d) == {i \in DOMAIN written : written[i].d = d}

\* On stdout the records of a dispatch come in sequence order, each once, the
\* start and its voice choice in one write, and nothing after its terminal record.
WrittenInOrder ==
    \A d \in Dispatch : \A i, j \in Lines(d) : i < j =>
        /\ written[i].records # {}
        /\ \A r \in written[i].records, s \in written[j].records : r < s
        /\ d \in Paired /\ 0 \in written[i].records => 1 \in written[i].records

\* Every dispatch gets its terminal record: no reservation waits for ever for
\* room held by what can only be played after it.
TerminalWritten(d) == \E i \in Lines(d) : written[i].records = {}
=============================================================================
