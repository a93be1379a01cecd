--------------------------- MODULE AudioControl ----------------------------
(***************************************************************************)
(* The shared handle on the three output streams                           *)
(* (omnivox-audio/src/output.rs, AudioControl).  Each stream has a gate, a *)
(* mutex held from the caller's staleness check to the append, and taken   *)
(* by stop, so that a stop cannot fall between the two.  An overlay with   *)
(* playback barriers is appended by a scheduler thread of its own, long    *)
(* after the caller's check: it carries the stream's schedule generation.  *)
(* Stopping Speech or Tone rotates and cancels the stream's stop token,    *)
(* which its sources read sample by sample; stopping Sound clears the      *)
(* sink.  Every source has a ticket that reports one terminal status.      *)
(*                                                                         *)
(* A source is one audio buffer handed to the control.  The two atomic     *)
(* parts of a gated append are separate steps, so that every other thread  *)
(* may run between the check and the append.  A sink plays its sources in  *)
(* order (rodio, PulseAudio or the null sink: external), one at a time.    *)
(***************************************************************************)
EXTENDS Naturals, Sequences, FiniteSets

CONSTANTS
    Source,       \* audio buffers that may be queued
    Stream,       \* {"Speech", "Tone", "Sound"}, or fewer
    StreamOf,     \* StreamOf[s]: the stream s is queued on
    Barriers,     \* Barriers[s]: the primary buffers queued before overlay s
    Token,        \* Token[s]: the request's keyed cancellation token, or NoToken
    NoToken,
    MaxDepth,     \* MaxDepth[st]: speech_max, tone_max, sound_max
    MaxStops      \* bound: how often a stream is stopped or replaced

ASSUME AudioAssumption ==
    /\ StreamOf \in [Source -> Stream]
    /\ MaxDepth \in [Stream -> Nat \ {0}]
    /\ Barriers \in [Source -> Seq(Source)]
    /\ MaxStops \in Nat

VARIABLES
    phase,                 \* phase[s]: where the source is
    ticket,                \* ticket[s]: the PlaybackTicket's status
    sink,                  \* sink[st]: queued sources, the head is playing
    schedule_generations,  \* schedule_generations[st]
    stop_token,            \* stop_token[st]: which stop token is current
    held_token,            \* held_token[s]: the stop token s was given
    scheduled_at,          \* scheduled_at[s]: schedule generation s was checked at
    cancelled,             \* keyed tokens already cancelled
    draining               \* how far drain() has come

audioVars == <<phase, ticket, sink, schedule_generations, stop_token,
               held_token, scheduled_at, cancelled, draining>>

\* Speech and Tone stop by token; Sound by clearing its sink.
SmoothStop(st) == st \in {"Speech", "Tone"}

AudioInit ==
    /\ phase = [s \in Source |-> "new"]
    /\ ticket = [s \in Source |-> "none"]
    /\ sink = [st \in Stream |-> <<>>]
    /\ schedule_generations = [st \in Stream |-> 0]
    /\ stop_token = [st \in Stream |-> 0]
    /\ held_token = [s \in Source |-> 0]
    /\ scheduled_at = [s \in Source |-> 0]
    /\ cancelled = {}
    /\ draining = "no"

------------------------------
GateFree(st) ==
    \A s \in Source : StreamOf[s] = st => phase[s] \notin {"gate", "dueGate"}

InSink(s) == phase[s] = "sink"

\* PlaybackCancellation.is_requested.
IsRequested(s) ==
    \/ SmoothStop(StreamOf[s]) /\ held_token[s] # stop_token[StreamOf[s]]
    \/ Token[s] \in cancelled

\* A source a listener can hear now or later.
Audible(s) == InSink(s) /\ ~IsRequested(s)

Terminal == {"Completed", "Cancelled"}

\* Mutant: a dropped source leaves its waiter without an answer.
DropAllSilently(st) ==
    /\ phase' = [s \in Source |->
          IF InSink(s) /\ StreamOf[s] = st THEN "done" ELSE phase[s]]
    /\ UNCHANGED ticket

\* Dropping a source reports Cancelled unless it was already terminal.
DropAll(st) ==
    /\ phase' = [s \in Source |->
          IF InSink(s) /\ StreamOf[s] = st THEN "done" ELSE phase[s]]
    /\ ticket' = [s \in Source |->
          IF InSink(s) /\ StreamOf[s] = st THEN "Cancelled" ELSE ticket[s]]

------------------------------
(* The synthesis worker *)

\* An overlay is flushed after the primary buffers before it were tried.
BarriersTried(s) ==
    \A i \in DOMAIN Barriers[s] : phase[Barriers[s][i]] \notin {"new", "gate"}

\* presentation_clock: the places of those that were accepted and have a ticket.
Waits(s) == {i \in DOMAIN Barriers[s] : ticket[Barriers[s][i]] # "none"}

\* queue_tracked_if: take the gate and evaluate the caller's predicate.
QueueGate(s, current) ==
    /\ phase[s] = "new"
    /\ BarriersTried(s) /\ Waits(s) = {}
    /\ GateFree(StreamOf[s])
    /\ phase' = [phase EXCEPT ![s] = IF current THEN "gate" ELSE "refused"]
    /\ scheduled_at' =
          [scheduled_at EXCEPT ![s] = schedule_generations[StreamOf[s]]]
    /\ UNCHANGED <<ticket, sink, schedule_generations, stop_token, held_token,
                   cancelled, draining>>

\* prepare_queue and the append, then the gate is released.  A stream at
\* capacity is cleared first, which drops its sources.
Append1(s) ==
    LET st == StreamOf[s]
        full == Len(sink[st]) >= MaxDepth[st]
        dropped == IF full THEN {u \in Source : InSink(u) /\ StreamOf[u] = st}
                   ELSE {}
    IN
    /\ sink' = [sink EXCEPT ![st] = IF full THEN <<s>> ELSE Append(@, s)]
    /\ phase' = [u \in Source |-> IF u = s THEN "sink"
                                  ELSE IF u \in dropped THEN "done"
                                  ELSE phase[u]]
    /\ ticket' = [u \in Source |-> IF u = s THEN "pending"
                                   ELSE IF u \in dropped THEN "Cancelled"
                                   ELSE ticket[u]]
    /\ held_token' = [held_token EXCEPT ![s] = stop_token[st]]
    /\ UNCHANGED <<schedule_generations, stop_token, scheduled_at, cancelled,
                   draining>>

QueueAppend(s) == phase[s] = "gate" /\ Append1(s)

\* queue_stream_after_if: under the gate, check the predicate and read the
\* schedule generation; then hand the overlay to a scheduler thread.
Schedule(s, current) ==
    /\ phase[s] = "new"
    /\ BarriersTried(s) /\ Waits(s) # {}
    /\ GateFree(StreamOf[s])
    /\ phase' = [phase EXCEPT ![s] = IF current THEN "scheduled" ELSE "refused"]
    /\ ticket' = [ticket EXCEPT ![s] = IF current THEN "pending" ELSE @]
    /\ scheduled_at' =
          [scheduled_at EXCEPT ![s] = schedule_generations[StreamOf[s]]]
    /\ UNCHANGED <<sink, schedule_generations, stop_token, held_token, cancelled,
                   draining>>

------------------------------
(* The overlay scheduler threads *)

\* barriers.any(wait() == Cancelled) has an answer: all before the first
\* cancelled barrier are complete.
BarrierCancelled(s) ==
    \E i \in Waits(s) :
        /\ ticket[Barriers[s][i]] = "Cancelled"
        /\ \A j \in Waits(s) : j < i => ticket[Barriers[s][j]] = "Completed"

BarriersComplete(s) ==
    \A i \in Waits(s) : ticket[Barriers[s][i]] = "Completed"

\* Mutant: a cancelled barrier counts as passed.
ScheduleRetiredByStop(s) ==
    \/ Token[s] \in cancelled
    \/ schedule_generations[StreamOf[s]] # scheduled_at[s]

\* Dropped or superseded while it waited.
ScheduleRetired(s) ==
    \/ BarrierCancelled(s)
    \/ Token[s] \in cancelled
    \/ schedule_generations[StreamOf[s]] # scheduled_at[s]

SchedulerCancel(s) ==
    /\ phase' = [phase EXCEPT ![s] = "done"]
    /\ ticket' = [ticket EXCEPT ![s] = "Cancelled"]
    /\ UNCHANGED <<sink, schedule_generations, stop_token, held_token,
                   scheduled_at, cancelled, draining>>

\* Mutant: the scheduler waits for completions only.
BarrierWaitComplete(s) ==
    /\ phase[s] = "scheduled"
    /\ BarriersComplete(s)
    /\ IF ScheduleRetired(s) THEN SchedulerCancel(s)
       ELSE /\ phase' = [phase EXCEPT ![s] = "due"]
            /\ UNCHANGED <<ticket, sink, schedule_generations, stop_token,
                           held_token, scheduled_at, cancelled, draining>>

BarrierWait(s) ==
    /\ phase[s] = "scheduled"
    /\ BarrierCancelled(s) \/ BarriersComplete(s)
    /\ IF ScheduleRetired(s) THEN SchedulerCancel(s)
       ELSE /\ phase' = [phase EXCEPT ![s] = "due"]
            /\ UNCHANGED <<ticket, sink, schedule_generations, stop_token,
                           held_token, scheduled_at, cancelled, draining>>

\* Mutant: the generation read before the gate is trusted inside it.
DueGateUnchecked(s) ==
    /\ phase[s] = "due"
    /\ GateFree(StreamOf[s])
    /\ phase' = [phase EXCEPT ![s] = "dueGate"]
    /\ UNCHANGED <<ticket, sink, schedule_generations, stop_token, held_token,
                   scheduled_at, cancelled, draining>>

\* The second gate: only the schedule generation is checked here.
DueGate(s) ==
    /\ phase[s] = "due"
    /\ GateFree(StreamOf[s])
    /\ IF schedule_generations[StreamOf[s]] = scheduled_at[s]
       THEN /\ phase' = [phase EXCEPT ![s] = "dueGate"]
            /\ UNCHANGED <<ticket, sink, schedule_generations, stop_token,
                           held_token, scheduled_at, cancelled, draining>>
       ELSE SchedulerCancel(s)

DueAppend(s) == phase[s] = "dueGate" /\ Append1(s)

\* sink.append fails (no output connection) after prepare_queue, which clears
\* a full stream all the same: the source is dropped and its ticket, if the
\* caller has one, reports Cancelled.
AppendError(s) ==
    LET st == StreamOf[s]
        full == Len(sink[st]) >= MaxDepth[st]
        dropped == {u \in Source : full /\ InSink(u) /\ StreamOf[u] = st}
    IN
    /\ phase[s] \in {"gate", "dueGate"}
    /\ sink' = [sink EXCEPT ![st] = IF full THEN <<>> ELSE @]
    /\ phase' = [u \in Source |-> IF u = s THEN "failed"
                                  ELSE IF u \in dropped THEN "done"
                                  ELSE phase[u]]
    /\ ticket' = [u \in Source |->
          IF u \in dropped \/ (u = s /\ ticket[u] = "pending") THEN "Cancelled"
          ELSE ticket[u]]
    /\ UNCHANGED <<schedule_generations, stop_token, held_token, scheduled_at,
                   cancelled, draining>>

------------------------------
(* The protocol loop and the registry of keyed presentations *)

Stop(st) ==
    /\ GateFree(st)
    /\ schedule_generations' = [schedule_generations EXCEPT ![st] = @ + 1]
    /\ IF SmoothStop(st)
       THEN /\ stop_token' = [stop_token EXCEPT ![st] = @ + 1]
            /\ UNCHANGED <<phase, ticket, sink>>
       ELSE /\ sink' = [sink EXCEPT ![st] = <<>>]
            /\ DropAll(st)
            /\ UNCHANGED stop_token
    /\ UNCHANGED <<held_token, scheduled_at, cancelled, draining>>

\* interrupt_output: all gates, then every stream is retired and replaced.
InterruptOutput ==
    /\ \A st \in Stream : GateFree(st)
    /\ schedule_generations' =
          [st \in Stream |-> schedule_generations[st] + 1]
    /\ stop_token' = [st \in Stream |->
          IF SmoothStop(st) THEN stop_token[st] + 1 ELSE stop_token[st]]
    /\ sink' = [st \in Stream |-> <<>>]
    /\ phase' = [s \in Source |-> IF InSink(s) THEN "done" ELSE phase[s]]
    /\ ticket' = [s \in Source |-> IF InSink(s) THEN "Cancelled" ELSE ticket[s]]
    /\ UNCHANGED <<held_token, scheduled_at, cancelled, draining>>

CancelToken(t) ==
    /\ t \notin cancelled
    /\ cancelled' = cancelled \cup {t}
    /\ UNCHANGED <<phase, ticket, sink, schedule_generations, stop_token,
                   held_token, scheduled_at, draining>>

------------------------------
(* The output thread *)

\* The head of a sink returns None: exhausted, faded out, or discarded.
EndStatus(s) == IF IsRequested(s) THEN "Cancelled" ELSE "Completed"

SourceEnds(st) ==
    /\ sink[st] # <<>>
    /\ LET s == Head(sink[st]) IN
       /\ ticket' = [ticket EXCEPT ![s] = EndStatus(s)]
       /\ phase' = [phase EXCEPT ![s] = "done"]
    /\ sink' = [sink EXCEPT ![st] = Tail(@)]
    /\ UNCHANGED <<schedule_generations, stop_token, held_token, scheduled_at,
                   cancelled, draining>>

------------------------------
(* drain(), called once nothing queues any more: wait for the schedulers,   *)
(* then for each sink.                                                      *)

SchedulersRunning ==
    \E s \in Source : Waits(s) # {} /\ ticket[s] = "pending"

DrainScheduled ==
    /\ draining = "no"
    /\ ~SchedulersRunning
    /\ draining' = "sinks"
    /\ UNCHANGED <<phase, ticket, sink, schedule_generations, stop_token,
                   held_token, scheduled_at, cancelled>>

DrainSinks ==
    /\ draining = "sinks"
    /\ \A st \in Stream : sink[st] = <<>>
    /\ draining' = "drained"
    /\ UNCHANGED <<phase, ticket, sink, schedule_generations, stop_token,
                   held_token, scheduled_at, cancelled>>

------------------------------
(* The control with its callers: one worker, one protocol loop, the output  *)
(* device owner, and the registry that cancels superseded presentations.    *)

WorkerIdle == \A s \in Source : phase[s] # "gate"

WorkerDone == \A s \in Source : phase[s] \notin {"new", "gate"}

Worker ==
    \/ \E s \in Source, current \in BOOLEAN :
          WorkerIdle /\ (QueueGate(s, current) \/ Schedule(s, current))
    \/ \E s \in Source : QueueAppend(s)

Scheduler == \E s \in Source : BarrierWait(s) \/ DueGate(s) \/ DueAppend(s)

ConnectionLost == \E s \in Source : AppendError(s)

Loop ==
    /\ draining = "no"
    /\ \E st \in Stream : schedule_generations[st] < MaxStops /\ Stop(st)

DeviceOwner ==
    /\ \A st \in Stream : schedule_generations[st] < MaxStops
    /\ InterruptOutput

Registry == \E t \in {Token[s] : s \in Source} \ {NoToken} : CancelToken(t)

Output == \E st \in Stream : SourceEnds(st)

Drain == (WorkerDone /\ DrainScheduled) \/ DrainSinks

Shutdown == draining = "drained" /\ UNCHANGED audioVars

ControlNext == Worker \/ Scheduler \/ ConnectionLost \/ Loop \/ DeviceOwner
        \/ Registry \/ Output \/ Drain \/ Shutdown

ControlSpec == AudioInit /\ [][ControlNext]_audioVars

\* Threads run: the worker finishes the call it is in, scheduler threads and
\* the sinks make progress.
ControlFairSpec ==
    /\ ControlSpec
    /\ WF_audioVars(\E s \in Source : QueueAppend(s))
    /\ \A s \in Source : WF_audioVars(BarrierWait(s))
    /\ \A s \in Source : WF_audioVars(DueGate(s))
    /\ \A s \in Source : WF_audioVars(DueAppend(s))
    /\ \A st \in Stream : WF_audioVars(SourceEnds(st))

------------------------------
(* Properties *)

ControlTypeOK ==
    /\ phase \in [Source -> {"new", "gate", "refused", "scheduled", "due",
                             "dueGate", "sink", "failed", "done"}]
    /\ ticket \in [Source -> {"none", "pending"} \cup Terminal]
    /\ sink \in [Stream -> Seq(Source)]
    /\ schedule_generations \in [Stream -> Nat]
    /\ stop_token \in [Stream -> Nat]
    /\ held_token \in [Source -> Nat]
    /\ scheduled_at \in [Source -> Nat]
    /\ cancelled \subseteq {Token[s] : s \in Source}
    /\ draining \in {"no", "sinks", "drained"}

\* Once stop(stream) has returned, nothing whose staleness was checked before
\* that stop can be heard: neither a buffer caught between check and append,
\* nor an overlay whose scheduler thread wakes up later.
StopSilences ==
    \A s \in Source :
        Audible(s) => scheduled_at[s] = schedule_generations[StreamOf[s]]

\* An overlay reaches its stream only after every primary buffer it waits for
\* was played to its natural end.
OverlayAfterBarriers ==
    \A s \in Source :
        InSink(s) => \A i \in Waits(s) : ticket[Barriers[s][i]] = "Completed"

\* A ticket is pending exactly while its source waits in a scheduler thread or
\* a sink: no source is lost with a waiter on its ticket.
PendingTicketHasSource ==
    \A s \in Source :
        ticket[s] = "pending" <=>
            \/ InSink(s)
            \/ phase[s] \in {"scheduled", "due", "dueGate"}

\* The output's safety under stops and replacements (output.rs): nothing that was
\* checked before a stop is heard after it, an overlay starts only behind the
\* audio it was queued after, and a ticket is pending only while some source can
\* still answer it.
ControlSound == StopSilences /\ OverlayAfterBarriers /\ PendingTicketHasSource

\* Every ticket handed out is eventually answered: while one is owed there comes
\* a moment when none is.  (A source is queued once.)
TicketsOwed == \E s \in Source : ticket[s] = "pending"
TicketsMet == \A s \in Source : ticket[s] # "pending"
=============================================================================
