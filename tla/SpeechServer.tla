---------------------------- MODULE SpeechServer ----------------------------
(***************************************************************************)
(* The request path of omnivox-cli/src/server.rs from an admitted command  *)
(* to its terminal status record: the protocol loop, the bounded queue     *)
(* (WorkQueue), the synthesis worker, the output streams (AudioControl),   *)
(* the registry of keyed presentations and the tracked-playback reporter.  *)
(* The threads share the interrupt generation `gen_counter', the queue,    *)
(* the stream gates, the registry and a bounded channel.                   *)
(*                                                                         *)
(* A request carries one audio buffer, so the request itself names its     *)
(* source, its ticket and its keyed token.  What is said, which engine     *)
(* says it and how routing falls back is abstracted to the result of one   *)
(* synthesis call; stopping an engine only shortens that call.             *)
(***************************************************************************)
EXTENDS Integers, Sequences, FiniteSets

CONSTANTS
    Work, Bytes, Domain, NoDomain, MaxItems, MaxPayloadBytes,
    Tracked,          \* Batch with tracking, Timeline and Preview requests
    Urgent,           \* tts_say and letters: they interrupt speech first
    Stream, StreamOf, MaxDepth,
    TrackedCapacity,  \* TRACKED_PLAYBACK_QUEUE_CAPACITY
    MaxGeneration,    \* bound: interrupts of the instance
    MaxReplacements,  \* bound: output device replacements
    NoRequest

\* The last five restate what WorkQueue and AudioControl assume.
ASSUME ServerAssumption ==
    /\ Tracked \subseteq Work
    /\ Urgent \subseteq Work
    /\ \A w \in Work : Domain[w] # NoDomain => w \in Tracked
    /\ TrackedCapacity \in Nat \ {0}
    /\ MaxReplacements \in Nat
    /\ NoRequest \notin Work
    /\ "Speech" \in Stream
    /\ IsFiniteSet(Work) /\ Bytes \in [Work -> Nat]
    /\ MaxItems \in Nat \ {0} /\ MaxPayloadBytes \in Nat \ {0}
    /\ MaxGeneration \in Nat
    /\ StreamOf \in [Work -> Stream]
    /\ MaxDepth \in [Stream -> Nat \ {0}]

VARIABLES
    queue, order, admissions, gen, payload_bytes, sender_closed, receiver, fate,
    phase, ticket, sink, schedule_generations, stop_token, held_token,
    scheduled_at, cancelled, draining,
    current_gen,    \* run_server's own generation
    gen_counter,    \* the generation every thread reads
    registry,       \* KeyedCancellationRegistry.active
    loop,           \* the steps the protocol loop still has to take
    reporting,      \* retired requests whose status it has not written yet
    worker,         \* the request in synthesis_worker, and where it stands
    channel,        \* tracked_playback_tx
    reporter,       \* what tracked_playback_reporter is waiting for
    status,         \* status[w]: the terminal records written for w
    replacements,   \* how often the output was replaced
    sent_at,        \* history: replacements when w was sent
    silenced        \* history: generation of the last stop of each stream

queueVars == <<queue, order, admissions, gen, payload_bytes, sender_closed,
               receiver, fate>>
audioVars == <<phase, ticket, sink, schedule_generations, stop_token,
               held_token, scheduled_at, cancelled, draining>>
threadVars == <<current_gen, gen_counter, registry, loop, reporting, worker,
                channel, reporter, status, replacements, sent_at,
                silenced>>
vars == <<queueVars, audioVars, threadVars>>

IsReplaceable(w) == Domain[w] # NoDomain

\* KeyedCancellationLease.token: a presentation of a domain has one of its own.
TokenOf == [w \in Work |-> IF IsReplaceable(w) THEN w ELSE NoRequest]

WQ == INSTANCE WorkQueue WITH generation <- current_gen

AC == INSTANCE AudioControl WITH
         Source <- Work, Token <- TokenOf, NoToken <- NoRequest,
         Barriers <- [w \in Work |-> <<>>],
         MaxStops <- MaxGeneration + MaxReplacements

Domains == {Domain[w] : w \in Work} \ {NoDomain}

Idle == [req |-> NoRequest, pc |-> "recv", failed |-> FALSE, status |-> "none"]

Quiet == [req |-> NoRequest, status |-> "none"]

Init ==
    /\ WQ!Init
    /\ AC!AudioInit
    /\ gen_counter = 0
    /\ registry = [d \in Domains |-> NoRequest]
    /\ loop = <<>>
    /\ reporting = {}
    /\ worker = Idle
    /\ channel = <<>>
    /\ reporter = Quiet
    /\ status = [w \in Work |-> <<>>]
    /\ replacements = 0
    /\ sent_at = [w \in Work |-> 0]
    /\ silenced = [st \in Stream |-> 0]

\* SynthCtx.is_stale.
IsStale(w) == gen_counter # gen[w] \/ TokenOf[w] \in cancelled

------------------------------
(* The registry of keyed presentations *)

\* KeyedCancellationLease::activate: the newest presentation of a domain is
\* registered and the one it displaces is cancelled.
Activate(w) ==
    IF IsReplaceable(w)
    THEN /\ registry' = [registry EXCEPT ![Domain[w]] = w]
         /\ cancelled' = cancelled \cup ({registry[Domain[w]]} \ {NoRequest})
    ELSE UNCHANGED <<registry, cancelled>>

\* Mutant: dropping a lease removes whatever its domain has registered.
DropLeaseOfDomain(w) ==
    registry' = [d \in Domains |-> IF Domain[w] = d THEN NoRequest ELSE registry[d]]

\* Drop for KeyedCancellationLease: only its own registration is removed.
DropLease(w) ==
    registry' = [d \in Domains |-> IF registry[d] = w THEN NoRequest ELSE registry[d]]

------------------------------
(* The protocol loop *)

LoopReady == loop = <<>> /\ reporting = {} /\ ~sender_closed

RetirementStatus(reason) ==
    IF reason \in {"Replaced", "EvictedForCapacity", "StaleGeneration"}
    THEN "cancelled" ELSE "failed"

RetiredNow == {w \in Work : fate'[w] # fate[w] /\ fate'[w] \in WQ!RetirementReason}

\* enqueue_synthesis: admission and the lease's activation are one critical
\* section of the queue; the retired requests are reported afterwards.
Enqueue(w) ==
    /\ WQ!TrySend(w)
    /\ IF fate'[w] = "queued" THEN Activate(w) ELSE UNCHANGED <<registry, cancelled>>
    /\ reporting' = RetiredNow
    /\ sent_at' = [sent_at EXCEPT ![w] = replacements]
    /\ UNCHANGED <<phase, ticket, sink, schedule_generations, stop_token,
                   held_token, scheduled_at, draining, gen_counter, worker,
                   channel, reporter, status, replacements, silenced>>

\* report_retired_synthesis: write the record of a tracked request; the lease
\* goes with the request.
ReportRetired(w) ==
    /\ w \in reporting
    /\ reporting' = reporting \ {w}
    /\ status' = IF w \in Tracked
                 THEN [status EXCEPT ![w] = Append(@, RetirementStatus(fate[w]))]
                 ELSE status
    /\ DropLease(w)
    /\ UNCHANGED <<queueVars, audioVars, current_gen, gen_counter, loop, worker,
                   channel, reporter, replacements, sent_at, silenced>>

\* Dispatch, tracked dispatch, presentation, preview or sound: no interrupt.
Submit(w) ==
    /\ LoopReady
    /\ w \notin Urgent
    /\ Enqueue(w)
    /\ UNCHANGED loop

\* Mutant: the generation is published before it is advanced.
InterruptStoresOld(steps) ==
    /\ LoopReady
    /\ current_gen < MaxGeneration
    /\ WQ!AdvanceGeneration
    /\ gen_counter' = current_gen
    /\ loop' = steps
    /\ UNCHANGED <<audioVars, registry, reporting, worker, channel, reporter,
                   status, replacements, sent_at, silenced>>

\* interrupt(): advance the loop's generation and publish it; then stop the
\* streams, retire what is queued, and go on with the command.
Interrupt(steps) ==
    /\ LoopReady
    /\ current_gen < MaxGeneration
    /\ WQ!AdvanceGeneration
    /\ gen_counter' = current_gen + 1
    /\ loop' = steps
    /\ UNCHANGED <<audioVars, registry, reporting, worker, channel, reporter,
                   status, replacements, sent_at, silenced>>

\* stop_all stops Speech, then Tone, then Sound.
StopAll ==
    LET stop(st) == IF st \in Stream THEN <<[do |-> "stop", stream |-> st]>>
                    ELSE <<>>
    IN stop("Speech") \o stop("Tone") \o stop("Sound")

Retire == <<[do |-> "retire"]>>

\* The `s' command; tts_reset does the same to the threads.
HandleStop == Interrupt(StopAll \o Retire)

\* tts_say and letter: only speech is stopped, then the request is queued.
HandleUrgent(w) ==
    /\ w \in Urgent
    /\ fate[w] = "unsent"
    /\ Interrupt(<<[do |-> "stop", stream |-> "Speech"]>> \o Retire
                 \o <<[do |-> "send", req |-> w]>>)

\* End of input: a worker of a managed owner interrupts first; then the sender
\* is dropped.
EndOfInput ==
    \/ Interrupt(StopAll \o Retire \o <<[do |-> "close"]>>)
    \/ /\ LoopReady
       /\ loop' = <<[do |-> "close"]>>
       /\ UNCHANGED <<queueVars, audioVars, current_gen, gen_counter, registry,
                      reporting, worker, channel, reporter, status, replacements,
                      sent_at, silenced>>

\* The loop takes its next step once the retired requests are reported.
Doing(what) == loop # <<>> /\ reporting = {} /\ Head(loop).do = what

LoopStop ==
    /\ Doing("stop")
    /\ AC!Stop(Head(loop).stream)
    /\ silenced' = [silenced EXCEPT ![Head(loop).stream] = current_gen]
    /\ loop' = Tail(loop)
    /\ UNCHANGED <<queueVars, current_gen, gen_counter, registry, reporting,
                   worker, channel, reporter, status, replacements, sent_at>>

LoopRetire ==
    /\ Doing("retire")
    /\ WQ!RetireBeforeGeneration(current_gen)
    /\ reporting' = RetiredNow
    /\ loop' = Tail(loop)
    /\ UNCHANGED <<audioVars, gen_counter, registry, worker, channel,
                   reporter, status, replacements, sent_at, silenced>>

LoopSend ==
    /\ Doing("send")
    /\ Enqueue(Head(loop).req)
    /\ loop' = Tail(loop)

LoopClose ==
    /\ Doing("close")
    /\ WQ!DropSender
    /\ loop' = Tail(loop)
    /\ UNCHANGED <<audioVars, gen_counter, registry, reporting, worker,
                   channel, reporter, status, replacements, sent_at, silenced>>

------------------------------
(* The synthesis worker *)

WorkerAt(pc) == worker.pc = pc

\* Nothing but the worker's own place changes.
WorkerGoes(next) ==
    /\ worker' = next
    /\ UNCHANGED <<queueVars, audioVars, current_gen, gen_counter, registry,
                   loop, reporting, channel, reporter, status, replacements,
                   sent_at, silenced>>

WorkerKeeps ==
    UNCHANGED <<gen_counter, registry, loop, reporting, channel, reporter,
                status, replacements, sent_at, silenced>>

\* The request is over: a tracked one goes to the reporter.
Finished(outcome) ==
    IF worker.req \in Tracked
    THEN [worker EXCEPT !.pc = "report", !.status = outcome]
    ELSE Idle

WorkerRecv ==
    /\ WorkerAt("recv")
    /\ \/ \E w \in Work : /\ WQ!Recv(w)
                          /\ worker' = [Idle EXCEPT !.req = w, !.pc = "start"]
       \/ (WQ!RecvWait \/ WQ!RecvNone) /\ UNCHANGED worker
    /\ WorkerKeeps
    /\ UNCHANGED audioVars

\* The first is_stale check of every request.
WorkerStart ==
    /\ WorkerAt("start")
    /\ WorkerGoes(IF IsStale(worker.req) THEN Finished("cancelled")
                  ELSE [worker EXCEPT !.pc = "synth"])

\* The engine returns audio, no audio, or an error; audio is checked once more
\* before it is queued.
WorkerSynth ==
    /\ WorkerAt("synth")
    /\ \/ WorkerGoes(IF IsStale(worker.req) THEN Finished("cancelled")
                     ELSE [worker EXCEPT !.pc = "queue"])
       \/ WorkerGoes([worker EXCEPT !.pc = "final"])
       \/ WorkerGoes([worker EXCEPT !.pc = "final", !.failed = TRUE])

\* Mutant: the request is not checked again inside the stream's gate.
WorkerGateUnchecked ==
    /\ WorkerAt("queue")
    /\ AC!QueueGate(worker.req, TRUE)
    /\ worker' = [worker EXCEPT !.pc = "append"]
    /\ WorkerKeeps
    /\ UNCHANGED <<queueVars, current_gen>>

\* SynthCtx.queue: the predicate under the stream's gate.
WorkerGate ==
    /\ WorkerAt("queue")
    /\ AC!QueueGate(worker.req, ~IsStale(worker.req))
    /\ worker' = [worker EXCEPT !.pc = IF IsStale(worker.req) THEN "final"
                                       ELSE "append"]
    /\ WorkerKeeps
    /\ UNCHANGED <<queueVars, current_gen>>

WorkerAppend ==
    /\ WorkerAt("append")
    /\ \/ AC!QueueAppend(worker.req) /\ worker' = [worker EXCEPT !.pc = "final"]
       \/ /\ AC!AppendError(worker.req)
          /\ worker' = [worker EXCEPT !.pc = "final", !.failed = TRUE]
    /\ WorkerKeeps
    /\ UNCHANGED <<queueVars, current_gen>>

WorkerFinal ==
    /\ WorkerAt("final")
    /\ WorkerGoes(Finished(IF IsStale(worker.req) THEN "cancelled"
                           ELSE IF worker.failed THEN "failed"
                           ELSE "completed"))

\* Mutant: a full channel drops the record.
WorkerReportTry ==
    /\ WorkerAt("report")
    /\ channel' = IF Len(channel) < TrackedCapacity
                  THEN Append(channel, [req |-> worker.req,
                                        status |-> worker.status])
                  ELSE channel
    /\ worker' = Idle
    /\ UNCHANGED <<queueVars, audioVars, current_gen, gen_counter, registry,
                   loop, reporting, reporter, status, replacements, sent_at,
                   silenced>>

\* tracked_playback_tx.send blocks while the channel is full.
WorkerReport ==
    /\ WorkerAt("report")
    /\ Len(channel) < TrackedCapacity
    /\ channel' = Append(channel, [req |-> worker.req, status |-> worker.status])
    /\ worker' = Idle
    /\ UNCHANGED <<queueVars, audioVars, current_gen, gen_counter, registry,
                   loop, reporting, reporter, status, replacements, sent_at,
                   silenced>>

------------------------------
(* The tracked-playback reporter *)

ReporterKeeps ==
    UNCHANGED <<queueVars, audioVars, current_gen, gen_counter, loop, reporting,
                worker, replacements, sent_at, silenced>>

ReporterTake ==
    /\ reporter = Quiet
    /\ channel # <<>>
    /\ reporter' = Head(channel)
    /\ channel' = Tail(channel)
    /\ ReporterKeeps
    /\ UNCHANGED <<registry, status>>

\* Mutant: the ticket's own status is ignored.
AwaitedIgnored(r) == r.status

\* await_tracked_playback: a cancelled ticket turns completed into cancelled.
Awaited(r) ==
    IF r.status = "completed" /\ ticket[r.req] = "Cancelled" THEN "cancelled"
    ELSE r.status

ReporterWrite ==
    /\ reporter.req # NoRequest /\ reporter.status # "written"
    /\ ticket[reporter.req] # "pending"
    /\ status' = [status EXCEPT ![reporter.req] = Append(@, Awaited(reporter))]
    /\ reporter' = [reporter EXCEPT !.status = "written"]
    /\ ReporterKeeps
    /\ UNCHANGED <<registry, channel>>

ReporterDropLease ==
    /\ reporter.status = "written"
    /\ DropLease(reporter.req)
    /\ reporter' = Quiet
    /\ ReporterKeeps
    /\ UNCHANGED <<channel, status>>

------------------------------
(* The output, and shutdown *)

Play(st) == AC!SourceEnds(st) /\ UNCHANGED <<queueVars, threadVars>>

\* The device owner retires or replaces the output: interrupt_output also
\* advances the bound generation counter.
DeviceReplaced ==
    /\ replacements < MaxReplacements
    /\ AC!InterruptOutput
    /\ gen_counter' = gen_counter + 1
    /\ replacements' = replacements + 1
    /\ silenced' = [st \in Stream |-> current_gen]
    /\ UNCHANGED <<queueVars, current_gen, registry, loop, reporting, worker,
                   channel, reporter, status, sent_at>>

\* After the worker was joined: control.drain().
Drain ==
    /\ receiver = "gone"
    /\ AC!DrainScheduled \/ AC!DrainSinks
    /\ UNCHANGED <<queueVars, threadVars>>

\* The reporter was joined as well: its channel closed with the worker.
Exited == draining = "drained" /\ channel = <<>> /\ reporter = Quiet

Exit == Exited /\ UNCHANGED vars

------------------------------
LoopStep == LoopStop \/ LoopRetire \/ LoopSend \/ LoopClose
            \/ \E w \in Work : ReportRetired(w)

WorkerStep == WorkerRecv \/ WorkerStart \/ WorkerSynth \/ WorkerGate
              \/ WorkerAppend \/ WorkerFinal \/ WorkerReport

ReporterStep == ReporterTake \/ ReporterWrite \/ ReporterDropLease

Next ==
    \/ \E w \in Work : Submit(w) \/ HandleUrgent(w)
    \/ HandleStop
    \/ EndOfInput
    \/ LoopStep
    \/ WorkerStep
    \/ ReporterStep
    \/ \E st \in Stream : Play(st)
    \/ DeviceReplaced
    \/ Drain
    \/ Exit

Spec == Init /\ [][Next]_vars

\* The loop finishes the command it is in; the worker, the reporter and each
\* output stream run, and an engine call returns.  Nobody has to send a command.
FairSpec ==
    /\ Spec
    /\ WF_vars(LoopStep)
    /\ WF_vars(WorkerStep)
    /\ WF_vars(ReporterStep)
    /\ \A st \in Stream : WF_vars(Play(st))
    /\ WF_vars(Drain)

------------------------------
(* Properties *)

TypeOK ==
    /\ WQ!TypeOK
    /\ AC!ControlTypeOK
    /\ gen_counter \in Nat
    /\ registry \in [Domains -> Work \cup {NoRequest}]
    /\ reporting \subseteq Work
    /\ worker.req \in Work \cup {NoRequest}
    /\ worker.pc \in {"recv", "start", "synth", "queue", "append", "final", "report"}
    /\ Len(channel) <= TrackedCapacity
    /\ reporter.req \in Work \cup {NoRequest}
    /\ \A w \in Work : status[w] \in Seq({"completed", "cancelled", "failed"})

Sent(w) == fate[w] # "unsent"

\* Until its record is written, an admitted keyed presentation is either the
\* registered one of its domain or already cancelled: a newer presentation can
\* always silence it, whichever thread holds it.
KeyedCanBeSuperseded ==
    \A w \in Work :
        /\ IsReplaceable(w) /\ order[w] > 0 /\ status[w] = <<>>
        => registry[Domain[w]] = w \/ w \in cancelled

\* When the process exits, every tracked request that was ever sent has exactly
\* one terminal record, no audio is left, and no lease is left registered.
ExitsAccountable ==
    Exited =>
        /\ \A w \in Tracked : Sent(w) => Len(status[w]) = 1
        /\ \A w \in Work : ~AC!InSink(w)
        /\ \A d \in Domains : registry[d] = NoRequest

\* What the server keeps of every request, whichever thread holds it.
SpeechSound == TypeOK /\ KeyedCanBeSuperseded /\ ExitsAccountable

\* A request that was ever stale stays stale, although interrupts store the
\* loop's generation over a counter that output replacement also advances.
StaleForever ==
    [][\A w \in Work : Sent(w) /\ IsStale(w) => IsStale(w)']_vars

\* Audio of a request sent before an output replacement is not heard after it.
NoReplay ==
    \A w \in Work : AC!Audible(w) => sent_at[w] = replacements

\* "Fresh speech uses the new output": a request sent after the last interrupt
\* and the last replacement, and superseded by none, is not stale.
FreshIsCurrent ==
    \A w \in Work :
        /\ Sent(w) /\ gen[w] = current_gen /\ sent_at[w] = replacements
        /\ TokenOf[w] \notin cancelled
        => ~IsStale(w)

\* Every tracked request that was sent is eventually answered, and the process
\* exits when its input ends.  (Each request is sent once, so it is enough that
\* there comes a moment when nothing is owed.)
EventuallyAnswered ==
    sender_closed \/ (\E w \in Tracked : Sent(w))
        ~> /\ sender_closed => Exited
           /\ \A w \in Tracked : Sent(w) => status[w] # <<>>

\* What the client sees: each request's answer, what it hears, what a newer
\* presentation or a refusal ruled out, and whose audio was cut short.
Answers == [w \in Work |-> IF ~Sent(w) THEN "unsent"
                           ELSE IF status[w] = <<>> THEN "open"
                           ELSE IF Len(status[w]) = 1 THEN status[w][1]
                           ELSE "twice"]

Heard == {w \in Work : AC!Audible(w)}

Superseded == cancelled \cup {w \in Work : fate[w] \in {"Saturated", "ReceiverClosed"}}

CutShort == {w \in Work : \/ AC!InSink(w) /\ AC!IsRequested(w)
                          \/ ticket[w] = "Cancelled"}

Contract == INSTANCE SpeechContract WITH
    Request <- Work, answer <- Answers, epoch <- current_gen, born <- gen,
    audible <- Heard, superseded <- Superseded, cut <- CutShort

\* The server implements the client's contract: superseded or stopped speech is
\* not heard again, and an answer comes once, after the audio, as completed
\* only if nothing was cut.
KeepsContract == Contract!Spec
=============================================================================
