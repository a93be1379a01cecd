# Omnivox in TLA+

Omnivox is a speech server: a client (Emacspeak or a structured client) writes
commands to its standard input, and it speaks, plays tones and sounds, and reports
what became of each tracked request. What makes it hard is not speech but time:
speech is interrupted at every keystroke, newer presentations replace older ones,
engines hang, helper processes die, the output device changes, and each of these may
happen between any two steps of the threads that share the work.

This directory models that machinery in TLA+, checks it with TLC on small instances
and proves part of it with TLAPS. Paths below are relative to the repository root;
`PROJECT.json` gives, for each definition, the lines it stands for; a definition whose
lines lie within those of the definition that uses it has no entry of its own.

## 1. The system

```
 stdin ─► protocol loop ──► work queue ──► synthesis worker ──► routing ─► isolation ─► native call
          (run_server,       (bounded,       (the only one)      circuits    slots        or helper
           admission)         replaceable)        │                                        process
             │  interrupt: generation, stop       ▼                                          ▲
             ├───────────────────────────► audio control: gates, sinks, overlays             │
             │                                    │ tickets                       helper engine client
             └─ keyed cancellation registry       ▼
                                     playback reporter ──► status records on stdout
```

| Part | State it keeps | Operations | Hard because |
|---|---|---|---|
| Work queue (`omnivox-cli/src/work_queue.rs`) | queued requests, a byte counter, two closed flags, a condition variable | enqueue with replacement and eviction, retire by generation, receive, drop either end | limits, accounting kept in three different ways, lost wakeups |
| Audio control (`omnivox-audio/src/output.rs`) | per stream: sink, gate, schedule generation, stop token; tickets | gated append, overlay schedulers, stop, replace the output, drain | check and append are apart; schedulers wake late; every path must answer its ticket |
| Speech server (`omnivox-cli/src/server.rs`, parts of `pipeline.rs`) | generation counter and the loop's copy of it, registry of keyed presentations, worker, reporter and its bounded channel | submit, interrupt, supersede, synthesise, queue, report, shut down | five threads, two writers of the generation, back-pressure |
| Admission (`server.rs`, `transaction.rs`) | burst in hand, multipart document being assembled, deferred command, pending legacy batch, newest generation | read, coalesce, abort, time out, execute, overflow | a stop read ahead; a command deferred; partial documents |
| Isolation (`engine_execution.rs`) | in-flight and quarantine counters, one flag per engine, leases with two owners, recovery flags, a bounded relay | buffered call, streaming call, supersede with grace, hard stop, recovery | a native call cannot be cancelled, only abandoned |
| Routing and health (`routing.rs`, `health.rs`) | circuit per engine, probe permits, exclusions, attempts, committed output | select, attempt, classify a failure, fall back, probe | many early returns, each owing something |
| Helper client (`omnivox-tts/src/helper_engine.rs`, `helper_engine/`) | published and retiring connection, active request, stop epoch, cancellations, watchdogs | connect, synthesise, query, stop, retire | processes that hang or do not die; late answers |
| Helper host (`omnivox-helper-host/src/lib.rs`) | active synthesis, cancelled flag, worker | synthesise, cancel, query | cancel against completion |
| Device owner (`omnivox-audio/src/device.rs`) | device, revision, bounded event channel, retries | announce, reconcile, open, publish, retire | choices overtaken while opening; a full channel |
| Progressive playback (`output.rs`) | producer, bounded channel, source, cues | push, prime, attach, play, fade, drop | attached long after the check that allowed it |
| PulseAudio (`omnivox-audio/src/pulse.rs`) | lane queue, pending count, generation, server buffer | append, clear, flush, drain, reopen | clear against a write; the server goes away |
| Marker reporter (`marker_events.rs`) | reserved records and bytes, cues, terminal slots | reserve, take, send, release, write | two limits, four threads |
| Helper initialization (`helper_engine/initialization.rs`) | slots, attempts, offers and decisions | initialise a batch under one deadline, rescan | workers outlive their caller |
| Remote sessions (`remote.rs`) | session, two lanes, start-up snapshot, worker process trees | connect, reserve, forward, retire, stop | reconnecting lanes, threads that wait on each other |
| Voice operations (`omnivox-tts/src/voice_library/operations*`, `voice_validation/`) | journal, leases, execution records, owned process | admit, execute, clean up, observe, recover, abandon | a crash between any two writes |
| Voice packages (`voice_library/installation*`, `local.rs`, `retention.rs`) | index revisions, generations, files, worker leases | acquire, install, activate, start, remove | several processes, file locks, crashes |
| Voice resolution (`resolver.rs`, `routing_policy.rs`, `voice_choices.rs`, `engine_registry.rs`) | registry and health generations, policy, logical voices, routes | rescan, register, resolve, dispatch, reroute | three threads, two locks read one after the other |
| Native parameters (`native_parameters/`, `parameter_queries/`, `native_plans.rs`) | catalogue pages, cache, plans, epochs | page, assemble, plan, apply, explain | a replaced helper repeats its names |
| Engine configuration (`engine_configuration/`, `engine/startup.rs`) | `config.json`, manifests, editor lock, launch snapshot | load, edit, save, capture, restore | files that change under readers |
| Utterances (`pipeline.rs`, `text.rs`, `timeline.rs`, `effects.rs`) | chunks, overlays, tails, trimmer, carry | prepare, chunk, render, stream, queue | boundaries; two renderers that must agree |
| Native engines (`espeak.rs`, `macos/`, `piper.rs`) and helper programs | one native library each: lock, capture, stop epoch | synthesise, call back, stop, give up | foreign callbacks on foreign threads |
| Everything else | | command line, message formats, signal processing, SAPI, the Emacs client | sequential computation or foreign code |

The parts interact by calls under locks (queue, gates, registry, lifecycle and
dispatch locks), by shared atomics (the generation, stop epochs, the recovery flag),
by bounded channels (reporter, stream relay, helper responses) and by `Drop`.

## 2. Modules

| Module | Models | Uses |
|---|---|---|
| `WorkQueue` | the queue, sender, receiver and condition variable | |
| `WorkQueueProofs` | theorems about it | `WorkQueue` |
| `AudioControl` | streams, gates, schedulers, tickets | |
| `AudioControlProofs` | theorems about it | `AudioControl` |
| `SpeechContract` | abstract: what a client may rely on | |
| `SpeechServer` | loop, worker, registry, reporter; composes the two above | INSTANCEs `WorkQueue`, `AudioControl`, `SpeechContract` |
| `SpeechServerProofs` | theorems about it | `SpeechServer`; INSTANCEs `WorkQueueProofs`, `AudioControlProofs` |
| `Admission` | the command loop up to the queue | |
| `AdmissionProofs` | theorems about admission, voice packages, voice operations and voice resolution | `MCAdmission` |
| `EngineSlots` | abstract: the slot of an engine as routing sees it | |
| `EngineIsolation` | leases, quarantine, relay | INSTANCEs `EngineSlots` |
| `EngineIsolationProofs` | theorems about it | `EngineIsolation` |
| `EngineRouting` | routing loop, circuits, probes | INSTANCEs `EngineSlots` |
| `EnginesProofs` | theorems about it and about the macOS, MBROLA and Piper engines | `MCEngines` |
| `HelperHost` | the process on the other side of the pipe | |
| `HelperEngine` | the client of a helper process, with the helper | EXTENDS `HelperHost` |
| `HelperEngineProofs` | theorems about it | `HelperEngine` |
| `DeviceOutput` | the owner thread of the output device and its notifications | |
| `ProgressivePlayback` | one speech source that is played while it is synthesised | |
| `PulseOutput` | one PulseAudio lane with its worker and server | |
| `MarkerEvents` | playback events on their way to stdout | |
| `HelperInitialization` | starting helpers within a budget | |
| `RemoteSession` | the remote broker, its lanes and workers | |
| `SupervisionProofs` | theorems about devices, progressive playback, PulseAudio, marker reports, helper initialization and remote sessions | `MCSupervision` |
| `VoiceOperations` | journalled validation of voices, with crashes | |
| `VoiceInstallation` | packages, indexes, generations and who uses their files | |
| `VoiceSelection` | registry, health, policy, logical voices, resolver, routes | |
| `NativeParameters` | catalogue, cache, plans and explanations across helper restarts; composing, ordering and applying one plan | |
| `EngineConfiguration` | configuration files, editors, launch snapshot | |
| `SpeechBatch` | the worker on one request: windows, overlays, tails; and, before that, chunking a span and moving its actions along | |
| `SpeechStream` | the progressive renderer, with the buffered one as reference | |
| `HelperWire` | one synthesis over the helper protocol, end to end | |
| `EspeakEngine`, `MacOsEngine`, `PiperEngine` | the in-process engines | |
| `CallbackHelpers` | one request of the RHVoice, Flite and RuTTS helpers | |
| `TgSpeechBoxHelper` | requests of the TGSpeechBox helper on one native player | |
| `LinuxHelpers` | the DECtalk and Eloquence helpers; the MBROLA helper and its child processes | |
| `MC...` | constants, scenarios and combined specifications for TLC | |

`MCQueueAudio`, `MCAdmission`, `MCEngines`, `MCSupervision` and `MCVoices` each put
several components into one specification. They share no variable: the initial state chooses which of them
runs (`which`), and the variables of the others are blank and stay so. A property of such
a run speaks of one component when `which` names it. Where components make several
liveness claims, the initial state also chooses the claim that is followed (`claim`);
since neither ever changes, one formula `Owed ~> Met` is the conjunction of all of
them, under the fairness of the component's own specification.

How they correspond to the code:

* **WorkQueue.** `queue`, `payload_bytes`, `sender_closed` are the fields of
  `QueueState`. The `VecDeque` is a set of requests with their admission numbers
  (`order`), which is what the prover can count. `fate` is a history variable: what
  became of each request. A lock is held for each method, so a method is one action;
  the wait on the condition variable splits `recv` into `RecvWait` and a later step.
* **AudioControl.** A source is one buffer. The gate is a mutex held from the
  caller's staleness check to the append; the two are separate actions so that
  everything else can run between them. Overlay schedulers are threads of their own.
  Samples are not modelled: a source plays, ends, or stops. A full stream is cleared
  before an append, also before one that then fails (`AppendError`).
* **SpeechServer.** The loop's handling of a command is a sequence of steps (`loop`),
  because the interrupt stores the generation, retires queued work, stops engines and
  streams one after the other while worker and reporter run. A request carries one
  buffer, so it also names its ticket and token.
* **Admission.** The loop is sequential: an action handles one command, one timeout or
  the end of input. What a decoder finds in a frame is an attribute of the submission.
* **EngineIsolation.** A call has a caller side (`caller`) and a task side (`task`),
  each with its clone of the lease (`owners`). A native call may return either result,
  emit any event, panic (`Panic`, then `Unwind`), or stay for ever.
* **EngineRouting.** The snapshot of voices is an order of preference and a set of
  excluded voices. Of isolation it sees `EngineSlots`, and that isolation implements
  these slots is checked and proved.
* **HelperHost, HelperEngine.** Pipes are sequences of frames per connection. Hello
  and describe are one step that succeeds or fails. `terminate()` closes the connection
  and may or may not confirm that the process ended. One action is a block under one
  lock.

* **DeviceOutput.** The system changes its default device and calls back in one step;
  the callback raises the revision and posts its event in later ones. Opening is a step
  of its own, and so are the two checks that follow. The three sinks are replaced
  together and are one connection here.
* **ProgressivePlayback, PulseOutput.** A window is a number of frames, a frame of
  PulseAudio the source it comes from. The staleness check, priming and attachment are
  apart, as are the worker's check of its generation and its write.
* **MarkerEvents.** A dispatch has one utterance; a record is its index. The worker,
  the audio thread, the completion threads and the reporter are the actors.
* **HelperInitialization, RemoteSession.** Callers, attempts and the admission pool, or
  connection, writer and reader threads, take one step per lock, channel operation or
  process call. Helpers, peers and workers do as they like.
* **VoiceOperations, VoiceInstallation.** One action is one write or one system call of
  a process; a crash may come before each. A lock that is not free is refused, never
  waited for.
* **VoiceSelection, NativeParameters.** One action is what a thread does under one lock.
  Voices, languages and styles are small numbers; a catalogue page remembers the runtime
  it came from, which the code cannot see.
* **EngineConfiguration.** A revision is the contents that were hashed. Editors take the
  lock, validate, compare, write beside and rename.
* **SpeechBatch, SpeechStream, HelperWire.** Characters remember where they
  come from, frames which sound they are, so that a result can be compared
  with the input it must contain. `SpeechStream` and `HelperWire` let the engine call
  their sink in any order and size.
* **Engines and helper programs.** A request carries the script of native callbacks its
  library makes; cancellations, stops and, where the code allows for it, hangs and
  failures come between any two of them.

## 3. What is checked

Every property of a passing run has a mutant: a plausible slip in one mapped
definition, kept just above it, under which TLC finds the property violated.

| Run | Instance | Shows |
|---|---|---|
| `queue_and_audio` | queue: five requests of two domains and ordered ones, three sizes; 3 items, 4 bytes; one interrupt. Output: two speech buffers, an overlay that waits for both, a sound; two stops or replacements. Stream: every utterance of up to three frames under five timelines, cut into windows in every way | `QueueSound`, `EvictsOldestFirst`, `ControlSound`, `StreamSound`, `Served` |
| `admission` | all sequences of three submissions out of fourteen documents, one stop, two legacy items, two later frames. Package store: one package, two generations, two sessions, three edits of the index. Validation: two operations of two workers. Voice resolution: three engines, one policy, one failure, one recovery | `AdmissionSound`, `NothingCrossesStop`, `InstallationSound`, `OperationsSound`, `SelectionSound`, `VsGenerationNamesInventory` |
| `speech` | two presentations of one domain, a tracked sound and an urgent letter in three scenarios; queue, stream and reporter channel of one; an interrupt; two output replacements | `SpeechSound`, `NoReplay`, `StaleForever`, `KeepsContract`, `EventuallyAnswered` |
| `engine_stream` | one native stream of four events through a relay of two, or two buffered calls that compete for one slot | `IsolationSound`, `SinkSeesWholeStream`, `KeepsSlots`, `CallsGiveWay` |
| `engines` | routing: two requests of two chunks, two engines, three voices, two attempts, an interrupt. Each native engine: two calls or requests, one stop, cancellations; eSpeak: 33 scripts of callbacks, with every placing of two words into two blocks | `RoutingSound`, `NativeEnginesSound`, `MarksSound`, `PiperSound`, `StopReachesQueued`, `EnginesAnswer` |
| `supervision` | two devices and two notices, an event channel of one; a progressive source of up to two windows; two dispatches against three records; two PulseAudio sources, one clear, one loss; two engines and one slot; two connections of two sessions | `NewestPublished`, `PlaybackSound`, `MarkersSound`, `HelpersSound`, `SessionsSound`, `SupervisionEnds` |
| `helper_engine` | two calls and a query, two connections, two stops, one crash or unconfirmed termination | `HelperSound`, `CancelledRequestEnds` |
| `voices` | nine batches; some 5 500 spans of text; scripts of native callbacks; streams of two sink calls; small catalogues, plans and configuration directories | `BatchSound`, `TextSound`, `CaptureSound`, `WireSound`, `ParametersSound`, `ConfigurationSound` |
| `fresh_speech`, `obsolete_call`, `tgspeechbox`, `voice_text` | the same components with the bounds in their cfg | violations, section 6 |

A property named `...Sound` is the conjunction of the invariants of its component; each
part is stated above its own definition. Remarks on some of them:

* `KeepsContract` is a refinement. `SpeechContract` has requests, answers and what can
  be heard, and nothing of queues, threads or streams; it says that stopped or
  superseded speech is not heard again, that an answer comes once and after the audio,
  and that "completed" is said only of speech that was not cut. `KeepsSlots` is the
  other one: isolation implements the slots that routing is modelled with.
* `HelperSound` has an exception that the code has too (`RequestsDoNotCollide`). When a
  watchdog has decided to retire a connection just as the target's terminal frame is
  read, the entry of the cancellation is given up, and the answer to the cancel can be
  read by the next request as a mismatch. That connection is about to be killed anyway.
* `StreamSound` takes the padding kept behind an utterance as silence: the streaming
  trimmer keeps the last frames of it (`effects.rs:279`), the buffered one the first,
  although the comment at `effects.rs:172` speaks of exact samples. All else must agree
  frame by frame.
* `InstallationSound` speaks of published indexes and of workers that hold a lease. A
  session captures the active generation under the profile's lease and publishes its
  snapshot later under the storage gate; a package removed in between can still be
  named by the new session, which then finds it missing when it starts.
* `ConfigurationSound` is about the project's own editors: a program that does not take
  their lock can write the file between the last comparison and the rename
  (`punctuation_editor.rs:245`).
* `MarksSound` says of a stream of eSpeak that a mark comes before its audio if the
  events of a callback describe its own PCM block or a later one, as `espeak.rs:384`
  takes for granted (`DescribesItsBlocks`). The run has scripts that break this: such a
  mark is delivered when it is found, behind its audio, because `emit_before`
  (`espeak.rs:1691`) does not look back. The Linux helpers do: they fail the request
  (`MarksLeadAudio`).
* `EnginesAnswer` speaks of every request of the routing loop and every call of a native
  engine but Piper, whose call simply runs. It assumes what **Fairness** says of the
  native side: without it routing may wait for ever, as `obsolete_call` shows.
* `IsolationSound` lets a stream that panicked keep its slot a moment longer than its
  caller: unwinding drops the closure's sender before its lease, and the caller sees the
  former. Where nothing panics, a caller that returns without abandoning its call leaves
  the slot free (`engine_execution.rs:299`).
* `WireSound` lets an omitted anchor that is reported after the first audio fail the
  request, as the code does: it is sent as frame zero (`omnivox-helper-host/src/lib.rs:1290`)
  and so behind the audio.

**Bounds.** All bounds are constants and named as such where they are declared.
Limits of the code (queue items and bytes, stream depth, reporter channel, relay,
resident calls, attempts) are set to one, two or three, so that every one of them is
reached with something else waiting. Interrupts, stops and faults are bounded by one or
two: a second interrupt can fall into the handling of the first, and the second stop of
a helper finds the first one's cancellation. Two members of a domain are enough for a
replacement, since the registry and the queue keep at most the newest. Three documents
are enough for one in hand, one that takes its place and one deferred behind them. One
caller is enough for `HelperEngine`: calls are serialised by the lifecycle lock and
sample the stop epoch before taking it.

In the combined runs some bounds are smaller to keep the whole within minutes: one
automatic attempt of the device owner, one window in the macOS ring, a macOS call either
stopped or cancelled but not both, one request each for DECtalk and Eloquence. Initial
states and claims that differ only by a renaming of devices or connections are left
out. The inputs of `voices` are enumerated in `MCVoices`: texts of up to three
characters over four classes (and longer ones by hand), each with an action at, before
or behind any of them; scripts of callbacks in order, out of order, repeated and beyond
the limits; catalogues and manifests that claim the same identity, conflict or exceed
a limit.

**Deadlock** is checked in `queue_and_audio`, `admission`, `speech` and `engine_stream`,
which end in explicit stuttering steps (`Closed`, `StreamEnded`, `InstallationIdle`,
`Shutdown`, `Exit`, `MadeReturned`).
The other runs end when the bounded requests, calls or faults are used up with nothing
left to do, and so do not check it.

**Fairness** is assumed only of threads the program runs, and is weak with one
exception:

* the worker calls `recv` again when it is done (`WorkQueue`); nothing makes the
  producer send;
* a thread inside an append, a scheduler whose delay is over and a stream that plays
  make progress (`AudioControl`): nothing blocks them but each other;
* the loop completes the command it is in, and worker, reporter, streams and drain run
  (`SpeechServer`). Here an engine call is assumed to return;
* without that assumption, a caller in isolation polls every 10 ms
  (`PollingSpec`), which is all that its claim of `CallsGiveWay` needs. The claim that
  slots come back, and the routing part of `EnginesAnswer`, are about native calls that
  do return, and say so;
* in `HelperEngine` only the parent's threads are fair. The helper may stop at any
  point, and responses are not assumed to time out, so `CancelledRequestEnds` rests on
  the watchdog alone;
* device owner, callbacks that Windows has begun, and a retry delay; the producer of a
  progressive source, which finishes or is dropped, and the sink's thread; the threads
  of the marker reporter; the PulseAudio worker, callers inside `clear` and `drain`, and
  the stall timer; callers, attempts and deadlines of helper initialization; the
  broker's threads (`MCSupervision`). Nothing is assumed of peers, workers, servers or
  devices;
* consumer and owner thread of a Linux helper, whose native calls are scripts; the
  MBROLA engine and its deadline, not its child; eSpeak's caller and its native calls,
  which are finite scripts; routing's native calls; the macOS call (`MCEngines`). A macOS call's deadline is
  strongly fair: it polls with other steps enabled in between, and the clock passes
  whatever it finds. Cocoa owes nothing.

## 4. What is proved

A theorem holds for every value of the constants: any finite set of requests, calls or
documents, any limits. Each proof rests on an inductive invariant. TLC checked it on the
runs' instances before it was proved, except for conjuncts that quantify over all values
(the form of a record, what an answer was made of), which TLC cannot enumerate.

**Queue** (`WorkQueueProofs`). `QueueIsSound` (`QueueSound`), with its parts
`QueueTypeCorrect`, `QueueConserved`, `QueueBytesAccounted`, `QueueDeliversInOrder`. The
invariant is `TypeOK`, `Conserved`, `BytesAccounted` and `AdmissionNumbers`. Payload is
counted as a set of byte units, so that it is additive over disjoint sets
(`PayloadUnion`, `PayloadDifference`); admission, delivery and retirement each compute
the counter in their own way and all agree with the payload of the set they leave.
Delivery order needs the numbers: delivered requests have numbers below those of all
queued ones, and a new one is above both. `QueueEvictsOldestFirst` is about a step, not
a state: the size admission projects is exactly that of the queue it would leave
(`ProjectionIsExact`), and a queue that exceeds a limit after some were retired exceeds it
also when fewer are (`RetiringLess`).

**Output** (`AudioControlProofs`). `ControlIsSound` (`ControlSound`), from
`ControlInvariant`. `AudioInv` adds to the types what a sink holds (`SinksHold`), which
position of a source goes with which answer of its ticket (`TicketsMatch`), and
`ChecksHold`: a held gate keeps stops and replacements away, so that what was checked
under it stays true until the append. `BarriersHold` is the order of an overlay behind
what it waits for; settled sources never change their tickets, so it survives every step
of others.

**Server** (`SpeechServerProofs`). Queue and output are instances inside the server, and
so are their proofs: `ServerRunsTheQueue` shows that the server takes only the queue's own
steps, `ServerRunsTheOutput` that the output stays sound under this driver. The
invariant `IInv` is that of both, with the loop's remaining steps (`LoopOK`), the
relation of the shared generation, the loop's copy and the stamps of requests
(`Generations`), the worker's request and its gate (`WorkerOK`, `GateOK`), where each
request is accounted for (`Accounts`), its lease in the registry (`LeasesOK`) and the
order of a shutdown (`ShutdownOK`). From it:

* `SpeechIsSound` (`SpeechSound`): keyed presentations can be superseded until they are
  answered; after an exit every tracked request has its one record and nothing sounds.
* `ServerNeverReplays` (`NoReplay`) and `ServerKeepsStale` (`StaleForever`), which hold
  although two writers advance the generation.
* `ServerImplementsContract` (`KeepsContract`): the refinement of `SpeechContract`, step
  by step. Admission to the queue accepts, a refusal refuses, the begin of an interrupt
  interrupts, the stop of a stream and the replacement of the output silence it, an
  append lets its source be heard or loses it, the end of a source plays it out, a written record
  answers; every other step of loop, worker, streams and reporter changes nothing the
  client can see.

**Admission** (`AdmissionProofs`). `AdmissionIsSound` (`AdmissionSound`) and
`StopIsNeverCrossed` (`NothingCrossesStop`), from `AdmissionInvariant`: at most three
submissions are in hand, in the order they came (what a burst holds, what is being
assembled or has been read ahead, what was just received); everything committed or
executed is older; and all that is in hand arrived since the last stop, which is why
executing it never crosses one.

**Isolation** (`EngineIsolationProofs`). `IsolationIsSound` (`IsolationSound`), with
`IsolationTypeCorrect`, `IsolationAccounted`, `IsolationReleases`, `IsolationBounded`.
`SlotsAccounted` alone is not inductive: whether letting go of a clone frees the slot
depends on whether the other owner has let go. `Leases` reads the holders of a lease off
the positions of caller and task, `Reports` says that a result in the channel means the
task has let go, `OneLeasePerEngine` that the flag of an engine is the lease of one
call. `DropAccounts` is the lemma about a clone let go, by whichever owner.
`IsolationKeepsSlots` (`KeepsSlots`) is the refinement of `EngineSlots`: every action is
admission, return, abandonment, a late return, or leaves the slots alone.
`IsolationSinkSeesWholeStream` (`SinkSeesWholeStream`) rests on where an event can be:
with the sink, in the relay, or about to be sent, unless the call is superseded
(`NothingLost`, `WholeIfOk`); a result is the last entry of its relay
(`ResultIsLast`); and signals only advance, so a superseded call remains superseded
(`SupersededForGood`).

**Helper client** (`HelperEngineProofs`). `HelperIsSound` (`HelperSound`), for any number
of callers, connections, stops and faults, from `HelperInvariant`. None of the four parts
of `HelperSound` is inductive; the invariant `IInv` rests them on five ideas.

* Ownership: a call past its entry holds the lifecycle lock (`Serialised`), and what a call
  stands at says which of the published and the retiring connection there is
  (`Standing`). Stops and watchdogs hold no lifecycle lock, but all they do to a
  connection is terminate it, and `retiring` keeps a process whose exit is not confirmed.
* Numbers: whatever is in a pipe, active or remembered has an id below the next one
  (`Used`), and the ids do not run out within the bounds (`IdsLast`, a count of the calls
  that have not dispatched).
* One request in the pipes: a connection that is neither published nor terminated was
  never written to (`ClosedIsTerminated`); on the published one there is the request of
  the caller that waits, or only acknowledgements of cancels (`OneAtATime`). So no request
  finds the helper busy, and what a caller reads is its own or an acknowledgement.
* Acknowledgements: each cancel in a pipe, on its way out or back, has its entry in the
  map, and is there once (`AnswersExpected`), until the entry's watchdog begins to retire
  the connection: the exception that `RequestsDoNotCollide` states.
* One place: a synthesis is queued once or active once (`OnePlace`), one that completed is
  in neither (`CompletedIsOver`), and one whose cancel was acknowledged and that is still
  active is marked cancelled (`AcceptedIsCancelled`).

The proof first says what each action does to each variable (`Moved`, `PipesMove`,
`ProcessesMove`, `CancelsAdvance`, `NumbersMove`), and then preserves one conjunct at a
time from those.

**Routing** (`EnginesProofs`). `RoutingIsSafe` (`RoutingInvariant`) and, for the
composition the run checks, `RoutingIsSound` (`RoutingSound`), from `RoutingInv`. The
loop has many ways out of an attempt, and each owes the probe, the circuit, the excluded
voices and what was heard something; `AttemptOver` says once what that is, and each way
out is shown to pay it (`ProbeReleased`, `FailureRecorded`, `FallbackOver`). Steps within
an attempt are instances of `Advances`. The invariant adds three ideas to the property:

* a probe and its circuit name each other (`ProbeHeld`), and the recovery that it asks for
  is consumed by the task of its own call (`Recovers`);
* whoever is cancelled inside a call belongs to an obsolete request (`InterruptsReach`:
  the generation is raised before any engine is stopped), so a call that fails for no
  fault of its engine is found stale and opens no circuit (`Blame`);
* a voice that was tried is excluded before the next one is chosen, and an engine that
  failed is out of the snapshot or has a circuit that tells (`TriedOnce`).

That the resolver finds a first voice among those left is `LeastNumber`, from the
well-foundedness of strict inclusion of finite sets. The attempt to prove
`NeverRetriesFailed` showed that it did not hold for three chunks: an engine that failed
in the first, was probed with success in the second and is called normally in the third
is no violation, and the history variable `failing` now forgets an engine that succeeded.

**Voice packages** (`AdmissionProofs`). `InstalledVoicesStay`
(`InstallationSound`), from `InstallationInvariant`. Only a removal deletes files, after
checks it made long before; `Removing` says that what it checked stays true while it
holds the profile's lease and the storage gate, although acquisitions, captures and
workers go on and anyone may die in between.

**Voice operations** (`AdmissionProofs`). `OperationsAreExclusive` (`OperationsSound`),
for any numbers of operations and workers, from `OperationsInv`. What a supervisor leaves
behind when it dies is a directory, and the argument is about what can be read from it:
where processes may still run, the event log is torn or ends between an intent and its
cleanup (`TreesAreMissed`), which neither the observation of a cleaned validation nor
that of a resolved operation overlooks (`UnfinishedIsSeen`), wherever between two writes
the supervisor died (`LeftBehind`). Whoever is admitted has found every other directory
resolved, and a resolved one stays so (`OneUnresolved`); `Supervised` says how far a
living supervisor's records are from what it has done.

**Output device** (`SupervisionProofs`). `OutputIsCurrent` (`ConnectionIsCurrent`) and
`NewestIsPublished` (`NewestPublished`). The default may move between the owner's reading
of it and the open; `OpenedSince` says that an open since the newest announcement opened
the default, which the two later comparisons of revisions turn into the property.

**Progressive playback** (`SupervisionProofs`). `ProgressiveIsSound` (`CuesExact`,
`StopReachesProgressive`), from `PgInv`. Source and producer carry the same stop token,
and while it is the stream's the generation is too (`PgStamped`); so what is heard was
checked after the last stop, although the check came long before the attachment. For
the source that completes: frames are conserved along the channel (`PgConserved`, a
running count from what was played to what was sent), completion is the last message
(`PgSending`), and the last cue that was accepted is always somewhere between its push
and its report (`PgCueKept`). What is popped from the front of the cues is an interval,
which `FrontIsInterval` gets from cardinalities.

**PulseAudio** (`SupervisionProofs`). `PulseIsSound` (`OneGenerationBuffered`,
`PendingIsExact`), from `PuInv`: what is pending is in the queue or with the worker
(`PuCounts`), and a source of a newer generation than the worker has seen is only kept
until the flush that must come first (`PuPlaces`).

`PlaybackIsSound` (`PlaybackSound`) puts device, progressive source and PulseAudio
together as the run composes them.

**Marker reports** (`SupervisionProofs`). `MarkerReportsAreSound` (`ReservationsHold`,
`WrittenInOrder`) and, for the composition, `MarkersAreSound` (`MarkersSound`), from
`MkInv`. Records are counted as a set of pairs, so that a count is additive over threads
and messages (`PairsChange`, `PairsAppend`, `PairsTail`). That the audio thread always
finds room in the channel needs more than the counts: every message but a terminal one
holds a reserved record, and there is one terminal record under way from its reservation
to its write (`MkTerminals`, `PairsCover`). The order on stdout is that of everything
sent, written or not (`Line`): its records are below the next cue, a terminal record is
the last of its dispatch, and a start that is still unsent has its choice beside it.

**Helper initialization** (`SupervisionProofs`). `HelpersArePublishedInTime` and, for the
composition the run checks, `HelpersAreSound` (`HelpersSound`). The initialization lock
plays no part: what makes a publication safe is that the worker of a prepared offer waits
for the decision under the lifecycle lock (`CallerPhase`, `HolderOwns`), so nobody else
can connect, reap or launch on that engine until the caller has published or gone. What
runs for an engine is therefore one helper, its connection or the one to be reaped
(`EngineKnows`). `SlotsCounted` counts the attempts under way, also those whose callers
have gone. A job of the batch is there once, which the assumption on `Jobs` says: a call
is named for its job.

**Remote sessions** (`SupervisionProofs`). `RemoteWorkersOfOneSession` and
`SessionsAreSound` (`SessionsSound`), from `RemoteInv`: a connection's thread owns its
lane from the handshake until its worker has been joined (`LanesAreOwned`,
`TreesAreOwned`), the session stays open while there is a lane, and the startup that was
captured for it is what every worker got (`StartupIsShared`).

**Native engines** (`EnginesProofs`). `MacOsIsSafe`, `MbrolaIsSafe` and, for the
composition, `NativeEnginesAreSound` (`NativeEnginesSound`) and `StopReachesEveryQueued`
(`StopReachesQueued`). On macOS (`MoInv`) the synthesizer is shared by blocks that may
outlive their calls. `MoSerialised` says that a call which does not see its capture
retire quarantines the engine before it releases SERIAL, so whoever comes next finds either a
retired block or the quarantine. That a successful call is whole is an interval kept in
four places (`Following`): the windows the sink has had, the one just polled, those in
the ring and those of a running callback follow each other up to what was accepted, until
a cancellation or a failed capture makes success impossible (`CallSound`); and nothing is
read as complete before the ring is empty. In the MBROLA helper (`MbInv`) one call owns
the child; the threads of a capture are the pipes that have not reported, which is what
its retirement tests.

**Piper** (`EnginesProofs`). `PiperIsSafe` and `PiperIsSound` (`PiperSound`), from `PiInv`.
One synthesizer serves every voice, and a cancelled call leaves it half drawn.
`PiPlaces` says what a call knows at its stage: whoever holds the state lock has looked
its binding up again, so a model that failed while it waited is seen, and from there to
the last chunk the resident model and all that is left in the synthesizer are its own.

**Voice resolution** (`AdmissionProofs`). `SelectionIsSafe`, for the composition
`SelectionIsSound` (`SelectionSound`), and `GenerationNamesInventory`
(`VsGenerationNamesInventory`). Of the resolver: each of its stages names an engine the
definition or the policy names, or asks for one that may be chosen unnamed
(`VsStagesAreGood`), and what it finds is usable in the inventory it was given
(`VsResolveFinds`). So a route is good for its batch (`VsRouteIsGood`), also after a
failure, where it is resolved again on what is left of the batch's own inventory. That
inventory is older than the registry, and the route still has a handle because a handle
is published with the descriptor and never withdrawn (`VsHandles`). The style is decided
layer by layer (`VsSafeStyle`). For the generations: each counter counts whatever is told
of what it counts (`VsStepCounts`), a passed cooldown only when somebody looks; the
next answer is made of a registry, a health and a policy none of which is older than the
last answer's (`VsMadeOf`), so equal sums have equal parts.

Assumptions are those of the constants (`WorkAssumption`, `LimitsAssumption`,
`AudioAssumption`, `ServerAssumption`, `AdmissionAssumption`, `IsolationAssumption`,
`RoutingAssumption`, `HostAssumption`, `EngineAssumption`, `InstallationAssumption`, `OperationsAssumption`, `DeviceAssumption`,
`InitializationAssumption`, `ProgressiveAssumption`, `PuAssumption`, `MarkerAssumption`, `MacOsAssumption`, `MbrolaAssumption`,
`PiperAssumption`, `SelectionAssumption`, those of the other modules of a composition), which TLC
evaluates in each run. Nothing else is
assumed.

Only model-checked: all liveness (outside the prover's reach) and the modules without
proofs. Those on text, streams, plans and the wire compute over sequences by folds; what a
fold computes for every input needs induction over data, which the prover cannot do.
`StreamSound` (what is inserted into a stream is a fold) and `MarksSound` (the sorted
marks of eSpeak; the scripts of the Linux callbacks, which must be well formed) are among
them.

## 5. Not modelled

Data: sample values, levels and pan, rates, languages and names beyond their identity,
the contents of frames and files, timeouts as durations (a timeout may happen whenever
its timer runs). Integers do not overflow in the modelled code within any realistic
life: generations and request ids are `u64`, and id 0 is skipped.

Code, and why:

* message formats: byte framing and JSON of the helper protocol, the timeline documents
  (`timeline_protocol.rs`, `timeline_v4.rs` to `timeline_v6`), voice previews, the
  marker and control protocols, contracts. They convert without state; what a decoder
  finds is an attribute of the message;
* command parsing and settings (`omnivox-core/src/command.rs`, `state.rs`,
  `settings.rs`), and the commands of `server.rs` that only set or query;
* signal processing: `post_synthesis.rs`, `tone.rs`, `tone/rich.rs`, `loader.rs`,
  `buffer.rs`, the filters of `effects.rs`, resampling in `progressive_pcm.rs`, the
  mixing of `rodio_output.rs`;
* start-up: `main.rs`, `cli.rs`, the construction of engines in `engine.rs`, process
  creation and sandboxing;
* voice documents: catalogue, eligibility, evidence, index and runtime of the voice
  library, `voice_observations.rs`, the enumeration of voices in every engine and the
  variant cache of eSpeak (`espeak.rs:881-1048`);
* SAPI (`windows.rs`), whose calls are serialised by one mutex and which has no thread or
  queue of its own, and the native C and C++ code of all engines, which appears as the
  callbacks it makes;
* the Emacs client; the contract it relies on is `SpeechContract`.

## 6. Where code and documentation disagree

* **`fresh_speech`.** `interrupt_output` (`omnivox-audio/src/output.rs:684`) advances
  the shared generation, but the loop stamps new requests with its own copy
  (`omnivox-cli/src/server.rs:3262`), which only an interrupt advances. After the output
  was replaced, speech is stale on arrival until the next interrupt, although
  `docs/guides/configuration.md:259` says that fresh speech uses the new output.
* **`obsolete_call`.** An isolated call compares the generation with the one it reads
  itself (`omnivox-cli/src/engine_execution.rs:275`). An interrupt between the routing
  loop's last check and that read is seen by neither, and the worker waits for an
  obsolete call that may hang; the comment at line 169 says that a new generation can
  proceed.
* **`tgspeechbox`.** A request that is cancelled while it hands audio or markers to its
  sink returns without resetting the native player
  (`omnivox-tgspeechbox-helper/src/lib.rs:561`); every other early exit resets it. The
  next request hears the rest, and its anchors come late or are rejected as stale, where
  `docs/engines/tgspeechbox.md:102` promises them at the corresponding PCM boundary.
* **`voice_text`.** Engines that cannot encode a chunk are excluded once, before its
  first attempt (`omnivox-cli/src/routing.rs:964`, `1362`). After a failure the chunk is
  resolved again without its text (`routing.rs:342`) and may be given to such an engine,
  where `docs/protocols/control.md:805` says "before each synthesis call".

## 7. Plan

Done, in this order: the queue, the streams, the server composed of both, admission,
isolation, routing on abstract slots, the helper session; then the supervising threads
(devices, progressive playback, markers, PulseAudio, helper initialization, remote
sessions), the voice library with its crashes, utterances and their renderings, the
helper protocol, the native engines and helper programs, voice resolution, native
parameters and the configuration.

Proofs done: queue, output, server with its contract, admission, isolation with its
slots, routing with its circuits, the client of a helper process with its host, voice
packages, voice operations, the output device, progressive playback, PulseAudio, marker
reports, helper initialization, remote sessions, the macOS engine, the MBROLA helper,
the Piper engine and voice resolution.

Proofs to come, most useful first: the editors and the launch snapshot of the
configuration (`ConfigurationSound`), apart from its reading of manifests, which is a
fold; the cache and the epochs of native parameters (`ParametersSound`), apart from the
assembly of pages; the captures of the other helpers, for scripts that are well formed.

Models to come: the composition of `DeviceOutput` with the streams of `AudioControl`,
the settings commands of the server, and the timeline documents as far as their
validation decides what is spoken.
