---------------------------- MODULE EngineRouting ----------------------------
(***************************************************************************)
(* Runtime routing of one logical voice: synthesize_*_with_runtime_fallback*)
(* (omnivox-cli/src/routing.rs) on the sole synthesis worker, the circuit  *)
(* breaker of every engine (health.rs) and the isolated engines, of which  *)
(* this module sees the slots (EngineSlots, implemented by                 *)
(* EngineIsolation).  The protocol loop interrupts and submits requests,   *)
(* the control connection asks for recovery probes, cooldowns end.         *)
(*                                                                         *)
(* The routing snapshot is abstracted to the order in which the resolver   *)
(* prefers voices and the voices it no longer offers; a cooldown, the      *)
(* admission wait and the supersession grace may end at any later step.    *)
(***************************************************************************)
EXTENDS Integers, Sequences, FiniteSets, SequencesExt

CONSTANTS
    Engine, MaxIsolatedCalls,
    Order,          \* Order: the voices the resolver tries, preferred first
    EngineOf,       \* EngineOf[v]: the engine of a voice
    Streaming,      \* engines that declare StreamingPcm
    MaxAttempts,    \* MAX_RUNTIME_SYNTHESIS_ATTEMPTS
    MaxChunks,      \* chunks of a request
    MaxRequests,    \* bound: requests of the instance
    MaxGeneration,  \* bound: interrupts of the instance
    NoVoice

Voice == Range(Order)

ASSUME RoutingAssumption ==
    /\ Order \in Seq(Voice)
    /\ EngineOf \in [Voice -> Engine]
    /\ Streaming \subseteq Engine
    /\ MaxAttempts \in Nat \ {0}
    /\ MaxChunks \in Nat \ {0}
    /\ MaxRequests \in Nat /\ MaxGeneration \in Nat
    /\ NoVoice \notin Voice

VARIABLES
    gen_counter, stop_epoch, slot, recover,
    stopping,   \* engines the interrupt in progress still has to stop
    inbox,      \* generations of the requests submitted and not yet taken
    submitted,  \* how many requests there were
    circuit,    \* circuit[e]: RuntimeHealthInner.circuits
    superseded, \* the current request's cancellation token is cancelled
    excluded,   \* voices the current request's snapshot no longer offers
    w,          \* the worker: where it stands in the attempt loop
    tried,      \* history: voices of this chunk's attempts
    heard,      \* history: attempts of this chunk whose output was accepted
    faulted,    \* history: engines that failed on their own account
    failing,    \* history: engines that failed as such in this request, and since then
                \* did not succeed
    reconnected \* history: the current native call reconnected first

loopVars == <<stopping, inbox, submitted>>
history == <<tried, heard, faulted, failing, reconnected>>
vars == <<gen_counter, stop_epoch, slot, recover, loopVars, circuit, superseded,
          excluded, w, history>>

Slots == INSTANCE EngineSlots

Idle == [pc |-> "idle", gen |-> 0, chunk |-> 0, voice |-> NoVoice, attempt |-> 0,
         permit |-> "none", seen |-> <<0, 0>>, committed |-> FALSE,
         output_failed |-> FALSE, result |-> "none"]

Init ==
    /\ gen_counter = 0
    /\ stop_epoch = [e \in Engine |-> 0]
    /\ Slots!Init
    /\ recover = [e \in Engine |-> FALSE]
    /\ stopping = {}
    /\ inbox = <<>>
    /\ submitted = 0
    /\ circuit = [e \in Engine |-> "closed"]
    /\ superseded = FALSE
    /\ excluded = {}
    /\ w = Idle
    /\ tried = <<>>
    /\ heard = {}
    /\ faulted = {}
    /\ failing = {}
    /\ reconnected = FALSE

Busy == w.pc # "idle"

\* The engine of the current route.
eng == EngineOf[w.voice]

\* stale: what the routing loop asks.
Stale == gen_counter # w.gen \/ superseded

\* IsolatedTtsEngine::was_cancelled: what the isolated call asks.
WasCancelled ==
    gen_counter # w.seen[1] \/ stop_epoch[eng] # w.seen[2] \/ superseded

------------------------------
(* The protocol loop and the control connection *)

\* A request is stamped with the loop's generation; an interrupt is completed
\* before the loop reads its next command.
Submit ==
    /\ stopping = {}
    /\ submitted < MaxRequests
    /\ submitted' = submitted + 1
    /\ inbox' = Append(inbox, gen_counter)
    /\ UNCHANGED <<gen_counter, stop_epoch, slot, recover, stopping, circuit,
                   superseded, excluded, w, history>>

\* interrupt: the generation first, then, where asked for, every engine.
Interrupt(stop_engine) ==
    /\ stopping = {}
    /\ gen_counter < MaxGeneration
    /\ gen_counter' = gen_counter + 1
    /\ stopping' = IF stop_engine THEN Engine ELSE {}
    /\ UNCHANGED <<stop_epoch, slot, recover, inbox, submitted, circuit, superseded,
                   excluded, w, history>>

\* EngineRegistry::stop_all reaches one engine.
StopEngine(e) ==
    /\ e \in stopping
    /\ stopping' = stopping \ {e}
    /\ stop_epoch' = [stop_epoch EXCEPT ![e] = @ + 1]
    /\ UNCHANGED <<gen_counter, slot, recover, inbox, submitted, circuit, superseded,
                   excluded, w, history>>

\* A newer presentation of the same domain cancels the request's token.
Supersede ==
    /\ Busy /\ ~superseded
    /\ superseded' = TRUE
    /\ UNCHANGED <<gen_counter, stop_epoch, slot, recover, loopVars, circuit,
                   excluded, w, history>>

\* promote_ready: the cooldown of an open circuit has passed.
CooldownEnds(e) ==
    /\ circuit[e] = "open"
    /\ circuit' = [circuit EXCEPT ![e] = "ready"]
    /\ UNCHANGED <<gen_counter, stop_epoch, slot, recover, loopVars, superseded,
                   excluded, w, history>>

\* request_probe: refused without a failure, and while a probe is under way.
RequestProbe(e) ==
    /\ circuit[e] = "open"
    /\ circuit' = [circuit EXCEPT ![e] = "ready"]
    /\ UNCHANGED <<gen_counter, stop_epoch, slot, recover, loopVars, superseded,
                   excluded, w, history>>

\* A native call its caller abandoned returns.
AbandonedReturns(e) ==
    /\ Slots!ComeBack(e)
    /\ UNCHANGED <<gen_counter, stop_epoch, recover, loopVars, circuit, superseded,
                   excluded, w, history>>

------------------------------
(* The worker: a request, its chunks, the outcome of a chunk *)

\* The snapshot is refreshed when the worker takes the request: an engine whose
\* circuit is open or probing is projected as failed, a ready one as degraded.
TakeRequest ==
    /\ ~Busy /\ inbox # <<>>
    /\ inbox' = Tail(inbox)
    /\ w' = [Idle EXCEPT !.pc = "chunk", !.gen = Head(inbox)]
    /\ superseded' = FALSE
    /\ excluded' = {v \in Voice : circuit[EngineOf[v]] \in {"open", "probing"}}
    /\ failing' = {}
    /\ UNCHANGED <<gen_counter, stop_epoch, slot, recover, stopping, submitted,
                   circuit, tried, heard, faulted, reconnected>>

\* What the resolver has left, and which of it comes first.
Candidates(out) == {i \in DOMAIN Order : Order[i] \notin out}
Preferred(out) ==
    Order[CHOOSE i \in Candidates(out) : \A j \in Candidates(out) : i <= j]

\* The chunk is over.  A cancelled one ends its request, as the last one does.
EndChunk(outcome) ==
    w' = IF outcome = "cancelled" \/ w.chunk = MaxChunks THEN Idle
         ELSE [Idle EXCEPT !.pc = "chunk", !.gen = w.gen, !.chunk = w.chunk]

\* route_for_text: every chunk is resolved anew against the batch's snapshot.
StartChunk ==
    /\ w.pc = "chunk"
    /\ tried' = <<>>
    /\ heard' = {}
    /\ w' = IF Stale THEN Idle
            ELSE IF Candidates(excluded) = {}
            THEN IF w.chunk + 1 = MaxChunks THEN Idle
                 ELSE [Idle EXCEPT !.pc = "chunk", !.gen = w.gen, !.chunk = w.chunk + 1]
            ELSE [w EXCEPT !.pc = "attempt", !.chunk = @ + 1, !.attempt = 1,
                           !.voice = Preferred(excluded)]
    /\ UNCHANGED <<gen_counter, stop_epoch, slot, recover, loopVars, circuit,
                   superseded, excluded, faulted, failing, reconnected>>

\* record_runtime_failure: what the batch's snapshot loses with an error.
ExcludedBy(error) ==
    CASE error = "voice_not_found" -> {w.voice}
      [] error = "invalid"         -> {}
      [] OTHER                     -> {v \in Voice : EngineOf[v] = eng}

\* Mutant: only the voice that failed is taken out of the snapshot.
SelectRetrySameEngine(error) ==
    LET out == excluded \cup {w.voice}
    IN  IF w.attempt = MaxAttempts \/ error = "invalid" \/ Candidates(out) = {}
        THEN excluded' = excluded /\ EndChunk("failed")
        ELSE /\ excluded' = out
             /\ w' = [w EXCEPT !.pc = "attempt", !.attempt = @ + 1,
                               !.voice = Preferred(out), !.permit = "none",
                               !.result = "none", !.committed = FALSE]

\* select_retry: the next voice, unless the attempts are used up, the error is
\* the request's own or nothing is left.
SelectRetry(error) ==
    LET out == excluded \cup ExcludedBy(error)
    IN  /\ excluded' = out
        /\ IF w.attempt = MaxAttempts \/ error = "invalid" \/ Candidates(out) = {}
           THEN EndChunk("failed")
           ELSE w' = [w EXCEPT !.pc = "attempt", !.attempt = @ + 1,
                               !.voice = Preferred(out), !.permit = "none",
                               !.result = "none", !.committed = FALSE]

\* RuntimeEngineHealth::record_failure, record_success, release_probe_if_held.
RecordFailure == circuit' = [circuit EXCEPT ![eng] = "open"]

RecordSuccess ==
    circuit' = IF w.permit = "probe" /\ circuit[eng] = "probing"
               THEN [circuit EXCEPT ![eng] = "closed"] ELSE circuit

ReleaseProbe ==
    circuit' = IF w.permit = "probe" /\ circuit[eng] = "probing"
               THEN [circuit EXCEPT ![eng] = "ready"] ELSE circuit

------------------------------
(* The attempt loop *)

AttemptCancelled ==
    /\ w.pc = "attempt"
    /\ Stale
    /\ EndChunk("cancelled")
    /\ UNCHANGED <<gen_counter, stop_epoch, slot, recover, loopVars, circuit,
                   superseded, excluded, history>>

\* RuntimeEngineHealth::acquire grants a permit: a ready circuit one probe.
Permit ==
    /\ w.pc = "attempt" /\ ~Stale
    /\ circuit[eng] \in {"closed", "ready"}
    /\ circuit' = [circuit EXCEPT ![eng] = IF @ = "ready" THEN "probing" ELSE @]
    /\ w' = [w EXCEPT !.pc = "permitted",
                      !.permit = IF circuit[eng] = "ready" THEN "probe" ELSE "normal"]
    /\ tried' = Append(tried, w.voice)
    /\ UNCHANGED <<gen_counter, stop_epoch, slot, recover, loopVars, superseded,
                   excluded, heard, faulted, failing, reconnected>>

\* acquire denies the engine: the route goes around it.
Denied ==
    /\ w.pc = "attempt" /\ ~Stale
    /\ circuit[eng] \in {"open", "probing"}
    /\ SelectRetry("unavailable")
    /\ UNCHANGED <<gen_counter, stop_epoch, slot, recover, loopVars, circuit,
                   superseded, history>>

\* Mutant: a stale request leaves its probe behind.
PermitCancelledKeepsProbe ==
    /\ w.pc \in {"permitted", "prepared"}
    /\ Stale
    /\ circuit' = circuit
    /\ EndChunk("cancelled")
    /\ UNCHANGED <<gen_counter, stop_epoch, slot, recover, loopVars, superseded,
                   excluded, history>>

\* The request became stale before the call: the probe is given back.
PermitCancelled ==
    /\ w.pc \in {"permitted", "prepared"}
    /\ Stale
    /\ ReleaseProbe
    /\ EndChunk("cancelled")
    /\ UNCHANGED <<gen_counter, stop_epoch, slot, recover, loopVars, superseded,
                   excluded, history>>

\* Mutant: a probe does not ask for a fresh connection.
PrepareWithoutRecovery ==
    /\ w.pc = "permitted" /\ ~Stale
    /\ recover' = recover
    /\ w' = [w EXCEPT !.pc = "prepared"]
    /\ UNCHANGED <<gen_counter, stop_epoch, slot, loopVars, circuit, superseded,
                   excluded, history>>

\* A probe asks the isolated engine to reconnect in the task of its call.
Prepare ==
    /\ w.pc = "permitted" /\ ~Stale
    /\ recover' = [recover EXCEPT ![eng] = @ \/ w.permit = "probe"]
    /\ w' = [w EXCEPT !.pc = "prepared"]
    /\ UNCHANGED <<gen_counter, stop_epoch, slot, loopVars, circuit, superseded,
                   excluded, history>>

\* The voice library no longer permits the engine: a failed recovery.
PrepareFails ==
    /\ w.pc = "permitted" /\ ~Stale
    /\ w.permit = "probe"
    /\ RecordFailure
    /\ SelectRetry("failed")
    /\ UNCHANGED <<gen_counter, stop_epoch, slot, recover, loopVars, superseded,
                   history>>

\* The style cannot be prepared, or the sink refuses the attempt beforehand.
PreflightFails ==
    /\ w.pc = "prepared"
    /\ ReleaseProbe
    /\ EndChunk("failed")
    /\ UNCHANGED <<gen_counter, stop_epoch, slot, recover, loopVars, superseded,
                   excluded, history>>

\* The last staleness check; the call itself begins a step later.
CallEngine ==
    /\ w.pc = "prepared" /\ ~Stale
    /\ w' = [w EXCEPT !.pc = "entering"]
    /\ UNCHANGED <<gen_counter, stop_epoch, slot, recover, loopVars, circuit,
                   superseded, excluded, history>>

------------------------------
(* The isolated call, as EngineIsolation carries it out *)

Enter ==
    /\ w.pc = "entering"
    /\ w' = [w EXCEPT !.pc = "acquiring", !.seen = <<gen_counter, stop_epoch[eng]>>]
    /\ UNCHANGED <<gen_counter, stop_epoch, slot, recover, loopVars, circuit,
                   superseded, excluded, history>>

ReturnWith(r) == w' = [w EXCEPT !.pc = "returned", !.result = r]

Admitted ==
    /\ w.pc = "acquiring"
    /\ Slots!Take(eng)
    /\ w' = [w EXCEPT !.pc = "leased"]
    /\ UNCHANGED <<gen_counter, stop_epoch, recover, loopVars, circuit, superseded,
                   excluded, history>>

\* Mutant: the wait for a slot has no deadline.
NotAdmittedWaits ==
    /\ w.pc = "acquiring"
    /\ ~Slots!Available(eng)
    /\ WasCancelled
    /\ ReturnWith("failed")
    /\ UNCHANGED <<gen_counter, stop_epoch, slot, recover, loopVars, circuit,
                   superseded, excluded, history>>

\* acquire_for_current_generation gives up: cancelled, or at the deadline.
NotAdmitted ==
    /\ w.pc = "acquiring"
    /\ ~Slots!Available(eng)
    /\ ReturnWith(IF WasCancelled THEN "failed" ELSE "unavailable")
    /\ UNCHANGED <<gen_counter, stop_epoch, slot, recover, loopVars, circuit,
                   superseded, excluded, history>>

\* Cancelled while it waited, or the task cannot be spawned.
LeaveUnused ==
    /\ w.pc = "leased"
    /\ Slots!Release(eng)
    /\ ReturnWith("failed")
    /\ faulted' = IF WasCancelled THEN faulted ELSE faulted \cup {eng}
    /\ UNCHANGED <<gen_counter, stop_epoch, recover, loopVars, circuit, superseded,
                   excluded, tried, heard, failing, reconnected>>

\* The task starts and consumes the request for a recovery.
Spawn ==
    /\ w.pc = "leased" /\ ~WasCancelled
    /\ w' = [w EXCEPT !.pc = "native"]
    /\ reconnected' = recover[eng]
    /\ recover' = [recover EXCEPT ![eng] = FALSE]
    /\ UNCHANGED <<gen_counter, stop_epoch, slot, loopVars, circuit, superseded,
                   excluded, tried, heard, faulted, failing>>

\* RoutedAttemptStreamSink: the first output commits the attempt.
Output ==
    /\ w.pc = "native" /\ eng \in Streaming /\ ~WasCancelled
    /\ w' = [w EXCEPT !.committed = TRUE]
    /\ heard' = heard \cup {w.attempt}
    /\ UNCHANGED <<gen_counter, stop_epoch, slot, recover, loopVars, circuit,
                   superseded, excluded, tried, faulted, failing, reconnected>>

\* The playback sink refuses output: the call is abandoned.
OutputFails ==
    /\ w.pc = "native" /\ eng \in Streaming /\ ~WasCancelled
    /\ Slots!Abandon(eng)
    /\ w' = [w EXCEPT !.pc = "returned", !.result = "failed", !.committed = TRUE,
                      !.output_failed = TRUE]
    /\ UNCHANGED <<gen_counter, stop_epoch, recover, loopVars, circuit, superseded,
                   excluded, history>>

\* The stream is complete, and the sink refuses its preamble only then.
CommitFails ==
    /\ w.pc = "native" /\ eng \in Streaming /\ ~WasCancelled
    /\ ~w.committed
    /\ Slots!Release(eng)
    /\ w' = [w EXCEPT !.pc = "returned", !.result = "failed", !.committed = TRUE,
                      !.output_failed = TRUE]
    /\ UNCHANGED <<gen_counter, stop_epoch, recover, loopVars, circuit, superseded,
                   excluded, history>>

\* The engine breaks the stream protocol: the call is abandoned.
ProtocolFails ==
    /\ w.pc = "native" /\ eng \in Streaming /\ ~WasCancelled
    /\ Slots!Abandon(eng)
    /\ ReturnWith("failed")
    /\ faulted' = faulted \cup {eng}
    /\ UNCHANGED <<gen_counter, stop_epoch, recover, loopVars, circuit, superseded,
                   excluded, tried, heard, failing, reconnected>>

\* The native call returns; a superseded result is discarded as an error.
NativeReturns(r) ==
    /\ w.pc = "native"
    /\ Slots!Release(eng)
    /\ ReturnWith(IF WasCancelled THEN "failed" ELSE r)
    /\ faulted' = IF r = "failed" /\ ~WasCancelled THEN faulted \cup {eng} ELSE faulted
    /\ UNCHANGED <<gen_counter, stop_epoch, recover, loopVars, circuit, superseded,
                   excluded, tried, heard, failing, reconnected>>

\* The superseded caller abandons its call.
Quarantine ==
    /\ w.pc = "native" /\ WasCancelled
    /\ Slots!Abandon(eng)
    /\ ReturnWith("failed")
    /\ UNCHANGED <<gen_counter, stop_epoch, recover, loopVars, circuit, superseded,
                   excluded, history>>

------------------------------
(* What the routing loop makes of the result *)

\* Success closes the probed circuit even for a stale request.  A buffered
\* result, or a stream's last commit, is the chunk's audio unless it is stale.
Succeeded ==
    /\ w.pc = "returned" /\ w.result = "ok"
    /\ RecordSuccess
    /\ heard' = IF Stale /\ eng \notin Streaming THEN heard ELSE heard \cup {w.attempt}
    /\ failing' = failing \ {eng}
    /\ EndChunk(IF Stale THEN "cancelled" ELSE "ready")
    /\ UNCHANGED <<gen_counter, stop_epoch, slot, recover, loopVars, superseded,
                   excluded, tried, faulted, reconnected>>

\* A stale error says nothing about the engine.
FailedStale ==
    /\ w.pc = "returned" /\ w.result # "ok"
    /\ Stale
    /\ ReleaseProbe
    /\ EndChunk("cancelled")
    /\ UNCHANGED <<gen_counter, stop_epoch, slot, recover, loopVars, superseded,
                   excluded, history>>

\* Neither does a failure of the shared output, and no other engine would do
\* better.
FailedOutput ==
    /\ w.pc = "returned" /\ w.result # "ok" /\ ~Stale
    /\ w.output_failed
    /\ ReleaseProbe
    /\ EndChunk("failed")
    /\ UNCHANGED <<gen_counter, stop_epoch, slot, recover, loopVars, superseded,
                   excluded, history>>

\* record_synthesis_failure: which errors open the circuit.
RecordSynthesisFailure ==
    IF w.result = "failed" \/ (w.result = "unavailable" /\ w.permit = "probe")
    THEN RecordFailure ELSE ReleaseProbe

\* What the history of the request notes: the engine, not just the voice.
EnginesFailing ==
    IF w.result = "failed" \/ (w.result = "unavailable" /\ ~w.committed)
    THEN {eng} ELSE {}

\* Mutant: the fallback also follows output that was already accepted.
FailedEngineSplicing ==
    /\ w.pc = "returned" /\ w.result # "ok" /\ ~Stale
    /\ ~w.output_failed
    /\ RecordSynthesisFailure
    /\ SelectRetry(w.result)
    /\ failing' = failing \cup EnginesFailing
    /\ UNCHANGED <<gen_counter, stop_epoch, slot, recover, loopVars, superseded,
                   tried, heard, faulted, reconnected>>

\* Mutant: the failure is recorded before staleness is considered.
FailedEngineUnchecked ==
    /\ w.pc = "returned" /\ w.result # "ok"
    /\ ~w.output_failed
    /\ RecordSynthesisFailure
    /\ IF Stale \/ w.committed THEN EndChunk("cancelled") /\ UNCHANGED excluded
       ELSE SelectRetry(w.result)
    /\ failing' = failing \cup EnginesFailing
    /\ UNCHANGED <<gen_counter, stop_epoch, slot, recover, loopVars, superseded,
                   tried, heard, faulted, reconnected>>

\* The engine failed: its circuit, then a fallback unless output was accepted.
FailedEngine ==
    /\ w.pc = "returned" /\ w.result # "ok" /\ ~Stale
    /\ ~w.output_failed
    /\ RecordSynthesisFailure
    /\ IF w.committed THEN EndChunk("failed") /\ UNCHANGED excluded
       ELSE SelectRetry(w.result)
    /\ failing' = failing \cup EnginesFailing
    /\ UNCHANGED <<gen_counter, stop_epoch, slot, recover, loopVars, superseded,
                   tried, heard, faulted, reconnected>>

------------------------------
NativeResult == {"ok", "failed", "unavailable", "voice_not_found", "invalid"}

LoopStep ==
    \/ Submit
    \/ \E stop \in BOOLEAN : Interrupt(stop)
    \/ \E e \in Engine : StopEngine(e)

\* The worker's own steps; a native call returning is not one of them.
WorkerStep ==
    \/ TakeRequest \/ StartChunk
    \/ AttemptCancelled \/ Permit \/ Denied \/ PermitCancelled \/ Prepare
    \/ PrepareFails \/ PreflightFails \/ CallEngine
    \/ Enter \/ Admitted \/ NotAdmitted \/ LeaveUnused \/ Spawn \/ Quarantine
    \/ Succeeded \/ FailedStale \/ FailedOutput \/ FailedEngine

NativeStep ==
    \/ Output \/ OutputFails \/ CommitFails \/ ProtocolFails
    \/ \E r \in NativeResult : NativeReturns(r)

\* Everything submitted was handled and no interrupt is left to make.
Quiescent ==
    /\ ~Busy /\ inbox = <<>> /\ stopping = {}
    /\ submitted = MaxRequests /\ gen_counter = MaxGeneration
    /\ UNCHANGED vars

Next ==
    \/ LoopStep
    \/ Supersede
    \/ \E e \in Engine : CooldownEnds(e) \/ RequestProbe(e) \/ AbandonedReturns(e)
    \/ WorkerStep
    \/ NativeStep
    \/ Quiescent

Spec == Init /\ [][Next]_vars

\* The worker polls and the loop completes what it began; nothing is assumed
\* of native calls.
PollingSpec ==
    /\ Spec
    /\ WF_vars(WorkerStep)
    /\ WF_vars(\E e \in Engine : StopEngine(e))

\* Native calls return as well.
ReturningSpec == PollingSpec /\ WF_vars(\E r \in NativeResult : NativeReturns(r))

------------------------------
(* Properties *)

Circuit == {"closed", "open", "ready", "probing"}

TypeOK ==
    /\ gen_counter \in 0..MaxGeneration
    /\ stop_epoch \in [Engine -> 0..MaxGeneration]
    /\ slot \in [Engine -> {"free", "held", "abandoned"}]
    /\ recover \in [Engine -> BOOLEAN]
    /\ stopping \subseteq Engine
    /\ inbox \in Seq(0..MaxGeneration)
    /\ submitted \in 0..MaxRequests
    /\ circuit \in [Engine -> Circuit]
    /\ superseded \in BOOLEAN
    /\ excluded \subseteq Voice
    /\ w.attempt \in 0..MaxAttempts
    /\ w.chunk \in 0..MaxChunks
    /\ w.voice \in Voice \cup {NoVoice}
    /\ w.result \in NativeResult \cup {"none"}

\* A chunk is spoken by one attempt: no fallback is spliced onto output that
\* was already accepted.
NoSplice == Cardinality(heard) <= 1

\* A circuit is probing only while the worker holds its probe.  Every early
\* return gives the probe back: one that did not would deny the engine for
\* good, for nothing leads out of "probing" but the holder.
ProbeIsHeld ==
    \A e \in Engine : circuit[e] = "probing" =>
        w.pc \notin {"idle", "chunk"} /\ w.permit = "probe" /\ eng = e

\* An engine's circuit is opened by a failure of that engine (or of starting
\* its task), never by a supersession, a stop or the output; an engine that is
\* merely occupied is blamed only on a probe.
BlameIsEarned ==
    \A e \in Engine : circuit[e] # "closed" => e \in faulted

\* The native call of a probe reconnects first, and a reconnection is never
\* left pending for an engine whose circuit is closed.
ProbeReconnects ==
    /\ w.pc = "native" /\ w.permit = "probe" => reconnected
    /\ \A e \in Engine : recover[e] => circuit[e] # "closed"

\* Within a request an engine that failed as such is called again, in a later
\* chunk, only to probe it, until a probe succeeds, and no voice is tried twice
\* for a chunk, of which there are at most MaxAttempts tries.
NeverRetriesFailed ==
    /\ Len(tried) <= MaxAttempts
    /\ \A i, j \in DOMAIN tried : tried[i] = tried[j] => i = j
    /\ w.pc = "native" /\ eng \in failing => w.permit = "probe"

\* The parts of the routing loop's safety.
RoutingInvariant ==
    /\ TypeOK
    /\ NoSplice /\ ProbeIsHeld /\ BlameIsEarned /\ ProbeReconnects /\ NeverRetriesFailed

\* "So a new generation can proceed while an obsolete native call finishes or
\* its helper is killed": the worker leaves the call of a stale request even
\* if that call never returns.
NewGenerationProceeds == Busy /\ Stale ~> ~Busy
=============================================================================
