--------------------------- MODULE EngineIsolation ---------------------------
(***************************************************************************)
(* IsolatedTtsEngine of omnivox-cli/src/engine_execution.rs: a native      *)
(* synthesis call that cannot be preempted runs in a task of its own, and  *)
(* its caller may abandon it when the request is superseded.  The lease of *)
(* an engine slot is shared by the caller and the task; the slot is free   *)
(* again when both have dropped it.                                        *)
(*                                                                         *)
(* A call is one synthesize or synthesize_stream invocation.  What an      *)
(* engine emits is its own affair (external): any events in any order,     *)
(* then any result.  Time is abstracted: the 350 ms admission wait and the *)
(* 75 ms grace may end at any later step.                                  *)
(***************************************************************************)
EXTENDS Integers, Sequences, FiniteSets

CONSTANTS
    Call, Engine,
    KindOf,             \* KindOf[c]: "buffered", "stream", "native_stream"
    MaxIsolatedCalls,   \* MAX_ISOLATED_CALLS
    EventCapacity,      \* ISOLATED_STREAM_EVENT_CAPACITY
    MaxEvents,          \* bound: events one native call emits
    MaxCancels,         \* bound: generations, and stop epochs of an engine
    NativeResult,       \* what a native call may return; "ok" and "failed" at least
    NoEngine

ASSUME IsolationAssumption ==
    /\ KindOf \in [Call -> {"buffered", "stream", "native_stream"}]
    /\ IsFiniteSet(Call)
    /\ MaxIsolatedCalls \in Nat \ {0}
    /\ EventCapacity \in Nat \ {0}
    /\ MaxEvents \in Nat
    /\ MaxCancels \in Nat
    /\ {"ok", "failed"} \subseteq NativeResult
    /\ {"none", "superseded"} \cap NativeResult = {}
    /\ NoEngine \notin Engine

VARIABLES
    generation,     \* the interrupt generation every thread reads
    stop_epoch,     \* stop_epoch[e]
    engine_active,  \* engine_active[e]: the slot of the engine is taken
    in_flight,      \* IsolationBudget.in_flight
    quarantined,    \* IsolationBudget.quarantined
    recover,        \* recover[e]: recover_before_next_call
    token,          \* calls whose request's cancellation token is cancelled
    caller,         \* caller[c]: where the calling thread stands
    engine,         \* engine[c]: the engine called
    seen,           \* seen[c]: generation and stop epoch read on entry
    grace,          \* grace[c]: superseded_at is set
    owners,         \* owners[c]: who holds the lease
    abandoned,      \* abandoned[c]: IsolationLeaseInner.quarantined
    task,           \* task[c]: where the isolated task stands
    emitted,        \* emitted[c]: events the native call has produced
    pending,        \* pending[c]: the event or result being sent
    channel,        \* channel[c]: the bounded channel from task to caller
    result,         \* result[c]: what the native call returned
    delivered,      \* delivered[c]: events the caller handed to its sink
    outcome         \* outcome[c]: what the caller returned

budgetVars == <<engine_active, in_flight, quarantined, owners, abandoned>>
signalVars == <<generation, stop_epoch, token>>
taskVars == <<task, emitted, pending, result>>
isolationVars == <<signalVars, budgetVars, taskVars, recover, caller, engine, seen,
          grace, channel, delivered, outcome>>

Owner == {"caller", "task"}
EventKind == {"application", "bad_application", "start", "output"}
CallerState == {"idle", "acquiring", "leased", "waiting", "returned"}
TaskState == {"none", "recovering", "native", "sending", "finished",
              "reporting", "ended", "unwinding", "panicked"}
Outcome == {"none", "superseded", "unavailable"} \cup NativeResult

\* What the caller's native call occupies: the engine is inside it.
Resident(c) == task[c] \in {"recovering", "native", "sending"}
Leased(c) == owners[c] # {}
Native(c) == KindOf[c] = "native_stream"
Gone(c) == caller[c] = "returned"
Capacity(c) == IF KindOf[c] = "buffered" THEN 1 ELSE EventCapacity

IsolationInit ==
    /\ generation = 0
    /\ stop_epoch = [e \in Engine |-> 0]
    /\ engine_active = [e \in Engine |-> FALSE]
    /\ in_flight = 0
    /\ quarantined = 0
    /\ recover = [e \in Engine |-> FALSE]
    /\ token = {}
    /\ caller = [c \in Call |-> "idle"]
    /\ engine = [c \in Call |-> NoEngine]
    /\ seen = [c \in Call |-> <<0, 0>>]
    /\ grace = [c \in Call |-> FALSE]
    /\ owners = [c \in Call |-> {}]
    /\ abandoned = [c \in Call |-> FALSE]
    /\ task = [c \in Call |-> "none"]
    /\ emitted = [c \in Call |-> 0]
    /\ pending = [c \in Call |-> "none"]
    /\ channel = [c \in Call |-> <<>>]
    /\ result = [c \in Call |-> "none"]
    /\ delivered = [c \in Call |-> <<>>]
    /\ outcome = [c \in Call |-> "none"]

------------------------------
(* Cancellation signals *)

\* was_cancelled, against what the caller read on entry.
WasCancelled(c) ==
    \/ generation # seen[c][1]
    \/ stop_epoch[engine[c]] # seen[c][2]
    \/ c \in token

HardStop(c) == stop_epoch[engine[c]] # seen[c][2]

\* A new interrupt generation (server.rs advances it before stopping engines).
Interrupt ==
    /\ generation < MaxCancels
    /\ generation' = generation + 1
    /\ UNCHANGED <<stop_epoch, token, budgetVars, taskVars, recover, caller,
                   engine, seen, grace, channel, delivered, outcome>>

\* IsolatedTtsEngine::stop.  The native stop itself only makes the running
\* call return sooner.
Stop(e) ==
    /\ stop_epoch[e] < MaxCancels
    /\ stop_epoch' = [stop_epoch EXCEPT ![e] = @ + 1]
    /\ UNCHANGED <<generation, token, budgetVars, taskVars, recover, caller,
                   engine, seen, grace, channel, delivered, outcome>>

\* SynthesisCancellationToken::cancel of the request of c.
CancelRequest(c) ==
    /\ caller[c] \in {"acquiring", "leased", "waiting"}
    /\ c \notin token
    /\ token' = token \cup {c}
    /\ UNCHANGED <<generation, stop_epoch, budgetVars, taskVars, recover, caller,
                   engine, seen, grace, channel, delivered, outcome>>

\* prepare_recovery_probe: the reconnection is left to the next call's task.
PrepareRecoveryProbe(e) ==
    /\ ~recover[e]
    /\ recover' = [recover EXCEPT ![e] = TRUE]
    /\ UNCHANGED <<signalVars, budgetVars, taskVars, caller, engine, seen, grace,
                   channel, delivered, outcome>>

------------------------------
(* The lease *)

\* Mutant: the budget counts abandoned calls only (the quarantined counter),
\* the weaker rule the comment on IsolationBudget rejects.
CanAcquireCountingAbandoned(c) ==
    ~engine_active[engine[c]] /\ quarantined < MaxIsolatedCalls

\* try_acquire: the engine's slot first, then a place in the process budget.
CanAcquire(c) == ~engine_active[engine[c]] /\ in_flight < MaxIsolatedCalls

\* Mutant: the caller's clone releases the slot, whatever the task does.
DropLeaseWithCaller(c, who, abandon) ==
    LET last == who = "caller" IN
    /\ owners' = [owners EXCEPT ![c] = @ \ {who}]
    /\ abandoned' = [abandoned EXCEPT ![c] = @ \/ abandon]
    /\ in_flight' = IF last THEN in_flight - 1 ELSE in_flight
    /\ quarantined' = quarantined
    /\ engine_active' = [engine_active EXCEPT ![engine[c]] = @ /\ ~last]

\* Mutant: every clone that is dropped gives the slot back.
DropLeaseEveryClone(c, who, abandon) ==
    /\ owners' = [owners EXCEPT ![c] = @ \ {who}]
    /\ abandoned' = [abandoned EXCEPT ![c] = @ \/ abandon]
    /\ in_flight' = in_flight - 1
    /\ quarantined' = quarantined
    /\ engine_active' = [engine_active EXCEPT ![engine[c]] = FALSE]

\* Mutant: the quarantine counter is only ever incremented.
DropLeaseKeepingCount(c, who, abandon) ==
    LET last == owners[c] = {who} IN
    /\ owners' = [owners EXCEPT ![c] = @ \ {who}]
    /\ abandoned' = [abandoned EXCEPT ![c] = @ \/ abandon]
    /\ in_flight' = IF last THEN in_flight - 1 ELSE in_flight
    /\ quarantined' = IF abandon THEN quarantined + 1 ELSE quarantined
    /\ engine_active' = [engine_active EXCEPT ![engine[c]] = @ /\ ~last]

\* A caller that abandons its call marks the lease (mark_quarantined) and drops
\* its clone.  With the last clone IsolationLeaseInner is dropped, under the
\* availability lock: the counters go down and the engine's slot is free.
DropLease(c, who, abandon) ==
    LET last    == owners[c] = {who}
        marked  == abandoned[c] \/ abandon
        counted == IF abandon /\ ~abandoned[c] THEN quarantined + 1 ELSE quarantined
    IN  /\ owners' = [owners EXCEPT ![c] = @ \ {who}]
        /\ abandoned' = [abandoned EXCEPT ![c] = marked]
        /\ in_flight' = IF last THEN in_flight - 1 ELSE in_flight
        /\ quarantined' = IF last /\ marked THEN counted - 1 ELSE counted
        /\ engine_active' = [engine_active EXCEPT ![engine[c]] = @ /\ ~last]

------------------------------
(* The calling thread *)

\* synthesize_isolated, synthesize_stream_isolated: the generation and the stop
\* epoch are read on entry.
Begin(c, e) ==
    /\ caller[c] = "idle"
    /\ caller' = [caller EXCEPT ![c] = "acquiring"]
    /\ engine' = [engine EXCEPT ![c] = e]
    /\ seen' = [seen EXCEPT ![c] = <<generation, stop_epoch[e]>>]
    /\ UNCHANGED <<signalVars, budgetVars, taskVars, recover, grace, channel,
                   delivered, outcome>>

\* The caller returns; the receiver is dropped and what it held is lost.
Return(c, o) ==
    /\ caller' = [caller EXCEPT ![c] = "returned"]
    /\ outcome' = [outcome EXCEPT ![c] = o]
    /\ channel' = [channel EXCEPT ![c] = <<>>]

\* acquire_for_current_generation succeeds, under the availability lock.
Acquire(c) ==
    /\ caller[c] = "acquiring"
    /\ CanAcquire(c)
    /\ caller' = [caller EXCEPT ![c] = "leased"]
    /\ owners' = [owners EXCEPT ![c] = {"caller"}]
    /\ in_flight' = in_flight + 1
    /\ engine_active' = [engine_active EXCEPT ![engine[c]] = TRUE]
    /\ UNCHANGED <<signalVars, quarantined, abandoned, taskVars, recover, engine,
                   seen, grace, channel, delivered, outcome>>

\* Pressure: a cancelled request leaves at once, another one at the deadline.
GiveUp(c) ==
    /\ caller[c] = "acquiring"
    /\ ~CanAcquire(c)
    /\ Return(c, IF WasCancelled(c) THEN "superseded" ELSE "unavailable")
    /\ UNCHANGED <<signalVars, budgetVars, taskVars, recover, engine, seen, grace,
                   delivered>>

\* The request was superseded while it waited for the slot.
LeaveUnused(c) ==
    /\ caller[c] = "leased"
    /\ WasCancelled(c)
    /\ Return(c, "superseded")
    /\ DropLease(c, "caller", FALSE)
    /\ UNCHANGED <<signalVars, taskVars, recover, engine, seen, grace, delivered>>

\* The task is spawned with a clone of the lease and consumes the request for
\* a recovery.
Spawn(c) ==
    /\ caller[c] = "leased"
    /\ ~WasCancelled(c)
    /\ caller' = [caller EXCEPT ![c] = "waiting"]
    /\ owners' = [owners EXCEPT ![c] = @ \cup {"task"}]
    /\ task' = [task EXCEPT ![c] = IF recover[engine[c]] THEN "recovering" ELSE "native"]
    /\ recover' = [recover EXCEPT ![engine[c]] = FALSE]
    /\ UNCHANGED <<signalVars, engine_active, in_flight, quarantined, abandoned,
                   emitted, pending, result, engine, seen, grace, channel,
                   delivered, outcome>>

\* The thread cannot be started: the request for a recovery is restored.
SpawnFails(c) ==
    /\ caller[c] = "leased"
    /\ ~WasCancelled(c)
    /\ Return(c, "failed")
    /\ DropLease(c, "caller", FALSE)
    /\ UNCHANGED <<signalVars, taskVars, recover, engine, seen, grace, delivered>>

\* A poll that finds the request superseded starts the grace period ...
StartGrace(c) ==
    /\ caller[c] = "waiting"
    /\ WasCancelled(c) /\ ~HardStop(c) /\ ~grace[c]
    /\ grace' = [grace EXCEPT ![c] = TRUE]
    /\ UNCHANGED <<signalVars, budgetVars, taskVars, recover, caller, engine, seen,
                   channel, delivered, outcome>>

\* Mutant: a hard stop waits for a grace period as well.
QuarantineAfterGrace(c) ==
    /\ caller[c] = "waiting"
    /\ WasCancelled(c) /\ grace[c]
    /\ Return(c, "superseded")
    /\ DropLease(c, "caller", TRUE)
    /\ UNCHANGED <<signalVars, taskVars, recover, engine, seen, grace, delivered>>

\* ... and once it has passed, or at once after a stop, the call is abandoned:
\* engine.stop(), mark_quarantined, return.
Quarantine(c) ==
    /\ caller[c] = "waiting"
    /\ WasCancelled(c) /\ (HardStop(c) \/ grace[c])
    /\ Return(c, "superseded")
    /\ DropLease(c, "caller", TRUE)
    /\ UNCHANGED <<signalVars, taskVars, recover, engine, seen, grace, delivered>>

Delivered(c, k) == \E i \in DOMAIN delivered[c] : delivered[c][i] = k

\* The call ended and said so.
ReceiveFinished(c) ==
    /\ caller[c] = "waiting"
    /\ channel[c] # <<>> /\ Head(channel[c]) = "finished"
    /\ Return(c, IF WasCancelled(c) THEN "superseded"
                 ELSE IF /\ result[c] = "ok" /\ Native(c)
                         /\ ~(Delivered(c, "application") /\ Delivered(c, "start"))
                      THEN "failed" ELSE result[c])
    /\ DropLease(c, "caller", FALSE)
    /\ UNCHANGED <<signalVars, taskVars, recover, engine, seen, grace, delivered>>

\* Unwinding drops the closure's captures in the order it mentions them: the
\* buffered one its lease and then its sender, a streaming one its sender first.
SenderDropped(c) ==
    task[c] = "panicked" \/ (task[c] = "unwinding" /\ KindOf[c] # "buffered")

\* The task ended without a result.
ReceiveDisconnected(c) ==
    /\ caller[c] = "waiting"
    /\ channel[c] = <<>> /\ SenderDropped(c)
    /\ Return(c, "failed")
    /\ DropLease(c, "caller", FALSE)
    /\ UNCHANGED <<signalVars, taskVars, recover, engine, seen, grace, delivered>>

\* What the caller refuses of a native stream: one valid application receipt,
\* then one start, then output.
OutOfOrder(c, k) ==
    CASE k = "start" -> Native(c) /\ (~Delivered(c, "application") \/ Delivered(c, "start"))
      [] k = "output" -> Native(c) /\ ~(Delivered(c, "application") /\ Delivered(c, "start"))
      [] OTHER -> \/ ~Native(c) \/ k = "bad_application"
                  \/ Delivered(c, "application") \/ Delivered(c, "start")

\* An event is handed on, or discarded when the request is superseded by then.
ReceiveEvent(c) ==
    /\ caller[c] = "waiting"
    /\ channel[c] # <<>> /\ Head(channel[c]) \in EventKind
    /\ WasCancelled(c) \/ ~OutOfOrder(c, Head(channel[c]))
    /\ channel' = [channel EXCEPT ![c] = Tail(@)]
    /\ delivered' = IF WasCancelled(c) THEN delivered
                    ELSE [delivered EXCEPT ![c] = Append(@, Head(channel[c]))]
    /\ UNCHANGED <<signalVars, budgetVars, taskVars, recover, caller, engine, seen,
                   grace, outcome>>

\* An event the protocol does not allow, or one the sink refuses (the receipt
\* has no sink to refuse it): the call is abandoned.
RefuseEvent(c) ==
    /\ caller[c] = "waiting"
    /\ channel[c] # <<>> /\ Head(channel[c]) \in EventKind
    /\ ~WasCancelled(c)
    /\ OutOfOrder(c, Head(channel[c])) \/ Head(channel[c]) \in {"start", "output"}
    /\ Return(c, "failed")
    /\ DropLease(c, "caller", TRUE)
    /\ UNCHANGED <<signalVars, taskVars, recover, engine, seen, grace, delivered>>

------------------------------
(* The isolated task *)

\* prepare_recovery_probe of the engine, before the call itself.
Reconnect(c, ok) ==
    /\ task[c] = "recovering"
    /\ task' = [task EXCEPT ![c] = IF ok THEN "native" ELSE "finished"]
    /\ result' = [result EXCEPT ![c] = IF ok THEN "none" ELSE "failed"]
    /\ UNCHANGED <<signalVars, budgetVars, emitted, pending, recover, caller,
                   engine, seen, grace, channel, delivered, outcome>>

\* The native call produces an event of a stream.
Emit(c, k) ==
    /\ task[c] = "native"
    /\ KindOf[c] # "buffered"
    /\ emitted[c] < MaxEvents
    /\ k \in {"application", "bad_application"} => Native(c)
    /\ task' = [task EXCEPT ![c] = "sending"]
    /\ pending' = [pending EXCEPT ![c] = k]
    /\ emitted' = [emitted EXCEPT ![c] = @ + 1]
    /\ UNCHANGED <<signalVars, budgetVars, result, recover, caller, engine, seen,
                   grace, channel, delivered, outcome>>

\* Mutant: a send whose receiver has gone waits for it.
MaySendToCaller(c) == ~Gone(c) /\ Len(channel[c]) < Capacity(c)

\* A bounded send blocks while the channel is full, and fails once the
\* receiver is gone.
MaySend(c) == Gone(c) \/ Len(channel[c]) < Capacity(c)

Put(c, m) ==
    channel' = IF Gone(c) THEN channel ELSE [channel EXCEPT ![c] = Append(@, m)]

\* Mutant: an event that finds the channel full is dropped.
SendEventOrDrop(c) ==
    /\ task[c] = "sending"
    /\ IF MaySend(c) THEN Put(c, pending[c]) ELSE UNCHANGED channel
    /\ task' = [task EXCEPT ![c] = "native"]
    /\ pending' = [pending EXCEPT ![c] = "none"]
    /\ UNCHANGED <<signalVars, budgetVars, emitted, result, recover, caller, engine,
                   seen, grace, delivered, outcome>>

\* IsolatedStreamRelay: the event crosses, or the engine is told it did not.
SendEvent(c) ==
    /\ task[c] = "sending"
    /\ MaySend(c)
    /\ Put(c, pending[c])
    /\ task' = [task EXCEPT ![c] = "native"]
    /\ pending' = [pending EXCEPT ![c] = "none"]
    /\ UNCHANGED <<signalVars, budgetVars, emitted, result, recover, caller, engine,
                   seen, grace, delivered, outcome>>

\* The native call returns.
NativeReturns(c, r) ==
    /\ task[c] = "native"
    /\ task' = [task EXCEPT ![c] = "finished"]
    /\ result' = [result EXCEPT ![c] = r]
    /\ UNCHANGED <<signalVars, budgetVars, emitted, pending, recover, caller, engine,
                   seen, grace, channel, delivered, outcome>>

\* The task panics; unwinding then drops its clone of the lease.
Panic(c) ==
    /\ task[c] = "native"
    /\ task' = [task EXCEPT ![c] = "unwinding"]
    /\ UNCHANGED <<signalVars, budgetVars, emitted, pending, result, recover, caller,
                   engine, seen, grace, channel, delivered, outcome>>

Unwind(c) ==
    /\ task[c] = "unwinding"
    /\ task' = [task EXCEPT ![c] = "panicked"]
    /\ DropLease(c, "task", FALSE)
    /\ UNCHANGED <<signalVars, emitted, pending, result, recover, caller, engine,
                   seen, grace, channel, delivered, outcome>>

\* Mutant: the result is sent before the task's clone is dropped.
DropTaskLeaseAfterSend(c) ==
    /\ task[c] = "finished"
    /\ MaySend(c)
    /\ Put(c, "finished")
    /\ task' = [task EXCEPT ![c] = "ended"]
    /\ UNCHANGED <<signalVars, budgetVars, emitted, pending, result, recover, caller,
                   engine, seen, grace, delivered, outcome>>

\* drop(task_lease), and only then the result is sent.
DropTaskLease(c) ==
    /\ task[c] = "finished"
    /\ task' = [task EXCEPT ![c] = "reporting"]
    /\ DropLease(c, "task", FALSE)
    /\ UNCHANGED <<signalVars, emitted, pending, result, recover, caller, engine,
                   seen, grace, channel, delivered, outcome>>

SendResult(c) ==
    /\ task[c] = "reporting"
    /\ MaySend(c)
    /\ Put(c, "finished")
    /\ task' = [task EXCEPT ![c] = "ended"]
    /\ UNCHANGED <<signalVars, budgetVars, emitted, pending, result, recover, caller,
                   engine, seen, grace, delivered, outcome>>

------------------------------
CallerStep(c) ==
    \/ Acquire(c) \/ GiveUp(c) \/ LeaveUnused(c) \/ Spawn(c) \/ SpawnFails(c)
    \/ StartGrace(c) \/ Quarantine(c) \/ ReceiveFinished(c)
    \/ ReceiveDisconnected(c) \/ ReceiveEvent(c) \/ RefuseEvent(c)

TaskStep(c) ==
    \/ \E ok \in BOOLEAN : Reconnect(c, ok)
    \/ \E k \in EventKind : Emit(c, k)
    \/ SendEvent(c)
    \/ \E r \in NativeResult : NativeReturns(c, r)
    \/ Panic(c)
    \/ Unwind(c)
    \/ DropTaskLease(c)
    \/ SendResult(c)

\* Every call has returned and every task has ended.
Terminated ==
    /\ \A c \in Call : caller[c] = "returned" /\ task[c] \in {"none", "ended", "panicked"}
    /\ UNCHANGED isolationVars

Next ==
    \/ Interrupt
    \/ \E e \in Engine : Stop(e) \/ PrepareRecoveryProbe(e)
    \/ \E c \in Call : \/ CancelRequest(c)
                       \/ \E e \in Engine : Begin(c, e)
                       \/ CallerStep(c)
                       \/ TaskStep(c)
    \/ Terminated

Spec == IsolationInit /\ [][Next]_isolationVars

\* A caller polls every 10 ms, so it keeps taking steps.  Nothing is assumed
\* of the native call.
PollingSpec == Spec /\ \A c \in Call : WF_isolationVars(CallerStep(c))

------------------------------
(* Properties *)

TypeOK ==
    /\ generation \in 0..MaxCancels
    /\ stop_epoch \in [Engine -> 0..MaxCancels]
    /\ engine_active \in [Engine -> BOOLEAN]
    /\ in_flight \in Nat
    /\ quarantined \in Nat
    /\ recover \in [Engine -> BOOLEAN]
    /\ token \subseteq Call
    /\ caller \in [Call -> CallerState]
    /\ engine \in [Call -> Engine \cup {NoEngine}]
    /\ seen \in [Call -> (0..MaxCancels) \X (0..MaxCancels)]
    /\ grace \in [Call -> BOOLEAN]
    /\ owners \in [Call -> SUBSET Owner]
    /\ abandoned \in [Call -> BOOLEAN]
    /\ task \in [Call -> TaskState]
    /\ emitted \in [Call -> 0..MaxEvents]
    /\ pending \in [Call -> EventKind \cup {"none"}]
    /\ channel \in [Call -> Seq(EventKind \cup {"finished"})]
    /\ result \in [Call -> NativeResult \cup {"none"}]
    /\ delivered \in [Call -> Seq(EventKind)]
    /\ outcome \in [Call -> Outcome]

\* "Cancellation can never leave more than two native calls resident", and an
\* engine never runs two of them: counted over the tasks that really are
\* inside an engine, whatever the counters say.
ResidentBounded ==
    /\ Cardinality({c \in Call : Resident(c)}) <= MaxIsolatedCalls
    /\ \A c, d \in Call : Resident(c) /\ Resident(d) /\ engine[c] = engine[d] => c = d

\* The three places that record slots agree with the leases that exist: a
\* counter that drifted would refuse engines for good, or admit too many.
SlotsAccounted ==
    /\ in_flight = Cardinality({c \in Call : Leased(c)})
    /\ quarantined = Cardinality({c \in Call : Leased(c) /\ abandoned[c]})
    /\ \A e \in Engine : engine_active[e] <=> \E c \in Call : Leased(c) /\ engine[c] = e

\* "The engine slot is released deterministically when synthesize() returns":
\* only a call its caller abandoned keeps the slot after the caller returned, or
\* for a moment a stream that panicked, whose lease goes after its sender.
OnlyAbandonedOutlives ==
    \A c \in Call : Gone(c) /\ Leased(c) =>
        abandoned[c] \/ (task[c] = "unwinding" /\ KindOf[c] # "buffered")

\* The sink of a request with native parameters sees one receipt, then one
\* start, then output, whatever the engine emits; and a result is returned as
\* such only if the native call produced it and the sink has seen everything
\* the call emitted before.
SinkSeesWholeStream ==
    \A c \in Call :
        /\ Native(c) =>
             \A i \in DOMAIN delivered[c] :
                delivered[c][i] = CASE i = 1 -> "application" [] i = 2 -> "start"
                                    [] OTHER -> "output"
        /\ outcome[c] = "ok" => result[c] = "ok" /\ Len(delivered[c]) = emitted[c]

\* The slots as the routing layer sees them.
SlotOf == [e \in Engine |->
    IF ~\E c \in Call : Leased(c) /\ engine[c] = e THEN "free"
    ELSE IF \E c \in Call : Leased(c) /\ engine[c] = e /\ "caller" \in owners[c]
         THEN "held" ELSE "abandoned"]

Slots == INSTANCE EngineSlots WITH slot <- SlotOf

\* The isolated engines implement EngineSlots: admission, return, abandonment
\* and the late return of an abandoned call are the only ways a slot changes.
KeepsSlots == Slots!Spec

\* The isolation's safety (engine_execution.rs): no more native calls are resident
\* than the limit, the counters and flags are exactly the leases outstanding, and
\* only a call its caller abandoned, or a stream whose panic is still unwinding,
\* keeps its engine after the caller returned.
IsolationSound ==
    TypeOK /\ ResidentBounded /\ SlotsAccounted /\ OnlyAbandonedOutlives

\* A superseded caller gets away from its native call, which may never return;
\* and the slot of an abandoned call comes back if native calls return: the relay
\* of a caller that has gone does not block it.  What is owed leads to what is
\* met.  (A call is made once.)
IsolationClaims == {"superseded", "freed"}
IsolationOwed(k) ==
    \E c \in Call :
        IF k = "superseded" THEN caller[c] = "waiting" /\ WasCancelled(c)
                            ELSE Gone(c) /\ Leased(c)
IsolationMet(k) ==
    \A c \in Call :
        IF k = "superseded" THEN caller[c] = "idle" \/ Gone(c) \/ ~WasCancelled(c)
                            ELSE ~(Gone(c) /\ Leased(c))
=============================================================================
