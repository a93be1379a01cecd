----------------------------- MODULE HelperEngine -----------------------------
(***************************************************************************)
(* HelperTtsEngine of omnivox-tts/src/helper_engine.rs: the parent's side  *)
(* of a helper process.  Callers hold the lifecycle lock for a whole       *)
(* synthesis, probe, pre-warm or parameter query; stop() runs beside them  *)
(* and shares only the dispatch lock, the active request id and the map of *)
(* cancellations; a watchdog per cancellation kills a helper that does not *)
(* finish.                                                                 *)
(*                                                                         *)
(* One step stands for a block under one lock.  Those of stop() under the  *)
(* dispatch lock are one step: what a receiving caller does meanwhile is   *)
(* the same as if it had done it before or after.  A watchdog that cannot  *)
(* be started is one that fires at once.  Time is abstracted: the grace    *)
(* and every deadline may pass at any later step.                          *)
(***************************************************************************)
EXTENDS HelperHost

CONSTANTS
    Caller,           \* threads that call the engine
    MaxCalls,         \* bound: calls begun
    MaxQueries,       \* bound: parameter queries
    MaxStops,         \* bound: stops
    MaxFaults,        \* bound: helper crashes and terminations not confirmed
    NoCaller

ASSUME EngineAssumption ==
    /\ NoCaller \notin Caller
    /\ {MaxCalls, MaxQueries, MaxStops, MaxFaults} \subseteq Nat

VARIABLES
    connection,     \* the published connection, 0 when none
    retiring,       \* retiring_connection: a process still to be reaped, 0 when none
    started,        \* connections made
    terminated,     \* connections whose terminate() was called
    lifecycle,      \* who holds the lifecycle lock
    stop_epoch, stopping,   \* stopping: stops past the epoch, not yet at dispatch
    active,         \* active_request_id
    next_id,        \* next_request_id
    call,           \* call[k]: the call a thread is making
    cancel,         \* cancel[x]: the TargetCancellation with cancel request x
    outcome,        \* outcome[r]: how request r ended
    calls, queries, faults

countVars == <<calls, queries, faults>>
engineVars == <<connection, retiring, started, terminated, lifecycle, stop_epoch,
                stopping, active, next_id, call, cancel, outcome>>
vars == <<hostVars, engineVars, countVars>>

Id == 1..(MaxCalls + MaxQueries + MaxStops)
Operation == {"speak", "probe", "prewarm"}
NoCall == [at |-> "idle", op |-> "none", epoch |-> 0, conn |-> 0, id |-> 0,
           draining |-> FALSE, result |-> "none"]
NoCancel == [target |-> 0, conn |-> 0, state |-> "none", consumed |-> FALSE,
             retained |-> FALSE, watchdog |-> "none"]

Init ==
    /\ HostInit
    /\ connection = 0 /\ retiring = 0 /\ started = 0 /\ terminated = {}
    /\ lifecycle = NoCaller
    /\ stop_epoch = 0 /\ stopping = 0
    /\ active = 0 /\ next_id = 1
    /\ call = [k \in Caller |-> NoCall]
    /\ cancel = [x \in Id |-> NoCancel]
    /\ outcome = [r \in Id |-> "none"]
    /\ calls = 0 /\ queries = 0 /\ faults = 0
-------------------------------------------------------------------------------
(* Processes.  terminate() closes the connection before anything else, and *)
(* returns whether the exit of the process was confirmed in time.          *)

Terminate(c, confirmed) ==
    /\ terminated' = terminated \cup {c}
    /\ \/ /\ confirmed
          /\ ProcessEnds(c)
          /\ outbox' = [outbox EXCEPT ![c] = <<>>]
          /\ UNCHANGED faults
       \/ /\ ~confirmed
          /\ faults < MaxFaults
          /\ faults' = faults + 1
          /\ UNCHANGED <<alive, inbox, outbox, host_active, cancelled, worker>>

\* No process is terminated; frames may still be written to one.
Untouched ==
    UNCHANGED <<alive, outbox, host_active, cancelled, worker, terminated, faults>>

CanSend(c) == c \in alive \ terminated

Write(c, frame) == inbox' = [inbox EXCEPT ![c] = Append(@, frame)]

\* Mutant: a process is given up although its exit is not confirmed.
OwnedNoMore(c, confirmed) == 0

\* What remains to be reaped of a connection after terminate().
StillOwned(c, confirmed) == IF confirmed THEN 0 ELSE c

\* invalidate_connection: only if it is still the published one.
Invalidate(c, confirmed) ==
    \/ /\ c = connection
       /\ Terminate(c, confirmed)
       /\ retiring' = StillOwned(c, confirmed)
       /\ connection' = 0
    \/ /\ c # connection
       /\ confirmed
       /\ Untouched
       /\ UNCHANGED <<inbox, retiring, connection>>

HelperCrashes(c) ==
    /\ faults < MaxFaults
    /\ c \in alive
    /\ ProcessEnds(c)
    /\ faults' = faults + 1
    /\ UNCHANGED <<outbox, accepted, engineVars, calls, queries>>
-------------------------------------------------------------------------------
(* A cancellation leaves the state "active" once; its entry in the map is  *)
(* retained until both its target and its own request are answered.        *)

\* The request whose entry a cancellation x is, if it is retained.
EntryOf(t) == {x \in Id : cancel[x].retained /\ cancel[x].target = t}

\* Mutant: a finished target forgets its cancellation.
MarkTargetTerminalForgets(t) ==
    cancel' = [x \in Id |->
        IF x \notin EntryOf(t) THEN cancel[x]
        ELSE [cancel[x] EXCEPT !.state = IF @ = "active" THEN "terminal" ELSE @,
                               !.retained = FALSE]]

MarkTargetTerminal(t) ==
    cancel' = [x \in Id |->
        IF x \notin EntryOf(t) THEN cancel[x]
        ELSE [cancel[x] EXCEPT
                !.state = IF @ = "active" THEN "terminal" ELSE @,
                !.retained = ~cancel[x].consumed /\ cancel[x].state # "retiring"]]

AnswersCancel(frame) ==
    /\ frame.kind \in {"cancel_accepted", "cancel_refused"}
    /\ cancel[frame.id].retained

ConsumeCancelResponse(x) ==
    cancel' = [cancel EXCEPT ![x].consumed = TRUE,
                             ![x].retained = cancel[x].state = "active"]
-------------------------------------------------------------------------------
(* Calls.                                                                  *)

Begin(k, op) ==
    /\ call[k].at = "idle"
    /\ calls < MaxCalls
    /\ calls' = calls + 1
    /\ call' = [call EXCEPT ![k] = [NoCall EXCEPT !.at = "entering", !.op = op,
                                                  !.epoch = stop_epoch]]
    /\ UNCHANGED <<hostVars, connection, retiring, started, terminated, lifecycle,
                   stop_epoch, stopping, active, next_id, cancel, outcome, queries,
                   faults>>

At(k, place) == call' = [call EXCEPT ![k].at = place]

\* The caller returns and releases the lifecycle lock.
Return(k) ==
    /\ lifecycle' = NoCaller
    /\ call' = [call EXCEPT ![k] = NoCall]

\* A probe always replaces the connection; a pre-warm and a synthesis only make
\* one when there is none.
Enter(k) ==
    /\ call[k].at = "entering"
    /\ lifecycle = NoCaller
    /\ \/ /\ call[k].op = "probe" \/ connection = 0
          /\ lifecycle' = k
          /\ At(k, "retire")
       \/ /\ call[k].op = "prewarm" /\ connection # 0
          /\ Return(k)
       \/ /\ call[k].op = "speak" /\ connection # 0
          /\ lifecycle' = k
          /\ call' = [call EXCEPT ![k].at = "dispatch", ![k].conn = connection]
    /\ UNCHANGED <<hostVars, connection, retiring, started, terminated, stop_epoch,
                   stopping, active, next_id, cancel, outcome, countVars>>
-------------------------------------------------------------------------------
(* install_fresh_connection, under the lifecycle and the retirement lock.  *)

\* First what is left to reap, then the published connection; a process whose
\* exit is not confirmed stays owned and ends the attempt.
Retire(k, confirmed) ==
    /\ call[k].at = "retire"
    /\ LET old == IF retiring # 0 THEN retiring ELSE connection IN
        \/ /\ old = 0
           /\ confirmed
           /\ cancel' = [x \in Id |-> [cancel[x] EXCEPT !.retained = FALSE]]
           /\ At(k, "connect")
           /\ Untouched
           /\ UNCHANGED <<inbox, connection, retiring, lifecycle>>
        \/ /\ old # 0
           /\ Terminate(old, confirmed)
           /\ connection' = IF retiring # 0 THEN connection ELSE 0
           /\ retiring' = StillOwned(old, confirmed)
           /\ IF confirmed THEN UNCHANGED <<call, lifecycle>> ELSE Return(k)
           /\ UNCHANGED cancel
    /\ UNCHANGED <<accepted, started, stop_epoch, stopping, active, next_id, outcome,
                   calls, queries>>

ConnectHelper(k) ==
    /\ call[k].at = "connect"
    /\ \/ /\ started < MaxConnections
          /\ started' = started + 1
          /\ alive' = alive \cup {started + 1}
          /\ retiring' = started + 1
          /\ At(k, "negotiate")
          /\ UNCHANGED lifecycle
       \/ /\ Return(k)
          /\ UNCHANGED <<started, alive, retiring>>
    /\ UNCHANGED <<inbox, outbox, host_active, cancelled, worker, accepted, connection,
                   terminated, stop_epoch, stopping, active, next_id, cancel, outcome, countVars>>

\* The greeting and the descriptor are exchanged, and the connection published.
Publish(k) ==
    /\ call[k].at = "negotiate"
    /\ retiring \in alive
    /\ connection' = retiring
    /\ retiring' = 0
    /\ \/ /\ call[k].op = "speak"
          /\ call' = [call EXCEPT ![k].at = "dispatch", ![k].conn = retiring]
          /\ UNCHANGED lifecycle
       \/ /\ call[k].op # "speak"
          /\ Return(k)
    /\ UNCHANGED <<hostVars, started, terminated, stop_epoch, stopping, active, next_id,
                   cancel, outcome, countVars>>

NegotiationFails(k, confirmed) ==
    /\ call[k].at = "negotiate"
    /\ Terminate(retiring, confirmed)
    /\ retiring' = StillOwned(retiring, confirmed)
    /\ Return(k)
    /\ UNCHANGED <<accepted, connection, started, stop_epoch, stopping, active, next_id,
                   cancel, outcome, calls, queries>>
-------------------------------------------------------------------------------
(* Synthesis.                                                              *)

\* Mutant: a stop before the request is sent goes unseen.
NeverOvertaken(k) == FALSE

Overtaken(k) == stop_epoch # call[k].epoch

\* Under the dispatch lock: give up if a stop came since the call began, else
\* send and publish the active request.
Dispatch(k, confirmed) ==
    /\ call[k].at = "dispatch"
    /\ next_id' = next_id + 1
    /\ \/ /\ Overtaken(k) /\ confirmed
          /\ outcome' = [outcome EXCEPT ![next_id] = "undispatched"]
          /\ Return(k)
          /\ Untouched
          /\ UNCHANGED <<inbox, active, connection, retiring>>
       \/ /\ ~Overtaken(k) /\ CanSend(call[k].conn) /\ confirmed
          /\ Write(call[k].conn, Frame("synthesize", next_id))
          /\ active' = next_id
          /\ call' = [call EXCEPT ![k].at = "collect", ![k].id = next_id]
          /\ Untouched
          /\ UNCHANGED <<connection, retiring, lifecycle, outcome>>
       \/ /\ ~Overtaken(k) /\ ~CanSend(call[k].conn)
          /\ outcome' = [outcome EXCEPT ![next_id] = "lost"]
          /\ Invalidate(call[k].conn, confirmed)
          /\ Return(k)
          /\ UNCHANGED active
    /\ UNCHANGED <<accepted, started, stop_epoch, stopping, cancel, calls, queries>>

\* A response is awaited: of a synthesis or of a parameter query.
Waiting(k) == call[k].at \in {"collect", "answer"}

Fails(k, result) ==
    call' = [call EXCEPT ![k].at = "invalidate", ![k].result = result]

Receives(k) ==
    /\ Waiting(k)
    /\ call[k].conn \notin terminated
    /\ outbox[call[k].conn] # <<>>
    /\ outbox' = [outbox EXCEPT ![call[k].conn] = Tail(@)]

Received(k) == Head(outbox[call[k].conn])

\* The connection was closed, or the process is gone and its output read.
ReceiveExited(k) ==
    /\ Waiting(k)
    /\ \/ call[k].conn \in terminated
       \/ call[k].conn \notin alive /\ outbox[call[k].conn] = <<>>
    /\ Fails(k, "lost")
    /\ UNCHANGED <<hostVars, connection, retiring, started, terminated, lifecycle,
                   stop_epoch, stopping, active, next_id, cancel, outcome, countVars>>

ReceiveTimeout(k) ==
    /\ Waiting(k)
    /\ call[k].conn \notin terminated
    /\ Fails(k, "lost")
    /\ UNCHANGED <<hostVars, connection, retiring, started, terminated, lifecycle,
                   stop_epoch, stopping, active, next_id, cancel, outcome, countVars>>

\* A response to another request: a retained cancellation's, or a fault.
ReceiveOther(k) ==
    /\ Receives(k)
    /\ Received(k).id # call[k].id
    /\ \/ /\ AnswersCancel(Received(k))
          /\ ConsumeCancelResponse(Received(k).id)
          /\ UNCHANGED call
       \/ /\ ~AnswersCancel(Received(k))
          /\ Fails(k, "mismatch")
          /\ UNCHANGED cancel
    /\ UNCHANGED <<alive, inbox, host_active, cancelled, worker, accepted, connection,
                   retiring, started, terminated, lifecycle, stop_epoch, stopping, active,
                   next_id, outcome, countVars>>

\* Audio goes to the consumer.  One that has stopped is a fault, unless a stop
\* came since the call began: then the rest is drained.
ReceiveAudio(k) ==
    /\ Receives(k)
    /\ Received(k).id = call[k].id
    /\ Received(k).kind = "audio"
    /\ \/ UNCHANGED call
       \/ /\ stop_epoch = call[k].epoch
          /\ Fails(k, "lost")
       \/ /\ stop_epoch # call[k].epoch
          /\ call' = [call EXCEPT ![k].draining = TRUE]
    /\ UNCHANGED <<alive, inbox, host_active, cancelled, worker, accepted, connection,
                   retiring, started, terminated, lifecycle, stop_epoch, stopping, active,
                   next_id, cancel, outcome, countVars>>

\* A retryable synthesis failure retires the helper, another remote error does not.
ReceiveTerminal(k) ==
    /\ Receives(k)
    /\ Received(k).id = call[k].id
    /\ Received(k).kind \in Terminal \cup {"busy"}
    /\ MarkTargetTerminal(call[k].id)
    /\ call' = [call EXCEPT
        ![k].at = IF Received(k).kind = "failed" THEN "invalidate" ELSE "drop",
        ![k].result = IF Received(k).kind = "completed" /\ call[k].draining
                      THEN "cancelled" ELSE Received(k).kind]
    /\ UNCHANGED <<alive, inbox, host_active, cancelled, worker, accepted, connection,
                   retiring, started, terminated, lifecycle, stop_epoch, stopping, active,
                   next_id, outcome, countVars>>

SynthesisError(k, confirmed) ==
    /\ call[k].at = "invalidate"
    /\ Invalidate(call[k].conn, confirmed)
    /\ \/ /\ call[k].op = "speak"
          /\ At(k, "drop")
          /\ UNCHANGED <<lifecycle, outcome>>
       \/ /\ call[k].op = "query"
          /\ outcome' = [outcome EXCEPT ![call[k].id] = call[k].result]
          /\ Return(k)
    /\ UNCHANGED <<accepted, started, stop_epoch, stopping, active, next_id, cancel, calls, queries>>

\* Drop for ActiveRequestGuard, under the dispatch lock; the call then returns.
DropGuard(k) ==
    /\ call[k].at = "drop"
    /\ MarkTargetTerminal(call[k].id)
    /\ active' = IF active = call[k].id THEN 0 ELSE active
    /\ outcome' = [outcome EXCEPT ![call[k].id] = call[k].result]
    /\ Return(k)
    /\ UNCHANGED <<hostVars, connection, retiring, started, terminated, stop_epoch,
                   stopping, next_id, countVars>>
-------------------------------------------------------------------------------
(* Parameter queries take the lifecycle lock only if it is free and use    *)
(* the published connection only if there is one; otherwise they change    *)
(* nothing.                                                                *)

Query(k) ==
    /\ call[k].at = "idle"
    /\ queries < MaxQueries
    /\ lifecycle = NoCaller
    /\ connection # 0
    /\ queries' = queries + 1
    /\ lifecycle' = k
    /\ next_id' = next_id + 1
    /\ LET asked == [NoCall EXCEPT !.op = "query", !.conn = connection, !.id = next_id] IN
        \/ /\ CanSend(connection)
           /\ Write(connection, Frame("query", next_id))
           /\ call' = [call EXCEPT ![k] = [asked EXCEPT !.at = "answer"]]
        \/ /\ ~CanSend(connection)
           /\ call' = [call EXCEPT ![k] = [asked EXCEPT !.at = "invalidate", !.result = "lost"]]
           /\ UNCHANGED inbox
    /\ UNCHANGED <<alive, outbox, host_active, cancelled, worker, accepted, connection,
                   retiring, started, terminated, stop_epoch, stopping, active, cancel,
                   outcome, calls, faults>>

ReceiveAnswer(k) ==
    /\ Receives(k)
    /\ Received(k).id = call[k].id
    /\ Received(k).kind = "answer"
    /\ outcome' = [outcome EXCEPT ![call[k].id] = "answered"]
    /\ Return(k)
    /\ UNCHANGED <<alive, inbox, host_active, cancelled, worker, accepted, connection,
                   retiring, started, terminated, stop_epoch, stopping, active, next_id,
                   cancel, countVars>>
-------------------------------------------------------------------------------
(* stop() and the watchdogs.                                               *)

StopBegins ==
    /\ stop_epoch < MaxStops
    /\ stop_epoch' = stop_epoch + 1
    /\ stopping' = stopping + 1
    /\ UNCHANGED <<hostVars, connection, retiring, started, terminated, lifecycle, active,
                   next_id, call, cancel, outcome, countVars>>

\* Under the dispatch lock: one cancellation for each target.
StopDispatches(confirmed) ==
    /\ stopping > 0
    /\ stopping' = stopping - 1
    /\ \/ /\ active = 0 \/ connection = 0 \/ EntryOf(active) # {}
          /\ confirmed
          /\ Untouched
          /\ UNCHANGED <<inbox, connection, retiring, next_id, cancel>>
       \/ /\ active # 0 /\ connection # 0 /\ EntryOf(active) = {}
          /\ next_id' = next_id + 1
          /\ \/ /\ CanSend(connection) /\ confirmed
                /\ Write(connection, [kind |-> "cancel", id |-> next_id, target |-> active])
                /\ cancel' = [cancel EXCEPT ![next_id] =
                     [target |-> active, conn |-> connection, state |-> "active",
                      consumed |-> FALSE, retained |-> TRUE, watchdog |-> "sleeping"]]
                /\ Untouched
                /\ UNCHANGED <<connection, retiring>>
             \/ /\ ~CanSend(connection)
                /\ Invalidate(connection, confirmed)
                /\ UNCHANGED cancel
    /\ UNCHANGED <<accepted, started, lifecycle, stop_epoch, active, call, outcome, calls, queries>>

\* Mutant: the watchdog trusts the acknowledgement of the cancel.
WatchdogTrusting(x) ==
    /\ cancel[x].watchdog = "sleeping"
    /\ cancel' = IF cancel[x].state = "active" /\ ~cancel[x].consumed
                 THEN [cancel EXCEPT ![x].state = "retiring", ![x].watchdog = "killing"]
                 ELSE [cancel EXCEPT ![x].watchdog = "done"]
    /\ UNCHANGED <<hostVars, connection, retiring, started, terminated, lifecycle, stop_epoch,
                   stopping, active, next_id, call, outcome, countVars>>

\* The grace is over: begin_retirement unless the target has finished.
Watchdog(x) ==
    /\ cancel[x].watchdog = "sleeping"
    /\ cancel' = IF cancel[x].state = "active"
                 THEN [cancel EXCEPT ![x].state = "retiring", ![x].watchdog = "killing"]
                 ELSE [cancel EXCEPT ![x].watchdog = "done"]
    /\ UNCHANGED <<hostVars, connection, retiring, started, terminated, lifecycle, stop_epoch,
                   stopping, active, next_id, call, outcome, countVars>>

WatchdogKills(x, confirmed) ==
    /\ cancel[x].watchdog = "killing"
    /\ Terminate(cancel[x].conn, confirmed)
    /\ cancel' = [cancel EXCEPT ![x].watchdog = "done"]
    /\ UNCHANGED <<accepted, connection, retiring, started, lifecycle, stop_epoch, stopping,
                   active, next_id, call, outcome, calls, queries>>
-------------------------------------------------------------------------------
HostNext == \E c \in Conn : HostStep(c) /\ UNCHANGED <<engineVars, countVars>>

CallStep(k) ==
    \/ Enter(k)
    \/ ConnectHelper(k)
    \/ Publish(k)
    \/ ReceiveExited(k) \/ ReceiveTimeout(k)
    \/ ReceiveOther(k) \/ ReceiveAudio(k) \/ ReceiveTerminal(k) \/ ReceiveAnswer(k)
    \/ DropGuard(k)
    \/ \E confirmed \in BOOLEAN :
        \/ Retire(k, confirmed)
        \/ NegotiationFails(k, confirmed)
        \/ Dispatch(k, confirmed)
        \/ SynthesisError(k, confirmed)

StopStep == \E confirmed \in BOOLEAN : StopDispatches(confirmed)

WatchdogStep(x) ==
    \/ Watchdog(x)
    \/ \E confirmed \in BOOLEAN : WatchdogKills(x, confirmed)

Next ==
    \/ HostNext
    \/ \E k \in Caller : CallStep(k) \/ Query(k) \/ \E op \in Operation : Begin(k, op)
    \/ StopBegins
    \/ StopStep
    \/ \E x \in Id : WatchdogStep(x)
    \/ \E c \in Conn : HelperCrashes(c)

Spec == Init /\ [][Next]_vars

\* The threads of the parent run; nothing is assumed of the helper, and no
\* response is assumed to time out.
Proceeds(k) ==
    \/ ReceiveExited(k)
    \/ ReceiveOther(k) \/ ReceiveAudio(k) \/ ReceiveTerminal(k) \/ ReceiveAnswer(k)
    \/ DropGuard(k)
    \/ \E confirmed \in BOOLEAN : SynthesisError(k, confirmed)

FairSpec ==
    /\ Spec
    /\ \A k \in Caller : WF_vars(Proceeds(k))
    /\ WF_vars(StopStep)
    /\ \A x \in Id : WF_vars(WatchdogStep(x))
-------------------------------------------------------------------------------
TypeOK ==
    /\ HostTypeOK
    /\ {connection, retiring, started} \subseteq Conn \cup {0}
    /\ terminated \subseteq Conn
    /\ lifecycle \in Caller \cup {NoCaller}
    /\ stop_epoch \in 0..MaxStops /\ stopping \in 0..MaxStops
    /\ next_id \in 1..(MaxCalls + MaxQueries + MaxStops + 1)
    /\ active \in Id \cup {0}
    /\ \A k \in Caller : call[k].conn \in Conn \cup {0} /\ call[k].id \in Id \cup {0}
    /\ \A x \in Id : cancel[x].target \in Id \cup {0}

\* A replacement helper is started only once the exit of the one before is
\* confirmed, and a process whose cleanup failed stays owned, whichever of
\* caller, stop and watchdog terminated it (install_fresh_connection_with,
\* invalidate_connection).
OneHelperAlive ==
    /\ alive \subseteq {connection, retiring}
    /\ connection = 0 \/ retiring = 0

\* A request never reads the answer of another as a fault, nor finds the helper
\* busy: late answers to a cancel are recognised by the entry kept for them.  The
\* exception is a connection that a watchdog has begun to retire.
RequestsDoNotCollide ==
    \A k \in Caller :
        /\ call[k].result # "busy"
        /\ call[k].result = "mismatch" =>
             \E x \in Id : cancel[x].conn = call[k].conn /\ cancel[x].state = "retiring"

\* A synthesis whose cancellation the helper has acknowledged does not complete
\* (handle_cancel and finish_synthesis under one lock).
AcceptedCancelHolds ==
    \A r \in accepted :
        /\ outcome[r] # "completed"
        /\ \A k \in Caller : call[k].id = r => call[k].result # "completed"

\* No stop falls between the epoch a call samples and the request it sends: a
\* request that was overtaken by a stop is cancelled, about to be, or closed.
StopReachesRequest ==
    \A k \in Caller : call[k].at = "collect" /\ call[k].epoch # stop_epoch =>
        \/ stopping > 0
        \/ \E x \in Id : cancel[x].target = call[k].id
        \/ call[k].conn \in terminated

\* A cancelled request ends although the helper may have stopped answering and
\* its termination may not be confirmed (one request is active at a time).
CancelPending == \E x \in Id : cancel[x].target # 0 /\ outcome[cancel[x].target] = "none"
CancelledRequestEnds == CancelPending ~> ~CancelPending

\* The client's safety towards its helpers and its callers (helper_engine.rs): no
\* second helper process beside one that is not known to be gone, no answer read
\* by another request than its own, no request both cancelled and completed, and
\* no stop that misses the request it was made for.
HelperSound ==
    OneHelperAlive /\ RequestsDoNotCollide /\ AcceptedCancelHolds /\ StopReachesRequest
===============================================================================
