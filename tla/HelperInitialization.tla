------------------------ MODULE HelperInitialization ------------------------
(***************************************************************************)
(* Starting helper processes within a budget                               *)
(* (omnivox-tts/src/helper_engine/initialization.rs).  A pool of admission *)
(* threads takes the configured engines from a queue at start-up; a rescan *)
(* may ask for one engine again later.  A caller hands the launch to a     *)
(* worker thread of its own, which keeps a process-wide slot and the       *)
(* engine's lifecycle lock, and waits for it no longer than its deadline.  *)
(* The worker offers what it negotiated and waits for the decision; only   *)
(* the caller publishes, and a caller that gives up makes the worker       *)
(* terminate the helper.  Meanwhile a synthesis may connect the engine.    *)
(*                                                                         *)
(* A call is named for its job of the batch, or for the rescan that makes  *)
(* it; the worker it starts and the helper launched share that name.       *)
(* Deadlines pass at any moment.                                           *)
(***************************************************************************)
EXTENDS Naturals, Sequences, FiniteSets

CONSTANTS
    Engine,                    \* engines with a helper
    Rescan,                    \* callers that re-initialize an engine later
    Jobs,                      \* the start-up batch, requested engine first
    JobEngine,                 \* JobEngine[c]: the engine of a job of the batch
    EXTERNAL_INITIALIZATIONS,  \* process-wide slots, and threads of the batch
    NoEngine, NoOne, Synthesis,
    MaxCleanupFailures         \* bound: terminations that are not confirmed

Batch == {Jobs[i] : i \in DOMAIN Jobs}
Caller == Batch \cup Rescan

ASSUME InitializationAssumption ==
    /\ JobEngine \in [Batch -> Engine] /\ NoEngine \notin Engine
    /\ Jobs \in Seq(Batch) /\ IsFiniteSet(Rescan) /\ Batch \cap Rescan = {}
    /\ \A i, j \in DOMAIN Jobs : Jobs[i] = Jobs[j] => i = j
    /\ {NoOne, Synthesis} \cap Caller = {} /\ NoOne # Synthesis
    /\ EXTERNAL_INITIALIZATIONS \in Nat \ {0} /\ MaxCleanupFailures \in Nat

VARIABLES
    queue,        \* jobs of the batch not taken yet
    caller,       \* caller[c]: program counter and engine
    expired,      \* callers whose deadline has passed
    attempt,      \* attempt[c]: the worker thread's program counter
    pending,      \* pending[e]: the worker whose handle the engine keeps
    initLock,     \* initLock[e]: who holds the initialization lock
    lifecycle,    \* lifecycle[e]: who holds the lifecycle lock
    active,       \* slots in use
    offer,        \* offer[c]: what is in the result channel
    decision,     \* decision[c]: what the worker will hear
    published,    \* published[e]: the launcher of the engine's connection
    retiring,     \* retiring[e]: the launcher of a helper still to be reaped
    running,      \* helper processes that run, by launcher and engine
    unconfirmed   \* terminations that failed so far

initVars == <<queue, caller, expired, attempt, pending, initLock, lifecycle, active,
              offer, decision, published, retiring, running, unconfirmed>>

InitializationInit ==
    /\ queue = Jobs
    /\ caller = [c \in Caller |-> [pc |-> "idle", e |-> NoEngine, result |-> "none"]]
    /\ expired = {}
    /\ attempt = [c \in Caller |-> "none"]
    /\ pending = [e \in Engine |-> NoOne]
    /\ initLock = [e \in Engine |-> NoOne]
    /\ lifecycle = [e \in Engine |-> NoOne]
    /\ active = 0
    /\ offer = [c \in Caller |-> "none"]
    /\ decision = [c \in Caller |-> "none"]
    /\ published = [e \in Engine |-> NoOne]
    /\ retiring = [e \in Engine |-> NoOne]
    /\ running = {}
    /\ unconfirmed = 0

-----------------------------------------------------------------------------
(* The admission thread *)

CallerTo(c, pc) == caller' = [caller EXCEPT ![c].pc = pc]

\* Mutant: the decision sender outlives the call.
CallerKeepsDecision(c, result) ==
    /\ caller' = [caller EXCEPT ![c].pc = "returned", ![c].result = result]
    /\ initLock' = [initLock EXCEPT ![caller[c].e] =
                       IF @ = c THEN NoOne ELSE @]
    /\ offer' = [offer EXCEPT ![c] = "gone"]
    /\ UNCHANGED decision

\* The call returns: the initialization lock and the result receiver are
\* dropped, and with an unread or rejected offer its decision sender.
CallerReturns(c, result) ==
    /\ caller' = [caller EXCEPT ![c].pc = "returned", ![c].result = result]
    /\ initLock' = [initLock EXCEPT ![caller[c].e] =
                       IF @ = c THEN NoOne ELSE @]
    /\ offer' = [offer EXCEPT ![c] = "gone"]
    /\ decision' = [decision EXCEPT ![c] = IF @ = "none" THEN "dropped" ELSE @]

\* run_initializations: a free thread of the batch pops the next job before the
\* deadline.
TakeJob(c) ==
    /\ queue # <<>> /\ c = Head(queue) /\ c \notin expired
    /\ Cardinality({b \in Batch : caller[b].pc \notin {"idle", "returned"}})
           < EXTERNAL_INITIALIZATIONS
    /\ queue' = Tail(queue)
    /\ caller' = [caller EXCEPT ![c].pc = "lock", ![c].e = JobEngine[c]]
    /\ UNCHANGED <<expired, attempt, pending, initLock, lifecycle, active, offer,
                   decision, published, retiring, running, unconfirmed>>

\* The deadline passed first: "external startup budget exhausted before admission".
NeverAdmitted(c) ==
    /\ queue # <<>> /\ c = Head(queue) /\ c \in expired
    /\ queue' = Tail(queue)
    /\ caller' = [caller EXCEPT ![c].pc = "returned", ![c].result = "timeout"]
    /\ UNCHANGED <<expired, attempt, pending, initLock, lifecycle, active, offer,
                   decision, published, retiring, running, unconfirmed>>

AskAgain(c, e) ==
    /\ c \in Rescan /\ caller[c].pc = "idle"
    /\ caller' = [caller EXCEPT ![c] = [pc |-> "lock", e |-> e, result |-> "none"]]
    /\ UNCHANGED <<queue, expired, attempt, pending, initLock, lifecycle, active,
                   offer, decision, published, retiring, running, unconfirmed>>

\* initialize_with_slots: the engine's initialization lock.
LockInitialization(c) ==
    /\ caller[c].pc = "lock"
    /\ LET e == caller[c].e IN
       \/ /\ c \in expired
          /\ CallerReturns(c, "timeout")
       \/ /\ c \notin expired /\ initLock[e] = NoOne
          /\ initLock' = [initLock EXCEPT ![e] = c]
          /\ CallerTo(c, "join")
          /\ UNCHANGED <<offer, decision>>
    /\ UNCHANGED <<queue, expired, attempt, pending, lifecycle, active, published,
                   retiring, running, unconfirmed>>

\* join_initialization_before, then an engine already connected is left alone.
JoinPrevious(c) ==
    /\ caller[c].pc = "join"
    /\ LET e == caller[c].e
           finished == pending[e] # NoOne => attempt[pending[e]] = "finished" IN
       \/ /\ ~finished /\ c \in expired
          /\ CallerReturns(c, "timeout")
          /\ UNCHANGED pending
       \/ /\ finished
          /\ pending' = [pending EXCEPT ![e] = NoOne]
          /\ IF c \in expired THEN CallerReturns(c, "timeout")
             ELSE IF published[e] # NoOne THEN CallerReturns(c, "connected")
             ELSE CallerTo(c, "slot") /\ UNCHANGED <<initLock, offer, decision>>
    /\ UNCHANGED <<queue, expired, attempt, lifecycle, active, published, retiring,
                   running, unconfirmed>>

\* Mutant: the slot is not waited for.
AcquireSlotAnyway(c) ==
    /\ caller[c].pc = "slot" /\ c \notin expired
    /\ active' = active + 1
    /\ attempt' = [attempt EXCEPT ![c] = "lifecycle"]
    /\ pending' = [pending EXCEPT ![caller[c].e] = c]
    /\ CallerTo(c, "wait")
    /\ UNCHANGED <<initLock, offer, decision, queue, expired, lifecycle, published,
                   retiring, running, unconfirmed>>

\* InitializationSlots::acquire, then the worker is started with the slot.
AcquireSlot(c) ==
    /\ caller[c].pc = "slot"
    /\ \/ /\ c \in expired
          /\ CallerReturns(c, "timeout")
          /\ UNCHANGED <<active, attempt, pending>>
       \/ /\ c \notin expired /\ active < EXTERNAL_INITIALIZATIONS
          /\ active' = active + 1
          /\ attempt' = [attempt EXCEPT ![c] = "lifecycle"]
          /\ pending' = [pending EXCEPT ![caller[c].e] = c]
          /\ CallerTo(c, "wait")
          /\ UNCHANGED <<initLock, offer, decision>>
    /\ UNCHANGED <<queue, expired, lifecycle, published, retiring, running,
                   unconfirmed>>

\* recv_timeout, and check_budget for a response that came too late.
ReceiveOffer(c) ==
    /\ caller[c].pc = "wait"
    /\ \/ /\ c \in expired
          /\ CallerReturns(c, "timeout")
       \/ /\ c \notin expired /\ offer[c] = "prepared"
          /\ CallerTo(c, "publish")
          /\ UNCHANGED <<offer, initLock, decision>>
       \/ /\ c \notin expired /\ offer[c] \in {"connected", "error"}
          /\ CallerReturns(c, offer[c])
    /\ UNCHANGED <<queue, expired, attempt, pending, lifecycle, active, published,
                   retiring, running, unconfirmed>>

\* publish_connection: both locks, the clock once more, then one commit.
PublishConnection(c) ==
    /\ caller[c].pc = "publish"
    /\ LET e == caller[c].e IN
       IF c \in expired
       THEN CallerReturns(c, "timeout") /\ UNCHANGED published
       ELSE /\ caller' = [caller EXCEPT ![c].pc = "returned", ![c].result = "started"]
            /\ published' = [published EXCEPT ![e] = c]
            /\ decision' = [decision EXCEPT ![c] = "accepted"]
            /\ initLock' = [initLock EXCEPT ![e] = NoOne]
            /\ offer' = [offer EXCEPT ![c] = "gone"]
    /\ UNCHANGED <<queue, expired, attempt, pending, lifecycle, active, retiring,
                   running, unconfirmed>>

\* The batch has one deadline; a rescan has its own.
DeadlinePasses(c) ==
    /\ c \notin expired
    /\ expired' = expired \cup (IF c \in Batch THEN Batch ELSE {c})
    /\ UNCHANGED <<queue, caller, attempt, pending, initLock, lifecycle, active, offer,
                   decision, published, retiring, running, unconfirmed>>

-----------------------------------------------------------------------------
(* The worker: InitializationTask::run and install_fresh_connection_with *)

\* The worker ends: its result, the lifecycle lock and the slot.
WorkerEnds(c, answer) ==
    /\ attempt' = [attempt EXCEPT ![c] = "finished"]
    /\ offer' = [offer EXCEPT ![c] = IF @ = "none" THEN answer ELSE @]
    /\ lifecycle' = [lifecycle EXCEPT ![caller[c].e] = IF @ = c THEN NoOne ELSE @]
    /\ active' = active - 1

\* The lifecycle lock, waited for until the deadline; then the connection may
\* have been made by someone else.
EnterLifecycle(c) ==
    /\ attempt[c] = "lifecycle"
    /\ LET e == caller[c].e IN
       \/ /\ c \in expired /\ WorkerEnds(c, "error")
       \/ /\ c \notin expired /\ lifecycle[e] = NoOne
          /\ IF published[e] # NoOne THEN WorkerEnds(c, "connected")
             ELSE /\ lifecycle' = [lifecycle EXCEPT ![e] = c]
                  /\ attempt' = [attempt EXCEPT ![c] = "reap"]
                  /\ UNCHANGED <<offer, active>>
    /\ UNCHANGED <<queue, caller, expired, pending, initLock, decision, published,
                   retiring, running, unconfirmed>>

\* terminate(): confirmed, or the helper stays in retiring for a later attempt.
TerminateConfirmed(e) ==
    /\ running' = running \ {<<retiring[e], e>>}
    /\ retiring' = [retiring EXCEPT ![e] = NoOne]
    /\ UNCHANGED unconfirmed

TerminateUnconfirmed ==
    /\ unconfirmed < MaxCleanupFailures
    /\ unconfirmed' = unconfirmed + 1
    /\ UNCHANGED <<running, retiring>>

\* First whatever is still to be reaped; then the launch, within the budget.
ReapAndConnect(c) ==
    /\ attempt[c] = "reap"
    /\ LET e == caller[c].e IN
       \/ /\ retiring[e] # NoOne /\ TerminateUnconfirmed
          /\ WorkerEnds(c, "error")
       \/ /\ retiring[e] # NoOne /\ TerminateConfirmed(e)
          /\ UNCHANGED <<attempt, offer, lifecycle, active>>
       \/ /\ retiring[e] = NoOne
          /\ \/ WorkerEnds(c, "error") /\ UNCHANGED <<retiring, running>>
             \/ /\ c \notin expired
                /\ retiring' = [retiring EXCEPT ![e] = c]
                /\ running' = running \cup {<<c, e>>}
                /\ attempt' = [attempt EXCEPT ![c] = "negotiate"]
                /\ UNCHANGED <<offer, lifecycle, active>>
          /\ UNCHANGED unconfirmed
    /\ UNCHANGED <<queue, caller, expired, pending, initLock, decision, published>>

\* The greeting succeeds and is offered, or the helper is terminated.
Negotiate(c) ==
    /\ attempt[c] = "negotiate"
    /\ \/ /\ c \notin expired /\ offer[c] = "none"
          /\ offer' = [offer EXCEPT ![c] = "prepared"]
          /\ attempt' = [attempt EXCEPT ![c] = "decision"]
       \/ /\ attempt' = [attempt EXCEPT ![c] = "terminate"]
          /\ UNCHANGED offer
    /\ UNCHANGED <<queue, caller, expired, pending, initLock, lifecycle, active,
                   decision, published, retiring, running, unconfirmed>>

\* Mutant: a caller that has gone counts as one that accepted.
AwaitDecisionUnread(c) ==
    /\ attempt[c] = "decision" /\ decision[c] # "none"
    /\ retiring' = [retiring EXCEPT ![caller[c].e] = NoOne]
    /\ WorkerEnds(c, "none")
    /\ UNCHANGED <<queue, caller, expired, pending, initLock, decision, published,
                   running, unconfirmed>>

\* Accepted: the helper is the engine's connection and no longer to be reaped.
AwaitDecision(c) ==
    /\ attempt[c] = "decision"
    /\ \/ /\ decision[c] = "accepted"
          /\ retiring' = [retiring EXCEPT ![caller[c].e] = NoOne]
          /\ WorkerEnds(c, "none")
       \/ /\ decision[c] = "dropped"
          /\ attempt' = [attempt EXCEPT ![c] = "terminate"]
          /\ UNCHANGED <<retiring, offer, lifecycle, active>>
    /\ UNCHANGED <<queue, caller, expired, pending, initLock, decision, published,
                   running, unconfirmed>>

TerminateOwn(c) ==
    /\ attempt[c] = "terminate"
    /\ TerminateConfirmed(caller[c].e) \/ TerminateUnconfirmed
    /\ WorkerEnds(c, "error")
    /\ UNCHANGED <<queue, caller, expired, pending, initLock, decision, published>>

-----------------------------------------------------------------------------
(* A synthesis on the engine connects it by itself, under the lifecycle lock; *)
(* a broken connection is moved to retiring.                                  *)

SynthesisConnects(e) ==
    /\ lifecycle[e] = NoOne /\ published[e] = NoOne /\ retiring[e] = NoOne
    /\ published' = [published EXCEPT ![e] = Synthesis]
    /\ running' = running \cup {<<Synthesis, e>>}
    /\ UNCHANGED <<queue, caller, expired, attempt, pending, initLock, lifecycle, active,
                   offer, decision, retiring, unconfirmed>>

-----------------------------------------------------------------------------
CallerStep(c) ==
    TakeJob(c) \/ NeverAdmitted(c) \/ LockInitialization(c) \/ JoinPrevious(c)
    \/ AcquireSlot(c) \/ ReceiveOffer(c) \/ PublishConnection(c)

AttemptStep(c) ==
    EnterLifecycle(c) \/ ReapAndConnect(c) \/ Negotiate(c) \/ AwaitDecision(c)
    \/ TerminateOwn(c)

InitializationIdle ==
    /\ \A c \in Caller : caller[c].pc \in {"idle", "returned"}
    /\ UNCHANGED initVars

InitializationNext ==
    \/ \E c \in Caller : CallerStep(c) \/ AttemptStep(c) \/ DeadlinePasses(c)
    \/ \E c \in Rescan, e \in Engine : AskAgain(c, e)
    \/ \E e \in Engine : SynthesisConnects(e)
    \/ InitializationIdle

\* Threads run and time passes.
InitializationFairness ==
    \A c \in Caller : /\ WF_initVars(CallerStep(c))
                      /\ WF_initVars(AttemptStep(c))
                      /\ WF_initVars(DeadlinePasses(c))

InitializationSpec ==
    InitializationInit /\ [][InitializationNext]_initVars /\ InitializationFairness

-----------------------------------------------------------------------------
\* A helper is in use or still owned by whoever must reap it, never both running
\* and forgotten; and the result of a call tells the truth: a helper whose caller
\* timed out is not the engine's connection.
NoLatePublication ==
    /\ \A c \in Caller, e \in Engine :
          /\ <<c, e>> \in running => published[e] = c \/ retiring[e] = c
          /\ published[e] = c => caller[c].result = "started"
    /\ \A e \in Engine : published[e] \in Caller => <<published[e], e>> \in running

\* Helpers that start or stop at the same time never exceed the slots, also those
\* whose callers have gone.
SlotsCoverAttempts ==
    /\ active = Cardinality({c \in Caller : attempt[c] \notin {"none", "finished"}})
    /\ active <= EXTERNAL_INITIALIZATIONS
    /\ \A e \in Engine : Cardinality({r \in running : r[2] = e}) <= 1

\* Every call returns, and an attempt whose caller has gone ends and gives its
\* slot back.
InitializationClaims == Caller \X {"call", "attempt"}
InitializationOwed(k) ==
    IF k[2] = "call" THEN caller[k[1]].pc = "lock" ELSE attempt[k[1]] = "lifecycle"
InitializationMet(k) ==
    IF k[2] = "call" THEN caller[k[1]].pc = "returned" ELSE attempt[k[1]] = "finished"
=============================================================================
