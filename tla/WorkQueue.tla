----------------------------- MODULE WorkQueue -----------------------------
(***************************************************************************)
(* The bounded handoff from the protocol loop to the synthesis worker      *)
(* (omnivox-cli/src/work_queue.rs).  Admission never blocks: a newer       *)
(* request replaces the queued members of its own replacement domain, then *)
(* evicts other replaceable requests in FIFO order while the limits are    *)
(* exceeded, and is refused, with the queue undisturbed, when even that is *)
(* not enough.  Every method runs under the queue's mutex, so it is one    *)
(* atomic action here; the condition variable is the state "parked" of the *)
(* receiver.                                                               *)
(*                                                                         *)
(* The VecDeque is the set `queue' ordered by the admission numbers in     *)
(* `order'.  A request is a member of Work; its payload size and its       *)
(* replacement domain never change, its interrupt generation is stamped    *)
(* when it is sent.                                                        *)
(***************************************************************************)
EXTENDS Integers, FiniteSets

CONSTANTS
    Work,             \* the requests the producer may ever send
    Bytes,            \* Bytes[w]: queued_payload_bytes of w
    Domain,           \* Domain[w]: replacement domain of w, or NoDomain
    NoDomain,         \* not replaceable: ordered or urgent work
    MaxItems,         \* WorkQueueLimits.max_items
    MaxPayloadBytes,  \* WorkQueueLimits.max_payload_bytes
    MaxGeneration     \* bound: how many interrupts the producer makes

\* The queue holds finitely many requests, each with a byte size.
ASSUME WorkAssumption ==
    /\ IsFiniteSet(Work)
    /\ Bytes \in [Work -> Nat]
    /\ MaxGeneration \in Nat

\* The two assertions of bounded_work_queue.
ASSUME LimitsAssumption ==
    /\ MaxItems \in Nat \ {0}
    /\ MaxPayloadBytes \in Nat \ {0}

VARIABLES
    queue,            \* QueueState.entries, as a set
    order,            \* order[w]: admission number of w, 0 before admission
    admissions,       \* how many requests were admitted so far
    generation,       \* the producer's interrupt generation
    gen,              \* gen[w]: generation stamped on w
    payload_bytes,    \* QueueState.payload_bytes
    sender_closed,    \* QueueState.sender_closed
    receiver,         \* the receiver: between calls, parked in wait, or gone
    fate              \* fate[w]: what became of w (the EnqueueOutcome or recv)

vars == <<queue, order, admissions, generation, gen, payload_bytes,
          sender_closed, receiver, fate>>

RetirementReason ==
    {"Replaced", "EvictedForCapacity", "StaleGeneration", "Saturated",
     "ReceiverClosed"}

Init ==
    /\ queue = {}
    /\ order = [w \in Work |-> 0]
    /\ admissions = 0
    /\ generation = 0
    /\ gen = [w \in Work |-> 0]
    /\ payload_bytes = 0
    /\ sender_closed = FALSE
    /\ receiver = "ready"
    /\ fate = [w \in Work |-> "unsent"]

-----------------------------------------------------------------------------
(* Sizes.  The payload of a set of requests counts the bytes they are made *)
(* of, so that it is additive without a recursive sum.                     *)

ByteUnits(S) == UNION {{w} \X (1 .. Bytes[w]) : w \in S}

PayloadOf(S) == Cardinality(ByteUnits(S))

SatSub(a, b) == IF a >= b THEN a - b ELSE 0

ExceedsLimits(items, bytes) ==
    items > MaxItems \/ bytes > MaxPayloadBytes

IsReplaceable(w) == Domain[w] # NoDomain

SharesReplacementDomain(w, v) == IsReplaceable(w) /\ Domain[w] = Domain[v]

-----------------------------------------------------------------------------
(* try_send_with_commit: what admitting w would retire.                     *)

ProjectedItems(w, R) == (Cardinality(queue) + 1) - Cardinality(R)

\* Mutant: the incoming payload is forgotten and the subtraction may go below 0.
ProjectedBytesWithoutOwn(w, R) == payload_bytes - PayloadOf(R)

ProjectedBytes(w, R) == SatSub(payload_bytes + Bytes[w], PayloadOf(R))

StillExceeds(w, R) == ExceedsLimits(ProjectedItems(w, R), ProjectedBytes(w, R))

Replaced(w) == {v \in queue : SharesReplacementDomain(w, v)}

Candidates(w) == {v \in queue \ Replaced(w) : IsReplaceable(v)}

Older(w, v) == {u \in Candidates(w) : order[u] < order[v]}

\* Mutant: capacity pressure evicts every candidate at once.
EvictedAll(w) == {v \in Candidates(w) : StillExceeds(w, Replaced(w))}

\* A candidate goes when the limits are still exceeded without all older ones.
Evicted(w) ==
    {v \in Candidates(w) : StillExceeds(w, Replaced(w) \cup Older(w, v))}

Retire(w) == Replaced(w) \cup Evicted(w)

Saturates(w) ==
    Bytes[w] > MaxPayloadBytes \/ StillExceeds(w, Retire(w))

-----------------------------------------------------------------------------
\* Mutant: admission does not signal the condition variable.
NotifyNobody == UNCHANGED receiver

NotifyReceiver == receiver' = IF receiver = "parked" THEN "ready" ELSE receiver

\* rejected(): the request comes straight back and nothing else changes.
Reject(w, reason) ==
    /\ fate' = [fate EXCEPT ![w] = reason]
    /\ UNCHANGED <<queue, order, admissions, payload_bytes, sender_closed,
                   receiver>>

Admit(w) ==
    /\ queue' = (queue \ Retire(w)) \cup {w}
    /\ order' = [order EXCEPT ![w] = admissions + 1]
    /\ admissions' = admissions + 1
    /\ payload_bytes' = ProjectedBytes(w, Retire(w))
    /\ fate' = [v \in Work |->
                   IF v = w THEN "queued"
                   ELSE IF v \in Replaced(w) THEN "Replaced"
                   ELSE IF v \in Evicted(w) THEN "EvictedForCapacity"
                   ELSE fate[v]]
    /\ NotifyReceiver
    /\ UNCHANGED sender_closed

\* The producer owns its sender, so it sends only before dropping it; it
\* stamps the request with its interrupt generation.
TrySend(w) ==
    /\ fate[w] = "unsent"
    /\ ~sender_closed
    /\ gen' = [gen EXCEPT ![w] = generation]
    /\ UNCHANGED generation
    /\ IF receiver = "gone" THEN Reject(w, "ReceiverClosed")
       ELSE IF Saturates(w) THEN Reject(w, "Saturated")
       ELSE Admit(w)

\* The producer's interrupt() advances the generation it stamps.
AdvanceGeneration ==
    /\ ~sender_closed
    /\ generation' = generation + 1
    /\ UNCHANGED <<queue, order, admissions, gen, payload_bytes, sender_closed,
                   receiver, fate>>

StaleBefore(minimum) == {v \in queue : gen[v] < minimum}

\* Mutants: retiring forgets the byte counter, or forgets to return the work.
RetireKeepsBytes(minimum) ==
    /\ ~sender_closed
    /\ queue' = queue \ StaleBefore(minimum)
    /\ fate' = [v \in Work |->
                   IF v \in StaleBefore(minimum) THEN "StaleGeneration"
                   ELSE fate[v]]
    /\ UNCHANGED <<order, admissions, generation, gen, sender_closed, receiver,
                   payload_bytes>>

RetireSilently(minimum) ==
    /\ ~sender_closed
    /\ queue' = queue \ StaleBefore(minimum)
    /\ payload_bytes' = PayloadOf(queue \ StaleBefore(minimum))
    /\ UNCHANGED <<order, admissions, generation, gen, sender_closed, receiver,
                   fate>>

RetireBeforeGeneration(minimum) ==
    /\ ~sender_closed
    /\ queue' = queue \ StaleBefore(minimum)
    /\ payload_bytes' = PayloadOf(queue \ StaleBefore(minimum))
    /\ fate' = [v \in Work |->
                   IF v \in StaleBefore(minimum) THEN "StaleGeneration"
                   ELSE fate[v]]
    /\ UNCHANGED <<order, admissions, generation, gen, sender_closed, receiver>>

DropSender ==
    /\ ~sender_closed
    /\ sender_closed' = TRUE
    /\ NotifyReceiver
    /\ UNCHANGED <<queue, order, admissions, generation, gen, payload_bytes, fate>>

\* Mutant: the newest entry is taken first.
IsBack(w) == w \in queue /\ \A v \in queue : order[w] >= order[v]

IsFront(w) == w \in queue /\ \A v \in queue : order[w] <= order[v]

\* recv returns Some(w).
Recv(w) ==
    /\ receiver = "ready"
    /\ IsFront(w)
    /\ queue' = queue \ {w}
    /\ payload_bytes' = SatSub(payload_bytes, Bytes[w])
    /\ fate' = [fate EXCEPT ![w] = "delivered"]
    /\ UNCHANGED <<order, admissions, generation, gen, sender_closed, receiver>>

\* recv waits on the condition variable, releasing the mutex.
RecvWait ==
    /\ receiver = "ready"
    /\ queue = {}
    /\ ~sender_closed
    /\ receiver' = "parked"
    /\ UNCHANGED <<queue, order, admissions, generation, gen, payload_bytes,
                   sender_closed, fate>>

\* recv returns None and the worker, leaving its loop, drops the receiver.
RecvNone ==
    /\ receiver = "ready"
    /\ queue = {}
    /\ sender_closed
    /\ receiver' = "gone"
    /\ UNCHANGED <<queue, order, admissions, generation, gen, payload_bytes,
                   sender_closed, fate>>

\* The worker unwinds between two calls of recv: Drop for WorkQueueReceiver.
DropReceiver ==
    /\ receiver = "ready"
    /\ receiver' = "gone"
    /\ UNCHANGED <<queue, order, admissions, generation, gen, payload_bytes,
                   sender_closed, fate>>

\* Both ends are gone: the server has shut down.
Closed == sender_closed /\ receiver = "gone" /\ UNCHANGED vars

Send == \E w \in Work : TrySend(w)

Interrupt ==
    \/ generation < MaxGeneration /\ AdvanceGeneration
    \/ RetireBeforeGeneration(generation)

Receive == (\E w \in Work : Recv(w)) \/ RecvWait \/ RecvNone

Next == Send \/ Interrupt \/ DropSender \/ Receive \/ DropReceiver \/ Closed

Spec == Init /\ [][Next]_vars

\* The worker calls recv again and again; nothing makes the producer send.
FairSpec == Spec /\ WF_vars(Receive)

-----------------------------------------------------------------------------
(* Properties *)

TypeOK ==
    /\ queue \in SUBSET Work
    /\ order \in [Work -> Nat]
    /\ admissions \in Nat
    /\ generation \in Nat
    /\ gen \in [Work -> Nat]
    /\ payload_bytes \in Nat
    /\ sender_closed \in BOOLEAN
    /\ receiver \in {"ready", "parked", "gone"}
    /\ fate \in [Work -> RetirementReason \cup {"unsent", "queued", "delivered"}]

\* The byte counter that admission trusts is the payload actually queued,
\* through every mix of replacement, eviction, interrupt and delivery, and
\* both limits hold (no drift of QueueState.payload_bytes, no saturation).
BytesAccounted ==
    /\ payload_bytes = PayloadOf(queue)
    /\ payload_bytes <= MaxPayloadBytes
    /\ Cardinality(queue) <= MaxItems

\* Requests leave through recv in the order they were admitted, however many
\* were replaced, evicted or retired in between.
DeliveredInOrder ==
    \A v, w \in Work :
        fate[v] = "delivered" /\ w \in queue => order[v] < order[w]

\* Nothing is lost or handed out twice: what is queued is exactly what was
\* admitted and neither delivered nor returned to the producer as retired.
Conserved == queue = {w \in Work : fate[w] = "queued"}

\* Eviction spares the youngest: a request is evicted only together with
\* every older replaceable one, and only if keeping it and the younger victims
\* would break a limit.
EvictsOldestFirst ==
    [][\A v \in Work :
         fate'[v] = "EvictedForCapacity" /\ fate[v] = "queued" =>
            LET spared == queue' \cup
                   {u \in queue : /\ fate'[u] = "EvictedForCapacity"
                                  /\ order[u] >= order[v]} IN
            /\ \A u \in queue' : IsReplaceable(u) => order'[u] > order[v]
            /\ ExceedsLimits(Cardinality(spared), PayloadOf(spared))]_vars

\* The queue's safety (send, recv and both drops of work_queue.rs): its byte
\* counter is the size of what is queued and never above the limits, requests are
\* received in admission order, and each admitted one is queued, received or
\* returned to the sender, exactly once.
QueueSound == TypeOK /\ BytesAccounted /\ DeliveredInOrder /\ Conserved

\* No wakeup is lost: what is admitted is eventually delivered or returned, and
\* closing the sender eventually ends the worker's loop.  What is owed leads to
\* what is met.  (Work is admitted once, so the queue is empty at some moment.)
QueueClaims == {"drain", "close"}
QueueOwed(k) == IF k = "drain" THEN queue # {} ELSE sender_closed
QueueMet(k) == receiver = "gone" \/ (k = "drain" /\ queue = {})
=============================================================================
