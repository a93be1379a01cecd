-------------------------- MODULE WorkQueueProofs --------------------------
(***************************************************************************)
(* The queue's invariants hold for any set of requests, any sizes, domains *)
(* and limits.  The argument: payload sizes are additive over disjoint     *)
(* sets (PayloadUnion), so the counter that admission, delivery and        *)
(* interrupts each update in their own way stays equal to the payload of   *)
(* the set they leave; and admission numbers grow, so the front of the     *)
(* queue is always younger than everything delivered before it.            *)
(***************************************************************************)
EXTENDS WorkQueue, FiniteSetTheorems, TLAPS

----------------------------------------------------------
(* Sizes *)

\* The byte units of a set of requests are finitely many.
LEMMA ByteUnitsFinite ==
    ASSUME NEW S \in SUBSET Work
    PROVE  /\ IsFiniteSet(ByteUnits(S))
           /\ PayloadOf(S) \in Nat
<1> DEFINE units == [w \in S |-> {w} \X (1 .. Bytes[w])]
           T == {units[w] : w \in S}
<1>1. IsFiniteSet(S)
  BY WorkAssumption, FS_Subset
<1>2. units \in Surjection(S, T)
  BY DEF Surjection
<1>3. IsFiniteSet(T)
  BY <1>1, <1>2, FS_Surjection
<1>4. \A w \in S : IsFiniteSet({w} \X (1 .. Bytes[w]))
  <2> SUFFICES ASSUME NEW w \in S PROVE IsFiniteSet({w} \X (1 .. Bytes[w]))
    OBVIOUS
  <2>1. IsFiniteSet(1 .. Bytes[w])
    <3>1. Bytes[w] \in Int
      BY WorkAssumption
    <3> QED BY <3>1, FS_Interval
  <2> QED BY <2>1, FS_Singleton, FS_Product
<1>5. IsFiniteSet(UNION T)
  BY <1>3, <1>4, FS_UNION
<1>6. ByteUnits(S) = UNION T
  BY DEF ByteUnits
<1> QED BY <1>5, <1>6, FS_CardinalityType DEF PayloadOf

\* The payload of two disjoint sets of requests is the sum of their payloads.
LEMMA PayloadUnion ==
    ASSUME NEW S \in SUBSET Work, NEW T \in SUBSET Work, S \cap T = {}
    PROVE  PayloadOf(S \cup T) = PayloadOf(S) + PayloadOf(T)
<1>1. ByteUnits(S \cup T) = ByteUnits(S) \cup ByteUnits(T)
  BY DEF ByteUnits
<1>2. ByteUnits(S) \cap ByteUnits(T) = {}
  BY DEF ByteUnits
<1>3. /\ IsFiniteSet(ByteUnits(S)) /\ IsFiniteSet(ByteUnits(T))
      /\ PayloadOf(S) \in Nat /\ PayloadOf(T) \in Nat
  BY ByteUnitsFinite
<1>4. Cardinality(ByteUnits(S) \cup ByteUnits(T)) =
         Cardinality(ByteUnits(S)) + Cardinality(ByteUnits(T))
            - Cardinality(ByteUnits(S) \cap ByteUnits(T))
  BY <1>3, FS_Union
<1>5. PayloadOf(S \cup T) = Cardinality(ByteUnits(S) \cup ByteUnits(T))
  BY <1>1, Zenon DEF PayloadOf
<1>6. /\ PayloadOf(S) = Cardinality(ByteUnits(S))
      /\ PayloadOf(T) = Cardinality(ByteUnits(T))
  BY DEF PayloadOf
<1>7. Cardinality(ByteUnits(S) \cap ByteUnits(T)) = 0
  BY <1>2, FS_EmptySet, Zenon
<1>8. PayloadOf(S \cup T) = PayloadOf(S) + PayloadOf(T) - 0
  BY <1>4, <1>5, <1>6, <1>7, Zenon
<1> QED BY <1>3, <1>8

\* The payload of one request is its size.
LEMMA PayloadSingleton ==
    ASSUME NEW w \in Work
    PROVE  PayloadOf({w}) = Bytes[w]
<1>1. ByteUnits({w}) = {w} \X (1 .. Bytes[w])
  BY DEF ByteUnits
<1>2. Bytes[w] \in Nat
  BY WorkAssumption
<1>3. /\ IsFiniteSet(1 .. Bytes[w])
      /\ Cardinality(1 .. Bytes[w]) = Bytes[w]
  BY SMTT(60), <1>2, FS_Interval
<1>4. IsFiniteSet({w}) /\ Cardinality({w}) = 1
  BY FS_Singleton
<1>5. Cardinality({w} \X (1 .. Bytes[w])) = 1 * Bytes[w]
  BY ZenonT(60), <1>3, <1>4, FS_Product
<1>6. PayloadOf({w}) = Cardinality({w} \X (1 .. Bytes[w]))
  BY <1>1, Zenon DEF PayloadOf
<1> QED BY <1>2, <1>5, <1>6

\* Taking requests out of a set takes exactly their payload out of its payload.
LEMMA PayloadDifference ==
    ASSUME NEW S \in SUBSET Work, NEW T \in SUBSET S
    PROVE  /\ PayloadOf(S) \in Nat
           /\ PayloadOf(T) \in Nat
           /\ PayloadOf(S) >= PayloadOf(T)
           /\ PayloadOf(S \ T) = PayloadOf(S) - PayloadOf(T)
<1>1. S \ T \in SUBSET Work /\ T \in SUBSET Work
  OBVIOUS
<1>2. (S \ T) \cup T = S /\ (S \ T) \cap T = {}
  OBVIOUS
<1>3. PayloadOf(S) = PayloadOf(S \ T) + PayloadOf(T)
  BY <1>1, <1>2, PayloadUnion
<1>4. PayloadOf(S) \in Nat /\ PayloadOf(T) \in Nat /\ PayloadOf(S \ T) \in Nat
  BY <1>1, ByteUnitsFinite
<1> QED BY <1>3, <1>4

----------------------------------------------------------
(* The inductive invariant *)

\* Admission numbers: queued requests have distinct ones, none beyond the
\* counter, so a request admitted next is younger than all of them.
AdmissionNumbers ==
    /\ \A w \in Work : order[w] <= admissions
    /\ \A v, w \in queue : order[v] = order[w] => v = w

Inv == TypeOK /\ Conserved /\ BytesAccounted /\ AdmissionNumbers

\* What admission retires is queued, and w itself is not.
LEMMA RetireQueued ==
    ASSUME TypeOK, Conserved, NEW w \in Work, fate[w] = "unsent"
    PROVE  /\ w \notin queue
           /\ Replaced(w) \subseteq queue
           /\ Evicted(w) \subseteq queue
           /\ Retire(w) \subseteq queue
BY DEF Conserved, Replaced, Evicted, Candidates, Retire

\* Admission leaves the byte counter equal to the payload queued, and neither
\* limit exceeded.
LEMMA AdmitAccounts ==
    ASSUME TypeOK, Conserved, BytesAccounted,
           NEW w \in Work, fate[w] = "unsent", ~Saturates(w), Admit(w)
    PROVE  BytesAccounted'
<1> DEFINE R == Retire(w)
<1>1. w \notin queue /\ R \in SUBSET queue /\ queue \in SUBSET Work
  BY RetireQueued DEF TypeOK
<1>2. PayloadOf(queue \ R) = PayloadOf(queue) - PayloadOf(R)
      /\ PayloadOf(queue) \in Nat /\ PayloadOf(R) \in Nat
      /\ PayloadOf(queue) >= PayloadOf(R)
  BY <1>1, PayloadDifference
<1>3. Bytes[w] \in Nat
  BY WorkAssumption
<1>4. PayloadOf(queue') = PayloadOf(queue \ R) + Bytes[w]
  <2>1. queue' = (queue \ R) \cup {w} /\ (queue \ R) \cap {w} = {}
    BY <1>1 DEF Admit
  <2>2. queue \ R \in SUBSET Work /\ {w} \in SUBSET Work
    BY <1>1
  <2> QED BY <2>1, <2>2, PayloadUnion, PayloadSingleton
<1>5. payload_bytes' = PayloadOf(queue')
  <2>1. payload_bytes' = SatSub(payload_bytes + Bytes[w], PayloadOf(R))
    BY DEF Admit, ProjectedBytes
  <2>2. payload_bytes = PayloadOf(queue)
    BY DEF BytesAccounted
  <2> HIDE DEF R
  <2> QED BY <1>2, <1>3, <1>4, <2>1, <2>2 DEF SatSub
<1>6. Cardinality(queue') = ProjectedItems(w, R)
  <2>1. IsFiniteSet(queue)
    BY <1>1, WorkAssumption, FS_Subset
  <2>2. IsFiniteSet(R) /\ queue \cap R = R
    BY <1>1, <2>1, FS_Subset
  <2>3. IsFiniteSet(queue \ R)
        /\ Cardinality(queue \ R) = Cardinality(queue) - Cardinality(R)
    BY <2>1, <2>2, FS_Difference
  <2>4. Cardinality(queue) \in Nat /\ Cardinality(R) \in Nat
    BY <2>1, <2>2, FS_CardinalityType
  <2>5. queue' = (queue \ R) \cup {w} /\ w \notin queue \ R
    BY <1>1 DEF Admit
  <2>6. Cardinality(queue') = Cardinality(queue \ R) + 1
    BY <2>3, <2>5, FS_AddElement
  <2> HIDE DEF R
  <2> QED BY <2>3, <2>4, <2>6 DEF ProjectedItems
<1>7. ~ExceedsLimits(Cardinality(queue'), payload_bytes')
  BY <1>6 DEF Saturates, StillExceeds, Admit
<1>8. Cardinality(queue') \in Int /\ payload_bytes' \in Nat
  <2>1. queue' \in SUBSET Work
    BY <1>1 DEF Admit
  <2> QED BY <2>1, <1>5, ByteUnitsFinite, FS_Subset, FS_CardinalityType,
             WorkAssumption
<1> QED BY <1>5, <1>7, <1>8, LimitsAssumption DEF ExceedsLimits, BytesAccounted

LEMMA InitInv == Init => Inv
<1> SUFFICES ASSUME Init PROVE Inv
  OBVIOUS
<1>1. TypeOK
  BY DEF Init, TypeOK, RetirementReason
<1>2. Conserved
  BY DEF Init, Conserved
<1>3. BytesAccounted
  <2>1. ByteUnits({}) = {}
    BY DEF ByteUnits
  <2>2. PayloadOf({}) = 0
    BY <2>1, FS_EmptySet, Zenon DEF PayloadOf
  <2> QED BY <2>2, FS_EmptySet, LimitsAssumption DEF Init, BytesAccounted
<1>4. AdmissionNumbers
  BY DEF Init, AdmissionNumbers
<1> QED BY <1>1, <1>2, <1>3, <1>4 DEF Inv

LEMMA TypeStep == TypeOK /\ Conserved /\ BytesAccounted /\ [Next]_vars => TypeOK'
<1> SUFFICES ASSUME TypeOK, Conserved, BytesAccounted, [Next]_vars PROVE TypeOK'
  OBVIOUS
<1>1. ASSUME NEW w \in Work, TrySend(w) PROVE TypeOK'
  <2>1. CASE receiver = "gone" \/ Saturates(w)
    BY <1>1, <2>1 DEF TypeOK, TrySend, Reject, RetirementReason
  <2>2. CASE receiver # "gone" /\ ~Saturates(w)
    <3>1. Admit(w) /\ fate[w] = "unsent"
      BY <1>1, <2>2 DEF TrySend
    <3>2. payload_bytes' \in Nat
      <4>1. BytesAccounted'
        BY <2>2, <3>1, AdmitAccounts
      <4>2. queue' \in SUBSET Work
        BY <3>1 DEF Admit, TypeOK
      <4> QED BY <4>1, <4>2, ByteUnitsFinite DEF BytesAccounted
    <3>3. fate' \in [Work -> RetirementReason \cup {"unsent", "queued", "delivered"}]
      BY <3>1 DEF Admit, TypeOK, RetirementReason
    <3> QED BY <1>1, <3>1, <3>2, <3>3 DEF Admit, TrySend, TypeOK, NotifyReceiver
  <2> QED BY <2>1, <2>2
<1>2. ASSUME Interrupt PROVE TypeOK'
  <2>1. PayloadOf(queue \ StaleBefore(generation)) \in Nat
    <3>1. queue \ StaleBefore(generation) \in SUBSET Work
      BY DEF TypeOK
    <3> QED BY <3>1, ByteUnitsFinite
  <2> QED BY <1>2, <2>1 DEF Interrupt, AdvanceGeneration,
             RetireBeforeGeneration, TypeOK, RetirementReason
<1>3. CASE DropSender
  BY <1>3 DEF DropSender, TypeOK, NotifyReceiver
<1>4. ASSUME NEW w \in Work, Recv(w) PROVE TypeOK'
  <2>1. payload_bytes' \in Nat
    <3>1. payload_bytes \in Nat /\ Bytes[w] \in Nat
      BY WorkAssumption DEF TypeOK
    <3>2. payload_bytes' = SatSub(payload_bytes, Bytes[w])
      BY <1>4 DEF Recv
    <3> QED BY <3>1, <3>2 DEF SatSub
  <2> QED BY <1>4, <2>1 DEF Recv, TypeOK
<1>5. CASE RecvWait \/ RecvNone \/ DropReceiver
  BY <1>5 DEF RecvWait, RecvNone, DropReceiver, TypeOK
<1>6. CASE UNCHANGED vars
  BY <1>6 DEF vars, TypeOK
<1> QED BY <1>1, <1>2, <1>3, <1>4, <1>5, <1>6
        DEF Next, Send, Receive, Closed

LEMMA ConservedStep == TypeOK /\ Conserved /\ [Next]_vars => Conserved'
<1> SUFFICES ASSUME TypeOK, Conserved, [Next]_vars PROVE Conserved'
  OBVIOUS
<1>1. ASSUME NEW w \in Work, TrySend(w) PROVE Conserved'
  <2>1. CASE receiver = "gone" \/ Saturates(w)
    BY <1>1, <2>1 DEF TypeOK, TrySend, Reject, Conserved
  <2>2. CASE receiver # "gone" /\ ~Saturates(w)
    <3>1. Admit(w) /\ fate[w] = "unsent"
      BY <1>1, <2>2 DEF TrySend
    <3>2. w \notin queue /\ Retire(w) = Replaced(w) \cup Evicted(w)
      BY <3>1, RetireQueued DEF Retire
    <3> QED BY <3>1, <3>2 DEF Admit, Conserved, TypeOK
  <2> QED BY <2>1, <2>2
<1>2. ASSUME Interrupt PROVE Conserved'
  BY <1>2 DEF Interrupt, AdvanceGeneration, RetireBeforeGeneration, StaleBefore, TypeOK, Conserved
<1>3. CASE DropSender
  BY <1>3 DEF DropSender, Conserved
<1>4. ASSUME NEW w \in Work, Recv(w) PROVE Conserved'
  BY <1>4 DEF Recv, TypeOK, Conserved
<1>5. CASE RecvWait \/ RecvNone \/ DropReceiver
  BY <1>5 DEF RecvWait, RecvNone, DropReceiver, Conserved
<1>6. CASE UNCHANGED vars
  BY <1>6 DEF vars, Conserved
<1> QED BY <1>1, <1>2, <1>3, <1>4, <1>5, <1>6
        DEF Next, Send, Receive, Closed

\* Every operation leaves the byte counter equal to the payload it leaves.
LEMMA BytesStep == Inv /\ [Next]_vars => BytesAccounted'
<1> SUFFICES ASSUME Inv, [Next]_vars PROVE BytesAccounted'
  OBVIOUS
<1> USE DEF Inv
<1>1. ASSUME NEW w \in Work, TrySend(w) PROVE BytesAccounted'
  <2>1. CASE receiver = "gone" \/ Saturates(w)
    BY <1>1, <2>1 DEF TrySend, Reject, BytesAccounted
  <2>2. CASE receiver # "gone" /\ ~Saturates(w)
    BY <1>1, <2>2, AdmitAccounts DEF TrySend
  <2> QED BY <2>1, <2>2
<1>2. ASSUME NEW R \in SUBSET queue, queue' = queue \ R,
             payload_bytes' = PayloadOf(queue \ R)
      PROVE  BytesAccounted'
  <2>1. queue \in SUBSET Work
    BY DEF TypeOK
  <2>2. /\ PayloadOf(queue \ R) = PayloadOf(queue) - PayloadOf(R)
        /\ PayloadOf(queue) \in Nat /\ PayloadOf(R) \in Nat
    BY <2>1, PayloadDifference
  <2>3. IsFiniteSet(queue)
    BY <2>1, FS_Subset, WorkAssumption
  <2>4. /\ Cardinality(queue \ R) <= Cardinality(queue)
        /\ Cardinality(queue \ R) \in Nat /\ Cardinality(queue) \in Nat
    <3>1. queue \ R \in SUBSET queue
      OBVIOUS
    <3> QED BY <2>3, <3>1, FS_Subset, FS_CardinalityType
  <2>5. payload_bytes' <= MaxPayloadBytes
    BY <1>2, <2>2, LimitsAssumption DEF BytesAccounted
  <2>6. Cardinality(queue') <= MaxItems
    BY <1>2, <2>4, LimitsAssumption DEF BytesAccounted
  <2> QED BY <1>2, <2>5, <2>6 DEF BytesAccounted
<1>3. ASSUME Interrupt PROVE BytesAccounted'
  <2>1. CASE AdvanceGeneration
    BY <2>1 DEF AdvanceGeneration, BytesAccounted
  <2>2. CASE RetireBeforeGeneration(generation)
    <3>1. StaleBefore(generation) \in SUBSET queue
      BY DEF StaleBefore
    <3> QED BY <1>2, <2>2, <3>1 DEF RetireBeforeGeneration
  <2> QED BY <1>3, <2>1, <2>2 DEF Interrupt
<1>4. ASSUME NEW w \in Work, Recv(w) PROVE BytesAccounted'
  <2>1. {w} \in SUBSET queue /\ queue \in SUBSET Work
    BY <1>4 DEF Recv, IsFront, TypeOK
  <2>2. PayloadOf(queue \ {w}) = PayloadOf(queue) - Bytes[w]
        /\ PayloadOf(queue) >= Bytes[w]
    BY <2>1, PayloadDifference, PayloadSingleton
  <2>3. payload_bytes' = PayloadOf(queue \ {w})
    BY <1>4, <2>2 DEF Recv, SatSub, BytesAccounted
  <2> QED BY <1>2, <1>4, <2>1, <2>3 DEF Recv
<1>5. CASE DropSender \/ RecvWait \/ RecvNone \/ DropReceiver
  BY <1>5 DEF DropSender, RecvWait, RecvNone, DropReceiver, BytesAccounted
<1>6. CASE UNCHANGED vars
  BY <1>6 DEF vars, BytesAccounted
<1> QED BY <1>1, <1>3, <1>4, <1>5, <1>6
        DEF Next, Send, Receive, Closed

LEMMA NumbersStep == Inv /\ [Next]_vars => AdmissionNumbers'
<1> SUFFICES ASSUME Inv, [Next]_vars PROVE AdmissionNumbers'
  OBVIOUS
<1> USE DEF Inv
<1>1. ASSUME NEW w \in Work, TrySend(w) PROVE AdmissionNumbers'
  <2>1. CASE receiver = "gone" \/ Saturates(w)
    BY <1>1, <2>1 DEF TrySend, Reject, AdmissionNumbers
  <2>2. CASE receiver # "gone" /\ ~Saturates(w)
    <3>1. Admit(w)
      BY <1>1, <2>2 DEF TrySend
    <3>2. \A v \in Work : order'[v] <= admissions'
      BY <3>1 DEF Admit, AdmissionNumbers, TypeOK
    <3>3. \A v \in queue' : v # w => v \in queue /\ order'[v] = order[v]
      BY <3>1 DEF Admit, TypeOK
    <3>4. order'[w] = admissions + 1 /\ admissions \in Nat
      BY <3>1 DEF Admit, TypeOK
    <3>5. \A v \in queue' : v \in Work
      BY <3>1 DEF Admit, TypeOK
    <3>6. \A u, v \in queue' : order'[u] = order'[v] => u = v
      BY <3>3, <3>4, <3>5 DEF AdmissionNumbers, TypeOK
    <3> QED BY <3>2, <3>6 DEF AdmissionNumbers
  <2> QED BY <2>1, <2>2
<1>2. CASE Interrupt
  BY <1>2 DEF Interrupt, AdvanceGeneration, RetireBeforeGeneration, AdmissionNumbers
<1>3. ASSUME NEW w \in Work, Recv(w) PROVE AdmissionNumbers'
  BY <1>3 DEF Recv, AdmissionNumbers
<1>4. CASE DropSender \/ RecvWait \/ RecvNone \/ DropReceiver
  BY <1>4 DEF DropSender, RecvWait, RecvNone, DropReceiver, AdmissionNumbers
<1>5. CASE UNCHANGED vars
  BY <1>5 DEF vars, AdmissionNumbers
<1> QED BY <1>1, <1>2, <1>3, <1>4, <1>5 DEF Next, Send, Receive, Closed

LEMMA InvStep == Inv /\ [Next]_vars => Inv'
BY TypeStep, ConservedStep, BytesStep, NumbersStep DEF Inv

----------------------------------------------------------
(* Theorems *)

\* The queue's state stays well formed.
THEOREM QueueTypeCorrect == Spec => []TypeOK
<1>1. Inv => TypeOK
  BY DEF Inv
<1> QED BY <1>1, InitInv, InvStep, PTL DEF Spec

\* QueueState.payload_bytes never drifts from the payload queued and neither
\* limit of WorkQueueLimits is ever exceeded.
THEOREM QueueBytesAccounted == Spec => []BytesAccounted
<1>1. Inv => BytesAccounted
  BY DEF Inv
<1> QED BY <1>1, InitInv, InvStep, PTL DEF Spec

\* Every admitted request is queued until it is delivered or returned.
THEOREM QueueConserved == Spec => []Conserved
<1>1. Inv => Conserved
  BY DEF Inv
<1> QED BY <1>1, InitInv, InvStep, PTL DEF Spec

\* recv hands requests out in admission order.
THEOREM QueueDeliversInOrder == Spec => []DeliveredInOrder
<1>1. Init => DeliveredInOrder
  BY DEF Init, DeliveredInOrder
<1>2. Inv /\ DeliveredInOrder /\ [Next]_vars => DeliveredInOrder'
  <2> SUFFICES ASSUME Inv, DeliveredInOrder, [Next]_vars PROVE DeliveredInOrder'
    OBVIOUS
  <2> USE DEF Inv
  <2>1. ASSUME NEW w \in Work, TrySend(w) PROVE DeliveredInOrder'
    <3>1. CASE receiver = "gone" \/ Saturates(w)
      BY <2>1, <3>1 DEF TrySend, Reject, DeliveredInOrder, TypeOK
    <3>2. CASE receiver # "gone" /\ ~Saturates(w)
      <4>1. Admit(w) /\ fate[w] = "unsent"
        BY <2>1, <3>2 DEF TrySend
      <4>2. \A v \in Work : fate'[v] = "delivered" =>
                /\ v # w /\ fate[v] = "delivered" /\ order'[v] = order[v]
        BY <4>1 DEF Admit, TypeOK
      <4>3. \A v \in queue' : v # w => v \in queue /\ order'[v] = order[v]
        BY <4>1 DEF Admit, TypeOK
      <4>4. order'[w] = admissions + 1 /\ admissions \in Nat
        BY <4>1 DEF Admit, TypeOK
      <4> QED BY <4>2, <4>3, <4>4 DEF DeliveredInOrder, AdmissionNumbers, TypeOK
    <3> QED BY <3>1, <3>2
  <2>2. CASE Interrupt
    BY <2>2 DEF Interrupt, AdvanceGeneration, RetireBeforeGeneration, DeliveredInOrder, TypeOK
  <2>3. ASSUME NEW w \in Work, Recv(w) PROVE DeliveredInOrder'
    <3>1. \A v \in queue' : v \in queue /\ order[w] < order[v]
      BY <2>3 DEF Recv, IsFront, AdmissionNumbers, TypeOK
    <3> QED BY <2>3, <3>1 DEF Recv, DeliveredInOrder, TypeOK
  <2>4. CASE DropSender \/ RecvWait \/ RecvNone \/ DropReceiver
    BY <2>4 DEF DropSender, RecvWait, RecvNone, DropReceiver, DeliveredInOrder
  <2>5. CASE UNCHANGED vars
    BY <2>5 DEF vars, DeliveredInOrder
  <2> QED BY <2>1, <2>2, <2>3, <2>4, <2>5 DEF Next, Send, Receive, Closed
<1> QED BY <1>1, <1>2, InitInv, InvStep, PTL DEF Spec

\* The whole of the queue's safety, as the model is checked for it: well formed,
\* within its limits, complete and in order.
THEOREM QueueIsSound == Spec => []QueueSound
BY QueueTypeCorrect, QueueBytesAccounted, QueueConserved, QueueDeliversInOrder, PTL
   DEF QueueSound

----------------------------------------------------------
(* Eviction *)

\* What admission computes for a set R of retired requests is the size of the
\* queue without R and with w.
LEMMA ProjectionIsExact ==
    ASSUME Inv, NEW w \in Work, fate[w] = "unsent", NEW R \in SUBSET queue
    PROVE  LET rest == (queue \ R) \cup {w} IN
           /\ rest \in SUBSET Work /\ IsFiniteSet(rest)
           /\ Cardinality(rest) \in Nat /\ PayloadOf(rest) \in Nat
           /\ StillExceeds(w, R) <=> ExceedsLimits(Cardinality(rest), PayloadOf(rest))
<1> DEFINE rest == (queue \ R) \cup {w}
<1>1. w \notin queue /\ queue \in SUBSET Work /\ rest \in SUBSET Work
  BY RetireQueued DEF Inv, TypeOK
<1>2. PayloadOf(queue \ R) = PayloadOf(queue) - PayloadOf(R)
      /\ PayloadOf(queue) \in Nat /\ PayloadOf(R) \in Nat
      /\ PayloadOf(queue) >= PayloadOf(R)
  BY <1>1, PayloadDifference
<1>3. Bytes[w] \in Nat
  BY WorkAssumption
<1>4. PayloadOf(rest) = PayloadOf(queue \ R) + Bytes[w]
  <2>1. (queue \ R) \cap {w} = {} /\ queue \ R \in SUBSET Work /\ {w} \in SUBSET Work
    BY <1>1
  <2> QED BY <2>1, PayloadUnion, PayloadSingleton
<1>5. IsFiniteSet(queue) /\ IsFiniteSet(R) /\ queue \cap R = R
  BY <1>1, WorkAssumption, FS_Subset
<1>6. /\ Cardinality(queue \ R) = Cardinality(queue) - Cardinality(R)
      /\ IsFiniteSet(queue \ R)
      /\ Cardinality(queue) \in Nat /\ Cardinality(R) \in Nat
  BY <1>5, FS_Difference, FS_CardinalityType
<1>7. Cardinality(rest) = Cardinality(queue \ R) + 1 /\ IsFiniteSet(rest)
  <2>1. w \notin queue \ R
    BY <1>1
  <2> QED BY <1>6, <2>1, FS_AddElement
<1>8. Cardinality(rest) \in Nat
  BY <1>7, FS_CardinalityType
<1> HIDE DEF rest
<1>9. Cardinality(rest) = ProjectedItems(w, R)
  BY <1>6, <1>7 DEF ProjectedItems
<1>10. PayloadOf(rest) = ProjectedBytes(w, R) /\ PayloadOf(rest) \in Nat
  <2>1. payload_bytes = PayloadOf(queue)
    BY DEF Inv, BytesAccounted
  <2> QED BY <1>2, <1>3, <1>4, <2>1 DEF ProjectedBytes, SatSub
<1>11. StillExceeds(w, R) <=> ExceedsLimits(Cardinality(rest), PayloadOf(rest))
  BY <1>9, <1>10 DEF StillExceeds
<1> QED BY <1>1, <1>7, <1>8, <1>10, <1>11 DEF rest

\* Retiring less never helps.
LEMMA RetiringLess ==
    ASSUME Inv, NEW w \in Work, fate[w] = "unsent",
           NEW T \in SUBSET queue, NEW S \in SUBSET T, StillExceeds(w, T)
    PROVE  StillExceeds(w, S)
<1> DEFINE more == (queue \ S) \cup {w}
           less == (queue \ T) \cup {w}
<1>1. S \in SUBSET queue /\ less \in SUBSET more
  OBVIOUS
<1>2. /\ more \in SUBSET Work /\ IsFiniteSet(more)
      /\ Cardinality(more) \in Nat /\ PayloadOf(more) \in Nat
      /\ StillExceeds(w, S) <=> ExceedsLimits(Cardinality(more), PayloadOf(more))
  BY <1>1, ProjectionIsExact
<1>3. /\ Cardinality(less) \in Nat /\ PayloadOf(less) \in Nat
      /\ ExceedsLimits(Cardinality(less), PayloadOf(less))
  BY ProjectionIsExact
<1> HIDE DEF more, less
<1>4. Cardinality(less) <= Cardinality(more)
  BY <1>1, <1>2, FS_Subset
<1>5. PayloadOf(less) <= PayloadOf(more)
  BY <1>1, <1>2, <1>3, PayloadDifference
<1> QED BY <1>2, <1>3, <1>4, <1>5, LimitsAssumption DEF ExceedsLimits

\* An admission evicts oldest first, and no more than it needs.
LEMMA AdmitEvicts ==
    ASSUME Inv, NEW w \in Work, fate[w] = "unsent", Admit(w),
           NEW v \in Work, fate'[v] = "EvictedForCapacity", fate[v] = "queued"
    PROVE  LET spared == queue' \cup
                  {u \in queue : /\ fate'[u] = "EvictedForCapacity"
                                 /\ order[u] >= order[v]} IN
           /\ \A u \in queue' : IsReplaceable(u) => order'[u] > order[v]
           /\ ExceedsLimits(Cardinality(spared), PayloadOf(spared))
<1> DEFINE K == Replaced(w) \cup Older(w, v)
           spared == queue' \cup {u \in queue : /\ fate'[u] = "EvictedForCapacity"
                                                /\ order[u] >= order[v]}
<1>1. /\ queue = {u \in Work : fate[u] = "queued"} /\ w \notin queue
      /\ order \in [Work -> Nat] /\ admissions \in Nat
      /\ \A u \in Work : order[u] <= admissions
      /\ \A t, u \in queue : order[t] = order[u] => t = u
  BY RetireQueued DEF Inv, TypeOK, Conserved, AdmissionNumbers
<1>2. /\ queue' = (queue \ Retire(w)) \cup {w}
      /\ order' = [order EXCEPT ![w] = admissions + 1]
      /\ fate' = [u \in Work |-> IF u = w THEN "queued"
                                 ELSE IF u \in Replaced(w) THEN "Replaced"
                                 ELSE IF u \in Evicted(w) THEN "EvictedForCapacity"
                                 ELSE fate[u]]
  BY DEF Admit
<1>3. /\ Replaced(w) \subseteq queue /\ Candidates(w) \subseteq queue \ Replaced(w)
      /\ Evicted(w) \subseteq Candidates(w)
      /\ \A u \in queue \ Replaced(w) : IsReplaceable(u) => u \in Candidates(w)
      /\ Older(w, v) = {u \in Candidates(w) : order[u] < order[v]}
      /\ Retire(w) = Replaced(w) \cup Evicted(w)
  BY DEF Replaced, Candidates, Evicted, Older, Retire
<1>4. \A u \in queue : fate'[u] = "EvictedForCapacity" <=> u \in Evicted(w)
  BY <1>1, <1>2, <1>3
<1>5. v \in queue /\ v \in Evicted(w)
  BY <1>1, <1>4
<1>6. StillExceeds(w, K) /\ K \in SUBSET queue
  BY <1>3, <1>5 DEF Evicted
<1>7. ASSUME NEW u \in Candidates(w), order[u] < order[v] PROVE u \in Evicted(w)
  <2>1. u \in queue /\ u \in Work
    BY <1>1, <1>3
  <2>2. Older(w, u) \subseteq Older(w, v)
    <3> SUFFICES ASSUME NEW t \in Candidates(w), order[t] < order[u]
                 PROVE  order[t] < order[v]
      BY DEF Older
    <3>1. t \in Work
      BY <1>1, <1>3
    <3>2. order[t] \in Nat /\ order[u] \in Nat /\ order[v] \in Nat
      BY <1>1, <2>1, <3>1
    <3> QED BY <1>7, <3>2
  <2>3. Replaced(w) \cup Older(w, u) \in SUBSET K
    BY <2>2
  <2>4. StillExceeds(w, Replaced(w) \cup Older(w, u))
    BY <1>6, <2>3, RetiringLess
  <2> QED BY <2>4 DEF Evicted
<1>8. spared = (queue \ K) \cup {w}
  <2>1. \A u \in queue : order[u] \in Nat /\ order[v] \in Nat
    BY <1>1, <1>5
  <2>2. \A u \in queue : u \in Evicted(w) /\ order[u] >= order[v] => u \notin K
    BY <1>3, <2>1
  <2>3. \A u \in queue : u \notin Retire(w) => u \notin K
    BY <1>3, <1>7
  <2>4. \A u \in queue : u \notin K => u \notin Retire(w)
                                        \/ (u \in Evicted(w) /\ order[u] >= order[v])
    BY <1>3, <2>1
  <2> HIDE DEF K
  <2> QED BY <1>1, <1>2, <1>4, <2>2, <2>3, <2>4
<1>9. ExceedsLimits(Cardinality(spared), PayloadOf(spared))
  <2> HIDE DEF K, spared
  <2> QED BY <1>6, <1>8, ProjectionIsExact
<1>10. ASSUME NEW u \in queue', IsReplaceable(u) PROVE order'[u] > order[v]
  <2>1. CASE u = w
    <3>1. order'[u] = admissions + 1 /\ order[v] \in Nat /\ order[v] <= admissions
      BY <1>1, <1>2, <2>1
    <3> QED BY <1>1, <3>1
  <2>2. CASE u # w
    <3>1. u \in queue /\ u \notin Retire(w) /\ u \in Candidates(w)
      BY <1>2, <1>3, <1>10, <2>2
    <3>2. order'[u] = order[u] /\ order[u] \in Nat /\ order[v] \in Nat
      BY <1>1, <1>2, <2>2, <3>1
    <3>3. ~(order[u] < order[v]) /\ u # v
      BY <1>3, <1>5, <1>7, <3>1
    <3>4. order[u] # order[v]
      BY <1>1, <1>5, <3>1, <3>3
    <3> QED BY <3>2, <3>3, <3>4
  <2> QED BY <2>1, <2>2
<1> QED BY <1>9, <1>10

\* Capacity pressure evicts in admission order and spares what fits: of the
\* replaceable requests only older ones went before an evicted one, and the
\* queue with it and the younger victims would have broken a limit.
THEOREM QueueEvictsOldestFirst == Spec => EvictsOldestFirst
<1> DEFINE Fair(v) ==
              fate'[v] = "EvictedForCapacity" /\ fate[v] = "queued" =>
                 LET spared == queue' \cup
                        {u \in queue : /\ fate'[u] = "EvictedForCapacity"
                                       /\ order[u] >= order[v]} IN
                 /\ \A u \in queue' : IsReplaceable(u) => order'[u] > order[v]
                 /\ ExceedsLimits(Cardinality(spared), PayloadOf(spared))
<1>1. Inv /\ [Next]_vars => [\A v \in Work : Fair(v)]_vars
  <2> SUFFICES ASSUME Inv, [Next]_vars, NEW v \in Work,
                      fate'[v] = "EvictedForCapacity", fate[v] = "queued"
               PROVE  Fair(v)
    OBVIOUS
  <2> HIDE DEF Fair
  <2>1. fate \in [Work -> RetirementReason \cup {"unsent", "queued", "delivered"}]
    BY DEF Inv, TypeOK
  <2>2. ASSUME NEW w \in Work, TrySend(w) PROVE Fair(v)
    <3>1. fate[w] = "unsent"
      BY <2>2 DEF TrySend
    <3>2. ~Reject(w, "ReceiverClosed") /\ ~Reject(w, "Saturated")
      BY <2>1 DEF Reject
    <3>3. Admit(w)
      BY <2>2, <3>2 DEF TrySend
    <3> QED BY <3>1, <3>3, AdmitEvicts DEF Fair
  <2>3. \/ Interrupt \/ DropSender \/ Receive \/ DropReceiver \/ Closed \/ UNCHANGED vars
        => fate'[v] # "EvictedForCapacity"
    BY <2>1 DEF Interrupt, AdvanceGeneration, RetireBeforeGeneration, DropSender,
       Receive, Recv, RecvWait, RecvNone, DropReceiver, Closed, vars
  <2> QED BY <2>2, <2>3 DEF Next, Send
<1> QED BY <1>1, InitInv, InvStep, PTL DEF Spec, EvictsOldestFirst
=============================================================================
