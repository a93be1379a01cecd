--------------------------- MODULE AdmissionProofs ---------------------------
(***************************************************************************)
(* Theorems about the components of MCAdmission: command admission, the    *)
(* voice package store, journalled validation of voices, and voice         *)
(* resolution.                                                             *)
(*                                                                         *)
(* Admission.  The command loop gives every submission one outcome,        *)
(* executes what it executes in the order of arrival and never across a    *)
(* stop, for any documents, frame counts, limits and bounds.  The argument *)
(* is that the loop has at most three submissions in hand, in the order    *)
(* they came: the one a burst holds, the one being read and the one just   *)
(* received; and that everything committed or executed is older than all   *)
(* of them.                                                                *)
(*                                                                         *)
(* Packages.  The files that the index, the generations and the workers    *)
(* name stay on disk for any packages, files, generations and workers,     *)
(* whoever dies in between.  Only the removal deletes files, and only      *)
(* after its checks; the argument is that what it checked stays true while *)
(* it holds the profile's lease and the storage gate (Removing), although  *)
(* acquisitions, captures and workers go on meanwhile.                     *)
(*                                                                         *)
(* Validation.  Whatever supervisor dies and whatever write is torn, no    *)
(* two operations of a profile have worker processes at once.  The         *)
(* argument is that a directory whose workers may still run can be read    *)
(* neither as resolved nor as cleaned (TreesAreMissed), and that whoever   *)
(* is admitted has read every other one as resolved (OneUnresolved).       *)
(*                                                                         *)
(* Resolution.  A batch calls an engine that has a handle, that nothing    *)
(* disables and that was named or may be chosen unnamed, in the style of   *)
(* the choice that won, for any engines, voices and policies.  The         *)
(* argument is that a route is always what the resolver finds on the       *)
(* batch's own inventory (VsRouteIsGood), that what an inventory ever      *)
(* called available has a handle (VsHandles), and that handles are never   *)
(* withdrawn.  A generation names one inventory because each of the three  *)
(* counters in its sum counts whatever is told (VsStepCounts), and none of *)
(* the next answer's is older than the last one's (VsMadeOf).              *)
(***************************************************************************)
EXTENDS MCAdmission, FiniteSetTheorems, WellFoundedInduction, TLAPS


----------------------------------------------------------
(* The inductive invariant *)

Status == {"executed", "Cancelled", "Failed", "ignored", "discarded"}

Commands ==
    [id : {"none", "stop", "queue", "dispatch"}]
    \cup [id : {"doc"}, n : Nat]
    \cup [id : {"part"}, n : Nat, index : Nat]

\* What a read in progress, the client and the pending transaction may be.
Frames ==
    /\ doc \in Seq(Doc) /\ arrived_at \in Seq(Nat) /\ Len(arrived_at) = Len(doc)
    /\ stops \in Nat
    /\ assembling \in 0 .. Len(doc) /\ next_part \in 0 .. PartCount - 1
    /\ assembling # 0 => mode # "txBurst" /\ selected < assembling
    /\ command \in Commands
    /\ command.id = "doc" =>
          /\ command.n = Len(doc) /\ command.n # 0
          /\ selected < command.n /\ assembling < command.n

\* What a burst holds is newer than what was committed.
Holds ==
    /\ latest \in Nat
    /\ mode \in {"idle", "burst", "txBurst"} /\ selected \in 0 .. Len(doc)
    /\ mode = "idle" <=> selected = 0
    /\ mode = "burst" => IsReplaceable(selected)
    /\ selected # 0 => Gen(selected) > latest

\* A sequence e of submissions in order, none newer than l, all older than H.
InOrder(e, l, H) ==
    /\ e \in Seq(1 .. Len(doc))
    /\ \A i \in 1 .. Len(e) : Gen(e[i]) <= l /\ \A h \in H : e[i] < h
    /\ \A i, j \in 1 .. Len(e) : i < j => e[i] < e[j] /\ Gen(e[i]) < Gen(e[j])

\* The generation l is of a submission older than H, or nothing was committed.
OfOlder(l, H) ==
    l # 0 => \E m \in 1 .. Len(doc) : Gen(m) = l /\ \A h \in H : m < h

\* What is in hand arrived since the last stop, and the rest not later.
SinceStop ==
    /\ \A n \in 1 .. Len(doc) : arrived_at[n] <= stops
    /\ \A h \in InHand : arrived_at[h] = stops

\* Why n may be cancelled.
Reason(n) ==
    \/ stops > arrived_at[n] \/ command.id = "stop"
    \/ \E m \in 1 .. Len(doc) :
          /\ m # n /\ Gen(m) >= Gen(n)
          /\ m < n \/ (IsReplaceable(n) /\ doc[m].domain = doc[n].domain)

Answered ==
    /\ results \in Seq(Seq(Status)) /\ Len(results) = Len(doc)
    /\ \A n \in 1 .. Len(doc) :
          /\ Len(results[n]) = IF n \in InHand THEN 0 ELSE 1
          /\ results[n] = <<"Cancelled">> /\ doc[n].fault = "none" => Reason(n)

Orderly == InOrder(executed, latest, InHand)
Older == OfOlder(latest, InHand)

\* What each submission in hand, answered or executed has to satisfy.
Core == Holds /\ SinceStop /\ Answered /\ Orderly /\ Older

\* The pending legacy transaction.
BatchInHand ==
    /\ pending \in 0 .. MaxPending /\ overflow \in BOOLEAN /\ pushed \in Nat
    /\ PendingIsWhole

AInv == Frames /\ Core /\ BatchInHand

----------------------------------------------------------
(* Facts about documents *)

LEMMA Generations ==
    ASSUME doc \in Seq(Doc)
    PROVE  \A n \in 1 .. Len(doc) : Gen(n) \in Nat \ {0}
BY AdmissionAssumption DEF Gen

LEMMA HandsAreSubmissions ==
    ASSUME Frames, Holds
    PROVE  InHand \subseteq 1 .. Len(doc)
BY DEF Frames, Holds, InHand

\* Executing n, and nothing else that was not executed before.
LEMMA ExecutedSet ==
    ASSUME NEW S, NEW e \in Seq(S), NEW n \in S
    PROVE  ToSet(Append(e, n)) = ToSet(e) \cup {n} /\ e \o <<n>> = Append(e, n)
<1>2. \A i \in 1 .. Len(e) : Append(e, n)[i] = e[i]
  OBVIOUS
<1>3. Append(e, n)[Len(e) + 1] = n
  OBVIOUS
<1>4. DOMAIN e = 1 .. Len(e) /\ DOMAIN Append(e, n) = 1 .. (Len(e) + 1)
  OBVIOUS
<1>5. ToSet(Append(e, n)) = ToSet(e) \cup {n}
  BY <1>2, <1>3, <1>4, Len(e) \in Nat DEF ToSet
<1>6. e \o <<n>> = Append(e, n)
  OBVIOUS
<1> QED BY <1>5, <1>6

----------------------------------------------------------
(* What answering and executing do *)

\* Each of a set of submissions gets its answer.
LEMMA AnswerIs ==
    ASSUME results \in Seq(Seq(Status)), NEW A \in SUBSET (1 .. Len(results)),
           NEW f \in [A -> Status], Answer(f)
    PROVE  /\ results' \in Seq(Seq(Status)) /\ Len(results') = Len(results)
           /\ \A n \in 1 .. Len(results) :
                 results'[n] = IF n \in A THEN Append(results[n], f[n]) ELSE results[n]
<1> DEFINE r(n) == IF n \in A THEN Append(results[n], f[n]) ELSE results[n]
<1>1. results' = [n \in 1 .. Len(results) |-> r(n)]
  BY DEF Answer
<1>2. \A n \in 1 .. Len(results) : r(n) \in Seq(Status)
  OBVIOUS
<1>3. Len(results) \in Nat
  OBVIOUS
<1> HIDE DEF r
<1>4. results' \in Seq(Seq(Status)) /\ Len(results') = Len(results)
  BY <1>1, <1>2, <1>3
<1> QED BY <1>1, <1>4 DEF r

\* One more submission in order.
LEMMA InOrderAppend ==
    ASSUME doc \in Seq(Doc), NEW e, NEW l \in Nat, NEW H \in SUBSET (1 .. Len(doc)),
           InOrder(e, l, H),
           NEW n \in H, Gen(n) > l, NEW k \in Nat, Gen(n) <= k,
           NEW K \in SUBSET H, \A h \in K : n < h
    PROVE  InOrder(Append(e, n), k, K)
<1> DEFINE g == Append(e, n)
<1>1. g \in Seq(1 .. Len(doc))
  BY DEF InOrder
<1>9. Len(g) = Len(e) + 1 /\ Len(e) \in Nat
  BY DEF InOrder
<1>2. \A i \in 1 .. Len(e) : g[i] = e[i] /\ e[i] \in 1 .. Len(doc)
  BY DEF InOrder
<1>3. g[Len(e) + 1] = n
  BY DEF InOrder
<1>4. \A i \in 1 .. Len(e) : Gen(e[i]) <= l /\ \A h \in H : e[i] < h
  BY DEF InOrder
<1>5. \A i \in 1 .. Len(e) : Gen(e[i]) \in Nat
  BY <1>2, Generations
<1>6. Gen(n) \in Nat
  BY Generations
<1> HIDE DEF g
<1>7. \A i \in 1 .. Len(g) : Gen(g[i]) <= k /\ \A h \in K : g[i] < h
  <2> SUFFICES ASSUME NEW i \in 1 .. Len(g)
               PROVE  Gen(g[i]) <= k /\ \A h \in K : g[i] < h
    OBVIOUS
  <2>1. CASE i = Len(e) + 1
    BY <2>1, <1>3
  <2>2. CASE i \in 1 .. Len(e)
    BY SMTT(60), <2>2, <1>2, <1>4, <1>5, <1>6
  <2> QED BY <2>1, <2>2, <1>9
<1>8. \A i, j \in 1 .. Len(g) : i < j => g[i] < g[j] /\ Gen(g[i]) < Gen(g[j])
  <2> SUFFICES ASSUME NEW i \in 1 .. Len(g), NEW j \in 1 .. Len(g), i < j
               PROVE  g[i] < g[j] /\ Gen(g[i]) < Gen(g[j])
    OBVIOUS
  <2>1. i \in 1 .. Len(e)
    BY <1>9
  <2>2. CASE j = Len(e) + 1
    <3>1. g[i] = e[i] /\ g[j] = n
      BY <2>1, <2>2, <1>2, <1>3
    <3>2. e[i] < n /\ Gen(e[i]) <= l /\ Gen(e[i]) \in Nat
      BY <2>1, <1>4, <1>5
    <3> QED BY <3>1, <3>2, <1>6
  <2>3. CASE j \in 1 .. Len(e)
    <3>1. g[i] = e[i] /\ g[j] = e[j]
      BY <2>1, <2>3, <1>2
    <3> QED BY <2>1, <2>3, <3>1 DEF InOrder
  <2> QED BY <2>2, <2>3, <1>9
<1> QED BY <1>1, <1>9, <1>7, <1>8 DEF InOrder, g

----------------------------------------------------------
(* Steps that keep the documents *)

\* A step of the loop: what came is not changed, and a stop is not forgotten.
Steps ==
    /\ doc' = doc /\ arrived_at' = arrived_at
    /\ stops' \in Nat /\ stops' >= stops
    /\ command.id = "stop" => command'.id = "stop" \/ stops' > stops

LEMMA ReasonStays ==
    ASSUME Frames, Core, Steps, NEW n \in 1 .. Len(doc), Reason(n)
    PROVE  Reason(n)'
<1>1. arrived_at[n] \in Nat /\ arrived_at[n] <= stops /\ stops \in Nat
  BY DEF Frames, Core, SinceStop
<1> QED BY <1>1 DEF Reason, Steps, Gen, IsReplaceable

\* Those in A leave the loop's hands with an answer, a cancellation for a reason.
LEMMA Settles ==
    ASSUME Frames, Core, Steps,
           NEW A \in SUBSET InHand, NEW f \in [A -> Status], Answer(f),
           InHand' = InHand \ A,
           \A n \in A : f[n] = "Cancelled" /\ doc[n].fault = "none" => Reason(n)'
    PROVE  Answered'
<1>1. InHand \subseteq 1 .. Len(doc) /\ Len(results) = Len(doc)
  BY HandsAreSubmissions DEF Core, Answered
<1>2. /\ results' \in Seq(Seq(Status)) /\ Len(results') = Len(results)
      /\ \A n \in 1 .. Len(results) :
            results'[n] = IF n \in A THEN Append(results[n], f[n]) ELSE results[n]
  <2>1. A \in SUBSET (1 .. Len(results)) /\ results \in Seq(Seq(Status))
    BY <1>1 DEF Core, Answered
  <2> QED BY <2>1, AnswerIs
<1>3. ASSUME NEW n \in 1 .. Len(doc)
      PROVE  /\ Len(results'[n]) = IF n \in InHand' THEN 0 ELSE 1
             /\ results'[n] = <<"Cancelled">> /\ doc[n].fault = "none" => Reason(n)'
  <2>1. results[n] \in Seq(Status) /\ Len(results[n]) = IF n \in InHand THEN 0 ELSE 1
    BY DEF Core, Answered
  <2>2. CASE n \in A
    <3>1. results[n] = <<>>
      BY <2>1, <2>2
    <3>3. results'[n] = Append(results[n], f[n]) /\ f[n] \in Status
      BY <1>1, <1>2, <2>2
    <3>2. results'[n] = <<f[n]>> /\ n \notin InHand'
      BY <3>1, <3>3, <2>2
    <3> QED BY <2>2, <3>2
  <2>3. CASE n \notin A
    <3>1. results'[n] = results[n] /\ (n \in InHand' <=> n \in InHand)
      BY <1>1, <1>2, <2>3
    <3>2. results[n] = <<"Cancelled">> /\ doc[n].fault = "none" => Reason(n)
      BY DEF Core, Answered
    <3> QED BY <2>1, <3>1, <3>2, ReasonStays
  <2> QED BY <2>2, <2>3
<1> QED BY <1>1, <1>2, <1>3 DEF Answered, Steps

\* Nobody is answered.
LEMMA SettlesNone ==
    ASSUME Frames, Core, Steps, results' = results, InHand' = InHand
    PROVE  Answered'
<1>1. \A n \in 1 .. Len(doc) : Reason(n) => Reason(n)'
  BY ReasonStays
<1> QED BY <1>1 DEF Core, Answered, Steps

LEMMA SinceStopStays ==
    ASSUME Frames, Core, Steps, stops' = stops, InHand' \subseteq InHand
    PROVE  SinceStop'
BY DEF Core, SinceStop, Steps

\* Nothing is executed.
LEMMA OrderlyStays ==
    ASSUME Frames, Core, Steps, executed' = executed, latest' \in Nat, latest' >= latest,
           InHand' \subseteq InHand
    PROVE  Orderly'
<1>1. \A i \in 1 .. Len(executed) : executed[i] \in 1 .. Len(doc)
  BY DEF Core, Orderly, InOrder
<1>2. \A i \in 1 .. Len(executed) : Gen(executed[i]) \in Nat
  BY <1>1, Generations DEF Frames
<1> QED BY SMTT(60), <1>2 DEF Core, Orderly, InOrder, Steps, Gen, Holds

\* The one in hand that came first is executed.
LEMMA OrderlyAppends ==
    ASSUME Frames, Core, Steps, NEW n \in InHand, Gen(n) > latest,
           executed' = Append(executed, n), latest' \in Nat, latest' >= Gen(n),
           InHand' \subseteq InHand, \A h \in InHand' : n < h
    PROVE  Orderly'
<1>1. InOrder(Append(executed, n), latest', InHand')
  <2>1. /\ doc \in Seq(Doc) /\ latest \in Nat /\ InHand \in SUBSET (1 .. Len(doc))
        /\ InOrder(executed, latest, InHand)
    BY HandsAreSubmissions DEF Frames, Core, Holds, Orderly
  <2>2. Gen(n) \in Nat
    BY <2>1, Generations
  <2> QED BY <2>1, <2>2, InOrderAppend
<1> QED BY <1>1 DEF Orderly, InOrder, Steps, Gen

\* What was committed is of a submission older than those still in hand.
LEMMA OlderStays ==
    ASSUME Core, Steps, latest' = latest, InHand' \subseteq InHand
    PROVE  Older'
BY DEF Core, Older, OfOlder, Steps, Gen

LEMMA OlderCommits ==
    ASSUME Steps, NEW m \in 1 .. Len(doc), latest' = Gen(m), \A h \in InHand' : m < h
    PROVE  Older'
BY DEF Older, OfOlder, Steps, Gen

----------------------------------------------------------
(* One submission is read *)

\* Submission n leaves the reader; a burst may hold an older one, and K is what
\* was received after it.
Reads(n, K) ==
    /\ Steps /\ stops' = stops
    /\ n \in 1 .. Len(doc) /\ selected < n
    /\ K \subseteq 1 .. Len(doc) /\ \A h \in K : n < h
    /\ InHand = ({selected} \ {0}) \cup {n} \cup K
    /\ InHand' = ({selected'} \ {0}) \cup K

\* What executing may add.
Fresh == ToSet(executed') \ ToSet(executed)

\* What is shown of a read.
AfterRead(n) ==
    /\ Core' /\ selected' \in {0, selected, n}
    /\ Fresh \subseteq InHand

LEMMA NothingFresh ==
    ASSUME executed' = executed
    PROVE  Fresh \subseteq InHand
BY DEF Fresh

LEMMA OneFresh ==
    ASSUME Frames, Core, NEW n \in InHand, executed' = Append(executed, n)
    PROVE  Fresh \subseteq InHand
<1>1. executed \in Seq(1 .. Len(doc)) /\ n \in 1 .. Len(doc)
  BY HandsAreSubmissions DEF Core, Orderly, InOrder
<1>2. ToSet(executed') = ToSet(executed) \cup {n}
  BY <1>1, ExecutedSet
<1> QED BY <1>2 DEF Fresh

\* One answer.
LEMMA OneAnswer ==
    ASSUME Frames, Core, Steps, NEW n \in InHand, NEW status \in Status,
           AnswerOne(n, status), InHand' = InHand \ {n},
           status = "Cancelled" /\ doc[n].fault = "none" => Reason(n)'
    PROVE  Answered'
<1> DEFINE f == [m \in {n} |-> status]
<1>1. f \in [{n} -> Status] /\ Answer(f)
  BY DEF AnswerOne
<1>2. \A m \in {n} : f[m] = "Cancelled" /\ doc[m].fault = "none" => Reason(m)'
  OBVIOUS
<1> HIDE DEF f
<1> QED BY <1>1, <1>2, Settles

\* A submission that the reader refuses commits nothing.
LEMMA RefusedRead ==
    ASSUME Frames, Core, NEW n, NEW K, Reads(n, K), NEW status \in Status,
           AnswerOne(n, status), KeepBurst, UNCHANGED <<executed, latest>>,
           status = "Cancelled" /\ doc[n].fault = "none" => Reason(n)'
    PROVE  AfterRead(n)
<1>1. n \in InHand /\ InHand' = InHand \ {n} /\ selected' = selected /\ Steps
  BY DEF Reads, KeepBurst
<1>2. Answered'
  BY <1>1, OneAnswer
<1>3. SinceStop' /\ Older' /\ Orderly'
  <2>1. latest' \in Nat /\ latest' >= latest /\ InHand' \subseteq InHand
    BY <1>1 DEF Core, Holds
  <2> QED BY <1>1, <2>1, SinceStopStays, OlderStays, OrderlyStays DEF Reads
<1>4. Holds'
  BY <1>1 DEF Core, Holds, KeepBurst, Steps, Gen, IsReplaceable
<1> QED BY <1>1, <1>2, <1>3, <1>4, NothingFresh DEF AfterRead, Core

\* What is stale has an older submission of at least its generation.
LEMMA StaleForReason ==
    ASSUME Frames, Core, NEW n \in InHand, IsStale(n)
    PROVE  Reason(n)
<1>1. n \in 1 .. Len(doc) /\ Gen(n) \in Nat \ {0} /\ Gen(n) <= latest
  BY HandsAreSubmissions, Generations DEF IsStale, Core, Frames
<1>2. PICK m \in 1 .. Len(doc) : Gen(m) = latest /\ m < n
  BY <1>1 DEF Core, Older, OfOlder, Holds
<1> QED BY <1>1, <1>2 DEF Reason

LEMMA MaxIs ==
    ASSUME NEW a \in Nat, NEW b \in Nat
    PROVE  Max2(a, b) \in {a, b} /\ Max2(a, b) >= a /\ Max2(a, b) >= b
BY DEF Max2

\* An accepted document is held, executed, cancelled or takes a place.
LEMMA PreparedRead ==
    ASSUME Frames, Core, NEW n, NEW K, Reads(n, K), mode # "txBurst",
           Gen(n) > latest, Prepared(n)
    PROVE  AfterRead(n)
<1>1. /\ n \in InHand /\ n \in 1 .. Len(doc) /\ Steps /\ stops' = stops
      /\ selected < n /\ \A h \in K : n < h
      /\ K \subseteq InHand
      /\ InHand = ({selected} \ {0}) \cup {n} \cup K
      /\ InHand' = ({selected'} \ {0}) \cup K
  BY DEF Reads
<1>2. /\ latest \in Nat /\ Gen(n) \in Nat \ {0} /\ doc \in Seq(Doc)
      /\ mode = "idle" <=> selected = 0
      /\ selected \in 0 .. Len(doc)
      /\ selected # 0 => Gen(selected) \in Nat /\ Gen(selected) > latest
  BY <1>1, Generations DEF Frames, Core, Holds
<1>3. CASE mode = "idle" /\ IsReplaceable(n)
  <2>1. /\ mode' = "burst" /\ selected' = n /\ results' = results
        /\ executed' = executed /\ latest' = latest
    BY <1>3 DEF Prepared, Go, NoAnswer
  <2>2. InHand' = InHand
    BY <1>1, <1>2, <1>3, <2>1
  <2>3. Holds'
    BY <1>1, <1>2, <1>3, <2>1 DEF Holds, Steps, Gen, IsReplaceable
  <2>4. SinceStop' /\ Answered' /\ Orderly' /\ Older'
    BY <1>1, <1>2, <2>1, <2>2, SinceStopStays, SettlesNone, OrderlyStays, OlderStays
  <2> QED BY <2>1, <2>3, <2>4, NothingFresh DEF AfterRead, Core
<1>4. CASE mode = "idle" /\ ~IsReplaceable(n)
  <2>1. /\ Executes(<<n>>) /\ Answer(ExecutedResults(<<n>>))
        /\ mode' = mode /\ selected' = selected
    BY <1>4 DEF Prepared, KeepBurst
  <2>2. /\ executed' = Append(executed, n) /\ latest' = Gen(n)
        /\ AnswerOne(n, "executed")
    <3>1. executed \in Seq(1 .. Len(doc))
      BY DEF Core, Orderly, InOrder
    <3>2. ToSet(<<n>>) = {n}
      BY DEF ToSet
    <3>3. Max2(Max2(latest, Gen(n)), Gen(n)) = Gen(n)
      BY <1>2 DEF Max2
    <3> QED BY SMTT(60), <1>1, <2>1, <3>1, <3>2, <3>3, ExecutedSet
            DEF Executes, ExecutedResults, AnswerOne
  <2>3. InHand' = InHand \ {n} /\ InHand' = K
    BY <1>1, <1>2, <1>4, <2>1
  <2>4. Holds'
    BY <1>1, <1>2, <1>4, <2>1, <2>2 DEF Holds, Steps
  <2>5. Answered'
    BY <1>1, <2>2, <2>3, OneAnswer DEF Status
  <2>6. SinceStop' /\ Orderly' /\ Older'
    BY <1>1, <1>2, <2>2, <2>3, SinceStopStays, OrderlyAppends, OlderCommits
  <2> QED BY <1>1, <2>1, <2>2, <2>4, <2>5, <2>6, OneFresh DEF AfterRead, Core
<1>5. CASE mode = "burst" /\ Gen(n) <= Gen(selected)
  <2>2. selected \in 1 .. Len(doc) /\ selected < n /\ ~(Gen(n) > Gen(selected))
    BY <1>1, <1>2, <1>5
  <2>1. AnswerOne(n, "Cancelled") /\ KeepBurst /\ UNCHANGED <<executed, latest>>
    BY <1>5, <2>2 DEF Prepared
  <2>3. Reason(n)
    BY <1>2, <1>5, <2>2 DEF Reason
  <2>4. Reason(n)'
    BY <1>1, <2>3, ReasonStays
  <2> QED BY <2>1, <2>4, RefusedRead DEF Status
<1>6. CASE mode = "burst" /\ Gen(n) > Gen(selected)
  <2>1. /\ selected \in InHand /\ selected \in 1 .. Len(doc) /\ selected # n
        /\ Gen(selected) \in Nat /\ Gen(selected) > latest /\ IsReplaceable(selected)
    BY <1>1, <1>2, <1>6 DEF Core, Holds
  <2>6. ~(Gen(n) <= Gen(selected))
    BY <1>2, <1>6, <2>1
  <2>2. selected \notin K
    BY <1>1, <1>2, <2>1, HandsAreSubmissions DEF Core
  <2>3. CASE SharesDomain(selected, n)
    <3>1. /\ AnswerOne(selected, "Cancelled") /\ mode' = "burst" /\ selected' = n
          /\ executed' = executed /\ latest' = latest
      BY <1>6, <2>3, <2>6 DEF Prepared, Go
    <3>2. InHand' = InHand \ {selected}
      BY <1>1, <1>2, <2>1, <2>2, <3>1
    <3>3. Reason(selected)
      BY <1>1, <1>2, <1>6, <2>1, <2>3 DEF Reason, SharesDomain
    <3>4. Answered'
      BY <1>1, <2>1, <3>1, <3>2, <3>3, OneAnswer, ReasonStays DEF Status
    <3>5. IsReplaceable(n)
      BY <2>3 DEF SharesDomain, IsReplaceable
    <3>6. Holds'
      BY <1>1, <1>2, <3>1, <3>5 DEF Holds, Steps, Gen, IsReplaceable
    <3>7. SinceStop' /\ Orderly' /\ Older'
      BY <1>1, <1>2, <3>1, <3>2, SinceStopStays, OrderlyStays, OlderStays
    <3> QED BY <3>1, <3>4, <3>6, <3>7, NothingFresh DEF AfterRead, Core
  <2>4. CASE ~SharesDomain(selected, n) /\ IsReplaceable(n)
    <3>1. /\ Executes(<<selected>>) /\ Answer(ExecutedResults(<<selected>>))
          /\ mode' = "burst" /\ selected' = n
      BY <1>6, <2>4, <2>6 DEF Prepared, Go
    <3>2. /\ executed' = Append(executed, selected) /\ latest' = Gen(selected)
          /\ AnswerOne(selected, "executed")
      <4>1. executed \in Seq(1 .. Len(doc))
        BY DEF Core, Orderly, InOrder
      <4>2. ToSet(<<selected>>) = {selected}
        BY DEF ToSet
      <4>3. Max2(Max2(latest, Gen(selected)), Gen(selected)) = Gen(selected)
        BY <1>2, <2>1 DEF Max2
      <4> QED BY <2>1, <3>1, <4>1, <4>2, <4>3, ExecutedSet
              DEF Executes, ExecutedResults, AnswerOne
    <3>3. InHand' = InHand \ {selected}
      BY <1>1, <1>2, <2>1, <2>2, <3>1
    <3>4. \A h \in InHand' : selected < h
      BY <1>1, <1>2, <3>1, HandsAreSubmissions DEF Core
    <3>5. Answered'
      BY <1>1, <2>1, <3>2, <3>3, OneAnswer DEF Status
    <3>6. Holds'
      BY <1>1, <1>2, <1>6, <2>1, <2>4, <3>1, <3>2 DEF Holds, Steps, Gen, IsReplaceable
    <3>7. SinceStop' /\ Orderly' /\ Older'
      BY <1>1, <1>2, <2>1, <3>2, <3>3, <3>4, SinceStopStays, OrderlyAppends, OlderCommits
    <3> QED BY <2>1, <3>1, <3>2, <3>5, <3>6, <3>7, OneFresh DEF AfterRead, Core
  <2>5. CASE ~SharesDomain(selected, n) /\ ~IsReplaceable(n)
    <3>1. /\ Executes(<<selected, n>>) /\ Answer(ExecutedResults(<<selected, n>>))
          /\ mode' = "idle" /\ selected' = 0
      BY <1>6, <2>5, <2>6 DEF Prepared, Go
    <3> DEFINE first == Append(executed, selected)
               f == [m \in {selected, n} |-> "executed"]
    <3>2. executed \in Seq(1 .. Len(doc)) /\ first \in Seq(1 .. Len(doc))
      BY <2>1 DEF Core, Orderly, InOrder
    <3>3. executed' = Append(first, n)
      BY <1>1, <2>1, <3>1, <3>2 DEF Executes
    <3>4. latest' = Gen(n)
      BY <1>2, <1>6, <2>1, <3>1 DEF Executes, Max2
    <3>5. InHand' = InHand \ {selected, n} /\ InHand' = K
      BY <1>1, <1>2, <2>1, <2>2, <3>1
    <3>6. Answered'
      <4>1. ToSet(<<selected, n>>) = {selected, n}
        BY DEF ToSet
      <4>2. f \in [{selected, n} -> Status] /\ Answer(f)
        BY <3>1, <4>1 DEF ExecutedResults, Status
      <4>3. \A m \in {selected, n} : f[m] # "Cancelled"
        OBVIOUS
      <4> HIDE DEF f
      <4> QED BY <1>1, <2>1, <3>5, <4>2, <4>3, Settles
    <3>7. Orderly'
      <4>1. InHand \in SUBSET (1 .. Len(doc)) /\ InOrder(executed, latest, InHand)
        BY HandsAreSubmissions DEF Core, Orderly
      <4>2. {n} \cup K \in SUBSET InHand /\ \A h \in {n} \cup K : selected < h
        BY <1>1, <1>2, <4>1
      <4>3. InOrder(first, Gen(selected), {n} \cup K)
        BY <1>2, <2>1, <4>1, <4>2, InOrderAppend
      <4> HIDE DEF first
      <4>4. InOrder(Append(first, n), Gen(n), K)
        <5>1. {n} \cup K \in SUBSET (1 .. Len(doc)) /\ K \in SUBSET ({n} \cup K)
          BY <4>1, <4>2
        <5> QED BY <1>1, <1>2, <1>6, <2>1, <4>3, <5>1, InOrderAppend
      <4> QED BY <1>1, <3>3, <3>4, <3>5, <4>4 DEF Orderly, InOrder, Steps, Gen
    <3>8. Holds'
      BY <1>2, <3>1, <3>4 DEF Holds, Steps
    <3>9. SinceStop' /\ Older'
      BY <1>1, <3>4, <3>5, SinceStopStays, OlderCommits
    <3>10. Fresh \subseteq InHand
      <4>1. ToSet(first) = ToSet(executed) \cup {selected}
        BY <2>1, <3>2, ExecutedSet
      <4> HIDE DEF first
      <4>2. ToSet(executed') = ToSet(first) \cup {n}
        BY <1>1, <3>2, <3>3, ExecutedSet
      <4> QED BY <1>1, <2>1, <4>1, <4>2 DEF Fresh
    <3> QED BY <3>1, <3>6, <3>7, <3>8, <3>9, <3>10 DEF AfterRead, Core
  <2> QED BY <2>3, <2>4, <2>5
<1> QED BY <1>2, <1>3, <1>4, <1>5, <1>6 DEF Core, Holds

\* A document whose text came at once.
LEMMA CompleteRead ==
    ASSUME Frames, Core, NEW n, NEW K, Reads(n, K), mode # "txBurst", Complete(n)
    PROVE  AfterRead(n)
<1>1. n \in InHand /\ Steps /\ Gen(n) \in Nat /\ latest \in Nat
  BY Generations DEF Reads, Frames, Core, Holds
<1>2. CASE doc[n].fault = "anonymous" /\ Unowned(n)
  BY <1>2, RefusedRead DEF Unowned, Status
<1>3. CASE Rejected(n, "Failed")
  BY <1>3, RefusedRead DEF Rejected, Status
<1>4. CASE IsStale(n) /\ Rejected(n, "Cancelled")
  <2>1. Reason(n)'
    BY <1>1, <1>4, StaleForReason, ReasonStays, HandsAreSubmissions DEF Core
  <2> QED BY <1>4, <2>1, RefusedRead DEF Rejected, Status
<1>5. CASE ~IsStale(n) /\ Prepared(n)
  BY <1>1, <1>5, PreparedRead DEF IsStale
<1> QED BY <1>2, <1>3, <1>4, <1>5 DEF Complete

\* A document that was begun and does not come to its end, or too late.
LEMMA AbortedRead ==
    ASSUME Frames, Core, NEW n, NEW K, Reads(n, K), mode # "txBurst",
           NEW status \in Status, NEW stopped \in BOOLEAN, Aborted(n, status, stopped),
           status = "Cancelled" => Reason(n), stopped => command.id = "stop"
    PROVE  AfterRead(n)
<1>1. /\ n \in InHand /\ n \in 1 .. Len(doc) /\ Steps /\ stops' = stops
      /\ selected < n /\ \A h \in K : n < h
      /\ K \subseteq InHand /\ InHand \subseteq 1 .. Len(doc)
      /\ InHand = ({selected} \ {0}) \cup {n} \cup K
      /\ InHand' = ({selected'} \ {0}) \cup K
  BY HandsAreSubmissions DEF Reads, Core
<1>2. /\ latest \in Nat /\ Gen(n) \in Nat \ {0} /\ doc \in Seq(Doc)
      /\ mode = "idle" <=> selected = 0
      /\ selected \in 0 .. Len(doc)
      /\ selected # 0 => Gen(selected) \in Nat /\ Gen(selected) > latest
  BY <1>1, Generations DEF Frames, Core, Holds
<1>3. status = "Cancelled" => Reason(n)'
  BY <1>1, ReasonStays
<1>4. CASE mode = "idle"
  <2>1. /\ AnswerOne(n, status) /\ mode' = mode /\ selected' = selected
        /\ executed' = executed /\ latest' = Max2(latest, Gen(n))
    BY <1>4 DEF Aborted, Commit, KeepBurst
  <2>2. latest' \in {latest, Gen(n)} /\ latest' >= latest /\ latest' \in Nat
    BY <1>2, <2>1, MaxIs
  <2>3. InHand' = InHand \ {n} /\ InHand' = K
    BY <1>1, <1>2, <1>4, <2>1
  <2>4. Answered'
    BY <1>1, <1>3, <2>1, <2>3, OneAnswer
  <2>5. Older'
    <3>1. CASE latest' = latest
      BY <1>1, <2>3, <3>1, OlderStays
    <3>2. CASE latest' = Gen(n)
      BY <1>1, <2>3, <3>2, OlderCommits
    <3> QED BY <2>2, <3>1, <3>2
  <2>6. Holds'
    BY <1>1, <1>2, <1>4, <2>1, <2>2 DEF Holds, Steps
  <2>7. SinceStop' /\ Orderly'
    BY <1>1, <2>1, <2>2, <2>3, SinceStopStays, OrderlyStays
  <2> QED BY <2>1, <2>4, <2>5, <2>6, <2>7, NothingFresh DEF AfterRead, Core
<1>5. CASE mode # "idle"
  <2> DEFINE fate == [m \in {selected} |-> IF stopped THEN "Cancelled" ELSE "executed"]
             f == Merge([m \in {n} |-> status], fate)
  <2>1. /\ latest' = Max2(latest, Max2(Gen(n), Gen(selected)))
        /\ Answer(f) /\ mode' = "idle" /\ selected' = 0
        /\ executed' = IF stopped THEN executed ELSE Append(executed, selected)
    BY <1>5 DEF Aborted, Commit, Go
  <2>2. /\ selected \in InHand /\ selected \in 1 .. Len(doc) /\ selected # n
        /\ Gen(selected) \in Nat /\ Gen(selected) > latest
    BY <1>1, <1>2, <1>5
  <2>3. /\ latest' \in {Gen(selected), Gen(n)} /\ latest' \in Nat
        /\ latest' >= latest /\ latest' >= Gen(selected)
    BY <1>2, <2>1, <2>2 DEF Max2
  <2>4. InHand' = InHand \ {selected, n} /\ InHand' = K
    BY <1>1, <1>2, <2>1, <2>2
  <2>5. \A h \in K : selected < h
    BY <1>1, <2>2
  <2>6. Answered'
    <3>1. DOMAIN f = {selected, n} /\ f[n] = status
      BY DEF Merge
    <3>2. f[selected] = IF stopped THEN "Cancelled" ELSE "executed"
      BY <2>2 DEF Merge
    <3>3. f \in [{selected, n} -> Status]
      BY <3>1, <3>2 DEF Status, Merge
    <3> HIDE DEF f
    <3>5. ASSUME NEW m \in {selected, n}, f[m] = "Cancelled"
          PROVE  Reason(m)'
      <4>1. CASE m = n
        BY <1>3, <3>1, <3>5, <4>1
      <4>2. CASE m = selected /\ stopped
        <5>1. Reason(m)
          BY <4>2 DEF Reason
        <5> QED BY <1>1, <2>2, <4>2, <5>1, ReasonStays
      <4> QED BY <3>2, <3>5, <4>1, <4>2
    <3> QED BY <1>1, <2>1, <2>2, <2>4, <3>3, <3>5, Settles
  <2>7. Orderly' /\ Fresh \subseteq InHand
    <3>1. CASE stopped
      BY <1>1, <2>1, <2>3, <2>4, <3>1, OrderlyStays, NothingFresh
    <3>2. CASE ~stopped
      BY <1>1, <2>1, <2>2, <2>3, <2>4, <2>5, <3>2, OrderlyAppends, OneFresh
    <3> QED BY <3>1, <3>2
  <2>8. Older'
    BY <1>1, <2>2, <2>3, <2>4, <2>5, OlderCommits
  <2>9. Holds'
    BY <2>1, <2>3, <1>1, <1>2 DEF Holds, Steps
  <2>10. SinceStop'
    BY <1>1, <2>4, SinceStopStays
  <2> QED BY <2>1, <2>6, <2>7, <2>8, <2>9, <2>10 DEF AfterRead, Core
<1> QED BY <1>4, <1>5

\* The last frame of a document.
LEMMA FinishRead ==
    ASSUME Frames, Core, NEW n, NEW K, Reads(n, K), mode # "txBurst", Finish(n)
    PROVE  AfterRead(n)
<1>1. n \in InHand /\ Gen(n) \in Nat /\ latest \in Nat
  BY Generations DEF Reads, Frames, Core, Holds
<1>2. CASE Aborted(n, "Failed", FALSE)
  BY <1>2, AbortedRead DEF Status
<1>3. CASE IsStale(n) /\ Aborted(n, "Cancelled", FALSE)
  BY <1>1, <1>3, AbortedRead, StaleForReason DEF Status
<1>4. CASE Rejected(n, "Failed")
  BY <1>4, RefusedRead DEF Rejected, Status
<1>5. CASE ~IsStale(n) /\ Prepared(n)
  BY <1>1, <1>5, PreparedRead DEF IsStale
<1> QED BY <1>2, <1>3, <1>4, <1>5 DEF Finish

----------------------------------------------------------
(* A burst ends *)

\* What the burst holds is executed or discarded, in favour of what was
\* received after it; a stop comes only when nothing was.
LEMMA HeldEnds ==
    ASSUME Frames, Core, Steps, selected # 0, assembling = 0, assembling' = 0,
           NEW held, held = selected, NEW status \in Status, AnswerOne(held, status),
           latest' = Max2(latest, Gen(selected)), mode' = "idle", selected' = 0,
           executed' = executed \/ executed' = Append(executed, selected),
           status = "Cancelled" => Reason(held)',
           \/ stops' = stops /\ command' = command
           \/ command.id # "doc" /\ command' = None
    PROVE  Core' /\ Fresh \subseteq InHand
<1> DEFINE K == IF command.id = "doc" THEN {command.n} ELSE {}
<1>1. /\ selected \in InHand /\ selected \in 1 .. Len(doc) /\ Gen(selected) \in Nat
      /\ latest \in Nat /\ Gen(selected) > latest /\ K \subseteq 1 .. Len(doc)
  BY HandsAreSubmissions, Generations DEF Frames, Core, Holds, InHand
<1>2. \A h \in K : selected < h
  BY DEF Frames
<1>3. InHand' = K /\ InHand' = InHand \ {selected}
  <2>1. InHand = {selected} \cup K
    BY DEF InHand
  <2>2. InHand' = K
    BY DEF InHand, None
  <2>3. selected \notin K
    BY <1>1, <1>2
  <2> QED BY <2>1, <2>2, <2>3
<1>4. latest' = Gen(selected)
  BY <1>1 DEF Max2
<1>5. Answered'
  BY <1>1, <1>3, OneAnswer
<1>6. Orderly' /\ Fresh \subseteq InHand
  <2>1. CASE executed' = executed
    BY <1>1, <1>3, <1>4, <2>1, OrderlyStays, NothingFresh
  <2>2. CASE executed' = Append(executed, selected)
    BY <1>1, <1>2, <1>3, <1>4, <2>2, OrderlyAppends, OneFresh
  <2> QED BY <2>1, <2>2
<1>7. Older'
  BY <1>1, <1>2, <1>3, <1>4, OlderCommits
<1>8. Holds'
  BY <1>1, <1>4 DEF Holds, Steps, Frames
<1>9. SinceStop'
  <2>1. CASE stops' = stops
    BY <1>3, <2>1, SinceStopStays
  <2>2. CASE K = {}
    BY <1>3, <2>2 DEF Core, SinceStop, Steps, Frames
  <2> QED BY <2>1, <2>2
<1> QED BY <1>5, <1>6, <1>7, <1>8, <1>9 DEF Core

----------------------------------------------------------
(* Each step keeps the invariant and executes only what is in hand *)

Kept == Frames' /\ Core' /\ Fresh \subseteq InHand

\* The loop takes or defers a command and reads no document any more.
LEMMA FramesSettle ==
    ASSUME Frames, Steps, Holds', assembling' = 0, next_part' \in {0, next_part},
           command' \in {command, None},
           command' = command /\ command.id = "doc" => selected' < command.n
    PROVE  Frames'
<1>1. CASE command' = command
  <2>1. command.id = "doc" => 0 < command.n
    BY DEF Frames
  <2> QED BY <1>1, <2>1, AdmissionAssumption DEF Frames, Steps, Holds
<1>2. CASE command' = None
  BY <1>2, AdmissionAssumption DEF Frames, Steps, Holds, Commands, None
<1> QED BY <1>1, <1>2

\* Nothing but the command and the frames of a document changes.
LEMMA Untouched ==
    ASSUME Frames, Core, Steps, InHand' = InHand, stops' = stops \/ InHand = {},
           UNCHANGED <<mode, selected, latest, executed, results>>
    PROVE  Core' /\ Fresh \subseteq InHand
<1>1. Answered'
  BY SettlesNone
<1>2. Orderly' /\ Older'
  BY OrderlyStays, OlderStays DEF Core, Holds
<1>3. SinceStop'
  <2>1. CASE stops' = stops
    BY <2>1, SinceStopStays
  <2>2. CASE InHand = {}
    BY <2>2 DEF Core, SinceStop, Steps, Frames
  <2> QED BY <2>1, <2>2
<1>4. Holds'
  BY DEF Core, Holds, Steps, Gen, IsReplaceable
<1> QED BY <1>1, <1>2, <1>3, <1>4, NothingFresh DEF Core

\* What the loop does with a complete document.
LEMMA KeptRead ==
    ASSUME Frames, Core, NEW n, NEW K, Reads(n, K), AfterRead(n),
           assembling' = 0, next_part' \in {0, next_part}, command' \in {command, None},
           command' = command /\ command.id = "doc" => n < command.n
    PROVE  Kept
<1>1. command.id = "doc" => selected < command.n /\ command.n \in Nat
  BY DEF Frames
<1>2. command' = command /\ command.id = "doc" => selected' < command.n
  BY <1>1 DEF AfterRead, Frames
<1>3. Frames'
  BY <1>2, FramesSettle DEF Reads, AfterRead, Core
<1> QED BY <1>3 DEF Kept, AfterRead

LEMMA KeptDocument ==
    ASSUME Frames, Core, ReadTimeline \/ HandleLetter
    PROVE  Kept
<1>1. PICK n : n = command.n
  OBVIOUS
<1>2. /\ mode # "txBurst" /\ assembling = 0 /\ command.id = "doc"
      /\ Complete(n) /\ command' = None /\ assembling' = 0 /\ next_part' = next_part
      /\ doc' = doc /\ arrived_at' = arrived_at /\ stops' = stops
  BY <1>1 DEF ReadTimeline, HandleLetter, InLoop, IsDoc, Consumed, KeepRead, Handling
<1>3. Reads(n, {})
  BY <1>1, <1>2 DEF Reads, Steps, InHand, Frames, None
<1>4. AfterRead(n)
  BY <1>2, <1>3, CompleteRead
<1>5. ~(command' = command) /\ command' \in {command, None} /\ next_part' \in {0, next_part}
  BY <1>2 DEF None
<1> QED BY <1>2, <1>3, <1>4, <1>5, KeptRead

LEMMA KeptStartParts ==
    ASSUME Frames, Core, StartParts
    PROVE  Kept
<1>1. /\ mode # "txBurst" /\ assembling = 0 /\ command.id = "doc"
      /\ command' = None /\ assembling' = command.n /\ next_part' = 1
      /\ doc' = doc /\ arrived_at' = arrived_at /\ stops' = stops
      /\ UNCHANGED <<mode, selected, latest, executed, results>>
  BY DEF StartParts, InLoop, IsDoc, Consumed, KeepBurst, Handling
<1>2. Steps /\ InHand' = InHand
  BY <1>1 DEF Steps, InHand, Frames, None
<1>3. Core' /\ Fresh \subseteq InHand
  BY <1>1, <1>2, Untouched
<1>4. Frames'
  BY <1>1, AdmissionAssumption DEF Frames, Commands, None
<1> QED BY <1>3, <1>4 DEF Kept

LEMMA KeptPushPart ==
    ASSUME Frames, Core, PushPart
    PROVE  Kept
<1>1. /\ mode # "txBurst" /\ assembling # 0 /\ command.id = "part" /\ selected < assembling
      /\ command' = None /\ doc' = doc /\ arrived_at' = arrived_at /\ stops' = stops
  BY DEF PushPart, Fits, Frames, Consumed, Handling
<1>2. Steps
  BY <1>1 DEF Steps, Frames
<1>3. CASE next_part + 1 = PartCount
  <2>1. Finish(assembling) /\ assembling' = 0 /\ next_part' = 0
    BY <1>3 DEF PushPart, ReadDone
  <2>2. Reads(assembling, {})
    BY <1>1, <1>2, <2>1 DEF Reads, InHand, Frames, None
  <2>3. AfterRead(assembling)
    BY <1>1, <2>1, <2>2, FinishRead
  <2> QED BY <1>1, <2>1, <2>2, <2>3, KeptRead DEF None
<1>4. CASE next_part + 1 # PartCount
  <2>1. /\ next_part' = next_part + 1 /\ assembling' = assembling
        /\ UNCHANGED <<mode, selected, latest, executed, results>>
    BY <1>4 DEF PushPart, KeepBurst
  <2>2. InHand' = InHand
    BY <1>1, <2>1 DEF InHand, None
  <2>3. Core' /\ Fresh \subseteq InHand
    BY <1>1, <1>2, <2>1, <2>2, Untouched
  <2>4. next_part' \in 0 .. PartCount - 1
    BY <1>4, <2>1, AdmissionAssumption DEF Frames
  <2>5. Frames'
    BY <1>1, <2>1, <2>4 DEF Frames, Commands, None
  <2> QED BY <2>3, <2>5 DEF Kept
<1> QED BY <1>3, <1>4

\* A document is broken off by another command, a timeout or the end of input.
LEMMA KeptBroken ==
    ASSUME Frames, Core, BreakParts \/ PartsTimeout \/ PartsClosed
    PROVE  Kept
<1> DEFINE K == IF command.id = "doc" THEN {command.n} ELSE {}
<1>1. /\ mode # "txBurst" /\ assembling # 0 /\ selected < assembling
      /\ assembling' = 0 /\ next_part' = 0
      /\ doc' = doc /\ arrived_at' = arrived_at /\ stops' = stops
  BY DEF BreakParts, PartsTimeout, PartsClosed, ReadDone, Frames, Handling
<1>2. /\ command' \in {command, None}
      /\ command.id \in {"doc", "stop"} => command' = command
  BY DEF BreakParts, PartsTimeout, PartsClosed, Consumed, Deferred
<1>3. Steps
  BY <1>1, <1>2 DEF Steps, Frames
<1>4. Reads(assembling, K)
  <2>1. K \subseteq 1 .. Len(doc) /\ \A h \in K : assembling < h
    BY DEF Frames
  <2>2. assembling \in 1 .. Len(doc)
    BY <1>1 DEF Frames
  <2>3. InHand = ({selected} \ {0}) \cup {assembling} \cup K
    BY <1>1 DEF InHand
  <2>4. InHand' = ({selected'} \ {0}) \cup K
    BY <1>1, <1>2 DEF InHand, None
  <2> QED BY <1>1, <1>3, <2>1, <2>2, <2>3, <2>4 DEF Reads
<1> HIDE DEF K
<1>5. AfterRead(assembling)
  <2>1. CASE command.id = "stop" /\ Aborted(assembling, "Cancelled", TRUE)
    <3>1. Reason(assembling)
      BY <2>1 DEF Reason
    <3> QED BY <1>1, <1>4, <2>1, <3>1, AbortedRead DEF Status
  <2>2. CASE Aborted(assembling, "Failed", FALSE)
    BY <1>1, <1>4, <2>2, AbortedRead DEF Status
  <2> QED BY <2>1, <2>2 DEF BreakParts, PartsTimeout, PartsClosed
<1>6. command' = command /\ command.id = "doc" => assembling < command.n
  BY DEF Frames
<1> QED BY <1>1, <1>2, <1>4, <1>5, <1>6, KeptRead

\* What a burst holds is executed when it ends.
LEMMA KeptRelease ==
    ASSUME Frames, Core, EndsBurst \/ BurstTimeout \/ BurstClosed
    PROVE  Kept
<1>1. /\ mode # "idle" /\ assembling = 0 /\ assembling' = 0 /\ next_part' = next_part
      /\ doc' = doc /\ arrived_at' = arrived_at /\ stops' = stops /\ command' = command
      /\ mode' = "idle" /\ selected' = 0 /\ Release
  BY DEF EndsBurst, BurstTimeout, BurstClosed, InBurst, Release, Go, KeepRead, Handling, Deferred
<1>2. /\ Steps /\ selected # 0 /\ selected \in 1 .. Len(doc)
      /\ Gen(selected) \in Nat /\ latest \in Nat
  BY <1>1, Generations DEF Steps, Frames, Core, Holds
<1>3. PICK status \in {"executed", "discarded"} :
          /\ AnswerOne(selected, status)
          /\ latest' = Max2(latest, Gen(selected))
          /\ executed' = executed \/ executed' = Append(executed, selected)
  <2>1. CASE mode = "txBurst"
    BY <1>1, <2>1 DEF Release, ExecuteTx, Commit
  <2>2. CASE mode # "txBurst"
    <3>1. Executes(<<selected>>) /\ Answer(ExecutedResults(<<selected>>))
      BY <1>1, <2>2 DEF Release
    <3>2. ToSet(<<selected>>) = {selected}
      BY DEF ToSet
    <3>3. executed' = Append(executed, selected)
      <4>1. executed \in Seq(1 .. Len(doc))
        BY DEF Core, Orderly, InOrder
      <4> QED BY <1>2, <3>1, <4>1, ExecutedSet DEF Executes
    <3>4. latest' = Max2(latest, Gen(selected))
      BY <1>2, <3>1 DEF Executes, Max2
    <3>5. AnswerOne(selected, "executed")
      BY <3>1, <3>2 DEF ExecutedResults, AnswerOne
    <3> QED BY <3>3, <3>4, <3>5
  <2> QED BY <2>1, <2>2
<1>4. Core' /\ Fresh \subseteq InHand
  <2>1. \E held : held = selected
    OBVIOUS
  <2>2. status \in Status /\ status # "Cancelled"
    BY DEF Status
  <2> QED BY <1>1, <1>2, <1>3, <2>1, <2>2, HeldEnds
<1>5. Frames'
  BY <1>1, <1>2, <1>4, FramesSettle DEF Core, Frames
<1> QED BY <1>4, <1>5 DEF Kept

\* A stop discards what a burst holds.
LEMMA KeptStopBarrier ==
    ASSUME Frames, Core, StopBarrier
    PROVE  Kept
<1>1. /\ mode # "idle" /\ assembling = 0 /\ assembling' = 0 /\ next_part' = next_part
      /\ doc' = doc /\ arrived_at' = arrived_at /\ stops' = stops + 1
      /\ command.id = "stop" /\ command' = None /\ mode' = "idle" /\ selected' = 0
      /\ latest' = Max2(latest, Gen(selected)) /\ executed' = executed
  BY DEF StopBarrier, InBurst, Go, KeepRead, Handling, Consumed, Commit
<1>2. Steps /\ stops \in Nat /\ selected # 0 /\ selected \in 1 .. Len(doc)
  BY <1>1 DEF Steps, Frames, Core, Holds
<1>3. PICK status \in {"Cancelled", "discarded"} : AnswerOne(selected, status)
  BY DEF StopBarrier
<1>4. PICK held : held = selected
  OBVIOUS
<1>5. Reason(held)'
  <2>1. Reason(held)
    BY <1>1 DEF Reason
  <2> QED BY <1>2, <1>4, <2>1, ReasonStays
<1>6. Core' /\ Fresh \subseteq InHand
  BY <1>1, <1>2, <1>3, <1>4, <1>5, HeldEnds DEF Status
<1>7. Frames'
  <2>1. ~(command' = command)
    BY <1>1 DEF None
  <2> QED BY <1>1, <1>2, <1>6, <2>1, FramesSettle DEF Core
<1> QED BY <1>6, <1>7 DEF Kept

\* A framed transaction is held, or replaces the one held, or is ignored.
LEMMA KeptCoalesceTx ==
    ASSUME Frames, Core, CoalesceTx
    PROVE  Kept
<1>1. PICK n : n = command.n
  OBVIOUS
<1> DEFINE wins == /\ doc[n].fault = "none" /\ ~IsStale(n)
                   /\ mode = "idle" \/ Gen(n) > Gen(selected)
<1>2. /\ mode \in {"idle", "txBurst"} /\ assembling = 0 /\ command.id = "doc"
      /\ command' = None /\ assembling' = 0 /\ next_part' = next_part
      /\ doc' = doc /\ arrived_at' = arrived_at /\ stops' = stops
      /\ latest' = latest /\ executed' = executed
  BY DEF CoalesceTx, IsDoc, KeepRead, Handling, Consumed
<1>3. /\ n \in 1 .. Len(doc) /\ selected < n /\ Steps
      /\ InHand = ({selected} \ {0}) \cup {n} /\ InHand' = {selected'} \ {0}
      /\ selected \in 0 .. Len(doc) /\ latest \in Nat
  BY <1>1, <1>2 DEF Frames, Core, Holds, Steps, InHand, None
<1>4. Frames' /\ Core' /\ Fresh \subseteq InHand
  <2>1. CASE ~wins
    <3>1. AnswerOne(n, "ignored") /\ KeepBurst
      BY <1>1, <2>1 DEF CoalesceTx
    <3>2. Reads(n, {})
      BY <1>2, <1>3, <3>1 DEF Reads, KeepBurst
    <3>3. AfterRead(n)
      BY <1>2, <3>1, <3>2, RefusedRead DEF Status
    <3>4. ~(command' = command) /\ command' \in {command, None} /\ next_part' \in {0, next_part}
      BY <1>2 DEF None
    <3> QED BY <1>2, <3>2, <3>3, <3>4, KeptRead DEF Kept
  <2>2. CASE wins
    <3>1. /\ mode' = "txBurst" /\ selected' = n
          /\ IF mode = "idle" THEN results' = results ELSE AnswerOne(selected, "ignored")
      BY <1>1, <2>2 DEF CoalesceTx, Go, NoAnswer
    <3>2. Gen(n) \in Nat /\ Gen(n) > latest
      BY <1>3, <2>2, Generations DEF IsStale, Frames
    <3>3. Holds'
      BY <1>2, <1>3, <3>1, <3>2 DEF Holds, Steps, Gen, IsReplaceable
    <3>4. Answered' /\ InHand' \subseteq InHand
      <4>1. CASE mode = "idle"
        <5>1. InHand' = InHand
          BY <1>3, <3>1, <4>1 DEF Core, Holds
        <5> QED BY <1>3, <3>1, <4>1, <5>1, SettlesNone
      <4>2. CASE mode # "idle"
        <5>1. selected \in InHand /\ InHand' = InHand \ {selected}
          BY <1>3, <3>1, <4>2 DEF Core, Holds
        <5> QED BY <1>3, <3>1, <4>2, <5>1, OneAnswer DEF Status
      <4> QED BY <4>1, <4>2
    <3>5. SinceStop' /\ Orderly' /\ Older' /\ Fresh \subseteq InHand
      BY <1>2, <1>3, <3>4, SinceStopStays, OrderlyStays, OlderStays, NothingFresh
    <3>6. Core'
      BY <3>3, <3>4, <3>5 DEF Core
    <3>7. Frames'
      <4>1. ~(command' = command) /\ command' \in {command, None}
        BY <1>2 DEF None
      <4> QED BY <1>2, <1>3, <3>3, <4>1, FramesSettle
    <3> QED BY <3>5, <3>6, <3>7
  <2> QED BY <2>1, <2>2
<1> QED BY <1>4 DEF Kept

\* The commands that touch no submission.
LEMMA KeptOther ==
    ASSUME Frames, Core,
           StrayPart \/ HandleStop \/ HandleQueue \/ HandleDispatch \/ IdleClosed
    PROVE  Kept
<1>1. /\ assembling = 0 /\ assembling' = 0 /\ next_part' = next_part /\ command.id # "doc"
      /\ doc' = doc /\ arrived_at' = arrived_at /\ command' = None
      /\ UNCHANGED <<mode, selected, latest, executed, results>>
  BY DEF StrayPart, HandleStop, HandleQueue, HandleDispatch, IdleClosed, InLoop, Idle,
         KeepBurst, KeepRead, Handling, Consumed, None
<1>2. \/ stops' = stops /\ command.id # "stop"
      \/ stops' = stops + 1 /\ mode = "idle"
  BY DEF StrayPart, HandleStop, HandleQueue, HandleDispatch, IdleClosed, Idle, None
<1>3. Steps /\ InHand' = InHand /\ (stops' = stops \/ InHand = {})
  <2>1. Steps
    BY <1>1, <1>2 DEF Steps, Frames
  <2>2. InHand = {selected} \ {0} /\ InHand' = {selected} \ {0}
    BY <1>1 DEF InHand, None
  <2>3. mode = "idle" => selected = 0
    BY DEF Core, Holds
  <2> QED BY <1>2, <2>1, <2>2, <2>3
<1>4. Core' /\ Fresh \subseteq InHand
  BY <1>1, <1>3, Untouched
<1>5. Frames'
  BY <1>1, <1>3, <1>4, FramesSettle DEF Core, None
<1> QED BY <1>4, <1>5 DEF Kept

\* A new submission is the youngest one in hand.
LEMMA KeptReceiveDoc ==
    ASSUME Frames, Core, NEW d \in Doc, ReceiveDoc(d)
    PROVE  Kept
<1> DEFINE new == Len(doc) + 1
<1>1. /\ command = None /\ command' = [id |-> "doc", n |-> new]
      /\ doc' = Append(doc, d) /\ results' = Append(results, <<>>)
      /\ arrived_at' = Append(arrived_at, stops)
      /\ latest' = latest /\ mode' = mode /\ selected' = selected
      /\ assembling' = assembling /\ next_part' = next_part
      /\ executed' = executed /\ stops' = stops
  BY DEF ReceiveDoc, CanReceive, ReceiveKeeps
<1>2. /\ Len(doc) \in Nat /\ Len(doc') = new /\ doc' \in Seq(Doc)
      /\ \A n \in 1 .. Len(doc) : doc'[n] = doc[n]
  BY <1>1 DEF Frames
<1>3. /\ arrived_at' \in Seq(Nat) /\ Len(arrived_at') = new /\ stops \in Nat
      /\ \A n \in 1 .. Len(doc) : arrived_at'[n] = arrived_at[n]
      /\ arrived_at'[new] = stops
  BY <1>1 DEF Frames
<1>4. InHand \subseteq 1 .. Len(doc) /\ InHand' = InHand \cup {new}
  BY <1>1, HandsAreSubmissions DEF InHand, None, Core
<1>5. Frames'
  BY <1>1, <1>2, <1>3 DEF Frames, Commands, Core, Holds
<1>6. \A n \in 1 .. Len(doc) : /\ Gen(n)' = Gen(n) /\ n \in 1 .. Len(doc')
                              /\ (IsReplaceable(n) <=> IsReplaceable(n)')
  BY <1>2 DEF Gen, IsReplaceable
<1>7. Holds'
  BY <1>1, <1>2, <1>6 DEF Core, Holds, Gen, IsReplaceable
<1>8. SinceStop'
  BY SMTT(60), <1>1, <1>2, <1>3, <1>4 DEF Core, SinceStop
<1>9. Answered'
  <2>1. /\ results \in Seq(Seq(Status)) /\ Len(results) = Len(doc)
    BY DEF Core, Answered
  <2>2. <<>> \in Seq(Status)
    OBVIOUS
  <2>3. results' \in Seq(Seq(Status)) /\ Len(results') = Len(doc')
    BY <1>1, <1>2, <2>1, <2>2
  <2>4. /\ results'[new] = <<>> /\ \A n \in 1 .. Len(doc) : results'[n] = results[n]
    BY <1>1, <2>1
  <2>5. ASSUME NEW n \in 1 .. Len(doc), Reason(n)
        PROVE  Reason(n)'
    <3>1. CASE stops > arrived_at[n] \/ command.id = "stop"
      BY <1>1, <1>3, <3>1 DEF Reason, None
    <3>2. CASE \E m \in 1 .. Len(doc) :
                  /\ m # n /\ Gen(m) >= Gen(n)
                  /\ m < n \/ (IsReplaceable(n) /\ doc[m].domain = doc[n].domain)
      <4>1. PICK m \in 1 .. Len(doc) :
                  /\ m # n /\ Gen(m) >= Gen(n)
                  /\ m < n \/ (IsReplaceable(n) /\ doc[m].domain = doc[n].domain)
        BY <3>2
      <4>2. /\ Gen(m)' = Gen(m) /\ Gen(n)' = Gen(n) /\ m \in 1 .. Len(doc')
            /\ (IsReplaceable(n) <=> IsReplaceable(n)')
            /\ doc'[m] = doc[m] /\ doc'[n] = doc[n]
        BY <1>2, <1>6
      <4> QED BY <4>1, <4>2 DEF Reason
    <3> QED BY <2>5, <3>1, <3>2 DEF Reason
  <2>6. ASSUME NEW n \in 1 .. Len(doc')
        PROVE  /\ Len(results'[n]) = IF n \in InHand' THEN 0 ELSE 1
               /\ results'[n] = <<"Cancelled">> /\ doc'[n].fault = "none" => Reason(n)'
    <3>1. CASE n = new
      <4>1. Len(results'[n]) = 0
        BY <2>4, <3>1
      <4> QED BY SMTT(60), <1>4, <3>1, <4>1
    <3>2. CASE n \in 1 .. Len(doc)
      <4>1. results'[n] = results[n] /\ (n \in InHand' <=> n \in InHand) /\ doc'[n] = doc[n]
        BY <1>2, <1>4, <2>4, <3>2
      <4>2. Len(results[n]) = IF n \in InHand THEN 0 ELSE 1
        BY <3>2 DEF Core, Answered
      <4>3. results[n] = <<"Cancelled">> /\ doc[n].fault = "none" => Reason(n)
        BY <3>2 DEF Core, Answered
      <4> QED BY <2>5, <3>2, <4>1, <4>2, <4>3
    <3> QED BY <1>2, <3>1, <3>2
  <2> QED BY <2>3, <2>6 DEF Answered
<1>10. Orderly'
  <2>1. /\ executed \in Seq(1 .. Len(doc)) /\ InOrder(executed, latest, InHand)
    BY DEF Core, Orderly, InOrder
  <2>2. \A i \in 1 .. Len(executed) : executed[i] \in 1 .. Len(doc)
    BY <2>1
  <2>3. executed \in Seq(1 .. Len(doc'))
    BY <1>2, <2>1
  <2>4. \A i \in 1 .. Len(executed) : \A h \in InHand' : executed[i] < h
    <3> SUFFICES ASSUME NEW i \in 1 .. Len(executed), NEW h \in InHand'
                 PROVE  executed[i] < h
      OBVIOUS
    <3>1. CASE h \in InHand
      BY <2>1, <3>1 DEF InOrder
    <3>2. CASE h = new
      BY <1>2, <2>2, <3>2
    <3> QED BY <1>4, <3>1, <3>2
  <2>5. \A i \in 1 .. Len(executed) : doc'[executed[i]] = doc[executed[i]]
    BY <1>2, <2>2
  <2> QED BY <1>1, <2>1, <2>3, <2>4, <2>5 DEF Orderly, InOrder, Gen
<1>11. Older'
  <2>1. CASE latest = 0
    BY <1>1, <2>1 DEF Older, OfOlder
  <2>2. CASE latest # 0
    <3>1. PICK m \in 1 .. Len(doc) : Gen(m) = latest /\ \A h \in InHand : m < h
      BY <2>2 DEF Core, Older, OfOlder
    <3>2. m \in 1 .. Len(doc') /\ doc'[m] = doc[m] /\ \A h \in InHand' : m < h
      BY <1>2, <1>4, <3>1
    <3> QED BY <1>1, <3>1, <3>2 DEF Older, OfOlder, Gen
  <2> QED BY <2>1, <2>2
<1>12. Fresh \subseteq InHand
  BY <1>1, NothingFresh
<1> QED BY <1>5, <1>7, <1>8, <1>9, <1>10, <1>11, <1>12 DEF Kept, Core

LEMMA KeptReceiveOther ==
    ASSUME Frames, Core,
           ReceiveLegacy \/ \E n \in Submissions, i \in 1 .. PartCount - 1 : ReceivePart(n, i)
    PROVE  Kept
<1>1. /\ command = None /\ command' \in Commands /\ command'.id # "doc"
      /\ doc' = doc /\ arrived_at' = arrived_at /\ stops' = stops
      /\ assembling' = assembling /\ next_part' = next_part
      /\ UNCHANGED <<mode, selected, latest, executed, results>>
  <2>1. CASE ReceiveLegacy
    BY <2>1 DEF ReceiveLegacy, CanReceive, ReceiveKeeps, Commands
  <2>2. CASE \E n \in Submissions, i \in 1 .. PartCount - 1 : ReceivePart(n, i)
    <3>1. PICK n \in Submissions, i \in 1 .. PartCount - 1 : ReceivePart(n, i)
      BY <2>2
    <3>2. n \in Nat /\ i \in Nat
      BY AdmissionAssumption DEF Submissions, Frames
    <3> QED BY <3>1, <3>2 DEF ReceivePart, CanReceive, ReceiveKeeps, Commands
  <2> QED BY <2>1, <2>2
<1>2. Steps /\ InHand' = InHand
  BY <1>1 DEF Steps, Frames, InHand, None
<1>3. Core' /\ Fresh \subseteq InHand
  BY <1>1, <1>2, Untouched
<1>4. Frames'
  BY <1>1 DEF Frames
<1> QED BY <1>3, <1>4 DEF Kept

LEMMA KeptStutter ==
    ASSUME Frames, Core, UNCHANGED vars
    PROVE  Kept
<1>1. Steps /\ InHand' = InHand
  BY DEF vars, Steps, Frames, InHand
<1>2. Core' /\ Fresh \subseteq InHand
  BY <1>1, Untouched DEF vars
<1>3. Frames'
  BY DEF vars, Frames
<1> QED BY <1>2, <1>3 DEF Kept

LEMMA KeptStep ==
    ASSUME Frames, Core, [Next]_vars
    PROVE  Kept
<1>1. CASE Receive
  BY <1>1, KeptReceiveDoc, KeptReceiveOther DEF Receive
<1>2. CASE Handle
  BY <1>2, KeptDocument, KeptStartParts, KeptPushPart, KeptBroken, KeptRelease,
     KeptStopBarrier, KeptCoalesceTx, KeptOther DEF Handle
<1>3. CASE Wait
  BY <1>3, KeptBroken, KeptRelease, KeptOther DEF Wait
<1>4. CASE UNCHANGED vars
  BY <1>4, KeptStutter
<1> QED BY <1>1, <1>2, <1>3, <1>4 DEF Next, Exit

----------------------------------------------------------
(* The pending legacy transaction *)

LEMMA WholeStep ==
    ASSUME BatchInHand, [Next]_vars
    PROVE  BatchInHand'
<1>1. CASE KeepBatch
  BY <1>1 DEF BatchInHand, PendingIsWhole, KeepBatch
<1>2. CASE EmptyBatch
  <2>1. pending' = 0 /\ pushed' = 0 /\ ~overflow' /\ overflow' \in BOOLEAN
    BY <1>2 DEF EmptyBatch
  <2>2. PendingIsWhole'
    BY <2>1 DEF PendingIsWhole
  <2> QED BY <2>1, <2>2, AdmissionAssumption DEF BatchInHand
<1>3. CASE Push
  <2>1. /\ pending \in 0 .. MaxPending /\ pushed \in Nat /\ overflow \in BOOLEAN
        /\ overflow => pushed > MaxPending /\ pending = 0
        /\ ~overflow => pending = pushed
    BY DEF BatchInHand, PendingIsWhole
  <2>2. /\ pushed' = pushed + 1 /\ overflow' \in BOOLEAN
        /\ overflow' <=> overflow \/ pending + 1 > MaxPending
        /\ overflow' => pending' = 0
        /\ ~overflow' => pending' = pending + 1
    BY <1>3 DEF Push
  <2>3. /\ overflow' => pushed' > MaxPending /\ pending' = 0
        /\ ~overflow' => pending' = pushed' /\ pending' \in 0 .. MaxPending
    BY <2>1, <2>2, AdmissionAssumption
  <2>4. PendingIsWhole'
    BY <2>3 DEF PendingIsWhole
  <2> QED BY <2>1, <2>2, <2>3, <2>4, AdmissionAssumption DEF BatchInHand
<1>4. KeepBatch \/ EmptyBatch \/ Push
  <2>1. CASE Receive
    BY <2>1 DEF Receive, ReceiveDoc, ReceivePart, ReceiveLegacy, ReceiveKeeps, KeepBatch
  <2>2. CASE Handle
    BY <2>2 DEF Handle, ReadTimeline, StartParts, StrayPart, PushPart, BreakParts, EndsBurst,
       StopBarrier, CoalesceTx, HandleLetter, HandleStop, HandleQueue, HandleDispatch,
       Release, ExecuteTx
  <2>3. CASE Wait
    BY <2>3 DEF Wait, PartsTimeout, PartsClosed, BurstTimeout, BurstClosed, IdleClosed,
       Release, ExecuteTx, KeepBatch
  <2>4. CASE UNCHANGED vars
    BY <2>4 DEF vars, KeepBatch
  <2> QED BY <2>1, <2>2, <2>3, <2>4 DEF Next, Exit
<1> QED BY <1>1, <1>2, <1>3, <1>4

----------------------------------------------------------
(* Theorems *)

LEMMA AdmissionInit == Init => AInv
<1> SUFFICES ASSUME Init PROVE AInv
  OBVIOUS
<1> USE DEF Init
<1>1. InHand = {}
  BY DEF InHand, None
<1>2. Frames
  BY AdmissionAssumption DEF Frames, Commands, None
<1>3. Holds /\ SinceStop /\ Answered /\ Older
  BY <1>1 DEF Holds, SinceStop, Answered, Older, OfOlder
<1>4. Orderly
  BY <1>1 DEF Orderly, InOrder
<1>5. BatchInHand
  <2>1. pending = 0 /\ pushed = 0 /\ ~overflow /\ overflow \in BOOLEAN
    OBVIOUS
  <2>2. PendingIsWhole
    BY <2>1 DEF PendingIsWhole
  <2> QED BY <2>1, <2>2, AdmissionAssumption DEF BatchInHand
<1> QED BY <1>2, <1>3, <1>4, <1>5 DEF AInv, Core

LEMMA AdmissionStep ==
    ASSUME AInv, [Next]_vars
    PROVE  AInv' /\ Fresh \subseteq InHand
BY KeptStep, WholeStep DEF AInv, Kept

\* The invariant holds in every state (run_server, transaction.rs).
THEOREM AdmissionInvariant == Spec => []AInv
<1>1. AInv /\ [Next]_vars => AInv'
  BY AdmissionStep
<1> QED BY <1>1, AdmissionInit, PTL DEF Spec

LEMMA SoundFromInvariant == AInv => AdmissionSound
<1> SUFFICES ASSUME AInv PROVE AdmissionSound
  OBVIOUS
<1>1. Submissions = 1 .. Len(doc)
  BY DEF AInv, Frames, Submissions
<1>2. OneOutcome
  BY <1>1 DEF AInv, Core, Answered, OneOutcome
<1>3. ExecutedInOrder
  <2>1. DOMAIN executed = 1 .. Len(executed)
    BY DEF AInv, Core, Orderly, InOrder
  <2> QED BY <2>1 DEF AInv, Core, Orderly, InOrder, ExecutedInOrder
<1>4. CancelledForReason
  BY <1>1 DEF AInv, Core, Answered, CancelledForReason, Reason
<1> QED BY <1>2, <1>3, <1>4 DEF AInv, BatchInHand, AdmissionSound

\* Every submission has one outcome, what is executed is executed in the order of
\* arrival, a cancellation has a reason and a legacy transaction is whole
\* (run_server and transaction.rs).
THEOREM AdmissionIsSound == Spec => []AdmissionSound
BY AdmissionInvariant, SoundFromInvariant, PTL

\* Nothing that arrived before a stop is executed after it: what a step executes
\* was in hand, and what is in hand arrived since the last stop (interrupt and
\* the stop barrier of run_server).
THEOREM StopIsNeverCrossed == Spec => NothingCrossesStop
<1> DEFINE Since == \A n \in ToSet(executed') \ ToSet(executed) : arrived_at[n] = stops
<1>1. AInv /\ [Next]_vars => [Since]_vars
  BY AdmissionStep DEF AInv, Core, SinceStop, Fresh
<1> QED BY <1>1, AdmissionInvariant, PTL DEF Spec, NothingCrossesStop

----------------------------------------------------------
(* The inductive invariant *)

GenerationOrNone == Generation \cup {NoGeneration}
AcquisitionType ==
    [pc : {"none", "download", "placed", "validated", "ended"}, expected : Nat,
     bytes : Nat, good : BOOLEAN]
SessionType ==
    [pc : {"none", "captured", "saved", "running", "lost"}, uses : SUBSET Package,
     g : GenerationOrNone, whole : BOOLEAN]
ApplyType ==
    [state : {"none", "prepared", "activating", "rolling-back", "renamed", "committed",
              "recovery-failed"},
     g : GenerationOrNone, prev : GenerationOrNone]
RemovalType ==
    [pc : {"none", "reviewed", "archive", "publish", "delete", "receipt", "complete"},
     p : Package \cup {NoPackage}, prev : Nat, enabled : BOOLEAN,
     archive : {"none", "torn", "whole"}, receipts : SUBSET Files, completed : BOOLEAN]

\* Every record of the store has its type.
InstallationTypeOK ==
    /\ index \in [rev : Nat, packages : SUBSET Package, enabled : SUBSET Package]
    /\ files \in [Package -> [present : SUBSET Files, good : BOOLEAN]]
    /\ acquisition \in [Package -> AcquisitionType]
    /\ generations \in [Generation -> [written : BOOLEAN, uses : SUBSET Package]]
    /\ candidate \in [Generation -> [rev : Nat, prev : GenerationOrNone]]
    /\ active \in GenerationOrNone
    /\ apply \in ApplyType
    /\ session \in [Session -> SessionType]
    /\ removal \in RemovalType
    /\ lease \in {"none", "apply", "remove"} /\ gate \in BOOLEAN

\* No activation is pending: nothing is named by one.
NothingPending == apply.state = "none" => apply = NoApply

\* While the removal runs, what its checks found is still so: it has the gate, no
\* activation is pending, and neither the active generation nor a known worker
\* uses its package; by the time it deletes, the index does not list it either.
Removing ==
    lease = "remove" =>
        /\ gate /\ apply.state = "none"
        /\ removal.pc \in {"archive", "publish", "delete", "receipt"}
        /\ removal.p \notin Uses(active)
        /\ \A s \in Session : KnownReference(s) => removal.p \notin session[s].uses
        /\ removal.pc \in {"delete", "receipt"} => removal.p \notin index.packages

InstallationInv == InstallationTypeOK /\ NothingPending /\ Removing /\ ReferencedFilesExist /\ WorkersKeepTheirFiles

----------------------------------------------------------
(* Types *)

\* The store starts typed, empty and with nothing to account for.
LEMMA InstallationInitially == InstallationInit => InstallationInv
<1> SUFFICES ASSUME InstallationInit PROVE InstallationInv
  OBVIOUS
<1> USE DEF InstallationInit
<1>1. InstallationTypeOK
  BY InstallationAssumption DEF InstallationTypeOK, AcquisitionType, SessionType, ApplyType,
     RemovalType, GenerationOrNone, NoApply, NoRemoval, NoSession
<1>2. NothingPending /\ Removing
  BY DEF NothingPending, Removing, NoApply
<1>3. ReferencedFilesExist
  BY DEF ReferencedFilesExist, VerifyAssets, Uses, NoApply
<1>4. WorkersKeepTheirFiles
  BY DEF WorkersKeepTheirFiles, NoSession
<1> QED BY <1>1, <1>2, <1>3, <1>4 DEF InstallationInv

\* An acquisition with other fields is an acquisition.
LEMMA RecordWith ==
    ASSUME NEW a \in AcquisitionType, NEW n \in Nat, NEW b \in BOOLEAN
    PROVE  /\ [a EXCEPT !.pc = "download", !.expected = n] \in AcquisitionType
           /\ [a EXCEPT !.bytes = n, !.good = b] \in AcquisitionType
           /\ [a EXCEPT !.pc = "placed"] \in AcquisitionType
           /\ [a EXCEPT !.pc = "validated"] \in AcquisitionType
           /\ [pc |-> "ended", expected |-> 0, bytes |-> 0, good |-> TRUE] \in AcquisitionType
BY DEF AcquisitionType

\* What the acquisition and the editor of the desired state write is typed.
LEMMA AcquisitionTyped ==
    ASSUME InstallationTypeOK, NEW p \in Package,
           \/ PrepareAcquisition(p) \/ PlaceFiles(p) \/ ValidatePackage(p)
           \/ AcquisitionEnds(p) \/ InstallCatalogue(p) \/ SetEnabled(p)
           \/ \E good \in BOOLEAN : DownloadChunk(p, good)
    PROVE  InstallationTypeOK'
<1> DEFINE ended == [pc |-> "ended", expected |-> 0, bytes |-> 0, good |-> TRUE]
           Becomes(r) == acquisition' = [acquisition EXCEPT ![p] = r]
<1>1. /\ acquisition \in [Package -> AcquisitionType] /\ acquisition[p] \in AcquisitionType
      /\ index.rev \in Nat
  BY DEF InstallationTypeOK
<1>2. acquisition[p].bytes + 1 \in Nat
  BY <1>1 DEF AcquisitionType
<1>3. /\ ended \in AcquisitionType
      /\ [acquisition[p] EXCEPT !.pc = "placed"] \in AcquisitionType
      /\ [acquisition[p] EXCEPT !.pc = "validated"] \in AcquisitionType
  BY <1>1, RecordWith
<1>4. ASSUME NEW r \in AcquisitionType, Becomes(r)
      PROVE  acquisition' \in [Package -> AcquisitionType]
  BY <1>1, <1>4
<1>5. CASE PrepareAcquisition(p)
  <2>1. [acquisition[p] EXCEPT !.pc = "download", !.expected = index.rev]
            \in AcquisitionType
    BY <1>1, RecordWith
  <2>2. Becomes([acquisition[p] EXCEPT !.pc = "download", !.expected = index.rev])
    BY <1>5 DEF PrepareAcquisition
  <2>3. acquisition' \in [Package -> AcquisitionType]
    BY <1>4, <2>1, <2>2
  <2> QED BY <1>5, <2>3 DEF PrepareAcquisition, InstallationTypeOK
<1>6. CASE PlaceFiles(p)
  <2>1. \/ Becomes([acquisition[p] EXCEPT !.pc = "placed"])
        \/ Becomes(ended)
    BY <1>6 DEF PlaceFiles, AcquisitionTo, EndAcquisition
  <2>2. acquisition' \in [Package -> AcquisitionType]
    BY <1>3, <1>4, <2>1
  <2> DEFINE r == [present |-> Files, good |-> acquisition[p].good]
  <2>3. r \in [present : SUBSET Files, good : BOOLEAN]
    BY <1>1 DEF AcquisitionType
  <2>4. files' = files \/ files' = [files EXCEPT ![p] = r]
    BY <1>6 DEF PlaceFiles
  <2> HIDE DEF r
  <2>5. files' \in [Package -> [present : SUBSET Files, good : BOOLEAN]]
    BY <2>3, <2>4 DEF InstallationTypeOK
  <2> QED BY <1>6, <2>2, <2>5 DEF PlaceFiles, InstallationTypeOK
<1>7. CASE ValidatePackage(p)
  <2>1. Becomes([acquisition[p] EXCEPT !.pc = "validated"])
    BY <1>7 DEF ValidatePackage, AcquisitionTo
  <2>2. acquisition' \in [Package -> AcquisitionType]
    BY <1>3, <1>4, <2>1
  <2> QED BY <1>7, <2>2 DEF ValidatePackage, InstallationTypeOK
<1>8. CASE AcquisitionEnds(p)
  <2>1. Becomes(ended)
    BY <1>8 DEF AcquisitionEnds, EndAcquisition
  <2>2. acquisition' \in [Package -> AcquisitionType]
    BY <1>3, <1>4, <2>1
  <2> QED BY <1>8, <2>2 DEF AcquisitionEnds, InstallationTypeOK
<1>9. CASE InstallCatalogue(p)
  <2>1. Becomes(ended)
    BY <1>9 DEF InstallCatalogue, EndAcquisition
  <2>2. acquisition' \in [Package -> AcquisitionType]
    BY <1>3, <1>4, <2>1
  <2>3. index.packages \cup {p} \in SUBSET Package /\ index.rev + 1 \in Nat
    BY DEF InstallationTypeOK
  <2>4. [index EXCEPT !.rev = index.rev + 1, !.packages = index.packages \cup {p}]
            \in [rev : Nat, packages : SUBSET Package, enabled : SUBSET Package]
    BY <2>3 DEF InstallationTypeOK
  <2> QED BY <1>9, <2>2, <2>4 DEF InstallCatalogue, InstallationTypeOK
<1>10. CASE SetEnabled(p)
  <2> DEFINE E == IF p \in index.enabled THEN index.enabled \ {p}
                  ELSE index.enabled \cup {p}
  <2>1. E \in SUBSET Package /\ index.rev + 1 \in Nat
    BY DEF InstallationTypeOK
  <2>2. index' = [index EXCEPT !.rev = index.rev + 1, !.enabled = E]
    BY <1>10 DEF SetEnabled
  <2> HIDE DEF E
  <2>3. [index EXCEPT !.rev = index.rev + 1, !.enabled = E]
            \in [rev : Nat, packages : SUBSET Package, enabled : SUBSET Package]
    BY <2>1 DEF InstallationTypeOK
  <2> QED BY <1>10, <2>2, <2>3 DEF SetEnabled, InstallationTypeOK
<1>11. CASE \E good \in BOOLEAN : DownloadChunk(p, good)
  <2>1. PICK good \in BOOLEAN : DownloadChunk(p, good)
    BY <1>11
  <2> DEFINE G == acquisition[p].good /\ good
  <2>2. G \in BOOLEAN
    OBVIOUS
  <2>3. Becomes([acquisition[p] EXCEPT !.bytes = acquisition[p].bytes + 1, !.good = G])
    BY <2>1 DEF DownloadChunk
  <2> HIDE DEF G
  <2>4. [acquisition[p] EXCEPT !.bytes = acquisition[p].bytes + 1, !.good = G]
            \in AcquisitionType
    BY <1>1, <1>2, <2>2, RecordWith
  <2>5. acquisition' \in [Package -> AcquisitionType]
    BY <1>4, <2>3, <2>4
  <2> QED BY <2>1, <2>5 DEF DownloadChunk, InstallationTypeOK
<1> QED BY <1>5, <1>6, <1>7, <1>8, <1>9, <1>10, <1>11

\* So is what an activation writes.
LEMMA ApplyTyped ==
    ASSUME InstallationTypeOK,
           \/ \E g \in Generation : StageActivation(g) \/ BeginActivation(g)
           \/ Activating \/ RollingBack \/ CommitRename \/ CommitRecord
           \/ \E resolved \in BOOLEAN : FinishApply(resolved)
    PROVE  InstallationTypeOK'
<1> USE DEF InstallationTypeOK, ApplyType, GenerationOrNone
<1>1. CASE \E g \in Generation : StageActivation(g)
  BY <1>1 DEF StageActivation
<1>2. CASE \E g \in Generation : BeginActivation(g)
  BY <1>2 DEF BeginActivation
<1>3. CASE Activating
  BY <1>3 DEF Activating, ApplyTo
<1>4. CASE RollingBack
  BY <1>4 DEF RollingBack, ApplyTo
<1>5. CASE CommitRename
  BY <1>5 DEF CommitRename, ApplyTo
<1>6. CASE CommitRecord
  BY <1>6 DEF CommitRecord, ApplyTo
<1>7. CASE \E resolved \in BOOLEAN : FinishApply(resolved)
  BY <1>7 DEF FinishApply, ApplyTo, NoApply
<1> QED BY <1>1, <1>2, <1>3, <1>4, <1>5, <1>6, <1>7

\* So is what the owner of a worker writes.
LEMMA WorkerTyped ==
    ASSUME InstallationTypeOK, NEW s \in Session,
           \/ \E g \in Generation \cup {NoGeneration} : CaptureStartup(s, g)
           \/ SaveStartup(s) \/ SpawnWorker(s) \/ RetireWorker(s) \/ LoseOwner(s)
    PROVE  InstallationTypeOK'
<1> USE DEF InstallationTypeOK, SessionType, GenerationOrNone
<1>1. CASE \E g \in Generation \cup {NoGeneration} : CaptureStartup(s, g)
  <2>1. PICK g \in Generation \cup {NoGeneration} : CaptureStartup(s, g)
    BY <1>1
  <2>2. Uses(g) \in SUBSET Package
    BY DEF Uses
  <2> QED BY <2>1, <2>2 DEF CaptureStartup
<1>2. CASE SaveStartup(s)
  <2>1. VerifyAssets(session[s].uses) \in BOOLEAN
    BY DEF VerifyAssets
  <2>2. [session[s] EXCEPT !.pc = "saved", !.whole = VerifyAssets(session[s].uses)]
            \in SessionType
    BY ZenonT(60), <2>1
  <2>3. session' = [session EXCEPT ![s] =
            [session[s] EXCEPT !.pc = "saved", !.whole = VerifyAssets(session[s].uses)]]
    BY <1>2 DEF SaveStartup
  <2>4. session' \in [Session -> SessionType]
    BY <2>2, <2>3
  <2> QED BY <1>2, <2>4 DEF SaveStartup
<1>3. CASE SpawnWorker(s)
  BY ZenonT(60), <1>3 DEF SpawnWorker
<1>4. CASE RetireWorker(s)
  BY <1>4 DEF RetireWorker, NoSession
<1>5. CASE LoseOwner(s)
  <2>1. NoSession \in SessionType /\ [session[s] EXCEPT !.pc = "lost"] \in SessionType
    BY ZenonT(60) DEF NoSession
  <2>2. session' \in [Session -> SessionType]
    BY <1>5, <2>1 DEF LoseOwner
  <2> QED BY <1>5, <2>2 DEF LoseOwner
<1> QED BY <1>1, <1>2, <1>3, <1>4, <1>5

\* So is what the removal writes, and what is left when the service dies.
LEMMA RemovalTyped ==
    ASSUME InstallationTypeOK,
           \/ \E p \in Package : PrepareRemoval(p)
           \/ ForgetReview \/ BeginRemoval \/ WriteArchive \/ PublishAbsence
           \/ CompleteRemoval
           \/ \E f \in Files : DeleteFile(f) \/ RecordDeletion(f)
           \/ ServiceDies
    PROVE  InstallationTypeOK'
<1> USE DEF InstallationTypeOK, RemovalType
<1>1. CASE \E p \in Package : PrepareRemoval(p)
  <2>1. PICK p \in Package : PrepareRemoval(p)
    BY <1>1
  <2> DEFINE E == p \in index.enabled
  <2>2. E \in BOOLEAN
    OBVIOUS
  <2>3. removal' = [NoRemoval EXCEPT !.pc = "reviewed", !.p = p, !.prev = index.rev,
                                     !.enabled = E]
    BY <2>1 DEF PrepareRemoval
  <2> HIDE DEF E
  <2>4. removal' \in RemovalType
    BY <2>2, <2>3 DEF NoRemoval
  <2> QED BY <2>1, <2>4 DEF PrepareRemoval
<1>2. CASE ForgetReview
  BY <1>2 DEF ForgetReview, NoRemoval
<1>3. CASE BeginRemoval
  BY <1>3 DEF BeginRemoval, RemovalTo
<1>4. CASE WriteArchive
  BY <1>4 DEF WriteArchive
<1>5. CASE PublishAbsence
  <2>1. /\ index.packages \ {removal.p} \in SUBSET Package
        /\ index.enabled \ {removal.p} \in SUBSET Package
        /\ index.rev + 1 \in Nat
    OBVIOUS
  <2>2. index' \in [rev : Nat, packages : SUBSET Package, enabled : SUBSET Package]
    BY <1>5, <2>1 DEF PublishAbsence
  <2>3. removal' \in RemovalType
    BY <1>5 DEF PublishAbsence, RemovalTo
  <2> QED BY <1>5, <2>2, <2>3 DEF PublishAbsence
<1>6. CASE CompleteRemoval
  BY <1>6 DEF CompleteRemoval
<1>7. CASE \E f \in Files : DeleteFile(f)
  <2>1. PICK f \in Files : DeleteFile(f)
    BY <1>7
  <2>2. removal' \in RemovalType
    BY <2>1 DEF DeleteFile, RemovalTo
  <2>3. ASSUME NEW q \in Package
        PROVE  [files[q] EXCEPT !.present = files[q].present \ {f}]
                   \in [present : SUBSET Files, good : BOOLEAN]
    <3>1. files[q].present \ {f} \in SUBSET Files
      OBVIOUS
    <3> QED BY <3>1
  <2>4. files' = [files EXCEPT ![removal.p] =
            [files[removal.p] EXCEPT !.present = files[removal.p].present \ {f}]]
    BY <2>1 DEF DeleteFile
  <2>5. files' \in [Package -> [present : SUBSET Files, good : BOOLEAN]]
    BY <2>3, <2>4
  <2> QED BY <2>1, <2>2, <2>5 DEF DeleteFile
<1>8. CASE \E f \in Files : RecordDeletion(f)
  <2>1. PICK f \in Files : RecordDeletion(f)
    BY <1>8
  <2>2. removal.receipts \cup {f} \in SUBSET Files
    OBVIOUS
  <2>3. removal' = [removal EXCEPT !.pc = "delete", !.receipts = removal.receipts \cup {f}]
    BY <2>1 DEF RecordDeletion
  <2>4. removal' \in RemovalType
    BY <2>2, <2>3
  <2> QED BY <2>1, <2>4 DEF RecordDeletion
<1>9. CASE ServiceDies
  BY ZenonT(60), <1>9 DEF ServiceDies
<1> QED BY <1>1, <1>2, <1>3, <1>4, <1>5, <1>6, <1>7, <1>8, <1>9

----------------------------------------------------------
(* What the steps keep *)

\* What is named: the index, the active generation and the pending activation.
Named == index.packages \cup Uses(active) \cup Uses(apply.g) \cup Uses(apply.prev)

\* Whatever a step names was named before or has just been verified, if the step
\* takes no file away.
LEMMA NamedFilesExist ==
    ASSUME InstallationInv, InstallationTypeOK',
           \A q \in Package : Whole(q) => Whole(q)',
           \A q \in Package : q \in Named' => q \in Named \/ Whole(q)
    PROVE  ReferencedFilesExist'
<1>1. \A q \in Package : q \in Named => Whole(q)
  BY DEF InstallationInv, ReferencedFilesExist, VerifyAssets, Named
<1>2. ASSUME NEW q \in Named' PROVE q \in Package
  BY <1>2 DEF Named, Uses, InstallationTypeOK, ApplyType, GenerationOrNone
<1>3. \A q \in Named' : Whole(q)'
  BY <1>1, <1>2
<1> QED BY <1>3 DEF ReferencedFilesExist, VerifyAssets, Named

\* Workers that stay keep their files, if the step takes no file away.
LEMMA WorkersFilesExist ==
    ASSUME InstallationInv, \A q \in Package : Whole(q) => Whole(q)', session' = session
    PROVE  WorkersKeepTheirFiles'
<1> SUFFICES ASSUME NEW s \in Session,
                    session[s].pc \in {"saved", "running", "closing", "lost"},
                    session[s].whole,
                    NEW q \in session[s].uses
             PROVE  Whole(q)'
  BY DEF WorkersKeepTheirFiles, VerifyAssets
<1>1. Whole(q)
  BY DEF InstallationInv, WorkersKeepTheirFiles, VerifyAssets
<1>2. q \in Package
  BY DEF InstallationInv, InstallationTypeOK, SessionType
<1> QED BY <1>1, <1>2

\* Only a step that writes files can make a package other than whole.
LEMMA UntouchedFiles ==
    ASSUME files' = files
    PROVE  \A q \in Package : Whole(q) => Whole(q)'
BY DEF Whole

\* The removal's checks stay true when nothing they looked at changes, but that
\* the index may list fewer packages.
LEMMA ChecksHold ==
    ASSUME InstallationInv, index'.packages \subseteq index.packages,
           UNCHANGED <<generations, active, apply, session, removal, lease, gate>>
    PROVE  NothingPending' /\ Removing'
<1>1. NothingPending'
  BY DEF InstallationInv, NothingPending, NoApply
<1>2. Removing'
  BY DEF InstallationInv, Removing, KnownReference, Uses
<1> QED BY <1>1, <1>2

----------------------------------------------------------
(* One lemma for the actions of each writer *)

\* An acquisition adds files, and to the index only what it verified there; it
\* adds nothing while a removal runs.
LEMMA AcquisitionKeeps ==
    ASSUME InstallationInv, NEW p \in Package,
           \/ PrepareAcquisition(p) \/ PlaceFiles(p) \/ ValidatePackage(p)
           \/ AcquisitionEnds(p) \/ InstallCatalogue(p) \/ SetEnabled(p)
           \/ \E good \in BOOLEAN : DownloadChunk(p, good)
    PROVE  InstallationInv'
<1>1. InstallationTypeOK'
  BY AcquisitionTyped DEF InstallationInv
<1>2. \A q \in Package : Whole(q) => Whole(q)'
  <2>1. CASE files' = files
    BY <2>1, UntouchedFiles
  <2>2. CASE files' # files
    <3>1. PlaceFiles(p) /\ CopyVerified(p)
      BY <2>2 DEF PrepareAcquisition, PlaceFiles, ValidatePackage, AcquisitionEnds,
         InstallCatalogue, SetEnabled, DownloadChunk
    <3>2. files' = [files EXCEPT ![p] = [present |-> Files, good |-> acquisition[p].good]]
      BY <3>1 DEF PlaceFiles
    <3>3. files \in [Package -> [present : SUBSET Files, good : BOOLEAN]]
      BY DEF InstallationInv, InstallationTypeOK
    <3> QED BY <3>1, <3>2, <3>3 DEF Whole, CopyVerified
  <2> QED BY <2>1, <2>2
<1>3. UNCHANGED <<generations, active, apply, session, removal, lease, gate>>
  BY DEF PrepareAcquisition, PlaceFiles, ValidatePackage, AcquisitionEnds,
     InstallCatalogue, SetEnabled, DownloadChunk
<1>4. \/ index'.packages = index.packages
      \/ index'.packages = index.packages \cup {p} /\ Whole(p) /\ lease = "none"
  <2>1. index' = index \/ InstallCatalogue(p) \/ SetEnabled(p)
    BY DEF PrepareAcquisition, PlaceFiles, ValidatePackage, AcquisitionEnds, DownloadChunk
  <2>2. index \in [rev : Nat, packages : SUBSET Package, enabled : SUBSET Package]
    BY DEF InstallationInv, InstallationTypeOK
  <2> QED BY <2>1, <2>2 DEF InstallCatalogue, SetEnabled, VerifyAssets
<1>5. \A q \in Package : q \in Named' => q \in Named \/ Whole(q)
  BY <1>3, <1>4 DEF Named, Uses
<1>6. NothingPending' /\ Removing'
  <2>1. CASE index'.packages = index.packages
    BY <1>3, <2>1, ChecksHold
  <2>2. CASE lease = "none"
    BY <1>3, <2>2 DEF InstallationInv, NothingPending, NoApply, Removing
  <2> QED BY <1>4, <2>1, <2>2
<1>7. ReferencedFilesExist' /\ WorkersKeepTheirFiles'
  BY <1>1, <1>2, <1>3, <1>5, NamedFilesExist, WorkersFilesExist
<1> QED BY <1>1, <1>6, <1>7 DEF InstallationInv

\* An activation only ever names what was verified, and holds the lease.
LEMMA ApplyKeeps ==
    ASSUME InstallationInv,
           \/ \E g \in Generation : StageActivation(g) \/ BeginActivation(g)
           \/ Activating \/ RollingBack \/ CommitRename \/ CommitRecord
           \/ \E resolved \in BOOLEAN : FinishApply(resolved)
    PROVE  InstallationInv'
<1>1. InstallationTypeOK'
  BY ApplyTyped DEF InstallationInv
<1>2. UNCHANGED <<index, files, session, removal, gate>>
  BY DEF StageActivation, BeginActivation, Activating, RollingBack, CommitRename,
     CommitRecord, FinishApply
<1>3. lease' # "remove"
  BY DEF StageActivation, BeginActivation, Activating, RollingBack, CommitRename,
     CommitRecord, FinishApply, Applying
<1>4. NothingPending'
  BY DEF InstallationInv, NothingPending, NoApply, InstallationTypeOK, ApplyType, StageActivation, BeginActivation,
     Activating, RollingBack, CommitRename, CommitRecord, FinishApply, ApplyTo
<1>5. \A q \in Package : q \in Named' => q \in Named \/ Whole(q)
  <2>0. InstallationTypeOK
    BY DEF InstallationInv
  <2>1. CASE \E g \in Generation : StageActivation(g)
    BY <2>0, <2>1, <1>2 DEF StageActivation, VerifyAssets, Named, Uses, InstallationTypeOK
  <2>2. CASE \E g \in Generation : BeginActivation(g)
    BY <2>0, <2>2, <1>2, InstallationAssumption
       DEF BeginActivation, ActivationCandidate, VerifyAssets, Named, Uses, InstallationTypeOK
  <2>3. CASE Activating \/ RollingBack \/ CommitRecord
    BY <2>0, <2>3, <1>2
       DEF Activating, RollingBack, CommitRecord, ApplyTo, Named, Uses, InstallationTypeOK, ApplyType
  <2>4. CASE CommitRename
    BY <2>0, <2>4, <1>2 DEF CommitRename, ApplyTo, Named, Uses, InstallationTypeOK, ApplyType
  <2>5. CASE \E resolved \in BOOLEAN : FinishApply(resolved)
    BY <2>0, <2>5, <1>2 DEF FinishApply, ApplyTo, NoApply, Named, Uses, InstallationTypeOK, ApplyType
  <2> QED BY <2>1, <2>2, <2>3, <2>4, <2>5
<1>6. ReferencedFilesExist' /\ WorkersKeepTheirFiles'
  BY <1>1, <1>2, <1>5, UntouchedFiles, NamedFilesExist, WorkersFilesExist
<1>7. Removing'
  BY <1>3 DEF Removing
<1> QED BY <1>1, <1>4, <1>6, <1>7 DEF InstallationInv

\* A worker becomes known only when the gate is free, so no removal runs; its
\* snapshot notes whether its files were there.
LEMMA WorkerKeeps ==
    ASSUME InstallationInv, NEW s \in Session,
           \/ \E g \in Generation \cup {NoGeneration} : CaptureStartup(s, g)
           \/ SaveStartup(s) \/ SpawnWorker(s) \/ RetireWorker(s) \/ LoseOwner(s)
    PROVE  InstallationInv'
<1>1. InstallationTypeOK /\ InstallationTypeOK'
  BY WorkerTyped DEF InstallationInv
<1>2. UNCHANGED <<index, files, generations, active, apply, removal, lease, gate>>
  BY DEF CaptureStartup, SaveStartup, SpawnWorker, RetireWorker, LoseOwner
<1>3. session \in [Session -> SessionType] /\ session' \in [Session -> SessionType]
  BY <1>1 DEF InstallationTypeOK
<1>4. \A t \in Session : t # s => session'[t] = session[t]
  BY <1>3 DEF CaptureStartup, SaveStartup, SpawnWorker, RetireWorker, LoseOwner
<1>5. \/ session'[s].pc \notin {"saved", "running", "closing", "lost"}
      \/ /\ KnownReference(s)
         /\ session'[s].uses = session[s].uses /\ session'[s].whole = session[s].whole
      \/ /\ ~gate /\ session'[s].uses = session[s].uses
         /\ session'[s].whole = VerifyAssets(session[s].uses)
  <2>1. CASE \E g \in Generation \cup {NoGeneration} : CaptureStartup(s, g)
    BY <1>3, <2>1 DEF CaptureStartup
  <2>2. CASE SaveStartup(s)
    BY <1>3, <2>2 DEF SaveStartup, SessionType
  <2>3. CASE SpawnWorker(s)
    BY <1>3, <2>3 DEF SpawnWorker, KnownReference, SessionType
  <2>4. CASE RetireWorker(s)
    BY <1>3, <2>4 DEF RetireWorker, NoSession
  <2>5. CASE LoseOwner(s)
    BY ZenonT(60), <1>3, <2>5 DEF LoseOwner, NoSession, KnownReference, SessionType
  <2> QED BY <2>1, <2>2, <2>3, <2>4, <2>5
<1>6. ReferencedFilesExist' /\ NothingPending'
  BY <1>2 DEF InstallationInv, ReferencedFilesExist, NothingPending, VerifyAssets, Whole, Uses, NoApply
<1>7. WorkersKeepTheirFiles'
  <2>1. SUFFICES ASSUME NEW t \in Session,
                        session'[t].pc \in {"saved", "running", "closing", "lost"},
                        session'[t].whole
                 PROVE  VerifyAssets(session'[t].uses)
    BY <1>2 DEF WorkersKeepTheirFiles, VerifyAssets, Whole
  <2>2. CASE t # s
    BY <1>4, <2>1, <2>2 DEF InstallationInv, WorkersKeepTheirFiles
  <2>3. CASE t = s
    BY <1>5, <2>1, <2>3 DEF InstallationInv, WorkersKeepTheirFiles, KnownReference
  <2> QED BY <2>2, <2>3
<1>8. Removing'
  <2>1. SUFFICES ASSUME lease = "remove"
                 PROVE  \A t \in Session :
                            KnownReference(t)' => removal.p \notin session'[t].uses
    BY <1>2 DEF InstallationInv, Removing, Uses
  <2>2. gate /\ \A t \in Session : KnownReference(t) => removal.p \notin session[t].uses
    BY <2>1 DEF InstallationInv, Removing
  <2> QED BY <1>4, <1>5, <2>2 DEF KnownReference
<1> QED BY <1>1, <1>6, <1>7, <1>8 DEF InstallationInv

\* The removal starts with its checks made, and deletes only what nothing names.
LEMMA RemovalKeeps ==
    ASSUME InstallationInv,
           \/ \E p \in Package : PrepareRemoval(p)
           \/ ForgetReview \/ BeginRemoval \/ WriteArchive \/ PublishAbsence
           \/ CompleteRemoval
           \/ \E f \in Files : DeleteFile(f) \/ RecordDeletion(f)
           \/ ServiceDies
    PROVE  InstallationInv'
<1>1. InstallationTypeOK /\ InstallationTypeOK' /\ removal \in RemovalType /\ removal' \in RemovalType
  BY SMTT(60), RemovalTyped DEF InstallationInv, InstallationTypeOK
<1>2. UNCHANGED <<generations, active, apply, session>>
  BY DEF PrepareRemoval, ForgetReview, BeginRemoval, WriteArchive, PublishAbsence,
     CompleteRemoval, DeleteFile, RecordDeletion, ServiceDies
<1>3. index'.packages \subseteq index.packages
  <2>1. index' = index \/ PublishAbsence
    BY DEF PrepareRemoval, ForgetReview, BeginRemoval, WriteArchive, CompleteRemoval,
       DeleteFile, RecordDeletion, ServiceDies
  <2> QED BY SMTT(60), <2>1 DEF PublishAbsence
<1>4. NothingPending'
  BY <1>2 DEF InstallationInv, NothingPending, NoApply
<1>5. Removing'
  <2>1. CASE lease' # "remove"
    BY <2>1 DEF Removing
  <2>2. CASE BeginRemoval
    <3>1. apply.state = "none" /\ removal.p \notin Uses(active)
      BY <2>2 DEF BeginRemoval, Blocked, References, Unresolved
    <3>2. \A s \in Session : KnownReference(s) => removal.p \notin session[s].uses
      BY <2>2 DEF BeginRemoval, Blocked, References
    <3>3. /\ gate' /\ removal'.p = removal.p /\ index' = index
          /\ removal'.pc \in {"archive", "publish", "delete"}
          /\ removal'.pc = "delete" => removal.p \notin index.packages
      BY <1>1, <2>2 DEF BeginRemoval, RemovalTo, Detached, RemovalType
    <3> QED BY <1>2, <3>1, <3>2, <3>3 DEF Removing, KnownReference, Uses
  <2>3. CASE lease' = "remove" /\ ~BeginRemoval
    <3>1. /\ lease = "remove" /\ gate' = gate
          /\ \/ WriteArchive \/ PublishAbsence
             \/ \E f \in Files : DeleteFile(f) \/ RecordDeletion(f)
      BY ZenonT(60), <2>3 DEF PrepareRemoval, ForgetReview, WriteArchive, PublishAbsence,
         CompleteRemoval, DeleteFile, RecordDeletion, ServiceDies
    <3>2. removal'.p = removal.p
      BY <1>1, <3>1 DEF WriteArchive, PublishAbsence, DeleteFile, RecordDeletion,
         RemovalTo, RemovalType
    <3>3. /\ removal'.pc \in {"publish", "delete", "receipt"}
          /\ removal'.pc \in {"delete", "receipt"} => removal.p \notin index'.packages
      <4>1. removal.pc \in {"delete", "receipt"} => removal.p \notin index.packages
        BY <3>1 DEF InstallationInv, Removing
      <4>2. CASE WriteArchive
        BY <1>1, <4>2 DEF WriteArchive, RemovalType
      <4>3. CASE PublishAbsence
        BY SMTT(60), <1>1, <4>3 DEF PublishAbsence, RemovalTo, RemovalType
      <4>4. CASE \E f \in Files : DeleteFile(f) \/ RecordDeletion(f)
        BY <1>1, <4>1, <4>4 DEF DeleteFile, RecordDeletion, RemovalTo, RemovalType
      <4> QED BY <3>1, <4>2, <4>3, <4>4
    <3> QED BY SMTT(60), <1>2, <3>1, <3>2, <3>3 DEF InstallationInv, Removing, KnownReference, Uses
  <2> QED BY <2>1, <2>2, <2>3
<1>6. CASE files' = files
  <2>1. ReferencedFilesExist' /\ WorkersKeepTheirFiles'
    BY <1>1, <1>2, <1>3, <1>6, UntouchedFiles, NamedFilesExist, WorkersFilesExist
       DEF Named, Uses
  <2> QED BY <1>1, <1>4, <1>5, <2>1 DEF InstallationInv
<1>7. CASE files' # files
  <2>1. \E f \in Files : DeleteFile(f)
    BY <1>7 DEF PrepareRemoval, ForgetReview, BeginRemoval, WriteArchive, PublishAbsence,
       CompleteRemoval, RecordDeletion, ServiceDies
  <2>2. \A q \in Package : q # removal.p => files'[q] = files[q]
    BY <1>1, <2>1 DEF DeleteFile, InstallationTypeOK
  <2>3. /\ index' = index /\ removal.p \notin index.packages
        /\ removal.p \notin Uses(active) /\ apply.state = "none"
        /\ \A s \in Session : KnownReference(s) => removal.p \notin session[s].uses
    BY <2>1 DEF DeleteFile, InstallationInv, Removing
  <2>4. apply.g = NoGeneration /\ apply.prev = NoGeneration
    BY <2>3 DEF InstallationInv, NothingPending, NoApply
  <2>5. ReferencedFilesExist'
    <3>1. SUFFICES ASSUME NEW q \in index.packages \cup Uses(active) PROVE Whole(q)'
      BY <1>2, <2>3, <2>4 DEF ReferencedFilesExist, VerifyAssets, Uses
    <3>2. Whole(q) /\ q # removal.p
      BY <2>3 DEF InstallationInv, ReferencedFilesExist, VerifyAssets
    <3>3. q \in Package
      BY <1>1 DEF InstallationTypeOK, Uses, GenerationOrNone
    <3> QED BY <2>2, <3>2, <3>3 DEF Whole
  <2>6. WorkersKeepTheirFiles'
    <3>1. SUFFICES ASSUME NEW s \in Session,
                          session[s].pc \in {"saved", "running", "closing", "lost"},
                          session[s].whole,
                          NEW q \in session[s].uses
                   PROVE  Whole(q)'
      BY <1>2 DEF WorkersKeepTheirFiles, VerifyAssets
    <3>2. q \in Package /\ KnownReference(s)
      BY <1>1, <3>1 DEF InstallationTypeOK, SessionType, KnownReference
    <3>3. Whole(q) /\ q # removal.p
      BY <2>3, <3>1, <3>2 DEF InstallationInv, WorkersKeepTheirFiles, VerifyAssets
    <3> QED BY <2>2, <3>2, <3>3 DEF Whole
  <2> QED BY SMTT(60), <1>1, <1>4, <1>5, <2>5, <2>6 DEF InstallationInv
<1> QED BY <1>6, <1>7

----------------------------------------------------------
(* The theorems *)

\* Every step of the acquisition, the activation, the owner of a worker and the
\* removal, and the death of the service between any two, keeps InstallationInv.
THEOREM InstallationInvariant == InstallationSpec => []InstallationInv
<1>1. InstallationInv /\ [InstallationNext]_installationVars => InstallationInv'
  <2> SUFFICES ASSUME InstallationInv, [InstallationNext]_installationVars PROVE InstallationInv'
    OBVIOUS
  <2>1. CASE \E p \in Package :
                \/ PrepareAcquisition(p) \/ PlaceFiles(p) \/ ValidatePackage(p)
                \/ AcquisitionEnds(p) \/ InstallCatalogue(p) \/ SetEnabled(p)
                \/ \E good \in BOOLEAN : DownloadChunk(p, good)
    BY <2>1, AcquisitionKeeps
  <2>2. CASE \/ \E g \in Generation : StageActivation(g) \/ BeginActivation(g)
             \/ Activating \/ RollingBack \/ CommitRename \/ CommitRecord
             \/ \E resolved \in BOOLEAN : FinishApply(resolved)
    BY <2>2, ApplyKeeps
  <2>3. CASE \E s \in Session :
                \/ \E g \in Generation \cup {NoGeneration} : CaptureStartup(s, g)
                \/ SaveStartup(s) \/ SpawnWorker(s) \/ RetireWorker(s) \/ LoseOwner(s)
    BY <2>3, WorkerKeeps
  <2>4. CASE \/ \E p \in Package : PrepareRemoval(p)
             \/ ForgetReview \/ BeginRemoval \/ WriteArchive \/ PublishAbsence
             \/ CompleteRemoval
             \/ \E f \in Files : DeleteFile(f) \/ RecordDeletion(f)
             \/ ServiceDies
    BY <2>4, RemovalKeeps
  <2>5. CASE UNCHANGED installationVars
    <3>1. /\ UNCHANGED <<index, files, acquisition, generations, candidate, active, apply>>
          /\ UNCHANGED <<session, removal, lease, gate>>
      BY <2>5 DEF installationVars
    <3>2. InstallationTypeOK'
      BY <3>1 DEF InstallationInv, InstallationTypeOK
    <3>3. NothingPending' /\ Removing'
      BY <3>1, ChecksHold
    <3>4. ReferencedFilesExist' /\ WorkersKeepTheirFiles'
      BY <3>1, <3>2, UntouchedFiles, NamedFilesExist, WorkersFilesExist DEF Named, Uses
    <3> QED BY <3>2, <3>3, <3>4 DEF InstallationInv
  <2> QED BY <2>1, <2>2, <2>3, <2>4, <2>5 DEF InstallationNext, InstallationIdle
<1> QED BY <1>1, InstallationInitially, PTL DEF InstallationSpec

\* What the index, the active generation and a pending activation name is on disk
\* as published, and a worker keeps the files it started with, for any number of
\* packages, generations and workers, and wherever the removal, the activation or
\* the service stops.
THEOREM InstalledVoicesStay == InstallationSpec => []InstallationSound
<1>1. InstallationInv => InstallationSound
  BY DEF InstallationInv, InstallationSound
<1> QED BY <1>1, InstallationInvariant, PTL

----------------------------------------------------------
(* Journalled validation: the inductive invariant *)

Journals ==
    { <<>>, <<"Prepared">>, <<"Prepared", "Cancelled">>, <<"Prepared", "Failed">>,
      <<"Prepared", "Validating">>, <<"Prepared", "Validating", "Staged">>,
      <<"Prepared", "Validating", "Cancelled">>, <<"Prepared", "Validating", "Failed">>,
      <<"Prepared", "Validating", "RecoveryFailed">> }

\* No worker is recorded before validation began.
Directory ==
    {d \in [journal : Journals, damage : BOOLEAN, workers : BOOLEAN, events : Nat,
            tornEvent : BOOLEAN, evidence : {"none", "torn", "whole"},
            receipt : {"none", "torn", "whole"}] :
        d.journal \in {<<>>, <<"Prepared">>} => d.events = 0}

SupervisorType ==
    [pc : {"none", "claim", "check", "validating", "records", "next", "intent", "spawn",
           "own", "start", "wait", "cleanup", "cleaned", "drop", "bind", "save", "stage",
           "terminal", "receipt"},
     o : Operations \cup {NoOperation}, validating : BOOLEAN, pending : BOOLEAN,
     poisoned : BOOLEAN, cancelled : BOOLEAN, result : BOOLEAN]

OperationsTypeOK ==
    /\ disk \in [Operations -> Directory]
    /\ claims \in [Operations -> {"none", "torn", "whole"}]
    /\ tree \in [Operations -> {"none", "gated", "started"}]
    /\ supervisor \in SupervisorType
    /\ Pc # "none" => Op \in Operations

\* The directory of an operation that was admitted is never empty.
Begun(d) == d.journal # <<>> \/ d.damage

ClaimsAreKnown ==
    /\ \A o \in Operations : claims[o] # "none" => Begun(disk[o])
    /\ Pc # "none" => Begun(disk[Op])
    /\ Pc \notin {"none", "claim"} => claims[Op] = "whole"

\* An operation is admitted when all others were resolved, and those stay so.
OneUnresolved ==
    /\ \A o, p \in Claimed : ~Resolved(o) /\ ~Resolved(p) => o = p
    /\ Pc # "none" => \A o \in Claimed \ {Op} : Resolved(o)

\* Whatever may still run is missed by whoever reads the directory.
Missed(d) == d.tornEvent \/ d.events % 3 # 0

Unfinished(d) ==
    /\ d.receipt = "none" /\ Missed(d)
    /\ d.journal \in { <<"Prepared", "Validating">>,
                       <<"Prepared", "Validating", "RecoveryFailed">> }

TreesAreMissed ==
    \A o \in Operations : tree[o] # "none" => claims[o] = "whole" /\ Unfinished(disk[o])

\* What supervisor s has written to directory d and knows of the tree t.
Working ==
    {"records", "next", "intent", "spawn", "own", "start", "wait", "cleanup", "cleaned",
     "drop", "bind", "save", "stage"}

Supervised(s, d, t) ==
    /\ s.pc \in {"claim", "check", "validating"} =>
          d.journal = <<"Prepared">> /\ ~d.damage /\ ~s.pending
    /\ s.pc \in Working => d.journal = <<"Prepared", "Validating">> /\ ~d.damage
    /\ s.pc # "receipt" => d.receipt = "none"
    /\ s.pc \notin {"own", "start", "wait", "cleanup", "drop", "terminal"} => t = "none"
    /\ s.pc \in {"records", "next", "intent", "bind", "save", "stage"}
          => d.events % 3 = 0 /\ ~s.pending
    /\ s.pc \in {"spawn", "own"} => d.events % 3 = 1 /\ s.pending
    /\ s.pc \in {"start", "wait", "cleanup", "cleaned"} => d.events % 3 = 2 /\ s.pending
    /\ s.pc = "drop" => Missed(d) /\ s.pending
    /\ s.pc = "terminal" =>
          /\ t # "none" => s.pending
          /\ s.poisoned \/ ( /\ ~d.damage
                             /\ \/ d.journal = <<"Prepared", "Validating">>
                                \/ d.journal = <<"Prepared">> /\ ~s.pending )

OperationsInv ==
    /\ OperationsTypeOK /\ ClaimsAreKnown /\ OneUnresolved /\ TreesAreMissed
    /\ Pc # "none" => Supervised(supervisor, disk[Op], tree[Op])

----------------------------------------------------------
(* Journalled validation: reading and writing a directory *)

LEMMA OneMore ==
    ASSUME NEW T, NEW a \in T, NEW b \in T, NEW c \in T
    PROVE  Append(<<a>>, b) = <<a, b>> /\ Append(<<a, b>>, c) = <<a, b, c>>
<1>1. ASSUME NEW u \in Seq(T), NEW v \in Seq(T), Len(u) = Len(v),
             \A i \in 1 .. Len(u) : u[i] = v[i]
      PROVE  u = v
  BY <1>1
<1>2. Append(<<a>>, b) = <<a, b>>
  <2> DEFINE u == Append(<<a>>, b)
             v == <<a, b>>
  <2>1. /\ u \in Seq(T) /\ v \in Seq(T) /\ Len(u) = 2 /\ Len(v) = 2
        /\ u[1] = a /\ u[2] = b /\ v[1] = a /\ v[2] = b
    OBVIOUS
  <2> HIDE DEF u, v
  <2>2. \A i \in 1 .. 2 : i = 1 \/ i = 2
    OBVIOUS
  <2>3. \A i \in 1 .. Len(u) : u[i] = v[i]
    BY <2>1, <2>2
  <2>4. u = v
    BY <1>1, <2>1, <2>3
  <2> QED BY <2>4 DEF u, v
<1>3. Append(<<a, b>>, c) = <<a, b, c>>
  <2> DEFINE u == Append(<<a, b>>, c)
             v == <<a, b, c>>
  <2>1. /\ u \in Seq(T) /\ v \in Seq(T) /\ Len(u) = 3 /\ Len(v) = 3
        /\ u[1] = a /\ u[2] = b /\ u[3] = c /\ v[1] = a /\ v[2] = b /\ v[3] = c
    OBVIOUS
  <2> HIDE DEF u, v
  <2>2. \A i \in 1 .. 3 : i = 1 \/ i = 2 \/ i = 3
    OBVIOUS
  <2>3. \A i \in 1 .. Len(u) : u[i] = v[i]
    BY <2>1, <2>2
  <2>4. u = v
    BY <1>1, <2>1, <2>3
  <2> QED BY <2>4 DEF u, v
<1> QED BY <1>2, <1>3

LEMMA JournalGrows ==
    /\ Append(<<"Prepared">>, "Validating") = <<"Prepared", "Validating">>
    /\ \A x \in {"Cancelled", "Failed"} : Append(<<"Prepared">>, x) \in Journals \ {<<>>, <<"Prepared">>}
    /\ \A x \in {"Staged", "Cancelled", "Failed", "RecoveryFailed"} :
          Append(<<"Prepared", "Validating">>, x) \in Journals \ {<<>>, <<"Prepared">>}
    /\ \A x \in {"Staged", "RecoveryFailed"} :
          Append(<<"Prepared", "Validating">>, x) = <<"Prepared", "Validating", x>>
<1> DEFINE T == {"Prepared", "Validating", "Staged", "Cancelled", "Failed", "RecoveryFailed"}
<1>1. \A x, y, z \in T : /\ Append(<<x>>, y) = <<x, y>>
                         /\ Append(<<x, y>>, z) = <<x, y, z>>
  <2> HIDE DEF T
  <2> QED BY OneMore
<1>2. /\ "Prepared" \in T /\ "Validating" \in T /\ "Staged" \in T
      /\ "Cancelled" \in T /\ "Failed" \in T /\ "RecoveryFailed" \in T
  OBVIOUS
<1> HIDE DEF T
<1>3. Append(<<"Prepared">>, "Validating") = <<"Prepared", "Validating">>
  BY <1>1, <1>2, Zenon
<1>4. \A x \in {"Cancelled", "Failed"} : Append(<<"Prepared">>, x) = <<"Prepared", x>>
  BY <1>1, <1>2, ZenonT(60)
<1>5. \A x \in {"Staged", "Cancelled", "Failed", "RecoveryFailed"} :
         Append(<<"Prepared", "Validating">>, x) = <<"Prepared", "Validating", x>>
  <2>1. \A x \in T : Append(<<"Prepared", "Validating">>, x) = <<"Prepared", "Validating", x>>
    BY <1>1, <1>2, ZenonT(60)
  <2> QED BY <1>2, <2>1, Zenon
<1>6. \A x : /\ <<"Prepared", x>> # <<>> /\ <<"Prepared", "Validating", x>> # <<>>
             /\ <<"Prepared", x>> # <<"Prepared">>
             /\ <<"Prepared", "Validating", x>> # <<"Prepared">>
  OBVIOUS
<1>7. \A x \in {"Cancelled", "Failed"} : Append(<<"Prepared">>, x) \in Journals \ {<<>>, <<"Prepared">>}
  BY <1>4, <1>6, Zenon DEF Journals
<1>8. \A x \in {"Staged", "Cancelled", "Failed", "RecoveryFailed"} :
         Append(<<"Prepared", "Validating">>, x) \in Journals \ {<<>>, <<"Prepared">>}
  BY <1>5, <1>6, Zenon DEF Journals
<1>9. \A x \in {"Staged", "RecoveryFailed"} :
         Append(<<"Prepared", "Validating">>, x) = <<"Prepared", "Validating", x>>
  BY <1>5, Zenon
<1> QED BY <1>3, <1>7, <1>8, <1>9, Zenon

LEMMA LastOfJournal ==
    ASSUME OperationsTypeOK, NEW o \in Operations
    PROVE  /\ disk[o].journal \in Journals
           /\ disk[o].journal = <<>> => JournalState(o) = "None"
           /\ JournalState(o) = "Prepared" <=> disk[o].journal = <<"Prepared">>
           /\ JournalState(o) = "Validating" <=> disk[o].journal = <<"Prepared", "Validating">>
           /\ JournalState(o) = "Staged" <=>
                 disk[o].journal = <<"Prepared", "Validating", "Staged">>
           /\ JournalState(o) = "RecoveryFailed" <=>
                 disk[o].journal = <<"Prepared", "Validating", "RecoveryFailed">>
<1>1. disk[o].journal \in Journals
  BY DEF OperationsTypeOK, Directory
<1>2. PICK j \in Journals : j = disk[o].journal
  BY <1>1
<1>3. JournalState(o) = IF j = <<>> THEN "None" ELSE j[Len(j)]
  BY <1>2 DEF JournalState
<1>4. /\ j = <<>> => JournalState(o) = "None"
      /\ j = <<"Prepared">> => JournalState(o) = "Prepared"
      /\ j = <<"Prepared", "Cancelled">> => JournalState(o) = "Cancelled"
      /\ j = <<"Prepared", "Failed">> => JournalState(o) = "Failed"
      /\ j = <<"Prepared", "Validating">> => JournalState(o) = "Validating"
      /\ j = <<"Prepared", "Validating", "Staged">> => JournalState(o) = "Staged"
      /\ j = <<"Prepared", "Validating", "Cancelled">> => JournalState(o) = "Cancelled"
      /\ j = <<"Prepared", "Validating", "Failed">> => JournalState(o) = "Failed"
      /\ j = <<"Prepared", "Validating", "RecoveryFailed">> => JournalState(o) = "RecoveryFailed"
  BY <1>3
<1>5. \/ j = <<>> \/ j = <<"Prepared">> \/ j = <<"Prepared", "Cancelled">>
      \/ j = <<"Prepared", "Failed">> \/ j = <<"Prepared", "Validating">>
      \/ j = <<"Prepared", "Validating", "Staged">>
      \/ j = <<"Prepared", "Validating", "Cancelled">>
      \/ j = <<"Prepared", "Validating", "Failed">>
      \/ j = <<"Prepared", "Validating", "RecoveryFailed">>
  BY DEF Journals
<1>6. /\ JournalState(o) = "Prepared" => j = <<"Prepared">>
      /\ JournalState(o) = "Validating" => j = <<"Prepared", "Validating">>
      /\ JournalState(o) = "Staged" => j = <<"Prepared", "Validating", "Staged">>
      /\ JournalState(o) = "RecoveryFailed" => j = <<"Prepared", "Validating", "RecoveryFailed">>
  BY <1>4, <1>5
<1> QED BY <1>1, <1>2, <1>4, <1>6

\* An unfinished directory is not resolved, can neither be admitted nor abandoned.
LEMMA UnfinishedIsSeen ==
    ASSUME OperationsTypeOK, NEW o \in Operations, Unfinished(disk[o])
    PROVE  /\ ~Resolved(o) /\ Inspect(o) # "Prepared" /\ ~Observe(o)
           /\ Begun(disk[o])
<1>1. JournalState(o) \in {"Validating", "RecoveryFailed"} /\ disk[o].receipt = "none"
      /\ Missed(disk[o])
  BY LastOfJournal DEF Unfinished
<1>2. Inspect(o) \in {"Damaged", "Interrupted", "RecoveryFailed"}
  BY <1>1 DEF Inspect
<1>3. disk[o].journal # <<>>
  BY <1>1, LastOfJournal
<1> QED BY <1>1, <1>2, <1>3 DEF Resolved, Observe, Missed, Begun

\* What is read of a directory depends on that directory alone.
LEMMA ReadsTheSame ==
    ASSUME NEW o \in Operations, disk'[o] = disk[o]
    PROVE  (Resolved(o))' = Resolved(o)
BY DEF Resolved, Inspect, JournalState

\* A step of the process that holds the leases, on its own operation.
LEMMA OperationStep ==
    ASSUME OperationsInv, Pc # "none", UNCHANGED claims,
           NEW d \in Directory, NEW t \in {"none", "gated", "started"},
           disk' = [disk EXCEPT ![Op] = d], tree' = [tree EXCEPT ![Op] = t],
           supervisor' \in SupervisorType, Begun(d),
           \/ supervisor'.pc = "none"
           \/ /\ supervisor'.o = Op /\ Supervised(supervisor', d, t)
              /\ claims[Op] = "whole",
           t # "none" => claims[Op] = "whole" /\ Unfinished(d)
    PROVE  OperationsInv'
<1>1. /\ OperationsTypeOK /\ ClaimsAreKnown /\ OneUnresolved /\ TreesAreMissed
      /\ Op \in Operations
  BY DEF OperationsInv, OperationsTypeOK
<1>2. /\ disk' \in [Operations -> Directory] /\ disk'[Op] = d
      /\ \A o \in Operations \ {Op} : disk'[o] = disk[o]
      /\ tree' \in [Operations -> {"none", "gated", "started"}] /\ tree'[Op] = t
      /\ \A o \in Operations \ {Op} : tree'[o] = tree[o]
  BY <1>1 DEF OperationsTypeOK
<1>3. Pc' = "none" \/ Op' = Op
  BY DEF Pc, Op
<1>4. OperationsTypeOK'
  BY <1>1, <1>2, <1>3 DEF OperationsTypeOK
<1>5. ClaimsAreKnown'
  BY <1>1, <1>2, <1>3 DEF ClaimsAreKnown, Pc, Op
<1>6. OneUnresolved'
  <2>1. Claimed' = Claimed /\ \A o \in Claimed \ {Op} : Resolved(o) /\ o \in Operations
    BY <1>1 DEF OneUnresolved, Claimed
  <2>2. \A o \in Claimed \ {Op} : (Resolved(o))'
    BY <1>2, <2>1, ReadsTheSame
  <2> QED BY <1>3, <2>1, <2>2 DEF OneUnresolved
<1>7. TreesAreMissed'
  BY <1>1, <1>2 DEF TreesAreMissed
<1>8. Pc' # "none" => Supervised(supervisor', disk'[Op'], tree'[Op'])
  BY <1>2, <1>3 DEF Pc, Op
<1> QED BY <1>4, <1>5, <1>6, <1>7, <1>8 DEF OperationsInv

----------------------------------------------------------
(* Journalled validation: admission, abandonment and new directories *)

LEMMA OperationsInitially == OperationsAssumption /\ OperationsInit => OperationsInv
<1> SUFFICES ASSUME OperationsAssumption, OperationsInit PROVE OperationsInv
  OBVIOUS
<1>1. EmptyDirectory \in Directory
  BY DEF EmptyDirectory, Directory, Journals
<1>2. NoSupervisor \in SupervisorType /\ Pc = "none"
  BY DEF OperationsInit, NoSupervisor, SupervisorType, Pc
<1> QED BY <1>1, <1>2 DEF OperationsInit, OperationsInv, OperationsTypeOK, ClaimsAreKnown,
                          OneUnresolved, TreesAreMissed, Claimed

\* A directory of an operation nobody has admitted.
LEMMA OperationsKeepsCreate ==
    ASSUME OperationsInv, NEW o \in Operations, CreateOperation(o) \/ CreateTorn(o)
    PROVE  OperationsInv'
<1>1. /\ OperationsTypeOK /\ ClaimsAreKnown /\ OneUnresolved /\ TreesAreMissed
      /\ Pc # "none" => Supervised(supervisor, disk[Op], tree[Op])
      /\ Pc # "none" => Op \in Operations
  BY DEF OperationsInv, OperationsTypeOK
<1>2. /\ disk[o] = EmptyDirectory /\ UNCHANGED <<claims, supervisor, tree>>
      /\ \/ disk' = [disk EXCEPT ![o].journal = <<"Prepared">>]
         \/ disk' = [disk EXCEPT ![o].damage = TRUE]
  BY DEF CreateOperation, CreateTorn
<1>3. PICK d \in Directory : disk' = [disk EXCEPT ![o] = d]
  <2>1. /\ [EmptyDirectory EXCEPT !.journal = <<"Prepared">>] \in Directory
        /\ [EmptyDirectory EXCEPT !.damage = TRUE] \in Directory
    BY DEF EmptyDirectory, Directory, Journals
  <2>2. \/ disk' = [disk EXCEPT ![o] = [EmptyDirectory EXCEPT !.journal = <<"Prepared">>]]
        \/ disk' = [disk EXCEPT ![o] = [EmptyDirectory EXCEPT !.damage = TRUE]]
    BY <1>1, <1>2 DEF OperationsTypeOK
  <2> QED BY <2>1, <2>2
<1>4. ~Begun(disk[o])
  BY <1>2 DEF EmptyDirectory, Begun
<1>5. claims[o] = "none" /\ tree[o] = "none" /\ (Pc # "none" => Op # o)
  BY <1>1, <1>4 DEF ClaimsAreKnown, TreesAreMissed
<1>6. /\ disk' \in [Operations -> Directory]
      /\ \A p \in Operations \ {o} : disk'[p] = disk[p]
  BY <1>1, <1>3 DEF OperationsTypeOK
<1>7. Pc' = Pc /\ Op' = Op /\ Claimed' = Claimed /\ o \notin Claimed
  BY <1>2, <1>5 DEF Pc, Op, Claimed
<1>8. OperationsTypeOK'
  BY <1>1, <1>2, <1>6, <1>7 DEF OperationsTypeOK
<1>9. ClaimsAreKnown' /\ TreesAreMissed'
  BY <1>1, <1>2, <1>5, <1>6, <1>7 DEF ClaimsAreKnown, TreesAreMissed
<1>10. OneUnresolved'
  <2>1. \A p \in Claimed : (Resolved(p))' = Resolved(p)
    BY <1>6, <1>7, ReadsTheSame DEF Claimed
  <2> QED BY <1>1, <1>7, <2>1 DEF OneUnresolved
<1>11. Pc' # "none" => Supervised(supervisor', disk'[Op'], tree'[Op'])
  BY <1>1, <1>2, <1>5, <1>6, <1>7
<1> QED BY <1>8, <1>9, <1>10, <1>11 DEF OperationsInv

\* While something may still run, nothing else can be admitted.
LEMMA OperationsKeepsAdmit ==
    ASSUME OperationsInv, NEW o \in Operations, Admit(o)
    PROVE  OperationsInv'
<1>1. OperationsTypeOK /\ ClaimsAreKnown /\ OneUnresolved /\ TreesAreMissed
  BY DEF OperationsInv
<1>2. /\ Pc = "none" /\ HistoryReadable
      /\ \A p \in Claimed : Resolved(p) \/ (p = o /\ Inspect(p) = "Prepared")
      /\ Opens(o) /\ Inspect(o) = "Prepared"
      /\ supervisor' = [NoSupervisor EXCEPT !.o = o,
                          !.pc = IF claims[o] = "none" THEN "claim" ELSE "check"]
      /\ UNCHANGED <<disk, claims, tree>>
  BY DEF Admit
<1>3. /\ supervisor' \in SupervisorType /\ Op' = o /\ ~supervisor'.pending
      /\ Pc' = IF claims[o] = "none" THEN "claim" ELSE "check"
      /\ supervisor'.pc = Pc'
  BY <1>2 DEF NoSupervisor, SupervisorType, Pc, Op
<1>4. claims[o] # "none" => claims[o] = "whole"
  BY <1>2 DEF HistoryReadable, Claimed
<1>5. disk[o].receipt = "none" /\ ~disk[o].damage /\ disk[o].journal = <<"Prepared">>
  <2>1. disk[o].receipt # "whole" /\ ~disk[o].damage /\ JournalState(o) = "Prepared"
    BY <1>2 DEF Inspect
  <2>2. disk[o].receipt = "none"
    BY <1>2, <2>1 DEF Opens
  <2> QED BY <1>1, <2>1, <2>2, LastOfJournal
<1>6. tree[o] = "none"
  BY <1>1, <1>2, UnfinishedIsSeen DEF TreesAreMissed
<1>7. OperationsTypeOK' /\ TreesAreMissed'
  BY <1>1, <1>2, <1>3 DEF OperationsTypeOK, TreesAreMissed
<1>8. ClaimsAreKnown'
  BY <1>1, <1>2, <1>3, <1>4, <1>5 DEF ClaimsAreKnown, Begun
<1>9. OneUnresolved'
  <2>1. Claimed' = Claimed /\ \A p \in Claimed : p \in Operations
    BY <1>2 DEF Claimed
  <2>2. \A p \in Claimed : (Resolved(p))' = Resolved(p)
    BY <1>2, <2>1, ReadsTheSame
  <2>3. \A p \in Claimed \ {o} : Resolved(p)
    BY <1>2
  <2> QED BY <1>1, <1>3, <2>1, <2>2, <2>3 DEF OneUnresolved
<1>10. Supervised(supervisor', disk'[Op'], tree'[Op'])
  BY <1>2, <1>3, <1>5, <1>6 DEF Supervised, Working
<1> QED BY <1>7, <1>8, <1>9, <1>10 DEF OperationsInv

LEMMA OperationsKeepsAbandon ==
    ASSUME OperationsInv, NEW o \in Operations, Abandon(o)
    PROVE  OperationsInv'
<1>1. OperationsTypeOK /\ ClaimsAreKnown /\ OneUnresolved /\ TreesAreMissed
  BY DEF OperationsInv
<1>2. /\ Pc = "none" /\ claims[o] = "whole" /\ Observe(o)
      /\ Inspect(o) \in {"Interrupted", "Damaged"}
      /\ supervisor' = [NoSupervisor EXCEPT !.o = o, !.pc = "receipt"]
      /\ UNCHANGED <<disk, claims, tree>>
  BY DEF Abandon
<1>3. supervisor' \in SupervisorType /\ Op' = o /\ Pc' = "receipt" /\ supervisor'.pc = "receipt"
  BY <1>2 DEF NoSupervisor, SupervisorType, Pc, Op
<1>4. tree[o] = "none"
  BY <1>1, <1>2, UnfinishedIsSeen DEF TreesAreMissed
<1>5. OperationsTypeOK' /\ TreesAreMissed'
  BY <1>1, <1>2, <1>3 DEF OperationsTypeOK, TreesAreMissed
<1>6. ClaimsAreKnown'
  BY <1>1, <1>2, <1>3 DEF ClaimsAreKnown
<1>7. OneUnresolved'
  <2>1. Claimed' = Claimed /\ o \in Claimed /\ \A p \in Claimed : p \in Operations
    BY <1>2 DEF Claimed
  <2>2. \A p \in Claimed : (Resolved(p))' = Resolved(p)
    BY <1>2, <2>1, ReadsTheSame
  <2>3. ~Resolved(o)
    BY <1>2 DEF Resolved
  <2>4. \A p \in Claimed \ {o} : Resolved(p)
    BY <1>1, <2>1, <2>3 DEF OneUnresolved
  <2> QED BY <1>1, <1>3, <2>1, <2>2, <2>4 DEF OneUnresolved
<1>8. Supervised(supervisor', disk'[Op'], tree'[Op'])
  BY <1>2, <1>3, <1>4 DEF Supervised, Working
<1> QED BY <1>5, <1>6, <1>7, <1>8 DEF OperationsInv

LEMMA OperationsKeepsExit ==
    ASSUME OperationsInv, NEW o \in Operations, WorkersExit(o)
    PROVE  OperationsInv'
<1>1. /\ OperationsTypeOK /\ ClaimsAreKnown /\ OneUnresolved /\ TreesAreMissed
      /\ Pc # "none" => Supervised(supervisor, disk[Op], tree[Op])
      /\ Pc # "none" => Op \in Operations
  BY DEF OperationsInv, OperationsTypeOK
<1>2. tree' = [tree EXCEPT ![o] = "none"] /\ UNCHANGED <<disk, claims, supervisor>>
  BY DEF WorkersExit
<1>3. /\ tree' \in [Operations -> {"none", "gated", "started"}]
      /\ \A p \in Operations : tree'[p] = tree[p] \/ tree'[p] = "none"
  BY <1>1, <1>2 DEF OperationsTypeOK
<1>4. Pc' = Pc /\ Op' = Op /\ Claimed' = Claimed
      /\ \A p \in Operations : (Resolved(p))' = Resolved(p)
  BY <1>2, ReadsTheSame DEF Pc, Op, Claimed
<1>5. OperationsTypeOK' /\ ClaimsAreKnown' /\ TreesAreMissed'
  BY <1>1, <1>2, <1>3, <1>4 DEF OperationsTypeOK, ClaimsAreKnown, TreesAreMissed
<1>6. OneUnresolved'
  BY <1>1, <1>4 DEF OneUnresolved, Claimed
<1>7. Pc' # "none" => Supervised(supervisor', disk'[Op'], tree'[Op'])
  BY <1>1, <1>2, <1>3, <1>4 DEF Supervised
<1> QED BY <1>5, <1>6, <1>7 DEF OperationsInv

LEMMA OperationsKeepsClaim ==
    ASSUME OperationsInv, WriteClaim
    PROVE  OperationsInv'
<1>1. /\ OperationsTypeOK /\ ClaimsAreKnown /\ OneUnresolved /\ TreesAreMissed
      /\ Pc = "claim" /\ Supervised(supervisor, disk[Op], tree[Op]) /\ Op \in Operations
  BY DEF OperationsInv, OperationsTypeOK, WriteClaim
<1>2. PICK left \in {"none", "torn", "whole"} : claims' = [claims EXCEPT ![Op] = left]
  BY DEF WriteClaim
<1>3. /\ \/ supervisor' = NoSupervisor
         \/ claims' = [claims EXCEPT ![Op] = "whole"]
            /\ supervisor' = [supervisor EXCEPT !.pc = "check"]
      /\ UNCHANGED <<disk, tree>>
  BY DEF WriteClaim, To
<1>4. /\ claims' \in [Operations -> {"none", "torn", "whole"}]
      /\ \A p \in Operations \ {Op} : claims'[p] = claims[p]
      /\ (claims' = [claims EXCEPT ![Op] = "whole"] => claims'[Op] = "whole")
  BY <1>1, <1>2 DEF OperationsTypeOK
<1>5. /\ supervisor' \in SupervisorType
      /\ \/ Pc' = "none" /\ supervisor' = NoSupervisor
         \/ /\ Pc' = "check" /\ Op' = Op /\ claims'[Op] = "whole"
            /\ supervisor'.pc = "check" /\ supervisor'.pending = supervisor.pending
  <2>1. CASE supervisor' = NoSupervisor
    BY <2>1 DEF NoSupervisor, SupervisorType, Pc
  <2>2. CASE claims' = [claims EXCEPT ![Op] = "whole"]
             /\ supervisor' = [supervisor EXCEPT !.pc = "check"]
    BY <1>1, <1>4, <2>2 DEF OperationsTypeOK, SupervisorType, Pc, Op
  <2> QED BY <1>3, <2>1, <2>2
<1>6. tree[Op] = "none"
  BY <1>1 DEF Supervised, Pc
<1>7. OperationsTypeOK'
  BY <1>1, <1>3, <1>4, <1>5 DEF OperationsTypeOK
<1>8. ClaimsAreKnown' /\ TreesAreMissed'
  BY <1>1, <1>3, <1>4, <1>5, <1>6 DEF ClaimsAreKnown, TreesAreMissed
<1>9. OneUnresolved'
  <2>1. \A p \in Operations : (Resolved(p))' = Resolved(p)
    BY <1>3, ReadsTheSame
  <2>2. \A p \in Claimed' \ {Op} : p \in Claimed /\ p \in Operations
    BY <1>4 DEF Claimed
  <2>3. \A p \in Claimed' \ {Op} : (Resolved(p))'
    BY <1>1, <2>1, <2>2 DEF OneUnresolved
  <2> QED BY <1>5, <2>3 DEF OneUnresolved
<1>10. Pc' # "none" => Supervised(supervisor', disk'[Op'], tree'[Op'])
  BY <1>1, <1>3, <1>5, <1>6 DEF Supervised, Working, Pc
<1> QED BY <1>7, <1>8, <1>9, <1>10 DEF OperationsInv

----------------------------------------------------------
(* Journalled validation: the steps of the supervisor *)

LEMMA Supervising ==
    ASSUME OperationsInv, Pc \notin {"none", "claim"}
    PROVE  /\ Op \in Operations /\ claims[Op] = "whole" /\ supervisor \in SupervisorType
           /\ disk[Op] \in Directory /\ tree[Op] \in {"none", "gated", "started"}
           /\ Supervised(supervisor, disk[Op], tree[Op]) /\ Begun(disk[Op])
           /\ tree[Op] # "none" => Unfinished(disk[Op])
           /\ disk = [disk EXCEPT ![Op] = disk[Op]] /\ tree = [tree EXCEPT ![Op] = tree[Op]]
BY DEF OperationsInv, OperationsTypeOK, ClaimsAreKnown, TreesAreMissed

\* Three records to a worker.
LEMMA ThreeRecords ==
    ASSUME NEW e \in Nat
    PROVE  /\ e + 1 \in Nat
           /\ e % 3 = 0 => (e + 1) % 3 = 1
           /\ e % 3 = 1 => (e + 1) % 3 = 2
           /\ e % 3 = 2 => (e + 1) % 3 = 0
OBVIOUS

\* The journal a terminal record leaves.
LEMMA TerminalRecord ==
    ASSUME OperationsInv, Pc = "terminal", ~supervisor.poisoned
    PROVE  /\ Append(disk[Op].journal, Terminal) \in Journals \ {<<>>, <<"Prepared">>}
           /\ tree[Op] # "none" => Append(disk[Op].journal, Terminal)
                                       = <<"Prepared", "Validating", "RecoveryFailed">>
<1>1. /\ Supervised(supervisor, disk[Op], tree[Op])
      /\ tree[Op] # "none" => disk[Op].journal # <<"Prepared">>
  BY Supervising DEF Unfinished
<1>2. /\ tree[Op] # "none" => supervisor.pending
      /\ \/ disk[Op].journal = <<"Prepared", "Validating">>
         \/ disk[Op].journal = <<"Prepared">> /\ ~supervisor.pending
  BY <1>1 DEF Supervised, Pc
<1>3. /\ Terminal \in {"Cancelled", "Failed", "RecoveryFailed"}
      /\ supervisor.pending <=> Terminal = "RecoveryFailed"
  BY DEF Terminal
<1>4. Append(disk[Op].journal, Terminal) \in Journals \ {<<>>, <<"Prepared">>}
  <2>1. CASE disk[Op].journal = <<"Prepared", "Validating">>
    BY <1>3, <2>1, JournalGrows
  <2>2. CASE disk[Op].journal = <<"Prepared">> /\ ~supervisor.pending
    BY <1>3, <2>2, JournalGrows
  <2> QED BY <1>2, <2>1, <2>2
<1>5. tree[Op] # "none" => Append(disk[Op].journal, Terminal)
                              = <<"Prepared", "Validating", "RecoveryFailed">>
  BY <1>1, <1>2, <1>3, JournalGrows
<1> QED BY <1>4, <1>5

\* Whatever a write leaves, what may still run is missed by the next reader.
LEMMA LeftBehind ==
    ASSUME OperationsInv, Pc \notin {"none", "claim"}, Pc = "terminal" => ~supervisor.poisoned,
           NEW d \in {disk[Op], Torn(Pc, Op), Written(Pc, Op)}
    PROVE  d \in Directory /\ Begun(d) /\ (tree[Op] # "none" => Unfinished(d))
<1>1. /\ disk[Op] \in Directory /\ Begun(disk[Op])
      /\ tree[Op] # "none" => Unfinished(disk[Op])
      /\ Supervised(supervisor, disk[Op], tree[Op])
  BY Supervising
<1>2. CASE d = disk[Op]
  BY <1>1, <1>2
<1>3. CASE d = Torn(Pc, Op)
  <2>1. CASE Pc \in {"validating", "stage", "terminal"}
    <3>1. d = [disk[Op] EXCEPT !.damage = TRUE]
      BY <1>3, <2>1 DEF Torn
    <3> QED BY <1>1, <3>1 DEF Directory, Begun, Unfinished, Missed
  <2>2. CASE Pc \in {"intent", "own", "cleaned"}
    <3>1. d = [disk[Op] EXCEPT !.tornEvent = TRUE]
      BY <1>3, <2>2 DEF Torn
    <3> QED BY <1>1, <3>1 DEF Directory, Begun, Unfinished, Missed
  <2>3. CASE Pc = "save"
    <3>1. d = [disk[Op] EXCEPT !.evidence = "torn"]
      BY <1>3, <2>3 DEF Torn
    <3> QED BY <1>1, <3>1 DEF Directory, Begun, Unfinished, Missed
  <2>4. CASE Pc = "receipt"
    <3>1. d = [disk[Op] EXCEPT !.receipt = "torn"]
      BY <1>3, <2>4 DEF Torn
    <3>2. tree[Op] = "none"
      BY <1>1, <2>4 DEF Supervised, Pc
    <3> QED BY <1>1, <3>1, <3>2 DEF Directory, Begun
  <2>5. CASE Pc \notin {"validating", "stage", "terminal", "intent", "own", "cleaned", "save",
                        "receipt"}
    <3>1. d = disk[Op]
      BY <1>3, <2>5 DEF Torn
    <3> QED BY <1>1, <3>1
  <2> QED BY <2>1, <2>2, <2>3, <2>4, <2>5
<1>4. CASE d = Written(Pc, Op)
  <2>1. CASE Pc = "validating"
    <3>1. d = [disk[Op] EXCEPT !.journal = Append(@, "Validating")]
      BY <1>4, <2>1 DEF Written
    <3>2. disk[Op].journal = <<"Prepared">> /\ tree[Op] = "none"
      BY <1>1, <2>1 DEF Supervised, Pc
    <3>3. Append(disk[Op].journal, "Validating") = <<"Prepared", "Validating">>
      BY <3>2, JournalGrows
    <3> QED BY <1>1, <3>1, <3>2, <3>3 DEF Directory, Journals, Begun
  <2>2. CASE Pc \in {"intent", "own", "cleaned"}
    <3>1. d = [disk[Op] EXCEPT !.events = @ + 1]
      BY <1>4, <2>2 DEF Written
    <3>2. Pc # "own" => tree[Op] = "none"
      BY <1>1, <2>2 DEF Supervised, Pc
    <3>3. Pc = "own" => disk[Op].events % 3 = 1
      BY <1>1 DEF Supervised, Pc
    <3>4. disk[Op].journal = <<"Prepared", "Validating">>
      BY <1>1, <2>2 DEF Supervised, Working, Pc
    <3>5. /\ disk[Op].events \in Nat /\ disk[Op].events + 1 \in Nat
          /\ Pc = "own" => (disk[Op].events + 1) % 3 # 0
      BY <1>1, <3>3, ThreeRecords DEF Directory
    <3>6. d \in Directory /\ Begun(d)
      <4>1. disk[Op].journal \notin {<<>>, <<"Prepared">>}
        BY <3>4
      <4> QED BY <1>1, <3>1, <3>5, <4>1 DEF Directory, Begun
    <3>7. Pc = "own" /\ tree[Op] # "none" => Unfinished(d)
      BY <1>1, <3>1, <3>5 DEF Directory, Unfinished, Missed
    <3> QED BY <2>2, <3>2, <3>6, <3>7
  <2>3. CASE Pc = "save"
    <3>1. d = [disk[Op] EXCEPT !.evidence = "whole"]
      BY <1>4, <2>3 DEF Written
    <3> QED BY <1>1, <3>1 DEF Directory, Begun, Unfinished, Missed
  <2>4. CASE Pc = "stage"
    <3>1. d = [disk[Op] EXCEPT !.journal = Append(@, "Staged")]
      BY <1>4, <2>4 DEF Written
    <3>2. disk[Op].journal = <<"Prepared", "Validating">> /\ tree[Op] = "none"
      BY <1>1, <2>4 DEF Supervised, Working, Pc
    <3>3. Append(disk[Op].journal, "Staged") = <<"Prepared", "Validating", "Staged">>
      BY <3>2, JournalGrows
    <3> QED BY <1>1, <3>1, <3>2, <3>3 DEF Directory, Journals, Begun
  <2>5. CASE Pc = "terminal"
    <3>1. d = [disk[Op] EXCEPT !.journal = Append(@, Terminal)]
      BY <1>4, <2>5 DEF Written
    <3>2. PICK j : j = Append(disk[Op].journal, Terminal)
      OBVIOUS
    <3>3. d = [disk[Op] EXCEPT !.journal = j]
      BY <3>1, <3>2
    <3>4. /\ j \in Journals /\ j # <<>> /\ j # <<"Prepared">>
          /\ tree[Op] # "none" => j = <<"Prepared", "Validating", "RecoveryFailed">>
      BY <2>5, <3>2, TerminalRecord
    <3> QED BY <1>1, <3>3, <3>4 DEF Directory, Begun, Unfinished, Missed
  <2>6. CASE Pc = "receipt"
    <3>1. d = [disk[Op] EXCEPT !.receipt = "whole"]
      BY <1>4, <2>6 DEF Written
    <3>2. tree[Op] = "none"
      BY <1>1, <2>6 DEF Supervised, Pc
    <3> QED BY <1>1, <3>1, <3>2 DEF Directory, Begun
  <2>7. CASE Pc \notin {"validating", "stage", "terminal", "intent", "own", "cleaned", "save",
                        "receipt"}
    <3>1. d = disk[Op]
      BY <1>4, <2>7 DEF Written
    <3> QED BY <1>1, <3>1
  <2> QED BY <2>1, <2>2, <2>3, <2>4, <2>5, <2>6, <2>7
<1> QED BY <1>2, <1>3, <1>4
\* A step that writes at most the operation's own directory.
LEMMA DirectoryStep ==
    ASSUME OperationsInv, Pc \notin {"none", "claim"}, UNCHANGED <<claims, tree>>,
           NEW d \in Directory, disk' = [disk EXCEPT ![Op] = d], Begun(d),
           tree[Op] # "none" => Unfinished(d),
           supervisor' \in SupervisorType,
           \/ supervisor'.pc = "none"
           \/ supervisor'.o = Op /\ Supervised(supervisor', d, tree[Op])
    PROVE  OperationsInv'
<1>1. /\ claims[Op] = "whole" /\ tree[Op] \in {"none", "gated", "started"}
      /\ tree' = [tree EXCEPT ![Op] = tree[Op]]
  BY Supervising
<1> QED BY <1>1, OperationStep

\* A step that changes at most the operation's worker processes.
LEMMA TreeStep ==
    ASSUME OperationsInv, Pc \notin {"none", "claim"}, UNCHANGED <<disk, claims>>,
           NEW t \in {"none", "gated", "started"}, tree' = [tree EXCEPT ![Op] = t],
           t # "none" => Unfinished(disk[Op]),
           supervisor' \in SupervisorType,
           \/ supervisor'.pc = "none"
           \/ supervisor'.o = Op /\ Supervised(supervisor', disk[Op], t)
    PROVE  OperationsInv'
<1>1. /\ claims[Op] = "whole" /\ disk[Op] \in Directory /\ Begun(disk[Op])
      /\ disk' = [disk EXCEPT ![Op] = disk[Op]]
  BY Supervising
<1> QED BY <1>1, OperationStep

\* A step that only decides.
LEMMA DecisionStep ==
    ASSUME OperationsInv, Pc \notin {"none", "claim"}, UNCHANGED <<disk, claims, tree>>,
           supervisor' \in SupervisorType,
           \/ supervisor'.pc = "none"
           \/ supervisor'.o = Op /\ Supervised(supervisor', disk[Op], tree[Op])
    PROVE  OperationsInv'
<1>1. /\ disk[Op] \in Directory /\ Begun(disk[Op]) /\ disk' = [disk EXCEPT ![Op] = disk[Op]]
      /\ tree[Op] # "none" => Unfinished(disk[Op])
  BY Supervising
<1> QED BY <1>1, DirectoryStep

LEMMA NoSupervisorLeft ==
    NoSupervisor \in SupervisorType /\ NoSupervisor.pc = "none"
BY DEF NoSupervisor, SupervisorType

\* Where the supervisor goes with its other fields as they were.
LEMMA GoesTo ==
    ASSUME supervisor \in SupervisorType, NEW pc,
           pc \in {"none", "claim", "check", "validating", "records", "next", "intent", "spawn",
                   "own", "start", "wait", "cleanup", "cleaned", "drop", "bind", "save",
                   "stage", "terminal", "receipt"},
           To(pc)
    PROVE  /\ supervisor' \in SupervisorType /\ supervisor'.pc = pc /\ supervisor'.o = Op
           /\ supervisor'.pending = supervisor.pending
           /\ supervisor'.poisoned = supervisor.poisoned
BY DEF To, SupervisorType, Op

LEMMA OperationsKeepsDecision ==
    ASSUME OperationsInv,
           \/ Cancel \/ Check \/ NextWorker \/ WaitForReceipt \/ Bind
           \/ Validating /\ supervisor.cancelled
           \/ Stage /\ supervisor.cancelled
           \/ RecordTerminal /\ supervisor.poisoned
    PROVE  OperationsInv'
<1>1. /\ Pc \notin {"none", "claim"} /\ UNCHANGED <<disk, claims, tree>>
  BY DEF Cancel, Check, NextWorker, WaitForReceipt, Bind, Validating, Stage, RecordTerminal
<1>2. /\ supervisor \in SupervisorType /\ Supervised(supervisor, disk[Op], tree[Op])
      /\ supervisor.pc = Pc
  BY <1>1, Supervising DEF Pc
<1> SUFFICES /\ supervisor' \in SupervisorType
             /\ \/ supervisor'.pc = "none"
                \/ supervisor'.o = Op /\ Supervised(supervisor', disk[Op], tree[Op])
  BY <1>1, DecisionStep
<1>3. CASE Cancel
  <2>1. supervisor' = [supervisor EXCEPT !.cancelled = TRUE]
    BY <1>3 DEF Cancel
  <2>2. /\ supervisor' \in SupervisorType /\ supervisor'.o = Op /\ supervisor'.pc = supervisor.pc
        /\ supervisor'.pending = supervisor.pending
        /\ supervisor'.poisoned = supervisor.poisoned
    BY <1>2, <2>1 DEF SupervisorType, Op
  <2> QED BY <1>2, <2>2 DEF Supervised
<1>4. CASE Check
  <2>1. To("validating") \/ To("terminal")
    BY <1>4 DEF Check
  <2>2. /\ supervisor' \in SupervisorType /\ supervisor'.o = Op
        /\ supervisor'.pc \in {"validating", "terminal"}
        /\ supervisor'.pending = supervisor.pending
        /\ supervisor'.poisoned = supervisor.poisoned
    BY <1>2, <2>1, GoesTo
  <2>3. supervisor.pc = "check"
    BY <1>4, <1>2 DEF Check
  <2> QED BY <1>2, <2>2, <2>3 DEF Supervised, Working
<1>5. CASE NextWorker
  <2>1. To("terminal") \/ To("bind") \/ To("intent")
    BY <1>5 DEF NextWorker
  <2>2. /\ supervisor' \in SupervisorType /\ supervisor'.o = Op
        /\ supervisor'.pc \in {"bind", "intent", "terminal"}
        /\ supervisor'.pending = supervisor.pending
        /\ supervisor'.poisoned = supervisor.poisoned
    BY <1>2, <2>1, GoesTo
  <2>3. supervisor.pc = "next"
    BY <1>5, <1>2 DEF NextWorker
  <2> QED BY <1>2, <2>2, <2>3 DEF Supervised, Working
<1>6. CASE WaitForReceipt
  <2>1. PICK ok \in BOOLEAN :
           supervisor' = [supervisor EXCEPT !.pc = "cleanup",
                                            !.result = ok /\ ~supervisor.cancelled]
    BY <1>6 DEF WaitForReceipt
  <2>2. (ok /\ ~supervisor.cancelled) \in BOOLEAN
    BY Zenon
  <2>3. /\ supervisor' \in SupervisorType /\ supervisor'.o = Op /\ supervisor'.pc = "cleanup"
        /\ supervisor'.pending = supervisor.pending
        /\ supervisor'.poisoned = supervisor.poisoned
    BY <1>2, <2>1, <2>2 DEF SupervisorType, Op
  <2>4. supervisor.pc = "wait"
    BY <1>6, <1>2 DEF WaitForReceipt
  <2> QED BY <1>2, <2>3, <2>4 DEF Supervised, Working
<1>7. CASE Bind
  <2>1. To("save") \/ To("terminal")
    BY <1>7 DEF Bind
  <2>2. /\ supervisor' \in SupervisorType /\ supervisor'.o = Op
        /\ supervisor'.pc \in {"save", "terminal"}
        /\ supervisor'.pending = supervisor.pending
        /\ supervisor'.poisoned = supervisor.poisoned
    BY <1>2, <2>1, GoesTo
  <2>3. supervisor.pc = "bind"
    BY <1>7, <1>2 DEF Bind
  <2> QED BY <1>2, <2>2, <2>3 DEF Supervised, Working
<1>8. CASE (Validating \/ Stage) /\ supervisor.cancelled
  <2>1. To("terminal") /\ supervisor.pc \in {"validating", "stage"}
    BY <1>8, <1>2 DEF Validating, Stage
  <2>2. /\ supervisor' \in SupervisorType /\ supervisor'.o = Op /\ supervisor'.pc = "terminal"
        /\ supervisor'.pending = supervisor.pending
        /\ supervisor'.poisoned = supervisor.poisoned
    BY <1>2, <2>1, GoesTo
  <2> QED BY <1>2, <2>1, <2>2 DEF Supervised, Working
<1>9. CASE RecordTerminal /\ supervisor.poisoned
  <2>1. supervisor' = NoSupervisor
    BY <1>9 DEF RecordTerminal
  <2> QED BY <2>1, NoSupervisorLeft
<1> QED BY <1>3, <1>4, <1>5, <1>6, <1>7, <1>8, <1>9

LEMMA OperationsKeepsTree ==
    ASSUME OperationsInv, Spawn \/ Start \/ CleanUp \/ DropOwned
    PROVE  OperationsInv'
<1>1. Pc \notin {"none", "claim"} /\ UNCHANGED <<disk, claims>>
  BY DEF Spawn, Start, CleanUp, DropOwned
<1>2. /\ supervisor \in SupervisorType /\ Supervised(supervisor, disk[Op], tree[Op])
      /\ supervisor.pc = Pc /\ Op \in Operations
      /\ tree[Op] \in {"none", "gated", "started"} /\ (tree[Op] # "none" => Unfinished(disk[Op]))
      /\ tree = [tree EXCEPT ![Op] = tree[Op]]
  BY <1>1, Supervising DEF Pc
<1> DEFINE Good(t) ==
        /\ t \in {"none", "gated", "started"} /\ tree' = [tree EXCEPT ![Op] = t]
        /\ t # "none" => Unfinished(disk[Op])
        /\ supervisor' \in SupervisorType /\ supervisor'.o = Op
        /\ Supervised(supervisor', disk[Op], t)
<1>3. ASSUME NEW t, Good(t) PROVE OperationsInv'
  BY <1>1, <1>3, TreeStep
<1> HIDE DEF Good
<1>4. CASE Spawn
  <2>1. /\ supervisor.pc = "spawn" /\ Unfinished(disk[Op])
    <3>1. supervisor.pc = "spawn"
      BY <1>2, <1>4 DEF Spawn
    <3>2. /\ disk[Op].journal = <<"Prepared", "Validating">>
          /\ disk[Op].receipt = "none" /\ disk[Op].events % 3 = 1
      BY <1>2, <3>1 DEF Supervised, Working
    <3> QED BY <3>1, <3>2 DEF Unfinished, Missed
  <2>2. CASE tree' = [tree EXCEPT ![Op] = "gated"] /\ To("own")
    <3>1. /\ supervisor' \in SupervisorType /\ supervisor'.o = Op /\ supervisor'.pc = "own"
          /\ supervisor'.pending = supervisor.pending
          /\ supervisor'.poisoned = supervisor.poisoned
      BY <1>2, <2>2, GoesTo
    <3>2. Supervised(supervisor', disk[Op], "gated")
      BY <1>2, <2>1, <3>1 DEF Supervised, Working
    <3> QED BY <1>3, <2>1, <2>2, <3>1, <3>2 DEF Good
  <2>3. CASE To("terminal") /\ UNCHANGED tree
    <3>1. /\ supervisor' \in SupervisorType /\ supervisor'.o = Op /\ supervisor'.pc = "terminal"
          /\ supervisor'.pending = supervisor.pending
          /\ supervisor'.poisoned = supervisor.poisoned
      BY <1>2, <2>3, GoesTo
    <3>2. Supervised(supervisor', disk[Op], tree[Op])
      BY <1>2, <2>1, <3>1 DEF Supervised, Working
    <3> QED BY <1>2, <1>3, <2>3, <3>1, <3>2 DEF Good
  <2> QED BY <1>4, <2>2, <2>3 DEF Spawn
<1>5. CASE Start
  <2>1. PICK t \in {"none", "started"} :
           /\ tree' = [tree EXCEPT ![Op] = t]
           /\ t # "none" => tree[Op] # "none"
    BY <1>2, <1>5 DEF Start
  <2>2. To("wait") /\ supervisor.pc = "start"
    BY <1>2, <1>5 DEF Start
  <2>3. /\ supervisor' \in SupervisorType /\ supervisor'.o = Op /\ supervisor'.pc = "wait"
        /\ supervisor'.pending = supervisor.pending
        /\ supervisor'.poisoned = supervisor.poisoned
    BY <1>2, <2>2, GoesTo
  <2>4. Supervised(supervisor', disk[Op], t)
    BY <1>2, <2>2, <2>3 DEF Supervised, Working
  <2> QED BY <1>2, <1>3, <2>1, <2>3, <2>4 DEF Good
<1>6. CASE CleanUp
  <2>1. supervisor.pc = "cleanup"
    BY <1>2, <1>6 DEF CleanUp
  <2>2. CASE tree' = [tree EXCEPT ![Op] = "none"] /\ To("cleaned")
    <3>1. /\ supervisor' \in SupervisorType /\ supervisor'.o = Op /\ supervisor'.pc = "cleaned"
          /\ supervisor'.pending = supervisor.pending
          /\ supervisor'.poisoned = supervisor.poisoned
      BY <1>2, <2>2, GoesTo
    <3>2. Supervised(supervisor', disk[Op], "none")
      BY <1>2, <2>1, <3>1 DEF Supervised, Working
    <3> QED BY <1>3, <2>2, <3>1, <3>2 DEF Good
  <2>3. CASE To("terminal") /\ UNCHANGED tree
    <3>1. /\ supervisor' \in SupervisorType /\ supervisor'.o = Op /\ supervisor'.pc = "terminal"
          /\ supervisor'.pending = supervisor.pending
          /\ supervisor'.poisoned = supervisor.poisoned
      BY <1>2, <2>3, GoesTo
    <3>2. Supervised(supervisor', disk[Op], tree[Op])
      BY <1>2, <2>1, <3>1 DEF Supervised, Working
    <3> QED BY <1>2, <1>3, <2>3, <3>1, <3>2 DEF Good
  <2> QED BY <1>6, <2>2, <2>3 DEF CleanUp
<1>7. CASE DropOwned
  <2>1. PICK t \in {"none", tree[Op]} : tree' = [tree EXCEPT ![Op] = t]
    BY <1>7 DEF DropOwned
  <2>2. To("terminal") /\ supervisor.pc = "drop"
    BY <1>2, <1>7 DEF DropOwned
  <2>3. /\ supervisor' \in SupervisorType /\ supervisor'.o = Op /\ supervisor'.pc = "terminal"
        /\ supervisor'.pending = supervisor.pending
        /\ supervisor'.poisoned = supervisor.poisoned
    BY <1>2, <2>2, GoesTo
  <2>4. Supervised(supervisor', disk[Op], t)
    BY <1>2, <2>2, <2>3 DEF Supervised, Working
  <2> QED BY <1>2, <1>3, <2>1, <2>3, <2>4 DEF Good
<1> QED BY <1>4, <1>5, <1>6, <1>7
\* A write that succeeds, by step; the last three end the supervisor.
LEMMA OperationsKeepsWrite ==
    ASSUME OperationsInv,
           \/ Validating /\ ~supervisor.cancelled
           \/ Starting \/ RecordOwned \/ RecordCleaned \/ Save
           \/ Stage /\ ~supervisor.cancelled
           \/ RecordTerminal /\ ~supervisor.poisoned
           \/ WriteReceipt
    PROVE  OperationsInv'
<1> DEFINE d == Written(Pc, Op)
<1>1. /\ Pc \notin {"none", "claim"} /\ UNCHANGED <<claims, tree>>
      /\ disk' = [disk EXCEPT ![Op] = d]
      /\ Pc = "terminal" => ~supervisor.poisoned
  BY DEF Validating, Starting, RecordOwned, RecordCleaned, Save, Stage, RecordTerminal,
         WriteReceipt, Write
<1>2. /\ supervisor \in SupervisorType /\ Supervised(supervisor, disk[Op], tree[Op])
      /\ supervisor.pc = Pc /\ disk[Op] \in Directory
  BY <1>1, Supervising DEF Pc
<1>3. d \in Directory /\ Begun(d) /\ (tree[Op] # "none" => Unfinished(d))
  BY <1>1, LeftBehind
<1> SUFFICES /\ supervisor' \in SupervisorType
             /\ \/ supervisor'.pc = "none"
                \/ supervisor'.o = Op /\ Supervised(supervisor', d, tree[Op])
  <2> HIDE DEF d
  <2> QED BY <1>1, <1>3, DirectoryStep
<1>4. CASE Validating /\ ~supervisor.cancelled
  <2>1. /\ supervisor.pc = "validating"
        /\ supervisor' = [supervisor EXCEPT !.pc = "records", !.validating = TRUE]
    BY <1>2, <1>4 DEF Validating, Write
  <2>2. /\ supervisor' \in SupervisorType /\ supervisor'.o = Op /\ supervisor'.pc = "records"
        /\ supervisor'.pending = supervisor.pending
    BY <1>2, <2>1 DEF SupervisorType, Op
  <2>3. /\ disk[Op].journal = <<"Prepared">> /\ ~disk[Op].damage /\ ~supervisor.pending
        /\ disk[Op].receipt = "none" /\ tree[Op] = "none"
    BY <1>2, <2>1 DEF Supervised
  <2>4. disk[Op].events % 3 = 0
    <3>1. disk[Op].events = 0
      BY <1>2, <2>3 DEF Directory
    <3> QED BY <3>1
  <2>5. /\ d.journal = <<"Prepared", "Validating">> /\ ~d.damage
        /\ d.receipt = "none" /\ d.events % 3 = 0
    <3>1. d = [disk[Op] EXCEPT !.journal = Append(@, "Validating")]
      BY <1>2, <2>1 DEF Written
    <3>2. Append(disk[Op].journal, "Validating") = <<"Prepared", "Validating">>
      BY <2>3, JournalGrows
    <3> QED BY <1>2, <2>3, <2>4, <3>1, <3>2 DEF Directory
  <2> HIDE DEF d
  <2> QED BY <2>2, <2>3, <2>5 DEF Supervised, Working
<1>5. CASE Starting \/ RecordOwned \/ RecordCleaned
  <2>1. /\ supervisor.pc \in {"intent", "own", "cleaned"}
        /\ supervisor' =
              [supervisor EXCEPT !.pc = CASE Pc = "intent" -> "spawn"
                                          [] Pc = "own" -> "start"
                                          [] Pc = "cleaned" -> "next",
                                 !.pending = Pc # "cleaned"]
    <3>1. CASE Starting
      BY <1>2, <1>5, <3>1 DEF Starting, Write
    <3>2. CASE RecordOwned
      <4>1. supervisor.pc = "own" /\ supervisor.pending = TRUE
        BY <1>2, <3>2 DEF RecordOwned, Supervised, SupervisorType
      <4>2. supervisor' = [supervisor EXCEPT !.pc = "start"]
        BY <3>2 DEF RecordOwned, Write
      <4> QED BY <1>2, <4>1, <4>2 DEF SupervisorType
    <3>3. CASE RecordCleaned
      BY <1>2, <1>5, <3>3 DEF RecordCleaned, Write
    <3> QED BY <1>5, <3>1, <3>2, <3>3
  <2>2. /\ disk[Op].journal = <<"Prepared", "Validating">> /\ ~disk[Op].damage
        /\ disk[Op].receipt = "none"
    BY <1>2, <2>1 DEF Supervised, Working
  <2>3. /\ d = [disk[Op] EXCEPT !.events = @ + 1]
    BY <1>2, <2>1 DEF Written
  <2>4. /\ d.journal = <<"Prepared", "Validating">> /\ ~d.damage /\ d.receipt = "none"
        /\ d.events = disk[Op].events + 1 /\ disk[Op].events \in Nat
    BY <1>2, <2>2, <2>3 DEF Directory
  <2>5. /\ disk[Op].events % 3 = 0 => d.events % 3 = 1
        /\ disk[Op].events % 3 = 1 => d.events % 3 = 2
        /\ disk[Op].events % 3 = 2 => d.events % 3 = 0
    BY <2>4, ThreeRecords
  <2>6. supervisor' \in SupervisorType /\ supervisor'.o = Op
    BY <1>2, <2>1 DEF SupervisorType, Op
  <2> HIDE DEF d
  <2>7. CASE Pc = "intent"
    <3>1. supervisor'.pc = "spawn" /\ supervisor'.pending
      BY <1>2, <2>1, <2>7 DEF SupervisorType
    <3>2. d.events % 3 = 1 /\ tree[Op] = "none"
      BY <1>2, <2>5, <2>7 DEF Supervised
    <3> QED BY <2>4, <2>6, <3>1, <3>2 DEF Supervised, Working
  <2>8. CASE Pc = "own"
    <3>1. supervisor'.pc = "start" /\ supervisor'.pending
      BY <1>2, <2>1, <2>8 DEF SupervisorType
    <3>2. d.events % 3 = 2
      BY <1>2, <2>5, <2>8 DEF Supervised
    <3> QED BY <2>4, <2>6, <3>1, <3>2 DEF Supervised, Working
  <2>9. CASE Pc = "cleaned"
    <3>1. supervisor'.pc = "next" /\ ~supervisor'.pending
      BY <1>2, <2>1, <2>9 DEF SupervisorType
    <3>2. d.events % 3 = 0 /\ tree[Op] = "none"
      BY <1>2, <2>5, <2>9 DEF Supervised
    <3> QED BY <2>4, <2>6, <3>1, <3>2 DEF Supervised, Working
  <2> QED BY <1>2, <2>1, <2>7, <2>8, <2>9
<1>6. CASE Save
  <2>1. supervisor.pc = "save" /\ supervisor' = [supervisor EXCEPT !.pc = "stage"]
    BY <1>2, <1>6 DEF Save, Write
  <2>2. /\ supervisor' \in SupervisorType /\ supervisor'.o = Op /\ supervisor'.pc = "stage"
        /\ supervisor'.pending = supervisor.pending
    BY <1>2, <2>1 DEF SupervisorType, Op
  <2>3. d = [disk[Op] EXCEPT !.evidence = "whole"]
    BY <1>2, <2>1 DEF Written
  <2>4. /\ d.journal = disk[Op].journal /\ d.damage = disk[Op].damage
        /\ d.receipt = disk[Op].receipt /\ d.events = disk[Op].events
    BY <1>2, <2>3 DEF Directory
  <2> HIDE DEF d
  <2> QED BY <1>2, <2>1, <2>2, <2>4 DEF Supervised, Working
<1>7. CASE (Stage /\ ~supervisor.cancelled) \/ (RecordTerminal /\ ~supervisor.poisoned)
           \/ WriteReceipt
  <2>1. supervisor' = NoSupervisor
    BY <1>7 DEF Stage, RecordTerminal, WriteReceipt, Write
  <2> QED BY <2>1, NoSupervisorLeft
<1> QED BY <1>4, <1>5, <1>6, <1>7

\* A write that fails, whatever it left, leads to the error path.
LEMMA OperationsKeepsFailure ==
    ASSUME OperationsInv, WriteFails
    PROVE  OperationsInv'
<1>1. /\ Pc \in {"validating", "intent", "own", "cleaned", "save", "stage", "terminal"}
      /\ Pc = "terminal" => ~supervisor.poisoned
      /\ UNCHANGED <<claims, tree>>
      /\ supervisor' =
            IF Pc = "terminal" THEN NoSupervisor
            ELSE [supervisor EXCEPT
                    !.pc = IF Pc = "own" THEN "drop" ELSE "terminal",
                    !.pending = @ \/ Pc = "intent",
                    !.poisoned = Pc \in {"validating", "stage"}]
  BY DEF WriteFails
<1>2. PICK d \in {disk[Op], Torn(Pc, Op), Written(Pc, Op)} : disk' = [disk EXCEPT ![Op] = d]
  BY DEF WriteFails
<1>3. d \in Directory /\ Begun(d) /\ (tree[Op] # "none" => Unfinished(d))
  BY <1>1, <1>2, LeftBehind
<1>4. /\ supervisor \in SupervisorType /\ Supervised(supervisor, disk[Op], tree[Op])
      /\ supervisor.pc = Pc /\ disk[Op] \in Directory
  BY <1>1, Supervising DEF Pc
<1> SUFFICES /\ supervisor' \in SupervisorType
             /\ \/ supervisor'.pc = "none"
                \/ supervisor'.o = Op /\ Supervised(supervisor', d, tree[Op])
  BY <1>1, <1>2, <1>3, DirectoryStep
<1>5. CASE Pc = "terminal"
  BY <1>1, <1>5, NoSupervisorLeft
<1>6. CASE Pc # "terminal"
  <2>1. PICK owed \in BOOLEAN, poisoned \in BOOLEAN :
           /\ owed = (supervisor.pending \/ Pc = "intent")
           /\ poisoned = (Pc \in {"validating", "stage"})
    <3>1. (supervisor.pending \/ Pc = "intent") \in BOOLEAN
      BY Zenon
    <3>2. (Pc \in {"validating", "stage"}) \in BOOLEAN
      OBVIOUS
    <3> QED BY <3>1, <3>2, Zenon
  <2>2. supervisor' = [supervisor EXCEPT
                          !.pc = IF Pc = "own" THEN "drop" ELSE "terminal",
                          !.pending = owed, !.poisoned = poisoned]
    BY <1>1, <1>6, <2>1, Zenon
  <2>3. /\ supervisor' \in SupervisorType /\ supervisor'.o = Op
        /\ supervisor'.pc = IF Pc = "own" THEN "drop" ELSE "terminal"
        /\ supervisor'.pending = owed /\ supervisor'.poisoned = poisoned
    BY <1>4, <2>2 DEF SupervisorType, Op
  <2>4. CASE Pc = "own"
    <3>1. /\ disk[Op].journal = <<"Prepared", "Validating">> /\ ~disk[Op].damage
          /\ disk[Op].receipt = "none" /\ disk[Op].events % 3 = 1 /\ supervisor.pending
      BY <1>4, <2>4 DEF Supervised, Working
    <3>2. d = disk[Op] \/ d = [disk[Op] EXCEPT !.tornEvent = TRUE]
          \/ d = [disk[Op] EXCEPT !.events = @ + 1]
      BY <1>2, <2>4 DEF Torn, Written
    <3>3. /\ disk[Op].events \in Nat /\ (disk[Op].events + 1) % 3 = 2
      BY <1>4, <3>1, ThreeRecords DEF Directory
    <3>4. /\ d.journal = <<"Prepared", "Validating">> /\ ~d.damage /\ d.receipt = "none"
          /\ Missed(d)
      BY SMTT(60), <1>4, <3>1, <3>2, <3>3 DEF Directory, Missed
    <3>5. owed
      BY <2>1, <3>1
    <3> QED BY <2>3, <2>4, <3>4, <3>5 DEF Supervised, Working
  <2>5. CASE Pc \in {"intent", "cleaned", "save"}
    <3>1. /\ disk[Op].journal = <<"Prepared", "Validating">> /\ ~disk[Op].damage
          /\ disk[Op].receipt = "none" /\ tree[Op] = "none"
      BY <1>4, <2>5 DEF Supervised, Working
    <3>2. \/ d = disk[Op] \/ d = [disk[Op] EXCEPT !.tornEvent = TRUE]
          \/ d = [disk[Op] EXCEPT !.events = @ + 1]
          \/ d = [disk[Op] EXCEPT !.evidence = "torn"]
          \/ d = [disk[Op] EXCEPT !.evidence = "whole"]
      BY <1>2, <2>5 DEF Torn, Written
    <3>3. /\ d.journal = <<"Prepared", "Validating">> /\ ~d.damage /\ d.receipt = "none"
      BY <1>4, <3>1, <3>2 DEF Directory
    <3> QED BY <2>3, <2>5, <3>1, <3>3 DEF Supervised, Working
  <2>6. CASE Pc \in {"validating", "stage"}
    <3>1. disk[Op].receipt = "none" /\ tree[Op] = "none"
      BY <1>4, <2>6 DEF Supervised, Working
    <3>2. \/ d = disk[Op] \/ d = [disk[Op] EXCEPT !.damage = TRUE]
          \/ \E j : d = [disk[Op] EXCEPT !.journal = j]
      BY <1>2, <2>6 DEF Torn, Written
    <3>3. d.receipt = "none"
      BY <1>4, <3>1, <3>2 DEF Directory
    <3>4. poisoned
      BY <2>1, <2>6
    <3> QED BY <2>3, <2>6, <3>1, <3>3, <3>4 DEF Supervised, Working
  <2> QED BY <1>1, <1>6, <2>4, <2>5, <2>6
<1> QED BY <1>5, <1>6

LEMMA OperationsKeepsCrash ==
    ASSUME OperationsInv, Crash
    PROVE  OperationsInv'
<1>1. /\ OperationsTypeOK /\ ClaimsAreKnown /\ OneUnresolved /\ TreesAreMissed
      /\ Pc # "none" /\ Supervised(supervisor, disk[Op], tree[Op]) /\ Op \in Operations
  BY DEF OperationsInv, OperationsTypeOK, Crash
<1>2. /\ supervisor' = NoSupervisor /\ UNCHANGED tree
      /\ claims' = IF Pc = "claim" THEN [claims EXCEPT ![Op] = "torn"] ELSE claims
  BY DEF Crash
<1>3. PICK d \in {disk[Op], Torn(Pc, Op)} : disk' = [disk EXCEPT ![Op] = d]
  BY DEF Crash
<1>4. supervisor' \in SupervisorType /\ supervisor'.pc = "none" /\ Pc' = "none"
  BY <1>2, NoSupervisorLeft DEF Pc
<1>5. CASE Pc \notin {"claim", "terminal"}
  <2>1. d \in Directory /\ Begun(d) /\ (tree[Op] # "none" => Unfinished(d))
    BY <1>1, <1>3, <1>5, LeftBehind
  <2> QED BY <1>1, <1>2, <1>3, <1>4, <1>5, <2>1, DirectoryStep
<1>6. CASE Pc = "terminal"
  <2>1. d = disk[Op] \/ d = [disk[Op] EXCEPT !.damage = TRUE]
    BY <1>3, <1>6 DEF Torn
  <2>2. d \in Directory /\ Begun(d) /\ (tree[Op] # "none" => Unfinished(d))
    <3>1. /\ disk[Op] \in Directory /\ Begun(disk[Op])
          /\ tree[Op] # "none" => Unfinished(disk[Op])
      BY <1>6, Supervising
    <3> QED BY <2>1, <3>1 DEF Directory, Begun, Unfinished, Missed
  <2> QED BY <1>2, <1>3, <1>4, <1>6, <2>2, DirectoryStep
<1>7. CASE Pc = "claim"
  <2>1. d = disk[Op]
    BY <1>3, <1>7 DEF Torn
  <2>2. UNCHANGED <<disk, tree>> /\ claims' = [claims EXCEPT ![Op] = "torn"]
    BY <1>1, <1>2, <1>3, <1>7, <2>1 DEF OperationsTypeOK
  <2>3. /\ claims' \in [Operations -> {"none", "torn", "whole"}]
        /\ \A p \in Operations \ {Op} : claims'[p] = claims[p]
        /\ tree[Op] = "none"
    BY <1>1, <1>7, <2>2 DEF OperationsTypeOK, Supervised, Pc
  <2>4. OperationsTypeOK' /\ ClaimsAreKnown' /\ TreesAreMissed'
    BY <1>1, <1>4, <2>2, <2>3 DEF OperationsTypeOK, ClaimsAreKnown, TreesAreMissed
  <2>5. OneUnresolved'
    <3>1. \A p \in Operations : (Resolved(p))' = Resolved(p)
      BY <2>2, ReadsTheSame
    <3>2. \A p \in Claimed' \ {Op} : p \in Claimed /\ p \in Operations
      BY <2>3 DEF Claimed
    <3>3. \A p \in Claimed' \ {Op} : (Resolved(p))'
      BY <1>1, <3>1, <3>2 DEF OneUnresolved
    <3> QED BY <1>4, <3>3 DEF OneUnresolved
  <2> QED BY <1>4, <2>4, <2>5 DEF OperationsInv
<1> QED BY <1>5, <1>6, <1>7
LEMMA OperationsKeeps == OperationsInv /\ [OperationsNext]_operationVars => OperationsInv'
<1> SUFFICES ASSUME OperationsInv, [OperationsNext]_operationVars
             PROVE  OperationsInv'
  OBVIOUS
<1>1. CASE UNCHANGED operationVars
  <2>1. UNCHANGED <<disk, claims, supervisor, tree>>
    BY <1>1 DEF operationVars
  <2>2. Pc' = Pc /\ Op' = Op /\ Claimed' = Claimed
    BY <2>1 DEF Pc, Op, Claimed
  <2>3. \A o \in Operations : (Resolved(o))' = Resolved(o)
    BY <2>1, ReadsTheSame
  <2>4. OperationsTypeOK' /\ ClaimsAreKnown' /\ TreesAreMissed'
    BY <2>1, <2>2 DEF OperationsInv, OperationsTypeOK, ClaimsAreKnown, TreesAreMissed
  <2>5. OneUnresolved'
    BY <2>2, <2>3 DEF OperationsInv, OneUnresolved, Claimed
  <2> QED BY <2>1, <2>2, <2>4, <2>5 DEF OperationsInv
<1>2. CASE WriteClaim
  BY <1>2, OperationsKeepsClaim
<1>3. CASE Cancel \/ Check \/ NextWorker \/ WaitForReceipt \/ Bind
  BY <1>3, OperationsKeepsDecision
<1>4. CASE Spawn \/ Start \/ CleanUp \/ DropOwned
  BY <1>4, OperationsKeepsTree
<1>5. CASE Validating \/ Stage \/ RecordTerminal
  BY <1>5, OperationsKeepsDecision, OperationsKeepsWrite
<1>6. CASE Starting \/ RecordOwned \/ RecordCleaned \/ Save \/ WriteReceipt
  BY <1>6, OperationsKeepsWrite
<1>7. CASE CreateRecords
  <2>1. /\ Pc = "records" /\ UNCHANGED <<claims, tree>>
        /\ supervisor \in SupervisorType /\ Supervised(supervisor, disk[Op], tree[Op])
        /\ supervisor.pc = Pc /\ disk[Op] \in Directory /\ disk \in [Operations -> Directory]
        /\ Begun(disk[Op]) /\ (tree[Op] # "none" => Unfinished(disk[Op]))
    BY <1>7, Supervising DEF CreateRecords, Pc, OperationsInv, OperationsTypeOK
  <2>2. PICK w \in BOOLEAN : disk' = [disk EXCEPT ![Op].workers = w]
    BY <1>7 DEF CreateRecords
  <2>3. PICK d : d = [disk[Op] EXCEPT !.workers = w]
    OBVIOUS
  <2>4. disk' = [disk EXCEPT ![Op] = d]
    BY <2>1, <2>2, <2>3
  <2>5. /\ d \in Directory /\ d.journal = disk[Op].journal /\ d.damage = disk[Op].damage
        /\ d.receipt = disk[Op].receipt /\ d.events = disk[Op].events
        /\ d.tornEvent = disk[Op].tornEvent
    BY <2>1, <2>3 DEF Directory
  <2>6. Begun(d) /\ (tree[Op] # "none" => Unfinished(d))
    BY <2>1, <2>5 DEF Begun, Unfinished, Missed
  <2>7. /\ supervisor' \in SupervisorType /\ supervisor'.o = Op
        /\ supervisor'.pc \in {"next", "terminal"}
        /\ supervisor'.pending = supervisor.pending
    BY <1>7, <2>1, GoesTo DEF CreateRecords
  <2>8. Supervised(supervisor', d, tree[Op])
    BY <2>1, <2>5, <2>7 DEF Supervised, Working
  <2> QED BY <2>1, <2>4, <2>5, <2>6, <2>7, <2>8, DirectoryStep
<1>8. CASE WriteFails
  BY <1>8, OperationsKeepsFailure
<1>9. CASE Crash
  BY <1>9, OperationsKeepsCrash
<1>10. CASE OperationsIdle
  BY <1>1, <1>10 DEF OperationsIdle
<1>11. CASE \E o \in Operations : CreateOperation(o) \/ CreateTorn(o)
  BY <1>11, OperationsKeepsCreate
<1>12. CASE \E o \in Operations : Admit(o)
  BY <1>12, OperationsKeepsAdmit
<1>13. CASE \E o \in Operations : Abandon(o)
  BY <1>13, OperationsKeepsAbandon
<1>14. CASE \E o \in Operations : WorkersExit(o)
  BY <1>14, OperationsKeepsExit
<1> QED BY <1>1, <1>2, <1>3, <1>4, <1>5, <1>6, <1>7, <1>8, <1>9, <1>10, <1>11, <1>12,
           <1>13, <1>14 DEF OperationsNext, SupervisorStep

\* Two worker processes would be of two unresolved operations; a resolved or
\* staged directory misses no worker, and every journal is a legal one.
LEMMA OperationsAreSound == OperationsInv => OperationsSound
<1> SUFFICES ASSUME OperationsInv PROVE NativeWorkExclusive /\ StagedIsEarned
  BY DEF OperationsSound
<1>1. OperationsTypeOK /\ ClaimsAreKnown /\ OneUnresolved /\ TreesAreMissed
  BY DEF OperationsInv
<1>2. \A o \in Operations : tree[o] # "none" => o \in Claimed /\ ~Resolved(o)
  BY <1>1, UnfinishedIsSeen DEF TreesAreMissed, Claimed
<1>3. NativeWorkExclusive
  BY <1>1, <1>2 DEF NativeWorkExclusive, OneUnresolved
<1>4. ASSUME NEW o \in Operations
      PROVE  /\ VerifiedValidation(o) =>
                   disk[o].journal = <<"Prepared", "Validating", "Staged">>
             /\ Resolved(o) => tree[o] = "none"
  <2>1. ASSUME Inspect(o) = "Staged" PROVE JournalState(o) = "Staged"
    BY <2>1 DEF Inspect
  <2> QED BY <1>1, <1>2, <2>1, LastOfJournal DEF VerifiedValidation
<1>5. ASSUME NEW o \in Operations, NEW i \in 1 .. Len(disk[o].journal) - 1
      PROVE  ValidTransition(disk[o].journal[i], disk[o].journal[i + 1])
  <2>1. PICK j \in Journals : j = disk[o].journal
    BY <1>1, LastOfJournal
  <2>2. CASE j \in {<<>>, <<"Prepared">>}
    BY <1>5, <2>1, <2>2
  <2>3. CASE j \in {<<"Prepared", "Cancelled">>, <<"Prepared", "Failed">>,
                    <<"Prepared", "Validating">>}
    <3>1. /\ Len(j) = 2 /\ j[1] = "Prepared"
          /\ j[2] \in {"Cancelled", "Failed", "Validating"}
      BY <2>3
    <3>2. i = 1 /\ i + 1 = 2
      BY <1>5, <2>1, <3>1
    <3> QED BY <2>1, <3>1, <3>2 DEF ValidTransition
  <2>4. CASE j \in {<<"Prepared", "Validating", "Staged">>,
                    <<"Prepared", "Validating", "Cancelled">>,
                    <<"Prepared", "Validating", "Failed">>,
                    <<"Prepared", "Validating", "RecoveryFailed">>}
    <3>1. /\ Len(j) = 3 /\ j[1] = "Prepared" /\ j[2] = "Validating"
          /\ j[3] \in {"Staged", "Cancelled", "Failed", "RecoveryFailed"}
      BY <2>4
    <3>2. (i = 1 /\ i + 1 = 2) \/ (i = 2 /\ i + 1 = 3)
      BY <1>5, <2>1, <3>1
    <3> QED BY <2>1, <3>1, <3>2 DEF ValidTransition
  <2> QED BY <2>2, <2>3, <2>4 DEF Journals
<1> QED BY <1>3, <1>4, <1>5 DEF StagedIsEarned

\* Of voice operations, across crashes of their supervisors and failed or torn
\* writes, for any number of operations and workers: native work of a profile is
\* never done twice at once, and what installation accepts was earned
\* (voice_library/operations and voice_validation/managed).
THEOREM OperationsAreExclusive == OperationsSpec => []OperationsSound
<1>1. OperationsInit => OperationsInv
  BY OperationsAssumption, OperationsInitially
<1>2. OperationsInv /\ [OperationsNext]_operationVars => OperationsInv'
  BY OperationsKeeps
<1>3. OperationsInv => OperationsSound
  BY OperationsAreSound
<1> QED BY <1>1, <1>2, <1>3, PTL DEF OperationsSpec

----------------------------------------------------------
(* Numbers *)

\* Numbers, if there are any, have a least one: the sets of the smaller ones are
\* finite, and strict inclusion of finite sets is well founded.
LEMMA LeastNumber ==
    ASSUME NEW S, S \subseteq Nat, S # {}
    PROVE  \E k \in S : \A j \in S : k <= j
<1> DEFINE Below(k) == {j \in S : j < k}
           Sets == {A \in SUBSET Nat : \E k \in S : A = Below(k)}
           Smaller == StrictSubsetOrdering(Nat)
<1>1. ASSUME NEW k \in Nat
      PROVE  Below(k) \in SUBSET Nat /\ Below(k) \in FiniteSubsetsOf(Nat)
  <2>1. Below(k) \in SUBSET Nat
    OBVIOUS
  <2>2. \A j \in Below(k) : j <= k
    OBVIOUS
  <2> HIDE DEF Below
  <2>3. IsFiniteSet(Below(k))
    BY <2>1, <2>2, FS_BoundedSetOfNaturals
  <2> QED BY <2>1, <2>3 DEF FiniteSubsetsOf
<1> HIDE DEF Below
<1>2. Sets \subseteq FiniteSubsetsOf(Nat) /\ Sets # {}
  BY <1>1
<1>3. IsWellFoundedOn(Smaller, FiniteSubsetsOf(Nat))
  BY FS_StrictSubsetOrderingWellFounded
<1>4. PICK B \in Sets : \A A \in Sets : <<A, B>> \notin Smaller
  <2> HIDE DEF Sets, Smaller
  <2> QED BY <1>2, <1>3, WFMin
<1>5. PICK k \in S : B = Below(k)
  OBVIOUS
<1>6. ASSUME NEW j \in S, j < k
      PROVE  FALSE
  <2>1. j \in Nat /\ k \in Nat
    OBVIOUS
  <2>2. Below(j) \in Sets
    BY <1>1, <2>1
  <2>3. Below(j) \subseteq Below(k) /\ j \in Below(k) /\ j \notin Below(j)
    <3>1. \A i \in S : i < j => i < k
      BY <1>6, <2>1
    <3>2. ~(j < j)
      BY <2>1
    <3>3. Below(j) \subseteq Below(k)
      BY <3>1 DEF Below
    <3>4. j \in Below(k)
      BY <1>6 DEF Below
    <3>5. j \notin Below(j)
      BY <3>2 DEF Below
    <3> QED BY <3>3, <3>4, <3>5
  <2>4. <<Below(j), B>> \in Smaller
    BY <1>1, <1>5, <2>1, <2>3 DEF StrictSubsetOrdering
  <2> QED BY <1>4, <2>2, <2>4
<1>7. \A j \in S : k <= j
  <2> SUFFICES ASSUME NEW j \in S PROVE k <= j
    OBVIOUS
  <2>1. j \in Nat /\ k \in Nat /\ ~(j < k)
    BY <1>6
  <2> QED BY <2>1
<1> QED BY <1>7

----------------------------------------------------------
(* Voice resolution: what the resolver may choose *)

VsStyles == [pitch : Int, pan : Int, rate : Int, offset : Int]
VsChoices == [selector : VsSelectors, adjustments : VsPatches]
VsReasons == {"choice", "same_language", "preferred", "global", "fallback"}
VsHealths == {"healthy", "degraded", "failed"}
VsDefinitionType == [language : VsLanguages, shared : VsStyles, choices : Seq(VsChoices)]
VsFallbackType ==
    [preferred : Seq(Nat), sameLanguage : BOOLEAN, global : VsSelectors \cup {VsNothing},
     fallback : Seq(Nat)]
VsDescribed == [available : BOOLEAN, health : VsHealths, voices : SUBSET VsVoices]
VsInventories == [VsEngines -> VsDescribed]

\* VsNamed, of any policy.
VsNames(definition, policy) ==
    {VsEngineOf(definition.choices[i].selector) : i \in DOMAIN definition.choices}
    \cup Range(policy.preferred) \cup Range(policy.fallback)
    \cup (IF policy.global = VsNothing THEN {} ELSE {VsEngineOf(policy.global)})

\* A stage tries a choice of the definition, or what the policy names; without a
\* policy there are only choices.
VsGoodStages(definition, policy) ==
    {st \in [reason : VsReasons, index : Nat, selector : VsSelectors] :
        /\ st.reason = "choice" => st.index \in DOMAIN definition.choices
        /\ policy = VsNoFallback => st.reason = "choice"
        /\ \/ st.selector.kind = "properties"
           \/ VsEngineOf(st.selector) \in VsNames(definition, policy)}

\* A stage is good if what it names is.
LEMMA VsStageIsGood ==
    ASSUME NEW definition, NEW policy, NEW reason \in VsReasons, NEW nth \in Nat,
           NEW selector \in VsSelectors,
           reason = "choice" => nth \in DOMAIN definition.choices,
           policy = VsNoFallback => reason = "choice",
           VsEngineOf(selector) \in VsNames(definition, policy)
    PROVE  [reason |-> reason, index |-> nth, selector |-> selector]
              \in VsGoodStages(definition, policy)
<1> DEFINE st == [reason |-> reason, index |-> nth, selector |-> selector]
<1>1. st \in [reason : VsReasons, index : Nat, selector : VsSelectors]
  OBVIOUS
<1>2. st.reason = reason /\ st.index = nth /\ st.selector = selector
  OBVIOUS
<1> HIDE DEF st
<1>3. st \in VsGoodStages(definition, policy)
  BY <1>1, <1>2 DEF VsGoodStages
<1> QED BY <1>3 DEF st

\* The engine's default voice, as a stage.
LEMMA VsDefaultsAreGood ==
    ASSUME NEW definition, NEW policy, NEW reason \in VsReasons, reason # "choice",
           NEW engines \in Seq(Nat), Range(engines) \subseteq VsNames(definition, policy),
           policy = VsNoFallback => engines = <<>>
    PROVE  VsDefaults(reason, engines) \in Seq(VsGoodStages(definition, policy))
<1>1. ASSUME NEW i \in DOMAIN engines
      PROVE  [reason |-> reason, index |-> i, selector |-> VsEngineDefault(engines[i])]
                \in VsGoodStages(definition, policy)
  <2>1. policy # VsNoFallback
    BY <1>1
  <2>2. i \in Nat /\ engines[i] \in Nat /\ engines[i] \in VsNames(definition, policy)
    BY <1>1 DEF Range
  <2>3. VsEngineDefault(engines[i]) \in VsSelectors
    <3>1. VsEngineDefault(engines[i]) \in [kind : {"engine"}, engine : Nat, language : VsLanguages]
      BY <2>2 DEF VsEngineDefault, VsLanguages
    <3> QED BY <3>1 DEF VsSelectors
  <2>4. VsEngineOf(VsEngineDefault(engines[i])) = engines[i]
    BY DEF VsEngineDefault, VsEngineOf
  <2> QED BY <2>1, <2>2, <2>3, <2>4, VsStageIsGood
<1> QED BY <1>1 DEF VsDefaults

\* Every stage is one of these.
LEMMA VsStagesAreGood ==
    ASSUME NEW definition \in VsDefinitionType, NEW policy \in VsFallbackType
    PROVE  VsStages(definition, policy) \in Seq(VsGoodStages(definition, policy))
<1> DEFINE G == VsGoodStages(definition, policy)
           N == VsNames(definition, policy)
           own == [i \in DOMAIN definition.choices |->
                     [reason |-> "choice", index |-> i,
                      selector |-> definition.choices[i].selector]]
           global == IF policy.global = VsNothing THEN <<>>
                     ELSE <<[reason |-> "global", index |-> 0, selector |-> policy.global]>>
<1>1. definition.choices \in Seq(VsChoices) /\ definition.language \in VsLanguages
  BY DEF VsDefinitionType
<1>2. /\ policy.preferred \in Seq(Nat) /\ policy.fallback \in Seq(Nat)
      /\ policy.global # VsNothing => policy.global \in VsSelectors
  BY DEF VsFallbackType
<1>3. /\ \A i \in DOMAIN definition.choices : VsEngineOf(definition.choices[i].selector) \in N
      /\ Range(policy.preferred) \subseteq N /\ Range(policy.fallback) \subseteq N
      /\ policy.global # VsNothing => VsEngineOf(policy.global) \in N
  BY DEF VsNames
<1>4. policy = VsNoFallback =>
         /\ policy.preferred = <<>> /\ policy.fallback = <<>> /\ policy.global = VsNothing
         /\ policy.sameLanguage = FALSE
  BY DEF VsNoFallback
<1> HIDE DEF N, VsReasons
<1>5. own \in Seq(G)
  <2>1. ASSUME NEW i \in DOMAIN definition.choices
        PROVE  [reason |-> "choice", index |-> i,
                selector |-> definition.choices[i].selector] \in G
    <3>1. definition.choices[i] \in VsChoices /\ i \in Nat
      BY <1>1, <2>1
    <3>2. definition.choices[i].selector \in VsSelectors
      BY <3>1 DEF VsChoices
    <3> QED BY <1>3, <2>1, <3>1, <3>2, VsStageIsGood DEF N, VsReasons
  <2> HIDE DEF G
  <2> QED BY <1>1, <2>1
<1>6. VsSameLanguage(definition, policy) \in Seq(G)
  <2> DEFINE e == VsEngineOf(definition.choices[1].selector)
             st == [reason |-> "same_language", index |-> 0,
                    selector |-> [kind |-> "engine", engine |-> e,
                                  language |-> definition.language]]
  <2>1. CASE policy.sameLanguage /\ definition.choices # <<>>
    <3>1. 1 \in DOMAIN definition.choices /\ definition.choices[1] \in VsChoices
      BY <1>1, <2>1
    <3>2. e \in Nat
      BY <3>1 DEF VsChoices, VsSelectors, VsEngineOf, VsNone
    <3>3. e \in N
      BY <1>3, <3>1
    <3>4. st.selector \in VsSelectors /\ VsEngineOf(st.selector) = e
      BY <1>1, <3>2 DEF VsSelectors, VsEngineOf
    <3>5. policy # VsNoFallback
      BY <1>4, <2>1
    <3>6. st \in G
      BY <3>3, <3>4, <3>5, VsStageIsGood DEF N, VsReasons
    <3> HIDE DEF G
    <3> QED BY <3>6 DEF VsSameLanguage
  <2>2. CASE ~(policy.sameLanguage /\ definition.choices # <<>>)
    <3> HIDE DEF G
    <3> QED BY <2>2 DEF VsSameLanguage
  <2> QED BY <2>1, <2>2
<1>7. VsDefaults("preferred", policy.preferred) \in Seq(G)
  BY <1>2, <1>3, <1>4, VsDefaultsAreGood DEF N, VsReasons
<1>8. global \in Seq(G)
  <2>1. CASE policy.global # VsNothing
    <3>1. [reason |-> "global", index |-> 0, selector |-> policy.global] \in G
      BY <1>2, <1>3, <1>4, <2>1, VsStageIsGood DEF N, VsReasons
    <3> HIDE DEF G
    <3> QED BY <2>1, <3>1
  <2>2. CASE policy.global = VsNothing
    BY <2>2
  <2> QED BY <2>1, <2>2
<1>9. VsDefaults("fallback", policy.fallback) \in Seq(G)
  BY <1>2, <1>3, <1>4, VsDefaultsAreGood DEF N, VsReasons
<1>10. VsStages(definition, policy) = own \o VsSameLanguage(definition, policy)
          \o VsDefaults("preferred", policy.preferred) \o global
          \o VsDefaults("fallback", policy.fallback)
  BY DEF VsStages
<1> HIDE DEF own, global, G
<1>11. VsStages(definition, policy) \in Seq(G)
  BY <1>5, <1>6, <1>7, <1>8, <1>9, <1>10
<1> QED BY <1>11 DEF G

\* A selector finds a usable engine: its own, or one that may be chosen unnamed.
LEMMA VsEvaluateFinds ==
    ASSUME NEW inventory, NEW selector \in VsSelectors, NEW preferred, NEW text,
           NEW v \in VsEvaluate(inventory, selector, preferred, text)
    PROVE  /\ VsUsable(inventory, v.engine)
           /\ \/ selector.kind # "properties" /\ VsEngineOf(selector) = v.engine
              \/ VsPermitsAutomatic(v.engine)
<1>1. ASSUME NEW e, NEW l, v \in VsChooseOn(inventory, e, l, text)
      PROVE  VsUsable(inventory, e) /\ v.engine = e
  BY <1>1 DEF VsChooseOn
<1>2. CASE selector.kind = "exact"
  BY <1>2 DEF VsEvaluate, VsEngineOf
<1>3. CASE selector.kind = "engine"
  BY <1>1, <1>3 DEF VsEvaluate, VsEngineOf
<1>4. CASE selector.kind = "properties"
  <2>1. v \in VsChooseAcross(inventory, selector.language, preferred, text)
    BY <1>4 DEF VsEvaluate
  <2>2. PICK e \in VsEngines : /\ VsPermitsAutomatic(e)
                               /\ v \in VsChooseOn(inventory, e, selector.language, text)
    BY <2>1 DEF VsChooseAcross
  <2> QED BY <1>1, <2>2
<1> QED BY <1>2, <1>3, <1>4 DEF VsSelectors

\* A resolution, if there is one, is what one of the stages found.
LEMMA VsResolveFinds ==
    ASSUME NEW inventory, NEW definition \in VsDefinitionType, NEW policy \in VsFallbackType,
           NEW text, VsResolve(inventory, definition, policy, text) # VsNothing
    PROVE  \E reason \in VsReasons, nth \in Nat : \E realized :
              /\ VsResolve(inventory, definition, policy, text)
                    = [reason |-> reason, index |-> nth, realized |-> realized]
              /\ VsUsable(inventory, realized.engine)
              /\ \/ realized.engine \in VsNames(definition, policy)
                 \/ VsPermitsAutomatic(realized.engine)
              /\ reason = "choice" => nth \in DOMAIN definition.choices
              /\ policy = VsNoFallback => reason = "choice"
<1> DEFINE stages == VsStages(definition, policy)
           found(i) == VsEvaluate(inventory, stages[i].selector, policy.preferred, text)
           works == {i \in DOMAIN stages : found(i) # {}}
<1>1. stages \in Seq(VsGoodStages(definition, policy))
  BY VsStagesAreGood
<1>2. VsResolve(inventory, definition, policy, text)
        = IF works = {} THEN VsNothing
          ELSE [reason |-> stages[Min(works)].reason, index |-> stages[Min(works)].index,
                realized |-> CHOOSE v \in found(Min(works)) : TRUE]
  BY DEF VsResolve
<1> HIDE DEF stages
<1>3. works # {} /\ works \subseteq Nat
  <2>1. works # {}
    BY <1>2
  <2>2. DOMAIN stages \subseteq Nat
    BY <1>1
  <2> QED BY <2>1, <2>2
<1>4. PICK i \in works : i = Min(works)
  <2>1. \E k \in works : \A j \in works : k <= j
    <3> HIDE DEF works
    <3> QED BY <1>3, LeastNumber
  <2> HIDE DEF works
  <2> QED BY <2>1 DEF Min
<1>5. stages[i] \in VsGoodStages(definition, policy) /\ found(i) # {}
  BY <1>1
<1>6. PICK v \in found(i) : v = CHOOSE x \in found(i) : TRUE
  BY <1>5
<1>7. VsResolve(inventory, definition, policy, text)
        = [reason |-> stages[i].reason, index |-> stages[i].index, realized |-> v]
  BY <1>2, <1>3, <1>4, <1>6
<1>8. /\ VsUsable(inventory, v.engine)
      /\ \/ v.engine \in VsNames(definition, policy)
         \/ VsPermitsAutomatic(v.engine)
  <2>1. stages[i].selector \in VsSelectors
    BY <1>5 DEF VsGoodStages
  <2>2. /\ VsUsable(inventory, v.engine)
        /\ \/ stages[i].selector.kind # "properties" /\ VsEngineOf(stages[i].selector) = v.engine
           \/ VsPermitsAutomatic(v.engine)
    BY <1>6, <2>1, VsEvaluateFinds
  <2> QED BY <1>5, <2>2 DEF VsGoodStages
<1>9. /\ stages[i].reason \in VsReasons /\ stages[i].index \in Nat
      /\ stages[i].reason = "choice" => stages[i].index \in DOMAIN definition.choices
      /\ policy = VsNoFallback => stages[i].reason = "choice"
  BY <1>5 DEF VsGoodStages
<1> QED BY <1>7, <1>8, <1>9

----------------------------------------------------------
(* Voice resolution: the inductive invariant *)

VsEntries ==
    [engine : BOOLEAN, available : BOOLEAN, health : VsHealths, voices : SUBSET VsVoices,
     retry : BOOLEAN, rescanning : BOOLEAN]

\* What an inventory calls available has a handle.
VsHandles(inventory) == \A e \in VsEngines : inventory[e].available => vsEntry[e].engine

VsRegistryOK == vsEntry \in [VsEngines -> VsEntries] /\ VsHandles(vsEntry)

VsSessionOK ==
    /\ vsPolicy.preferred \in Seq(Nat) /\ vsPolicy.fallback \in Seq(Nat)
    /\ \E g, d, f, b :
          /\ vsVoice = [generation |-> g, definition |-> d, fallback |-> f, binding |-> b]
          /\ d # VsNothing => d \in VsDefinitionType
          /\ f \in VsFallbackType

\* A previewed choice is one of the definition's, and no policy may replace it.
VsBatchOK ==
    vsBatch # VsNothing =>
        /\ vsBatch.fallback \in VsFallbackType
        /\ vsBatch.definition # VsNothing => vsBatch.definition \in VsDefinitionType
        /\ vsBatch.context \in VsPatches
        /\ vsBatch.only # 0 => /\ vsBatch.definition # VsNothing
                               /\ vsBatch.only \in DOMAIN vsBatch.definition.choices
                               /\ vsBatch.fallback = VsNoFallback

\* A route that was resolved against this inventory, with the style of its choice.
VsGoodRoute(inventory, route) ==
    /\ route.definition \in VsDefinitionType
    /\ VsUsable(inventory, route.realized.engine)
    /\ \/ route.realized.engine \in VsNamed(route.definition)
       \/ VsPermitsAutomatic(route.realized.engine)
    /\ route.reason = "choice" => route.index \in DOMAIN route.definition.choices
    /\ vsBatch.only # 0 => /\ route.reason = "choice" /\ route.index = vsBatch.only
                           /\ vsBatch.only \in DOMAIN route.definition.choices
    /\ route.style = VsAttemptStyle(route.definition, route)

VsWorkOK ==
    /\ \E at \in {"idle", "read", "routed", "called", "over"} : \E i, r, n :
          vsWork = [at |-> at, inventory |-> i, route |-> r, attempt |-> n]
    /\ "missing" \notin DOMAIN vsWork.route
    /\ vsWork.at # "idle" => vsBatch # VsNothing
    /\ vsWork.at \in {"read", "routed", "called"} =>
          vsWork.inventory \in VsInventories /\ VsHandles(vsWork.inventory)
    /\ vsWork.at \in {"routed", "called"} =>
          /\ \A e \in VsEngines : vsWork.inventory[e].available => e \notin vsBatch.disabled
          /\ VsGoodRoute(vsWork.inventory, vsWork.route)

VsSafe == VsRegistryOK /\ VsSessionOK /\ VsBatchOK /\ VsWorkOK

\* The process's own voice, as a definition with one choice.
LEMMA VsLegacyIsDefinition ==
    ASSUME SelectionAssumption, vsBatch.fallback \in VsFallbackType, NEW inventory
    PROVE  VsLegacyDefinition(inventory) \in VsDefinitionType
<1> DEFINE order == vsBatch.fallback.preferred \o vsBatch.fallback.fallback
           able == {i \in DOMAIN order : /\ order[i] \in VsEngines
                                         /\ VsCanSynthesize(inventory[order[i]])
                                         /\ vsEntry[order[i]].engine}
           e == VsLegacyEngine(inventory)
           found == {v.id : v \in {w \in VsCatalogue[e] : w.default}}
<1>1. e \in VsEngines
  <2>1. Min(VsEngines) \in VsEngines
    <3>1. \E k \in VsEngines : \A j \in VsEngines : k <= j
      BY LeastNumber DEF SelectionAssumption
    <3> QED BY <3>1 DEF Min
  <2>2. CASE able # {}
    <3>1. order \in Seq(Nat)
      BY DEF VsFallbackType
    <3>2. able \subseteq Nat
      <4>1. DOMAIN order \subseteq Nat
        <5> HIDE DEF order
        <5> QED BY <3>1
      <4> QED BY <4>1
    <3> HIDE DEF able
    <3>3. \E k \in able : \A j \in able : k <= j
      BY <2>2, <3>2, LeastNumber
    <3>4. Min(able) \in able
      BY <3>3 DEF Min
    <3>5. order[Min(able)] \in VsEngines
      BY <3>4 DEF able
    <3>6. e = order[Min(able)]
      BY ZenonT(60), <2>2 DEF VsLegacyEngine, able
    <3> QED BY <3>5, <3>6
  <2>3. CASE able = {}
    BY <2>1, <2>3 DEF VsLegacyEngine
  <2> QED BY <2>2, <2>3
<1> HIDE DEF e
<1>2. VsLegacyVoice(e) \in Nat
  <2>1. VsCatalogue[e] \subseteq VsVoices
    BY <1>1 DEF SelectionAssumption
  <2>2. found \subseteq Nat
    BY <2>1 DEF VsVoices
  <2>3. VsLegacyVoice(e) = IF found = {} THEN VsNone ELSE Min(found)
    BY DEF VsLegacyVoice
  <2> HIDE DEF found
  <2>4. CASE found # {}
    <3>1. \E k \in found : \A j \in found : k <= j
      BY <2>2, <2>4, LeastNumber
    <3>2. Min(found) \in found
      BY <3>1 DEF Min
    <3> QED BY <2>2, <2>3, <2>4, <3>2
  <2>5. CASE found = {}
    BY <2>3, <2>5 DEF VsNone
  <2> QED BY <2>4, <2>5
<1>3. e \in Nat
  BY <1>1 DEF SelectionAssumption
<1>4. [kind |-> "exact", engine |-> e, voice |-> VsLegacyVoice(e)] \in VsSelectors
  <2>1. [kind |-> "exact", engine |-> e, voice |-> VsLegacyVoice(e)]
           \in [kind : {"exact"}, engine : Nat, voice : Nat]
    BY <1>2, <1>3
  <2> QED BY <2>1 DEF VsSelectors
<1>5. VsInheritAll \in VsPatches /\ VsNoStyle \in VsStyles /\ VsAny \in VsLanguages
  BY DEF VsInheritAll, VsPatches, VsNoStyle, VsStyles, VsLanguages, VsInherit, VsNone
<1>6. [selector |-> [kind |-> "exact", engine |-> e, voice |-> VsLegacyVoice(e)],
       adjustments |-> VsInheritAll] \in VsChoices
  BY <1>4, <1>5 DEF VsChoices
<1>7. PICK c \in VsChoices :
        c = [selector |-> [kind |-> "exact", engine |-> e, voice |-> VsLegacyVoice(e)],
             adjustments |-> VsInheritAll]
  BY <1>6
<1>8. VsLegacyDefinition(inventory)
        = [language |-> VsAny, shared |-> VsNoStyle, choices |-> <<c>>]
  BY <1>7 DEF VsLegacyDefinition, e
<1>9. <<c>> \in Seq(VsChoices)
  OBVIOUS
<1> QED BY <1>5, <1>8, <1>9 DEF VsDefinitionType

\* What a batch routes to is usable, permitted, and in the style of its choice; a
\* previewed choice is resolved alone and keeps its own index.
LEMMA VsRouteIsGood ==
    ASSUME VsBatchOK, vsBatch # VsNothing, NEW inventory, VsHandles(inventory),
           NEW definition \in VsDefinitionType, NEW text,
           vsBatch.only # 0 => vsBatch.only \in DOMAIN definition.choices
    PROVE  LET route == VsRoute(definition, inventory, text)
           IN /\ "missing" \notin DOMAIN route
              /\ VsRouted(route) => /\ VsGoodRoute(inventory, route)
                                    /\ route.definition = definition
<1> DEFINE found == VsResolve(inventory, VsPreferences(definition), vsBatch.fallback, text)
           resolution == VsResolution(definition, inventory, text)
           route == VsRoute(definition, inventory, text)
<1>1. CASE resolution = VsNothing
  <2>1. route = VsNothing
    BY <1>1 DEF VsRoute
  <2>2. DOMAIN VsNothing = {"none"}
    BY DEF VsNothing
  <2> QED BY <2>1, <2>2 DEF VsRouted
<1>2. CASE resolution # VsNothing
  <2>1. /\ VsPreferences(definition) \in VsDefinitionType /\ vsBatch.fallback \in VsFallbackType
        /\ VsNames(VsPreferences(definition), vsBatch.fallback) \subseteq VsNamed(definition)
        /\ vsBatch.only = 0 => VsPreferences(definition) = definition
    <3>1. vsBatch.fallback \in VsFallbackType
      BY DEF VsBatchOK
    <3>2. CASE vsBatch.only = 0
      BY <3>1, <3>2 DEF VsPreferences, VsNames, VsNamed
    <3>3. CASE vsBatch.only # 0
      <4>1. PICK l \in VsLanguages, s \in VsStyles, cs \in Seq(VsChoices) :
              definition = [language |-> l, shared |-> s, choices |-> cs]
        BY DEF VsDefinitionType
      <4>2. vsBatch.only \in DOMAIN cs
        BY <3>3, <4>1
      <4>3. PICK c \in VsChoices : c = cs[vsBatch.only]
        BY <4>2
      <4>4. VsPreferences(definition) = [language |-> l, shared |-> s, choices |-> <<c>>]
        BY <3>3, <4>1, <4>3 DEF VsPreferences
      <4>5. <<c>> \in Seq(VsChoices) /\ DOMAIN <<c>> = {1} /\ <<c>>[1] = c
        OBVIOUS
      <4>6. VsPreferences(definition) \in VsDefinitionType
        BY <4>4, <4>5 DEF VsDefinitionType
      <4>7. VsNames(VsPreferences(definition), vsBatch.fallback) \subseteq VsNamed(definition)
        BY <4>1, <4>2, <4>3, <4>4, <4>5 DEF VsNames, VsNamed
      <4> QED BY <3>1, <3>3, <4>6, <4>7
    <3> QED BY <3>2, <3>3
  <2>2. resolution = IF found = VsNothing \/ vsBatch.only = 0 THEN found
                     ELSE [found EXCEPT !.index = vsBatch.only]
    BY DEF VsResolution
  <2> HIDE DEF resolution
  <2>3. found # VsNothing
    BY <1>2, <2>2
  <2>4. PICK reason \in VsReasons, nth \in Nat : \E realized :
          /\ found = [reason |-> reason, index |-> nth, realized |-> realized]
          /\ VsUsable(inventory, realized.engine)
          /\ \/ realized.engine \in VsNames(VsPreferences(definition), vsBatch.fallback)
             \/ VsPermitsAutomatic(realized.engine)
          /\ reason = "choice" => nth \in DOMAIN VsPreferences(definition).choices
          /\ vsBatch.fallback = VsNoFallback => reason = "choice"
    BY <2>1, <2>3, VsResolveFinds
  <2>5. PICK realized :
          /\ found = [reason |-> reason, index |-> nth, realized |-> realized]
          /\ VsUsable(inventory, realized.engine)
          /\ \/ realized.engine \in VsNames(VsPreferences(definition), vsBatch.fallback)
             \/ VsPermitsAutomatic(realized.engine)
          /\ reason = "choice" => nth \in DOMAIN VsPreferences(definition).choices
          /\ vsBatch.fallback = VsNoFallback => reason = "choice"
    BY <2>4
  <2> HIDE DEF found
  <2>6. PICK at : at = IF vsBatch.only = 0 THEN nth ELSE vsBatch.only
    OBVIOUS
  <2>7. resolution = [reason |-> reason, index |-> at, realized |-> realized]
    BY <2>2, <2>3, <2>5, <2>6
  <2>8. vsEntry[realized.engine].engine
    BY <2>5 DEF VsHandles, VsUsable, VsCanSynthesize
  <2>9. route = [definition |-> definition, realized |-> realized, reason |-> reason,
                 index |-> at, style |-> VsAttemptStyle(definition, resolution)]
    BY <1>2, <2>7, <2>8 DEF VsRoute, VsRouteFrom, resolution
  <2>10. VsAttemptStyle(definition, resolution) = VsAttemptStyle(definition, route)
    BY <2>7, <2>9 DEF VsAttemptStyle, VsCompose
  <2> HIDE DEF route
  <2>11. /\ reason = "choice" => at \in DOMAIN definition.choices
         /\ vsBatch.only # 0 => reason = "choice" /\ at = vsBatch.only
    BY <2>1, <2>5, <2>6 DEF VsBatchOK
  <2>12. /\ route.definition = definition /\ route.realized = realized
         /\ route.reason = reason /\ route.index = at
         /\ route.style = VsAttemptStyle(definition, route)
         /\ "missing" \notin DOMAIN route
    BY <2>9, <2>10
  <2>13. VsGoodRoute(inventory, route)
    BY <2>1, <2>5, <2>11, <2>12 DEF VsGoodRoute
  <2> QED BY <2>12, <2>13 DEF route
<1> QED BY <1>1, <1>2

\* The nearer of two layers decides, if it says anything.
LEMMA VsDecidedTwo ==
    ASSUME NEW a \in Int, NEW b \in Int, NEW base
    PROVE  VsDecided(<<a, b>>, base)
              = IF a # VsInherit THEN a ELSE IF b # VsInherit THEN b ELSE base
<1> DEFINE said == {i \in DOMAIN <<a, b>> : <<a, b>>[i] # VsInherit}
<1>1. DOMAIN <<a, b>> = {1, 2} /\ <<a, b>>[1] = a /\ <<a, b>>[2] = b
  OBVIOUS
<1>2. VsDecided(<<a, b>>, base) = IF said = {} THEN base ELSE <<a, b>>[Min(said)]
  BY DEF VsDecided
<1>3. CASE a # VsInherit
  <2>1. 1 \in said /\ \A j \in said : 1 <= j
    BY <1>1, <1>3
  <2> HIDE DEF said
  <2>2. Min(said) = 1
    <3>1. Min(said) \in said /\ \A j \in said : Min(said) <= j
      BY <2>1 DEF Min
    <3>2. said \subseteq {1, 2}
      BY <1>1 DEF said
    <3>3. PICK k : k = Min(said)
      OBVIOUS
    <3>4. k \in {1, 2} /\ k <= 1
      BY <2>1, <3>1, <3>2, <3>3
    <3> QED BY <3>3, <3>4
  <2> QED BY <1>1, <1>2, <1>3, <2>1, <2>2
<1>4. CASE a = VsInherit /\ b # VsInherit
  <2>1. said = {2}
    BY <1>1, <1>4
  <2>2. Min({2}) = 2
    BY DEF Min
  <2> QED BY <1>1, <1>2, <1>4, <2>1, <2>2
<1>5. CASE a = VsInherit /\ b = VsInherit
  <2>1. said = {}
    BY <1>1, <1>5
  <2> QED BY <1>2, <1>5, <2>1
<1> QED BY <1>3, <1>4, <1>5

\* A patch replaces a value, unless it inherits.
LEMMA VsPatchedIs ==
    ASSUME NEW patch \in Int, NEW value
    PROVE  VsPatched(patch, value) = IF patch = VsInherit THEN value ELSE patch
<1>1. VsInherit # VsNone
  BY SMTT(60) DEF VsInherit, VsNone
<1> QED BY <1>1 DEF VsPatched

\* The style of a call is decided layer by layer.
LEMMA VsSafeStyle ==
    ASSUME VsSafe, vsWork.at \in {"routed", "called"}
    PROVE  VsStyleOfActualChoice
<1> DEFINE route == vsWork.route
           choice == IF route.reason = "choice"
                     THEN route.definition.choices[route.index].adjustments ELSE VsInheritAll
           shared == route.definition.shared
           context == vsBatch.context
           inner == VsApply(choice, shared)
           outer == VsApply(context, inner)
<1>1. VsGoodRoute(vsWork.inventory, route) /\ vsBatch # VsNothing
  BY DEF VsSafe, VsWorkOK
<1>2. context \in VsPatches
  BY <1>1 DEF VsSafe, VsBatchOK
<1>3. choice \in VsPatches
  <2>1. CASE route.reason = "choice"
    <3>1. route.definition.choices \in Seq(VsChoices)
      BY <1>1 DEF VsGoodRoute, VsDefinitionType
    <3>2. route.index \in DOMAIN route.definition.choices
      BY <1>1, <2>1 DEF VsGoodRoute
    <3>3. route.definition.choices[route.index] \in VsChoices
      BY <3>1, <3>2
    <3> QED BY <2>1, <3>3 DEF VsChoices
  <2>2. CASE route.reason # "choice"
    BY <2>2 DEF VsInheritAll, VsPatches, VsInherit
  <2> QED BY <2>1, <2>2
<1>4. VsCompose(route.definition, route, context)
        = [pitch |-> outer.pitch, pan |-> outer.pan,
           rate  |-> IF outer.offset \notin {VsNone, 0} THEN <<"offset", outer.offset>>
                     ELSE <<"rate", outer.rate>>]
  BY DEF VsCompose
<1>5. route.style = VsDegrade(VsCompose(route.definition, route, context),
                              route.realized.engine)
  BY <1>1 DEF VsGoodRoute, VsAttemptStyle
<1> HIDE DEF choice, shared, context, route
<1>6. /\ outer.pitch = VsPatched(context.pitch, VsPatched(choice.pitch, shared.pitch))
      /\ outer.pan = VsPatched(context.pan, VsPatched(choice.pan, shared.pan))
      /\ outer.offset = VsPatched(context.offset, VsPatched(choice.offset, shared.offset))
      /\ outer.rate = IF context.offset # VsInherit \/ choice.offset # VsInherit
                      THEN VsNone ELSE shared.rate
  BY DEF VsApply
<1>7. /\ context.pitch \in Int /\ context.pan \in Int /\ context.offset \in Int
      /\ choice.pitch \in Int /\ choice.pan \in Int /\ choice.offset \in Int
  BY <1>2, <1>3 DEF VsPatches
<1>8. /\ outer.pitch = VsDecided(<<context.pitch, choice.pitch>>, shared.pitch)
      /\ outer.pan = VsDecided(<<context.pan, choice.pan>>, shared.pan)
      /\ outer.offset = VsDecided(<<context.offset, choice.offset>>, shared.offset)
  BY <1>6, <1>7, VsPatchedIs, VsDecidedTwo
<1> HIDE DEF outer, inner
<1>9. (\E patch \in {context, choice} : patch.offset # VsInherit)
        <=> context.offset # VsInherit \/ choice.offset # VsInherit
  OBVIOUS
<1>10. /\ route.style.rate = IF outer.offset \notin {VsNone, 0} THEN <<"offset", outer.offset>>
                             ELSE <<"rate", outer.rate>>
       /\ route.style.pitch = IF "pitch" \in VsDimensions[route.realized.engine]
                              THEN outer.pitch ELSE VsNone
       /\ route.style.pan = IF "pan" \in VsDimensions[route.realized.engine]
                            THEN outer.pan ELSE VsNone
  BY <1>4, <1>5 DEF VsDegrade
<1>11. outer.rate = IF \E patch \in {context, choice} : patch.offset # VsInherit
                    THEN VsNone ELSE shared.rate
  BY <1>6, <1>9
<1> QED BY <1>8, <1>10, <1>11 DEF VsStyleOfActualChoice, route, choice, context, shared

\* What the invariant is for: the two properties follow.
LEMMA VsSafeSound ==
    ASSUME VsSafe
    PROVE  VsRouteIsPermitted /\ VsStyleOfActualChoice
<1>1. VsStyleOfActualChoice
  <2>1. CASE vsWork.at \in {"routed", "called"}
    BY SMTT(60), <2>1, VsSafeStyle
  <2>2. CASE vsWork.at \notin {"routed", "called"}
    BY <2>2 DEF VsStyleOfActualChoice
  <2> QED BY <2>1, <2>2
<1>2. "missing" \notin DOMAIN vsWork.route
  BY DEF VsSafe, VsWorkOK
<1>3. ASSUME vsWork.at \in {"routed", "called"}
      PROVE  LET e == vsWork.route.realized.engine
             IN /\ vsEntry[e].engine
                /\ e \notin vsLocal.disabled \cup vsBatch.disabled
                /\ e \in vsLocal.explicitOnly => e \in VsNamed(vsWork.route.definition)
                /\ VsCanSynthesize(vsWork.inventory[e])
                /\ vsBatch.only # 0 => /\ vsWork.route.reason = "choice"
                                       /\ vsWork.route.index = vsBatch.only
  <2> DEFINE e == vsWork.route.realized.engine
  <2>1. VsGoodRoute(vsWork.inventory, vsWork.route) /\ VsHandles(vsWork.inventory)
        /\ \A d \in VsEngines : vsWork.inventory[d].available => d \notin vsBatch.disabled
    BY <1>3 DEF VsSafe, VsWorkOK
  <2>2. e \in VsEngines /\ e \notin vsLocal.disabled /\ VsCanSynthesize(vsWork.inventory[e])
        /\ vsWork.inventory[e].available
    BY <2>1 DEF VsGoodRoute, VsUsable, VsDisabled, VsCanSynthesize
  <2>3. vsEntry[e].engine
    BY <2>1, <2>2 DEF VsHandles
  <2>4. e \in vsLocal.explicitOnly => e \in VsNamed(vsWork.route.definition)
    BY <2>1 DEF VsGoodRoute, VsPermitsAutomatic
  <2>5. vsBatch.only # 0 => /\ vsWork.route.reason = "choice"
                            /\ vsWork.route.index = vsBatch.only
    BY <2>1 DEF VsGoodRoute
  <2> QED BY <2>1, <2>2, <2>3, <2>4, <2>5
<1> QED BY <1>1, <1>2, <1>3 DEF VsRouteIsPermitted

\* The descriptors a reader gets, and what the health and the policy make of them.
LEMMA VsDescriptorsAre ==
    ASSUME VsRegistryOK
    PROVE  VsDescriptors \in VsInventories /\ VsHandles(VsDescriptors)
<1>1. ASSUME NEW e \in VsEngines
      PROVE  /\ VsDescriptors[e] = [available |-> vsEntry[e].available,
                                    health |-> vsEntry[e].health, voices |-> vsEntry[e].voices]
             /\ vsEntry[e].available \in BOOLEAN /\ vsEntry[e].health \in VsHealths
             /\ vsEntry[e].voices \in SUBSET VsVoices
             /\ vsEntry[e].available => vsEntry[e].engine
  BY <1>1 DEF VsDescriptors, VsRegistryOK, VsEntries, VsHandles
<1>2. VsDescriptors \in VsInventories
  BY <1>1 DEF VsDescriptors, VsInventories, VsDescribed
<1>3. VsHandles(VsDescriptors)
  <2>1. \A e \in VsEngines : VsDescriptors[e].available = vsEntry[e].available
    BY DEF VsDescriptors
  <2> QED BY <1>1, <2>1 DEF VsHandles
<1> QED BY <1>2, <1>3

\* An inventory laid over by health and policy stays one, and permits no disabled engine.
LEMMA VsProjectsAre ==
    ASSUME NEW inventory \in VsInventories, VsHandles(inventory), NEW circuit, NEW disabled
    PROVE  LET i == VsProject(VsOverlay(inventory, circuit), disabled)
           IN /\ i \in VsInventories /\ VsHandles(i)
              /\ \A e \in VsEngines : i[e].available => e \notin disabled
<1> DEFINE o == VsOverlay(inventory, circuit)
           i == VsProject(o, disabled)
<1>1. ASSUME NEW e \in VsEngines
      PROVE  /\ i[e] \in VsDescribed
             /\ i[e].available => inventory[e].available /\ e \notin disabled
  <2>1. inventory[e] \in VsDescribed
    BY <1>1 DEF VsInventories
  <2>2. VsProjectedHealth(circuit[e], inventory[e].health) \in VsHealths
    BY <2>1 DEF VsProjectedHealth, VsHealths, VsDescribed
  <2>3. PICK h \in VsHealths : o[e] = [inventory[e] EXCEPT !.health = h]
    BY <1>1, <2>2 DEF VsOverlay
  <2>4. o[e] \in VsDescribed /\ o[e].available = inventory[e].available
    BY <2>1, <2>3 DEF VsDescribed
  <2>5. i[e] = [o[e] EXCEPT !.available = o[e].available /\ e \notin disabled]
    BY <1>1 DEF VsProject
  <2>6. PICK b \in BOOLEAN : b = (o[e].available /\ e \notin disabled)
    BY Zenon
  <2>7. i[e] = [o[e] EXCEPT !.available = b]
    BY <2>5, <2>6
  <2> HIDE DEF i, o
  <2>8. i[e] \in VsDescribed /\ i[e].available = b
    BY <2>4, <2>7 DEF VsDescribed
  <2> QED BY <2>4, <2>6, <2>8
<1>2. i \in VsInventories
  <2>1. i = [e \in VsEngines |-> i[e]]
    BY DEF VsProject
  <2> HIDE DEF i
  <2> QED BY <1>1, <2>1 DEF VsInventories
<1> HIDE DEF i
<1>3. VsHandles(i)
  BY <1>1 DEF VsHandles
<1> QED BY <1>1, <1>2, <1>3 DEF i, o

\* What a batch takes out of its inventory after a failure.
LEMMA VsExcludesAre ==
    ASSUME NEW inventory \in VsInventories, VsHandles(inventory), NEW realized,
           realized.engine \in VsEngines, NEW error \in {"synthesis", "voice"}
    PROVE  LET i == VsExclude(inventory, realized, error)
           IN /\ i \in VsInventories /\ VsHandles(i)
              /\ \A e \in VsEngines : i[e].available => inventory[e].available
<1> DEFINE i == VsExclude(inventory, realized, error)
<1>1. PICK k \in VsEngines : k = realized.engine
  OBVIOUS
<1>2. inventory[k] \in VsDescribed
  BY DEF VsInventories
<1>3. PICK d \in VsDescribed : /\ i = [inventory EXCEPT ![k] = d]
                               /\ d.available = inventory[k].available
  <2>1. CASE error = "voice"
    <3> DEFINE vs == {IF v.id = realized.voice THEN [v EXCEPT !.available = FALSE] ELSE v :
                        v \in inventory[k].voices}
    <3>1. vs \in SUBSET VsVoices
      <4>1. \A v \in VsVoices : [v EXCEPT !.available = FALSE] \in VsVoices
        BY DEF VsVoices
      <4>2. inventory[k].voices \subseteq VsVoices
        BY <1>2 DEF VsDescribed
      <4> QED BY <4>1, <4>2
    <3>2. i = [inventory EXCEPT ![k] = [inventory[k] EXCEPT !.voices = vs]]
      BY <1>1, <2>1 DEF VsExclude
    <3> HIDE DEF vs
    <3>3. [inventory[k] EXCEPT !.voices = vs] \in VsDescribed
          /\ [inventory[k] EXCEPT !.voices = vs].available = inventory[k].available
      BY <1>2, <3>1 DEF VsDescribed
    <3> QED BY <3>2, <3>3
  <2>2. CASE error = "synthesis"
    <3>1. i = [inventory EXCEPT ![k] = [inventory[k] EXCEPT !.health = "failed"]]
      BY <1>1, <2>2 DEF VsExclude
    <3>2. [inventory[k] EXCEPT !.health = "failed"] \in VsDescribed
          /\ [inventory[k] EXCEPT !.health = "failed"].available = inventory[k].available
      BY <1>2 DEF VsDescribed, VsHealths
    <3> QED BY <3>1, <3>2
  <2> QED BY <2>1, <2>2
<1> HIDE DEF i
<1>4. i \in VsInventories
  BY <1>3 DEF VsInventories
<1>5. \A e \in VsEngines : i[e].available => inventory[e].available
  BY <1>3 DEF VsInventories
<1>6. VsHandles(i)
  BY <1>5 DEF VsHandles
<1> QED BY <1>4, <1>5, <1>6 DEF i

\* The worker's part, through a step of somebody else: handles are never withdrawn.
LEMMA VsWorkKept ==
    ASSUME VsWorkOK, UNCHANGED <<vsLocal, vsBatch, vsWork>>,
           \A e \in VsEngines : vsEntry[e].engine => vsEntry'[e].engine
    PROVE  VsWorkOK'
<1>1. ASSUME NEW i, VsHandles(i)
      PROVE  \A e \in VsEngines : i[e].available => vsEntry'[e].engine
  BY <1>1 DEF VsHandles
<1>2. vsWork.at \in {"read", "routed", "called"} => VsHandles(vsWork.inventory)'
  BY <1>1 DEF VsWorkOK, VsHandles
<1>3. vsWork.at \in {"routed", "called"} => VsGoodRoute(vsWork.inventory, vsWork.route)'
  <2>1. vsWork.at \in {"routed", "called"} => VsGoodRoute(vsWork.inventory, vsWork.route)
    BY DEF VsWorkOK
  <2> QED BY <2>1 DEF VsGoodRoute, VsUsable, VsDisabled, VsPermitsAutomatic, VsNamed,
                      VsAttemptStyle
<1> QED BY <1>2, <1>3 DEF VsWorkOK

\* Nobody routes while the worker is idle.
LEMMA VsWorkIdle ==
    ASSUME VsWorkOK, vsWork' = vsWork, vsWork.at = "idle"
    PROVE  VsWorkOK'
BY DEF VsWorkOK

\* The registry's and the session's part, where neither changes.
LEMMA VsRegistryKept ==
    ASSUME VsRegistryOK, vsEntry' = vsEntry
    PROVE  VsRegistryOK' /\ \A e \in VsEngines : vsEntry[e].engine => vsEntry'[e].engine
BY DEF VsRegistryOK, VsHandles

\* A batch nobody touches.
LEMMA VsBatchKept ==
    ASSUME VsBatchOK, vsBatch' = vsBatch
    PROVE  VsBatchOK'
BY DEF VsBatchOK

\* A session nobody touches.
LEMMA VsSessionKept ==
    ASSUME VsSessionOK, UNCHANGED <<vsPolicy, vsVoice>>
    PROVE  VsSessionOK'
BY DEF VsSessionOK

\* A step of the command thread that registers or resolves.
LEMMA VsCommandKeeps ==
    ASSUME VsSafe, vsEntry' = vsEntry, UNCHANGED <<vsLocal, vsBatch, vsWork>>, VsSessionOK'
    PROVE  VsSafe'
BY VsRegistryKept, VsBatchKept, VsWorkKept DEF VsSafe

\* set_routing_policy keeps the invariant.
LEMMA VsSetPolicyKeeps ==
    ASSUME SelectionAssumption, VsSafe, NEW g, NEW p \in VsPolicies, VsSetPolicy(g, p)
    PROVE  VsSafe'
<1>1. vsEntry' = vsEntry /\ UNCHANGED <<vsLocal, vsBatch, vsWork>>
  BY DEF VsSetPolicy, vsRegistry, vsWorker
<1>2. PICK vg, d, f, b :
        /\ vsVoice = [generation |-> vg, definition |-> d, fallback |-> f, binding |-> b]
        /\ d # VsNothing => d \in VsDefinitionType
        /\ f \in VsFallbackType
  BY DEF VsSafe, VsSessionOK
<1>3. \E n : vsVoice' = [generation |-> vg, definition |-> d, fallback |-> f, binding |-> n]
  <2>1. vsVoice' = vsVoice \/ \E n : vsVoice' = [vsVoice EXCEPT !.binding = n]
    BY DEF VsSetPolicy
  <2> QED BY <1>2, <2>1
<1>4. vsPolicy'.preferred \in Seq(Nat) /\ vsPolicy'.fallback \in Seq(Nat)
  <2>1. p.preferred \in Seq(Nat) /\ p.fallback \in Seq(Nat)
    BY DEF SelectionAssumption
  <2>2. vsPolicy' = vsPolicy \/ vsPolicy' = VsReplacePolicy(g, p)
    BY DEF VsSetPolicy, VsRegisterPolicy
  <2> QED BY <2>1, <2>2 DEF VsReplacePolicy, VsSafe, VsSessionOK
<1>5. VsSessionOK'
  BY <1>2, <1>3, <1>4 DEF VsSessionOK
<1> QED BY <1>1, <1>5, VsCommandKeeps

\* register_logical_voices keeps it.
LEMMA VsRegisterKeeps ==
    ASSUME SelectionAssumption, VsSafe, NEW g, NEW d \in VsDefinitions, NEW f \in VsFallbacks,
           VsRegister(g, d, f)
    PROVE  VsSafe'
<1>1. vsEntry' = vsEntry /\ vsPolicy' = vsPolicy /\ UNCHANGED <<vsLocal, vsBatch, vsWork>>
  BY DEF VsRegister, vsRegistry, vsWorker
<1>2. vsVoice' = vsVoice \/ \E n : vsVoice' = [VsRegistered(g, d, f) EXCEPT !.binding = n]
  BY DEF VsRegister
<1>3. d \in VsDefinitionType /\ f \in VsFallbackType
  BY DEF SelectionAssumption, VsDefinitionType, VsStyles, VsChoices, VsFallbackType
<1>4. CASE \E n : vsVoice' = [VsRegistered(g, d, f) EXCEPT !.binding = n]
  <2>1. PICK n : vsVoice' = [VsRegistered(g, d, f) EXCEPT !.binding = n]
    BY <1>4
  <2>2. vsVoice' = [generation |-> g, definition |-> d, fallback |-> f, binding |-> n]
    BY <2>1 DEF VsRegistered
  <2>3. VsSessionOK'
    BY <1>1, <1>3, <2>2 DEF VsSafe, VsSessionOK
  <2> QED BY <1>1, <2>3, VsCommandKeeps
<1>5. CASE vsVoice' = vsVoice
  BY <1>1, <1>5, VsSessionKept, VsCommandKeeps DEF VsSafe
<1> QED BY <1>2, <1>4, <1>5

\* An entry changes: what it calls available has a handle, and a handle stays.
LEMMA VsEntryChanges ==
    ASSUME VsSafe, NEW e \in VsEngines, NEW n \in VsEntries, vsEntry' = [vsEntry EXCEPT ![e] = n],
           n.available => n.engine, vsEntry[e].engine => n.engine,
           UNCHANGED <<vsLocal, vsPolicy, vsVoice, vsBatch, vsWork>>
    PROVE  VsSafe'
<1>1. VsRegistryOK'
  BY DEF VsSafe, VsRegistryOK, VsHandles
<1>2. \A d \in VsEngines : vsEntry[d].engine => vsEntry'[d].engine
  BY DEF VsSafe, VsRegistryOK
<1> QED BY <1>1, <1>2, VsSessionKept, VsBatchKept, VsWorkKept DEF VsSafe

\* Starting a rescan makes the engine unavailable; ending it publishes the handle with
\* the descriptor.
LEMMA VsRescansKeep ==
    ASSUME SelectionAssumption, VsSafe, NEW e \in VsEngines,
           VsRescan(e) \/ VsRescanUnstarted(e) \/ \E s \in BOOLEAN : VsRescanEnds(e, s)
    PROVE  VsSafe'
<1>1. PICK en \in BOOLEAN, av \in BOOLEAN, h \in VsHealths, vo \in SUBSET VsVoices,
           rt \in BOOLEAN, rs \in BOOLEAN :
        vsEntry[e] = [engine |-> en, available |-> av, health |-> h, voices |-> vo,
                      retry |-> rt, rescanning |-> rs]
  BY DEF VsSafe, VsRegistryOK, VsEntries
<1>2. UNCHANGED <<vsLocal, vsPolicy, vsVoice, vsBatch, vsWork>>
  BY DEF VsRescan, VsRescanUnstarted, VsRescanEnds, vsSession, vsWorker
<1>3. CASE VsRescan(e)
  <2>1. PICK r : r = vsEntry[e]
    OBVIOUS
  <2>2. PICK n : n = [r EXCEPT !.rescanning = TRUE, !.available = FALSE]
    OBVIOUS
  <2>3. vsEntry' = [vsEntry EXCEPT ![e] = n]
    <3>1. vsEntry' = [vsEntry EXCEPT ![e].rescanning = TRUE, ![e].available = FALSE]
      BY <1>3 DEF VsRescan, VsRescanStarts
    <3>2. vsEntry \in [VsEngines -> VsEntries]
      BY DEF VsSafe, VsRegistryOK
    <3> QED BY <2>1, <2>2, <3>1, <3>2
  <2>4. n = [engine |-> en, available |-> FALSE, health |-> h, voices |-> vo,
             retry |-> rt, rescanning |-> TRUE]
    <3>1. r = [engine |-> en, available |-> av, health |-> h, voices |-> vo,
               retry |-> rt, rescanning |-> rs]
      BY <1>1, <2>1
    <3> QED BY <2>2, <3>1
  <2>5. n \in VsEntries /\ (n.available => n.engine) /\ (vsEntry[e].engine => n.engine)
    BY <1>1, <2>4 DEF VsEntries
  <2> QED BY <1>2, <2>3, <2>5, VsEntryChanges
<1>4. ASSUME NEW s \in BOOLEAN, vsEntry' = [vsEntry EXCEPT ![e] = VsFinishRescan(e, s)]
      PROVE  VsSafe'
  <2> DEFINE n == VsFinishRescan(e, s)
  <2>1. n \in VsEntries /\ (n.available => n.engine) /\ (vsEntry[e].engine => n.engine)
    <3>1. CASE s
      <4>1. VsCatalogue[e] \in SUBSET VsVoices
        BY DEF SelectionAssumption
      <4> QED BY <3>1, <4>1 DEF VsFinishRescan, VsEntries, VsHealths
    <3>2. CASE ~s
      <4>1. n = [engine |-> en, available |-> FALSE, health |-> "failed", voices |-> vo,
                 retry |-> rt, rescanning |-> FALSE]
        <5>1. PICK r : r = vsEntry[e]
          OBVIOUS
        <5>2. PICK x : x = n
          OBVIOUS
        <5>3. x = [r EXCEPT !.rescanning = FALSE, !.available = FALSE, !.health = "failed"]
          BY <3>2, <5>1, <5>2 DEF VsFinishRescan
        <5>4. r = [engine |-> en, available |-> av, health |-> h, voices |-> vo,
                   retry |-> rt, rescanning |-> rs]
          BY <1>1, <5>1
        <5>5. x = [engine |-> en, available |-> FALSE, health |-> "failed", voices |-> vo,
                   retry |-> rt, rescanning |-> FALSE]
          BY <5>3, <5>4
        <5> QED BY <5>2, <5>5
      <4> HIDE DEF n
      <4> QED BY <1>1, <4>1 DEF VsEntries, VsHealths
    <3> QED BY <3>1, <3>2
  <2> HIDE DEF n
  <2> QED BY <1>2, <1>4, <2>1, VsEntryChanges DEF n
<1>5. CASE VsRescanUnstarted(e)
  BY <1>4, <1>5 DEF VsRescanUnstarted
<1>6. CASE \E s \in BOOLEAN : VsRescanEnds(e, s)
  BY <1>4, <1>6 DEF VsRescanEnds
<1> QED BY <1>3, <1>5, <1>6

\* The worker at a place, with an inventory and a route.
VsWorkIs(at, i, r) ==
    /\ at \in {"idle", "read", "routed", "called", "over"}
    /\ "missing" \notin DOMAIN r
    /\ at # "idle" => vsBatch # VsNothing
    /\ at \in {"read", "routed", "called"} => i \in VsInventories /\ VsHandles(i)
    /\ at \in {"routed", "called"} =>
          /\ \A e \in VsEngines : i[e].available => e \notin vsBatch.disabled
          /\ VsGoodRoute(i, r)

\* A step of the worker, by what it makes of the work.
LEMMA VsWorkerKeeps ==
    ASSUME VsSafe, UNCHANGED <<vsEntry, vsLocal, vsPolicy, vsVoice, vsBatch>>,
           NEW at, NEW i, NEW r, NEW n,
           vsWork' = [at |-> at, inventory |-> i, route |-> r, attempt |-> n],
           VsWorkIs(at, i, r)
    PROVE  VsSafe'
<1>1. vsWork'.at = at /\ vsWork'.inventory = i /\ vsWork'.route = r
  OBVIOUS
<1>2. /\ VsHandles(i)' <=> VsHandles(i)
      /\ VsGoodRoute(i, r)' <=> VsGoodRoute(i, r)
  BY DEF VsHandles, VsGoodRoute, VsUsable, VsDisabled, VsPermitsAutomatic, VsNamed,
         VsAttemptStyle
<1>3. VsWorkOK'
  BY <1>1, <1>2 DEF VsWorkOK, VsWorkIs
<1> QED BY <1>3, VsRegistryKept, VsBatchKept, VsSessionKept DEF VsSafe

\* The work, in parts.
LEMMA VsWorkParts ==
    ASSUME VsSafe
    PROVE  /\ VsWorkIs(vsWork.at, vsWork.inventory, vsWork.route)
           /\ \E at, i, r, n : vsWork = [at |-> at, inventory |-> i, route |-> r, attempt |-> n]
<1>1. PICK at \in {"idle", "read", "routed", "called", "over"} : \E i, r, n :
        vsWork = [at |-> at, inventory |-> i, route |-> r, attempt |-> n]
  BY DEF VsSafe, VsWorkOK
<1>2. vsWork.at \in {"idle", "read", "routed", "called", "over"}
  BY <1>1
<1>3. VsWorkIs(vsWork.at, vsWork.inventory, vsWork.route)
  BY <1>2 DEF VsSafe, VsWorkOK, VsWorkIs
<1> QED BY <1>1, <1>3

\* The worker reads the registry, resolves, and is permitted to call.
LEMMA VsReadsKeep ==
    ASSUME VsSafe, VsWorkerReads
    PROVE  VsSafe'
<1>1. PICK at, i, r, n : vsWork = [at |-> at, inventory |-> i, route |-> r, attempt |-> n]
  BY VsWorkParts
<1>2. /\ UNCHANGED <<vsEntry, vsLocal, vsPolicy, vsVoice, vsBatch>> /\ vsBatch # VsNothing
      /\ vsWork' = [vsWork EXCEPT !.at = "read", !.inventory = VsDescriptors]
  BY DEF VsWorkerReads, vsRegistry, vsSession
<1>3. PICK o : o = vsWork'
  OBVIOUS
<1>4. o = [at |-> "read", inventory |-> VsDescriptors, route |-> r, attempt |-> n]
  <2>1. PICK d : d = VsDescriptors
    OBVIOUS
  <2>2. o = [vsWork EXCEPT !.at = "read", !.inventory = d]
    BY <1>2, <1>3, <2>1
  <2> QED BY <1>1, <2>1, <2>2
<1>5. VsDescriptors \in VsInventories /\ VsHandles(VsDescriptors)
  BY VsDescriptorsAre DEF VsSafe
<1>6. VsWorkIs("read", VsDescriptors, r)
  BY <1>1, <1>2, <1>5, VsWorkParts DEF VsWorkIs
<1> QED BY <1>2, <1>3, <1>4, <1>6, VsWorkerKeeps

\* The first route of a batch is resolved.
LEMMA VsRoutesKeep ==
    ASSUME SelectionAssumption, VsSafe, VsWorkerRoutes
    PROVE  VsSafe'
<1>1. /\ vsWork.at = "read" /\ UNCHANGED <<vsEntry, vsLocal, vsPolicy, vsVoice, vsBatch>>
  BY DEF VsWorkerRoutes, vsRegistry, vsSession
<1>2. PICK inventory, definition, route :
        /\ inventory = VsProject(VsOverlay(vsWork.inventory, vsCircuit'), vsBatch.disabled)
        /\ definition = IF vsBatch.definition = VsNothing
                        THEN VsLegacyDefinition(inventory) ELSE vsBatch.definition
        /\ route = VsRoute(definition, inventory, vsBatch.text)
        /\ IF VsRouted(route)
           THEN vsWork' = [at |-> "routed", inventory |-> inventory, route |-> route,
                           attempt |-> 1]
           ELSE VsGiveUp(inventory, route)
  BY DEF VsWorkerRoutes
<1>3. /\ vsWork.inventory \in VsInventories /\ VsHandles(vsWork.inventory)
      /\ vsBatch # VsNothing /\ VsBatchOK
  BY <1>1, VsWorkParts DEF VsWorkIs, VsSafe
<1>4. /\ inventory \in VsInventories /\ VsHandles(inventory)
      /\ \A e \in VsEngines : inventory[e].available => e \notin vsBatch.disabled
  <2>1. PICK i, c, d : i = vsWork.inventory /\ c = vsCircuit' /\ d = vsBatch.disabled
    OBVIOUS
  <2>2. inventory = VsProject(VsOverlay(i, c), d)
    BY <1>2, <2>1
  <2> QED BY <1>3, <2>1, <2>2, VsProjectsAre
<1>5. /\ definition \in VsDefinitionType
      /\ vsBatch.only # 0 => vsBatch.only \in DOMAIN definition.choices
  <2>1. vsBatch.fallback \in VsFallbackType
    BY <1>3 DEF VsBatchOK
  <2>2. VsLegacyDefinition(inventory) \in VsDefinitionType
    BY <2>1, VsLegacyIsDefinition
  <2> QED BY <1>2, <1>3, <2>2 DEF VsBatchOK
<1>6. "missing" \notin DOMAIN route /\ (VsRouted(route) => VsGoodRoute(inventory, route))
  BY <1>2, <1>3, <1>4, <1>5, VsRouteIsGood
<1>7. CASE VsRouted(route)
  <2>1. vsWork' = [at |-> "routed", inventory |-> inventory, route |-> route, attempt |-> 1]
    BY <1>2, <1>7
  <2>2. VsWorkIs("routed", inventory, route)
    BY <1>3, <1>4, <1>6, <1>7 DEF VsWorkIs
  <2> QED BY <1>1, <2>1, <2>2, VsWorkerKeeps
<1>8. CASE ~VsRouted(route)
  <2>1. vsWork' = [at |-> "over", inventory |-> inventory, route |-> route, attempt |-> 0]
    BY <1>2, <1>8 DEF VsGiveUp
  <2>2. VsWorkIs("over", inventory, route)
    BY <1>3, <1>6 DEF VsWorkIs
  <2> QED BY <1>1, <2>1, <2>2, VsWorkerKeeps
<1> QED BY <1>7, <1>8

\* The engine is called.
LEMMA VsPermitKeeps ==
    ASSUME VsSafe, VsPermit
    PROVE  VsSafe'
<1>1. PICK at, i, r, n : vsWork = [at |-> at, inventory |-> i, route |-> r, attempt |-> n]
  BY VsWorkParts
<1>2. /\ UNCHANGED <<vsEntry, vsLocal, vsPolicy, vsVoice, vsBatch>> /\ vsWork.at = "routed"
      /\ vsWork' = [vsWork EXCEPT !.at = "called"]
  BY DEF VsPermit, vsRegistry, vsSession
<1>3. vsWork' = [at |-> "called", inventory |-> i, route |-> r, attempt |-> n]
  BY <1>1, <1>2
<1>4. VsWorkIs("called", i, r)
  BY <1>1, <1>2, VsWorkParts DEF VsWorkIs
<1> QED BY <1>2, <1>3, <1>4, VsWorkerKeeps

\* The batch ends.
LEMMA VsGiveUpKeeps ==
    ASSUME VsSafe, UNCHANGED <<vsEntry, vsLocal, vsPolicy, vsVoice, vsBatch>>,
           vsBatch # VsNothing, NEW i, NEW r, "missing" \notin DOMAIN r, VsGiveUp(i, r)
    PROVE  VsSafe'
<1>1. vsWork' = [at |-> "over", inventory |-> i, route |-> r, attempt |-> 0]
  BY DEF VsGiveUp
<1>2. VsWorkIs("over", i, r)
  BY DEF VsWorkIs
<1> QED BY <1>1, <1>2, VsWorkerKeeps

\* After a failure the batch is resolved again, by what it has left.
LEMMA VsRerouteKeeps ==
    ASSUME VsSafe, UNCHANGED <<vsEntry, vsLocal, vsPolicy, vsVoice, vsBatch>>,
           vsWork.at = "called", NEW error \in {"synthesis", "voice"}, VsReroute(error)
    PROVE  VsSafe'
<1>1. PICK inventory, route :
        /\ inventory = VsExclude(vsWork.inventory, vsWork.route.realized, error)
        /\ route = VsRoute(vsWork.route.definition, inventory, "none")
        /\ IF /\ VsRouted(route) /\ vsWork.attempt < VsMaxAttempts
              /\ route.realized # vsWork.route.realized
           THEN vsWork' = [at |-> "routed", inventory |-> inventory, route |-> route,
                           attempt |-> vsWork.attempt + 1]
           ELSE VsGiveUp(inventory, route)
  BY DEF VsReroute
<1>2. /\ vsWork.inventory \in VsInventories /\ VsHandles(vsWork.inventory)
      /\ vsBatch # VsNothing /\ VsGoodRoute(vsWork.inventory, vsWork.route) /\ VsBatchOK
      /\ \A e \in VsEngines : vsWork.inventory[e].available => e \notin vsBatch.disabled
  BY VsWorkParts DEF VsWorkIs, VsSafe
<1>3. vsWork.route.realized.engine \in VsEngines
  BY <1>2 DEF VsGoodRoute, VsUsable
<1>4. /\ inventory \in VsInventories /\ VsHandles(inventory)
      /\ \A e \in VsEngines : inventory[e].available => vsWork.inventory[e].available
  BY <1>1, <1>2, <1>3, VsExcludesAre
<1>5. /\ vsWork.route.definition \in VsDefinitionType
      /\ vsBatch.only # 0 => vsBatch.only \in DOMAIN vsWork.route.definition.choices
  BY <1>2 DEF VsGoodRoute
<1>6. "missing" \notin DOMAIN route /\ (VsRouted(route) => VsGoodRoute(inventory, route))
  BY <1>1, <1>2, <1>4, <1>5, VsRouteIsGood
<1>7. CASE /\ VsRouted(route)
           /\ vsWork' = [at |-> "routed", inventory |-> inventory, route |-> route,
                         attempt |-> vsWork.attempt + 1]
  <2>1. VsWorkIs("routed", inventory, route)
    BY <1>2, <1>4, <1>6, <1>7 DEF VsWorkIs
  <2>2. PICK n : n = vsWork.attempt + 1
    OBVIOUS
  <2> QED BY <1>7, <2>1, <2>2, VsWorkerKeeps
<1>8. CASE VsGiveUp(inventory, route)
  BY <1>2, <1>6, <1>8, VsGiveUpKeeps
<1> QED BY <1>1, <1>7, <1>8

\* The worker is done with its batch.
LEMMA VsEndsKeep ==
    ASSUME VsSafe, VsWorkerEnds
    PROVE  VsSafe'
<1>1. vsWork' = VsIdle /\ vsBatch' = VsNothing /\ UNCHANGED <<vsEntry, vsPolicy, vsVoice>>
  BY DEF VsWorkerEnds, vsRegistry, vsSession
<1>2. VsIdle.at = "idle" /\ "missing" \notin DOMAIN VsIdle.route
      /\ VsIdle = [at |-> "idle", inventory |-> <<>>, route |-> VsNothing, attempt |-> 0]
  BY DEF VsIdle, VsNothing
<1>3. VsWorkOK'
  BY <1>1, <1>2 DEF VsWorkOK
<1>4. VsBatchOK'
  BY <1>1 DEF VsBatchOK
<1> QED BY <1>1, <1>3, <1>4, VsRegistryKept, VsSessionKept DEF VsSafe

\* A batch is dispatched while the worker is idle.
LEMMA VsDispatchKeeps ==
    ASSUME VsSafe, vsBatch = VsNothing, NEW d, NEW f, NEW o, NEW t, NEW c, NEW x,
           vsBatch' = [definition |-> d, fallback |-> f, disabled |-> x, only |-> o,
                       text |-> t, context |-> c],
           d # VsNothing => d \in VsDefinitionType, f \in VsFallbackType, c \in VsPatches,
           o # 0 => d # VsNothing /\ o \in DOMAIN d.choices /\ f = VsNoFallback,
           UNCHANGED <<vsEntry, vsPolicy, vsVoice, vsWork>>
    PROVE  VsSafe'
<1>1. vsWork.at = "idle"
  BY DEF VsSafe, VsWorkOK
<1>2. VsWorkOK'
  BY <1>1, VsWorkIdle DEF VsSafe
<1>3. VsBatchOK'
  BY DEF VsBatchOK
<1> QED BY <1>2, <1>3, VsRegistryKept, VsSessionKept DEF VsSafe

\* A batch is dispatched, whoever asks.
LEMMA VsDispatchesKeep ==
    ASSUME SelectionAssumption, VsSafe, NEW t, NEW c,
           \/ c \in VsContexts /\ (VsDispatchVoice(t, c) \/ VsDispatchPreview(t, c))
           \/ VsDispatchLegacy(t)
    PROVE  VsSafe'
<1>1. vsBatch = VsNothing /\ UNCHANGED <<vsEntry, vsPolicy, vsVoice, vsWork>>
  BY DEF VsDispatchVoice, VsDispatchPreview, VsDispatchLegacy, vsRegistry, vsSession
<1>2. (c \in VsContexts => c \in VsPatches) /\ VsInheritAll \in VsPatches
  BY DEF SelectionAssumption, VsInheritAll, VsPatches, VsInherit
<1>3. PICK vg, d, f, b :
        /\ vsVoice = [generation |-> vg, definition |-> d, fallback |-> f, binding |-> b]
        /\ d # VsNothing => d \in VsDefinitionType
        /\ f \in VsFallbackType
  BY DEF VsSafe, VsSessionOK
<1>4. PICK e : e = VsEffective(vsPolicy, vsVoice.fallback)
  OBVIOUS
<1>5. e \in VsFallbackType
  <2>1. PICK p \in Seq(Nat), q \in Seq(Nat) :
          p = vsPolicy.preferred /\ q = IF vsPolicy.configured THEN vsPolicy.fallback ELSE f.fallback
    <3>1. PICK q : q = IF vsPolicy.configured THEN vsPolicy.fallback ELSE f.fallback
      OBVIOUS
    <3>2. q = vsPolicy.fallback \/ q = f.fallback
      BY <3>1, Zenon
    <3>3. q \in Seq(Nat)
      BY <1>3, <3>2 DEF VsSafe, VsSessionOK, VsFallbackType
    <3> QED BY <3>1, <3>3 DEF VsSafe, VsSessionOK
  <2>2. e = [f EXCEPT !.preferred = p, !.fallback = q]
    BY <1>3, <1>4, <2>1 DEF VsEffective
  <2> QED BY <1>3, <2>2 DEF VsFallbackType
<1>6. CASE c \in VsContexts /\ VsDispatchVoice(t, c)
  <2>1. vsBatch' = [definition |-> d, fallback |-> e, disabled |-> vsPolicy.disabled,
                    only |-> 0, text |-> t, context |-> c]
    BY <1>3, <1>4, <1>6 DEF VsDispatchVoice, VsCapture
  <2>2. PICK x : x = vsPolicy.disabled
    OBVIOUS
  <2>3. vsBatch' = [definition |-> d, fallback |-> e, disabled |-> x, only |-> 0,
                    text |-> t, context |-> c]
    BY <2>1, <2>2
  <2>4. c \in VsPatches
    BY <1>6 DEF SelectionAssumption
  <2>5. vsBatch = VsNothing /\ UNCHANGED <<vsEntry, vsPolicy, vsVoice, vsWork>>
    BY <1>6 DEF VsDispatchVoice, vsRegistry, vsSession
  <2> QED BY <1>3, <1>5, <2>3, <2>4, <2>5, VsDispatchKeeps
<1>7. CASE VsDispatchLegacy(t)
  <2>1. vsBatch' = [definition |-> VsNothing, fallback |-> e, disabled |-> vsPolicy.disabled,
                    only |-> 0, text |-> t, context |-> VsInheritAll]
    BY <1>4, <1>7 DEF VsDispatchLegacy, VsCapture
  <2>2. PICK x : x = vsPolicy.disabled
    OBVIOUS
  <2> QED BY <1>1, <1>2, <1>5, <2>1, <2>2, VsDispatchKeeps
<1>8. CASE c \in VsContexts /\ VsDispatchPreview(t, c)
  <2>1. PICK i \in DOMAIN vsVoice.definition.choices : vsBatch' = VsCaptureChoice(i, t, c)
    BY <1>8 DEF VsDispatchPreview
  <2>2. vsBatch' = [definition |-> d, fallback |-> VsNoFallback,
                    disabled |-> vsPolicy.disabled, only |-> i, text |-> t, context |-> c]
    BY <1>3, <2>1 DEF VsCaptureChoice
  <2>3. i \in DOMAIN d.choices /\ d # VsNothing
    BY <1>3, <1>8, <2>1 DEF VsDispatchPreview
  <2>4. VsNoFallback \in VsFallbackType
    BY DEF VsNoFallback, VsFallbackType
  <2>5. PICK x : x = vsPolicy.disabled
    OBVIOUS
  <2>6. vsBatch' = [definition |-> d, fallback |-> VsNoFallback, disabled |-> x,
                    only |-> i, text |-> t, context |-> c]
    BY <2>2, <2>5
  <2>7. c \in VsPatches
    BY <1>8 DEF SelectionAssumption
  <2>8. vsBatch = VsNothing /\ UNCHANGED <<vsEntry, vsPolicy, vsVoice, vsWork>>
    BY <1>8 DEF VsDispatchPreview, vsRegistry, vsSession
  <2> QED BY <1>3, <2>3, <2>4, <2>6, <2>7, <2>8, VsDispatchKeeps
<1> QED BY <1>6, <1>7, <1>8

\* The invariant holds at the start.
LEMMA VsInitially ==
    ASSUME SelectionAssumption, VsInit
    PROVE  VsSafe
<1>1. VsRegistryOK
  <2>1. ASSUME NEW e \in VsEngines
        PROVE  /\ VsInsert(vsLocal, e) \in VsEntries
               /\ VsInsert(vsLocal, e).available => VsInsert(vsLocal, e).engine
    <3>1. VsCatalogue[e] \in SUBSET VsVoices
      BY DEF SelectionAssumption
    <3>2. PICK st \in BOOLEAN : st = (e \notin vsLocal.failed)
      BY Zenon
    <3>3. PICK vo \in SUBSET VsVoices : vo = IF e \notin vsLocal.failed THEN VsCatalogue[e] ELSE {}
      BY <3>1
    <3>4. PICK nd \in BOOLEAN : nd = (e \notin vsLocal.disabled)
      BY Zenon
    <3>5. PICK u \in BOOLEAN : u = (st /\ nd)
      BY Zenon
    <3>6. PICK rt \in BOOLEAN : rt = (~st /\ nd)
      BY Zenon
    <3>8. VsInsert(vsLocal, e) = [engine |-> u, available |-> u, health |-> "healthy",
                                  voices |-> vo, retry |-> rt, rescanning |-> FALSE]
      BY <3>2, <3>3, <3>4, <3>5, <3>6 DEF VsInsert
    <3> QED BY <3>8 DEF VsEntries, VsHealths
  <2> QED BY <2>1 DEF VsInit, VsRegistryOK, VsHandles
<1>2. VsSessionOK
  <2>1. \E k \in VsEngines : \A j \in VsEngines : k <= j
    BY LeastNumber DEF SelectionAssumption
  <2>2. Min(VsEngines) \in Nat
    BY <2>1 DEF Min, SelectionAssumption
  <2>3. vsPolicy.preferred \in Seq(Nat) /\ vsPolicy.fallback \in Seq(Nat)
    BY <2>2 DEF VsInit, VsStartupPolicy
  <2>4. VsNoFallback \in VsFallbackType
    BY DEF VsNoFallback, VsFallbackType
  <2>5. vsVoice = [generation |-> 0, definition |-> VsNothing, fallback |-> VsNoFallback,
                   binding |-> VsNothing]
    BY DEF VsInit
  <2> QED BY <2>3, <2>4, <2>5 DEF VsSessionOK
<1>3. VsBatchOK
  BY DEF VsInit, VsBatchOK
<1>4. VsWorkOK
  <2>1. vsWork = [at |-> "idle", inventory |-> <<>>, route |-> VsNothing, attempt |-> 0]
    BY DEF VsInit, VsIdle
  <2>2. "missing" \notin DOMAIN VsNothing
    BY DEF VsNothing
  <2> QED BY <2>1, <2>2 DEF VsWorkOK
<1> QED BY <1>1, <1>2, <1>3, <1>4 DEF VsSafe

\* Every step keeps the invariant.
LEMMA VsKeeps ==
    ASSUME SelectionAssumption, VsSafe, [VsNext]_vsVars
    PROVE  VsSafe'
<1>1. ASSUME UNCHANGED <<vsEntry, vsLocal, vsPolicy, vsVoice, vsBatch, vsWork>>
      PROVE  VsSafe'
  BY <1>1, VsSessionKept, VsCommandKeeps DEF VsSafe
<1>2. ASSUME NEW e \in VsEngines, VsProbe(e) \/ VsCooldownPasses(e)
      PROVE  VsSafe'
  BY <1>1, <1>2 DEF VsProbe, VsCooldownPasses, vsRegistry, vsSession, vsWorker
<1>3. CASE VsReadRegistry \/ VsTellInventory \/ UNCHANGED vsVars
  BY <1>1, <1>3 DEF VsReadRegistry, VsTellInventory, vsRegistry, vsSession, vsWorker, vsVars
<1>4. CASE VsSucceeds
  <2>1. /\ UNCHANGED <<vsEntry, vsLocal, vsPolicy, vsVoice, vsBatch>> /\ vsWork.at = "called"
        /\ VsGiveUp(vsWork.inventory, vsWork.route)
    BY <1>4 DEF VsSucceeds, vsRegistry, vsSession
  <2>2. vsBatch # VsNothing /\ "missing" \notin DOMAIN vsWork.route
    BY <2>1, VsWorkParts DEF VsWorkIs
  <2> QED BY <2>1, <2>2, VsGiveUpKeeps
<1>5. CASE VsFails \/ VsVoiceMissing
  <2>1. UNCHANGED <<vsEntry, vsLocal, vsPolicy, vsVoice, vsBatch>> /\ vsWork.at = "called"
    BY <1>5 DEF VsFails, VsVoiceMissing, vsRegistry, vsSession
  <2>2. VsReroute("synthesis") \/ VsReroute("voice")
    BY <1>5 DEF VsFails, VsVoiceMissing
  <2> QED BY <2>1, <2>2, VsRerouteKeeps
<1>6. ASSUME NEW e \in VsEngines, NEW s \in BOOLEAN,
             VsRescan(e) \/ VsRescanUnstarted(e) \/ VsRescanEnds(e, s)
      PROVE  VsSafe'
  BY <1>6, VsRescansKeep
<1>7. ASSUME NEW t \in {"plain", "wide"}, VsDispatchLegacy(t)
      PROVE  VsSafe'
  BY <1>7, VsDispatchesKeep
<1>8. ASSUME NEW t \in {"plain", "wide"}, NEW c \in VsContexts,
             VsDispatchVoice(t, c) \/ VsDispatchPreview(t, c)
      PROVE  VsSafe'
  BY <1>8, VsDispatchesKeep
<1>9. ASSUME NEW g, NEW p \in VsPolicies, VsSetPolicy(g, p)
      PROVE  VsSafe'
  BY <1>9, VsSetPolicyKeeps
<1>10. ASSUME NEW g, NEW d \in VsDefinitions, NEW f \in VsFallbacks, VsRegister(g, d, f)
       PROVE  VsSafe'
  BY <1>10, VsRegisterKeeps
<1>11. CASE VsWorkerReads \/ VsWorkerRoutes \/ VsPermit \/ VsWorkerEnds
  BY <1>11, VsReadsKeep, VsRoutesKeep, VsPermitKeeps, VsEndsKeep
<1> QED BY <1>2, <1>3, <1>4, <1>5, <1>6, <1>7, <1>8, <1>9, <1>10, <1>11 DEF VsNext

\* Voice resolution by itself: routes are permitted, and spoken in the style of the
\* choice that won, whatever fails and is rescanned, registered or disabled around them.
THEOREM SelectionIsSafe == VsSpec => [](VsRouteIsPermitted /\ VsStyleOfActualChoice)
<1>1. VsInit => VsSafe
  BY SelectionAssumption, VsInitially
<1>2. VsSafe /\ [VsNext]_vsVars => VsSafe'
  BY SelectionAssumption, VsKeeps
<1>3. VsSafe => VsRouteIsPermitted /\ VsStyleOfActualChoice
  BY VsSafeSound
<1> QED BY <1>1, <1>2, <1>3, PTL DEF VsSpec

\* Of a route as it is called: it is permitted by what it was resolved under, and the
\* style is that of the choice that was really made (route_from_resolution).
THEOREM SelectionIsSound == StoreOrAdmissionSpec => []SelectionSound
<1> DEFINE Inv == which = "selection" => VsSafe
<1>1. StoreOrAdmissionInit => Inv
  BY SelectionAssumption, VsInitially DEF StoreOrAdmissionInit
<1>2. Inv /\ [StoreOrAdmissionNext]_<<which, vars, installationVars, operationVars, vsVars>>
        => Inv'
  <2> SUFFICES ASSUME Inv, which = "selection",
                      [StoreOrAdmissionNext]_<<which, vars, installationVars, operationVars, vsVars>>,
                      which' = which
               PROVE  VsSafe'
    BY DEF StoreOrAdmissionNext
  <2>1. [VsNext]_vsVars
    BY DEF StoreOrAdmissionNext
  <2>2. VsSafe
    OBVIOUS
  <2> QED BY <2>1, <2>2, SelectionAssumption, VsKeeps
<1>3. Inv => SelectionSound
  BY VsSafeSound DEF SelectionSound
<1> QED BY <1>1, <1>2, <1>3, PTL DEF StoreOrAdmissionSpec

----------------------------------------------------------
(* Voice resolution: a generation names an inventory *)

VsCircuits == {"closed", "open", "due", "ready", "probing"}

\* Two healths that project the same: closed and ready engines are told apart, and
\* all others are failed.
VsSameHealth(c, d) ==
    \A e \in VsEngines : (c[e] = "closed" <=> d[e] = "closed") /\ (c[e] = "ready" <=> d[e] = "ready")

\* The generations count whatever is told.
VsStepCounts ==
    /\ vsRegistryGen' \in Nat /\ vsRegistryGen' >= vsRegistryGen
    /\ vsRegistryGen' = vsRegistryGen => vsEntry' = vsEntry
    /\ vsHealthGen' \in Nat /\ vsHealthGen' >= vsHealthGen
    /\ vsHealthGen' = vsHealthGen => VsSameHealth(vsCircuit, vsCircuit')
    /\ vsCircuit' \in [VsEngines -> VsCircuits]

VsCountersOK ==
    /\ vsRegistryGen \in Nat /\ vsHealthGen \in Nat /\ vsPolicy.generation \in Nat
    /\ vsCircuit \in [VsEngines -> VsCircuits]

\* The command thread's snapshot: r and i, where g is the registry's generation and
\* j its inventory by now.
VsReadAt(r, i, g, j) == r \in Nat /\ r <= g /\ (r = g => i = j)

VsReadOK ==
    vsRead # VsNothing => VsReadAt(vsRead.generation, vsRead.inventory, vsRegistryGen, VsDescriptors)

\* The last answer was made of registry r with inventory i and health h with circuits
\* c, none newer than what there is now, nor than what the next answer will be made of.
VsMadeOf(r, i, h, c) ==
    /\ vsAnswer.policy.generation \in Nat
    /\ vsAnswer.policy.generation <= vsPolicy.generation
    /\ vsAnswer.generation = r + h + vsAnswer.policy.generation
    /\ vsAnswer.engines = VsProject(VsOverlay(i, c), vsAnswer.policy.disabled)
    /\ VsReadAt(r, i, vsRegistryGen, VsDescriptors)
    /\ vsRead # VsNothing => VsReadAt(r, i, vsRead.generation, vsRead.inventory)
    /\ h \in Nat /\ h <= vsHealthGen
    /\ h = vsHealthGen => VsSameHealth(c, vsCircuit)

VsAnswerOK == vsAnswer # VsNothing => \E r, i, h, c : VsMadeOf(r, i, h, c)

VsGenerations == VsCountersOK /\ VsReadOK /\ VsAnswerOK

\* Health that projects the same gives the same inventory.
LEMMA VsSameOverlay ==
    ASSUME NEW i, NEW c, NEW d, VsSameHealth(c, d)
    PROVE  VsOverlay(i, c) = VsOverlay(i, d)
<1>1. ASSUME NEW e \in VsEngines, NEW h
      PROVE  VsProjectedHealth(c[e], h) = VsProjectedHealth(d[e], h)
  <2>1. CASE c[e] = "closed"
    BY <2>1 DEF VsSameHealth, VsProjectedHealth
  <2>2. CASE c[e] = "ready"
    BY <2>2 DEF VsSameHealth, VsProjectedHealth
  <2>3. CASE c[e] \notin {"closed", "ready"}
    BY <2>3 DEF VsSameHealth, VsProjectedHealth
  <2> QED BY <2>1, <2>2, <2>3
<1> DEFINE H(e) == VsProjectedHealth(c[e], i[e].health)
           K(e) == VsProjectedHealth(d[e], i[e].health)
<1>2. \A e \in VsEngines : H(e) = K(e)
  BY <1>1
<1>3. /\ VsOverlay(i, c) = [e \in VsEngines |-> [i[e] EXCEPT !.health = H(e)]]
      /\ VsOverlay(i, d) = [e \in VsEngines |-> [i[e] EXCEPT !.health = K(e)]]
  BY DEF VsOverlay
<1> HIDE DEF H, K
<1> QED BY <1>2, <1>3

\* A circuit that is not changed projects the same, and what projects the same as the
\* same does so itself.
LEMMA VsSameHealths ==
    ASSUME NEW c, NEW d, NEW f
    PROVE  /\ VsSameHealth(c, c)
           /\ VsSameHealth(c, d) /\ VsSameHealth(d, f) => VsSameHealth(c, f)
BY DEF VsSameHealth

\* Ended cooldowns are counted.
LEMMA VsPromotionsCount ==
    ASSUME SelectionAssumption, VsCountersOK
    PROVE  /\ VsPromoted(VsEngines) \in Nat /\ VsPromoted(VsEngines) >= vsHealthGen
           /\ VsPromoted(VsEngines) = vsHealthGen => VsSameHealth(vsCircuit, VsPromote(VsEngines))
           /\ VsPromote(VsEngines) \in [VsEngines -> VsCircuits]
<1>1. VsDue(VsEngines) \subseteq VsEngines
  BY DEF VsDue
<1>2. IsFiniteSet(VsDue(VsEngines))
  BY <1>1, FS_Subset DEF SelectionAssumption
<1>3. PICK n \in Nat : n = Cardinality(VsDue(VsEngines))
  BY <1>2, FS_CardinalityType
<1>4. VsPromoted(VsEngines) = vsHealthGen + n
  BY <1>3 DEF VsPromoted
<1>5. n = 0 => VsSameHealth(vsCircuit, VsPromote(VsEngines))
  <2>1. SUFFICES ASSUME n = 0 PROVE VsSameHealth(vsCircuit, VsPromote(VsEngines))
    OBVIOUS
  <2>2. VsDue(VsEngines) = {}
    BY <1>2, <1>3, <2>1, FS_EmptySet
  <2> QED BY <2>2 DEF VsSameHealth, VsPromote
<1>6. VsPromote(VsEngines) \in [VsEngines -> VsCircuits]
  BY DEF VsPromote, VsCountersOK, VsCircuits
<1> QED BY <1>4, <1>5, <1>6 DEF VsCountersOK

\* The registry counts what changes its entries.
LEMMA VsRegistryCounts ==
    ASSUME VsCountersOK, NEW n \in {0, 1, 2}, vsRegistryGen' = vsRegistryGen + n,
           n = 0 => vsEntry' = vsEntry
    PROVE  /\ vsRegistryGen' \in Nat /\ vsRegistryGen' >= vsRegistryGen
           /\ vsRegistryGen' = vsRegistryGen => vsEntry' = vsEntry
BY DEF VsCountersOK

\* The health counts what changes a circuit visibly.
LEMMA VsHealthCounts ==
    ASSUME VsCountersOK, NEW n \in {0, 1, 2}, vsHealthGen' = vsHealthGen + n,
           n = 0 => vsCircuit' = vsCircuit, vsCircuit' \in [VsEngines -> VsCircuits]
    PROVE  /\ vsHealthGen' \in Nat /\ vsHealthGen' >= vsHealthGen
           /\ vsHealthGen' = vsHealthGen => VsSameHealth(vsCircuit, vsCircuit')
BY DEF VsCountersOK, VsSameHealth

\* A step of the command thread that reads the health.
LEMMA VsSnapshotCounts ==
    ASSUME SelectionAssumption, VsCountersOK, VsSnapshot, NEW n \in {0, 1, 2},
           vsRegistryGen' = vsRegistryGen + n, n = 0 => vsEntry' = vsEntry
    PROVE  VsStepCounts
BY VsRegistryCounts, VsPromotionsCount DEF VsSnapshot, VsStepCounts

\* Requests of a recovery.
LEMMA VsRecoveriesCount ==
    ASSUME SelectionAssumption, VsCountersOK, NEW e \in VsEngines,
           VsRescan(e) \/ VsRescanUnstarted(e) \/ VsProbe(e)
    PROVE  VsStepCounts
<1>1. CASE VsRescan(e)
  <2>1. VsSnapshot /\ vsRegistryGen' = vsRegistryGen + 1
    BY <1>1 DEF VsRescan, VsRescanStarts
  <2>2. 1 \in {0, 1, 2} /\ 1 # 0
    OBVIOUS
  <2> QED BY <2>1, <2>2, VsSnapshotCounts
<1>2. CASE VsRescanUnstarted(e)
  <2>1. VsSnapshot /\ vsRegistryGen' = vsRegistryGen + 2
    BY <1>2 DEF VsRescanUnstarted
  <2>2. 2 \in {0, 1, 2} /\ 2 # 0
    OBVIOUS
  <2> QED BY <2>1, <2>2, VsSnapshotCounts
<1>3. CASE VsProbe(e)
  <2>1. /\ vsCircuit' = [VsPromote(VsEngines) EXCEPT ![e] = "ready"]
        /\ vsHealthGen' = VsPromoted(VsEngines) + 1
        /\ vsRegistryGen' = vsRegistryGen /\ vsEntry' = vsEntry
    BY <1>3 DEF VsProbe, vsRegistry
  <2>2. /\ VsPromoted(VsEngines) \in Nat /\ VsPromoted(VsEngines) >= vsHealthGen
        /\ VsPromote(VsEngines) \in [VsEngines -> VsCircuits]
    BY VsPromotionsCount
  <2>3. vsCircuit' \in [VsEngines -> VsCircuits]
    BY <2>1, <2>2 DEF VsCircuits
  <2>4. vsHealthGen' \in Nat /\ vsHealthGen' > vsHealthGen
    BY <2>1, <2>2 DEF VsCountersOK
  <2> QED BY <2>1, <2>3, <2>4 DEF VsStepCounts, VsCountersOK
<1> QED BY <1>1, <1>2, <1>3

\* A call of an engine: permitted, succeeding, failing, or without its voice.
LEMMA VsCallsCount ==
    ASSUME VsCountersOK, VsPermit \/ VsSucceeds \/ VsFails \/ VsVoiceMissing
    PROVE  VsStepCounts
<1> DEFINE e == vsWork.route.realized.engine
<1>1. vsRegistryGen' = vsRegistryGen /\ vsEntry' = vsEntry
  BY DEF VsPermit, VsSucceeds, VsFails, VsVoiceMissing, vsRegistry
<1>2. SUFFICES ASSUME NEW n \in {0, 1, 2}, vsHealthGen' = vsHealthGen + n,
                      n = 0 => vsCircuit' = vsCircuit,
                      vsCircuit' \in [VsEngines -> VsCircuits]
               PROVE  VsStepCounts
  <2> HIDE DEF e
  <2>1. PICK k : k = e
    OBVIOUS
  <2>2. CASE VsPermit
    <3>1. /\ vsCircuit[k] \in {"closed", "due", "ready"}
          /\ vsCircuit' = [vsCircuit EXCEPT ![k] = IF @ = "closed" THEN @ ELSE "probing"]
          /\ vsHealthGen' = vsHealthGen + CASE vsCircuit[k] = "closed" -> 0
                                            [] vsCircuit[k] = "due" -> 2
                                            [] OTHER -> 1
      BY <2>1, <2>2 DEF VsPermit, e
    <3>2. vsCircuit' \in [VsEngines -> VsCircuits]
      BY <3>1 DEF VsCountersOK, VsCircuits
    <3>3. CASE vsCircuit[k] = "closed"
      <4>1. vsCircuit' = vsCircuit
        BY <3>1, <3>3 DEF VsCountersOK
      <4> QED BY <1>2, <3>1, <3>2, <3>3, <4>1
    <3>4. CASE vsCircuit[k] # "closed"
      BY <1>2, <3>1, <3>2, <3>4
    <3> QED BY <3>3, <3>4
  <2>3. CASE VsSucceeds
    <3>1. /\ vsCircuit' = [vsCircuit EXCEPT ![k] = IF @ = "probing" THEN "closed" ELSE @]
          /\ vsHealthGen' = vsHealthGen + (IF vsCircuit[k] = "probing" THEN 1 ELSE 0)
      BY <2>1, <2>3 DEF VsSucceeds, e
    <3>2. vsCircuit' \in [VsEngines -> VsCircuits]
      BY <3>1 DEF VsCountersOK, VsCircuits
    <3>3. CASE vsCircuit[k] # "probing"
      <4>1. vsCircuit' = vsCircuit
        BY <3>1, <3>3 DEF VsCountersOK
      <4> QED BY <1>2, <3>1, <3>2, <3>3, <4>1
    <3>4. CASE vsCircuit[k] = "probing"
      BY <1>2, <3>1, <3>2, <3>4
    <3> QED BY <3>3, <3>4
  <2>4. CASE VsFails
    <3>1. /\ vsCircuit' = [vsCircuit EXCEPT ![k] = "open"]
          /\ vsHealthGen' = vsHealthGen + 1
      BY <2>1, <2>4 DEF VsFails, e
    <3>2. vsCircuit' \in [VsEngines -> VsCircuits]
      BY <3>1 DEF VsCountersOK, VsCircuits
    <3> QED BY <1>2, <3>1, <3>2
  <2>5. CASE VsVoiceMissing
    <3>1. /\ vsCircuit' = [vsCircuit EXCEPT ![k] = IF @ = "probing" THEN "ready" ELSE @]
          /\ vsHealthGen' = vsHealthGen + (IF vsCircuit[k] = "probing" THEN 1 ELSE 0)
      BY <2>1, <2>5 DEF VsVoiceMissing, e
    <3>2. vsCircuit' \in [VsEngines -> VsCircuits]
      BY <3>1 DEF VsCountersOK, VsCircuits
    <3>3. CASE vsCircuit[k] # "probing"
      <4>1. vsCircuit' = vsCircuit
        BY <3>1, <3>3 DEF VsCountersOK
      <4> QED BY <1>2, <3>1, <3>2, <3>3, <4>1
    <3>4. CASE vsCircuit[k] = "probing"
      BY <1>2, <3>1, <3>2, <3>4
    <3> QED BY <3>3, <3>4
  <2> QED BY <2>2, <2>3, <2>4, <2>5
<1> QED BY <1>1, <1>2, VsHealthCounts DEF VsStepCounts, VsCountersOK

\* A cooldown that passes is not counted, and is not seen before somebody looks.
LEMMA VsCooldownCounts ==
    ASSUME VsCountersOK, NEW e \in VsEngines, VsCooldownPasses(e)
    PROVE  VsStepCounts
<1>1. /\ vsRegistryGen' = vsRegistryGen /\ vsEntry' = vsEntry /\ vsHealthGen' = vsHealthGen
      /\ vsCircuit[e] = "open" /\ vsCircuit' = [vsCircuit EXCEPT ![e] = "due"]
  BY DEF VsCooldownPasses, vsRegistry
<1>2. VsSameHealth(vsCircuit, vsCircuit') /\ vsCircuit' \in [VsEngines -> VsCircuits]
  BY <1>1 DEF VsSameHealth, VsCountersOK, VsCircuits
<1> QED BY <1>1, <1>2 DEF VsStepCounts, VsCountersOK

\* Whatever a step does, it counts what it changes.
LEMMA VsStepsCount ==
    ASSUME SelectionAssumption, VsCountersOK, [VsNext]_vsVars
    PROVE  VsStepCounts
<1>1. ASSUME UNCHANGED <<vsRegistry, vsHealth>>
      PROVE  VsStepCounts
  BY <1>1 DEF vsRegistry, vsHealth, VsStepCounts, VsCountersOK, VsSameHealth
<1>2. ASSUME VsSnapshot, UNCHANGED vsRegistry
      PROVE  VsStepCounts
  <2>1. vsRegistryGen' = vsRegistryGen + 0 /\ vsEntry' = vsEntry
    BY <1>2 DEF vsRegistry, VsCountersOK
  <2> QED BY <1>2, <2>1, VsSnapshotCounts
<1>3. CASE VsReadRegistry \/ VsWorkerReads \/ VsWorkerEnds \/ UNCHANGED vsVars
  BY <1>1, <1>3 DEF VsReadRegistry, VsWorkerReads, VsWorkerEnds, vsVars
<1>4. CASE VsTellInventory
  BY <1>2, <1>4 DEF VsTellInventory
<1>5. ASSUME NEW g, NEW p, VsSetPolicy(g, p)
      PROVE  VsStepCounts
  BY <1>2, <1>5 DEF VsSetPolicy
<1>6. ASSUME NEW g, NEW d, NEW f, VsRegister(g, d, f)
      PROVE  VsStepCounts
  BY <1>2, <1>6 DEF VsRegister
<1>7. ASSUME NEW e \in VsEngines,
             \/ VsRescan(e) \/ VsRescanUnstarted(e) \/ VsProbe(e)
             \/ VsRescanEnds(e, TRUE) \/ VsRescanEnds(e, FALSE) \/ VsCooldownPasses(e)
      PROVE  VsStepCounts
  <2>1. ASSUME NEW started, VsRescanEnds(e, started)
        PROVE  VsStepCounts
    <3>1. vsRegistryGen' = vsRegistryGen + 1 /\ UNCHANGED vsHealth
      BY <2>1 DEF VsRescanEnds
    <3> QED BY <3>1 DEF vsHealth, VsStepCounts, VsCountersOK, VsSameHealth
  <2> QED BY <1>7, <2>1, VsRecoveriesCount, VsCooldownCounts
<1>8. ASSUME NEW t, NEW c,
             VsDispatchVoice(t, c) \/ VsDispatchPreview(t, c) \/ VsDispatchLegacy(t)
      PROVE  VsStepCounts
  BY <1>1, <1>8 DEF VsDispatchVoice, VsDispatchPreview, VsDispatchLegacy
<1>9. CASE VsWorkerRoutes
  <2>1. /\ vsRegistryGen' = vsRegistryGen /\ vsEntry' = vsEntry
        /\ vsCircuit' = VsPromote(VsEngines) /\ vsHealthGen' = VsPromoted(VsEngines)
    BY <1>9 DEF VsWorkerRoutes, vsRegistry
  <2>2. /\ VsPromoted(VsEngines) \in Nat /\ VsPromoted(VsEngines) >= vsHealthGen
        /\ VsPromoted(VsEngines) = vsHealthGen
             => VsSameHealth(vsCircuit, VsPromote(VsEngines))
        /\ VsPromote(VsEngines) \in [VsEngines -> VsCircuits]
    BY VsPromotionsCount
  <2>3. vsRegistryGen \in Nat
    BY DEF VsCountersOK
  <2> QED BY <2>1, <2>2, <2>3 DEF VsStepCounts
<1>10. CASE VsPermit \/ VsSucceeds \/ VsFails \/ VsVoiceMissing
  BY <1>10, VsCallsCount
<1> QED BY <1>3, <1>4, <1>5, <1>6, <1>7, <1>8, <1>9, <1>10 DEF VsNext

\* What the command thread has read is never newer than the registry.
LEMMA VsReadKept ==
    ASSUME VsCountersOK, VsReadOK, VsStepCounts,
           \/ vsRead' \in {vsRead, VsNothing}
           \/ /\ vsRead' = [generation |-> vsRegistryGen, inventory |-> VsDescriptors]
              /\ UNCHANGED <<vsRegistryGen, vsEntry>>
    PROVE  VsReadOK'
<1>1. vsRegistryGen' = vsRegistryGen => VsDescriptors' = VsDescriptors
  BY DEF VsStepCounts, VsDescriptors
<1>2. /\ vsRegistryGen' \in Nat /\ vsRegistryGen \in Nat /\ vsRegistryGen' >= vsRegistryGen
  BY DEF VsStepCounts, VsCountersOK
<1>3. CASE vsRead' \in {vsRead, VsNothing}
  BY <1>1, <1>2, <1>3 DEF VsReadOK, VsReadAt
<1>4. CASE /\ vsRead' = [generation |-> vsRegistryGen, inventory |-> VsDescriptors]
           /\ UNCHANGED <<vsRegistryGen, vsEntry>>
  BY <1>1, <1>2, <1>4 DEF VsReadOK, VsReadAt
<1> QED BY <1>3, <1>4

\* An answer stays true through a step that tells nothing new.
LEMMA VsAnswerKept ==
    ASSUME VsGenerations, VsStepCounts, vsAnswer' = vsAnswer,
           vsPolicy'.generation \in Nat, vsPolicy'.generation >= vsPolicy.generation,
           \/ vsRead' \in {vsRead, VsNothing}
           \/ /\ vsRead' = [generation |-> vsRegistryGen, inventory |-> VsDescriptors]
              /\ UNCHANGED <<vsRegistryGen, vsEntry>>
    PROVE  VsAnswerOK'
<1>1. vsRegistryGen' = vsRegistryGen => VsDescriptors' = VsDescriptors
  BY DEF VsStepCounts, VsDescriptors
<1>2. /\ vsRegistryGen' \in Nat /\ vsRegistryGen \in Nat /\ vsRegistryGen' >= vsRegistryGen
      /\ vsHealthGen' \in Nat /\ vsHealthGen \in Nat /\ vsHealthGen' >= vsHealthGen
      /\ vsPolicy.generation \in Nat
  BY DEF VsStepCounts, VsCountersOK, VsGenerations
<1>3. SUFFICES ASSUME vsAnswer # VsNothing PROVE \E r, i, h, c : VsMadeOf(r, i, h, c)'
  BY DEF VsAnswerOK
<1>4. PICK r, i, h, c : VsMadeOf(r, i, h, c)
  BY <1>3 DEF VsGenerations, VsAnswerOK
<1>5. VsReadAt(r, i, vsRegistryGen', VsDescriptors')
  BY <1>1, <1>2, <1>4 DEF VsMadeOf, VsReadAt
<1>6. vsRead' # VsNothing => VsReadAt(r, i, vsRead'.generation, vsRead'.inventory)
  <2>1. CASE vsRead' \in {vsRead, VsNothing}
    BY <1>4, <2>1 DEF VsMadeOf
  <2>2. CASE vsRead' = [generation |-> vsRegistryGen, inventory |-> VsDescriptors]
    BY <1>4, <2>2 DEF VsMadeOf
  <2> QED BY <2>1, <2>2
<1>7. /\ h \in Nat /\ h <= vsHealthGen'
      /\ h = vsHealthGen' => VsSameHealth(c, vsCircuit')
  <2>1. h \in Nat /\ h <= vsHealthGen /\ (h = vsHealthGen => VsSameHealth(c, vsCircuit))
    BY <1>4 DEF VsMadeOf
  <2>2. vsHealthGen' = vsHealthGen => VsSameHealth(vsCircuit, vsCircuit')
    BY DEF VsStepCounts
  <2> QED BY <1>2, <2>1, <2>2, VsSameHealths
<1>8. /\ vsAnswer'.policy.generation \in Nat
      /\ vsAnswer'.policy.generation <= vsPolicy'.generation
      /\ vsAnswer'.generation = r + h + vsAnswer'.policy.generation
      /\ vsAnswer'.engines = VsProject(VsOverlay(i, c), vsAnswer'.policy.disabled)
  <2>1. /\ vsAnswer.policy.generation \in Nat
        /\ vsAnswer.policy.generation <= vsPolicy.generation
        /\ vsAnswer.generation = r + h + vsAnswer.policy.generation
        /\ vsAnswer.engines = VsProject(VsOverlay(i, c), vsAnswer.policy.disabled)
    BY <1>4 DEF VsMadeOf
  <2> QED BY <1>2, <2>1
<1>9. VsMadeOf(r, i, h, c)'
  BY <1>5, <1>6, <1>7, <1>8 DEF VsMadeOf
<1> QED BY <1>9

\* What a later answer may not contradict.
VsNamesInventory ==
    vsAnswer' # vsAnswer /\ vsAnswer # VsNothing /\ vsAnswer' # VsNothing
        => /\ vsAnswer'.generation >= vsAnswer.generation
           /\ vsAnswer'.generation = vsAnswer.generation /\ vsAnswer'.policy = vsAnswer.policy
                => vsAnswer'.engines = vsAnswer.engines

\* A new answer: each of the three generations in its sum is no older than the last
\* answer's, so the sums are equal only if all three are.
LEMMA VsAnswerTold ==
    ASSUME VsGenerations, VsStepCounts, VsSnapshot, UNCHANGED <<vsRegistryGen, vsEntry>>,
           NEW p, p.generation \in Nat, p.generation >= vsPolicy.generation,
           vsPolicy' = p, vsAnswer' = VsInventory(p)
    PROVE  VsAnswerOK' /\ VsNamesInventory
<1>1. PICK g, j : g = vsRead.generation /\ j = vsRead.inventory
  OBVIOUS
<1>2. vsRead # VsNothing /\ vsRead' = VsNothing
  BY DEF VsSnapshot
<1>3. VsReadAt(g, j, vsRegistryGen, VsDescriptors)
  BY <1>1, <1>2 DEF VsGenerations, VsReadOK
<1>4. PICK k, n : k = vsHealthGen' /\ n = vsCircuit'
  OBVIOUS
<1>5. PICK q : q = VsProject(VsOverlay(j, n), p.disabled)
  OBVIOUS
<1>6. vsAnswer' = [generation |-> g + k + p.generation, policy |-> p, engines |-> q]
  BY <1>1, <1>4, <1>5 DEF VsInventory
<1>7. /\ vsAnswer'.generation = g + k + p.generation /\ vsAnswer'.policy = p
      /\ vsAnswer'.engines = q
  BY <1>6
<1>8. /\ k \in Nat /\ k >= vsHealthGen /\ vsHealthGen \in Nat
      /\ k = vsHealthGen => VsSameHealth(vsCircuit, n)
      /\ vsPolicy.generation \in Nat
  BY <1>4 DEF VsStepCounts, VsGenerations, VsCountersOK
<1>9. VsMadeOf(g, j, k, n)'
  <2>1. VsReadAt(g, j, vsRegistryGen', VsDescriptors')
    BY <1>3 DEF VsDescriptors
  <2>2. /\ vsAnswer'.policy.generation \in Nat
        /\ vsAnswer'.policy.generation <= vsPolicy'.generation
        /\ vsAnswer'.generation = g + k + vsAnswer'.policy.generation
        /\ vsAnswer'.engines = VsProject(VsOverlay(j, n), vsAnswer'.policy.disabled)
    BY <1>5, <1>7
  <2>3. k \in Nat /\ k <= vsHealthGen' /\ VsSameHealth(n, vsCircuit')
    BY <1>4, <1>8, VsSameHealths
  <2> QED BY <1>2, <2>1, <2>2, <2>3 DEF VsMadeOf
<1>10. ASSUME vsAnswer # VsNothing
       PROVE  /\ vsAnswer'.generation >= vsAnswer.generation
              /\ vsAnswer'.generation = vsAnswer.generation /\ vsAnswer'.policy = vsAnswer.policy
                   => vsAnswer'.engines = vsAnswer.engines
  <2>1. PICK r, i, h, c : VsMadeOf(r, i, h, c)
    BY <1>10 DEF VsGenerations, VsAnswerOK
  <2>2. PICK o : o = vsAnswer.policy
    OBVIOUS
  <2>3. /\ o.generation \in Nat /\ o.generation <= vsPolicy.generation
        /\ vsAnswer.generation = r + h + o.generation
        /\ vsAnswer.engines = VsProject(VsOverlay(i, c), o.disabled)
        /\ h \in Nat /\ h <= vsHealthGen
        /\ h = vsHealthGen => VsSameHealth(c, vsCircuit)
    BY <2>1, <2>2 DEF VsMadeOf
  <2>4. r \in Nat /\ r <= g /\ (r = g => i = j) /\ g \in Nat
    BY <1>1, <1>2, <1>3, <2>1 DEF VsMadeOf, VsReadAt
  <2>5. vsAnswer'.generation >= vsAnswer.generation
    BY <1>7, <1>8, <2>3, <2>4
  <2>6. ASSUME vsAnswer'.generation = vsAnswer.generation, vsAnswer'.policy = vsAnswer.policy
        PROVE  vsAnswer'.engines = vsAnswer.engines
    <3>1. p = o
      BY <1>7, <2>2, <2>6
    <3>2. r = g /\ h = k /\ h = vsHealthGen
      <4>1. PICK m \in Nat : m = o.generation
        BY <2>3
      <4>2. g + k + m = r + h + m
        BY <1>7, <2>3, <2>6, <3>1, <4>1
      <4>3. /\ r \in Nat /\ g \in Nat /\ h \in Nat /\ k \in Nat /\ vsHealthGen \in Nat
            /\ r <= g /\ h <= vsHealthGen /\ vsHealthGen <= k
        BY <1>8, <2>3, <2>4
      <4> QED BY <4>2, <4>3
    <3>3. VsSameHealth(c, n)
      BY <1>8, <2>3, <3>2, VsSameHealths
    <3>4. VsOverlay(j, c) = VsOverlay(j, n)
      BY <3>3, VsSameOverlay
    <3> QED BY <1>5, <1>7, <2>3, <2>4, <3>1, <3>2, <3>4
  <2> QED BY <2>5, <2>6
<1>11. VsAnswerOK'
  BY <1>9 DEF VsAnswerOK
<1>12. VsNamesInventory
  BY <1>10 DEF VsNamesInventory
<1> QED BY <1>11, <1>12

\* A step either leaves the last answer, or tells a new one.
LEMMA VsStepNames ==
    ASSUME SelectionAssumption, VsGenerations, [VsNext]_vsVars
    PROVE  VsGenerations' /\ VsNamesInventory
<1>1. VsStepCounts
  BY VsStepsCount DEF VsGenerations
<1>2. vsPolicy.generation \in Nat
  BY DEF VsGenerations, VsCountersOK
<1>3. ASSUME vsAnswer' = vsAnswer, vsPolicy'.generation \in Nat,
             vsPolicy'.generation >= vsPolicy.generation,
             \/ vsRead' \in {vsRead, VsNothing}
             \/ /\ vsRead' = [generation |-> vsRegistryGen, inventory |-> VsDescriptors]
                /\ UNCHANGED <<vsRegistryGen, vsEntry>>
      PROVE  VsGenerations' /\ VsNamesInventory
  <2>1. VsAnswerOK'
    BY <1>1, <1>3, VsAnswerKept
  <2>2. VsReadOK'
    BY <1>1, <1>3, VsReadKept DEF VsGenerations
  <2>3. VsCountersOK'
    BY <1>1, <1>3 DEF VsStepCounts, VsCountersOK
  <2> QED BY <1>3, <2>1, <2>2, <2>3 DEF VsGenerations, VsNamesInventory
<1>4. ASSUME vsAnswer' = vsAnswer, vsPolicy' = vsPolicy, vsRead' \in {vsRead, VsNothing}
      PROVE  VsGenerations' /\ VsNamesInventory
  BY <1>2, <1>3, <1>4
<1>5. ASSUME VsSnapshot, UNCHANGED vsRegistry, NEW p, p.generation \in Nat,
             p.generation >= vsPolicy.generation, vsPolicy' = p, vsAnswer' = VsInventory(p)
      PROVE  VsGenerations' /\ VsNamesInventory
  <2>1. UNCHANGED <<vsRegistryGen, vsEntry>>
    BY <1>5 DEF vsRegistry
  <2>2. VsAnswerOK' /\ VsNamesInventory
    BY <1>1, <1>5, <2>1, VsAnswerTold
  <2>3. vsRead' \in {vsRead, VsNothing}
    BY <1>5 DEF VsSnapshot
  <2>4. VsReadOK'
    BY <1>1, <2>3, VsReadKept DEF VsGenerations
  <2>5. VsCountersOK'
    BY <1>1, <1>5 DEF VsStepCounts, VsCountersOK
  <2> QED BY <2>2, <2>4, <2>5 DEF VsGenerations
<1>6. CASE VsReadRegistry
  <2>1. /\ vsAnswer' = vsAnswer /\ vsPolicy' = vsPolicy
        /\ vsRead' = [generation |-> vsRegistryGen, inventory |-> VsDescriptors]
        /\ UNCHANGED <<vsRegistryGen, vsEntry>>
    BY <1>6 DEF VsReadRegistry, vsRegistry
  <2> QED BY <1>2, <1>3, <2>1
<1>7. CASE VsTellInventory
  BY <1>2, <1>5, <1>7 DEF VsTellInventory
<1>8. ASSUME NEW g \in 0 .. VsMaxGeneration, NEW p \in VsPolicies, VsSetPolicy(g, p)
      PROVE  VsGenerations' /\ VsNamesInventory
  <2>1. VsSnapshot /\ UNCHANGED vsRegistry /\ vsRead' \in {vsRead, VsNothing}
    BY <1>8 DEF VsSetPolicy, VsSnapshot
  <2>2. CASE VsPolicyAccepted(g, p)
    <3>1. PICK n : n = VsRegisterPolicy(g, p)
      OBVIOUS
    <3>2. vsPolicy' = n /\ vsAnswer' = VsInventory(n)
      BY <1>8, <2>2, <3>1 DEF VsSetPolicy
    <3>3. n.generation \in Nat /\ n.generation >= vsPolicy.generation
      <4>1. g \in Nat /\ g >= vsPolicy.generation
        BY <2>2 DEF SelectionAssumption, VsPolicyAccepted
      <4>2. CASE g = vsPolicy.generation /\ vsPolicy.configured
        BY <1>2, <3>1, <4>2 DEF VsRegisterPolicy
      <4>3. CASE ~(g = vsPolicy.generation /\ vsPolicy.configured)
        <5>1. n = VsReplacePolicy(g, p)
          BY <3>1, <4>3 DEF VsRegisterPolicy
        <5>2. n.generation = g
          BY <5>1 DEF VsReplacePolicy
        <5> QED BY <4>1, <5>2
      <4> QED BY <4>2, <4>3
    <3> QED BY <1>5, <2>1, <3>2, <3>3
  <2>3. CASE ~VsPolicyAccepted(g, p)
    <3>1. vsAnswer' = vsAnswer /\ vsPolicy' = vsPolicy
      BY <1>8, <2>3 DEF VsSetPolicy
    <3> QED BY <1>4, <2>1, <3>1
  <2> QED BY <2>2, <2>3
<1>9. ASSUME NEW g, NEW d, NEW f, VsRegister(g, d, f)
      PROVE  VsGenerations' /\ VsNamesInventory
  <2>1. /\ VsSnapshot /\ UNCHANGED vsRegistry /\ vsPolicy' = vsPolicy
        /\ vsRead' \in {vsRead, VsNothing}
        /\ vsAnswer' = VsInventory(vsPolicy) \/ vsAnswer' = vsAnswer
    BY <1>9 DEF VsRegister, VsSnapshot
  <2> QED BY <1>2, <1>4, <1>5, <2>1
<1>10. ASSUME NEW e \in VsEngines,
              \/ VsRescan(e) \/ VsRescanUnstarted(e) \/ VsProbe(e)
              \/ VsRescanEnds(e, TRUE) \/ VsRescanEnds(e, FALSE) \/ VsCooldownPasses(e)
       PROVE  VsGenerations' /\ VsNamesInventory
  <2>1. vsAnswer' = vsAnswer /\ vsPolicy' = vsPolicy /\ vsRead' \in {vsRead, VsNothing}
    BY <1>10 DEF VsRescan, VsRescanUnstarted, VsProbe, VsRescanEnds, VsCooldownPasses,
                 VsSnapshot, vsSession
  <2> QED BY <1>4, <2>1
<1>11. ASSUME NEW t, NEW c,
              VsDispatchVoice(t, c) \/ VsDispatchPreview(t, c) \/ VsDispatchLegacy(t)
       PROVE  VsGenerations' /\ VsNamesInventory
  BY <1>4, <1>11 DEF VsDispatchVoice, VsDispatchPreview, VsDispatchLegacy, vsSession
<1>12. CASE \/ VsWorkerReads \/ VsWorkerRoutes \/ VsPermit \/ VsSucceeds \/ VsFails
            \/ VsVoiceMissing \/ VsWorkerEnds
  <2>1. UNCHANGED vsSession
    BY <1>12 DEF VsWorkerReads, VsWorkerRoutes, VsPermit, VsSucceeds, VsFails,
                 VsVoiceMissing, VsWorkerEnds
  <2> QED BY <1>4, <2>1 DEF vsSession
<1>13. CASE UNCHANGED vsVars
  BY <1>4, <1>13 DEF vsVars, vsSession
<1> QED BY <1>6, <1>7, <1>8, <1>9, <1>10, <1>11, <1>12, <1>13 DEF VsNext

\* Of voice resolution, with registry, health and policy counted apart, each under its
\* own lock: an inventory generation names one inventory, and never goes back
\* (inventory_generation and registry_snapshot).
THEOREM GenerationNamesInventory == VsSpec => VsGenerationNamesInventory
<1>1. VsInit => VsGenerations
  <2> SUFFICES ASSUME VsInit PROVE VsGenerations
    OBVIOUS
  <2>1. IsFiniteSet(VsEngines)
    BY SelectionAssumption DEF SelectionAssumption
  <2>2. vsRegistryGen \in Nat
    BY <2>1, FS_CardinalityType DEF VsInit
  <2>3. vsPolicy.generation = 0 /\ vsHealthGen = 0
    BY DEF VsInit, VsStartupPolicy
  <2>4. vsCircuit \in [VsEngines -> VsCircuits]
    BY DEF VsInit, VsCircuits
  <2>5. vsRead = VsNothing /\ vsAnswer = VsNothing
    BY DEF VsInit
  <2> QED BY <2>2, <2>3, <2>4, <2>5 DEF VsGenerations, VsCountersOK, VsReadOK, VsAnswerOK
<1>2. VsGenerations /\ [VsNext]_vsVars => VsGenerations' /\ [VsNamesInventory]_vsVars
  BY SelectionAssumption, VsStepNames
<1> QED BY <1>1, <1>2, PTL DEF VsSpec, VsGenerationNamesInventory, VsNamesInventory
=============================================================================
