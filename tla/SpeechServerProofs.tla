------------------------- MODULE SpeechServerProofs -------------------------
(***************************************************************************)
(* The request path keeps its promises for any requests, domains, streams, *)
(* limits and channel capacity, and implements SpeechContract.             *)
(***************************************************************************)
EXTENDS SpeechServer, SequenceTheorems, TLAPS

\* What is proved of the queue and of the output on their own.
WQP == INSTANCE WorkQueueProofs WITH generation <- current_gen

ACP == INSTANCE AudioControlProofs WITH
         Source <- Work, Token <- TokenOf, NoToken <- NoRequest,
         Barriers <- [w \in Work |-> <<>>],
         MaxStops <- MaxGeneration + MaxReplacements

------------------------------
(* The parts *)

\* Finite sets are the same in the queue's modules as here.
LEMMA OneCardinality ==
    /\ \A S : WQ!Cardinality(S) = WQP!Cardinality(S)
    /\ IsFiniteSet(Work) = WQP!IsFiniteSet(Work)
BY ZenonT(60) DEF WQ!Cardinality, WQP!Cardinality, IsFiniteSet, WQP!IsFiniteSet

\* The steps the protocol loop can have before it.
Steps ==
    [do : {"stop"}, stream : Stream] \cup [do : {"retire", "close"}]
    \cup [do : {"send"}, req : Work]

\* The loop's command closes the sender last, if it does.
LoopOK ==
    /\ loop \in Seq(Steps)
    /\ \A i \in 1 .. Len(loop) : loop[i].do = "close" => i = Len(loop)

\* What the loop does next is one of its steps.
LEMMA HeadStep ==
    ASSUME LoopOK, loop # <<>>
    PROVE  /\ Head(loop) \in Steps
           /\ Head(loop).do = "stop" => Head(loop).stream \in Stream
           /\ Head(loop).do = "send" => Head(loop).req \in Work
           /\ Head(loop).do = "close" => Tail(loop) = <<>>
           /\ Tail(loop) \in Seq(Steps)
           /\ \A i \in 1 .. Len(Tail(loop)) :
                 Tail(loop)[i].do = "close" => i = Len(Tail(loop))
<1>1. /\ loop \in Seq(Steps) /\ Len(loop) \in Nat /\ Len(loop) # 0
      /\ Head(loop) = loop[1] /\ loop[1] \in Steps
      /\ Tail(loop) \in Seq(Steps) /\ Len(Tail(loop)) = Len(loop) - 1
      /\ \A i \in 1 .. Len(loop) - 1 : Tail(loop)[i] = loop[i + 1]
  BY DEF LoopOK
<1>2. \A step \in Steps :
         /\ step.do = "stop" => step.stream \in Stream
         /\ step.do = "send" => step.req \in Work
  BY DEF Steps
<1>3. Head(loop).do = "close" => Tail(loop) = <<>>
  <2>1. loop[1].do = "close" => Len(loop) = 1
    <3>1. 1 \in 1 .. Len(loop)
      BY <1>1
    <3> QED BY <3>1 DEF LoopOK
  <2>2. Len(loop) = 1 => Len(Tail(loop)) = 0
    BY <1>1
  <2> QED BY <1>1, <2>1, <2>2
<1>4. \A i \in 1 .. Len(Tail(loop)) :
         Tail(loop)[i].do = "close" => i = Len(Tail(loop))
  <2> SUFFICES ASSUME NEW i \in 1 .. Len(loop) - 1, loop[i + 1].do = "close"
               PROVE  i = Len(loop) - 1
    BY <1>1
  <2>1. i + 1 \in 1 .. Len(loop)
    BY <1>1
  <2>2. i + 1 = Len(loop)
    BY <2>1 DEF LoopOK
  <2>3. Len(loop) \in Nat /\ i \in Int
    BY <1>1
  <2> QED BY SMTT(60), <2>2, <2>3
<1> QED BY <1>1, <1>2, <1>3, <1>4

\* Every step of the server is a step of the queue, or leaves the queue alone.
LEMMA QueueSteps ==
    ASSUME LoopOK, [Next]_vars PROVE [WQP!Next]_(WQP!vars)
<1>1. ASSUME NEW w \in Work, WQ!TrySend(w) PROVE WQP!Next
  <2>1. WQP!TrySend(w)
    BY <1>1, OneCardinality DEF WQ!TrySend, WQP!TrySend, WQ!Reject, WQP!Reject, WQ!Admit, WQP!Admit,
       WQ!Saturates, WQP!Saturates, WQ!StillExceeds, WQP!StillExceeds, WQ!Retire, WQP!Retire,
       WQ!ExceedsLimits, WQP!ExceedsLimits, WQ!ProjectedItems, WQP!ProjectedItems,
       WQ!ProjectedBytes, WQP!ProjectedBytes, WQ!SatSub, WQP!SatSub, WQ!PayloadOf, WQP!PayloadOf,
       WQ!ByteUnits, WQP!ByteUnits, WQ!Replaced, WQP!Replaced, WQ!Evicted, WQP!Evicted,
       WQ!Candidates, WQP!Candidates, WQ!Older, WQP!Older, WQ!IsReplaceable, WQP!IsReplaceable,
       WQ!SharesReplacementDomain, WQP!SharesReplacementDomain, WQ!NotifyReceiver, WQP!NotifyReceiver
  <2> QED BY SMTT(60), <2>1 DEF WQP!Next, WQP!Send
<1>2. ASSUME NEW w \in Work, Enqueue(w) PROVE WQP!Next
  BY <1>1, <1>2 DEF Enqueue
<1>3. ASSUME WQ!AdvanceGeneration, current_gen < MaxGeneration PROVE WQP!Next
  BY <1>3 DEF WQ!AdvanceGeneration, WQP!AdvanceGeneration, WQP!Next, WQP!Interrupt
<1>4. CASE UNCHANGED queueVars /\ UNCHANGED current_gen
  BY <1>4 DEF queueVars, WQP!vars
<1>5. CASE LoopRetire
  BY <1>5, OneCardinality DEF LoopRetire, WQ!RetireBeforeGeneration,
     WQP!RetireBeforeGeneration, WQ!StaleBefore, WQP!StaleBefore, WQ!PayloadOf,
     WQP!PayloadOf, WQ!ByteUnits, WQP!ByteUnits, WQP!Next, WQP!Interrupt
<1>6. CASE LoopClose
  BY <1>6 DEF LoopClose, WQ!DropSender, WQP!DropSender, WQ!NotifyReceiver,
     WQP!NotifyReceiver, WQP!Next
<1>7. CASE WorkerRecv
  <2>1. ASSUME NEW w \in Work, WQ!Recv(w) PROVE WQP!Next
    BY <2>1 DEF WQ!Recv, WQP!Recv, WQ!IsFront, WQP!IsFront, WQ!SatSub, WQP!SatSub,
       WQP!Next, WQP!Receive
  <2>2. ASSUME WQ!RecvWait \/ WQ!RecvNone PROVE WQP!Next
    BY <2>2 DEF WQ!RecvWait, WQP!RecvWait, WQ!RecvNone, WQP!RecvNone, WQP!Next, WQP!Receive
  <2> QED BY <1>7, <2>1, <2>2 DEF WorkerRecv
<1>8. ASSUME NEW steps, Interrupt(steps) PROVE WQP!Next
  BY <1>3, <1>8 DEF Interrupt
<1>9. CASE LoopStep
  <2>1. CASE LoopSend
    BY <1>2, <2>1, HeadStep DEF LoopSend, Doing
  <2> QED BY <1>4, <1>5, <1>6, <1>9, <2>1 DEF LoopStep, LoopStop, ReportRetired
<1>10. CASE WorkerStep
  BY <1>4, <1>7, <1>10 DEF WorkerStep, WorkerStart, WorkerSynth, WorkerGate,
     WorkerAppend, WorkerFinal, WorkerReport, WorkerGoes
<1>11. CASE ReporterStep
  BY <1>4, <1>11 DEF ReporterStep, ReporterTake, ReporterWrite, ReporterDropLease, ReporterKeeps
<1>12. ASSUME NEW w \in Work, Submit(w) \/ HandleUrgent(w) PROVE WQP!Next
  BY <1>2, <1>8, <1>12 DEF Submit, HandleUrgent
<1>13. CASE HandleStop \/ EndOfInput
  BY <1>4, <1>8, <1>13 DEF HandleStop, EndOfInput, queueVars
<1>14. CASE DeviceReplaced \/ Drain \/ Exit \/ \E st \in Stream : Play(st)
  BY <1>4, <1>14 DEF DeviceReplaced, Drain, Exit, Play, vars, threadVars
<1>15. CASE UNCHANGED vars
  BY <1>4, <1>15 DEF vars, threadVars
<1> QED BY <1>9, <1>10, <1>11, <1>12, <1>13, <1>14, <1>15 DEF Next

\* The queue inside the server is the queue of WorkQueue, with all it promises.
LEMMA QueueInside ==
    /\ Init => WQP!Inv
    /\ WQP!Inv /\ LoopOK /\ [Next]_vars => WQP!Inv'
<1>1. Init => WQP!Inv
  <2>1. Init => WQP!Init
    BY DEF Init, WQ!Init, WQP!Init
  <2> QED BY <2>1, WQP!InitInv, ServerAssumption, OneCardinality
<1>2. WQP!Inv /\ [WQP!Next]_(WQP!vars) => WQP!Inv'
  BY WQP!InvStep, ServerAssumption, OneCardinality
<1> QED BY <1>1, <1>2, QueueSteps

------------------------------
(* The inductive invariant *)

Outcome == {"completed", "cancelled", "failed"}

ThreadTypeOK ==
    /\ gen_counter \in Nat
    /\ registry \in [Domains -> Work \cup {NoRequest}]
    /\ reporting \subseteq Work
    /\ worker \in [req : Work \cup {NoRequest},
                   pc : {"recv", "start", "synth", "queue", "append", "final", "report"},
                   failed : BOOLEAN, status : Outcome \cup {"none"}]
    /\ channel \in Seq([req : Tracked, status : Outcome])
    /\ Len(channel) <= TrackedCapacity
    /\ reporter \in [req : Tracked, status : Outcome \cup {"written"}] \cup {Quiet}
    /\ status \in [Work -> Seq(Outcome)]
    /\ replacements \in Nat
    /\ sent_at \in [Work -> Nat]
    /\ silenced \in [Stream -> Nat]

\* Only requests of the past are stamped, and the shared counter never lags
\* behind the loop's own: replacement only ever adds to it.
Generations ==
    /\ current_gen <= gen_counter
    /\ \A w \in Work : gen[w] <= current_gen
    /\ \A st \in Stream : silenced[st] <= current_gen
    /\ \A w \in Work : Sent(w) /\ sent_at[w] # replacements => gen[w] < gen_counter

InWorker(w) == worker.pc # "recv" /\ worker.req = w

InChannel(w) == \E i \in 1 .. Len(channel) : channel[i].req = w

AtReporter(w) == reporter.req = w

\* The worker holds a delivered request, and the gate only for it.
WorkerOK ==
    /\ worker.pc = "recv" => worker = Idle
    /\ worker.pc # "recv" => worker.req \in Work /\ fate[worker.req] = "delivered"
    /\ worker.pc = "report" => worker.req \in Tracked /\ worker.status \in Outcome
    /\ worker.pc \in {"start", "synth", "queue"} => phase[worker.req] = "new"
    /\ \A w \in Work :
          /\ fate[w] # "delivered" => phase[w] = "new"
          /\ phase[w] = "gate" <=> InWorker(w) /\ worker.pc = "append"
          /\ phase[w] \notin {"scheduled", "due", "dueGate"}

\* What is under the gate or in a sink was checked against the output it is
\* for, and at the gate against the last stop of its stream.
GateOK ==
    \A w \in Work :
        /\ phase[w] \in {"gate", "sink"} => sent_at[w] = replacements
        /\ phase[w] = "gate" => silenced[StreamOf[w]] <= gen[w]

\* A request is held by one thread at a time until its one record is written.
Accounts ==
    /\ \A w \in Work :
          /\ fate[w] \in {"unsent", "queued"} => w \notin reporting /\ status[w] = <<>>
          /\ fate[w] \in WQ!RetirementReason =>
                IF w \in reporting \/ w \notin Tracked THEN status[w] = <<>>
                ELSE Len(status[w]) = 1
          /\ fate[w] = "delivered" =>
                /\ w \notin reporting
                /\ IF \/ InWorker(w) \/ InChannel(w) \/ w \notin Tracked
                      \/ AtReporter(w) /\ reporter.status # "written"
                   THEN status[w] = <<>> ELSE Len(status[w]) = 1
          /\ InChannel(w) \/ AtReporter(w) => fate[w] = "delivered" /\ ~InWorker(w)
          /\ ~(InChannel(w) /\ AtReporter(w))
    /\ \A i, j \in 1 .. Len(channel) : channel[i].req = channel[j].req => i = j

\* Only presentations that were sent are registered, each under its own domain and
\* until its record is written and its lease dropped; only presentations are
\* cancelled by token.
LeasesOK ==
    /\ \A d \in Domains : registry[d] # NoRequest =>
          LET w == registry[d] IN
          /\ Domain[w] = d /\ Sent(w)
          /\ status[w] = <<>> \/ AtReporter(w)
    /\ \A w \in cancelled : w \in Work /\ IsReplaceable(w) /\ Sent(w)
    /\ \A w \in Work : fate[w] \notin {"unsent", "Saturated", "ReceiverClosed"} =>
          order[w] > 0

\* Shutdown goes from the loop through the worker to the output.
ShutdownOK ==
    /\ sender_closed => loop = <<>> /\ reporting = {}
    /\ receiver = "gone" => sender_closed /\ queue = {} /\ worker.pc = "recv"
    /\ draining # "no" => receiver = "gone"
    /\ draining = "drained" => \A st \in Stream : sink[st] = <<>>

IInv ==
    /\ WQP!Inv /\ ACP!AudioInv /\ LoopOK /\ ThreadTypeOK /\ Generations
    /\ WorkerOK /\ GateOK /\ Accounts /\ LeasesOK /\ ShutdownOK
    /\ KeyedCanBeSuperseded

------------------------------
(* Steps of the server *)

\* A command of the loop closes the sender last, if it does.
CommandOK(steps) ==
    /\ steps \in Seq(Steps)
    /\ \A i \in 1 .. Len(steps) : steps[i].do = "close" => i = Len(steps)

\* Mixtures of steps without a close, with or without one at the end.
LEMMA CommandSteps ==
    /\ CommandOK(StopAll \o Retire)
    /\ CommandOK(StopAll \o Retire \o <<[do |-> "close"]>>)
    /\ CommandOK(<<[do |-> "close"]>>)
    /\ \A w \in Work : CommandOK(<<[do |-> "stop", stream |-> "Speech"]>> \o Retire
                                  \o <<[do |-> "send", req |-> w]>>)
<1> DEFINE Plain == {step \in Steps : step.do # "close"}
           close == [do |-> "close"]
<1>1. \A st \in Stream : [do |-> "stop", stream |-> st] \in Plain
  BY DEF Steps
<1>2. [do |-> "retire"] \in Plain /\ close \in Steps /\ close.do = "close"
  BY DEF Steps
<1>3. \A w \in Work : [do |-> "send", req |-> w] \in Plain
  BY DEF Steps
<1>4. Plain \subseteq Steps /\ \A step \in Plain : step.do # "close"
  OBVIOUS
<1> HIDE DEF Plain, close
<1>5. \A s \in Seq(Plain) : CommandOK(s)
  <2> SUFFICES ASSUME NEW s \in Seq(Plain) PROVE CommandOK(s)
    OBVIOUS
  <2>1. \A i \in 1 .. Len(s) : s[i] \in Plain
    OBVIOUS
  <2>2. s \in Seq(Steps)
    BY <1>4
  <2> QED BY <1>4, <2>1, <2>2 DEF CommandOK
<1>6. \A s \in Seq(Plain) : CommandOK(s \o <<close>>)
  <2> SUFFICES ASSUME NEW s \in Seq(Plain) PROVE CommandOK(s \o <<close>>)
    OBVIOUS
  <2>1. s \in Seq(Steps) /\ <<close>> \in Seq(Steps)
    BY <1>2, <1>4
  <2>2. s \o <<close>> \in Seq(Steps) /\ Len(s \o <<close>>) = Len(s) + 1
        /\ Len(s) \in Nat
    BY <2>1
  <2>3. \A i \in 1 .. Len(s) : (s \o <<close>>)[i] = s[i] /\ s[i] \in Plain
    BY <2>1
  <2>4. \A i \in 1 .. Len(s) + 1 : i \in 1 .. Len(s) \/ i = Len(s) + 1
    BY <2>2
  <2> QED BY <1>4, <2>2, <2>3, <2>4 DEF CommandOK
<1>7. Retire \in Seq(Plain)
  BY <1>2 DEF Retire
<1>8. StopAll \in Seq(Plain)
  <2> DEFINE stop(st) == IF st \in Stream THEN <<[do |-> "stop", stream |-> st]>> ELSE <<>>
  <2>1. ASSUME NEW st PROVE stop(st) \in Seq(Plain)
    <3>1. CASE st \in Stream
      <4>1. <<[do |-> "stop", stream |-> st]>> \in Seq(Plain)
        BY <1>1, <3>1
      <4> QED BY <3>1, <4>1
    <3>2. CASE st \notin Stream
      BY <3>2
    <3> QED BY <3>1, <3>2
  <2>2. StopAll = stop("Speech") \o stop("Tone") \o stop("Sound")
    BY DEF StopAll
  <2> HIDE DEF stop
  <2> QED BY <2>1, <2>2
<1>9. \A w \in Work : <<[do |-> "stop", stream |-> "Speech"]>> \o Retire
                       \o <<[do |-> "send", req |-> w]>> \in Seq(Plain)
  <2> SUFFICES ASSUME NEW w \in Work
               PROVE  <<[do |-> "stop", stream |-> "Speech"]>> \o Retire
                         \o <<[do |-> "send", req |-> w]>> \in Seq(Plain)
    OBVIOUS
  <2>1. <<[do |-> "stop", stream |-> "Speech"]>> \in Seq(Plain)
    BY <1>1, ServerAssumption
  <2>2. <<[do |-> "send", req |-> w]>> \in Seq(Plain)
    BY <1>3
  <2> QED BY <1>7, <2>1, <2>2
<1>10. <<>> \in Seq(Plain) /\ <<>> \o <<close>> = <<close>>
  OBVIOUS
<1>11. StopAll \o Retire \in Seq(Plain)
  BY <1>7, <1>8
<1> QED BY <1>5, <1>6, <1>9, <1>10, <1>11 DEF close

\* The steps by what they do to the state.
Sends ==
    \E w \in Work : /\ Enqueue(w) /\ reporting = {}
                    /\ UNCHANGED loop \/ (loop # <<>> /\ loop' = Tail(loop))

Interrupts == \E steps \in Seq(Steps) : CommandOK(steps) /\ Interrupt(steps)

Closes ==
    /\ LoopReady
    /\ loop' = <<[do |-> "close"]>>
    /\ UNCHANGED <<queueVars, audioVars, current_gen, gen_counter, registry,
                   reporting, worker, channel, reporter, status, replacements,
                   sent_at, silenced>>

Reports == \E w \in Work : ReportRetired(w)

\* The worker goes on by itself: to another place, or done with the request.
WorkerMoves == WorkerStart \/ WorkerSynth \/ WorkerFinal

Plays == \E st \in Stream : Play(st)

AnyStep ==
    \/ Sends \/ Interrupts \/ Closes \/ Reports
    \/ LoopStop \/ LoopRetire \/ LoopClose
    \/ WorkerRecv \/ WorkerMoves \/ WorkerGate \/ WorkerAppend \/ WorkerReport
    \/ ReporterTake \/ ReporterWrite \/ ReporterDropLease
    \/ Plays \/ DeviceReplaced \/ Drain \/ UNCHANGED vars

LEMMA StepCases == LoopOK /\ [Next]_vars => AnyStep
<1> SUFFICES ASSUME LoopOK, [Next]_vars PROVE AnyStep
  OBVIOUS
<1>1. ASSUME NEW w \in Work, Submit(w) PROVE Sends
  BY <1>1 DEF Submit, LoopReady, Sends
<1>2. ASSUME NEW w \in Work, HandleUrgent(w) PROVE Interrupts
  BY <1>2, CommandSteps DEF HandleUrgent, Interrupts, CommandOK
<1>3. HandleStop => Interrupts
  BY CommandSteps DEF HandleStop, Interrupts, CommandOK
<1>4. EndOfInput => Interrupts \/ Closes
  BY CommandSteps DEF EndOfInput, Interrupts, CommandOK, Closes
<1>5. LoopSend => Sends
  BY HeadStep DEF LoopSend, Doing, Sends
<1>6. LoopStep => \/ Sends \/ Reports \/ LoopStop \/ LoopRetire \/ LoopClose
  BY <1>5 DEF LoopStep, Reports
<1>7. WorkerStep => \/ WorkerRecv \/ WorkerMoves \/ WorkerGate \/ WorkerAppend
                    \/ WorkerReport
  BY DEF WorkerStep, WorkerMoves
<1>8. Exit => UNCHANGED vars
  BY DEF Exit
<1> QED BY <1>1, <1>2, <1>3, <1>4, <1>6, <1>7, <1>8
        DEF Next, AnyStep, ReporterStep, Plays

\* The loop's program stays one that closes last.
LEMMA LoopKept == LoopOK /\ [Next]_vars => LoopOK'
<1> SUFFICES ASSUME LoopOK, [Next]_vars PROVE LoopOK'
  OBVIOUS
<1>1. AnyStep
  BY StepCases
<1>2. loop' = loop => LoopOK'
  BY DEF LoopOK
<1>3. loop # <<>> /\ loop' = Tail(loop) => LoopOK'
  BY HeadStep DEF LoopOK
<1>4. ASSUME NEW steps \in Seq(Steps), CommandOK(steps), loop' = steps PROVE LoopOK'
  BY <1>4 DEF LoopOK, CommandOK
<1>5. Closes => LoopOK'
  BY <1>4, CommandSteps DEF Closes, CommandOK
<1>6. Interrupts => LoopOK'
  BY <1>4 DEF Interrupts, Interrupt
<1>7. Sends => LoopOK'
  BY <1>2, <1>3 DEF Sends
<1>8. LoopStop \/ LoopRetire \/ LoopClose => LoopOK'
  BY <1>3 DEF LoopStop, LoopRetire, LoopClose, Doing
<1>9. \/ Reports \/ WorkerRecv \/ WorkerMoves \/ WorkerGate \/ WorkerAppend \/ WorkerReport
      \/ ReporterTake \/ ReporterWrite \/ ReporterDropLease
      \/ Plays \/ DeviceReplaced \/ Drain \/ UNCHANGED vars
      => loop' = loop
  BY DEF Reports, ReportRetired, WorkerRecv, WorkerMoves, WorkerStart, WorkerSynth,
     WorkerFinal, WorkerGoes, WorkerGate, WorkerAppend, WorkerReport, WorkerKeeps,
     ReporterTake, ReporterWrite, ReporterDropLease, ReporterKeeps, Plays, Play,
     DeviceReplaced, Drain, vars, threadVars
<1> QED BY <1>1, <1>2, <1>5, <1>6, <1>7, <1>8, <1>9 DEF AnyStep

------------------------------
(* The output inside the server *)

LEMMA AudioAssumed ==
    /\ StreamOf \in [Work -> Stream]
    /\ MaxDepth \in [Stream -> Nat \ {0}]
    /\ [w \in Work |-> <<>>] \in [Work -> Seq(Work)]
    /\ MaxGeneration + MaxReplacements \in Nat
BY ServerAssumption

\* The output's invariant does not depend on which tokens are cancelled.
LEMMA CancelKeepsAudio ==
    ASSUME ACP!AudioInv, cancelled' \subseteq {TokenOf[w] : w \in Work},
           UNCHANGED <<phase, ticket, sink, schedule_generations, stop_token,
                       held_token, scheduled_at, draining>>
    PROVE  ACP!AudioInv'
<1>1. ACP!ControlTypeOK'
  BY DEF ACP!AudioInv, ACP!ControlTypeOK
<1>2. ACP!SinksHold' /\ ACP!TicketsMatch'
  BY DEF ACP!AudioInv, ACP!SinksHold, ACP!InSink, ACP!TicketsMatch
<1>3. ACP!ChecksHold' /\ ACP!BarriersHold'
  BY DEF ACP!AudioInv, ACP!ChecksHold, ACP!BarriersHold
<1> QED BY <1>1, <1>2, <1>3 DEF ACP!AudioInv

\* Every step of the server takes the output by one of its operations.
LEMMA AudioInside ==
    /\ Init => ACP!AudioInv
    /\ ACP!AudioInv /\ LoopOK /\ ThreadTypeOK /\ WorkerOK /\ LeasesOK /\ [Next]_vars
          => ACP!AudioInv'
<1>1. Init => ACP!AudioInv
  <2>1. Init => ACP!AudioInit
    BY DEF Init, AC!AudioInit, ACP!AudioInit
  <2> QED BY <2>1, ACP!AudioInitInv, AudioAssumed
<1>2. ASSUME ACP!AudioInv, LoopOK, ThreadTypeOK, WorkerOK, LeasesOK, [Next]_vars
      PROVE  ACP!AudioInv'
  <2>1. AnyStep
    BY <1>2, StepCases
  <2>2. UNCHANGED audioVars => ACP!AudioInv'
    BY <1>2, CancelKeepsAudio DEF audioVars, ACP!AudioInv, ACP!ControlTypeOK
  <2>3. CASE Sends
    <3>1. PICK w \in Work : Enqueue(w)
      BY <2>3 DEF Sends
    <3>2. cancelled' \subseteq {TokenOf[v] : v \in Work}
      <4>1. cancelled \subseteq {TokenOf[v] : v \in Work}
        BY <1>2 DEF ACP!AudioInv, ACP!ControlTypeOK
      <4>2. CASE UNCHANGED cancelled
        BY <4>1, <4>2
      <4>3. CASE ~UNCHANGED cancelled
        <5>1. IsReplaceable(w) /\ cancelled' = cancelled \cup ({registry[Domain[w]]} \ {NoRequest})
          BY <3>1, <4>3 DEF Enqueue, Activate
        <5>2. Domain[w] \in Domains
          BY <5>1 DEF Domains, IsReplaceable
        <5>3. registry[Domain[w]] # NoRequest =>
                 /\ registry[Domain[w]] \in Work
                 /\ Domain[registry[Domain[w]]] = Domain[w]
          BY <1>2, <5>2 DEF LeasesOK, ThreadTypeOK
        <5>4. registry[Domain[w]] # NoRequest =>
                 TokenOf[registry[Domain[w]]] = registry[Domain[w]]
          BY <5>1, <5>3 DEF TokenOf, IsReplaceable
        <5> QED BY <4>1, <5>1, <5>3, <5>4
      <4> QED BY <4>2, <4>3
    <3> QED BY <1>2, <3>1, <3>2, CancelKeepsAudio DEF Enqueue
  <2>4. CASE Interrupts \/ Closes \/ Reports \/ LoopRetire \/ LoopClose \/ WorkerRecv
             \/ WorkerMoves \/ WorkerReport \/ ReporterTake \/ ReporterWrite
             \/ ReporterDropLease \/ UNCHANGED vars
    BY <2>2, <2>4 DEF Interrupts, Interrupt, Closes, Reports, ReportRetired, LoopRetire,
       LoopClose, WorkerRecv, WorkerMoves, WorkerStart, WorkerSynth, WorkerFinal, WorkerGoes,
       WorkerReport, ReporterTake, ReporterWrite, ReporterDropLease, ReporterKeeps, vars
  <2>5. CASE LoopStop
    <3>1. PICK st \in Stream : AC!Stop(st)
      BY <1>2, <2>5, HeadStep DEF LoopStop, Doing
    <3>2. ACP!Stop(st)
      BY <3>1 DEF AC!Stop, ACP!Stop, AC!GateFree, ACP!GateFree, AC!SmoothStop,
         ACP!SmoothStop, AC!DropAll, ACP!DropAll, AC!InSink, ACP!InSink
    <3> QED BY <1>2, <3>2, ACP!StopKeeps, AudioAssumed
  <2>6. CASE WorkerGate
    <3>1. PICK w \in Work : AC!QueueGate(w, ~IsStale(w))
      BY <1>2, <2>6 DEF WorkerGate, WorkerAt, WorkerOK
    <3>2. PICK current \in BOOLEAN : current = ~IsStale(w)
      BY DEF IsStale
    <3>3. ACP!QueueGate(w, current)
      BY <3>1, <3>2 DEF AC!QueueGate, ACP!QueueGate, AC!GateFree, ACP!GateFree,
         AC!BarriersTried, ACP!BarriersTried, AC!Waits, ACP!Waits
    <3> QED BY <1>2, <3>3, ACP!QueueGateKeeps, AudioAssumed
  <2>7. CASE WorkerAppend
    <3>1. PICK w \in Work : AC!QueueAppend(w) \/ AC!AppendError(w)
      BY <1>2, <2>7 DEF WorkerAppend, WorkerAt, WorkerOK
    <3>2. CASE AC!QueueAppend(w)
      <4>1. phase[w] \in {"gate", "dueGate"} /\ ACP!Append1(w)
        BY <3>2 DEF AC!QueueAppend, AC!Append1, ACP!Append1, AC!InSink, ACP!InSink
      <4> QED BY <1>2, <4>1, ACP!AppendKeeps, AudioAssumed
    <3>3. CASE AC!AppendError(w)
      <4>1. ACP!AppendError(w)
        BY <3>3 DEF AC!AppendError, ACP!AppendError, AC!InSink, ACP!InSink
      <4> QED BY <1>2, <4>1, ACP!AppendErrorKeeps, AudioAssumed
    <3> QED BY <3>1, <3>2, <3>3
  <2>8. CASE Plays
    <3>1. PICK st \in Stream : AC!SourceEnds(st)
      BY <2>8 DEF Plays, Play
    <3>2. ACP!SourceEnds(st)
      BY <3>1 DEF AC!SourceEnds, ACP!SourceEnds, AC!EndStatus, ACP!EndStatus,
         AC!IsRequested, ACP!IsRequested, AC!SmoothStop, ACP!SmoothStop
    <3> QED BY <1>2, <3>2, ACP!SourceEndsKeeps, AudioAssumed
  <2>9. CASE DeviceReplaced
    <3>1. ACP!InterruptOutput
      BY <2>9 DEF DeviceReplaced, AC!InterruptOutput, ACP!InterruptOutput, AC!GateFree,
         ACP!GateFree, AC!SmoothStop, ACP!SmoothStop, AC!InSink, ACP!InSink
    <3> QED BY <1>2, <3>1, ACP!InterruptOutputKeeps, AudioAssumed
  <2>10. CASE Drain
    <3>1. ACP!DrainScheduled \/ ACP!DrainSinks
      BY <2>10 DEF Drain, AC!DrainScheduled, ACP!DrainScheduled, AC!DrainSinks,
         ACP!DrainSinks, AC!SchedulersRunning, ACP!SchedulersRunning, AC!Waits, ACP!Waits
    <3> QED BY <1>2, <3>1, ACP!DrainKeeps, AudioAssumed
  <2> QED BY <2>1, <2>3, <2>4, <2>5, <2>6, <2>7, <2>8, <2>9, <2>10 DEF AnyStep
<1> QED BY <1>1, <1>2

------------------------------
(* What the operations of the queue do to a request *)

Retirements == {"Replaced", "EvictedForCapacity", "StaleGeneration", "Saturated",
                "ReceiverClosed"}

Fates == Retirements \cup {"unsent", "queued", "delivered"}

\* The queue's and the output's variables, typed in the server's terms.
LEMMA Typed ==
    ASSUME IInv
    PROVE  /\ fate \in [Work -> Fates] /\ order \in [Work -> Nat] /\ gen \in [Work -> Nat]
           /\ admissions \in Nat /\ current_gen \in Nat /\ gen_counter \in Nat
           /\ replacements \in Nat /\ sent_at \in [Work -> Nat]
           /\ sender_closed \in BOOLEAN
           /\ queue = {w \in Work : fate[w] = "queued"}
           /\ DOMAIN phase = Work /\ DOMAIN ticket = Work
           /\ sink \in [Stream -> Seq(Work)]
           /\ silenced \in [Stream -> Nat]
           /\ status \in [Work -> Seq(Outcome)]
           /\ registry \in [Domains -> Work \cup {NoRequest}]
           /\ \A w \in Work : StreamOf[w] \in Stream
           /\ NoRequest \notin Work
           /\ WQ!RetirementReason = Retirements
<1>1. WQ!RetirementReason = Retirements /\ WQP!RetirementReason = Retirements
  BY DEF WQ!RetirementReason, WQP!RetirementReason, Retirements
<1>2. WQP!TypeOK /\ WQP!Conserved
  BY DEF IInv, WQP!Inv
<1>3. /\ fate \in [Work -> Fates] /\ order \in [Work -> Nat] /\ gen \in [Work -> Nat]
      /\ admissions \in Nat /\ current_gen \in Nat /\ sender_closed \in BOOLEAN
  BY <1>1, <1>2 DEF WQP!TypeOK, Fates
<1>4. queue = {w \in Work : fate[w] = "queued"}
  BY <1>2 DEF WQP!Conserved
<1>5. DOMAIN phase = Work /\ DOMAIN ticket = Work /\ sink \in [Stream -> Seq(Work)]
  BY DEF IInv, ACP!AudioInv, ACP!ControlTypeOK
<1> QED BY <1>1, <1>3, <1>4, <1>5, ServerAssumption DEF IInv, ThreadTypeOK

\* Sending a request: it is refused, or admitted and registered, and what it
\* retires was queued.
LEMMA EnqueueEffect ==
    ASSUME IInv, NEW w \in Work, Enqueue(w)
    PROVE  /\ fate[w] = "unsent" /\ ~sender_closed
           /\ gen' = [gen EXCEPT ![w] = current_gen]
           /\ sent_at' = [sent_at EXCEPT ![w] = replacements]
           /\ UNCHANGED <<current_gen, sender_closed, phase, ticket, sink,
                          schedule_generations, stop_token, held_token, scheduled_at,
                          draining, gen_counter, worker, channel, reporter, status,
                          replacements, silenced>>
           /\ reporting' = {v \in Work : fate'[v] # fate[v] /\ fate'[v] \in Retirements}
           /\ fate' \in [Work -> Fates]
           /\ receiver' = "gone" <=> receiver = "gone"
           /\ \/ /\ fate'[w] \in {"Saturated", "ReceiverClosed"}
                 /\ \A v \in Work : v # w => fate'[v] = fate[v]
                 /\ UNCHANGED <<queue, order, registry, cancelled>>
              \/ /\ fate'[w] = "queued" /\ receiver # "gone"
                 /\ order'[w] > 0
                 /\ \A v \in Work : v # w =>
                       /\ order'[v] = order[v]
                       /\ \/ fate'[v] = fate[v]
                          \/ fate[v] = "queued" /\ fate'[v] \in {"Replaced", "EvictedForCapacity"}
                 /\ Activate(w)
<1>1. /\ WQ!TrySend(w)
      /\ IF fate'[w] = "queued" THEN Activate(w) ELSE UNCHANGED <<registry, cancelled>>
      /\ reporting' = RetiredNow
      /\ sent_at' = [sent_at EXCEPT ![w] = replacements]
      /\ UNCHANGED <<phase, ticket, sink, schedule_generations, stop_token,
                     held_token, scheduled_at, draining, gen_counter, worker,
                     channel, reporter, status, replacements, silenced>>
  BY DEF Enqueue
<1>2. /\ fate[w] = "unsent" /\ ~sender_closed
      /\ gen' = [gen EXCEPT ![w] = current_gen]
      /\ UNCHANGED current_gen
      /\ \/ receiver = "gone" /\ WQ!Reject(w, "ReceiverClosed")
         \/ receiver # "gone" /\ WQ!Reject(w, "Saturated")
         \/ receiver # "gone" /\ WQ!Admit(w)
  BY <1>1 DEF WQ!TrySend
<1>3. fate \in [Work -> Fates] /\ order \in [Work -> Nat] /\ admissions \in Nat
      /\ queue = {v \in Work : fate[v] = "queued"} /\ WQ!RetirementReason = Retirements
  BY Typed
<1>4. reporting' = {v \in Work : fate'[v] # fate[v] /\ fate'[v] \in Retirements}
  BY <1>1, <1>3 DEF RetiredNow
<1>5. ASSUME NEW reason \in {"ReceiverClosed", "Saturated"}, WQ!Reject(w, reason)
      PROVE  /\ fate'[w] = reason /\ \A v \in Work : v # w => fate'[v] = fate[v]
             /\ UNCHANGED <<queue, order, registry, cancelled, sender_closed, receiver>>
             /\ fate' \in [Work -> Fates]
  <2>1. fate' = [fate EXCEPT ![w] = reason]
        /\ UNCHANGED <<queue, order, sender_closed, receiver>>
    BY <1>5 DEF WQ!Reject
  <2>2. fate'[w] = reason /\ \A v \in Work : v # w => fate'[v] = fate[v]
    BY <1>3, <2>1
  <2>3. fate' \in [Work -> Fates]
    BY <1>3, <2>1 DEF Fates, Retirements
  <2> QED BY <1>1, <2>1, <2>2, <2>3
<1>6. ASSUME WQ!Admit(w)
      PROVE  /\ fate'[w] = "queued" /\ order'[w] > 0
             /\ \A v \in Work : v # w =>
                   /\ order'[v] = order[v]
                   /\ \/ fate'[v] = fate[v]
                      \/ fate[v] = "queued" /\ fate'[v] \in {"Replaced", "EvictedForCapacity"}
             /\ Activate(w) /\ UNCHANGED sender_closed
             /\ fate' \in [Work -> Fates]
             /\ receiver' = "gone" <=> receiver = "gone"
  <2>1. /\ order' = [order EXCEPT ![w] = admissions + 1]
        /\ fate' = [v \in Work |->
                       IF v = w THEN "queued"
                       ELSE IF v \in WQ!Replaced(w) THEN "Replaced"
                       ELSE IF v \in WQ!Evicted(w) THEN "EvictedForCapacity"
                       ELSE fate[v]]
        /\ WQ!NotifyReceiver /\ UNCHANGED sender_closed
    BY <1>6 DEF WQ!Admit
  <2>2. WQ!Replaced(w) \subseteq queue /\ WQ!Evicted(w) \subseteq queue
    BY DEF WQ!Replaced, WQ!Evicted, WQ!Candidates
  <2>3. fate'[w] = "queued"
    BY <2>1
  <2>4. order'[w] > 0 /\ \A v \in Work : v # w => order'[v] = order[v]
    BY <1>3, <2>1
  <2>5. \A v \in Work : v # w =>
           \/ fate'[v] = fate[v]
           \/ fate[v] = "queued" /\ fate'[v] \in {"Replaced", "EvictedForCapacity"}
    BY <1>3, <2>1, <2>2
  <2>6. fate' \in [Work -> Fates]
    BY <1>3, <2>1 DEF Fates, Retirements
  <2>7. receiver' = "gone" <=> receiver = "gone"
    BY <2>1 DEF WQ!NotifyReceiver
  <2>8. Activate(w)
    BY <1>1, <2>3
  <2> QED BY <2>1, <2>3, <2>4, <2>5, <2>6, <2>7, <2>8
<1>7. CASE \E reason \in {"ReceiverClosed", "Saturated"} : WQ!Reject(w, reason)
  BY <1>1, <1>2, <1>4, <1>5, <1>7
<1>8. CASE receiver # "gone" /\ WQ!Admit(w)
  BY <1>1, <1>2, <1>4, <1>6, <1>8
<1> QED BY <1>2, <1>7, <1>8

\* Retiring what an interrupt made stale.
LEMMA RetireEffect ==
    ASSUME IInv, LoopRetire
    PROVE  /\ reporting = {} /\ loop # <<>> /\ ~sender_closed
           /\ reporting' = {v \in Work : fate'[v] # fate[v] /\ fate'[v] \in Retirements}
           /\ fate' \in [Work -> Fates]
           /\ \A v \in Work :
                 fate'[v] = fate[v] \/ (fate[v] = "queued" /\ fate'[v] = "StaleGeneration")
           /\ UNCHANGED <<order, admissions, current_gen, gen, sender_closed, receiver>>
           /\ UNCHANGED <<audioVars, gen_counter, registry, worker, channel,
                          reporter, status, replacements, sent_at, silenced>>
<1>1. fate \in [Work -> Fates] /\ queue = {v \in Work : fate[v] = "queued"}
      /\ WQ!RetirementReason = Retirements
  BY Typed
<1>2. /\ ~sender_closed
      /\ fate' = [v \in Work |-> IF v \in WQ!StaleBefore(current_gen) THEN "StaleGeneration"
                                 ELSE fate[v]]
      /\ UNCHANGED <<order, admissions, current_gen, gen, sender_closed, receiver>>
  BY DEF LoopRetire, WQ!RetireBeforeGeneration
<1>3. WQ!StaleBefore(current_gen) \subseteq queue
  BY DEF WQ!StaleBefore
<1>4. fate' \in [Work -> Fates]
  BY <1>1, <1>2 DEF Fates, Retirements
<1>5. \A v \in Work :
         fate'[v] = fate[v] \/ (fate[v] = "queued" /\ fate'[v] = "StaleGeneration")
  BY <1>1, <1>2, <1>3
<1> QED BY <1>1, <1>2, <1>4, <1>5 DEF LoopRetire, RetiredNow, Doing

\* The worker takes the front of the queue, parks, or leaves.
LEMMA RecvEffect ==
    ASSUME IInv, WorkerRecv
    PROVE  /\ worker.pc = "recv"
           /\ UNCHANGED <<order, current_gen, gen, sender_closed>>
           /\ UNCHANGED <<audioVars, gen_counter, registry, loop, reporting, channel,
                          reporter, status, replacements, sent_at, silenced>>
           /\ \/ \E w \in Work :
                    /\ fate[w] = "queued" /\ fate'[w] = "delivered"
                    /\ \A v \in Work : v # w => fate'[v] = fate[v]
                    /\ worker' = [Idle EXCEPT !.req = w, !.pc = "start"]
                    /\ UNCHANGED receiver /\ receiver = "ready"
              \/ /\ UNCHANGED <<fate, queue, worker>>
                 /\ queue = {}
                 /\ receiver' = "gone" => sender_closed
                 /\ receiver = "ready"
<1>1. fate \in [Work -> Fates] /\ queue = {v \in Work : fate[v] = "queued"}
  BY Typed
<1>2. CASE \E w \in Work : WQ!Recv(w) /\ worker' = [Idle EXCEPT !.req = w, !.pc = "start"]
  <2>1. PICK w \in Work : WQ!Recv(w) /\ worker' = [Idle EXCEPT !.req = w, !.pc = "start"]
    BY <1>2
  <2>2. /\ w \in queue /\ receiver = "ready"
        /\ fate' = [fate EXCEPT ![w] = "delivered"]
        /\ UNCHANGED <<order, current_gen, gen, sender_closed, receiver>>
    BY <2>1 DEF WQ!Recv, WQ!IsFront
  <2>3. fate[w] = "queued" /\ fate'[w] = "delivered"
        /\ \A v \in Work : v # w => fate'[v] = fate[v]
    BY <1>1, <2>2
  <2> QED BY <2>1, <2>2, <2>3 DEF WorkerRecv, WorkerAt, WorkerKeeps
<1>3. CASE (WQ!RecvWait \/ WQ!RecvNone) /\ UNCHANGED worker
  BY <1>3 DEF WorkerRecv, WorkerAt, WorkerKeeps, WQ!RecvWait, WQ!RecvNone
<1> QED BY <1>2, <1>3 DEF WorkerRecv

------------------------------
(* The invariant is inductive, part by part *)

\* Taking the first element of a sequence.
LEMMA FrontOfSequence ==
    ASSUME NEW S, NEW s \in Seq(S), s # <<>>
    PROVE  /\ Head(s) \in S /\ Head(s) = s[1] /\ 1 \in 1 .. Len(s)
           /\ Tail(s) \in Seq(S)
           /\ Len(s) \in Nat /\ Len(Tail(s)) = Len(s) - 1
           /\ \A i \in 1 .. Len(s) - 1 : i + 1 \in 1 .. Len(s) /\ Tail(s)[i] = s[i + 1]
<1>1. Len(s) \in Nat /\ Len(s) # 0
  OBVIOUS
<1>2. 1 \in 1 .. Len(s) /\ \A i \in 1 .. Len(s) - 1 : i + 1 \in 1 .. Len(s)
  BY <1>1
<1>3. Tail(s) \in Seq(S) /\ Len(Tail(s)) = Len(s) - 1 /\ Head(s) = s[1]
  OBVIOUS
<1>4. \A i \in 1 .. Len(s) - 1 : Tail(s)[i] = s[i + 1]
  OBVIOUS
<1> QED BY <1>1, <1>2, <1>3, <1>4

LEMMA DropLeaseTyped ==
    ASSUME ThreadTypeOK, NEW w, DropLease(w)
    PROVE  registry' \in [Domains -> Work \cup {NoRequest}]
BY DEF ThreadTypeOK, DropLease

\* Where the worker may go by itself.
LEMMA WorkerMovesEffect ==
    ASSUME IInv, WorkerMoves
    PROVE  /\ worker.req \in Work /\ fate[worker.req] = "delivered"
           /\ worker.pc \in {"start", "synth", "final"}
           /\ worker' \in [req : Work \cup {NoRequest},
                          pc : {"recv", "start", "synth", "queue", "append", "final", "report"},
                          failed : BOOLEAN, status : Outcome \cup {"none"}]
           /\ \/ /\ worker'.req = worker.req
                 /\ worker'.pc \in {"synth", "queue"}
                 /\ phase[worker.req] = "new"
              \/ worker'.req = worker.req /\ worker'.pc = "final"
              \/ /\ worker'.req = worker.req /\ worker'.pc = "report"
                 /\ worker.req \in Tracked /\ worker'.status \in Outcome
              \/ worker' = Idle /\ worker.req \notin Tracked
           /\ UNCHANGED <<queueVars, audioVars, current_gen, gen_counter, registry,
                          loop, reporting, channel, reporter, status, replacements,
                          sent_at, silenced>>
<1>1. /\ worker.pc \in {"start", "synth", "final"}
      /\ UNCHANGED <<queueVars, audioVars, current_gen, gen_counter, registry,
                     loop, reporting, channel, reporter, status, replacements,
                     sent_at, silenced>>
  BY DEF WorkerMoves, WorkerStart, WorkerSynth, WorkerFinal, WorkerAt, WorkerGoes
<1>2. /\ worker.req \in Work /\ fate[worker.req] = "delivered"
      /\ worker.pc \in {"start", "synth"} => phase[worker.req] = "new"
  BY <1>1 DEF IInv, WorkerOK
<1>3. worker \in [req : Work \cup {NoRequest},
                 pc : {"recv", "start", "synth", "queue", "append", "final", "report"},
                 failed : BOOLEAN, status : Outcome \cup {"none"}]
  BY DEF IInv, ThreadTypeOK
<1>4. \/ worker.pc \in {"start", "synth"} /\ worker' = [worker EXCEPT !.pc = "synth"]
      \/ worker.pc \in {"start", "synth"} /\ worker' = [worker EXCEPT !.pc = "queue"]
      \/ worker' = [worker EXCEPT !.pc = "final"]
      \/ worker' = [worker EXCEPT !.pc = "final", !.failed = TRUE]
      \/ \E outcome \in Outcome : worker' = Finished(outcome)
  BY <1>1 DEF WorkerMoves, WorkerStart, WorkerSynth, WorkerFinal, WorkerGoes, WorkerAt, Outcome
<1>5. CASE \E outcome \in Outcome : worker' = Finished(outcome)
  <2>1. PICK outcome \in Outcome : worker' = Finished(outcome)
    BY <1>5
  <2>2. CASE worker.req \in Tracked
    <3>1. worker' = [worker EXCEPT !.pc = "report", !.status = outcome]
      BY <2>1, <2>2 DEF Finished
    <3> QED BY <1>1, <1>2, <1>3, <2>2, <3>1
  <2>3. CASE worker.req \notin Tracked
    BY <1>1, <1>2, <2>1, <2>3 DEF Finished, Idle
  <2> QED BY <2>2, <2>3
<1>6. CASE worker.pc \in {"start", "synth"} /\ worker' = [worker EXCEPT !.pc = "synth"]
  BY <1>1, <1>2, <1>3, <1>6
<1>7. CASE worker.pc \in {"start", "synth"} /\ worker' = [worker EXCEPT !.pc = "queue"]
  BY <1>1, <1>2, <1>3, <1>7
<1>8. CASE \/ worker' = [worker EXCEPT !.pc = "final"]
           \/ worker' = [worker EXCEPT !.pc = "final", !.failed = TRUE]
  BY <1>1, <1>2, <1>3, <1>8
<1> QED BY <1>4, <1>5, <1>6, <1>7, <1>8

LEMMA ThreadTypeStep == IInv /\ [Next]_vars => ThreadTypeOK'
<1> SUFFICES ASSUME IInv, [Next]_vars PROVE ThreadTypeOK'
  OBVIOUS
<1>1. AnyStep
  BY StepCases DEF IInv
<1>2. ThreadTypeOK
  BY DEF IInv
<1>3. CASE Sends
  <2>1. PICK w \in Work : Enqueue(w)
    BY <1>3 DEF Sends
  <2>2. /\ reporting' \subseteq Work
        /\ sent_at' = [sent_at EXCEPT ![w] = replacements]
        /\ UNCHANGED <<gen_counter, worker, channel, reporter, status, replacements, silenced>>
        /\ Activate(w) \/ UNCHANGED registry
    BY <2>1, EnqueueEffect
  <2>3. registry' \in [Domains -> Work \cup {NoRequest}]
    BY <1>2, <2>2 DEF Activate, ThreadTypeOK
  <2>4. sent_at' \in [Work -> Nat]
    BY <1>2, <2>2 DEF ThreadTypeOK
  <2> QED BY <1>2, <2>2, <2>3, <2>4 DEF ThreadTypeOK
<1>4. CASE Interrupts
  BY SMTT(60), <1>2, <1>4, Typed DEF Interrupts, Interrupt, ThreadTypeOK
<1>5. CASE Reports
  <2>1. PICK w \in Work : ReportRetired(w)
    BY <1>5 DEF Reports
  <2>2. status' \in [Work -> Seq(Outcome)]
    <3>1. RetirementStatus(fate[w]) \in Outcome
      BY DEF RetirementStatus, Outcome
    <3>2. status[w] \in Seq(Outcome)
      BY <1>2 DEF ThreadTypeOK
    <3>3. Append(status[w], RetirementStatus(fate[w])) \in Seq(Outcome)
      BY <3>1, <3>2
    <3> QED BY <1>2, <2>1, <3>3 DEF ReportRetired, ThreadTypeOK
  <2>3. registry' \in [Domains -> Work \cup {NoRequest}]
    BY <1>2, <2>1, DropLeaseTyped DEF ReportRetired
  <2> QED BY <1>2, <2>1, <2>2, <2>3 DEF ReportRetired, ThreadTypeOK
<1>6. CASE LoopStop
  <2>1. silenced' \in [Stream -> Nat]
    BY <1>6, Typed DEF LoopStop
  <2> QED BY <1>2, <1>6, <2>1 DEF LoopStop, ThreadTypeOK
<1>7. CASE LoopRetire
  <2>1. reporting' \subseteq Work
    BY <1>7 DEF LoopRetire, RetiredNow
  <2> QED BY <1>2, <1>7, <2>1 DEF LoopRetire, ThreadTypeOK
<1>8. CASE WorkerRecv
  <2>1. worker' = worker \/ \E w \in Work : worker' = [Idle EXCEPT !.req = w, !.pc = "start"]
    BY <1>8, RecvEffect
  <2>2. worker' \in [req : Work \cup {NoRequest},
                    pc : {"recv", "start", "synth", "queue", "append", "final", "report"},
                    failed : BOOLEAN, status : Outcome \cup {"none"}]
    BY <1>2, <2>1 DEF ThreadTypeOK, Idle
  <2> QED BY <1>2, <1>8, <2>2 DEF WorkerRecv, WorkerKeeps, ThreadTypeOK
<1>9. CASE WorkerMoves
  BY <1>2, <1>9, WorkerMovesEffect DEF ThreadTypeOK
<1>10. CASE WorkerGate \/ WorkerAppend
  <2>1. worker' \in [req : Work \cup {NoRequest},
                    pc : {"recv", "start", "synth", "queue", "append", "final", "report"},
                    failed : BOOLEAN, status : Outcome \cup {"none"}]
    BY <1>2, <1>10 DEF ThreadTypeOK, WorkerGate, WorkerAppend
  <2> QED BY <1>2, <1>10, <2>1 DEF WorkerGate, WorkerAppend, WorkerKeeps, ThreadTypeOK
<1>11. CASE WorkerReport
  <2>1. worker.req \in Tracked /\ worker.status \in Outcome
    BY <1>11 DEF WorkerReport, WorkerAt, IInv, WorkerOK
  <2>2. [req |-> worker.req, status |-> worker.status] \in [req : Tracked, status : Outcome]
    BY <2>1
  <2>3. /\ channel \in Seq([req : Tracked, status : Outcome]) /\ Len(channel) < TrackedCapacity
        /\ channel' = Append(channel, [req |-> worker.req, status |-> worker.status])
        /\ Len(channel) \in Nat /\ TrackedCapacity \in Nat
    BY <1>2, <1>11, ServerAssumption DEF WorkerReport, ThreadTypeOK
  <2>4. channel' \in Seq([req : Tracked, status : Outcome]) /\ Len(channel') <= TrackedCapacity
    BY <2>2, <2>3
  <2>5. worker' \in [req : Work \cup {NoRequest},
                    pc : {"recv", "start", "synth", "queue", "append", "final", "report"},
                    failed : BOOLEAN, status : Outcome \cup {"none"}]
    BY <1>11 DEF WorkerReport, Idle
  <2> QED BY <1>2, <1>11, <2>4, <2>5 DEF WorkerReport, ThreadTypeOK
<1>12. CASE ReporterTake
  <2>1. /\ channel \in Seq([req : Tracked, status : Outcome]) /\ channel # <<>>
        /\ Len(channel) <= TrackedCapacity /\ TrackedCapacity \in Nat
        /\ reporter' = Head(channel) /\ channel' = Tail(channel)
    BY <1>2, <1>12, ServerAssumption DEF ReporterTake, ThreadTypeOK
  <2>2. /\ Head(channel) \in [req : Tracked, status : Outcome]
        /\ Tail(channel) \in Seq([req : Tracked, status : Outcome])
        /\ Len(Tail(channel)) <= TrackedCapacity
    <3>1. /\ Len(channel) \in Nat /\ Len(Tail(channel)) = Len(channel) - 1
          /\ Head(channel) \in [req : Tracked, status : Outcome]
          /\ Tail(channel) \in Seq([req : Tracked, status : Outcome])
      BY <2>1, FrontOfSequence
    <3>2. Len(Tail(channel)) <= TrackedCapacity
      BY <2>1, <3>1
    <3> QED BY <3>1, <3>2
  <2>3. reporter' \in [req : Tracked, status : Outcome \cup {"written"}]
    BY <2>1, <2>2
  <2> QED BY <1>2, <1>12, <2>1, <2>2, <2>3 DEF ReporterTake, ReporterKeeps, ThreadTypeOK
<1>13. CASE ReporterWrite
  <2>1. reporter \in [req : Tracked, status : Outcome \cup {"written"}]
    BY <1>2, <1>13 DEF ReporterWrite, ThreadTypeOK, Quiet
  <2>2. reporter.req \in Work /\ reporter.status \in Outcome
    BY <1>13, <2>1, ServerAssumption DEF ReporterWrite
  <2>3. Awaited(reporter) \in Outcome
    BY <2>2 DEF Awaited, Outcome
  <2>4. status' \in [Work -> Seq(Outcome)]
    <3>1. Append(status[reporter.req], Awaited(reporter)) \in Seq(Outcome)
      BY <1>2, <2>2, <2>3 DEF ThreadTypeOK
    <3> QED BY <1>2, <1>13, <3>1 DEF ReporterWrite, ThreadTypeOK
  <2>5. reporter' \in [req : Tracked, status : Outcome \cup {"written"}]
    BY <1>13, <2>1 DEF ReporterWrite
  <2> QED BY <1>2, <1>13, <2>4, <2>5 DEF ReporterWrite, ReporterKeeps, ThreadTypeOK
<1>14. CASE ReporterDropLease
  <2>1. registry' \in [Domains -> Work \cup {NoRequest}]
    BY <1>2, <1>14, DropLeaseTyped DEF ReporterDropLease
  <2> QED BY <1>2, <1>14, <2>1 DEF ReporterDropLease, ReporterKeeps, ThreadTypeOK
<1>15. CASE DeviceReplaced
  <2>1. silenced' \in [Stream -> Nat]
    BY <1>15, Typed DEF DeviceReplaced
  <2> QED BY <1>2, <1>15, <2>1 DEF DeviceReplaced, ThreadTypeOK
<1>16. CASE Closes \/ LoopClose \/ Plays \/ Drain \/ UNCHANGED vars
  BY <1>2, <1>16 DEF Closes, LoopClose, Plays, Play, Drain, vars, threadVars, ThreadTypeOK
<1> QED BY <1>1, <1>3, <1>4, <1>5, <1>6, <1>7, <1>8, <1>9, <1>10, <1>11, <1>12, <1>13,
           <1>14, <1>15, <1>16 DEF AnyStep

\* The counter every thread reads is never behind a stamp, and is beyond the
\* stamp of what was sent before the output was replaced.
LEMMA GenerationsStep == IInv /\ [Next]_vars => Generations'
<1> SUFFICES ASSUME IInv, [Next]_vars PROVE Generations'
  OBVIOUS
<1>1. AnyStep
  BY StepCases DEF IInv
<1>2. Generations
  BY DEF IInv
<1>3. /\ current_gen \in Nat /\ gen_counter \in Nat /\ replacements \in Nat
      /\ gen \in [Work -> Nat] /\ fate \in [Work -> Fates]
      /\ sent_at \in [Work -> Nat] /\ silenced \in [Stream -> Nat]
  BY Typed
<1>4. CASE Sends
  <2>1. PICK w \in Work : Enqueue(w)
    BY <1>4 DEF Sends
  <2>2. /\ fate[w] = "unsent"
        /\ gen'[w] = current_gen /\ sent_at'[w] = replacements
        /\ \A v \in Work : v # w => gen'[v] = gen[v] /\ sent_at'[v] = sent_at[v]
        /\ UNCHANGED <<current_gen, gen_counter, replacements, silenced>>
    BY <1>3, <2>1, EnqueueEffect
  <2>3. \A v \in Work : v # w /\ fate'[v] # "unsent" => fate[v] # "unsent"
    <3> SUFFICES ASSUME NEW v \in Work, v # w, fate'[v] # "unsent" PROVE fate[v] # "unsent"
      OBVIOUS
    <3> QED BY <2>1, EnqueueEffect
  <2> QED BY <1>2, <1>3, <2>2, <2>3 DEF Generations, Sent
<1>5. CASE Interrupts
  <2>1. /\ current_gen' = current_gen + 1 /\ gen_counter' = current_gen + 1
        /\ UNCHANGED <<gen, fate, sent_at, replacements, silenced>>
    BY <1>5 DEF Interrupts, Interrupt, WQ!AdvanceGeneration
  <2> QED BY <1>2, <1>3, <2>1 DEF Generations, Sent
<1>6. CASE LoopStop
  <2>1. PICK st \in Stream : silenced' = [silenced EXCEPT ![st] = current_gen]
    BY <1>6, HeadStep DEF LoopStop, Doing, IInv
  <2>2. silenced'[st] = current_gen /\ \A o \in Stream : o # st => silenced'[o] = silenced[o]
    BY <1>3, <2>1
  <2>3. UNCHANGED <<current_gen, gen_counter, gen, fate, sent_at, replacements>>
    BY <1>6 DEF LoopStop, queueVars
  <2> QED BY <1>2, <1>3, <2>2, <2>3 DEF Generations, Sent
<1>7. CASE LoopRetire
  <2>1. /\ UNCHANGED <<current_gen, gen_counter, gen, sent_at, replacements, silenced>>
        /\ \A w \in Work : fate'[w] # "unsent" => fate[w] # "unsent"
    BY <1>7, RetireEffect
  <2> QED BY <1>2, <1>3, <2>1 DEF Generations, Sent
<1>8. CASE WorkerRecv
  <2>1. /\ UNCHANGED <<current_gen, gen_counter, gen, sent_at, replacements, silenced>>
        /\ \A w \in Work : fate'[w] # "unsent" => fate[w] # "unsent"
    BY <1>8, RecvEffect
  <2> QED BY <1>2, <1>3, <2>1 DEF Generations, Sent
<1>9. CASE DeviceReplaced
  <2>1. /\ gen_counter' = gen_counter + 1 /\ silenced' = [st \in Stream |-> current_gen]
        /\ UNCHANGED <<current_gen, gen, fate, sent_at>>
    BY <1>9 DEF DeviceReplaced, queueVars
  <2>2. \A w \in Work : gen[w] < gen_counter'
    BY <1>2, <1>3, <2>1 DEF Generations
  <2> QED BY <1>2, <1>3, <2>1, <2>2 DEF Generations
<1>10. CASE LoopClose
  BY <1>2, <1>10 DEF LoopClose, WQ!DropSender, Generations, Sent
<1>11. UNCHANGED <<current_gen, gen_counter, gen, fate, sent_at, replacements, silenced>>
       => Generations'
  BY <1>2 DEF Generations, Sent
<1>12. CASE Closes \/ Reports \/ WorkerMoves \/ WorkerGate \/ WorkerAppend \/ WorkerReport
            \/ ReporterTake \/ ReporterWrite \/ ReporterDropLease
            \/ Plays \/ Drain \/ UNCHANGED vars
  BY <1>11, <1>12 DEF Closes, Reports, ReportRetired, WorkerMoves, WorkerStart,
     WorkerSynth, WorkerFinal, WorkerGoes, WorkerGate, WorkerAppend, WorkerKeeps, WorkerReport,
     ReporterTake, ReporterWrite, ReporterDropLease, ReporterKeeps, Plays, Play, Drain,
     vars, threadVars, queueVars
<1> QED BY <1>1, <1>4, <1>5, <1>6, <1>7, <1>8, <1>9, <1>10, <1>12 DEF AnyStep

\* A stop, a replacement and the output thread only ever end what is in a sink.
LEMMA PhaseEnds ==
    ASSUME IInv, LoopStop \/ Plays \/ DeviceReplaced
    PROVE  \A v \in Work : phase'[v] = phase[v] \/ (phase[v] = "sink" /\ phase'[v] = "done")
<1>1. CASE LoopStop
  <2>1. PICK st \in Stream : AC!Stop(st)
    BY <1>1, HeadStep DEF LoopStop, Doing, IInv
  <2> QED BY <2>1 DEF AC!Stop, AC!DropAll, AC!InSink
<1>2. CASE Plays
  <2>1. PICK st \in Stream : AC!SourceEnds(st)
    BY <1>2 DEF Plays, Play
  <2>2. sink[st] # <<>> /\ phase' = [phase EXCEPT ![Head(sink[st])] = "done"]
    BY <2>1 DEF AC!SourceEnds
  <2>3. phase[Head(sink[st])] = "sink"
    BY <2>2, ACP!HeadPlays, AudioAssumed DEF IInv
  <2> QED BY <2>2, <2>3, Typed
<1>3. CASE DeviceReplaced
  BY <1>3 DEF DeviceReplaced, AC!InterruptOutput, AC!InSink
<1> QED BY <1>1, <1>2, <1>3

\* The worker takes a gate only for a request that is not stale.
LEMMA GateEffect ==
    ASSUME IInv, WorkerGate
    PROVE  /\ worker.pc = "queue" /\ worker.req \in Work /\ fate[worker.req] = "delivered"
           /\ \A v \in Work : v # worker.req => phase'[v] = phase[v]
           /\ worker'.req = worker.req
           /\ \/ /\ ~IsStale(worker.req)
                 /\ phase'[worker.req] = "gate" /\ worker'.pc = "append"
              \/ /\ IsStale(worker.req)
                 /\ phase'[worker.req] = "refused" /\ worker'.pc = "final"
           /\ UNCHANGED <<queueVars, current_gen, gen_counter, registry, loop, reporting,
                          channel, reporter, status, replacements, sent_at, silenced>>
           /\ UNCHANGED <<ticket, sink, schedule_generations, stop_token, held_token,
                          cancelled, draining>>
<1>1. worker.pc = "queue" /\ worker.req \in Work /\ fate[worker.req] = "delivered"
  BY DEF WorkerGate, WorkerAt, IInv, WorkerOK
<1>2. /\ worker' = [worker EXCEPT !.pc = IF IsStale(worker.req) THEN "final" ELSE "append"]
      /\ phase' = [phase EXCEPT ![worker.req] = IF ~IsStale(worker.req) THEN "gate" ELSE "refused"]
      /\ UNCHANGED <<ticket, sink, schedule_generations, stop_token, held_token,
                     cancelled, draining>>
  BY DEF WorkerGate, AC!QueueGate
<1>3. /\ worker'.req = worker.req
      /\ worker'.pc = IF IsStale(worker.req) THEN "final" ELSE "append"
  BY <1>2 DEF IInv, ThreadTypeOK
<1>4. /\ \A v \in Work : v # worker.req => phase'[v] = phase[v]
      /\ phase'[worker.req] = IF ~IsStale(worker.req) THEN "gate" ELSE "refused"
  BY <1>1, <1>2, Typed
<1> QED BY <1>1, <1>2, <1>3, <1>4 DEF WorkerGate, WorkerKeeps

\* The append releases the gate, and may end what a full stream held.
LEMMA AppendEffect ==
    ASSUME IInv, WorkerAppend
    PROVE  /\ worker.pc = "append" /\ worker.req \in Work /\ fate[worker.req] = "delivered"
           /\ phase[worker.req] = "gate" /\ phase'[worker.req] \in {"sink", "failed"}
           /\ worker'.req = worker.req /\ worker'.pc = "final"
           /\ \A v \in Work : v # worker.req =>
                 phase'[v] = phase[v] \/ (phase[v] = "sink" /\ phase'[v] = "done")
           /\ UNCHANGED <<queueVars, current_gen, gen_counter, registry, loop, reporting,
                          channel, reporter, status, replacements, sent_at, silenced>>
           /\ UNCHANGED <<schedule_generations, stop_token, cancelled, draining>>
<1>1. worker.pc = "append" /\ worker.req \in Work /\ fate[worker.req] = "delivered"
      /\ phase[worker.req] = "gate"
  BY DEF WorkerAppend, WorkerAt, IInv, WorkerOK, InWorker
<1>2. worker'.req = worker.req /\ worker'.pc = "final"
  BY DEF WorkerAppend, IInv, ThreadTypeOK
<1>3. CASE AC!QueueAppend(worker.req)
  <2>1. /\ phase'[worker.req] = "sink"
        /\ \A v \in Work : v # worker.req =>
              phase'[v] = phase[v] \/ (phase[v] = "sink" /\ phase'[v] = "done")
    BY <1>1, <1>3 DEF AC!QueueAppend, AC!Append1, AC!InSink
  <2>2. UNCHANGED <<schedule_generations, stop_token, cancelled, draining>>
    BY <1>3 DEF AC!QueueAppend, AC!Append1
  <2> QED BY <1>1, <1>2, <2>1, <2>2 DEF WorkerAppend, WorkerKeeps
<1>4. CASE AC!AppendError(worker.req)
  <2>1. /\ phase'[worker.req] = "failed"
        /\ \A v \in Work : v # worker.req =>
              phase'[v] = phase[v] \/ (phase[v] = "sink" /\ phase'[v] = "done")
    BY <1>1, <1>4 DEF AC!AppendError, AC!InSink
  <2>2. UNCHANGED <<schedule_generations, stop_token, cancelled, draining>>
    BY <1>4 DEF AC!AppendError
  <2> QED BY <1>1, <1>2, <2>1, <2>2 DEF WorkerAppend, WorkerKeeps
<1> QED BY <1>3, <1>4 DEF WorkerAppend

LEMMA WorkerStepOK == IInv /\ [Next]_vars => WorkerOK'
<1> SUFFICES ASSUME IInv, [Next]_vars PROVE WorkerOK'
  OBVIOUS
<1>1. AnyStep
  BY StepCases DEF IInv
<1>2. WorkerOK
  BY DEF IInv
<1>3. UNCHANGED <<worker, phase>>
      /\ (\A v \in Work : fate'[v] = "delivered" <=> fate[v] = "delivered") => WorkerOK'
  BY <1>2 DEF WorkerOK, InWorker
<1>4. CASE Sends
  <2>1. PICK w \in Work : Enqueue(w)
    BY <1>4 DEF Sends
  <2>2. \A v \in Work : fate'[v] = "delivered" <=> fate[v] = "delivered"
    <3> SUFFICES ASSUME NEW v \in Work PROVE fate'[v] = "delivered" <=> fate[v] = "delivered"
      OBVIOUS
    <3>1. CASE v = w
      BY <2>1, <3>1, EnqueueEffect
    <3>2. CASE v # w
      BY <2>1, <3>2, EnqueueEffect
    <3> QED BY <3>1, <3>2
  <2>3. UNCHANGED <<worker, phase>>
    BY <2>1, EnqueueEffect
  <2> QED BY <1>3, <2>2, <2>3
<1>5. CASE LoopRetire
  <2>1. \A v \in Work : fate'[v] = "delivered" <=> fate[v] = "delivered"
    BY <1>5, RetireEffect
  <2>2. UNCHANGED <<worker, phase>>
    BY <1>5 DEF LoopRetire, audioVars
  <2> QED BY <1>3, <2>1, <2>2
<1>6. CASE Interrupts \/ Closes \/ Reports \/ LoopClose \/ ReporterTake \/ ReporterWrite
           \/ ReporterDropLease \/ Drain \/ UNCHANGED vars
  <2>1. UNCHANGED <<worker, phase, fate>>
    BY <1>6 DEF Interrupts, Interrupt, WQ!AdvanceGeneration, Closes, Reports, ReportRetired,
       LoopClose, WQ!DropSender, ReporterTake, ReporterWrite, ReporterDropLease,
       ReporterKeeps, Drain, AC!DrainScheduled, AC!DrainSinks, vars, threadVars, queueVars,
       audioVars
  <2> QED BY <1>3, <2>1
<1>7. CASE LoopStop \/ Plays \/ DeviceReplaced
  <2>1. UNCHANGED <<worker, fate>>
    BY <1>7 DEF LoopStop, Plays, Play, DeviceReplaced, threadVars, queueVars
  <2>2. \A v \in Work : phase'[v] = phase[v] \/ (phase[v] = "sink" /\ phase'[v] = "done")
    BY <1>7, PhaseEnds
  <2> QED BY <1>2, <2>1, <2>2 DEF WorkerOK, InWorker
<1>8. CASE WorkerRecv
  <2>1. worker.pc = "recv" /\ UNCHANGED phase
    BY <1>8, RecvEffect DEF audioVars
  <2>2. CASE UNCHANGED <<fate, worker>>
    BY <1>3, <2>1, <2>2
  <2>3. CASE \E w \in Work :
               /\ fate[w] = "queued" /\ fate'[w] = "delivered"
               /\ \A v \in Work : v # w => fate'[v] = fate[v]
               /\ worker' = [Idle EXCEPT !.req = w, !.pc = "start"]
    <3>1. PICK w \in Work :
               /\ fate[w] = "queued" /\ fate'[w] = "delivered"
               /\ \A v \in Work : v # w => fate'[v] = fate[v]
               /\ worker' = [Idle EXCEPT !.req = w, !.pc = "start"]
      BY <2>3
    <3>2. worker'.req = w /\ worker'.pc = "start" /\ phase[w] = "new"
      BY <1>2, <3>1 DEF Idle, WorkerOK
    <3> QED BY <1>2, <2>1, <3>1, <3>2 DEF WorkerOK, InWorker
  <2> QED BY <1>8, <2>2, <2>3, RecvEffect
<1>9. CASE WorkerMoves
  <2>1. UNCHANGED <<phase, fate>> /\ worker.pc \in {"start", "synth", "final"}
        /\ worker.req \in Work /\ fate[worker.req] = "delivered"
    BY <1>9, WorkerMovesEffect DEF queueVars, audioVars
  <2>2. \A w \in Work : phase[w] # "gate"
    BY <1>2, <2>1 DEF WorkerOK
  <2>3. \/ /\ worker'.req = worker.req
           /\ worker'.pc \in {"synth", "queue"}
           /\ phase[worker.req] = "new"
        \/ worker'.req = worker.req /\ worker'.pc = "final"
        \/ /\ worker'.req = worker.req /\ worker'.pc = "report"
           /\ worker.req \in Tracked /\ worker'.status \in Outcome
        \/ worker' = Idle
    BY <1>9, WorkerMovesEffect
  <2>4. Idle.pc = "recv"
    BY DEF Idle
  <2> QED BY <1>2, <2>1, <2>2, <2>3, <2>4 DEF WorkerOK, InWorker
<1>10. CASE WorkerGate
  BY <1>2, <1>10, GateEffect DEF WorkerOK, InWorker, queueVars
<1>11. CASE WorkerAppend
  BY <1>2, <1>11, AppendEffect DEF WorkerOK, InWorker, queueVars
<1>12. CASE WorkerReport
  <2>1. worker.pc = "report" /\ worker' = Idle /\ UNCHANGED <<phase, fate>>
    BY <1>12 DEF WorkerReport, WorkerAt, queueVars, audioVars
  <2>2. Idle.pc = "recv"
    BY DEF Idle
  <2> QED BY <1>2, <2>1, <2>2 DEF WorkerOK, InWorker
<1> QED BY <1>1, <1>4, <1>5, <1>6, <1>7, <1>8, <1>9, <1>10, <1>11, <1>12 DEF AnyStep

LEMMA GateStepOK == IInv /\ [Next]_vars => GateOK'
<1> SUFFICES ASSUME IInv, [Next]_vars PROVE GateOK'
  OBVIOUS
<1>1. AnyStep
  BY StepCases DEF IInv
<1>2. GateOK /\ WorkerOK /\ Generations
  BY DEF IInv
<1>3. UNCHANGED <<phase, sent_at, replacements, silenced, gen>> => GateOK'
  BY <1>2 DEF GateOK
<1>4. CASE Sends
  <2>1. PICK w \in Work : Enqueue(w)
    BY <1>4 DEF Sends
  <2>2. /\ UNCHANGED <<phase, replacements, silenced>> /\ fate[w] = "unsent"
        /\ \A v \in Work : v # w => gen'[v] = gen[v] /\ sent_at'[v] = sent_at[v]
    BY <2>1, EnqueueEffect, Typed
  <2>3. phase[w] = "new"
    BY <1>2, <2>2 DEF WorkerOK
  <2> QED BY <1>2, <2>2, <2>3 DEF GateOK
<1>5. CASE LoopStop
  <2>1. PICK st \in Stream : AC!Stop(st) /\ silenced' = [silenced EXCEPT ![st] = current_gen]
    BY <1>5, HeadStep DEF LoopStop, Doing, IInv
  <2>2. /\ \A v \in Work : StreamOf[v] = st => phase[v] # "gate"
        /\ \A o \in Stream : o # st => silenced'[o] = silenced[o]
        /\ UNCHANGED <<gen, sent_at, replacements>>
    BY <1>5, <2>1, Typed DEF AC!Stop, AC!GateFree, LoopStop, queueVars
  <2>3. \A v \in Work : phase'[v] = phase[v] \/ (phase[v] = "sink" /\ phase'[v] = "done")
    BY <1>5, PhaseEnds
  <2> QED BY <1>2, <2>2, <2>3, Typed DEF GateOK
<1>6. CASE Plays
  <2>1. UNCHANGED <<gen, sent_at, replacements, silenced>>
    BY <1>6 DEF Plays, Play, threadVars, queueVars
  <2> QED BY <1>2, <1>6, <2>1, PhaseEnds DEF GateOK
<1>7. CASE DeviceReplaced
  <2>1. ACP!InterruptOutput
    BY <1>7 DEF DeviceReplaced, AC!InterruptOutput, ACP!InterruptOutput, AC!GateFree,
       ACP!GateFree, AC!SmoothStop, ACP!SmoothStop, AC!InSink, ACP!InSink
  <2>2. \A v \in Work : phase'[v] \notin {"gate", "dueGate", "sink"}
    BY <2>1, ACP!InterruptOutputKeeps, AudioAssumed DEF IInv
  <2> QED BY <2>2 DEF GateOK
<1>8. CASE WorkerGate
  <2>1. UNCHANGED <<gen, sent_at, replacements, silenced>>
    BY <1>8, GateEffect DEF queueVars
  <2> DEFINE w == worker.req
  <2>2. /\ w \in Work /\ fate[w] = "delivered"
        /\ \A v \in Work : v # w => phase'[v] = phase[v]
        /\ phase'[w] \in {"gate", "refused"}
        /\ phase'[w] = "gate" => ~IsStale(w)
    BY <1>8, GateEffect
  <2> HIDE DEF w
  <2>3. ~IsStale(w) => sent_at[w] = replacements /\ silenced[StreamOf[w]] <= gen[w]
    <3> SUFFICES ASSUME ~IsStale(w)
                 PROVE  sent_at[w] = replacements /\ silenced[StreamOf[w]] <= gen[w]
      OBVIOUS
    <3>1. gen_counter = gen[w]
      BY DEF IsStale
    <3>2. fate[w] # "unsent" /\ StreamOf[w] \in Stream /\ current_gen \in Nat
          /\ gen_counter \in Nat /\ silenced[StreamOf[w]] \in Nat
      BY <2>2, Typed
    <3>3. silenced[StreamOf[w]] <= current_gen /\ current_gen <= gen_counter
      BY <1>2, <3>2 DEF Generations
    <3>4. sent_at[w] = replacements
      BY <1>2, <2>2, <3>1, <3>2 DEF Generations, Sent
    <3> QED BY <3>1, <3>2, <3>3, <3>4
  <2> QED BY <1>2, <2>1, <2>2, <2>3 DEF GateOK
<1>9. CASE WorkerAppend
  <2>1. UNCHANGED <<gen, sent_at, replacements, silenced>>
    BY <1>9, AppendEffect DEF queueVars
  <2> QED BY <1>2, <1>9, <2>1, AppendEffect DEF GateOK
<1>10. CASE Interrupts \/ Closes \/ Reports \/ LoopRetire \/ LoopClose \/ WorkerRecv
            \/ WorkerMoves \/ WorkerReport \/ ReporterTake \/ ReporterWrite
            \/ ReporterDropLease \/ Drain \/ UNCHANGED vars
  <2>1. WorkerRecv \/ LoopRetire => UNCHANGED <<phase, sent_at, replacements, silenced, gen>>
    BY RecvEffect, RetireEffect DEF audioVars
  <2> QED BY <1>3, <1>10, <2>1 DEF Interrupts, Interrupt, WQ!AdvanceGeneration, Closes, Reports, ReportRetired,
       LoopClose, WQ!DropSender, WorkerMoves, WorkerStart, WorkerSynth, WorkerFinal, WorkerGoes,
       WorkerReport, ReporterTake, ReporterWrite, ReporterDropLease,
       ReporterKeeps, Drain, AC!DrainScheduled, AC!DrainSinks, vars, threadVars, queueVars,
       audioVars
<1> QED BY <1>1, <1>4, <1>5, <1>6, <1>7, <1>8, <1>9, <1>10 DEF AnyStep

\* Retiring requests, with the one that is sent if any, hands them to the loop
\* to report.
LEMMA RetiringAccounts ==
    ASSUME IInv, reporting = {},
           UNCHANGED <<status, worker, channel, reporter>>,
           fate' \in [Work -> Fates],
           reporting' = {v \in Work : fate'[v] # fate[v] /\ fate'[v] \in Retirements},
           \A v \in Work : \/ fate'[v] = fate[v]
                         \/ /\ fate[v] \in {"unsent", "queued"}
                            /\ fate'[v] \in Retirements \cup {"queued"}
    PROVE  Accounts'
<1>1. WQ!RetirementReason' = Retirements
  BY DEF WQ!RetirementReason, Retirements
<1>2. Accounts /\ WQ!RetirementReason = Retirements
  BY Typed DEF IInv
<1>3. ASSUME NEW v \in Work
      PROVE  /\ fate'[v] \in {"unsent", "queued"} => v \notin reporting' /\ status[v] = <<>>
             /\ fate'[v] \in Retirements =>
                   IF v \in reporting' \/ v \notin Tracked THEN status[v] = <<>>
                   ELSE Len(status[v]) = 1
             /\ fate'[v] = "delivered" =>
                   /\ v \notin reporting'
                   /\ IF \/ InWorker(v) \/ InChannel(v) \/ v \notin Tracked
                         \/ AtReporter(v) /\ reporter.status # "written"
                      THEN status[v] = <<>> ELSE Len(status[v]) = 1
             /\ InChannel(v) \/ AtReporter(v) => fate'[v] = "delivered" /\ ~InWorker(v)
             /\ ~(InChannel(v) /\ AtReporter(v))
  <2>1. CASE fate'[v] = fate[v]
    <3>1. v \notin reporting' /\ v \notin reporting
      BY <2>1
    <3> QED BY <1>2, <2>1, <3>1 DEF Accounts
  <2>2. CASE /\ fate'[v] # fate[v]
             /\ fate[v] \in {"unsent", "queued"}
             /\ fate'[v] \in Retirements \cup {"queued"}
    <3>1. status[v] = <<>> /\ ~InChannel(v) /\ ~AtReporter(v)
      BY <1>2, <2>2 DEF Accounts
    <3>2. v \in reporting' <=> fate'[v] \in Retirements
      BY <2>2
    <3> QED BY <2>2, <3>1, <3>2 DEF Retirements
  <2> QED BY <2>1, <2>2
<1>4. \A i, j \in 1 .. Len(channel) : channel[i].req = channel[j].req => i = j
  BY <1>2 DEF Accounts
<1> QED BY <1>1, <1>3, <1>4 DEF Accounts, InWorker, InChannel, AtReporter

LEMMA AccountsStep == IInv /\ [Next]_vars => Accounts'
<1> SUFFICES ASSUME IInv, [Next]_vars PROVE Accounts'
  OBVIOUS
<1>1. AnyStep
  BY StepCases DEF IInv
<1>2. /\ Accounts /\ WorkerOK /\ ThreadTypeOK
      /\ WQ!RetirementReason = Retirements /\ fate \in [Work -> Fates]
      /\ NoRequest \notin Work /\ Tracked \subseteq Work
  BY Typed, ServerAssumption DEF IInv
<1>3. WQ!RetirementReason' = Retirements
  BY DEF WQ!RetirementReason, Retirements
<1>4. /\ UNCHANGED <<fate, reporting, status, channel, reporter>>
      /\ (\A v \in Work : v \in Tracked => (InWorker(v)' <=> InWorker(v)))
      /\ (\A v \in Work : InWorker(v)' => InWorker(v))
      => Accounts'
  BY <1>2, <1>3 DEF Accounts, InChannel, AtReporter
<1>5. CASE Sends
  <2>1. PICK w \in Work : Enqueue(w) /\ reporting = {}
    BY <1>5 DEF Sends
  <2>2. \A v \in Work : \/ fate'[v] = fate[v]
                      \/ /\ fate[v] \in {"unsent", "queued"}
                         /\ fate'[v] \in Retirements \cup {"queued"}
    <3> SUFFICES ASSUME NEW v \in Work
                 PROVE  \/ fate'[v] = fate[v]
                        \/ /\ fate[v] \in {"unsent", "queued"}
                           /\ fate'[v] \in Retirements \cup {"queued"}
      OBVIOUS
    <3>1. CASE v = w
      BY <2>1, <3>1, EnqueueEffect DEF Retirements
    <3>2. CASE v # w
      BY <2>1, <3>2, EnqueueEffect DEF Retirements
    <3> QED BY <3>1, <3>2
  <2>3. /\ UNCHANGED <<status, worker, channel, reporter>> /\ fate' \in [Work -> Fates]
        /\ reporting' = {v \in Work : fate'[v] # fate[v] /\ fate'[v] \in Retirements}
    BY <2>1, EnqueueEffect
  <2> QED BY <2>1, <2>2, <2>3, RetiringAccounts
<1>6. CASE LoopRetire
  <2>1. \A v \in Work : \/ fate'[v] = fate[v]
                      \/ /\ fate[v] \in {"unsent", "queued"}
                         /\ fate'[v] \in Retirements \cup {"queued"}
    BY <1>6, RetireEffect DEF Retirements
  <2>2. /\ UNCHANGED <<status, worker, channel, reporter>> /\ fate' \in [Work -> Fates]
        /\ reporting = {}
        /\ reporting' = {v \in Work : fate'[v] # fate[v] /\ fate'[v] \in Retirements}
    BY <1>6, RetireEffect
  <2> QED BY <2>1, <2>2, RetiringAccounts
<1>7. CASE Interrupts \/ Closes \/ LoopStop \/ LoopClose \/ Plays \/ DeviceReplaced \/ Drain
           \/ UNCHANGED vars
  <2>1. UNCHANGED <<fate, reporting, status, channel, reporter, worker>>
    BY <1>7 DEF Interrupts, Interrupt, WQ!AdvanceGeneration, Closes, LoopStop, LoopClose,
       WQ!DropSender, Plays, Play, DeviceReplaced, Drain, vars, threadVars, queueVars
  <2> QED BY <1>4, <2>1 DEF InWorker
<1>8. CASE WorkerGate \/ WorkerAppend
  <2>1. UNCHANGED <<fate, reporting, status, channel, reporter>>
        /\ worker'.req = worker.req /\ worker'.pc # "recv" /\ worker.pc # "recv"
    BY <1>8, GateEffect, AppendEffect DEF queueVars
  <2> QED BY <1>4, <2>1 DEF InWorker
<1>9. CASE WorkerMoves
  <2>1. UNCHANGED <<fate, reporting, status, channel, reporter>>
    BY <1>9, WorkerMovesEffect DEF queueVars
  <2>2. worker.pc # "recv"
        /\ \/ worker'.req = worker.req /\ worker'.pc # "recv"
           \/ worker'.pc = "recv" /\ worker.req \notin Tracked
    BY <1>9, WorkerMovesEffect DEF Idle
  <2> QED BY <1>4, <2>1, <2>2 DEF InWorker
<1>10. CASE Reports
  <2>1. PICK w \in Work : ReportRetired(w)
    BY <1>10 DEF Reports
  <2>2. /\ w \in reporting /\ reporting' = reporting \ {w}
        /\ UNCHANGED <<fate, worker, channel, reporter>>
        /\ \A v \in Work : v # w => status'[v] = status[v]
        /\ status'[w] = IF w \in Tracked THEN Append(status[w], RetirementStatus(fate[w]))
                        ELSE status[w]
    BY <1>2, <2>1 DEF ReportRetired, queueVars, ThreadTypeOK
  <2>3. fate[w] \in Retirements /\ status[w] = <<>>
    BY <1>2, <2>2 DEF Accounts, Fates
  <2>4. IF w \in Tracked THEN Len(status'[w]) = 1 ELSE status'[w] = <<>>
    <3>1. Len(Append(<<>>, RetirementStatus(fate[w]))) = 1
      OBVIOUS
    <3> QED BY <2>2, <2>3, <3>1
  <2>5. ~InChannel(w) /\ ~AtReporter(w) /\ fate[w] \notin {"unsent", "queued", "delivered"}
    BY <1>2, <2>3 DEF Accounts, Retirements
  <2> QED BY <1>2, <1>3, <2>2, <2>3, <2>4, <2>5 DEF Accounts, InWorker, InChannel, AtReporter
<1>11. CASE WorkerRecv
  <2>1. /\ worker.pc = "recv"
        /\ UNCHANGED <<reporting, status, channel, reporter>>
    BY <1>11, RecvEffect
  <2>2. CASE UNCHANGED <<fate, worker>>
    BY <1>4, <2>1, <2>2 DEF InWorker
  <2>3. CASE \E w \in Work :
               /\ fate[w] = "queued" /\ fate'[w] = "delivered"
               /\ \A v \in Work : v # w => fate'[v] = fate[v]
               /\ worker' = [Idle EXCEPT !.req = w, !.pc = "start"]
    <3>1. PICK w \in Work :
               /\ fate[w] = "queued" /\ fate'[w] = "delivered"
               /\ \A v \in Work : v # w => fate'[v] = fate[v]
               /\ worker' = [Idle EXCEPT !.req = w, !.pc = "start"]
      BY <2>3
    <3>2. worker'.req = w /\ worker'.pc = "start"
      BY <3>1 DEF Idle
    <3>3. /\ \A v \in Work : InWorker(v)' <=> v = w
          /\ \A v \in Work : ~InWorker(v)
      BY <2>1, <3>2 DEF InWorker
    <3>4. w \notin reporting /\ status[w] = <<>> /\ ~InChannel(w) /\ ~AtReporter(w)
          /\ fate'[w] \notin Retirements
      BY <1>2, <3>1 DEF Accounts, Retirements
    <3>5. /\ \A v \in Work : InChannel(v)' <=> InChannel(v)
          /\ \A v \in Work : AtReporter(v)' <=> AtReporter(v)
      BY <2>1 DEF InChannel, AtReporter
    <3> QED BY <1>2, <1>3, <2>1, <3>1, <3>3, <3>4, <3>5 DEF Accounts
  <2> QED BY <1>11, <2>2, <2>3, RecvEffect
<1>12. CASE WorkerReport
  <2> DEFINE w == worker.req
             record == [req |-> worker.req, status |-> worker.status]
  <2>1. /\ w \in Work /\ w \in Tracked /\ fate[w] = "delivered" /\ InWorker(w)
        /\ channel' = Append(channel, record) /\ worker' = Idle
        /\ UNCHANGED <<fate, reporting, status, reporter>>
    BY <1>2, <1>12 DEF WorkerReport, WorkerAt, WorkerOK, InWorker, queueVars
  <2>2. status[w] = <<>> /\ ~InChannel(w) /\ ~AtReporter(w) /\ w \notin reporting
    BY <1>2, <2>1 DEF Accounts
  <2>3. /\ Len(channel) \in Nat /\ Len(channel') = Len(channel) + 1
        /\ channel'[Len(channel) + 1].req = w
        /\ \A i \in 1 .. Len(channel) : channel'[i] = channel[i]
        /\ \A i \in 1 .. Len(channel') : i \in 1 .. Len(channel) \/ i = Len(channel) + 1
        /\ Len(channel) + 1 \in 1 .. Len(channel')
        /\ 1 .. Len(channel) \subseteq 1 .. Len(channel')
    <3>1. channel \in Seq([req : Tracked, status : Outcome])
      BY <1>2 DEF ThreadTypeOK
    <3>2. /\ Len(channel) \in Nat /\ Len(channel') = Len(channel) + 1
          /\ channel'[Len(channel) + 1] = record
          /\ \A i \in 1 .. Len(channel) : channel'[i] = channel[i]
      <4> HIDE DEF record
      <4> QED BY <2>1, <3>1
    <3> QED BY <3>2
  <2> HIDE DEF w, record
  <2>4. \A v \in Work : InChannel(v)' <=> InChannel(v) \/ v = w
    BY <2>3 DEF InChannel
  <2>5. /\ \A v \in Work : InWorker(v)' = FALSE
        /\ \A v \in Work : InWorker(v) => v = w
        /\ \A v \in Work : AtReporter(v)' <=> AtReporter(v)
    BY <2>1 DEF InWorker, AtReporter, Idle, w
  <2>6. \A i, j \in 1 .. Len(channel') : channel'[i].req = channel'[j].req => i = j
    <3>1. \A i \in 1 .. Len(channel) : channel[i].req # w
      BY <2>2 DEF InChannel
    <3>2. \A i, j \in 1 .. Len(channel) : channel[i].req = channel[j].req => i = j
      BY <1>2 DEF Accounts
    <3> QED BY <2>3, <3>1, <3>2
  <2>7. \A v \in Work :
          /\ fate'[v] \in {"unsent", "queued"} => v \notin reporting' /\ status'[v] = <<>>
          /\ fate'[v] \in Retirements =>
                IF v \in reporting' \/ v \notin Tracked THEN status'[v] = <<>>
                ELSE Len(status'[v]) = 1
    BY <1>2, <2>1 DEF Accounts
  <2>8. \A v \in Work :
          /\ fate'[v] = "delivered" =>
                /\ v \notin reporting'
                /\ IF \/ InWorker(v)' \/ InChannel(v)' \/ v \notin Tracked
                      \/ AtReporter(v)' /\ reporter'.status # "written"
                   THEN status'[v] = <<>> ELSE Len(status'[v]) = 1
          /\ InChannel(v)' \/ AtReporter(v)' => fate'[v] = "delivered" /\ ~InWorker(v)'
          /\ ~(InChannel(v)' /\ AtReporter(v)')
    <3> SUFFICES ASSUME NEW v \in Work
                 PROVE  /\ fate'[v] = "delivered" =>
                              /\ v \notin reporting'
                              /\ IF \/ InWorker(v)' \/ InChannel(v)' \/ v \notin Tracked
                                    \/ AtReporter(v)' /\ reporter'.status # "written"
                                 THEN status'[v] = <<>> ELSE Len(status'[v]) = 1
                        /\ InChannel(v)' \/ AtReporter(v)' => fate'[v] = "delivered" /\ ~InWorker(v)'
                        /\ ~(InChannel(v)' /\ AtReporter(v)')
      OBVIOUS
    <3>1. CASE v = w
      BY <2>1, <2>2, <2>4, <2>5, <3>1
    <3>2. CASE v # w
      BY <1>2, <2>1, <2>4, <2>5, <3>2 DEF Accounts
    <3> QED BY <3>1, <3>2
  <2> QED BY <1>3, <2>6, <2>7, <2>8 DEF Accounts
<1>13. CASE ReporterTake
  <2> DEFINE w == Head(channel).req
  <2>1. /\ channel \in Seq([req : Tracked, status : Outcome]) /\ channel # <<>>
        /\ reporter = Quiet /\ reporter' = Head(channel) /\ channel' = Tail(channel)
        /\ UNCHANGED <<fate, reporting, status, worker>>
    BY <1>2, <1>13 DEF ReporterTake, ReporterKeeps, queueVars, ThreadTypeOK
  <2>2. /\ Head(channel) \in [req : Tracked, status : Outcome] /\ Head(channel) = channel[1]
        /\ 1 \in 1 .. Len(channel)
        /\ Len(channel) \in Nat /\ Len(channel') = Len(channel) - 1
        /\ \A i \in 1 .. Len(channel) - 1 :
              i + 1 \in 1 .. Len(channel) /\ channel'[i] = channel[i + 1]
    BY <2>1, FrontOfSequence
  <2>3. w \in Work /\ reporter'.req = w /\ reporter'.status # "written"
    BY <1>2, <2>1, <2>2 DEF Outcome
  <2>4. \A i, j \in 1 .. Len(channel) : channel[i].req = channel[j].req => i = j
    BY <1>2 DEF Accounts
  <2>5. channel[1].req = w /\ InChannel(w)
    BY <2>2 DEF InChannel
  <2> HIDE DEF w
  <2>6. \A v \in Work : InChannel(v)' <=> InChannel(v) /\ v # w
    <3> SUFFICES ASSUME NEW v \in Work PROVE InChannel(v)' <=> InChannel(v) /\ v # w
      OBVIOUS
    <3>1. ASSUME InChannel(v)' PROVE InChannel(v) /\ v # w
      <4>1. PICK i \in 1 .. Len(channel) - 1 : channel[i + 1].req = v
        BY <2>2, <3>1 DEF InChannel
      <4>2. i + 1 \in 1 .. Len(channel) /\ i + 1 # 1
        BY <2>2, <4>1
      <4> QED BY <2>2, <2>4, <2>5, <4>1, <4>2 DEF InChannel
    <3>2. ASSUME InChannel(v), v # w PROVE InChannel(v)'
      <4>1. PICK i \in 1 .. Len(channel) : channel[i].req = v
        BY <3>2 DEF InChannel
      <4>2. i # 1
        BY <2>5, <3>2, <4>1
      <4>3. i - 1 \in 1 .. Len(channel) - 1 /\ (i - 1) + 1 = i
        BY <2>2, <4>1, <4>2
      <4>4. i - 1 \in 1 .. Len(channel') /\ channel'[i - 1] = channel[i]
        BY <2>2, <4>3
      <4> QED BY <4>1, <4>4 DEF InChannel
    <3> QED BY <3>1, <3>2
  <2>7. /\ \A v \in Work : InWorker(v)' <=> InWorker(v)
        /\ \A v \in Work : AtReporter(v)' <=> v = w
        /\ \A v \in Work : ~AtReporter(v)
    BY <1>2, <2>1, <2>3 DEF InWorker, AtReporter, Quiet
  <2>8. \A i, j \in 1 .. Len(channel') : channel'[i].req = channel'[j].req => i = j
    <3> SUFFICES ASSUME NEW i \in 1 .. Len(channel) - 1, NEW j \in 1 .. Len(channel) - 1,
                        channel[i + 1].req = channel[j + 1].req
                 PROVE  i = j
      BY SMTT(60), <2>2
    <3>1. i + 1 = j + 1
      BY <2>2, <2>4
    <3> QED BY <3>1
  <2>9. \A v \in Work :
          /\ fate'[v] \in {"unsent", "queued"} => v \notin reporting' /\ status'[v] = <<>>
          /\ fate'[v] \in Retirements =>
                IF v \in reporting' \/ v \notin Tracked THEN status'[v] = <<>>
                ELSE Len(status'[v]) = 1
    BY <1>2, <2>1 DEF Accounts
  <2>10. \A v \in Work :
          /\ fate'[v] = "delivered" =>
                /\ v \notin reporting'
                /\ IF \/ InWorker(v)' \/ InChannel(v)' \/ v \notin Tracked
                      \/ AtReporter(v)' /\ reporter'.status # "written"
                   THEN status'[v] = <<>> ELSE Len(status'[v]) = 1
          /\ InChannel(v)' \/ AtReporter(v)' => fate'[v] = "delivered" /\ ~InWorker(v)'
          /\ ~(InChannel(v)' /\ AtReporter(v)')
    <3> SUFFICES ASSUME NEW v \in Work
                 PROVE  /\ fate'[v] = "delivered" =>
                              /\ v \notin reporting'
                              /\ IF \/ InWorker(v)' \/ InChannel(v)' \/ v \notin Tracked
                                    \/ AtReporter(v)' /\ reporter'.status # "written"
                                 THEN status'[v] = <<>> ELSE Len(status'[v]) = 1
                        /\ InChannel(v)' \/ AtReporter(v)' => fate'[v] = "delivered" /\ ~InWorker(v)'
                        /\ ~(InChannel(v)' /\ AtReporter(v)')
      OBVIOUS
    <3>1. CASE v = w
      BY <1>2, <2>1, <2>3, <2>5, <2>6, <2>7, <3>1 DEF Accounts
    <3>2. CASE v # w
      BY <1>2, <2>1, <2>6, <2>7, <3>2 DEF Accounts
    <3> QED BY <3>1, <3>2
  <2> QED BY <1>3, <2>8, <2>9, <2>10 DEF Accounts
<1>14. CASE ReporterWrite
  <2> DEFINE w == reporter.req
  <2>1. /\ w # NoRequest /\ reporter.status # "written"
        /\ status' = [status EXCEPT ![w] = Append(@, Awaited(reporter))]
        /\ reporter' = [reporter EXCEPT !.status = "written"]
        /\ UNCHANGED <<fate, reporting, channel, worker>>
    BY <1>14 DEF ReporterWrite, ReporterKeeps, queueVars
  <2>2. reporter \in [req : Tracked, status : Outcome \cup {"written"}]
    BY <1>2, <2>1 DEF ThreadTypeOK, Quiet
  <2>3. w \in Work /\ w \in Tracked /\ AtReporter(w) /\ reporter'.req = w
        /\ reporter'.status = "written"
    BY <1>2, <2>1, <2>2 DEF AtReporter
  <2>4. /\ fate[w] = "delivered" /\ ~InWorker(w) /\ ~InChannel(w) /\ w \notin reporting
        /\ status[w] = <<>>
    BY <1>2, <2>1, <2>3 DEF Accounts
  <2>5. Len(status'[w]) = 1 /\ \A v \in Work : v # w => status'[v] = status[v]
    <3>1. Len(Append(<<>>, Awaited(reporter))) = 1
      OBVIOUS
    <3>2. status'[w] = Append(status[w], Awaited(reporter))
      BY <1>2, <2>1, <2>3 DEF ThreadTypeOK
    <3>3. \A v \in Work : v # w => status'[v] = status[v]
      BY <1>2, <2>1 DEF ThreadTypeOK
    <3> QED BY <2>4, <3>1, <3>2, <3>3
  <2>6. /\ \A v \in Work : InWorker(v)' <=> InWorker(v)
        /\ \A v \in Work : InChannel(v)' <=> InChannel(v)
        /\ \A v \in Work : AtReporter(v)' <=> AtReporter(v)
        /\ \A v \in Work : AtReporter(v) => v = w
    BY <2>1, <2>3 DEF InWorker, InChannel, AtReporter
  <2>7. fate[w] \notin Retirements
    BY <2>4 DEF Retirements
  <2> HIDE DEF w
  <2>8. \A v \in Work :
          /\ fate'[v] \in {"unsent", "queued"} => v \notin reporting' /\ status'[v] = <<>>
          /\ fate'[v] \in Retirements =>
                IF v \in reporting' \/ v \notin Tracked THEN status'[v] = <<>>
                ELSE Len(status'[v]) = 1
          /\ fate'[v] = "delivered" =>
                /\ v \notin reporting'
                /\ IF \/ InWorker(v)' \/ InChannel(v)' \/ v \notin Tracked
                      \/ AtReporter(v)' /\ reporter'.status # "written"
                   THEN status'[v] = <<>> ELSE Len(status'[v]) = 1
          /\ InChannel(v)' \/ AtReporter(v)' => fate'[v] = "delivered" /\ ~InWorker(v)'
          /\ ~(InChannel(v)' /\ AtReporter(v)')
    <3> SUFFICES ASSUME NEW v \in Work
                 PROVE  /\ fate'[v] \in {"unsent", "queued"} => v \notin reporting' /\ status'[v] = <<>>
                        /\ fate'[v] \in Retirements =>
                              IF v \in reporting' \/ v \notin Tracked THEN status'[v] = <<>>
                              ELSE Len(status'[v]) = 1
                        /\ fate'[v] = "delivered" =>
                              /\ v \notin reporting'
                              /\ IF \/ InWorker(v)' \/ InChannel(v)' \/ v \notin Tracked
                                    \/ AtReporter(v)' /\ reporter'.status # "written"
                                 THEN status'[v] = <<>> ELSE Len(status'[v]) = 1
                        /\ InChannel(v)' \/ AtReporter(v)' => fate'[v] = "delivered" /\ ~InWorker(v)'
                        /\ ~(InChannel(v)' /\ AtReporter(v)')
      OBVIOUS
    <3>1. CASE v = w
      BY <2>1, <2>3, <2>4, <2>5, <2>6, <2>7, <3>1
    <3>2. CASE v # w
      BY <1>2, <2>1, <2>5, <2>6, <3>2 DEF Accounts
    <3> QED BY <3>1, <3>2
  <2>9. \A i, j \in 1 .. Len(channel') : channel'[i].req = channel'[j].req => i = j
    BY <1>2, <2>1 DEF Accounts
  <2> QED BY <1>3, <2>8, <2>9 DEF Accounts
<1>15. CASE ReporterDropLease
  <2>1. /\ reporter.status = "written" /\ reporter' = Quiet
        /\ UNCHANGED <<fate, reporting, channel, worker, status>>
    BY <1>15 DEF ReporterDropLease, ReporterKeeps, queueVars
  <2>2. \A v \in Work : ~AtReporter(v)'
    BY <1>2, <2>1 DEF AtReporter, Quiet
  <2>3. /\ \A v \in Work : InWorker(v)' <=> InWorker(v)
        /\ \A v \in Work : InChannel(v)' <=> InChannel(v)
    BY <2>1 DEF InWorker, InChannel
  <2> QED BY <1>2, <1>3, <2>1, <2>2, <2>3 DEF Accounts
<1> QED BY <1>1, <1>5, <1>6, <1>7, <1>8, <1>9, <1>10, <1>11, <1>12, <1>13, <1>14, <1>15
        DEF AnyStep

LEMMA LeasesStep == IInv /\ [Next]_vars => LeasesOK'
<1> SUFFICES ASSUME IInv, [Next]_vars PROVE LeasesOK'
  OBVIOUS
<1>1. AnyStep
  BY StepCases DEF IInv
<1>2. LeasesOK /\ Accounts /\ ThreadTypeOK
      /\ registry \in [Domains -> Work \cup {NoRequest}] /\ NoRequest \notin Work
      /\ status \in [Work -> Seq(Outcome)]
  BY Typed DEF IInv
<1> DEFINE Refused == {"unsent", "Saturated", "ReceiverClosed"}
           Kept(v) == (status[v] = <<>> \/ AtReporter(v))
                         => (status'[v] = <<>> \/ AtReporter(v)')
<1>3. ASSUME \A d \in Domains : registry'[d] = registry[d] \/ registry'[d] = NoRequest,
             UNCHANGED cancelled,
             \A v \in Work : fate[v] # "unsent" => fate'[v] # "unsent",
             \A v \in Work : fate'[v] \notin Refused =>
                                fate[v] \notin Refused /\ order'[v] = order[v],
             \A d \in Domains : registry'[d] # NoRequest => Kept(registry[d])
      PROVE  LeasesOK'
  <2>1. ASSUME NEW d \in Domains, registry'[d] # NoRequest
        PROVE  /\ Domain[registry'[d]] = d /\ fate'[registry'[d]] # "unsent"
               /\ status'[registry'[d]] = <<>> \/ reporter'.req = registry'[d]
    <3>1. PICK v \in Work : registry[d] = v /\ registry'[d] = v
      BY <1>2, <1>3, <2>1
    <3>2. Domain[v] = d /\ fate[v] # "unsent" /\ (status[v] = <<>> \/ AtReporter(v))
      BY <1>2, <2>1, <3>1 DEF LeasesOK, Sent
    <3>3. Kept(v)
      BY <1>3, <2>1, <3>1
    <3> QED BY <1>3, <3>1, <3>2, <3>3 DEF AtReporter
  <2>2. \A v \in cancelled' : v \in Work /\ IsReplaceable(v) /\ fate'[v] # "unsent"
    BY <1>2, <1>3 DEF LeasesOK, Sent
  <2>3. \A v \in Work : fate'[v] \notin Refused => order'[v] > 0
    BY <1>2, <1>3 DEF LeasesOK
  <2> HIDE DEF Kept
  <2> QED BY <2>1, <2>2, <2>3 DEF LeasesOK, Sent, AtReporter, IsReplaceable
<1>4. UNCHANGED <<registry, cancelled, fate, order, status, reporter>> => LeasesOK'
  BY <1>2 DEF LeasesOK, Sent, AtReporter
<1>5. CASE Sends
  <2>1. PICK w \in Work : Enqueue(w)
    BY <1>5 DEF Sends
  <2>2. fate[w] = "unsent" /\ UNCHANGED <<status, reporter>> /\ status[w] = <<>>
    BY <1>2, <2>1, EnqueueEffect DEF Accounts
  <2>3. \A v \in Work : fate[v] # "unsent" => fate'[v] # "unsent"
    <3> SUFFICES ASSUME NEW v \in Work, fate[v] # "unsent" PROVE fate'[v] # "unsent"
      OBVIOUS
    <3>1. v # w
      BY <2>2
    <3> QED BY <2>1, <3>1, EnqueueEffect
  <2>4. CASE /\ fate'[w] \in {"Saturated", "ReceiverClosed"}
             /\ \A v \in Work : v # w => fate'[v] = fate[v]
             /\ UNCHANGED <<queue, order, registry, cancelled>>
    BY <1>3, <2>2, <2>3, <2>4 DEF AtReporter
  <2>5. CASE /\ fate'[w] = "queued" /\ receiver # "gone"
             /\ order'[w] > 0
             /\ \A v \in Work : v # w =>
                   /\ order'[v] = order[v]
                   /\ \/ fate'[v] = fate[v]
                      \/ fate[v] = "queued" /\ fate'[v] \in {"Replaced", "EvictedForCapacity"}
             /\ Activate(w)
    <3>1. \A v \in Work : fate'[v] \notin Refused => order'[v] > 0
      <4> SUFFICES ASSUME NEW v \in Work, fate'[v] \notin Refused PROVE order'[v] > 0
        OBVIOUS
      <4>1. CASE v = w
        BY <2>5, <4>1
      <4>2. CASE v # w
        BY <1>2, <2>5, <4>2 DEF LeasesOK
      <4> QED BY <4>1, <4>2
    <3>2. CASE ~IsReplaceable(w)
      <4>1. UNCHANGED <<registry, cancelled>>
        BY <2>5, <3>2 DEF Activate
      <4> QED BY <1>2, <2>2, <2>3, <3>1, <4>1 DEF LeasesOK, Sent, AtReporter
    <3>3. CASE IsReplaceable(w)
      <4>1. /\ registry' = [registry EXCEPT ![Domain[w]] = w]
            /\ cancelled' = cancelled \cup ({registry[Domain[w]]} \ {NoRequest})
            /\ Domain[w] \in Domains
        BY <2>5, <3>3 DEF Activate, IsReplaceable, Domains
      <4>2. registry'[Domain[w]] = w /\ \A d \in Domains : d # Domain[w] => registry'[d] = registry[d]
        BY <1>2, <4>1
      <4>3. \A v \in cancelled' : v \in Work /\ IsReplaceable(v) /\ fate'[v] # "unsent"
        <5>1. registry[Domain[w]] # NoRequest =>
                 /\ registry[Domain[w]] \in Work
                 /\ Domain[registry[Domain[w]]] = Domain[w]
                 /\ fate[registry[Domain[w]]] # "unsent"
          BY <1>2, <4>1 DEF LeasesOK, Sent
        <5>2. registry[Domain[w]] # NoRequest => IsReplaceable(registry[Domain[w]])
          BY <3>3, <5>1 DEF IsReplaceable
        <5> QED BY <1>2, <2>3, <4>1, <5>1, <5>2 DEF LeasesOK, Sent
      <4>4. \A d \in Domains : registry'[d] # NoRequest =>
               /\ Domain[registry'[d]] = d /\ fate'[registry'[d]] # "unsent"
               /\ status'[registry'[d]] = <<>> \/ reporter'.req = registry'[d]
        <5> SUFFICES ASSUME NEW d \in Domains, registry'[d] # NoRequest
                     PROVE  /\ Domain[registry'[d]] = d /\ fate'[registry'[d]] # "unsent"
                            /\ status'[registry'[d]] = <<>> \/ reporter'.req = registry'[d]
          OBVIOUS
        <5>1. CASE d = Domain[w]
          BY <2>2, <2>5, <4>2, <5>1
        <5>2. CASE d # Domain[w]
          <6>1. registry'[d] = registry[d]
            BY <4>2, <5>2
          <6> QED BY <1>2, <2>2, <2>3, <6>1 DEF LeasesOK, Sent, AtReporter
        <5> QED BY <5>1, <5>2
      <4> QED BY <3>1, <4>3, <4>4 DEF LeasesOK, Sent, AtReporter, IsReplaceable
    <3> QED BY <3>2, <3>3
  <2> QED BY <2>1, <2>4, <2>5, EnqueueEffect
<1>6. CASE LoopRetire
  <2>1. /\ \A v \in Work : fate'[v] = fate[v] \/ (fate[v] = "queued" /\ fate'[v] = "StaleGeneration")
        /\ UNCHANGED <<order, registry, reporter, status, cancelled>>
    BY <1>6, RetireEffect DEF audioVars
  <2> QED BY <1>3, <2>1 DEF AtReporter
<1>7. CASE WorkerRecv
  <2>1. /\ UNCHANGED <<order, registry, reporter, status, cancelled>>
        /\ \A v \in Work : fate'[v] = fate[v] \/ (fate[v] = "queued" /\ fate'[v] = "delivered")
    BY <1>7, RecvEffect DEF audioVars
  <2> QED BY <1>3, <2>1 DEF AtReporter
<1>8. CASE Reports
  <2>1. PICK w \in Work : ReportRetired(w)
    BY <1>8 DEF Reports
  <2>2. /\ DropLease(w) /\ UNCHANGED <<fate, order, cancelled, reporter>>
        /\ \A v \in Work : v # w => status'[v] = status[v]
    BY <1>2, <2>1 DEF ReportRetired, queueVars, audioVars
  <2>3. \A d \in Domains : registry'[d] # NoRequest =>
           registry'[d] = registry[d] /\ registry[d] # w
    BY <2>2 DEF DropLease
  <2> QED BY <1>2, <1>3, <2>2, <2>3 DEF AtReporter
<1>9. CASE ReporterTake
  <2>1. UNCHANGED <<registry, cancelled, fate, order, status>> /\ reporter = Quiet
    BY <1>9 DEF ReporterTake, ReporterKeeps, queueVars, audioVars
  <2>2. \A v \in Work : ~AtReporter(v)
    BY <1>2, <2>1 DEF AtReporter, Quiet
  <2> QED BY <1>2, <1>3, <2>1, <2>2
<1>10. CASE ReporterWrite
  <2>1. /\ UNCHANGED <<registry, cancelled, fate, order>> /\ reporter'.req = reporter.req
        /\ \A v \in Work : v # reporter.req => status'[v] = status[v]
    <3>1. reporter \in [req : Tracked, status : Outcome \cup {"written"}]
      BY <1>2, <1>10 DEF ReporterWrite, ThreadTypeOK, Quiet
    <3> QED BY <1>2, <1>10, <3>1 DEF ReporterWrite, ReporterKeeps, queueVars, audioVars
  <2> QED BY <1>2, <1>3, <2>1 DEF AtReporter
<1>11. CASE ReporterDropLease
  <2>1. /\ DropLease(reporter.req) /\ UNCHANGED <<cancelled, fate, order, status>>
    BY <1>11 DEF ReporterDropLease, ReporterKeeps, queueVars, audioVars
  <2>2. \A d \in Domains : registry'[d] # NoRequest =>
           registry'[d] = registry[d] /\ registry[d] # reporter.req
    BY <2>1 DEF DropLease
  <2> QED BY <1>2, <1>3, <2>1, <2>2 DEF AtReporter
<1>12. CASE Interrupts \/ Closes \/ LoopStop \/ LoopClose \/ WorkerMoves \/ WorkerGate
            \/ WorkerAppend \/ WorkerReport \/ Plays \/ DeviceReplaced \/ Drain \/ UNCHANGED vars
  <2>1. WorkerGate \/ WorkerAppend \/ WorkerMoves
           => UNCHANGED <<registry, cancelled, fate, order, status, reporter>>
    BY GateEffect, AppendEffect, WorkerMovesEffect DEF queueVars, audioVars
  <2>2. LoopStop \/ Plays \/ DeviceReplaced \/ Drain
           => UNCHANGED <<registry, cancelled, fate, order, status, reporter>>
    BY DEF LoopStop, AC!Stop, Plays, Play, AC!SourceEnds, DeviceReplaced, AC!InterruptOutput,
       Drain, AC!DrainScheduled, AC!DrainSinks, queueVars, threadVars
  <2>3. Interrupts \/ Closes \/ LoopClose \/ WorkerReport \/ UNCHANGED vars
           => UNCHANGED <<registry, cancelled, fate, order, status, reporter>>
    BY DEF Interrupts, Interrupt, WQ!AdvanceGeneration, Closes, LoopClose, WQ!DropSender,
       WorkerReport, vars, queueVars, audioVars, threadVars
  <2> QED BY <1>4, <1>12, <2>1, <2>2, <2>3
<1> QED BY <1>1, <1>5, <1>6, <1>7, <1>8, <1>9, <1>10, <1>11, <1>12 DEF AnyStep

\* A presentation loses its registration only to one that cancels it, or with
\* its record written.
LEMMA KeyedStep == IInv /\ [Next]_vars => KeyedCanBeSuperseded'
<1> SUFFICES ASSUME IInv, [Next]_vars PROVE KeyedCanBeSuperseded'
  OBVIOUS
<1>1. AnyStep
  BY StepCases DEF IInv
<1>2. /\ KeyedCanBeSuperseded /\ LeasesOK /\ Accounts /\ ThreadTypeOK
      /\ registry \in [Domains -> Work \cup {NoRequest}] /\ NoRequest \notin Work
      /\ status \in [Work -> Seq(Outcome)]
      /\ \A v \in Work : IsReplaceable(v) => Domain[v] \in Domains /\ v \in Tracked
  BY Typed, ServerAssumption DEF IInv, Domains, IsReplaceable
<1>3. ASSUME NEW gone,
             \A d \in Domains : registry'[d] = IF registry[d] = gone THEN NoRequest
                                               ELSE registry[d],
             UNCHANGED <<cancelled, order>>,
             \A v \in Work : v # gone => status'[v] = status[v],
             gone \in Work /\ IsReplaceable(gone) => status'[gone] # <<>>
      PROVE  KeyedCanBeSuperseded'
  BY <1>2, <1>3 DEF KeyedCanBeSuperseded, IsReplaceable
<1>4. UNCHANGED <<registry, cancelled, order, status>> => KeyedCanBeSuperseded'
  BY <1>2 DEF KeyedCanBeSuperseded
<1>5. CASE Sends
  <2>1. PICK w \in Work : Enqueue(w)
    BY <1>5 DEF Sends
  <2>2. UNCHANGED status
    BY <2>1, EnqueueEffect
  <2>3. CASE UNCHANGED <<order, registry, cancelled>>
    BY <1>4, <2>2, <2>3
  <2>4. CASE Activate(w) /\ \A v \in Work : v # w => order'[v] = order[v]
    <3>1. CASE ~IsReplaceable(w)
      <4>1. UNCHANGED <<registry, cancelled>>
        BY <2>4, <3>1 DEF Activate
      <4> QED BY <1>2, <2>2, <2>4, <3>1, <4>1 DEF KeyedCanBeSuperseded, IsReplaceable
    <3>2. CASE IsReplaceable(w)
      <4>1. /\ registry' = [registry EXCEPT ![Domain[w]] = w]
            /\ cancelled' = cancelled \cup ({registry[Domain[w]]} \ {NoRequest})
            /\ Domain[w] \in Domains
        BY <1>2, <2>4, <3>2 DEF Activate
      <4>2. registry'[Domain[w]] = w /\ \A d \in Domains : d # Domain[w] => registry'[d] = registry[d]
        BY <1>2, <4>1
      <4>3. ASSUME NEW v \in Work, IsReplaceable(v), order'[v] > 0, status'[v] = <<>>
            PROVE  registry'[Domain[v]] = v \/ v \in cancelled'
        <5>1. CASE v = w
          BY <4>2, <5>1
        <5>2. CASE v # w
          <6>1. registry[Domain[v]] = v \/ v \in cancelled
            BY <1>2, <2>2, <2>4, <4>3, <5>2 DEF KeyedCanBeSuperseded
          <6>2. CASE Domain[v] = Domain[w]
            BY <1>2, <4>1, <6>1, <6>2
          <6>3. CASE Domain[v] # Domain[w]
            BY <1>2, <4>1, <4>2, <4>3, <6>1, <6>3
          <6> QED BY <6>2, <6>3
        <5> QED BY <5>1, <5>2
      <4> QED BY <4>3 DEF KeyedCanBeSuperseded, IsReplaceable
    <3> QED BY <3>1, <3>2
  <2> QED BY <2>1, <2>3, <2>4, EnqueueEffect
<1>6. CASE Reports
  <2>1. PICK w \in Work : ReportRetired(w)
    BY <1>6 DEF Reports
  <2>2. /\ DropLease(w) /\ UNCHANGED <<order, cancelled>>
        /\ \A v \in Work : v # w => status'[v] = status[v]
    BY <1>2, <2>1 DEF ReportRetired, queueVars, audioVars
  <2>3. IsReplaceable(w) => status'[w] # <<>>
    <3> SUFFICES ASSUME IsReplaceable(w) PROVE status'[w] # <<>>
      OBVIOUS
    <3>1. status'[w] = Append(status[w], RetirementStatus(fate[w]))
      BY <1>2, <2>1 DEF ReportRetired
    <3>2. status[w] \in Seq(Outcome) /\ RetirementStatus(fate[w]) \in Outcome
      BY <1>2 DEF RetirementStatus, Outcome
    <3> QED BY <3>1, <3>2
  <2>4. \A d \in Domains : registry'[d] = IF registry[d] = w THEN NoRequest ELSE registry[d]
    BY <2>2 DEF DropLease
  <2> QED BY <1>3, <2>2, <2>3, <2>4
<1>7. CASE ReporterWrite
  <2>1. /\ UNCHANGED <<registry, cancelled, order>>
        /\ status' = [status EXCEPT ![reporter.req] = Append(@, Awaited(reporter))]
    BY <1>7 DEF ReporterWrite, ReporterKeeps, queueVars, audioVars
  <2>2. reporter \in [req : Tracked, status : Outcome \cup {"written"}] /\ reporter.status \in Outcome
    BY <1>2, <1>7 DEF ReporterWrite, ThreadTypeOK, Quiet
  <2>3. PICK r \in Work : r = reporter.req
    BY <2>2, ServerAssumption
  <2>4. Awaited(reporter) \in Outcome /\ status[r] \in Seq(Outcome)
    BY <1>2, <2>2 DEF Awaited, Outcome
  <2>5. status'[r] # <<>> /\ \A v \in Work : v # r => status'[v] = status[v]
    <3>1. status'[r] = Append(status[r], Awaited(reporter))
      BY <1>2, <2>1, <2>3
    <3>2. status'[r] # <<>>
      BY <2>4, <3>1
    <3> QED BY <1>2, <2>1, <2>3, <3>2
  <2> QED BY <1>2, <2>1, <2>5 DEF KeyedCanBeSuperseded
<1>8. CASE ReporterDropLease
  <2>1. /\ DropLease(reporter.req) /\ UNCHANGED <<cancelled, order, status>>
        /\ reporter.status = "written"
    BY <1>8 DEF ReporterDropLease, ReporterKeeps, queueVars, audioVars
  <2>2. reporter \in [req : Tracked, status : Outcome \cup {"written"}]
    BY <1>2, <2>1 DEF ThreadTypeOK, Quiet
  <2>3. PICK r \in Work : r = reporter.req /\ r \in Tracked
    BY <2>2, ServerAssumption
  <2>4. status[r] # <<>>
    <3>1. AtReporter(r) /\ fate[r] = "delivered" /\ ~InWorker(r) /\ ~InChannel(r)
      BY <1>2, <2>3 DEF Accounts, AtReporter
    <3>2. Len(status[r]) = 1
      BY <1>2, <2>1, <2>3, <3>1 DEF Accounts
    <3>3. Len(<<>>) = 0
      OBVIOUS
    <3> QED BY SMTT(60), <3>2, <3>3
  <2>5. \A d \in Domains : registry'[d] = IF registry[d] = r THEN NoRequest ELSE registry[d]
    BY <2>1, <2>3 DEF DropLease
  <2> QED BY <1>3, <2>1, <2>4, <2>5
<1>9. CASE Interrupts \/ Closes \/ LoopStop \/ LoopRetire \/ LoopClose \/ WorkerRecv
           \/ WorkerMoves \/ WorkerGate \/ WorkerAppend \/ WorkerReport \/ ReporterTake
           \/ Plays \/ DeviceReplaced \/ Drain \/ UNCHANGED vars
  <2>1. WorkerRecv \/ LoopRetire \/ WorkerGate \/ WorkerAppend \/ WorkerMoves
           => UNCHANGED <<registry, cancelled, order, status>>
    BY RecvEffect, RetireEffect, GateEffect, AppendEffect, WorkerMovesEffect
       DEF queueVars, audioVars
  <2>2. LoopStop \/ Plays \/ DeviceReplaced \/ Drain
           => UNCHANGED <<registry, cancelled, order, status>>
    BY DEF LoopStop, AC!Stop, Plays, Play, AC!SourceEnds, DeviceReplaced, AC!InterruptOutput,
       Drain, AC!DrainScheduled, AC!DrainSinks, queueVars, threadVars
  <2>3. Interrupts \/ Closes \/ LoopClose \/ WorkerReport \/ ReporterTake \/ UNCHANGED vars
           => UNCHANGED <<registry, cancelled, order, status>>
    BY DEF Interrupts, Interrupt, WQ!AdvanceGeneration, Closes, LoopClose, WQ!DropSender,
       WorkerReport, ReporterTake, ReporterKeeps, vars, queueVars, audioVars, threadVars
  <2> QED BY <1>4, <1>9, <2>1, <2>2, <2>3
<1> QED BY <1>1, <1>5, <1>6, <1>7, <1>8, <1>9 DEF AnyStep

\* Nothing comes back once a part of the server has ended.
LEMMA ShutdownStep == IInv /\ [Next]_vars => ShutdownOK'
<1> SUFFICES ASSUME IInv, [Next]_vars PROVE ShutdownOK'
  OBVIOUS
<1>1. AnyStep
  BY StepCases DEF IInv
<1>2. ShutdownOK /\ WorkerOK
  BY DEF IInv
<1>3. ASSUME UNCHANGED <<sender_closed, receiver, draining>>,
             ~sender_closed \/ UNCHANGED <<loop, reporting>>,
             ~sender_closed \/ UNCHANGED queue,
             receiver # "gone" \/ worker'.pc = "recv",
             draining # "drained" \/ \A st \in Stream : sink'[st] = sink[st] \/ sink'[st] = <<>>
      PROVE  ShutdownOK'
  BY <1>2, <1>3 DEF ShutdownOK
<1>4. CASE Sends
  <2>1. PICK w \in Work : Enqueue(w)
    BY <1>4 DEF Sends
  <2>2. /\ ~sender_closed /\ UNCHANGED <<sender_closed, worker, draining, sink>>
        /\ receiver' = "gone" <=> receiver = "gone"
    BY <2>1, EnqueueEffect
  <2> QED BY <1>2, <2>2 DEF ShutdownOK
<1>5. CASE Interrupts
  <2>1. ~sender_closed /\ UNCHANGED <<queue, sender_closed, receiver, worker, draining, sink>>
    BY <1>5 DEF Interrupts, Interrupt, LoopReady, WQ!AdvanceGeneration, audioVars
  <2> QED BY <1>2, <1>3, <2>1 DEF ShutdownOK
<1>6. CASE Closes
  <2>1. ~sender_closed /\ UNCHANGED <<queue, sender_closed, receiver, worker, draining, sink>>
    BY <1>6 DEF Closes, LoopReady, queueVars, audioVars
  <2> QED BY <1>2, <1>3, <2>1 DEF ShutdownOK
<1>7. CASE Reports
  <2>1. ~sender_closed /\ UNCHANGED <<queue, sender_closed, receiver, worker, draining, sink>>
    BY <1>2, <1>7 DEF Reports, ReportRetired, ShutdownOK, queueVars, audioVars
  <2> QED BY <1>2, <1>3, <2>1 DEF ShutdownOK
<1>8. CASE LoopStop
  <2>1. ~sender_closed /\ UNCHANGED <<queue, sender_closed, receiver, worker>>
    BY <1>2, <1>8 DEF LoopStop, Doing, ShutdownOK, queueVars
  <2>2. UNCHANGED draining
    BY <1>8 DEF LoopStop, AC!Stop
  <2> QED BY <1>2, <1>3, <2>1, <2>2 DEF ShutdownOK
<1>9. CASE LoopRetire
  <2>1. ~sender_closed /\ UNCHANGED <<sender_closed, receiver, worker, draining, sink>>
    BY <1>9, RetireEffect DEF audioVars
  <2> QED BY <1>2, <1>3, <2>1 DEF ShutdownOK
<1>10. CASE LoopClose
  <2>1. /\ loop # <<>> /\ reporting = {} /\ Head(loop).do = "close" /\ loop' = Tail(loop)
        /\ sender_closed' = TRUE /\ WQ!NotifyReceiver /\ ~sender_closed
        /\ UNCHANGED <<reporting, queue, worker, draining, sink>>
    BY <1>10 DEF LoopClose, Doing, WQ!DropSender, audioVars
  <2>2. loop' = <<>>
    BY <2>1, HeadStep DEF IInv
  <2>3. receiver' = "gone" => receiver = "gone"
    BY <2>1 DEF WQ!NotifyReceiver
  <2> QED BY <1>2, <2>1, <2>2, <2>3 DEF ShutdownOK
<1>11. CASE WorkerRecv
  <2>1. /\ receiver = "ready" /\ worker.pc = "recv"
        /\ UNCHANGED <<sender_closed, loop, reporting, draining, sink>>
    BY <1>11, RecvEffect DEF audioVars
  <2>2. receiver' = "gone" => sender_closed /\ queue' = {} /\ worker' = worker
    BY <1>11, <2>1, RecvEffect
  <2> QED BY <1>2, <2>1, <2>2 DEF ShutdownOK
<1>12. CASE WorkerMoves \/ WorkerGate \/ WorkerAppend \/ WorkerReport
  <2>1. worker.pc # "recv"
    BY <1>12, WorkerMovesEffect, GateEffect, AppendEffect DEF WorkerReport, WorkerAt
  <2>2. receiver # "gone" /\ draining = "no"
    BY <1>2, <2>1 DEF ShutdownOK
  <2>3. UNCHANGED <<queue, sender_closed, receiver, loop, reporting, draining>>
    <3>1. WorkerMoves => UNCHANGED <<queue, sender_closed, receiver, loop, reporting, draining>>
      BY WorkerMovesEffect DEF queueVars, audioVars
    <3>2. WorkerGate \/ WorkerAppend =>
             UNCHANGED <<queue, sender_closed, receiver, loop, reporting, draining>>
      BY GateEffect, AppendEffect DEF queueVars
    <3> QED BY <1>12, <3>1, <3>2 DEF WorkerReport, queueVars, audioVars
  <2> QED BY <1>3, <2>2, <2>3
<1>13. CASE ReporterTake \/ ReporterWrite \/ ReporterDropLease
  <2>1. UNCHANGED <<queue, sender_closed, receiver, loop, reporting, worker, draining, sink>>
    BY <1>13 DEF ReporterTake, ReporterWrite, ReporterDropLease, ReporterKeeps, queueVars, audioVars
  <2> QED BY <1>2, <1>3, <2>1 DEF ShutdownOK
<1>14. CASE Plays
  <2>1. PICK st \in Stream : AC!SourceEnds(st)
    BY <1>14 DEF Plays, Play
  <2>2. sink[st] # <<>> /\ UNCHANGED draining
    BY <2>1 DEF AC!SourceEnds
  <2>3. UNCHANGED <<queue, sender_closed, receiver, loop, reporting, worker>>
    BY <1>14 DEF Plays, Play, queueVars, threadVars
  <2> QED BY <1>2, <1>3, <2>2, <2>3 DEF ShutdownOK
<1>15. CASE DeviceReplaced
  <2>1. UNCHANGED draining /\ \A st \in Stream : sink'[st] = <<>>
    BY <1>15 DEF DeviceReplaced, AC!InterruptOutput
  <2>2. UNCHANGED <<queue, sender_closed, receiver, loop, reporting, worker>>
    BY <1>15 DEF DeviceReplaced, queueVars
  <2> QED BY <1>2, <1>3, <2>1, <2>2 DEF ShutdownOK
<1>16. CASE Drain
  <2>1. /\ receiver = "gone"
        /\ UNCHANGED <<queue, sender_closed, receiver, loop, reporting, worker, sink>>
        /\ draining' = "drained" => \A st \in Stream : sink[st] = <<>>
    BY <1>16 DEF Drain, AC!DrainScheduled, AC!DrainSinks, queueVars, threadVars
  <2> QED BY <1>2, <2>1 DEF ShutdownOK
<1>17. CASE UNCHANGED vars
  BY <1>2, <1>17 DEF vars, queueVars, audioVars, threadVars, ShutdownOK
<1> QED BY <1>1, <1>4, <1>5, <1>6, <1>7, <1>8, <1>9, <1>10, <1>11, <1>12, <1>13, <1>14,
           <1>15, <1>16, <1>17 DEF AnyStep

LEMMA InitIInv == Init => IInv
<1> SUFFICES ASSUME Init PROVE IInv
  OBVIOUS
<1>1. WQP!Inv /\ ACP!AudioInv
  BY QueueInside, AudioInside
<1>2. /\ fate = [w \in Work |-> "unsent"] /\ order = [w \in Work |-> 0]
      /\ gen = [w \in Work |-> 0] /\ current_gen = 0 /\ sender_closed = FALSE
      /\ receiver = "ready"
  BY DEF Init, WQ!Init
<1>3. /\ phase = [w \in Work |-> "new"] /\ cancelled = {} /\ draining = "no"
  BY DEF Init, AC!AudioInit
<1>4. /\ gen_counter = 0 /\ registry = [d \in Domains |-> NoRequest]
      /\ loop = <<>> /\ reporting = {} /\ worker = Idle /\ channel = <<>>
      /\ reporter = Quiet /\ status = [w \in Work |-> <<>>] /\ replacements = 0
      /\ sent_at = [w \in Work |-> 0] /\ silenced = [st \in Stream |-> 0]
  BY DEF Init
<1>5. LoopOK
  BY <1>4 DEF LoopOK
<1>6. ThreadTypeOK
  <2>1. Len(channel) <= TrackedCapacity
    BY <1>4, ServerAssumption
  <2>2. channel \in Seq([req : Tracked, status : Outcome]) /\ status \in [Work -> Seq(Outcome)]
    BY <1>4
  <2> QED BY <1>4, <2>1, <2>2 DEF ThreadTypeOK, Idle
<1>7. Generations
  BY <1>2, <1>4 DEF Generations, Sent
<1>8. WorkerOK
  BY <1>2, <1>3, <1>4 DEF WorkerOK, InWorker, Idle
<1>9. GateOK
  BY <1>3 DEF GateOK
<1>10. Accounts
  <2>1. \A w \in Work : ~InChannel(w) /\ ~InWorker(w) /\ ~AtReporter(w)
    BY <1>4, ServerAssumption DEF InChannel, InWorker, AtReporter, Idle, Quiet
  <2> QED BY <1>2, <1>4, <2>1 DEF Accounts, WQ!RetirementReason
<1>11. LeasesOK /\ ShutdownOK
  BY <1>2, <1>3, <1>4 DEF LeasesOK, ShutdownOK
<1>12. KeyedCanBeSuperseded
  BY <1>2 DEF KeyedCanBeSuperseded
<1> QED BY <1>1, <1>5, <1>6, <1>7, <1>8, <1>9, <1>10, <1>11, <1>12 DEF IInv

LEMMA IInvStep == IInv /\ [Next]_vars => IInv'
<1> SUFFICES ASSUME IInv, [Next]_vars PROVE IInv'
  OBVIOUS
<1>1. WQP!Inv' /\ ACP!AudioInv' /\ LoopOK'
  BY QueueInside, AudioInside, LoopKept DEF IInv
<1>2. ThreadTypeOK' /\ Generations' /\ WorkerOK' /\ GateOK'
  BY ThreadTypeStep, GenerationsStep, WorkerStepOK, GateStepOK
<1>3. Accounts' /\ LeasesOK' /\ ShutdownOK' /\ KeyedCanBeSuperseded'
  BY AccountsStep, LeasesStep, ShutdownStep, KeyedStep
<1> QED BY <1>1, <1>2, <1>3 DEF IInv

------------------------------
(* Theorems *)

\* The invariant of the whole request path, queue and output included.
THEOREM ServerInvariant == Spec => []IInv
BY InitIInv, IInvStep, PTL DEF Spec

\* Inside the server the queue behaves as WorkQueue says, with no request lost,
\* reordered or handed out twice.
THEOREM ServerRunsTheQueue == Spec => WQP!Spec /\ []WQP!QueueSound
<1>1. Init => WQP!Init
  BY DEF Init, WQ!Init, WQP!Init
<1>2. IInv /\ [Next]_vars => [WQP!Next]_(WQP!vars)
  BY QueueSteps DEF IInv
<1>3. Spec => WQP!Spec
  BY <1>1, <1>2, ServerInvariant, PTL DEF Spec, WQP!Spec
<1>4. WQP!Spec => []WQP!QueueSound
  BY WQP!QueueIsSound, ServerAssumption, OneCardinality
<1> QED BY <1>3, <1>4

\* Inside the server a stop silences what was checked before it, and no ticket
\* loses its source.
THEOREM ServerRunsTheOutput == Spec => []ACP!ControlSound
<1>1. IInv => ACP!ControlSound
  BY ACP!AudioInvSound, AudioAssumed DEF IInv
<1> QED BY <1>1, ServerInvariant, PTL

LEMMA InvTypes == IInv => TypeOK
<1> SUFFICES ASSUME IInv PROVE TypeOK
  OBVIOUS
<1>1. WQ!TypeOK
  <2>1. WQP!TypeOK
    BY DEF IInv, WQP!Inv
  <2> QED BY <2>1 DEF WQ!TypeOK, WQP!TypeOK, WQ!RetirementReason, WQP!RetirementReason
<1>2. AC!ControlTypeOK
  <2>1. ACP!ControlTypeOK
    BY DEF IInv, ACP!AudioInv
  <2> QED BY <2>1 DEF AC!ControlTypeOK, ACP!ControlTypeOK, AC!Terminal, ACP!Terminal
<1>3. reporter.req \in Work \cup {NoRequest}
  BY ServerAssumption DEF IInv, ThreadTypeOK, Quiet
<1> QED BY <1>1, <1>2, <1>3 DEF IInv, ThreadTypeOK, TypeOK, Outcome

LEMMA InvExits == IInv => ExitsAccountable
<1> SUFFICES ASSUME IInv, Exited PROVE /\ \A w \in Tracked : Sent(w) => Len(status[w]) = 1
                                       /\ \A w \in Work : ~AC!InSink(w)
                                       /\ \A d \in Domains : registry[d] = NoRequest
  BY DEF ExitsAccountable
<1>1. /\ draining = "drained" /\ channel = <<>> /\ reporter = Quiet
      /\ reporting = {} /\ queue = {} /\ worker.pc = "recv"
      /\ \A st \in Stream : sink[st] = <<>>
  BY DEF Exited, IInv, ShutdownOK
<1>2. /\ fate \in [Work -> Fates] /\ queue = {w \in Work : fate[w] = "queued"}
      /\ WQ!RetirementReason = Retirements /\ NoRequest \notin Work
      /\ \A w \in Work : StreamOf[w] \in Stream
      /\ registry \in [Domains -> Work \cup {NoRequest}]
  BY Typed
<1>3. \A w \in Work : ~InWorker(w) /\ ~InChannel(w) /\ ~AtReporter(w)
  BY <1>1, <1>2 DEF InWorker, InChannel, AtReporter, Quiet
<1>4. ASSUME NEW w \in Tracked, Sent(w) PROVE Len(status[w]) = 1
  <2>1. w \in Work /\ fate[w] # "queued" /\ fate[w] # "unsent"
    BY <1>1, <1>2, <1>4, ServerAssumption DEF Sent
  <2>2. CASE fate[w] \in Retirements
    BY <1>1, <1>2, <2>1, <2>2 DEF IInv, Accounts
  <2>3. CASE fate[w] = "delivered"
    BY <1>3, <2>1, <2>3 DEF IInv, Accounts
  <2> QED BY <1>2, <2>1, <2>2, <2>3 DEF Fates
<1>5. ASSUME NEW w \in Work PROVE ~AC!InSink(w)
  <2>1. ACP!InSink(w) => \E i \in 1 .. Len(sink[StreamOf[w]]) : sink[StreamOf[w]][i] = w
    BY DEF IInv, ACP!AudioInv, ACP!SinksHold
  <2>2. sink[StreamOf[w]] = <<>>
    BY <1>1, <1>2
  <2> QED BY <2>1, <2>2 DEF AC!InSink, ACP!InSink
<1>6. ASSUME NEW d \in Domains PROVE registry[d] = NoRequest
  <2> SUFFICES ASSUME registry[d] # NoRequest PROVE FALSE
    OBVIOUS
  <2>1. PICK w \in Work : registry[d] = w
    BY <1>2
  <2>2. Domain[w] = d /\ Sent(w) /\ status[w] = <<>>
    BY <1>3, <2>1 DEF IInv, LeasesOK
  <2>3. w \in Tracked
    BY <2>2, ServerAssumption DEF Domains
  <2>4. Len(status[w]) = 1
    BY <1>4, <2>2, <2>3
  <2>5. Len(<<>>) # 1
    OBVIOUS
  <2> QED BY <2>2, <2>4, <2>5
<1> QED BY <1>4, <1>5, <1>6

\* SpeechServer's promises: state well formed, every presentation that is still
\* unanswered can be superseded, and an exit leaves no request, audio or lease.
THEOREM SpeechIsSound == Spec => []SpeechSound
<1>1. IInv => SpeechSound
  BY InvTypes, InvExits DEF IInv, SpeechSound
<1> QED BY <1>1, ServerInvariant, PTL

\* No audio of a request that was sent before the output was replaced is heard
\* after it.
THEOREM ServerNeverReplays == Spec => []NoReplay
<1>1. IInv => NoReplay
  BY DEF IInv, GateOK, NoReplay, AC!Audible, AC!InSink
<1> QED BY <1>1, ServerInvariant, PTL

\* A stale request is stale for ever, whatever interrupts and replacements do to
\* the shared counter.
THEOREM ServerKeepsStale == Spec => StaleForever
<1>1. IInv /\ [Next]_vars => [\A w \in Work : Sent(w) /\ IsStale(w) => IsStale(w)']_vars
  <2> SUFFICES ASSUME IInv, [Next]_vars, NEW w \in Work, Sent(w), IsStale(w)
               PROVE  IsStale(w)'
    OBVIOUS
  <2>1. AnyStep
    BY StepCases DEF IInv
  <2>2. Generations /\ current_gen \in Nat /\ gen_counter \in Nat /\ gen \in [Work -> Nat]
    BY Typed DEF IInv
  <2>3. gen[w] <= current_gen /\ current_gen <= gen_counter /\ gen[w] \in Nat
    BY <2>2 DEF Generations
  <2>4. UNCHANGED <<gen_counter, gen, cancelled>> => IsStale(w)'
    BY DEF IsStale
  <2>5. CASE Sends
    <3>1. PICK v \in Work : Enqueue(v)
      BY <2>5 DEF Sends
    <3>2. /\ v # w /\ gen' = [gen EXCEPT ![v] = current_gen] /\ UNCHANGED gen_counter
          /\ UNCHANGED cancelled \/ Activate(v)
      BY <3>1, EnqueueEffect DEF Sent
    <3>3. gen'[w] = gen[w] /\ cancelled \subseteq cancelled'
      BY <2>2, <3>2 DEF Activate
    <3> QED BY <3>2, <3>3 DEF IsStale
  <2>6. CASE Interrupts
    <3>1. gen_counter' = current_gen + 1 /\ gen' = gen
      BY <2>6 DEF Interrupts, Interrupt, WQ!AdvanceGeneration
    <3>2. gen_counter' # gen'[w]
      BY <2>2, <2>3, <3>1
    <3> QED BY <3>2 DEF IsStale
  <2>7. CASE DeviceReplaced
    <3>1. gen_counter' = gen_counter + 1 /\ gen' = gen
      BY <2>7 DEF DeviceReplaced, queueVars
    <3>2. gen_counter' # gen'[w]
      BY <2>2, <2>3, <3>1
    <3> QED BY <3>2 DEF IsStale
  <2>8. CASE Closes \/ Reports \/ LoopStop \/ LoopRetire \/ LoopClose \/ WorkerRecv
             \/ WorkerMoves \/ WorkerGate \/ WorkerAppend \/ WorkerReport \/ ReporterTake
             \/ ReporterWrite \/ ReporterDropLease \/ Plays \/ Drain \/ UNCHANGED vars
    <3>1. WorkerRecv \/ LoopRetire \/ WorkerGate \/ WorkerAppend \/ WorkerMoves
             => UNCHANGED <<gen_counter, gen, cancelled>>
      BY RecvEffect, RetireEffect, GateEffect, AppendEffect, WorkerMovesEffect
         DEF queueVars, audioVars
    <3>2. LoopStop \/ Plays \/ Drain => UNCHANGED <<gen_counter, gen, cancelled>>
      BY DEF LoopStop, AC!Stop, Plays, Play, AC!SourceEnds, Drain, AC!DrainScheduled,
         AC!DrainSinks, queueVars, threadVars
    <3>3. Closes \/ Reports \/ LoopClose \/ WorkerReport \/ ReporterTake \/ ReporterWrite
          \/ ReporterDropLease \/ UNCHANGED vars => UNCHANGED <<gen_counter, gen, cancelled>>
      BY DEF Closes, Reports, ReportRetired, LoopClose, WQ!DropSender, WorkerReport,
         ReporterTake, ReporterWrite, ReporterDropLease, ReporterKeeps, vars, queueVars,
         audioVars, threadVars
    <3> QED BY <2>4, <2>8, <3>1, <3>2, <3>3
  <2> QED BY <2>1, <2>5, <2>6, <2>7, <2>8 DEF AnyStep
<1> QED BY <1>1, ServerInvariant, PTL DEF Spec, StaleForever

------------------------------
(* The server implements SpeechContract *)

\* The one answer of a request, and whether its audio was cut short.
Ans(w) == IF ~Sent(w) THEN "unsent"
          ELSE IF status[w] = <<>> THEN "open"
          ELSE IF Len(status[w]) = 1 THEN status[w][1]
          ELSE "twice"

Refused(w) == fate[w] \in {"Saturated", "ReceiverClosed"}

Cut(w) == \/ AC!InSink(w) /\ AC!IsRequested(w)
          \/ ticket[w] = "Cancelled"

\* The client's view, request by request.
LEMMA Views ==
    /\ \A w \in Work : /\ Answers[w] = Ans(w)
                       /\ w \in Heard <=> AC!Audible(w)
                       /\ w \in CutShort <=> Cut(w)
                       /\ w \in Superseded <=> w \in cancelled \/ Refused(w)
    /\ \A w \in Work : /\ Answers'[w] = Ans(w)'
                       /\ w \in Heard' <=> AC!Audible(w)'
                       /\ w \in CutShort' <=> Cut(w)'
                       /\ w \in Superseded' <=> w \in cancelled' \/ Refused(w)'
    /\ Heard \subseteq Work /\ Heard' \subseteq Work
    /\ CutShort \subseteq Work /\ CutShort' \subseteq Work
    /\ Answers = [w \in Work |-> Answers[w]] /\ Answers' = [w \in Work |-> Answers'[w]]
    /\ Superseded = cancelled \cup {w \in Work : Refused(w)}
    /\ Superseded' = cancelled' \cup {w \in Work : Refused(w)'}
BY DEF Answers, Heard, CutShort, Superseded, Ans, Refused, Cut

\* A request that was sent is open, answered, or answered twice.
LEMMA SentIsAnswered ==
    ASSUME IInv, NEW w \in Work
    PROVE  /\ Ans(w) = "unsent" <=> fate[w] = "unsent"
           /\ Ans(w) = "open" <=> fate[w] # "unsent" /\ status[w] = <<>>
<1>1. status[w] \in Seq(Outcome)
  BY Typed
<1>2. Len(status[w]) = 1 => status[w][1] \in Outcome
  <2>1. Len(status[w]) = 1 => 1 \in 1 .. Len(status[w])
    OBVIOUS
  <2> QED BY <1>1, <2>1
<1> QED BY <1>2 DEF Ans, Sent, Outcome

\* The answers and the epochs stay, and so does everything that is heard.
LEMMA SameView ==
    ASSUME UNCHANGED <<current_gen, gen, silenced, cancelled>>,
           \A w \in Work : /\ Ans(w)' = Ans(w)
                           /\ AC!Audible(w)' <=> AC!Audible(w)
                           /\ Cut(w)' <=> Cut(w)
                           /\ Refused(w)' <=> Refused(w)
    PROVE  UNCHANGED Contract!contractVars
<1>1. Answers' = Answers
  BY Views
<1>2. Heard' = Heard /\ CutShort' = CutShort /\ Superseded' = Superseded
  BY Views
<1> QED BY <1>1, <1>2 DEF Contract!contractVars

\* What is audible and what is cut depends on the output alone.
LEMMA SameAudio ==
    ASSUME UNCHANGED <<phase, ticket, held_token, stop_token, cancelled>>
    PROVE  \A w \in Work : /\ AC!Audible(w)' <=> AC!Audible(w)
                           /\ Cut(w)' <=> Cut(w)
BY DEF AC!Audible, AC!InSink, AC!IsRequested, Cut

\* Where a token that is cancelled comes from.
LEMMA TokensNameRequests ==
    ASSUME IInv, NEW w \in Work
    PROVE  /\ TokenOf[w] \in cancelled <=> w \in cancelled
           /\ IsReplaceable(w) => TokenOf[w] = w
           /\ ~IsReplaceable(w) => TokenOf[w] = NoRequest
BY Typed DEF IInv, LeasesOK, TokenOf

\* Retiring and receiving are not seen by the client.
LEMMA FateUnseen ==
    ASSUME IInv,
           UNCHANGED <<current_gen, gen, silenced, status>>,
           UNCHANGED <<phase, ticket, held_token, stop_token, cancelled>>,
           \A w \in Work : \/ fate'[w] = fate[w]
                           \/ /\ fate[w] = "queued"
                              /\ fate'[w] \in {"StaleGeneration", "delivered"}
    PROVE  UNCHANGED Contract!contractVars
<1>1. \A w \in Work : Ans(w)' = Ans(w) /\ (Refused(w)' <=> Refused(w))
  BY DEF Ans, Sent, Refused
<1> QED BY <1>1, SameAudio, SameView

\* Sending is Accept or Refuse.
LEMMA SendIsSeen ==
    ASSUME IInv, NEW w \in Work, Enqueue(w)
    PROVE  Contract!Accept(w) \/ Contract!Refuse(w)
<1>1. /\ fate[w] = "unsent" /\ gen' = [gen EXCEPT ![w] = current_gen]
      /\ UNCHANGED <<current_gen, silenced, status, phase, ticket, held_token, stop_token>>
  BY EnqueueEffect
<1>2. /\ status[w] = <<>> /\ registry \in [Domains -> Work \cup {NoRequest}]
      /\ NoRequest \notin Work
  BY <1>1, Typed DEF IInv, Accounts
<1>3. ASSUME fate'[w] # "unsent",
             \A v \in Work : v # w => (fate'[v] = "unsent" <=> fate[v] = "unsent")
      PROVE  Answers[w] = "unsent" /\ Answers' = [Answers EXCEPT ![w] = "open"]
  <2>1. Ans(w) = "unsent" /\ Ans(w)' = "open"
    BY <1>1, <1>2, <1>3 DEF Ans, Sent
  <2>2. \A v \in Work : v # w => Ans(v)' = Ans(v)
    BY <1>1, <1>3 DEF Ans, Sent
  <2>3. Answers = [v \in Work |-> Answers[v]] /\ Answers' = [v \in Work |-> Answers'[v]]
        /\ \A v \in Work : Answers[v] = Ans(v) /\ Answers'[v] = Ans(v)'
    BY Views
  <2> QED BY <2>1, <2>2, <2>3
<1>4. CASE /\ fate'[w] \in {"Saturated", "ReceiverClosed"}
           /\ \A v \in Work : v # w => fate'[v] = fate[v]
           /\ UNCHANGED <<queue, order, registry, cancelled>>
  <2>1. Answers[w] = "unsent" /\ Answers' = [Answers EXCEPT ![w] = "open"]
    BY <1>1, <1>3, <1>4
  <2>2. Heard' = Heard /\ CutShort' = CutShort
    BY <1>1, <1>4, SameAudio, Views
  <2>3. Superseded' = Superseded \cup {w}
    BY <1>1, <1>4, Views DEF Refused
  <2> QED BY <1>1, <2>1, <2>2, <2>3 DEF Contract!Refuse
<1>5. CASE /\ fate'[w] = "queued"
           /\ \A v \in Work : v # w =>
                 \/ fate'[v] = fate[v]
                 \/ fate[v] = "queued" /\ fate'[v] \in {"Replaced", "EvictedForCapacity"}
           /\ Activate(w)
  <2>1. Answers[w] = "unsent" /\ Answers' = [Answers EXCEPT ![w] = "open"]
    BY <1>1, <1>3, <1>5
  <2>2. \A v \in Work : Refused(v)' <=> Refused(v)
    BY <1>1, <1>5 DEF Refused
  <2> DEFINE rivals == {q \in Work \ {w} : Domain[q] = Domain[w] /\ Answers[q] # "unsent"}
             open == {q \in rivals : Answers[q] = "open"}
  <2>3. CASE ~IsReplaceable(w)
    <3>1. UNCHANGED cancelled
      BY <1>5, <2>3 DEF Activate
    <3>2. Heard' = Heard /\ CutShort' = CutShort
      BY <1>1, <3>1, SameAudio, Views
    <3>3. Superseded' = Superseded
      BY <2>2, <3>1, Views
    <3>4. /\ {} \in SUBSET rivals /\ Domain[w] = NoDomain
          /\ Superseded' = Superseded \cup {} /\ Heard' = Heard \ {}
          /\ CutShort' = CutShort \cup (Heard \cap {})
      BY <2>3, <3>2, <3>3 DEF IsReplaceable
    <3> QED BY <1>1, <2>1, <3>4 DEF Contract!Accept
  <2>4. CASE IsReplaceable(w)
    <3> DEFINE displaced == {registry[Domain[w]]} \ {NoRequest}
               old == open \cup displaced
    <3>1. cancelled' = cancelled \cup displaced /\ Domain[w] \in Domains
          /\ Domain[w] # NoDomain
      BY <1>5, <2>4 DEF Activate, IsReplaceable, Domains
    <3>2. displaced \subseteq Work
      BY <1>2, <3>1
    <3>3. \A q \in displaced : q \in rivals /\ IsReplaceable(q)
      <4> SUFFICES ASSUME NEW q \in displaced PROVE q \in rivals /\ IsReplaceable(q)
        OBVIOUS
      <4>1. q \in Work /\ Domain[q] = Domain[w] /\ fate[q] # "unsent"
        BY <3>1, <3>2 DEF IInv, LeasesOK, Sent
      <4> QED BY <1>1, <2>4, <4>1, SentIsAnswered, Views DEF IsReplaceable
    <3>4. \A q \in open : q \in displaced \/ q \in Superseded
      <4> SUFFICES ASSUME NEW q \in open PROVE q \in displaced \/ q \in Superseded
        OBVIOUS
      <4>1. q \in Work /\ IsReplaceable(q) /\ Domain[q] = Domain[w]
            /\ fate[q] # "unsent" /\ status[q] = <<>>
        BY <2>4, SentIsAnswered, Views DEF IsReplaceable
      <4>2. CASE order[q] > 0
        <5>1. registry[Domain[q]] = q \/ q \in cancelled
          BY <4>1, <4>2 DEF IInv, KeyedCanBeSuperseded
        <5> QED BY <1>2, <4>1, <5>1, Views
      <4>3. CASE ~(order[q] > 0)
        BY <4>1, <4>3, Views DEF IInv, LeasesOK, Refused
      <4> QED BY <4>2, <4>3
    <3>5. old \in SUBSET rivals /\ open \subseteq old
      BY <3>3
    <3>6. Superseded' = Superseded \cup old
      <4>1. Superseded' = cancelled' \cup {v \in Work : Refused(v)'}
            /\ Superseded = cancelled \cup {v \in Work : Refused(v)}
        BY Views
      <4> HIDE DEF displaced, open
      <4> QED BY <2>2, <3>1, <3>4, <4>1
    <3>7. \A q \in Work : Refused(q) => phase[q] # "sink"
      BY DEF IInv, WorkerOK, Refused
    <3>8. \A q \in Work : TokenOf[q] \in cancelled' <=> q \in cancelled \/ q \in displaced
      <4> SUFFICES ASSUME NEW q \in Work
                   PROVE  TokenOf[q] \in cancelled' <=> q \in cancelled \/ q \in displaced
        OBVIOUS
      <4>1. CASE IsReplaceable(q)
        BY <3>1, <4>1, TokensNameRequests
      <4>2. CASE ~IsReplaceable(q)
        <5>1. TokenOf[q] = NoRequest /\ (TokenOf[q] \in cancelled <=> q \in cancelled)
          BY <4>2, TokensNameRequests
        <5> QED BY <3>1, <3>3, <4>2, <5>1
      <4> QED BY <4>1, <4>2
    <3> HIDE DEF displaced, open, rivals
    <3>9. \A q \in Work : AC!Audible(q)' <=> AC!Audible(q) /\ q \notin old
      <4> SUFFICES ASSUME NEW q \in Work
                   PROVE  AC!Audible(q)' <=> AC!Audible(q) /\ q \notin old
        OBVIOUS
      <4>1. AC!Audible(q)' <=> AC!Audible(q) /\ q \notin displaced
        BY <1>1, <3>8, TokensNameRequests DEF AC!Audible, AC!InSink, AC!IsRequested
      <4>2. q \in open /\ q \notin displaced => ~AC!Audible(q)
        <5> SUFFICES ASSUME q \in open, q \notin displaced PROVE ~AC!Audible(q)
          OBVIOUS
        <5>1. q \in cancelled \/ Refused(q)
          BY <3>4, Views
        <5> QED BY <3>7, <5>1, TokensNameRequests DEF AC!Audible, AC!InSink, AC!IsRequested
      <4> QED BY <4>1, <4>2
    <3>10. \A q \in Work : Cut(q)' <=> Cut(q) \/ (AC!Audible(q) /\ q \in old)
      <4> SUFFICES ASSUME NEW q \in Work
                   PROVE  Cut(q)' <=> Cut(q) \/ (AC!Audible(q) /\ q \in old)
        OBVIOUS
      <4>1. AC!InSink(q)' <=> AC!InSink(q)
        BY <1>1 DEF AC!InSink
      <4>2. (AC!InSink(q) /\ AC!IsRequested(q)') <=>
               (AC!InSink(q) /\ AC!IsRequested(q)) \/ (AC!Audible(q) /\ q \in old)
        BY <3>9, <4>1, <1>1, <3>8, TokensNameRequests DEF AC!Audible, AC!IsRequested
      <4> QED BY <1>1, <4>1, <4>2 DEF Cut
    <3>11. Heard' = Heard \ old /\ CutShort' = CutShort \cup (Heard \cap old)
      BY <3>9, <3>10, Views
    <3> USE DEF rivals, open
    <3> HIDE DEF old
    <3> QED BY <1>1, <2>1, <3>1, <3>5, <3>6, <3>11 DEF Contract!Accept
  <2> QED BY <2>3, <2>4
<1> QED BY <1>4, <1>5, EnqueueEffect

\* Writing a record is the request's answer.
LEMMA RecordIsSeen ==
    ASSUME IInv, NEW w \in Work, NEW outcome \in Outcome,
           w \in Tracked, fate[w] # "unsent", status[w] = <<>>,
           ~AC!Audible(w), outcome = "completed" => ~Cut(w),
           status' = [status EXCEPT ![w] = Append(@, outcome)],
           UNCHANGED <<fate, current_gen, gen, silenced>>,
           UNCHANGED <<phase, ticket, held_token, stop_token, cancelled>>
    PROVE  Contract!Answer(w, outcome)
<1>1. status'[w] = <<outcome>> /\ \A v \in Work : v # w => status'[v] = status[v]
  <2>1. status \in [Work -> Seq(Outcome)] /\ Append(<<>>, outcome) = <<outcome>>
    BY Typed
  <2> QED BY <2>1
<1>2. Ans(w) = "open" /\ Ans(w)' = outcome
  <2>1. Len(<<outcome>>) = 1 /\ <<outcome>>[1] = outcome /\ <<outcome>> # <<>>
    OBVIOUS
  <2> QED BY <1>1, <2>1 DEF Ans, Sent
<1>3. \A v \in Work : v # w => Ans(v)' = Ans(v)
  BY <1>1 DEF Ans, Sent
<1>4. Answers' = [Answers EXCEPT ![w] = outcome] /\ Answers[w] = "open"
  <2>1. Answers = [v \in Work |-> Answers[v]] /\ Answers' = [v \in Work |-> Answers'[v]]
        /\ \A v \in Work : Answers[v] = Ans(v) /\ Answers'[v] = Ans(v)'
    BY Views
  <2> QED BY <1>2, <1>3, <2>1
<1>5. Heard' = Heard /\ CutShort' = CutShort
  BY SameAudio, Views
<1>6. Superseded' = Superseded
  BY Views DEF Refused
<1>7. w \notin Heard /\ (outcome = "completed" => w \notin CutShort)
  BY Views
<1> QED BY <1>4, <1>5, <1>6, <1>7 DEF Contract!Answer

\* Both ways a record is written.
LEMMA ReportsAreSeen ==
    ASSUME IInv, Reports \/ ReporterWrite
    PROVE  [Contract!Next]_(Contract!contractVars)
<1> USE DEF Contract!Next
<1>1. CASE Reports
  <2>1. PICK w \in Work : ReportRetired(w)
    BY <1>1 DEF Reports
  <2>2. /\ fate[w] \in Retirements /\ w \in reporting
        /\ UNCHANGED <<fate, current_gen, gen, silenced>>
        /\ UNCHANGED <<phase, ticket, held_token, stop_token, cancelled>>
    BY <2>1, Typed DEF ReportRetired, queueVars, audioVars, IInv, Accounts, Fates
  <2>3. status[w] = <<>> /\ phase[w] = "new"
    BY <2>2, Typed DEF IInv, Accounts, WorkerOK, Retirements
  <2>4. CASE w \in Tracked
    <3>1. PICK outcome \in {"cancelled", "failed"} : outcome = RetirementStatus(fate[w])
      BY DEF RetirementStatus
    <3>2. status' = [status EXCEPT ![w] = Append(@, outcome)]
      BY <2>1, <2>4, <3>1 DEF ReportRetired
    <3>3. ~AC!Audible(w) /\ fate[w] # "unsent"
      BY <2>2, <2>3 DEF AC!Audible, AC!InSink, Retirements
    <3>4. outcome \in Outcome /\ outcome # "completed"
      BY <3>1 DEF Outcome
    <3>5. Contract!Answer(w, outcome)
      BY <2>2, <2>3, <2>4, <3>2, <3>3, <3>4, RecordIsSeen
    <3> QED BY <3>4, <3>5 DEF Outcome
  <2>5. CASE w \notin Tracked
    <3>1. UNCHANGED status
      BY <2>1, <2>5 DEF ReportRetired
    <3> QED BY <2>2, <3>1, FateUnseen
  <2> QED BY <2>4, <2>5
<1>2. CASE ReporterWrite
  <2>1. reporter \in [req : Tracked, status : Outcome \cup {"written"}] /\ reporter.status \in Outcome
    BY <1>2 DEF ReporterWrite, IInv, ThreadTypeOK, Quiet
  <2>2. PICK w \in Work : w = reporter.req
    BY <2>1, ServerAssumption
  <2>3. PICK outcome \in Outcome : outcome = Awaited(reporter)
    BY <2>1 DEF Awaited, Outcome
  <2>4. /\ status' = [status EXCEPT ![w] = Append(@, outcome)]
        /\ ticket[w] # "pending" /\ w \in Tracked
        /\ UNCHANGED <<fate, current_gen, gen, silenced>>
        /\ UNCHANGED <<phase, ticket, held_token, stop_token, cancelled>>
    BY <1>2, <2>1, <2>2, <2>3 DEF ReporterWrite, ReporterKeeps, queueVars, audioVars
  <2>5. fate[w] = "delivered" /\ status[w] = <<>>
    BY <2>1, <2>2 DEF IInv, Accounts, AtReporter, Outcome
  <2>6. phase[w] # "sink"
    BY <2>4 DEF IInv, ACP!AudioInv, ACP!TicketsMatch
  <2>7. ~AC!Audible(w) /\ (outcome = "completed" => ~Cut(w))
    BY <2>2, <2>3, <2>6 DEF AC!Audible, AC!InSink, Cut, Awaited
  <2>8. Contract!Answer(w, outcome)
    BY <2>4, <2>5, <2>7, RecordIsSeen
  <2> QED BY <2>8 DEF Outcome
<1> QED BY <1>1, <1>2

\* Stopping streams silences them.
LEMMA SilenceIsSeen ==
    ASSUME IInv, NEW S \in SUBSET Stream,
           UNCHANGED <<fate, status, current_gen, gen, cancelled>>,
           silenced' = [st \in Stream |-> IF st \in S THEN current_gen ELSE silenced[st]],
           \A w \in Work :
              /\ AC!Audible(w)' <=> AC!Audible(w) /\ StreamOf[w] \notin S
              /\ Cut(w)' <=> Cut(w) \/ (AC!Audible(w) /\ StreamOf[w] \in S)
    PROVE  Contract!Silence(S)
<1>1. Answers' = Answers /\ Superseded' = Superseded
  BY Views DEF Ans, Sent, Refused
<1>2. Heard' = {r \in Heard : StreamOf[r] \notin S}
  BY Views
<1>3. CutShort' = CutShort \cup {r \in Heard : StreamOf[r] \in S}
  BY Views
<1> QED BY <1>1, <1>2, <1>3 DEF Contract!Silence

LEMMA StopIsSeen ==
    ASSUME IInv, LoopStop
    PROVE  \E S \in SUBSET Stream : Contract!Silence(S)
<1>1. PICK st \in Stream : AC!Stop(st) /\ silenced' = [silenced EXCEPT ![st] = current_gen]
  BY HeadStep DEF LoopStop, Doing, IInv
<1>2. /\ UNCHANGED <<fate, status, current_gen, gen, cancelled, held_token>>
      /\ silenced' = [o \in Stream |-> IF o \in {st} THEN current_gen ELSE silenced[o]]
  <2>1. silenced' = [o \in Stream |-> IF o \in {st} THEN current_gen ELSE silenced[o]]
    BY <1>1, Typed
  <2>2. UNCHANGED <<cancelled, held_token>>
    BY <1>1 DEF AC!Stop
  <2> QED BY <2>1, <2>2 DEF LoopStop, queueVars
<1>3. ASSUME NEW w \in Work
      PROVE  /\ AC!Audible(w)' <=> AC!Audible(w) /\ StreamOf[w] # st
             /\ Cut(w)' <=> Cut(w) \/ (AC!Audible(w) /\ StreamOf[w] = st)
  <2>1. CASE AC!SmoothStop(st)
    <3>1. UNCHANGED <<phase, ticket>> /\ stop_token' = [stop_token EXCEPT ![st] = @ + 1]
      BY <1>1, <2>1 DEF AC!Stop
    <3>2. stop_token \in [Stream -> Nat] /\ held_token \in [Work -> Nat]
      BY DEF IInv, ACP!AudioInv, ACP!ControlTypeOK
    <3>3. CASE StreamOf[w] = st
      <4>1. phase[w] = "sink" => held_token[w] <= stop_token[st]
        BY <3>3 DEF IInv, ACP!AudioInv, ACP!ChecksHold
      <4>2. stop_token'[st] = stop_token[st] + 1
        BY <3>1, <3>2
      <4>3. phase[w] = "sink" => held_token[w] # stop_token'[st]
        BY <3>2, <4>1, <4>2
      <4> QED BY <1>2, <2>1, <3>1, <3>3, <4>3
              DEF AC!Audible, AC!InSink, AC!IsRequested, AC!SmoothStop, Cut
    <3>4. CASE StreamOf[w] # st
      <4>1. stop_token'[StreamOf[w]] = stop_token[StreamOf[w]]
        BY <3>1, <3>2, <3>4
      <4> QED BY <1>2, <3>1, <3>4, <4>1 DEF AC!Audible, AC!InSink, AC!IsRequested, Cut
    <3> QED BY <3>3, <3>4
  <2>2. CASE ~AC!SmoothStop(st)
    <3>1. /\ phase'[w] = (IF AC!InSink(w) /\ StreamOf[w] = st THEN "done" ELSE phase[w])
          /\ ticket'[w] = (IF AC!InSink(w) /\ StreamOf[w] = st THEN "Cancelled" ELSE ticket[w])
          /\ UNCHANGED stop_token
      BY <1>1, <2>2 DEF AC!Stop, AC!DropAll
    <3> QED BY <1>2, <3>1 DEF AC!Audible, AC!InSink, AC!IsRequested, Cut
  <2> QED BY <2>1, <2>2
<1>4. Contract!Silence({st})
  BY <1>2, <1>3, SilenceIsSeen
<1> QED BY <1>4

LEMMA ReplacementIsSeen ==
    ASSUME IInv, DeviceReplaced
    PROVE  Contract!Silence(Stream)
<1>1. /\ AC!InterruptOutput /\ silenced' = [st \in Stream |-> current_gen]
      /\ UNCHANGED <<fate, status, current_gen, gen>>
  BY DEF DeviceReplaced, queueVars
<1>2. UNCHANGED cancelled
  BY <1>1 DEF AC!InterruptOutput
<1>3. ASSUME NEW w \in Work
      PROVE  /\ AC!Audible(w)' <=> AC!Audible(w) /\ StreamOf[w] \notin Stream
             /\ Cut(w)' <=> Cut(w) \/ (AC!Audible(w) /\ StreamOf[w] \in Stream)
  <2>1. /\ phase'[w] = (IF AC!InSink(w) THEN "done" ELSE phase[w])
        /\ ticket'[w] = (IF AC!InSink(w) THEN "Cancelled" ELSE ticket[w])
        /\ StreamOf[w] \in Stream
    BY <1>1, Typed DEF AC!InterruptOutput
  <2> QED BY <2>1 DEF AC!Audible, AC!InSink, Cut
<1>4. silenced' = [st \in Stream |-> IF st \in Stream THEN current_gen ELSE silenced[st]]
  BY <1>1
<1> QED BY <1>1, <1>2, <1>3, <1>4, SilenceIsSeen

\* Appending to a stream is where a request starts to be heard.
LEMMA AppendIsSeen ==
    ASSUME IInv, WorkerAppend
    PROVE  [Contract!Next]_(Contract!contractVars)
<1>1. PICK w \in Work : w = worker.req
  BY AppendEffect
<1>2. /\ worker.pc = "append" /\ fate[w] = "delivered" /\ phase[w] = "gate"
      /\ ticket[w] = "none" /\ status[w] = <<>>
      /\ UNCHANGED <<fate, status, current_gen, gen, silenced, stop_token, cancelled>>
  <2>1. /\ worker.pc = "append" /\ fate[w] = "delivered" /\ phase[w] = "gate"
        /\ UNCHANGED <<queueVars, current_gen, status, silenced, stop_token, cancelled>>
    BY <1>1, AppendEffect
  <2>2. ticket[w] = "none"
    BY <2>1 DEF IInv, ACP!AudioInv, ACP!TicketsMatch
  <2>3. status[w] = <<>>
    BY <1>1, <2>1 DEF IInv, Accounts, InWorker
  <2> QED BY <2>1, <2>2, <2>3 DEF queueVars
<1>3. Answers' = Answers /\ Superseded' = Superseded
  BY <1>2, Views DEF Ans, Sent, Refused
<1>4. ~AC!Audible(w) /\ ~Cut(w)
  BY <1>2 DEF AC!Audible, AC!InSink, Cut
<1>6. Contract!Next
  <2> DEFINE st == StreamOf[w]
             full == Len(sink[st]) >= MaxDepth[st]
             lost == IF full THEN {q \in Heard : StreamOf[q] = st} ELSE {}
             heard == IF phase'[w] = "sink" THEN {w} ELSE {}
  <2>1. /\ \/ phase'[w] = "sink" /\ ticket'[w] = "pending" /\ held_token'[w] = stop_token[st]
           \/ phase'[w] = "failed" /\ ticket'[w] = "none"
        /\ \A v \in Work : v # w =>
              /\ phase'[v] = IF full /\ AC!InSink(v) /\ StreamOf[v] = st THEN "done" ELSE phase[v]
              /\ ticket'[v] = IF full /\ AC!InSink(v) /\ StreamOf[v] = st THEN "Cancelled"
                              ELSE ticket[v]
              /\ held_token'[v] = held_token[v]
    <3>1. held_token \in [Work -> Nat]
      BY DEF IInv, ACP!AudioInv, ACP!ControlTypeOK
    <3>2. CASE AC!QueueAppend(w)
      BY <3>1, <3>2 DEF AC!QueueAppend, AC!Append1
    <3>3. CASE AC!AppendError(w)
      BY <1>2, <3>3 DEF AC!AppendError, AC!InSink
    <3> QED BY <1>1, <3>2, <3>3 DEF WorkerAppend
  <2> HIDE DEF full
  <2>2. AC!Audible(w)' <=> w \in heard \ Superseded
    <3>1. w \in Superseded <=> w \in cancelled
      BY <1>2, Views DEF Refused
    <3>2. AC!Audible(w)' <=> phase'[w] = "sink" /\ TokenOf[w] \notin cancelled
      BY <1>2, <2>1 DEF AC!Audible, AC!InSink, AC!IsRequested
    <3> QED BY <3>1, <3>2, TokensNameRequests
  <2>3. Cut(w)' <=> w \in heard \cap Superseded
    BY <1>2, <2>1, <2>2 DEF Cut, AC!Audible, AC!InSink
  <2>4. ASSUME NEW v \in Work, v # w
        PROVE  /\ AC!Audible(v)' <=> AC!Audible(v) /\ ~(full /\ StreamOf[v] = st)
               /\ Cut(v)' <=> Cut(v) \/ (AC!Audible(v) /\ full /\ StreamOf[v] = st)
    <3>1. CASE full /\ AC!InSink(v) /\ StreamOf[v] = st
      BY <2>1, <2>4, <3>1 DEF AC!Audible, AC!InSink, Cut
    <3>2. CASE ~(full /\ AC!InSink(v) /\ StreamOf[v] = st)
      BY <1>2, <2>1, <2>4, <3>2 DEF AC!Audible, AC!InSink, AC!IsRequested, Cut
    <3> QED BY <3>1, <3>2
  <2>5. Heard' = (Heard \ lost) \cup (heard \ Superseded)
    <3>1. \A v \in Work : v \in lost <=> full /\ AC!Audible(v) /\ StreamOf[v] = st
      BY Views
    <3>2. lost \subseteq Work /\ Heard \subseteq Work /\ Heard' \subseteq Work
      BY Views
    <3>3. \A v \in Work : (v \in Heard <=> AC!Audible(v)) /\ (v \in Heard' <=> AC!Audible(v)')
      BY Views
    <3>5. heard \subseteq {w}
      OBVIOUS
    <3> HIDE DEF lost, heard
    <3>4. \A v \in Work : v \in Heard' <=> v \in (Heard \ lost) \cup (heard \ Superseded)
      <4> SUFFICES ASSUME NEW v \in Work
                   PROVE  v \in Heard' <=> v \in (Heard \ lost) \cup (heard \ Superseded)
        OBVIOUS
      <4>1. CASE v = w
        BY <1>4, <2>2, <3>3, <4>1
      <4>2. CASE v # w
        BY <2>4, <3>1, <3>3, <3>5, <4>2
      <4> QED BY <4>1, <4>2
    <3> QED BY <3>2, <3>4, <3>5
  <2>6. CutShort' = CutShort \cup lost \cup (heard \cap Superseded)
    <3>1. \A v \in Work : v \in lost <=> full /\ AC!Audible(v) /\ StreamOf[v] = st
      BY Views
    <3>2. lost \subseteq Work /\ CutShort \subseteq Work /\ CutShort' \subseteq Work
      BY Views
    <3>3. \A v \in Work : (v \in CutShort <=> Cut(v)) /\ (v \in CutShort' <=> Cut(v)')
      BY Views
    <3>5. heard \subseteq {w}
      OBVIOUS
    <3> HIDE DEF lost, heard
    <3>4. \A v \in Work : v \in CutShort' <=> v \in CutShort \cup lost \cup (heard \cap Superseded)
      <4> SUFFICES ASSUME NEW v \in Work
                   PROVE  v \in CutShort' <=> v \in CutShort \cup lost \cup (heard \cap Superseded)
        OBVIOUS
      <4>1. CASE v = w
        BY <1>4, <2>3, <3>1, <3>3, <4>1
      <4>2. CASE v # w
        BY <2>4, <3>1, <3>3, <3>5, <4>2
      <4> QED BY <4>1, <4>2
    <3> QED BY <3>2, <3>4, <3>5
  <2>7. Answers[w] = "open" /\ w \notin Heard \cup CutShort
    BY <1>2, <1>4, Views, SentIsAnswered
  <2>8. gen[w] >= silenced[st]
    <3>1. silenced[st] <= gen[w] /\ silenced[st] \in Nat /\ gen[w] \in Nat
      BY <1>2, Typed DEF IInv, GateOK
    <3> QED BY <3>1
  <2>9. lost \in {{}, {q \in Heard : StreamOf[q] = StreamOf[w]}}
    OBVIOUS
  <2>11. heard \in {{}, {w}}
    OBVIOUS
  <2> HIDE DEF lost, heard
  <2>10. Contract!Hear(w)
    BY <1>2, <1>3, <2>5, <2>6, <2>7, <2>8, <2>9, <2>11 DEF Contract!Hear
  <2> QED BY <2>10 DEF Contract!Next
<1> QED BY <1>6

\* A source that ends has played out, unless it had been cut before.
LEMMA EndIsSeen ==
    ASSUME IInv, Plays
    PROVE  [Contract!Next]_(Contract!contractVars)
<1>1. PICK st \in Stream : AC!SourceEnds(st)
  BY DEF Plays, Play
<1>2. UNCHANGED <<fate, status, current_gen, gen, silenced>>
  BY DEF Plays, Play, queueVars, threadVars
<1>3. PICK w \in Work : w = Head(sink[st]) /\ phase[w] = "sink" /\ ticket[w] = "pending"
  <2>1. sink[st] # <<>>
    BY <1>1 DEF AC!SourceEnds
  <2> QED BY <2>1, ACP!HeadPlays, AudioAssumed DEF IInv
<1>4. /\ phase' = [phase EXCEPT ![w] = "done"]
      /\ ticket' = [ticket EXCEPT ![w] = AC!EndStatus(w)]
      /\ UNCHANGED <<held_token, stop_token, cancelled>>
  BY <1>1, <1>3 DEF AC!SourceEnds
<1>5. /\ phase'[w] = "done" /\ ticket'[w] = AC!EndStatus(w)
      /\ \A v \in Work : v # w => phase'[v] = phase[v] /\ ticket'[v] = ticket[v]
  BY <1>4, Typed
<1>6. /\ ~AC!Audible(w)'
      /\ \A v \in Work : v # w => (AC!Audible(v)' <=> AC!Audible(v))
      /\ \A v \in Work : Cut(v)' <=> Cut(v)
  <2>1. ~AC!Audible(w)' /\ (Cut(w)' <=> Cut(w))
    BY <1>3, <1>5 DEF AC!Audible, AC!InSink, AC!EndStatus, Cut
  <2>2. ASSUME NEW v \in Work, v # w
        PROVE  (AC!Audible(v)' <=> AC!Audible(v)) /\ (Cut(v)' <=> Cut(v))
    BY <1>4, <1>5, <2>2 DEF AC!Audible, AC!InSink, AC!IsRequested, Cut
  <2> QED BY <2>1, <2>2
<1>7. Answers' = Answers /\ Superseded' = Superseded /\ CutShort' = CutShort
  BY <1>2, <1>4, <1>6, Views DEF Ans, Sent, Refused
<1>8. CASE AC!Audible(w)
  <2>1. Heard' = Heard \ {w} /\ w \in Heard
    BY <1>6, <1>8, Views
  <2>2. Contract!PlayedOut(w)
    BY <1>2, <1>7, <2>1 DEF Contract!PlayedOut
  <2> QED BY <2>2 DEF Contract!Next
<1>9. CASE ~AC!Audible(w)
  <2>1. Heard' = Heard
    BY <1>6, <1>9, Views
  <2> QED BY <1>2, <1>7, <2>1 DEF Contract!contractVars
<1> QED BY <1>8, <1>9

\* Every step of the server is a step of the contract, or is not seen.
LEMMA ContractSteps == IInv /\ [Next]_vars => [Contract!Next]_(Contract!contractVars)
<1> SUFFICES ASSUME IInv, [Next]_vars PROVE [Contract!Next]_(Contract!contractVars)
  OBVIOUS
<1>1. AnyStep
  BY StepCases DEF IInv
<1>2. CASE Sends
  BY <1>2, SendIsSeen DEF Sends, Contract!Next
<1>3. CASE Interrupts
  <2>1. /\ current_gen' = current_gen + 1
        /\ UNCHANGED <<fate, status, gen, silenced>>
        /\ UNCHANGED <<phase, ticket, held_token, stop_token, cancelled>>
    BY <1>3 DEF Interrupts, Interrupt, WQ!AdvanceGeneration, audioVars
  <2>2. Answers' = Answers /\ Superseded' = Superseded
    BY <2>1, Views DEF Ans, Sent, Refused
  <2>3. Heard' = Heard /\ CutShort' = CutShort
    BY <2>1, SameAudio, Views
  <2> QED BY <2>1, <2>2, <2>3 DEF Contract!Interrupt, Contract!Next
<1>4. CASE Reports \/ ReporterWrite
  BY <1>4, ReportsAreSeen
<1>5. CASE LoopStop
  BY <1>5, StopIsSeen DEF Contract!Next
<1>6. CASE DeviceReplaced
  BY <1>6, ReplacementIsSeen DEF Contract!Next
<1>7. CASE WorkerAppend
  BY <1>7, AppendIsSeen
<1>8. CASE Plays
  BY <1>8, EndIsSeen
<1>9. CASE LoopRetire \/ WorkerRecv
  <2>1. /\ UNCHANGED <<current_gen, gen, silenced, status>>
        /\ UNCHANGED <<phase, ticket, held_token, stop_token, cancelled>>
    BY <1>9, RetireEffect, RecvEffect DEF audioVars
  <2>2. \A w \in Work : \/ fate'[w] = fate[w]
                      \/ /\ fate[w] = "queued"
                         /\ fate'[w] \in {"StaleGeneration", "delivered"}
    BY <1>9, RetireEffect, RecvEffect
  <2> QED BY <2>1, <2>2, FateUnseen
<1>10. CASE WorkerGate
  <2>1. PICK w \in Work : w = worker.req
    BY <1>10, GateEffect
  <2>2. /\ phase[w] = "new" /\ phase'[w] \in {"gate", "refused"}
        /\ \A v \in Work : v # w => phase'[v] = phase[v]
        /\ UNCHANGED <<fate, status, current_gen, gen, silenced>>
        /\ UNCHANGED <<ticket, stop_token, held_token, cancelled>>
    BY <1>10, <2>1, GateEffect DEF IInv, WorkerOK, queueVars
  <2>3. ASSUME NEW v \in Work
        PROVE  /\ Ans(v)' = Ans(v) /\ (Refused(v)' <=> Refused(v))
               /\ AC!Audible(v)' <=> AC!Audible(v)
               /\ Cut(v)' <=> Cut(v)
    <3>1. Ans(v)' = Ans(v) /\ (Refused(v)' <=> Refused(v))
      BY <2>2 DEF Ans, Sent, Refused
    <3>2. AC!InSink(v)' <=> AC!InSink(v)
      BY <2>2 DEF AC!InSink
    <3>3. AC!IsRequested(v)' <=> AC!IsRequested(v)
      BY <2>2 DEF AC!IsRequested
    <3> QED BY <2>2, <3>1, <3>2, <3>3 DEF AC!Audible, Cut
  <2> QED BY <2>2, <2>3, SameView
<1>11. CASE Closes \/ LoopClose \/ WorkerMoves \/ WorkerReport \/ ReporterTake
            \/ ReporterDropLease \/ Drain \/ UNCHANGED vars
  <2>1. WorkerMoves => /\ UNCHANGED <<fate, current_gen, gen, silenced, status>>
                       /\ UNCHANGED <<phase, ticket, held_token, stop_token, cancelled>>
    BY WorkerMovesEffect DEF queueVars, audioVars
  <2>2. Closes \/ LoopClose \/ WorkerReport \/ ReporterTake \/ ReporterDropLease
        \/ Drain \/ UNCHANGED vars
           => /\ UNCHANGED <<fate, current_gen, gen, silenced, status>>
              /\ UNCHANGED <<phase, ticket, held_token, stop_token, cancelled>>
    BY DEF Closes, LoopClose, WQ!DropSender, WorkerReport, ReporterTake, ReporterDropLease,
       ReporterKeeps, Drain, AC!DrainScheduled, AC!DrainSinks, vars, queueVars, audioVars,
       threadVars
  <2> QED BY <1>11, <2>1, <2>2, FateUnseen
<1> QED BY <1>1, <1>2, <1>3, <1>4, <1>5, <1>6, <1>7, <1>8, <1>9, <1>10, <1>11 DEF AnyStep

LEMMA ContractBegins == Init => Contract!Init
<1> SUFFICES ASSUME Init PROVE Contract!Init
  OBVIOUS
<1>1. /\ fate = [w \in Work |-> "unsent"] /\ gen = [w \in Work |-> 0] /\ current_gen = 0
      /\ phase = [w \in Work |-> "new"] /\ ticket = [w \in Work |-> "none"]
      /\ cancelled = {} /\ silenced = [st \in Stream |-> 0]
  BY DEF Init, WQ!Init, AC!AudioInit
<1>2. Answers = [w \in Work |-> "unsent"]
  BY <1>1 DEF Answers, Sent
<1>3. Heard = {} /\ CutShort = {} /\ Superseded = {}
  BY <1>1 DEF Heard, CutShort, Superseded, AC!Audible, AC!InSink
<1> QED BY <1>1, <1>2, <1>3 DEF Contract!Init

\* The server implements SpeechContract: what is superseded or stopped is not
\* heard again, and one answer comes after the audio, "completed" only if
\* nothing of it was cut.
THEOREM ServerImplementsContract == Spec => KeepsContract
<1>1. IInv /\ [Next]_vars => [Contract!Next]_(Contract!contractVars)
  BY ContractSteps
<1> QED BY <1>1, ContractBegins, ServerInvariant, PTL DEF Spec, KeepsContract, Contract!Spec
=============================================================================
