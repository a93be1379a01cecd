---------------------------- MODULE LinuxHelpers ----------------------------
(***************************************************************************)
(* The Linux Eloquence and DECtalk helpers (linux-helpers/src).  One owner *)
(* thread makes every native call.  A request hands it a job and receives  *)
(* events through a bounded queue of its own; a request that is cancelled  *)
(* or refused goes away while the owner is still inside its native call,   *)
(* and the next job waits behind it.  DECtalk reports an index with the    *)
(* PCM after it, so its capture holds one block back.                      *)
(*                                                                         *)
(* A request carries what its text plans and its native script: buffers of *)
(* frames and the indexes, numbered in plan order, that come with them.    *)
(*                                                                         *)
(* The second half is the MBROLA helper, which runs child processes        *)
(* instead and shares no state with the first.                             *)
(***************************************************************************)
EXTENDS Naturals, Sequences, FiniteSets, SequencesExt

CONSTANTS
    LnRequests,       \* sequence of requests served: [engine, sentences, words,
                      \*                               anchors, script]
    EVENT_QUEUE,      \* QUEUE_CAPACITY
    LnMarkLimit,      \* MAX_MARKERS
    LnFrameLimit      \* frames one request may return

VARIABLES
    lnServed,    \* requests begun; the last one is current
    lnPhase,     \* the consumer: idle, starting, sending, receiving
    lnTokens,    \* requests whose token is set
    lnEpoch,     \* stop_epoch
    lnExpected,  \* the epoch each request began in
    lnAborted,   \* requests whose aborted flag is set
    lnOpen,      \* requests whose receiver is alive
    lnQueue,     \* request -> events sent and not received
    lnJobs,      \* the job channel, capacity one
    lnJob,       \* the job the owner runs, 0 for none
    lnAt,        \* position in its native script
    lnCapture,   \* DectalkCapture / EciCapture
    lnOut,       \* events the capture is sending
    lnHeard,     \* what the current request's sink has had
    lnLate       \* a marker came after its audio

lnVars == <<lnServed, lnPhase, lnTokens, lnEpoch, lnExpected, lnAborted, lnOpen, lnQueue,
            lnJobs, lnJob, lnAt, lnCapture, lnOut, lnHeard, lnLate>>

LnNumbers == 1..Len(LnRequests)
NoFrames == 0

------------------------------
\* Plan::new.  Sentence and word starts, and for an exact engine the
\* anchors, in order of position and priority; a native index per entry.
TextEntries(request) ==
    {[at |-> request.sentences[s], priority |-> 1, mark |-> [kind |-> "sentence", ref |-> s]] :
        s \in 1..Len(request.sentences)}
    \cup {[at |-> request.words[w], priority |-> 2, mark |-> [kind |-> "word", ref |-> w]] :
        w \in 1..Len(request.words)}
AnchorMark(a) == [kind |-> "anchor", ref |-> a]
AnchorEntries(request) ==
    {[at |-> request.anchors[a].offset, mark |-> AnchorMark(a),
      priority |-> IF request.anchors[a].before THEN 0 ELSE 3] :
        a \in 1..Len(request.anchors)}
EntryBefore(e, f) ==
    \/ e.at < f.at
    \/ e.at = f.at /\ e.priority < f.priority
    \/ e.at = f.at /\ e.priority = f.priority /\ e.mark.ref < f.mark.ref
PlanEntries(request) ==
    SetToSortSeq(TextEntries(request) \cup
                 (IF request.engine = "eloquence" THEN AnchorEntries(request) ELSE {}),
                 EntryBefore)

\* DECtalk ties an anchor to a word's index: the first at or after it, or
\* the last at or before it; without one it leads or trails the span.
WordIndexes(request, entries) == {i \in 1..Len(entries) : entries[i].mark.kind = "word"}
AnchorIndex(request, entries, a) ==
    LET anchor == request.anchors[a]
        fits == {i \in WordIndexes(request, entries) :
                    IF anchor.before THEN entries[i].at >= anchor.offset
                    ELSE entries[i].at <= anchor.offset}
    IN IF fits = {} THEN 0
       ELSE CHOOSE i \in fits : \A j \in fits : IF anchor.before THEN i <= j ELSE i >= j
TiedAnchors(request, entries, i) ==
    SelectSeq([a \in 1..Len(request.anchors) |-> a],
              LAMBDA a : AnchorIndex(request, entries, a) = i)
LooseAnchors(request, entries, before) ==
    SelectSeq([a \in 1..Len(request.anchors) |-> a],
              LAMBDA a : /\ AnchorIndex(request, entries, a) = 0
                         /\ request.anchors[a].before = before)
MarksOf(anchors) == [k \in 1..Len(anchors) |-> AnchorMark(anchors[k])]
Plan(request) ==
    LET entries == PlanEntries(request)
        exact == request.engine = "eloquence"
    IN [pending |-> [i \in 1..Len(entries) |->
                        <<entries[i].mark>> \o
                        (IF exact THEN <<>> ELSE MarksOf(TiedAnchors(request, entries, i)))],
        reached |-> {},
        leading |-> IF exact THEN <<>> ELSE MarksOf(LooseAnchors(request, entries, TRUE)),
        trailing |-> IF exact THEN <<>> ELSE MarksOf(LooseAnchors(request, entries, FALSE))]

At(marks, frame) == [k \in 1..Len(marks) |-> [mark |-> marks[k], frame |-> frame]]
Reachable(plan, i) == i \in DOMAIN plan.pending \ plan.reached
PlanFinishes(plan) ==
    \A i \in DOMAIN plan.pending \ plan.reached : \A m \in Range(plan.pending[i]) :
        m.kind # "anchor"

------------------------------
IdleCapture ==
    [plan |-> [pending |-> <<>>, reached |-> {}, leading |-> <<>>, trailing |-> <<>>],
     frames |-> 0, block |-> NoFrames, marks |-> <<>>, count |-> 0, failed |-> FALSE]

LnInit ==
    /\ lnServed = 0
    /\ lnPhase = "idle"
    /\ lnTokens = {}
    /\ lnEpoch = 0
    /\ lnExpected = [k \in LnNumbers |-> 0]
    /\ lnAborted = {}
    /\ lnOpen = {}
    /\ lnQueue = [k \in LnNumbers |-> <<>>]
    /\ lnJobs = <<>>
    /\ lnJob = 0
    /\ lnAt = 0
    /\ lnCapture = IdleCapture
    /\ lnOut = <<>>
    /\ lnHeard = <<>>
    /\ lnLate = FALSE

LnCancelled(k) == k \in lnAborted \/ lnEpoch # lnExpected[k] \/ k \in lnTokens

ownerVars == <<lnJob, lnAt, lnCapture, lnOut>>

------------------------------
\* The consumer: synthesize_stream on the host's worker thread.
LnBegin ==
    /\ lnPhase = "idle"
    /\ lnServed < Len(LnRequests)
    /\ lnServed' = lnServed + 1
    /\ lnPhase' = "starting"
    /\ lnExpected' = [lnExpected EXCEPT ![lnServed + 1] = lnEpoch]
    /\ lnHeard' = <<>>
    /\ UNCHANGED <<lnTokens, lnEpoch, lnAborted, lnOpen, lnQueue, lnJobs, ownerVars, lnLate>>
\* The check, sink.start, and the send, which waits for the job channel.
LnStart ==
    /\ lnPhase = "starting"
    /\ IF LnCancelled(lnServed)
       THEN lnPhase' = "idle" /\ UNCHANGED lnOpen
       ELSE lnPhase' = "sending" /\ lnOpen' = lnOpen \cup {lnServed}
    /\ UNCHANGED <<lnServed, lnTokens, lnEpoch, lnExpected, lnAborted, lnQueue, lnJobs,
                   ownerVars, lnHeard, lnLate>>
LnSendJob ==
    /\ lnPhase = "sending"
    /\ lnJobs = <<>>
    /\ lnJobs' = <<lnServed>>
    /\ lnPhase' = "receiving"
    /\ UNCHANGED <<lnServed, lnTokens, lnEpoch, lnExpected, lnAborted, lnOpen, lnQueue,
                   ownerVars, lnHeard, lnLate>>

HeardFrames ==
    FoldLeft(LAMBDA sum, e : IF e.kind = "audio" THEN sum + e.frames ELSE sum, 0, lnHeard)
ArrivesLate(event) ==
    event.kind = "marks" /\ \E m \in Range(event.marks) : m.frame < HeardFrames

\* One event.  A failed native call, a marker behind the audio or a sink
\* that refuses ends the stream: the capture is told and the queue closed.
LnReceive ==
    /\ lnPhase = "receiving"
    /\ lnQueue[lnServed] # <<>>
    /\ LET event == Head(lnQueue[lnServed])
           refused == lnServed \in lnTokens
           over == event.kind = "finished"
           fails == IF over THEN event.failed ELSE refused \/ ArrivesLate(event)
       IN /\ lnHeard' = IF over \/ fails THEN lnHeard ELSE Append(lnHeard, event)
          /\ lnLate' = (lnLate \/ ArrivesLate(event))
          /\ IF over \/ fails
             THEN /\ lnPhase' = "idle"
                  /\ lnOpen' = lnOpen \ {lnServed}
                  /\ lnAborted' = IF fails THEN lnAborted \cup {lnServed} ELSE lnAborted
                  /\ lnQueue' = [lnQueue EXCEPT ![lnServed] = <<>>]
             ELSE /\ lnQueue' = [lnQueue EXCEPT ![lnServed] = Tail(@)]
                  /\ UNCHANGED <<lnPhase, lnOpen, lnAborted>>
    /\ UNCHANGED <<lnServed, lnTokens, lnEpoch, lnExpected, lnJobs, ownerVars>>

\* The host cancels the active request: its token, then stop.
LnCancelToken ==
    /\ lnPhase # "idle"
    /\ lnServed \notin lnTokens
    /\ lnTokens' = lnTokens \cup {lnServed}
    /\ UNCHANGED <<lnServed, lnPhase, lnEpoch, lnExpected, lnAborted, lnOpen, lnQueue,
                   lnJobs, ownerVars, lnHeard, lnLate>>
LnStop ==
    /\ lnServed \in lnTokens
    /\ lnPhase # "idle"
    /\ lnEpoch = lnExpected[lnServed]
    /\ lnEpoch' = lnEpoch + 1
    /\ UNCHANGED <<lnServed, lnPhase, lnTokens, lnExpected, lnAborted, lnOpen, lnQueue,
                   lnJobs, ownerVars, lnHeard, lnLate>>

------------------------------
(* The owner thread. *)
consumerVars == <<lnServed, lnPhase, lnTokens, lnEpoch, lnExpected, lnHeard>>

\* The next job: reset the native engine, plan the indexes and install the
\* capture, unless the request is already cancelled.
LnTakeJob ==
    /\ lnJob = 0
    /\ lnJobs # <<>>
    /\ lnJob' = Head(lnJobs)
    /\ lnJobs' = Tail(lnJobs)
    /\ LET plan == Plan(LnRequests[Head(lnJobs)])
       IN IF LnCancelled(Head(lnJobs))
          THEN /\ lnCapture' = [IdleCapture EXCEPT !.failed = TRUE]
               /\ lnAt' = Len(LnRequests[Head(lnJobs)].script) + 1
          ELSE /\ lnCapture' = [IdleCapture EXCEPT !.plan = plan, !.marks = At(plan.leading, 0)]
               /\ lnAt' = 1
    /\ lnOut' = <<>>
    /\ UNCHANGED <<consumerVars, lnAborted, lnOpen, lnQueue, lnLate>>

ByFrame(marks) == SortSeq(marks, LAMBDA m, n : m.frame < n.frame)
Through(marks, frame) == SelectSeq(marks, LAMBDA m : m.frame <= frame)
Beyond(marks, frame) == SelectSeq(marks, LAMBDA m : m.frame > frame)
MarkEvent(marks) == IF marks = <<>> THEN <<>> ELSE <<[kind |-> "marks", marks |-> ByFrame(marks)]>>
AudioBlock(frames) == IF frames = 0 THEN <<>> ELSE <<[kind |-> "audio", frames |-> frames]>>

\* Capture.markers and Capture.audio: what they refuse to send.
MarksRefused(c, marks) ==
    \/ c.count + Len(marks) > LnMarkLimit
    \/ \E m \in Range(marks) : m.frame < c.frames
AudioRefused(c, frames) == c.frames + frames > LnFrameLimit

\* The index records of a buffer; an unknown or repeated one fails.
RecordIndexes(c, buffer) ==
    LET known == \A x \in Range(buffer.indexes) : Reachable(c.plan, x.index)
        marks == FlattenSeq([x \in 1..Len(buffer.indexes) |->
                    At(c.plan.pending[buffer.indexes[x].index], buffer.indexes[x].frame)])
    IN IF known
       THEN [c EXCEPT !.marks = @ \o marks,
                      !.plan.reached = @ \cup {x.index : x \in Range(buffer.indexes)}]
       ELSE [c EXCEPT !.failed = TRUE]

\* DectalkCapture.audio: the block before this one goes out, its marks
\* first, and this one is held back.
DectalkSendsAtOnce(c, frames) ==
    LET ready == Through(c.marks, c.frames + frames)
    IN IF MarksRefused(c, ready) \/ AudioRefused(c, frames) THEN [c |-> [c EXCEPT !.failed = TRUE], out |-> <<>>]
       ELSE [c |-> [c EXCEPT !.frames = @ + frames, !.marks = Beyond(c.marks, c.frames + frames),
                             !.count = @ + Len(ready)],
             out |-> MarkEvent(ready) \o AudioBlock(frames)]
DectalkAudio(c, frames) ==
    LET ready == Through(c.marks, c.frames + c.block)
    IN IF frames = 0 THEN [c |-> c, out |-> <<>>]
       ELSE IF c.block = NoFrames THEN [c |-> [c EXCEPT !.block = frames], out |-> <<>>]
       ELSE IF MarksRefused(c, ready) \/ AudioRefused(c, c.block)
       THEN [c |-> [c EXCEPT !.failed = TRUE], out |-> <<>>]
       ELSE [c |-> [c EXCEPT !.frames = @ + c.block, !.block = frames,
                             !.marks = Beyond(c.marks, c.frames + c.block),
                             !.count = @ + Len(ready)],
             out |-> MarkEvent(ready) \o AudioBlock(c.block)]
DectalkBuffer(c, buffer) ==
    LET recorded == RecordIndexes(c, buffer)
    IN IF recorded.failed THEN [c |-> recorded, out |-> <<>>]
       ELSE DectalkAudio(recorded, buffer.frames)

\* ECI reports an index at the frames produced so far, between buffers.
EciBuffer(c, buffer) ==
    LET recorded == RecordIndexes(c, buffer)
        marks == [m \in 1..Len(recorded.marks) |-> [recorded.marks[m] EXCEPT !.frame = c.frames]]
    IN IF recorded.failed \/ MarksRefused(c, marks) \/ AudioRefused(c, buffer.frames)
       THEN [c |-> [recorded EXCEPT !.failed = TRUE], out |-> <<>>]
       ELSE [c |-> [recorded EXCEPT !.marks = <<>>, !.frames = @ + buffer.frames,
                                    !.count = @ + Len(marks)],
             out |-> MarkEvent(marks) \o AudioBlock(buffer.frames)]

\* A native callback.  Once the request is cancelled DECtalk's callback
\* discards its buffer, until the watcher's reset ends the call, and ECI's
\* fails and aborts it.
LnCallback ==
    /\ lnJob # 0
    /\ lnOut = <<>>
    /\ lnAt \in 1..Len(LnRequests[lnJob].script)
    /\ LET buffer == LnRequests[lnJob].script[lnAt]
           eci == LnRequests[lnJob].engine = "eloquence"
           result == IF eci THEN EciBuffer(lnCapture, buffer) ELSE DectalkBuffer(lnCapture, buffer)
       IN IF LnCancelled(lnJob)
          THEN /\ lnCapture' = [lnCapture EXCEPT !.failed = @ \/ eci]
               /\ lnAborted' = IF eci THEN lnAborted \cup {lnJob} ELSE lnAborted
               /\ lnOut' = <<>>
               /\ \E next \in {lnAt + 1, Len(LnRequests[lnJob].script) + 1} : lnAt' = next
          ELSE /\ lnCapture' = result.c
               /\ lnAborted' = IF result.c.failed THEN lnAborted \cup {lnJob} ELSE lnAborted
               /\ lnOut' = result.out
               /\ lnAt' = lnAt + 1
    /\ UNCHANGED <<consumerVars, lnOpen, lnQueue, lnJobs, lnJob, lnLate>>

\* Capture.send: polls the cancellation and the receiver while it is full.
SendNeverAborted == FALSE
SendAborted == LnCancelled(lnJob) \/ lnJob \notin lnOpen
LnSend ==
    /\ lnOut # <<>>
    /\ IF SendAborted
       THEN /\ lnOut' = <<>>
            /\ lnCapture' = [lnCapture EXCEPT !.failed = TRUE]
            /\ lnAborted' = lnAborted \cup {lnJob}
            /\ UNCHANGED lnQueue
       ELSE /\ lnJob \in lnOpen
            /\ Len(lnQueue[lnJob]) < EVENT_QUEUE
            /\ lnQueue' = [lnQueue EXCEPT ![lnJob] = Append(@, Head(lnOut))]
            /\ lnOut' = Tail(lnOut)
            /\ UNCHANGED <<lnCapture, lnAborted>>
    /\ UNCHANGED <<consumerVars, lnOpen, lnJobs, lnJob, lnAt, lnLate>>

\* The native call has returned: DECtalk's capture finishes with the
\* trailing anchors, the remaining marks and then the held block.
Trailing(c) == c.marks \o At(c.plan.trailing, c.frames + c.block)
LnFinishCapture ==
    /\ lnJob # 0
    /\ lnOut = <<>>
    /\ lnAt = Len(LnRequests[lnJob].script) + 1
    /\ LET c == lnCapture
           marks == Trailing(c)
           refused == \/ c.failed \/ LnCancelled(lnJob) \/ ~PlanFinishes(c.plan)
                      \/ Beyond(marks, c.frames + c.block) # <<>>
                      \/ MarksRefused(c, marks) \/ AudioRefused(c, c.block)
       IN IF refused
          THEN lnCapture' = [c EXCEPT !.failed = TRUE] /\ lnOut' = <<>>
          ELSE /\ lnCapture' = [c EXCEPT !.marks = <<>>, !.block = NoFrames,
                                         !.frames = @ + c.block]
               /\ lnOut' = MarkEvent(marks) \o AudioBlock(c.block)
    /\ lnAt' = lnAt + 1
    /\ UNCHANGED <<consumerVars, lnAborted, lnOpen, lnQueue, lnJobs, lnJob, lnLate>>

\* sender.send(Finished): waits for room, or finds the receiver gone.
LnFinishJob ==
    /\ lnJob # 0
    /\ lnOut = <<>>
    /\ lnAt > Len(LnRequests[lnJob].script) + 1
    /\ lnJob \in lnOpen => Len(lnQueue[lnJob]) < EVENT_QUEUE
    /\ lnQueue' = IF lnJob \in lnOpen
                  THEN [lnQueue EXCEPT ![lnJob] =
                           Append(@, [kind |-> "finished",
                                      failed |-> lnCapture.failed \/ LnCancelled(lnJob)])]
                  ELSE lnQueue
    /\ lnJob' = 0
    /\ lnCapture' = IdleCapture
    /\ lnAt' = 0
    /\ UNCHANGED <<consumerVars, lnAborted, lnOpen, lnJobs, lnOut, lnLate>>

LnDone ==
    /\ lnPhase = "idle"
    /\ lnServed = Len(LnRequests)
    /\ lnJob = 0
    /\ lnJobs = <<>>
    /\ UNCHANGED lnVars

LnConsumer == LnBegin \/ LnStart \/ LnSendJob \/ LnReceive
LnOwner == LnTakeJob \/ LnCallback \/ LnSend \/ LnFinishCapture \/ LnFinishJob
LnNext == LnConsumer \/ LnOwner \/ LnCancelToken \/ LnStop \/ LnDone

LnSpec == LnInit /\ [][LnNext]_lnVars /\ WF_lnVars(LnConsumer) /\ WF_lnVars(LnOwner)

------------------------------
\* What is assumed of DECtalk's script: an index comes at the latest with
\* the buffer after its own.
ReportedInTime(request) ==
    request.engine = "dectalk" =>
        \A b \in DOMAIN request.script : \A x \in Range(request.script[b].indexes) :
            x.frame >= FoldLeft(LAMBDA sum, d : sum + d.frames, 0,
                                SubSeq(request.script, 1, b - 2))

\* No mark reaches the sink after the audio it belongs to, however late it
\* is reported; and although DECtalk reports it only with the next block,
\* no request fails but one that is cancelled or whose mark is later still.
MarksLeadAudio ==
    /\ ~lnLate
    /\ lnJob # 0 /\ lnCapture.failed =>
          lnJob \in lnTokens \/ ~ReportedInTime(LnRequests[lnJob])

\* A request's call always returns, also when the owner was left inside a
\* native call of an abandoned request with a full queue.
LinuxHelperOwed == lnPhase = "receiving"
LinuxHelperMet == lnPhase = "idle"

------------------------------
\* The MBROLA helper's engine (omnivox-mbrola-helper/src).  A synthesis
\* runs two native programs one after the other, each captured through
\* three pipe threads under a deadline; the capture only returns when the
\* child is reaped and its threads have reported, and otherwise takes the
\* whole helper down.  Calls are serialized by a lock; a call remembers
\* the stop generation it was made in before it waits for the lock.

CONSTANTS
    MbCall,        \* calls made to the engine
    MbMaxStops     \* bound on stops

VARIABLES
    mbStage,      \* call -> ready, waiting, locked, frontend, pho, runtime, pcm, ended
    mbGeneration, \* call -> the generation it captured
    mbEntered,    \* call -> the generation when it was made
    mbResult,     \* call -> none, ok, error
    mbTokens,     \* calls whose request was cancelled
    mbStops,      \* the engine's stop generation
    mbOwner,      \* the call that holds the lock, or the set's absence
    mbChild,      \* none, running, exited, reaped
    mbThreads,    \* pipe threads still running
    mbOutputs,    \* pipe threads whose message was received or waits
    mbBroken,     \* pipe threads that reported an error
    mbFailure,    \* the capture's failure
    mbDeadline,   \* none, running, passed: the capture's timer
    mbHelper      \* alive, retired

mbVars == <<mbStage, mbGeneration, mbEntered, mbResult, mbTokens, mbStops, mbOwner, mbChild,
            mbThreads, mbOutputs, mbBroken, mbFailure, mbDeadline, mbHelper>>

MbPipes == {"writer", "reader", "errors"}
MbCapturing == {"frontend", "runtime", "retiring frontend", "retiring runtime"}
MbNobody == "nobody"

ASSUME MbrolaAssumption == MbNobody \notin MbCall /\ MbMaxStops \in Nat

MbInit ==
    /\ mbStage = [c \in MbCall |-> "ready"]
    /\ mbGeneration = [c \in MbCall |-> 0]
    /\ mbEntered = [c \in MbCall |-> 0]
    /\ mbResult = [c \in MbCall |-> "none"]
    /\ mbTokens = {}
    /\ mbStops = 0
    /\ mbOwner = MbNobody
    /\ mbChild = "none"
    /\ mbThreads = {}
    /\ mbOutputs = {}
    /\ mbBroken = {}
    /\ mbFailure = FALSE
    /\ mbDeadline = "none"
    /\ mbHelper = "alive"

MbCancelled(c) == mbStops # mbGeneration[c] \/ c \in mbTokens

MbCaptureVars == <<mbChild, mbThreads, mbOutputs, mbBroken, mbFailure, mbDeadline>>

(* The call ends and releases the lock. *)
MbEnd(c, result) ==
    /\ mbStage' = [mbStage EXCEPT ![c] = "ended"]
    /\ mbResult' = [mbResult EXCEPT ![c] = result]
    /\ mbOwner' = MbNobody

------------------------------
\* synthesize: the request is checked, the generation captured.  A missing
\* voice, a broken bundle, a long text or a bad control ends it at once.
MbEnter(c) ==
    /\ mbStage[c] = "ready"
    /\ mbEntered' = [mbEntered EXCEPT ![c] = mbStops]
    /\ mbGeneration' = [mbGeneration EXCEPT ![c] = mbStops]
    /\ \/ mbStage' = [mbStage EXCEPT ![c] = "waiting"] /\ UNCHANGED mbResult
       \/ /\ mbStage' = [mbStage EXCEPT ![c] = "ended"]
          /\ mbResult' = [mbResult EXCEPT ![c] = "error"]
    /\ UNCHANGED <<mbTokens, mbStops, mbOwner, MbCaptureVars, mbHelper>>

\* The lock, the check under it, and the verification of the bundle and
\* the database, which may find them changed; a blank text needs no child.
MbLockCapturesGeneration(c) ==
    /\ mbStage[c] = "waiting"
    /\ mbOwner = MbNobody
    /\ mbGeneration' = [mbGeneration EXCEPT ![c] = mbStops]
    /\ mbStage' = [mbStage EXCEPT ![c] = "locked"]
    /\ mbOwner' = c
    /\ UNCHANGED <<mbEntered, mbResult, mbTokens, mbStops, MbCaptureVars, mbHelper>>
MbLock(c) ==
    /\ mbStage[c] = "waiting"
    /\ mbOwner = MbNobody
    /\ \/ /\ ~MbCancelled(c)
          /\ mbStage' = [mbStage EXCEPT ![c] = "locked"]
          /\ mbOwner' = c
          /\ UNCHANGED mbResult
       \/ MbCancelled(c) /\ MbEnd(c, "error")
       \/ ~MbCancelled(c) /\ MbEnd(c, "error")   \* verification fails
       \/ ~MbCancelled(c) /\ MbEnd(c, "ok")      \* nothing to say
    /\ UNCHANGED <<mbGeneration, mbEntered, mbTokens, mbStops, MbCaptureVars, mbHelper>>

\* capture: the check before the spawn, then the child and its threads.
MbSpawn(c, from, to) ==
    /\ mbStage[c] = from
    /\ \/ /\ ~MbCancelled(c)
          /\ mbStage' = [mbStage EXCEPT ![c] = to]
          /\ mbChild' = "running"
          /\ mbThreads' = MbPipes
          /\ mbOutputs' = {}
          /\ mbBroken' = {}
          /\ mbFailure' = FALSE
          /\ mbDeadline' = "running"
          /\ UNCHANGED <<mbResult, mbOwner>>
       \/ /\ MbEnd(c, "error")                   \* cancelled, or cannot spawn
          /\ UNCHANGED MbCaptureVars
    /\ UNCHANGED <<mbGeneration, mbEntered, mbTokens, mbStops, mbHelper>>

\* The native program and its pipes.  It may exit, also by itself under a
\* kill; a thread ends when its pipe does, and a reader past its limit or
\* a broken writer reports an error while the child still runs.
MbChildExits ==
    /\ mbChild = "running"
    /\ mbChild' = "exited"
    /\ UNCHANGED <<mbStage, mbGeneration, mbEntered, mbResult, mbTokens, mbStops, mbOwner,
                   mbThreads, mbOutputs, mbBroken, mbFailure, mbDeadline, mbHelper>>
MbPipeEnds(p) ==
    /\ p \in mbThreads
    /\ mbThreads' = mbThreads \ {p}
    /\ mbOutputs' = mbOutputs \cup {p}
    /\ \/ mbChild # "running" /\ UNCHANGED mbBroken
       \/ mbBroken' = mbBroken \cup {p}
       \/ p = "writer" /\ UNCHANGED mbBroken
    /\ UNCHANGED <<mbStage, mbGeneration, mbEntered, mbResult, mbTokens, mbStops, mbOwner,
                   mbChild, mbFailure, mbDeadline, mbHelper>>

MbRetiring(stage) == IF stage = "frontend" THEN "retiring frontend" ELSE "retiring runtime"

\* One turn of the capture loop: a reported error, a cancellation or the
\* deadline kills the child; a child that exited with everything reported
\* is reaped.  Both go on to the retirement loop with a timer of its own.
MbPollWaitsForChild(c) ==
    /\ mbStage[c] \in {"frontend", "runtime"}
    /\ LET fails == mbBroken # {} \/ MbCancelled(c)
       IN /\ fails \/ (mbChild = "exited" /\ mbOutputs = MbPipes)
          /\ mbFailure' = fails
    /\ mbChild' = IF mbChild = "exited" THEN "reaped" ELSE mbChild
    /\ mbDeadline' = "running"
    /\ mbStage' = [mbStage EXCEPT ![c] = MbRetiring(@)]
    /\ UNCHANGED <<mbGeneration, mbEntered, mbResult, mbTokens, mbStops, mbOwner, mbThreads,
                   mbOutputs, mbBroken, mbHelper>>
MbPoll(c) ==
    /\ mbStage[c] \in {"frontend", "runtime"}
    /\ LET fails == mbBroken # {} \/ MbCancelled(c) \/ mbDeadline = "passed"
       IN /\ fails \/ (mbChild = "exited" /\ mbOutputs = MbPipes)
          /\ mbFailure' = fails
    /\ mbChild' = IF mbChild = "exited" THEN "reaped" ELSE mbChild
    /\ mbDeadline' = "running"
    /\ mbStage' = [mbStage EXCEPT ![c] = MbRetiring(@)]
    /\ UNCHANGED <<mbGeneration, mbEntered, mbResult, mbTokens, mbStops, mbOwner, mbThreads,
                   mbOutputs, mbBroken, mbHelper>>

MbRetiredWithoutPipes == mbChild \in {"exited", "reaped"}
MbRetired == mbChild \in {"exited", "reaped"} /\ mbOutputs = MbPipes

\* The retirement loop: the child is reaped and every thread has reported,
\* or its deadline passes and the helper exits, taking the child along.
MbRetire(c) ==
    /\ mbStage[c] \in {"retiring frontend", "retiring runtime"}
    /\ \/ /\ MbRetired
          /\ mbChild' = "reaped"
          /\ \/ /\ ~mbFailure
                /\ mbStage' = [mbStage EXCEPT ![c] = IF @ = "retiring frontend" THEN "pho" ELSE "pcm"]
                /\ UNCHANGED <<mbResult, mbOwner>>
             \/ MbEnd(c, "error")     \* failed, or the program did
          /\ UNCHANGED <<mbThreads, mbHelper>>
       \/ /\ ~MbRetired
          /\ mbDeadline = "passed"
          /\ mbHelper' = "retired"
          /\ mbChild' = "reaped"
          /\ mbThreads' = {}
          /\ UNCHANGED <<mbStage, mbResult, mbOwner>>
    /\ UNCHANGED <<mbGeneration, mbEntered, mbTokens, mbStops, mbOutputs, mbBroken,
                   mbFailure, mbDeadline>>
MbDeadlinePasses ==
    /\ mbDeadline = "running"
    /\ \E c \in MbCall : mbStage[c] \in MbCapturing
    /\ mbDeadline' = "passed"
    /\ UNCHANGED <<mbStage, mbGeneration, mbEntered, mbResult, mbTokens, mbStops, mbOwner,
                   mbChild, mbThreads, mbOutputs, mbBroken, mbFailure, mbHelper>>

\* The last check before the PCM is committed; the PCM may be unusable.
MbCommit(c) ==
    /\ mbStage[c] = "pcm"
    /\ \/ ~MbCancelled(c) /\ MbEnd(c, "ok")
       \/ MbEnd(c, "error")
    /\ UNCHANGED <<mbGeneration, mbEntered, mbTokens, mbStops, MbCaptureVars, mbHelper>>

MbStop ==
    /\ mbStops < MbMaxStops
    /\ mbStops' = mbStops + 1
    /\ UNCHANGED <<mbStage, mbGeneration, mbEntered, mbResult, mbTokens, mbOwner, MbCaptureVars,
                   mbHelper>>
MbCancelToken(c) ==
    /\ mbStage[c] \notin {"ready", "ended"}
    /\ c \notin mbTokens
    /\ mbTokens' = mbTokens \cup {c}
    /\ UNCHANGED <<mbStage, mbGeneration, mbEntered, mbResult, mbStops, mbOwner, MbCaptureVars,
                   mbHelper>>

MbEngine(c) ==
    \/ MbEnter(c) \/ MbLock(c) \/ MbSpawn(c, "locked", "frontend")
    \/ MbSpawn(c, "pho", "runtime") \/ MbPoll(c) \/ MbRetire(c) \/ MbCommit(c)

MbNext ==
    /\ mbHelper = "alive"
    /\ \/ \E c \in MbCall : MbEngine(c) \/ MbCancelToken(c)
       \/ MbChildExits \/ \E p \in MbPipes : MbPipeEnds(p)
       \/ MbDeadlinePasses \/ MbStop

MbFairness ==
    /\ \A c \in MbCall : WF_mbVars(mbHelper = "alive" /\ MbEngine(c))
    /\ WF_mbVars(mbHelper = "alive" /\ MbDeadlinePasses)

MbSpec == MbInit /\ [][MbNext]_mbVars /\ MbFairness

------------------------------
\* The engine is never reused around a child that still runs or a pipe
\* thread that has not ended: outside a capture nothing native is left.
NothingNativeLeft ==
    (\A c \in MbCall : mbStage[c] \notin MbCapturing) =>
        mbChild \in {"none", "reaped"} /\ mbThreads = {}

\* A call ends well only if no stop was made after the call was: not while
\* it waited for the lock, and not later.
StopReachesQueued ==
    [][mbResult' # mbResult =>
        \A c \in MbCall : mbResult[c] # "ok" /\ mbResult'[c] = "ok" => mbStops = mbEntered[c]]_mbVars

\* A call always ends, whatever the native programs do, or the helper
\* exits for its host to replace it.
MbrolaOwed == \E c \in MbCall : mbStage[c] \notin {"ready", "ended"}
MbrolaMet == mbHelper = "retired" \/ \A c \in MbCall : mbStage[c] \in {"ready", "ended"}
=============================================================================
