---------------------------- MODULE PulseOutput ----------------------------
(***************************************************************************)
(* One lane of the native PulseAudio output: callers append sources, clear *)
(* the lane, drain it and shut it down; a worker opens the connection,     *)
(* feeds the server's buffer from one source at a time, and reopens only   *)
(* for audio appended after a failure.  The server plays what is in the    *)
(* buffer while the stream is not corked, takes as much as it likes, and   *)
(* may go away at any moment.                                              *)
(*                                                                         *)
(* A frame is the number of its source.                                    *)
(***************************************************************************)
EXTENDS Naturals, Sequences, FiniteSets, SequencesExt

CONSTANTS
    PuFrames,       \* source -> its frames; sources are appended in order
    PuWriteFrames,  \* WRITE_FRAMES
    PuBufferFrames, \* what the server's buffer holds
    PuMaxClears,    \* bound on clears
    PuMaxLosses     \* bound on failures of the server

ASSUME PuAssumption ==
    /\ PuFrames \in Seq(Nat) /\ PuWriteFrames \in Nat \ {0}
    /\ {PuBufferFrames, PuMaxClears, PuMaxLosses} \subseteq Nat

VARIABLES
    puQueue,        \* Queue.sources: [id, gen]
    puPending,      \* Queue.pending
    puIdle,         \* Queue.idle
    puFailure,      \* Queue.failure is set
    puCooling,      \* retry_at is in the future
    puConnected,    \* Queue.connected
    puCut,          \* Queue.connection_closed is cancelled
    puGen,          \* State.generation
    puClosed,       \* State.closed, with shutdown
    puAppended,     \* sources appended so far
    puStopper,      \* clear: idle, or between its generation and its lock
    puClears,       \* clears so far
    puDrainer,      \* idle, waiting, returned
    puWorker,       \* the worker's place
    puSeen,         \* the worker's generation
    puCurrent,      \* the worker's source: [id, gen, left], or none
    puRead,         \* samples read for the next write
    puStream,       \* corked, primed, draining, and the stall deadline passed
    puBuffer,       \* frames the server holds: [id, gen]
    puLosses        \* failures of the server so far

puCaller == <<puAppended, puStopper, puClears, puDrainer>>
puState == <<puQueue, puPending, puIdle, puFailure, puCooling, puConnected, puCut, puGen, puClosed>>
puRun == <<puSeen, puCurrent, puRead, puStream>>
puVars == <<puState, puCaller, puWorker, puRun, puBuffer, puLosses>>

PuNone == [id |-> 0, gen |-> 0, left |-> 0]
PuFresh == [corked |-> TRUE, primed |-> 0, draining |-> FALSE, late |-> FALSE]

(* PulseSink::start returned: its first connection is open. *)
PuInit ==
    /\ puQueue = <<>> /\ puPending = 0 /\ puIdle = TRUE
    /\ puFailure = FALSE /\ puCooling = FALSE /\ puConnected = TRUE
    /\ puCut = FALSE
    /\ puGen = 0 /\ puClosed = FALSE
    /\ puAppended = 0 /\ puStopper = "idle" /\ puClears = 0 /\ puDrainer = "idle"
    /\ puWorker = "top"
    /\ puSeen = 0 /\ puCurrent = PuNone /\ puRead = 0 /\ puStream = PuFresh
    /\ puBuffer = <<>> /\ puLosses = 0

-----------------------------------------------------------------------------
(* Callers.                                                                *)
PuAppend ==
    /\ puAppended < Len(PuFrames)
    /\ puAppended' = puAppended + 1
    /\ IF puClosed \/ puCooling THEN UNCHANGED puState
       ELSE /\ puQueue' = Append(puQueue, [id |-> puAppended + 1, gen |-> puGen])
            /\ puPending' = puPending + 1
            /\ puIdle' = FALSE
            /\ puFailure' = FALSE
            /\ UNCHANGED <<puCooling, puConnected, puCut, puGen, puClosed>>
    /\ UNCHANGED <<puStopper, puClears, puDrainer, puWorker, puRun, puBuffer, puLosses>>

PuClearRaises ==
    /\ puStopper = "idle"
    /\ puClears < PuMaxClears
    /\ puClears' = puClears + 1
    /\ puGen' = puGen + 1
    /\ puStopper' = "raised"
    /\ UNCHANGED <<puQueue, puPending, puIdle, puFailure, puCooling, puConnected, puCut, puClosed,
                   puAppended, puDrainer, puWorker, puRun, puBuffer, puLosses>>

PuNothingPending == 0
PuPendingAfterClear == puPending - Len(puQueue)

(* The rest of clear, under the lock; a retired worker could not           *)
(* acknowledge.                                                            *)
PuClearTakes ==
    /\ puStopper = "raised"
    /\ puStopper' = "idle"
    /\ IF puClosed \/ puFailure THEN UNCHANGED <<puQueue, puPending, puIdle>>
       ELSE /\ puQueue' = <<>>
            /\ puPending' = PuPendingAfterClear
            /\ puIdle' = ~puConnected
    /\ UNCHANGED <<puFailure, puCooling, puConnected, puCut, puGen, puClosed, puAppended, puClears,
                   puDrainer, puWorker, puRun, puBuffer, puLosses>>

PuDrain ==
    /\ \/ puDrainer = "idle" /\ puDrainer' = "waiting"
       \/ puDrainer = "waiting" /\ puPending = 0 /\ puIdle /\ puDrainer' = "returned"
    /\ UNCHANGED <<puState, puAppended, puStopper, puClears, puWorker, puRun, puBuffer, puLosses>>

PuShutdown ==
    /\ ~puClosed
    /\ puClosed' = TRUE
    /\ puCut' = TRUE
    /\ UNCHANGED <<puQueue, puPending, puIdle, puFailure, puCooling, puConnected, puGen, puCaller,
                   puWorker, puRun, puBuffer, puLosses>>

(* RECONNECT_DELAY passes. *)
PuCooldownPasses ==
    /\ puCooling
    /\ puCooling' = FALSE
    /\ UNCHANGED <<puQueue, puPending, puIdle, puFailure, puConnected, puCut, puGen, puClosed,
                   puCaller, puWorker, puRun, puBuffer, puLosses>>

-----------------------------------------------------------------------------
(* The worker of start: a connection is opened for a queue that is not     *)
(* empty, run, and retired with its whole backlog.                         *)
PuLost == puClosed \/ puCut
PuGoes(place) == puWorker' = place

PuAwaitAudio ==
    /\ puWorker = "waiting"
    /\ \/ puClosed /\ PuGoes("exiting") /\ UNCHANGED puSeen
       \/ /\ ~puClosed /\ puQueue # <<>>
          /\ PuGoes("opening")
          /\ puSeen' = puGen
    /\ UNCHANGED <<puState, puCurrent, puRead, puStream, puBuffer>>

(* Client::open gives up within its time-out. *)
PuOpen ==
    /\ puWorker = "opening"
    /\ \/ PuGoes("retiring") /\ UNCHANGED <<puConnected, puStream>>
       \/ /\ PuGoes("top")
          /\ puConnected' = TRUE
          /\ puStream' = PuFresh
    /\ UNCHANGED <<puQueue, puPending, puIdle, puFailure, puCooling, puCut, puGen, puClosed,
                   puSeen, puCurrent, puRead, puBuffer>>

(* The connection and its whole backlog go. *)
PuRetireBusy(failed) ==
    /\ puCut' = FALSE
    /\ puConnected' = FALSE
    /\ puGen' = puGen + 1
    /\ puCooling' = failed
    /\ puFailure' = failed
    /\ puPending' = 0
    /\ puQueue' = <<>>
    /\ UNCHANGED puIdle
PuRetire(failed) ==
    /\ puCut' = FALSE
    /\ puConnected' = FALSE
    /\ puGen' = puGen + 1
    /\ puCooling' = failed
    /\ puFailure' = failed
    /\ puPending' = 0
    /\ puIdle' = TRUE
    /\ puQueue' = <<>>

(* Dropping the client disconnects the stream. *)
PuDisconnected == <<>>

PuRetires ==
    /\ \/ puWorker = "retiring" /\ PuRetire(~puClosed) /\ PuGoes("waiting")
       \/ puWorker = "exiting" /\ PuRetire(FALSE) /\ PuGoes("exited")
    /\ puCurrent' = PuNone
    /\ puRead' = 0
    /\ puStream' = PuFresh
    /\ puBuffer' = PuDisconnected
    /\ UNCHANGED <<puClosed, puSeen>>

-----------------------------------------------------------------------------
(* run.  Every native operation can fail instead, and run returns.         *)
PuFails == PuGoes("retiring") /\ UNCHANGED <<puState, puRun, puBuffer>>

PuFinishCurrent ==
    /\ puPending' = puPending - 1
    /\ puCurrent' = PuNone

PuHasSource == puCurrent # PuNone

(* A moved generation: cork, flush, and drop a source of an older one. *)
PuFlushedOnlyWhenStale == IF PuHasSource /\ puCurrent.gen # puGen THEN <<>> ELSE puBuffer
PuFlushed == <<>>

PuTop ==
    /\ puWorker = "top"
    /\ IF PuLost THEN PuFails
       ELSE IF puGen = puSeen THEN PuGoes("choose") /\ UNCHANGED <<puState, puRun, puBuffer>>
       ELSE \/ PuFails
            \/ /\ puBuffer' = PuFlushed
               /\ puStream' = [PuFresh EXCEPT !.late = puStream.late]
               /\ puSeen' = puGen
               /\ IF PuHasSource /\ puCurrent.gen # puGen THEN PuFinishCurrent
                  ELSE UNCHANGED <<puPending, puCurrent>>
               /\ PuGoes("choose")
               /\ UNCHANGED <<puQueue, puIdle, puFailure, puCooling, puConnected, puCut, puGen,
                              puClosed, puRead>>

(* The next source; one of a generation the worker has yet to see is kept  *)
(* while it goes back for the flush.                                       *)
PuChoose ==
    /\ puWorker = "choose"
    /\ LET next == Head(puQueue)
       IN IF PuHasSource THEN PuGoes("feed") /\ UNCHANGED <<puPending, puQueue, puCurrent, puStream>>
          ELSE IF puQueue = <<>>
          THEN PuGoes("idle") /\ UNCHANGED <<puPending, puQueue, puCurrent, puStream>>
          ELSE /\ puQueue' = Tail(puQueue)
               /\ IF next.gen = puSeen
                  THEN /\ puStream' = [puStream EXCEPT !.draining = FALSE, !.late = FALSE]
                       /\ PuGoes("feed")
                  ELSE PuGoes("top") /\ UNCHANGED puStream
               /\ IF next.gen # puSeen /\ next.gen # puGen
                  THEN puPending' = puPending - 1 /\ UNCHANGED puCurrent
                  ELSE /\ puCurrent' = [id |-> next.id, gen |-> next.gen, left |-> PuFrames[next.id]]
                       /\ UNCHANGED puPending
    /\ UNCHANGED <<puIdle, puFailure, puCooling, puConnected, puCut, puGen, puClosed,
                   puSeen, puRead, puBuffer>>

(* The server's answer to the drain that begin_drain asked for. *)
PuDrained == puBuffer = <<>>

(* Nothing to play: a short source is started, the stream drained and      *)
(* corked.                                                                 *)
PuIdleStep ==
    /\ puWorker = "idle"
    /\ LET corked == puStream.corked /\ puStream.primed = 0
           late == puStream.draining /\ puStream.late
       IN \/ /\ corked
             /\ PuGoes("rest")
             /\ UNCHANGED puStream
          \/ /\ ~corked /\ PuDrained
             /\ puStream' = [PuFresh EXCEPT !.late = late]
             /\ PuGoes("rest")
          \/ /\ ~corked /\ ~PuDrained /\ ~late
             /\ puStream' = [corked |-> FALSE, primed |-> 0, draining |-> TRUE, late |-> FALSE]
             /\ PuGoes("rest")
          \/ /\ ~corked                               \* a stall, or a failed operation
             /\ PuGoes("retiring")
             /\ UNCHANGED puStream
    /\ UNCHANGED <<puState, puSeen, puCurrent, puRead, puBuffer>>

PuRest ==
    /\ puWorker = "rest"
    /\ puIdle' = IF puQueue = <<>> THEN puStream.corked ELSE puIdle
    /\ PuGoes("top")
    /\ UNCHANGED <<puQueue, puPending, puFailure, puCooling, puConnected, puCut, puGen, puClosed,
                   puRun, puBuffer>>

(* The server's room, and the samples read for it. *)
PuFeed ==
    /\ puWorker = "feed"
    /\ \/ \E n \in 1..PuWriteFrames :
            /\ Len(puBuffer) + n <= PuBufferFrames
            /\ IF PuLost \/ puGen # puSeen
               THEN PuGoes("top") /\ UNCHANGED <<puRead, puCurrent>>
               ELSE /\ puRead' = IF puCurrent.left < n THEN puCurrent.left ELSE n
                    /\ puCurrent' = [puCurrent EXCEPT !.left = @ - puRead']
                    /\ PuGoes(IF puRead' < n THEN "last" ELSE "write")
            /\ UNCHANGED puStream
       \/ /\ puStream.corked /\ puStream.primed # 0    \* no room
          /\ puStream' = [puStream EXCEPT !.corked = FALSE, !.primed = 0, !.late = FALSE]
          /\ PuGoes("top")
          /\ UNCHANGED <<puRead, puCurrent>>
       \/ /\ ~(puStream.corked /\ puStream.primed # 0) /\ ~puStream.late
          /\ PuGoes("top")
          /\ UNCHANGED <<puRead, puCurrent, puStream>>
       \/ /\ PuGoes("retiring")                        \* a stall, or a failed operation
          /\ UNCHANGED <<puRead, puCurrent, puStream>>
    /\ UNCHANGED <<puState, puSeen, puBuffer>>

PuWritten == [k \in 1..puRead |-> [id |-> puCurrent.id, gen |-> puCurrent.gen]]
PuStarts == puStream.corked /\ puStream.primed + puRead >= 2 * PuWriteFrames

PuWrite ==
    /\ puWorker \in {"write", "last"}
    /\ \/ PuFails
       \/ /\ puBuffer' = puBuffer \o PuWritten
          /\ puRead' = 0
          /\ puStream' = IF puRead = 0 THEN puStream
                         ELSE [puStream EXCEPT !.late = FALSE,
                                 !.corked = @ /\ ~PuStarts,
                                 !.primed = IF puStream.corked /\ ~PuStarts THEN @ + puRead ELSE 0]
          /\ IF puWorker = "last" THEN PuFinishCurrent ELSE UNCHANGED <<puPending, puCurrent>>
          /\ PuGoes("top")
          /\ UNCHANGED <<puQueue, puIdle, puFailure, puCooling, puConnected, puCut, puGen,
                         puClosed, puSeen>>

PuWorkerStep ==
    /\ \/ PuAwaitAudio \/ PuOpen \/ PuRetires \/ PuTop \/ PuChoose \/ PuIdleStep \/ PuRest
       \/ PuFeed \/ PuWrite
    /\ UNCHANGED <<puCaller, puLosses>>

-----------------------------------------------------------------------------
(* The server plays a frame, or closes the connection; time passes.        *)
PuPlays ==
    /\ puBuffer # <<>> /\ ~puStream.corked
    /\ puBuffer' = Tail(puBuffer)
    /\ UNCHANGED <<puState, puCaller, puWorker, puRun, puLosses>>
PuServerCloses ==
    /\ puLosses < PuMaxLosses
    /\ puWorker \notin {"waiting", "exiting", "exited"} /\ ~puCut
    /\ puCut' = TRUE
    /\ puLosses' = puLosses + 1
    /\ UNCHANGED <<puQueue, puPending, puIdle, puFailure, puCooling, puConnected, puGen, puClosed,
                   puCaller, puWorker, puRun, puBuffer>>
PuStallPasses ==
    /\ ~puStream.late
    /\ puStream' = [puStream EXCEPT !.late = TRUE]
    /\ UNCHANGED <<puState, puCaller, puWorker, puSeen, puCurrent, puRead, puBuffer, puLosses>>

PuNext ==
    \/ PuAppend \/ PuClearRaises \/ PuClearTakes \/ PuDrain \/ PuShutdown \/ PuCooldownPasses
    \/ PuWorkerStep \/ PuPlays \/ PuServerCloses \/ PuStallPasses

(* The worker runs, callers finish what they began, and time passes; the   *)
(* server owes nothing.                                                    *)
PuSpec ==
    /\ PuInit /\ [][PuNext]_puVars
    /\ WF_puVars(PuWorkerStep) /\ WF_puVars(PuClearTakes)
    /\ WF_puVars(puDrainer = "waiting" /\ PuDrain) /\ WF_puVars(PuStallPasses)

-----------------------------------------------------------------------------
(* PCM of a retired generation is out of the server's buffer before any of *)
(* its replacement goes in: a clear that fell between the worker's check   *)
(* and its write is made good by the flush.                                *)
OneGenerationBuffered ==
    \A i, j \in DOMAIN puBuffer : puBuffer[i].gen = puBuffer[j].gen

(* While a connection runs, the pending count drain() and the backlog      *)
(* limit read is exactly the sources queued and the one being played,      *)
(* whoever took the others away.                                           *)
PendingIsExact ==
    puWorker \in {"top", "choose", "idle", "rest", "feed", "write", "last"} =>
        puPending = Len(puQueue) + (IF PuHasSource THEN 1 ELSE 0)

(* drain() returns, whatever becomes of the server, the connection or a    *)
(* clear that takes the lane away.                                         *)
DrainOwed == puDrainer = "waiting"
DrainMet == puDrainer = "returned"
=============================================================================
