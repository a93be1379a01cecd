---------------------------- MODULE MacOsEngine ----------------------------
(***************************************************************************)
(* The macOS engine.  A Rust call owns SERIAL, opens a native capture and  *)
(* polls its bounded ring; the capture's owner block runs on one serial    *)
(* Cocoa queue and starts the shared synthesizer, whose buffer callbacks   *)
(* and delegate callbacks come from other threads.  stop() moves an epoch  *)
(* and cancels the active capture.  A call that cannot confirm its         *)
(* capture's retirement quarantines the engine for good.                   *)
(*                                                                         *)
(* A window is a number: the n-th window the capture accepted.             *)
(***************************************************************************)
EXTENDS Naturals, Sequences, FiniteSets

CONSTANTS
    MoCall,         \* calls
    MoRing,         \* StreamWindows
    MoBuffer,       \* most windows one native buffer fills
    MoMaxWindows,   \* bound on the windows of one utterance
    MoCancellable,  \* calls whose request token may be cancelled
    MoMaxStops      \* bound on stops

VARIABLES
    moStage,        \* call -> where synthesize is
    moSeen,         \* call -> the STOP_EPOCH it loaded
    moTokens,       \* calls whose request token is cancelled
    moStatus,       \* call -> what the last omnivox_stream_next returned
    moOutcome,      \* call -> none, ok, error, panic
    moHeard,        \* call -> windows the sink was given
    moSerial,       \* holder of SERIAL
    moPoisoned,     \* a holder of SERIAL panicked
    moEpoch,        \* STOP_EPOCH
    moQuarantined,  \* QUARANTINED
    moActive,       \* ACTIVE
    moStopper,      \* a stop between its epoch and its cancel
    moCapture,      \* call -> its OmnivoxCapture
    moOwner,        \* call -> the capture's block on the synthesis queue
    moCallback      \* call -> windows its running buffer callback still holds

moVars == <<moStage, moSeen, moTokens, moStatus, moOutcome, moHeard, moSerial, moPoisoned,
            moEpoch, moQuarantined, moActive, moStopper, moCapture, moOwner, moCallback>>
moRust == <<moStage, moSeen, moStatus, moOutcome, moHeard, moSerial, moPoisoned,
            moEpoch, moQuarantined, moActive, moStopper>>

MoNobody == 0
MoClosed == [ring |-> <<>>, accepted |-> 0, finished |-> FALSE, cancelled |-> FALSE,
             retired |-> FALSE, reason |-> "none"]
MoReleased == [MoClosed EXCEPT !.cancelled = TRUE, !.retired = TRUE]

ASSUME MacOsAssumption ==
    /\ MoNobody \notin MoCall
    /\ MoRing \in Nat /\ MoBuffer \in Nat /\ MoMaxWindows \in Nat /\ MoMaxStops \in Nat
    /\ MoCancellable \subseteq MoCall

MoCancelled(c) == moSeen[c] # moEpoch \/ c \in moTokens

------------------------------
\* The capture object; each operator is one critical section on its
\* condition.
\* A reason is an explicit completion (an empty buffer, the delegate) or
\* a failure (bad PCM, no voice, a limit, an exception, a deadline).
MoSucceeds(reason) == reason = "complete"

MoFinish(capture, reason) ==
    IF capture.finished THEN capture
    ELSE [capture EXCEPT !.finished = TRUE, !.reason = reason,
                         !.ring = IF MoSucceeds(reason) THEN @ ELSE <<>>]
MoFinishCapture(c, reason) ==
    moCapture' = [moCapture EXCEPT ![c] = MoFinish(@, reason)]

MoCancelCapture(capture) == [capture EXCEPT !.cancelled = TRUE, !.ring = <<>>]
MoShut(c) == moCapture[c].finished \/ moCapture[c].cancelled

\* omnivox_stream_next after its short wait: what it reports and takes.
MoReady(capture) == ~capture.cancelled /\ capture.ring # <<>>
MoNext(capture) ==
    [kind |-> IF MoReady(capture) THEN "audio"
              ELSE IF capture.cancelled THEN "failed"
              ELSE IF ~capture.finished THEN "pending"
              ELSE IF MoSucceeds(capture.reason) THEN "complete" ELSE "failed",
     window |-> IF MoReady(capture) THEN Head(capture.ring) ELSE 0]
MoTaken(capture) == IF MoReady(capture) THEN [capture EXCEPT !.ring = Tail(@)] ELSE capture

MoInit ==
    /\ moStage = [c \in MoCall |-> "idle"]
    /\ moSeen = [c \in MoCall |-> 0]
    /\ moTokens = {}
    /\ moStatus = [c \in MoCall |-> MoNext(MoClosed)]
    /\ moOutcome = [c \in MoCall |-> "none"]
    /\ moHeard = [c \in MoCall |-> <<>>]
    /\ moSerial = MoNobody
    /\ moPoisoned = FALSE
    /\ moEpoch = 0
    /\ moQuarantined = FALSE
    /\ moActive = MoNobody
    /\ moStopper = "idle"
    /\ moCapture = [c \in MoCall |-> MoClosed]
    /\ moOwner = [c \in MoCall |-> "none"]
    /\ moCallback = [c \in MoCall |-> 0]

------------------------------
\* Native callbacks of the utterance.  The synthesizer may run ahead of
\* its own write call, may be late, and may never call at all.
MoWriting(c) == moOwner[c] \in {"writing", "watching", "closing", "failed"}

\* consume: a buffer, empty at the end of the utterance or not PCM the
\* capture can take.
MoConsume(c) ==
    /\ MoWriting(c)
    /\ moCallback[c] = 0
    /\ \/ MoFinishCapture(c, "complete") /\ UNCHANGED moCallback
       \/ MoFinishCapture(c, "failed") /\ UNCHANGED moCallback
       \/ \E n \in 1..MoBuffer :
            /\ ~MoShut(c)
            /\ moCapture[c].accepted + n <= MoMaxWindows
            /\ moCallback' = [moCallback EXCEPT ![c] = n]
            /\ moCapture' = [moCapture EXCEPT ![c].accepted = @ + n]
    /\ UNCHANGED <<moRust, moTokens, moOwner>>

\* One turn of the loop that publishes the buffer's windows.
MoPublish(c) ==
    /\ moCallback[c] > 0
    /\ \/ /\ MoShut(c)
          /\ moCallback' = [moCallback EXCEPT ![c] = 0]
          /\ UNCHANGED moCapture
       \/ /\ ~MoShut(c)
          /\ Len(moCapture[c].ring) < MoRing
          /\ moCapture' = [moCapture EXCEPT
                 ![c].ring = Append(@, moCapture[c].accepted - moCallback[c] + 1)]
          /\ moCallback' = [moCallback EXCEPT ![c] = @ - 1]
       \/ /\ ~MoShut(c)
          /\ Len(moCapture[c].ring) = MoRing
          /\ MoFinishCapture(c, "failed")
          /\ moCallback' = [moCallback EXCEPT ![c] = 0]
    /\ UNCHANGED <<moRust, moTokens, moOwner>>

MoDidFinishUnlocked(c) ==
    /\ MoWriting(c)
    /\ MoFinishCapture(c, "complete")
    /\ UNCHANGED <<moRust, moTokens, moOwner, moCallback>>

(* didFinishSpeechUtterance takes the producer lock. *)
MoDidFinish(c) ==
    /\ MoWriting(c)
    /\ moCallback[c] = 0
    /\ MoFinishCapture(c, "complete")
    /\ UNCHANGED <<moRust, moTokens, moOwner, moCallback>>

MoDidCancel(c) ==
    /\ MoWriting(c)
    /\ moCapture[c].cancelled
    /\ MoFinishCapture(c, "failed")
    /\ UNCHANGED <<moRust, moTokens, moOwner, moCallback>>

------------------------------
\* The capture's block.  The queue is serial: a block starts when no other
\* one is running.
MoRunning(c) == moOwner[c] \in {"writing", "watching", "closing"}

MoOwnerStarts(c) ==
    /\ moOwner[c] = "queued"
    /\ \A d \in MoCall : ~MoRunning(d)
    /\ \/ /\ moCapture[c].cancelled
          /\ moOwner' = [moOwner EXCEPT ![c] = "closing"]
          /\ UNCHANGED moCapture
       \/ /\ ~moCapture[c].cancelled
          /\ MoFinishCapture(c, "failed")
          /\ moOwner' = [moOwner EXCEPT ![c] = "closing"]
       \/ /\ ~moCapture[c].cancelled
          /\ moOwner' = [moOwner EXCEPT ![c] = "writing"]
          /\ UNCHANGED moCapture

(* writeUtterance returns or throws; it need do neither. *)
MoWriteReturns(c) ==
    /\ moOwner[c] = "writing"
    /\ \/ /\ moOwner' = [moOwner EXCEPT ![c] = "watching"]
          /\ UNCHANGED moCapture
       \/ /\ MoFinishCapture(c, "failed")
          /\ moOwner' = [moOwner EXCEPT ![c] = "closing"]

\* The block turns its run loop until the capture is shut or idle too long.
MoOwnerWatches(c) ==
    /\ moOwner[c] = "watching"
    /\ \/ MoShut(c) /\ UNCHANGED moCapture
       \/ ~MoShut(c) /\ MoFinishCapture(c, "failed")
    /\ moOwner' = [moOwner EXCEPT ![c] = "closing"]

\* The @finally clause: an unsuccessful capture is finished first, then
\* the synthesizer is stopped; a stop that throws is never acknowledged.
MoOwnerCloses(c) ==
    /\ moOwner[c] = "closing"
    /\ LET capture == moCapture[c]
           succeeded == capture.finished /\ ~capture.cancelled /\ MoSucceeds(capture.reason)
           closed == IF succeeded THEN capture ELSE MoFinish(capture, "failed")
       IN \/ /\ moCapture' = [moCapture EXCEPT ![c] = [closed EXCEPT !.retired = TRUE]]
             /\ moOwner' = [moOwner EXCEPT ![c] = "retired"]
          \/ /\ ~succeeded
             /\ moCapture' = [moCapture EXCEPT ![c] = MoFinish(closed, "failed")]
             /\ moOwner' = [moOwner EXCEPT ![c] = "failed"]

MoOwnerStep(c) ==
    /\ MoOwnerStarts(c) \/ MoWriteReturns(c) \/ MoOwnerWatches(c) \/ MoOwnerCloses(c)
    /\ UNCHANGED <<moRust, moTokens, moCallback>>

------------------------------
\* synthesize.
moNative == <<moCapture, moOwner, moCallback>>

MoBegin(c) ==
    /\ moStage[c] = "idle"
    /\ moStage' = [moStage EXCEPT ![c] = "waiting"]
    /\ moSeen' = [moSeen EXCEPT ![c] = moEpoch]
    /\ UNCHANGED <<moStatus, moOutcome, moHeard, moSerial, moPoisoned, moQuarantined,
                   moActive, moNative>>

(* The call returns before it owns a capture. *)
MoReturns(c, outcome) ==
    /\ moStage' = [moStage EXCEPT ![c] = "ended"]
    /\ moOutcome' = [moOutcome EXCEPT ![c] = outcome]
    /\ moSeen' = [moSeen EXCEPT ![c] = 0]
    /\ UNCHANGED <<moStatus, moHeard, moPoisoned, moQuarantined, moActive, moNative>>

\* A turn of the ownership loop, its checks and its try_lock apart.
MoWait(c) ==
    /\ moStage[c] = "waiting"
    /\ \/ /\ MoCancelled(c) \/ moQuarantined
          /\ MoReturns(c, "error")
       \/ /\ ~MoCancelled(c) /\ ~moQuarantined
          /\ moStage' = [moStage EXCEPT ![c] = "locking"]
          /\ UNCHANGED <<moSeen, moStatus, moOutcome, moHeard, moPoisoned, moQuarantined,
                         moActive, moNative>>
    /\ UNCHANGED moSerial

MoTryLock(c) ==
    /\ moStage[c] = "locking"
    /\ \/ /\ moSerial = MoNobody /\ ~moPoisoned
          /\ moSerial' = c
          /\ moStage' = [moStage EXCEPT ![c] = "locked"]
          /\ UNCHANGED <<moSeen, moStatus, moOutcome, moHeard, moPoisoned, moQuarantined,
                         moActive, moNative>>
       \/ /\ moSerial # MoNobody
          /\ moStage' = [moStage EXCEPT ![c] = "waiting"]
          /\ UNCHANGED <<moSeen, moStatus, moOutcome, moHeard, moSerial, moPoisoned,
                         moQuarantined, moActive, moNative>>
       \/ /\ moPoisoned
          /\ MoReturns(c, "error")
          /\ UNCHANGED moSerial

\* PROGRESS_TIMEOUT passes while another call has the engine.
MoOwnershipTimesOut(c) ==
    /\ moStage[c] = "locking"
    /\ moSerial # MoNobody
    /\ MoReturns(c, "error")
    /\ UNCHANGED moSerial

\* With ownership the permission is checked again; then the voice, an
\* empty text, or the capture.
MoUncancelled(c) == ~MoCancelled(c)
MoPermitted(c) == ~moQuarantined /\ ~MoCancelled(c)

MoOpen(c) ==
    /\ moStage[c] = "locked"
    /\ \/ /\ ~MoPermitted(c)
          /\ moSerial' = MoNobody
          /\ MoReturns(c, "error")
       \/ /\ MoPermitted(c)                        \* no such voice, or an empty text
          /\ moSerial' = MoNobody
          /\ \E outcome \in {"error", "empty"} : MoReturns(c, outcome)
       \/ /\ MoPermitted(c)
          /\ moOwner' = [moOwner EXCEPT ![c] = "queued"]
          /\ moStage' = [moStage EXCEPT ![c] = "opened"]
          /\ UNCHANGED <<moSeen, moStatus, moOutcome, moHeard, moSerial, moPoisoned,
                         moQuarantined, moActive, moCapture, moCallback>>

MoActivate(c) ==
    /\ moStage[c] = "opened"
    /\ moActive' = c
    /\ moStage' = [moStage EXCEPT ![c] = "polling"]
    /\ UNCHANGED <<moSeen, moStatus, moOutcome, moHeard, moSerial, moPoisoned,
                   moQuarantined, moNative>>

\* The capture loop ends with an outcome and retire cancels the capture;
\* after a panic Drop does.
MoLeavesLoop(c, outcome) ==
    /\ moStage' = [moStage EXCEPT ![c] = "confirming"]
    /\ moOutcome' = [moOutcome EXCEPT ![c] = outcome]
    /\ moCapture' = [moCapture EXCEPT ![c] = MoCancelCapture(@)]
    /\ moStatus' = [moStatus EXCEPT ![c] = MoNext(MoClosed)]
    /\ UNCHANGED moHeard

MoPoll(c) ==
    /\ moStage[c] = "polling"
    /\ \/ /\ MoCancelled(c)
          /\ MoLeavesLoop(c, "error")
       \/ /\ ~MoCancelled(c)
          /\ moStatus' = [moStatus EXCEPT ![c] = MoNext(moCapture[c])]
          /\ moCapture' = [moCapture EXCEPT ![c] = MoTaken(@)]
          /\ moStage' = [moStage EXCEPT ![c] = "polled"]
          /\ UNCHANGED <<moOutcome, moHeard>>
    /\ UNCHANGED <<moSeen, moSerial, moPoisoned, moQuarantined, moActive, moOwner, moCallback>>

(* Nothing came: the loop polls on. *)
MoPending(c) ==
    /\ moStage' = [moStage EXCEPT ![c] = "polling"]
    /\ UNCHANGED <<moStatus, moOutcome, moHeard, moCapture>>

\* A window goes to the sink, which may refuse it or panic.
MoHandsOver(c) ==
    /\ moHeard' = [moHeard EXCEPT ![c] = Append(@, moStatus[c].window)]
    /\ moStage' = [moStage EXCEPT ![c] = "polling"]
    /\ UNCHANGED <<moStatus, moOutcome, moCapture>>
MoWindow(c) == MoHandsOver(c) \/ MoLeavesLoop(c, "error") \/ MoLeavesLoop(c, "panic")

MoMatch(c) ==
    /\ moStage[c] = "polled"
    /\ \/ MoCancelled(c) /\ MoLeavesLoop(c, "error")
       \/ ~MoCancelled(c) /\ moStatus[c].kind = "pending" /\ MoPending(c)
       \/ ~MoCancelled(c) /\ moStatus[c].kind = "audio" /\ MoWindow(c)
       \/ /\ ~MoCancelled(c) /\ moStatus[c].kind = "complete"
          /\ MoLeavesLoop(c, IF moHeard[c] = <<>> THEN "error" ELSE "ok")
       \/ ~MoCancelled(c) /\ moStatus[c].kind = "failed" /\ MoLeavesLoop(c, "error")
    /\ UNCHANGED <<moSeen, moSerial, moPoisoned, moQuarantined, moActive, moOwner, moCallback>>

MoGivesUpOnWatched(c) ==
    /\ moStage[c] = "polled" /\ moOwner[c] # "writing"
    /\ ~MoCancelled(c) /\ moStatus[c].kind = "pending"
    /\ MoLeavesLoop(c, "error")
    /\ UNCHANGED <<moSeen, moSerial, moPoisoned, moQuarantined, moActive, moOwner, moCallback>>

(* PROGRESS_TIMEOUT passes without a window. *)
MoGivesUp(c) ==
    /\ moStage[c] = "polled"
    /\ ~MoCancelled(c) /\ moStatus[c].kind = "pending"
    /\ MoLeavesLoop(c, "error")
    /\ UNCHANGED <<moSeen, moSerial, moPoisoned, moQuarantined, moActive, moOwner, moCallback>>

(* Retirement is confirmed, or two seconds pass. *)
MoConfirm(c) ==
    /\ moStage[c] = "confirming"
    /\ \/ /\ moCapture[c].retired
          /\ moOutcome' = [moOutcome EXCEPT ![c] = IF @ = "ok" /\ MoCancelled(c) THEN "error" ELSE @]
          /\ UNCHANGED moQuarantined
       \/ /\ ~moCapture[c].retired
          /\ moQuarantined' = TRUE
          /\ moOutcome' = [moOutcome EXCEPT ![c] = IF @ = "panic" THEN @ ELSE "error"]
    /\ moStage' = [moStage EXCEPT ![c] = "dropping"]
    /\ UNCHANGED <<moSeen, moStatus, moHeard, moSerial, moPoisoned, moActive, moNative>>

\* Drop clears ACTIVE and releases the handle under its lock; SERIAL goes
\* last, poisoned by a panic.  Of a retired capture only a callback that
\* still runs reads anything, that it is cancelled; the call's locals are
\* gone.
MoDrop(c) ==
    /\ moStage[c] = "dropping"
    /\ moActive' = MoNobody
    /\ moCapture' = [moCapture EXCEPT ![c] = IF @.retired THEN MoReleased ELSE @]
    /\ moSerial' = MoNobody
    /\ moPoisoned' = (moPoisoned \/ moOutcome[c] = "panic")
    /\ moStage' = [moStage EXCEPT ![c] = "ended"]
    /\ moSeen' = [moSeen EXCEPT ![c] = 0]
    /\ moHeard' = [moHeard EXCEPT ![c] = <<>>]
    /\ UNCHANGED <<moStatus, moOutcome, moQuarantined, moOwner, moCallback>>

moRequests == <<moTokens, moEpoch, moStopper>>
MoTimeout(c) == (MoOwnershipTimesOut(c) \/ MoGivesUp(c)) /\ UNCHANGED moRequests
MoCallStep(c) ==
    /\ \/ MoWait(c) \/ MoTryLock(c) \/ MoOpen(c) \/ MoActivate(c) \/ MoPoll(c) \/ MoMatch(c)
       \/ MoConfirm(c) \/ MoDrop(c)
    /\ UNCHANGED moRequests

------------------------------
\* stop: the epoch first, then the active capture under ACTIVE's lock.
MoStop ==
    /\ moStopper = "idle"
    /\ moEpoch < MoMaxStops
    /\ moEpoch' = moEpoch + 1
    /\ moStopper' = "raised"
    /\ UNCHANGED moCapture

MoStopCancels ==
    /\ moStopper = "raised"
    /\ moStopper' = "idle"
    /\ moCapture' = IF moActive = MoNobody THEN moCapture
                    ELSE [moCapture EXCEPT ![moActive] = MoCancelCapture(@)]
    /\ UNCHANGED moEpoch

MoStopStep ==
    /\ MoStop \/ MoStopCancels
    /\ UNCHANGED <<moStage, moSeen, moTokens, moStatus, moOutcome, moHeard, moSerial, moPoisoned,
                   moQuarantined, moActive, moOwner, moCallback>>

(* The request's own token. *)
MoCancelToken(c) ==
    /\ c \in MoCancellable \ moTokens
    /\ moTokens' = moTokens \cup {c}
    /\ UNCHANGED <<moRust, moNative>>

MoNative(c) == MoConsume(c) \/ MoPublish(c) \/ MoDidFinish(c) \/ MoDidCancel(c)
MoCaller(c) == MoBegin(c) /\ UNCHANGED moRequests

MoNextStep ==
    \/ \E c \in MoCall : MoCaller(c) \/ MoCallStep(c) \/ MoTimeout(c) \/ MoOwnerStep(c) \/ MoNative(c)
                         \/ MoCancelToken(c)
    \/ MoStopStep

\* Only the Rust thread and its clock are fair: Cocoa owes nothing.  A
\* loop that keeps polling sees its deadline pass.
MoSpec ==
    /\ MoInit /\ [][MoNextStep]_moVars
    /\ \A c \in MoCall : WF_moVars(MoCallStep(c)) /\ SF_moVars(MoTimeout(c))

------------------------------
\* An utterance is given to the shared synthesizer only when every earlier
\* capture confirmed that it no longer uses it: a call that waited for
\* SERIAL does not start on a synthesizer its predecessor could not stop.
SynthesizerExclusive ==
    \A c, d \in MoCall : moOwner[c] = "writing" /\ d # c => moOwner[d] \in {"none", "queued", "retired"}

\* A call that succeeds gave its sink every window the capture accepted,
\* in order, however the buffer callbacks and the delegate's completion
\* fell between its polls.
CaptureIsWhole ==
    \A c \in MoCall : moOutcome[c] = "ok" /\ moStage[c] = "dropping" =>
        moHeard[c] = [n \in 1..moCapture[c].accepted |-> n]

\* Every call returns, also when writeUtterance never does and no callback
\* ever comes.
MacOsOwed == \E c \in MoCall : moStage[c] \notin {"idle", "ended"}
MacOsMet == \A c \in MoCall : moStage[c] \in {"idle", "ended"}
=============================================================================
