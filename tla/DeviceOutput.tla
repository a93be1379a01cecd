---------------------------- MODULE DeviceOutput ----------------------------
(***************************************************************************)
(* The output that follows the system's default device                     *)
(* (omnivox-audio/src/device.rs).  One owner thread opens and retires      *)
(* native connections.  Notification callbacks raise a revision and post   *)
(* to a bounded event channel, without waiting; a full channel is recorded *)
(* as an overflow.  Queueing callers append to the published connection or *)
(* ask for a retry.  Opening takes long, so the owner checks afterwards,   *)
(* and once more inside the admission gates, that nothing was announced    *)
(* meanwhile.                                                              *)
(*                                                                         *)
(* The three sinks are replaced together under all gates: they are one     *)
(* connection here.  The system (external) changes its default and calls   *)
(* the callback in one step; the callback's send comes later.              *)
(***************************************************************************)
EXTENDS Naturals, Sequences, FiniteSets

CONSTANTS
    Device,             \* endpoints
    NoDevice,           \* no default endpoint, no connection
    Sound,              \* buffers queued on the output
    EVENT_CAPACITY,     \* of the event channel
    AUTOMATIC_ATTEMPTS, \* attempts after a fresh event
    MaxNotices,         \* bound: notifications from the system
    MaxFailures         \* bound: how often a native call fails

ASSUME DeviceAssumption ==
    /\ NoDevice \notin Device
    /\ {EVENT_CAPACITY, AUTOMATIC_ATTEMPTS} \subseteq Nat \ {0}
    /\ {MaxNotices, MaxFailures} \subseteq Nat

VARIABLES
    default,        \* the system's default endpoint
    signals,        \* revision, overflow, retry_requested, closed
    events,         \* the event channel
    notice,         \* the callback in progress: an event to send, or "none"
    owner,          \* the owner thread: program counter and locals
    connection,     \* what the sinks are connected to, and since which revision
    sound,          \* sound[b]: where a buffer is
    failures

deviceVars ==
    <<default, signals, events, notice, owner, connection, sound, failures>>

NoEvent == [kind |-> "none", id |-> NoDevice]

Disconnected == [device |-> NoDevice, revision |-> 0]

DeviceInit ==
    /\ default \in Device
    /\ signals = [revision |-> 0, overflow |-> FALSE, retry_requested |-> FALSE,
                  closed |-> FALSE]
    /\ events = <<>>
    /\ notice = NoEvent
    /\ owner = [pc |-> "reconcile", starting |-> AUTOMATIC_ATTEMPTS, retries |-> 0,
                force |-> TRUE, due |-> FALSE, fresh |-> FALSE, revision |-> 0,
                target |-> NoDevice, opened |-> NoDevice, device |-> NoDevice]
    /\ connection = Disconnected
    /\ sound = [b \in Sound |-> "new"]
    /\ failures = 0

-----------------------------------------------------------------------------
(* Callbacks of the system: Signals::notify *)

TrySend(e) == IF Len(events) < EVENT_CAPACITY THEN Append(events, e) ELSE events

\* The default moves, or an endpoint is reported; the revision rises.
Notify(d, e) ==
    /\ ~signals.closed
    /\ notice = NoEvent
    /\ signals.revision < MaxNotices
    /\ default' = d
    /\ signals' = [signals EXCEPT !.revision = @ + 1]
    /\ notice' = e
    /\ UNCHANGED <<events, owner, connection, sound, failures>>

OnDefaultDeviceChanged ==
    \E d \in (Device \cup {NoDevice}) \ {default} :
        Notify(d, [kind |-> "DefaultChanged", id |-> NoDevice])

\* A removed or reconfigured endpoint; one that cannot be named is a rescan.
EndpointChanged ==
    \E d \in Device :
        \/ Notify(default, [kind |-> "EndpointChanged", id |-> d])
        \/ Notify(default, [kind |-> "Rescan", id |-> NoDevice])

\* Mutant: the callback raises the revision only.
NotifySendLost ==
    /\ notice.kind \notin {"none", "full"}
    /\ notice' = NoEvent
    /\ UNCHANGED <<default, signals, events, owner, connection, sound, failures>>

\* try_send; a full channel leads to the overflow flag.
NotifySend ==
    /\ notice.kind \notin {"none", "full"}
    /\ events' = TrySend(notice)
    /\ notice' = IF Len(events) < EVENT_CAPACITY THEN NoEvent
                 ELSE [NoEvent EXCEPT !.kind = "full"]
    /\ UNCHANGED <<default, signals, owner, connection, sound, failures>>

NotifyOverflow ==
    /\ notice.kind = "full"
    /\ signals' = [signals EXCEPT !.overflow = TRUE]
    /\ notice' = NoEvent
    /\ UNCHANGED <<default, events, owner, connection, sound, failures>>

-----------------------------------------------------------------------------
(* Queueing callers: DeviceSink *)

\* Signals::retry: one request at a time; a full channel wakes the owner anyway.
RequestRetry ==
    /\ signals' = [signals EXCEPT !.retry_requested = @ \/ ~signals.closed]
    /\ events' = IF ~signals.closed /\ ~signals.retry_requested
                 THEN TrySend([kind |-> "Retry", id |-> NoDevice]) ELSE events

\* append_with: counted on the current connection, or discarded with a retry.
AppendSound(b) ==
    /\ owner.starting = 0
    /\ sound[b] = "new"
    /\ IF connection.device # NoDevice /\ ~signals.closed
       THEN /\ sound' = [sound EXCEPT ![b] = "queued"]
            /\ UNCHANGED <<signals, events>>
       ELSE /\ sound' = [sound EXCEPT ![b] = "refused"]
            /\ RequestRetry
    /\ UNCHANGED <<default, notice, owner, connection, failures>>

\* The lifetime of everything queued on the replaced connection ends.
Retired == [b \in Sound |-> IF sound[b] = "queued" THEN "cancelled" ELSE sound[b]]

ClearSink ==
    /\ owner.starting = 0
    /\ \E b \in Sound : sound[b] = "queued"
    /\ sound' = Retired
    /\ UNCHANGED <<default, signals, events, notice, owner, connection, failures>>

\* CountedSource: played to its end, or dropped once its lifetime is over.
SourceDrops(b) ==
    /\ sound[b] \in {"queued", "cancelled"}
    /\ sound' = [sound EXCEPT ![b] = IF @ = "queued" THEN "played" ELSE "dropped"]
    /\ UNCHANGED <<default, signals, events, notice, owner, connection, failures>>

-----------------------------------------------------------------------------
(* The owner thread: Owner::reconcile *)

Attempted(o, retries) == [o EXCEPT !.pc = "loop", !.retries = retries,
                                   !.force = FALSE, !.due = FALSE]

\* What start() does with the outcome of a reconciliation, and what run() does.
Concluded(o, outcome) ==
    CASE o.starting > 0 /\ outcome = "true" -> [Attempted(o, 0) EXCEPT !.starting = 0,
                                                                       !.due = TRUE]
      [] o.starting > 1 /\ outcome = "false" -> [o EXCEPT !.pc = "reconcile",
                                                          !.starting = @ - 1]
      [] \/ o.starting > 0 /\ outcome = "error"
         \/ o.starting = 1 /\ outcome = "false" -> [o EXCEPT !.pc = "drop"]
      [] o.starting = 0 /\ outcome = "true" -> Attempted(o, 0)
      [] o.starting = 0 /\ outcome = "false" ->
            Attempted(o, IF o.retries = 0 THEN 1 ELSE o.retries)
      [] OTHER -> Attempted(o, IF o.retries = 0 THEN 0 ELSE o.retries - 1)

Fails == failures < MaxFailures /\ failures' = failures + 1

Succeeds == UNCHANGED failures

ReadRevision ==
    /\ owner.pc = "reconcile"
    /\ owner' = [owner EXCEPT !.pc = "target", !.revision = signals.revision]
    /\ UNCHANGED <<default, signals, events, notice, connection, sound, failures>>

\* default_device; the connection is kept only when it already is the target.
ReadTarget ==
    /\ owner.pc = "target"
    /\ \/ /\ Succeeds
          /\ IF ~owner.force /\ owner.device # NoDevice /\ default = owner.device
             THEN owner' = Concluded(owner, "true")
             ELSE owner' = [owner EXCEPT !.pc = "retire", !.target = default]
       \/ /\ Fails
          /\ owner' = [owner EXCEPT !.pc = "retire", !.target = NoDevice]
    /\ UNCHANGED <<default, signals, events, notice, connection, sound>>

\* retire: under all gates the sinks lose their connection.
Retire ==
    /\ owner.pc = "retire"
    /\ connection' = Disconnected
    /\ sound' = Retired
    /\ owner' = IF owner.target = NoDevice
                THEN Concluded([owner EXCEPT !.device = NoDevice], "error")
                ELSE [owner EXCEPT !.pc = "open", !.device = NoDevice]
    /\ UNCHANGED <<default, signals, events, notice, failures>>

\* open() opens whatever the default is by now.
Open ==
    /\ owner.pc = "open"
    /\ \/ /\ default # NoDevice
          /\ Succeeds
          /\ owner' = [owner EXCEPT !.pc = "verify", !.opened = default]
       \/ /\ IF default = NoDevice THEN Succeeds ELSE Fails
          /\ owner' = Concluded(owner, "error")
    /\ UNCHANGED <<default, signals, events, notice, connection, sound>>

Announced == signals.revision # owner.revision

\* Mutant: being on the target again counts as nothing having happened.
VerifyTargetOnly ==
    /\ owner.pc = "verify"
    /\ \/ /\ Succeeds
          /\ owner' = IF signals.closed \/ default # owner.target
                      THEN Concluded(owner, "false")
                      ELSE [owner EXCEPT !.pc = "publish", !.revision = signals.revision]
       \/ /\ Fails
          /\ ~signals.closed /\ ~Announced
          /\ owner' = Concluded(owner, "error")
    /\ UNCHANGED <<default, signals, events, notice, connection, sound>>

Verify ==
    /\ owner.pc = "verify"
    /\ \/ /\ Succeeds
          /\ owner' = IF signals.closed \/ Announced \/ default # owner.target
                      THEN Concluded(owner, "false")
                      ELSE [owner EXCEPT !.pc = "publish"]
       \/ /\ Fails
          /\ ~signals.closed /\ ~Announced
          /\ owner' = Concluded(owner, "error")
    /\ UNCHANGED <<default, signals, events, notice, connection, sound>>

\* Mutant: the checks made before the gates are trusted inside them.
PublishUnchecked ==
    /\ owner.pc = "publish"
    /\ connection' = [device |-> owner.opened, revision |-> owner.revision]
    /\ owner' = [Concluded(owner, "true") EXCEPT !.device = owner.target]
    /\ sound' = Retired
    /\ UNCHANGED <<default, signals, events, notice, failures>>

\* Under all gates: publish, unless something was announced or we are closing.
Publish ==
    /\ owner.pc = "publish"
    /\ IF signals.closed \/ Announced
       THEN /\ owner' = Concluded(owner, "false")
            /\ UNCHANGED connection
       ELSE /\ connection' = [device |-> owner.opened, revision |-> owner.revision]
            /\ owner' = [Concluded(owner, "true") EXCEPT !.device = owner.target]
    /\ sound' = Retired
    /\ UNCHANGED <<default, signals, events, notice, failures>>

-----------------------------------------------------------------------------
(* Owner::run *)

LoopTop ==
    /\ owner.pc = "loop"
    /\ owner' = [owner EXCEPT !.pc = IF signals.closed THEN "drop" ELSE "wait"]
    /\ UNCHANGED <<default, signals, events, notice, connection, sound, failures>>

RetryDelayPasses ==
    /\ ~owner.due /\ owner.starting = 0
    /\ owner' = [owner EXCEPT !.due = TRUE]
    /\ UNCHANGED <<default, signals, events, notice, connection, sound, failures>>

\* What an event says; Shutdown ends the thread.
Heard(o, e) ==
    CASE e.kind = "Shutdown" -> [o EXCEPT !.pc = "drop"]
      [] e.kind \in {"DefaultChanged", "Rescan"} -> [o EXCEPT !.fresh = TRUE]
      [] e.kind = "EndpointChanged" ->
            [o EXCEPT !.fresh = TRUE, !.force = @ \/ o.device = e.id]
      [] OTHER -> o

\* recv, or recv_timeout while attempts are left; then the overflow flag.
Receive ==
    /\ owner.pc = "wait"
    /\ LET o == [owner EXCEPT !.pc = "collect", !.fresh = FALSE,
                              !.force = @ \/ signals.overflow] IN
       \/ /\ events # <<>>
          /\ owner' = Heard(o, Head(events))
          /\ events' = Tail(events)
       \/ /\ events = <<>> /\ owner.retries > 0 /\ owner.due
          /\ owner' = o
          /\ UNCHANGED events
    /\ signals' = [signals EXCEPT !.overflow = FALSE]
    /\ UNCHANGED <<default, notice, connection, sound, failures>>

\* The rest of the channel.
CollectEvent ==
    /\ owner.pc = "collect" /\ events # <<>>
    /\ owner' = Heard(owner, Head(events))
    /\ events' = Tail(events)
    /\ UNCHANGED <<default, signals, notice, connection, sound, failures>>

\* Then the retry request; an attempt waits for the delay since the last one.
Decide ==
    /\ owner.pc = "collect" /\ events = <<>>
    /\ LET fresh == owner.fresh \/ signals.retry_requested
           o == [owner EXCEPT !.retries = IF fresh THEN AUTOMATIC_ATTEMPTS ELSE @] IN
       owner' = CASE signals.closed -> [o EXCEPT !.pc = "drop"]
                  [] ~signals.closed /\ ~owner.due -> [o EXCEPT !.pc = "loop"]
                  [] OTHER -> [o EXCEPT !.pc = "reconcile"]
    /\ signals' = [signals EXCEPT !.retry_requested = FALSE]
    /\ UNCHANGED <<default, events, notice, connection, sound, failures>>

\* Owner::drop: closed, then the connection is retired.
OwnerDrop ==
    /\ owner.pc = "drop"
    /\ signals' = [signals EXCEPT !.closed = TRUE]
    /\ connection' = Disconnected
    /\ sound' = Retired
    /\ owner' = [owner EXCEPT !.pc = "exited", !.device = NoDevice]
    /\ UNCHANGED <<default, events, notice, failures>>

\* DeviceRuntime::drop, before it joins the owner.
DropRuntime ==
    /\ ~signals.closed /\ owner.starting = 0
    /\ signals' = [signals EXCEPT !.closed = TRUE]
    /\ events' = TrySend([kind |-> "Shutdown", id |-> NoDevice])
    /\ UNCHANGED <<default, notice, owner, connection, sound, failures>>

-----------------------------------------------------------------------------
OwnerStep ==
    ReadRevision \/ ReadTarget \/ Retire \/ Open \/ Verify \/ Publish \/ LoopTop
    \/ Receive \/ CollectEvent \/ Decide \/ OwnerDrop

Callback == NotifySend \/ NotifyOverflow

SystemNotice == OnDefaultDeviceChanged \/ EndpointChanged

DeviceCaller == (\E b \in Sound : AppendSound(b)) \/ ClearSink \/ DropRuntime

OutputThread == \E b \in Sound : SourceDrops(b)

DeviceStopped == owner.pc = "exited" /\ UNCHANGED deviceVars

DeviceNext ==
    OwnerStep \/ RetryDelayPasses \/ Callback \/ SystemNotice \/ DeviceCaller
    \/ OutputThread \/ DeviceStopped

\* The owner and the callbacks run, time passes.
DeviceFairness ==
    /\ WF_deviceVars(OwnerStep)
    /\ WF_deviceVars(RetryDelayPasses)
    /\ WF_deviceVars(Callback)

DeviceSpec == DeviceInit /\ [][DeviceNext]_deviceVars /\ DeviceFairness

-----------------------------------------------------------------------------
\* No connection is published that was opened before the newest announcement:
\* an open that took long never overwrites a newer device choice.
NewestPublished ==
    [][connection' # connection /\ connection' # Disconnected
        => connection'.revision = signals.revision /\ ~signals.closed]_deviceVars

\* A connection as new as the newest announcement is to the device that is the
\* default now; and nothing counts as queued on an output without a connection.
ConnectionIsCurrent ==
    /\ connection # Disconnected /\ connection.revision = signals.revision
          => connection.device = default
    /\ \A b \in Sound : sound[b] = "queued" => connection.device # NoDevice

Stopping == signals.closed \/ owner.pc \in {"drop", "exited"}

\* Whatever the order of notifications, overflows and failures: the output does
\* not stay on a device that is no longer the default; audio refused for want of
\* a connection brings one back once opening works again; and a runtime that is
\* dropped can join its owner.  What is owed leads to what is met.
DeviceClaims == {"follow", "retry", "join"}
DeviceOwed(k) ==
    CASE k = "follow" -> connection.device \notin {NoDevice, default}
      [] k = "retry" -> signals.retry_requested /\ failures = MaxFailures
      [] k = "join" -> signals.closed
DeviceMet(k) ==
    CASE k = "follow" -> Stopping \/ connection.device \in {NoDevice, default}
      [] k = "retry" -> Stopping \/ connection.device = default
      [] k = "join" -> owner.pc = "exited"
=============================================================================
