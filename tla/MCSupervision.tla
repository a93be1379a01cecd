---------------------------- MODULE MCSupervision ----------------------------
(* For TLC: the threads that supervise an output device, play a progressive  *)
(* source, report markers, feed PulseAudio, initialise helper processes and  *)
(* serve remote sessions.  The components do not share state here: the       *)
(* initial state chooses which of them runs, and the variables of the others *)
(* stay blank.                                                               *)
EXTENDS DeviceOutput, ProgressivePlayback, MarkerEvents, PulseOutput, HelperInitialization,
        RemoteSession

CONSTANTS c1, c2, d1, d2, e1, e2, j1, j2

VARIABLES
    which,
    claim       \* the liveness claim of that component that is followed

(* Two marker dispatches: a paired one of two markers, then one of one. *)
MCInitial == <<2, 1>>
MCSize == [i \in 0 .. 3 |-> IF i = 0 THEN 2 ELSE 1]

(* Two jobs of different engines for the initialisation worker. *)
MCJobs == <<j1, j2>>
MCJobEngine == [j \in {j1, j2} |-> IF j = j1 THEN e1 ELSE e2]

(* PulseAudio plays a source shorter and one longer than a write. *)
MCPuFrames == <<1, 3>>

-----------------------------------------------------------------------------
Blank == 0

DeviceBlank ==
    /\ default = Blank /\ signals = Blank /\ events = Blank /\ notice = Blank
    /\ owner = Blank /\ connection = Blank /\ sound = Blank /\ failures = Blank

ProgressiveBlank ==
    /\ producer = Blank /\ channel = Blank /\ source = Blank /\ speech = Blank
    /\ stopState = Blank /\ progTicket = Blank /\ reported = Blank

MarkerBlank ==
    /\ capacity = Blank /\ worker = Blank /\ records = Blank /\ unsent = Blank
    /\ cue = Blank /\ playback = Blank /\ output = Blank /\ current = Blank
    /\ terminal = Blank /\ reports = Blank /\ writing = Blank /\ written = Blank

PuBlank ==
    /\ puQueue = Blank /\ puPending = Blank /\ puIdle = Blank /\ puFailure = Blank
    /\ puCooling = Blank /\ puConnected = Blank /\ puCut = Blank /\ puGen = Blank
    /\ puClosed = Blank /\ puAppended = Blank /\ puStopper = Blank /\ puClears = Blank
    /\ puDrainer = Blank /\ puWorker = Blank /\ puSeen = Blank /\ puCurrent = Blank
    /\ puRead = Blank /\ puStream = Blank /\ puBuffer = Blank /\ puLosses = Blank

InitializationBlank ==
    /\ queue = Blank /\ caller = Blank /\ expired = Blank /\ attempt = Blank
    /\ pending = Blank /\ initLock = Blank /\ lifecycle = Blank /\ active = Blank
    /\ offer = Blank /\ decision = Blank /\ published = Blank /\ retiring = Blank
    /\ running = Blank /\ unconfirmed = Blank

RemoteBlank ==
    /\ broker = Blank /\ stopFlag = Blank /\ session = Blank /\ conn = Blank
    /\ link = Blank /\ done = Blank

\* The connections are interchangeable, so the claim of c2 is that of c1.
Claims ==
    CASE which = "device" -> DeviceClaims
      [] which = "marker" -> Dispatch
      [] which = "init" -> InitializationClaims
      [] which = "remote" -> RemoteClaims \ {c2}
      [] OTHER -> {Blank}

\* The devices are interchangeable, so the first default is d1.
SupervisionInit ==
    /\ which \in {"device", "progressive", "marker", "pulse", "init", "remote"}
    /\ claim \in Claims
    /\ IF which = "device" THEN DeviceInit /\ default = d1 ELSE DeviceBlank
    /\ IF which = "progressive" THEN ProgressiveInit ELSE ProgressiveBlank
    /\ IF which = "marker" THEN MarkerInit ELSE MarkerBlank
    /\ IF which = "pulse" THEN PuInit ELSE PuBlank
    /\ IF which = "init" THEN InitializationInit ELSE InitializationBlank
    /\ IF which = "remote" THEN RemoteInit ELSE RemoteBlank

SupervisionNext ==
    /\ UNCHANGED <<which, claim>>
    /\ IF which = "device" THEN DeviceNext ELSE UNCHANGED deviceVars
    /\ IF which = "progressive" THEN ProgressiveNext ELSE UNCHANGED progressiveVars
    /\ IF which = "marker" THEN MarkerNext ELSE UNCHANGED markerVars
    /\ IF which = "pulse" THEN PuNext ELSE UNCHANGED puVars
    /\ IF which = "init" THEN InitializationNext ELSE UNCHANGED initVars
    /\ IF which = "remote" THEN RemoteNext ELSE UNCHANGED remoteVars

supervisionVars == <<which, claim, deviceVars, progressiveVars, markerVars, puVars, initVars,
                     remoteVars>>

\* The fairness each module states.
SupervisionSpec ==
    /\ SupervisionInit /\ [][SupervisionNext]_supervisionVars
    /\ WF_deviceVars(which = "device" /\ OwnerStep)
    /\ WF_deviceVars(which = "device" /\ RetryDelayPasses)
    /\ WF_deviceVars(which = "device" /\ Callback)
    /\ WF_progressiveVars(which = "progressive" /\ ProducerStep)
    /\ WF_progressiveVars(which = "progressive" /\ (FinishProgressive \/ DropProducer))
    /\ WF_progressiveVars(which = "progressive" /\ SinkStep)
    /\ WF_markerVars(which = "marker" /\ MarkerWorker)
    /\ WF_markerVars(which = "marker" /\ AudioThread)
    /\ WF_markerVars(which = "marker" /\ Reporter)
    /\ \A d \in Dispatch : WF_markerVars(which = "marker" /\ Completion(d))
    /\ WF_puVars(which = "pulse" /\ PuWorkerStep)
    /\ WF_puVars(which = "pulse" /\ PuClearTakes)
    /\ WF_puVars(which = "pulse" /\ puDrainer = "waiting" /\ PuDrain)
    /\ WF_puVars(which = "pulse" /\ PuStallPasses)
    /\ \A c \in Caller : WF_initVars(which = "init" /\ CallerStep(c))
    /\ \A c \in Caller : WF_initVars(which = "init" /\ AttemptStep(c))
    /\ \A c \in Caller : WF_initVars(which = "init" /\ DeadlinePasses(c))
    /\ WF_remoteVars(which = "remote" /\ BrokerEnds)
    /\ \A c \in Conn : WF_remoteVars(which = "remote" /\ ConnectionStep(c))
    /\ \A c \in Conn : WF_remoteVars(which = "remote" /\ ThreadStep(c))

-----------------------------------------------------------------------------
(* Of playback: the connection is to the device last announced, cues fire   *)
(* at their frames, a stop reaches a source still being primed, and         *)
(* PulseAudio's buffer and pending count stay true across clears.           *)
PlaybackSound ==
    /\ which = "device" => ConnectionIsCurrent
    /\ which = "progressive" => CuesExact /\ StopReachesProgressive
    /\ which = "pulse" => OneGenerationBuffered /\ PendingIsExact

(* Of the marker reports: what is reserved is bounded, counted and enough,  *)
(* and what is written is in order.                                         *)
MarkersSound == which = "marker" => ReservationsHold /\ WrittenInOrder

(* Of helper initialisation: no helper that came up too late is published   *)
(* or forgotten, and the slots cover every attempt.                         *)
HelpersSound == which = "init" => NoLatePublication /\ SlotsCoverAttempts

(* Of remote sessions: the process trees of one session at a time. *)
SessionsSound == which = "remote" => OneSessionsWorkers

(* What each component owes, and when it is met. *)
Owed ==
    CASE which = "device" -> DeviceOwed(claim)
      [] which = "progressive" -> ProgressiveOwed
      [] which = "marker" -> TRUE
      [] which = "pulse" -> DrainOwed
      [] which = "init" -> InitializationOwed(claim)
      [] which = "remote" -> RemoteOwed(claim)

Met ==
    CASE which = "device" -> DeviceMet(claim)
      [] which = "progressive" -> ProgressiveMet
      [] which = "marker" -> TerminalWritten(claim)
      [] which = "pulse" -> DrainMet
      [] which = "init" -> InitializationMet(claim)
      [] which = "remote" -> RemoteMet(claim)

(* What the supervising threads owe is met: a lost or changed device is     *)
(* reconciled, a progressive source and a drain end, terminal marker        *)
(* records are written, an initialisation and its slots end, and a session  *)
(* that is over loses its workers.  `which' and `claim' never change, so    *)
(* this one formula is a leads-to of each claim of each component.          *)
SupervisionEnds == Owed ~> Met
=============================================================================
