------------------------------ MODULE MCEngines ------------------------------
(* The routing of requests to engines, and the native engines themselves, for *)
(* TLC.  The components do not share state here: the initial state chooses    *)
(* which of them runs, and the variables of the others stay blank.            *)
EXTENDS EngineRouting, LinuxHelpers, EspeakEngine, MacOsEngine, PiperEngine

CONSTANTS e1, e2, v1, v2, v3

VARIABLE which

------------------------------
\* Routing: two voices of a preferred engine, then a fallback engine.

MCOrder == <<v1, v2, v3>>
MCEngineOf == [v \in {v1, v2, v3} |-> IF v = v3 THEN e2 ELSE e1]

------------------------------
\* DECtalk and Eloquence: one request each, with the buffers the native
\* library fills and the indexes it reports in them, and one of DECtalk
\* whose index comes too late.  Each index is known and comes once.

LnIndex(i, f) == [index |-> i, frame |-> f]
LnBuffer(n, x) == [frames |-> n, indexes |-> x]
LnAnchor(o, b) == [offset |-> o, before |-> b]

MCLnRequests ==
  << [engine |-> "dectalk", sentences |-> <<0>>, words |-> <<0, 4>>,
      anchors |-> <<LnAnchor(2, TRUE), LnAnchor(5, TRUE), LnAnchor(0, FALSE)>>,
      script |-> <<LnBuffer(2, <<LnIndex(1, 0)>>), LnBuffer(1, <<LnIndex(2, 0)>>),
                   LnBuffer(1, <<LnIndex(3, 2)>>), LnBuffer(0, <<>>)>>],
     [engine |-> "eloquence", sentences |-> <<0>>, words |-> <<0, 4>>,
      anchors |-> <<LnAnchor(4, TRUE)>>,
      script |-> <<LnBuffer(0, <<LnIndex(1, 0)>>), LnBuffer(1, <<LnIndex(2, 0)>>),
                   LnBuffer(1, <<LnIndex(3, 0)>>), LnBuffer(1, <<LnIndex(4, 0)>>)>>],
     [engine |-> "dectalk", sentences |-> <<0>>, words |-> <<>>, anchors |-> <<>>,
      script |-> <<LnBuffer(1, <<>>), LnBuffer(1, <<>>), LnBuffer(1, <<LnIndex(1, 0)>>)>>] >>

\* eSpeak: three pairs of requests, with multi-byte characters, characters
\* escaped in SSML, an unknown voice, an empty text and an anchor reported
\* twice; and every way to report two words with blocks of two frames and
\* one, each for the first frame of either block (a late mark, against
\* DescribesItsBlocks, if the second block reports frame 0) or the end.

EsChar(n, e) == [width |-> n, escape |-> e]
EsWord(i, f) == [kind |-> "word", ref |-> i, frame |-> f]
EsAnchor(i, f) == [kind |-> "anchor", ref |-> i, frame |-> f]
EsBlock(n, m) == [frames |-> n, marks |-> m]
EsAsk(s, k, t, a, b, ok) ==
    [stream |-> s, known |-> k, text |-> t, anchors |-> a, blocks |-> b, status |-> ok]

EsStreamed ==
    EsAsk(TRUE, TRUE, <<EsChar(2, 1), EsChar(1, 4)>>, <<2>>,
          <<EsBlock(1, <<EsWord(1, 0), EsWord(2, 3)>>), EsBlock(2, <<EsAnchor(1, 2)>>),
            EsBlock(1, <<>>)>>, TRUE)
EsBuffered ==
    EsAsk(FALSE, TRUE, <<EsChar(1, 4), EsChar(2, 1)>>, <<0, 3>>,
          <<EsBlock(1, <<EsAnchor(1, 0), EsWord(1, 0)>>),
            EsBlock(1, <<EsWord(2, 1), EsAnchor(2, 3)>>)>>, TRUE)
EsFailing == EsAsk(TRUE, TRUE, <<EsChar(1, 1)>>, <<>>, <<EsBlock(3, <<EsWord(1, 0)>>)>>, FALSE)
EsUnknown == EsAsk(FALSE, FALSE, <<EsChar(1, 1)>>, <<>>, <<>>, TRUE)
EsEmpty == EsAsk(TRUE, TRUE, <<>>, <<0>>, <<>>, TRUE)
EsRepeated ==
    EsAsk(TRUE, TRUE, <<EsChar(1, 1)>>, <<0>>,
          <<EsBlock(1, <<EsAnchor(1, 0)>>), EsBlock(0, <<EsAnchor(1, 1)>>)>>, TRUE)

EsPlace == [block : 1..2, frame : {0, 2, 3}]
EsReported(n, place, b) == IF place.block = b THEN <<EsWord(n, place.frame)>> ELSE <<>>
EsSpread(p, q) ==
    EsAsk(TRUE, TRUE, <<EsChar(2, 1), EsChar(1, 1)>>, <<>>,
          [b \in 1..2 |-> EsBlock(3 - b, EsReported(1, p, b) \o EsReported(2, q, b))], TRUE)

MCEsRequests ==
    {<<EsStreamed, EsBuffered>>, <<EsFailing, EsUnknown>>, <<EsEmpty, EsRepeated>>} \cup
    UNION {{<<EsSpread(p, q), EsEmpty>> : q \in {r \in EsPlace : p.block <= r.block}} :
           p \in EsPlace}

\* Piper: three calls over three models; two voices share a model, one has
\* a speaker its model does not have, and one is unknown.

PiAsk(v, s, e, n) == [voice |-> v, stream |-> s, empty |-> e, chunks |-> n]
MCPiRequests ==
    { <<PiAsk("a", TRUE, FALSE, 2), PiAsk("b", FALSE, FALSE, 1), PiAsk("c", FALSE, FALSE, 3)>>,
      <<PiAsk("a", FALSE, FALSE, 2), PiAsk("a", TRUE, FALSE, 1), PiAsk("d", TRUE, FALSE, 1)>>,
      <<PiAsk("z", TRUE, FALSE, 2), PiAsk("a", TRUE, TRUE, 1), PiAsk("c", TRUE, FALSE, 1)>> }
MCPiVoices ==
    "a" :> [model |-> 1, speaker |-> 0] @@ "b" :> [model |-> 1, speaker |-> 1]
    @@ "c" :> [model |-> 2, speaker |-> 0] @@ "d" :> [model |-> 3, speaker |-> 1]
MCPiSpeakers == <<2, 1, 1>>

------------------------------
Blank == 0

RoutingBlank ==
    /\ gen_counter = Blank /\ stop_epoch = Blank /\ slot = Blank /\ recover = Blank
    /\ stopping = Blank /\ inbox = Blank /\ submitted = Blank /\ circuit = Blank
    /\ superseded = Blank /\ excluded = Blank /\ w = Blank /\ tried = Blank
    /\ heard = Blank /\ faulted = Blank /\ failing = Blank /\ reconnected = Blank

LnBlank ==
    /\ lnServed = Blank /\ lnPhase = Blank /\ lnTokens = Blank /\ lnEpoch = Blank
    /\ lnExpected = Blank /\ lnAborted = Blank /\ lnOpen = Blank /\ lnQueue = Blank
    /\ lnJobs = Blank /\ lnJob = Blank /\ lnAt = Blank /\ lnCapture = Blank
    /\ lnOut = Blank /\ lnHeard = Blank /\ lnLate = Blank

MbBlank ==
    /\ mbStage = Blank /\ mbGeneration = Blank /\ mbEntered = Blank /\ mbResult = Blank
    /\ mbTokens = Blank /\ mbStops = Blank /\ mbOwner = Blank /\ mbChild = Blank
    /\ mbThreads = Blank /\ mbOutputs = Blank /\ mbBroken = Blank /\ mbFailure = Blank
    /\ mbDeadline = Blank /\ mbHelper = Blank

EsBlank ==
    /\ esRequest = Blank /\ esStage = Blank /\ esCaller = Blank /\ esResult = Blank
    /\ esLock = Blank /\ esEpoch = Blank /\ esExpected = Blank /\ esTokens = Blank
    /\ esCapture = Blank /\ esAt = Blank /\ esOut = Blank /\ esQueue = Blank
    /\ esPushed = Blank /\ esPending = Blank /\ esHeard = Blank

MoBlank ==
    /\ moStage = Blank /\ moSeen = Blank /\ moTokens = Blank /\ moStatus = Blank
    /\ moOutcome = Blank /\ moHeard = Blank /\ moSerial = Blank /\ moPoisoned = Blank
    /\ moEpoch = Blank /\ moQuarantined = Blank /\ moActive = Blank /\ moStopper = Blank
    /\ moCapture = Blank /\ moOwner = Blank /\ moCallback = Blank

PiBlank ==
    /\ piRequest = Blank /\ piStage = Blank /\ piResult = Blank /\ piHeard = Blank
    /\ piState = Blank /\ piLock = Blank /\ piFailed = Blank /\ piLoads = Blank
    /\ piStop = Blank /\ piStops = Blank /\ piTokens = Blank /\ piNative = Blank

EnginesInit ==
    /\ which \in {"routing", "linux", "mbrola", "espeak", "macos", "piper"}
    /\ IF which = "routing" THEN Init ELSE RoutingBlank
    /\ IF which = "linux" THEN LnInit ELSE LnBlank
    /\ IF which = "mbrola" THEN MbInit ELSE MbBlank
    /\ IF which = "espeak" THEN EsInit ELSE EsBlank
    /\ IF which = "macos" THEN MoInit ELSE MoBlank
    /\ IF which = "piper" THEN PiInit ELSE PiBlank

\* A macOS call is stopped or cancelled, not both.
MoOneInterruption == MoNextStep /\ (moTokens' = {} \/ moEpoch' = 0)

EnginesNext ==
    /\ UNCHANGED which
    /\ IF which = "routing" THEN Next ELSE UNCHANGED vars
    /\ IF which = "linux" THEN LnNext ELSE UNCHANGED lnVars
    /\ IF which = "mbrola" THEN MbNext ELSE UNCHANGED mbVars
    /\ IF which = "espeak" THEN EsNext ELSE UNCHANGED esVars
    /\ IF which = "macos" THEN MoOneInterruption ELSE UNCHANGED moVars
    /\ IF which = "piper" THEN PiNext ELSE UNCHANGED piVars

enginesVars == <<which, vars, lnVars, mbVars, esVars, moVars, piVars>>

\* The fairness each module states; the routing's native calls return.
EnginesSpec ==
    /\ EnginesInit /\ [][EnginesNext]_enginesVars
    /\ WF_vars(which = "routing" /\ WorkerStep)
    /\ WF_vars(which = "routing" /\ \E e \in Engine : StopEngine(e))
    /\ WF_vars(which = "routing" /\ \E r \in NativeResult : NativeReturns(r))
    /\ WF_lnVars(which = "linux" /\ LnConsumer)
    /\ WF_lnVars(which = "linux" /\ LnOwner)
    /\ \A c \in MbCall : WF_mbVars(which = "mbrola" /\ mbHelper = "alive" /\ MbEngine(c))
    /\ WF_mbVars(which = "mbrola" /\ mbHelper = "alive" /\ MbDeadlinePasses)
    /\ \A c \in EsCall : WF_esVars(which = "espeak" /\ EsNative(c))
    /\ \A c \in EsCall : WF_esVars(which = "espeak" /\ EsStep(c))
    /\ \A c \in MoCall : WF_moVars(which = "macos" /\ MoCallStep(c))
    /\ \A c \in MoCall : SF_moVars(which = "macos" /\ MoTimeout(c))

\* Routing alone, and native calls that may never return (PollingSpec).
PollingRouting ==
    /\ which = "routing" /\ EnginesInit
    /\ [][EnginesNext]_enginesVars
    /\ WF_vars(WorkerStep)
    /\ WF_vars(\E e \in Engine : StopEngine(e))

------------------------------
\* Of the fallback loop (routing.rs, health.rs): no utterance is spoken by
\* two engines, a half-open probe is held by somebody who will resolve it,
\* an engine is blamed only for a failure of its own, a probe runs on a new
\* connection, and no voice is tried twice for one chunk.
RoutingSound == which = "routing" => RoutingInvariant

\* Of the native engines: nothing native outlives its call, macOS' one
\* synthesizer has one user, and a call that succeeds delivered the whole
\* capture.
NativeEnginesSound ==
    /\ which = "mbrola" => NothingNativeLeft
    /\ which = "macos" => SynthesizerExclusive /\ CaptureIsWhole

\* Of the engines that report marks while they speak: a mark comes before
\* its audio.  Of eSpeak this is claimed of the scripts that describe their
\* own PCM blocks or later ones (DescribesItsBlocks); the Linux helpers
\* refuse a late mark instead (MarksLeadAudio).
MarksSound ==
    /\ which = "linux" => MarksLeadAudio
    /\ which = "espeak" => MarksBeforeTheirAudio

\* Of Piper: a call is spoken by its voice's model and speaker, and a model
\* that failed to load is not tried again.
PiperSound == which = "piper" => SpokenByItsVoice /\ FailedModelStaysFailed

\* What each component owes, and when it is met.  Piper owes nothing here:
\* its calls last as long as its library takes.
Owed ==
    CASE which = "routing" -> Busy
      [] which = "linux" -> LinuxHelperOwed
      [] which = "mbrola" -> MbrolaOwed
      [] which = "espeak" -> EspeakOwed
      [] which = "macos" -> MacOsOwed
      [] OTHER -> FALSE

Met ==
    CASE which = "routing" -> ~Busy
      [] which = "linux" -> LinuxHelperMet
      [] which = "mbrola" -> MbrolaMet
      [] which = "espeak" -> EspeakMet
      [] which = "macos" -> MacOsMet
      [] OTHER -> TRUE

\* Every request of the routing loop and every call of a native engine but
\* Piper ends, if (EnginesSpec): routing's native calls return (without it
\* see PollingRouting); the scripts of DECtalk, Eloquence and eSpeak, which
\* are finite, run on to their end.  MBROLA's children and pipe threads
\* need not end, nor Cocoa report: deadlines end those calls, or MBROLA's
\* helper itself, after which nothing is owed.  `which' never changes, so
\* this one formula is a leads-to of each component.
EnginesAnswer == Owed ~> Met
=============================================================================
