------------------------------- MODULE MCVoices -------------------------------
(* For TLC: the components that work on one request or document at a time.    *)
(* They do not share state here: the initial state chooses which of them      *)
(* runs, and the variables of the others stay blank.                          *)
EXTENDS SpeechBatch,
        TgSpeechBoxHelper, CallbackHelpers, HelperWire,
        NativeParameters, EngineConfiguration, TLC

VARIABLE which

------------------------------
\* Batches of every job: speech of one or several logical voices, with and
\* without cues, between icons, tones, silences, codes and overlays.

BatchSpeech(o, c) == [k |-> "speech", owner |-> o, cue |-> c]
BatchPart(k) == [k |-> k, owner |-> "legacy", cue |-> FALSE]
BatchJob(j, p) == [job |-> j, plan |-> p]
BatchSaid == BatchSpeech("legacy", FALSE)
BatchCued == BatchSpeech("legacy", TRUE)

MCRequests ==
    { BatchJob("batch", <<BatchCued, BatchPart("icon"), BatchSaid>>),
      BatchJob("batch", <<BatchCued, BatchPart("insert"), BatchPart("silence")>>),
      BatchJob("batch", <<BatchPart("overlay"), BatchSaid, BatchPart("code"), BatchCued,
                          BatchPart("tone")>>),
      BatchJob("timeline", <<BatchCued, BatchCued>>),
      BatchJob("mixed", <<BatchSpeech("v1", TRUE), BatchSpeech("v2", FALSE), BatchCued>>),
      BatchJob("mixed", <<BatchSpeech("v1", TRUE), BatchSpeech("v1", FALSE)>>),
      BatchJob("choice", <<BatchSpeech("v1", TRUE), BatchSpeech("v1", FALSE)>>),
      BatchJob("preview", <<BatchCued, BatchSaid>>),
      BatchJob("letter", <<BatchSaid>>) }

\* Texts of every three of a letter, a capital, a space and a full stop,
\* and longer ones with the other breaks; one action anywhere, or files and
\* tones that share the limit on decoded samples.

Texts ==
    [1 .. 3 -> {"a", "A", " ", "."}]
    \cup { <<"a", "[", "*", "]", "A">>, <<"a", ",", " ", "a", "\n", "a">>,
           <<"A", "a", " ", "A">>, <<"a", ".", " ", "A">>,
           <<"a", ".", ")", " ", "a", " ", "a", ",", " ", "a">> }
TextCue(o, f) ==
    [offset |-> o, affinity |-> f, kind |-> "SemanticEvent", file |-> "none",
     changed |-> FALSE, speech_bus |-> FALSE, samples |-> 0]
TextFile(f, changed, bus) ==
    [TextCue(0, "Before") EXCEPT !.kind = "Audio", !.file = f, !.changed = changed,
                                 !.speech_bus = bus]
TextTone == [TextCue(1, "After") EXCEPT !.kind = "Tone", !.samples = 2, !.speech_bus = TRUE]
MCSpans ==
    { [text |-> t, actions |-> <<TextCue(o, f)>>, max_words |-> m, split_caps |-> c, table |-> p] :
        t \in Texts, o \in -1 .. 3, f \in {"Before", "After"}, m \in {1, 2}, c \in BOOLEAN,
        p \in {{}, {"."}} }
    \cup
    { [text |-> <<"a", " ", "A">>, actions |-> <<TextFile("f", c, s), x, TextFile(g, FALSE, t)>>,
       max_words |-> 1, split_caps |-> FALSE, table |-> {}] :
        c \in BOOLEAN, s \in BOOLEAN, t \in BOOLEAN, g \in {"f", "g", "empty"},
        x \in {TextTone, TextCue(1, "Before")} }
MCSpoken == [c \in {"."} |-> <<"d", "t">>]
MCFileSize == [f |-> 2, g |-> 3, empty |-> 0]

\* Two streamed requests and a buffered one, with anchors at the beginning,
\* inside and at the end, and characters that take no, one or two frames.

MCTgRequests ==
    << [text |-> <<1, 2, 0>>, anchors |-> <<0, 1, 3>>, stream |-> TRUE],
       [text |-> <<1, 1>>, anchors |-> <<1, 1>>, stream |-> TRUE],
       [text |-> <<0, 1, 1>>, anchors |-> <<2, 1>>, stream |-> FALSE] >>

\* Requests to RHVoice, Flite and RUTTS, streamed and buffered, and what
\* the native library calls back: rates, PCM, words and marks in order, out
\* of range, repeated, before the rate is known and beyond a limit.

CbPlain == [width |-> 1, escaped |-> 1, koi |-> TRUE]
CbWide == [width |-> 2, escaped |-> 2, koi |-> TRUE]
CbAmpersand == [width |-> 1, escaped |-> 4, koi |-> FALSE]
CbRate(r) == [call |-> "rate", rate |-> r]
CbPlay(n) == [call |-> "play", frames |-> n]
CbWord(i, j) == [call |-> "word", word |-> <<i, j>>]
CbMark(a) == [call |-> "mark", anchor |-> a]
CbChunk(n, ws, l) == [call |-> "chunk", frames |-> n, words |-> ws, last |-> l, rate |-> 1]
CbPcm(n) == [call |-> "pcm", frames |-> n]
CbAt(o) == [offset |-> o, before |-> TRUE]
CbAfter(o) == [offset |-> o, before |-> FALSE]
CbSpoken(s, f) == [start |-> s, frame |-> f]
CbAsk(e, s, t, a, calls, ok) ==
    [engine |-> e, stream |-> s, text |-> t, anchors |-> a, script |-> calls, status |-> ok]
CbAsked(s) ==
    { CbAsk("rhvoice", s, <<CbWide, CbAmpersand, CbPlain>>, <<CbAt(0), CbAt(2), CbAt(4)>>,
            <<CbMark(1), CbWord(1, 1), CbRate(1), CbPlay(1), CbMark(2), CbWord(2, 3), CbPlay(2),
              CbMark(3)>>, TRUE),
      CbAsk("rhvoice", s, <<CbPlain, CbAmpersand>>, <<>>,
            <<CbWord(1, 2), CbRate(1), CbWord(2, 2), CbPlay(1), CbRate(2)>>, TRUE),
      CbAsk("rhvoice", s, <<CbPlain>>, <<CbAt(1)>>,
            <<CbRate(1), CbPlay(3), CbMark(1), CbMark(1)>>, TRUE),
      CbAsk("rhvoice", s, <<CbPlain>>, <<CbAt(1)>>, <<CbMark(1), CbPlay(2)>>, TRUE),
      CbAsk("rhvoice", s, <<CbPlain>>, <<CbAt(1)>>, <<CbRate(1), CbPlay(2), CbPlay(2)>>, FALSE),
      CbAsk("rhvoice", s, <<>>, <<CbAt(0)>>, <<>>, TRUE),
      CbAsk("flite", s, <<CbPlain, CbWide, CbPlain>>, <<CbAt(1), CbAfter(2), CbAt(4)>>,
            IF s THEN <<CbChunk(1, <<CbSpoken(0, 0), CbSpoken(3, 2)>>, FALSE),
                        CbChunk(2, <<>>, TRUE)>>
            ELSE <<CbChunk(3, <<CbSpoken(0, 0), CbSpoken(3, 2)>>, TRUE)>>, TRUE),
      CbAsk("flite", s, <<CbPlain>>, <<>>, <<CbChunk(1, <<CbSpoken(5, 0)>>, TRUE)>>, TRUE),
      CbAsk("flite", s, <<>>, <<CbAt(0)>>, <<>>, TRUE),
      CbAsk("rutts", s, <<CbPlain, CbWide>>, <<>>, <<CbPcm(1), CbPcm(2)>>, TRUE),
      CbAsk("rutts", s, <<CbPlain>>, <<>>, <<CbPcm(2), CbPcm(2)>>, TRUE),
      CbAsk("rutts", s, <<CbAmpersand>>, <<>>, <<CbPcm(1)>>, TRUE) }
MCCbRequests == CbAsked(TRUE) \cup CbAsked(FALSE)

\* The wire: two anchors, one before and one after its character.

MCHwAnchors ==
    << [id |-> "a", offset |-> 1, affinity |-> "before"],
       [id |-> "b", offset |-> 3, affinity |-> "after"] >>

\* Native parameters: one runtime revision known twice, with a parameter it
\* supports and one that was not checked.

MCNpRevisions == <<1, 1>>
MCNpDescribes == <<[p \in {1, 2} |-> IF p = 1 THEN "supported" ELSE "not_checked"]>>
MCNpPatches == {{1}}

\* Native plans: three parameters with every set of side effects of four,
\* cycles included; unknown defaults; resets, a value and one out of range.

NlEdges == {<<1, 2>>, <<2, 3>>, <<3, 1>>, <<3, 2>>}
NlDescriptor(p, edges, unknown, limited) ==
    [scope |-> "voice", supported |-> ~(limited /\ p = 2), adjustable |-> TRUE, reset |-> TRUE,
     default |-> IF p \in unknown THEN NlUnknown ELSE 0,
     effects |-> {q \in 1 .. 3 : <<p, q>> \in edges}]
MCNlCatalogues ==
    { [parameters |-> [p \in 1 .. 3 |-> NlDescriptor(p, edges, unknown, limited)],
       mappings |-> {[inputs |-> {"pitch"}, outputs |-> {1}]}] :
        edges \in SUBSET NlEdges, unknown \in {{}, {3}}, limited \in BOOLEAN }
MCNlMapped == {[p \in {} |-> 0], 1 :> 3}
MCNlPatches == UNION {[d -> {NlReset, 2, 9}] : d \in SUBSET {1, 2}}

\* Engine configuration: no file, and one that disables a helper and names
\* a manifest's engine; a manifest of its own engine and one that claims a
\* built-in one; editors of engines, punctuation and helpers.

EcNamed(en, la) == [enabled |-> en, launch |-> la]
MCEcRuntimes ==
    {[id \in {2, 3} |-> [invocation |-> v, unavailable |-> FALSE]] : v \in {"none", "managed"}}
    \cup {[id \in {2, 3} |-> [invocation |-> "legacy", unavailable |-> TRUE]]}
MCEcDocuments ==
    { EcNoFile,
      [schema |-> 2, disabled |-> {3}, overrides |-> 5 :> EcNamed("on", TRUE), pitch |-> {},
       punctuation |-> 0, profiles |-> 0] }
MCEcManifests ==
    { [id |-> 5, enabled |-> TRUE, valid |-> TRUE, size |-> 1],
      [id |-> 2, enabled |-> TRUE, valid |-> TRUE, size |-> 2] }
MCEcEdits ==
    { [kind |-> "engines", disabled |-> {1},
       overrides |-> [x \in {2, 5} |-> EcNamed("unset", TRUE)]],
      [kind |-> "punctuation", punctuation |-> 1, profiles |-> 1],
      [kind |-> "helper", id |-> 7, size |-> 1] }

------------------------------
Blank == 0

BatchBlank ==
    /\ request = Blank /\ at = Blank /\ batchPc = Blank /\ stale = Blank /\ failed = Blank
    /\ exhausted = Blank /\ window = Blank /\ effects = Blank /\ carry = Blank
    /\ pending = Blank /\ heard = Blank /\ status = Blank

TextBlank ==
    /\ span = Blank /\ textPc = Blank /\ nextAction = Blank /\ shared = Blank
    /\ retained = Blank /\ chunks = Blank /\ inChunk = Blank

TgBlank ==
    /\ tgServed = Blank /\ tgPhase = Blank /\ tgToken = Blank /\ tgFlag = Blank
    /\ tgPlayer = Blank /\ tgNextIndex = Blank /\ tgQueued = Blank /\ tgNextBatch = Blank
    /\ tgPulled = Blank /\ tgHeard = Blank /\ tgFailures = Blank

CbBlank ==
    /\ cbServed = Blank /\ cbRequest = Blank /\ cbPhase = Blank /\ cbToken = Blank
    /\ cbFlag = Blank /\ cbCancelling = Blank /\ cbNext = Blank /\ cbCapture = Blank
    /\ cbResult = Blank

HwBlank ==
    /\ hwHost = Blank /\ hwWire = Blank /\ hwClient = Blank /\ hwSink = Blank
    /\ hwStop = Blank

NpBlank ==
    /\ npEpoch = Blank /\ npConn = Blank /\ npRecover = Blank /\ npHelper = Blank
    /\ npRetained = Blank /\ npPublic = Blank /\ npReady = Blank /\ npPartial = Blank
    /\ npQuery = Blank /\ npAsked = Blank /\ npPatch = Blank /\ npAttempt = Blank
    /\ npAttempts = Blank /\ npReported = Blank

NlBlank ==
    /\ nlCatalogue = Blank /\ nlMapped = Blank /\ nlContext = Blank /\ nlPatch = Blank
    /\ nlOrder = Blank /\ nlPlan = Blank /\ nlNative = Blank /\ nlStage = Blank

EcBlank ==
    /\ ecFile = Blank /\ ecHelpers = Blank /\ ecLock = Blank /\ ecEdit = Blank
    /\ ecManual = Blank /\ ecOwner = Blank /\ ecLanes = Blank

VoicesInit ==
    /\ which \in {"batch", "text", "tgspeechbox", "callbacks", "wire", "parameters", "plan",
                  "configuration"}
    /\ IF which = "batch" THEN BatchInit ELSE BatchBlank
    /\ IF which = "text" THEN TextInit ELSE TextBlank
    /\ IF which = "tgspeechbox" THEN TgInit ELSE TgBlank
    /\ IF which = "callbacks" THEN CbInit ELSE CbBlank
    /\ IF which = "wire" THEN HwInit ELSE HwBlank
    /\ IF which = "parameters" THEN NpInit ELSE NpBlank
    /\ IF which = "plan" THEN NlInit ELSE NlBlank
    /\ IF which = "configuration" THEN EcInit ELSE EcBlank

\* A step of the component that runs leaves the blanks of the others.

Others(w) ==
    /\ UNCHANGED which
    /\ IF w = "batch" THEN TRUE ELSE UNCHANGED batchVars
    /\ IF w = "text" THEN TRUE ELSE UNCHANGED textVars
    /\ IF w = "tgspeechbox" THEN TRUE ELSE UNCHANGED tgVars
    /\ IF w = "callbacks" THEN TRUE ELSE UNCHANGED cbVars
    /\ IF w = "wire" THEN TRUE ELSE UNCHANGED hwVars
    /\ IF w = "parameters" THEN TRUE ELSE UNCHANGED npVars
    /\ IF w = "plan" THEN TRUE ELSE UNCHANGED nlVars
    /\ IF w = "configuration" THEN TRUE ELSE UNCHANGED ecVars

VoicesNext ==
    \/ which = "batch" /\ Others("batch") /\ BatchNext
    \/ which = "text" /\ Others("text") /\ TextNext
    \/ which = "tgspeechbox" /\ Others("tgspeechbox") /\ TgNext
    \/ which = "callbacks" /\ Others("callbacks") /\ CbNextStep
    \/ which = "wire" /\ Others("wire") /\ HwNext
    \/ which = "parameters" /\ Others("parameters") /\ NpNext
    \/ which = "plan" /\ Others("plan") /\ NlNext
    \/ which = "configuration" /\ Others("configuration") /\ EcNext

voicesVars ==
    <<which, batchVars, textVars, tgVars, cbVars, hwVars, npVars, nlVars, ecVars>>

VoicesSpec == VoicesInit /\ [][VoicesNext]_voicesVars

\* The TGSpeechBox helper alone.
TgAlone == which = "tgspeechbox" /\ VoicesSpec

------------------------------
\* Of a speech batch: overlays are heard where they were queued, and a
\* batch that completed was queued whole.
BatchSound == which = "batch" => OverlaysInPlace /\ CompletedIsWhole

\* Of a span of text: its chunks hold all of it, its actions stay at their
\* places and the samples decoded for them stay within the limit.
TextSound == which = "text" => ChunksHoldTheText /\ ActionsStayInPlace /\ PcmWithinLimit

\* Of the helpers that capture native callbacks: a stop ends its own
\* request only, and anchors and words are answered for that request.
CaptureSound ==
    /\ which = "tgspeechbox" => AnchorsAreOwn
    /\ which = "callbacks" => StopsOnlyItsRequest /\ AnchorsAnswered /\ WordsAtTheirSource

\* Of the helper protocol's stream: what the host reads is what the helper
\* sent, and what it accepts is well formed.
WireSound == which = "wire" => StreamRoundTrips /\ AcceptedIsWellFormed

\* Of native parameters: a catalogue is of one runtime, an explanation of
\* its own plan, and the native values end as planned.
ParametersSound ==
    /\ which = "parameters" => CatalogueOfOneRuntime /\ ExplainsItsOwnPlan
    /\ which = "plan" => SpokenAsPlanned

\* Of the engine configuration: an identity has one manifest, editors leave
\* the file loadable, and a session's lanes start from one snapshot.
ConfigurationSound ==
    which = "configuration" =>
        ClaimedByOneManifest /\ EditorsKeepItLoadable /\ LanesShareTheSnapshot
=============================================================================
