SPECIFICATION SupervisionSpec
CONSTANTS
    c1 = c1
    c2 = c2
    d1 = d1
    d2 = d2
    e1 = e1
    e2 = e2
    j1 = j1
    j2 = j2
    Device = {d1, d2}
    NoDevice = NoDevice
    Sound = {b1}
    EVENT_CAPACITY = 1
    AUTOMATIC_ATTEMPTS = 1
    MaxNotices = 2
    MaxFailures = 2
    PROGRESSIVE_PLAYBACK_CAPACITY = 2
    PROGRESSIVE_PLAYBACK_PREBUFFER_WINDOWS = 2
    SPEECH_STOP_FADE_FRAMES = 1
    SpeechMax = 1
    MaxFrames = 2
    MaxWindow = 2
    MaxStopCount = 1
    MaxOthers = 1
    Dispatch = {1, 2}
    Initial <- MCInitial
    Paired = {1}
    Progressive = {2}
    Size <- MCSize
    max_events = 3
    max_bytes = 4
    MAX_PROGRESSIVE_MARKERS = 1
    PuFrames <- MCPuFrames
    PuWriteFrames = 2
    PuBufferFrames = 3
    PuMaxClears = 1
    PuMaxLosses = 1
    NoEngine = NoEngine
    NoOne = NoOne
    Synthesis = Synthesis
    Engine = {e1, e2}
    Rescan = {r1}
    Jobs <- MCJobs
    JobEngine <- MCJobEngine
    EXTERNAL_INITIALIZATIONS = 1
    MaxCleanupFailures = 1
    Conn = {c1, c2}
    SessionId = {s1, s2}
    NoSession = NoSession
    CHANNEL = 1
INVARIANTS
    PlaybackSound
    MarkersSound
    HelpersSound
    SessionsSound
PROPERTIES
    NewestPublished
    SupervisionEnds
CHECK_DEADLOCK FALSE
