SPECIFICATION PollingRouting
CONSTANTS
    e1 = e1
    e2 = e2
    v1 = v1
    v2 = v2
    v3 = v3
    NoVoice = NoVoice
    Engine = {e1, e2}
    MaxIsolatedCalls = 1
    Order <- MCOrder
    EngineOf <- MCEngineOf
    Streaming = {}
    MaxAttempts = 3
    MaxChunks = 1
    MaxRequests = 1
    MaxGeneration = 1
    LnRequests <- MCLnRequests
    EVENT_QUEUE = 1
    LnMarkLimit = 8
    LnFrameLimit = 6
    MbCall = {c1, c2}
    MbMaxStops = 1
    EsCall = {1, 2}
    EsRequests <- MCEsRequests
    EsCapacity = 2
    EsWindow = 2
    EsMarkLimit = 4
    EsFrameLimit = 6
    EsMaxStops = 1
    MoCall = {1, 2}
    MoRing = 1
    MoBuffer = 1
    MoMaxWindows = 2
    MoMaxStops = 1
    MoCancellable = {2}
    PiCall = {1, 2, 3}
    PiModels = {1, 2, 3}
    PiRequests <- MCPiRequests
    PiVoices <- MCPiVoices
    PiSpeakers <- MCPiSpeakers
    PiLimit = 2
    PiMaxStops = 1
PROPERTIES
    NewGenerationProceeds
