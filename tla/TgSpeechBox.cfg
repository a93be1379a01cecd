SPECIFICATION TgAlone
CONSTANTS
    Requests <- MCRequests
    Spans <- MCSpans
    Spoken <- MCSpoken
    FileSize <- MCFileSize
    EFFECT_TAIL = 1
    SAMPLE_LIMIT = 8
    MAX_ACTIONS = 2
    TgRequests <- MCTgRequests
    PCM_CHUNK = 2
    MAX_NATIVE_FRAMES = 4
    INDEX_LIMIT = 3
    MaxTgFailures = 1
    CbRequests <- MCCbRequests
    CbMaxServed = 2
    CbSampleLimit = 3
    CbMarkerLimit = 2
    HwChunk = 2
    HwFrameLimit = 3
    HwMarkLimit = 3
    HwInputWindow = 2
    HwFilterDelay = 1
    HwAnchors <- MCHwAnchors
    HwWordStarts = {0, 2}
    HwSizes = {1, 3}
    HwMaxCalls = 2
    HwMaxStops = 1
    NpRevisions <- MCNpRevisions
    NpDescribes <- MCNpDescribes
    NpPages = 2
    NpPatches <- MCNpPatches
    NpVoices = {0, 1}
    NpSpoken = 1
    NpCatalogueLimit = 1
    NpHelperPlans = 1
    NpParentPlans = 2
    NpPublicPlans = 2
    NpMaxQueries = 3
    NpMaxAttempts = 2
    NlParameters = {1, 2, 3}
    NlCatalogues <- MCNlCatalogues
    NlMapped <- MCNlMapped
    NlContexts = {{}, {"pitch"}}
    NlPatches <- MCNlPatches
    NlLimit = 5
    EcInProcess = {0, 1}
    EcHelperEngines = {2, 3}
    EcUnsupported = {1}
    EcAdjacent = {2}
    EcEnvironment = {}
    EcAliases = {4}
    EcExternal = {5, 6, 7}
    EcStrayNames = {8, 9}
    EcInstalled = {{5}}
    EcRuntimes <- MCEcRuntimes
    EcDocuments <- MCEcDocuments
    EcManifests <- MCEcManifests
    EcEdits <- MCEcEdits
    EcMAX_MANIFESTS = 3
    EcMAX_TOTAL_BYTES = 4
    EcMAX_BYTES = 1
    EcEditor = {1, 2}
    EcLane = {1}
    EcMaxManual = 2
INVARIANTS
    AnchorsAtTheirBoundary
CHECK_DEADLOCK FALSE
