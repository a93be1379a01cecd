SPECIFICATION ScenarioSpec
CONSTANTS
    c1 = c1
    c2 = c2
    c3 = c3
    e1 = e1
    e2 = e2
    Call = {c1, c2, c3}
    Engine = {e1, e2}
    KindOf <- MCKindOf
    MaxIsolatedCalls = 1
    EventCapacity = 2
    MaxEvents = 4
    MaxCancels = 1
    NativeResult = {"ok", "failed"}
    NoEngine = NoEngine
INVARIANTS
    IsolationSound
    SinkSeesWholeStream
PROPERTIES
    KeepsSlots
    CallsGiveWay
