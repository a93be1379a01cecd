SPECIFICATION EitherSpec
CONSTANTS
  a1 = a1
  a2 = a2
  b = b
  ordered = ordered
  large = large
  domA = domA
  domB = domB
  NoDomain = NoDomain
  Work <- MCWork
  Bytes <- MCBytes
  Domain <- MCDomain
  MaxItems = 3
  MaxPayloadBytes = 4
  MaxGeneration = 1
  speech1 = speech1
  speech2 = speech2
  overlay = overlay
  sound = sound
  key = key
  NoToken = NoToken
  Source <- MCSource
  Stream = {"Speech", "Sound"}
  StreamOf <- MCStreamOf
  Barriers <- MCBarriers
  Token <- MCToken
  MaxDepth <- MCMaxDepth
  MaxStops = 2
  Timelines <- MCTimelines
  MaxFrames = 3
  MaxMarkers = 1
  TRAILING_PADDING = 1
INVARIANTS
  QueueSound
  ControlSound
  StreamSound
PROPERTIES
  EvictsOldestFirst
  Served
