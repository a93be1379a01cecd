SPECIFICATION ScenarioSpec
CONSTANTS
  nav1 = nav1
  nav2 = nav2
  batch = batch
  letter = letter
  point = point
  NoDomain = NoDomain
  NoRequest = NoRequest
  Work = {nav1, nav2, batch, letter}
  Bytes <- MCBytes
  Domain <- MCDomain
  Tracked <- MCTracked
  Urgent <- MCUrgent
  MaxItems = 1
  MaxPayloadBytes = 2
  Stream = {"Speech", "Sound"}
  StreamOf <- MCStreamOf
  MaxDepth <- MCMaxDepth
  TrackedCapacity = 1
  MaxGeneration = 1
  MaxReplacements = 2
INVARIANTS
  FreshIsCurrent
