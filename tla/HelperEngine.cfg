\* One caller: the lifecycle lock serialises the calls, and a call samples the
\* stop epoch before it takes the lock, so a second caller adds no order of the
\* steps that share state.
SPECIFICATION FairSpec
CONSTANTS
  NoCaller = NoCaller
  Caller = {k1}
  MaxConnections = 2
  MaxCalls = 2
  MaxQueries = 1
  MaxStops = 2
  MaxFaults = 1
INVARIANTS
  HelperSound
PROPERTIES
  CancelledRequestEnds
CHECK_DEADLOCK FALSE
