SPECIFICATION StoreOrAdmissionSpec
CONSTANTS
  point = point
  line = line
  NoDomain = NoDomain
  Doc <- MCDoc
  PartCount = 2
  MaxPending = 1
  MaxSubmissions = 3
  MaxStops = 1
  MaxItems = 2
  MaxParts = 2
  Package = {p1}
  Generation = {g1, g2}
  Session = {s1, s2}
  Files = {f1}
  NoGeneration = NoGeneration
  NoPackage = NoPackage
  PackageSize = 1
  MaxRevision = 3
  Operations = {o1, o2}
  Workers = 2
  NoOperation = NoOperation
  VsEngines <- MCVsEngines
  VsUnknown = 9
  VsLocals <- MCVsLocals
  VsCatalogue <- MCVsCatalogue
  VsUnicode <- MCVsUnicode
  VsDimensions <- MCVsDimensions
  VsDefinitions <- MCVsDefinitions
  VsFallbacks <- MCVsFallbacks
  VsPolicies <- MCVsPolicies
  VsContexts <- MCVsContexts
  VsMaxGeneration = 1
  VsMaxFailures = 1
  VsMaxRecoveries = 1
  VsMaxBatches = 1
INVARIANTS
  AdmissionSound
  InstallationSound
  OperationsSound
  SelectionSound
PROPERTIES
  NothingCrossesStop
  VsGenerationNamesInventory
