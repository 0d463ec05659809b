SPECIFICATION Spec
CONSTANTS
  Versions = {1, 2}
  Latest = Latest
  Missing = Missing
  MaxAttempts = 3
  MaxFaults = 2
  MaxAge = 3
  MaxAgeSec = 2
  DebDays = 2
  AccountFields = {"group", "shell"}
  NoEntry = NoEntry
  Unset = Unset
  MaxNameLen = 2
  MaxAccFaults = 1
  MaxVersion = 3
  MaxTrgFaults = 3
  PipeCapacity = 2
  ExcerptLimit = 1
  MaxOutput = 3
  RetryCounts = {0, 2}
  Default = Default
  MaxGen = 3
  MaxForeign = 2
  NoToken = NoToken
  MaxToken = MaxToken
  UnlimitedBytes = 1073741824
  MaxFactClock = 2
  MaxFactEvents = 2
  PgNodes = {n1, n2}
  PgTimeout = 2
  PgMaxAge = 3
  PgMaxFaults = 2
  PgMaxEffects = 3
  MaxChanged = 2
  MaxStatements = 3
  MaxDepth = 2
  MaxUnitName = 2
  MaxSvcEvents = 1
  EntryIds = {a1, a2}
  MaxStEvents = 1
INVARIANTS
  NothingLeftBehind
  HealthVerdict
  ClientVerdict
  FactsHonest
  FactsRight
  PgEffectsOnce
  PayloadFaithful
  RootCause
  ManifestWhole
  MergeOverlays
  ServiceVerdict
  TemplateRight
  StatusHonest
PROPERTIES
  AptChangedHolds
  AccountFieldsKept
  NodeConverges
  CallsReturn
CHECK_DEADLOCK FALSE
