CONSTANTS
  Goroutines = {g1, g2}
  None = none
  Files = {f1, f2}
  AuditRoot = "audit_root"
  Header = header
  Torn = torn
  MaxWrites = 2
  MaxCrashes = 1
  Keys = {"k1", "k2"}
  Values = {"v1", "v2"}
  Levels = {0, 1}
  TTLs = {0, 1}
  MaxTime = 3
  MaxSets = 2
  MaxKeep = 2
  TrimLimit = 2
  MaxSeconds = 5
  Ids = {"i1", "i2"}
  Places = {"p1", "p2"}
  Importances = {1}
  Contents = {"plain", "lines", "claims"}
  Reread <- MCReread
  CutOff = {"lines"}
  Claimed <- MCClaimed
  MaxIndex = 1
  Share = 10
  MaxDays = 1
  MaxEngrams = 3
  MaxRestarts = 1
  Han = {"yi", "ge", "ren"}
  Latin = {"test", "tests"}
  Stem <- MCStem
  Dict <- MCDict
  DocIds = {"d1", "d2"}
  Documents <- MCDocuments
  Queries <- MCQueries
  Long <- MCLong
  SearchLimit = 1
  MaxIndexed = 2
  MaxSaves = 2
  Missing = missing
  Partial = partial
  MaxReleases = 3
  Sessions = {"s1"}
  Requests = {"run", "hi", "go"}
  Scores <- MCScores
  ContinueTexts = {"run", "hi", "go"}
  Skills = {"a", "b"}
  Priority <- MCPriority
  Parts <- MCParts
  Answer = "answer"
  Fallback = "fallback"
  Keywords <- MCKeywords
  WindowSize = 1
  SummaryThreshold = 10
  InjectRounds = 1
  MemoryLimit = 2
  SessionTimeout = 0
  DecayAfter = 0
  MaxTicks = 1
  MaxRuns = 2
  Jobs = {"j1", "j2", "j3", "j4"}
  SkillOf <- MCSkillOf
  KeyOf <- MCKeyOf
  Once = {"oc"}
  Cached = {"tts"}
  SlotLimit = 1
  MaxRetries = 2
  Ttl = 0
  CacheSize = 1
  MaxClock = 1
SPECIFICATION Spec
SYMMETRY Symmetry
INVARIANTS
  FilesKept
  NewestSeen
  SnapshotsKept
  IndexesMatch
  SearchFindsContained
  DialogueKept
  SlotsKept
CHECK_DEADLOCK FALSE
