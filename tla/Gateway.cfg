CONSTANTS
  Goroutines = {g1, g2}
  Chatters = {c1, c2, c3}
  Addresses = {a}
  MaxPosts = 2
  MaxSends = 1
  MaxSwitches = 2
  SkillPaths = {"chat"}
  Configs <- MCConfigs
  RateTime = 2
  MaxAsked = 3
  MaxPuts = 1
  MaxRequestsPerIP = 1
  BanDuration = 3
  WallTime = 5
  MaxRequests = 4
  Expiry = 1
  RefreshWindow = 3
  ChainTime = 2
  MaxServed = 2
  Second = 2
  PerUserConcurrency = 2
  PerSkillQPS = 2
  MaxQPS = 1
  Chunks = 1
  MaxTime = 4
  MaxBegun = 4
SPECIFICATION GatewaySpec
SYMMETRY Symmetry
INVARIANTS
  OutboundAsChecked
  SwitchesKept
  AdmissionBounded
  RequestsAccounted
  ConversationsBounded
CHECK_DEADLOCK FALSE
