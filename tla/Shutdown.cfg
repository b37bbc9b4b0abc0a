CONSTANTS
  Callers = {a}
  QueueCap = 1
  None = none
  Connections = {"r1", "r2"}
  ChannelSize = 2
  MaxAccepted = 3
  Calls = {"c1", "c2"}
  SkillOf <- MCSkillOf
  DependsOn <- MCDependsOn
  ParTasks = {"t1", "t2"}
  Workers = {"w1"}
  PoolCap = 1
  Cores = {"g", "b"}
  Other = "other"
  BusCap = 1
  CheckEvery = 3
  MaxTime = 7
  MaxOther = 1
  SkillIds = {"a", "b"}
  Global = {"a"}
  DegradedFailCount = 3
  MaxChecks = 5
  MaxRegistrations = 3
  CoreIds = {"a", "b", "c", "d"}
  MaxSpawnDepth = 2
  MaxChildrenPerCore = 1
  Senders = {"s1", "s2"}
  Limit = 1
  MaxEvents = 2
  Requests = {"r1"}
  Modes = {"shadow", "airlock"}
  Backends <- MCBackends
  Sovereignty <- MCSovereignty
  HasKey <- MCHasKey
  Tokens = 3
  ChanCap = 1
  Chats = {"c1", "c2"}
  CacheSize = 2
  MaxAnswers = 3
  MaxDowns = 1
  Files = {"f1", "f2"}
  MaxWrites = 3
  Jobs = {"all", "hourly", "daily", "short"}
  Expr <- MCExpr
  Star = 99
  MinutesPerHour = 2
  HoursPerDay = 2
  MaxMinutes = 5
SPECIFICATION RunSpec
INVARIANT
  DrainedBeforeExit
CHECK_DEADLOCK FALSE
