CONSTANTS
  q1 = q1
  q2 = q2
  p1 = p1
  w1 = w1
  w2 = w2
  Requests <- MCRequests
  Pipelines <- MCPipelines
  Workers <- MCWorkers
  QueueCap = 1
  PerUser = 1
  MaxCalls <- MCMaxCalls
SPECIFICATION Spec
INVARIANTS
  TypeOK
  QuotaAccounted
  JobInOnePlace
  PipelineArgsPrivate
PROPERTIES
  CallersAnswered
  GoroutinesEnd
\* With every call made, and every skill ended or hung, the system stops.
CHECK_DEADLOCK FALSE
