CONSTANTS
  s1 = s1
  s2 = s2
  config = config
  auth = auth
  Topics <- MCTopics
  Subscriptions <- MCSubscriptions
  Interest <- MCInterest
  EventBuf = 1
  SubBuf = 1
  MaxEvents = 3
SPECIFICATION Spec
INVARIANT DispatcherSurvives
CHECK_DEADLOCK FALSE
