CONSTANTS
  s1 = s1
  s2 = s2
  config = config
  auth = auth
  Topics <- MCTopics
  Subscriptions <- MCSubscriptions
  Interest <- MCInterest
  EventBuf = 1
  SubBuf = 1
  MaxEvents = 3
SPECIFICATION Spec
INVARIANTS
  HandledInOrder
  NothingMissed
PROPERTIES
  DispatcherProgresses
  UnsubscribedEnds
\* The system rests when everything published has been handled.
CHECK_DEADLOCK FALSE
