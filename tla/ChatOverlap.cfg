CONSTANTS
  Chats = {c1, c2}
  Window = 2
  MaxChats = 2
  MaxOdd = 0
  MaxFaults = 0
  MaxCrashes = 0
  MaxMishaps = 0
SPECIFICATION Spec
INVARIANT PromptNotEmpty
CHECK_DEADLOCK FALSE
