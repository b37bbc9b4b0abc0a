CONSTANTS
  Chats = {c1, c2}
  Window = 2
  MaxChats = 3
  MaxOdd = 1
  MaxFaults = 1
  MaxCrashes = 1
  MaxMishaps = 2
SPECIFICATION Spec
SYMMETRY Symmetry
VIEW ChatView
INVARIANTS
  PromptIsOwn
  PromptComplete
  FileWhole
  FileMatchesSession
\* When the chats are over, the system rests.
CHECK_DEADLOCK FALSE
