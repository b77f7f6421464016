SPECIFICATION FairSpec
CONSTANTS
  Coord <- OneRow
  MAX_NUM_LOCATIONS = 2
  c1 = c1
  c2 = c2
  Client <- TwoClients
  Entry <- Entries
  MaxEntries = 2
  None = None
INVARIANTS
  TypeOK
  InStep
  LeavingIsHarmless
PROPERTIES
  Answered
  NobodyLeftWaiting
\* Once every user has quit, or the server was killed, nothing happens.
CHECK_DEADLOCK FALSE
