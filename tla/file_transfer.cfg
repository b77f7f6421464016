SPECIFICATION FairSpec
CONSTANTS
  Sender <- Emitter1
  Exhibitor <- Exhibitors
  SERVER_ID <- ServerId
  Zero = 0
  FileSize = {0, 5}
  MAX_CHUNK_SIZE = 2
  MAX_FIELD = 7
  MaxFiles = 2
INVARIANTS
  TypeOK
  WrittenIsSent
  ReportedIsReceived
  InStep
  SurvivesTransfers
PROPERTY Answered
\* Once every client has ended, or the server has, nothing happens.
CHECK_DEADLOCK FALSE
