SPECIFICATION Spec
CONSTANTS
  x1 = x1
  x2 = x2
  e1 = e1
  e2 = e2
  Exhibitor <- OneExhibitor
  Emitter <- OneEmitter
  SenderId = {1}
  DisplayerId = {11}
  SERVER_ID = SERVER_ID
  Zero = Zero
  None = None
  MaxSeq = 1
INVARIANT GoodbyeIsRemoved
\* Once every client has ended, or the server has crashed, nothing happens.
CHECK_DEADLOCK FALSE
