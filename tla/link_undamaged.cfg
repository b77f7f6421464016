SPECIFICATION Spec
CONSTANTS
  Input <- OneChunk
  Cap = 6
  MaxDamage = 0
INVARIANTS
  AckMeansStored
  BothComplete
\* An end that has written its output stops, and both may block in sendall.
CHECK_DEADLOCK FALSE
