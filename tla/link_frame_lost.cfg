SPECIFICATION Spec
CONSTANTS
  Input <- TwoChunks
  Cap = 6
  MaxDamage = 0
INVARIANT AckMeansStored
\* An end that has written its output stops, and both may block in sendall.
CHECK_DEADLOCK FALSE
