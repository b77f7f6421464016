SPECIFICATION FairSpec
CONSTANTS
  Input <- TwoToOne
  Cap = 3
  MaxDamage = 1
INVARIANTS
  TypeOK
  InOrder
  LineInv
PROPERTIES
  EndsOrWedges
  LeavesTogether
\* An end that has written its output stops, and both may block in sendall.
CHECK_DEADLOCK FALSE
