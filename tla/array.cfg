SPECIFICATION Spec
CONSTANTS
  Coord <- Corners
  MAX_NUM_LOCATIONS = 3
  None = None
INVARIANTS
  TypeOK
  Distinct
PROPERTY IsLocationList
