SPECIFICATION FairSpec
CONSTANTS
  Whole = 4
  Prime = 2
  Troubles = {"Waiting", "Connecting", "Error", "Disconnected"}
  MaxMoves = 2
  MaxRotations = 1
  MaxFaults = 1
INVARIANTS WholeMember
PROPERTIES KeepsContract ExpansionEnds
CHECK_DEADLOCK FALSE
