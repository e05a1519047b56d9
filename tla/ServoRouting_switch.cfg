CONSTANTS
  LegCount = 1
  Boards = {1, 2}
  Switchers = {"console"}
  Calibrated = {}
  MaxTrim = 0
  MaxRestarts = 0
SPECIFICATION Spec
INVARIANTS WalkUnaffected
