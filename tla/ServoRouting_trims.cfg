CONSTANTS
  LegCount = 1
  Boards = {1, 2}
  Switchers = {"httpd"}
  Calibrated = {1}
  MaxTrim = 1
  MaxRestarts = 1
SPECIFICATION LiveSpec
INVARIANTS TypeOK TrimsFollowServos
PROPERTIES Settles RoutesCurrent
