CONSTANTS
  Controls = {"Advance"}
  Togglers = {"httpd"}
  ConsoleMotions = {}
  PassTicks <- Timed
  RampTicks = 8
  ParkTicks = 1
  GaitParkTicks = 2
SPECIFICATION Spec
INVARIANTS HttpOwnsBus
