CONSTANTS
  Controls = {"Mate", "Stanford"}
  Togglers = {"httpd"}
  ConsoleMotions = {}
  PassTicks <- Timed
  RampTicks = 8
  ParkTicks = 1
  GaitParkTicks = 2
SPECIFICATION Spec
PROPERTIES RampsFromAway
