CONSTANTS
  Controls = {"Advance", "Jump"}
  Togglers = {"httpd"}
  ConsoleMotions = {"swalk"}
  PassTicks <- Brief
  RampTicks = 2
  ParkTicks = 1
  GaitParkTicks = 1
SPECIFICATION LiveSpec
PROPERTIES CliTakesEffect StandsWhenStopped OneShotEnds
