CONSTANTS
  Controls = {"Ini", "Advance", "TestSpeed", "Stanford", "manual8", "joystick"}
  Togglers = {"httpd"}
  ConsoleMotions = {"swalk", "sjump"}
  PassTicks <- Untimed
  RampTicks = 0
  ParkTicks = 0
  GaitParkTicks = 0
SPECIFICATION Spec
INVARIANTS TypeOK AtMostOneMode GaitStaysParked
PROPERTIES ImplementsMode
