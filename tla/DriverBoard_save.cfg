CONSTANTS
  BoardCount = 2
  Wirings = {3}
  Clients = {"httpd"}
  Named = {1}
  ParamCount = 1
  Disciplined = TRUE
  MaxFaults = 0
  MaxRestarts = 0
SPECIFICATION Spec
PROPERTIES SaveKeepsServo
