CONSTANTS
  BoardCount = 2
  Wirings = {3}
  Clients = {"console"}
  Named = {1, 5}
  ParamCount = 1
  Disciplined = TRUE
  MaxFaults = 1
  MaxRestarts = 1
SPECIFICATION Spec
INVARIANTS TypeOK CacheIsFeedback
PROPERTIES AnswersAreOwn NeighboursHold SavedWhenOk
