SPECIFICATION Spec
CONSTANTS
    TickWrap = 40
    Timeout = 2
    Alone = TRUE
    MaxEvents = 1
    MaxClock = 3
PROPERTIES SilentStands
