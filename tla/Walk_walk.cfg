SPECIFICATION Spec
CONSTANTS
    TickWrap = 40
    Timeout = 2
    Alone = TRUE
    MaxEvents = 2
    MaxClock = 3
INVARIANTS TypeOK Trots
PROPERTIES Smooth StickObeyed
