SPECIFICATION Spec
CONSTANTS
    None = None
    Disabled = Disabled
    BackoffMax = 3
    Starts <- MCStarts
INVARIANTS TypeOK TotalHonoured KindsHonoured ExhaustedOnlyAtALimit
PROPERTIES BackoffGrows
CHECK_DEADLOCK FALSE
