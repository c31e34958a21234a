SPECIFICATION Spec
CONSTANTS
    t1 = t1
    t2 = t2
    shared = shared
    None = None
    Default = Default
    SystemTimeout = 2
    TimeBound = 4
    Tasks <- TwoTasks
    Objects <- OneObject
    Settings <- AnySettings
SYMMETRY Interchangeable
INVARIANTS TypeOK ClocksAreFresh WithinTotal WithinEach
