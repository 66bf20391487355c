SPECIFICATION CopiesSpec
CONSTANTS
    main = main
    side = side
    v1 = v1
    v2 = v2
    i1 = i1
    i2 = i2
    c1 = c1
    Strict = FALSE
    Reflink = TRUE
    MaxVersion = 3
    MaxRuns = 4
    MaxCalls = 2
    Branch = {main, side}
    Main = main
    Volume = {v1, v2}
    Image = {i1, i2}
    Ceiling = {c1}
    Asked <- SomeCalls
    Rounds = 3
    Ports = 2
    MaxOps = 2
    MaxMade = 4
    Dies = FALSE
    None = None
INVARIANTS StartsOnWhole VolumeAndIntentHold
PROPERTIES
    ImplementsSnapshot
    EveryForkEnds
    RebuildsKeep
CHECK_DEADLOCK FALSE
