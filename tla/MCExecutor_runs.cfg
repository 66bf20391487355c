SPECIFICATION ExecutorSpec
CONSTANTS
    d1 = d1
    d2 = d2
    db = db
    web = web
    c1 = c1
    c2 = c2
    Deployment = {d1, d2}
    Manifest <- WebThenDb
    Database = {db}
    Copies = 2
    MaxRuns = 2
    Slow = TRUE
    Twice = FALSE
    User = user
    ByHand <- OnFirstCopy
    None = none
    Client = {c1, c2}
    Deployer = c1
    Used <- SomeRoutes
    Governed <- TemplateGates
    Volume = TRUE
    MaxPending = 1

    
    
PROPERTIES
    
    RunsEnd
    DeployerGetsThrough
CHECK_DEADLOCK FALSE
