\* Services: two branches, two names, two operations in flight, of kinds that share labels or
\* of one kind that shares nothing.  Domains: one hostname, two groups, a bucket, and another
\* project's caller.  Runtime: a group and a database on two branches, one of them built at
\* once.  It stops at its bounds.
CONSTANTS
    main = main  feat = feat  x = x  y = y  d1 = d1  None = None
    Branch = {main, feat}
    Main = main
    Kind = {"compute", "managed", "postgres"}
    Name = {x, y}
    Data = {d1}
    Label <- LabelXY
    Calls <- Mixed
    Faults <- MixedFaults
    Rounds = 3
    MaxOps = 2
    Together <- Apart
    P = P  Q = Q  Nil = Nil  Unset = Unset
    Site = {main, feat}
    Project = {P, Q}
    ProjectOf <- OneProject
    shop = shop  files = files
    Domain = {shop}
    g = g  h = h
    Service = {g, h}
    Bucket = {files}
    HasIp = FALSE
    RunSite = {main, feat}
    DefaultSite = main
    Compute = {"web"}
    Database = {"db"}
    AlwaysOnDefault = TRUE
    Pins = {Unset, FALSE}
    MaxUnits = 1
SPECIFICATION AllSpec
SYMMETRY Interchangeable
INVARIANTS  DomainsHold RuntimeHolds
 
CHECK_DEADLOCK FALSE
