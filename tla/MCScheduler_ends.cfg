\* A compute service and a database that evict each other, two idle sleeps at a time, with
\* management queries, and docker reads and stops that fail.
CONSTANTS
    app = app
    db = db
    r1 = r1
    Sweep = Sweep
    Svc = {app, db}
    Compute = {app}
    Req = {r1}
    Target <- OneDb
    Verbs = {"manage"}
    Toggled = {}
    Faults = {"read", "stop"}
    Total = 2
    Floor = 1
    SleepConcurrency = 2
    MaxQueue = 1
SPECIFICATION FairSpec
PROPERTIES NoSleepUnderTraffic 
