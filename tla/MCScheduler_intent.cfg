\* One compute service, one client, and the developer's start, stop and suspend, two of
\* them queued, with containers that crash and docker failing in every way but a failed stop.
\* Floor 0: eviction off. Its always-on setting changes at any moment.
CONSTANTS
    app = app
    db = db
    r1 = r1
    Sweep = Sweep
    Svc = {app}
    Compute = {app}
    Req = {r1}
    Target <- OneApp
    Verbs = {"start", "stop", "suspend"}
    Toggled = {app}
    Faults = {"read", "start", "ready", "pause", "crash"}
    Total = 2
    Floor = 0
    SleepConcurrency = 1
    MaxQueue = 2
SPECIFICATION Spec
INVARIANTS NothingForgotten
