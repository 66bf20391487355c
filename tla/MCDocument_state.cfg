\* The lock: three processes, one of them booting at a time, kills, releases, and holders
\* that stall, are taken over and come back; sleeps of one and of two beats against a
\* deadline of three.  The identity: two sessions and a token over the resets and restarts
\* of five instants.  The secrets: two names
\* for data services of each type, two for groups, one secret or binding at a time, which the
\* clone doubles (two at a time: 1.9 million states).  The sign-ins: three
\* addresses, of which two are remembered, over seven instants.  It stops at its bounds.
CONSTANTS
    p1 = p1
    p2 = p2
    p3 = p3
    Proc = {p1, p2, p3}
    Stale = 3
    Timeout = 3
    Retry = 2
    Beat = 1
    Contenders = 1
    Stalls = TRUE
    MaxBoots = 3
    MaxClock = 8
    None = None
    s1 = s1
    s2 = s2
    t1 = t1
    r1 = r1
    r2 = r2
    Session = {s1, s2}
    Token = {t1}
    Request = {r1, r2}
    Lifetime = {2, 4}
    UpdateAge = 2
    FlushEvery = 1
    LastInstant = 4
    Nobody = Nobody
    i1 = i1
    i2 = i2
    i3 = i3
    Ip = {i1, i2, i3}
    Window = 2
    MaxFailures = 2
    MaxIps = 2
    LastTry = 6
    Kind = {"postgres", "storage", "redis"}
    Label = {"a", "b"}
    Unit = {"g", "h"}
    SecretName = {"K"}
    MaxRows = 1
    Nil = Nil
SPECIFICATION DocumentSpec
CHECK_DEADLOCK FALSE
INVARIANTS  AdmissionHolds EnvHolds
PROPERTY HandsOver
