\* Certs: one host, one SNI lane beside pg, five files written or withdrawn.  Settings: two
\* names, two passwords, two calls in flight, one lost reply; 768 MB, which one
\* or two vCPUs carry, and which is too little for three, rounded up to four.  It stops at its bounds.
CONSTANTS
    api = api
    None = None
    Host = {api}
    Api = api
    Lane = {"redis"}
    MaxWrites = 5
    n1 = n1
    n2 = n2
    c1 = c1
    c2 = c2
    p1 = p1
    p2 = p2
    Caller = {c1, c2}
    PgName = {n1, n2}
    Password = {p1, p2}
    Cpu = {2, 3}
    Memory = {768}
    Gib = {10, 20}
    MaxTorn = 1
    TakesBack = FALSE
    Unsaid = Unsaid
SPECIFICATION OutsideSpec
CHECK_DEADLOCK FALSE
INVARIANTS OnePairEverywhere SettingsHold
PROPERTY RenewalLands
