\* The snapshot: two listings in flight at any moment over four instants, evidence good for
\* two of them: enough for a listing to return after a later one, after an operation, and too
\* old to use.  The addresses: two connections, of two pairs of kinds, to a container
\* that starts twice, with one 5xx retried.  The memory: two containers of up to two units
\* against a budget of three, or one machine and two ceilings.
CONSTANTS
    a = a
    b = b
    Reader = {a, b}
    None = None
    MaxAge = 2
    MaxClock = 3
    c1 = c1
    c2 = c2
    Conn = {c1, c2}
    Kinds <- TwoClients
    Silent = FALSE
    Tries = 1
    MaxStarts = 2
    Box = {a, b}
    Budgets = {3}
    Machines <- OneMachine
    Ceilings <- TwoCeilings
    MaxUse = 2
    Flaky = FALSE
    Absent = Absent
SPECIFICATION FactsSpec
CHECK_DEADLOCK FALSE
INVARIANTS ActsOnFreshFacts AddressesHold HeadroomHolds
PROPERTY FactsSettle
