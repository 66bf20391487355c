SPECIFICATION Spec
CONSTANTS
    p = p
    q = q
    main = main
    x = x
    y = y
    z = z
    s1 = s1
    s2 = s2
    s3 = s3
    Project = {p, q}
    Branch = {b1, b2, b3}
    Name = {main, x, y, z}
    Main = main
    Stack = {s1, s2, s3}
    Ref <- MCRef
    CreateAs <- OneClone
    Calls = {"deploy", "secret"}
    RenameTo = {z}
    Rounds = 2
    MaxOps = 3
    None = None
    Debris = Debris
SYMMETRY Ids
INVARIANT StacksHold
PROPERTY DemolishesAlone
