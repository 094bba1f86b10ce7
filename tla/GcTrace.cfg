CONSTANTS
    d = d
    o = o
    a = a
    h = h
    r = r
    d1 = d1
    ot = ot
    op = op
    a1 = a1
    a2 = a2
    h1 = h1
    r1 = r1
    NoNode = NoNode
    Slot = {d1, ot, op, a1, a2, h1, r1}
    HasDtor = {d}
    Heaps <- SmallHeaps
    Holds <- AtMostOne
    Rooms = {3, 4}
    Object = {d, o}
    Node = {d, o, a, h, r}
    Array = {a, h}
    Reference = {r}
    Owner <- SlotOwner
    Table = {ot}
    MayBeFreeing = {o}
    SharedTables = TRUE
SPECIFICATION Spec
INVARIANTS TypeOK Restored GarbageUnreachable GarbageAccounted DestructorsSafe
PROPERTIES ForgetsOnlyUsedRoots StepsDown

CHECK_DEADLOCK TRUE
