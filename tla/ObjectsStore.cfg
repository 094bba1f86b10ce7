CONSTANTS
    d = d
    g = g
    Nil = Nil
    Object = {d, g}
    HasDestructor = {d}
    Generators = {g}
    StdFree = {d}
    Slots = 2
    Bailouts = {TRUE, FALSE}
    InitSize = 2
    MaxHandle = 4
SPECIFICATION Spec
INVARIANTS TypeOK StoreSound DestructorsCalled
CHECK_DEADLOCK TRUE
