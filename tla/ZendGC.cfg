CONSTANTS
    d = d
    e = e
    plain = plain
    Nil = Nil
    Global = Global
    Object = {d, e, plain}
    Slot = {1, 2, 3, 4}
    Owner <- SlotOwner
    HasDestructor = {d, e}
SPECIFICATION Spec
INVARIANTS TypeOK ReferencesSound
PROPERTIES CollectsAll ImplementsManagedHeap
CHECK_DEADLOCK TRUE
