SPECIFICATION Spec
CONSTANTS
    Tables = {t1, t2, t3}
    Vars = {a, b}
    name = name
    Names = {name}
    HashOf <- NameHash
    Ints = {0, 1, 2, 3, 4}
    MinSize = 4
    Saturated = 255
    Iterators = 2
    Literals <- Traversed
    Writes = 3
    Hole = Hole
    Nobody = Nobody
    Poisoned = Poisoned
INVARIANTS TypeOK TablesSound
PROPERTIES ImplementsArrays IteratorsFollow
SYMMETRY Symmetry
CHECK_DEADLOCK FALSE
