CONSTANTS
    g1 = g1
    g2 = g2
    g3 = g3
    Gens = {g1, g2, g3}
    Nobody = Nobody
    Depth = 3
    Oddities = {}
SPECIFICATION Spec
SYMMETRY Symmetry
INVARIANTS TypeOK TreeSound
PROPERTIES ImplementsDelegation ValuesSeen
