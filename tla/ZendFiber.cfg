CONSTANTS
    f1 = f1
    f2 = f2
    f3 = f3
    Fibers = {f1, f2, f3}
    Main = Main
    Nobody = Nobody
    Nesting = 2
SPECIFICATION Spec
SYMMETRY Symmetry
INVARIANT TypeOK
INVARIANT FibersSound
PROPERTY ImplementsCoroutines
