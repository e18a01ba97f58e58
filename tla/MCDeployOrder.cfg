SPECIFICATION Spec
CONSTANTS
    Names = {1, 2, 3}
    MaxDeps = 2
INVARIANTS
    OrderIsTheFirst
    CyclesAreFound
