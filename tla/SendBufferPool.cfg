SPECIFICATION Spec
CONSTANTS
    Handles = {h1, h2, h3}
    Sizes = {1, 2}
    Capacity = 4
    Reserved = 2
    Backpressure = 3
    Suspend = 2
    MaxFree = 2
INVARIANTS
    TypeOK
    Accounted
PROPERTIES
    ClaimsWithinLimit
SYMMETRY HandleSymmetry
