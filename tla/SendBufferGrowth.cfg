SPECIFICATION Spec
CONSTANTS
    Handles = {h1}
    Sizes = {1, 2}
    Capacity = 4
    Reserved = 2
    Backpressure = 3
    Suspend = 2
    MaxFree = 4
INVARIANT
    FixedCapacity
