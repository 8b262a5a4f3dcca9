SPECIFICATION Spec
CONSTANTS
    w1 = w1
    w2 = w2
    c1 = c1
    Windows = {w1, w2}
    Broadcast = Broadcast
    None = None
    Posts = {"down", "paint"}
    Directions = {1}
    Roles = {"focus"}
    Timed = {w1}
    Filters <- MCFilters
    Calls = {c1}
    MaxRepeats = 1
    MaxPosted = 2
INVARIANTS
    PaintAnnounced
