SPECIFICATION Spec
CONSTANTS
    Sizes = {small, large}
    MaxScenes = 3
    InboxBound = 2
    MayCrash = {"chrome", "content"}
    LateAttach = FALSE
INVARIANTS
    TypeOK
    OneScene
    OneInFlight
PROPERTIES
    FramesComplete
