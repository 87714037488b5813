SPECIFICATION Spec
CONSTANTS
    NoNode = NoNode
    Projects = {p1}
    Worktrees = {}
    Markers = {m1, m2}
    Boxes = {b1, b2}
    Section <- MCSection
    Local = "local"
    Silent = {"server"}
    AtLayouts = {"volume"}
    Written = {}
    Flags = {}
    Strays = {m2}
    GitFails = TRUE
CHECK_DEADLOCK FALSE
INVARIANTS EveryLifeIsShown
VIEW ListingView
