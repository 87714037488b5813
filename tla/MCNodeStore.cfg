SPECIFICATION Spec
CONSTANTS
    NoNode = NoNode
    Projects = {p1}
    Worktrees = {w1}
    Markers = {}
    Boxes = {b1, b2}
    Section <- MCSection
    Local = "local"
    Silent = {"server"}
    AtLayouts = {"held"}
    Written <- MCWritten
    Flags <- MCFlags
    Strays = {}
    GitFails = TRUE
CHECK_DEADLOCK FALSE
INVARIANTS JournalTellsTheTruth
PROPERTIES GuardedWork SweepTakesNoFiles 
