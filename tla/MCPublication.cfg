SPECIFICATION ScanSpec
CONSTANTS
    None = None
    Crossings = {c1, c2, c3}
    Names = {n1, n2, n3}
    MaxPublications = 2
    OpeningCap = 2
    AcceptFaults = TRUE
SYMMETRY Symmetry
INVARIANTS ListenerKeepsItsPath HeldIsPublished ClosedLeavesNothing ListenersBounded
PROPERTIES KeepsTheRegistry ReportsOneService StandingIsReported
