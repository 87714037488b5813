SPECIFICATION StreamsFairSpec
CONSTANTS
    None = None
    Crossings = {c1, c2}
    Names = {n1}
    Clients = {k1}
    StreamCrossings = {s1}
    MaxPublications = 2
    OpeningCap = 1
    AcceptFaults = FALSE
INVARIANTS ParkedWithTheStanding ClaimedByOne
PROPERTIES AcceptedIsResolved EndIsDeregistration
