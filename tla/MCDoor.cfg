SPECIFICATION FairSpec
CONSTANTS
    Relays = {r1, r2}
    Publishers = {p1, p2}
    Crossings = {x1}
    Nobody = nobody
    Redial = 1
    Hang = 1
    Faults = {"bind", "open", "killed", "closed"}
    Together = FALSE
CHECK_DEADLOCK FALSE
INVARIANTS DoorIsTheClaimants
PROPERTIES NothingIsCut DeadDoorIsGivenUp DialingEnds
