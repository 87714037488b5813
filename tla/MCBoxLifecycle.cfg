SPECIFICATION FairSpec
CONSTANTS
    Nobody = Nobody
    Boots = {b1}
    Removers = {r1, r2}
    Kinds = {"up", "detach", "run", "keep"}
    Grants <- BothOrNone
    Faults = {"killed", "unwritten", "undowned", "silent", "stopped"}
INVARIANTS BoxIsTracked DoorIsThere FailedLeavesNothing
PROPERTIES HeldIsAsked InterruptedRunIsGone
