SPECIFICATION FairSpec
CONSTANTS
    n1 = n1
    n2 = n2
    Nobody = Nobody
    NoPort = NoPort
    Boxes = {1, 2}
    Names = {n1}
    Offers <- OneName
    HostPorts = {1, 2}
    Contested = {1, 2}
    ScanFaults = FALSE
    SaveFaults = TRUE
    MaxLoaded = 1
INVARIANTS ShownIsOwner
PROPERTIES OwnerIsReached
