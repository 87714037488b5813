SPECIFICATION Spec
CONSTANTS
    n1 = n1
    n2 = n2
    Nobody = Nobody
    NoPort = NoPort
    Boxes = {1, 2}
    Names = {n1, n2}
    Offers <- NameEach
    HostPorts = {1, 2}
    Contested = {1, 2}
    ScanFaults = TRUE
    SaveFaults = TRUE
    MaxLoaded = 1
INVARIANTS PortsDistinct ServedIsSaved
PROPERTIES AddressKept
