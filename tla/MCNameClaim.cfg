SPECIFICATION FairSpec
CONSTANTS
    NoBoot = NoBoot
    Boots = {b1, b2, b3}
    Silent = TRUE
INVARIANTS RecordIsTheBox
PROPERTIES NameComesBack
