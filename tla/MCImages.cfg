SPECIFICATION Spec
CONSTANTS
    Procs = {p1, p2}
    Versions = {v1, v2}
    Staged = staged
    NoVersion = none
    NoProc = nobody
    Forms = {"inline", "bundled"}
    Kinds = {"run", "boot", "build", "exec", "rm", "prune", "force"}
    Builders = {TRUE, FALSE}
    Faults = {"build", "record", "up", "ls", "remove", "killed"}
SYMMETRY Symmetric
CHECK_DEADLOCK FALSE
INVARIANTS OneCommand
PROPERTIES ServedUnbuilt PruneSparesBoxes MountIsWhole
