SPECIFICATION Spec
CONSTANTS
    Deps = {"path", "rev", "tag", "annotated", "branch", "version"}
    Kind <- KindIsName
    p1 = p1
    p2 = p2
    Procs = {p1, p2}
    Commands = {"fetch", "force", "update", "generate"}
    Settings <- MCSettings
    MaxCommit = 2
    MaxBuild = 1
INVARIANTS
    LockIsTrue
    
PROPERTIES
    NoRollback
    CommandsEnd
