SPECIFICATION Spec
CONSTANTS
    Names = {"alice", "bob"}
    Default = "default"
    p1 = p1
    p2 = p2
    Procs = {p1, p2}
    Ops = {"generate", "import", "remove", "set_default", "sign"}
    Settings <- MCSettings
    MaxKey = 2
INVARIANTS
    ReportedKeyIsStored
    DefaultIsHonest
