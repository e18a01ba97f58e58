SPECIFICATION Spec
CONSTANTS
    Values <- MCValues
    Floor <- MCFloor
    Arity = 1
    MaxSteps = 3
    MaxCases = 2
    MaxRuns = 2
    Settings <- MCSettings
INVARIANTS PlainFindingsArePreserved StoppedIsMinimal ArtifactsHold
PROPERTY CampaignsEnd
CHECK_DEADLOCK FALSE
