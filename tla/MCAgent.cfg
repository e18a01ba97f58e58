SPECIFICATION MCSpec
CONSTANTS
    Absent = Absent
    Requests <- MCRequests
    ExitCodes <- MCExitCodes
    to_ascii_lowercase <- MCLowercase
INVARIANTS
    ReadOnlyAndPinned
    RolesAreKept
    AnswerMatchesRun
PROPERTIES
    AgentAnswers
CHECK_DEADLOCK FALSE
