\* Three requests of one session: any of them may overlap, and the service restarts once.
\* Three requests on the documents.
CONSTANTS
    MaxRequests = 3
    MaxRounds = 2
    MaxCalls = 2
    PlaybookLen = 2
    MaxInFlight = 2
    MaxRestart = 1
    Writer = {w1, w2, w3}
SYMMETRY SameWriters
SPECIFICATION MCSpec
INVARIANTS
    AcknowledgedKept
PROPERTIES
    NoSecondLife
    ConfirmableUntilUsed
CHECK_DEADLOCK FALSE
