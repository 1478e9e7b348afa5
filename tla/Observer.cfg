\* Breaker: four changes, two rollbacks trip, more changes than a trip needs.
\* Regulation: settings so close to the bounds that clamping happens.
\* Ingestion: rotations, half-written lines, restarts and three readers.
\* Jobs: every outcome of a three-issue cycle, with fixes of every class and calls below and
\* above the estimate.
CONSTANTS
    Change = {c1, c2, c3, c4}
    MaxRollbacks = 2
    Window = 2
    Cooldown = 3
    StdConfidence = 80
    StdSamples = 20
    StdMaxAuto = 2
    ConfidenceFloor = 78
    ConfidenceCeiling = 85
    SamplesFloor = 18
    SamplesCeiling = 35
    MinResolved = 1
    MaxWeek = 10
    MaxLine = 4
    MaxRestarts = 2
    Fix = {"routing", "prompt"}
    Confidence = {65, 90}
    Samples = {30}
    Cost = {1, 4}
    Estimate = 2
    Budget = 5
    MaxCanaries = 3
    MaxHistory = 1
    MaxIssues = 3
    MaxHuman = 1
    MaxPending = 1
SPECIFICATION MCSpec
INVARIANTS
    SafeClose
    OneProbe
    ThresholdsFollowLevel
    LinesReadOnce
    CycleBudget
    DeferredAreLast
    MispairedOnlyAfterGap
PROPERTIES
    Recovers
