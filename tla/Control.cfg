\* Writes of the file, admin requests and completions; models that fail after two checks.
CONSTANTS
    Model = {"m1", "m2", "m3"}
    Content = {"c1", "c2"}
    First = "c1"
    Tiers <- MCTiers
    TierModels <- MCTierModels
    Path <- MCPath
    EscEnabled = TRUE
    MaxEsc = 1
    Limit = 0
    CanaryOf <- MCCanaryOf
    RouteOf <- MCRouteOf
    NoModel = "none"
    Threshold = 2
    MaxEvents = 3
SPECIFICATION Spec
INVARIANTS
    UnhealthyOut
    FileInForce
    SamplesFit
PROPERTIES
    HealthyReturns
CHECK_DEADLOCK FALSE
