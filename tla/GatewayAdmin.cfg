\* One admin request.
CONSTANTS
    Model = {"m1", "m2", "m3"}
    Content = {"c1", "c2"}
    First = "c1"
    Tiers <- MCTiers
    TierModels <- MCTierModels
    Path <- MCPath
    EscEnabled = TRUE
    MaxEsc = 1
    Limit = 0
    CanaryOf <- MCCanaryOf
    RouteOf <- MCRouteOf
    NoModel = "none"
    Threshold = 2
    MaxEvents = 1
SPECIFICATION Spec
INVARIANTS
    DisabledLeavesRotation
CHECK_DEADLOCK FALSE
