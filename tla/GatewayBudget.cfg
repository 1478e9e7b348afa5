\* Two concurrent connections around the budget limit.
CONSTANTS
    f1 = f1
    m1 = m1
    m2 = m2
    s1 = s1
    NoModel = NoModel
    Request = {r1, r2}
    Tenant = {t1}
    Model = {f1, m1, m2}
    ModelsOf <- NoStrong
    Usage = {"long"}
    EstimateCost <- MCCost
    Path <- MCPath
    CanaryModel = NoModel
    Pin = {NoModel}
    Threshold = {0}
    Answer = {"bad_json", "good"}
    MaxPrice = 9
    MaxQueue = 1
    Limit = 20
    EscEnabled = TRUE
    MaxEsc = 1
SPECIFICATION Spec
SYMMETRY Sym
INVARIANTS
    OvershootBounded
PROPERTIES
    CallsAllowedTiers
