\* One connection: fallback, canary, pinned model and escalation.
CONSTANTS
    f1 = f1
    m1 = m1
    m2 = m2
    s1 = s1
    NoModel = NoModel
    Request = {r1}
    Tenant = {t1}
    Model = {f1, m1, m2, s1}
    ModelsOf <- TwoMid
    Usage = {"short", "long"}
    EstimateCost <- MCCost
    Path <- MCPath
    CanaryModel = m2
    Pin = {NoModel, m2}
    Threshold = {0, 7}
    Answer = {"empty", "refusal", "bad_json", "short", "unsure", "good"}
    MaxPrice = 14
    MaxQueue = 1
    Limit = 20
    EscEnabled = TRUE
    MaxEsc = 2
SPECIFICATION FairSpec
INVARIANTS
    BestBeforeLast
    ChargeWasPaid
PROPERTIES
    SettlesOnlyWhenStuck
    HandlersFinish
