\* One policy, two implementation and one other criterion; the weights are such
\* that half of the weight may be unknown, a score may meet a threshold, and each
\* of the three kinds of judgment happens.
CONSTANTS
    pol = pol
    imp1 = imp1
    imp2 = imp2
    oth = oth
    Criterion = {pol, imp1, imp2, oth}
    Weight <- MCWeight
    Category <- MCCategory
    Structured = {imp1, imp2}
    Confidence = {3, 8, 12}
    ConfidenceThreshold = 7
    ConsensusWeight = 20
    MaxSandboxRetries = 2
    File <- MCFile
    Asked <- MCAsked
    MaxFiles = 3
SPECIFICATION MCSpec
CHECK_DEADLOCK FALSE
INVARIANTS
    CompliantIsClean
    StatusMeansScore
    SameVerdictInAnyOrder
PROPERTIES
    MoreEvidenceNeverFails
    SettledStays
