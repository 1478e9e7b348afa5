\* Ingestion: the poller and one webhook request on two files, one of unknown
\* type and not watched, with two contents, one replaced by the other and back,
\* and a restart.
\* Analysis: two documents that share a control and two reviewers.
CONSTANTS
    File = {f1, f2}
    Content = {c1, c2, big}
    Hook = {h1}
    Poller = poller
    Unwatched = {f2}
    Oversized = {big}
    Unsupported = {f2}
    None = None
    MaxUpload = 3
    MaxRestart = 1
    d1 = d1
    ac1 = ac1
    Document = {d1, d2}
    Control = {ac1, ac2}
    Reviewer = {v1, v2}
    Concerns <- MCConcerns
    MaxChunk = 1
    MaxObligation = 2
    BatchSize = 1
    MaxDecision = 2
    MaxChars = 7
    Cut = 3
    RawWeight <- MCRawWeight
    NotNumber = NotNumber
    MaxCriteria = 5
SPECIFICATION MCSpec
CHECK_DEADLOCK FALSE
INVARIANTS
    HiddenOnlyByLoss
    ChunksKeepText
    WeightsSumToOne
PROPERTIES
    SkipsOnlyDone
    ContentExtracted
    UndoneOnlyByOverlap
