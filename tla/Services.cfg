\* Two jobs for one slot and two restarts; five executions, two slots, a queue of two.
CONSTANTS
    Job = {j1, j2}
    MaxConcurrent = 1
    MaxRestart = 2
    Execution = {1, 2, 3, 4, 5}
    Brings <- MCBrings
    Slots = 2
    QueueSize = 2
    MaxKill = 1
SPECIFICATION MCSpec
CHECK_DEADLOCK FALSE
INVARIANTS
    AnswersTrue
    NothingLeftBehind
PROPERTIES
    JobAnswered
    PoolPromise
