\* Three pushes and two drains on a queue of one event; four transactions on two versions.
CONSTANTS
    Event = {e1, e2, e3}
    Low = {e1}
    Drain = {d1, d2}
    Cap = 1
    Tx = {t1, t2, t3, t4}
    MaxVersion = 2
SPECIFICATION Spec
INVARIANTS
    CapRespected
    StoredEventsAccounted
    OneActive
PROPERTIES
    TransactionsEnd
CHECK_DEADLOCK FALSE
