--------------------------- MODULE CircuitBreaker ---------------------------
(***************************************************************************)
(* The observer's circuit breaker (observer/src/circuit_breaker.py) and    *)
(* the changes it guards.  A change asks can_auto_apply, is in flight once *)
(* it is granted, and is reported by record_success or record_rollback.    *)
(*                                                                         *)
(* Wall-clock times are kept as ages in hours: the code compares           *)
(* timestamps only with "now minus the window" and "trip plus cooldown".   *)
(* A member of Change is a slot: it is free again when its rollback has    *)
(* left the window.                                                        *)
(***************************************************************************)
EXTENDS Integers, FiniteSets

CONSTANTS
    Change,         \* changes that may be in flight or in the window at once
    MaxRollbacks,   \* circuit_breaker_max_rollbacks
    Window,         \* circuit_breaker_window_hours
    Cooldown        \* circuit_breaker_cooldown_hours

ASSUME BreakerAssumption ==
    /\ IsFiniteSet(Change)
    /\ MaxRollbacks \in Nat \ {0}
    /\ Window \in Nat
    /\ Cooldown \in Nat
    /\ Window < Cooldown

VARIABLES
    state,          \* _state
    tripped,        \* hours since _tripped_at (at most Cooldown), or None
    probe_used,     \* _half_open_probe_used
    age,            \* [Change -> hours since its entry in _rollbacks]
    inflight,       \* changes granted and not yet reported
    probes,         \* history: grants of the current half-open period
    pardoned,       \* history: closed by reset() since the last trip
    asks            \* history: flips with every call that checks the cooldown

vars == <<state, tripped, probe_used, age, inflight, probes, pardoned, asks>>

None == -1
Expired == Window + 1

TypeOK ==
    /\ state \in {"closed", "open", "half_open"}
    /\ tripped \in None .. Cooldown
    /\ state = "open" => tripped # None
    /\ probe_used \in BOOLEAN
    /\ age \in [Change -> 0 .. Expired]
    /\ inflight \subseteq Change
    /\ probes \subseteq Change
    /\ pardoned \in BOOLEAN
    /\ asks \in BOOLEAN

Init ==
    /\ state = "closed"
    /\ tripped = None
    /\ probe_used = FALSE
    /\ age = [c \in Change |-> Expired]
    /\ inflight = {}
    /\ probes = {}
    /\ pardoned = FALSE
    /\ asks = FALSE
-----------------------------------------------------------------------------
\* The window is closed on the left: rb >= now - window.
count_recent_rollbacks(ages) == Cardinality({c \in Change : ages[c] <= Window})

\* Mutant: an age that is capped at Cooldown is never above it.
Elapsed_never == state = "open" /\ tripped # None /\ tripped > Cooldown

Elapsed == state = "open" /\ tripped # None /\ tripped >= Cooldown

check_cooldown ==
    IF Elapsed THEN [state |-> "half_open", used |-> FALSE, probes |-> {}]
    ELSE [state |-> state, used |-> probe_used, probes |-> probes]

Granted(b) == b.state = "closed" \/ (b.state = "half_open" /\ ~b.used)

\* Mutant: the probe is not marked as used.
CanAutoApply_unmarked(c) ==
    /\ c \notin inflight
    /\ age[c] = Expired
    /\ LET b == check_cooldown
           probe == Granted(b) /\ b.state = "half_open"
       IN  /\ state' = b.state
           /\ probe_used' = b.used
           /\ inflight' = IF Granted(b) THEN inflight \cup {c} ELSE inflight
           /\ probes' = IF probe THEN b.probes \cup {c} ELSE b.probes
    /\ asks' = ~asks
    /\ UNCHANGED <<tripped, age, pardoned>>

\* can_auto_apply() for a new change c.
CanAutoApply(c) ==
    /\ c \notin inflight
    /\ age[c] = Expired
    /\ LET b == check_cooldown
           probe == Granted(b) /\ b.state = "half_open"
       IN  /\ state' = b.state
           /\ probe_used' = (b.used \/ probe)
           /\ inflight' = IF Granted(b) THEN inflight \cup {c} ELSE inflight
           /\ probes' = IF probe THEN b.probes \cup {c} ELSE b.probes
    /\ asks' = ~asks
    /\ UNCHANGED <<tripped, age, pardoned>>

\* The properties is_open and state, and get_status: each of them first
\* checks the cooldown.
Look ==
    /\ state' = check_cooldown.state
    /\ probe_used' = check_cooldown.used
    /\ probes' = check_cooldown.probes
    /\ asks' = ~asks
    /\ UNCHANGED <<tripped, age, inflight, pardoned>>

trip ==
    /\ state' = "open"
    /\ tripped' = 0
    /\ probe_used' = FALSE
    /\ pardoned' = FALSE

\* Mutant: > where the code has >=.
Trips_off_by_one(ages) == state = "half_open" \/ count_recent_rollbacks(ages) > MaxRollbacks

\* A half-open breaker trips on any rollback, another one on the
\* MaxRollbacks-th of the window.  The cooldown is not checked first.
Trips(ages) == state = "half_open" \/ count_recent_rollbacks(ages) >= MaxRollbacks

\* record_rollback() of a change that was granted, or of another one (a human
\* applied it): the breaker does not ask which.
RecordRollback(c) ==
    /\ c \in inflight \/ age[c] = Expired
    /\ inflight' = inflight \ {c}
    /\ age' = [age EXCEPT ![c] = 0]
    /\ IF Trips(age') THEN trip ELSE UNCHANGED <<state, tripped, probe_used, pardoned>>
    /\ UNCHANGED <<probes, asks>>

close ==
    /\ state' = "closed"
    /\ tripped' = None
    /\ probe_used' = FALSE

RecordSuccess(c) ==
    /\ inflight' = inflight \ {c}
    /\ IF state = "half_open" THEN close ELSE UNCHANGED <<state, tripped, probe_used>>
    /\ UNCHANGED <<age, probes, pardoned, asks>>

\* reset(): the admin closes the breaker; _rollbacks is left as it is.
Reset ==
    /\ close
    /\ pardoned' = TRUE
    /\ UNCHANGED <<age, inflight, probes, asks>>

\* One hour passes.
Tick ==
    /\ age' = [c \in Change |-> IF age[c] < Expired THEN age[c] + 1 ELSE Expired]
    /\ tripped' = IF tripped \in 0 .. Cooldown - 1 THEN tripped + 1 ELSE tripped
    /\ UNCHANGED <<state, probe_used, inflight, probes, pardoned, asks>>

Next ==
    \/ \E c \in Change : CanAutoApply(c) \/ RecordRollback(c) \/ RecordSuccess(c)
    \/ Look
    \/ Reset
    \/ Tick

Spec == Init /\ [][Next]_vars
-----------------------------------------------------------------------------
\* A breaker that closed by itself never has MaxRollbacks rollbacks in the
\* window: it is not closed while the evidence that tripped it still counts.
\* Only reset() may close it over that evidence.
SafeClose ==
    state = "closed" /\ ~pardoned => count_recent_rollbacks(age) < MaxRollbacks

\* "Max 1 probe per half-open period" (observer/DESIGN.md:288): however calls,
\* reports, resets and time interleave, can_auto_apply grants one change per
\* half-open period.
OneProbe == Cardinality(probes) <= 1

\* Nobody waits for the cooldown: _check_cooldown runs only inside a question
\* (is_open, state, get_status, can_auto_apply).  So a breaker that stays open
\* for ever is explained: from some time on nobody asks, or rollbacks never stop
\* coming, each of which may start the cooldown again.
Recovers ==
    []<><<asks' # asks>>_vars /\ <>[][\A c \in Change : ~RecordRollback(c)]_vars
        => (state = "open" ~> state # "open")
=============================================================================
