------------------------------ MODULE Regulator ------------------------------
(***************************************************************************)
(* SelfRegulator (observer/src/self_regulation.py) on its own: any week of *)
(* outcomes, a store that keeps what it accepts, and restarts.  Observer   *)
(* uses the same operators with the outcomes that its jobs produce.        *)
(***************************************************************************)
EXTENDS SelfRegulation

CONSTANT MaxWeek        \* bound on the changes counted in one week

ASSUME WeekAssumption == MaxWeek \in Nat

VARIABLES
    autonomy,   \* _autonomy
    stored,     \* what the store returns on startup; [level |-> "none"] at first
    week        \* [validated, other : Nat]: resolved changes of the past 7 days

regulatorVars == <<autonomy, stored, week>>

Nothing == [level |-> "none"]

RegulatorInit ==
    /\ autonomy = Standard
    /\ stored = Nothing
    /\ week = [validated |-> 0, other |-> 0]

\* record_change() of a resolved change, validated or not.
RecordChange(kind) ==
    /\ week.validated + week.other < MaxWeek
    /\ week' = [week EXCEPT ![kind] = @ + 1]
    /\ UNCHANGED <<autonomy, stored>>

\* A change leaves the 7-day window.
Forget(kind) ==
    /\ week[kind] > 0
    /\ week' = [week EXCEPT ![kind] = @ - 1]
    /\ UNCHANGED <<autonomy, stored>>

\* evaluate() and _persist_autonomy_level(): a store that fails or refuses is
\* logged and forgotten.
Evaluate(accepted) ==
    /\ autonomy' = evaluate(week.validated + week.other, week.validated, autonomy)
    /\ stored' = IF accepted THEN autonomy' ELSE stored
    /\ UNCHANGED week

\* start() of a new process: _restore_autonomy_level, which keeps the settings
\* when the store is empty or does not answer.
Restore(answered) ==
    /\ autonomy' = IF answered /\ stored # Nothing THEN stored ELSE Standard
    /\ week' = [validated |-> 0, other |-> 0]
    /\ UNCHANGED stored

RegulatorNext ==
    \/ \E k \in {"validated", "other"} : RecordChange(k) \/ Forget(k)
    \/ \E a \in BOOLEAN : Evaluate(a) \/ Restore(a)

RegulatorSpec == RegulatorInit /\ [][RegulatorNext]_regulatorVars
-----------------------------------------------------------------------------
\* What a level promises, for the level in force and for the stored one.
FollowsLevel(a) ==
    /\ a.level = "standard" => a = Standard
    /\ a.level = "restricted" =>
          /\ a.min_confidence >= StdConfidence
          /\ a.min_samples >= StdSamples
          /\ a.max_auto <= StdMaxAuto
    /\ a.level = "expanded" =>
          /\ a.min_confidence <= StdConfidence
          /\ a.min_samples <= StdSamples
          /\ a.max_auto >= StdMaxAuto

\* However often autonomy is relaxed, tightened, saved, lost and restored, the
\* thresholds follow the level and do not drift: the standard level is the
\* settings, the restricted one is no laxer and the expanded one no stricter.
ThresholdsFollowLevel == FollowsLevel(autonomy) /\ (stored # Nothing => FollowsLevel(stored))

\* DESIGN.md:957, "Self-regulation has hard bounds": min_confidence and
\* min_samples stay between their floors and ceilings.
HardBounds ==
    /\ autonomy.min_confidence \in ConfidenceFloor .. ConfidenceCeiling
    /\ autonomy.min_samples \in SamplesFloor .. SamplesCeiling
=============================================================================
