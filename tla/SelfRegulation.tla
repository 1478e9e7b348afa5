--------------------------- MODULE SelfRegulation ---------------------------
(***************************************************************************)
(* How the observer adjusts its own autonomy: the pure part of             *)
(* observer/src/self_regulation.py.  Confidences and rates are percents.   *)
(***************************************************************************)
EXTENDS Integers

CONSTANTS
    StdConfidence, StdSamples, StdMaxAuto,  \* the auto_apply settings
    ConfidenceFloor, ConfidenceCeiling,     \* self_reg_min_confidence bounds
    SamplesFloor, SamplesCeiling,           \* self_reg_min_samples bounds
    MinResolved                             \* "minimum data to adjust" (5)

ASSUME RegulationAssumption ==
    /\ {StdConfidence, StdSamples, StdMaxAuto, MinResolved} \subseteq Nat
    /\ {ConfidenceFloor, ConfidenceCeiling, SamplesFloor, SamplesCeiling} \subseteq Nat
    /\ ConfidenceFloor <= StdConfidence /\ StdConfidence <= ConfidenceCeiling
    /\ SamplesFloor <= StdSamples /\ StdSamples <= SamplesCeiling
    /\ StdMaxAuto \in 2 .. 20
    /\ MinResolved > 0

StandardTypes == {"routing", "threshold", "pattern"}

Autonomy ==
    [level : {"restricted", "standard", "expanded"},
     min_confidence : Nat, min_samples : Nat, max_auto : Nat,
     types : SUBSET {"routing", "threshold", "pattern", "prompt"}]

\* The settings, as __init__ and every return to "standard" install them.
Standard ==
    [level |-> "standard", min_confidence |-> StdConfidence, min_samples |-> StdSamples,
     max_auto |-> StdMaxAuto, types |-> StandardTypes]

AtLeastOf(bound, x) == IF x < bound THEN bound ELSE x
AtMostOf(bound, x)  == IF x > bound THEN bound ELSE x

Expanded(a) ==
    [level |-> "expanded",
     min_confidence |-> AtLeastOf(ConfidenceFloor, a.min_confidence - 5),
     min_samples |-> AtLeastOf(SamplesFloor, a.min_samples - 5),
     max_auto |-> AtMostOf(20, a.max_auto + 5),
     types |-> StandardTypes \cup {"prompt"}]

Restricted(a) ==
    [level |-> "restricted",
     min_confidence |-> AtMostOf(ConfidenceCeiling, a.min_confidence + 10),
     min_samples |-> AtMostOf(SamplesCeiling, a.min_samples + 20),
     max_auto |-> AtLeastOf(2, a.max_auto - 5),
     types |-> {"threshold"}]

\* Mutant: the way back down keeps the relaxed thresholds.
restrict_autonomy_keeps(a) ==
    CASE a.level = "restricted" -> a
      [] a.level = "expanded"   -> [a EXCEPT !.level = "standard"]
      [] OTHER                  -> Restricted(a)

expand_autonomy(a) ==
    CASE a.level = "expanded"   -> a
      [] a.level = "restricted" -> Standard
      [] OTHER                  -> Expanded(a)

restrict_autonomy(a) ==
    CASE a.level = "restricted" -> a
      [] a.level = "expanded"   -> Standard
      [] OTHER                  -> Restricted(a)

\* evaluate(): validated of the resolved changes of the week.  Above 90% is a
\* success, below 70% a failure.
evaluate(resolved, validated, a) ==
    IF resolved < MinResolved THEN a
    ELSE IF validated * 100 > 90 * resolved THEN expand_autonomy(a)
    ELSE IF validated * 100 < 70 * resolved THEN restrict_autonomy(a)
    ELSE a
=============================================================================
