----------------------------- MODULE Escalation -----------------------------
(***************************************************************************)
(* The decisions of llm-gateway/src/escalation.py: is a model's response   *)
(* good enough, and which tier comes next.  A response is one of the       *)
(* classes the checks tell apart; confidences are tenths (0.8 is 8).       *)
(***************************************************************************)
EXTENDS Naturals, Sequences

CONSTANTS
    EscEnabled,     \* escalation.enabled
    MaxEsc,         \* escalation.max_escalations
    Path            \* escalation.path, a sequence of tiers, none twice

ASSUME EscAssumption == EscEnabled \in BOOLEAN /\ MaxEsc \in Nat

\* empty: neither text nor tool calls.  refusal: short text with a refusal
\* phrase, no JSON requested.  bad_json: JSON was requested and does not parse.  short: under 50
\* characters for a complex task.  unsure: JSON whose confidence field is 0.5.
Response == {"empty", "refusal", "bad_json", "short", "unsure", "good"}

\* An explicit confidence field, else the heuristics.  A refusal is ordinary
\* text to the heuristics.
extract_confidence(resp) ==
    CASE resp = "empty"    -> 0
      [] resp = "bad_json" -> 3
      [] resp = "short"    -> 4
      [] resp = "unsure"   -> 5
      [] OTHER             -> 8

\* check() escalates only while escalation is on and the count below the
\* maximum; past that it only measures the confidence.
MayEscalate(count) == EscEnabled /\ count < MaxEsc

should_escalate(resp, threshold, count) ==
    /\ MayEscalate(count)
    /\ \/ resp \in {"empty", "refusal", "bad_json"}
       \/ threshold > 0 /\ extract_confidence(resp) < threshold

\* The confidence of the decision: a refusal that escalates counts as 0.1.
decided_confidence(resp, count) ==
    IF MayEscalate(count) /\ resp = "refusal" THEN 1 ELSE extract_confidence(resp)

\* The tier k steps above a tier on the path, as a set: empty past the end of
\* the path and for a tier that is not on it.
Climb(tier, k) ==
    IF k = 0 THEN {tier}
    ELSE {Path[i + k] : i \in {j \in DOMAIN Path : Path[j] = tier /\ j + k \in DOMAIN Path}}

get_next_tier(tier) == Climb(tier, 1)
=============================================================================
