----------------------------- MODULE Degradation -----------------------------
(***************************************************************************)
(* The credit-exhaustion cascade of the LLM gateway: the pure part of      *)
(* llm-gateway/src/budget/degradation.py.  Money is counted in integer     *)
(* units; the ratio tests of compute_level are cross-multiplied.           *)
(***************************************************************************)
EXTENDS Naturals

CONSTANT Limit      \* cost.max_per_tenant_per_day_usd, in units of money

ASSUME LimitAssumption == Limit \in Nat

Tier == {"fast", "mid", "strong"}

\* Position of a tier in the order fast < mid < strong.
Rank(t) == CASE t = "fast" -> 1 [] t = "mid" -> 2 [] t = "strong" -> 3

FULL_SERVICE       == 0
NO_STRONG          == 1
FAST_ONLY          == 2
DETERMINISTIC_ONLY == 3
QUEUED             == 4
Level == 0 .. 4

AtLeast(spend, pct) == spend * 100 >= pct * Limit

compute_level(spend) ==
    IF Limit = 0 THEN FULL_SERVICE
    ELSE IF AtLeast(spend, 100) THEN QUEUED
    ELSE IF AtLeast(spend, 95) THEN DETERMINISTIC_ONLY
    ELSE IF AtLeast(spend, 85) THEN FAST_ONLY
    ELSE IF AtLeast(spend, 70) THEN NO_STRONG
    ELSE FULL_SERVICE

tiers_for_level(level) ==
    CASE level = FULL_SERVICE -> {"fast", "mid", "strong"}
      [] level = NO_STRONG    -> {"fast", "mid"}
      [] level = FAST_ONLY    -> {"fast"}
      [] OTHER                -> {}

should_queue(level)      == level >= QUEUED
should_reject_llm(level) == level >= DETERMINISTIC_ONLY

\* The highest allowed tier not above the requested one.  With nothing
\* allowed (levels 3 and 4) the requested tier comes back unchanged.
cap_tier(level, requested) ==
    LET allowed == {t \in tiers_for_level(level) : Rank(t) <= Rank(requested)}
    IN  IF allowed = {} THEN requested
        ELSE CHOOSE t \in allowed : \A u \in allowed : Rank(u) <= Rank(t)
=============================================================================
