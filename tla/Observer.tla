------------------------------ MODULE Observer ------------------------------
(***************************************************************************)
(* The observer's jobs (observer/src/main.py, scheduler.py): the hourly    *)
(* quality check diagnoses the detected issues one LLM call at a time,     *)
(* proposes a change for each diagnosis and applies it; the weekly         *)
(* self-evaluation looks at the recorded changes.  The jobs share one      *)
(* event loop, so an action is the code between two awaits.                *)
(*                                                                         *)
(* The detector's issues are numbered by severity, as it sorts them; an    *)
(* issue is its sample count.  The gateway and memory services answer or   *)
(* fail as they like.                                                      *)
(***************************************************************************)
EXTENDS SelfRegulation, Sequences, FiniteSets

CONSTANTS
    Fix,            \* fix types that diagnoses name
    Confidence,     \* confidences of diagnoses, in percent
    Samples,        \* sample counts of issues
    Cost,           \* costs of one diagnosis call
    Estimate,       \* _estimate_cost
    Budget,         \* observer_budget_per_cycle_usd
    MaxCanaries,    \* max_concurrent_canaries
    MaxHistory,     \* change history kept (max_auto_applies_per_day * 30)
    MaxIssues,      \* bound on the issues of one cycle
    MaxHuman,       \* bound on the human queue
    MaxPending      \* bound on the pending validations

ASSUME ObserverAssumption ==
    /\ Confidence \subseteq 0 .. 100
    /\ Samples \subseteq Nat
    /\ Cost \subseteq Nat
    /\ {Estimate, Budget, MaxCanaries} \subseteq Nat
    /\ {MaxHistory, MaxIssues, MaxHuman, MaxPending} \subseteq Nat
    /\ Estimate > 0

Job == {"quality_check", "self_eval"}

VARIABLES
    pc,         \* where the quality check stands
    issues,     \* Seq(Samples): what detect() returned
    i,          \* the issue being diagnosed, or the pair being proposed
    diagnoses,  \* Seq([issue, fix, confidence])
    spend,      \* _cycle_spend
    deferred,   \* first issue deferred for budget, or 0
    change,     \* the change being applied
    human,      \* length of _human_queue
    pending,    \* changes in _pending_validations
    history,    \* Seq(status): _change_history
    old,        \* leading entries of history older than a week
    regulated,  \* SelfRegulator._autonomy
    breaker,    \* CircuitBreaker._state
    jobs        \* [Job -> "scheduled", or "paused" without a next run time]

cycle == <<issues, i, diagnoses, spend, deferred, change>>
record == <<human, pending, history, old>>
observerVars == <<pc, issues, i, diagnoses, spend, deferred, change, human, pending,
                  history, old, regulated, breaker, jobs>>

NoChange == [issue |-> 0, of |-> 0, type |-> "none", tier |-> "human"]
ObserverInit ==
    /\ pc = "idle" /\ issues = <<>> /\ i = 0 /\ diagnoses = <<>>
    /\ spend = 0 /\ deferred = 0 /\ change = NoChange
    /\ human = 0 /\ pending = 0 /\ history = <<>> /\ old = 0
    /\ regulated = Standard
    /\ breaker = "closed"
    /\ jobs = [j \in Job |-> "scheduled"]
-----------------------------------------------------------------------------
\* propose(): nothing below 60% confidence, nothing for an unknown fix type.
Proposes(d) == d.confidence >= 60 /\ d.fix \in StandardTypes \cup {"prompt", "model"}

\* classify_tier with the counters that __init__ leaves at zero: no code calls
\* record_failure, increment_daily_auto_count or set_active_canaries.
classify_tier(type, confidence, samples) ==
    LET failed_types == {}
        daily_auto_count == 0
        active_canaries == 0
    IN  IF type \in failed_types THEN "human"
        ELSE IF type \in StandardTypes
             THEN IF \/ confidence < StdConfidence
                     \/ samples < StdSamples
                     \/ daily_auto_count >= StdMaxAuto
                  THEN "canary" ELSE "auto"
        ELSE IF confidence < 70 \/ active_canaries >= MaxCanaries
             THEN "human" ELSE "canary"

\* apply(): an open or half-open breaker sends every change to a human.
Override(tier) == IF breaker # "closed" THEN "human" ELSE tier

\* The change proposed for the pair of a diagnosis and an issue.
Propose(d, k) ==
    [issue |-> k, of |-> d.issue, type |-> d.fix,
     tier |-> Override(classify_tier(d.fix, d.confidence, issues[k]))]

\* record_change(): append, and keep the last MaxHistory entries.
record_change(status) ==
    LET all  == Append(history, status)
        drop == IF Len(all) > MaxHistory THEN Len(all) - MaxHistory ELSE 0
    IN  /\ history' = SubSeq(all, drop + 1, Len(all))
        /\ old' = IF old < drop THEN 0 ELSE old - drop
-----------------------------------------------------------------------------
\* The job starts, ingests and detects; no entries or no issues end it.
\* diagnose_batch resets the cycle's budget.
StartQualityCheck(found) ==
    /\ pc = "idle" /\ jobs["quality_check"] = "scheduled"
    /\ found # <<>>
    /\ pc' = "diagnosing" /\ issues' = found /\ i' = 1 /\ diagnoses' = <<>>
    /\ spend' = 0 /\ deferred' = 0
    /\ UNCHANGED <<change, record, regulated, breaker, jobs>>

\* Mutant: what is left is never negative, so one more call always fits.
Remaining_rounded == IF spend < Budget THEN Budget - spend ELSE Estimate

\* remaining_budget
Remaining == IF spend < Budget THEN Budget - spend ELSE 0

\* Mutant: the budget starts anew with every deferred issue.
Defer_resets ==
    /\ pc = "diagnosing" /\ i <= Len(issues) /\ Estimate > Remaining
    /\ i' = i + 1 /\ spend' = 0
    /\ deferred' = IF deferred = 0 THEN i ELSE deferred
    /\ UNCHANGED <<pc, issues, diagnoses, change, record, regulated, breaker, jobs>>

\* diagnose(): the estimate does not fit the rest of the budget.
Defer ==
    /\ pc = "diagnosing" /\ i <= Len(issues) /\ Estimate > Remaining
    /\ i' = i + 1
    /\ deferred' = IF deferred = 0 THEN i ELSE deferred
    /\ UNCHANGED <<pc, issues, diagnoses, spend, change, record, regulated, breaker, jobs>>

\* The LLM call fails: nothing is charged.
DiagnosisFails ==
    /\ pc = "diagnosing" /\ i <= Len(issues) /\ Estimate <= Remaining
    /\ i' = i + 1
    /\ UNCHANGED <<pc, issues, diagnoses, spend, deferred, change, record, regulated, breaker, jobs>>

\* The LLM answers: the cost is charged, and a reply that parses is a diagnosis.
DiagnosisAnswers(cost, found) ==
    /\ pc = "diagnosing" /\ i <= Len(issues) /\ Estimate <= Remaining
    /\ spend' = spend + cost
    /\ diagnoses' = IF found = {} THEN diagnoses
                    ELSE Append(diagnoses, CHOOSE d \in found : TRUE)
    /\ i' = i + 1
    /\ UNCHANGED <<pc, issues, deferred, change, record, regulated, breaker, jobs>>

\* Mutant: the diagnoses come back in the other order.
Diagnosed_reversed ==
    /\ pc = "diagnosing" /\ i > Len(issues)
    /\ pc' = "proposing" /\ i' = 1
    /\ diagnoses' = [k \in DOMAIN diagnoses |-> diagnoses[Len(diagnoses) + 1 - k]]
    /\ UNCHANGED <<issues, spend, deferred, change, record, regulated, breaker, jobs>>

\* Every issue is diagnosed or skipped: on to zip(diagnoses, issues).
Diagnosed ==
    /\ pc = "diagnosing" /\ i > Len(issues)
    /\ pc' = "proposing" /\ i' = 1
    /\ UNCHANGED <<issues, diagnoses, spend, deferred, change, record, regulated, breaker, jobs>>

\* The i-th diagnosis is paired with the i-th issue.  A change for a human is
\* queued and recorded at once; the others are awaited.
ProposeNext ==
    /\ pc = "proposing" /\ i <= Len(diagnoses)
    /\ LET d == diagnoses[i] IN
       \/ /\ ~Proposes(d)
          /\ i' = i + 1
          /\ UNCHANGED <<pc, change, record>>
       \/ /\ Proposes(d) /\ Propose(d, i).tier = "human"
          /\ human' = IF human < MaxHuman THEN human + 1 ELSE human
          /\ record_change("proposed")
          /\ change' = Propose(d, i)
          /\ i' = i + 1
          /\ UNCHANGED <<pc, pending>>
       \/ /\ Proposes(d) /\ Propose(d, i).tier # "human"
          /\ change' = Propose(d, i)
          /\ pc' = "applying"
          /\ UNCHANGED <<i, record>>
    /\ UNCHANGED <<issues, diagnoses, spend, deferred, regulated, breaker, jobs>>

\* The POST of _execute_change or _apply_canary ends, answered 200 or not: a
\* refusal, an error and a lost reply are the same to the code.
Applied(ok) ==
    /\ pc = "applying"
    /\ LET status == IF change.tier = "auto" THEN IF ok THEN "applied" ELSE "rolled_back"
                     ELSE IF ok THEN "canary_running" ELSE "proposed"
       IN  /\ record_change(status)
           /\ pending' = IF status = "applied" /\ pending < MaxPending THEN pending + 1 ELSE pending
    /\ pc' = "proposing" /\ i' = i + 1
    /\ UNCHANGED <<issues, diagnoses, spend, deferred, change, human, regulated, breaker, jobs>>

\* The job function returns and its locals are gone; _cycle_spend stays.
EndQualityCheck ==
    /\ pc = "proposing" /\ i > Len(diagnoses)
    /\ pc' = "idle" /\ issues' = <<>> /\ i' = 0 /\ diagnoses' = <<>>
    /\ deferred' = 0 /\ change' = NoChange
    /\ UNCHANGED <<spend, record, regulated, breaker, jobs>>
-----------------------------------------------------------------------------
Recent(s) == Cardinality({k \in old + 1 .. Len(history) : history[k] = s})

\* evaluate(): nothing ever sets VALIDATED, CANARY_PASSED or CANARY_FAILED.  The
\* result is sent to POST /patterns, which the memory service does not serve.
SelfEval ==
    /\ jobs["self_eval"] = "scheduled"
    /\ regulated' = evaluate(Recent("applied") + Recent("rolled_back"), 0, regulated)
    /\ UNCHANGED <<pc, cycle, record, breaker, jobs>>

\* Entries of the history become older than a week.
Age ==
    /\ old < Len(history)
    /\ old' = old + 1
    /\ UNCHANGED <<pc, cycle, human, pending, history, regulated, breaker, jobs>>

\* POST /observer/trigger/{job}: modify_job with next_run_time None, which
\* APScheduler takes for a paused job.
trigger_job(j) ==
    /\ jobs' = [jobs EXCEPT ![j] = "paused"]
    /\ UNCHANGED <<pc, cycle, record, regulated, breaker>>

\* POST /observer/circuit-breaker/reset.
ResetBreaker ==
    /\ breaker' = "closed"
    /\ UNCHANGED <<pc, cycle, record, regulated, jobs>>

\* The process restarts: everything it held is gone, and GET /patterns, a path
\* that the memory service does not serve, restores nothing.
Restart ==
    /\ pc' = "idle" /\ issues' = <<>> /\ i' = 0 /\ diagnoses' = <<>>
    /\ spend' = 0 /\ deferred' = 0 /\ change' = NoChange
    /\ human' = 0 /\ pending' = 0 /\ history' = <<>> /\ old' = 0
    /\ regulated' = Standard /\ breaker' = "closed"
    /\ jobs' = [j \in Job |-> "scheduled"]

Found == UNION {[1 .. n -> Samples] : n \in 0 .. MaxIssues}
Parsed == {{}} \cup {{[issue |-> i, fix |-> f, confidence |-> c]} : f \in Fix, c \in Confidence}

Step ==
    \/ Defer \/ DiagnosisFails \/ Diagnosed \/ ProposeNext \/ EndQualityCheck
    \/ \E c \in Cost, p \in Parsed : DiagnosisAnswers(c, p)
    \/ \E ok \in BOOLEAN : Applied(ok)

Start == \E found \in Found : StartQualityCheck(found)

ObserverNext ==
    \/ Start
    \/ Step
    \/ SelfEval
    \/ Age
    \/ \E j \in Job : trigger_job(j)
    \/ ResetBreaker
    \/ Restart

ObserverSpec == ObserverInit /\ [][ObserverNext]_observerVars
-----------------------------------------------------------------------------
\* DESIGN.md:969, one budget per cycle: a cycle's spend passes the budget by at
\* most what its last call cost above the estimate, whatever the calls cost and
\* whichever of them fail.
CycleBudget == spend = 0 \/ \E c \in Cost : spend <= Budget - Estimate + c

\* "Stops when budget is exhausted; remaining issues are deferred"
\* (engine.py:157): an issue deferred for budget is never overtaken by a less
\* severe one.
DeferredAreLast == deferred # 0 => \A k \in DOMAIN diagnoses : diagnoses[k].issue < deferred

\* zip(diagnoses, issues) pairs by position (main.py:121), so that a change may be
\* made for the task of another issue than the diagnosed one.  Only a more severe
\* issue that was left without a diagnosis, failed, unparsed or deferred, does that.
MispairedOnlyAfterGap ==
    change.of # change.issue =>
        \E k \in 1 .. change.of - 1 : \A n \in DOMAIN diagnoses : diagnoses[n].issue # k
=============================================================================
