---------------------------- MODULE EvalPipeline ----------------------------
(***************************************************************************)
(* One evaluation of a control by agent-eval (agent-eval/src/graph): the   *)
(* compiled graph as a program counter, from discovery over rules, sandbox *)
(* and LLM judgment to scoring and the answer.                             *)
(*                                                                         *)
(* A criterion is its weight, in hundredths, its category and whether it   *)
(* is about structured data.  What a rule or a model says of it is an      *)
(* input.  Criteria are taken in any order, so the model covers every      *)
(* order of the list.  A weight is a decimal and the code adds floats: a   *)
(* comparison of two equal quantities may go either way.                   *)
(***************************************************************************)
EXTENDS Naturals, FiniteSets

CONSTANTS
    Criterion,              \* the testing criteria of the control
    Weight,                 \* [Criterion -> Nat]
    Category,               \* [Criterion -> STRING]
    Structured,             \* criteria with evidence_type structured_data
    Confidence,             \* confidences a judge may report, in tenths
    ConfidenceThreshold,    \* tribunal_confidence_threshold, in tenths
    ConsensusWeight,        \* consensus_weight_threshold
    MaxSandboxRetries       \* max_sandbox_retries

ASSUME EvalAssumption ==
    /\ IsFiniteSet(Criterion)
    /\ Weight \in [Criterion -> Nat]
    /\ Category \in [Criterion -> {"policy", "implementation", "other"}]
    /\ Structured \subseteq Criterion
    /\ Confidence \subseteq Nat /\ ConfidenceThreshold \in Nat
    /\ ConsensusWeight \in Nat /\ MaxSandboxRetries \in Nat

Verdict == {"PASS", "PARTIAL", "FAIL"}

NonAssessable == {"CANNOT_ASSESS", "INSUFFICIENT_EVIDENCE"}

CriterionResult == Verdict \cup NonAssessable \cup {"NEEDS_JUDGMENT"}

ComplianceStatus == {"compliant", "partially_compliant", "non_compliant",
                     "insufficient_evidence", "partial_evaluation"}

Node == {"router", "discovery", "extractor", "load_criteria", "rules_engine", "sandbox",
         "code_fixer", "evaluation", "scoring", "formatter", "end", "raised"}

VARIABLES
    node,       \* the graph's node, end after the answer, raised after an exception
    tabular,    \* some evidence file is a spreadsheet, csv or json
    results,    \* rule_results overridden by judgment_results
    pending,    \* criteria of needs_judgment without a judgment_result
    partial,    \* partial_evaluation
    output,     \* sandbox_output
    retries,    \* sandbox_retries
    left,       \* criteria the scoring loop has still to add
    total, non_assessable, assessable,  \* weights added so far
    points,     \* twice weighted_sum
    status,     \* final_status
    answer,     \* the status the job reports, or none
    exhausted   \* history: the gateway answered 429 in this evaluation

scoreVars == <<left, total, non_assessable, assessable, points>>
vars == <<node, tabular, results, pending, partial, output, retries, scoreVars, status, answer, exhausted>>

TypeOK ==
    /\ node \in Node
    /\ tabular \in BOOLEAN /\ partial \in BOOLEAN /\ exhausted \in BOOLEAN
    /\ results \in [Criterion -> CriterionResult]
    /\ pending \subseteq Criterion /\ left \subseteq Criterion
    /\ output \in {"empty", "error", "ok"}
    /\ retries \in Nat
    /\ total \in Nat /\ non_assessable \in Nat /\ assessable \in Nat /\ points \in Nat
    /\ status \in ComplianceStatus
    /\ answer \in ComplianceStatus \cup {"none"}
    /\ retries <= MaxSandboxRetries
    /\ pending = {c \in Criterion : results[c] = "NEEDS_JUDGMENT"}
    /\ node \in {"scoring", "formatter"} => pending = {}
    /\ answer = "none" <=> node # "end"

Init ==
    /\ node = "router"
    /\ tabular = FALSE /\ partial = FALSE /\ exhausted = FALSE
    /\ results = [c \in Criterion |-> "INSUFFICIENT_EVIDENCE"]
    /\ pending = {} /\ left = {}
    /\ output = "empty" /\ retries = 0
    /\ total = 0 /\ non_assessable = 0 /\ assessable = 0 /\ points = 0
    /\ status = "insufficient_evidence"
    /\ answer = "none"
-----------------------------------------------------------------------------
Go(n) ==
    /\ node' = n
    /\ UNCHANGED answer

\* The job ends with this status.
Answer(s) ==
    /\ node' = "end"
    /\ answer' = s

\* POST /evaluate sets the intent, so that the router only passes on.
Router ==
    /\ node = "router"
    /\ Go("discovery")
    /\ UNCHANGED <<tabular, results, pending, partial, output, retries, scoreVars, status, exhausted>>

\* Without evidence the formatter answers at once.  The evidence hash holds the
\* time of the listing: no earlier result has it, and the cache never hits.
Discovery(found) ==
    /\ node = "discovery"
    /\ IF found THEN Go("extractor") ELSE Answer("insufficient_evidence")
    /\ UNCHANGED <<tabular, results, pending, partial, output, retries, scoreVars, status, exhausted>>

\* Every file gets metadata: the preprocessor's, or what its name says.
Extractor(tables) ==
    /\ node = "extractor"
    /\ tabular' = tables
    /\ Go("load_criteria")
    /\ UNCHANGED <<results, pending, partial, output, retries, scoreVars, status, exhausted>>

\* From memory, the index or the defaults: criteria are always found.
LoadCriteria ==
    /\ node = "load_criteria"
    /\ Go("rules_engine")
    /\ UNCHANGED <<tabular, results, pending, partial, output, retries, scoreVars, status, exhausted>>

route_after_rules(needs) ==
    IF needs = {} THEN "scoring"
    ELSE IF tabular /\ needs \cap Structured # {} THEN "sandbox"
    ELSE "evaluation"

\* A rule says pass or fail, or leaves the criterion to the models.
RulesEngine(said) ==
    /\ node = "rules_engine"
    /\ results' = said
    /\ pending' = {c \in Criterion : said[c] = "NEEDS_JUDGMENT"}
    /\ Go(route_after_rules(pending'))
    /\ left' = Criterion
    /\ UNCHANGED <<tabular, partial, output, retries, total, non_assessable, assessable, points, status, exhausted>>

route_after_sandbox(out) ==
    IF out = "empty" \/ (out = "error" /\ retries < MaxSandboxRetries) THEN "code_fixer" ELSE "evaluation"

\* The model writes code and the sandbox service runs it; SandboxClient turns
\* its own failures into an output that reads error or not.
Sandbox(out) ==
    /\ node = "sandbox"
    /\ output' = out
    /\ Go(route_after_sandbox(out))
    /\ UNCHANGED <<tabular, results, pending, partial, retries, scoreVars, status, exhausted>>

\* One repair and one more run, then judgment, whatever came out.
CodeFixer(out) ==
    /\ node = "code_fixer"
    /\ IF retries >= MaxSandboxRetries
       THEN output' = "error" /\ UNCHANGED retries
       ELSE output' = out /\ retries' = retries + 1
    /\ Go("evaluation")
    /\ UNCHANGED <<tabular, results, pending, partial, scoreVars, status, exhausted>>

\* What a judge replies, with or without fences, which are stripped: JSON, or a text that has
\* the words pass and partial or not.  Its prompt holds what prosecutor and defender argued.
JudgeReply ==
    [verdict : Verdict \cup {"other"}, confidence : Confidence] \cup [words : SUBSET {"pass", "partial"}]

\* Any word but the three is a failure.
JsonVerdict(v) == IF v \in Verdict THEN v ELSE "FAIL"

TextVerdict(words) ==
    IF "pass" \in words THEN "PASS" ELSE IF "partial" \in words THEN "PARTIAL" ELSE "FAIL"

parse_judge_response(reply) ==
    IF "words" \in DOMAIN reply
    THEN [verdict |-> TextVerdict(reply.words), confidence |-> 5]
    ELSE [verdict |-> JsonVerdict(reply.verdict),
          confidence |-> IF reply.confidence > 10 THEN 10 ELSE reply.confidence]

\* The tribunal's result for a judge that is asked again if its confidence is low.
ConfidentVerdict(first, again) ==
    IF first.confidence >= ConfidenceThreshold \/ first.verdict = again.verdict THEN first.verdict
    ELSE IF again.confidence > first.confidence THEN again.verdict
    ELSE "CANNOT_ASSESS"

run_tribunal == {parse_judge_response(reply) : reply \in JudgeReply}

FullTribunal == {ConfidentVerdict(first, again) : first \in run_tribunal, again \in run_tribunal}

SimplifiedTribunal == {parse_judge_response(reply).verdict : reply \in JudgeReply}

\* One call, whose reply is read in the same way.
parse_judgment_response == {JsonVerdict(v) : v \in Verdict \cup {"other"}}
                           \cup {TextVerdict(words) : words \in SUBSET {"pass", "partial"}}

Judgments(c) ==
    IF Weight[c] >= ConsensusWeight THEN FullTribunal
    ELSE IF Weight[c] >= 10 THEN SimplifiedTribunal
    ELSE parse_judgment_response

\* The evaluation node's loop: a criterion gets its result, and the last one
\* leaves for scoring.
Judged(c, r) ==
    /\ node = "evaluation" /\ c \in pending
    /\ results' = [results EXCEPT ![c] = r]
    /\ pending' = pending \ {c}
    /\ Go(IF pending' = {} THEN "scoring" ELSE "evaluation")
    /\ UNCHANGED <<tabular, output, retries, scoreVars, status>>

Judge(c) ==
    /\ \E r \in Judgments(c) : Judged(c, r)
    /\ UNCHANGED <<partial, exhausted>>

LLMUnavailable(c) ==
    /\ Judged(c, "CANNOT_ASSESS")
    /\ UNCHANGED <<partial, exhausted>>

\* Mutant: the more general exception is caught first.
CreditExhausted_unavailable ==
    /\ \E c \in pending : Judged(c, "CANNOT_ASSESS")
    /\ exhausted' = TRUE
    /\ UNCHANGED partial

\* Mutant: every criterion of needs_judgment is marked, judged or not.
CreditExhausted_all ==
    /\ node = "evaluation" /\ pending # {}
    /\ results' = [c \in Criterion |-> IF c \in pending \/ results[c] = "PARTIAL"
                                       THEN "INSUFFICIENT_EVIDENCE" ELSE results[c]]
    /\ pending' = {}
    /\ partial' = TRUE /\ exhausted' = TRUE
    /\ Go("scoring")
    /\ UNCHANGED <<tabular, output, retries, scoreVars, status>>

\* The gateway refuses for want of budget: the criteria not yet judged count as
\* insufficient evidence, and the loop ends.
CreditExhausted ==
    /\ node = "evaluation" /\ pending # {}
    /\ results' = [c \in Criterion |-> IF c \in pending THEN "INSUFFICIENT_EVIDENCE" ELSE results[c]]
    /\ pending' = {}
    /\ partial' = TRUE /\ exhausted' = TRUE
    /\ Go("scoring")
    /\ UNCHANGED <<tabular, output, retries, scoreVars, status>>
-----------------------------------------------------------------------------
Score(c) ==
    CASE results[c] = "PASS" -> 2 * Weight[c]
      [] results[c] = "PARTIAL" -> Weight[c]
      [] OTHER -> 0

\* Mutant: what cannot be assessed counts in the score.
AddCriterion_all(c) ==
    /\ node = "scoring" /\ c \in left
    /\ left' = left \ {c}
    /\ total' = total + Weight[c]
    /\ assessable' = assessable + Weight[c]
    /\ points' = points + Score(c)
    /\ UNCHANGED <<node, tabular, results, pending, partial, output, retries, non_assessable, status, answer, exhausted>>

\* The loops of _calculate_score.
AddCriterion(c) ==
    /\ node = "scoring" /\ c \in left
    /\ left' = left \ {c}
    /\ total' = total + Weight[c]
    /\ IF results[c] \in NonAssessable
       THEN non_assessable' = non_assessable + Weight[c] /\ UNCHANGED <<assessable, points>>
       ELSE assessable' = assessable + Weight[c] /\ points' = points + Score(c) /\ UNCHANGED non_assessable
    /\ UNCHANGED <<node, tabular, results, pending, partial, output, retries, status, answer, exhausted>>

\* x >= y, where low says that the float of x came out below that of an equal y.
AtLeast(x, y, low) == x > y \/ (x = y /\ ~low)

PolicyFail == \E c \in Criterion : Category[c] = "policy" /\ results[c] = "FAIL"

Implementation == {c \in Criterion : Category[c] = "implementation"}

ImplementationFails == {c \in Implementation : results[c] = "FAIL"}

\* More than a quarter of the implementation criteria failed.
ImplementationFail == 4 * Cardinality(ImplementationFails) > Cardinality(Implementation)

\* final_score >= p / 100, after the cap that a failed policy puts on the score.
ScoreAtLeast(p, low) ==
    IF PolicyFail /\ 100 * points > 168 * assessable
    THEN 84 >= p
    ELSE AtLeast(100 * points, 2 * p * assessable, low)

Graded(low) ==
    IF ScoreAtLeast(85, low) THEN "compliant"
    ELSE IF ScoreAtLeast(60, low) THEN "partially_compliant"
    ELSE "non_compliant"

\* The end of _calculate_score: floor rules, then the thresholds.
Scoring(lowHalf, low) ==
    /\ node = "scoring" /\ left = {}
    /\ status' =
         IF (total > 0 /\ AtLeast(2 * non_assessable, total, lowHalf)) \/ assessable = 0
         THEN "insufficient_evidence"
         ELSE IF ImplementationFail THEN "non_compliant"
         ELSE IF partial THEN "partial_evaluation"
         ELSE Graded(low)
    /\ Go("formatter")
    /\ UNCHANGED <<tabular, results, pending, partial, output, retries, scoreVars, exhausted>>

\* The result is assembled, stored and announced, best effort.
Formatter ==
    /\ node = "formatter"
    /\ Answer(status)
    /\ UNCHANGED <<tabular, results, pending, partial, output, retries, scoreVars, status, exhausted>>

\* An exception leaves the graph and fails the job: storage that does not list,
\* a reply of the preprocessor or of a judge that does not parse, and in the
\* sandbox and the code fixer every error of the LLM client, want of budget too.
Raise(credit) ==
    /\ node \in {"discovery", "extractor", "sandbox", "code_fixer", "evaluation"}
    /\ credit => node \in {"sandbox", "code_fixer"}
    /\ node = "code_fixer" => retries < MaxSandboxRetries
    /\ exhausted' = (exhausted \/ credit)
    /\ Go("raised")
    /\ UNCHANGED <<tabular, results, pending, partial, output, retries, scoreVars, status>>

\* asyncio.wait_for gives up after max_eval_timeout_sec.
Timeout ==
    /\ node \notin {"end", "raised"}
    /\ Answer("insufficient_evidence")
    /\ UNCHANGED <<tabular, results, pending, partial, output, retries, scoreVars, status, exhausted>>
-----------------------------------------------------------------------------
\* The nodes of the graph.
Step ==
    \/ Router \/ LoadCriteria \/ Formatter \/ CreditExhausted
    \/ \E b \in BOOLEAN : Discovery(b) \/ Extractor(b) \/ Raise(b)
    \/ \E said \in [Criterion -> {"PASS", "FAIL", "NEEDS_JUDGMENT"}] : RulesEngine(said)
    \/ \E out \in {"empty", "error", "ok"} : Sandbox(out) \/ CodeFixer(out)
    \/ \E c \in Criterion : Judge(c) \/ LLMUnavailable(c) \/ AddCriterion(c)
    \/ \E lowHalf \in BOOLEAN, low \in BOOLEAN : Scoring(lowHalf, low)

Next == Step \/ Timeout

Spec == Init /\ [][Next]_vars

-----------------------------------------------------------------------------
\* scoring.py:7-10 and requirements/agent-eval.md R16: a control is reported
\* compliant only if no policy criterion failed, at most a quarter of the
\* implementation criteria did, every criterion was decided, and the budget
\* lasted to the end.
CompliantIsClean ==
    answer = "compliant" =>
        /\ ~PolicyFail /\ ~ImplementationFail
        /\ pending = {}
        /\ ~exhausted /\ ~partial

\* What a rule or a model decided of a criterion stays: neither a later judgment
\* nor the end of the budget (evaluation.py:141-153) overwrites it.
SettledStays ==
    [][\A c \in Criterion :
        node = "evaluation" /\ results[c] # "NEEDS_JUDGMENT" => results'[c] = results[c]]_vars

\* The sum of f over a set of criteria, as the number of units that they have together.
SumOver(f, S) == Cardinality(UNION {{c} \X (1 .. f[c]) : c \in S})

WeightOf(S) == SumOver(Weight, S)

PointsOf(S) == SumOver([c \in Criterion |-> Score(c)], S)

\* The status is within the thresholds, by the weights of the criteria.
FitsScore(s) ==
    LET unknown == WeightOf({c \in Criterion : results[c] \in NonAssessable})
        known == WeightOf(Criterion) - unknown
        scored == PointsOf(Criterion)
    IN  /\ s \in {"compliant", "partially_compliant", "non_compliant", "partial_evaluation"} => unknown <= known
        /\ s = "compliant" => 100 * scored >= 170 * known
        /\ s = "partially_compliant" =>
               100 * scored >= 120 * known /\ (100 * scored <= 170 * known \/ PolicyFail)
        /\ s = "non_compliant" =>
               100 * scored <= 120 * known \/ ImplementationFail

\* The reported status is within the thresholds of scoring.py:7-10 and 42-44,
\* whatever way a float was rounded: a sum of the scoring loop that misses or
\* doubles a criterion shows.
StatusMeansScore == node = "end" /\ answer = status => FitsScore(answer)
=============================================================================
