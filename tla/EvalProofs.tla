----------------------------- MODULE EvalProofs -----------------------------
(***************************************************************************)
(* Proofs about EvalPipeline, for every set of criteria, weights,          *)
(* categories and settings.  The argument: from scoring on, results and    *)
(* partial_evaluation no longer change, so that what the floor rules saw   *)
(* is what the report holds; and an evaluation that ran out of budget and  *)
(* still reaches scoring is marked partial.  A status means its score,     *)
(* from the sums over the criteria.                                        *)
(*                                                                         *)
(* Then the deterministic rules, for every list of artifacts: more         *)
(* evidence never fails a rule, and what its order may change is bounded.  *)
(***************************************************************************)
EXTENDS EvalPipeline, Rules, FiniteSetTheorems, FunctionTheorems, WellFoundedInduction, TLAPS

\* An exhausted budget shows in partial_evaluation unless the job has ended.
ExhaustionShows == exhausted => partial \/ node \in {"end", "raised"}

\* A status compliant that waits to be reported is justified.
GradeIsClean ==
    node = "formatter" /\ status = "compliant" =>
        ~PolicyFail /\ ~ImplementationFail /\ ~partial

\* The inductive invariant.
IInv == TypeOK /\ ExhaustionShows /\ GradeIsClean /\ CompliantIsClean

\* However a judge's reply is read, it is one of the three verdicts.
LEMMA ReplyIsVerdict ==
    ASSUME NEW reply \in JudgeReply
    PROVE  parse_judge_response(reply).verdict \in Verdict
BY DEF parse_judge_response, JsonVerdict, TextVerdict, Verdict

\* A criterion is judged with a verdict, or the two tribunals disagreed.
LEMMA JudgmentsType ==
    ASSUME NEW c \in Criterion, NEW r \in Judgments(c)
    PROVE  r \in Verdict \cup {"CANNOT_ASSESS"}
<1>1. ASSUME r \in FullTribunal PROVE r \in Verdict \cup {"CANNOT_ASSESS"}
  <2>1. PICK a \in JudgeReply, b \in JudgeReply :
            r = ConfidentVerdict(parse_judge_response(a), parse_judge_response(b))
    BY <1>1 DEF FullTribunal, run_tribunal
  <2> QED
    BY <2>1, ReplyIsVerdict DEF ConfidentVerdict
<1>2. ASSUME r \in SimplifiedTribunal PROVE r \in Verdict
  BY <1>2, ReplyIsVerdict DEF SimplifiedTribunal
<1>3. ASSUME r \in parse_judgment_response PROVE r \in Verdict
  BY <1>3 DEF parse_judgment_response, JsonVerdict, TextVerdict, Verdict
<1> QED
  BY <1>1, <1>2, <1>3 DEF Judgments

\* The scoring loop's points of a criterion are a number.
LEMMA ScoreType ==
    ASSUME TypeOK, NEW c \in Criterion
    PROVE  Score(c) \in Nat
BY EvalAssumption DEF TypeOK, Score

\* A score that a failed policy criterion caps at 0.84 does not reach the
\* threshold 0.85, however floats are rounded (scoring.py:161-164, 174).
LEMMA CapBelowThreshold ==
    ASSUME TypeOK, assessable # 0, PolicyFail, NEW low \in BOOLEAN
    PROVE  ~ScoreAtLeast(85, low)
<1>1. assessable \in Nat /\ points \in Nat
  BY DEF TypeOK
<1>2. CASE 100 * points > 168 * assessable
  BY <1>2, <1>1 DEF ScoreAtLeast
<1>3. CASE ~(100 * points > 168 * assessable)
  <2>1. 100 * points <= 168 * assessable /\ 168 * assessable < 2 * 85 * assessable
    BY <1>1, <1>3
  <2>2. ~AtLeast(100 * points, 2 * 85 * assessable, low)
    BY <1>1, <2>1 DEF AtLeast
  <2> QED
    BY <1>3, <2>2 DEF ScoreAtLeast
<1> QED
  BY <1>2, <1>3

LEMMA InitIInv == Init => IInv
<1> SUFFICES ASSUME Init PROVE IInv
  OBVIOUS
<1>1. \A c \in Criterion : results[c] # "NEEDS_JUDGMENT"
  BY DEF Init
<1>2. tabular \in BOOLEAN /\ partial \in BOOLEAN /\ exhausted \in BOOLEAN
  BY DEF Init
<1>3. results \in [Criterion -> CriterionResult]
  BY DEF Init, CriterionResult, NonAssessable
<1>4. pending = {c \in Criterion : results[c] = "NEEDS_JUDGMENT"}
  BY <1>1 DEF Init
<1>5. TypeOK
  BY <1>2, <1>3, <1>4, EvalAssumption DEF Init, TypeOK, Node, ComplianceStatus
<1> QED
  BY <1>5 DEF Init, IInv, ExhaustionShows, GradeIsClean, CompliantIsClean

\* TypeOK is inductive on its own.
LEMMA TypeStep == TypeOK /\ [Next]_vars => TypeOK'
<1> SUFFICES ASSUME TypeOK, [Next]_vars PROVE TypeOK'
  OBVIOUS
<1> USE DEF Node, CriterionResult, Verdict, NonAssessable, ComplianceStatus, scoreVars
<1>1. CASE Router
  BY <1>1 DEF TypeOK, Router, Go
<1>2. CASE LoadCriteria
  BY <1>2 DEF TypeOK, LoadCriteria, Go
<1>3. CASE Formatter
  BY <1>3 DEF TypeOK, Formatter, Answer
<1>4. CASE CreditExhausted
  BY <1>4 DEF TypeOK, CreditExhausted, Go
<1>5. ASSUME NEW b \in BOOLEAN, Discovery(b) PROVE TypeOK'
  BY <1>5 DEF TypeOK, Discovery, Go, Answer
<1>6. ASSUME NEW b \in BOOLEAN, Extractor(b) PROVE TypeOK'
  BY <1>6 DEF TypeOK, Extractor, Go
<1>7. ASSUME NEW b \in BOOLEAN, Raise(b) PROVE TypeOK'
  BY <1>7 DEF TypeOK, Raise, Go
<1>8. ASSUME NEW said \in [Criterion -> {"PASS", "FAIL", "NEEDS_JUDGMENT"}], RulesEngine(said)
      PROVE  TypeOK'
  BY <1>8 DEF TypeOK, RulesEngine, route_after_rules, Go
<1>9. ASSUME NEW out \in {"empty", "error", "ok"}, Sandbox(out) PROVE TypeOK'
  BY <1>9 DEF TypeOK, Sandbox, route_after_sandbox, Go
<1>10. ASSUME NEW out \in {"empty", "error", "ok"}, CodeFixer(out) PROVE TypeOK'
  BY <1>10, EvalAssumption DEF TypeOK, CodeFixer, Go
<1>11. ASSUME NEW c \in Criterion, NEW r \in Verdict \cup {"CANNOT_ASSESS"}, Judged(c, r),
              UNCHANGED <<partial, exhausted>>
       PROVE  TypeOK'
  <2>1. results' \in [Criterion -> CriterionResult] /\ pending' \subseteq Criterion
    BY <1>11 DEF TypeOK, Judged
  <2>2. pending' = {x \in Criterion : results'[x] = "NEEDS_JUDGMENT"}
    BY <1>11 DEF TypeOK, Judged
  <2> QED
    BY <1>11, <2>1, <2>2 DEF TypeOK, Judged, Go
<1>12. ASSUME NEW c \in Criterion, Judge(c) PROVE TypeOK'
  <2>1. PICK r \in Judgments(c) : Judged(c, r)
    BY <1>12 DEF Judge
  <2>2. r \in Verdict \cup {"CANNOT_ASSESS"}
    BY <2>1, JudgmentsType
  <2> QED
    BY <1>11, <1>12, <2>1, <2>2 DEF Judge
<1>13. ASSUME NEW c \in Criterion, LLMUnavailable(c) PROVE TypeOK'
  BY <1>11, <1>13 DEF LLMUnavailable
<1>14. ASSUME NEW c \in Criterion, AddCriterion(c) PROVE TypeOK'
  <2>1. Score(c) \in Nat /\ Weight[c] \in Nat
    BY ScoreType, EvalAssumption
  <2>2. total' \in Nat /\ non_assessable' \in Nat /\ assessable' \in Nat /\ points' \in Nat
    BY <1>14, <2>1 DEF TypeOK, AddCriterion
  <2> QED
    BY <1>14, <2>2 DEF TypeOK, AddCriterion
<1>15. ASSUME NEW lowHalf \in BOOLEAN, NEW low \in BOOLEAN, Scoring(lowHalf, low) PROVE TypeOK'
  <2>1. status' \in ComplianceStatus
    BY <1>15 DEF Scoring, Graded
  <2> QED
    BY <1>15, <2>1 DEF TypeOK, Scoring, Go
<1>16. CASE Timeout
  BY <1>16 DEF TypeOK, Timeout, Answer
<1>17. CASE UNCHANGED vars
  BY <1>17 DEF TypeOK, vars
<1> QED
  BY <1>1, <1>2, <1>3, <1>4, <1>5, <1>6, <1>7, <1>8, <1>9, <1>10, <1>12, <1>13, <1>14, <1>15, <1>16, <1>17
     DEF Next, Step

\* The variables of an evaluation keep their types; the criteria that wait for a
\* judgment are those marked so, none of them reaches scoring, and sandbox code
\* is repaired within the limit.
THEOREM EvalTypeCorrect == Spec => []TypeOK
<1>1. Init => TypeOK
  BY InitIInv DEF IInv
<1> QED
  BY <1>1, TypeStep, PTL DEF Spec

\* Scoring grants compliant only to a clean evaluation.
LEMMA ScoringIsClean ==
    ASSUME IInv, NEW lowHalf \in BOOLEAN, NEW low \in BOOLEAN, Scoring(lowHalf, low),
           status' = "compliant"
    PROVE  ~PolicyFail /\ ~ImplementationFail /\ ~partial
<1>1. assessable # 0 /\ ~ImplementationFail /\ ~partial /\ Graded(low) = "compliant"
  BY DEF Scoring
<1>2. ScoreAtLeast(85, low)
  BY <1>1 DEF Graded
<1> QED
  BY <1>1, <1>2, CapBelowThreshold DEF IInv

LEMMA IInvStep == IInv /\ [Next]_vars => IInv'
<1> SUFFICES ASSUME IInv, [Next]_vars PROVE IInv'
  OBVIOUS
<1>0. TypeOK'
  BY TypeStep DEF IInv
<1>1. ASSUME UNCHANGED <<results, partial>>
      PROVE  (PolicyFail' <=> PolicyFail) /\ (ImplementationFail' <=> ImplementationFail)
  BY <1>1 DEF PolicyFail, ImplementationFail, ImplementationFails, Implementation
<1> USE DEF IInv, ExhaustionShows, GradeIsClean, CompliantIsClean
<1>2. CASE Formatter
  <2>1. UNCHANGED <<results, partial, pending, exhausted>> /\ node' = "end" /\ answer' = status
    BY <1>2 DEF Formatter, Answer
  <2>2. pending = {} /\ (exhausted => partial)
    BY <1>2 DEF Formatter, TypeOK
  <2> QED
    BY <1>0, <1>1, <1>2, <2>1, <2>2 DEF Formatter
<1>3. ASSUME NEW lowHalf \in BOOLEAN, NEW low \in BOOLEAN, Scoring(lowHalf, low) PROVE IInv'
  <2>1. UNCHANGED <<results, partial, pending, exhausted, answer>> /\ node = "scoring" /\ node' = "formatter"
    BY <1>3 DEF Scoring, Go
  <2>2. status' = "compliant" => ~PolicyFail' /\ ~ImplementationFail' /\ ~partial'
    BY <1>1, <1>3, <2>1, ScoringIsClean
  <2>3. answer = "none"
    BY <2>1 DEF TypeOK
  <2> QED
    BY <1>0, <2>1, <2>2, <2>3
<1>4. CASE CreditExhausted
  <2>1. node' = "scoring" /\ partial' = TRUE /\ answer' = answer /\ node = "evaluation"
    BY <1>4 DEF CreditExhausted, Go
  <2> QED
    BY <1>0, <2>1 DEF TypeOK
<1>5. ASSUME node' # "formatter", answer' # "compliant", exhausted' => exhausted \/ node' = "raised",
             partial' = partial, node \notin {"end", "raised"}
      PROVE  IInv'
  BY <1>0, <1>5
<1>6. CASE Router \/ LoadCriteria \/ Timeout
  BY <1>5, <1>6 DEF Router, LoadCriteria, Timeout, Go, Answer, TypeOK
<1>7. ASSUME NEW b \in BOOLEAN, Discovery(b) \/ Extractor(b) \/ Raise(b) PROVE IInv'
  BY <1>5, <1>7 DEF Discovery, Extractor, Raise, Go, Answer, TypeOK
<1>8. ASSUME NEW said \in [Criterion -> {"PASS", "FAIL", "NEEDS_JUDGMENT"}], RulesEngine(said)
      PROVE  IInv'
  BY <1>5, <1>8 DEF RulesEngine, route_after_rules, Go, TypeOK
<1>9. ASSUME NEW out \in {"empty", "error", "ok"}, Sandbox(out) \/ CodeFixer(out) PROVE IInv'
  BY <1>5, <1>9 DEF Sandbox, CodeFixer, route_after_sandbox, Go, TypeOK
<1>10. ASSUME NEW c \in Criterion, Judge(c) \/ LLMUnavailable(c) PROVE IInv'
  <2>1. PICK r \in CriterionResult : Judged(c, r) /\ UNCHANGED <<partial, exhausted>>
    BY <1>10, JudgmentsType DEF Judge, LLMUnavailable, CriterionResult, Verdict, NonAssessable
  <2> QED
    BY <1>5, <2>1 DEF Judged, Go, TypeOK
<1>11. ASSUME NEW c \in Criterion, AddCriterion(c) PROVE IInv'
  BY <1>5, <1>11 DEF AddCriterion, TypeOK
<1>12. CASE UNCHANGED vars
  <2>1. UNCHANGED <<node, results, partial, pending, exhausted, status, answer>>
    BY <1>12 DEF vars
  <2> QED
    BY <1>0, <1>1, <2>1
<1> QED
  BY <1>2, <1>3, <1>4, <1>6, <1>7, <1>8, <1>9, <1>10, <1>11, <1>12 DEF Next, Step

\* A control is reported compliant only if no policy criterion failed, at most a
\* quarter of the implementation criteria did, every criterion was decided and
\* the budget lasted: for every list of criteria, weights and rounding.
THEOREM CompliantOnlyIfClean == Spec => []CompliantIsClean
<1>1. IInv => CompliantIsClean
  BY DEF IInv
<1> QED
  BY <1>1, InitIInv, IInvStep, PTL DEF Spec

\* Only the criteria that wait for one get a judgment or the mark of an
\* exhausted budget: what was decided before stays.
THEOREM DecidedStaysDecided == Spec => SettledStays
<1> DEFINE Stays == \A c \in Criterion :
        node = "evaluation" /\ results[c] # "NEEDS_JUDGMENT" => results'[c] = results[c]
<1>1. TypeOK /\ [Next]_vars => [Stays]_vars
  <2> SUFFICES ASSUME TypeOK, [Next]_vars, node = "evaluation",
                      NEW c \in Criterion, results[c] # "NEEDS_JUDGMENT"
               PROVE  results'[c] = results[c]
    OBVIOUS
  <2>1. c \notin pending
    BY DEF TypeOK
  <2>2. CASE CreditExhausted
    BY <2>1, <2>2 DEF CreditExhausted
  <2>3. ASSUME NEW d \in Criterion, Judge(d) \/ LLMUnavailable(d) PROVE results'[c] = results[c]
    <3>1. PICK r \in CriterionResult : Judged(d, r)
      BY <2>3, JudgmentsType DEF Judge, LLMUnavailable, CriterionResult, Verdict, NonAssessable
    <3> QED
      BY <2>1, <3>1 DEF Judged, TypeOK
  <2>4. ASSUME NEW b \in BOOLEAN, Discovery(b) \/ Extractor(b) \/ Raise(b) PROVE results' = results
    BY <2>4 DEF Discovery, Extractor, Raise
  <2>5. ASSUME NEW out \in {"empty", "error", "ok"}, Sandbox(out) \/ CodeFixer(out) PROVE results' = results
    BY <2>5 DEF Sandbox, CodeFixer
  <2>6. ASSUME NEW said \in [Criterion -> {"PASS", "FAIL", "NEEDS_JUDGMENT"}], RulesEngine(said)
        PROVE  results' = results
    BY <2>6 DEF RulesEngine
  <2>7. ASSUME NEW d \in Criterion, AddCriterion(d) PROVE results' = results
    BY <2>7 DEF AddCriterion
  <2>8. ASSUME NEW lowHalf \in BOOLEAN, NEW low \in BOOLEAN, Scoring(lowHalf, low) PROVE results' = results
    BY <2>8 DEF Scoring
  <2>9. CASE Router \/ LoadCriteria \/ Formatter \/ Timeout \/ UNCHANGED vars
    BY <2>9 DEF Router, LoadCriteria, Formatter, Timeout, vars
  <2> QED
    BY <2>2, <2>3, <2>4, <2>5, <2>6, <2>7, <2>8, <2>9 DEF Next, Step
<1>2. SettledStays <=> [][Stays]_vars
  BY DEF SettledStays
<1> QED
  BY <1>1, <1>2, EvalTypeCorrect, PTL DEF Spec
-----------------------------------------------------------------------------
(* Sums over sets of criteria *)

\* The units of a set of criteria are finitely many.
LEMMA UnitsFinite ==
    ASSUME NEW f \in [Criterion -> Nat], NEW S \in SUBSET Criterion
    PROVE  IsFiniteSet(UNION {{c} \X (1 .. f[c]) : c \in S})
<1> DEFINE Units(c) == {c} \X (1 .. f[c])
<1>1. IsFiniteSet(S)
    BY FS_Subset, EvalAssumption DEF EvalAssumption
<1>2. ASSUME NEW c \in S PROVE IsFiniteSet(Units(c))
    <2>1. f[c] \in Int /\ 1 \in Int
        OBVIOUS
    <2>2. IsFiniteSet(1 .. f[c])
        BY <2>1, FS_Interval
    <2>. QED  BY <2>2, FS_Singleton, FS_Product
<1>3. IsFiniteSet({Units(c) : c \in S})
    <2>. HIDE DEF Units
    <2> DEFINE g == [c \in S |-> Units(c)]
    <2>1. g \in Surjection(S, {Units(c) : c \in S})
        BY DEF Surjection
    <2>. QED  BY <1>1, <2>1, FS_Surjection
<1>4. \A T \in {Units(c) : c \in S} : IsFiniteSet(T)
    <2>. HIDE DEF Units
    <2>. QED  BY <1>2
<1>5. IsFiniteSet(UNION {Units(c) : c \in S})
    <2>. HIDE DEF Units
    <2>. QED  BY <1>3, <1>4, FS_UNION
<1>. QED  BY <1>5

\* A sum over criteria is a number, and nothing over no criteria.
LEMMA SumType ==
    ASSUME NEW f \in [Criterion -> Nat], NEW S \in SUBSET Criterion
    PROVE  SumOver(f, S) \in Nat
BY UnitsFinite, FS_CardinalityType DEF SumOver

LEMMA SumEmpty ==
    ASSUME NEW f
    PROVE  SumOver(f, {}) = 0
<1>1. UNION {{c} \X (1 .. f[c]) : c \in {}} = {}
    OBVIOUS
<1>. QED  BY <1>1, FS_EmptySet DEF SumOver

\* One more criterion adds its own value.
LEMMA SumAdd ==
    ASSUME NEW f \in [Criterion -> Nat], NEW S \in SUBSET Criterion, NEW x \in Criterion, x \notin S
    PROVE  SumOver(f, S \cup {x}) = SumOver(f, S) + f[x]
<1> DEFINE U == UNION {{c} \X (1 .. f[c]) : c \in S}
           V == {x} \X (1 .. f[x])
<1>1. UNION {{c} \X (1 .. f[c]) : c \in S \cup {x}} = U \cup V
    OBVIOUS
<1>2. U \cap V = {}
    OBVIOUS
<1>3. IsFiniteSet(U)
    BY UnitsFinite
<1>4. IsFiniteSet(V) /\ Cardinality(V) = f[x]
    <2>1. f[x] \in Nat
        OBVIOUS
    <2>2. IsFiniteSet(1 .. f[x]) /\ Cardinality(1 .. f[x]) = f[x]
        BY <2>1, FS_Interval
    <2>3. IsFiniteSet({x}) /\ Cardinality({x}) = 1
        BY FS_Singleton
    <2>4. IsFiniteSet({x} \X (1 .. f[x])) /\ Cardinality({x} \X (1 .. f[x])) = Cardinality({x}) * Cardinality(1 .. f[x])
        BY <2>2, <2>3, FS_Product
    <2>. QED  BY <2>1, <2>2, <2>3, <2>4
<1>5. Cardinality(U) \in Nat
    BY <1>3, FS_CardinalityType
<1>. HIDE DEF U, V
<1>6. Cardinality(U \cup V) = Cardinality(U) + Cardinality(V) - Cardinality(U \cap V)
    BY <1>3, <1>4, FS_Union
<1>7. Cardinality(U \cap V) = 0
    BY <1>2, FS_EmptySet
<1>8. Cardinality(U \cup V) = Cardinality(U) + f[x]
    BY <1>4, <1>5, <1>6, <1>7
<1>. QED  BY <1>1, <1>8 DEF SumOver, U

-----------------------------------------------------------------------------
(* The scoring loop *)

\* The nodes before scoring have added nothing, and the nodes that judge leave
\* every criterion to be added.
NothingAdded ==
    /\ node \notin {"scoring", "formatter", "end", "raised"} =>
           total = 0 /\ non_assessable = 0 /\ assessable = 0 /\ points = 0
    /\ node \in {"sandbox", "code_fixer", "evaluation"} => left = Criterion

\* The sums of the loop are those of the criteria it has added.
SumsExact ==
    node = "scoring" =>
        /\ total = WeightOf(Criterion \ left)
        /\ non_assessable = WeightOf({c \in Criterion \ left : results[c] \in NonAssessable})
        /\ total = non_assessable + assessable
        /\ points = PointsOf(Criterion \ left)

\* The status that waits for the formatter fits the score.
GradeFits == node = "formatter" => FitsScore(status)

ScoreInv == TypeOK /\ NothingAdded /\ SumsExact /\ GradeFits /\ StatusMeansScore

\* The points of all criteria, as a function.
LEMMA ScoresType ==
    ASSUME results \in [Criterion -> CriterionResult]
    PROVE  [c \in Criterion |-> Score(c)] \in [Criterion -> Nat]
<1>1. ASSUME NEW c \in Criterion PROVE Score(c) \in Nat
    <2>1. Weight[c] \in Nat
        BY EvalAssumption DEF EvalAssumption
    <2>. QED  BY <2>1 DEF Score
<1>. QED  BY <1>1

\* A step to scoring that has added nothing starts with exact sums.
LEMMA ScoringStarts ==
    ASSUME left' = Criterion, total' = 0, non_assessable' = 0, assessable' = 0, points' = 0
    PROVE  SumsExact'
<1>1. (Criterion \ left)' = {} /\ {c \in Criterion \ left : results[c] \in NonAssessable}' = {}
    OBVIOUS
<1>2. WeightOf({}) = 0 /\ PointsOf({})' = 0
    <2>1. SumOver(Weight, {}) = 0
        BY SumEmpty
    <2>2. SumOver([c \in Criterion |-> Score(c)]', {}) = 0
        BY SumEmpty
    <2>. QED  BY <2>1, <2>2 DEF WeightOf, PointsOf
<1>. QED  BY <1>1, <1>2 DEF SumsExact, WeightOf, PointsOf

\* The loop adds a criterion to the sums it belongs to.
LEMMA AddStep ==
    ASSUME TypeOK, SumsExact, NEW c \in Criterion, AddCriterion(c)
    PROVE  SumsExact'
<1> DEFINE done == Criterion \ left
           bad == {x \in done : results[x] \in NonAssessable}
           scores == [x \in Criterion |-> Score(x)]
<1>1. /\ results' = results /\ node = "scoring" /\ c \in left /\ left' = left \ {c}
      /\ left \subseteq Criterion
    BY DEF AddCriterion, TypeOK
<1>2. (Criterion \ left)' = done \cup {c} /\ c \notin done /\ done \in SUBSET Criterion
    BY <1>1
<1>3. Weight \in [Criterion -> Nat] /\ Weight[c] \in Nat
    BY EvalAssumption DEF EvalAssumption
<1>4. scores \in [Criterion -> Nat]
    BY ScoresType DEF TypeOK
<1>5. [x \in Criterion |-> Score(x)]' = scores
    BY <1>1 DEF Score
<1>6. WeightOf(Criterion \ left)' = WeightOf(done) + Weight[c]
    BY <1>2, <1>3, SumAdd DEF WeightOf
<1>7. PointsOf(Criterion \ left)' = PointsOf(done) + Score(c)
    <2>1. PointsOf(Criterion \ left)' = SumOver(scores, done \cup {c})
        BY <1>2, <1>5 DEF PointsOf
    <2>2. SumOver(scores, done \cup {c}) = SumOver(scores, done) + scores[c]
        <3>. HIDE DEF scores, done
        <3>. QED  BY <1>2, <1>4, SumAdd
    <2>. QED  BY <2>1, <2>2 DEF PointsOf
<1>8. CASE results[c] \in NonAssessable
    <2>1. {x \in Criterion \ left : results[x] \in NonAssessable}' = bad \cup {c}
        BY <1>1, <1>2, <1>8
    <2>2. WeightOf(bad \cup {c}) = WeightOf(bad) + Weight[c]
        <3>1. bad \in SUBSET Criterion /\ c \notin bad
            BY <1>2
        <3>. HIDE DEF bad
        <3>. QED  BY <1>3, <3>1, SumAdd DEF WeightOf
    <2>3. Score(c) = 0
        BY <1>8 DEF Score, NonAssessable
    <2>4. WeightOf(bad) = non_assessable /\ WeightOf(done) = total /\ PointsOf(done) = points
          /\ total = non_assessable + assessable
        BY <1>1 DEF SumsExact
    <2>5. WeightOf({x \in Criterion \ left : results[x] \in NonAssessable})' = WeightOf(bad) + Weight[c]
        BY <2>1, <2>2 DEF WeightOf
    <2>6. /\ total' = total + Weight[c] /\ non_assessable' = non_assessable + Weight[c]
          /\ assessable' = assessable /\ points' = points
        BY <1>8 DEF AddCriterion
    <2>7. total \in Nat /\ non_assessable \in Nat /\ assessable \in Nat /\ points \in Nat
        BY DEF TypeOK
    <2>. HIDE DEF done, bad, scores
    <2>. QED  BY <1>3, <1>6, <1>7, <2>3, <2>4, <2>5, <2>6, <2>7 DEF SumsExact
<1>9. CASE results[c] \notin NonAssessable
    <2>1. {x \in Criterion \ left : results[x] \in NonAssessable}' = bad
        BY <1>1, <1>2, <1>9
    <2>4. WeightOf(bad) = non_assessable /\ WeightOf(done) = total /\ PointsOf(done) = points
          /\ total = non_assessable + assessable
        BY <1>1 DEF SumsExact
    <2>5. WeightOf({x \in Criterion \ left : results[x] \in NonAssessable})' = WeightOf(bad)
        BY <2>1 DEF WeightOf
    <2>6. /\ total' = total + Weight[c] /\ non_assessable' = non_assessable
          /\ assessable' = assessable + Weight[c] /\ points' = points + Score(c)
        BY <1>9 DEF AddCriterion
    <2>7. total \in Nat /\ non_assessable \in Nat /\ assessable \in Nat /\ points \in Nat
        BY DEF TypeOK
    <2>. HIDE DEF done, bad, scores
    <2>. QED  BY <1>3, <1>6, <1>7, <2>4, <2>5, <2>6, <2>7 DEF SumsExact
<1>. QED  BY <1>8, <1>9

\* The thresholds are applied to exact sums.
LEMMA GradeStep ==
    ASSUME TypeOK, SumsExact, NEW lowHalf \in BOOLEAN, NEW low \in BOOLEAN, Scoring(lowHalf, low)
    PROVE  FitsScore(status)'
<1>1. Criterion \ left = Criterion
    BY DEF Scoring
<1>2. {c \in Criterion \ left : results[c] \in NonAssessable} = {c \in Criterion : results[c] \in NonAssessable}
    BY <1>1
<1>3. /\ total = WeightOf(Criterion)
      /\ non_assessable = WeightOf({c \in Criterion : results[c] \in NonAssessable})
      /\ total = non_assessable + assessable
      /\ points = PointsOf(Criterion)
    BY <1>1, <1>2 DEF SumsExact, Scoring
<1>4. total \in Nat /\ non_assessable \in Nat /\ assessable \in Nat /\ points \in Nat
    BY DEF TypeOK
<1>5. ASSUME NEW s, s = status' PROVE FitsScore(s)
    <2>1. s \in {"compliant", "partially_compliant", "non_compliant", "partial_evaluation"} => non_assessable <= assessable
        BY <1>3, <1>4, <1>5 DEF Scoring, AtLeast
    <2>2. s = "compliant" => 100 * points >= 170 * assessable
        BY <1>4, <1>5 DEF Scoring, AtLeast, Graded, ScoreAtLeast
    <2>3. s = "partially_compliant" =>
              100 * points >= 120 * assessable /\ (100 * points <= 170 * assessable \/ PolicyFail)
        BY <1>4, <1>5 DEF Scoring, AtLeast, Graded, ScoreAtLeast
    <2>4. s = "non_compliant" => 100 * points <= 120 * assessable \/ ImplementationFail
        BY <1>4, <1>5 DEF Scoring, AtLeast, Graded, ScoreAtLeast
    <2>5. WeightOf(Criterion) - WeightOf({c \in Criterion : results[c] \in NonAssessable}) = assessable
        BY <1>3, <1>4
    <2>. QED  BY <1>3, <2>1, <2>2, <2>3, <2>4, <2>5 DEF FitsScore
<1>6. UNCHANGED results
    BY DEF Scoring
<1>7. FitsScore(status)' <=> FitsScore(status')
    BY <1>6 DEF FitsScore, WeightOf, PointsOf, Score, PolicyFail, ImplementationFail, ImplementationFails, Implementation
<1>. QED  BY <1>5, <1>7

\* Every node keeps the sums exact and the status fitting.
LEMMA ScoreStep == ScoreInv /\ [Next]_vars => ScoreInv'
<1> SUFFICES ASSUME ScoreInv, [Next]_vars PROVE ScoreInv'
    OBVIOUS
<1>1. TypeOK'
    BY TypeStep DEF ScoreInv
<1>2. CASE UNCHANGED vars
    <2>1. SumsExact'
        BY <1>2 DEF ScoreInv, SumsExact, vars, scoreVars, WeightOf, PointsOf, Score
    <2>2. FitsScore(status)' <=> FitsScore(status)
        BY <1>2 DEF vars, scoreVars, FitsScore, WeightOf, PointsOf, Score, PolicyFail, ImplementationFail,
                    ImplementationFails, Implementation
    <2>. QED  BY <1>1, <1>2, <2>1, <2>2 DEF ScoreInv, NothingAdded, GradeFits, StatusMeansScore, vars, scoreVars
<1>3. CASE Router \/ LoadCriteria \/ \E b \in BOOLEAN : Discovery(b) \/ Extractor(b)
    <2>1. /\ node' \notin {"scoring", "formatter", "raised", "sandbox", "code_fixer", "evaluation"}
          /\ node' = "end" => answer' = "insufficient_evidence"
          /\ node \notin {"scoring", "formatter", "end", "raised"}
          /\ UNCHANGED scoreVars
        BY <1>3 DEF Router, LoadCriteria, Discovery, Extractor, Go, Answer
    <2>2. NothingAdded'
        BY <2>1 DEF ScoreInv, NothingAdded, scoreVars
    <2>3. SumsExact' /\ GradeFits' /\ StatusMeansScore'
        BY <2>1 DEF SumsExact, GradeFits, StatusMeansScore, FitsScore
    <2>. QED  BY <1>1, <2>2, <2>3 DEF ScoreInv
<1>4. CASE \E said \in [Criterion -> {"PASS", "FAIL", "NEEDS_JUDGMENT"}] : RulesEngine(said)
    <2>1. /\ node' \in {"scoring", "sandbox", "evaluation"} /\ left' = Criterion
          /\ total' = 0 /\ non_assessable' = 0 /\ assessable' = 0 /\ points' = 0
        BY <1>4 DEF RulesEngine, Go, route_after_rules, ScoreInv, NothingAdded
    <2>2. SumsExact'
        BY <2>1, ScoringStarts
    <2>. QED  BY <1>1, <2>1, <2>2 DEF ScoreInv, NothingAdded, GradeFits, StatusMeansScore
<1>5. CASE \/ \E out \in {"empty", "error", "ok"} : Sandbox(out) \/ CodeFixer(out)
           \/ \E c \in Criterion : Judge(c) \/ LLMUnavailable(c)
           \/ CreditExhausted
    <2>1. /\ node \in {"sandbox", "code_fixer", "evaluation"}
          /\ node' \in {"scoring", "code_fixer", "evaluation"} /\ UNCHANGED scoreVars
        BY <1>5 DEF Sandbox, CodeFixer, Judge, LLMUnavailable, CreditExhausted, Judged, Go, route_after_sandbox
    <2>2. left' = Criterion /\ total' = 0 /\ non_assessable' = 0 /\ assessable' = 0 /\ points' = 0
        BY <2>1 DEF ScoreInv, NothingAdded, scoreVars
    <2>3. SumsExact'
        BY <2>2, ScoringStarts
    <2>. QED  BY <1>1, <2>1, <2>2, <2>3 DEF ScoreInv, NothingAdded, GradeFits, StatusMeansScore
<1>6. CASE \E c \in Criterion : AddCriterion(c)
    <2>1. SumsExact'
        BY <1>6, AddStep DEF ScoreInv
    <2>2. node = "scoring" /\ node' = node
        BY <1>6 DEF AddCriterion
    <2>. QED  BY <1>1, <2>1, <2>2 DEF ScoreInv, NothingAdded, GradeFits, StatusMeansScore
<1>7. CASE \E lowHalf \in BOOLEAN, low \in BOOLEAN : Scoring(lowHalf, low)
    <2>1. FitsScore(status)'
        BY <1>7, GradeStep DEF ScoreInv
    <2>2. node' = "formatter"
        BY <1>7 DEF Scoring, Go
    <2>. QED  BY <1>1, <2>1, <2>2 DEF ScoreInv, NothingAdded, SumsExact, GradeFits, StatusMeansScore
<1>8. CASE Formatter
    <2>1. node' = "end" /\ answer' = status /\ FitsScore(status) /\ UNCHANGED <<results, status>>
        BY <1>8 DEF Formatter, Answer, ScoreInv, GradeFits
    <2>2. FitsScore(status)' <=> FitsScore(status)
        BY <2>1 DEF FitsScore, WeightOf, PointsOf, Score, PolicyFail, ImplementationFail, ImplementationFails,
                    Implementation
    <2>3. StatusMeansScore'
        BY <2>1, <2>2 DEF StatusMeansScore
    <2>. QED  BY <1>1, <2>1, <2>3 DEF ScoreInv, NothingAdded, SumsExact, GradeFits
<1>9. CASE Timeout \/ \E b \in BOOLEAN : Raise(b)
    <2>1. node' \in {"end", "raised"} /\ (node' = "end" => answer' = "insufficient_evidence")
        BY <1>9 DEF Timeout, Raise, Go, Answer
    <2>2. NothingAdded' /\ SumsExact' /\ GradeFits' /\ StatusMeansScore'
        BY <2>1 DEF NothingAdded, SumsExact, GradeFits, StatusMeansScore, FitsScore
    <2>. QED  BY <1>1, <2>2 DEF ScoreInv
<1>. QED  BY <1>2, <1>3, <1>4, <1>5, <1>6, <1>7, <1>8, <1>9 DEF Next, Step

\* The status that a finished evaluation reports (scoring.py, _calculate_score) is within
\* its thresholds by the weights of all the criteria, for every set of criteria, every
\* weight and every way in which equal floats compare.
THEOREM StatusMeansScoreTheorem == Spec => []StatusMeansScore
<1>1. Init => ScoreInv
    <2> SUFFICES ASSUME Init PROVE ScoreInv
        OBVIOUS
    <2>1. TypeOK
        BY InitIInv DEF IInv
    <2>. QED  BY <2>1 DEF Init, ScoreInv, NothingAdded, SumsExact, GradeFits, StatusMeansScore
<1>2. ScoreInv => StatusMeansScore
    BY DEF ScoreInv
<1>. QED  BY <1>1, <1>2, ScoreStep, PTL DEF Spec

-----------------------------------------------------------------------------
(* The rules on lists of evidence *)

\* A set of natural numbers that is not empty has a least element.
LEMMA LeastNatural ==
    ASSUME NEW T \in SUBSET Nat, T # {}
    PROVE  \E i \in T : \A j \in T : i <= j
<1>1. IsWellFoundedOn(OpToRel(<, Nat), Nat)
    BY NatLessThanWellFounded
<1>2. PICK i \in T : \A j \in T : ~(<<j, i>> \in OpToRel(<, Nat))
    BY <1>1, WFMin
<1>3. ASSUME NEW j \in T PROVE i <= j
    <2>1. i \in Nat /\ j \in Nat
        OBVIOUS
    <2>2. ~(j < i)
        BY <1>2, <2>1 DEF OpToRel
    <2>. QED  BY <2>1, <2>2
<1>. QED  BY <1>3

\* The first place of a set of places is one of them, and none is before it.
LEMMA FirstIsLeast ==
    ASSUME NEW I \in SUBSET Nat, I # {}
    PROVE  First(I) \in I /\ \A j \in I : First(I) <= j
BY LeastNatural DEF First

\* Places beyond the first do not change it.
LEMMA FirstKept ==
    ASSUME NEW I \in SUBSET Nat, NEW n \in Nat, I \subseteq 1 .. n, I # {},
           NEW J \in SUBSET Nat, I \subseteq J, J \subseteq I \cup {n + 1}
    PROVE  First(J) = First(I)
<1>1. First(I) \in I /\ \A j \in I : First(I) <= j
    BY FirstIsLeast
<1>2. First(J) \in J /\ \A j \in J : First(J) <= j
    BY FirstIsLeast
<1>3. First(I) \in 1 .. n /\ First(J) \in Nat /\ First(I) \in J
    BY <1>1, <1>2, Zenon
<1>5. First(J) <= First(I)
    BY <1>2, <1>3, Zenon
<1>4. First(J) \in I
    <2>1. First(J) \in I \/ First(J) = n + 1
        BY <1>2
    <2>. QED  BY <1>3, <1>5, <2>1
<1>6. First(I) <= First(J)
    BY <1>1, <1>4, Zenon
<1>. QED  BY <1>3, <1>5, <1>6

\* The rows of a list of evidence are finitely many.
LEMMA RowsFinite ==
    ASSUME NEW fs \in Seq(File)
    PROVE  IsFiniteSet(Rows(fs)) /\ total_rows(fs) \in Nat
<1> DEFINE S == {k \in 1 .. Len(fs) : fs[k].type \in Table}
           Of(i) == {i} \X (1 .. fs[i].rows)
           g == [i \in S |-> Of(i)]
<1>1. IsFiniteSet(S)
    <2>1. Len(fs) \in Int /\ 1 \in Int
        OBVIOUS
    <2>2. IsFiniteSet(1 .. Len(fs))
        BY <2>1, FS_Interval
    <2>. QED  BY <2>2, FS_Subset
<1>2. ASSUME NEW i \in S PROVE IsFiniteSet(Of(i))
    <2>1. fs[i].rows \in Int /\ 1 \in Int
        BY RulesAssumption DEF RulesAssumption
    <2>2. IsFiniteSet(1 .. fs[i].rows)
        BY <2>1, FS_Interval
    <2>. QED  BY <2>2, FS_Singleton, FS_Product
<1>3. IsFiniteSet({Of(i) : i \in S})
    <2>. HIDE DEF Of, S
    <2>1. g \in Surjection(S, {Of(i) : i \in S})
        BY DEF Surjection
    <2>. QED  BY <1>1, <2>1, FS_Surjection
<1>4. IsFiniteSet(UNION {Of(i) : i \in S})
    <2>. HIDE DEF Of, S
    <2>1. \A T \in {Of(i) : i \in S} : IsFiniteSet(T)
        BY <1>2
    <2>. QED  BY <1>3, <2>1, FS_UNION
<1>5. IsFiniteSet(Rows(fs))
    BY <1>4 DEF Rows
<1>. QED  BY <1>5, FS_CardinalityType DEF total_rows

\* One more file takes no row away.
LEMMA RowsGrow ==
    ASSUME NEW fs \in Seq(File), NEW f \in File
    PROVE  total_rows(fs) <= total_rows(Append(fs, f))
<1>1. Append(fs, f) \in Seq(File) /\ Len(Append(fs, f)) = Len(fs) + 1
      /\ \A i \in 1 .. Len(fs) : i \in 1 .. Len(fs) + 1 /\ Append(fs, f)[i] = fs[i]
    OBVIOUS
<1>2. Rows(fs) \subseteq Rows(Append(fs, f))
    BY <1>1 DEF Rows
<1>3. IsFiniteSet(Rows(Append(fs, f)))
    BY <1>1, RowsFinite
<1>. QED  BY <1>2, <1>3, FS_Subset DEF total_rows

\* The places of the files of D in a list, and the files whose place a rule looks at.
Places(fs, D) == {i \in 1 .. Len(fs) : fs[i] \in D}

NullRateFiles == {f \in File : NullRateDecides(f)}
MetricFiles == {f \in File : f.metric # {} \/ f.broken}
JoinFiles == {f \in File : Joins(f) /\ (f.violations # {} \/ f.broken)}

LEMMA PlacesOf ==
    ASSUME NEW fs \in Seq(File)
    PROVE  /\ {i \in 1 .. Len(fs) : NullRateDecides(fs[i])} = Places(fs, NullRateFiles)
           /\ {i \in 1 .. Len(fs) : fs[i].metric # {} \/ fs[i].broken} = Places(fs, MetricFiles)
           /\ {i \in {k \in 1 .. Len(fs) : Joins(fs[k])} : fs[i].violations # {} \/ fs[i].broken} = Places(fs, JoinFiles)
BY DEF Places, NullRateFiles, MetricFiles, JoinFiles

\* A further file leaves the first place of a file of D as it was.
LEMMA AppendKeeps ==
    ASSUME NEW fs \in Seq(File), NEW f \in File, NEW D, Places(fs, D) # {}
    PROVE  /\ Places(Append(fs, f), D) # {}
           /\ Append(fs, f)[First(Places(Append(fs, f), D))] = fs[First(Places(fs, D))]
<1>1. Append(fs, f) \in Seq(File) /\ Len(Append(fs, f)) = Len(fs) + 1 /\ Len(fs) \in Nat
      /\ \A i \in 1 .. Len(fs) : Append(fs, f)[i] = fs[i]
    OBVIOUS
<1>2. /\ Places(fs, D) \subseteq Places(Append(fs, f), D)
      /\ Places(Append(fs, f), D) \subseteq Places(fs, D) \cup {Len(fs) + 1}
      /\ Places(fs, D) \subseteq 1 .. Len(fs)
      /\ Places(fs, D) \in SUBSET Nat /\ Places(Append(fs, f), D) \in SUBSET Nat
    BY <1>1 DEF Places
<1>3. First(Places(Append(fs, f), D)) = First(Places(fs, D))
    BY <1>1, <1>2, FirstKept, Zenon
<1>4. First(Places(fs, D)) \in 1 .. Len(fs)
    BY <1>2, FirstIsLeast, Zenon
<1>5. Places(Append(fs, f), D) # {}
    BY <1>2
<1>. QED  BY <1>1, <1>3, <1>4, <1>5

\* A word of a text is in a file, at a place of its own.
LEMMA WordPlace ==
    ASSUME NEW fs
    PROVE  /\ \A x \in all_text(fs) : /\ x = <<x[1], x[2]>> /\ x[1] \in 1 .. Len(fs)
                                      /\ x[2] \in 1 .. Len(fs[x[1]].words)
           /\ \A i \in 1 .. Len(fs) : \A n \in 1 .. Len(fs[i].words) : <<i, n>> \in all_text(fs)
<1>1. \A x : x \in all_text(fs) <=> \E i \in 1 .. Len(fs) : x \in {i} \X (1 .. Len(fs[i].words))
    BY DEF all_text
<1>2. ASSUME NEW x \in all_text(fs)
      PROVE  x = <<x[1], x[2]>> /\ x[1] \in 1 .. Len(fs) /\ x[2] \in 1 .. Len(fs[x[1]].words)
    <2>1. PICK i \in 1 .. Len(fs) : x \in {i} \X (1 .. Len(fs[i].words))
        BY <1>1
    <2>. QED  BY <2>1
<1>3. ASSUME NEW i \in 1 .. Len(fs), NEW n \in 1 .. Len(fs[i].words) PROVE <<i, n>> \in all_text(fs)
    BY <1>1
<1>. QED  BY <1>2, <1>3

\* A keyword that is in the texts is there when a further file comes after them.
LEMMA OccursGrows ==
    ASSUME NEW fs \in Seq(File), NEW f \in File, NEW k, Occurs(k, fs)
    PROVE  Occurs(k, Append(fs, f))
<1> DEFINE gs == Append(fs, f)
<1>1. Len(fs) \in Nat /\ Len(gs) = Len(fs) + 1 /\ \A i \in 1 .. Len(fs) : i \in 1 .. Len(gs) /\ gs[i] = fs[i]
    OBVIOUS
<1>2. PICK at \in [1 .. Len(k) -> all_text(fs)] :
          /\ \A n \in 1 .. Len(k) : fs[at[n][1]].words[at[n][2]] = k[n]
          /\ \A n \in 1 .. Len(k) - 1 : Follows(fs, at[n], at[n + 1])
    BY DEF Occurs
<1>. HIDE DEF gs
<1>3. \A x \in all_text(fs) : x \in all_text(gs) /\ x[1] \in 1 .. Len(fs)
    <2> TAKE x \in all_text(fs)
    <2>1. x = <<x[1], x[2]>> /\ x[1] \in 1 .. Len(fs) /\ x[2] \in 1 .. Len(fs[x[1]].words)
        BY WordPlace
    <2>2. x[1] \in 1 .. Len(gs) /\ x[2] \in 1 .. Len(gs[x[1]].words)
        BY <1>1, <2>1
    <2>3. <<x[1], x[2]>> \in all_text(gs)
        BY <2>2, WordPlace
    <2>. QED  BY <2>1, <2>3
<1>4. at \in [1 .. Len(k) -> all_text(gs)]
    BY <1>2, <1>3
<1>5. ASSUME NEW n \in 1 .. Len(k) PROVE gs[at[n][1]].words[at[n][2]] = k[n]
    BY <1>1, <1>2, <1>3
<1>6. ASSUME NEW n \in 1 .. Len(k) - 1, n \in 1 .. Len(k), n + 1 \in 1 .. Len(k) PROVE Follows(gs, at[n], at[n + 1])
    <2>1. at[n][1] \in 1 .. Len(fs) /\ at[n + 1][1] \in 1 .. Len(fs) /\ Follows(fs, at[n], at[n + 1])
        BY <1>2, <1>3, <1>6
    <2>2. gs[at[n][1]] = fs[at[n][1]]
        BY <1>1, <2>1
    <2>3. \A i \in at[n][1] + 1 .. at[n + 1][1] - 1 : gs[i] = fs[i]
        BY <1>1, <2>1
    <2>. QED  BY <2>1, <2>2, <2>3 DEF Follows
<1>7. \A n \in 1 .. Len(k) - 1 : n \in 1 .. Len(k) /\ n + 1 \in 1 .. Len(k)
    OBVIOUS
<1>8. Occurs(k, gs)
    BY <1>4, <1>5, <1>6, <1>7 DEF Occurs
<1>. QED  BY <1>8 DEF gs

\* The rules that look for something in any of the files.
LEMMA SearchGrows ==
    ASSUME NEW fs \in Seq(File), NEW f \in File, NEW c
    PROVE  /\ check_file_existence(c, fs) = "PASS" => check_file_existence(c, Append(fs, f)) = "PASS"
           /\ check_freshness(c, fs) = "PASS" => check_freshness(c, Append(fs, f)) = "PASS"
           /\ check_schema_presence(c, fs) = "PASS" => check_schema_presence(c, Append(fs, f)) = "PASS"
           /\ check_keyword_presence(c, fs) = "PASS" => check_keyword_presence(c, Append(fs, f)) = "PASS"
<1> DEFINE gs == Append(fs, f)
<1>1. gs \in Seq(File) /\ Len(gs) = Len(fs) + 1 /\ gs # <<>>
      /\ \A i \in 1 .. Len(fs) : i \in 1 .. Len(gs) /\ gs[i] = fs[i]
    OBVIOUS
<1>2. check_file_existence(c, fs) = "PASS" => check_file_existence(c, gs) = "PASS"
    <2>. HIDE DEF gs
    <2>. QED  BY <1>1 DEF check_file_existence, Suitable
<1>3. check_freshness(c, fs) = "PASS" => check_freshness(c, gs) = "PASS"
    <2> SUFFICES ASSUME check_freshness(c, fs) = "PASS" PROVE check_freshness(c, gs) = "PASS"
        OBVIOUS
    <2>1. max_age_days(c) # {} /\ fs # <<>>
          /\ {i \in 1 .. Len(fs) : \A n \in max_age_days(c) : 0 < n} = 1 .. Len(fs)
        BY DEF check_freshness, AgeInDays
    <2>2. 1 \in 1 .. Len(fs)
        BY <2>1
    <2>3. \A n \in max_age_days(c) : 0 < n
        BY <2>1, <2>2
    <2>. HIDE DEF gs
    <2>. QED  BY <1>1, <2>1, <2>3 DEF check_freshness, AgeInDays
<1>4. all_columns(fs) \subseteq all_columns(gs)
    <2>. HIDE DEF gs
    <2>. QED  BY <1>1 DEF all_columns, TableColumns
<1>5. check_schema_presence(c, fs) = "PASS" => check_schema_presence(c, gs) = "PASS"
    BY <1>4 DEF check_schema_presence
<1>6. all_text(fs) \subseteq all_text(gs)
    <2>. HIDE DEF gs
    <2>. QED  BY <1>1 DEF all_text
<1>7. check_keyword_presence(c, fs) = "PASS" => check_keyword_presence(c, gs) = "PASS"
    <2>1. \A k \in required_keywords(c) : Occurs(k, fs) => Occurs(k, gs)
        BY OccursGrows, Zenon
    <2>. HIDE DEF gs
    <2>. QED  BY <1>6, <2>1 DEF check_keyword_presence
<1>. QED  BY <1>2, <1>3, <1>5, <1>7

\* What a criterion asks for in numbers is a number.
LEMMA MinRowsType ==
    ASSUME NEW c \in Asked
    PROVE  min_rows(c) \in Nat
BY RulesAssumption DEF RulesAssumption, min_rows, Number

\* The rule that counts.
LEMMA CountGrows ==
    ASSUME NEW fs \in Seq(File), NEW f \in File, NEW c \in Asked, check_row_count(c, fs) = "PASS"
    PROVE  check_row_count(c, Append(fs, f)) = "PASS"
<1>1. Append(fs, f) \in Seq(File)
    OBVIOUS
<1>2. total_rows(fs) \in Nat /\ total_rows(Append(fs, f)) \in Nat
    BY <1>1, RowsFinite
<1>3. total_rows(fs) <= total_rows(Append(fs, f))
    BY RowsGrow
<1>. QED  BY <1>2, <1>3, MinRowsType DEF check_row_count

\* The rules that take the first file that decides.
LEMMA NullRateKept ==
    ASSUME NEW fs \in Seq(File), NEW f \in File, NEW c, check_null_rate(c, fs) = "PASS"
    PROVE  check_null_rate(c, Append(fs, f)) = "PASS"
<1>1. Append(fs, f) \in Seq(File)
    OBVIOUS
<1>2. Places(fs, NullRateFiles) # {}
    BY PlacesOf DEF check_null_rate
<1>3. /\ Places(Append(fs, f), NullRateFiles) # {}
      /\ Append(fs, f)[First(Places(Append(fs, f), NullRateFiles))] = fs[First(Places(fs, NullRateFiles))]
    BY <1>2, AppendKeeps
<1>. QED  BY <1>1, <1>2, <1>3, PlacesOf DEF check_null_rate

LEMMA QuantitativeKept ==
    ASSUME NEW fs \in Seq(File), NEW f \in File, NEW c, check_quantitative(c, fs) = "PASS"
    PROVE  check_quantitative(c, Append(fs, f)) = "PASS"
<1>1. Append(fs, f) \in Seq(File)
    OBVIOUS
<1>2. Places(fs, MetricFiles) # {}
    BY PlacesOf DEF check_quantitative
<1>3. /\ Places(Append(fs, f), MetricFiles) # {}
      /\ Append(fs, f)[First(Places(Append(fs, f), MetricFiles))] = fs[First(Places(fs, MetricFiles))]
    BY <1>2, AppendKeeps
<1>. QED  BY <1>1, <1>2, <1>3, PlacesOf DEF check_quantitative

LEMMA CrossReferenceKept ==
    ASSUME NEW fs \in Seq(File), NEW f \in File, NEW c, check_cross_reference(c, fs) = "PASS"
    PROVE  check_cross_reference(c, Append(fs, f)) = "PASS"
<1> DEFINE tables(gs) == {i \in 1 .. Len(gs) : Joins(gs[i])}
<1>1. Append(fs, f) \in Seq(File) /\ \A i \in 1 .. Len(fs) : i \in 1 .. Len(Append(fs, f)) /\ Append(fs, f)[i] = fs[i]
    OBVIOUS
<1>2. /\ tables(fs) # {} /\ Joinable(c, fs, tables(fs))
      /\ Places(fs, JoinFiles) # {} /\ fs[First(Places(fs, JoinFiles))].violations = {0}
    BY PlacesOf DEF check_cross_reference
<1>3. /\ Places(Append(fs, f), JoinFiles) # {}
      /\ Append(fs, f)[First(Places(Append(fs, f), JoinFiles))] = fs[First(Places(fs, JoinFiles))]
    BY <1>2, AppendKeeps
<1>4. tables(fs) \subseteq tables(Append(fs, f)) /\ \A i \in tables(fs) : Append(fs, f)[i] = fs[i]
    BY <1>1
<1>5. Joinable(c, Append(fs, f), tables(Append(fs, f)))
    <2>. HIDE DEF tables
    <2>. QED  BY <1>2, <1>4 DEF Joinable
<1>6. tables(Append(fs, f)) # {}
    BY <1>2, <1>4
<1>. QED  BY <1>1, <1>2, <1>3, <1>5, <1>6, PlacesOf DEF check_cross_reference

\* A criterion that a rule of agent-eval/src/rules has passed is not failed by a file that
\* is listed after the ones there were: for every set of files and criteria.
THEOREM MoreEvidenceTheorem == RulesSpec => MoreEvidenceNeverFails
<1>1. files \in Seq(File) /\ [RulesNext]_files => (files \in Seq(File))'
    BY DEF RulesNext, Find
<1>2. RulesInit => files \in Seq(File)
    BY DEF RulesInit
<1>3. files \in Seq(File) /\ [RulesNext]_files =>
          [\A c \in Asked : dispatch_rule(c, files) = "PASS" => dispatch_rule(c, files') # "FAIL"]_files
    <2> SUFFICES ASSUME files \in Seq(File), NEW f \in File, files' = Append(files, f),
                        NEW c \in Asked, dispatch_rule(c, files) = "PASS"
                 PROVE  dispatch_rule(c, files') # "FAIL"
        BY DEF RulesNext, Find
    <2>1. Handler(c, files) = "PASS" /\ (~c.raises \/ FailsFirst(c, files))
        BY DEF dispatch_rule
    <2>2. ~FailsFirst(c, files)
        <3>1. check_file_existence(c, files) = "PASS" => \E i \in 1 .. Len(files) : Suitable(c, files[i])
            BY DEF check_file_existence
        <3>2. check_row_count(c, files) = "PASS" => total_rows(files) # 0
            BY DEF check_row_count
        <3>3. check_cross_reference(c, files) = "PASS" => \E i \in 1 .. Len(files) : Joins(files[i])
            BY DEF check_cross_reference
        <3>. QED  BY <2>1, <3>1, <3>2, <3>3 DEF Handler, FailsFirst
    <2>3. Handler(c, Append(files, f)) = "PASS"
        BY <2>1, SearchGrows, CountGrows, NullRateKept, QuantitativeKept, CrossReferenceKept DEF Handler
    <2>. QED  BY <2>1, <2>2, <2>3 DEF dispatch_rule
<1>. QED  BY <1>1, <1>2, <1>3, PTL DEF RulesSpec, MoreEvidenceNeverFails

-----------------------------------------------------------------------------
(* The order of the evidence *)

\* gs is fs in another order: place i of gs is place p[i] of fs, and each place is taken once.
Shuffle(fs, gs, p) ==
    /\ fs \in Seq(File) /\ gs \in Seq(File) /\ Len(gs) = Len(fs)
    /\ p \in [1 .. Len(fs) -> 1 .. Len(fs)]
    /\ \A i, j \in 1 .. Len(fs) : p[i] = p[j] => i = j
    /\ \A j \in 1 .. Len(fs) : \E i \in 1 .. Len(fs) : p[i] = j
    /\ \A i \in 1 .. Len(fs) : gs[i] = fs[p[i]]

\* A permutation of finitely many places takes every place.
LEMMA PermutationShuffles ==
    ASSUME NEW fs \in Seq(File), NEW p \in Permutation(Len(fs))
    PROVE  Shuffle(fs, [i \in 1 .. Len(fs) |-> fs[p[i]]], p)
<1> DEFINE n == Len(fs)
           gs == [i \in 1 .. n |-> fs[p[i]]]
<1>1. n \in Nat /\ p \in [1 .. n -> 1 .. n] /\ \A i, j \in 1 .. n : p[i] = p[j] => i = j
    BY DEF Permutation
<1>2. IsFiniteSet(1 .. n)
    <2>1. n \in Int /\ 1 \in Int
        OBVIOUS
    <2>. QED  BY <2>1, FS_Interval
<1>3. p \in Injection(1 .. n, 1 .. n)
    BY <1>1 DEF Injection, IsInjective
<1>4. p \in Surjection(1 .. n, 1 .. n)
    <2>. HIDE DEF n
    <2>. QED  BY <1>2, <1>3, FS_Injection
<1>5. \A j \in 1 .. n : \E i \in 1 .. n : p[i] = j
    BY <1>4 DEF Surjection
<1>6. gs \in Seq(File) /\ Len(gs) = n
    BY <1>1
<1>. QED  BY <1>1, <1>5, <1>6 DEF Shuffle

\* A keyword that one file has by itself is in every list with that file.
LEMMA OccursAlone ==
    ASSUME NEW fs \in Seq(File), NEW j \in 1 .. Len(fs), NEW k, Occurs(k, <<fs[j]>>)
    PROVE  Occurs(k, fs)
<1> DEFINE one == <<fs[j]>>
<1>1. Len(one) = 1 /\ one[1] = fs[j]
    OBVIOUS
<1>2. PICK at \in [1 .. Len(k) -> all_text(one)] :
          /\ \A n \in 1 .. Len(k) : one[at[n][1]].words[at[n][2]] = k[n]
          /\ \A n \in 1 .. Len(k) - 1 : Follows(one, at[n], at[n + 1])
    BY DEF Occurs
<1>. HIDE DEF one
<1>3. \A x \in all_text(one) : x[1] = 1 /\ x[2] \in 1 .. Len(fs[j].words)
    <2> TAKE x \in all_text(one)
    <2>1. x[1] \in 1 .. Len(one) /\ x[2] \in 1 .. Len(one[x[1]].words)
        BY WordPlace
    <2>2. x[1] = 1
        BY <1>1, <2>1
    <2>. QED  BY <1>1, <2>1, <2>2
<1> DEFINE there == [n \in 1 .. Len(k) |-> <<j, at[n][2]>>]
<1>4. ASSUME NEW n \in 1 .. Len(k) PROVE at[n][1] = 1 /\ <<j, at[n][2]>> \in all_text(fs)
    <2>1. at[n] \in all_text(one)
        BY <1>2
    <2>2. at[n][1] = 1 /\ at[n][2] \in 1 .. Len(fs[j].words)
        BY <1>3, <2>1
    <2>. QED  BY <2>2, WordPlace
<1>5. there \in [1 .. Len(k) -> all_text(fs)]
    BY <1>4
<1>6. ASSUME NEW n \in 1 .. Len(k) PROVE fs[there[n][1]].words[there[n][2]] = k[n]
    BY <1>1, <1>2, <1>4
<1>7. ASSUME NEW n \in 1 .. Len(k) - 1, n \in 1 .. Len(k), n + 1 \in 1 .. Len(k)
      PROVE  Follows(fs, there[n], there[n + 1])
    <2>1. at[n][1] = 1 /\ at[n + 1][1] = 1 /\ Follows(one, at[n], at[n + 1])
        BY <1>2, <1>4, <1>7
    <2>2. at[n + 1][2] = at[n][2] + 1
        BY <2>1 DEF Follows
    <2>3. there[n] = <<j, at[n][2]>> /\ there[n + 1] = <<j, at[n + 1][2]>>
        BY <1>7
    <2>. QED  BY <2>2, <2>3 DEF Follows
<1>8. \A n \in 1 .. Len(k) - 1 : n \in 1 .. Len(k) /\ n + 1 \in 1 .. Len(k)
    OBVIOUS
<1>. HIDE DEF there
<1>. QED  BY <1>5, <1>6, <1>7, <1>8 DEF Occurs

\* A keyword of one word is in one file.
LEMMA OneWordInOneFile ==
    ASSUME NEW fs \in Seq(File), NEW k, Len(k) = 1, Occurs(k, fs)
    PROVE  \E j \in 1 .. Len(fs) : Occurs(k, <<fs[j]>>)
<1>1. PICK at \in [1 .. Len(k) -> all_text(fs)] : \A n \in 1 .. Len(k) : fs[at[n][1]].words[at[n][2]] = k[n]
    BY DEF Occurs
<1> DEFINE j == at[1][1]
           m == at[1][2]
           one == <<fs[j]>>
           there == [n \in 1 .. Len(k) |-> <<1, m>>]
<1>2. at[1] \in all_text(fs) /\ fs[j].words[m] = k[1]
    BY <1>1
<1>3. j \in 1 .. Len(fs) /\ m \in 1 .. Len(fs[j].words)
    <2>. HIDE DEF all_text
    <2>. QED  BY <1>2, WordPlace
<1>. HIDE DEF j, m
<1>4. Len(one) = 1 /\ one[1] = fs[j]
    OBVIOUS
<1>. HIDE DEF one
<1>5. <<1, m>> \in all_text(one)
    <2>1. 1 \in 1 .. Len(one) /\ m \in 1 .. Len(one[1].words)
        BY <1>3, <1>4
    <2>. QED  BY <2>1, WordPlace
<1>6. there \in [1 .. Len(k) -> all_text(one)]
    BY <1>5
<1>7. \A n \in 1 .. Len(k) : one[there[n][1]].words[there[n][2]] = k[n]
    BY <1>2, <1>4
<1>8. \A n \in 1 .. Len(k) - 1 : Follows(one, there[n], there[n + 1])
    OBVIOUS
<1>. HIDE DEF there
<1>9. Occurs(k, one)
    BY <1>6, <1>7, <1>8 DEF Occurs
<1>. QED  BY <1>3, <1>9 DEF one

\* The keywords found are the same in any order, unless one is found over the border of two files.
LEMMA KeywordsSame ==
    ASSUME NEW fs, NEW gs, NEW p, Shuffle(fs, gs, p), NEW c \in Asked,
           ~\E k \in AcrossFiles(c, fs, gs) : Len(k) > 1
    PROVE  check_keyword_presence(c, fs) = check_keyword_presence(c, gs)
<1>1. /\ fs \in Seq(File) /\ gs \in Seq(File) /\ Len(gs) = Len(fs)
      /\ \A i \in 1 .. Len(fs) : p[i] \in 1 .. Len(fs) /\ gs[i] = fs[p[i]]
      /\ \A j \in 1 .. Len(fs) : \E i \in 1 .. Len(fs) : gs[i] = fs[j]
    <2>1. fs \in Seq(File) /\ gs \in Seq(File) /\ Len(gs) = Len(fs)
        BY DEF Shuffle
    <2>2. \A i \in 1 .. Len(fs) : p[i] \in 1 .. Len(fs) /\ gs[i] = fs[p[i]]
        BY DEF Shuffle
    <2>3. \A j \in 1 .. Len(fs) : \E i \in 1 .. Len(fs) : gs[i] = fs[j]
        BY <2>2 DEF Shuffle
    <2>. QED  BY <2>1, <2>2, <2>3
<1>2. all_text(fs) = {} <=> all_text(gs) = {}
    <2>1. ASSUME NEW x \in all_text(fs) PROVE all_text(gs) # {}
        <3>1. x[1] \in 1 .. Len(fs) /\ x[2] \in 1 .. Len(fs[x[1]].words)
            BY WordPlace
        <3>2. PICK i \in 1 .. Len(fs) : gs[i] = fs[x[1]]
            BY <1>1, <3>1
        <3>3. <<i, x[2]>> \in all_text(gs)
            BY <1>1, <3>1, <3>2, WordPlace
        <3>. QED  BY <3>3
    <2>2. ASSUME NEW x \in all_text(gs) PROVE all_text(fs) # {}
        <3>1. x[1] \in 1 .. Len(gs) /\ x[2] \in 1 .. Len(gs[x[1]].words)
            BY WordPlace
        <3>2. p[x[1]] \in 1 .. Len(fs) /\ gs[x[1]] = fs[p[x[1]]]
            BY <1>1, <3>1
        <3>3. <<p[x[1]], x[2]>> \in all_text(fs)
            BY <3>1, <3>2, WordPlace
        <3>. QED  BY <3>3
    <2>. QED  BY <2>1, <2>2
<1>3. ASSUME NEW k \in required_keywords(c) PROVE Occurs(k, fs) <=> Occurs(k, gs)
    <2>1. CASE \E j \in 1 .. Len(fs) : Occurs(k, <<fs[j]>>)
        <3>1. PICK j \in 1 .. Len(fs) : Occurs(k, <<fs[j]>>)
            BY <2>1
        <3>2. PICK i \in 1 .. Len(gs) : gs[i] = fs[j]
            BY <1>1
        <3>3. Occurs(k, <<gs[i]>>)
            BY <3>1, <3>2
        <3>4. Occurs(k, fs) /\ Occurs(k, gs)
            BY <1>1, <3>1, <3>3, OccursAlone, Zenon
        <3>. QED  BY <3>4
    <2>2. CASE ~\E j \in 1 .. Len(fs) : Occurs(k, <<fs[j]>>)
        <3> SUFFICES ASSUME Occurs(k, fs) \/ Occurs(k, gs) PROVE FALSE
            OBVIOUS
        <3>1. k \in AcrossFiles(c, fs, gs)
            BY <2>2 DEF AcrossFiles
        <3>2. Len(k) \in Nat \ {0}
            BY RulesAssumption DEF RulesAssumption, required_keywords
        <3>3. Len(k) = 1
            <4>1. ~(Len(k) > 1)
                BY <3>1, Zenon
            <4>. QED  BY <3>2, <4>1
        <3>4. CASE Occurs(k, fs)
            BY <1>1, <2>2, <3>3, <3>4, OneWordInOneFile, Zenon
        <3>5. CASE Occurs(k, gs)
            <4>1. PICK i \in 1 .. Len(gs) : Occurs(k, <<gs[i]>>)
                BY <1>1, <3>3, <3>5, OneWordInOneFile, Zenon
            <4>2. p[i] \in 1 .. Len(fs) /\ gs[i] = fs[p[i]]
                BY <1>1
            <4>. QED  BY <2>2, <4>1, <4>2
        <3>. QED  BY <3>4, <3>5
    <2>. QED  BY <2>1, <2>2
<1>. QED  BY <1>2, <1>3 DEF check_keyword_presence

\* What the other search rules look at is the same in any order.
LEMMA SearchSame ==
    ASSUME NEW fs, NEW gs, NEW p, Shuffle(fs, gs, p), NEW c
    PROVE  /\ check_file_existence(c, fs) = check_file_existence(c, gs)
           /\ check_freshness(c, fs) = check_freshness(c, gs)
           /\ check_schema_presence(c, fs) = check_schema_presence(c, gs)
           /\ CheckType(c) = "file_existence" => FailsFirst(c, fs) = FailsFirst(c, gs)
<1>1. /\ Len(gs) = Len(fs) /\ Len(fs) \in Nat /\ (fs = <<>> <=> gs = <<>>)
      /\ \A i \in 1 .. Len(fs) : p[i] \in 1 .. Len(fs) /\ gs[i] = fs[p[i]]
      /\ \A j \in 1 .. Len(fs) : \E i \in 1 .. Len(fs) : gs[i] = fs[j]
    <2>1. Len(gs) = Len(fs) /\ Len(fs) \in Nat /\ (fs = <<>> <=> gs = <<>>)
        BY DEF Shuffle
    <2>2. \A i \in 1 .. Len(fs) : p[i] \in 1 .. Len(fs) /\ gs[i] = fs[p[i]]
        BY DEF Shuffle
    <2>3. \A j \in 1 .. Len(fs) : \E i \in 1 .. Len(fs) : gs[i] = fs[j]
        BY <2>2 DEF Shuffle
    <2>. QED  BY <2>1, <2>2, <2>3
<1>2. check_file_existence(c, fs) = check_file_existence(c, gs)
    <2> DEFINE fits(f) == /\ (name_pattern(c) = {} \/ f.name \in name_pattern(c))
                          /\ Suitable(c, f)
    <2>1. (\E i \in 1 .. Len(fs) : fits(fs[i])) <=> (\E i \in 1 .. Len(gs) : fits(gs[i]))
        <3>. HIDE DEF fits
        <3>. QED  BY <1>1
    <2>. QED  BY <2>1 DEF check_file_existence
<1>3. check_freshness(c, fs) = check_freshness(c, gs)
    BY <1>1 DEF check_freshness, AgeInDays
<1>4. TableColumns(fs) = TableColumns(gs)
    <2>1. ASSUME NEW x \in TableColumns(fs) PROVE x \in TableColumns(gs)
        <3>1. PICK j \in 1 .. Len(fs) : fs[j].type \in Table /\ x = fs[j].columns
            BY DEF TableColumns
        <3>2. PICK i \in 1 .. Len(fs) : gs[i] = fs[j]
            BY <1>1
        <3>3. i \in 1 .. Len(gs) /\ gs[i].type \in Table /\ x = gs[i].columns
            BY <1>1, <3>1, <3>2
        <3>. QED  BY <3>3 DEF TableColumns
    <2>2. ASSUME NEW x \in TableColumns(gs) PROVE x \in TableColumns(fs)
        <3>1. PICK i \in 1 .. Len(gs) : gs[i].type \in Table /\ x = gs[i].columns
            BY DEF TableColumns
        <3>2. p[i] \in 1 .. Len(fs) /\ fs[p[i]].type \in Table /\ x = fs[p[i]].columns
            BY <1>1, <3>1
        <3>. QED  BY <3>2 DEF TableColumns
    <2>. QED  BY <2>1, <2>2
<1>5. check_schema_presence(c, fs) = check_schema_presence(c, gs)
    BY <1>4 DEF check_schema_presence, all_columns
<1>6. ASSUME CheckType(c) = "file_existence" PROVE FailsFirst(c, fs) = FailsFirst(c, gs)
    <2>1. (\A i \in 1 .. Len(fs) : ~Suitable(c, fs[i])) <=> (\A i \in 1 .. Len(gs) : ~Suitable(c, gs[i]))
        BY <1>1
    <2>. QED  BY <1>6, <2>1 DEF FailsFirst
<1>. QED  BY <1>2, <1>3, <1>5, <1>6

\* The rows of one order are those of the other, with other places.
LEMMA RowsSame ==
    ASSUME NEW fs, NEW gs, NEW p, Shuffle(fs, gs, p)
    PROVE  total_rows(fs) = total_rows(gs)
<1> DEFINE g == [r \in Rows(gs) |-> <<p[r[1]], r[2]>>]
<1>1. /\ fs \in Seq(File) /\ gs \in Seq(File) /\ Len(gs) = Len(fs)
      /\ p \in [1 .. Len(fs) -> 1 .. Len(fs)]
      /\ \A i, j \in 1 .. Len(fs) : p[i] = p[j] => i = j
      /\ \A j \in 1 .. Len(fs) : \E i \in 1 .. Len(fs) : p[i] = j
      /\ \A i \in 1 .. Len(fs) : gs[i] = fs[p[i]]
    BY DEF Shuffle
<1>2. \A r : r \in Rows(gs) <=> \E i \in 1 .. Len(fs) : gs[i].type \in Table /\ \E k \in 1 .. gs[i].rows : r = <<i, k>>
    BY <1>1 DEF Rows
<1>3. \A r : r \in Rows(fs) <=> \E i \in 1 .. Len(fs) : fs[i].type \in Table /\ \E k \in 1 .. fs[i].rows : r = <<i, k>>
    BY <1>1 DEF Rows
<1>4. g \in [Rows(gs) -> Rows(fs)]
    <2> SUFFICES ASSUME NEW r \in Rows(gs) PROVE <<p[r[1]], r[2]>> \in Rows(fs)
        OBVIOUS
    <2>1. PICK i \in 1 .. Len(fs) : gs[i].type \in Table /\ \E k \in 1 .. gs[i].rows : r = <<i, k>>
        BY <1>2
    <2>2. PICK k \in 1 .. gs[i].rows : r = <<i, k>>
        BY <2>1
    <2>3. p[i] \in 1 .. Len(fs) /\ fs[p[i]] = gs[i]
        BY <1>1
    <2>. QED  BY <1>3, <2>1, <2>2, <2>3
<1>5. ASSUME NEW r \in Rows(gs), NEW s \in Rows(gs), g[r] = g[s] PROVE r = s
    <2>1. PICK i \in 1 .. Len(fs) : \E k \in 1 .. gs[i].rows : r = <<i, k>>
        BY <1>2
    <2>2. PICK k \in 1 .. gs[i].rows : r = <<i, k>>
        BY <2>1
    <2>3. PICK j \in 1 .. Len(fs) : \E l \in 1 .. gs[j].rows : s = <<j, l>>
        BY <1>2
    <2>4. PICK l \in 1 .. gs[j].rows : s = <<j, l>>
        BY <2>3
    <2>5. <<p[i], k>> = <<p[j], l>>
        BY <1>5, <2>2, <2>4
    <2>6. i = j /\ k = l
        BY <1>1, <2>5
    <2>. QED  BY <2>2, <2>4, <2>6
<1>6. ASSUME NEW s \in Rows(fs) PROVE \E r \in Rows(gs) : g[r] = s
    <2>1. PICK j \in 1 .. Len(fs) : fs[j].type \in Table /\ \E k \in 1 .. fs[j].rows : s = <<j, k>>
        BY <1>3
    <2>2. PICK k \in 1 .. fs[j].rows : s = <<j, k>>
        BY <2>1
    <2>3. PICK i \in 1 .. Len(fs) : p[i] = j
        BY <1>1
    <2>4. <<i, k>> \in Rows(gs)
        BY <1>1, <1>2, <2>1, <2>3
    <2>5. g[<<i, k>>] = s
        BY <2>2, <2>3, <2>4
    <2>. QED  BY <2>4, <2>5
<1>7. g \in Bijection(Rows(gs), Rows(fs))
    <2>. HIDE DEF g
    <2>. QED  BY <1>4, <1>5, <1>6 DEF Bijection, Injection, Surjection, IsInjective
<1>8. ExistsBijection(Rows(gs), Rows(fs))
    <2>. HIDE DEF g
    <2>. QED  BY <1>7 DEF ExistsBijection
<1>9. IsFiniteSet(Rows(gs))
    BY <1>1, RowsFinite
<1>. QED  BY <1>8, <1>9, FS_Bijection DEF total_rows

\* A set that is not of more than one element has no two.
LEMMA AtMostOne ==
    ASSUME NEW S, IsFiniteSet(S), ~(Cardinality(S) > 1), NEW x \in S, NEW y \in S
    PROVE  x = y
<1> SUFFICES ASSUME x # y PROVE FALSE
    OBVIOUS
<1>1. IsFiniteSet({x}) /\ Cardinality({x}) = 1
    BY FS_Singleton
<1>2. Cardinality({x} \cup {y}) = 2
    BY <1>1, FS_AddElement
<1>3. {x} \cup {y} \in SUBSET S
    OBVIOUS
<1>4. Cardinality({x} \cup {y}) <= Cardinality(S) /\ Cardinality(S) \in Nat
    BY <1>3, FS_Subset, FS_CardinalityType
<1>. QED  BY <1>2, <1>4

\* The same file decides in any order, if only one can.
LEMMA DecidesSame ==
    ASSUME NEW fs, NEW gs, NEW p, Shuffle(fs, gs, p), NEW D,
           ~(Cardinality({fs[i] : i \in 1 .. Len(fs)} \cap D) > 1)
    PROVE  /\ Places(fs, D) = {} <=> Places(gs, D) = {}
           /\ Places(fs, D) # {} => gs[First(Places(gs, D))] = fs[First(Places(fs, D))]
<1>1. /\ fs \in Seq(File) /\ Len(gs) = Len(fs) /\ Len(fs) \in Nat
      /\ \A i \in 1 .. Len(fs) : p[i] \in 1 .. Len(fs) /\ gs[i] = fs[p[i]]
      /\ \A j \in 1 .. Len(fs) : \E i \in 1 .. Len(fs) : p[i] = j
    <2>1. fs \in Seq(File) /\ Len(gs) = Len(fs) /\ p \in [1 .. Len(fs) -> 1 .. Len(fs)]
        BY DEF Shuffle
    <2>2. \A j \in 1 .. Len(fs) : \E i \in 1 .. Len(fs) : p[i] = j
        BY DEF Shuffle
    <2>3. \A i \in 1 .. Len(fs) : gs[i] = fs[p[i]]
        BY DEF Shuffle
    <2>4. Len(fs) \in Nat
        BY <2>1
    <2>5. \A i \in 1 .. Len(fs) : p[i] \in 1 .. Len(fs)
        BY <2>1, Zenon
    <2>. QED  BY <2>1, <2>2, <2>3, <2>4, <2>5
<1>2. Places(fs, D) = {} <=> Places(gs, D) = {}
    <2>1. ASSUME NEW j \in Places(fs, D) PROVE Places(gs, D) # {}
        <3>1. PICK i \in 1 .. Len(fs) : p[i] = j
            BY <1>1 DEF Places
        <3>2. i \in Places(gs, D)
            BY <1>1, <3>1 DEF Places
        <3>. QED  BY <3>2
    <2>2. ASSUME NEW i \in Places(gs, D) PROVE p[i] \in Places(fs, D)
        BY <1>1 DEF Places
    <2>. QED  BY <2>1, <2>2
<1>3. ASSUME Places(fs, D) # {} PROVE gs[First(Places(gs, D))] = fs[First(Places(fs, D))]
    <2>1. Places(fs, D) \in SUBSET Nat /\ Places(gs, D) \in SUBSET Nat /\ Places(gs, D) # {}
        <3>1. 1 .. Len(fs) \subseteq Nat /\ 1 .. Len(gs) \subseteq Nat
            BY <1>1
        <3>2. Places(fs, D) \subseteq 1 .. Len(fs) /\ Places(gs, D) \subseteq 1 .. Len(gs)
            BY DEF Places
        <3>. QED  BY <1>2, <1>3, <3>1, <3>2
    <2>2. First(Places(fs, D)) \in Places(fs, D) /\ First(Places(gs, D)) \in Places(gs, D)
        BY <1>3, <2>1, FirstIsLeast, Zenon
    <2>3. /\ fs[First(Places(fs, D))] \in {fs[i] : i \in 1 .. Len(fs)} \cap D
          /\ gs[First(Places(gs, D))] \in {fs[i] : i \in 1 .. Len(fs)} \cap D
        BY <1>1, <2>2 DEF Places
    <2>4. IsFiniteSet({fs[i] : i \in 1 .. Len(fs)} \cap D)
        <3>1. fs \in Surjection(1 .. Len(fs), {fs[i] : i \in 1 .. Len(fs)})
            BY <1>1 DEF Surjection
        <3>2. IsFiniteSet(1 .. Len(fs))
            <4>1. 1 \in Int /\ Len(fs) \in Int
                BY <1>1
            <4>. QED  BY <4>1, FS_Interval
        <3>3. IsFiniteSet({fs[i] : i \in 1 .. Len(fs)})
            BY <3>1, <3>2, FS_Surjection
        <3>. QED  BY <3>3, FS_Intersection
    <2>. QED  BY <2>3, <2>4, AtMostOne
<1>. QED  BY <1>2, <1>3

\* Two tables can be joined in one order if they can in another.
LEMMA JoinsSame ==
    ASSUME NEW fs, NEW gs, NEW p, Shuffle(fs, gs, p), NEW c
    PROVE  LET tables(hs) == {i \in 1 .. Len(hs) : Joins(hs[i])}
           IN  /\ tables(fs) = {} <=> tables(gs) = {}
               /\ Joinable(c, fs, tables(fs)) <=> Joinable(c, gs, tables(gs))
<1> DEFINE tables(hs) == {i \in 1 .. Len(hs) : Joins(hs[i])}
           joined(f, g) == IF c.names # {} THEN c.names \subseteq f.columns \cap g.columns
                                           ELSE f.columns \cap g.columns # {}
<1>1. /\ Len(gs) = Len(fs)
      /\ \A i \in 1 .. Len(fs) : p[i] \in 1 .. Len(fs) /\ gs[i] = fs[p[i]]
      /\ \A i, j \in 1 .. Len(fs) : p[i] = p[j] => i = j
      /\ \A j \in 1 .. Len(fs) : \E i \in 1 .. Len(fs) : p[i] = j
    BY DEF Shuffle
<1>2. /\ \A i \in tables(gs) : p[i] \in tables(fs)
      /\ \A j \in tables(fs) : \E i \in tables(gs) : p[i] = j
      /\ tables(fs) \subseteq 1 .. Len(fs) /\ tables(gs) \subseteq 1 .. Len(fs)
    BY <1>1
<1>3. /\ Joinable(c, fs, tables(fs)) <=> \E i \in tables(fs), j \in tables(fs) : i # j /\ joined(fs[i], fs[j])
      /\ Joinable(c, gs, tables(gs)) <=> \E i \in tables(gs), j \in tables(gs) : i # j /\ joined(gs[i], gs[j])
    <2>. HIDE DEF tables
    <2>. QED  BY DEF Joinable
<1>. HIDE DEF tables, joined
<1>4. ASSUME NEW i \in tables(fs), NEW j \in tables(fs), i # j, joined(fs[i], fs[j])
      PROVE  \E k \in tables(gs), l \in tables(gs) : k # l /\ joined(gs[k], gs[l])
    <2>1. PICK k \in tables(gs) : p[k] = i
        BY <1>2
    <2>2. PICK l \in tables(gs) : p[l] = j
        BY <1>2
    <2>3. gs[k] = fs[i] /\ gs[l] = fs[j] /\ k # l
        BY <1>1, <1>2, <1>4, <2>1, <2>2
    <2>. QED  BY <1>4, <2>3
<1>5. ASSUME NEW i \in tables(gs), NEW j \in tables(gs), i # j, joined(gs[i], gs[j])
      PROVE  \E k \in tables(fs), l \in tables(fs) : k # l /\ joined(fs[k], fs[l])
    <2>1. p[i] \in tables(fs) /\ p[j] \in tables(fs) /\ p[i] # p[j] /\ fs[p[i]] = gs[i] /\ fs[p[j]] = gs[j]
        BY <1>1, <1>2, <1>5
    <2>. QED  BY <1>5, <2>1
<1>6. Joinable(c, fs, tables(fs)) <=> Joinable(c, gs, tables(gs))
    BY <1>3, <1>4, <1>5
<1>7. tables(fs) = {} <=> tables(gs) = {}
    BY <1>2
<1>. QED  BY <1>6, <1>7 DEF tables

\* The verdict of every rule.
LEMMA VerdictSame ==
    ASSUME NEW fs, NEW gs, NEW p, Shuffle(fs, gs, p), NEW c \in Asked,
           ~(Cardinality({fs[i] : i \in 1 .. Len(fs)} \cap Deciding(c)) > 1),
           ~(CheckType(c) = "keyword_presence" /\ \E k \in AcrossFiles(c, fs, gs) : Len(k) > 1)
    PROVE  dispatch_rule(c, fs) = dispatch_rule(c, gs)
<1>1. fs \in Seq(File) /\ gs \in Seq(File)
    BY DEF Shuffle
<1>2. CASE CheckType(c) = "null_rate"
    <2>1. Deciding(c) = NullRateFiles
        BY <1>2 DEF Deciding, NullRateFiles
    <2>2. /\ Places(fs, NullRateFiles) = {} <=> Places(gs, NullRateFiles) = {}
          /\ Places(fs, NullRateFiles) # {} =>
                 gs[First(Places(gs, NullRateFiles))] = fs[First(Places(fs, NullRateFiles))]
        BY <2>1, DecidesSame
    <2>3. check_null_rate(c, fs) = check_null_rate(c, gs)
        BY <1>1, <2>2, PlacesOf DEF check_null_rate
    <2>. QED  BY <1>2, <2>3 DEF dispatch_rule, Handler, FailsFirst
<1>3. CASE CheckType(c) = "quantitative"
    <2>1. Deciding(c) = MetricFiles
        BY <1>3 DEF Deciding, MetricFiles
    <2>2. /\ Places(fs, MetricFiles) = {} <=> Places(gs, MetricFiles) = {}
          /\ Places(fs, MetricFiles) # {} =>
                 gs[First(Places(gs, MetricFiles))] = fs[First(Places(fs, MetricFiles))]
        BY <2>1, DecidesSame
    <2>3. check_quantitative(c, fs) = check_quantitative(c, gs)
        BY <1>1, <2>2, PlacesOf DEF check_quantitative
    <2>. QED  BY <1>3, <2>3 DEF dispatch_rule, Handler, FailsFirst
<1>4. CASE CheckType(c) = "cross_reference"
    <2>1. Deciding(c) = JoinFiles
        BY <1>4 DEF Deciding, JoinFiles
    <2>2. /\ Places(fs, JoinFiles) = {} <=> Places(gs, JoinFiles) = {}
          /\ Places(fs, JoinFiles) # {} =>
                 gs[First(Places(gs, JoinFiles))] = fs[First(Places(fs, JoinFiles))]
        BY <2>1, DecidesSame
    <2>3. check_cross_reference(c, fs) = check_cross_reference(c, gs)
        <3> DEFINE tables(hs) == {i \in 1 .. Len(hs) : Joins(hs[i])}
        <3>1. /\ tables(fs) = {} <=> tables(gs) = {}
              /\ Joinable(c, fs, tables(fs)) <=> Joinable(c, gs, tables(gs))
            BY JoinsSame
        <3>2. ASSUME NEW hs \in Seq(File)
              PROVE  check_cross_reference(c, hs) =
                         IF tables(hs) = {} THEN "FAIL"
                         ELSE IF ~Joinable(c, hs, tables(hs)) \/ Places(hs, JoinFiles) = {} THEN "NEEDS_JUDGMENT"
                         ELSE IF hs[First(Places(hs, JoinFiles))].broken THEN "raises"
                         ELSE IF hs[First(Places(hs, JoinFiles))].violations = {0} THEN "PASS" ELSE "FAIL"
            BY PlacesOf DEF check_cross_reference
        <3>. HIDE DEF tables
        <3>. QED  BY <1>1, <2>2, <3>1, <3>2
    <2>4. FailsFirst(c, fs) <=> FailsFirst(c, gs)
        BY <1>4, JoinsSame DEF FailsFirst
    <2>. QED  BY <1>4, <2>3, <2>4 DEF dispatch_rule, Handler
<1>5. CASE CheckType(c) \notin {"null_rate", "quantitative", "cross_reference"}
    <2>1. check_row_count(c, fs) = check_row_count(c, gs)
        BY RowsSame DEF check_row_count
    <2>2. CheckType(c) = "keyword_presence" => check_keyword_presence(c, fs) = check_keyword_presence(c, gs)
        BY KeywordsSame
    <2>3. Handler(c, fs) = Handler(c, gs)
        BY <1>5, <2>1, <2>2, SearchSame DEF Handler
    <2>4. FailsFirst(c, fs) <=> FailsFirst(c, gs)
        <3>1. CASE CheckType(c) = "file_existence"
            BY <3>1, SearchSame
        <3>2. CASE CheckType(c) = "row_count"
            BY <3>2, RowsSame DEF FailsFirst
        <3>3. CASE CheckType(c) \notin {"file_existence", "row_count"}
            BY <1>5, <3>3 DEF FailsFirst
        <3>. QED  BY <3>1, <3>2, <3>3
    <2>. QED  BY <2>3, <2>4 DEF dispatch_rule
<1>. QED  BY <1>2, <1>3, <1>4, <1>5

\* The same evidence in another order (discovery.py lists a set) gets the same verdict from
\* every rule, unless two different files bring the statistics of which the rule takes the
\* first, or a keyword of several words is found over the border of two files
\* (keyword_presence.py): for every set of files and criteria and every length of the list.
THEOREM SameVerdictTheorem == RulesSpec => []SameVerdictInAnyOrder
<1>1. files \in Seq(File) /\ [RulesNext]_files => (files \in Seq(File))'
    BY DEF RulesNext, Find
<1>2. RulesInit => files \in Seq(File)
    BY DEF RulesInit
<1>3. files \in Seq(File) => SameVerdictInAnyOrder
    <2> SUFFICES ASSUME files \in Seq(File), NEW c \in Asked, NEW p \in Permutation(Len(files)),
                        ~(Cardinality({files[i] : i \in 1 .. Len(files)} \cap Deciding(c)) > 1),
                        ~(/\ CheckType(c) = "keyword_presence"
                          /\ \E k \in AcrossFiles(c, files, [i \in 1 .. Len(files) |-> files[p[i]]]) : Len(k) > 1)
                 PROVE  dispatch_rule(c, files) = dispatch_rule(c, [i \in 1 .. Len(files) |-> files[p[i]]])
        BY DEF SameVerdictInAnyOrder
    <2>1. Shuffle(files, [i \in 1 .. Len(files) |-> files[p[i]]], p)
        BY PermutationShuffles
    <2>. QED  BY <2>1, VerdictSame
<1>. QED  BY <1>1, <1>2, <1>3, PTL DEF RulesSpec

=============================================================================
