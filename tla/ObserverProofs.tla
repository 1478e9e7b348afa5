--------------------------- MODULE ObserverProofs ---------------------------
(***************************************************************************)
(* The observer's quality check, for any issues, costs and budget: what a  *)
(* cycle spends, which issues the budget defers, and when zip pairs a      *)
(* diagnosis with the issue of another one.                                *)
(***************************************************************************)
EXTENDS Observer, SequenceTheorems, TLAPS

Diagnosis == [issue : Nat, fix : Fix, confidence : Confidence]

\* An issue before m that has no diagnosis.
GapBefore(m) == \E k \in 1 .. m - 1 : \A n \in DOMAIN diagnoses : diagnoses[n].issue # k

CycleTypeOK ==
    /\ pc \in {"idle", "diagnosing", "proposing", "applying"}
    /\ i \in Nat
    /\ pc # "idle" => i > 0
    /\ diagnoses \in Seq(Diagnosis)
    /\ spend \in Nat
    /\ deferred \in Nat

\* While diagnosing, the diagnoses are of earlier issues; there are as many of
\* them as earlier issues, or one of those has none.
InOrder ==
    pc = "diagnosing" =>
        /\ \A n \in DOMAIN diagnoses : diagnoses[n].issue < i
        /\ Len(diagnoses) = i - 1 \/ GapBefore(i)

\* A diagnosis stands at the position of its issue unless an earlier issue has
\* none.
PairedOrGap ==
    \A n \in DOMAIN diagnoses : diagnoses[n].issue = n \/ GapBefore(diagnoses[n].issue)

\* Once an issue is deferred, the budget fits no other.
DeferredStays == pc = "diagnosing" /\ deferred # 0 => Estimate > Remaining

\* A change exists only while changes are proposed, and is of a diagnosis.
ChangePaired ==
    /\ pc \in {"idle", "diagnosing"} => change = NoChange
    /\ change.of # change.issue => GapBefore(change.of)

IInv ==
    /\ CycleTypeOK /\ InOrder /\ PairedOrGap /\ DeferredStays
    /\ ChangePaired /\ DeferredAreLast /\ CycleBudget

LEMMA IssueNumbers ==
  ASSUME diagnoses \in Seq(Diagnosis)
  PROVE  \A n \in DOMAIN diagnoses : diagnoses[n].issue \in Nat
  <1>1. \A n \in DOMAIN diagnoses : diagnoses[n] \in Diagnosis
    BY ElementOfSeq, LenProperties
  <1>2. QED
    BY <1>1 DEF Diagnosis

\* What an action that leaves the cycle alone preserves.
LEMMA CycleUnchanged ==
  ASSUME IInv, UNCHANGED <<pc, cycle>>
  PROVE  IInv'
  BY DEF IInv, cycle, CycleTypeOK, InOrder, PairedOrGap, DeferredStays, ChangePaired,
         DeferredAreLast, CycleBudget, GapBefore, Remaining

\* A cycle that starts or ends without diagnoses or a change.
LEMMA CycleEmpty ==
  ASSUME pc' = "idle" \/ (pc' = "diagnosing" /\ i' = 1), i' \in Nat,
         diagnoses' = <<>>, deferred' = 0, change' = NoChange,
         spend' \in Nat, CycleBudget'
  PROVE  IInv'
  <1>1. CycleTypeOK' /\ DeferredStays' /\ DeferredAreLast'
    BY DEF CycleTypeOK, DeferredStays, DeferredAreLast
  <1>2. Len(diagnoses') = 0 /\ DOMAIN diagnoses' = {}
    OBVIOUS
  <1>3. InOrder' /\ PairedOrGap'
    BY <1>2 DEF InOrder, PairedOrGap
  <1>4. change'.of = change'.issue
    BY DEF NoChange
  <1>5. QED
    BY <1>1, <1>3, <1>4 DEF IInv, ChangePaired

\* An issue that is passed over is a gap before every later one.
LEMMA PassedOver ==
  ASSUME IInv, pc = "diagnosing", UNCHANGED <<pc, diagnoses, change>>, i' = i + 1
  PROVE  InOrder' /\ PairedOrGap' /\ ChangePaired'
  <1>1. i \in Nat /\ i > 0 /\ \A n \in DOMAIN diagnoses : diagnoses[n].issue < i
    BY DEF IInv, InOrder, CycleTypeOK
  <1>2. \A n \in DOMAIN diagnoses : diagnoses[n].issue \in Nat
    BY IssueNumbers DEF IInv, CycleTypeOK
  <1>3. i \in 1 .. i' - 1 /\ \A n \in DOMAIN diagnoses : diagnoses[n].issue # i
    BY <1>1, <1>2
  <1>4. GapBefore(i)'
    BY <1>3 DEF GapBefore
  <1>5. InOrder'
    BY <1>1, <1>2, <1>4 DEF InOrder
  <1>6. PairedOrGap' /\ ChangePaired'
    BY DEF IInv, PairedOrGap, ChangePaired, GapBefore
  <1>7. QED
    BY <1>5, <1>6

LEMMA AnswerStep ==
  ASSUME IInv, NEW c \in Cost, NEW p \in Parsed, DiagnosisAnswers(c, p)
  PROVE  IInv'
  <1> USE ObserverAssumption
  <1>1. /\ pc = "diagnosing" /\ Estimate <= Remaining
        /\ spend' = spend + c /\ i' = i + 1
        /\ UNCHANGED <<pc, deferred, change>>
    BY DEF DiagnosisAnswers
  <1>2. /\ i \in Nat /\ i > 0 /\ spend \in Nat /\ deferred \in Nat
        /\ diagnoses \in Seq(Diagnosis)
        /\ \A n \in DOMAIN diagnoses : diagnoses[n].issue < i
        /\ Len(diagnoses) = i - 1 \/ GapBefore(i)
    BY <1>1 DEF IInv, InOrder, CycleTypeOK
  <1>3. spend < Budget /\ Estimate <= Budget - spend
    BY <1>1, <1>2 DEF Remaining
  <1>4. CycleBudget' /\ spend' \in Nat
    <2>1. spend' <= Budget - Estimate + c
      BY <1>1, <1>2, <1>3
    <2>2. QED
      BY <1>1, <1>2, <2>1 DEF CycleBudget
  <1>5. deferred = 0
    BY <1>1, <1>2, <1>3 DEF IInv, DeferredStays, Remaining
  <1>6. change = NoChange
    BY <1>1 DEF IInv, ChangePaired
  <1>7. DeferredStays' /\ DeferredAreLast' /\ ChangePaired'
    BY <1>1, <1>5, <1>6 DEF DeferredStays, DeferredAreLast, ChangePaired, NoChange
  <1>8. CASE p = {}
    <2>1. UNCHANGED diagnoses
      BY <1>8 DEF DiagnosisAnswers
    <2>2. InOrder' /\ PairedOrGap'
      BY <1>1, <2>1, PassedOver
    <2>3. QED
      BY <1>1, <1>2, <1>4, <1>7, <2>1, <2>2 DEF IInv, CycleTypeOK
  <1>9. CASE p # {}
    <2>1. PICK f \in Fix, q \in Confidence : p = {[issue |-> i, fix |-> f, confidence |-> q]}
      BY <1>9 DEF Parsed
    <2> DEFINE d == [issue |-> i, fix |-> f, confidence |-> q]
    <2>2. d \in Diagnosis /\ d.issue = i
      BY <1>2 DEF Diagnosis
    <2>3. (CHOOSE x \in p : TRUE) = d
      BY <2>1
    <2> HIDE DEF d
    <2>4. diagnoses' = Append(diagnoses, d)
      BY <1>9, <2>3 DEF DiagnosisAnswers
    <2>5. /\ diagnoses' \in Seq(Diagnosis)
          /\ Len(diagnoses') = Len(diagnoses) + 1
          /\ diagnoses'[Len(diagnoses) + 1] = d
          /\ \A n \in 1 .. Len(diagnoses) : diagnoses'[n] = diagnoses[n]
      BY <1>2, <2>2, <2>4, AppendProperties
    <2>6. /\ DOMAIN diagnoses = 1 .. Len(diagnoses) /\ Len(diagnoses) \in Nat
          /\ DOMAIN diagnoses' = 1 .. Len(diagnoses) + 1
      BY <1>2, <2>5, LenProperties
    <2>7. \A n \in DOMAIN diagnoses' :
            \/ n \in DOMAIN diagnoses /\ diagnoses'[n] = diagnoses[n]
            \/ n = Len(diagnoses) + 1 /\ diagnoses'[n].issue = i
      BY <2>2, <2>5, <2>6
    <2>8. \A n \in DOMAIN diagnoses : diagnoses[n].issue \in Nat
      BY <1>2, IssueNumbers
    \* No gap before an issue up to i is filled.
    <2>9. ASSUME NEW m \in Nat, m <= i, GapBefore(m)
          PROVE  \E k \in 1 .. m - 1 : \A n \in DOMAIN diagnoses' : diagnoses'[n].issue # k
      <3>1. PICK k \in 1 .. m - 1 : \A n \in DOMAIN diagnoses : diagnoses[n].issue # k
        BY <2>9 DEF GapBefore
      <3>2. k # i
        BY <1>2, <2>9
      <3>3. QED
        BY <2>7, <3>1, <3>2
    <2>gap. ASSUME GapBefore(i)
            PROVE  \E k \in 1 .. i - 1 : \A n \in DOMAIN diagnoses' : diagnoses'[n].issue # k
      BY <1>2, <2>9, <2>gap
    <2>10. Len(diagnoses') = i' - 1 \/ GapBefore(i)'
      <3>1. CASE Len(diagnoses) = i - 1
        BY <1>1, <1>2, <2>5, <3>1
      <3>2. CASE GapBefore(i)
        <4>1. PICK k \in 1 .. i - 1 : \A n \in DOMAIN diagnoses' : diagnoses'[n].issue # k
          BY <2>gap, <3>2
        <4>2. k \in 1 .. i' - 1
          BY <1>1, <1>2
        <4>3. QED
          BY <4>1, <4>2 DEF GapBefore
      <3>3. QED
        BY <1>2, <3>1, <3>2
    <2>11. \A n \in DOMAIN diagnoses' : diagnoses'[n].issue < i'
      BY <1>1, <1>2, <2>7, <2>8
    <2>12. InOrder'
      BY <1>1, <1>2, <2>10, <2>11 DEF InOrder
    <2>13. PairedOrGap'
      <3>1. SUFFICES ASSUME NEW n \in DOMAIN diagnoses'
                     PROVE  diagnoses'[n].issue = n \/ GapBefore(diagnoses[n].issue)'
        BY DEF PairedOrGap
      <3>2. CASE n \in DOMAIN diagnoses /\ diagnoses'[n] = diagnoses[n]
        <4>1. diagnoses[n].issue = n \/ GapBefore(diagnoses[n].issue)
          BY <3>2 DEF IInv, PairedOrGap
        <4> DEFINE m == diagnoses[n].issue
        <4>2. m \in Nat /\ m <= i /\ diagnoses'[n].issue = m
          BY <1>2, <2>8, <3>2
        <4> HIDE DEF m
        <4>3. GapBefore(m) => \E k \in 1 .. m - 1 : \A l \in DOMAIN diagnoses' : diagnoses'[l].issue # k
          BY <2>9, <4>2
        <4>4. m = n \/ GapBefore(m)
          BY <4>1 DEF m
        <4>5. QED
          BY <4>2, <4>3, <4>4 DEF GapBefore
      <3>3. CASE n = Len(diagnoses) + 1 /\ diagnoses'[n].issue = i
        <4>1. CASE Len(diagnoses) = i - 1
          BY <1>2, <3>3, <4>1
        <4>2. CASE GapBefore(i)
          <5>1. \E k \in 1 .. i - 1 : \A l \in DOMAIN diagnoses' : diagnoses'[l].issue # k
            BY <2>gap, <4>2
          <5>2. QED
            BY <3>3, <5>1 DEF GapBefore
        <4>3. QED
          BY <1>2, <4>1, <4>2
      <3>4. QED
        BY <2>7, <3>2, <3>3
    <2>14. QED
      BY <1>1, <1>2, <1>4, <1>7, <2>5, <2>12, <2>13 DEF IInv, CycleTypeOK
  <1>10. QED
    BY <1>8, <1>9

LEMMA StepInductive == IInv /\ [ObserverNext]_observerVars => IInv'
  <1> SUFFICES ASSUME IInv, [ObserverNext]_observerVars PROVE IInv'
    OBVIOUS
  <1> USE ObserverAssumption
  <1>types. i \in Nat /\ spend \in Nat /\ deferred \in Nat /\ diagnoses \in Seq(Diagnosis)
    BY DEF IInv, CycleTypeOK
  <1>1. ASSUME NEW found \in Found, StartQualityCheck(found) PROVE IInv'
    <2>1. pc = "idle"
      BY <1>1 DEF StartQualityCheck
    <2>2. /\ pc' = "diagnosing" /\ i' = 1 /\ diagnoses' = <<>>
          /\ spend' = 0 /\ deferred' = 0 /\ change' = NoChange
      BY <1>1, <2>1 DEF StartQualityCheck, IInv, ChangePaired
    <2>3. CycleBudget'
      BY <2>2 DEF CycleBudget
    <2>4. IInv'
      BY <2>2, <2>3, CycleEmpty
    <2>5. QED
      BY <2>4
  <1>2. ASSUME Defer PROVE IInv'
    <2>1. /\ pc = "diagnosing" /\ Estimate > Remaining /\ i' = i + 1
          /\ UNCHANGED <<pc, diagnoses, spend, change>>
          /\ deferred' = IF deferred = 0 THEN i ELSE deferred
      BY <1>2 DEF Defer
    <2>2. InOrder' /\ PairedOrGap' /\ ChangePaired'
      BY <2>1, PassedOver
    <2>3. CycleTypeOK'
      BY <1>types, <2>1 DEF CycleTypeOK
    <2>4. DeferredStays' /\ CycleBudget'
      BY <2>1 DEF IInv, DeferredStays, Remaining, CycleBudget
    <2>5. DeferredAreLast'
      BY <2>1 DEF IInv, DeferredAreLast, InOrder
    <2>6. QED
      BY <2>2, <2>3, <2>4, <2>5 DEF IInv
  <1>3. ASSUME DiagnosisFails PROVE IInv'
    <2>1. /\ pc = "diagnosing" /\ i' = i + 1
          /\ UNCHANGED <<pc, diagnoses, spend, deferred, change>>
      BY <1>3 DEF DiagnosisFails
    <2>2. InOrder' /\ PairedOrGap' /\ ChangePaired'
      BY <2>1, PassedOver
    <2>3. QED
      BY <1>types, <2>1, <2>2
      DEF IInv, CycleTypeOK, DeferredStays, DeferredAreLast, CycleBudget, Remaining
  <1>4. ASSUME NEW c \in Cost, NEW p \in Parsed, DiagnosisAnswers(c, p) PROVE IInv'
    BY <1>4, AnswerStep
  <1>5. ASSUME Diagnosed PROVE IInv'
    BY <1>5 DEF Diagnosed, IInv, CycleTypeOK, InOrder, PairedOrGap, DeferredStays,
                ChangePaired, DeferredAreLast, CycleBudget, GapBefore
  <1>6. ASSUME ProposeNext PROVE IInv'
    <2>1. /\ pc = "proposing" /\ i > 0 /\ i <= Len(diagnoses)
          /\ pc' \in {"proposing", "applying"} /\ i' \in {i, i + 1}
          /\ UNCHANGED <<diagnoses, spend, deferred>>
          /\ change' = change \/ change' = Propose(diagnoses[i], i)
      BY <1>6, <1>types DEF ProposeNext, record, IInv, CycleTypeOK
    <2>2. change'.of # change'.issue => GapBefore(change'.of)
      <3>1. CASE change' = change
        BY <3>1 DEF IInv, ChangePaired
      <3>2. CASE change' = Propose(diagnoses[i], i)
        <4>1. change'.of = diagnoses[i].issue /\ change'.issue = i
          BY <3>2 DEF Propose
        <4>2. i \in DOMAIN diagnoses
          BY <1>types, <2>1, LenProperties
        <4>3. QED
          BY <4>1, <4>2 DEF IInv, PairedOrGap
      <3>3. QED
        BY <2>1, <3>1, <3>2
    <2>3. ChangePaired'
      BY <2>1, <2>2 DEF ChangePaired, GapBefore
    <2>4. CycleTypeOK' /\ InOrder' /\ DeferredStays'
      BY <1>types, <2>1 DEF CycleTypeOK, InOrder, DeferredStays
    <2>5. PairedOrGap' /\ DeferredAreLast' /\ CycleBudget'
      BY <2>1 DEF IInv, PairedOrGap, GapBefore, DeferredAreLast, CycleBudget
    <2>6. QED
      BY <2>3, <2>4, <2>5 DEF IInv
  <1>7. ASSUME NEW ok \in BOOLEAN, Applied(ok) PROVE IInv'
    <2>1. /\ pc = "applying" /\ pc' = "proposing" /\ i' = i + 1
          /\ UNCHANGED <<diagnoses, spend, deferred, change>>
      BY <1>7 DEF Applied
    <2>2. QED
      BY <1>types, <2>1 DEF IInv, CycleTypeOK, InOrder, PairedOrGap, DeferredStays,
                            ChangePaired, DeferredAreLast, CycleBudget, GapBefore
  <1>8. ASSUME EndQualityCheck \/ Restart PROVE IInv'
    <2>1. /\ pc' = "idle" /\ i' = 0 /\ diagnoses' = <<>>
          /\ spend' \in {0, spend} /\ deferred' = 0 /\ change' = NoChange
      BY <1>8 DEF EndQualityCheck, Restart
    <2>2. CycleBudget'
      BY <2>1 DEF IInv, CycleBudget
    <2>3. QED
      BY <1>types, <2>1, <2>2, CycleEmpty
  <1>9. ASSUME NEW j \in Job, trigger_job(j) PROVE IInv'
    BY <1>9, CycleUnchanged DEF trigger_job
  <1>10. ASSUME SelfEval \/ Age \/ ResetBreaker \/ UNCHANGED observerVars PROVE IInv'
    <2>1. UNCHANGED <<pc, cycle>>
      BY <1>10 DEF SelfEval, Age, ResetBreaker, observerVars, cycle
    <2>2. QED
      BY <2>1, CycleUnchanged
  <1>11. QED
    BY <1>1, <1>2, <1>3, <1>4, <1>5, <1>6, <1>7, <1>8, <1>9, <1>10 DEF ObserverNext, Start, Step

LEMMA Inductive == ObserverSpec => []IInv
  <1>1. ObserverInit => IInv
    <2> SUFFICES ASSUME ObserverInit PROVE IInv
      OBVIOUS
    <2>1. CycleTypeOK /\ DeferredStays /\ DeferredAreLast /\ CycleBudget
      BY DEF ObserverInit, CycleTypeOK, DeferredStays, DeferredAreLast, CycleBudget
    <2>2. InOrder /\ PairedOrGap /\ ChangePaired
      BY DEF ObserverInit, InOrder, PairedOrGap, ChangePaired, NoChange
    <2>3. QED
      BY <2>1, <2>2 DEF IInv
  <1>2. QED
    BY <1>1, StepInductive, PTL DEF ObserverSpec

\* remaining_budget is checked before each call of diagnose_batch: whatever the
\* calls cost and whichever fail, a cycle passes its budget by no more than its
\* last call cost above the estimate.
THEOREM CycleBudgetTheorem == ObserverSpec => []CycleBudget
  <1>1. IInv => CycleBudget
    BY DEF IInv
  <1>2. QED
    BY <1>1, Inductive, PTL

\* With a budget that only shrinks during a cycle, diagnose() never answers for
\* an issue less severe than one it deferred.
THEOREM DeferredAreLastTheorem == ObserverSpec => []DeferredAreLast
  <1>1. IInv => DeferredAreLast
    BY DEF IInv
  <1>2. QED
    BY <1>1, Inductive, PTL

\* For any number of issues, zip(diagnoses, issues) of the quality check proposes
\* a change for another task than the diagnosed one only when a more severe issue
\* was left without a diagnosis.
THEOREM MispairedTheorem == ObserverSpec => []MispairedOnlyAfterGap
  <1>1. IInv => MispairedOnlyAfterGap
    BY DEF IInv, ChangePaired, GapBefore, MispairedOnlyAfterGap
  <1>2. QED
    BY <1>1, Inductive, PTL
=============================================================================
