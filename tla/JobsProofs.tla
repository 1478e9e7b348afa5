----------------------------- MODULE JobsProofs -----------------------------
(***************************************************************************)
(* Proofs about EvalJobs and Sandbox, for every set of requests, number of *)
(* slots and number of restarts.  A poll of a job reads three dictionaries *)
(* and the store; the inductive invariant says of each, and of the stages  *)
(* a task passes, what it implies about the job's outcome.  The sandbox's  *)
(* semaphore hands its slots on; the invariant accounts for those that are *)
(* on their way, and every step is then a step of BoundedPool.             *)
(***************************************************************************)
EXTENDS EvalJobs, Sandbox, FiniteSetTheorems, TLAPS

\* A task that has not ended its evaluation has no outcome, in any place.
Fresh(j) == outcome[j] = "none" /\ status[j] \in {"none", "processing"} /\ j \notin results /\ j \notin errors

\* What the stage of a task implies.
StagesTrue ==
    \A j \in Job :
        /\ stage[j] \in {"unknown", "starting", "queued", "running"} => Fresh(j)
        /\ stage[j] \in {"completing", "saving"} => outcome[j] = "evaluated" /\ j \in results
        /\ stage[j] = "failing" => outcome[j] = "raised" /\ j \in errors

\* What the dictionaries and the store imply.
RecordsTrue ==
    \A j \in Job :
        /\ j \in results \/ status[j] = "completed" => outcome[j] = "evaluated"
        /\ j \in errors \/ status[j] = "failed" => outcome[j] = "raised"

\* A task that has ended in this process left its result or its error.
OverKnown == \A j \in Job : stage[j] = "over" => j \in results \cup errors

\* The inductive invariant.
IInv == TypeOK /\ StagesTrue /\ RecordsTrue /\ OverKnown /\ AnswersTrue

\* Holding is a set of jobs, and a finite one.
LEMMA HoldingFinite == IsFiniteSet(Holding) /\ Cardinality(Holding) \in Nat
<1>1. Holding \subseteq Job
  BY DEF Holding
<1> QED
  BY <1>1, JobsAssumption, FS_Subset, FS_CardinalityType

\* Fewer holders never exceed the bound.
LEMMA FewerHolders ==
    ASSUME TypeOK, Holding' \subseteq Holding
    PROVE  Cardinality(Holding') <= MaxConcurrent
<1>1. IsFiniteSet(Holding) /\ Cardinality(Holding) \in Nat
  BY HoldingFinite
<1>2. Cardinality(Holding') <= Cardinality(Holding) /\ IsFiniteSet(Holding')
  BY <1>1, FS_Subset
<1>3. Cardinality(Holding') \in Nat
  BY <1>2, FS_CardinalityType
<1> QED
  BY <1>1, <1>2, <1>3, JobsAssumption DEF TypeOK

\* The slot that Acquire takes was free.
LEMMA OneMoreHolder ==
    ASSUME TypeOK, NEW j \in Job, Acquire(j)
    PROVE  Cardinality(Holding') <= MaxConcurrent
<1>1. IsFiniteSet(Holding) /\ Cardinality(Holding) \in Nat
  BY HoldingFinite
<1>2. Holding' = Holding \cup {j} /\ j \notin Holding
  BY DEF Acquire, At, Move, Holding, TypeOK
<1>3. Cardinality(Holding') = Cardinality(Holding) + 1
  BY <1>1, <1>2, FS_AddElement
<1> QED
  BY <1>1, <1>3, JobsAssumption DEF Acquire

LEMMA InitIInv == Init => IInv
<1> SUFFICES ASSUME Init PROVE IInv
  OBVIOUS
<1>1. Holding = {} /\ Cardinality(Holding) = 0
  BY FS_EmptySet DEF Init, Holding
<1>2. \A j \in Job : stage[j] = "unknown" /\ status[j] = "none" /\ told[j].status = "none" /\ outcome[j] = "none"
  BY DEF Init, JobStatus
<1>3. stopping \in BOOLEAN
  BY DEF Init
<1>4. TypeOK
  BY <1>1, <1>2, <1>3, JobsAssumption DEF Init, TypeOK, Stage, Kept, Told, JobStatus
<1> QED
  BY <1>2, <1>4 DEF Init, IInv, StagesTrue, RecordsTrue, OverKnown, AnswersTrue, Fresh

\* The records keep their types, the registered tasks are those that wait or run,
\* and no more run than there are slots.
LEMMA TypeStep == TypeOK /\ [Next]_vars => TypeOK'
<1> SUFFICES ASSUME TypeOK, [Next]_vars PROVE TypeOK'
  OBVIOUS
<1> USE DEF Stage, Kept, At, Move, Write
<1>1. ASSUME NEW j \in Job, StartJob(j) PROVE TypeOK'
  <2>1. Holding' = Holding
    BY <1>1 DEF StartJob, Holding, TypeOK
  <2> QED
    BY <1>1, <2>1 DEF StartJob, TypeOK
<1>2. ASSUME NEW j \in Job, NEW ok \in BOOLEAN, JobStarted(j, ok) PROVE TypeOK'
  <2>1. Holding' = Holding
    BY <1>2 DEF JobStarted, Holding, TypeOK
  <2> QED
    BY <1>2, <2>1 DEF JobStarted, TypeOK
<1>3. ASSUME NEW j \in Job, Acquire(j) PROVE TypeOK'
  <2>1. Holding' = Holding \cup {j}
    BY <1>3 DEF Acquire, Holding, TypeOK
  <2>2. Cardinality(Holding') <= MaxConcurrent
    BY <1>3, OneMoreHolder
  <2> QED
    BY <1>3, <2>1, <2>2 DEF Acquire, TypeOK
<1>4. ASSUME NEW j \in Job, Evaluated(j) PROVE TypeOK'
  <2>1. Holding' = Holding
    BY <1>4 DEF Evaluated, Holding, TypeOK
  <2> QED
    BY <1>4, <2>1 DEF Evaluated, TypeOK
<1>5. ASSUME NEW j \in Job, Raised(j) PROVE TypeOK'
  <2>1. Holding' = Holding
    BY <1>5 DEF Raised, Holding, TypeOK
  <2> QED
    BY <1>5, <2>1 DEF Raised, TypeOK
<1>6. ASSUME NEW j \in Job, NEW ok \in BOOLEAN, StatusSaved(j, ok) PROVE TypeOK'
  <2>1. Holding' = Holding
    BY <1>6 DEF StatusSaved, Holding, TypeOK
  <2> QED
    BY <1>6, <2>1 DEF StatusSaved, TypeOK
<1>7. ASSUME NEW j \in Job, NEW ok \in BOOLEAN, ResultSaved(j, ok) PROVE TypeOK'
  <2>1. Holding' = Holding \ {j}
    BY <1>7 DEF ResultSaved, Holding, TypeOK
  <2>2. Cardinality(Holding') <= MaxConcurrent
    BY <2>1, FewerHolders
  <2> QED
    BY <1>7, <2>1, <2>2 DEF ResultSaved, TypeOK
<1>8. ASSUME NEW j \in Job, NEW ok \in BOOLEAN, FailureSaved(j, ok) PROVE TypeOK'
  <2>1. Holding' = Holding \ {j}
    BY <1>8 DEF FailureSaved, Holding, TypeOK
  <2>2. Cardinality(Holding') <= MaxConcurrent
    BY <2>1, FewerHolders
  <2> QED
    BY <1>8, <2>1, <2>2 DEF FailureSaved, TypeOK
<1>9. ASSUME NEW j \in Job, NEW found \in BOOLEAN, NEW whole \in BOOLEAN, Poll(j, found, whole)
      PROVE  TypeOK'
  <2>1. Holding' = Holding
    BY <1>9 DEF Poll, Holding
  <2>2. get_status(j, found, whole) \in Told
    BY DEF get_status, TypeOK, Told, JobStatus
  <2> QED
    BY <1>9, <2>1, <2>2 DEF Poll, TypeOK
<1>10. CASE Shutdown
  <2>1. Holding' = Holding
    BY <1>10 DEF Shutdown, Holding
  <2> QED
    BY <1>10, <2>1 DEF Shutdown, TypeOK
<1>11. CASE Restart
  <2>1. Holding' = {} /\ {j \in Job : stage'[j] = "queued"} = {}
    BY <1>11 DEF Restart, Holding
  <2>2. Cardinality(Holding') <= MaxConcurrent
    BY <2>1, FewerHolders
  <2>3. restarts' \in 0 .. MaxRestart
    BY <1>11, JobsAssumption DEF Restart, TypeOK
  <2>4. stopping' \in BOOLEAN /\ active' = {}
    BY <1>11 DEF Restart
  <2>5. JobStatus("none", "nothing") \in Told
    BY DEF Told, JobStatus
  <2>6. told' \in [Job -> Told]
    BY <1>11, <2>5 DEF Restart
  <2> QED
    BY <1>11, <2>1, <2>2, <2>3, <2>4, <2>6 DEF Restart, TypeOK
<1>12. CASE UNCHANGED vars
  <2>1. Holding' = Holding
    BY <1>12 DEF vars, Holding
  <2> QED
    BY <1>12, <2>1 DEF vars, TypeOK
<1> QED
  BY <1>1, <1>2, <1>3, <1>4, <1>5, <1>6, <1>7, <1>8, <1>9, <1>10, <1>11, <1>12 DEF Next, TaskStep

\* Type correctness, the registration of tasks and the bound on evaluations that
\* run at the same time, through failures of the store and restarts.
THEOREM JobsTypeCorrect == Spec => []TypeOK
<1>1. Init => TypeOK
  BY InitIInv DEF IInv
<1> QED
  BY <1>1, TypeStep, PTL DEF Spec

\* What the stages, the dictionaries and the store imply is kept by every step.
LEMMA RecordsStep ==
    ASSUME IInv, [Next]_vars
    PROVE  StagesTrue' /\ RecordsTrue' /\ OverKnown'
<1>0. TypeOK /\ TypeOK' /\ StagesTrue /\ RecordsTrue /\ OverKnown
  BY TypeStep DEF IInv
<1> USE <1>0 DEF StagesTrue, RecordsTrue, OverKnown, Fresh, At, Move, Write
<1> DEFINE Goal == StagesTrue' /\ RecordsTrue' /\ OverKnown'
<1>1. ASSUME NEW j \in Job, StartJob(j) PROVE Goal
  BY <1>1 DEF StartJob, TypeOK
<1>2. ASSUME NEW j \in Job, NEW ok \in BOOLEAN, JobStarted(j, ok) PROVE Goal
  BY <1>2 DEF JobStarted, TypeOK
<1>3. ASSUME NEW j \in Job, Acquire(j) PROVE Goal
  BY <1>3 DEF Acquire, TypeOK
<1>4. ASSUME NEW j \in Job, Evaluated(j) PROVE Goal
  BY <1>4 DEF Evaluated, TypeOK
<1>5. ASSUME NEW j \in Job, Raised(j) PROVE Goal
  BY <1>5 DEF Raised, TypeOK
<1>6. ASSUME NEW j \in Job, NEW ok \in BOOLEAN, StatusSaved(j, ok) PROVE Goal
  BY <1>6 DEF StatusSaved, TypeOK
<1>7. ASSUME NEW j \in Job, NEW ok \in BOOLEAN, ResultSaved(j, ok) PROVE Goal
  BY <1>7 DEF ResultSaved, TypeOK
<1>8. ASSUME NEW j \in Job, NEW ok \in BOOLEAN, FailureSaved(j, ok) PROVE Goal
  BY <1>8 DEF FailureSaved, TypeOK
<1>9. ASSUME NEW j \in Job, NEW found \in BOOLEAN, NEW whole \in BOOLEAN, Poll(j, found, whole)
      PROVE  Goal
  BY <1>9 DEF Poll
<1>10. CASE Shutdown
  BY <1>10 DEF Shutdown
<1>11. CASE Restart
  BY <1>11 DEF Restart, TypeOK
<1>12. CASE UNCHANGED vars
  BY <1>12 DEF vars
<1> QED
  BY <1>1, <1>2, <1>3, <1>4, <1>5, <1>6, <1>7, <1>8, <1>9, <1>10, <1>11, <1>12 DEF Next, TaskStep

\* A step that answers nobody: an outcome is reached once, and a job that is gone stays so.
Spared ==
    \A i \in Job : /\ told'[i] = told[i]
                   /\ outcome'[i] = outcome[i] \/ outcome[i] = "none"
                   /\ stage[i] = "gone" => stage'[i] = "gone"

\* Such a step keeps the answers true.
LEMMA AnswersKept == AnswersTrue /\ Spared => AnswersTrue'
<1> HAVE AnswersTrue /\ Spared
<1> SUFFICES ASSUME NEW j \in Job
             PROVE  /\ told'[j].status = "completed" =>
                           outcome'[j] = "evaluated" /\ (told'[j].brings = "evaluation" \/ stage'[j] = "gone")
                    /\ told'[j].status = "failed" =>
                           \/ told'[j].brings = "error" /\ outcome'[j] = "raised"
                           \/ told'[j].brings = "Job not found" /\ stage'[j] = "gone"
  BY DEF AnswersTrue, At
<1>1. told'[j] = told[j] /\ (outcome'[j] = outcome[j] \/ outcome[j] = "none") /\ (stage[j] = "gone" => stage'[j] = "gone")
  BY DEF Spared
<1>2. /\ told[j].status = "completed" => outcome[j] = "evaluated" /\ (told[j].brings = "evaluation" \/ stage[j] = "gone")
      /\ told[j].status = "failed" =>
             \/ told[j].brings = "error" /\ outcome[j] = "raised"
             \/ told[j].brings = "Job not found" /\ stage[j] = "gone"
  BY DEF AnswersTrue, At
<1> QED
  BY ONLY <1>1, <1>2

\* Every answer is true when it is given and stays so.
LEMMA AnswersStep ==
    ASSUME IInv, [Next]_vars
    PROVE  AnswersTrue'
<1>0. TypeOK /\ StagesTrue /\ RecordsTrue /\ OverKnown /\ AnswersTrue
  BY DEF IInv
<1> USE DEF At, Move
<1>1. ASSUME NEW j \in Job, StartJob(j) PROVE Spared
  BY <1>0, <1>1 DEF StartJob, TypeOK, Spared
<1>2. ASSUME NEW j \in Job, TaskStep(j) PROVE Spared
  <2>1. told' = told
    BY <1>2 DEF TaskStep, Acquire, Evaluated, Raised, JobStarted, StatusSaved, ResultSaved, FailureSaved
  <2>2. stage[j] # "gone" /\ \E s \in Stage : stage' = [stage EXCEPT ![j] = s]
    BY <1>2 DEF TaskStep, Acquire, Evaluated, Raised, JobStarted, StatusSaved, ResultSaved, FailureSaved, Stage
  <2>3. outcome' = outcome \/ (outcome[j] = "none" /\ \E o \in {"evaluated", "raised"} : outcome' = [outcome EXCEPT ![j] = o])
    BY <1>0, <1>2 DEF TaskStep, Acquire, Evaluated, Raised, JobStarted, StatusSaved, ResultSaved, FailureSaved,
                      StagesTrue, Fresh
  <2> QED
    BY <1>0, <2>1, <2>2, <2>3 DEF TypeOK, Spared
<1>3. ASSUME NEW j \in Job, NEW found \in BOOLEAN, NEW whole \in BOOLEAN, Poll(j, found, whole)
      PROVE  AnswersTrue'
  <2> DEFINE s == get_status(j, found, whole)
  <2>0. stage[j] \in {"queued", "running", "completing", "saving", "failing", "over", "gone"}
    BY <1>0, <1>3 DEF Poll, TypeOK, Stage
  <2>1. stage[j] # "gone" => j \in results \cup errors \cup active
    BY <1>0, <2>0 DEF TypeOK, Holding, OverKnown
  <2>2. s.status = "completed" => outcome[j] = "evaluated" /\ (s.brings = "evaluation" \/ stage[j] = "gone")
    BY <1>0, <2>1 DEF get_status, JobStatus, RecordsTrue
  <2>3. s.status = "failed" =>
            \/ s.brings = "error" /\ outcome[j] = "raised"
            \/ s.brings = "Job not found" /\ stage[j] = "gone"
    BY <1>0, <2>1 DEF get_status, JobStatus, RecordsTrue
  <2>4. told'[j] = s /\ (\A i \in Job \ {j} : told'[i] = told[i]) /\ UNCHANGED <<stage, outcome>>
    BY <1>0, <1>3 DEF Poll, TypeOK
  <2> HIDE DEF s
  <2> SUFFICES ASSUME NEW i \in Job
               PROVE  /\ told'[i].status = "completed" =>
                             outcome[i] = "evaluated" /\ (told'[i].brings = "evaluation" \/ stage[i] = "gone")
                      /\ told'[i].status = "failed" =>
                             \/ told'[i].brings = "error" /\ outcome[i] = "raised"
                             \/ told'[i].brings = "Job not found" /\ stage[i] = "gone"
    BY <2>4 DEF AnswersTrue
  <2>5. CASE i = j
    BY <2>2, <2>3, <2>4, <2>5
  <2>6. CASE i # j
    BY <1>0, <2>4, <2>6 DEF AnswersTrue
  <2> QED
    BY <2>5, <2>6
<1>4. CASE Restart
  <2>1. \A i \in Job : told'[i].status = "none"
    BY <1>4 DEF Restart, JobStatus
  <2> QED
    BY <2>1 DEF AnswersTrue
<1>5. Spared => AnswersTrue'
  BY <1>0, AnswersKept
<1>6. (Shutdown \/ UNCHANGED vars) => Spared
  BY DEF Shutdown, vars, Spared
<1> QED
  BY <1>1, <1>2, <1>3, <1>4, <1>5, <1>6 DEF Next

LEMMA IInvStep == IInv /\ [Next]_vars => IInv'
BY TypeStep, RecordsStep, AnswersStep DEF IInv

\* A client is told completed only of a job that was evaluated and failed with an error only of
\* one that raised, in the process that ran it and in every later one, whichever writes and reads
\* of the state store fail; "Job not found" (jobs.py:159) only by a later process.
THEOREM JobAnswersTrue == Spec => []AnswersTrue
<1>1. IInv => AnswersTrue
  BY DEF IInv
<1> QED
  BY <1>1, InitIInv, IInvStep, PTL DEF Spec
-----------------------------------------------------------------------------
(* The sandbox's pool *)

Places == {"new", "waiting", "downloading", "creating", "scripting", "removing", "done", "lost"}
InASlot == {"downloading", "creating", "scripting", "removing"}

SandboxTypeOK ==
    /\ place \in [Execution -> Places]
    /\ program \in [Execution -> Program]
    /\ refused \subseteq Execution /\ dirs \subseteq Execution /\ containers \subseteq Execution
    /\ value \in Nat /\ woken \in Nat /\ queued \in Nat
    /\ waiters \in Seq(Execution)

\* Every slot is free, taken, or on its way to a waiter that has been woken.
SlotsAddUp == value + woken + Cardinality(InSlot) = Slots

\* The waiters are requests that wait, each once; those that have been given a
\* slot are among them; the counter that is_queue_full reads is their number.
LineSound ==
    /\ \A i \in 1 .. Len(waiters) : place[waiters[i]] = "waiting"
    /\ \A i, k \in 1 .. Len(waiters) : waiters[i] = waiters[k] => i = k
    /\ woken <= Len(waiters)
    /\ queued = Len(waiters)

\* A refused request has been answered.
RefusedSound == \A e \in refused : place[e] = "done"

\* Directories and containers belong to a request in its slot, or to one that a
\* kill ended; what is left besides is what Docker or rmtree failed at.
Litter ==
    /\ \A e \in dirs : place[e] \in InASlot \cup {"lost"} \/ e \in undeleted
    /\ \A e \in containers : place[e] \in {"scripting", "removing", "lost"} \/ e \in stuck \cup unseen

PoolInv == SandboxTypeOK /\ SlotsAddUp /\ LineSound /\ RefusedSound /\ Litter

PoolStep == [Pool!PoolNext]_Pool!poolVars

LEMMA InSlotFinite == IsFiniteSet(InSlot) /\ Cardinality(InSlot) \in Nat
<1>1. InSlot \subseteq Execution
  BY DEF InSlot
<1> QED
  BY <1>1, SandboxAssumption, FS_Subset, FS_CardinalityType

\* A request that comes to have a slot is one more; one that leaves it one fewer.
LEMMA OneMoreSlot ==
    ASSUME NEW e, e \notin InSlot, InSlot' = InSlot \cup {e}
    PROVE  Cardinality(InSlot') = Cardinality(InSlot) + 1
BY InSlotFinite, FS_AddElement

LEMMA OneSlotFewer ==
    ASSUME NEW e, e \in InSlot, InSlot' = InSlot \ {e}
    PROVE  Cardinality(InSlot') = Cardinality(InSlot) - 1
BY InSlotFinite, FS_RemoveElement

\* What a request that has just come is to the pool: outside.
LEMMA NewIsOutside ==
    ASSUME PoolInv, NEW e \in Execution, place[e] = "new"
    PROVE  Pool!Outside(e) /\ e \notin InSlot
<1>1. e \notin InSlot
  BY DEF InSlot
<1>2. e \notin Pool!Queued
  BY DEF Pool!Queued, PoolInv, LineSound
<1>3. e \notin refused
  BY DEF PoolInv, RefusedSound
<1> QED
  BY <1>1, <1>2, <1>3 DEF Pool!Outside

LEMMA TurnAwayStep ==
    ASSUME PoolInv, NEW e \in Execution, NEW p \in Program, TurnAway(e, p) \/ Reject(e, p)
    PROVE  PoolInv' /\ PoolStep
<1>1. /\ place[e] = "new"
      /\ place' = [place EXCEPT ![e] = "done"] /\ program' = [program EXCEPT ![e] = p]
      /\ \/ refused' = refused
         \/ refused' = refused \cup {e} /\ is_queue_full
      /\ UNCHANGED <<value, waiters, woken, queued, dirs, containers, stuck, unseen, undeleted>>
  BY DEF TurnAway, Reject, Arrive
<1>2. SandboxTypeOK'
  BY <1>1 DEF PoolInv, SandboxTypeOK, Places
<1>3. InSlot' = InSlot
  BY <1>1 DEF InSlot, PoolInv, SandboxTypeOK
<1>4. SlotsAddUp'
  BY <1>1, <1>3 DEF PoolInv, SlotsAddUp
<1>5. LineSound'
  BY <1>1 DEF PoolInv, SandboxTypeOK, LineSound
<1>6. RefusedSound' /\ Litter'
  BY <1>1 DEF PoolInv, SandboxTypeOK, RefusedSound, Litter, InASlot
<1>7. PoolStep
  <2>1. CASE refused' = refused
    BY <1>1, <1>3, <2>1 DEF PoolStep, Pool!poolVars
  <2>2. CASE refused' = refused \cup {e} /\ is_queue_full
    <3>1. Len(waiters) >= QueueSize
      BY <2>2 DEF is_queue_full, PoolInv, LineSound
    <3>2. Pool!Refuse(e)
      BY <1>1, <1>3, <2>2, <3>1, NewIsOutside DEF Pool!Refuse
    <3>3. QED
      BY <3>2 DEF PoolStep, Pool!PoolNext
  <2>3. QED
    BY <1>1, <2>1, <2>2
<1> QED
  BY <1>2, <1>4, <1>5, <1>6, <1>7 DEF PoolInv

LEMMA LineStep ==
    ASSUME PoolInv, NEW e \in Execution, NEW p \in Program, Line(e, p)
    PROVE  PoolInv' /\ PoolStep
<1>1. /\ place[e] = "new" /\ ~is_queue_full
      /\ place' = [place EXCEPT ![e] = "waiting"] /\ program' = [program EXCEPT ![e] = p]
      /\ waiters' = Append(waiters, e) /\ queued' = queued + 1
      /\ UNCHANGED <<refused, value, woken, dirs, containers, stuck, unseen, undeleted>>
  BY DEF Line, Arrive
<1>w. waiters \in Seq(Execution)
  BY DEF PoolInv, SandboxTypeOK
<1>a. /\ waiters' \in Seq(Execution) /\ Len(waiters') = Len(waiters) + 1
      /\ \A i \in 1 .. Len(waiters) : waiters'[i] = waiters[i]
      /\ waiters'[Len(waiters) + 1] = e
  BY <1>1, <1>w
<1>2. SandboxTypeOK'
  BY <1>1, <1>a DEF PoolInv, SandboxTypeOK, Places
<1>3. InSlot' = InSlot
  BY <1>1 DEF InSlot, PoolInv, SandboxTypeOK
<1>4. SlotsAddUp'
  BY <1>1, <1>3 DEF PoolInv, SlotsAddUp
<1>5. LineSound'
  <2>1. \A i \in 1 .. Len(waiters) : waiters[i] \in Execution /\ waiters[i] # e /\ place[waiters[i]] = "waiting"
    BY <1>1, <1>w DEF PoolInv, LineSound
  <2>2. \A i \in 1 .. Len(waiters) : place'[waiters'[i]] = "waiting" /\ waiters'[i] # e
    BY <1>1, <1>a, <2>1 DEF PoolInv, SandboxTypeOK
  <2>3. place'[e] = "waiting"
    BY <1>1 DEF PoolInv, SandboxTypeOK
  <2>4. Len(waiters) \in Nat
    BY <1>w
  <2>5. ASSUME NEW i \in 1 .. Len(waiters') PROVE i \in 1 .. Len(waiters) \/ i = Len(waiters) + 1
    BY <1>a, <2>4
  <2>6. \A i, k \in 1 .. Len(waiters') : waiters'[i] = waiters'[k] => i = k
    <3> SUFFICES ASSUME NEW i \in 1 .. Len(waiters'), NEW k \in 1 .. Len(waiters'),
                        waiters'[i] = waiters'[k]
                 PROVE  i = k
      OBVIOUS
    <3>1. CASE i \in 1 .. Len(waiters) /\ k \in 1 .. Len(waiters)
      BY <1>a, <3>1 DEF PoolInv, LineSound
    <3>2. QED
      BY <1>a, <2>2, <2>5, <3>1
  <2>7. QED
    BY <1>1, <1>a, <2>2, <2>3, <2>4, <2>5, <2>6 DEF PoolInv, SandboxTypeOK, LineSound
<1>6. RefusedSound' /\ Litter'
  BY <1>1 DEF PoolInv, SandboxTypeOK, RefusedSound, Litter, InASlot
<1>7. PoolStep
  <2>1. Len(waiters) < QueueSize
    BY <1>1, SandboxAssumption DEF is_queue_full, PoolInv, SandboxTypeOK, LineSound
  <2>2. Pool!Wait(e)
    BY <1>1, <1>3, <2>1, NewIsOutside DEF Pool!Wait
  <2>3. QED
    BY <2>2 DEF PoolStep, Pool!PoolNext
<1> QED
  BY <1>2, <1>4, <1>5, <1>6, <1>7 DEF PoolInv

LEMMA EnterAtOnceStep ==
    ASSUME PoolInv, NEW e \in Execution, NEW p \in Program, EnterAtOnce(e, p)
    PROVE  PoolInv' /\ PoolStep
<1>1. /\ place[e] = "new"
      /\ \E in \in {"downloading", "creating"} : place' = [place EXCEPT ![e] = in]
      /\ program' = [program EXCEPT ![e] = p]
      /\ value > 0 /\ waiters = <<>> /\ value' = value - 1
      /\ dirs' = dirs \cup {e}
      /\ UNCHANGED <<refused, waiters, woken, queued, containers, stuck, unseen, undeleted>>
  BY DEF EnterAtOnce, Arrive, Admitted
<1>2. SandboxTypeOK'
  BY <1>1 DEF PoolInv, SandboxTypeOK, Places
<1>3. e \notin InSlot /\ InSlot' = InSlot \cup {e}
  BY <1>1 DEF InSlot, PoolInv, SandboxTypeOK
<1>c. Cardinality(InSlot') = Cardinality(InSlot) + 1 /\ Cardinality(InSlot) \in Nat
  BY <1>3, OneMoreSlot, InSlotFinite
<1>4. SlotsAddUp'
  BY <1>1, <1>c DEF PoolInv, SandboxTypeOK, SlotsAddUp
<1>5. LineSound'
  BY <1>1 DEF PoolInv, SandboxTypeOK, LineSound
<1>6. RefusedSound' /\ Litter'
  BY <1>1 DEF PoolInv, SandboxTypeOK, RefusedSound, Litter, InASlot
<1>7. PoolStep
  <2>0. Cardinality(InSlot) < Slots
    BY <1>1, <1>c, SandboxAssumption DEF PoolInv, SandboxTypeOK, SlotsAddUp
  <2>1. Pool!Free
    BY <2>0, Zenon DEF Pool!Free, Pool!Cardinality, Cardinality
  <2>2. Pool!Enter(e)
    BY <1>1, <1>3, <2>1, NewIsOutside DEF Pool!Enter
  <2>3. QED
    BY <2>2 DEF PoolStep, Pool!PoolNext
<1> QED
  BY <1>2, <1>4, <1>5, <1>6, <1>7 DEF PoolInv

\* The first of the line enters: the slot it was woken for was still its own.
LEMMA EnterFromLineStep ==
    ASSUME PoolInv, NEW e \in Execution, EnterFromLine(e)
    PROVE  PoolInv' /\ PoolStep
<1> DEFINE more == IF value < Len(waiters) - woken THEN value ELSE Len(waiters) - woken
<1>1. /\ woken > 0 /\ e = Head(waiters)
      /\ \E in \in {"downloading", "creating"} : place' = [place EXCEPT ![e] = in]
      /\ waiters' = Tail(waiters) /\ queued' = queued - 1
      /\ woken' = woken - 1 + more /\ value' = value - more
      /\ dirs' = dirs \cup {e}
      /\ UNCHANGED <<program, refused, containers, stuck, unseen, undeleted>>
  BY DEF EnterFromLine, Admitted
<1>w. waiters \in Seq(Execution) /\ Len(waiters) \in Nat /\ Len(waiters) > 0 /\ woken <= Len(waiters)
  BY <1>1 DEF PoolInv, SandboxTypeOK, LineSound
<1>a. /\ waiters # <<>> /\ e = waiters[1]
      /\ waiters' \in Seq(Execution) /\ Len(waiters') = Len(waiters) - 1
      /\ \A i \in 1 .. Len(waiters) - 1 : waiters'[i] = waiters[i + 1]
  BY <1>1, <1>w
<1>m. /\ more \in Nat /\ more <= value /\ woken + more <= Len(waiters)
  BY <1>w DEF PoolInv, SandboxTypeOK
<1> HIDE DEF more
<1>n. woken' \in Nat /\ value' \in Nat /\ queued' \in Nat
  BY <1>1, <1>m, <1>w DEF PoolInv, SandboxTypeOK, LineSound
<1>2. SandboxTypeOK'
  BY <1>1, <1>a, <1>n DEF PoolInv, SandboxTypeOK, Places
<1>p. place[e] = "waiting"
  BY <1>a, <1>w DEF PoolInv, LineSound
<1>3. e \notin InSlot /\ InSlot' = InSlot \cup {e}
  BY <1>1, <1>p DEF InSlot, PoolInv, SandboxTypeOK
<1>c. Cardinality(InSlot') = Cardinality(InSlot) + 1 /\ Cardinality(InSlot) \in Nat
  BY <1>3, OneMoreSlot, InSlotFinite
<1>4. SlotsAddUp'
  BY <1>1, <1>c, <1>m DEF PoolInv, SandboxTypeOK, SlotsAddUp
<1>5. LineSound'
  <2>1. ASSUME NEW i \in 1 .. Len(waiters')
        PROVE  i + 1 \in 1 .. Len(waiters) /\ waiters'[i] = waiters[i + 1]
    BY <1>a, <1>w
  <2>2. ASSUME NEW i \in 1 .. Len(waiters') PROVE place'[waiters'[i]] = "waiting"
    <3>1. waiters[i + 1] # e /\ waiters[i + 1] \in Execution /\ place[waiters[i + 1]] = "waiting"
      BY <1>a, <1>w, <2>1 DEF PoolInv, LineSound
    <3>2. QED
      BY <1>1, <2>1, <3>1 DEF PoolInv, SandboxTypeOK
  <2>3. ASSUME NEW i \in 1 .. Len(waiters'), NEW k \in 1 .. Len(waiters'), waiters'[i] = waiters'[k]
        PROVE  i = k
    <3>1. waiters[i + 1] = waiters[k + 1]
      BY <2>1, <2>3
    <3>2. i + 1 = k + 1
      BY <2>1, <3>1 DEF PoolInv, LineSound
    <3>3. QED
      BY <1>a, <1>w, <3>2
  <2>4. woken' <= Len(waiters') /\ queued' = Len(waiters')
    BY <1>1, <1>a, <1>m, <1>w DEF PoolInv, SandboxTypeOK, LineSound
  <2>5. QED
    BY <2>2, <2>3, <2>4 DEF LineSound
<1>6. RefusedSound' /\ Litter'
  BY <1>1, <1>p DEF PoolInv, SandboxTypeOK, RefusedSound, Litter, InASlot
<1>7. PoolStep
  <2>0. Cardinality(InSlot) < Slots
    BY <1>1, <1>c, SandboxAssumption DEF PoolInv, SandboxTypeOK, SlotsAddUp
  <2>1. Pool!Free
    BY <2>0, Zenon DEF Pool!Free, Pool!Cardinality, Cardinality
  <2>2. Pool!Serve
    BY <1>1, <1>3, <1>a, <2>1 DEF Pool!Serve
  <2>3. QED
    BY <2>2 DEF PoolStep, Pool!PoolNext
<1> QED
  BY <1>2, <1>4, <1>5, <1>6, <1>7 DEF PoolInv

\* The end of execute, however it came to it: the slot is free or on its way to a
\* waiter, and the directory is gone unless rmtree failed.
LEMMA FinishStep ==
    ASSUME PoolInv, NEW e \in Execution, NEW good, Finish(e, good), place[e] \in InASlot,
           UNCHANGED <<program, refused, waiters, queued>>,
           containers' \subseteq containers \cup {e}, stuck \subseteq stuck', unseen \subseteq unseen',
           e \in containers' => e \in stuck' \cup unseen'
    PROVE  PoolInv' /\ PoolStep
<1>1. /\ place' = [place EXCEPT ![e] = "done"]
      /\ dirs' \subseteq dirs /\ undeleted \subseteq undeleted' /\ (e \in dirs' => e \in undeleted')
      /\ \/ woken < Len(waiters) /\ woken' = woken + 1 /\ value' = value
         \/ woken' = woken /\ value' = value + 1
  BY DEF Finish, DeleteDirectory, Release
<1>2. SandboxTypeOK'
  BY <1>1 DEF PoolInv, SandboxTypeOK, Places
<1>3. e \in InSlot /\ InSlot' = InSlot \ {e}
  BY <1>1 DEF InSlot, InASlot, PoolInv, SandboxTypeOK
<1>c. Cardinality(InSlot') = Cardinality(InSlot) - 1 /\ Cardinality(InSlot) \in Nat
  BY <1>3, OneSlotFewer, InSlotFinite
<1>4. SlotsAddUp'
  BY <1>1, <1>c DEF PoolInv, SandboxTypeOK, SlotsAddUp
<1>5. LineSound'
  <2>1. \A i \in 1 .. Len(waiters) : place'[waiters[i]] = "waiting"
    BY <1>1 DEF PoolInv, SandboxTypeOK, LineSound, InASlot
  <2>2. woken' <= Len(waiters)
    BY <1>1 DEF PoolInv, SandboxTypeOK, LineSound
  <2>3. QED
    BY <2>1, <2>2 DEF PoolInv, LineSound
<1>6. RefusedSound' /\ Litter'
  BY <1>1 DEF PoolInv, SandboxTypeOK, RefusedSound, Litter, InASlot
<1>7. PoolStep
  <2>1. Pool!Leave(e)
    BY <1>3 DEF Pool!Leave
  <2>2. QED
    BY <2>1 DEF PoolStep, Pool!PoolNext
<1> QED
  BY <1>2, <1>4, <1>5, <1>6, <1>7 DEF PoolInv

\* A request that goes on in its slot: the pool does not notice.
LEMMA GoOnStep ==
    ASSUME PoolInv, NEW e \in Execution, NEW there \in InASlot,
           place[e] \in InASlot, place' = [place EXCEPT ![e] = there],
           UNCHANGED <<program, refused, value, waiters, woken, queued, dirs, stuck, unseen, undeleted>>,
           containers' = containers \/ containers' = containers \cup {e},
           there \notin {"scripting", "removing"} => containers' = containers /\ place[e] = "downloading"
    PROVE  PoolInv' /\ PoolStep
<1>2. SandboxTypeOK'
  BY DEF PoolInv, SandboxTypeOK, Places, InASlot
<1>3. InSlot' = InSlot
  BY DEF InSlot, InASlot, PoolInv, SandboxTypeOK
<1>4. SlotsAddUp'
  BY <1>3 DEF PoolInv, SlotsAddUp
<1>5. LineSound'
  BY DEF PoolInv, SandboxTypeOK, LineSound, InASlot
<1>6. RefusedSound'
  BY DEF PoolInv, SandboxTypeOK, RefusedSound, InASlot
<1>7. Litter'
  <2>1. \A c \in containers' : place'[c] \in {"scripting", "removing", "lost"} \/ c \in stuck' \cup unseen'
    BY DEF PoolInv, SandboxTypeOK, Litter, InASlot
  <2>2. \A d \in dirs' : place'[d] \in InASlot \cup {"lost"} \/ d \in undeleted'
    BY DEF PoolInv, SandboxTypeOK, Litter
  <2>3. QED
    BY <2>1, <2>2 DEF Litter
<1>8. PoolStep
  BY <1>3 DEF PoolStep, Pool!poolVars
<1> QED
  BY <1>2, <1>4, <1>5, <1>6, <1>7, <1>8 DEF PoolInv

LEMMA DownloadStep ==
    ASSUME PoolInv, NEW e \in Execution, Download(e)
    PROVE  PoolInv' /\ PoolStep
<1>1. /\ place[e] = "downloading"
      /\ e \in containers => e \in stuck \cup unseen
      /\ UNCHANGED <<program, refused, waiters, queued, containers, stuck, unseen>>
  BY DEF Download, PoolInv, Litter
<1>2. CASE Finish(e, FALSE)
  BY <1>1, <1>2, FinishStep DEF InASlot
<1>3. CASE /\ place' = [place EXCEPT ![e] = "creating"]
           /\ UNCHANGED <<value, woken, running, counts, dirs, undeleted>>
  BY <1>1, <1>3, GoOnStep DEF InASlot
<1> QED
  BY <1>2, <1>3 DEF Download

LEMMA CreateContainerStep ==
    ASSUME PoolInv, NEW e \in Execution, CreateContainer(e)
    PROVE  PoolInv' /\ PoolStep
<1>1. /\ place[e] = "creating"
      /\ e \in containers => e \in stuck \cup unseen
      /\ UNCHANGED <<program, refused, waiters, queued, stuck>>
  BY DEF CreateContainer, PoolInv, Litter
<1>2. ASSUME NEW made \in SUBSET {e}, Finish(e, FALSE),
             containers' = containers \cup made, unseen' = unseen \cup made
      PROVE  PoolInv' /\ PoolStep
  <2>1. containers' \subseteq containers \cup {e} /\ stuck \subseteq stuck' /\ unseen \subseteq unseen'
    BY <1>1, <1>2
  <2>2. e \in containers' => e \in stuck' \cup unseen'
    BY <1>1, <1>2
  <2> QED
    BY <1>1, <1>2, <2>1, <2>2, FinishStep DEF InASlot
<1>3. ASSUME NEW how \in {"scripting", "removing"}, place' = [place EXCEPT ![e] = how],
             containers' = containers \cup {e},
             UNCHANGED <<value, woken, running, counts, dirs, undeleted, unseen>>
      PROVE  PoolInv' /\ PoolStep
  BY <1>1, <1>3, GoOnStep DEF InASlot
<1> QED
  BY <1>2, <1>3 DEF CreateContainer

LEMMA RunScriptStep ==
    ASSUME PoolInv, NEW e \in Execution, RunScript(e)
    PROVE  PoolInv' /\ PoolStep
<1>1. /\ place[e] = "scripting" /\ place' = [place EXCEPT ![e] = "removing"]
      /\ UNCHANGED <<program, refused, value, waiters, woken, queued, dirs, containers, stuck, unseen, undeleted>>
  BY DEF RunScript
<1> QED
  BY <1>1, GoOnStep DEF InASlot

LEMMA RemoveContainerStep ==
    ASSUME PoolInv, NEW e \in Execution, RemoveContainer(e)
    PROVE  PoolInv' /\ PoolStep
<1>1. PICK raised \in BOOLEAN : Finish(e, script = "ok" /\ ~raised)
  BY DEF RemoveContainer
<1>2. /\ place[e] = "removing"
      /\ UNCHANGED <<program, refused, waiters, queued, unseen>>
      /\ containers' \subseteq containers \cup {e} /\ stuck \subseteq stuck'
      /\ e \in containers' => e \in stuck'
  BY DEF RemoveContainer
<1> QED
  BY <1>1, <1>2, FinishStep DEF InASlot

\* A kill empties the pool; what it leaves on disk belongs to requests that are lost.
LEMMA KillStep ==
    ASSUME PoolInv, Kill
    PROVE  PoolInv' /\ PoolStep
<1>1. /\ place' = [e \in Execution |-> IF place[e] \in {"new", "done"} THEN place[e] ELSE "lost"]
      /\ value' = Slots /\ waiters' = <<>> /\ woken' = 0 /\ queued' = 0
      /\ UNCHANGED <<program, refused, dirs, containers, stuck, unseen, undeleted>>
  BY DEF Kill
<1>2. SandboxTypeOK'
  BY <1>1, SandboxAssumption DEF PoolInv, SandboxTypeOK, Places
<1>3. InSlot' = {}
  BY <1>1 DEF InSlot
<1>4. SlotsAddUp'
  <2>1. Cardinality(InSlot') = 0
    BY <1>3, FS_EmptySet
  <2>2. QED
    BY <1>1, <2>1, SandboxAssumption DEF SlotsAddUp
<1>5. LineSound' /\ RefusedSound'
  BY <1>1 DEF PoolInv, SandboxTypeOK, LineSound, RefusedSound
<1>6. Litter'
  BY <1>1 DEF PoolInv, SandboxTypeOK, Litter, InASlot
<1>7. PoolStep
  <2>1. Pool!Reset
    BY <1>1, <1>3 DEF Pool!Reset
  <2>2. QED
    BY <2>1 DEF PoolStep, Pool!PoolNext
<1> QED
  BY <1>2, <1>4, <1>5, <1>6, <1>7 DEF PoolInv

LEMMA PoolInductive == PoolInv /\ [SandboxNext]_sandboxVars => PoolInv' /\ PoolStep
<1> SUFFICES ASSUME PoolInv, [SandboxNext]_sandboxVars PROVE PoolInv' /\ PoolStep
  OBVIOUS
<1>1. ASSUME NEW e \in Execution, NEW p \in Program,
             TurnAway(e, p) \/ Reject(e, p) \/ EnterAtOnce(e, p) \/ Line(e, p)
      PROVE  PoolInv' /\ PoolStep
  BY <1>1, TurnAwayStep, EnterAtOnceStep, LineStep
<1>2. ASSUME NEW e \in Execution, Serving(e) PROVE PoolInv' /\ PoolStep
  BY <1>2, EnterFromLineStep, DownloadStep, CreateContainerStep, RunScriptStep,
     RemoveContainerStep DEF Serving
<1>3. CASE Kill
  BY <1>3, KillStep
<1>4. CASE UNCHANGED sandboxVars
  <2>1. PoolInv'
    BY <1>4 DEF sandboxVars, PoolInv, SandboxTypeOK, SlotsAddUp, LineSound, RefusedSound, Litter, InSlot
  <2>2. PoolStep
    BY <1>4 DEF sandboxVars, PoolStep, Pool!poolVars, InSlot
  <2>3. QED
    BY <2>1, <2>2
<1> QED
  BY <1>1, <1>2, <1>3, <1>4 DEF SandboxNext

LEMMA PoolInitially == SandboxInit => PoolInv /\ Pool!PoolInit
<1> SUFFICES ASSUME SandboxInit PROVE PoolInv /\ Pool!PoolInit
  OBVIOUS
<1>1. InSlot = {} /\ Cardinality(InSlot) = 0
  BY FS_EmptySet DEF SandboxInit, InSlot
<1>2. SandboxTypeOK
  BY SandboxAssumption DEF SandboxInit, SandboxTypeOK, Places, Program
<1>3. SlotsAddUp
  BY <1>1, SandboxAssumption DEF SandboxInit, SlotsAddUp
<1>4. LineSound /\ RefusedSound /\ Litter
  BY DEF SandboxInit, LineSound, RefusedSound, Litter
<1>5. Pool!PoolInit
  BY <1>1 DEF SandboxInit, Pool!PoolInit
<1> QED
  BY <1>2, <1>3, <1>4, <1>5 DEF PoolInv

\* ExecutionManager implements the safety of the pool it promises, for any number
\* of requests, slots and places in the queue: asyncio's semaphore with its
\* wake-ups, the counters beside it and kills of the process let in no more than
\* Slots requests, overtake nobody and refuse only for a full queue.
THEOREM PoolRefinement == SandboxSpec => Pool!PoolSafety
<1>1. PoolInv /\ [SandboxNext]_sandboxVars => [Pool!PoolNext]_Pool!poolVars
  BY PoolInductive DEF PoolStep
<1>2. QED
  BY <1>1, PoolInitially, PoolInductive, PTL DEF SandboxSpec, Pool!PoolSafety

\* The finally clauses of execute and of DockerBackend.execute leave no directory and no container
\* behind a request that ended in any way but a kill of the process, apart from what rmtree or
\* Docker failed at, for any number of requests, slots and failures.
THEOREM NothingLeftBehindTheorem == SandboxSpec => []NothingLeftBehind
<1>1. PoolInv => NothingLeftBehind
  BY DEF PoolInv, SandboxTypeOK, Litter, NothingLeftBehind, InSlot, InASlot
<1>2. QED
  BY <1>1, PoolInitially, PoolInductive, PTL DEF SandboxSpec
=============================================================================
