------------------------------ MODULE EvalJobs ------------------------------
(***************************************************************************)
(* agent-eval's JobManager (agent-eval/src/jobs.py): evaluations run as    *)
(* background tasks behind a semaphore and are polled, on one event loop.  *)
(* An action is the code between two awaits.  StateClient never raises: a  *)
(* write is accepted or not, a read finds something or returns None.  The  *)
(* memory service serves none of its paths today, which is the behaviour   *)
(* where every call fails.                                                 *)
(***************************************************************************)
EXTENDS Naturals, FiniteSets

CONSTANTS
    Job,            \* the evaluations that may be asked for
    MaxConcurrent,  \* max_concurrent_evaluations
    MaxRestart      \* bound on the restarts of a behaviour

ASSUME JobsAssumption ==
    /\ IsFiniteSet(Job)
    /\ MaxConcurrent \in Nat \ {0}
    /\ MaxRestart \in Nat

VARIABLES
    stage,      \* [Job -> Stage]: the await the job's task stands at
    active,     \* _active_tasks
    results,    \* keys of _results
    errors,     \* keys of _errors
    status,     \* [Job -> Kept]: the status in the state store
    saved,      \* jobs whose result is in the state store
    stopping,   \* SIGTERM came: no more requests are served
    told,       \* [Job -> Told]: the last answer of this process to a poll
    outcome,    \* history, [Job -> {"none", "evaluated", "raised"}]
    restarts

vars == <<stage, active, results, errors, status, saved, stopping, told, outcome, restarts>>

\* starting: start_job's set_job_status.  queued: the semaphore.  running: the
\* evaluation.  completing, saving, failing: the writes at its end.
Stage == {"unknown", "starting", "queued", "running", "completing", "saving", "failing", "over", "gone"}

Kept == {"none", "processing", "completed", "failed"}

\* A JobStatus, and what it brings: the evaluation, the error of the job that raised, the error
\* "Job not found", or nothing.
Told == [status : Kept, brings : {"nothing", "evaluation", "error", "Job not found"}]

JobStatus(s, what) == [status |-> s, brings |-> what]

Holding == {j \in Job : stage[j] \in {"running", "completing", "saving", "failing"}}

TypeOK ==
    /\ stage \in [Job -> Stage]
    /\ active \subseteq Job /\ results \subseteq Job /\ errors \subseteq Job /\ saved \subseteq Job
    /\ status \in [Job -> Kept]
    /\ told \in [Job -> Told]
    /\ outcome \in [Job -> {"none", "evaluated", "raised"}]
    /\ stopping \in BOOLEAN
    /\ restarts \in 0 .. MaxRestart
    /\ active = Holding \cup {j \in Job : stage[j] = "queued"}
    /\ Cardinality(Holding) <= MaxConcurrent

Init ==
    /\ stage = [j \in Job |-> "unknown"]
    /\ active = {} /\ results = {} /\ errors = {} /\ saved = {}
    /\ status = [j \in Job |-> "none"]
    /\ told = [j \in Job |-> JobStatus("none", "nothing")]
    /\ outcome = [j \in Job |-> "none"]
    /\ stopping = FALSE
    /\ restarts = 0
-----------------------------------------------------------------------------
At(j, s) == stage[j] = s
Move(j, s) == stage' = [stage EXCEPT ![j] = s]

\* A write to the state store that was accepted or not.
Write(j, s, ok) == status' = IF ok THEN [status EXCEPT ![j] = s] ELSE status

\* POST /evaluate.
StartJob(j) ==
    /\ At(j, "unknown") /\ ~stopping
    /\ Move(j, "starting")
    /\ UNCHANGED <<active, results, errors, status, saved, stopping, told, outcome, restarts>>

\* set_job_status returns: the task is created and registered, and the client
\* learns the job_id.
JobStarted(j, ok) ==
    /\ At(j, "starting")
    /\ Write(j, "processing", ok)
    /\ Move(j, "queued")
    /\ active' = active \cup {j}
    /\ UNCHANGED <<results, errors, saved, stopping, told, outcome, restarts>>

\* async with self._semaphore.
Acquire(j) ==
    /\ At(j, "queued") /\ Cardinality(Holding) < MaxConcurrent
    /\ Move(j, "running")
    /\ UNCHANGED <<active, results, errors, status, saved, stopping, told, outcome, restarts>>

Evaluated(j) ==
    /\ At(j, "running")
    /\ results' = results \cup {j}
    /\ outcome' = [outcome EXCEPT ![j] = "evaluated"]
    /\ Move(j, "completing")
    /\ UNCHANGED <<active, errors, status, saved, stopping, told, restarts>>

Raised(j) ==
    /\ At(j, "running")
    /\ errors' = errors \cup {j}
    /\ outcome' = [outcome EXCEPT ![j] = "raised"]
    /\ Move(j, "failing")
    /\ UNCHANGED <<active, results, status, saved, stopping, told, restarts>>

StatusSaved(j, ok) ==
    /\ At(j, "completing")
    /\ Write(j, "completed", ok)
    /\ Move(j, "saving")
    /\ UNCHANGED <<active, results, errors, saved, stopping, told, outcome, restarts>>

ResultSaved(j, ok) ==
    /\ At(j, "saving")
    /\ saved' = IF ok THEN saved \cup {j} ELSE saved
    /\ Move(j, "over")
    /\ active' = active \ {j}
    /\ UNCHANGED <<results, errors, status, stopping, told, outcome, restarts>>

\* Mutant: the slot is not given back.
FailureSaved_holds(j, ok) ==
    /\ At(j, "failing") /\ j \in active
    /\ Write(j, "failed", ok)
    /\ active' = active \ {j}
    /\ UNCHANGED <<stage, results, errors, saved, stopping, told, outcome, restarts>>

\* Mutant: a failed job's record reads like any other's.
FailureSaved_completed(j, ok) ==
    /\ At(j, "failing")
    /\ Write(j, "completed", ok)
    /\ Move(j, "over")
    /\ active' = active \ {j}
    /\ UNCHANGED <<results, errors, saved, stopping, told, outcome, restarts>>

FailureSaved(j, ok) ==
    /\ At(j, "failing")
    /\ Write(j, "failed", ok)
    /\ Move(j, "over")
    /\ active' = active \ {j}
    /\ UNCHANGED <<results, errors, saved, stopping, told, outcome, restarts>>

\* What get_status answers; found and whole say whether the reads of the status
\* and of the result find what the store has.
get_status(j, found, whole) ==
    IF j \in results THEN JobStatus("completed", "evaluation")
    ELSE IF j \in errors THEN JobStatus("failed", "error")
    ELSE IF j \in active THEN JobStatus("processing", "nothing")
    ELSE IF ~found \/ status[j] = "none" THEN JobStatus("failed", "Job not found")
    ELSE IF status[j] = "completed" THEN JobStatus("completed", IF whole /\ j \in saved THEN "evaluation" ELSE "nothing")
    ELSE JobStatus(status[j], IF status[j] = "failed" THEN "error" ELSE "nothing")

\* GET /status/{job_id}, by a client that has the id.
Poll(j, found, whole) ==
    /\ stage[j] \notin {"unknown", "starting"} /\ ~stopping
    /\ told' = [told EXCEPT ![j] = get_status(j, found, whole)]
    /\ UNCHANGED <<stage, active, results, errors, status, saved, stopping, outcome, restarts>>

\* SIGTERM: shutdown waits for the tasks.
Shutdown ==
    /\ ~stopping
    /\ stopping' = TRUE
    /\ UNCHANGED <<stage, active, results, errors, status, saved, told, outcome, restarts>>

\* The process ends, when shutdown has waited long enough or by a crash, and a
\* new one comes up with empty dictionaries.  A cancelled task writes nothing.
Restart ==
    /\ restarts < MaxRestart
    /\ restarts' = restarts + 1
    /\ stage' = [j \in Job |-> IF stage[j] \in {"unknown", "starting"} THEN "unknown" ELSE "gone"]
    /\ active' = {} /\ results' = {} /\ errors' = {}
    /\ told' = [j \in Job |-> JobStatus("none", "nothing")]
    /\ stopping' = FALSE
    /\ UNCHANGED <<status, saved, outcome>>
-----------------------------------------------------------------------------
\* The next step of a job's task.
TaskStep(j) ==
    \/ Acquire(j) \/ Evaluated(j) \/ Raised(j)
    \/ \E ok \in BOOLEAN : JobStarted(j, ok) \/ StatusSaved(j, ok) \/ ResultSaved(j, ok) \/ FailureSaved(j, ok)

Next ==
    \/ \E j \in Job : StartJob(j) \/ TaskStep(j)
    \/ \E j \in Job, found \in BOOLEAN, whole \in BOOLEAN : Poll(j, found, whole)
    \/ Shutdown \/ Restart

Spec == Init /\ [][Next]_vars

\* Tasks run on, the semaphore serves its waiters in turn, and clients poll.
FairSpec ==
    /\ Spec
    /\ \A j \in Job : WF_vars(TaskStep(j)) /\ SF_vars(Acquire(j))
    /\ \A j \in Job : WF_vars(\E found \in BOOLEAN, whole \in BOOLEAN : Poll(j, found, whole))
-----------------------------------------------------------------------------
\* What a poll says (jobs.py:134-182) is true of the job, in the process that ran it and after
\* restarts: completed only of one that was evaluated, and without the evaluation only after a
\* restart; failed with an error only of one that raised.  Any other failed says "Job not found"
\* and comes from a process that did not run the job: its record was lost or is not read, and the
\* job may have ended in any way.
AnswersTrue ==
    \A j \in Job :
        /\ told[j].status = "completed" =>
               outcome[j] = "evaluated" /\ (told[j].brings = "evaluation" \/ At(j, "gone"))
        /\ told[j].status = "failed" =>
               \/ told[j].brings = "error" /\ outcome[j] = "raised"
               \/ told[j].brings = "Job not found" /\ At(j, "gone")

\* Every job that got its id gets a final answer, unless the service stops: no
\* failed job, lost write or full semaphore keeps the others waiting.
JobAnswered ==
    \A j \in Job : At(j, "queued") ~> told[j].status \in {"completed", "failed"} \/ At(j, "gone") \/ stopping
=============================================================================
