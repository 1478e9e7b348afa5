------------------------------ MODULE MCServices ------------------------------
(***************************************************************************)
(* EvalJobs and Sandbox in one model: they share no state, so a behaviour  *)
(* follows one of them while the other stays where it began.               *)
(***************************************************************************)
EXTENDS EvalJobs, Sandbox

VARIABLE followed

\* Executions that overlap bring files to download; the last brings any program.
MCBrings == [e \in 1 .. 5 |-> CASE e = 5 -> Program [] e = 1 -> {"plain", "files"} [] OTHER -> {"files"}]

\* Executions are numbered as they arrive.
InOrder == \A e \in Execution \ {1} : place'[e] # "new" => place'[e - 1] # "new"

\* At most one failure of a behaviour leaves something behind.
FewFailures == Cardinality(stuck') + Cardinality(unseen') + Cardinality(undeleted') <= 1

all == <<vars, sandboxVars, followed>>

MCInit == Init /\ SandboxInit /\ followed \in {"jobs", "sandbox"}
JobsPart == followed = "jobs" /\ UNCHANGED <<sandboxVars, followed>>
SandboxPart == followed = "sandbox" /\ UNCHANGED <<vars, followed>>
MCNext == (JobsPart /\ Next) \/ (SandboxPart /\ SandboxNext /\ InOrder /\ FewFailures)

\* Tasks run on, the semaphore serves its waiters in turn and clients poll; the sandbox's
\* calls of Docker and of the storage end, by their timeouts if need be.
MCSpec ==
    /\ MCInit /\ [][MCNext]_all
    /\ \A j \in Job : WF_all(JobsPart /\ TaskStep(j)) /\ SF_all(JobsPart /\ Acquire(j))
    /\ \A j \in Job : WF_all(JobsPart /\ \E found \in BOOLEAN, whole \in BOOLEAN : Poll(j, found, whole))
    /\ \A e \in Execution : WF_all(SandboxPart /\ Serving(e))
=============================================================================
