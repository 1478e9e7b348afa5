------------------------------ MODULE MCObserver ------------------------------
(***************************************************************************)
(* The observer for model checking.  The quality check with its            *)
(* self-evaluation, the circuit breaker, self-regulation on its own and    *)
(* log ingestion share no state, so a behaviour follows one of them and    *)
(* leaves the others where they start.                                     *)
(***************************************************************************)
EXTENDS CircuitBreaker, Regulator, LogIngest, Observer

VARIABLE followed

MCInit ==
    /\ followed \in {"jobs", "breaker", "regulator", "ingestion"}
    /\ Init /\ RegulatorInit /\ IngestInit /\ ObserverInit

Breaking == followed = "breaker"

MCNext ==
    /\ \/ followed = "jobs" /\ ObserverNext /\ UNCHANGED <<vars, regulatorVars, ingestVars>>
       \/ Breaking /\ Next /\ UNCHANGED <<regulatorVars, ingestVars, observerVars>>
       \/ followed = "regulator" /\ RegulatorNext /\ UNCHANGED <<vars, ingestVars, observerVars>>
       \/ followed = "ingestion" /\ IngestNext /\ UNCHANGED <<vars, regulatorVars, observerVars>>
    /\ UNCHANGED followed

\* Time passes.  That somebody asks the breaker, or reports a change, is not
\* assumed.
MCSpec ==
    /\ MCInit /\ [][MCNext]_<<vars, regulatorVars, ingestVars, observerVars, followed>>
    /\ WF_vars(Breaking /\ Tick)
=============================================================================
