------------------------------ MODULE MCMemory ------------------------------
(***************************************************************************)
(* The memory service's queue of events and its skills: they share no key  *)
(* and no row, so a behaviour of the service is an interleaving of         *)
(* independent behaviours and each store can be explored on its own.       *)
(***************************************************************************)
EXTENDS EventQueue, SkillVersions

VARIABLE store      \* the store that this behaviour is about

Init ==
    /\ store \in {"events", "skills"}
    /\ EventInit /\ SkillInit

Next ==
    \/ store = "events" /\ EventNext /\ UNCHANGED <<store, skillVars>>
    \/ store = "skills" /\ SkillNext /\ UNCHANGED <<store, eventVars>>

\* A transaction goes on when it can: statements have no other cause to wait than locks.
Spec ==
    /\ Init /\ [][Next]_<<store, eventVars, skillVars>>
    /\ \A t \in Tx : WF_skillVars(store = "skills" /\ SkillStep(t) /\ UNCHANGED <<store, eventVars>>)
=============================================================================
