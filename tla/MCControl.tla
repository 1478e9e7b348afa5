------------------------------ MODULE MCControl ------------------------------
(***************************************************************************)
(* Control on three models and two file contents.  The two apps share only *)
(* the file, which neither writes, so a behaviour follows one of them.     *)
(* Checks are made again and again; where they no longer fail, they pass,  *)
(* and only such behaviours are of interest to HealthyReturns.             *)
(***************************************************************************)
EXTENDS Control

VARIABLE focus      \* the app that this behaviour follows, or the completions of one

\* The second content drops a model, changes the canary and names a model in a route.
MCTiers == [c1 |-> <<"fast", "mid">>, c2 |-> <<"mid">>]
MCTierModels == [c1 |-> [fast |-> {"m1"}, mid |-> {"m1", "m2"}, strong |-> {}],
                 c2 |-> [fast |-> {}, mid |-> {"m2", "m3"}, strong |-> {}]]
MCPath == <<"fast", "mid", "strong">>
MCCanaryOf == [c1 |-> "m1", c2 |-> "m2"]
MCRouteOf == [c1 |-> [tenant |-> <<>>, agent |-> <<>>, task |-> <<[tier |-> "mid", model |-> "none"]>>],
              c2 |-> [tenant |-> <<[tier |-> "mid", model |-> "m3"]>>, agent |-> <<>>, task |-> <<>>]]

\* Completions are followed together with the app that serves them.
AppOf == IF focus = "completions" THEN "agent" ELSE focus

\* Writes of the file and admin requests of a behaviour.
Events == [agent |-> 3, admin |-> 2, completions |-> 1]

MCInit == Init /\ focus \in DOMAIN Events
MCNext ==
    /\ World \/ Steering(AppOf) \/ (focus = "completions" /\ RequestStep)
    /\ events' <= Events[focus]
    /\ UNCHANGED focus

Spec ==
    /\ MCInit /\ [][MCNext]_<<vars, focus>>
    /\ \A m \in Model : WF_<<vars, focus>>(CheckPasses(AppOf, m) /\ UNCHANGED focus)
    /\ WF_<<vars, focus>>(on_file_changed(AppOf) /\ UNCHANGED focus)
    /\ \A p \in {"watcher", "api"} : WF_<<vars, focus>>(LoadStep(AppOf, p) /\ UNCHANGED focus)
=============================================================================
