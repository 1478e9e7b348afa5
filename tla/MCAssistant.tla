----------------------------- MODULE MCAssistant -----------------------------
(***************************************************************************)
(* The assistant's requests and the documents that it shares with the      *)
(* reviewers of evaluations.  Reflections and names are writers of their   *)
(* own, so a behaviour follows the session or the documents.               *)
(***************************************************************************)
EXTENDS Assistant, Documents, TLC

VARIABLE followed

MCInit == Init /\ DocInit /\ followed \in {"session", "documents"}
MCNext ==
    /\ \/ followed = "session" /\ Next /\ UNCHANGED docVars
       \/ followed = "documents" /\ DocNext /\ UNCHANGED vars
    /\ UNCHANGED followed

MCSpec == MCInit /\ [][MCNext]_<<vars, docVars, followed>>

\* Requests on documents differ by name only.
SameWriters == Permutations(Writer)
=============================================================================
