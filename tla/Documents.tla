------------------------------ MODULE Documents ------------------------------
(***************************************************************************)
(* Documents of the memory service that are read, changed and written back *)
(* without a lock: the decision about an evaluation (Redis), the document  *)
(* on a user (Redis, changed by the assistant) and the hit count of a      *)
(* pattern (a database row).  A document is a set of marks <<f, r>>: the   *)
(* change of field f by request r is in it.                                *)
(***************************************************************************)
EXTENDS Naturals, FiniteSets

CONSTANT Writer         \* requests, each made at most once

VARIABLES
    op,         \* what a request does
    at,         \* where it stands
    local,      \* the document as it has read it
    doc,        \* the stored documents
    listed,     \* the decision is in the tenant's index
    before,     \* history: the requests that had ended when this one began
    blind,      \* history: requests whose read failed and was taken for "no document"
    discarded     \* history: marks that the assistant took out, accomplished or beyond a cap

docVars == <<op, at, local, doc, listed, before, blind, discarded>>

Absent == [exists |-> FALSE, marks |-> {}]
Present(s) == [exists |-> TRUE, marks |-> s]

DocInit ==
    /\ op = [r \in Writer |-> "none"]
    /\ at = [r \in Writer |-> "new"]
    /\ local = [r \in Writer |-> {}]
    /\ doc = [decision |-> Absent, user |-> Absent, pattern |-> Present({})]
    /\ listed = FALSE
    /\ before = [r \in Writer |-> {}]
    /\ blind = {} /\ discarded = {}

DocOf(o) ==
    CASE o \in {"create", "override", "approve"} -> "decision"
      [] o \in {"set_agent_name", "reflect", "reflect_briefly"} -> "user"
      [] o = "boost" -> "pattern"

\* The fields that an operation sets; approval stands for status, approved_by, approved_at and
\* notes.  A session in which nothing was accomplished leaves current_focus as it is.  The running
\* averages of the working patterns are left out.
Fields(o) ==
    CASE o = "override" -> {"overrides"}
      [] o = "approve" -> {"approval"}
      [] o = "set_agent_name" -> {"agent_name"}
      [] o = "reflect" -> {"last_session", "pending_actions", "preferences", "current_focus"}
      [] o = "reflect_briefly" -> {"last_session", "pending_actions", "preferences"}
      [] o = "boost" -> {"hit_count"}
      [] OTHER -> {}

\* Fields that a change is added to; the others are overwritten.
Adding == {"overrides", "pending_actions", "preferences", "hit_count"}

Ended == {r \in Writer : at[r] \in {"done", "failed"}}
InWork == {r \in Writer : at[r] \notin {"new", "done", "failed"}}

\* Request r begins with operation o.
Begin(r, o, place) ==
    /\ at[r] = "new"
    /\ op' = [op EXCEPT ![r] = o]
    /\ at' = [at EXCEPT ![r] = place]
    /\ before' = [before EXCEPT ![r] = Ended]

\* create_decision: a fresh draft, whatever was stored before.
create_decision(r) ==
    /\ Begin(r, "create", "writing")
    /\ UNCHANGED <<local, doc, listed, blind, discarded>>

\* Requests that read, change and write a document.
Change(r, o) == Begin(r, o, "reading") /\ UNCHANGED <<local, doc, listed, blind, discarded>>

override_criterion(r) == Change(r, "override")
approve_decision(r) == Change(r, "approve")
set_agent_name(r) == Change(r, "set_agent_name")
boost(r) == Change(r, "boost")

\* A reflection asks the model first; it loads the document when it has an answer, so its
\* life on the document begins there.
run_reflection(r) == \E o \in {"reflect", "reflect_briefly"} : Change(r, o)

\* What a new document on a user begins with: a reflection puts the session's name into it.
NewUserMarks(r) ==
    IF op[r] = "set_agent_name" THEN {{}}
    ELSE {{}} \cup {{<<"agent_name", q>>} : q \in {w \in Writer : op[w] = "set_agent_name"}}

\* The read.  Decisions and patterns that are not there answer 404.
ReadDoc(r) ==
    /\ at[r] = "reading"
    /\ LET d == doc[DocOf(op[r])]
       IN  \/ /\ d.exists
              /\ at' = [at EXCEPT ![r] = "writing"]
              /\ local' = [local EXCEPT ![r] = d.marks]
           \/ /\ ~d.exists /\ DocOf(op[r]) = "user"
              /\ at' = [at EXCEPT ![r] = "writing"]
              /\ \E marks \in NewUserMarks(r) : local' = [local EXCEPT ![r] = marks]
           \/ /\ ~d.exists /\ DocOf(op[r]) # "user"
              /\ at' = [at EXCEPT ![r] = "failed"] /\ UNCHANGED local
    /\ UNCHANGED <<op, doc, listed, before, blind, discarded>>

\* UserStateManager.load returns None when the memory service does not answer or the document
\* does not parse, and a new document takes the place of the old one.
ReadUserFails(r) ==
    /\ at[r] = "reading" /\ DocOf(op[r]) = "user"
    /\ \E marks \in NewUserMarks(r) : local' = [local EXCEPT ![r] = marks]
    /\ blind' = blind \cup {r}
    /\ at' = [at EXCEPT ![r] = "writing"]
    /\ UNCHANGED <<op, doc, listed, before, discarded>>

\* Mutant: the fields are put into a new document.
Changed_alone(r) == Fields(op[r]) \X {r}

\* The document with the request's own change; a created decision has none.
Changed(r) ==
    IF op[r] = "create" THEN {}
    ELSE {m \in local[r] : m[1] \in Fields(op[r]) => m[1] \in Adding} \cup (Fields(op[r]) \X {r})

\* The assistant drops pending actions, those that a reflection reports as accomplished and the
\* oldest while the document is too long, and a reflection's new preferences beyond the cap.
Droppable(r) ==
    IF DocOf(op[r]) # "user" THEN {}
    ELSE {m \in Changed(r) : m[1] = "pending_actions" \/ m = <<"preferences", r>>}

\* The write; a created decision is then added to the index.  The answer may be lost.
WriteDoc(r) ==
    /\ at[r] = "writing"
    /\ \E dropped \in SUBSET Droppable(r) :
          /\ doc' = [doc EXCEPT ![DocOf(op[r])] = Present(Changed(r) \ dropped)]
          /\ discarded' = discarded \cup dropped
    /\ \E next \in IF op[r] = "create" THEN {"indexing"} ELSE {"done", "failed"} : at' = [at EXCEPT ![r] = next]
    /\ UNCHANGED <<op, local, listed, before, blind>>

\* create_decision: SADD.
AddToIndex(r) ==
    /\ at[r] = "indexing"
    /\ listed' = TRUE
    /\ at' = [at EXCEPT ![r] = "done"]
    /\ UNCHANGED <<op, local, doc, before, blind, discarded>>

\* A command fails: the request answers an error, what it has written stays.
RequestFails(r) ==
    /\ r \in InWork
    /\ at' = [at EXCEPT ![r] = "failed"]
    /\ UNCHANGED <<op, local, doc, listed, before, blind, discarded>>

DocNext == \E r \in Writer :
    \/ create_decision(r) \/ override_criterion(r) \/ approve_decision(r)
    \/ set_agent_name(r) \/ run_reflection(r) \/ boost(r)
    \/ ReadDoc(r) \/ ReadUserFails(r) \/ WriteDoc(r) \/ AddToIndex(r) \/ RequestFails(r)

DocSpec == DocInit /\ [][DocNext]_docVars
-----------------------------------------------------------------------------
\* A request on the same document, not over when r began, that overlapped with r, wrote after a
\* read that failed, or created the decision anew.
Excused(r) ==
    \E q \in Writer \ {r} :
        /\ op[q] # "none" /\ DocOf(op[q]) = DocOf(op[r]) /\ q \notin before[r]
        /\ r \notin before[q] \/ q \in blind \/ op[q] = "create"

\* Field f holds the change of r or, where changes overwrite each other, that of a request that
\* began after r had ended.
Holds(marks, r, f) ==
    \/ <<f, r>> \in marks
    \/ f \notin Adding /\ \E q \in Writer : <<f, q>> \in marks /\ r \in before[q]

\* An acknowledged override, approval, name, reflection or boost is in the document, or a later
\* request has overwritten the field, or the assistant has taken it out as Droppable says; a change
\* is lost in no other way than by the requests of Excused.  An approval may be one of the
\* overwritten: agent-eval/REQUIREMENTS.md:532 has an approved decision no longer editable, but no
\* request looks at the status.
AcknowledgedKept ==
    \A r \in Writer : at[r] = "done" /\ ~Excused(r) =>
        \A f \in Fields(op[r]) : Holds(doc[DocOf(op[r])].marks, r, f) \/ <<f, r>> \in discarded
=============================================================================
