------------------------------ MODULE Assistant ------------------------------
(***************************************************************************)
(* The compliance assistant: requests of one session inside AgentLoop, the *)
(* session object they share and the confirmation of destructive tools.    *)
(*                                                                         *)
(* The memory service serves none of the paths that SessionManager uses,   *)
(* so every save falls back to the dictionary _fallback_sessions: it holds *)
(* the object itself, and all later requests of the session work on that   *)
(* one object.  Before the first save every request makes an object of its *)
(* own, which is named here after the request.  A confirmation is named    *)
(* after the request that asked for it: no request asks twice.             *)
(***************************************************************************)
EXTENDS Naturals, FiniteSets

CONSTANTS
    MaxRequests,    \* requests of the session (a bound)
    MaxRounds,      \* settings.max_tool_rounds
    MaxCalls,       \* tool calls in one response of the model (a bound)
    PlaybookLen,    \* steps of the playbook a skill starts
    MaxInFlight,    \* requests in flight at the same time (a bound)
    MaxRestart      \* restarts of the service (a bound)

ASSUME AssistantAssumption ==
    /\ MaxRequests \in Nat
    /\ MaxRounds \in Nat \ {0}
    /\ MaxCalls \in Nat \ {0}
    /\ PlaybookLen \in Nat \ {0}
    /\ MaxInFlight \in Nat \ {0}
    /\ MaxRestart \in Nat

\* Requests are numbered in the order in which they arrive.
Requests == 1 .. MaxRequests

\* No object, no confirmation.
None == 0

Kinds == {"init", "chat", "confirm", "cancel"}

VARIABLES
    pc,          \* the await at which a request stands
    req,         \* its locals: kind, the confirmation it names, the session object it
                 \* works on, where it goes on after a save, rounds used, calls left
    heap,        \* session objects
    registered,  \* the object in _fallback_sessions
    answer,      \* what a request was answered with: a question, the result of a
                 \* confirmed tool, or anything else
    started,     \* how often the tool of a confirmation was executed
    consumed,    \* confirmations that were taken out of their object
    overlap,     \* two requests were in flight at the same time
    restarts

vars == <<pc, req, heap, registered, answer, started, consumed, overlap, restarts>>

\* SessionState(): a new session.
Fresh == [pending |-> None, mode |-> "full", first |-> FALSE, named |-> FALSE, step |-> 0]

NoRequest == [kind |-> "chat", names |-> None, obj |-> None, then |-> "done", used |-> 0, calls |-> 0]

Init ==
    /\ pc = [r \in Requests |-> "idle"]
    /\ req = [r \in Requests |-> NoRequest]
    /\ heap = [r \in Requests |-> Fresh]
    /\ registered = None
    /\ answer = [r \in Requests |-> "none"]
    /\ started = [r \in Requests |-> 0]
    /\ consumed = {}
    /\ overlap = FALSE
    /\ restarts = 0

InFlight == {r \in Requests : pc[r] \notin {"idle", "done"}}

\* A request arrives.  A client knows the confirmations it was asked for.
Arrive(r, k, c) ==
    /\ pc[r] = "idle"
    /\ \A q \in 1 .. r - 1 : pc[q] # "idle"
    /\ Cardinality(InFlight) < MaxInFlight
    /\ IF k \in {"confirm", "cancel"} THEN c \in Requests /\ answer[c] = "asked" ELSE c = None
    /\ req' = [req EXCEPT ![r].kind = k, ![r].names = c]
    /\ pc' = [pc EXCEPT ![r] = "recalling"]
    /\ overlap' = (overlap \/ InFlight # {})
    /\ UNCHANGED <<heap, registered, answer, started, consumed, restarts>>

-----------------------------------------------------------------------------
\* get_or_create() after session_recall: the object in the dictionary, or a new one.
Opened(r) == IF registered # None THEN registered ELSE r

\* What request r sees of its object when it is opened.
SessionOf(r) == IF registered # None THEN heap[registered] ELSE Fresh

Session(r) == heap[req[r].obj]

\* Request r goes on at place p.
Goto(r, p) == pc' = [pc EXCEPT ![r] = p]

\* Request r opens its session, leaves it as s and goes on at place p.
Open(r, s, p) ==
    /\ req' = [req EXCEPT ![r].obj = Opened(r)]
    /\ heap' = [heap EXCEPT ![Opened(r)] = s]
    /\ Goto(r, p)

\* Request r is answered with a and its locals are gone.
Answer(r, a) ==
    /\ Goto(r, "done")
    /\ req' = [req EXCEPT ![r] = NoRequest]
    /\ answer' = [answer EXCEPT ![r] = a]

\* Request r saves its session and then goes on at place n.
Save(r, n) ==
    /\ Goto(r, "saving")
    /\ req' = [req EXCEPT ![r].then = n]

\* handle_message up to its first await: where it goes and what it leaves of session s.
handle_message(s) ==
    CASE s.mode = "data_only" -> [at |-> "pinging", session |-> s]
      [] s.mode = "full" /\ s.first /\ ~s.named ->
            [at |-> "naming", session |-> [s EXCEPT !.named = TRUE, !.first = FALSE]]
      [] OTHER -> [at |-> "resolving", session |-> s]

OpenInit(r) ==
    /\ pc[r] = "recalling" /\ req[r].kind = "init"
    /\ Open(r, SessionOf(r), "loading")
    /\ UNCHANGED <<registered, answer, started, consumed, overlap, restarts>>

OpenMessage(r) ==
    /\ pc[r] = "recalling" /\ req[r].kind = "chat"
    /\ LET m == handle_message(SessionOf(r)) IN Open(r, m.session, m.at)
    /\ UNCHANGED <<registered, answer, started, consumed, overlap, restarts>>

\* ConfirmationHandler.execute_confirmed: the tool of confirmation c is called for good.
\* Whatever comes back, a result or an error, handle_confirm goes the same way.
execute_confirmed(c) == started' = [started EXCEPT ![c] = @ + 1]

\* handle_confirm: the id must be that of the pending action, whose tool is then called.
handle_confirm(r) ==
    /\ pc[r] = "recalling" /\ req[r].kind = "confirm"
    /\ \/ /\ SessionOf(r).pending = req[r].names
          /\ Open(r, SessionOf(r), "executing")
          /\ execute_confirmed(req[r].names)
          /\ UNCHANGED answer
       \/ /\ SessionOf(r).pending # req[r].names
          /\ Answer(r, "other")
          /\ UNCHANGED <<heap, started>>
    /\ UNCHANGED <<registered, consumed, overlap, restarts>>

\* handle_cancel clears whatever is pending: it does not look at the id.
handle_cancel(r) ==
    /\ pc[r] = "recalling" /\ req[r].kind = "cancel"
    /\ \/ /\ SessionOf(r).pending # None
          /\ heap' = [heap EXCEPT ![Opened(r)].pending = None]
          /\ req' = [req EXCEPT ![r].obj = Opened(r), ![r].then = "cancelled"]
          /\ Goto(r, "saving")
          /\ consumed' = consumed \cup {SessionOf(r).pending}
          /\ UNCHANGED answer
       \/ /\ SessionOf(r).pending = None
          /\ Answer(r, "other")
          /\ UNCHANGED <<heap, consumed>>
    /\ UNCHANGED <<registered, started, overlap, restarts>>

-----------------------------------------------------------------------------
\* handle_init: the user's document is found or not (or the memory fails, which looks
\* the same); a user without one is on first launch.
LoadUser(r, found) ==
    /\ pc[r] = "loading"
    /\ heap' = [heap EXCEPT ![req[r].obj] =
                   IF found THEN [@ EXCEPT !.named = TRUE] ELSE [@ EXCEPT !.first = TRUE]]
    /\ Goto(r, "greeting")
    /\ UNCHANGED <<req, registered, answer, started, consumed, overlap, restarts>>

\* The answer of LLMClient.complete: text, tool calls, no budget or no gateway, or an
\* error that the loop does not catch (a timeout after the retry, a 4xx).
Outcomes == {"text", "tools", "down", "error"}

\* handle_init's opener; without a model the session is in data-only mode.
Greet(r, w) ==
    /\ pc[r] = "greeting"
    /\ \/ /\ w \in {"text", "tools"}
          /\ heap' = [heap EXCEPT ![req[r].obj].mode = "full"]
          /\ Save(r, "other")
          /\ UNCHANGED answer
       \/ /\ w = "down"
          /\ heap' = [heap EXCEPT ![req[r].obj].mode = "data_only"]
          /\ Save(r, "other")
          /\ UNCHANGED answer
       \/ w = "error" /\ Answer(r, "other") /\ UNCHANGED heap
    /\ UNCHANGED <<registered, started, consumed, overlap, restarts>>

\* _handle_data_only: a ping of the model; if it answers, the message is handled again.
Ping(r, w) ==
    /\ pc[r] = "pinging"
    /\ \/ /\ w \in {"text", "tools"}
          /\ LET m == handle_message([Session(r) EXCEPT !.mode = "full"])
             IN  heap' = [heap EXCEPT ![req[r].obj] = m.session] /\ Goto(r, m.at)
          /\ UNCHANGED <<req, answer>>
       \/ w = "down" /\ Goto(r, "menu") /\ UNCHANGED <<req, heap, answer>>
       \/ w = "error" /\ Answer(r, "other") /\ UNCHANGED heap
    /\ UNCHANGED <<registered, started, consumed, overlap, restarts>>

\* handle_data_only_message: a keyword's tool is called, or the menu is shown.
DataOnly(r) ==
    /\ pc[r] = "menu"
    /\ Answer(r, "other")
    /\ UNCHANGED <<heap, registered, started, consumed, overlap, restarts>>

\* _handle_agent_naming after set_agent_name: the model acknowledges or a fixed text does.
Name(r, w) ==
    /\ pc[r] = "naming"
    /\ \/ w # "error" /\ Save(r, "other") /\ UNCHANGED answer
       \/ w = "error" /\ Answer(r, "other")
    /\ UNCHANGED <<heap, registered, started, consumed, overlap, restarts>>

\* SkillMatcher.match: no skill (the active one goes on), or one, with a playbook or without.
Matches == {"none", "plain", "guided"}

\* SkillLoader.get_skill_playbook: whether the matched skill has a playbook.
get_skill_playbook(m) == m = "guided"

\* Mutant: a message resets the session's confirmation.
Resolve_resets(r, m) ==
    /\ pc[r] = "resolving"
    /\ heap' = [heap EXCEPT ![req[r].obj].pending = None]
    /\ Goto(r, "asking")
    /\ UNCHANGED <<req, registered, answer, started, consumed, overlap, restarts>>

\* _resolve_skill_context: a matched skill starts its playbook unless one is active.
Resolve(r, m) ==
    /\ pc[r] = "resolving"
    /\ heap' = [heap EXCEPT ![req[r].obj].step = IF get_skill_playbook(m) /\ @ = 0 THEN 1 ELSE @]
    /\ Goto(r, "asking")
    /\ UNCHANGED <<req, registered, answer, started, consumed, overlap, restarts>>

-----------------------------------------------------------------------------
\* _run_loop: one call of the model.
Ask(r, w, n) ==
    /\ pc[r] = "asking"
    /\ \/ w = "text" /\ Save(r, "advancing") /\ UNCHANGED <<heap, answer>>
       \/ /\ w = "tools"
          /\ Goto(r, "calling")
          /\ req' = [req EXCEPT ![r].calls = n]
          /\ UNCHANGED <<heap, answer>>
       \/ /\ w = "down"
          /\ heap' = [heap EXCEPT ![req[r].obj].mode = "data_only"]
          /\ Save(r, "menu")
          /\ UNCHANGED answer
       \/ w = "error" /\ Answer(r, "other") /\ UNCHANGED heap
    /\ UNCHANGED <<registered, started, consumed, overlap, restarts>>

\* MCPClient.call_tool never raises: an error is a result like any other.  A destructive
\* tool is not executed, the server asks for a confirmation.
ToolResults == {"result", "confirmation_required"}

\* _run_loop: one call of a tool.  A question of the server becomes the pending one.
CallTool(r, result) ==
    /\ pc[r] = "calling"
    /\ \/ /\ result = "confirmation_required"
          /\ heap' = [heap EXCEPT ![req[r].obj].pending = r]
          /\ Save(r, "holding")
       \/ /\ result = "result" /\ req[r].calls > 1
          /\ req' = [req EXCEPT ![r].calls = @ - 1]
          /\ UNCHANGED <<heap, pc>>
       \/ /\ result = "result" /\ req[r].calls = 1 /\ req[r].used + 1 < MaxRounds
          /\ req' = [req EXCEPT ![r].calls = 0, ![r].used = @ + 1]
          /\ Goto(r, "asking")
          /\ UNCHANGED heap
       \/ /\ result = "result" /\ req[r].calls = 1 /\ req[r].used + 1 = MaxRounds
          /\ Save(r, "other")
          /\ UNCHANGED heap
    /\ UNCHANGED <<registered, answer, started, consumed, overlap, restarts>>

\* SessionManager.save: after the refused session_store the object is in the dictionary.
SaveSession(r) ==
    /\ pc[r] = "saving"
    /\ registered' = req[r].obj
    /\ \/ /\ req[r].then \in {"menu", "advancing"}
          /\ Goto(r, req[r].then)
          /\ UNCHANGED <<req, answer>>
       \/ /\ req[r].then = "holding"           \* set_pending_confirmation, then a second save
          /\ Save(r, "asked")
          /\ UNCHANGED answer
       \/ /\ req[r].then = "cancelled"         \* clear_pending_confirmation, then a second save
          /\ Save(r, "other")
          /\ UNCHANGED answer
       \/ /\ req[r].then = "clearing"          \* handle_confirm reads the pending action again
          /\ Session(r).pending = None
          /\ Answer(r, "other")                \* AttributeError: a 500
       \/ /\ req[r].then = "clearing"
          /\ Session(r).pending # None
          /\ Goto(r, "summarizing")
          /\ UNCHANGED <<req, answer>>
       \/ /\ req[r].then \in {"asked", "other", "result"}
          /\ Answer(r, req[r].then)
    /\ UNCHANGED <<heap, started, consumed, overlap, restarts>>

\* advance_step after loading the playbook: the next step, the start of a loop, or the end.
Advance(r, loops) ==
    /\ pc[r] = "advancing"
    /\ loops => Session(r).step = PlaybookLen
    /\ heap' = [heap EXCEPT ![req[r].obj].step =
                   IF @ = 0 THEN 0 ELSE IF loops THEN 1 ELSE IF @ < PlaybookLen THEN @ + 1 ELSE 0]
    /\ Answer(r, "other")
    /\ UNCHANGED <<registered, started, consumed, overlap, restarts>>

\* Mutant: the pending action stays.
Executed_keep(r) ==
    /\ pc[r] = "executing"
    /\ Answer(r, "other")
    /\ UNCHANGED <<heap, registered, started, consumed, overlap, restarts>>

\* handle_confirm after execute_confirmed: clear_pending_confirmation, whatever is pending.
Executed(r) ==
    /\ pc[r] = "executing"
    /\ heap' = [heap EXCEPT ![req[r].obj].pending = None]
    /\ consumed' = consumed \cup ({Session(r).pending} \ {None})
    /\ Save(r, "clearing")
    /\ UNCHANGED <<registered, answer, started, overlap, restarts>>

\* The model's summary of the result, or a fixed one.
Summarize(r, w) ==
    /\ pc[r] = "summarizing"
    /\ \/ w # "error" /\ Save(r, "result") /\ UNCHANGED answer
       \/ w = "error" /\ Answer(r, "other")
    /\ UNCHANGED <<heap, registered, started, consumed, overlap, restarts>>

\* The service restarts: sessions and the requests in flight are gone.
Restart ==
    /\ restarts < MaxRestart
    /\ restarts' = restarts + 1
    /\ registered' = None
    /\ pc' = [r \in Requests |-> IF pc[r] = "idle" THEN "idle" ELSE "done"]
    /\ req' = [r \in Requests |-> NoRequest]
    /\ answer' = [r \in Requests |-> IF r \in InFlight THEN "other" ELSE answer[r]]
    /\ heap' = [r \in Requests |-> Fresh]
    /\ UNCHANGED <<started, consumed, overlap>>

Step(r) ==
    \/ OpenInit(r) \/ OpenMessage(r) \/ handle_confirm(r) \/ handle_cancel(r)
    \/ \E b \in BOOLEAN : LoadUser(r, b) \/ Advance(r, b)
    \/ \E m \in Matches : Resolve(r, m)
    \/ \E t \in ToolResults : CallTool(r, t)
    \/ \E w \in Outcomes : Greet(r, w) \/ Ping(r, w) \/ Name(r, w) \/ Summarize(r, w)
    \/ \E w \in Outcomes, n \in 1 .. MaxCalls : Ask(r, w, n)
    \/ DataOnly(r) \/ SaveSession(r) \/ Executed(r)

Next ==
    \/ \E r \in Requests, k \in Kinds, c \in Requests \cup {None} : Arrive(r, k, c)
    \/ \E r \in Requests : Step(r)
    \/ Restart

Spec == Init /\ [][Next]_vars
-----------------------------------------------------------------------------
\* mcp/confirmation.py:24, "User confirms -> agent re-calls tools/call": a confirmation
\* that was taken is never executed again, and it is executed a second time only while
\* another confirm request of it is still waiting for the tool (handle_confirm reads the
\* pending action before the call and clears it after).
NoSecondLife ==
    [][\A c \in Requests : started'[c] # started[c] =>
          /\ c \notin consumed
          /\ started[c] > 0 => \E q \in Requests : pc[q] = "executing" /\ req[q].names = c]_vars

\* A user who confirms or cancels c now would meet c.
Confirmable(c) == answer[c] = "asked" /\ registered # None /\ heap[registered].pending = c

\* What was shown to the user for confirmation stays confirmable until it is used,
\* cancelled (by any cancel: handle_cancel does not look at the id) or replaced by a
\* later question; only a restart, or requests that overlapped and so worked on two
\* session objects or cleared each other's question, lose it otherwise.
ConfirmableUntilUsed ==
    [][\A c \in Requests : Confirmable(c) /\ ~Confirmable(c)' =>
          \/ c \in consumed' /\ \E r \in Requests : pc[r] # pc'[r] /\ (req[r].kind = "cancel" \/ req[r].names = c)
          \/ \E d \in Requests \ {c} : heap'[registered].pending = d /\ registered' = registered
          \/ restarts' # restarts
          \/ overlap]_vars
=============================================================================
