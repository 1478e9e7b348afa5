--------------------------- MODULE AssistantProofs ---------------------------
(***************************************************************************)
(* The compliance assistant and the memory service that it calls.          *)
(*                                                                         *)
(* The confirmation of destructive tools, for any number of requests,      *)
(* rounds and restarts: a confirmation that was taken is not executed      *)
(* again, and one that was asked stays until it is used.  Then the memory  *)
(* service's stores, for any number of requests: the event queue, the      *)
(* documents that are read, changed and written back, and the versions of  *)
(* a skill.                                                                *)
(***************************************************************************)
EXTENDS Assistant, EventQueue, Documents, SkillVersions,
        FiniteSetTheorems, SequenceTheorems, WellFoundedInduction, TLAPS

-----------------------------------------------------------------------------
(* The confirmation *)

Place == {"idle", "recalling", "loading", "greeting", "pinging", "menu", "naming", "resolving",
          "asking", "calling", "saving", "advancing", "executing", "summarizing", "done"}
Target == {"done", "other", "advancing", "menu", "holding", "asked", "cancelled", "clearing", "result"}

SomeRequest == Requests \cup {None}
Locals == [kind : Kinds, names : SomeRequest, obj : SomeRequest, then : Target, used : Nat, calls : Nat]
SessionState == [pending : SomeRequest, mode : {"full", "data_only"}, first : BOOLEAN, named : BOOLEAN,
                 step : Nat]

TypeOK ==
    /\ pc \in [Requests -> Place]
    /\ req \in [Requests -> Locals]
    /\ heap \in [Requests -> SessionState]
    /\ registered \in SomeRequest
    /\ answer \in [Requests -> {"none", "asked", "other", "result"}]
    /\ started \in [Requests -> Nat]
    /\ consumed \subseteq Requests
    /\ overlap \in BOOLEAN
    /\ restarts \in Nat

\* Requests that have opened their session and not been answered.
AtWork == {r \in Requests : pc[r] \notin {"idle", "recalling", "done"}}

\* Request c has put its question into the session and will put no other.
HasAsked(c) == pc[c] = "done" \/ (pc[c] = "saving" /\ req[c].then \in {"holding", "asked"})

\* What a request holds: a session object once it has opened one, the name of a
\* confirmation when it confirms; only a request that was answered has an answer.
LocalsSound ==
    /\ \A r \in AtWork : req[r].obj \in Requests
    /\ \A r \in Requests : pc[r] = "recalling" /\ req[r].kind = "confirm" => req[r].names \in Requests
    /\ \A r \in Requests : answer[r] # "none" => pc[r] = "done"

\* A question is in one session object at most, in none once it was taken, and
\* while its tool has been started and it is still there, a confirm request
\* waits for the tool and will clear that very object.
Living(o, c) ==
    /\ HasAsked(c) /\ c \notin consumed
    /\ \A p \in Requests \ {o} : heap[p].pending # c
    /\ started[c] > 0 =>
        \E q \in Requests : pc[q] = "executing" /\ req[q].names = c /\ req[q].obj = o

\* Whatever was started or taken has been asked, and every question in an object lives.
OneLife ==
    /\ \A c \in Requests : c \in consumed \/ started[c] > 0 => HasAsked(c)
    /\ \A o, c \in Requests : heap[o].pending = c => Living(o, c)

\* Requests that do not overlap work one after the other on one object.
Alone ==
    ~overlap =>
        /\ \A r \in InFlight, q \in InFlight : r = q
        /\ \A r \in AtWork : registered # None => req[r].obj = registered
        /\ \A r \in Requests : pc[r] = "executing" => heap[req[r].obj].pending = req[r].names

IInv == TypeOK /\ LocalsSound /\ OneLife /\ Alone

\* A request that goes on, saves or is answered, puts no question into a session
\* and takes none out of it into consumed.  A new session is without a question,
\* a registered one keeps what it has.
PcTurn(r) ==
    /\ pc' \in [Requests -> Place]
    /\ pc'[r] \notin {"idle", "recalling", "executing"}
    /\ \A q \in Requests \ {r} : pc'[q] = pc[q]

ReqTurn(r) ==
    /\ req' \in [Requests -> Locals]
    /\ \A q \in Requests \ {r} : req'[q] = req[q]

HeapTurn ==
    /\ heap' \in [Requests -> SessionState]
    /\ \A o \in Requests : heap'[o].pending \in {heap[o].pending, None}
    /\ registered # None => heap'[registered].pending = heap[registered].pending

AnswerTurn(r) ==
    /\ answer' \in [Requests -> {"none", "asked", "other", "result"}]
    /\ \A q \in Requests \ {r} : answer'[q] = answer[q]
    /\ answer'[r] # "none" => pc'[r] = "done"

ObjectTurn(r) ==
    /\ registered' \in SomeRequest
    /\ pc'[r] # "done" =>
        /\ req'[r].obj \in Requests
        /\ ~overlap /\ registered' # None => req'[r].obj = registered'
    /\ ~overlap /\ registered # None => registered' = registered

Ordinary(r) ==
    /\ pc[r] \notin {"idle", "done", "executing"}
    /\ PcTurn(r) /\ ReqTurn(r) /\ HeapTurn /\ AnswerTurn(r) /\ ObjectTurn(r)
    /\ HasAsked(r) => HasAsked(r)'
    /\ UNCHANGED <<started, consumed, overlap, restarts>>

LEMMA NoneApart == None \notin Requests /\ None \in SomeRequest /\ Requests \subseteq SomeRequest
  BY AssistantAssumption DEF None, Requests, SomeRequest

LEMMA OrdinaryKeeps ==
  ASSUME IInv, NEW r \in Requests, Ordinary(r)
  PROVE  IInv'
  <1>1. TypeOK'
    BY DEF IInv, TypeOK, Ordinary, PcTurn, ReqTurn, HeapTurn, AnswerTurn, ObjectTurn
  <1>2. LocalsSound'
    BY DEF IInv, LocalsSound, AtWork, Ordinary, PcTurn, ReqTurn, AnswerTurn, ObjectTurn
  <1>3. \A c \in Requests : HasAsked(c) => HasAsked(c)'
    BY DEF HasAsked, Ordinary, PcTurn, ReqTurn
  <1>4. \A q \in Requests : pc[q] = "executing" => pc'[q] = "executing" /\ req'[q] = req[q]
    BY DEF Ordinary, PcTurn, ReqTurn
  <1>5. started' = started /\ consumed' = consumed /\ overlap' = overlap
    BY DEF Ordinary
  <1>6. OneLife'
    <2>1. \A c \in Requests : c \in consumed' \/ started'[c] > 0 => HasAsked(c)'
      BY <1>3, <1>5 DEF IInv, OneLife
    <2>2. ASSUME NEW o \in Requests, NEW c \in Requests, heap'[o].pending = c
          PROVE  Living(o, c)'
      <3>1. heap[o].pending = c
        BY <2>2, NoneApart DEF Ordinary, HeapTurn
      <3>2. Living(o, c)
        BY <3>1 DEF IInv, OneLife
      <3>3. HasAsked(c)' /\ c \notin consumed'
        BY <1>3, <1>5, <3>2 DEF Living
      <3>4. \A p \in Requests \ {o} : heap'[p].pending # c
        BY <3>2, NoneApart DEF Ordinary, HeapTurn, Living
      <3>5. started'[c] > 0 =>
                \E q \in Requests : pc'[q] = "executing" /\ req'[q].names = c /\ req'[q].obj = o
        BY <1>4, <1>5, <3>2 DEF Living
      <3>6. QED
        BY <3>3, <3>4, <3>5 DEF Living
    <2>3. QED
      BY <2>1, <2>2 DEF OneLife
  <1>7. Alone'
    <2> SUFFICES ASSUME ~overlap
                 PROVE  /\ \A u \in InFlight', q \in InFlight' : u = q
                        /\ \A u \in AtWork' : registered' # None => req'[u].obj = registered'
                        /\ \A u \in Requests : pc'[u] = "executing" => heap'[req'[u].obj].pending = req'[u].names
      BY <1>5 DEF Alone
    <2>1. \A u \in InFlight : u = r
      BY DEF IInv, Alone, InFlight, Ordinary
    <2>2. \A u \in InFlight' : u = r
      BY <2>1 DEF InFlight, Ordinary, PcTurn
    <2>3. \A u \in AtWork' : u = r
      BY <2>2 DEF InFlight, AtWork
    <2>4. \A u \in Requests : pc'[u] # "executing"
      BY <2>1 DEF InFlight, Ordinary, PcTurn
    <2>5. QED
      BY <2>2, <2>3, <2>4 DEF AtWork, Ordinary, ObjectTurn
  <1>8. QED
    BY <1>1, <1>2, <1>6, <1>7 DEF IInv


-----------------------------------------------------------------------------
(* What the parts of an action do *)

LEMMA GotoTurn ==
  ASSUME TypeOK, NEW r \in Requests, NEW p \in Place \ {"idle", "recalling", "executing"}, Goto(r, p)
  PROVE  PcTurn(r) /\ pc'[r] = p
  BY DEF TypeOK, PcTurn, Goto

LEMMA NoRequestType == NoRequest \in Locals
  BY DEF NoRequest, Locals, Kinds, SomeRequest, Target

LEMMA AnswerEnds ==
  ASSUME TypeOK, NEW r \in Requests, NEW a \in {"asked", "other", "result"}, Answer(r, a)
  PROVE  PcTurn(r) /\ pc'[r] = "done" /\ ReqTurn(r) /\ AnswerTurn(r)
  <1>1. PcTurn(r) /\ pc'[r] = "done"
    BY GotoTurn DEF Answer, Place
  <1>2. ReqTurn(r)
    BY NoRequestType DEF TypeOK, Answer, ReqTurn
  <1>3. AnswerTurn(r)
    BY <1>1 DEF TypeOK, Answer, AnswerTurn
  <1>4. QED
    BY <1>1, <1>2, <1>3

LEMMA SaveTurn ==
  ASSUME TypeOK, NEW r \in Requests, NEW n \in Target, Save(r, n)
  PROVE  /\ PcTurn(r) /\ pc'[r] = "saving"
         /\ ReqTurn(r) /\ req'[r] = [req[r] EXCEPT !.then = n]
  <1>1. PcTurn(r) /\ pc'[r] = "saving"
    BY GotoTurn DEF Save, Place
  <1>2. req[r] \in Locals /\ req' = [req EXCEPT ![r] = [req[r] EXCEPT !.then = n]]
    BY DEF TypeOK, Save
  <1>3. [req[r] EXCEPT !.then = n] \in Locals
    BY <1>2 DEF Locals
  <1>4. QED
    BY <1>1, <1>2, <1>3 DEF TypeOK, ReqTurn

LEMMA HeapSame ==
  ASSUME TypeOK, UNCHANGED heap
  PROVE  HeapTurn
  BY DEF TypeOK, HeapTurn

LEMMA HeapSet ==
  ASSUME TypeOK, NEW o \in Requests, NEW s \in SessionState, s.pending \in {heap[o].pending, None},
         registered # None => s.pending = heap[o].pending,
         heap' = [heap EXCEPT ![o] = s]
  PROVE  HeapTurn /\ heap'[o] = s /\ \A p \in Requests \ {o} : heap'[p] = heap[p]
  BY DEF TypeOK, HeapTurn

\* A request at work keeps its object, and nobody else's is registered beside it.
LEMMA SameObject ==
  ASSUME IInv, NEW r \in AtWork, req'[r].obj = req[r].obj, registered' \in {registered, req[r].obj}
  PROVE  ObjectTurn(r)
  BY NoneApart DEF IInv, TypeOK, LocalsSound, Alone, ObjectTurn, AtWork, SomeRequest

\* An answered request needs no object.
LEMMA NoObject ==
  ASSUME NEW r \in Requests, pc'[r] = "done", registered' \in SomeRequest,
         ~overlap /\ registered # None => registered' = registered
  PROVE  ObjectTurn(r)
  BY DEF ObjectTurn

LEMMA SameAnswer ==
  ASSUME IInv, NEW r \in Requests, pc[r] # "done", UNCHANGED answer
  PROVE  AnswerTurn(r)
  BY DEF IInv, TypeOK, LocalsSound, AnswerTurn

\* The object that a request opens, and what it sees in it.
LEMMA Opening ==
  ASSUME IInv, NEW r \in Requests
  PROVE  /\ Opened(r) \in Requests /\ SessionOf(r) \in SessionState
         /\ registered # None => Opened(r) = registered /\ SessionOf(r) = heap[registered]
         /\ registered = None => SessionOf(r).pending = None
         /\ SessionOf(r).pending \in {heap[Opened(r)].pending, None}
  <1>1. Fresh \in SessionState /\ Fresh.pending = None
    BY DEF Fresh, SessionState, SomeRequest
  <1>2. QED
    BY <1>1 DEF IInv, TypeOK, Opened, SessionOf, SomeRequest

LEMMA OpenTurn ==
  ASSUME IInv, NEW r \in Requests, NEW s \in SessionState, s.pending = SessionOf(r).pending,
         NEW p \in Place \ {"idle", "recalling", "executing"}, Open(r, s, p), UNCHANGED registered
  PROVE  PcTurn(r) /\ pc'[r] = p /\ ReqTurn(r) /\ HeapTurn /\ ObjectTurn(r)
  <1>1. PcTurn(r) /\ pc'[r] = p
    BY GotoTurn DEF IInv, Open
  <1>2. HeapTurn
    BY Opening, HeapSet DEF IInv, Open
  <1>3. req[r] \in Locals /\ req' = [req EXCEPT ![r] = [req[r] EXCEPT !.obj = Opened(r)]]
    BY DEF IInv, TypeOK, Open
  <1>4. [req[r] EXCEPT !.obj = Opened(r)] \in Locals
    BY <1>3, Opening, NoneApart DEF Locals
  <1>5. ReqTurn(r) /\ req'[r].obj = Opened(r)
    BY <1>3, <1>4 DEF IInv, TypeOK, ReqTurn, Locals
  <1>6. ObjectTurn(r)
    BY <1>5, Opening DEF IInv, TypeOK, ObjectTurn
  <1>7. QED
    BY <1>1, <1>2, <1>5, <1>6


LEMMA MessageTurn ==
  ASSUME NEW s \in SessionState
  PROVE  /\ handle_message(s).at \in {"pinging", "naming", "resolving"}
         /\ handle_message(s).session \in SessionState
         /\ handle_message(s).session.pending = s.pending
  <1>1. CASE s.mode = "data_only"
    BY <1>1 DEF handle_message
  <1>2. CASE s.mode = "full" /\ s.first /\ ~s.named
    BY <1>2 DEF handle_message, SessionState
  <1>3. CASE s.mode # "data_only" /\ ~(s.mode = "full" /\ s.first /\ ~s.named)
    BY <1>3 DEF handle_message
  <1>4. QED
    BY <1>1, <1>2, <1>3

-----------------------------------------------------------------------------
(* The ordinary steps *)

LEMMA OpenInitOrdinary ==
  ASSUME IInv, NEW r \in Requests, OpenInit(r)
  PROVE  Ordinary(r)
  <1>1. PcTurn(r) /\ ReqTurn(r) /\ HeapTurn /\ ObjectTurn(r)
    BY Opening, OpenTurn DEF OpenInit, Place
  <1>2. AnswerTurn(r)
    BY SameAnswer DEF OpenInit
  <1>3. QED
    BY <1>1, <1>2 DEF OpenInit, Ordinary, HasAsked

LEMMA OpenMessageOrdinary ==
  ASSUME IInv, NEW r \in Requests, OpenMessage(r)
  PROVE  Ordinary(r)
  <1> DEFINE m == handle_message(SessionOf(r))
  <1>1. /\ m.at \in Place \ {"idle", "recalling", "executing"} /\ m.session \in SessionState
        /\ m.session.pending = SessionOf(r).pending
    BY Opening, MessageTurn DEF Place
  <1>2. Open(r, m.session, m.at) /\ UNCHANGED registered
    BY DEF OpenMessage
  <1> HIDE DEF m
  <1>3. PcTurn(r) /\ ReqTurn(r) /\ HeapTurn /\ ObjectTurn(r)
    BY <1>1, <1>2, OpenTurn
  <1>4. AnswerTurn(r)
    BY SameAnswer DEF OpenMessage
  <1>5. QED
    BY <1>3, <1>4 DEF OpenMessage, Ordinary, HasAsked

\* A step of a request at work that touches its own object but not the question
\* in it, and goes on.
LEMMA ObjectWork ==
  ASSUME IInv, NEW r \in Requests, NEW p \in Place \ {"idle", "recalling", "executing"},
         pc[r] \notin {"idle", "recalling", "done", "executing", "saving"}, Goto(r, p),
         NEW s \in SessionState, s.pending = heap[req[r].obj].pending,
         heap' = [heap EXCEPT ![req[r].obj] = s],
         UNCHANGED <<req, registered, answer, started, consumed, overlap, restarts>>
  PROVE  Ordinary(r)
  <1>1. r \in AtWork /\ req[r].obj \in Requests
    BY DEF IInv, LocalsSound, AtWork
  <1>2. PcTurn(r)
    BY GotoTurn DEF IInv
  <1>3. ReqTurn(r)
    BY DEF IInv, TypeOK, ReqTurn
  <1>4. HeapTurn
    BY <1>1, HeapSet DEF IInv
  <1>5. ObjectTurn(r)
    BY <1>1, SameObject
  <1>6. AnswerTurn(r)
    BY SameAnswer
  <1>7. QED
    BY <1>2, <1>3, <1>4, <1>5, <1>6 DEF Ordinary, HasAsked

\* A step of a request at work that ends in a save, after touching its own object
\* but not the question in it.
LEMMA SaveWork ==
  ASSUME IInv, NEW r \in Requests, NEW n \in Target,
         pc[r] \notin {"idle", "recalling", "done", "executing", "saving"}, Save(r, n),
         NEW s \in SessionState, s.pending = heap[req[r].obj].pending,
         heap' = [heap EXCEPT ![req[r].obj] = s],
         UNCHANGED <<registered, answer, started, consumed, overlap, restarts>>
  PROVE  Ordinary(r)
  <1>1. r \in AtWork /\ req[r].obj \in Requests /\ req[r] \in Locals
    BY DEF IInv, TypeOK, LocalsSound, AtWork
  <1>2. PcTurn(r) /\ ReqTurn(r) /\ req'[r].obj = req[r].obj
    BY <1>1, SaveTurn DEF IInv, Locals
  <1>3. HeapTurn
    BY <1>1, HeapSet DEF IInv
  <1>4. ObjectTurn(r)
    BY <1>1, <1>2, SameObject
  <1>5. AnswerTurn(r)
    BY SameAnswer
  <1>6. QED
    BY <1>2, <1>3, <1>4, <1>5 DEF Ordinary, HasAsked

\* A request that is answered.
LEMMA AnswerWork ==
  ASSUME IInv, NEW r \in Requests, NEW a \in {"asked", "other", "result"},
         pc[r] \notin {"idle", "done", "executing"}, Answer(r, a), HeapTurn,
         UNCHANGED <<registered, started, consumed, overlap, restarts>>
  PROVE  Ordinary(r)
  <1>1. PcTurn(r) /\ pc'[r] = "done" /\ ReqTurn(r) /\ AnswerTurn(r)
    BY AnswerEnds DEF IInv
  <1>2. ObjectTurn(r)
    BY <1>1, NoObject DEF IInv, TypeOK
  <1>3. QED
    BY <1>1, <1>2 DEF Ordinary, HasAsked

\* Its object as it is, for the steps that leave the heap alone.
LEMMA OwnObject ==
  ASSUME IInv, NEW r \in Requests, pc[r] \notin {"idle", "recalling", "done"}
  PROVE  /\ req[r].obj \in Requests /\ Session(r) \in SessionState /\ Session(r) = heap[req[r].obj]
         /\ UNCHANGED heap => heap' = [heap EXCEPT ![req[r].obj] = Session(r)]
  BY DEF IInv, TypeOK, LocalsSound, AtWork, Session


LEMMA LoadUserOrdinary ==
  ASSUME IInv, NEW r \in Requests, NEW found \in BOOLEAN, LoadUser(r, found)
  PROVE  Ordinary(r)
  <1> DEFINE s == IF found THEN [Session(r) EXCEPT !.named = TRUE] ELSE [Session(r) EXCEPT !.first = TRUE]
  <1>1. req[r].obj \in Requests /\ Session(r) \in SessionState /\ Session(r) = heap[req[r].obj]
    BY OwnObject DEF LoadUser
  <1>2. s \in SessionState /\ s.pending = heap[req[r].obj].pending
    BY <1>1 DEF SessionState
  <1>3. heap' = [heap EXCEPT ![req[r].obj] = s]
    BY <1>1 DEF LoadUser, IInv, TypeOK
  <1> HIDE DEF s
  <1>4. QED
    BY <1>2, <1>3, ObjectWork DEF LoadUser, Place

LEMMA GreetOrdinary ==
  ASSUME IInv, NEW r \in Requests, NEW w \in Outcomes, Greet(r, w)
  PROVE  Ordinary(r)
  <1>1. req[r].obj \in Requests /\ Session(r) \in SessionState /\ Session(r) = heap[req[r].obj]
    BY OwnObject DEF Greet
  <1>2. ASSUME NEW m \in {"full", "data_only"}, heap' = [heap EXCEPT ![req[r].obj].mode = m],
               Save(r, "other"), UNCHANGED answer
        PROVE  Ordinary(r)
    <2> DEFINE s == [Session(r) EXCEPT !.mode = m]
    <2>1. s \in SessionState /\ s.pending = heap[req[r].obj].pending
      BY <1>1 DEF SessionState
    <2>2. heap' = [heap EXCEPT ![req[r].obj] = s]
      BY <1>1, <1>2 DEF IInv, TypeOK
    <2> HIDE DEF s
    <2>3. QED
      BY <1>2, <2>1, <2>2, SaveWork DEF Greet, Target
  <1>3. CASE Answer(r, "other") /\ UNCHANGED heap
    BY <1>3, AnswerWork, HeapSame DEF Greet, IInv
  <1>4. QED
    BY <1>2, <1>3 DEF Greet

LEMMA PingOrdinary ==
  ASSUME IInv, NEW r \in Requests, NEW w \in Outcomes, Ping(r, w)
  PROVE  Ordinary(r)
  <1>1. /\ req[r].obj \in Requests /\ Session(r) \in SessionState /\ Session(r) = heap[req[r].obj]
        /\ UNCHANGED heap => heap' = [heap EXCEPT ![req[r].obj] = Session(r)]
    BY OwnObject DEF Ping
  <1>2. CASE w \in {"text", "tools"}
    <2> DEFINE s == [Session(r) EXCEPT !.mode = "full"]
               m == handle_message(s)
    <2>1. s \in SessionState /\ s.pending = heap[req[r].obj].pending
      BY <1>1 DEF SessionState
    <2> HIDE DEF s
    <2>2. /\ m.at \in Place \ {"idle", "recalling", "executing"}
          /\ m.session \in SessionState /\ m.session.pending = heap[req[r].obj].pending
      BY <2>1, MessageTurn DEF Place
    <2>3. /\ heap' = [heap EXCEPT ![req[r].obj] = m.session] /\ Goto(r, m.at)
          /\ UNCHANGED <<req, answer>>
      BY <1>2 DEF Ping, s
    <2> HIDE DEF m
    <2>4. QED
      BY <2>2, <2>3, ObjectWork DEF Ping
  <1>3. CASE w = "down"
    BY <1>1, <1>3, ObjectWork DEF Ping, Place
  <1>4. CASE w = "error"
    BY <1>4, AnswerWork, HeapSame DEF Ping, IInv
  <1>5. QED
    BY <1>2, <1>3, <1>4 DEF Outcomes

LEMMA DataOnlyOrdinary ==
  ASSUME IInv, NEW r \in Requests, DataOnly(r)
  PROVE  Ordinary(r)
  BY AnswerWork, HeapSame DEF DataOnly, IInv

LEMMA NameOrdinary ==
  ASSUME IInv, NEW r \in Requests, NEW w \in Outcomes, Name(r, w)
  PROVE  Ordinary(r)
  <1>1. CASE Save(r, "other") /\ UNCHANGED answer
    BY <1>1, OwnObject, SaveWork DEF Name, Target
  <1>2. CASE Answer(r, "other")
    BY <1>2, AnswerWork, HeapSame DEF Name, IInv
  <1>3. QED
    BY <1>1, <1>2 DEF Name

LEMMA SummarizeOrdinary ==
  ASSUME IInv, NEW r \in Requests, NEW w \in Outcomes, Summarize(r, w)
  PROVE  Ordinary(r)
  <1>1. CASE Save(r, "result") /\ UNCHANGED answer
    BY <1>1, OwnObject, SaveWork DEF Summarize, Target
  <1>2. CASE Answer(r, "other")
    BY <1>2, AnswerWork, HeapSame DEF Summarize, IInv
  <1>3. QED
    BY <1>1, <1>2 DEF Summarize

LEMMA ResolveOrdinary ==
  ASSUME IInv, NEW r \in Requests, NEW m \in Matches, Resolve(r, m)
  PROVE  Ordinary(r)
  <1> DEFINE n == IF get_skill_playbook(m) /\ Session(r).step = 0 THEN 1 ELSE Session(r).step
             s == [Session(r) EXCEPT !.step = n]
  <1>1. req[r].obj \in Requests /\ Session(r) \in SessionState /\ Session(r) = heap[req[r].obj]
    BY OwnObject DEF Resolve
  <1>2. n \in Nat
    BY <1>1 DEF SessionState
  <1>3. heap' = [heap EXCEPT ![req[r].obj] = s]
    BY <1>1 DEF Resolve, IInv, TypeOK
  <1> HIDE DEF n
  <1>4. s \in SessionState /\ s.pending = heap[req[r].obj].pending
    BY <1>1, <1>2 DEF SessionState
  <1> HIDE DEF s
  <1>5. QED
    BY <1>3, <1>4, ObjectWork DEF Resolve, Place

LEMMA AdvanceOrdinary ==
  ASSUME IInv, NEW r \in Requests, NEW loops \in BOOLEAN, Advance(r, loops)
  PROVE  Ordinary(r)
  <1> DEFINE k == Session(r).step
             n == IF k = 0 THEN 0 ELSE IF loops THEN 1 ELSE IF k < PlaybookLen THEN k + 1 ELSE 0
             s == [Session(r) EXCEPT !.step = n]
  <1>1. req[r].obj \in Requests /\ Session(r) \in SessionState /\ Session(r) = heap[req[r].obj]
    BY OwnObject DEF Advance
  <1>2. n \in Nat
    BY <1>1 DEF SessionState
  <1>3. heap' = [heap EXCEPT ![req[r].obj] = s]
    BY <1>1 DEF Advance, IInv, TypeOK
  <1> HIDE DEF n
  <1>4. s \in SessionState /\ s.pending = heap[req[r].obj].pending
    BY <1>1, <1>2 DEF SessionState
  <1> HIDE DEF s
  <1>5. HeapTurn
    BY <1>1, <1>3, <1>4, HeapSet DEF IInv
  <1>6. QED
    BY <1>5, AnswerWork DEF Advance

LEMMA AskOrdinary ==
  ASSUME IInv, NEW r \in Requests, NEW w \in Outcomes, NEW n \in 1 .. MaxCalls, Ask(r, w, n)
  PROVE  Ordinary(r)
  <1>1. /\ req[r].obj \in Requests /\ Session(r) \in SessionState /\ Session(r) = heap[req[r].obj]
        /\ UNCHANGED heap => heap' = [heap EXCEPT ![req[r].obj] = Session(r)]
    BY OwnObject DEF Ask
  <1>2. CASE w = "text"
    BY <1>1, <1>2, SaveWork DEF Ask, Target
  <1>3. CASE w = "tools"
    <2>1. req[r] \in Locals /\ req' = [req EXCEPT ![r] = [req[r] EXCEPT !.calls = n]]
      BY <1>3 DEF Ask, IInv, TypeOK
    <2>2. [req[r] EXCEPT !.calls = n] \in Locals
      BY <2>1, AssistantAssumption DEF Locals
    <2>3. ReqTurn(r) /\ req'[r].obj = req[r].obj
      BY <2>1, <2>2 DEF IInv, TypeOK, ReqTurn, Locals
    <2>4. PcTurn(r)
      BY <1>3, GotoTurn DEF Ask, IInv, Place
    <2>5. ObjectTurn(r)
      BY <2>3, SameObject DEF Ask, AtWork
    <2>6. AnswerTurn(r) /\ HeapTurn
      BY <1>3, SameAnswer, HeapSame DEF Ask, IInv
    <2>7. QED
      BY <2>3, <2>4, <2>5, <2>6 DEF Ask, Ordinary, HasAsked
  <1>4. CASE w = "down"
    <2> DEFINE s == [Session(r) EXCEPT !.mode = "data_only"]
    <2>1. s \in SessionState /\ s.pending = heap[req[r].obj].pending
      BY <1>1 DEF SessionState
    <2>2. heap' = [heap EXCEPT ![req[r].obj] = s]
      BY <1>1, <1>4 DEF Ask, IInv, TypeOK
    <2> HIDE DEF s
    <2>3. QED
      BY <1>4, <2>1, <2>2, SaveWork DEF Ask, Target
  <1>5. CASE w = "error"
    BY <1>5, AnswerWork, HeapSame DEF Ask, IInv
  <1>6. QED
    BY <1>2, <1>3, <1>4, <1>5 DEF Outcomes


\* A tool answers: the next call, the next round, or the end of the loop.
LEMMA ToolResultOrdinary ==
  ASSUME IInv, NEW r \in Requests, CallTool(r, "result")
  PROVE  Ordinary(r)
  <1>1. r \in AtWork /\ req[r] \in Locals /\ pc[r] = "calling" /\ UNCHANGED heap
    BY DEF CallTool, AtWork, IInv, TypeOK
  <1>2. AnswerTurn(r) /\ HeapTurn
    BY <1>1, SameAnswer, HeapSame DEF CallTool, IInv
  <1>3. ASSUME NEW l \in Locals, l.obj = req[r].obj, req' = [req EXCEPT ![r] = l],
               PcTurn(r)
        PROVE  Ordinary(r)
    <2>1. ReqTurn(r) /\ req'[r].obj = req[r].obj
      BY <1>3 DEF IInv, TypeOK, ReqTurn
    <2>2. ObjectTurn(r)
      BY <1>1, <2>1, SameObject DEF CallTool
    <2>3. QED
      BY <1>1, <1>2, <1>3, <2>1, <2>2 DEF CallTool, Ordinary, HasAsked
  <1>4. CASE req[r].calls > 1 /\ req' = [req EXCEPT ![r].calls = @ - 1] /\ UNCHANGED pc
    <2>1. PcTurn(r)
      BY <1>1, <1>4 DEF IInv, TypeOK, PcTurn
    <2> DEFINE n == req[r].calls - 1
               l == [req[r] EXCEPT !.calls = n]
    <2>2. n \in Nat
      BY <1>1, <1>4 DEF Locals
    <2>3. req' = [req EXCEPT ![r] = l]
      BY <1>4 DEF IInv, TypeOK
    <2> HIDE DEF n
    <2>4. l \in Locals /\ l.obj = req[r].obj
      BY <1>1, <2>2 DEF Locals
    <2> HIDE DEF l
    <2>5. QED
      BY <1>3, <2>1, <2>3, <2>4
  <1>5. CASE req' = [req EXCEPT ![r].calls = 0, ![r].used = @ + 1] /\ Goto(r, "asking")
    <2>1. PcTurn(r)
      BY <1>5, GotoTurn DEF IInv, Place
    <2> DEFINE n == req[r].used + 1
               l == [req[r] EXCEPT !.calls = 0, !.used = n]
    <2>2. n \in Nat
      BY <1>1 DEF Locals
    <2>3. req' = [req EXCEPT ![r] = l]
      BY <1>5 DEF IInv, TypeOK
    <2> HIDE DEF n
    <2>4. l \in Locals /\ l.obj = req[r].obj
      BY <1>1, <2>2 DEF Locals
    <2> HIDE DEF l
    <2>5. QED
      BY <1>3, <2>1, <2>3, <2>4
  <1>6. CASE Save(r, "other")
    BY <1>1, <1>6, OwnObject, SaveWork DEF CallTool, Target
  <1>7. QED
    BY <1>4, <1>5, <1>6 DEF CallTool

\* A save registers the request's own object.  A question that is being saved
\* stays asked.
LEMMA SaveSessionOrdinary ==
  ASSUME IInv, NEW r \in Requests, SaveSession(r)
  PROVE  Ordinary(r)
  <1>1. /\ r \in AtWork /\ req[r] \in Locals /\ pc[r] = "saving" /\ registered' = req[r].obj
        /\ registered' \in SomeRequest /\ HeapTurn
        /\ UNCHANGED <<started, consumed, overlap, restarts>>
    BY HeapSame DEF SaveSession, AtWork, IInv, TypeOK, Locals
  <1>2. ASSUME PcTurn(r), ReqTurn(r), req'[r].obj = req[r].obj, UNCHANGED answer,
               HasAsked(r) => HasAsked(r)'
        PROVE  Ordinary(r)
    <2>1. ObjectTurn(r)
      BY <1>1, <1>2, SameObject
    <2>2. AnswerTurn(r)
      BY <1>1, <1>2, SameAnswer
    <2>3. QED
      BY <1>1, <1>2, <2>1, <2>2 DEF Ordinary
  <1>3. ASSUME NEW a \in {"asked", "other", "result"}, Answer(r, a)
        PROVE  Ordinary(r)
    <2>1. PcTurn(r) /\ pc'[r] = "done" /\ ReqTurn(r) /\ AnswerTurn(r)
      BY <1>3, AnswerEnds DEF IInv
    <2>2. ObjectTurn(r)
      BY <1>1, <2>1, NoObject DEF IInv, Alone
    <2>3. QED
      BY <1>1, <2>1, <2>2 DEF Ordinary, HasAsked
  <1>4. ASSUME NEW n \in {"asked", "other"}, Save(r, n), UNCHANGED answer,
               req[r].then \in {"holding", "asked"} => n = "asked"
        PROVE  Ordinary(r)
    <2>1. n \in Target
      BY DEF Target
    <2>2. PcTurn(r) /\ pc'[r] = "saving" /\ ReqTurn(r) /\ req'[r] = [req[r] EXCEPT !.then = n]
      BY <1>4, <2>1, SaveTurn DEF IInv
    <2>3. req'[r].then = n /\ req'[r].obj = req[r].obj
      BY <1>1, <2>2 DEF Locals
    <2>4. QED
      BY <1>1, <1>2, <1>4, <2>2, <2>3 DEF HasAsked
  <1>5. ASSUME NEW p \in {"menu", "advancing", "summarizing"}, Goto(r, p), UNCHANGED <<req, answer>>,
               req[r].then \notin {"holding", "asked"}
        PROVE  Ordinary(r)
    <2>1. PcTurn(r)
      BY <1>5, GotoTurn DEF IInv, Place
    <2>2. ReqTurn(r)
      BY <1>5 DEF IInv, TypeOK, ReqTurn
    <2>3. QED
      BY <1>1, <1>2, <1>5, <2>1, <2>2 DEF HasAsked
  <1>6. CASE req[r].then \in {"menu", "advancing"} /\ Goto(r, req[r].then) /\ UNCHANGED <<req, answer>>
    BY <1>5, <1>6
  <1>7. CASE req[r].then = "holding" /\ Save(r, "asked") /\ UNCHANGED answer
    BY <1>4, <1>7
  <1>8. CASE req[r].then = "cancelled" /\ Save(r, "other") /\ UNCHANGED answer
    BY <1>4, <1>8
  <1>9. CASE req[r].then = "clearing" /\ Answer(r, "other")
    BY <1>3, <1>9
  <1>10. CASE req[r].then = "clearing" /\ Goto(r, "summarizing") /\ UNCHANGED <<req, answer>>
    BY <1>5, <1>10
  <1>11. CASE req[r].then \in {"asked", "other", "result"} /\ Answer(r, req[r].then)
    BY <1>3, <1>11
  <1>12. QED
    BY <1>6, <1>7, <1>8, <1>9, <1>10, <1>11 DEF SaveSession

-----------------------------------------------------------------------------
(* The steps that concern a question *)

\* A cancel, and a confirm after the tool has answered, take whatever question
\* is in their object: it is in no other.
LEMMA TakingKeeps ==
  ASSUME IInv, NEW r \in Requests, NEW o \in Requests,
         pc[r] \in {"recalling", "executing"}, pc[r] = "executing" => o = req[r].obj,
         PcTurn(r), pc'[r] = "saving", ReqTurn(r), ObjectTurn(r),
         heap' = [heap EXCEPT ![o].pending = None],
         consumed' = consumed \cup ({heap[o].pending} \ {None}),
         UNCHANGED <<answer, started, overlap, restarts>>
  PROVE  IInv'
  <1>1. /\ heap' \in [Requests -> SessionState] /\ heap'[o].pending = None
        /\ \A p \in Requests \ {o} : heap'[p] = heap[p]
    <2>1. [heap[o] EXCEPT !.pending = None] \in SessionState /\ [heap[o] EXCEPT !.pending = None].pending = None
      BY DEF IInv, TypeOK, SessionState, SomeRequest
    <2>2. heap' = [heap EXCEPT ![o] = [heap[o] EXCEPT !.pending = None]]
      BY DEF IInv, TypeOK
    <2>3. QED
      BY <2>1, <2>2 DEF IInv, TypeOK
  <1>2. heap[o].pending \in SomeRequest
    BY DEF IInv, TypeOK, SessionState
  <1>3. TypeOK'
    BY <1>1, <1>2 DEF IInv, TypeOK, PcTurn, ReqTurn, ObjectTurn, SomeRequest
  <1>4. LocalsSound'
    BY DEF IInv, LocalsSound, AtWork, PcTurn, ReqTurn, ObjectTurn
  <1>5. \A c \in Requests : HasAsked(c) => HasAsked(c)'
    BY DEF HasAsked, PcTurn, ReqTurn
  <1>6. OneLife'
    <2>1. ASSUME NEW c \in Requests, c \in consumed' \/ started'[c] > 0
          PROVE  HasAsked(c)'
      <3>1. CASE c \in consumed \/ started[c] > 0
        BY <1>5, <3>1 DEF IInv, OneLife
      <3>2. CASE c = heap[o].pending
        BY <1>5, <3>2 DEF IInv, OneLife, Living
      <3>3. QED
        BY <2>1, <3>1, <3>2
    <2>2. ASSUME NEW p \in Requests, NEW c \in Requests, heap'[p].pending = c
          PROVE  Living(p, c)'
      <3>1. p # o /\ heap[p].pending = c
        BY <1>1, <2>2, NoneApart
      <3>2. Living(p, c)
        BY <3>1 DEF IInv, OneLife
      <3>3. HasAsked(c)' /\ c \notin consumed'
        BY <1>5, <3>1, <3>2 DEF Living
      <3>4. \A u \in Requests \ {p} : heap'[u].pending # c
        BY <1>1, <3>2, NoneApart DEF Living
      <3>5. started'[c] > 0 =>
                \E q \in Requests : pc'[q] = "executing" /\ req'[q].names = c /\ req'[q].obj = p
        BY <3>1, <3>2 DEF Living, PcTurn, ReqTurn
      <3>6. QED
        BY <3>3, <3>4, <3>5 DEF Living
    <2>3. QED
      BY <2>1, <2>2 DEF OneLife
  <1>7. Alone'
    <2> SUFFICES ASSUME ~overlap
                 PROVE  /\ \A u \in InFlight', q \in InFlight' : u = q
                        /\ \A u \in AtWork' : registered' # None => req'[u].obj = registered'
                        /\ \A u \in Requests : pc'[u] = "executing" => heap'[req'[u].obj].pending = req'[u].names
      BY DEF Alone
    <2>1. \A u \in InFlight : u = r
      BY DEF IInv, Alone, InFlight
    <2>2. \A u \in InFlight' : u = r
      BY <2>1 DEF InFlight, PcTurn
    <2>3. \A u \in AtWork' : u = r
      BY <2>2 DEF InFlight, AtWork
    <2>4. \A u \in Requests : pc'[u] # "executing"
      BY <2>1 DEF InFlight, PcTurn
    <2>5. QED
      BY <2>2, <2>3, <2>4 DEF ObjectTurn
  <1>8. QED
    BY <1>3, <1>4, <1>6, <1>7 DEF IInv


LEMMA CancelKeeps ==
  ASSUME IInv, NEW r \in Requests, handle_cancel(r)
  PROVE  IInv'
  <1>1. CASE SessionOf(r).pending # None /\ heap' = [heap EXCEPT ![Opened(r)].pending = None]
    <2> DEFINE o == Opened(r)
               l == [req[r] EXCEPT !.obj = o, !.then = "cancelled"]
    <2>1. /\ req' = [req EXCEPT ![r] = l] /\ Goto(r, "saving") /\ req[r] \in Locals
          /\ consumed' = consumed \cup {SessionOf(r).pending}
          /\ UNCHANGED <<registered, answer, started, overlap, restarts>>
      BY <1>1 DEF handle_cancel, IInv, TypeOK
    <2>2. o \in Requests /\ o = registered /\ SessionOf(r).pending = heap[o].pending
      BY <1>1, Opening
    <2> HIDE DEF o
    <2>3. l \in Locals /\ l.obj = o
      BY <2>1, <2>2 DEF Locals, SomeRequest, Target
    <2> HIDE DEF l
    <2>4. ReqTurn(r) /\ req'[r].obj = o
      BY <2>1, <2>3 DEF IInv, TypeOK, ReqTurn
    <2>5. PcTurn(r) /\ pc'[r] = "saving"
      BY <2>1, GotoTurn DEF IInv, Place
    <2>6. ObjectTurn(r)
      BY <2>1, <2>2, <2>4 DEF ObjectTurn, IInv, TypeOK
    <2>7. consumed' = consumed \cup ({heap[o].pending} \ {None})
      BY <1>1, <2>1, <2>2
    <2>8. heap' = [heap EXCEPT ![o].pending = None]
      BY <1>1 DEF o
    <2>9. QED
      BY <2>1, <2>2, <2>4, <2>5, <2>6, <2>7, <2>8, TakingKeeps DEF handle_cancel
  <1>2. CASE Answer(r, "other") /\ UNCHANGED <<heap, consumed>>
    BY <1>2, AnswerWork, HeapSame, OrdinaryKeeps DEF handle_cancel, IInv
  <1>3. QED
    BY <1>1, <1>2 DEF handle_cancel

LEMMA ExecutedKeeps ==
  ASSUME IInv, NEW r \in Requests, Executed(r)
  PROVE  IInv'
  <1> DEFINE o == req[r].obj
  <1>1. r \in AtWork /\ o \in Requests /\ req[r] \in Locals
    BY DEF Executed, AtWork, IInv, LocalsSound, TypeOK
  <1>2. "clearing" \in Target
    BY DEF Target
  <1>3. /\ PcTurn(r) /\ pc'[r] = "saving"
        /\ ReqTurn(r) /\ req'[r] = [req[r] EXCEPT !.then = "clearing"]
    BY <1>2, SaveTurn DEF Executed, IInv
  <1>4. req'[r].obj = o
    BY <1>1, <1>3 DEF Locals
  <1>5. ObjectTurn(r)
    BY <1>1, <1>4, SameObject DEF Executed
  <1>6. /\ heap' = [heap EXCEPT ![o].pending = None]
        /\ consumed' = consumed \cup ({heap[o].pending} \ {None})
        /\ pc[r] = "executing"
        /\ UNCHANGED <<answer, started, overlap, restarts>>
    BY DEF Executed, Session
  <1>7. QED
    BY <1>1, <1>3, <1>5, <1>6, TakingKeeps

\* A confirm request starts the tool of the question that it names, which is in
\* the object it has opened and stays there until the tool has answered.
LEMMA ConfirmKeeps ==
  ASSUME IInv, NEW r \in Requests, handle_confirm(r)
  PROVE  IInv'
  <1>1. CASE SessionOf(r).pending = req[r].names /\ Open(r, SessionOf(r), "executing")
    <2> DEFINE c == req[r].names
               o == registered
               l == [req[r] EXCEPT !.obj = o]
    <2>1. /\ c \in Requests /\ pc[r] = "recalling" /\ req[r] \in Locals
          /\ started' = [started EXCEPT ![c] = @ + 1]
          /\ UNCHANGED <<registered, answer, consumed, overlap, restarts>>
      BY <1>1 DEF handle_confirm, execute_confirmed, IInv, TypeOK, LocalsSound, Answer, Open, Goto, Place
    <2>2. registered # None /\ registered \in Requests
      BY <1>1, <2>1, Opening, NoneApart DEF IInv, TypeOK, SomeRequest
    <2>3. Opened(r) = o /\ SessionOf(r) = heap[o] /\ heap[o].pending = c
      BY <1>1, <2>2, Opening
    <2>4. heap' = heap /\ pc' = [pc EXCEPT ![r] = "executing"] /\ req' = [req EXCEPT ![r] = l]
      BY <1>1, <2>2, <2>3 DEF Open, Goto, IInv, TypeOK
    <2>5. l \in Locals /\ l.obj = o /\ l.names = c /\ l.kind = req[r].kind
      BY <2>1, <2>2 DEF Locals, SomeRequest
    <2> HIDE DEF l, c
    <2>6. /\ pc' \in [Requests -> Place] /\ pc'[r] = "executing" /\ req'[r] = l
          /\ \A q \in Requests \ {r} : pc'[q] = pc[q] /\ req'[q] = req[q]
      BY <2>4 DEF IInv, TypeOK, Place
    <2>7. started' \in [Requests -> Nat] /\ \A d \in Requests \ {c} : started'[d] = started[d]
      BY <2>1 DEF IInv, TypeOK
    <2>8. TypeOK'
      BY <2>1, <2>4, <2>5, <2>6, <2>7 DEF IInv, TypeOK
    <2>9. LocalsSound'
      BY <2>1, <2>2, <2>5, <2>6 DEF IInv, LocalsSound, AtWork
    <2>10. \A d \in Requests : HasAsked(d) => HasAsked(d)'
      BY <2>1, <2>6 DEF HasAsked
    <2>11. Living(o, c)
      BY <2>1, <2>2, <2>3 DEF IInv, OneLife
    <2>12. OneLife'
      <3>1. \A d \in Requests : d \in consumed' \/ started'[d] > 0 => HasAsked(d)'
        BY <2>1, <2>7, <2>10, <2>11 DEF IInv, OneLife, Living
      <3>2. ASSUME NEW p \in Requests, NEW d \in Requests, heap'[p].pending = d
            PROVE  Living(p, d)'
        <4>1. Living(p, d)
          BY <2>4, <3>2 DEF IInv, OneLife
        <4>2. /\ HasAsked(d)' /\ d \notin consumed'
              /\ \A u \in Requests \ {p} : heap'[u].pending # d
          BY <2>1, <2>4, <2>10, <4>1 DEF Living
        <4>3. started'[d] > 0 =>
                \E q \in Requests : pc'[q] = "executing" /\ req'[q].names = d /\ req'[q].obj = p
          <5>1. CASE d = c
            <6>1. p = o
              BY <2>2, <2>3, <4>1, <5>1 DEF Living
            <6>2. QED
              BY <2>5, <2>6, <5>1, <6>1
          <5>2. CASE d # c
            BY <2>1, <2>6, <2>7, <4>1, <5>2 DEF Living
          <5>3. QED
            BY <5>1, <5>2
        <4>4. QED
          BY <4>2, <4>3 DEF Living
      <3>3. QED
        BY <3>1, <3>2 DEF OneLife
    <2>13. Alone'
      <3> SUFFICES ASSUME ~overlap
                   PROVE  /\ \A u \in InFlight', q \in InFlight' : u = q
                          /\ \A u \in AtWork' : registered' # None => req'[u].obj = registered'
                          /\ \A u \in Requests : pc'[u] = "executing" => heap'[req'[u].obj].pending = req'[u].names
        BY <2>1 DEF Alone
      <3>1. \A u \in InFlight : u = r
        BY <2>1 DEF IInv, Alone, InFlight
      <3>2. \A u \in InFlight' : u = r
        BY <2>6, <3>1 DEF InFlight
      <3>3. \A u \in Requests : pc'[u] = "executing" => u = r
        BY <3>2 DEF InFlight
      <3>4. \A u \in AtWork' : u = r
        BY <3>2 DEF InFlight, AtWork
      <3>5. QED
        BY <2>1, <2>3, <2>4, <2>5, <2>6, <3>2, <3>3, <3>4
    <2>14. QED
      BY <2>8, <2>9, <2>12, <2>13 DEF IInv
  <1>2. CASE Answer(r, "other") /\ UNCHANGED <<heap, started>>
    BY <1>2, AnswerWork, HeapSame, OrdinaryKeeps DEF handle_confirm, IInv
  <1>3. QED
    BY <1>1, <1>2 DEF handle_confirm


\* A question comes into the object of its request, whose first it is.
LEMMA QuestionKeeps ==
  ASSUME IInv, NEW r \in Requests, CallTool(r, "confirmation_required")
  PROVE  IInv'
  <1> DEFINE o == req[r].obj
             s == [heap[o] EXCEPT !.pending = r]
  <1>1. /\ r \in AtWork /\ pc[r] = "calling" /\ o \in Requests /\ req[r] \in Locals /\ heap[o] \in SessionState
        /\ UNCHANGED <<registered, answer, started, consumed, overlap, restarts>>
    BY DEF CallTool, AtWork, IInv, LocalsSound, TypeOK
  <1>2. "holding" \in Target
    BY DEF Target
  <1>3. /\ PcTurn(r) /\ pc'[r] = "saving"
        /\ ReqTurn(r) /\ req'[r] = [req[r] EXCEPT !.then = "holding"]
    BY <1>2, SaveTurn DEF CallTool, IInv
  <1>4. req'[r].obj = o /\ req'[r].then = "holding"
    BY <1>1, <1>3 DEF Locals
  <1>5. heap' = [heap EXCEPT ![o] = s]
    BY <1>1 DEF CallTool, IInv, TypeOK
  <1>6. s \in SessionState /\ s.pending = r
    BY <1>1 DEF SessionState, SomeRequest
  <1> HIDE DEF s, o
  <1>7. /\ heap' \in [Requests -> SessionState] /\ heap'[o].pending = r
        /\ \A p \in Requests \ {o} : heap'[p] = heap[p]
    BY <1>1, <1>5, <1>6 DEF IInv, TypeOK
  <1>8. ObjectTurn(r)
    BY <1>1, <1>4, SameObject DEF o
  <1>9. TypeOK'
    BY <1>1, <1>3, <1>7, <1>8 DEF IInv, TypeOK, PcTurn, ReqTurn
  <1>10. LocalsSound'
    BY <1>1, <1>3, <1>8 DEF IInv, LocalsSound, AtWork, PcTurn, ReqTurn, ObjectTurn
  <1>11. HasAsked(r)' /\ ~HasAsked(r) /\ \A c \in Requests : HasAsked(c) => HasAsked(c)'
    BY <1>1, <1>3, <1>4 DEF HasAsked, PcTurn, ReqTurn
  <1>12. OneLife'
    <2>1. \A c \in Requests : c \in consumed' \/ started'[c] > 0 => HasAsked(c)'
      BY <1>1, <1>11 DEF IInv, OneLife
    <2>2. \A p \in Requests : heap[p].pending # r
      BY <1>11 DEF IInv, OneLife, Living
    <2>3. ASSUME NEW p \in Requests, NEW c \in Requests, heap'[p].pending = c
          PROVE  Living(p, c)'
      <3>1. CASE p = o
        <4>1. c = r
          BY <1>7, <2>3, <3>1
        <4>2. r \notin consumed /\ ~(started[r] > 0)
          BY <1>11 DEF IInv, OneLife
        <4>3. \A u \in Requests \ {p} : heap'[u].pending # r
          BY <1>7, <2>2, <3>1
        <4>4. QED
          BY <1>1, <1>11, <4>1, <4>2, <4>3 DEF Living
      <3>2. CASE p # o
        <4>1. heap[p].pending = c
          BY <1>7, <2>3, <3>2
        <4>2. Living(p, c) /\ c # r
          BY <2>2, <4>1 DEF IInv, OneLife
        <4>3. \A u \in Requests \ {p} : heap'[u].pending # c
          BY <1>7, <4>2 DEF Living
        <4>4. started'[c] > 0 =>
                \E q \in Requests : pc'[q] = "executing" /\ req'[q].names = c /\ req'[q].obj = p
          BY <1>1, <1>3, <4>2 DEF Living, PcTurn, ReqTurn
        <4>5. QED
          BY <1>1, <1>11, <4>2, <4>3, <4>4 DEF Living
      <3>3. QED
        BY <3>1, <3>2
    <2>4. QED
      BY <2>1, <2>3 DEF OneLife
  <1>13. Alone'
    <2> SUFFICES ASSUME ~overlap
                 PROVE  /\ \A u \in InFlight', q \in InFlight' : u = q
                        /\ \A u \in AtWork' : registered' # None => req'[u].obj = registered'
                        /\ \A u \in Requests : pc'[u] = "executing" => heap'[req'[u].obj].pending = req'[u].names
      BY <1>1 DEF Alone
    <2>1. \A u \in InFlight : u = r
      BY <1>1 DEF IInv, Alone, InFlight, AtWork
    <2>2. \A u \in InFlight' : u = r
      BY <1>3, <2>1 DEF InFlight, PcTurn
    <2>3. \A u \in AtWork' : u = r
      BY <2>2 DEF InFlight, AtWork
    <2>4. \A u \in Requests : pc'[u] # "executing"
      BY <1>3, <2>2 DEF InFlight
    <2>5. QED
      BY <1>3, <1>8, <2>2, <2>3, <2>4 DEF ObjectTurn
  <1>14. QED
    BY <1>9, <1>10, <1>12, <1>13 DEF IInv

\* A new request has done nothing; if another is in flight, they overlap.
LEMMA ArriveKeeps ==
  ASSUME IInv, NEW r \in Requests, NEW k \in Kinds, NEW c \in Requests \cup {None}, Arrive(r, k, c)
  PROVE  IInv'
  <1> DEFINE l == [req[r] EXCEPT !.kind = k, !.names = c]
  <1>1. /\ pc[r] = "idle" /\ req' = [req EXCEPT ![r] = l] /\ pc' = [pc EXCEPT ![r] = "recalling"]
        /\ req[r] \in Locals /\ overlap' = (overlap \/ InFlight # {})
        /\ UNCHANGED <<heap, registered, answer, started, consumed, restarts>>
        /\ k = "confirm" => c \in Requests
    BY DEF Arrive, IInv, TypeOK
  <1>2. l \in Locals /\ l.kind = k /\ l.names = c
    BY <1>1 DEF Locals, SomeRequest
  <1> HIDE DEF l
  <1>3. /\ pc' \in [Requests -> Place] /\ pc'[r] = "recalling" /\ req'[r] = l
        /\ \A q \in Requests \ {r} : pc'[q] = pc[q] /\ req'[q] = req[q]
    BY <1>1 DEF IInv, TypeOK, Place
  <1>4. overlap' \in BOOLEAN
    BY <1>1 DEF IInv, TypeOK
  <1>5. req' \in [Requests -> Locals]
    BY <1>1, <1>2 DEF IInv, TypeOK
  <1>6. TypeOK'
    BY <1>1, <1>3, <1>4, <1>5 DEF IInv, TypeOK
  <1>7. LocalsSound'
    BY <1>1, <1>2, <1>3 DEF IInv, LocalsSound, AtWork
  <1>8. \A d \in Requests : HasAsked(d) => HasAsked(d)'
    BY <1>1, <1>3 DEF HasAsked
  <1>9. OneLife'
    <2>1. ASSUME NEW p \in Requests, NEW d \in Requests, heap'[p].pending = d
          PROVE  Living(p, d)'
      <3>1. Living(p, d)
        BY <1>1, <2>1 DEF IInv, OneLife
      <3>2. QED
        BY <1>1, <1>3, <1>8, <3>1 DEF Living
    <2>2. QED
      BY <1>1, <1>8, <2>1 DEF IInv, OneLife
  <1>10. Alone'
    <2> SUFFICES ASSUME ~overlap'
                 PROVE  /\ \A u \in InFlight', q \in InFlight' : u = q
                        /\ \A u \in AtWork' : registered' # None => req'[u].obj = registered'
                        /\ \A u \in Requests : pc'[u] = "executing" => heap'[req'[u].obj].pending = req'[u].names
      BY DEF Alone
    <2>1. \A u \in Requests \ {r} : pc[u] \in {"idle", "done"}
      BY <1>1 DEF InFlight
    <2>2. QED
      BY <1>3, <2>1 DEF InFlight, AtWork
  <1>11. QED
    BY <1>6, <1>7, <1>9, <1>10 DEF IInv

\* After a restart no request is in flight and no object holds a question.
LEMMA RestartKeeps ==
  ASSUME IInv, Restart
  PROVE  IInv'
  <1>1. /\ registered' = None
        /\ pc' = [r \in Requests |-> IF pc[r] = "idle" THEN "idle" ELSE "done"]
        /\ req' = [r \in Requests |-> NoRequest]
        /\ answer' = [r \in Requests |-> IF r \in InFlight THEN "other" ELSE answer[r]]
        /\ heap' = [r \in Requests |-> Fresh]
        /\ restarts' = restarts + 1
        /\ UNCHANGED <<started, consumed, overlap>>
    BY DEF Restart
  <1>2. Fresh \in SessionState /\ Fresh.pending = None
    BY DEF Fresh, SessionState, SomeRequest
  <1>3. TypeOK'
    BY <1>1, <1>2, NoRequestType, NoneApart DEF IInv, TypeOK, Place
  <1>4. LocalsSound'
    BY <1>1 DEF IInv, TypeOK, LocalsSound, AtWork, InFlight
  <1>5. OneLife'
    <2>1. \A o, c \in Requests : heap'[o].pending # c
      BY <1>1, <1>2, NoneApart
    <2>2. \A c \in Requests : HasAsked(c) => HasAsked(c)'
      BY <1>1 DEF HasAsked
    <2>3. QED
      BY <1>1, <2>1, <2>2 DEF IInv, OneLife
  <1>6. Alone'
    BY <1>1 DEF Alone, InFlight, AtWork
  <1>7. QED
    BY <1>3, <1>4, <1>5, <1>6 DEF IInv

-----------------------------------------------------------------------------
\* Every step of a request is ordinary or one of the four that concern a question.
LEMMA StepKinds ==
  ASSUME IInv, NEW r \in Requests, Step(r)
  PROVE  \/ Ordinary(r) \/ handle_confirm(r) \/ handle_cancel(r)
         \/ CallTool(r, "confirmation_required") \/ Executed(r)
  <1>1. CASE OpenInit(r) \/ OpenMessage(r) \/ DataOnly(r) \/ SaveSession(r)
    BY <1>1, OpenInitOrdinary, OpenMessageOrdinary, DataOnlyOrdinary, SaveSessionOrdinary
  <1>2. CASE \E b \in BOOLEAN : LoadUser(r, b) \/ Advance(r, b)
    BY <1>2, LoadUserOrdinary, AdvanceOrdinary
  <1>3. CASE \E m \in Matches : Resolve(r, m)
    BY <1>3, ResolveOrdinary
  <1>4. CASE \E t \in ToolResults : CallTool(r, t)
    BY <1>4, ToolResultOrdinary DEF ToolResults
  <1>5. CASE \E w \in Outcomes : Greet(r, w) \/ Ping(r, w) \/ Name(r, w) \/ Summarize(r, w)
    BY <1>5, GreetOrdinary, PingOrdinary, NameOrdinary, SummarizeOrdinary
  <1>6. CASE \E w \in Outcomes, n \in 1 .. MaxCalls : Ask(r, w, n)
    BY <1>6, AskOrdinary
  <1>7. QED
    BY <1>1, <1>2, <1>3, <1>4, <1>5, <1>6 DEF Step

LEMMA InitSound == Init => IInv
  <1> SUFFICES ASSUME Init PROVE IInv
    OBVIOUS
  <1>1. Fresh \in SessionState /\ Fresh.pending = None
    BY DEF Fresh, SessionState, SomeRequest
  <1>2. TypeOK
    BY <1>1, NoRequestType, NoneApart DEF Init, TypeOK, Place
  <1>3. LocalsSound /\ Alone
    BY DEF Init, LocalsSound, Alone, AtWork, InFlight
  <1>4. OneLife
    BY <1>1, NoneApart DEF Init, OneLife
  <1>5. QED
    BY <1>2, <1>3, <1>4 DEF IInv

LEMMA Stutters ==
  ASSUME IInv, UNCHANGED vars
  PROVE  IInv'
  <1>1. TypeOK' /\ LocalsSound'
    BY DEF IInv, vars, TypeOK, LocalsSound, AtWork
  <1>2. OneLife'
    BY DEF IInv, vars, OneLife, Living, HasAsked
  <1>3. Alone'
    BY DEF IInv, vars, Alone, InFlight, AtWork
  <1>4. QED
    BY <1>1, <1>2, <1>3 DEF IInv

LEMMA Inductive == Spec => []IInv
  <1>1. IInv /\ [Next]_vars => IInv'
    <2> SUFFICES ASSUME IInv, [Next]_vars PROVE IInv'
      OBVIOUS
    <2>1. ASSUME NEW r \in Requests, NEW k \in Kinds, NEW c \in Requests \cup {None}, Arrive(r, k, c)
          PROVE  IInv'
      BY <2>1, ArriveKeeps
    <2>2. ASSUME NEW r \in Requests, Step(r)
          PROVE  IInv'
      BY <2>2, StepKinds, OrdinaryKeeps, ConfirmKeeps, CancelKeeps, QuestionKeeps, ExecutedKeeps
    <2>3. CASE Restart
      BY <2>3, RestartKeeps
    <2>4. CASE UNCHANGED vars
      BY <2>4, Stutters
    <2>5. QED
      BY <2>1, <2>2, <2>3, <2>4 DEF Next
  <1>2. QED
    BY <1>1, InitSound, PTL DEF Spec


\* For any number of requests and restarts, handle_confirm calls the tool of a
\* confirmation that was taken, by a confirm or a cancel, never again, and calls it
\* a second time only while another confirm of it waits for the tool.
THEOREM NoSecondLifeTheorem == Spec => NoSecondLife
  <1> DEFINE Once == \A c \in Requests : started'[c] # started[c] =>
          /\ c \notin consumed
          /\ started[c] > 0 => \E q \in Requests : pc[q] = "executing" /\ req[q].names = c
  <1>1. IInv /\ [Next]_vars => [Once]_vars
    <2> SUFFICES ASSUME IInv, [Next]_vars PROVE Once
      OBVIOUS
    <2>1. CASE UNCHANGED started
      BY <2>1
    <2>2. CASE \E r \in Requests : handle_confirm(r)
      <3>1. PICK r \in Requests : handle_confirm(r)
        BY <2>2
      <3>2. CASE UNCHANGED started
        BY <3>2
      <3>3. CASE SessionOf(r).pending = req[r].names /\ started' = [started EXCEPT ![req[r].names] = @ + 1]
        <4>1. req[r].names \in Requests
          BY <3>1 DEF handle_confirm, IInv, LocalsSound
        <4>2. PICK o \in Requests : heap[o].pending = req[r].names
          BY <3>3, <4>1, Opening, NoneApart
        <4>3. Living(o, req[r].names)
          BY <4>1, <4>2 DEF IInv, OneLife
        <4>4. \A c \in Requests : started'[c] # started[c] => c = req[r].names
          BY <3>3 DEF IInv, TypeOK
        <4>5. QED
          BY <4>3, <4>4 DEF Living
      <3>4. QED
        BY <3>1, <3>2, <3>3 DEF handle_confirm, execute_confirmed
    <2>3. ASSUME NEW r \in Requests, Step(r)
          PROVE  UNCHANGED started \/ handle_confirm(r)
      <3>1. handle_cancel(r) \/ CallTool(r, "confirmation_required") \/ Executed(r) => UNCHANGED started
        BY DEF handle_cancel, CallTool, Executed
      <3>2. QED
        BY <2>3, <3>1, StepKinds DEF Ordinary
    <2>4. QED
      BY <2>1, <2>2, <2>3 DEF Next, Arrive, Restart, vars
  <1>2. QED
    BY <1>1, Inductive, PTL DEF Spec, NoSecondLife

\* What a step may do to a confirmation that can be answered.
Lasts(c) ==
    Confirmable(c) /\ ~Confirmable(c)' =>
          \/ c \in consumed' /\ \E r \in Requests : pc[r] # pc'[r] /\ (req[r].kind = "cancel" \/ req[r].names = c)
          \/ \E d \in Requests \ {c} : heap'[registered].pending = d /\ registered' = registered
          \/ restarts' # restarts
          \/ overlap

\* The question is still registered and in its object.
LEMMA StillThere ==
  ASSUME NEW c \in Requests, Confirmable(c), answer'[c] = answer[c], registered' = registered,
         heap'[registered].pending = heap[registered].pending
  PROVE  Lasts(c)
  BY DEF Lasts, Confirmable


LEMMA LastsStep ==
  ASSUME IInv, [Next]_vars, NEW c \in Requests
  PROVE  Lasts(c)
  <1> SUFFICES ASSUME Confirmable(c), ~overlap PROVE Lasts(c)
    BY DEF Lasts
  <1>1. /\ registered \in Requests /\ registered # None /\ heap[registered].pending = c
        /\ answer[c] = "asked" /\ pc[c] = "done"
    BY NoneApart DEF IInv, TypeOK, LocalsSound, Confirmable, SomeRequest
  <1>2. ASSUME NEW r \in Requests, Ordinary(r)
        PROVE  Lasts(c)
    <2>1. answer'[c] = answer[c]
      BY <1>1, <1>2 DEF Ordinary, AnswerTurn
    <2>2. registered' = registered /\ heap'[registered].pending = heap[registered].pending
      BY <1>1, <1>2 DEF Ordinary, ObjectTurn, HeapTurn
    <2>3. QED
      BY <2>1, <2>2, StillThere
  <1>3. ASSUME NEW r \in Requests, handle_confirm(r)
        PROVE  Lasts(c)
    <2>1. CASE Open(r, SessionOf(r), "executing") /\ UNCHANGED answer
      <3>1. heap' = [heap EXCEPT ![registered] = heap[registered]] /\ registered' = registered
        BY <1>1, <1>3, <2>1, Opening DEF handle_confirm, Open
      <3>2. heap'[registered].pending = heap[registered].pending
        BY <1>1, <3>1 DEF IInv, TypeOK
      <3>3. QED
        BY <2>1, <3>1, <3>2, StillThere
    <2>2. CASE Answer(r, "other") /\ UNCHANGED heap
      <3>1. r # c
        BY <1>1, <1>3 DEF handle_confirm
      <3>2. answer'[c] = answer[c] /\ registered' = registered
        BY <1>3, <2>2, <3>1 DEF Answer, handle_confirm, IInv, TypeOK
      <3>3. QED
        BY <2>2, <3>2, StillThere
    <2>3. QED
      BY <1>3, <2>1, <2>2 DEF handle_confirm
  <1>4. ASSUME NEW r \in Requests, handle_cancel(r)
        PROVE  Lasts(c)
    <2>1. SessionOf(r).pending = c
      BY <1>1, Opening
    <2>2. c \in consumed' /\ Goto(r, "saving")
      BY <1>1, <1>4, <2>1, NoneApart DEF handle_cancel
    <2>3. pc[r] # pc'[r] /\ req[r].kind = "cancel"
      BY <1>4, <2>2 DEF handle_cancel, Goto, IInv, TypeOK
    <2>4. QED
      BY <2>2, <2>3 DEF Lasts
  <1>5. ASSUME NEW r \in Requests, CallTool(r, "confirmation_required")
        PROVE  Lasts(c)
    <2>1. r # c /\ registered' = registered
      BY <1>1, <1>5 DEF CallTool
    <2>2. req[r].obj = registered
      BY <1>1, <1>5 DEF CallTool, IInv, Alone, AtWork
    <2>3. heap' = [heap EXCEPT ![registered].pending = r]
      BY <1>5, <2>2 DEF CallTool
    <2>4. heap'[registered].pending = r
      BY <1>1, <2>3 DEF IInv, TypeOK, SessionState
    <2>5. QED
      BY <2>1, <2>4 DEF Lasts
  <1>6. ASSUME NEW r \in Requests, Executed(r)
        PROVE  Lasts(c)
    <2>1. req[r].obj = registered
      BY <1>1, <1>6 DEF Executed, IInv, Alone, AtWork
    <2>2. req[r].names = c /\ Session(r).pending = c
      BY <1>1, <1>6, <2>1 DEF Executed, IInv, Alone, Session
    <2>3. c \in consumed'
      BY <1>6, <2>2, NoneApart DEF Executed
    <2>4. pc[r] # pc'[r]
      BY <1>6 DEF Executed, Save, Goto, IInv, TypeOK
    <2>5. QED
      BY <2>2, <2>3, <2>4 DEF Lasts
  <1>7. ASSUME NEW r \in Requests, Step(r)
        PROVE  Lasts(c)
    BY <1>2, <1>3, <1>4, <1>5, <1>6, <1>7, StepKinds
  <1>8. CASE Restart
    <2>1. restarts' # restarts
      BY <1>8 DEF Restart, IInv, TypeOK
    <2>2. QED
      BY <2>1 DEF Lasts
  <1>9. CASE \E r \in Requests, k \in Kinds, d \in Requests \cup {None} : Arrive(r, k, d)
    BY <1>9, StillThere DEF Arrive
  <1>10. CASE UNCHANGED vars
    BY <1>10, StillThere DEF vars
  <1>11. QED
    BY <1>7, <1>8, <1>9, <1>10 DEF Next

\* For any number of requests: a question that the user was shown can be confirmed
\* or cancelled until it is used, cancelled or replaced by a later question; the
\* shared session object loses it otherwise only by a restart or after requests
\* overlapped.
THEOREM ConfirmableTheorem == Spec => ConfirmableUntilUsed
  <1>1. IInv /\ [Next]_vars => [\A c \in Requests : Lasts(c)]_vars
    BY LastsStep
  <1>2. QED
    BY <1>1, Inductive, PTL DEF Spec, ConfirmableUntilUsed, Lasts

-----------------------------------------------------------------------------
(* The event queue *)

PushPlace == {"new", "evicting", "removing", "appending", "stored", "failed"}
DrainPlace == {"new", "read", "cleared", "answered", "failed"}

EventTypeOK ==
    /\ queue \in Seq(Event)
    /\ push \in [Event -> PushPlace]
    /\ victim \in [Event -> Event]
    /\ drain \in [Drain -> DrainPlace]
    /\ taken \in [Drain -> Seq(Event)]
    /\ present \in [Drain -> SUBSET Event]

\* What a drain will answer is everything it found.
ReadWhole == \A d \in Drain : drain[d] = "read" => present[d] = ToSet(taken[d])

\* crossed holds pushes that have begun, and all pushes in flight when there is
\* more than one.
CrossedSound ==
    /\ IsFiniteSet(Pushing) /\ IsFiniteSet(crossed)
    /\ crossed \subseteq {e \in Event : push[e] # "new"}
    /\ \A e \in Pushing \ crossed : Pushing = {e}

CapBound == Cap + (IF crossed = {} THEN 0 ELSE Cardinality(crossed) - 1)

\* The victim of a push that is about to remove it is there.
Removable(e) == queue # <<>> /\ (victim[e] = e \/ Contains(queue, victim[e]))

\* Every push in flight may append without room being made for it.
RoomForAll == Len(queue) + Cardinality(Pushing) <= CapBound

\* One of them must make room first, and will, whoever is first to remove.
RoomToCome ==
    /\ Len(queue) + Cardinality(Pushing) <= CapBound + 1
    /\ \E e \in Event : push[e] \in {"evicting", "removing"}
    /\ \A e \in Event : push[e] = "removing" => Removable(e)

CapInv == CrossedSound /\ (RoomForAll \/ RoomToCome)

EventInv == EventTypeOK /\ ReadWhole /\ StoredEventsAccounted /\ CapInv

\* The library's Min is a least element.
LEMMA LeastIndex ==
  ASSUME NEW I \in SUBSET Nat, I # {}
  PROVE  Min(I) \in I
  <1>1. PICK x \in I : \A y \in I : ~(<<y, x>> \in OpToRel(<, Nat))
    BY NatLessThanWellFounded, WFMin
  <1>2. ASSUME NEW y \in I PROVE x <= y
    <2>1. x \in Nat /\ y \in Nat
      OBVIOUS
    <2>2. y < x => <<y, x>> \in OpToRel(<, Nat)
      BY <2>1 DEF OpToRel
    <2>3. ~(y < x)
      BY <1>1, <2>2, Zenon
    <2>4. QED
      BY <2>1, <2>3
  <1>3. QED
    BY <1>2 DEF Min

\* LREM takes one event out of the list, and no other.
LEMMA RemoveOne ==
  ASSUME NEW s \in Seq(Event), NEW v, Contains(s, v)
  PROVE  /\ RemoveFirst(s, v) \in Seq(Event)
         /\ Len(RemoveFirst(s, v)) = Len(s) - 1
         /\ ToSet(s) \ {v} \subseteq ToSet(RemoveFirst(s, v))
  <1> DEFINE I == {i \in 1 .. Len(s) : s[i] = v}
             k == Min(I)
             a == SubSeq(s, 1, k - 1)
             b == SubSeq(s, k + 1, Len(s))
  <1>1. I # {} /\ I \in SUBSET Nat
    BY LenProperties DEF Contains
  <1>2. k \in 1 .. Len(s) /\ s[k] = v
    BY <1>1, LeastIndex
  <1>3. RemoveFirst(s, v) = a \o b
    BY <1>1 DEF Contains, RemoveFirst, RemoveAt, SelectInSeq
  <1> HIDE DEF I, k
  <1>4. /\ a \in Seq(Event) /\ Len(a) = k - 1 /\ \A i \in 1 .. k - 1 : a[i] = s[i]
        /\ b \in Seq(Event) /\ Len(b) = Len(s) - k /\ \A i \in 1 .. Len(s) - k : b[i] = s[k + i]
    BY <1>2, LenProperties, SubSeqProperties
  <1> HIDE DEF a, b
  <1>5. /\ a \o b \in Seq(Event)
        /\ Len(a \o b) = Len(a) + Len(b)
        /\ \A i \in 1 .. Len(a) + Len(b) : (a \o b)[i] = IF i <= Len(a) THEN a[i] ELSE b[i - Len(a)]
    BY <1>4, ConcatProperties
  <1>len. Len(s) \in Nat /\ DOMAIN s = 1 .. Len(s) /\ Len(a) + Len(b) = Len(s) - 1
    BY <1>2, <1>4, LenProperties
  <1>6. ASSUME NEW x \in ToSet(s) \ {v} PROVE x \in ToSet(a \o b)
    <2>1. PICK i \in 1 .. Len(s) : s[i] = x
      BY <1>6, <1>len DEF ToSet
    <2>2. DOMAIN (a \o b) = 1 .. Len(a) + Len(b)
      BY <1>5, LenProperties
    <2>3. CASE i < k
      <3>1. i \in 1 .. Len(a) + Len(b) /\ i <= Len(a) /\ a[i] = x
        BY <1>2, <1>4, <1>len, <2>1, <2>3
      <3>2. QED
        BY <1>5, <2>2, <3>1 DEF ToSet
    <2>4. CASE i > k
      <3>1. i - 1 \in 1 .. Len(a) + Len(b) /\ ~(i - 1 <= Len(a)) /\ (i - 1) - Len(a) = i - k
        BY <1>2, <1>4, <1>len, <2>1, <2>4
      <3>2. b[i - k] = x
        BY <1>2, <1>4, <1>len, <2>1, <2>4
      <3>3. (a \o b)[i - 1] = x
        BY <1>5, <3>1, <3>2
      <3>4. QED
        BY <2>2, <3>1, <3>3 DEF ToSet
    <2>5. QED
      BY <1>2, <1>6, <1>len, <2>1, <2>3, <2>4
  <1>7. QED
    BY <1>3, <1>5, <1>len, <1>6

LEMMA ElementsOf ==
  ASSUME NEW s \in Seq(Event)
  PROVE  /\ ToSet(s) \subseteq Event
         /\ ToSet(s) = {s[k] : k \in 1 .. Len(s)}
         /\ \A x : Contains(s, x) <=> x \in ToSet(s)
  <1>1. DOMAIN s = 1 .. Len(s) /\ \A k \in 1 .. Len(s) : s[k] \in Event
    BY LenProperties, ElementOfSeq
  <1>2. QED
    BY <1>1 DEF ToSet, Contains

\* What the list holds after LREM or LPOP, and after RPUSH.
LEMMA AfterTail ==
  ASSUME NEW s \in Seq(Event), s # <<>>
  PROVE  /\ Tail(s) \in Seq(Event) /\ Head(s) \in Event
         /\ Len(Tail(s)) = Len(s) - 1
         /\ ToSet(s) \ {Head(s)} \subseteq ToSet(Tail(s))
  <1>1. /\ Tail(s) \in Seq(Event) /\ Head(s) \in Event /\ Len(Tail(s)) = Len(s) - 1
        /\ \A k \in 1 .. Len(Tail(s)) : Tail(s)[k] = s[k + 1]
    BY HeadTailProperties
  <1>2. Len(s) \in Nat /\ Head(s) = s[1]
    BY LenProperties
  <1>3. ASSUME NEW x \in ToSet(s) \ {Head(s)} PROVE x \in ToSet(Tail(s))
    <2>1. PICK k \in 1 .. Len(s) : s[k] = x
      BY <1>3, ElementsOf
    <2>2. k - 1 \in 1 .. Len(Tail(s)) /\ (k - 1) + 1 = k
      BY <1>1, <1>2, <1>3, <2>1
    <2>3. Tail(s)[k - 1] = x
      BY <1>1, <2>1, <2>2
    <2>4. QED
      BY <1>1, <2>2, <2>3, ElementsOf
  <1>4. QED
    BY <1>1, <1>3

LEMMA AfterAppend ==
  ASSUME NEW s \in Seq(Event), NEW e \in Event
  PROVE  /\ Append(s, e) \in Seq(Event) /\ Append(s, e) # <<>>
         /\ Len(Append(s, e)) = Len(s) + 1
         /\ ToSet(s) \cup {e} \subseteq ToSet(Append(s, e))
  <1>1. /\ Append(s, e) \in Seq(Event) /\ Append(s, e) # <<>>
        /\ Len(Append(s, e)) = Len(s) + 1 /\ Append(s, e)[Len(s) + 1] = e
        /\ \A k \in 1 .. Len(s) : Append(s, e)[k] = s[k]
    BY AppendProperties
  <1>2. Len(s) \in Nat
    BY LenProperties
  <1>3. ASSUME NEW x \in ToSet(s) PROVE x \in ToSet(Append(s, e))
    <2>1. PICK k \in 1 .. Len(s) : s[k] = x
      BY <1>3, ElementsOf
    <2>2. k \in 1 .. Len(Append(s, e)) /\ Append(s, e)[k] = x
      BY <1>1, <1>2, <2>1
    <2>3. QED
      BY <1>1, <2>2, ElementsOf
  <1>4. e \in ToSet(Append(s, e))
    <2>1. Len(s) + 1 \in 1 .. Len(Append(s, e))
      BY <1>1, <1>2
    <2>2. QED
      BY <1>1, <2>1, ElementsOf
  <1>5. QED
    BY <1>1, <1>3, <1>4

\* The list after a push has removed its victim.
LEMMA AfterRemoval ==
  ASSUME EventTypeOK, NEW e \in Event, RemoveVictim(e)
  PROVE  /\ queue' \in Seq(Event)
         /\ Len(queue') <= Len(queue)
         /\ Removable(e) => Len(queue') = Len(queue) - 1
         /\ ToSet(queue) \subseteq ToSet(queue') \cup evicted'
         /\ evicted \subseteq evicted'
  <1>1. queue \in Seq(Event) /\ Len(queue) \in Nat
    BY LenProperties DEF EventTypeOK
  <1>2. CASE /\ victim[e] # e
             /\ queue' = RemoveFirst(queue, victim[e])
             /\ evicted' = evicted \cup {x \in {victim[e]} : Contains(queue, x)}
    <2>1. CASE Contains(queue, victim[e])
      BY <1>1, <1>2, <2>1, RemoveOne
    <2>2. CASE ~Contains(queue, victim[e])
      <3>1. queue' = queue
        BY <1>2, <2>2 DEF RemoveFirst, Contains
      <3>2. QED
        BY <1>1, <1>2, <2>2, <3>1 DEF Removable
    <2>3. QED
      BY <2>1, <2>2
  <1>3. CASE victim[e] = e /\ queue # <<>> /\ queue' = Tail(queue) /\ evicted' = evicted \cup {Head(queue)}
    BY <1>1, <1>3, AfterTail
  <1>4. CASE victim[e] = e /\ queue = <<>> /\ UNCHANGED <<queue, evicted>>
    BY <1>1, <1>4 DEF Removable
  <1>5. QED
    BY <1>2, <1>3, <1>4 DEF RemoveVictim

\* The low-priority event that is chosen is in the list.
LEMMA ChosenIsThere ==
  ASSUME EventTypeOK, OldestLow(queue) # 0
  PROVE  queue[OldestLow(queue)] \in Event /\ Contains(queue, queue[OldestLow(queue)])
  <1> DEFINE I == {k \in 1 .. Len(queue) : queue[k] \in Low}
  <1>1. OldestLow(queue) = IF I # {} THEN Min(I) ELSE 0
    BY DEF OldestLow, SelectInSeq
  <1>2. I # {} /\ OldestLow(queue) = Min(I)
    BY <1>1
  <1>3. I \in SUBSET Nat
    OBVIOUS
  <1>4. OldestLow(queue) \in 1 .. Len(queue)
    BY <1>2, <1>3, LeastIndex
  <1>5. QED
    BY <1>4, ElementOfSeq DEF EventTypeOK, Contains

LEMMA EventTypeStep ==
  ASSUME EventTypeOK, ReadWhole, EventNext
  PROVE  EventTypeOK' /\ ReadWhole'
  <1> USE DEF PushPlace, DrainPlace
  <1>1. ASSUME NEW e \in Event, CountEvents(e) PROVE EventTypeOK' /\ ReadWhole'
    BY <1>1 DEF CountEvents, EventTypeOK, ReadWhole
  <1>2. ASSUME NEW e \in Event, ChooseVictim(e) PROVE EventTypeOK' /\ ReadWhole'
    <2>1. victim' \in [Event -> Event]
      BY <1>2, ChosenIsThere DEF ChooseVictim, EventTypeOK
    <2>2. push' \in [Event -> PushPlace]
      BY <1>2 DEF ChooseVictim, EventTypeOK
    <2>3. QED
      BY <1>2, <2>1, <2>2 DEF ChooseVictim, EventTypeOK, ReadWhole
  <1>3. ASSUME NEW e \in Event, RemoveVictim(e) PROVE EventTypeOK' /\ ReadWhole'
    <2>1. queue' \in Seq(Event)
      BY <1>3, AfterRemoval
    <2>2. push' \in [Event -> PushPlace]
      BY <1>3 DEF RemoveVictim, EventTypeOK
    <2>3. UNCHANGED <<victim, drain, taken, present>>
      BY <1>3 DEF RemoveVictim
    <2>4. QED
      BY <2>1, <2>2, <2>3 DEF EventTypeOK, ReadWhole
  <1>4. ASSUME NEW e \in Event, AppendEvent(e) PROVE EventTypeOK' /\ ReadWhole'
    BY <1>4, AfterAppend DEF AppendEvent, EventTypeOK, ReadWhole
  <1>5. ASSUME NEW e \in Event, PushFails(e) PROVE EventTypeOK' /\ ReadWhole'
    BY <1>5 DEF PushFails, EventTypeOK, ReadWhole
  <1>6. ASSUME NEW d \in Drain, ReadEvents(d) PROVE EventTypeOK' /\ ReadWhole'
    <2>1. ToSet(queue) \subseteq Event /\ queue \in Seq(Event)
      BY ElementsOf DEF EventTypeOK
    <2>2. EventTypeOK'
      BY <1>6, <2>1 DEF ReadEvents, EventTypeOK
    <2>3. ReadWhole'
      BY <1>6 DEF ReadEvents, EventTypeOK, ReadWhole
    <2>4. QED
      BY <2>2, <2>3
  <1>7. ASSUME NEW d \in Drain, ClearEvents(d) PROVE EventTypeOK' /\ ReadWhole'
    <2>1. queue' \in Seq(Event)
      BY <1>7, EmptySeq DEF ClearEvents
    <2>2. QED
      BY <1>7, <2>1 DEF ClearEvents, EventTypeOK, ReadWhole
  <1>8. ASSUME NEW d \in Drain, AnswerDrain(d) PROVE EventTypeOK' /\ ReadWhole'
    BY <1>8 DEF AnswerDrain, EventTypeOK, ReadWhole
  <1>9. ASSUME NEW d \in Drain, DrainFails(d) PROVE EventTypeOK' /\ ReadWhole'
    <2>1. <<>> \in Seq(Event)
      BY EmptySeq
    <2>2. QED
      BY <1>9, <2>1 DEF DrainFails, EventTypeOK, ReadWhole
  <1>10. QED
    BY <1>1, <1>2, <1>3, <1>4, <1>5, <1>6, <1>7, <1>8, <1>9 DEF EventNext

\* Where an event that has left the list may be.
Departed == Delivered \cup Held \cup evicted \cup wiped \cup broken

\* No step forgets an event.
LEMMA NothingForgotten ==
  ASSUME EventTypeOK, ReadWhole, EventNext
  PROVE  ToSet(queue) \cup Departed \subseteq ToSet(queue') \cup Departed'
  <1> DEFINE Reached == {x \in UNION {ToSet(taken[d]) : d \in Drain} :
                 \E d \in Drain : drain[d] \in {"answered", "cleared"} /\ x \in ToSet(taken[d])}
             Goal == ToSet(queue) \cup Departed \subseteq ToSet(queue') \cup Departed'
  <1>0. Delivered \cup Held = Reached /\ Delivered' \cup Held' = Reached'
    BY DEF Delivered, Held
  <1>1. ASSUME UNCHANGED <<drain, taken, wiped, broken>>,
               ToSet(queue) \subseteq ToSet(queue') \cup evicted', evicted \subseteq evicted'
        PROVE  Goal
    BY <1>0, <1>1 DEF Departed
  <1>2. ASSUME NEW e \in Event, CountEvents(e) \/ ChooseVictim(e) \/ PushFails(e) PROVE Goal
    <2>1. UNCHANGED <<queue, drain, taken, evicted, wiped, broken>>
      BY <1>2 DEF CountEvents, ChooseVictim, PushFails
    <2>2. QED
      BY <1>1, <2>1
  <1>3. ASSUME NEW e \in Event, RemoveVictim(e) PROVE Goal
    <2>1. UNCHANGED <<drain, taken, wiped, broken>>
      BY <1>3 DEF RemoveVictim
    <2>2. QED
      BY <1>1, <1>3, <2>1, AfterRemoval
  <1>4. ASSUME NEW e \in Event, AppendEvent(e) PROVE Goal
    <2>1. UNCHANGED <<drain, taken, evicted, wiped, broken>> /\ queue' = Append(queue, e)
      BY <1>4 DEF AppendEvent
    <2>2. ToSet(queue) \subseteq ToSet(queue')
      BY <2>1, AfterAppend DEF EventTypeOK
    <2>3. QED
      BY <1>1, <2>1, <2>2
  <1>5. ASSUME NEW d \in Drain, ReadEvents(d) PROVE Goal
    <2>1. UNCHANGED <<queue, evicted, wiped, broken>>
      BY <1>5 DEF ReadEvents
    <2>2. \A x \in Drain : drain[x] \in {"answered", "cleared"} => drain'[x] = drain[x] /\ taken'[x] = taken[x]
      BY <1>5 DEF ReadEvents, EventTypeOK
    <2>3. Reached \subseteq Reached'
      BY <2>2
    <2>4. QED
      BY <1>0, <2>1, <2>3 DEF Departed
  <1>6. ASSUME NEW d \in Drain, ClearEvents(d) PROVE Goal
    <2>1. /\ UNCHANGED <<taken, evicted, broken>>
          /\ wiped' = wiped \cup (ToSet(queue) \ present[d])
          /\ present[d] = ToSet(taken[d])
      BY <1>6 DEF ClearEvents, ReadWhole
    <2>2. /\ drain'[d] = "cleared"
          /\ \A x \in Drain : drain[x] \in {"answered", "cleared"} => drain'[x] = drain[x]
      BY <1>6 DEF ClearEvents, EventTypeOK
    <2>3. Reached \subseteq Reached' /\ ToSet(taken[d]) \subseteq Reached'
      BY <2>1, <2>2
    <2>4. QED
      BY <1>0, <2>1, <2>3 DEF Departed
  <1>7. ASSUME NEW d \in Drain, AnswerDrain(d) PROVE Goal
    <2>1. UNCHANGED <<queue, taken, evicted, wiped, broken>>
      BY <1>7 DEF AnswerDrain
    <2>2. \A x \in Drain : drain[x] \in {"answered", "cleared"} => drain'[x] \in {"answered", "cleared"}
      BY <1>7 DEF AnswerDrain, EventTypeOK
    <2>3. Reached \subseteq Reached'
      BY <2>1, <2>2
    <2>4. QED
      BY <1>0, <2>1, <2>3 DEF Departed
  <1>8. ASSUME NEW d \in Drain, DrainFails(d) PROVE Goal
    <2>1. /\ UNCHANGED <<queue, evicted, wiped>>
          /\ broken' = broken \cup (IF drain[d] = "cleared" THEN ToSet(taken[d]) ELSE {})
          /\ drain[d] \in {"read", "cleared"}
      BY <1>8 DEF DrainFails
    <2>2. \A x \in Drain : x # d => drain'[x] = drain[x] /\ taken'[x] = taken[x]
      BY <1>8 DEF DrainFails, EventTypeOK
    <2>3. Reached \subseteq Reached' \cup broken'
      BY <2>1, <2>2
    <2>4. QED
      BY <1>0, <2>1, <2>3 DEF Departed
  <1>9. QED
    BY <1>2, <1>3, <1>4, <1>5, <1>6, <1>7, <1>8 DEF EventNext

LEMMA AccountedStep ==
  ASSUME EventTypeOK, ReadWhole, StoredEventsAccounted, EventNext
  PROVE  StoredEventsAccounted'
  <1> SUFFICES ASSUME NEW x \in Event, push'[x] = "stored"
               PROVE  x \in ToSet(queue') \cup Departed'
    BY DEF StoredEventsAccounted, Departed
  <1>1. CASE push[x] = "stored"
    BY <1>1, NothingForgotten DEF StoredEventsAccounted, Departed
  <1>2. CASE push[x] # "stored"
    <2>1. push' # push
      BY <1>2
    <2>2. \A d \in Drain : ~(ReadEvents(d) \/ ClearEvents(d) \/ AnswerDrain(d) \/ DrainFails(d))
      BY <2>1 DEF ReadEvents, ClearEvents, AnswerDrain, DrainFails
    <2>3. PICK e \in Event : CountEvents(e) \/ ChooseVictim(e) \/ RemoveVictim(e) \/ AppendEvent(e) \/ PushFails(e)
      BY <2>2 DEF EventNext
    <2>4. AppendEvent(e) /\ e = x
      BY <1>2, <2>3 DEF CountEvents, ChooseVictim, RemoveVictim, AppendEvent, PushFails, EventTypeOK
    <2>5. QED
      BY <2>4, AfterAppend DEF AppendEvent, EventTypeOK
  <1>3. QED
    BY <1>1, <1>2

\* However many pushes are in flight, an empty list has room for all of them.
LEMMA BoundFacts ==
  ASSUME CrossedSound
  PROVE  /\ CapBound \in Nat /\ CapBound >= Cap
         /\ Cardinality(Pushing) \in Nat /\ Cardinality(Pushing) <= CapBound
         /\ crossed # {} => CapBound = Cap + Cardinality(crossed) - 1 /\ Cardinality(crossed) \in Nat \ {0}
  <1>1. /\ Cardinality(Pushing) \in Nat /\ Cardinality(crossed) \in Nat
        /\ Cardinality(crossed) = 0 <=> crossed = {}
    BY FS_CardinalityType, FS_EmptySet DEF CrossedSound
  <1>2. Cap \in Nat \ {0}
    BY EventAssumption
  <1>3. CapBound \in Nat /\ CapBound >= Cap
    BY <1>1, <1>2 DEF CapBound
  <1>4. CASE Pushing \subseteq crossed
    <2>1. Cardinality(Pushing) <= Cardinality(crossed)
      BY <1>4, FS_Subset DEF CrossedSound
    <2>2. QED
      BY <1>1, <1>2, <1>3, <2>1 DEF CapBound
  <1>5. ASSUME NEW e \in Pushing \ crossed PROVE Cardinality(Pushing) <= CapBound
    <2>1. Cardinality(Pushing) = 1
      BY <1>5, FS_Singleton DEF CrossedSound
    <2>2. QED
      BY <1>2, <1>3, <2>1
  <1>6. QED
    BY <1>1, <1>2, <1>3, <1>4, <1>5 DEF CapBound

\* A push that begins alone changes no bound; one that meets others raises it.
LEMMA CountRaisesBound ==
  ASSUME EventTypeOK, CrossedSound, NEW e \in Event, CountEvents(e)
  PROVE  /\ CrossedSound'
         /\ Cardinality(Pushing') = Cardinality(Pushing) + 1
         /\ Pushing = {} => CapBound' = CapBound
         /\ Pushing # {} => CapBound' >= CapBound + 1
  <1>1. e \notin Pushing /\ Pushing' = Pushing \cup {e} /\ e \notin crossed
    BY DEF CountEvents, Pushing, EventTypeOK, CrossedSound
  <1>2. IsFiniteSet(Pushing') /\ Cardinality(Pushing') = Cardinality(Pushing) + 1
    BY <1>1, FS_AddElement DEF CrossedSound
  <1>3. \A x \in Event : push[x] # "new" \/ x = e => push'[x] # "new"
    BY DEF CountEvents, EventTypeOK
  <1>4. CASE Pushing = {}
    <2>1. crossed' = crossed
      BY <1>4 DEF CountEvents
    <2>2. CrossedSound'
      BY <1>1, <1>2, <1>3, <1>4, <2>1 DEF CrossedSound
    <2>3. QED
      BY <1>2, <1>4, <2>1, <2>2 DEF CapBound
  <1>5. CASE Pushing # {}
    <2>1. crossed' = crossed \cup Pushing \cup {e}
      BY <1>5 DEF CountEvents
    <2>2. IsFiniteSet(crossed') /\ IsFiniteSet(crossed \cup {e})
      BY <2>1, FS_Union, FS_AddElement DEF CrossedSound
    <2>3. Pushing \subseteq {x \in Event : push[x] # "new"}
      BY DEF Pushing
    <2>4. CrossedSound'
      BY <1>1, <1>2, <1>3, <2>1, <2>2, <2>3 DEF CrossedSound
    <2>5. CapBound' >= CapBound + 1
      <3>1. Cap \in Nat /\ Cardinality(crossed) \in Nat /\ Cardinality(crossed') \in Nat /\ crossed' # {}
        BY <2>1, <2>2, EventAssumption, FS_CardinalityType DEF CrossedSound
      <3>2. CapBound' = Cap + Cardinality(crossed') - 1
        BY <3>1 DEF CapBound
      <3>3. CASE crossed # {}
        <4>1. Cardinality(crossed \cup {e}) = Cardinality(crossed) + 1
          BY <1>1, FS_AddElement DEF CrossedSound
        <4>2. Cardinality(crossed \cup {e}) <= Cardinality(crossed')
          BY <2>1, <2>2, FS_Subset
        <4>3. CapBound = Cap + Cardinality(crossed) - 1
          BY <3>3 DEF CapBound
        <4>4. QED
          BY <3>1, <3>2, <4>1, <4>2, <4>3
      <3>4. CASE crossed = {}
        <4>1. PICK q \in Pushing : TRUE
          BY <1>5
        <4>2. IsFiniteSet({q}) /\ Cardinality({q}) = 1
          BY FS_Singleton
        <4>3. Cardinality({q} \cup {e}) = 2 /\ IsFiniteSet({q} \cup {e})
          <5>1. e \notin {q}
            BY <1>1, <4>1
          <5>2. IsFiniteSet({q} \cup {e}) /\ Cardinality({q} \cup {e}) = Cardinality({q}) + 1
            BY <4>2, <5>1, FS_AddElement
          <5>3. QED
            BY <4>2, <5>2
        <4>4. 2 <= Cardinality(crossed')
          BY <2>1, <2>2, <4>1, <4>3, FS_Subset
        <4>5. CapBound = Cap
          BY <3>1, <3>4 DEF CapBound
        <4>6. QED
          BY <3>1, <3>2, <4>4, <4>5
      <3>5. QED
        BY <3>3, <3>4
    <2>6. QED
      BY <1>2, <1>5, <2>4, <2>5
  <1>6. QED
    BY <1>4, <1>5

\* Pushes that go on or end: the bound stays, and fewer or as many are in flight.
LEMMA NoNewPush ==
  ASSUME CrossedSound, UNCHANGED crossed, Pushing' \subseteq Pushing,
         \A e \in Event : push[e] # "new" => push'[e] # "new"
  PROVE  CrossedSound' /\ CapBound' = CapBound
  <1>1. IsFiniteSet(Pushing')
    BY FS_Subset DEF CrossedSound
  <1>2. CrossedSound'
    BY <1>1 DEF CrossedSound
  <1>3. QED
    BY <1>2 DEF CapBound

LEMMA CapStep ==
  ASSUME EventTypeOK, CapInv, EventNext
  PROVE  CapInv'
  <1> DEFINE n == Cardinality(Pushing)
             Sum == Len(queue) + n
  <1>types. /\ queue \in Seq(Event) /\ Len(queue) \in Nat
            /\ CrossedSound /\ n \in Nat /\ CapBound \in Nat /\ CapBound >= Cap /\ n <= CapBound
            /\ RoomForAll => Sum <= CapBound
            /\ RoomToCome => Sum <= CapBound + 1
            /\ Cap \in Nat \ {0}
    BY LenProperties, BoundFacts, EventAssumption DEF EventTypeOK, CapInv, RoomForAll, RoomToCome
  <1>1. ASSUME NEW e \in Event, CountEvents(e) PROVE CapInv'
    <2>1. /\ CrossedSound' /\ n' = n + 1 /\ UNCHANGED <<queue, victim>>
          /\ Pushing = {} => CapBound' = CapBound
          /\ Pushing # {} => CapBound' >= CapBound + 1
      BY <1>1, <1>types, CountRaisesBound DEF CountEvents
    <2>2. CapBound' \in Nat
      <3>1. Cap \in Nat /\ IsFiniteSet(crossed')
        BY <1>types, <2>1 DEF CrossedSound
      <3>2. Cardinality(crossed') \in Nat /\ (crossed' # {} => Cardinality(crossed') # 0)
        BY <3>1, FS_CardinalityType, FS_EmptySet
      <3>3. QED
        BY <3>1, <3>2 DEF CapBound
    <2>3. CASE Pushing = {}
      <3>1. n = 0 /\ ~RoomToCome
        BY <2>3, FS_EmptySet DEF RoomToCome, Pushing
      <3>2. Len(queue) <= CapBound
        BY <1>types, <3>1 DEF CapInv
      <3>3. CASE Len(queue) >= Cap
        <4>1. push'[e] = "evicting" /\ \A x \in Event : push'[x] # "removing"
          BY <1>1, <2>3, <3>3 DEF CountEvents, EventTypeOK, Pushing
        <4>2. RoomToCome'
          BY <1>types, <2>1, <2>3, <3>1, <3>2, <4>1 DEF RoomToCome
        <4>3. QED
          BY <2>1, <4>2 DEF CapInv
      <3>4. CASE ~(Len(queue) >= Cap)
        BY <1>types, <2>1, <2>3, <3>1, <3>4 DEF CapInv, RoomForAll
      <3>5. QED
        BY <3>3, <3>4
    <2>4. CASE Pushing # {}
      <3>1. CASE RoomForAll
        BY <1>types, <2>1, <2>2, <2>4, <3>1 DEF CapInv, RoomForAll
      <3>2. CASE RoomToCome
        <4>1. \A x \in Event : push[x] \in {"evicting", "removing"} \/ push'[x] = "removing" => push'[x] = push[x]
          BY <1>1 DEF CountEvents, EventTypeOK
        <4>2. Len(queue') + n' <= CapBound' + 1
          BY <1>types, <2>1, <2>2, <2>4, <3>2
        <4>3. RoomToCome'
          BY <2>1, <3>2, <4>1, <4>2 DEF RoomToCome, Removable
        <4>4. QED
          BY <2>1, <4>3 DEF CapInv
      <3>3. QED
        BY <3>1, <3>2 DEF CapInv
    <2>5. QED
      BY <2>3, <2>4
  <1>2. ASSUME NEW e \in Event, ChooseVictim(e) PROVE CapInv'
    <2>1. /\ Pushing' = Pushing /\ UNCHANGED <<queue, crossed>>
          /\ \A x \in Event : push[x] # "new" => push'[x] # "new"
      BY <1>2 DEF ChooseVictim, EventTypeOK, Pushing
    <2>2. CrossedSound' /\ CapBound' = CapBound /\ n' = n
      BY <1>types, <2>1, NoNewPush
    <2>3. CASE RoomForAll
      BY <2>1, <2>2, <2>3 DEF CapInv, RoomForAll
    <2>4. CASE queue = <<>>
      <3>1. Len(queue) = 0
        BY <2>4
      <3>2. QED
        BY <1>types, <2>1, <2>2, <3>1 DEF CapInv, RoomForAll
    <2>5. CASE RoomToCome /\ queue # <<>>
      <3>1. /\ push' = [push EXCEPT ![e] = "removing"]
            /\ victim' = [victim EXCEPT ![e] = IF OldestLow(queue) = 0 THEN e ELSE queue[OldestLow(queue)]]
        BY <1>2, <2>5 DEF ChooseVictim
      <3>2. Removable(e)'
        BY <2>1, <2>5, <3>1, ChosenIsThere DEF Removable, EventTypeOK
      <3>3. \A x \in Event : push'[x] = "removing" => Removable(x)'
        BY <2>1, <2>5, <3>1, <3>2 DEF RoomToCome, Removable, EventTypeOK
      <3>4. push'[e] = "removing"
        BY <3>1 DEF EventTypeOK
      <3>5. RoomToCome'
        BY <2>1, <2>2, <2>5, <3>3, <3>4 DEF RoomToCome
      <3>6. QED
        BY <2>2, <3>5 DEF CapInv
    <2>6. QED
      BY <2>3, <2>4, <2>5 DEF CapInv
  <1>3. ASSUME NEW e \in Event, RemoveVictim(e) PROVE CapInv'
    <2>1. /\ Pushing' = Pushing /\ UNCHANGED crossed
          /\ \A x \in Event : push[x] # "new" => push'[x] # "new"
          /\ push[e] = "removing"
      BY <1>3 DEF RemoveVictim, EventTypeOK, Pushing
    <2>2. CrossedSound' /\ CapBound' = CapBound /\ n' = n
      BY <1>types, <2>1, NoNewPush
    <2>3. Len(queue') \in Nat /\ Len(queue') <= Len(queue) /\ (Removable(e) => Len(queue') = Len(queue) - 1)
      BY <1>3, AfterRemoval, LenProperties
    <2>4. RoomForAll'
      BY <1>types, <2>1, <2>2, <2>3 DEF CapInv, RoomForAll, RoomToCome
    <2>5. QED
      BY <2>2, <2>4 DEF CapInv
  <1>4. ASSUME NEW e \in Event, AppendEvent(e) PROVE CapInv'
    <2>1. /\ e \in Pushing /\ Pushing' = Pushing \ {e} /\ UNCHANGED <<crossed, victim>>
          /\ \A x \in Event : push[x] # "new" => push'[x] # "new"
          /\ queue' = Append(queue, e)
      BY <1>4 DEF AppendEvent, EventTypeOK, Pushing
    <2>2. CrossedSound' /\ CapBound' = CapBound
      BY <1>types, <2>1, NoNewPush
    <2>3. n' = n - 1
      BY <1>types, <2>1, FS_RemoveElement DEF CrossedSound
    <2>4. Len(queue') = Len(queue) + 1 /\ queue' # <<>> /\ ToSet(queue) \subseteq ToSet(queue') /\ queue' \in Seq(Event)
      BY <1>types, <2>1, AfterAppend
    <2>5. CASE RoomForAll
      BY <1>types, <2>2, <2>3, <2>4, <2>5 DEF CapInv, RoomForAll
    <2>6. CASE RoomToCome
      <3>1. \A x \in Event : push[x] \in {"evicting", "removing"} \/ push'[x] = "removing" => push'[x] = push[x]
        BY <1>4 DEF AppendEvent, EventTypeOK
      <3>2. \A x \in Event : Removable(x) => Removable(x)'
        BY <1>types, <2>1, <2>4, ElementsOf DEF Removable
      <3>3. Len(queue') + n' <= CapBound' + 1
        BY <1>types, <2>2, <2>3, <2>4, <2>6
      <3>4. RoomToCome'
        BY <2>6, <3>1, <3>2, <3>3 DEF RoomToCome
      <3>5. QED
        BY <2>2, <3>4 DEF CapInv
    <2>7. QED
      BY <2>5, <2>6 DEF CapInv
  <1>5. ASSUME NEW e \in Event, PushFails(e) PROVE CapInv'
    <2>1. /\ e \in Pushing /\ Pushing' = Pushing \ {e} /\ UNCHANGED <<queue, crossed>>
          /\ \A x \in Event : push[x] # "new" => push'[x] # "new"
      BY <1>5 DEF PushFails, EventTypeOK, Pushing
    <2>2. CrossedSound' /\ CapBound' = CapBound
      BY <1>types, <2>1, NoNewPush
    <2>3. n' = n - 1
      BY <1>types, <2>1, FS_RemoveElement DEF CrossedSound
    <2>4. RoomForAll'
      BY <1>types, <2>1, <2>2, <2>3 DEF CapInv, RoomForAll
    <2>5. QED
      BY <2>2, <2>4 DEF CapInv
  <1>6. ASSUME NEW d \in Drain, ReadEvents(d) \/ AnswerDrain(d) \/ DrainFails(d) PROVE CapInv'
    <2>1. UNCHANGED <<queue, push, victim, crossed>>
      BY <1>6 DEF ReadEvents, AnswerDrain, DrainFails
    <2>2. QED
      BY <2>1 DEF CapInv, CrossedSound, RoomForAll, RoomToCome, Removable, CapBound, Pushing
  <1>7. ASSUME NEW d \in Drain, ClearEvents(d) PROVE CapInv'
    <2>1. UNCHANGED <<push, crossed>> /\ Len(queue') = 0
      BY <1>7 DEF ClearEvents
    <2>2. CrossedSound' /\ CapBound' = CapBound /\ n' = n
      BY <1>types, <2>1 DEF CrossedSound, CapBound, Pushing
    <2>3. QED
      BY <1>types, <2>1, <2>2 DEF CapInv, RoomForAll
  <1>8. QED
    BY <1>1, <1>2, <1>3, <1>4, <1>5, <1>6, <1>7 DEF EventNext

LEMMA EventInductive == EventSpec => []EventInv
  <1>1. EventInit => EventInv
    <2> SUFFICES ASSUME EventInit PROVE EventInv
      OBVIOUS
    <2>1. EventTypeOK /\ ReadWhole /\ StoredEventsAccounted
      BY EmptySeq DEF EventInit, EventTypeOK, ReadWhole, StoredEventsAccounted, PushPlace, DrainPlace
    <2>2. Pushing = {} /\ crossed = {} /\ Len(queue) = 0
      BY DEF EventInit, Pushing
    <2>3. IsFiniteSet({}) /\ Cardinality({}) = 0
      BY FS_EmptySet
    <2>4. CrossedSound /\ RoomForAll
      BY <2>2, <2>3, EventAssumption DEF CrossedSound, RoomForAll, CapBound
    <2>5. QED
      BY <2>1, <2>4 DEF EventInv, CapInv
  <1>2. EventInv /\ [EventNext]_eventVars => EventInv'
    <2> SUFFICES ASSUME EventInv, [EventNext]_eventVars PROVE EventInv'
      OBVIOUS
    <2>1. CASE EventNext
      BY <2>1, EventTypeStep, AccountedStep, CapStep DEF EventInv
    <2>2. CASE UNCHANGED eventVars
      <3>1. EventTypeOK' /\ ReadWhole' /\ StoredEventsAccounted'
        BY <2>2 DEF eventVars, EventInv, EventTypeOK, ReadWhole, StoredEventsAccounted, Delivered, Held
      <3>2. CapInv'
        BY <2>2 DEF eventVars, EventInv, CapInv, CrossedSound, RoomForAll, RoomToCome, Removable,
                    CapBound, Pushing
      <3>3. QED
        BY <3>1, <3>2 DEF EventInv
    <2>3. QED
      BY <2>1, <2>2
  <1>3. QED
    BY <1>1, <1>2, PTL DEF EventSpec

\* For any number of producers and drains and any cap, an acknowledged push is in
\* the list, with an assistant or evicted, or was lost between the LRANGE and the
\* DELETE of a drain, or with the answer of one: push_event and drain_events lose
\* events in no other way.
THEOREM StoredEventsTheorem == EventSpec => []StoredEventsAccounted
  <1>1. EventInv => StoredEventsAccounted
    BY DEF EventInv
  <1>2. QED
    BY <1>1, EventInductive, PTL

\* For any cap and any interleaving of the LLEN, LRANGE, LREM or LPOP and RPUSH of
\* pushes with each other and with drains, the list passes MAX_EVENTS_PER_USER by
\* fewer events than there were pushes that met.
THEOREM CapTheorem == EventSpec => []CapRespected
  <1>1. EventInv => CapRespected
    <2> SUFFICES ASSUME EventInv PROVE Len(queue) <= CapBound
      BY DEF CapRespected, CapBound
    <2>1. Len(queue) \in Nat /\ Cardinality(Pushing) \in Nat /\ CapBound \in Nat /\ CrossedSound
      BY LenProperties, BoundFacts DEF EventInv, EventTypeOK, CapInv
    <2>2. CASE RoomForAll
      BY <2>1, <2>2 DEF RoomForAll
    <2>3. CASE RoomToCome
      <3>1. Pushing # {}
        BY <2>3 DEF RoomToCome, Pushing
      <3>2. Cardinality(Pushing) # 0
        BY <2>1, <3>1, FS_EmptySet DEF CrossedSound
      <3>3. QED
        BY <2>1, <2>3, <3>2 DEF RoomToCome
    <2>4. QED
      BY <2>2, <2>3 DEF EventInv, CapInv
  <1>2. QED
    BY <1>1, EventInductive, PTL
-----------------------------------------------------------------------------
(* The documents *)

Operation == {"create", "override", "approve", "set_agent_name", "reflect", "reflect_briefly", "boost"}
DocName == {"decision", "user", "pattern"}
FieldName == {"overrides", "approval", "agent_name", "last_session", "pending_actions", "preferences",
              "current_focus", "hit_count"}
Mark == FieldName \X Writer
DocState == [exists : BOOLEAN, marks : SUBSET Mark]

DocTypeOK ==
    /\ op \in [Writer -> Operation \cup {"none"}]
    /\ at \in [Writer -> {"new", "reading", "writing", "indexing", "done", "failed"}]
    /\ local \in [Writer -> SUBSET Mark]
    /\ doc \in [DocName -> DocState]
    /\ before \in [Writer -> SUBSET Writer]
    /\ \A r \in Writer : at[r] = "new" <=> op[r] = "none"
    /\ \A r \in Writer : at[r] = "indexing" => op[r] = "create"
    /\ \A n \in DocName : ~doc[n].exists => doc[n].marks = {}

\* A request in work was over before no other began.
BeforeEnded == \A x \in Writer : before[x] \subseteq Ended

\* The change of r is in these marks, overwritten by a later request, or taken out.
Kept(marks, r) == \A f \in Fields(op[r]) : Holds(marks, r, f) \/ <<f, r>> \in discarded

\* Without an excuse an acknowledged change is kept in the document, and in what every
\* request that is about to write the document has read.
KeptEverywhere ==
    \A r \in Writer : at[r] = "done" /\ ~Excused(r) =>
        /\ Kept(doc[DocOf(op[r])].marks, r)
        /\ \A q \in Writer : at[q] = "writing" /\ DocOf(op[q]) = DocOf(op[r]) => Kept(local[q], r)

DocInv == DocTypeOK /\ BeforeEnded /\ KeptEverywhere

LEMMA DocOfName == \A o \in Operation : DocOf(o) \in DocName /\ Fields(o) \subseteq FieldName
  BY DEF Operation, DocOf, DocName, Fields, FieldName

\* What is kept in a set of marks is kept in a larger one.
LEMMA KeptGrows ==
  ASSUME NEW x \in Writer, NEW S, NEW T, S \subseteq T, Kept(S, x)
  PROVE  Kept(T, x)
  BY DEF Kept, Holds

\* A request that begins comes after all that have ended.
LEMMA BeginDoc ==
  ASSUME DocInv, NEW r \in Writer, NEW o \in Operation, NEW place \in {"reading", "writing"},
         place = "writing" => o = "create",
         Begin(r, o, place), UNCHANGED <<local, doc, listed, blind, discarded>>
  PROVE  DocInv'
  <1>1. /\ at[r] = "new" /\ op[r] = "none" /\ o # "none"
        /\ op' = [op EXCEPT ![r] = o]
        /\ at' = [at EXCEPT ![r] = place]
        /\ before' = [before EXCEPT ![r] = Ended]
    BY DEF Begin, DocInv, DocTypeOK, Operation
  <1>2. r \notin Ended /\ Ended \subseteq Writer
    BY <1>1 DEF Ended
  <1>3. /\ at'[r] = place /\ op'[r] = o /\ before'[r] = Ended
        /\ \A q \in Writer : q # r => at'[q] = at[q] /\ op'[q] = op[q] /\ before'[q] = before[q]
    BY <1>1 DEF DocInv, DocTypeOK
  <1>4. Ended' = Ended
    BY <1>2, <1>3 DEF Ended
  <1>5. DocTypeOK'
    <2>1. /\ op' \in [Writer -> Operation \cup {"none"}]
          /\ at' \in [Writer -> {"new", "reading", "writing", "indexing", "done", "failed"}]
      BY <1>1 DEF DocInv, DocTypeOK
    <2>2. before' \in [Writer -> SUBSET Writer]
      BY <1>1, <1>2 DEF DocInv, DocTypeOK
    <2>3. \A q \in Writer : (at'[q] = "new" <=> op'[q] = "none") /\ (at'[q] = "indexing" => op'[q] = "create")
      BY <1>1, <1>3 DEF DocInv, DocTypeOK
    <2>4. QED
      BY <2>1, <2>2, <2>3 DEF DocInv, DocTypeOK
  <1>6. BeforeEnded'
    BY <1>3, <1>4 DEF DocInv, BeforeEnded
  <1>7. KeptEverywhere'
    <2> SUFFICES ASSUME NEW x \in Writer, at'[x] = "done", ~Excused(x)'
                 PROVE  /\ Kept(doc[DocOf(op[x])].marks, x)'
                        /\ \A q \in Writer : at'[q] = "writing" /\ DocOf(op'[q]) = DocOf(op'[x]) => Kept(local[q], x)'
      BY DEF KeptEverywhere
    <2>1. x # r /\ at[x] = "done" /\ op[x] = op'[x] /\ before[x] = before'[x] /\ x \in Ended /\ r \notin before[x]
      BY <1>2, <1>3 DEF Ended, DocInv, BeforeEnded
    <2>2. ~Excused(x)
      <3> SUFFICES ASSUME NEW q \in Writer \ {x}, op[q] # "none", DocOf(op[q]) = DocOf(op[x]), q \notin before[x],
                          x \notin before[q] \/ q \in blind \/ op[q] = "create"
                   PROVE  Excused(x)'
        BY DEF Excused
      <3>1. q # r
        BY <1>1
      <3>2. op'[q] = op[q] /\ before'[q] = before[q]
        BY <1>3, <3>1
      <3>3. QED
        BY <2>1, <3>2 DEF Excused
    <2>3. ASSUME NEW S, Kept(S, x) PROVE Kept(S, x)'
      <3> SUFFICES ASSUME NEW f \in Fields(op'[x]) PROVE Holds(S, x, f)' \/ <<f, x>> \in discarded'
        BY DEF Kept
      <3>1. Holds(S, x, f) \/ <<f, x>> \in discarded
        BY <2>1, <2>3 DEF Kept
      <3>2. \A q \in Writer : x \in before[q] => x \in before'[q]
        BY <1>3, <2>1
      <3>3. QED
        BY <3>1, <3>2 DEF Holds
    <2>4. /\ Kept(doc[DocOf(op[x])].marks, x)
          /\ \A q \in Writer : at[q] = "writing" /\ DocOf(op[q]) = DocOf(op[x]) => Kept(local[q], x)
      BY <2>1, <2>2 DEF DocInv, KeptEverywhere
    <2>5. ~(at'[r] = "writing" /\ DocOf(op'[r]) = DocOf(op'[x]))
      BY <1>1, <1>3, <2>1 DEF Excused
    <2>6. Kept(doc[DocOf(op[x])].marks, x)'
      BY <2>1, <2>3, <2>4
    <2>7. ASSUME NEW q \in Writer, at'[q] = "writing", DocOf(op'[q]) = DocOf(op'[x]) PROVE Kept(local[q], x)'
      <3>1. q # r /\ at[q] = "writing" /\ op'[q] = op[q]
        BY <1>3, <2>5, <2>7
      <3>2. Kept(local[q], x)
        BY <2>1, <2>4, <2>7, <3>1
      <3>3. QED
        BY <2>3, <3>2
    <2>8. QED
      BY <2>6, <2>7
  <1>8. QED
    BY <1>5, <1>6, <1>7 DEF DocInv

\* A request that goes on or ends leaves the excuses and what is kept.
LEMMA GoesOn ==
  ASSUME DocInv, UNCHANGED <<op, before>>, Ended \subseteq Ended', blind \subseteq blind',
         discarded \subseteq discarded'
  PROVE  /\ BeforeEnded'
         /\ \A x \in Writer : Excused(x) => Excused(x)'
         /\ \A x \in Writer : \A S : Kept(S, x) => Kept(S, x)'
  <1>1. BeforeEnded'
    BY DEF DocInv, BeforeEnded
  <1>2. \A x \in Writer : Excused(x) => Excused(x)'
    BY DEF Excused
  <1>3. ASSUME NEW x \in Writer, NEW S, Kept(S, x) PROVE Kept(S, x)'
    BY <1>3 DEF Kept, Holds
  <1>4. QED
    BY <1>1, <1>2, <1>3

\* What a request has read, or put in the place of a document that is not there, holds
\* the acknowledged changes.
LEMMA ReadDocStep ==
  ASSUME DocInv, NEW r \in Writer, ReadDoc(r)
  PROVE  DocInv'
  <1> DEFINE n == DocOf(op[r])
  <1>1. /\ at[r] = "reading" /\ UNCHANGED <<op, doc, listed, before, blind, discarded>>
    BY DEF ReadDoc
  <1>2. op[r] \in Operation /\ n \in DocName
    BY <1>1, DocOfName DEF DocInv, DocTypeOK
  <1>3. doc[n].marks \in SUBSET Mark /\ (~doc[n].exists => doc[n].marks = {})
    BY <1>2 DEF DocInv, DocTypeOK, DocState
  <1>4. \/ /\ at' = [at EXCEPT ![r] = "failed"] /\ UNCHANGED local
        \/ /\ at' = [at EXCEPT ![r] = "writing"]
           /\ \E marks \in SUBSET Mark : doc[n].marks \subseteq marks /\ local' = [local EXCEPT ![r] = marks]
    <2>1. \A marks \in NewUserMarks(r) : marks \in SUBSET Mark
      BY DEF NewUserMarks, Mark, FieldName
    <2>2. QED
      BY <1>3, <2>1 DEF ReadDoc
  <1>5. DocTypeOK'
    BY <1>1, <1>4 DEF DocInv, DocTypeOK
  <1>6. /\ \A q \in Writer : q # r => at'[q] = at[q] /\ local'[q] = local[q]
        /\ at'[r] \in {"writing", "failed"}
        /\ at'[r] = "writing" => doc[n].marks \subseteq local'[r]
    BY <1>1, <1>4 DEF DocInv, DocTypeOK
  <1>7. Ended \subseteq Ended'
    BY <1>1, <1>6 DEF Ended
  <1>8. /\ BeforeEnded'
        /\ \A x \in Writer : Excused(x) => Excused(x)'
        /\ \A x \in Writer : \A S : Kept(S, x) => Kept(S, x)'
    BY <1>1, <1>7, GoesOn
  <1>9. KeptEverywhere'
    <2> SUFFICES ASSUME NEW x \in Writer, at'[x] = "done", ~Excused(x)'
                 PROVE  /\ Kept(doc[DocOf(op[x])].marks, x)'
                        /\ \A q \in Writer : at'[q] = "writing" /\ DocOf(op[q]) = DocOf(op[x]) => Kept(local[q], x)'
      BY <1>1 DEF KeptEverywhere
    <2>1. x # r /\ at[x] = "done" /\ ~Excused(x)
      BY <1>6, <1>8
    <2>2. /\ Kept(doc[DocOf(op[x])].marks, x)
          /\ \A q \in Writer : at[q] = "writing" /\ DocOf(op[q]) = DocOf(op[x]) => Kept(local[q], x)
      BY <2>1 DEF DocInv, KeptEverywhere
    <2>3. Kept(doc[DocOf(op[x])].marks, x)'
      BY <1>1, <1>8, <2>2
    <2>4. ASSUME NEW q \in Writer, at'[q] = "writing", DocOf(op[q]) = DocOf(op[x]) PROVE Kept(local'[q], x)
      <3>1. CASE q # r
        BY <1>6, <2>2, <2>4, <3>1
      <3>2. CASE q = r
        BY <1>6, <2>2, <2>4, <3>2, KeptGrows
      <3>3. QED
        BY <3>1, <3>2
    <2>5. ASSUME NEW q \in Writer, at'[q] = "writing", DocOf(op[q]) = DocOf(op[x]) PROVE Kept(local[q], x)'
      <3>1. Kept(local'[q], x)
        BY <2>4, <2>5
      <3>2. QED
        BY <1>1, <3>1 DEF Kept, Holds
    <2>6. QED
      BY <2>3, <2>5
  <1>10. QED
    BY <1>5, <1>8, <1>9 DEF DocInv

\* A request whose read failed is an excuse for whatever it overwrites.
LEMMA ReadUserFailsStep ==
  ASSUME DocInv, NEW r \in Writer, ReadUserFails(r)
  PROVE  DocInv'
  <1>1. /\ at[r] = "reading" /\ UNCHANGED <<op, doc, listed, before, discarded>>
        /\ at' = [at EXCEPT ![r] = "writing"]
        /\ blind' = blind \cup {r}
    BY DEF ReadUserFails
  <1>2. PICK marks \in NewUserMarks(r) : local' = [local EXCEPT ![r] = marks]
    BY DEF ReadUserFails
  <1>3. marks \in SUBSET Mark
    BY DEF NewUserMarks, Mark, FieldName
  <1>4. DocTypeOK'
    BY <1>1, <1>2, <1>3 DEF DocInv, DocTypeOK
  <1>5. /\ \A q \in Writer : q # r => at'[q] = at[q] /\ local'[q] = local[q]
        /\ at'[r] = "writing" /\ op[r] # "none"
    BY <1>1, <1>2 DEF DocInv, DocTypeOK
  <1>6. Ended \subseteq Ended' /\ \A x \in Writer : r \notin before[x]
    BY <1>1, <1>5 DEF Ended, DocInv, BeforeEnded
  <1>7. /\ BeforeEnded'
        /\ \A x \in Writer : Excused(x) => Excused(x)'
        /\ \A x \in Writer : \A S : Kept(S, x) => Kept(S, x)'
    BY <1>1, <1>6, GoesOn
  <1>8. \A x \in Writer \ {r} : DocOf(op[r]) = DocOf(op[x]) => Excused(x)'
    BY <1>1, <1>5, <1>6 DEF Excused
  <1>9. KeptEverywhere'
    <2> SUFFICES ASSUME NEW x \in Writer, at'[x] = "done", ~Excused(x)'
                 PROVE  /\ Kept(doc[DocOf(op[x])].marks, x)'
                        /\ \A q \in Writer : at'[q] = "writing" /\ DocOf(op[q]) = DocOf(op[x]) => Kept(local[q], x)'
      BY <1>1 DEF KeptEverywhere
    <2>1. x # r /\ at[x] = "done" /\ ~Excused(x) /\ DocOf(op[r]) # DocOf(op[x])
      BY <1>5, <1>7, <1>8
    <2>2. /\ Kept(doc[DocOf(op[x])].marks, x)
          /\ \A q \in Writer : at[q] = "writing" /\ DocOf(op[q]) = DocOf(op[x]) => Kept(local[q], x)
      BY <2>1 DEF DocInv, KeptEverywhere
    <2>3. Kept(doc[DocOf(op[x])].marks, x)'
      BY <1>1, <1>7, <2>2
    <2>4. ASSUME NEW q \in Writer, at'[q] = "writing", DocOf(op[q]) = DocOf(op[x]) PROVE Kept(local[q], x)'
      <3>1. q # r /\ at[q] = "writing" /\ local'[q] = local[q]
        BY <1>5, <2>1, <2>4
      <3>2. Kept(local[q], x)
        BY <2>2, <2>4, <3>1
      <3>3. QED
        BY <1>1, <3>1, <3>2 DEF Kept, Holds
    <2>5. QED
      BY <2>3, <2>4
  <1>10. QED
    BY <1>4, <1>7, <1>9 DEF DocInv

\* A field of the request's own is in the document that it writes, unless it took it out; the
\* fields that are overwritten are never taken out.
LEMMA OwnFields ==
  ASSUME DocInv, NEW r \in Writer, op[r] \in Operation, NEW dropped \in SUBSET Droppable(r)
  PROVE  /\ Changed(r) \in SUBSET Mark
         /\ \A f \in Fields(op[r]) : <<f, r>> \in Changed(r)
         /\ \A f, q : <<f, q>> \in dropped => f \in Adding
         /\ \A f, q : <<f, q>> \in local[r] /\ (f \notin Fields(op[r]) \/ f \in Adding) /\ op[r] # "create"
                => <<f, q>> \in Changed(r)
  <1>1. op[r] = "create" => Fields(op[r]) = {}
    BY DEF Fields
  <1>2. Fields(op[r]) \subseteq FieldName
    BY DocOfName
  <1>3. Changed(r) \in SUBSET Mark
    BY <1>2 DEF Changed, DocInv, DocTypeOK, Mark
  <1>4. \A f \in Fields(op[r]) : <<f, r>> \in Changed(r)
    BY <1>1 DEF Changed
  <1>5. \A f, q : <<f, q>> \in dropped => f \in Adding
    BY DEF Droppable, Adding
  <1>6. \A f, q : <<f, q>> \in local[r] /\ (f \notin Fields(op[r]) \/ f \in Adding) /\ op[r] # "create"
                => <<f, q>> \in Changed(r)
    BY DEF Changed
  <1>7. QED
    BY <1>3, <1>4, <1>5, <1>6

LEMMA WriteDocStep ==
  ASSUME DocInv, NEW r \in Writer, WriteDoc(r)
  PROVE  DocInv'
  <1> DEFINE n == DocOf(op[r])
  <1>1. PICK dropped \in SUBSET Droppable(r) :
            /\ doc' = [doc EXCEPT ![n] = Present(Changed(r) \ dropped)]
            /\ discarded' = discarded \cup dropped
    BY DEF WriteDoc
  <1> DEFINE new == Present(Changed(r) \ dropped)
  <1>2. /\ at[r] = "writing" /\ UNCHANGED <<op, local, listed, before, blind>>
        /\ \E next \in {"indexing", "done", "failed"} :
              /\ at' = [at EXCEPT ![r] = next]
              /\ next = "indexing" => op[r] = "create"
    BY DEF WriteDoc
  <1>3. op[r] \in Operation /\ op[r] # "none" /\ n \in DocName
    BY <1>2, DocOfName DEF DocInv, DocTypeOK
  <1>4. /\ Changed(r) \in SUBSET Mark
        /\ \A f \in Fields(op[r]) : <<f, r>> \in Changed(r)
        /\ \A f, q : <<f, q>> \in dropped => f \in Adding
        /\ \A f, q : <<f, q>> \in local[r] /\ (f \notin Fields(op[r]) \/ f \in Adding) /\ op[r] # "create"
                => <<f, q>> \in Changed(r)
    BY <1>3, OwnFields
  <1>5. new.marks = Changed(r) \ dropped /\ new.exists /\ new \in DocState
    BY <1>4 DEF Present, DocState
  <1> HIDE DEF new
  <1>6. doc'[n] = new /\ (\A m \in DocName : m # n => doc'[m] = doc[m]) /\ doc' \in [DocName -> DocState]
    BY <1>1, <1>3, <1>5 DEF DocInv, DocTypeOK, new
  <1>7. /\ \A q \in Writer : q # r => at'[q] = at[q]
        /\ at'[r] \in {"indexing", "done", "failed"} /\ (at'[r] = "indexing" => op[r] = "create")
        /\ at' \in [Writer -> {"new", "reading", "writing", "indexing", "done", "failed"}]
    BY <1>2 DEF DocInv, DocTypeOK
  <1>8. DocTypeOK'
    <2>1. \A m \in DocName : ~doc'[m].exists => doc'[m].marks = {}
      BY <1>5, <1>6 DEF DocInv, DocTypeOK
    <2>2. \A q \in Writer : (at'[q] = "new" <=> op'[q] = "none") /\ (at'[q] = "indexing" => op'[q] = "create")
      BY <1>2, <1>3, <1>7 DEF DocInv, DocTypeOK
    <2>3. QED
      BY <1>2, <1>6, <1>7, <2>1, <2>2 DEF DocInv, DocTypeOK
  <1>9. Ended \subseteq Ended' /\ r \notin Ended
    BY <1>2, <1>7 DEF Ended
  <1>10. /\ BeforeEnded'
         /\ \A x \in Writer : Excused(x) => Excused(x)'
         /\ \A x \in Writer : \A S : Kept(S, x) => Kept(S, x)'
    BY <1>1, <1>2, <1>9, GoesOn
  <1>11. KeptEverywhere'
    <2> SUFFICES ASSUME NEW x \in Writer, at'[x] = "done", ~Excused(x)'
                 PROVE  /\ Kept(doc[DocOf(op[x])].marks, x)'
                        /\ \A q \in Writer : at'[q] = "writing" /\ DocOf(op[q]) = DocOf(op[x]) => Kept(local[q], x)'
      BY <1>2 DEF KeptEverywhere
    <2>1. ~Excused(x)
      BY <1>10
    <2>2. CASE x = r
      <3>1. Kept(doc[DocOf(op[x])].marks, x)'
        BY <1>1, <1>2, <1>4, <1>5, <1>6, <2>2 DEF Kept, Holds
      <3>2. ASSUME NEW q \in Writer, at'[q] = "writing", DocOf(op[q]) = DocOf(op[x]) PROVE FALSE
        <4>1. q # r
          BY <1>7, <3>2
        <4>2. at[q] = "writing" /\ op[q] # "none" /\ q \notin Ended
          BY <1>7, <3>2, <4>1 DEF Ended, DocInv, DocTypeOK
        <4>3. q \notin before[r] /\ r \notin before[q]
          BY <1>9, <4>2 DEF DocInv, BeforeEnded
        <4>4. QED
          BY <2>1, <2>2, <3>2, <4>1, <4>2, <4>3 DEF Excused
      <3>3. QED
        BY <3>1, <3>2
    <2>3. CASE x # r
      <3>1. at[x] = "done" /\ op[x] \in Operation /\ DocOf(op[x]) \in DocName
        BY <1>7, <2>3, DocOfName DEF DocInv, DocTypeOK
      <3>2. /\ Kept(doc[DocOf(op[x])].marks, x)
            /\ \A q \in Writer : at[q] = "writing" /\ DocOf(op[q]) = DocOf(op[x]) => Kept(local[q], x)
        BY <2>1, <3>1 DEF DocInv, KeptEverywhere
      <3>3. \A q \in Writer : at'[q] = "writing" => at[q] = "writing"
        BY <1>7
      <3>4. ASSUME NEW q \in Writer, at'[q] = "writing", DocOf(op[q]) = DocOf(op[x]) PROVE Kept(local[q], x)'
        <4>1. Kept(local[q], x)
          BY <3>2, <3>3, <3>4
        <4>2. QED
          BY <1>1, <1>2, <4>1 DEF Kept, Holds
      <3>5. CASE DocOf(op[x]) = n
        <4>1. r \notin before[x]
          BY <1>9 DEF DocInv, BeforeEnded
        <4>2. op[r] # "create" /\ x \in before[r] /\ Kept(local[r], x)
          BY <1>2, <1>3, <2>1, <2>3, <3>2, <3>5, <4>1 DEF Excused
        <4>3. ASSUME NEW f \in Fields(op[x]), <<f, x>> \notin discarded'
              PROVE  Holds(new.marks, x, f)
          <5>1. Holds(local[r], x, f) /\ <<f, x>> \notin dropped
            BY <1>1, <4>2, <4>3 DEF Kept
          <5>2. CASE f \in Fields(op[r]) /\ f \notin Adding
            BY <1>4, <1>5, <4>2, <5>2 DEF Holds
          <5>3. CASE f \in Adding
            BY <1>4, <1>5, <4>2, <5>1, <5>3 DEF Holds
          <5>4. CASE f \notin Fields(op[r]) /\ f \notin Adding
            BY <1>4, <1>5, <4>2, <5>1, <5>4 DEF Holds
          <5>5. QED
            BY <5>2, <5>3, <5>4
        <4>4. Kept(doc[DocOf(op[x])].marks, x)'
          BY <1>2, <1>6, <3>5, <4>3 DEF Kept, Holds
        <4>5. QED
          BY <3>4, <4>4
      <3>6. CASE DocOf(op[x]) # n
        <4>1. doc'[DocOf(op[x])] = doc[DocOf(op[x])]
          BY <1>6, <3>1, <3>6
        <4>2. Kept(doc[DocOf(op[x])].marks, x)'
          BY <1>1, <1>2, <3>2, <4>1 DEF Kept, Holds
        <4>3. QED
          BY <3>4, <4>2
      <3>7. QED
        BY <3>5, <3>6
    <2>4. QED
      BY <2>2, <2>3
  <1>12. QED
    BY <1>8, <1>10, <1>11 DEF DocInv

\* Steps that leave the documents alone and end a request without a change of its own.
LEMMA EndsUnchanged ==
  ASSUME DocInv, NEW r \in Writer, AddToIndex(r) \/ RequestFails(r)
  PROVE  DocInv'
  <1>1. /\ UNCHANGED <<op, local, doc, before, blind, discarded>> /\ r \in InWork
        /\ \/ at' = [at EXCEPT ![r] = "done"] /\ op[r] = "create"
           \/ at' = [at EXCEPT ![r] = "failed"]
    BY DEF AddToIndex, RequestFails, InWork, DocInv, DocTypeOK
  <1>2. DocTypeOK'
    BY <1>1 DEF DocInv, DocTypeOK, InWork
  <1>3. Ended \subseteq Ended'
    BY <1>1 DEF InWork, Ended, DocInv, DocTypeOK
  <1>4. /\ BeforeEnded'
        /\ \A x \in Writer : Excused(x) => Excused(x)'
        /\ \A x \in Writer : \A S : Kept(S, x) => Kept(S, x)'
    BY <1>1, <1>3, GoesOn
  <1>5. \A q \in Writer : (at'[q] = "writing" => at[q] = "writing") /\ (at'[q] = "done" /\ op[q] # "create" => at[q] = "done")
    BY <1>1 DEF DocInv, DocTypeOK
  <1>6. \A x \in Writer : op[x] = "create" => Fields(op[x]) = {}
    BY DEF Fields
  <1>7. \A x \in Writer : \A S : op[x] = "create" => Kept(S, x)
    BY <1>6 DEF Kept
  <1>8. ASSUME NEW x \in Writer, at'[x] = "done", ~Excused(x)
        PROVE  /\ Kept(doc[DocOf(op[x])].marks, x)
               /\ \A q \in Writer : at'[q] = "writing" /\ DocOf(op[q]) = DocOf(op[x]) => Kept(local[q], x)
    <2>1. CASE op[x] = "create"
      BY <1>7, <2>1
    <2>2. CASE op[x] # "create"
      BY <1>5, <1>8, <2>2 DEF DocInv, KeptEverywhere
    <2>3. QED
      BY <2>1, <2>2
  <1>9. KeptEverywhere'
    BY <1>1, <1>4, <1>8 DEF KeptEverywhere
  <1>10. QED
    BY <1>2, <1>4, <1>9 DEF DocInv

\* For any number of requests, an acknowledged override, approval, name, reflection or
\* boost is in its document, or a request that began after it had ended has overwritten
\* the field, or the assistant has taken it out, unless another request on that document
\* overlapped with it, wrote after a read that failed, or created the decision anew: the
\* unlocked read-modify-write loses no update of requests that follow each other.
THEOREM AcknowledgedKeptTheorem == DocSpec => []AcknowledgedKept
  <1>1. DocInit => DocInv
    <2> SUFFICES ASSUME DocInit PROVE DocInv
      OBVIOUS
    <2>1. Absent \in DocState /\ Present({}) \in DocState /\ Absent.marks = {} /\ Present({}).marks = {}
      BY DEF Absent, Present, DocState
    <2>2. doc \in [DocName -> DocState] /\ \A n \in DocName : doc[n] \in {Absent, Present({})}
      BY <2>1 DEF DocInit, DocName
    <2>3. \A r \in Writer : at[r] = "new" /\ op[r] = "none"
      BY DEF DocInit
    <2>4. DocTypeOK
      BY <2>1, <2>2, <2>3 DEF DocInit, DocTypeOK
    <2>5. BeforeEnded
      BY DEF DocInit, BeforeEnded
    <2>6. QED
      BY <2>3, <2>4, <2>5 DEF DocInv, KeptEverywhere
  <1>2. DocInv /\ [DocNext]_docVars => DocInv'
    <2> SUFFICES ASSUME DocInv, [DocNext]_docVars PROVE DocInv'
      OBVIOUS
    <2>1. ASSUME NEW r \in Writer,
                 \/ create_decision(r) \/ override_criterion(r) \/ approve_decision(r)
                 \/ set_agent_name(r) \/ run_reflection(r) \/ boost(r)
          PROVE  DocInv'
      <3>1. PICK o \in Operation : \/ o = "create" /\ Begin(r, o, "writing")
                                  \/ Begin(r, o, "reading")
        BY <2>1 DEF create_decision, override_criterion, approve_decision, set_agent_name,
                    run_reflection, boost, Change, Operation
      <3>2. UNCHANGED <<local, doc, listed, blind, discarded>>
        BY <2>1 DEF create_decision, override_criterion, approve_decision, set_agent_name,
                    run_reflection, boost, Change
      <3>3. QED
        BY <3>1, <3>2, BeginDoc
    <2>2. CASE UNCHANGED docVars
      BY <2>2 DEF docVars, DocInv, DocTypeOK, BeforeEnded, Ended, KeptEverywhere, Excused, Kept, Holds
    <2>3. QED
      BY <2>1, <2>2, ReadDocStep, ReadUserFailsStep, WriteDocStep, EndsUnchanged DEF DocNext
  <1>3. DocInv => AcknowledgedKept
    BY DEF DocInv, KeptEverywhere, Kept, AcknowledgedKept
  <1>4. QED
    BY <1>1, <1>2, <1>3, PTL DEF DocSpec
-----------------------------------------------------------------------------
(* The versions of a skill *)

TxStep == {"new", "number", "retire", "retiring", "insert", "activate", "pointer", "commit",
         "committed", "aborted"}

\* What a transaction has written to rows.
RowSet == UNION {[S -> {"active", "retired", "canary"}] : S \in SUBSET Version}

Transaction == [kind : {"none", "create", "create_canary", "rollback"}, step : TxStep,
                version : 0 .. MaxVersion, found : SUBSET Version, set : RowSet, skill : BOOLEAN]

SkillTypeOK ==
    /\ current \in 0 .. MaxVersion
    /\ status \in [Version -> {"none", "active", "retired", "canary"}]
    /\ tx \in [Tx -> Transaction]
    /\ together \subseteq Tx

\* Whoever was open beside another is known for it, from its beginning.
OverlapKnown ==
    /\ \A t \in OpenTx, u \in OpenTx : t # u => t \in together
    /\ \A t \in together : tx[t].step # "new"

\* No rollback has overlapped with another change.
Undisturbed == \A t \in together : tx[t].kind # "rollback"

\* Transactions past the point where a creation holds the skill's row.
Writing == {t \in OpenTx : tx[t].step # "number"}

AtMostOne(S) == \A v \in S, w \in S : v = w

\* What the step of a transaction says of the versions that would be active
\* if it committed now.
WriteSound(t) ==
    /\ tx[t].step \in {"number", "retire"} => DOMAIN tx[t].set = {}
    /\ tx[t].step = "retiring" => tx[t].found = SeenActive(t)
    /\ tx[t].step = "activate" \/ (tx[t].step = "insert" /\ tx[t].kind = "create") => SeenActive(t) = {}
    /\ tx[t].step \in TxStep \ {"new", "number", "committed", "aborted"} => AtMostOne(SeenActive(t))

\* The inductive invariant.
SkillInv ==
    /\ SkillTypeOK
    /\ OverlapKnown
    /\ \A t \in Tx : tx[t].step # "new" => tx[t].version \in Version
    /\ Undisturbed =>
        /\ AtMostOne({v \in Version : status[v] = "active"})
        /\ \A t \in Writing, u \in Writing : t = u
        /\ \A t \in Writing : tx[t].kind # "rollback" => tx[t].skill
        /\ \A t \in OpenTx : WriteSound(t)

LEMMA NoTxType == NoTx \in Transaction /\ DOMAIN NoTx.set = {} /\ Version \subseteq 0 .. MaxVersion
  <1>1. [v \in {} |-> "none"] \in [{} -> {"active", "retired", "canary"}]
    OBVIOUS
  <1>2. [v \in {} |-> "none"] \in RowSet
    BY <1>1 DEF RowSet
  <1>3. QED
    BY <1>2, SkillAssumption DEF NoTx, Transaction, TxStep, Version

\* The rows written, after writing x to those of S.
Written(f, S, x) == Merge(f, [v \in S |-> x])

\* An open transaction goes on or ends, and commits nothing.
LEMMA GoingOn ==
  ASSUME SkillInv, NEW t \in OpenTx, NEW rec \in Transaction,
         tx' = [tx EXCEPT ![t] = rec], UNCHANGED <<current, status, together>>,
         rec.kind = tx[t].kind, rec.version = tx[t].version, rec.step \notin {"new", "number"},
         Undisturbed => \/ rec.step \in {"committed", "aborted"}
                        \/ /\ \A u \in Writing : u = t
                           /\ rec.kind # "rollback" => rec.skill
                           /\ WriteSound(t)'
  PROVE  SkillInv'
  <1>0. t \in Tx /\ tx[t].step # "new"
    BY DEF OpenTx
  <1>1. tx'[t] = rec /\ \A u \in Tx \ {t} : tx'[u] = tx[u]
    BY <1>0 DEF SkillInv, SkillTypeOK
  <1>2. SkillTypeOK'
    BY <1>0 DEF SkillInv, SkillTypeOK
  <1>3. OpenTx' \subseteq OpenTx /\ (t \in OpenTx' => rec.step \notin {"committed", "aborted"})
    BY <1>0, <1>1 DEF OpenTx
  <1>4. OverlapKnown'
    BY <1>1, <1>3 DEF SkillInv, SkillTypeOK, OverlapKnown
  <1>5. \A u \in Tx : tx'[u].step # "new" => tx'[u].version \in Version
    BY <1>0, <1>1 DEF SkillInv
  <1>6. Undisturbed' => Undisturbed
    BY <1>1 DEF Undisturbed, SkillInv, SkillTypeOK
  <1>7. ASSUME Undisturbed'
        PROVE  /\ AtMostOne({v \in Version : status'[v] = "active"})
               /\ \A u \in Writing', w \in Writing' : u = w
               /\ \A u \in Writing' : tx'[u].kind # "rollback" => tx'[u].skill
               /\ \A u \in OpenTx' : WriteSound(u)'
    <2>1. Undisturbed
      BY <1>6, <1>7
    <2>2. Writing' \subseteq Writing \cup {t}
      BY <1>1, <1>3 DEF Writing
    <2>3. \A u \in Writing', w \in Writing' : u = w
      <3>1. CASE rec.step \in {"committed", "aborted"}
        <4>1. t \notin Writing'
          BY <1>3, <3>1 DEF Writing
        <4>2. QED
          BY <2>1, <2>2, <4>1 DEF SkillInv
      <3>2. CASE \A u \in Writing : u = t
        BY <2>2, <3>2
      <3>3. QED
        BY <2>1, <3>1, <3>2
    <2>4. ASSUME NEW u \in Writing' PROVE tx'[u].kind # "rollback" => tx'[u].skill
      <3>1. CASE u = t
        <4>1. rec.step \notin {"committed", "aborted"}
          BY <1>3, <3>1 DEF Writing
        <4>2. QED
          BY <1>1, <2>1, <3>1, <4>1
      <3>2. CASE u # t
        BY <1>1, <2>1, <2>2, <3>2 DEF SkillInv, Writing, OpenTx
      <3>3. QED
        BY <3>1, <3>2
    <2>5. ASSUME NEW u \in OpenTx' PROVE WriteSound(u)'
      <3>1. CASE u = t
        BY <1>3, <2>1, <3>1
      <3>2. CASE u # t
        <4>1. u \in OpenTx /\ tx'[u] = tx[u]
          BY <1>1, <1>3, <3>2 DEF OpenTx
        <4>2. WriteSound(u)
          BY <2>1, <4>1 DEF SkillInv
        <4>3. QED
          BY <4>1, <4>2 DEF WriteSound, SeenActive
      <3>3. QED
        BY <3>1, <3>2
    <2>6. QED
      BY <2>1, <2>3, <2>4, <2>5 DEF SkillInv
  <1>8. QED
    BY <1>2, <1>4, <1>5, <1>7 DEF SkillInv

\* A transaction begins: a rollback that is not alone disturbs.
LEMMA Begins ==
  ASSUME SkillInv, NEW t \in Tx, tx[t].step = "new", NEW rec \in Transaction,
         tx' = [tx EXCEPT ![t] = rec], together' = together \cup Begun(t),
         UNCHANGED <<current, status>>, DOMAIN rec.set = {}, rec.version \in Version,
         \/ rec.step = "number"
         \/ rec.kind = "rollback" /\ rec.step \in {"retire", "aborted"}
  PROVE  SkillInv'
  <1>1. tx'[t] = rec /\ \A u \in Tx \ {t} : tx'[u] = tx[u]
    BY DEF SkillInv, SkillTypeOK
  <1>2. t \notin OpenTx /\ OpenTx \subseteq Tx /\ OpenTx' \subseteq OpenTx \cup {t}
    BY <1>1 DEF OpenTx
  <1>3. SkillTypeOK'
    BY <1>2 DEF SkillInv, SkillTypeOK, Begun
  <1>4. OverlapKnown'
    <2>1. CASE OpenTx = {}
      <3>1. together' = together /\ t \notin together
        BY <2>1 DEF Begun, SkillInv, OverlapKnown
      <3>2. QED
        BY <1>1, <1>2, <2>1, <3>1 DEF SkillInv, SkillTypeOK, OverlapKnown
    <2>2. CASE OpenTx # {}
      <3>1. OpenTx' \subseteq together'
        BY <1>2, <2>2 DEF Begun
      <3>2. \A u \in together' : tx'[u].step # "new"
        <4>1. \A u \in OpenTx : tx[u].step # "new"
          BY DEF OpenTx
        <4>2. rec.step # "new"
          OBVIOUS
        <4>3. together' \subseteq together \cup OpenTx \cup {t}
          BY DEF Begun
        <4>4. QED
          BY <1>1, <1>2, <4>1, <4>2, <4>3 DEF SkillInv, SkillTypeOK, OverlapKnown
      <3>3. QED
        BY <3>1, <3>2 DEF OverlapKnown
    <2>3. QED
      BY <2>1, <2>2
  <1>5. \A u \in Tx : tx'[u].step # "new" => tx'[u].version \in Version
    BY <1>1 DEF SkillInv
  <1>6. ASSUME Undisturbed'
        PROVE  /\ AtMostOne({v \in Version : status'[v] = "active"})
               /\ \A u \in Writing', w \in Writing' : u = w
               /\ \A u \in Writing' : tx'[u].kind # "rollback" => tx'[u].skill
               /\ \A u \in OpenTx' : WriteSound(u)'
    <2>1. Undisturbed
      <3>1. t \notin together
        BY DEF SkillInv, OverlapKnown
      <3>2. QED
        BY <1>1, <1>6, <3>1 DEF Undisturbed, SkillInv, SkillTypeOK
    <2>2. OpenTx = {} \/ rec.step = "number"
      <3>1. OpenTx # {} => t \in together'
        BY DEF Begun
      <3>2. QED
        BY <1>1, <1>6, <3>1 DEF Undisturbed
    <2>3. Writing' \subseteq OpenTx' /\ \A u \in Writing' : u # t => u \in Writing
      BY <1>1, <1>2 DEF Writing, OpenTx
    <2>4. \A u \in Writing', w \in Writing' : u = w
      <3>1. CASE OpenTx = {}
        BY <1>2, <2>3, <3>1
      <3>2. CASE rec.step = "number"
        <4>1. t \notin Writing'
          BY <1>1, <3>2 DEF Writing
        <4>2. QED
          BY <2>1, <2>3, <4>1 DEF SkillInv
      <3>3. QED
        BY <2>2, <3>1, <3>2
    <2>5. ASSUME NEW u \in Writing' PROVE tx'[u].kind # "rollback" => tx'[u].skill
      <3>1. CASE u = t
        BY <1>1, <2>5, <3>1 DEF Writing
      <3>2. CASE u # t
        BY <1>1, <2>1, <2>3, <3>2 DEF SkillInv, Writing, OpenTx
      <3>3. QED
        BY <3>1, <3>2
    <2>6. AtMostOne({v \in Version : status[v] = "active"})
      BY <2>1 DEF SkillInv
    <2>7. ASSUME NEW u \in OpenTx' PROVE WriteSound(u)'
      <3>1. CASE u = t
        <4>1. SeenActive(t)' = {v \in Version : status[v] = "active"}
          BY <1>1 DEF SeenActive
        <4>2. rec.step \in {"number", "retire"}
          BY <1>1, <2>7, <3>1 DEF OpenTx
        <4>3. QED
          BY <1>1, <2>6, <3>1, <4>1, <4>2 DEF WriteSound
      <3>2. CASE u # t
        <4>1. u \in OpenTx /\ tx'[u] = tx[u]
          BY <1>1, <1>2, <3>2 DEF OpenTx
        <4>2. WriteSound(u)
          BY <2>1, <4>1 DEF SkillInv
        <4>3. QED
          BY <4>1, <4>2 DEF WriteSound, SeenActive
      <3>3. QED
        BY <3>1, <3>2
    <2>8. QED
      BY <2>4, <2>5, <2>6, <2>7
  <1>7. QED
    BY <1>3, <1>4, <1>5, <1>6 DEF SkillInv

\* The writer is alone, if nothing disturbed: its own step says what it sees.
LEMMA WriterAlone ==
  ASSUME SkillInv, NEW t \in OpenTx, tx[t].step # "number", Undisturbed
  PROVE  /\ \A u \in Writing : u = t
         /\ tx[t].kind # "rollback" => tx[t].skill
         /\ WriteSound(t)
  BY DEF SkillInv, Writing

LEMMA WriteNumberStep ==
  ASSUME SkillInv, NEW t \in Tx, WriteNumber(t)
  PROVE  SkillInv'
  <1> DEFINE step == IF tx[t].version = 1 /\ current # 0 THEN "aborted"
                     ELSE IF tx[t].kind = "create" THEN "retire" ELSE "insert"
             rec  == [tx[t] EXCEPT !.skill = TRUE, !.step = step]
  <1>1. /\ tx[t].step = "number" /\ ~SkillLocked(t) /\ t \in OpenTx
        /\ UNCHANGED <<current, status, together>>
    BY DEF WriteNumber, OpenTx
  <1>2. tx[t] \in Transaction
    BY DEF SkillInv, SkillTypeOK
  <1>3. step \in {"aborted", "retire", "insert"} /\ (step = "insert" => tx[t].kind # "create")
    OBVIOUS
  <1>4. tx' = [tx EXCEPT ![t] = rec]
    BY <1>2 DEF WriteNumber, SkillInv, SkillTypeOK, Transaction
  <1> HIDE DEF step
  <1>5. /\ rec \in Transaction /\ rec.kind = tx[t].kind /\ rec.version = tx[t].version
        /\ rec.set = tx[t].set /\ rec.step = step /\ rec.skill
    BY <1>2, <1>3 DEF Transaction, TxStep
  <1> HIDE DEF rec
  <1>6. tx'[t] = rec
    BY <1>4 DEF SkillInv, SkillTypeOK
  <1>7. ASSUME Undisturbed PROVE (\A u \in Writing : u = t) /\ WriteSound(t)'
    <2>1. ASSUME NEW u \in Writing, u # t PROVE FALSE
      <3>1. u \in OpenTx /\ u \in together
        BY <1>1, <2>1 DEF Writing, SkillInv, OverlapKnown
      <3>2. tx[u].skill
        BY <1>7, <2>1, <3>1 DEF SkillInv, Undisturbed
      <3>3. QED
        BY <1>1, <2>1, <3>1, <3>2 DEF SkillLocked
    <2>2. DOMAIN tx[t].set = {} /\ AtMostOne({v \in Version : status[v] = "active"})
      BY <1>1, <1>7 DEF SkillInv, WriteSound
    <2>3. SeenActive(t)' = {v \in Version : status[v] = "active"}
      BY <1>1, <1>5, <1>6, <2>2 DEF SeenActive
    <2>4. WriteSound(t)'
      BY <1>3, <1>5, <1>6, <2>2, <2>3 DEF WriteSound
    <2>5. QED
      BY <2>1, <2>4
  <1>8. QED
    BY <1>1, <1>3, <1>4, <1>5, <1>7, GoingOn

LEMMA FindActiveStep ==
  ASSUME SkillInv, NEW t \in Tx, FindActive(t)
  PROVE  SkillInv'
  <1> DEFINE rec == [tx[t] EXCEPT !.found = SeenActive(t), !.step = "retiring"]
  <1>1. /\ tx[t].step = "retire" /\ t \in OpenTx
        /\ UNCHANGED <<current, status, together>>
    BY DEF FindActive, OpenTx
  <1>2. tx[t] \in Transaction /\ SeenActive(t) \subseteq Version
    BY DEF SkillInv, SkillTypeOK, SeenActive
  <1>3. tx' = [tx EXCEPT ![t] = rec]
    BY <1>2 DEF FindActive, SkillInv, SkillTypeOK, Transaction
  <1>4. /\ rec \in Transaction /\ rec.kind = tx[t].kind /\ rec.version = tx[t].version
        /\ rec.set = tx[t].set /\ rec.step = "retiring" /\ rec.skill = tx[t].skill
        /\ rec.found = SeenActive(t)
    BY <1>2 DEF Transaction, TxStep
  <1> HIDE DEF rec
  <1>5. tx'[t] = rec
    BY <1>3 DEF SkillInv, SkillTypeOK
  <1>6. SeenActive(t)' = SeenActive(t)
    BY <1>1, <1>4, <1>5 DEF SeenActive
  <1>7. ASSUME Undisturbed
        PROVE  (\A u \in Writing : u = t) /\ (rec.kind # "rollback" => rec.skill) /\ WriteSound(t)'
    <2>1. /\ \A u \in Writing : u = t
          /\ tx[t].kind # "rollback" => tx[t].skill
          /\ WriteSound(t)
      BY <1>1, <1>7, WriterAlone
    <2>2. AtMostOne(SeenActive(t))
      BY <1>1, <2>1 DEF WriteSound, TxStep
    <2>3. WriteSound(t)'
      BY <1>4, <1>5, <1>6, <2>2 DEF WriteSound
    <2>4. QED
      BY <1>4, <2>1, <2>3
  <1>8. QED
    BY <1>1, <1>3, <1>4, <1>7, GoingOn

\* The rows that were found are still the active ones: nobody else commits.
LEMMA RetireFoundStep ==
  ASSUME SkillInv, NEW t \in Tx, RetireFound(t)
  PROVE  SkillInv'
  <1> DEFINE S    == tx[t].found \cap SeenActive(t)
             set  == Written(tx[t].set, S, "retired")
             step == IF tx[t].kind = "rollback" THEN "activate" ELSE "insert"
             rec  == [tx[t] EXCEPT !.set = set, !.step = step]
  <1>1. /\ tx[t].step = "retiring" /\ t \in OpenTx
        /\ UNCHANGED <<current, status, together>>
    BY DEF RetireFound, OpenTx
  <1>2. tx[t] \in Transaction /\ S \in SUBSET Version /\ tx[t].set \in RowSet
    BY DEF SkillInv, SkillTypeOK, SeenActive, Transaction
  <1>3. tx' = [tx EXCEPT ![t] = rec]
    BY <1>2 DEF RetireFound, Written, SkillInv, SkillTypeOK, Transaction
  <1>4. /\ set \in RowSet /\ DOMAIN set = DOMAIN tx[t].set \cup S
        /\ \A v \in S : set[v] = "retired"
        /\ \A v \in DOMAIN tx[t].set \ S : set[v] = tx[t].set[v]
    <2> HIDE DEF S
    <2>1. PICK D \in SUBSET Version : tx[t].set \in [D -> {"active", "retired", "canary"}]
      BY <1>2 DEF RowSet
    <2>2. set = [v \in D \cup S |-> IF v \in S THEN "retired" ELSE tx[t].set[v]]
      BY <2>1 DEF Merge, Written
    <2> HIDE DEF set
    <2>3. D \cup S \in SUBSET Version /\ set \in [D \cup S -> {"active", "retired", "canary"}]
      BY <1>2, <2>1, <2>2
    <2>4. set \in RowSet
      BY <2>3 DEF RowSet
    <2>5. QED
      BY <2>1, <2>2, <2>4
  <1>5. step \in {"activate", "insert"}
    OBVIOUS
  <1> HIDE DEF step, set
  <1>6. /\ rec \in Transaction /\ rec.kind = tx[t].kind /\ rec.version = tx[t].version
        /\ rec.set = set /\ rec.step = step /\ rec.skill = tx[t].skill
    BY <1>2, <1>4, <1>5 DEF Transaction, TxStep
  <1> HIDE DEF rec
  <1>7. tx'[t] = rec
    BY <1>3 DEF SkillInv, SkillTypeOK
  <1>8. ASSUME Undisturbed
        PROVE  (\A u \in Writing : u = t) /\ (rec.kind # "rollback" => rec.skill) /\ WriteSound(t)'
    <2>1. /\ \A u \in Writing : u = t
          /\ tx[t].kind # "rollback" => tx[t].skill
          /\ WriteSound(t)
      BY <1>1, <1>8, WriterAlone
    <2>2. S = SeenActive(t)
      BY <1>1, <2>1 DEF WriteSound
    <2>3. SeenActive(t)' = {}
      <3>1. ASSUME NEW v \in Version, v \in SeenActive(t)' PROVE FALSE
        <4>1. CASE v \in S
          BY <1>4, <1>6, <1>7, <3>1, <4>1 DEF SeenActive
        <4>2. CASE v \in DOMAIN tx[t].set \ S
          <5>1. tx[t].set[v] = "active"
            BY <1>4, <1>6, <1>7, <3>1, <4>2 DEF SeenActive
          <5>2. QED
            BY <2>2, <4>2, <5>1 DEF SeenActive
        <4>3. CASE v \notin DOMAIN tx[t].set \cup S
          <5>1. status[v] = "active"
            BY <1>1, <1>4, <1>6, <1>7, <3>1, <4>3 DEF SeenActive
          <5>2. QED
            BY <2>2, <4>3, <5>1 DEF SeenActive
        <4>4. QED
          BY <4>1, <4>2, <4>3
      <3>2. SeenActive(t)' \subseteq Version
        BY DEF SeenActive
      <3>3. QED
        BY <3>1, <3>2
    <2>4. WriteSound(t)'
      BY <1>5, <1>6, <1>7, <2>3 DEF WriteSound, AtMostOne
    <2>5. QED
      BY <1>6, <2>1, <2>4
  <1>9. QED
    BY <1>1, <1>3, <1>5, <1>6, <1>8, GoingOn

\* One row more, of the transaction's own version: active only where no other is.
LEMMA WriteRowStep ==
  ASSUME SkillInv, NEW t \in OpenTx, NEW x \in {"active", "canary"}, NEW step \in {"commit", "pointer"},
         tx[t].step \in {"insert", "activate"},
         x = "active" => tx[t].step = "activate" \/ tx[t].kind = "create",
         tx' = [tx EXCEPT ![t] = [tx[t] EXCEPT !.set = Written(tx[t].set, {tx[t].version}, x),
                                               !.step = step]],
         UNCHANGED <<current, status, together>>
  PROVE  SkillInv'
  <1> DEFINE n   == tx[t].version
             set == Written(tx[t].set, {n}, x)
             rec == [tx[t] EXCEPT !.set = set, !.step = step]
  <1>1. /\ tx[t] \in Transaction /\ {n} \in SUBSET Version /\ tx[t].set \in RowSet
        /\ t \in Tx /\ tx[t].step # "number"
    BY DEF SkillInv, SkillTypeOK, Transaction, OpenTx
  <1>2. tx' = [tx EXCEPT ![t] = rec]
    OBVIOUS
  <1>3. x \in {"active", "retired", "canary"}
    OBVIOUS
  <1>4. /\ set \in RowSet /\ DOMAIN set = DOMAIN tx[t].set \cup {n}
        /\ set[n] = x
        /\ \A v \in DOMAIN tx[t].set \ {n} : set[v] = tx[t].set[v]
    <2> HIDE DEF n
    <2>1. PICK D \in SUBSET Version : tx[t].set \in [D -> {"active", "retired", "canary"}]
      BY <1>1 DEF RowSet
    <2>2. set = [v \in D \cup {n} |-> IF v \in {n} THEN x ELSE tx[t].set[v]]
      BY <2>1 DEF Merge, Written
    <2> HIDE DEF set
    <2>3. D \cup {n} \in SUBSET Version /\ set \in [D \cup {n} -> {"active", "retired", "canary"}]
      BY <1>1, <1>3, <2>1, <2>2
    <2>4. set \in RowSet
      BY <2>3 DEF RowSet
    <2>5. QED
      BY <2>1, <2>2, <2>4
  <1> HIDE DEF set
  <1>5. /\ rec \in Transaction /\ rec.kind = tx[t].kind /\ rec.version = tx[t].version
        /\ rec.set = set /\ rec.step = step /\ rec.skill = tx[t].skill
    BY <1>1, <1>4 DEF Transaction, TxStep
  <1> HIDE DEF rec
  <1>6. tx'[t] = rec
    BY <1>1, <1>2 DEF SkillInv, SkillTypeOK
  <1>7. ASSUME Undisturbed
        PROVE  (\A u \in Writing : u = t) /\ (rec.kind # "rollback" => rec.skill) /\ WriteSound(t)'
    <2>1. /\ \A u \in Writing : u = t
          /\ tx[t].kind # "rollback" => tx[t].skill
          /\ WriteSound(t)
      BY <1>1, <1>7, WriterAlone
    <2>2. \A v \in SeenActive(t)' : v \in SeenActive(t) \/ (v = n /\ x = "active")
      BY <1>4, <1>5, <1>6 DEF SeenActive
    <2>3. AtMostOne(SeenActive(t)) /\ (x = "active" => SeenActive(t) = {})
      BY <2>1 DEF WriteSound, TxStep
    <2>4. AtMostOne(SeenActive(t)')
      BY <2>2, <2>3 DEF AtMostOne
    <2>5. WriteSound(t)'
      BY <1>5, <1>6, <2>4 DEF WriteSound
    <2>6. QED
      BY <1>5, <2>1, <2>5
  <1>8. QED
    BY <1>2, <1>5, <1>7, GoingOn

LEMMA AbortStep ==
  ASSUME SkillInv, NEW t \in OpenTx, tx' = [tx EXCEPT ![t].step = "aborted"],
         UNCHANGED <<current, status, together>>
  PROVE  SkillInv'
  <1> DEFINE rec == [tx[t] EXCEPT !.step = "aborted"]
  <1>1. t \in Tx /\ tx[t] \in Transaction
    BY DEF SkillInv, SkillTypeOK, OpenTx
  <1>2. tx' = [tx EXCEPT ![t] = rec]
    OBVIOUS
  <1>3. /\ rec \in Transaction /\ rec.kind = tx[t].kind /\ rec.version = tx[t].version
        /\ rec.step = "aborted"
    BY <1>1 DEF Transaction, TxStep
  <1> HIDE DEF rec
  <1>4. QED
    BY <1>2, <1>3, GoingOn

LEMMA WritePointerStep ==
  ASSUME SkillInv, NEW t \in Tx, WritePointer(t)
  PROVE  SkillInv'
  <1> DEFINE rec == [tx[t] EXCEPT !.skill = TRUE, !.step = "commit"]
  <1>1. /\ tx[t].step = "pointer" /\ t \in OpenTx
        /\ UNCHANGED <<current, status, together>>
    BY DEF WritePointer, OpenTx
  <1>2. tx[t] \in Transaction
    BY DEF SkillInv, SkillTypeOK
  <1>3. tx' = [tx EXCEPT ![t] = rec]
    BY <1>2 DEF WritePointer, SkillInv, SkillTypeOK, Transaction
  <1>4. /\ rec \in Transaction /\ rec.kind = tx[t].kind /\ rec.version = tx[t].version
        /\ rec.set = tx[t].set /\ rec.step = "commit" /\ rec.skill
    BY <1>2 DEF Transaction, TxStep
  <1> HIDE DEF rec
  <1>5. tx'[t] = rec
    BY <1>3 DEF SkillInv, SkillTypeOK
  <1>6. SeenActive(t)' = SeenActive(t)
    BY <1>1, <1>4, <1>5 DEF SeenActive
  <1>7. ASSUME Undisturbed PROVE (\A u \in Writing : u = t) /\ WriteSound(t)'
    <2>1. (\A u \in Writing : u = t) /\ WriteSound(t)
      BY <1>1, <1>7, WriterAlone
    <2>2. AtMostOne(SeenActive(t))
      BY <1>1, <2>1 DEF WriteSound, TxStep
    <2>3. QED
      BY <1>4, <1>5, <1>6, <2>1, <2>2 DEF WriteSound
  <1>8. QED
    BY <1>1, <1>3, <1>4, <1>7, GoingOn

\* A commit makes visible what the transaction sees.
LEMMA CommitStep ==
  ASSUME SkillInv, NEW t \in Tx, Commit(t)
  PROVE  SkillInv'
  <1> DEFINE rec == [tx[t] EXCEPT !.step = "committed"]
  <1>1. /\ tx[t].step = "commit" /\ t \in OpenTx
        /\ current' \in {current, tx[t].version} /\ status' = Merge(status, tx[t].set) /\ together' = together
    BY DEF Commit, OpenTx
  <1>2. tx[t] \in Transaction /\ tx[t].version \in Version /\ tx[t].set \in RowSet
    BY <1>1 DEF SkillInv, SkillTypeOK, Transaction
  <1>3. tx' = [tx EXCEPT ![t] = rec]
    BY DEF Commit
  <1>4. /\ rec \in Transaction /\ rec.kind = tx[t].kind /\ rec.version = tx[t].version
        /\ rec.step = "committed"
    BY <1>2 DEF Transaction, TxStep
  <1> HIDE DEF rec
  <1>5. tx'[t] = rec /\ \A u \in Tx \ {t} : tx'[u] = tx[u]
    BY <1>3 DEF SkillInv, SkillTypeOK
  <1>6. PICK D \in SUBSET Version : tx[t].set \in [D -> {"active", "retired", "canary"}]
    BY <1>2 DEF RowSet
  <1>7. /\ status' \in [Version -> {"none", "active", "retired", "canary"}]
        /\ \A v \in Version : status'[v] = IF v \in DOMAIN tx[t].set THEN tx[t].set[v] ELSE status[v]
    BY <1>1, <1>6 DEF Merge, SkillInv, SkillTypeOK
  <1>8. SkillTypeOK'
    BY <1>1, <1>2, <1>3, <1>4, <1>7 DEF SkillInv, SkillTypeOK, Version
  <1>9. OpenTx' = OpenTx \ {t}
    BY <1>4, <1>5 DEF OpenTx
  <1>10. OverlapKnown'
    BY <1>1, <1>4, <1>5, <1>9 DEF SkillInv, SkillTypeOK, OverlapKnown
  <1>11. \A u \in Tx : tx'[u].step # "new" => tx'[u].version \in Version
    BY <1>2, <1>4, <1>5 DEF SkillInv
  <1>12. ASSUME Undisturbed'
         PROVE  /\ AtMostOne({v \in Version : status'[v] = "active"})
                /\ \A u \in Writing', w \in Writing' : u = w
                /\ \A u \in Writing' : tx'[u].kind # "rollback" => tx'[u].skill
                /\ \A u \in OpenTx' : WriteSound(u)'
    <2>1. Undisturbed
      BY <1>1, <1>4, <1>5, <1>12 DEF Undisturbed, SkillInv, SkillTypeOK
    <2>2. (\A u \in Writing : u = t) /\ WriteSound(t)
      BY <1>1, <2>1, WriterAlone
    <2>3. AtMostOne({v \in Version : status'[v] = "active"})
      <3>1. {v \in Version : status'[v] = "active"} = SeenActive(t)
        BY <1>7 DEF SeenActive
      <3>2. QED
        BY <1>1, <2>2, <3>1 DEF WriteSound, TxStep
    <2>4. Writing' = {}
      <3>1. \A u \in OpenTx' : u \in OpenTx /\ u # t /\ tx'[u] = tx[u]
        BY <1>5, <1>9 DEF OpenTx
      <3>2. QED
        BY <2>2, <3>1 DEF Writing
    <2>5. ASSUME NEW u \in OpenTx' PROVE WriteSound(u)'
      <3>1. u \in OpenTx /\ tx'[u] = tx[u] /\ tx'[u].step = "number"
        BY <1>5, <1>9, <2>4 DEF OpenTx, Writing
      <3>2. DOMAIN tx[u].set = {}
        BY <2>1, <3>1 DEF SkillInv, WriteSound
      <3>3. QED
        BY <3>1, <3>2 DEF WriteSound
    <2>6. QED
      BY <2>3, <2>4, <2>5
  <1>13. QED
    BY <1>8, <1>10, <1>11, <1>12 DEF SkillInv

LEMMA SkillInductive == SkillInv /\ [SkillNext]_skillVars => SkillInv'
  <1> SUFFICES ASSUME SkillInv, [SkillNext]_skillVars PROVE SkillInv'
    OBVIOUS
  <1>1. ASSUME NEW t \in Tx, NEW kind \in {"create", "create_canary"}, ReadSkill(t, kind)
        PROVE  SkillInv'
    <2> DEFINE rec == [NoTx EXCEPT !.kind = kind, !.step = "number", !.version = current + 1]
    <2>1. /\ tx[t].step = "new" /\ current + 1 \in Version
          /\ tx' = [tx EXCEPT ![t] = rec] /\ together' = together \cup Begun(t)
          /\ UNCHANGED <<current, status>>
      BY <1>1, SkillAssumption DEF ReadSkill, SkillInv, SkillTypeOK, Version
    <2>2. /\ rec \in Transaction /\ rec.step = "number" /\ rec.version \in Version
          /\ DOMAIN rec.set = {}
      BY <2>1, NoTxType DEF Transaction, TxStep
    <2> HIDE DEF rec
    <2>3. QED
      BY <2>1, <2>2, Begins
  <1>2. ASSUME NEW t \in Tx, NEW v \in Version, ReadTarget(t, v) PROVE SkillInv'
    <2> DEFINE step == IF status[v] = "none" THEN "aborted" ELSE "retire"
               rec  == [NoTx EXCEPT !.kind = "rollback", !.version = v, !.step = step]
    <2>1. /\ tx[t].step = "new"
          /\ tx' = [tx EXCEPT ![t] = rec] /\ together' = together \cup Begun(t)
          /\ UNCHANGED <<current, status>>
      BY <1>2 DEF ReadTarget
    <2>2. step \in {"retire", "aborted"}
      OBVIOUS
    <2> HIDE DEF step
    <2>3. /\ rec \in Transaction /\ rec.step = step /\ rec.version \in Version
          /\ rec.kind = "rollback" /\ DOMAIN rec.set = {}
      BY <2>2, NoTxType DEF Transaction, TxStep
    <2> HIDE DEF rec
    <2>4. QED
      BY <2>1, <2>2, <2>3, Begins
  <1>3. ASSUME NEW t \in Tx, InsertVersion(t) PROVE SkillInv'
    <2> DEFINE x == IF tx[t].kind = "create" THEN "active" ELSE "canary"
    <2>1. /\ t \in OpenTx /\ tx[t].step = "insert" /\ tx \in [Tx -> Transaction]
          /\ UNCHANGED <<current, status, together>>
      BY <1>3 DEF InsertVersion, OpenTx, SkillInv, SkillTypeOK
    <2>2. CASE tx' = [tx EXCEPT ![t].step = "aborted"]
      BY <2>1, <2>2, AbortStep
    <2>3. CASE tx' = [tx EXCEPT ![t].step = "commit",
                                ![t].set = Merge(@, [v \in {tx[t].version} |-> x])]
      <3>1. x \in {"active", "canary"} /\ (x = "active" => tx[t].kind = "create")
        OBVIOUS
      <3> HIDE DEF x
      <3>2. tx' = [tx EXCEPT ![t] = [tx[t] EXCEPT !.set = Written(tx[t].set, {tx[t].version}, x),
                                                  !.step = "commit"]]
        BY <2>1, <2>3 DEF Written, Transaction
      <3>3. QED
        BY <2>1, <3>1, <3>2, WriteRowStep
    <2>4. QED
      BY <1>3, <2>2, <2>3 DEF InsertVersion
  <1>4. ASSUME NEW t \in Tx, ActivateTarget(t) PROVE SkillInv'
    <2>1. /\ t \in OpenTx /\ tx[t].step = "activate" /\ tx \in [Tx -> Transaction]
          /\ UNCHANGED <<current, status, together>>
      BY <1>4 DEF ActivateTarget, OpenTx, SkillInv, SkillTypeOK
    <2>2. PICK step \in {"commit", "pointer"} :
              tx' = [tx EXCEPT ![t] = [tx[t] EXCEPT !.set = Written(tx[t].set, {tx[t].version}, "active"),
                                                    !.step = step]]
      BY <1>4, <2>1 DEF ActivateTarget, Written, Transaction
    <2>3. QED
      BY <2>1, <2>2, WriteRowStep
  <1>5. ASSUME NEW t \in Tx, BreakDeadlock(t) PROVE SkillInv'
    BY <1>5, AbortStep DEF BreakDeadlock
  <1>6. CASE UNCHANGED skillVars
    BY <1>6 DEF skillVars, SkillInv, SkillTypeOK, OverlapKnown, Undisturbed, Writing, OpenTx,
                WriteSound, SeenActive
  <1>7. QED
    BY <1>1, <1>2, <1>3, <1>4, <1>5, <1>6, WriteNumberStep, FindActiveStep, RetireFoundStep,
       WritePointerStep, CommitStep DEF SkillNext, SkillStep

\* For any number of requests on a skill and any number of versions: the UPDATEs
\* and INSERTs of create_version and rollback, each in its READ COMMITTED
\* transaction, leave at most one version active, so that get_active does not
\* raise, unless a rollback was open at the same time as another change.
THEOREM OneActiveTheorem == SkillSpec => []OneActive
  <1>1. SkillInit => SkillInv
    <2> SUFFICES ASSUME SkillInit PROVE SkillInv
      OBVIOUS
    <2>1. \A t \in Tx : tx[t] = NoTx
      BY DEF SkillInit
    <2>2. NoTx.step = "new"
      BY DEF NoTx
    <2>3. OpenTx = {} /\ Writing = {}
      BY <2>1, <2>2 DEF OpenTx, Writing
    <2>4. SkillTypeOK
      BY NoTxType, SkillAssumption DEF SkillInit, SkillTypeOK
    <2>5. AtMostOne({v \in Version : status[v] = "active"})
      BY DEF SkillInit, AtMostOne
    <2>6. OverlapKnown
      BY <2>3 DEF SkillInit, OverlapKnown
    <2>7. QED
      BY <2>1, <2>2, <2>3, <2>4, <2>5, <2>6 DEF SkillInv
  <1>2. SkillInv => OneActive
    <2> SUFFICES ASSUME SkillInv, Undisturbed
                 PROVE  Cardinality({v \in Version : status[v] = "active"}) <= 1
      BY DEF OneActive, Undisturbed
    <2> DEFINE A == {v \in Version : status[v] = "active"}
    <2>1. AtMostOne(A)
      BY DEF SkillInv
    <2> HIDE DEF A
    <2>2. A = {} \/ \E v \in A : A = {v}
      BY <2>1 DEF AtMostOne
    <2>3. QED
      BY <2>2, FS_EmptySet, FS_Singleton DEF A
  <1>3. QED
    BY <1>1, <1>2, SkillInductive, PTL DEF SkillSpec
=============================================================================
