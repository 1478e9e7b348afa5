------------------------------- MODULE Gateway -------------------------------
(***************************************************************************)
(* POST /v1/complete of the LLM gateway (llm-gateway/src/main.py) with the *)
(* budget tracker, the degradation cascade and the escalation loop it      *)
(* calls.                                                                  *)
(*                                                                         *)
(* The gateway is one asyncio event loop.  A handler runs without          *)
(* interruption between two awaits, so each action below is the code from  *)
(* one await to the next; other requests run in between.  The awaits are   *)
(* the Redis commands of the budget tracker and of the request queue and   *)
(* the provider calls.  A slot of Request is one connection: it serves     *)
(* request after request.                                                  *)
(*                                                                         *)
(* Left out: the counters and metrics that only reports read               *)
(* (increment_requests' count, MetricsStore, the canary samples).  The     *)
(* tokens of a response are one of a few usages.                           *)
(***************************************************************************)
EXTENDS Degradation, Escalation, FiniteSets

CONSTANTS
    Request,        \* concurrent connections
    Tenant,
    Model,          \* model ids
    NoModel,        \* Python's None where a model id may stand
    ModelsOf,       \* [Tier -> Seq(Model)]: the tier's models by priority, none twice
    Usage,          \* token counts that responses report
    EstimateCost,   \* [Model -> [Usage -> Nat]]: estimate_cost of a model's adapter
    CanaryModel,    \* model of the task's canary experiment, or NoModel
    Pin,            \* models that tenant or agent routes name, or NoModel
    Threshold,      \* confidence thresholds that callers send, in tenths
    Answer,         \* the classes of responses that providers give
    MaxPrice,       \* an upper bound of the costs
    MaxQueue        \* bound on the requests queued for one tenant

ASSUME GatewayAssumption ==
    /\ IsFiniteSet(Request)
    /\ Tenant # {}
    /\ Path \in Seq(Tier)
    /\ \A i, j \in DOMAIN Path : Path[i] = Path[j] => i = j
    /\ NoModel \notin Model
    /\ ModelsOf \in [Tier -> Seq(Model)]
    /\ \A t \in Tier : \A i, j \in DOMAIN ModelsOf[t] : ModelsOf[t][i] = ModelsOf[t][j] => i = j
    /\ Usage # {}
    /\ EstimateCost \in [Model -> [Usage -> Nat]]
    /\ CanaryModel \in Model \cup {NoModel}
    /\ Pin \subseteq Model \cup {NoModel}
    /\ Threshold \subseteq 0 .. 10
    /\ Answer \subseteq Response
    /\ MaxPrice \in Nat
    /\ \A m \in Model, n \in Usage : EstimateCost[m][n] <= MaxPrice
    /\ MaxQueue \in Nat

VARIABLES
    pc,         \* [Request -> PC]: the await each handler stands at
    seen,       \* [Request -> Nat]: daily_spend as the handler read it
    ctx,        \* [Request -> Context]: the handler's other locals
    spend,      \* [Tenant -> Nat]: Redis budget:cost:{tenant}:{today}
    level,      \* [Tenant -> Level]: DegradationManager._tenant_levels
    queued,     \* [Tenant -> Nat]: length of Redis queue:requests:{tenant}
    rotation    \* models that are healthy and enabled

vars == <<pc, seen, ctx, spend, level, queued, rotation>>

\* reading: get_daily_spend.  queuing: enqueue.  counting: increment_requests.
\* calling: adapter.complete.  recording: record_cost.
PC == {"idle", "reading", "queuing", "counting", "calling", "recording"}

\* Locals of complete().  model is the model being called, todo the models of
\* the tier after it in ordered_models.  best, usage and conf are best_response's model,
\* tokens and confidence, used is model_used.  paid and top are histories: the cost of
\* every call that answered, and the highest confidence returned so far.
Context == [tenant : Tenant, want : Tier, pin : Model \cup {NoModel},
            threshold : 0 .. 10, canary : BOOLEAN, tier : Tier, esc : Nat,
            model : Model \cup {NoModel}, todo : SUBSET Model, best : Model \cup {NoModel}, usage : Usage,
            conf : 0 .. 10, used : Model \cup {NoModel}, paid : Nat, top : 0 .. 10]

NewContext(t, want, pin, threshold) ==
    [tenant |-> t, want |-> want, pin |-> pin, threshold |-> threshold,
     canary |-> FALSE, tier |-> want, esc |-> 0, model |-> NoModel, todo |-> {}, best |-> NoModel,
     usage |-> CHOOSE n \in Usage : TRUE, conf |-> 0, used |-> NoModel, paid |-> 0, top |-> 0]

Blank == NewContext(CHOOSE t \in Tenant : TRUE, "mid", NoModel, 0)

Init ==
    /\ pc = [r \in Request |-> "idle"]
    /\ seen = [r \in Request |-> 0]
    /\ ctx = [r \in Request |-> Blank]
    /\ spend = [t \in Tenant |-> 0]
    /\ level = [t \in Tenant |-> FULL_SERVICE]
    /\ queued = [t \in Tenant |-> 0]
    /\ rotation = Model
-----------------------------------------------------------------------------
At(r, c) == pc' = [pc EXCEPT ![r] = c]

\* The handler returns or raises: the slot forgets the request.
Close(r) ==
    /\ At(r, "idle")
    /\ seen' = [seen EXCEPT ![r] = 0]
    /\ ctx' = [ctx EXCEPT ![r] = Blank]

is_tier_allowed(t, tier) == tier \in tiers_for_level(level[t])

\* The tier's healthy and enabled models, as the set of what is in its list.
get_models_for_tier(tier) == {ModelsOf[tier][i] : i \in DOMAIN ModelsOf[tier]} \cap rotation

\* ordered_models: the target first, then the order of the tier's list.
TriedBefore(tier, target, m, n) ==
    IF m = target \/ n = target THEN m = target
    ELSE \E i, j \in DOMAIN ModelsOf[tier] :
            i < j /\ ModelsOf[tier][i] = m /\ ModelsOf[tier][j] = n

\* The first of some models in that order, as a set.
FirstOf(tier, target, models) ==
    {m \in models : \A n \in models \ {m} : TriedBefore(tier, target, m, n)}

\* A model named by the route counts before the first escalation only; the
\* canary model is put first in every tier that has it.
TargetModel(c, esc) ==
    CASE c.pin # NoModel /\ esc = 0 -> c.pin
      [] c.canary                   -> CanaryModel
      [] OTHER                      -> NoModel

\* How many tiers the loop may climb from tier while no model of a tier
\* answers: escalation on, count below the maximum, next tier allowed now.
Hops(c, tier, esc) ==
    {k \in 0 .. Len(Path) :
        /\ Climb(tier, k) # {}
        /\ k > 0 => /\ EscEnabled
                    /\ esc + k <= MaxEsc
                    /\ \A j \in 1 .. k : \A u \in Climb(tier, j) : is_tier_allowed(c.tenant, u)}

\* Leave the loop: record the best response, or answer 503 if there is none.
Stop(r, c) ==
    IF c.best # NoModel
    THEN At(r, "recording") /\ ctx' = [ctx EXCEPT ![r] = c] /\ UNCHANGED seen
    ELSE Close(r)

\* The loop from the head of tier (skip = 0), or after every model of tier
\* failed (skip = 1), to the next provider call or out of the loop.
Continue(r, c, tier, esc, skip) ==
    LET hops      == Hops(c, tier, esc)
        models(k) == UNION {get_models_for_tier(u) : u \in Climb(tier, k)}
        live      == {k \in hops : k >= skip /\ models(k) # {}}
        goto(u, k, m, todo) == [c EXCEPT !.tier = u, !.esc = esc + k, !.model = m, !.todo = todo]
    IN  \/ \E k \in live : \E u \in Climb(tier, k) :
            /\ \A j \in live : k <= j
            /\ \E m \in FirstOf(u, TargetModel(c, esc + k), models(k)) :
                    ctx' = [ctx EXCEPT ![r] = goto(u, k, m, models(k) \ {m})]
            /\ At(r, "calling")
            /\ UNCHANGED seen
        \/ /\ live = {}
           /\ \E k \in hops : \E u \in Climb(tier, k) :
                /\ \A j \in hops : j <= k
                /\ Stop(r, goto(u, k, NoModel, {}))
-----------------------------------------------------------------------------
\* A request arrives and its get_daily_spend is executed.  A route that names
\* a model resolves to the tier that lists it.
Arrive(r, t, want, pin, threshold) ==
    /\ pc[r] = "idle"
    /\ queued[t] < MaxQueue
    /\ pin # NoModel => \E i \in DOMAIN ModelsOf[want] : ModelsOf[want][i] = pin
    /\ At(r, "reading")
    /\ seen' = [seen EXCEPT ![r] = spend[t]]
    /\ ctx' = [ctx EXCEPT ![r] = NewContext(t, want, pin, threshold)]
    /\ UNCHANGED <<spend, level, queued, rotation>>

\* Mutant: only the queue level turns a request away.
Admit_no_reject(r) ==
    LET t == ctx[r].tenant
        l == compute_level(seen[r])
    IN  /\ pc[r] = "reading"
        /\ level' = [level EXCEPT ![t] = l]
        /\ At(r, IF should_queue(l) THEN "queuing" ELSE "counting")
        /\ UNCHANGED <<seen, ctx, spend, queued, rotation>>

\* get_daily_spend returns: update_for_spend sets the tenant's level from the
\* value read; level 4 queues the request, level 3 answers 429.
Admit(r) ==
    LET t == ctx[r].tenant
        l == compute_level(seen[r])
    IN  /\ pc[r] = "reading"
        /\ level' = [level EXCEPT ![t] = l]
        /\ \/ should_queue(l) /\ At(r, "queuing") /\ UNCHANGED <<seen, ctx>>
           \/ ~should_queue(l) /\ should_reject_llm(l) /\ Close(r)
           \/ ~should_reject_llm(l) /\ At(r, "counting") /\ UNCHANGED <<seen, ctx>>
        /\ UNCHANGED <<spend, queued, rotation>>

\* The request is on the tenant's Redis list; the handler answers 429.
Enqueue(r) ==
    /\ pc[r] = "queuing"
    /\ queued' = [queued EXCEPT ![ctx[r].tenant] = @ + 1]
    /\ Close(r)
    /\ UNCHANGED <<spend, level, rotation>>

\* increment_requests returns: resolve, cap_tier with the tenant's level as it
\* is now, the canary roll, and the loop up to the first provider call.
\* A capped resolution drops the model that the route named.
Route(r) ==
    /\ pc[r] = "counting"
    /\ \E canary \in IF CanaryModel = NoModel THEN {FALSE} ELSE BOOLEAN :
        LET c    == ctx[r]
            tier == cap_tier(level[c.tenant], c.want)
            pin  == IF tier # c.want THEN NoModel ELSE c.pin
        IN  Continue(r, [c EXCEPT !.canary = canary, !.pin = pin], tier, 0, 0)
    /\ UNCHANGED <<spend, level, queued, rotation>>

\* Mutant: the tenant's level is not asked.
NextTiers_unchecked(c) == {t \in get_next_tier(c.tier) : c.esc < MaxEsc}

\* Mutant: one escalation too few.
NextTiers_off_by_one(c) ==
    {t \in get_next_tier(c.tier) : c.esc + 1 < MaxEsc /\ is_tier_allowed(c.tenant, t)}

\* Where a response that asks for more may climb to: the next tier of the
\* path, if the count is below the maximum and the tenant's level allows it.
NextTiers(c) == {t \in get_next_tier(c.tier) : c.esc < MaxEsc /\ is_tier_allowed(c.tenant, t)}

\* Mutant: the escalation count and the tier stay as they are.
CallSucceeds_retry(r, resp, tokens) ==
    LET c   == ctx[r]
        new == [c EXCEPT !.used = c.model, !.best = c.model, !.usage = tokens,
                         !.conf = decided_confidence(resp, c.esc),
                         !.paid = EstimateCost[c.model][tokens]]
    IN  /\ pc[r] = "calling"
        /\ IF should_escalate(resp, c.threshold, c.esc)
           THEN Continue(r, new, c.tier, c.esc, 0)
           ELSE Stop(r, new)
        /\ UNCHANGED <<spend, level, queued, rotation>>

\* Mutant: the last response always wins.
Taken_last(c, resp, tokens) ==
    LET conf == decided_confidence(resp, c.esc)
    IN  [c EXCEPT !.model = NoModel, !.todo = {}, !.used = c.model,
                  !.paid = @ + EstimateCost[c.model][tokens],
                  !.best = c.model, !.usage = tokens, !.conf = conf,
                  !.top = IF conf > @ THEN conf ELSE @]

\* Mutant: the tokens are those of the first response.
Taken_tokens(c, resp, tokens) ==
    LET conf == decided_confidence(resp, c.esc)
        take == conf > c.conf \/ ~should_escalate(resp, c.threshold, c.esc)
    IN  [c EXCEPT !.model = NoModel, !.todo = {}, !.used = c.model,
                  !.paid = @ + EstimateCost[c.model][tokens],
                  !.best = IF take THEN c.model ELSE @,
                  !.usage = IF c.paid = 0 THEN tokens ELSE @,
                  !.conf = IF take THEN conf ELSE @,
                  !.top = IF conf > @ THEN conf ELSE @]

\* The locals after an answer: best_response is replaced by a more confident
\* response and by the one that ends the loop.
Taken(c, resp, tokens) ==
    LET conf == decided_confidence(resp, c.esc)
        take == conf > c.conf \/ ~should_escalate(resp, c.threshold, c.esc)
    IN  [c EXCEPT !.model = NoModel, !.todo = {}, !.used = c.model,
                  !.paid = @ + EstimateCost[c.model][tokens],
                  !.best = IF take THEN c.model ELSE @,
                  !.usage = IF take THEN tokens ELSE @,
                  !.conf = IF take THEN conf ELSE @,
                  !.top = IF conf > @ THEN conf ELSE @]

\* The provider answers.  Accept the response, or climb one tier if there is
\* one and the tenant's level allows it, else stop with the best so far.
CallSucceeds(r, resp, tokens) ==
    LET c   == ctx[r]
        esc == should_escalate(resp, c.threshold, c.esc)
    IN  /\ pc[r] = "calling"
        /\ \/ (~esc \/ NextTiers(c) = {}) /\ Stop(r, Taken(c, resp, tokens))
           \/ esc /\ \E t \in NextTiers(c) : Continue(r, Taken(c, resp, tokens), t, c.esc + 1, 0)
        /\ UNCHANGED <<spend, level, queued, rotation>>

\* The provider fails or times out: the next model in rotation, else the next
\* tier, else out of the loop.
CallFails(r) ==
    LET c      == ctx[r]
        target == TargetModel(c, c.esc)
        up     == c.todo \cap rotation
        after(m) == {n \in c.todo \ {m} : TriedBefore(c.tier, target, m, n)}
    IN  /\ pc[r] = "calling"
        /\ \/ /\ \E m \in FirstOf(c.tier, target, up) :
                    ctx' = [ctx EXCEPT ![r] = [c EXCEPT !.model = m, !.todo = after(m)]]
              /\ UNCHANGED <<pc, seen>>
           \/ up = {} /\ Continue(r, c, c.tier, c.esc, 1)
        /\ UNCHANGED <<spend, level, queued, rotation>>

\* cost_usd: the rate of model_used, the last model that answered, on the tokens of
\* best_response, which another model may have given.
Charge(c) == EstimateCost[c.used][c.usage]

\* INCRBYFLOAT of the cost; 200.
Record(r) ==
    /\ pc[r] = "recording"
    /\ spend' = [spend EXCEPT ![ctx[r].tenant] = @ + Charge(ctx[r])]
    /\ Close(r)
    /\ UNCHANGED <<level, queued, rotation>>

\* A Redis command raises: nothing catches it, the handler answers 500.
StoreFails(r) ==
    /\ pc[r] \in {"reading", "queuing", "counting", "recording"}
    /\ Close(r)
    /\ UNCHANGED <<spend, level, queued, rotation>>

\* The UTC date changes: today's cost keys do not exist yet.
Midnight ==
    /\ spend' = [t \in Tenant |-> 0]
    /\ UNCHANGED <<pc, seen, ctx, level, queued, rotation>>

\* The health manager takes a model out of rotation or puts it back.
Rotate(m) ==
    /\ rotation' = IF m \in rotation THEN rotation \ {m} ELSE rotation \cup {m}
    /\ UNCHANGED <<pc, seen, ctx, spend, level, queued>>

\* The process restarts: Redis keeps spend and queues, the rest starts afresh.
Restart ==
    /\ pc' = [r \in Request |-> "idle"]
    /\ seen' = [r \in Request |-> 0]
    /\ ctx' = [r \in Request |-> Blank]
    /\ level' = [t \in Tenant |-> FULL_SERVICE]
    /\ rotation' = Model
    /\ UNCHANGED <<spend, queued>>

\* The steps of the handler that serves slot r.
Handle(r) ==
    \/ Admit(r) \/ Enqueue(r) \/ Route(r) \/ Record(r)
    \/ CallFails(r)
    \/ \E resp \in Answer, tokens \in Usage : CallSucceeds(r, resp, tokens)

Next ==
    \/ \E r \in Request, t \in Tenant, want \in Tier, pin \in Pin, th \in Threshold :
            Arrive(r, t, want, pin, th)
    \/ \E r \in Request : Handle(r) \/ StoreFails(r)
    \/ \E m \in Model : Rotate(m)
    \/ Midnight
    \/ Restart

\* Redis and the providers answer, fail or time out (httpx and boto3 have
\* timeouts), so a started handler always goes on; and days pass.
Fairness == WF_vars(Midnight) /\ \A r \in Request : WF_vars(Handle(r))

Spec == Init /\ [][Next]_vars
FairSpec == Spec /\ Fairness
-----------------------------------------------------------------------------
\* Types; also, a handler that calls has a model, and one that records a cost
\* has a model to price it with.
TypeOK ==
    /\ pc \in [Request -> PC]
    /\ seen \in [Request -> Nat]
    /\ ctx \in [Request -> Context]
    /\ spend \in [Tenant -> Nat]
    /\ level \in [Tenant -> Level]
    /\ queued \in [Tenant -> Nat]
    /\ rotation \subseteq Model
    /\ \A r \in Request :
        /\ pc[r] = "calling" => ctx[r].model \in Model
        /\ pc[r] = "recording" => ctx[r].best # NoModel
        /\ ctx[r].best # NoModel => ctx[r].used \in Model

\* The requests of a tenant that may still add to its spend: those that read a
\* spend below the 95% mark and those past admission.
Committed(t) ==
    {r \in Request :
        /\ ctx[r].tenant = t
        /\ \/ pc[r] = "reading" /\ ~AtLeast(seen[r], 95)
           \/ pc[r] \in {"counting", "calling", "recording"}}

\* Admission is check-then-act: complete() reads the spend (main.py:411) and
\* adds to it only after the provider answered (main.py:557).  The daily limit
\* can therefore be passed, but never by more than one call for each concurrent
\* connection, and what is passed already counts against those still running.
OvershootBounded ==
    Limit > 0 =>
        \A t \in Tenant : AtLeast(spend[t], 95) =>
            spend[t] * 100 + 100 * (MaxPrice * Cardinality(Committed(t)))
                < 95 * Limit + 100 * (MaxPrice * Cardinality(Request))

\* Every provider call, fallbacks included, is started on a tier that the tenant's level allows
\* at that moment, also after a climb past tiers without a healthy model, with two exceptions.
\* The level is not asked again when a model fails and the next one of the same tier is called
\* (main.py:711-748); and cap_tier lets the first tier of a request pass whose tenant fell to
\* level 3 or 4 while the request waited for increment_requests (main.py:437-443).
CallsAllowedTiers ==
    [][\A r \in Request :
        (pc'[r] = "calling" /\ (pc[r] # "calling" \/ ctx'[r] # ctx[r]))
        => LET t == ctx[r].tenant
           IN  \/ is_tier_allowed(t, ctx'[r].tier)
               \/ pc[r] = "calling" /\ ctx'[r].tier = ctx[r].tier /\ ctx'[r].model \in ctx[r].todo
               \/ pc[r] = "counting" /\ should_reject_llm(level[t])]_vars

\* A response below the caller's threshold is settled for only when climbing is
\* over: no escalation left, top of the path, or the next tier not allowed now.
\* Covers both exits of the loop, the low-confidence one and the one where
\* every model of a tier failed (main.py:486-523).
SettlesOnlyWhenStuck ==
    [][\A r \in Request :
        (/\ pc[r] = "calling" /\ pc'[r] = "recording" /\ EscEnabled
         /\ ctx'[r].conf < ctx[r].threshold)
        => \/ ctx'[r].esc >= MaxEsc
           \/ \A u \in get_next_tier(ctx'[r].tier) : ~is_tier_allowed(ctx[r].tenant, u)]_vars

\* Every request is answered: fallback within a tier and escalation between
\* tiers end (the while loop of main.py:467).
HandlersFinish == \A r \in Request : pc[r] # "idle" ~> pc[r] = "idle"

\* DESIGN.md:194-195: without escalations remaining, "Return best response so far".
BestReturned == \A r \in Request : pc[r] = "recording" => ctx[r].conf >= ctx[r].top

\* A response less confident than an earlier one is returned only by the request that has used
\* up its escalations: check() then no longer asks for more, and the last response is taken
\* whatever it is (main.py:504-512).  On every other way out of the loop the best one is returned.
BestBeforeLast ==
    \A r \in Request : pc[r] = "recording" => ctx[r].conf >= ctx[r].top \/ ctx[r].esc >= MaxEsc

\* One response is charged, through any fallback and escalation.  The charge is no more than what
\* the calls that answered cost, unless it takes the rate of one model for the tokens of another
\* (main.py:548-554, where requirements/llm-gateway.md:479 charges a response at the rate of its own
\* model); and it is exactly that cost when the first tier's answer was returned.
ChargeWasPaid ==
    \A r \in Request : pc[r] = "recording" =>
        /\ ctx[r].used = ctx[r].best => Charge(ctx[r]) <= ctx[r].paid
        /\ ctx[r].esc = 0 => Charge(ctx[r]) = ctx[r].paid
=============================================================================
