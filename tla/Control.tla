------------------------------- MODULE Control -------------------------------
(***************************************************************************)
(* What steers the LLM gateway's completion handler: the routing file and  *)
(* its watcher, the route resolver, health checks, canary experiments and  *)
(* the admin API.                                                          *)
(*                                                                         *)
(* The process serves two FastAPI apps, agent and admin, and main() runs   *)
(* the lifespan once for each: every object below exists twice, and the    *)
(* two sets share nothing but the file.  Requests run in one event loop;   *)
(* each app's file watcher is a thread of its own, so a load interleaves   *)
(* with everything else, one component's update at a time.                 *)
(*                                                                         *)
(* ModelConfig objects carry the flags healthy and enabled.  Each load     *)
(* makes one for every entry of a tier, so a configuration is an object    *)
(* with the flags of its entries <<tier, model>>, known by its number.     *)
(* The rest of a completion is in Gateway.                                 *)
(***************************************************************************)
EXTENDS Degradation, Escalation, FiniteSets

CONSTANTS
    Model,
    Content,        \* well-formed contents of the routing file
    First,          \* the content at startup
    Tiers,          \* [Content -> Seq(Tier)]: the tiers in the order of the file
    TierModels,     \* [Content -> [Tier -> SUBSET Model]]
    CanaryOf,       \* [Content -> Model or NoModel]: the model of the task's experiment
    RouteOf,        \* [Content -> [tenant, agent, task]]: the routes of the task
    NoModel,
    Threshold,      \* unhealthy_threshold
    MaxEvents       \* bound on writes of the file and admin requests together

ASSUME ControlAssumption ==
    /\ First \in Content
    /\ NoModel \notin Model
    /\ {"empty", "broken"} \cap Content = {}
    /\ Tiers \in [Content -> Seq(Tier)]
    /\ TierModels \in [Content -> [Tier -> SUBSET Model]]
    /\ Path \in Seq(Tier)
    /\ CanaryOf \in [Content -> Model \cup {NoModel}]
    /\ Threshold \in Nat \ {0} /\ MaxEvents \in Nat

App == {"agent", "admin"}
NoExperiment == [model |-> NoModel, sample |-> <<>>, moved |-> FALSE]
NoLoad == [at |-> "idle", kind |-> "none", content |-> First, config |-> 0, again |-> FALSE]
NoRequest == [at |-> "idle", tier |-> "mid", esc |-> 0, pin |-> NoModel, canary |-> FALSE, exp |-> NoModel,
              config |-> 0, todo |-> {}, model |-> NoModel, how |-> "first", best |-> NoModel]

VARIABLES
    file,       \* content of routing.yaml; "empty" after a truncation
    events,     \* writes and admin requests so far
    notified,   \* [App -> BOOLEAN]: the watcher has a notification to handle
    recent,     \* [App -> BOOLEAN]: the last load is less than a second old
    configs,    \* [App -> Seq of configurations]
    config,     \* [App -> number]: ConfigLoader._config
    resolver,   \* [App -> number]: RouteResolver._config
    checked,    \* [App -> number]: the configuration whose models health checks flag
    health,     \* [App -> [tracked models -> healthy, consecutive_failures]]
    exp,        \* [App -> the task's canary experiment]
    watcher,    \* [App -> load of the watcher thread]
    api,        \* load of the admin request being served
    req,        \* a completion request at the agent app
    renewed,    \* [App -> unhealthy models whose flag does not say so: their object came with
                \*  a load, or the object that was flagged is not the resolver's]
    skipped,    \* [App -> BOOLEAN]: a notification has been ignored since the last load
    updated,    \* [App -> BOOLEAN]: the configuration comes from the admin API, not the file
    crossed,    \* [App -> BOOLEAN]: two loads overlapped
    disabled    \* models that the admin API has disabled and no load has renewed since

loadVars == <<file, events, notified, recent, configs, config, watcher, api, skipped, updated, crossed>>
healthVars == <<checked, health, renewed, disabled>>
vars == <<loadVars, resolver, healthVars, exp, req>>

\* The places of the file's tiers that list a model, and the last such tier: HealthManager
\* goes through the tiers in order and keeps the last entry that it finds.
Listed(c, m) == {i \in DOMAIN Tiers[c] : m \in TierModels[c][Tiers[c][i]]}
FirstTier(c, m) == Tiers[c][CHOOSE i \in Listed(c, m) : \A j \in Listed(c, m) : i <= j]
LastTier(c, m) == Tiers[c][CHOOSE i \in Listed(c, m) : \A j \in Listed(c, m) : j <= i]

Entries(c) == IF c \in Content THEN {e \in Tier \X Model : \E i \in Listed(c, e[2]) : e[1] = Tiers[c][i]} ELSE {}
ModelsOf(c) == {e[2] : e \in Entries(c)}
Entry(c, m) == <<LastTier(c, m), m>>
Fresh(c) == [content |-> c, down |-> {}, off |-> {}]
ExperimentOf(c) == IF c \in Content /\ CanaryOf[c] # NoModel THEN [NoExperiment EXCEPT !.model = CanaryOf[c]] ELSE NoExperiment
Track(old, c) == [m \in ModelsOf(c) |-> IF m \in DOMAIN old THEN old[m] ELSE [healthy |-> TRUE, fails |-> 0]]

\* Models with a provider adapter: the registry is filled at startup only.
Registered == ModelsOf(First)

Init ==
    /\ file = First /\ events = 0
    /\ notified = [a \in App |-> FALSE] /\ recent = [a \in App |-> TRUE]
    /\ configs = [a \in App |-> <<Fresh(First)>>]
    /\ config = [a \in App |-> 1] /\ resolver = [a \in App |-> 1] /\ checked = [a \in App |-> 1]
    /\ health = [a \in App |-> Track(<<>>, First)]
    /\ exp = [a \in App |-> ExperimentOf(First)]
    /\ watcher = [a \in App |-> NoLoad] /\ api = NoLoad
    /\ req = NoRequest
    /\ renewed = [a \in App |-> {}]
    /\ skipped = [a \in App |-> FALSE] /\ updated = [a \in App |-> FALSE] /\ crossed = [a \in App |-> FALSE]
    /\ disabled = {}

\* get_models_for_tier and the flags that the handler reads.
InRotation(a) == LET c == configs[a][resolver[a]] IN Entries(c.content) \ (c.down \cup c.off)
Offered(a, t) == {m \in Model : <<t, m>> \in InRotation(a)}
-----------------------------------------------------------------------------
(* The file and the loads *)

\* Somebody writes the file, or truncates it before writing.
WriteFile(c) ==
    /\ events < MaxEvents /\ c # file
    /\ file' = c /\ events' = events + 1
    /\ notified' = [a \in App |-> TRUE]
    /\ UNCHANGED <<recent, configs, config, watcher, api, skipped, updated, crossed, resolver, healthVars, exp, req>>

\* A second passes after a load.
SecondPasses(a) ==
    /\ recent[a]
    /\ recent' = [recent EXCEPT ![a] = FALSE]
    /\ UNCHANGED <<file, events, notified, configs, config, watcher, api, skipped, updated, crossed, resolver, healthVars, exp, req>>

\* Mutant: a notification that arrives during a load is dropped.
on_file_changed_busy(a) ==
    /\ notified[a]
    /\ notified' = [notified EXCEPT ![a] = FALSE]
    /\ IF recent[a] /\ watcher[a].at = "idle"
       THEN skipped' = [skipped EXCEPT ![a] = TRUE] /\ UNCHANGED watcher
       ELSE /\ watcher' = [watcher EXCEPT ![a] = IF @.at = "idle" THEN [NoLoad EXCEPT !.at = "reading", !.kind = "watch"] ELSE @]
            /\ UNCHANGED skipped
    /\ UNCHANGED <<file, events, recent, configs, config, api, updated, crossed, resolver, healthVars, exp, req>>

\* _on_file_changed: a change within a second of the last load is ignored, for good.
on_file_changed(a) ==
    /\ notified[a] /\ watcher[a].at = "idle"
    /\ notified' = [notified EXCEPT ![a] = FALSE]
    /\ IF recent[a]
       THEN skipped' = [skipped EXCEPT ![a] = TRUE] /\ UNCHANGED <<watcher, crossed>>
       ELSE /\ watcher' = [watcher EXCEPT ![a] = [NoLoad EXCEPT !.at = "reading", !.kind = "watch"]]
            /\ crossed' = [crossed EXCEPT ![a] = @ \/ (a = "admin" /\ api.at # "idle")]
            /\ UNCHANGED skipped
    /\ UNCHANGED <<file, events, recent, configs, config, api, updated, resolver, healthVars, exp, req>>

\* POST /admin/reload and POST /admin/routing, which runs as one piece of the event loop.
StartLoad(kind) ==
    /\ api.at = "idle" /\ events < MaxEvents
    /\ api' = [NoLoad EXCEPT !.at = "reading", !.kind = kind]
    /\ events' = events + 1
    /\ crossed' = [crossed EXCEPT !["admin"] = @ \/ watcher["admin"].at # "idle"]
    /\ UNCHANGED <<file, notified, recent, configs, config, watcher, skipped, updated, resolver, healthVars, exp, req>>

reload_config == StartLoad("reload")
update_routing == StartLoad("update")

\* Loader p of app a, and its next state.
LoaderOf(a, p) == IF p = "watcher" THEN watcher[a] ELSE api
Loader(a, p, l) ==
    IF p = "watcher" THEN watcher' = [watcher EXCEPT ![a] = l] /\ UNCHANGED api
                     ELSE api' = l /\ UNCHANGED watcher

\* read_text and parsing.  What cannot be parsed ends a watch or an update; a reload then
\* goes on with the configuration in force.
Read(a, p) ==
    LET l == LoaderOf(a, p)
    IN  /\ l.at = "reading"
        /\ \/ /\ file # "broken"
              /\ Loader(a, p, [l EXCEPT !.at = "swapping", !.content = file])
           \/ /\ file = "broken" /\ l.kind # "reload"
              /\ Loader(a, p, NoLoad)
           \/ /\ file = "broken" /\ l.kind = "reload"
              /\ Loader(a, p, [l EXCEPT !.at = "resolver", !.config = config[a], !.again = TRUE])
        /\ UNCHANGED <<file, events, notified, recent, configs, config, skipped, updated, crossed, resolver, healthVars, exp, req>>

\* The new configuration takes the place of the old one in the loader.
Swap(a, p) ==
    LET l == LoaderOf(a, p)
    IN  /\ l.at = "swapping"
        /\ configs' = [configs EXCEPT ![a] = Append(@, Fresh(l.content))]
        /\ config' = [config EXCEPT ![a] = Len(configs[a]) + 1]
        /\ recent' = [recent EXCEPT ![a] = TRUE]
        /\ skipped' = [skipped EXCEPT ![a] = @ /\ l.content # file]
        /\ updated' = [updated EXCEPT ![a] = l.kind = "update"]
        /\ Loader(a, p, [l EXCEPT !.at = "resolver", !.config = Len(configs[a]) + 1])
        /\ UNCHANGED <<file, events, notified, crossed, resolver, healthVars, exp, req>>

\* Configurations that nobody holds any more are forgotten.
Forget(a, held) ==
    configs' = [configs EXCEPT ![a] = [i \in DOMAIN @ |->
        IF i \in held \cup {config[a], req.config, watcher[a].config, api.config} THEN @[i] ELSE Fresh("empty")]]

\* The unhealthy models that the flags of configuration n would offer.
Missed(a, n) ==
    LET c == configs[a][n]
    IN  {m \in DOMAIN health[a] \cap ModelsOf(c.content) :
            ~health[a][m].healthy /\ Entry(c.content, m) \notin c.down \cup c.off}

\* resolver.update_config; models that are unhealthy are offered again.
UpdateResolver(a, p) ==
    LET l == LoaderOf(a, p)
    IN  /\ l.at = "resolver"
        /\ resolver' = [resolver EXCEPT ![a] = l.config]
        /\ renewed' = [renewed EXCEPT ![a] = @ \cup Missed(a, l.config)]
        /\ disabled' = IF a = "agent" THEN {} ELSE disabled
        /\ Loader(a, p, IF l.kind = "update" /\ l.again THEN NoLoad ELSE [l EXCEPT !.at = "canary"])
        /\ UNCHANGED <<file, events, notified, recent, configs, config, skipped, updated, crossed,
                       checked, health, exp, req>>

\* CanaryManager.update_from_config: an experiment that is not in the file ends; one that is
\* keeps its samples under the new model.
UpdateCanary(a, p) ==
    LET l == LoaderOf(a, p)
        new == ExperimentOf(configs[a][l.config].content)
        old == exp[a]
    IN  /\ l.at = "canary"
        /\ exp' = [exp EXCEPT ![a] =
                     IF new.model = NoModel \/ old.model = NoModel THEN new
                     ELSE [old EXCEPT !.model = new.model, !.moved = old.moved \/ old.model # new.model]]
        /\ Loader(a, p, [l EXCEPT !.at = "health"])
        /\ UNCHANGED <<file, events, notified, recent, configs, config, skipped, updated, crossed, resolver, healthVars, req>>

\* HealthManager.update_from_config: states of known models are kept and flag the new
\* objects from now on.  The admin handlers then update their components once more.
UpdateHealth(a, p) ==
    LET l == LoaderOf(a, p)
    IN  /\ l.at = "health"
        /\ checked' = [checked EXCEPT ![a] = l.config]
        /\ health' = [health EXCEPT ![a] = Track(@, configs[a][l.config].content)]
        /\ renewed' = [renewed EXCEPT ![a] = @ \cap DOMAIN health'[a]]
        /\ Forget(a, {resolver[a], checked'[a]})
        /\ Loader(a, p, IF l.kind = "watch" \/ l.again THEN NoLoad ELSE [l EXCEPT !.at = "resolver", !.again = TRUE])
        /\ UNCHANGED <<file, events, notified, recent, config, skipped, updated, crossed, resolver, disabled, exp, req>>

LoadStep(a, p) ==
    /\ p = "api" => a = "admin"
    /\ Read(a, p) \/ Swap(a, p) \/ UpdateResolver(a, p) \/ UpdateCanary(a, p) \/ UpdateHealth(a, p)
-----------------------------------------------------------------------------
(* Health checks *)

\* Checks and requests need the event loop, which an admin request holds to its end.
LoopFree == api.at = "idle"

\* Mutant: a model that was taken out stays out.
Passed_keeps(s) == [s EXCEPT !.healthy = s.fails < Threshold]

\* The state of a model after a check.
Passed(s) == [healthy |-> TRUE, fails |-> 0]
Failed(s) == [healthy |-> s.healthy /\ s.fails + 1 < Threshold,
              fails |-> IF s.fails < Threshold THEN s.fails + 1 ELSE Threshold]

\* Mutant: only the manager's own state is changed.
Flagged_not(d, e, before, after) == d

\* The flag healthy of the object that the manager holds changes together with its own state.
Flagged(d, e, before, after) ==
    CASE after.healthy /\ ~before.healthy -> d \ {e}
      [] ~after.healthy /\ before.healthy -> d \cup {e}
      [] OTHER -> d

\* A model goes unhealthy: the object that is flagged may be another than the resolver's.
Missing(a, m) == IF resolver[a] = checked[a] THEN {} ELSE {m}

\* _check_single_model has a result, or the timeout, for a model that is tracked by then;
\* the rounds in which checks are started are left out.
FinishCheck(a, m, after) ==
    LET n == checked[a]
        e == Entry(configs[a][n].content, m)
    IN  /\ LoopFree
        /\ health' = [health EXCEPT ![a][m] = after]
        /\ configs' = [configs EXCEPT ![a][n].down = Flagged(@, e, health[a][m], after)]
        /\ renewed' = [renewed EXCEPT ![a] = IF after.healthy THEN @ \ {m}
                                            ELSE IF health[a][m].healthy THEN @ \cup Missing(a, m) ELSE @]
        /\ UNCHANGED <<file, events, notified, recent, config, watcher, api, skipped, updated, crossed,
                       resolver, checked, disabled, exp, req>>

CheckPasses(a, m) == m \in DOMAIN health[a] \cap Registered /\ FinishCheck(a, m, Passed(health[a][m]))
CheckFails(a, m) == m \in DOMAIN health[a] \cap Registered /\ FinishCheck(a, m, Failed(health[a][m]))
Check(a, m) == CheckPasses(a, m) \/ CheckFails(a, m)

\* POST /admin/models/{id}/disable, in the admin app's objects.
disable_model(m) ==
    LET n == checked["admin"]
        e == Entry(configs["admin"][n].content, m)
    IN  /\ LoopFree /\ events < MaxEvents /\ m \in DOMAIN health["admin"]
        /\ events' = events + 1
        /\ configs' = [configs EXCEPT !["admin"][n].off = @ \cup {e}]
        /\ health' = [health EXCEPT !["admin"][m].healthy = FALSE]
        /\ disabled' = disabled \cup {m}
        /\ renewed' = [renewed EXCEPT !["admin"] = IF health["admin"][m].healthy THEN @ \cup Missing("admin", m) ELSE @]
        /\ UNCHANGED <<file, notified, recent, config, watcher, api, skipped, updated, crossed,
                       resolver, checked, exp, req>>
-----------------------------------------------------------------------------
(* Canary experiments of the admin app *)

Admin == LoopFree /\ events < MaxEvents /\ events' = events + 1
KeepAllButCalls ==
    UNCHANGED <<file, notified, recent, configs, config, watcher, api, skipped, updated, crossed, resolver, healthVars, req>>

\* POST /admin/canary/{task}/set.
set_canary(m) ==
    /\ Admin
    /\ exp' = [exp EXCEPT !["admin"] = [NoExperiment EXCEPT !.model = m]]
    /\ KeepAllButCalls

\* POST /admin/canary/{task}/promote and /rollback: both remove the experiment.
EndCanary == Admin /\ exp["admin"].model # NoModel /\ exp' = [exp EXCEPT !["admin"] = NoExperiment] /\ KeepAllButCalls
promote_canary == EndCanary
rollback_canary == EndCanary
-----------------------------------------------------------------------------
(* A completion request at the agent app *)

KeepControl == UNCHANGED <<loadVars, resolver, healthVars>>

\* _interpret_route_value: a tier, or a model with its first tier; mid for an unknown model.
Interpret(c, v) ==
    IF v.model = NoModel THEN [tier |-> v.tier, model |-> NoModel]
    ELSE IF Listed(c, v.model) = {} THEN [tier |-> "mid", model |-> NoModel]
    ELSE [tier |-> FirstTier(c, v.model), model |-> v.model]

\* resolve: tenant, agent, task, and mid for a task without a route.
resolve(c) ==
    IF c \notin Content THEN [tier |-> "mid", model |-> NoModel]
    ELSE LET set == {l \in DOMAIN RouteOf[c] : RouteOf[c][l] # <<>>}
         IN  IF "tenant" \in set THEN Interpret(c, RouteOf[c]["tenant"][1])
             ELSE IF "agent" \in set THEN Interpret(c, RouteOf[c]["agent"][1])
             ELSE IF "task" \in set THEN [tier |-> RouteOf[c]["task"][1].tier, model |-> NoModel]
             ELSE [tier |-> "mid", model |-> NoModel]

\* The handler resolves the route, caps the tier with the tenant's level (Gateway keeps the
\* levels; here it may be any) and rolls the dice for the canary.
Resolve ==
    /\ LoopFree /\ req.at = "idle"
    /\ LET r == resolve(configs["agent"][resolver["agent"]].content)
       IN  \E use \in BOOLEAN, l \in Level :
             /\ use => exp["agent"].model # NoModel
             /\ req' = [NoRequest EXCEPT !.at = "routed", !.tier = cap_tier(l, r.tier), !.canary = use,
                           !.exp = IF use THEN exp["agent"].model ELSE NoModel,
                           !.pin = IF cap_tier(l, r.tier) = r.tier THEN r.model ELSE NoModel]
    /\ KeepControl /\ UNCHANGED exp

\* target_model_id: a route that names a model comes before the canary, in the first tier.
Target(r) == IF r.pin # NoModel /\ r.esc = 0 THEN r.pin ELSE IF r.canary THEN r.exp ELSE NoModel

\* Mutant: the target is tried last.
Candidates_last(r, todo) == IF todo \ {Target(r)} # {} THEN todo \ {Target(r)} ELSE todo

\* The next model to try: the target before the others.
Candidates(r, todo) == IF Target(r) \in todo THEN {Target(r)} ELSE todo

\* _try_tier_models: the models of the list that are still in rotation and have an adapter.
Usable(r, todo) ==
    LET c == configs["agent"][r.config]
    IN  {m \in todo : <<r.tier, m>> \notin c.down \cup c.off} \cap Registered

\* The loop goes on with the next tier, or ends with the best response or 503.  That the tenant's
\* level forbids the next tier, or that no more is asked, may end it anywhere.
Settle(r, at, tier, esc) ==
    [r EXCEPT !.at = at, !.tier = tier, !.esc = esc, !.config = 0, !.todo = {}, !.model = NoModel]
Climbs(r) == {Settle(r, "routed", t, r.esc + 1) : t \in {u \in get_next_tier(r.tier) : MayEscalate(r.esc)}}
Leave(r) == IF r.best = NoModel THEN NoRequest ELSE Settle(r, "recording", "mid", r.esc)

Try(r, todo, how) ==
    IF Usable(r, todo) = {} THEN req' \in Climbs(r) \cup {Leave(r)}
    ELSE \E m \in Candidates(r, Usable(r, todo)) :
            req' = [r EXCEPT !.at = "calling", !.model = m, !.todo = todo \ {m},
                        !.how = IF how = "first" /\ Target(r) \in Usable(r, todo) THEN "first" ELSE "fallback"]

\* The tier's models as the resolver has them now; the first of them is called.
PickModel ==
    /\ LoopFree /\ req.at = "routed"
    /\ LET r == [req EXCEPT !.config = resolver["agent"]]
       IN  Try(r, Offered("agent", req.tier), "first")
    /\ KeepControl /\ UNCHANGED exp

\* The provider fails and the next model of the list is tried.
CallFails ==
    /\ LoopFree /\ req.at = "calling"
    /\ Try(req, req.todo, "fallback")
    /\ KeepControl /\ UNCHANGED exp

\* The provider answers.  The response may become the best so far; the loop climbs or ends.
CallAnswers ==
    /\ LoopFree /\ req.at = "calling"
    /\ \E best \in {req.best, req.model} :
          LET r == [req EXCEPT !.best = best] IN req' \in Climbs(r) \cup {Leave(r)}
    /\ KeepControl /\ UNCHANGED exp

\* How the response that is returned came about, for the experiment there is by now.
HowServed(r) ==
    CASE exp["agent"].model # r.exp           -> "moved"
      [] r.pin # NoModel                      -> "pinned"
      [] r.esc > 0                            -> "escalated"
      [] OTHER                                -> r.how

\* record_cost returns, or raises and the handler answers 500.  A canary request leaves a
\* sample with the experiment there is now.
RecordResult ==
    /\ LoopFree /\ req.at = "recording"
    /\ req' = NoRequest
    /\ \/ UNCHANGED exp
       \/ /\ req.canary /\ exp["agent"].model # NoModel
          /\ exp' = [exp EXCEPT !["agent"].sample = <<[model |-> req.best, how |-> HowServed(req)]>>]
    /\ KeepControl

RequestStep == Resolve \/ PickModel \/ CallFails \/ CallAnswers \/ RecordResult
-----------------------------------------------------------------------------
\* What one app does besides completions; the admin requests belong to the admin app.
Steering(a) ==
    \/ SecondPasses(a) \/ on_file_changed(a)
    \/ \E p \in {"watcher", "api"} : LoadStep(a, p)
    \/ \E m \in Model : Check(a, m)
    \/ a = "admin" /\ (reload_config \/ update_routing \/ promote_canary \/ rollback_canary)
    \/ a = "admin" /\ \E m \in Model : disable_model(m) \/ set_canary(m)

World == \E c \in Content \cup {"empty", "broken"} : WriteFile(c)

Next == World \/ (\E a \in App : Steering(a)) \/ RequestStep

ControlSpec == Init /\ [][Next]_vars
-----------------------------------------------------------------------------
Quiet(a) == ~notified[a] /\ watcher[a].at = "idle" /\ (a = "admin" => api.at = "idle")

\* health.py:21, "Unhealthy models are removed from rotation": of a model that has failed the
\* threshold of checks, the entry that the health manager holds is offered only if a load has
\* renewed it since (for the state that removed it stays unhealthy, and no later failure removes
\* the model again), or if another object than the resolver's was flagged during a load.  The
\* entries of earlier tiers are never removed (health.py:48-58).
UnhealthyOut ==
    \A a \in App : LET c == configs[a][resolver[a]].content
                   IN  \A m \in DOMAIN health[a] \cap ModelsOf(c) :
                          health[a][m].fails >= Threshold /\ Entry(c, m) \in InRotation(a) => m \in renewed[a]

\* The configuration in force is that of the file once the watcher has nothing to do, except
\* after a routing update, for a file that cannot be parsed, and when the last change came
\* within a second of a load: then the change (after a truncation, all of the file) is ignored.
FileInForce ==
    \A a \in App : Quiet(a) /\ ~skipped[a] /\ ~updated[a] /\ ~crossed[a] /\ file # "broken" =>
        configs[a][config[a]].content = file

\* The samples by which a canary is judged (the last of them is kept here): one that is not
\* marked as escalated was answered by the canary's model, unless that was not in the tier, out of
\* rotation or failed, a route named another model, the experiment changed while the request was
\* under way, or a load gave the experiment another model.
SamplesFit ==
    \A a \in App : ~exp[a].moved /\ exp[a].sample # <<>> /\ exp[a].sample[1].how = "first" => exp[a].sample[1].model = exp[a].model

\* health.py:22, "and re-added when healthy": the entry that the health manager holds of a model
\* whose checks stop failing is in rotation for good, if it is configured, has an adapter and is
\* not disabled, and no two loads have crossed (which may leave the manager with other objects
\* than the resolver).
HealthyReturns ==
    \A a \in App : \A m \in Registered :
        <>[][~CheckFails(a, m)]_vars =>
            <>[](LET c == configs[a][resolver[a]]
                 IN  m \in ModelsOf(c.content) => Entry(c.content, m) \in InRotation(a) \cup c.off \/ crossed[a])

\* admin/routes.py, disable_model: "Temporarily disable a model (remove from rotation)".
DisabledLeavesRotation == \A e \in InRotation("agent") : e[2] \notin disabled
=============================================================================
