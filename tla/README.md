# TLA+ models of the on-premises compliance AI platform

The repository is a set of Python services for compliance work: agents evaluate
controls against uploaded evidence, a chat assistant talks to users and calls
tools, a gateway routes every LLM call under a per-tenant budget, and an observer
tunes the gateway from its logs. Every service is one FastAPI process on one
asyncio event loop. Code between two `await`s runs without interruption, and
anything may happen at an `await`. All modules here therefore use the same grain:
**an action is the code from one await to the next**; a crash, another request or
another job may come between two actions.

Paths below are relative to `src/`.

## Inventory

| Component | State | Operations | Talks to | What is hard |
|---|---|---|---|---|
| LLM gateway: completion (`llm-gateway/src/main.py`, `budget/`, `escalation.py`) | spend per tenant and day (Redis), degradation level, request queue, models in rotation | `POST /v1/complete`: budget check, routing, fallback, escalation, record cost | Redis, providers | check-then-act on the spend, a level that changes during a request, a loop over tiers and models with failures in between |
| LLM gateway: control (`routing/`, `health.py`, `admin/`) | routing table, canary experiments, health counters, each twice (one copy per app) | hot reload, admin routes, health probes | file system, providers | debounced reloads, loads that overlap, results recorded for an experiment that has changed, flags renewed by a load |
| Agent-eval: graph (`agent-eval/src/graph/`) | one evaluation's state | router, discovery, extractor, criteria, rules, sandbox, code fixer, judgment, scoring, formatter | storage, preprocessor, memory, gateway, sandbox | the budget ending half-way, exceptions in any node, float thresholds, the sandbox repair edges |
| Agent-eval: jobs (`agent-eval/src/jobs.py`) | tasks, results and errors in memory, status and result in a store | start, run, poll, shutdown | state store | polls between any two writes, failing writes, restarts, a full semaphore |
| Preprocessor: ingestion (`preprocessor/src/processing/pipeline.py`, `trigger/`, `idempotency.py`) | tracker in memory, `metadata.json` in storage | poll, webhook, process a file | storage, memory | two workers in one file, replaced contents, lost and repeated notifications, restarts |
| Preprocessor: policy analysis (`policy_analysis/`) | criteria sets in the memory service | parse, extract, map, generate, review | gateway, memory | partial failures along the pipeline, reviewers and runs that write back what they read; not reached today |
| Observer: quality check (`observer/src/main.py`, `diagnosis/`, `changes/`, `scheduler.py`) | cycle spend, change history, pending validations, jobs | detect, diagnose, propose, classify, apply, trigger | gateway, memory | one of several calls failing, a budget checked by estimates, triggers and restarts |
| Observer: circuit breaker (`circuit_breaker.py`) | state, trip time, rollbacks, probe | may a change be applied, rollback, success, reset | - | late reports, windows against cooldowns |
| Observer: self-regulation (`self_regulation.py`) | autonomy level and thresholds | weekly evaluation, persist, restore | memory | relative adjustments over many weeks, failed saves, restarts |
| Observer: log ingestion (`detection/log_ingestor.py`) | one offset per file | ingest | log files | three jobs on one offset, rotation, half-written lines |
| Observer: deadline checker (`deadline_checker.py`) | none | hourly scan, push events | memory | the same event every hour |
| Compliance assistant (`compliance-assistant/src/`) | sessions, pending confirmation, playbook position, user state document | init, chat, confirm, cancel, reflect | gateway, MCP server, memory | two requests of one session on one shared object, destructive tools, data-only mode |
| Memory service (`memory-service/src/`) | Redis lists and documents, database rows | events, decisions, user state, skills, tasks, facts, jobs, registry | Redis, PostgreSQL | read-modify-write without transactions, lists at their limit, row locks taken in different orders |
| Sandbox service (`sandbox-service/src/`) | semaphore, queue counter, directories, containers | execute | Docker, storage | queue limit, hand-over of a slot, cleanup after every failure, calls that block the event loop |
| Common (`common/`) | none | clients, auth, retry, logging | all services | which errors a client swallows |
| Frontend, infrastructure | - | - | - | not modelled |

The interactions: the agents and the assistant call the gateway through
`LLMClient`, which raises `LLMCreditExhaustedError` on 429 and
`LLMUnavailableError` on 5xx; the gateway's logs are files that the observer reads;
the observer changes the gateway through its admin routes; the preprocessor writes
`metadata.json` files that agent-eval reads; agent-eval, the preprocessor and the
observer push events to the memory service that the assistant drains.

What makes each component correct: the gateway must bound what a tenant spends, call
only allowed models, return the best answer it has and always answer; an evaluation
must not report compliant what was not assessed; a job must answer polls truthfully and
finally; the preprocessor must extract every content and skip only extracted ones;
the observer must keep its budget, its bounds and its breaker; the assistant must
execute a destructive tool exactly as confirmed; the memory service must lose no event
and no decision.

## Modules

| Module | Models |
|---|---|
| `Degradation`, `Escalation` | pure operators: budget levels and allowed tiers; classes of responses, confidence and the next tier |
| `Gateway` (extends both), `MCGateway` | `complete()` await by await: `reading` (get_daily_spend), `queuing`, `counting` (increment_requests), `calling` (a provider), `recording` (record_cost), plus midnight, model rotation, store failures and restart |
| `Control`, `MCControl` | the routing file and its watcher, loads handed to resolver, canary and health one after the other, health checks, the admin API, and completion requests with the escalation loop, as far as route, cap, canary, choice of a model and the recorded sample go; everything in the two copies that `main()` makes |
| `CircuitBreaker` | every method of `CircuitBreaker`, with granted changes that report back late, and hours |
| `SelfRegulation`, `Regulator` | the adjustments as operators; the weekly evaluation with saving and restoring |
| `LogIngest` | one log file with rotation and half-written lines, three readers |
| `Observer` (extends `SelfRegulation`) | the quality check from detection to applying, the self-evaluation on the change history it writes, triggers, reset, restart |
| `MCObserver` | `Observer`, `CircuitBreaker`, `Regulator` and `LogIngest` for model checking |
| `Preprocessor` | uploads, the poller and webhook requests inside `process_file`, tracker, `metadata.json`, restart |
| `Policy`, `PolicyText` | a run of the policy analysis call by call and the reviewers of its criteria; the loop that cuts a section into chunks, round by round, and the weights of a reply as operators |
| `MCPreprocessor` | the three above for model checking |
| `EvalPipeline`, `Rules`, `MCEvalPipeline` | the evaluation graph as a program counter, the tribunals included; the eight deterministic rules as operators over a growing list of evidence |
| `EvalJobs` | `JobManager` |
| `Sandbox`, `BoundedPool` | `POST /execute` from validation to cleanup; the pool of slots that it promises |
| `MCServices` | `EvalJobs` and `Sandbox` for model checking |
| `Assistant` | the requests of one session on the session object they share: init, chat with its tool loop, confirm, cancel, playbooks, data-only mode, restart |
| `EventQueue`, `Documents`, `SkillVersions` | the stores of the memory service with their users: a user's events, the decision and the user document, the versions of a skill |
| `MCAssistant`, `MCMemory` | `Assistant` and `Documents`; `EventQueue` and `SkillVersions` for model checking |
| `GatewayProofs`, `ControlProofs`, `ObserverProofs` | theorems about `Gateway`; `Control`; `Observer` |
| `ChangeControlProofs`, `PreprocessorProofs`, `EvalProofs` | theorems about `CircuitBreaker`, `LogIngest` and `Regulator`; `Preprocessor`, `Policy` and `PolicyText`; `EvalPipeline` and `Rules` |
| `JobsProofs`, `AssistantProofs` | theorems about `EvalJobs` and `Sandbox`; `Assistant`, `EventQueue`, `Documents` and `SkillVersions` |

`PROJECT.json` maps every definition to its lines. Conventions: program counters
are named after the await they stand at; names of methods are kept where a
definition is one method; definitions with a suffix that follow the comment
`Mutant:` are broken variants used to show that a property can fail, and are no
part of a specification.

**One run, several parts.** Parts that share no state (the observer's jobs, breaker,
self-regulation and log ingestion; ingestion and policy analysis; jobs and sandbox; sessions and
documents; events and skills; the two copies of the gateway's control) are checked in one model with a variable `followed`
(`store`, `focus`) that is chosen initially: a behaviour moves one part and leaves the
others in their initial state. Every behaviour of a part occurs, and an interleaving of
independent parts adds nothing that a property about one of them could tell apart. The
properties of the parts that stand still are evaluated on their initial state. Parts that
do interact are composed by their actions: `Gateway` uses `Degradation` and
`Escalation`, `Observer` evaluates itself by the history that its own changes write,
`EventQueue` holds the service's push and drain together with their clients, and
`Documents` the service's routes together with the assistant's reflection.

Abstractions worth knowing:

* Gateway: a response has a usage (short or long), and a call costs what the rates of a model
  make of a usage (`EstimateCost`); responses are classes (empty,
  refusal, bad JSON, short, unsure, good) with the confidence the engine extracts from
  them. `MetricsStore` and request counts are left out, since only reports read them.
* Control: of an experiment's samples the last is kept, since the property compares one
  sample with the experiment. A configuration has one object per model and tier; a flag is on an
  object, and the health manager holds the last one of each model. The debounce of one second is a choice whether it has passed.
* Evaluation: in the graph, what a rule, a model or the sandbox says is an input. Criteria are
  processed in any order. Weights are in hundredths; at equality a float
  comparison may go either way (weights like .1, .2, .3 really do come out below .6).
  A tribunal's replies are classes, read as `_parse_judge_response` and the text fallback
  read them. Negative confidences are left out.
* Rules: a file is its type, table, text (a sequence of words, joined in the order of the list) and
  statistics reduced to what the rules ask, or such that a rule raises on them; the number, name or phrase found in a condition is an input of the criterion.
* Preprocessor: a content stands for its hash; extraction always yields metadata,
  with or without an error in it, which is what the code does.
* Policy: a criteria set is its control, status and generation. The store of skills behind
  the client is external, since the memory service serves none of its paths.
* Jobs: the state store accepts or refuses every call. Today the memory service
  serves none of `StateClient`'s paths; that is the behaviour where all are refused.
* Sandbox: the Docker calls are synchronous, so nothing else of the process moves
  between creation and removal of a container; the semaphore is that of Python 3.12,
  which hands a slot to its first waiter. Creation of a container may raise before or after Docker
  has created it, removal and `rmtree` may fail. Cancelled requests are left out.
* Log ingestion: lines are numbered over all files. A rotated file keeps no name that matches
  `*.jsonl`, so it is not read again.
* Assistant: messages are left out, the history's only role being the text of prompts.
* Memory: a Redis command is a step, a PostgreSQL statement is a step that may wait for
  rows (READ COMMITTED). A document is the set of the changes of its fields that it holds; some
  fields are added to, the others overwritten. The working patterns in it are left out.
* External environment actions: uploads, log writing and rotation, row locks and
  deadlock detection, `asyncio.Semaphore`.

## Runs

| Run | Question and answer |
|---|---|
| `gateway_budget` | Two connections of one tenant around its daily limit, two models in the middle tier. The limit can be passed, since the spend is read before and written after the provider call, but by less than one call per connection (`OvershootBounded`); a call starts only on a tier allowed at that moment, with two exceptions: the level is not asked again when a model fails and the next of the same tier is called, and `cap_tier` lets the first tier of a request through whose tenant has dropped to level 3 or 4 since it was admitted (`CallsAllowedTiers`). |
| `gateway_loop` | One connection with all classes of answers, short and long responses, two models in a tier, a pinned and a canary model. The loop ends (`HandlersFinish`), settles for a weak answer only when it cannot climb (`SettlesOnlyWhenStuck`), returns a worse answer than an earlier one only when its escalations are used up (`BestBeforeLast`), charges no more than the calls cost unless it mixes the rate of one model with the tokens of another, and exactly the cost when it did not escalate (`ChargeWasPaid`). |
| `gateway_best` | Finding: with the escalations used up the last response is returned, not the best. |
| `gateway_control` | Three models, one of them in two tiers, two contents of the file and the empty and broken one, up to three file writes and admin requests; completions one after the other with escalation and cap. The entry that the health manager holds of a model at the threshold is offered only after a load renewed it (`UnhealthyOut`; the model's entries in earlier tiers are never removed); the file is in force once the watcher is idle, unless a change was debounced or crossed another load (`FileInForce`); a canary's sample that is not marked as escalated was answered by the canary's model, with the exceptions named there (`SamplesFit`); a model whose checks stop failing comes back (`HealthyReturns`). |
| `gateway_admin` | Finding: a model disabled through the admin API stays in rotation. |
| `observer` | Quality check with up to three issues per cycle, calls below and above the estimate, all failures. The cycle's spend is bounded (`CycleBudget`), a deferred issue is not overtaken (`DeferredAreLast`), and a diagnosis is paired with the issue of another only after a more severe issue went without one (`MispairedOnlyAfterGap`). Breaker with four changes, two rollbacks trip, window 2, cooldown 3: no close over fresh evidence (`SafeClose`), one probe per half-open period (`OneProbe`), and if it stays open for ever then nobody asks it any more or rollbacks never stop (`Recovers`). Regulator with settings close enough to the bounds that clamping happens: thresholds follow the level through failed saves and restarts (`ThresholdsFollowLevel`). Ingestion of four lines, rotations, two restarts, three readers: a line goes to a job once in each life of the process, and one that no job got was too old for a first read, torn, or unread when its file was rotated (`LinesReadOnce`). |
| `preprocessor` | Poller and one webhook request, two files (one of unknown type and outside the watch prefix), two contents and an oversized one, three uploads, one restart, each trigger mode. What is skipped was extracted (`SkipsOnlyDone`); a stale `metadata.json` is hidden by the tracker only after a failed or crossed write (`HiddenOnlyByLoss`); in the mode `poll` every content that stays is put through extraction (`ContentExtracted`; in the other modes a lost notification is lost). Two runs of the analysis sharing a control, two reviewers, two decisions: a decision undoes only what was written after it had looked (`UndoneOnlyByOverlap`). All texts of up to seven characters cut at three: the chunks keep the text (`ChunksKeepText`). All lists of up to five raw weights: they end up summing to one, within the tolerance of 5 % or half a thousandth for each (`WeightsSumToOne`). |
| `eval_pipeline` | Four criteria, two above the consensus weight, all outcomes of rules, sandbox and models, budget ending and timeout anywhere. Compliant means what it says (`CompliantIsClean`), the status fits the weights (`StatusMeansScore`), decided criteria stay decided (`SettledStays`). Every rule on every list of three files: the order changes a verdict only when two files bring statistics of which the rule takes the first, or when a keyword of several words is found over the border of two files (`SameVerdictInAnyOrder`), and a further file fails nothing that passed (`MoreEvidenceNeverFails`). |
| `jobs_and_sandbox` | Two jobs, one slot, two restarts: a poll says completed only of an evaluated job and failed with an error only of one that raised; "Job not found", which is a failed too, comes only from a process that did not run the job (`AnswersTrue`), and every job is answered (`JobAnswered`). Five executions, two slots, a queue of two, one kill: the service implements `BoundedPool` (`PoolPromise`: at most the slots inside, first come first served, refusal only by a full queue, everyone served), and outside of a slot a container or directory is left only by a kill, a removal that failed, or a creation that Docker did not report (`NothingLeftBehind`). |
| `sandbox_preamble` | Finding: every script fails in the preamble. |
| `assistant` | Three requests of one session, two in flight, two rounds of up to two calls, one restart. A confirmation is executed again only while a confirm of it is still waiting for the tool (`NoSecondLife`); a question stays confirmable until it is used, cancelled or replaced, unless requests overlapped or the service restarted (`ConfirmableUntilUsed`). Three requests on the documents: an acknowledged change of a field is there, or a request that began later has overwritten the field, or the assistant has taken it out (pending actions, preferences beyond the cap); it is lost only to a request that overlapped, wrote after a failed read or created the decision anew (`AcknowledgedKept`). |
| `memory` | Three events for a queue of one and two drains: the cap is passed only by pushes in flight together (`CapRespected`), and an acknowledged event is kept, delivered, evicted or lost in one of two known ways (`StoredEventsAccounted`). Four transactions on two versions: two active versions only after an overlapping rollback (`OneActive`), and every transaction ends (`TransactionsEnd`). |

Several properties have the form "this goes wrong only by ...". The code has no lock where
they apply, so the unconditional statement is false; what is checked is that the named
overlap is the only way there.

**The refinement.** `Sandbox` instantiates `BoundedPool` with the executions in a slot as
`inside`, the waiters as `queue` and the rejected as `refused`. Between the release of a slot and the turn
of the waiter that got it, the semaphore's counter, its waiters and the manager's
counters disagree; the mapping counts that waiter as still queued, and the property says that
no newcomer overtakes it. The abstract fairness (whoever is inside leaves, whoever waits is
served) follows from the concrete one (`Serving`).

**Bounds.** `MaxQueue` (queued requests), `MaxWeek` (changes per week), `MaxIssues`,
`MaxHuman`, `MaxPending`, `MaxLine` (lines per log file), `MaxUpload`, `MaxRestart`, `MaxKill`,
`MaxEvents` (file writes and admin requests), `MaxChunk`, `MaxObligation`, `MaxDecision`,
`MaxCriteria`, `MaxChars`, `MaxFiles`, `MaxRequests`, `MaxInFlight`, `MaxVersion` and `MaxRestarts`
cap unbounded counters in the guards and are named in the modules. They are chosen so
that every level, clamp, deferral, rotation and crossing happens: sums of the prices 0, 5, 9 and 14
reach each budget level of the limit 20, the two connections of `gateway_budget` with one usage and one escalation, the
one of `gateway_loop` with both usages and two; three uploads replace a content and bring it
back; two restarts give a log line three lives of the process, and let a job be polled by a process that never ran it, and that
process end too; five executions for two slots and a queue of two, numbered as they arrive, reach every length of the
queue with both slots taken, and a refusal, and each of them may meet the one failure per behaviour that leaves
something behind (`FewFailures`); three events (`Events`) are two writes of the file, the second
debounced, and an admin request; the copy of the admin app is followed through two and the completions
through one, which is enough for a load in the middle of a request; three requests,
two at a time, are a question, its confirmation and whatever crosses it; four transactions on
two versions allow a creation, a second one, and two that overlap. Spend needs no cap
of its own, as admission stops it.

**Fairness.** A started handler, cycle, job, execution or transaction goes on (weak fairness of its
step): every call it waits for has a timeout in `httpx`, `boto3`, the Docker client or `wait_for`, and a
statement waits only for locks.
The semaphore of jobs serves waiters
in turn (strong fairness of `Acquire`, as `asyncio.Semaphore` is first come, first
served). For the preprocessor in the mode `poll` the poller polls for ever (in the others nothing is assumed) and storage that is asked
again and again answers again and again (strong fairness of a successful listing and
download); without the latter no poll could ever read a file. Midnight comes,
hours pass, a health check that may pass recurs, clients poll. That anybody asks the breaker is not assumed:
it is a hypothesis of `Recovers`. Nothing is assumed of users, uploads, admin
requests or the policy analysis.

**Deadlock** is checked except where a bounded number of requests may be used up
(the runs of `MCControl`, `MCPreprocessor`, `MCServices` and `MCMemory`, `eval_pipeline` and `assistant`).

## Proofs

All proofs are for arbitrary constants under the named assumptions of the modules: any
number of connections, workers, files, transactions or versions, not only those of the runs.
The proofs
share a layout: one lemma per action, which first says what the action changes and then shows
each conjunct that this can disturb; a theorem puts the lemmas together.

**`GatewayProofs`**

* `TypeCorrect`: a handler that calls has a model, one that records has a model to price.
* `OvershootTheorem`: for any finite set of connections, any tenants, prices and tiers,
  `spend + MaxPrice * committed` stays below the 95 % mark plus `MaxPrice` per connection once
  the mark is passed. A step that adds a price removes its connection from the committed ones,
  and no connection commits after reading a spend above the mark. The products need lemmas of
  their own (`TimesMonotone`, `TimesSuccessor`).
* `BestBeforeLastTheorem`, `ChargeWasPaidTheorem`: neither is inductive, as both speak of a
  handler that has finished. `AccountInv` says what holds inside the loop (`InLoop`: the held
  response is the most confident so far, all so far asked for more, its cost has been paid) and
  how leaving the loop (`Settled`) follows from that.
* `CallsAllowedTheorem`, `SettlesTheorem`: action properties. `HighestTier` says what
  `cap_tier` returns, `ContinueAllowed`, `ClimbOn` and `ContinueStuck` which tiers the loop comes to when models
  fail and where it stops. That a tier is not repeated in the escalation path is an assumption.

**`ControlProofs`**. Types, and that whatever is in use is a configuration of its app (`Base`),
are proved first; the theorems rest on them.

* `FileInForceTheorem`: the content that a load has read is the file's unless a notification waits,
  a change was ignored or two loads crossed (`ReadIsCurrent`); two loads of the admin app at once have
  crossed (`OneLoad`); the file is in force or the watcher is bringing it there (`Coming`).
* `UnhealthyOutTheorem`: a model at the threshold is unhealthy, and an unhealthy one is flagged in the
  entry where the resolver looks (`Hidden`), or was renewed by a load (`Flags`). The case that needs care is a
  load between its steps, when resolver and health checks hold different configurations.
* `SamplesFitTheorem`: a call that is the first of its request goes to the request's target, and
  what leaves the loop without an escalation was answered by it (`ServedFirst`); a target that is the canary is the experiment's model while that has not moved.

**`ChangeControlProofs`** (breaker, log ingestion and self-regulation)

* `SafeCloseTheorem` needs more than `SafeClose`: while the
  breaker is open, either the window is calm already or no rollback in it is newer
  than the trip (`TripIsNewest`), so that a cooldown longer than the window leaves
  a calm window behind. The assumption `Window < Cooldown` is the configuration's.
* `OneProbeTheorem`: a half-open period whose probe is unused has granted nothing (`ProbeInv`).
* `LinesReadOnceTheorem`: the property is inductive once the next read is known to start inside the
  file, and inside a line only where that was torn (`OffsetSound`).
* `LevelTheorem`, `BoundsTheorem`: every level's
  thresholds are computed from the standard settings, not from the previous ones,
  so soundness of the level in force and of the stored one is inductive.

**`ObserverProofs`**. `CycleBudgetTheorem`, `DeferredAreLastTheorem`, `MispairedTheorem` rest on one
invariant: diagnoses are of issues already passed and are as many as those, or one of them has
none (`InOrder`, `PairedOrGap`); after a deferral the budget fits no other issue (`DeferredStays`).

**`PreprocessorProofs`** (ingestion and policy analysis)

* `SkipsOnlyDoneTheorem`: what the tracker, `metadata.json` and a worker between two awaits hold
  is a hash of an extracted content (`FileSound`, `WorkerSound`).
* `HiddenOnlyByLossTheorem`: for a file that no failed or crossed write has touched (`Agreed`),
  a worker that has read or written `metadata.json` still knows what it holds.
* `UndoneOnlyByOverlapTheorem`: a reviewer that is not stale holds the stored set
  (`ReviewerSound`).
* `ChunksKeepTextTheorem`, `RoundsBoundedTheorem`, for every text and every limit: what is cut
  and what remains cover the text, in order, and each round has paid for itself with more than half
  a chunk of text (`RoundsPaid`). `StripSpec` says what `strip` returns, `SplitRange` where a cut may be: never
  before the middle, whether `rfind` found something or not.
* `WeightsSumToOneTheorem`, for every list of weights: each scaled weight is off by half a
  thousandth at most (`RoundedRange`), and this adds up over the list (`ScaledTotal`).

**`EvalProofs`**. `EvalTypeCorrect`, `CompliantOnlyIfClean`, `DecidedStaysDecided`. The
strengthening says that an ended budget shows in `partial_evaluation` until the job is over and
that a compliant status waiting in the formatter is justified. The lemma
`CapBelowThreshold` is the arithmetic of the policy cap: 0.84 never rounds to 0.85.

* `StatusMeansScoreTheorem`: the loop's four sums are those over the criteria that it has added, in
  whatever order (`SumsExact`); at its end these are all (`GradeFits`). The nodes before it have added
  nothing (`NothingAdded`).
* `MoreEvidenceTheorem` and `SameVerdictTheorem`, for every list of files: each rule searches the list,
  counts rows in it, or takes the first of the files that can decide. What a search or a count finds
  stays when a file is appended and does not depend on the order; the first one stays when a file is
  appended, and is the same in every order when all that can decide are the same file. A keyword is
  found at a place in the joined text; one of a single word lies in one file, and one that lies in a file is
  found in every order.

**`JobsProofs`** (jobs and sandbox)

* `JobsTypeCorrect` (registered tasks are the unfinished ones, no more
  hold a slot than there are), `JobAnswersTrue`, with what the stage of a task and
  the records in memory and in the store say about the outcome (`StagesTrue`, `RecordsTrue`), and that
  a job which is over in its own process has a result or an error there (`OverKnown`).
* `PoolRefinement`: `SandboxSpec` implements the safety part of `BoundedPool` (`PoolSafety`).
  `PoolInv` accounts for the slots that a release has handed to a waiter whose turn has not come
  (`SlotsAddUp`: free, woken and taken ones add up) and for the line of waiters (`LineSound`:
  each once, as many as the counter that `is_queue_full` reads); with it every step is an
  abstract step or leaves the pool unchanged.
* `NothingLeftBehindTheorem`: directories and containers belong to a request in its slot, or to
  a killed one, or one of the named failures has left them (`Litter`).

**`AssistantProofs`** (the assistant, then the stores of the memory service)

* `NoSecondLifeTheorem`: a question is in one session object at most and in none once it was
  taken; while its tool has been started and it is still there, some confirm waits for the tool and will clear
  that very object (`OneLife`). It needs that a request which has asked asks nothing else (`HasAsked`).
* `ConfirmableTheorem`: requests that do not overlap work on the registered object, one after the other, and
  a confirm that waits for the tool still has its question there (`Alone`).
  Most steps of a request touch no question; they share one lemma (`OrdinaryKeeps`).
* `StoredEventsTheorem`: no step forgets an event, as a drain answers exactly what it has found
  (`ReadWhole`).
* `CapTheorem`: a statement about credit. Either all pushes in flight fit under the bound
  (`RoomForAll`), or one is missing a place and another is about to remove a victim that is there
  (`RoomToCome`). The invariant bounds the queue together with what is on its way to it.
* `AcknowledgedKeptTheorem`: whoever was over before another began has ended (`BeforeEnded`), so a
  request that writes has overlapped with an acknowledged one or began after it; without an excuse the
  change is kept in the document and in every copy about to be written back (`KeptEverywhere`).
* `OneActiveTheorem`: as long as no rollback has overlapped (`Undisturbed`), one transaction at most is past
  the point where creations lock the skill's row, so the rows it found active are those that are,
  and `WriteSound` follows its statements to the commit.

**Induction over data.** The prover cannot instantiate an induction theorem that takes an operator. Sums
and counts are therefore the cardinality of a set of units (a weight of 200 is 200 pairs), for which the
library's theorems on finite sets do; the chunk loop is an action, so that its induction is that of the
specification; and where a list is gone through from its beginning (`ScaledTotal`), the lemma `UpTo` gives
induction over a set of numbers, by its least counterexample.

**Only model-checked** is liveness, which is out of the prover's reach: `HandlersFinish`, `HealthyReturns`, `Recovers`,
`ContentExtracted`, `JobAnswered`, `TransactionsEnd`, and the fairness of `PoolPromise` (its safety is
`PoolRefinement`). Every other property of a passing run is a theorem; types and
`RoundsBounded`, that the chunk loop ends, are theorems only.

## What the code does that its documents do not say

Findings with a run:

* `llm-gateway/src/main.py:776`: the admin app runs a lifespan of its own, so what the admin
  API changes is not what completions read (`gateway_admin`).
* `llm-gateway/src/main.py:509`: with the escalations used up the last response is returned
  (`gateway_best`), where `llm-gateway/DESIGN.md:195` says "Return best response so far".
* `sandbox-service/src/execution/preamble.py:30`: the import hook calls a name that the
  preamble deletes before it imports pandas (`sandbox_preamble`).

Built into the models as the code has them; a property states the exception where one is named:

* Gateway: `cap_tier` with no allowed tier returns the requested one (`degradation.py:124`, against
  line 152; exception of `CallsAllowedTiers`); nothing dequeues queued requests (`queue.py:117`);
  only one call is charged after escalations, and possibly at the rate of the last model for the tokens of an
  earlier one (`main.py:548`, exception of `ChargeWasPaid`; `requirements/llm-gateway.md:479` prices a
  response by its own model).
* Control: `update_routing` ("Merges updates into current config") starts from the file and is not
  written back, so a second update drops the first; `promote_canary` only deletes the experiment; a change
  within a second of a load is ignored for good; a model listed in two tiers is taken out of the last one only; a load puts unhealthy and disabled models back
  into rotation; samples of the control group are never recorded; the registry of providers is
  filled at startup only; nothing calls `enable_model`.
* Observer: `zip(diagnoses, issues)` after failed diagnoses were dropped (`main.py:121`,
  exception of `MispairedOnlyAfterGap`); what was unread when a log file was rotated reaches no job
  (`log_ingestor.py:157`, exception of `LinesReadOnce`; line 3 says "Handles log rotation gracefully"); nobody calls the validator, the rollback engine, `record_rollback`,
  `record_success` or `can_auto_apply`, so applied changes stay pending and the
  breaker is driven by its contract only; `trigger_job` pauses the job; a lost
  reply is recorded as `ROLLED_BACK`; nothing is restored after a restart. The calls that rollback and canary
  would make (`GET /admin/routing`, a canary without a model) are refused by the gateway.
* Preprocessor: the webhook processes every key of a notification (`webhook.py:74`; line 45 says "within the
  configured watch prefix"); a file over the size limit raises, as `_build_error_metadata` does not
  exist; a failed metadata write is marked as processed; policy analysis is not reached, because `process_file` reads a field that
  `FileMetadata` lacks.
* Policy analysis: a chunk cut inside a word has one character more than `_MAX_SECTION_CHARS`
  (`graph_extractor.py:344` says "at most"); an exception of `_build_graph_elements` fails the whole run; an
  unparseable reply stores an empty criteria set over an approved one; the result of the
  store call is ignored; `approve` recalls the set again and so may approve a generation
  that the reviewer has not seen; the retriever of agent-eval uses criteria whatever their status
  (`review_manager.py:4` says otherwise).
* Agent-eval: the evidence hash contains the time of listing, so the cache never
  hits and the freshness rule sees the present time (`discovery.py:89`); evidence is listed in the order of a
  set (`discovery.py:72`, exceptions of `SameVerdictInAnyOrder`); the text fallback reads "does not pass" as a pass; the end of
  the budget in the sandbox or code-fixer node fails the job (`requirements/agent-eval.md:190` says partial
  results); `StateClient` and most of
  `MemoryClient` use paths that the memory service does not serve, so job states and
  evaluations are not persisted; a
  timeout after the formatter leaves another status stored than reported.
* Sandbox: Docker calls block the event loop; a creation that raises after Docker has created the container leaves it
  (`docker_backend.py:105`, exception of `NothingLeftBehind`; line 41 says "always removed"); what a killed process leaves is never
  removed. Agent-eval's client times out after 60 s without ending the execution, and sends the files as an
  object where the service expects a list.
* Assistant: `handle_confirm` reads the pending action again after clearing it, so the answer is an error
  although the tool ran; two confirms that overlap run it twice (exception of `NoSecondLife`);
  `handle_cancel` ignores the id.
* Memory service: after a skill rollback the next version number exists already and creations
  fail for good (`skill_repo.py:68`); an approved decision can be overridden and approved again
  (`evaluation_decisions.py:145`, an overwriting in `AcknowledgedKept`; `agent-eval/REQUIREMENTS.md:532` has
  it not editable); a decision stored before a failure of the index is in no
  listing; events for the user `__all__` are drained by nobody.

## Not modelled

Provider adapters and tool translation, OCR and parser backends, schema and join detection, the heading
heuristics of `structural_parser.py`, `obligation_consolidator.py` and `soa_parser.py` (not
called), the observer's validator and rollback engine (not called), aggregation and governance
reports, the deadline checker's date window, agent-eval's chat endpoint,
authentication, middleware, logging, storage adapters, prompts, personas and trigger patterns, tasks,
facts, registry and similarity search of the memory service, the frontend and the infrastructure. They
are I/O, formats, text or floating-point statistics without a protocol, or code without a caller.

## What could follow

The invariants and action properties of the runs are proved. Worth adding next are the parts that are left out
today because nothing calls them: the observer's validator and rollback engine, which
would drive the breaker, and the policy analysis behind `process_file`. When a service starts to use them,
`CircuitBreaker` and `Policy` are the modules to compose with `Observer` and `Preprocessor`.
