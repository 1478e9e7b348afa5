------------------------------- MODULE Sandbox -------------------------------
(***************************************************************************)
(* The sandbox service (sandbox-service/src): requests wait for a slot,    *)
(* download their files, and run in a container.  The service              *)
(* is one event loop.  DockerBackend.execute is a coroutine that makes     *)
(* only blocking calls, so from create to remove nothing else of the       *)
(* service runs: an action of any request needs the loop.  The semaphore   *)
(* is that of Python 3.12, which serves its waiters in order.              *)
(***************************************************************************)
EXTENDS Naturals, Sequences, FiniteSets

\* invalid: more files, time or memory than allowed.  blocked: refused by the static check.
\* The others pass it; plain and files are programs without an error of their own.
Program == {"invalid", "blocked", "faulty", "plain", "files"}

CONSTANTS
    Execution,      \* the requests that may be made
    Slots,          \* max_concurrent_executions
    QueueSize,      \* queue_size
    Brings,         \* [Execution -> SUBSET Program]: the programs it may bring
    MaxKill         \* bound on the times the process is killed

ASSUME SandboxAssumption ==
    /\ IsFiniteSet(Execution)
    /\ Brings \in [Execution -> SUBSET Program]
    /\ Slots \in Nat \ {0} /\ QueueSize \in Nat /\ MaxKill \in Nat

VARIABLES
    place,      \* [Execution -> where the request is]
    program,    \* [Execution -> kind of code it brings]
    script,     \* how the script in the container ended
    refused,    \* requests answered with 429
    value,      \* Semaphore._value
    waiters,    \* Semaphore._waiters
    woken,      \* the first so many waiters have been given a slot
    queued,     \* _queued
    running,    \* _active
    counts,     \* _total_executions, _successful, _failed
    dirs,       \* executions whose directory exists
    containers, \* executions whose container exists
    stuck,      \* history: executions whose container Docker did not remove when asked
    unseen,     \* history: executions whose container was created though create raised
    undeleted,  \* history: executions whose directory rmtree left
    kills

sandboxVars == <<place, program, script, refused, value, waiters, woken, queued, running, counts,
                 dirs, containers, stuck, unseen, undeleted, kills>>

InSlot == {e \in Execution : place[e] \in {"downloading", "creating", "scripting", "removing"}}
LoopFree == \A e \in Execution : place[e] \notin {"creating", "scripting", "removing"}

SandboxInit ==
    /\ place = [e \in Execution |-> "new"] /\ program = [e \in Execution |-> "plain"]
    /\ script = "none" /\ refused = {}
    /\ value = Slots /\ waiters = <<>> /\ woken = 0
    /\ queued = 0 /\ running = 0 /\ counts = [total |-> 0, good |-> 0, bad |-> 0]
    /\ dirs = {} /\ containers = {} /\ kills = 0
    /\ stuck = {} /\ unseen = {} /\ undeleted = {}
-----------------------------------------------------------------------------
(* What the container runs *)

\* The preamble's statements that concern imports, in order: it saves the original
\* __import__, installs a hook that calls it, deletes the name, and imports.
Preamble == <<"save", "hook", "delete", "import">>

\* The statement at i raises: the hook is in place and the name it uses is not defined.
Raises(i) ==
    /\ Preamble[i] = "import"
    /\ \E h \in 1 .. i : Preamble[h] = "hook"
    /\ ~\E s \in 1 .. i : Preamble[s] = "save" /\ \A d \in s .. i : Preamble[d] # "delete"

PreambleRuns == ~\E i \in 1 .. Len(Preamble) : Raises(i)

\* How a script may end: by itself, killed at its time limit, or for its memory.
ScriptEnds(p) ==
    {"timeout", "oom"} \cup IF PreambleRuns /\ p # "faulty" THEN {"ok"} ELSE {"error"}
-----------------------------------------------------------------------------
(* Slots *)

\* The request's first steps with a slot: directories, and downloads if it has files.
Admitted(e, p) ==
    /\ place' = [place EXCEPT ![e] = IF p = "files" THEN "downloading" ELSE "creating"]
    /\ running' = running + 1
    /\ counts' = [counts EXCEPT !.total = @ + 1]
    /\ dirs' = dirs \cup {e}

\* Semaphore.release: the slot goes to the first waiter that has none.
Release ==
    IF woken < Len(waiters) THEN woken' = woken + 1 /\ UNCHANGED value
                            ELSE value' = value + 1 /\ UNCHANGED woken

\* shutil.rmtree(exec_dir, ignore_errors=True): all of the directory goes, or some stays.
DeleteDirectory(e) ==
    \E ok \in BOOLEAN :
        /\ dirs' = IF ok THEN dirs \ {e} ELSE dirs
        /\ undeleted' = IF ok THEN undeleted ELSE undeleted \cup {e}

\* Mutant: the directory goes only after a success.
Finish_litters(e, good) ==
    /\ place' = [place EXCEPT ![e] = "done"]
    /\ running' = running - 1
    /\ counts' = IF good THEN [counts EXCEPT !.good = @ + 1] ELSE [counts EXCEPT !.bad = @ + 1]
    /\ IF good THEN DeleteDirectory(e) ELSE UNCHANGED <<dirs, undeleted>>
    /\ Release

\* The end of execute: counts, and the finally clause.
Finish(e, good) ==
    /\ place' = [place EXCEPT ![e] = "done"]
    /\ running' = running - 1
    /\ counts' = IF good THEN [counts EXCEPT !.good = @ + 1] ELSE [counts EXCEPT !.bad = @ + 1]
    /\ DeleteDirectory(e)
    /\ Release
-----------------------------------------------------------------------------
(* A request *)

\* POST /execute is handled: the event loop comes to a request with program p.
Arrive(e, p) ==
    /\ LoopFree /\ place[e] = "new" /\ p \in Brings[e]
    /\ program' = [program EXCEPT ![e] = p]

\* Validation of the request, and check_code_safety: nothing of the pool is touched.
TurnAway(e, p) ==
    /\ Arrive(e, p) /\ p \in {"invalid", "blocked"}
    /\ place' = [place EXCEPT ![e] = "done"]
    /\ UNCHANGED <<script, refused, value, waiters, woken, queued, running, counts, dirs, containers, stuck, unseen, undeleted, kills>>

is_queue_full == queued >= QueueSize

Reject(e, p) ==
    /\ Arrive(e, p) /\ p \notin {"invalid", "blocked"} /\ is_queue_full
    /\ place' = [place EXCEPT ![e] = "done"]
    /\ refused' = refused \cup {e}
    /\ UNCHANGED <<script, value, waiters, woken, queued, running, counts, dirs, containers, stuck, unseen, undeleted, kills>>

\* Mutant: a slot that is free goes to whoever comes.
EnterAtOnce_overtakes(e, p) ==
    /\ Arrive(e, p) /\ p \notin {"invalid", "blocked"} /\ ~is_queue_full
    /\ value > 0
    /\ value' = value - 1
    /\ Admitted(e, p)
    /\ UNCHANGED <<script, refused, waiters, woken, queued, containers, stuck, unseen, undeleted, kills>>

\* Semaphore.acquire without waiting: a slot is free and nobody waits.
EnterAtOnce(e, p) ==
    /\ Arrive(e, p) /\ p \notin {"invalid", "blocked"} /\ ~is_queue_full
    /\ value > 0 /\ waiters = <<>>
    /\ value' = value - 1
    /\ Admitted(e, p)
    /\ UNCHANGED <<script, refused, waiters, woken, queued, containers, stuck, unseen, undeleted, kills>>

Line(e, p) ==
    /\ Arrive(e, p) /\ p \notin {"invalid", "blocked"} /\ ~is_queue_full
    /\ value = 0 \/ waiters # <<>>
    /\ place' = [place EXCEPT ![e] = "waiting"]
    /\ waiters' = Append(waiters, e) /\ queued' = queued + 1
    /\ UNCHANGED <<script, refused, value, woken, running, counts, dirs, containers, stuck, unseen, undeleted, kills>>

\* The first waiter goes on.  Slots that became free meanwhile go to those behind it.
EnterFromLine(e) ==
    /\ LoopFree /\ woken > 0 /\ e = Head(waiters)
    /\ waiters' = Tail(waiters) /\ queued' = queued - 1
    /\ LET more == IF value < Len(waiters) - woken THEN value ELSE Len(waiters) - woken
       IN  woken' = woken - 1 + more /\ value' = value - more
    /\ Admitted(e, program[e])
    /\ UNCHANGED <<program, script, refused, containers, stuck, unseen, undeleted, kills>>

\* download_files, one request per file, any of which may fail (404, 413 or 502).
Download(e) ==
    /\ LoopFree /\ place[e] = "downloading"
    /\ \/ /\ place' = [place EXCEPT ![e] = "creating"]
          /\ UNCHANGED <<value, woken, running, counts, dirs, undeleted>>
       \/ Finish(e, FALSE)
    /\ UNCHANGED <<program, script, refused, waiters, queued, containers, stuck, unseen, kills>>

\* containers.create, which creates and then inspects, and start.  A container that does not start
\* is removed like the others.  When create raises, the client's timeout included, Docker may have
\* created the container all the same: execute has no reference to it.
CreateContainer(e) ==
    /\ place[e] = "creating"
    /\ \/ /\ \E how \in {"scripting", "removing"} : place' = [place EXCEPT ![e] = how]
          /\ containers' = containers \cup {e}
          /\ UNCHANGED <<value, woken, running, counts, dirs, undeleted, unseen>>
       \/ /\ Finish(e, FALSE)
          /\ \E made \in SUBSET {e} : containers' = containers \cup made /\ unseen' = unseen \cup made
    /\ UNCHANGED <<program, script, refused, waiters, queued, stuck, kills>>

\* container.wait, kill, reload and logs.  Any exception of wait counts as a timeout.
RunScript(e) ==
    /\ place[e] = "scripting"
    /\ place' = [place EXCEPT ![e] = "removing"]
    /\ \E how \in ScriptEnds(program[e]) \cup {"none"} : script' = how
    /\ UNCHANGED <<program, refused, value, waiters, woken, queued, running, counts, dirs, containers, stuck, unseen, undeleted, kills>>

\* container.remove(force=True), whose DockerException is swallowed and whose timeout is not, and
\* the end of execute.
RemoveContainer(e) ==
    /\ place[e] = "removing"
    /\ \E ok \in BOOLEAN :
          /\ containers' = IF ok THEN containers \ {e} ELSE containers
          /\ stuck' = IF ok THEN stuck ELSE stuck \cup {e}
    /\ \E raised \in BOOLEAN : Finish(e, script = "ok" /\ ~raised)
    /\ script' = "none"
    /\ UNCHANGED <<program, refused, waiters, queued, unseen, kills>>

\* The process is killed and started again; directories and containers stay behind.
Kill ==
    /\ kills < MaxKill
    /\ kills' = kills + 1
    /\ place' = [e \in Execution |-> IF place[e] \in {"new", "done"} THEN place[e] ELSE "lost"]
    /\ value' = Slots /\ waiters' = <<>> /\ woken' = 0
    /\ queued' = 0 /\ running' = 0 /\ counts' = [total |-> 0, good |-> 0, bad |-> 0]
    /\ script' = "none"
    /\ UNCHANGED <<program, refused, dirs, containers, stuck, unseen, undeleted>>

\* The service's steps for a request that it has begun.
Serving(e) ==
    \/ EnterFromLine(e)
    \/ Download(e) \/ CreateContainer(e) \/ RunScript(e) \/ RemoveContainer(e)

SandboxNext ==
    \/ \E e \in Execution, p \in Program : TurnAway(e, p) \/ Reject(e, p) \/ EnterAtOnce(e, p) \/ Line(e, p)
    \/ \E e \in Execution : Serving(e)
    \/ Kill

SandboxSpec == SandboxInit /\ [][SandboxNext]_sandboxVars
-----------------------------------------------------------------------------
\* The promise of the pool, of which semaphore, counters and events are an implementation:
\* order of service, bounds, refusals for a full queue only, and everybody's turn comes.
Pool == INSTANCE BoundedPool WITH
    Client <- Execution, inside <- InSlot, queue <- waiters
PoolPromise == Pool!PoolSpec

\* The finally clauses of execute and of DockerBackend.execute: outside of a slot there is no
\* container and no directory, unless the process was killed, Docker did not remove the container
\* when asked, or created it and did not say so, or rmtree failed (docker_backend.py:41 says
\* "always removed", which leaves out the container that create did not return).
NothingLeftBehind ==
    \A e \in Execution \ InSlot : place[e] # "lost" =>
        /\ e \in containers => e \in stuck \cup unseen
        /\ e \in dirs => e \in undeleted

\* preamble.py, "It provides standard imports and variables pre-loaded with evidence data":
\* a program without an error of its own does not end with one.
PreambleHarmless == \A e \in Execution : place[e] = "removing" /\ script = "error" => program[e] = "faulty"
=============================================================================
