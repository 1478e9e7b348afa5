---------------------------- MODULE SkillVersions ----------------------------
(***************************************************************************)
(* Versions of one skill in the memory service: create_version and         *)
(* rollback of SkillRepository, each one PostgreSQL transaction at READ    *)
(* COMMITTED.  A statement waits for rows that another transaction has     *)
(* written; an UPDATE ... WHERE status = 'active' sees the rows that are   *)
(* active when it begins and, after waiting, skips those that no longer    *)
(* are.  A transaction's writes become visible when it commits.            *)
(***************************************************************************)
EXTENDS Naturals, FiniteSets

CONSTANTS
    Tx,             \* requests, one transaction each
    MaxVersion      \* bound on version numbers

ASSUME SkillAssumption == MaxVersion \in Nat \ {0}

Version == 1 .. MaxVersion

VARIABLES
    current,    \* skills.current_version, 0 without a row
    status,     \* status of the version rows; "none" without a row
    tx,         \* per transaction: kind, step, version, rows found active, rows written
    together    \* transactions that were open at the same time

skillVars == <<current, status, tx, together>>

NoTx == [kind |-> "none", step |-> "new", version |-> 0, found |-> {}, set |-> [v \in {} |-> "none"], skill |-> FALSE]

SkillInit ==
    /\ current = 0
    /\ status = [v \in Version |-> "none"]
    /\ tx = [t \in Tx |-> NoTx]
    /\ together = {}

OpenTx == {t \in Tx : tx[t].step \notin {"new", "committed", "aborted"}}

\* Rows that transactions other than t have written and not committed.
LockedRows(t) == UNION {DOMAIN tx[u].set : u \in OpenTx \ {t}}
SkillLocked(t) == \E u \in OpenTx \ {t} : tx[u].skill

Begun(t) == IF OpenTx = {} THEN {} ELSE OpenTx \cup {t}

\* The rows that t sees active: committed ones, and its own writes.
SeenActive(t) ==
    {v \in Version : IF v \in DOMAIN tx[t].set THEN tx[t].set[v] = "active" ELSE status[v] = "active"}

Merge(f, g) == [v \in DOMAIN f \cup DOMAIN g |-> IF v \in DOMAIN g THEN g[v] ELSE f[v]]

-----------------------------------------------------------------------------
\* create_version: SELECT of the skill; the number is the next after its current version.
ReadSkill(t, kind) ==
    /\ tx[t].step = "new"
    /\ kind \in {"create", "create_canary"}
    /\ current < MaxVersion
    /\ tx' = [tx EXCEPT ![t] = [NoTx EXCEPT !.kind = kind, !.step = "number", !.version = current + 1]]
    /\ together' = together \cup Begun(t)
    /\ UNCHANGED <<current, status>>

\* The flush of the skill row, which waits for others that have written it.  Inserting it
\* fails when another transaction has inserted it meanwhile.
WriteNumber(t) ==
    /\ tx[t].step = "number" /\ ~SkillLocked(t)
    /\ tx' = [tx EXCEPT ![t].skill = TRUE,
                        ![t].step = IF tx[t].version = 1 /\ current # 0 THEN "aborted"
                                    ELSE IF tx[t].kind = "create" THEN "retire" ELSE "insert"]
    /\ UNCHANGED <<current, status, together>>

\* rollback: get_version of the target.
ReadTarget(t, v) ==
    /\ tx[t].step = "new"
    /\ current # 0
    /\ tx' = [tx EXCEPT ![t] = [NoTx EXCEPT !.kind = "rollback", !.version = v,
                                            !.step = IF status[v] = "none" THEN "aborted" ELSE "retire"]]
    /\ together' = together \cup Begun(t)
    /\ UNCHANGED <<current, status>>

\* UPDATE ... SET status = 'retired' WHERE status = 'active': the rows it finds.
FindActive(t) ==
    /\ tx[t].step = "retire"
    /\ tx' = [tx EXCEPT ![t].found = SeenActive(t), ![t].step = "retiring"]
    /\ UNCHANGED <<current, status, together>>

\* Mutant: the current version keeps its status.
RetireFound_none(t) ==
    /\ tx[t].step = "retiring"
    /\ tx' = [tx EXCEPT ![t].step = IF tx[t].kind = "rollback" THEN "activate" ELSE "insert"]
    /\ UNCHANGED <<current, status, together>>

\* ... and, once they are free, those of them that are still active.
RetireFound(t) ==
    /\ tx[t].step = "retiring"
    /\ tx[t].found \cap LockedRows(t) = {}
    /\ tx' = [tx EXCEPT ![t].set = Merge(@, [v \in tx[t].found \cap SeenActive(t) |-> "retired"]),
                        ![t].step = IF tx[t].kind = "rollback" THEN "activate" ELSE "insert"]
    /\ UNCHANGED <<current, status, together>>

\* Mutant: the insertion waits for its number to become free.
InsertVersion_waits(t) ==
    /\ tx[t].step = "insert"
    /\ status[tx[t].version] = "none"
    /\ tx' = [tx EXCEPT ![t].step = "commit", ![t].set = Merge(@, [v \in {tx[t].version} |->
                                 IF tx[t].kind = "create" THEN "active" ELSE "canary"])]
    /\ UNCHANGED <<current, status, together>>

\* create_version: INSERT of the new version, which fails if the number is taken.
InsertVersion(t) ==
    /\ tx[t].step = "insert"
    /\ tx[t].version \notin LockedRows(t)
    /\ tx' = IF status[tx[t].version] # "none"
             THEN [tx EXCEPT ![t].step = "aborted"]
             ELSE [tx EXCEPT ![t].step = "commit",
                             ![t].set = Merge(@, [v \in {tx[t].version} |->
                                 IF tx[t].kind = "create" THEN "active" ELSE "canary"])]
    /\ UNCHANGED <<current, status, together>>

\* rollback: the target becomes active (flushed by the SELECT of the skill).  The skill row is
\* written only if it names another version.
ActivateTarget(t) ==
    /\ tx[t].step = "activate"
    /\ tx[t].version \notin LockedRows(t)
    /\ tx' = [tx EXCEPT ![t].set = Merge(@, [v \in {tx[t].version} |-> "active"]),
                        ![t].step = IF current = tx[t].version THEN "commit" ELSE "pointer"]
    /\ UNCHANGED <<current, status, together>>

\* rollback: the flush of the skill row at the end of the request.
WritePointer(t) ==
    /\ tx[t].step = "pointer" /\ ~SkillLocked(t)
    /\ tx' = [tx EXCEPT ![t].skill = TRUE, ![t].step = "commit"]
    /\ UNCHANGED <<current, status, together>>

\* The end of the request: COMMIT.
Commit(t) ==
    /\ tx[t].step = "commit"
    /\ current' = IF tx[t].skill THEN tx[t].version ELSE current
    /\ status' = Merge(status, tx[t].set)
    /\ tx' = [tx EXCEPT ![t].step = "committed"]
    /\ UNCHANGED together

\* The lock that t waits for is held by u.
WaitsFor(t, u) ==
    \/ tx[t].step \in {"number", "pointer"} /\ tx[u].skill
    \/ tx[t].step = "retiring" /\ tx[t].found \cap DOMAIN tx[u].set # {}
    \/ tx[t].step \in {"insert", "activate"} /\ tx[t].version \in DOMAIN tx[u].set

\* PostgreSQL ends one of two transactions that wait for each other.
BreakDeadlock(t) ==
    /\ t \in OpenTx
    /\ \E u \in OpenTx \ {t} : WaitsFor(t, u) /\ WaitsFor(u, t)
    /\ tx' = [tx EXCEPT ![t].step = "aborted"]
    /\ UNCHANGED <<current, status, together>>

SkillStep(t) ==
    \/ WriteNumber(t) \/ FindActive(t) \/ RetireFound(t) \/ InsertVersion(t)
    \/ ActivateTarget(t) \/ WritePointer(t) \/ Commit(t) \/ BreakDeadlock(t)

SkillNext == \E t \in Tx :
    \/ \E k \in {"create", "create_canary"} : ReadSkill(t, k)
    \/ \E v \in Version : ReadTarget(t, v)
    \/ SkillStep(t)

SkillSpec == SkillInit /\ [][SkillNext]_skillVars
-----------------------------------------------------------------------------
\* get_active expects at most one active version (scalar_one_or_none raises otherwise).
\* There are two only after a rollback overlapped with another change: its UPDATE does
\* not see the version that the other is about to activate.
OneActive ==
    \/ Cardinality({v \in Version : status[v] = "active"}) <= 1
    \/ \E t \in together : tx[t].kind = "rollback"

\* A transaction that has begun ends: nobody waits for ever, deadlocks included.
TransactionsEnd == \A t \in Tx : t \in OpenTx ~> t \notin OpenTx
=============================================================================
