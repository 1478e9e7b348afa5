------------------------------- MODULE Policy -------------------------------
(***************************************************************************)
(* The policy analysis of the preprocessor (preprocessor/src/              *)
(* policy_analysis): PolicyAnalysisPipeline.run turns a document into one  *)
(* set of testing criteria per control, and reviewers approve or reject    *)
(* the sets through ReviewManager.  Both keep a set as one skill of the    *)
(* memory service and write it whole.  An action is the code between two   *)
(* awaits; the calls of a run share nothing but the skills.                *)
(*                                                                         *)
(* The language model's replies are arbitrary: the obligations it finds in *)
(* a chunk are a number, the controls it maps a batch to a set.  What a    *)
(* set of criteria says is reduced to the generation that produced it, and *)
(* a set without criteria, from a reply that does not parse, is a set too. *)
(***************************************************************************)
EXTENDS Naturals, FiniteSets

CONSTANTS
    Document,       \* documents; the runs on them are concurrent
    Control,        \* controls of the framework
    Reviewer,       \* concurrent callers of ReviewManager
    Concerns,       \* [Document -> SUBSET Control]: what the model may map it to
    MaxChunk,       \* bound on the chunks of a document
    MaxObligation,  \* bound on the obligations of a chunk
    BatchSize,      \* _BATCH_SIZE
    MaxDecision     \* bound on the decisions of a behaviour

ASSUME PolicyAssumption ==
    /\ Concerns \in [Document -> SUBSET Control]
    /\ MaxChunk \in Nat /\ MaxObligation \in Nat /\ MaxDecision \in Nat
    /\ BatchSize \in Nat \ {0}

VARIABLES
    criteria,   \* [Control -> record]: the skill criteria/<framework>/<control>
    generated,  \* sets of criteria generated so far
    stage,      \* [Document -> STRING]: current_step, or the call within it
    chunks,     \* [Document -> Nat]: chunks still to extract
    unmapped,   \* [Document -> Nat]: obligations still to map
    mapped,     \* [Document -> SUBSET Control]: keys of controls_obligations
    left,       \* [Document -> SUBSET Control]: those not handled yet
    about,      \* [Document -> Control]: control_id of the loop
    draft,      \* [Document -> Nat]: the generation being stored
    count,      \* [Document -> Nat]: criteria_count
    errors,     \* [Document -> SUBSET Control]: controls named in state.errors
    call,       \* [Reviewer -> STRING]: the await a reviewer stands at
    verdict,    \* [Reviewer -> {"approved", "rejected"}]
    subject,    \* [Reviewer -> Control]: control_id
    seen,       \* [Reviewer -> record]: criteria_data as recalled
    decisions,
    stale       \* history: reviewers whose control was written since their recall

runVars == <<generated, stage, chunks, unmapped, mapped, left, about, draft, count, errors>>
reviewVars == <<call, verdict, subject, seen, decisions>>
policyVars == <<criteria, runVars, reviewVars, stale>>

NoSet == [gen |-> 0, status |-> "none"]

PolicyInit ==
    /\ criteria = [c \in Control |-> NoSet]
    /\ generated = 0
    /\ stage = [d \in Document |-> "parsing"]
    /\ chunks = [d \in Document |-> 0]
    /\ unmapped = [d \in Document |-> 0]
    /\ mapped = [d \in Document |-> {}]
    /\ left = [d \in Document |-> {}]
    /\ about = [d \in Document |-> CHOOSE c \in Control : TRUE]
    /\ draft = [d \in Document |-> 0]
    /\ count = [d \in Document |-> 0]
    /\ errors = [d \in Document |-> {}]
    /\ call = [v \in Reviewer |-> "idle"]
    /\ verdict = [v \in Reviewer |-> "approved"]
    /\ subject = [v \in Reviewer |-> CHOOSE c \in Control : TRUE]
    /\ seen = [v \in Reviewer |-> NoSet]
    /\ decisions = 0
    /\ stale = {}
-----------------------------------------------------------------------------
(* A run *)

\* A document without sections fails; sections without text give no chunk.
Parse(d) ==
    /\ stage[d] = "parsing"
    /\ \/ stage' = [stage EXCEPT ![d] = "failed"] /\ UNCHANGED chunks
       \/ stage' = [stage EXCEPT ![d] = "complete"] /\ UNCHANGED chunks
       \/ \E n \in 1 .. MaxChunk :
              /\ stage' = [stage EXCEPT ![d] = "extracting"]
              /\ chunks' = [chunks EXCEPT ![d] = n]
    /\ UNCHANGED <<criteria, generated, unmapped, mapped, left, about, draft, count, errors, reviewVars, stale>>

\* Obligations in a reply; one that does not parse has none.
Replies == 0 .. MaxObligation

\* A chunk gives n obligations: none if the model fails or its reply does not
\* parse, which skips the chunk.
ExtractChunk(d, n) ==
    /\ stage[d] = "extracting"
    /\ chunks' = [chunks EXCEPT ![d] = @ - 1]
    /\ unmapped' = [unmapped EXCEPT ![d] = @ + n]
    /\ stage' = [stage EXCEPT ![d] = IF chunks'[d] > 0 THEN "extracting"
                                     ELSE IF unmapped'[d] = 0 THEN "complete" ELSE "mapping"]
    /\ UNCHANGED <<criteria, generated, mapped, left, about, draft, count, errors, reviewVars, stale>>

\* _build_graph_elements is outside the try: a reply that parses to something
\* other than lists of objects ends the extraction of the whole document.
ExtractRaises(d) ==
    /\ stage[d] = "extracting"
    /\ stage' = [stage EXCEPT ![d] = "failed"]
    /\ UNCHANGED <<criteria, generated, chunks, unmapped, mapped, left, about, draft, count, errors, reviewVars, stale>>

\* The controls a batch is mapped to; entries with an index outside the batch and
\* blank controls are dropped.
Targets(d) == SUBSET Concerns[d]

\* A batch maps its obligations to C: to nothing if the model fails.
MapBatch(d, C) ==
    LET more == unmapped[d] > BatchSize
    IN  /\ stage[d] = "mapping"
        /\ unmapped' = [unmapped EXCEPT ![d] = IF more THEN @ - BatchSize ELSE 0]
        /\ mapped' = [mapped EXCEPT ![d] = @ \cup C]
        /\ left' = [left EXCEPT ![d] = mapped'[d]]
        /\ stage' = [stage EXCEPT ![d] = IF more THEN "mapping"
                                         ELSE IF mapped'[d] = {} THEN "complete" ELSE "generating"]
        /\ UNCHANGED <<criteria, generated, chunks, about, draft, count, errors, reviewVars, stale>>

AfterControl(C) == IF C = {} THEN "announcing" ELSE "generating"

\* generate_for_control returns a new set, to be stored as a candidate.  The
\* controls come in the order in which the model's replies named them.
Generated(d, c) ==
    /\ stage[d] = "generating" /\ c \in left[d]
    /\ generated' = generated + 1
    /\ about' = [about EXCEPT ![d] = c]
    /\ draft' = [draft EXCEPT ![d] = generated']
    /\ left' = [left EXCEPT ![d] = @ \ {c}]
    /\ stage' = [stage EXCEPT ![d] = "storing"]
    /\ UNCHANGED <<criteria, chunks, unmapped, mapped, count, errors, reviewVars, stale>>

GenerateFails(d, c) ==
    /\ stage[d] = "generating" /\ c \in left[d]
    /\ errors' = [errors EXCEPT ![d] = @ \cup {c}]
    /\ left' = [left EXCEPT ![d] = @ \ {c}]
    /\ stage' = [stage EXCEPT ![d] = AfterControl(left'[d])]
    /\ UNCHANGED <<criteria, generated, chunks, unmapped, mapped, about, draft, count, reviewVars, stale>>

\* The reviewers, other than those in W, that recalled c before it is written.
Outdated(c, W) == {v \in Reviewer \ W : call[v] = "storing" /\ subject[v] = c}

\* store_criteria: the skill is written or, with a False that run ignores, not.
\* It replaces whatever is there, an approved set too.
StoreDraft(d, took) ==
    LET c == about[d]
    IN  /\ stage[d] = "storing"
        /\ criteria' = IF took THEN [criteria EXCEPT ![c] = [gen |-> draft[d], status |-> "candidate"]]
                       ELSE criteria
        /\ stale' = IF took THEN stale \cup Outdated(c, {}) ELSE stale
        /\ about' = [about EXCEPT ![d] = CHOOSE x \in Control : TRUE]
        /\ draft' = [draft EXCEPT ![d] = 0]
        /\ count' = [count EXCEPT ![d] = @ + 1]
        /\ stage' = [stage EXCEPT ![d] = AfterControl(left[d])]
        /\ UNCHANGED <<generated, chunks, unmapped, mapped, left, errors, reviewVars>>

\* The fact and the event, best effort.
Announce(d) ==
    /\ stage[d] = "announcing"
    /\ stage' = [stage EXCEPT ![d] = "complete"]
    /\ UNCHANGED <<criteria, generated, chunks, unmapped, mapped, left, about, draft, count, errors, reviewVars, stale>>
-----------------------------------------------------------------------------
(* A reviewer *)

Ends(v) ==
    /\ call' = [call EXCEPT ![v] = "idle"]
    /\ verdict' = [verdict EXCEPT ![v] = "approved"]
    /\ subject' = [subject EXCEPT ![v] = CHOOSE c \in Control : TRUE]
    /\ seen' = [seen EXCEPT ![v] = NoSet]
    /\ stale' = stale \ {v}

\* A reviewer calls approve or reject for a control, pending or not.
Decide(v, what, c) ==
    /\ call[v] = "idle" /\ decisions < MaxDecision
    /\ call' = [call EXCEPT ![v] = "recalling"]
    /\ verdict' = [verdict EXCEPT ![v] = what]
    /\ subject' = [subject EXCEPT ![v] = c]
    /\ decisions' = decisions + 1
    /\ UNCHANGED <<criteria, runVars, seen, stale>>

\* Mutant: approve overlooks that the set was rejected.
Settled_approved(what, status) == status = what

\* approve and reject return without a write: the set has the status already,
\* or is to be approved and was rejected.
Settled(what, status) == status = what \/ (what = "approved" /\ status = "rejected")

\* _recall_criteria returns the set; nothing is found if the call fails.
Recalled(v, ok) ==
    LET data == criteria[subject[v]]
    IN  /\ call[v] = "recalling"
        /\ IF ~ok \/ data = NoSet \/ Settled(verdict[v], data.status)
           THEN Ends(v)
           ELSE /\ call' = [call EXCEPT ![v] = "storing"]
                /\ seen' = [seen EXCEPT ![v] = data]
                /\ UNCHANGED <<verdict, subject, stale>>
        /\ UNCHANGED <<criteria, runVars, decisions>>

\* skill_store writes criteria_data with the new status, as it was recalled.
StoreVerdict(v, took) ==
    LET c == subject[v]
    IN  /\ call[v] = "storing"
        /\ criteria' = IF took THEN [criteria EXCEPT ![c] = [seen[v] EXCEPT !.status = verdict[v]]]
                       ELSE criteria
        /\ call' = [call EXCEPT ![v] = "idle"]
        /\ verdict' = [verdict EXCEPT ![v] = "approved"]
        /\ subject' = [subject EXCEPT ![v] = CHOOSE x \in Control : TRUE]
        /\ seen' = [seen EXCEPT ![v] = NoSet]
        /\ stale' = (IF took THEN stale \cup Outdated(c, {v}) ELSE stale) \ {v}
        /\ UNCHANGED <<runVars, decisions>>
-----------------------------------------------------------------------------
RunStep(d) ==
    \/ Parse(d)
    \/ \E n \in Replies : ExtractChunk(d, n)
    \/ ExtractRaises(d)
    \/ \E C \in Targets(d) : MapBatch(d, C)
    \/ \E c \in Control : Generated(d, c) \/ GenerateFails(d, c)
    \/ \E took \in BOOLEAN : StoreDraft(d, took)
    \/ Announce(d)

ReviewStep(v) ==
    \/ \E ok \in BOOLEAN : Recalled(v, ok)
    \/ \E what \in {"approved", "rejected"}, c \in Control : Decide(v, what, c)
    \/ \E took \in BOOLEAN : StoreVerdict(v, took)

PolicyNext ==
    \/ \E d \in Document : RunStep(d)
    \/ \E v \in Reviewer : ReviewStep(v)

PolicySpec == PolicyInit /\ [][PolicyNext]_policyVars
-----------------------------------------------------------------------------
\* A decision puts an older set in the place of a newer one, or an approval in
\* the place of a rejection, only if it had recalled the set before what it
\* undoes was written: it never undoes what it could see (approve, reject).
UndoneOnlyByOverlap ==
    [][\A c \in Control :
        (\/ criteria'[c].gen < criteria[c].gen /\ criteria'[c].status # "candidate"
         \/ /\ criteria'[c].gen = criteria[c].gen
            /\ criteria[c].status = "rejected" /\ criteria'[c].status = "approved")
        => \E v \in stale : call[v] = "storing" /\ call'[v] = "idle" /\ subject[v] = c]_policyVars
=============================================================================
