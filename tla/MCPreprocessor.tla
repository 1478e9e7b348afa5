--------------------------- MODULE MCPreprocessor ---------------------------
(***************************************************************************)
(* The preprocessor for model checking.  Ingestion, policy analysis and    *)
(* the pure parts of the analysis share no state (process_file does not    *)
(* reach the analysis, see the README), so a behaviour follows one of them *)
(* and leaves the others where they start.                                 *)
(***************************************************************************)
EXTENDS Preprocessor, Policy, PolicyText

CONSTANTS d1, ac1

VARIABLE followed

MCConcerns == [d \in Document |-> IF d = d1 THEN Control ELSE {ac1}]

MCRawWeight == {-100, 100, 260, 1000, NotNumber}

MCInit ==
    /\ followed \in {"ingestion", "analysis", "chunks", "weights"}
    /\ Init /\ PolicyInit /\ TextInit
    /\ followed # "ingestion" => mode = "poll"

Ingesting == followed = "ingestion"

MCNext ==
    /\ \/ Ingesting /\ Next /\ UNCHANGED <<policyVars, textVars>>
       \/ followed = "analysis" /\ PolicyNext /\ UNCHANGED <<vars, textVars>>
       \/ /\ \/ followed = "chunks" /\ ((\E c \in Char : AddChar(c)) \/ BeginSplit \/ split_content)
             \/ followed = "weights" /\ \E w \in RawWeight : AddWeight(w)
          /\ UNCHANGED <<vars, policyVars>>
    /\ UNCHANGED followed

\* In mode poll the poller sleeps and polls for ever (StartPoll is not enabled
\* in another mode), every storage call ends, and storage that is asked again and
\* again answers again and again.
MCSpec ==
    /\ MCInit /\ [][MCNext]_<<vars, policyVars, textVars, followed>>
    /\ WF_vars(Ingesting /\ StartPoll)
    /\ SF_vars(Ingesting /\ Listed(TRUE))
    /\ \A f \in File : WF_vars(Ingesting /\ Begin(Poller, f))
    /\ \A w \in Worker : WF_vars(Ingesting /\ Step(w))
    /\ \A f \in File : SF_vars(Ingesting /\ file[Poller] = f /\ Downloaded(Poller))
=============================================================================
