--------------------------- MODULE MCEvalPipeline ---------------------------
(***************************************************************************)
(* An evaluation of four criteria, or the rules on every list of a few     *)
(* files.  A behaviour follows one of the two, which share no state.       *)
(***************************************************************************)
EXTENDS EvalPipeline, Rules, TLC

VARIABLE followed   \* graph or rules

CONSTANTS pol, imp1, imp2, oth

MCWeight == pol :> 15 @@ imp1 :> 30 @@ imp2 :> 50 @@ oth :> 5

MCCategory == pol :> "policy" @@ imp1 :> "implementation" @@ imp2 :> "implementation" @@ oth :> "other"

No == [x \in {} |-> 0]

Sheet(name, rows, columns, populated) ==
    [name |-> name, type |-> "csv", listed |-> "csv", rows |-> rows, columns |-> columns, populated |-> populated,
     metric |-> {}, violations |-> {}, words |-> <<>>, broken |-> FALSE]

Paper(name, type, words) ==
    [name |-> name, type |-> type, listed |-> "unknown", rows |-> 0, columns |-> {}, populated |-> No,
     metric |-> {}, violations |-> {}, words |-> words, broken |-> FALSE]

\* Tables that share a column or not, are populated or not, bring metrics or violations, or raise;
\* texts that have a phrase together and a picture; a file whose type is known from its name only.
MCFile == {
    Sheet("access", 0, {}, No),
    Sheet("access", 1, {"user"}, "user" :> 96),
    Sheet("access", 2, {"user", "mfa"}, "user" :> 90 @@ "mfa" :> 95),
    Sheet("staff", 1, {"mfa"}, No),
    [Sheet("joined", 2, {"user"}, No) EXCEPT !.violations = {0}],
    [Sheet("joined", 2, {"user"}, No) EXCEPT !.violations = {3}],
    [Sheet("scan", 0, {}, No) EXCEPT !.metric = {4}],
    [Sheet("scan", 0, {}, No) EXCEPT !.metric = {5}],
    [Sheet("scan", 1, {"user"}, No) EXCEPT !.broken = TRUE],
    Paper("policy", "pdf", <<"retention", "least">>),
    Paper("policy", "pdf", <<"privilege", "encryption">>),
    [Paper("policy", "unknown", <<>>) EXCEPT !.listed = "document"],
    Paper("access", "image", <<>>)}

Ask(check, evidence) ==
    [check |-> check, evidence |-> evidence, says |-> {}, param |-> {}, text |-> {}, names |-> {}, textNames |-> {},
     keywords |-> {}, textKeywords |-> {},
     operator |-> "<=", raises |-> FALSE]

\* Every rule, asked for by name or inferred, with and without what it needs to decide.
MCAsked == {
    [Ask("", "document") EXCEPT !.says = {"exists", "months"}, !.textNames = {"policy"}],
    [Ask("", "document") EXCEPT !.says = {"months", "covers"}, !.text = {12}],
    [Ask("", "document") EXCEPT !.says = {"covers"}, !.textKeywords = {<<"encryption">>, <<"retention">>}],
    [Ask("", "structured_data") EXCEPT !.says = {"count"}, !.text = {2}],
    [Ask("", "structured_data") EXCEPT !.says = {"populated"}],
    [Ask("", "structured_data") EXCEPT !.says = {"cross-reference"}],
    [Ask("", "structured_data") EXCEPT !.says = {"columns"}, !.textNames = {"user", "mfa"}],
    [Ask("", "structured_data") EXCEPT !.says = {"within"}, !.text = {4}],
    Ask("", "structured_data"),
    Ask("", "unstructured"),
    Ask("file_existence", "unstructured"),
    Ask("freshness", "document"),
    [Ask("freshness", "document") EXCEPT !.param = {0}],
    [Ask("row_count", "structured_data") EXCEPT !.param = {3}, !.text = {2}],
    [Ask("null_rate", "structured_data") EXCEPT !.param = {90}, !.names = {"user"}],
    [Ask("cross_reference", "structured_data") EXCEPT !.names = {"mfa"}],
    [Ask("schema_presence", "structured_data") EXCEPT !.names = {"user"}],
    [Ask("quantitative", "structured_data") EXCEPT !.param = {5}, !.operator = ">="],
    [Ask("quantitative", "structured_data") EXCEPT !.param = {5}, !.operator = "=="],
    [Ask("quantitative", "structured_data") EXCEPT !.param = {5}, !.operator = "<"],
    [Ask("quantitative", "structured_data") EXCEPT !.param = {4}, !.operator = ">"],
    [Ask("keyword_presence", "document") EXCEPT !.keywords = {<<"encryption">>}],
    [Ask("keyword_presence", "document") EXCEPT !.keywords = {<<"least", "privilege">>}],
    [Ask("file_existence", "document") EXCEPT !.raises = TRUE],
    [Ask("cross_reference", "structured_data") EXCEPT !.raises = TRUE],
    [Ask("row_count", "structured_data") EXCEPT !.raises = TRUE]}

MCInit == followed \in {"graph", "rules"} /\ Init /\ RulesInit

MCNext ==
    /\ \/ followed = "graph" /\ Next /\ UNCHANGED files
       \/ followed = "rules" /\ RulesNext /\ UNCHANGED vars
    /\ UNCHANGED followed

MCSpec == MCInit /\ [][MCNext]_<<vars, files, followed>>
=============================================================================
