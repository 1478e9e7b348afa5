-------------------------------- MODULE Rules --------------------------------
(***************************************************************************)
(* The deterministic rules of agent-eval (agent-eval/src/rules), as        *)
(* functions of a criterion and a list of evidence, and the discovery that *)
(* makes the list, in the order of a Python set: any order.                *)
(*                                                                         *)
(* A criterion says in check_params what it asks for, or its               *)
(* pass_condition is searched for it: param and names are the former, text *)
(* and textNames what the search finds, {} if nothing (keywords and        *)
(* textKeywords for the rule on keywords).  An optional number is a set of *)
(* at most one.  Column names and words that match by containment count as *)
(* equal; a text and a keyword are sequences of words.                     *)
(***************************************************************************)
EXTENDS Naturals, Sequences, FiniteSets

CONSTANTS
    File,       \* the files that may be found, records
    Asked,      \* criteria, records
    MaxFiles    \* bound on the files of a listing

ASSUME RulesAssumption ==
    /\ MaxFiles \in Nat
    /\ \A f \in File : f.rows \in Nat /\ Len(f.words) \in Nat
    /\ \A c \in Asked :
        /\ c.param \subseteq Nat /\ c.text \subseteq Nat
        /\ \A k \in c.keywords \cup c.textKeywords : Len(k) \in Nat \ {0}

VARIABLE files  \* evidence_files and evidence_metadata: every file gets metadata

RulesInit == files = <<>>

\* discovery_node lists one more file.
Find(f) ==
    /\ Len(files) < MaxFiles
    /\ files' = Append(files, f)

RulesNext == \E f \in File : Find(f)

RulesSpec == RulesInit /\ [][RulesNext]_files
-----------------------------------------------------------------------------
(* What a criterion asks for *)

Table == {"spreadsheet", "csv", "json"}
Text == {"pdf", "document", "text"}

Number(c, default) == IF c.param # {} THEN c.param ELSE IF c.text # {} THEN c.text ELSE default
Given(c) == IF c.names # {} THEN c.names ELSE c.textNames

min_rows(c) == CHOOSE n \in Number(c, {1}) : TRUE
max_age_days(c) == Number(c, {})
min_populated(c) == CHOOSE n \in Number(c, {95}) : TRUE
threshold_value(c) == Number(c, {})
required_columns(c) == Given(c)
target_columns(c) == Given(c)
required_keywords(c) == IF c.keywords # {} THEN c.keywords ELSE c.textKeywords
name_pattern(c) == Given(c)

\* Types of a file that can be evidence of a kind; no type is excluded for other kinds.
AcceptableTypes(kind) ==
    CASE kind = "document" -> Text
      [] kind = "structured_data" -> Table
      [] kind = "unstructured" -> Text \cup {"image"}
      [] OTHER -> Text \cup Table \cup {"image", "unknown"}

\* _infer_check_type, by the phrases of the pass condition.
infer_check_type(c) ==
    CASE c.evidence = "document" /\ "exists" \in c.says -> "file_existence"
      [] c.evidence = "document" /\ "exists" \notin c.says /\ "months" \in c.says -> "freshness"
      [] c.evidence = "document" /\ c.says \cap {"exists", "months"} = {} /\ "covers" \in c.says -> "keyword_presence"
      [] c.evidence = "structured_data" ->
            IF "count" \in c.says THEN "row_count"
            ELSE IF "populated" \in c.says THEN "null_rate"
            ELSE IF "cross-reference" \in c.says THEN "cross_reference"
            ELSE IF "columns" \in c.says THEN "schema_presence"
            ELSE IF "within" \in c.says THEN "quantitative" ELSE "row_count"
      [] OTHER -> "none"
-----------------------------------------------------------------------------
(* The rules.  fs is the list of evidence. *)

First(I) == CHOOSE i \in I : \A j \in I : i <= j

\* The files that can be evidence of the criterion, by type.
Suitable(c, f) == f.type \in AcceptableTypes(c.evidence) \/ f.listed \in AcceptableTypes(c.evidence)

\* A file with a name and a type that will do, by its metadata or else by its listing.
check_file_existence(c, fs) ==
    LET named(f) == name_pattern(c) = {} \/ f.name \in name_pattern(c)
        fits(f) == named(f) /\ Suitable(c, f)
    IN  IF \E i \in 1 .. Len(fs) : fits(fs[i]) THEN "PASS" ELSE "FAIL"

\* discovery_node and EvidenceMetadata both take the present time: whatever its age, a file
\* seems to be as old as the evaluation.
AgeInDays(f) == 0

check_freshness(c, fs) ==
    LET fresh == {i \in 1 .. Len(fs) : \A n \in max_age_days(c) : AgeInDays(fs[i]) < n}
    IN  IF max_age_days(c) = {} \/ fs = <<>> THEN "NEEDS_JUDGMENT"
        ELSE IF fresh = 1 .. Len(fs) THEN "PASS"
        ELSE IF fresh = {} THEN "FAIL"
        ELSE "NEEDS_JUDGMENT"

TableColumns(fs) == {fs[i].columns : i \in {k \in 1 .. Len(fs) : fs[k].type \in Table}}

\* Mutant: a column must be in every table.
all_columns_common(fs) == {n \in UNION TableColumns(fs) : \A columns \in TableColumns(fs) : n \in columns}

all_columns(fs) == UNION TableColumns(fs)

check_schema_presence(c, fs) ==
    IF required_columns(c) = {} \/ all_columns(fs) = {} THEN "NEEDS_JUDGMENT"
    ELSE IF required_columns(c) \subseteq all_columns(fs) THEN "PASS" ELSE "FAIL"

\* The rows of the tables, each with the place of its file; their number is the sum of the
\* tables' row counts.
Rows(fs) == UNION {{i} \X (1 .. fs[i].rows) : i \in {k \in 1 .. Len(fs) : fs[k].type \in Table}}

total_rows(fs) == Cardinality(Rows(fs))

check_row_count(c, fs) ==
    IF total_rows(fs) = 0 THEN "FAIL"
    ELSE IF total_rows(fs) >= min_rows(c) THEN "PASS" ELSE "FAIL"

\* Columns that a table has statistics for; all of them if the criterion names none.
evaluate_null_rates(c, f) ==
    LET known == IF target_columns(c) = {} THEN DOMAIN f.populated ELSE target_columns(c) \cap DOMAIN f.populated
    IN  IF \E n \in known : f.populated[n] < min_populated(c) THEN "FAIL"
        ELSE IF known # {} THEN "PASS" ELSE "NEEDS_JUDGMENT"

\* The first table that has statistics or rows decides.  schema_info comes from the file and may
\* have any shape: a file is broken if the rules that look into it raise.
NullRateDecides(f) == f.type \in Table /\ (f.broken \/ DOMAIN f.populated # {} \/ (f.rows > 0 /\ f.columns # {}))
check_null_rate(c, fs) ==
    LET deciding == {i \in 1 .. Len(fs) : NullRateDecides(fs[i])}
    IN  IF deciding = {} THEN "NEEDS_JUDGMENT"
        ELSE IF fs[First(deciding)].broken THEN "raises"
        ELSE IF DOMAIN fs[First(deciding)].populated = {} THEN "NEEDS_JUDGMENT"
        ELSE evaluate_null_rates(c, fs[First(deciding)])

Joins(f) == f.type \in Table /\ f.columns # {}

\* Two tables share the named column, or any column if none is named.
Joinable(c, fs, tables) ==
    \E i \in tables, j \in tables : i # j /\
        IF c.names # {} THEN c.names \subseteq fs[i].columns \cap fs[j].columns
                        ELSE fs[i].columns \cap fs[j].columns # {}

\* Two tables that can be joined, and the first that brings the violations of the join.
check_cross_reference(c, fs) ==
    LET tables == {i \in 1 .. Len(fs) : Joins(fs[i])}
        found == {i \in tables : fs[i].violations # {} \/ fs[i].broken}
    IN  IF tables = {} THEN "FAIL"
        ELSE IF ~Joinable(c, fs, tables) \/ found = {} THEN "NEEDS_JUDGMENT"
        ELSE IF fs[First(found)].broken THEN "raises"
        ELSE IF fs[First(found)].violations = {0} THEN "PASS" ELSE "FAIL"

compare(actual, operator, threshold) ==
    CASE operator = ">=" -> actual >= threshold
      [] operator = "<" -> actual < threshold
      [] operator = ">" -> actual > threshold
      [] operator = "==" -> actual = threshold
      [] OTHER -> actual <= threshold

\* The first file that brings a metric of that name decides.
check_quantitative(c, fs) ==
    LET measured == {i \in 1 .. Len(fs) : fs[i].metric # {} \/ fs[i].broken}
    IN  IF measured = {} \/ threshold_value(c) = {} THEN "NEEDS_JUDGMENT"
        ELSE IF fs[First(measured)].broken THEN "raises"
        ELSE IF \A m \in fs[First(measured)].metric, t \in threshold_value(c) : compare(m, c.operator, t)
             THEN "PASS" ELSE "FAIL"

\* Mutant: only the first text is searched.
all_text_first(fs) ==
    LET texts == {i \in 1 .. Len(fs) : Len(fs[i].words) > 0}
    IN  UNION {{i} \X (1 .. Len(fs[i].words)) : i \in {k \in texts : k = First(texts)}}

\* The words of all texts, each by the place of its file and its own.
all_text(fs) == UNION {{i} \X (1 .. Len(fs[i].words)) : i \in 1 .. Len(fs)}

\* The texts are put together with a blank between them, in the order of the list: after the last
\* word of one comes the first of the next that has any.
Follows(fs, p, q) ==
    \/ q[1] = p[1] /\ q[2] = p[2] + 1
    \/ /\ p[1] < q[1] /\ p[2] = Len(fs[p[1]].words) /\ q[2] = 1
       /\ \A i \in p[1] + 1 .. q[1] - 1 : Len(fs[i].words) = 0

\* A keyword is in the text: its words are, one after the other, over the border of a file too.
Occurs(k, fs) ==
    \E at \in [1 .. Len(k) -> all_text(fs)] :
        /\ \A n \in 1 .. Len(k) : fs[at[n][1]].words[at[n][2]] = k[n]
        /\ \A n \in 1 .. Len(k) - 1 : Follows(fs, at[n], at[n + 1])

check_keyword_presence(c, fs) ==
    LET found == {k \in required_keywords(c) : Occurs(k, fs)}
    IN  IF required_keywords(c) = {} \/ all_text(fs) = {} THEN "NEEDS_JUDGMENT"
        ELSE IF found = required_keywords(c) THEN "PASS"
        ELSE IF found = {} THEN "FAIL"
        ELSE "NEEDS_JUDGMENT"

CheckType(c) == IF c.check # "" THEN c.check ELSE infer_check_type(c)

\* What the handler returns, or raises for what it finds in a file.
Handler(c, fs) ==
    CASE CheckType(c) = "file_existence" -> check_file_existence(c, fs)
      [] CheckType(c) = "freshness" -> check_freshness(c, fs)
      [] CheckType(c) = "schema_presence" -> check_schema_presence(c, fs)
      [] CheckType(c) = "row_count" -> check_row_count(c, fs)
      [] CheckType(c) = "null_rate" -> check_null_rate(c, fs)
      [] CheckType(c) = "cross_reference" -> check_cross_reference(c, fs)
      [] CheckType(c) = "quantitative" -> check_quantitative(c, fs)
      [] CheckType(c) = "keyword_presence" -> check_keyword_presence(c, fs)
      [] OTHER -> "NEEDS_JUDGMENT"

\* The handler fails the criterion before it looks at check_params of a wrong type.
FailsFirst(c, fs) ==
    CASE CheckType(c) = "file_existence" -> \A i \in 1 .. Len(fs) : ~Suitable(c, fs[i])
      [] CheckType(c) = "row_count" -> total_rows(fs) = 0
      [] CheckType(c) = "cross_reference" -> \A i \in 1 .. Len(fs) : ~Joins(fs[i])
      [] OTHER -> FALSE

\* dispatch_rule.  A rule that raises, for the criterion or for a file, leaves it to the models.
dispatch_rule(c, fs) ==
    IF (c.raises /\ ~FailsFirst(c, fs)) \/ Handler(c, fs) = "raises" THEN "NEEDS_JUDGMENT" ELSE Handler(c, fs)
-----------------------------------------------------------------------------
\* More evidence does not turn a criterion that a rule has passed into a failed one, as long as
\* it comes after what was there.
MoreEvidenceNeverFails ==
    [][\A c \in Asked : dispatch_rule(c, files) = "PASS" => dispatch_rule(c, files') # "FAIL"]_files

\* The files whose place in the list a rule looks at.
Deciding(c) ==
    CASE CheckType(c) = "null_rate" -> {f \in File : NullRateDecides(f)}
      [] CheckType(c) = "quantitative" -> {f \in File : f.metric # {} \/ f.broken}
      [] CheckType(c) = "cross_reference" -> {f \in File : Joins(f) /\ (f.violations # {} \/ f.broken)}
      [] OTHER -> {}

Permutation(n) == {p \in [1 .. n -> 1 .. n] : \A i, j \in 1 .. n : p[i] = p[j] => i = j}

\* The keywords of the criterion that the files have only together: found in one of the two
\* orders, and no file has it by itself.
AcrossFiles(c, fs, gs) ==
    {k \in required_keywords(c) : (Occurs(k, fs) \/ Occurs(k, gs)) /\ \A i \in 1 .. Len(fs) : ~Occurs(k, <<fs[i]>>)}

\* The listing comes from a set (discovery.py:72), so the same evidence arrives in another order
\* in another process.  The verdict is the same, unless two different files bring the statistics
\* of which the rule takes the first, or a keyword of several words begins at the end of one file
\* and ends at the beginning of another.
SameVerdictInAnyOrder ==
    \A c \in Asked : \A p \in Permutation(Len(files)) :
        LET other == [i \in 1 .. Len(files) |-> files[p[i]]]
        IN  dispatch_rule(c, files) # dispatch_rule(c, other) =>
                \/ Cardinality({files[i] : i \in 1 .. Len(files)} \cap Deciding(c)) > 1
                \/ CheckType(c) = "keyword_presence" /\ \E k \in AcrossFiles(c, files, other) : Len(k) > 1
=============================================================================
