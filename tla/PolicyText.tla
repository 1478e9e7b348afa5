----------------------------- MODULE PolicyText -----------------------------
(***************************************************************************)
(* The pure parts of the policy analysis (preprocessor/src/                *)
(* policy_analysis): how a section is cut into chunks, and what becomes of *)
(* the weights in the model's reply.                                       *)
(*                                                                         *)
(* A character is what the code looks for, or "x".  A slice of the section *)
(* is its first and last position.  Weights are thousandths.               *)
(***************************************************************************)
EXTENDS Integers, Sequences, FiniteSets

CONSTANTS
    MaxChars,       \* bound on the characters of a section
    Cut,            \* _MAX_SECTION_CHARS
    RawWeight,      \* weights in the model's reply
    NotNumber,      \* one that is not a number
    MaxCriteria     \* bound on the criteria of a reply

ASSUME TextAssumption ==
    /\ MaxChars \in Nat /\ Cut \in Nat \ {0}
    /\ \A w \in RawWeight \ {NotNumber} : w \in Int

VARIABLES
    content,    \* the text of a section
    loop,       \* "typing" the section, "cutting" it
    remaining,  \* the slice that is not cut yet
    cuts,       \* the slices cut so far
    rounds,     \* rounds of the loop so far
    weights     \* the weights of a reply

chunkVars == <<content, loop, remaining, cuts, rounds>>
textVars == <<chunkVars, weights>>

Char == {"x", " ", "\n", "."}
Blank == [from |-> 1, to |-> 0]

ChunkInit == content = <<>> /\ loop = "typing" /\ remaining = Blank /\ cuts = <<>> /\ rounds = 0
TextInit == ChunkInit /\ weights = <<>>

\* The inputs are built up element by element.
AddChar(c) ==
    /\ loop = "typing" /\ Len(content) < MaxChars
    /\ content' = Append(content, c)
    /\ UNCHANGED <<loop, remaining, cuts, rounds, weights>>
AddWeight(w) == Len(weights) < MaxCriteria /\ weights' = Append(weights, w) /\ UNCHANGED chunkVars
-----------------------------------------------------------------------------
(* Chunks *)

Space == {" ", "\n"}

\* Positions a to b that are not white space.
Ink(a, b) == {i \in a .. b : content[i] \notin Space}

strip(a, b) ==
    IF Ink(a, b) = {} THEN Blank
    ELSE [from |-> CHOOSE i \in Ink(a, b) : \A j \in Ink(a, b) : i <= j,
          to |-> CHOOSE i \in Ink(a, b) : \A j \in Ink(a, b) : j <= i]

Length(s) == s.to - s.from + 1

\* rfind(x y) in the first Cut characters from position a on, with Python's indices: -1 if not found.
rfind(a, x, y) ==
    LET found == {i \in 0 .. Cut - 2 : content[a + i] = x /\ content[a + i + 1] = y}
    IN  IF found = {} THEN -1 ELSE CHOOSE i \in found : \A j \in found : j <= i

split_point(a) ==
    IF rfind(a, "\n", "\n") >= Cut \div 2 THEN rfind(a, "\n", "\n")
    ELSE IF rfind(a, ".", " ") >= Cut \div 2 THEN rfind(a, ".", " ") ELSE Cut

\* Mutant: the character at the cut belongs to neither side.
Chunk_short(a) == strip(a, a + split_point(a) - 1)

\* remaining[: split_point + 1].strip()
Chunk(a) == strip(a, a + split_point(a))

\* A section with text in it comes to _split_content, stripped (structural_parser.py:156, 186).
BeginSplit ==
    /\ loop = "typing" /\ Ink(1, Len(content)) # {}
    /\ loop' = "cutting" /\ remaining' = strip(1, Len(content))
    /\ UNCHANGED <<content, cuts, rounds, weights>>

\* One round of the loop while remaining.
split_content ==
    /\ loop = "cutting" /\ remaining # Blank
    /\ IF Length(remaining) <= Cut
       THEN cuts' = Append(cuts, remaining) /\ remaining' = Blank
       ELSE /\ cuts' = IF Chunk(remaining.from) = Blank THEN cuts ELSE Append(cuts, Chunk(remaining.from))
            /\ remaining' = strip(remaining.from + split_point(remaining.from) + 1, remaining.to)
    /\ rounds' = rounds + 1
    /\ UNCHANGED <<content, loop, weights>>

ChunkNext == (\E c \in Char : AddChar(c)) \/ BeginSplit \/ split_content
ChunkSpec == ChunkInit /\ [][ChunkNext]_chunkVars
-----------------------------------------------------------------------------
(* Weights *)

clamp_weight(w) == IF w = NotNumber THEN 200 ELSE IF w < 50 THEN 50 ELSE IF w > 300 THEN 300 ELSE w

\* sum() of weights, none of which is negative: their thousandths, counted.
Thousandths(ws) == UNION {{i} \X (1 .. ws[i]) : i \in DOMAIN ws}
total(ws) == Cardinality(Thousandths(ws))

Rounded(a, b) == (2 * a + b) \div (2 * b)

\* Mutant: weights that sum to less are left alone.
normalize_weights_down(ws) ==
    IF total(ws) <= 1050 THEN ws ELSE [i \in DOMAIN ws |-> Rounded(1000 * ws[i], total(ws))]

normalize_weights(ws) ==
    IF ws = <<>> THEN ws
    ELSE IF total(ws) <= 0 THEN [i \in DOMAIN ws |-> Rounded(1000, Len(ws))]
    ELSE IF total(ws) \in 950 .. 1050 THEN ws
    ELSE [i \in DOMAIN ws |-> Rounded(1000 * ws[i], total(ws))]

build_weights == normalize_weights([i \in DOMAIN weights |-> clamp_weight(weights[i])])

WeightSpec == weights = <<>> /\ [][\E w \in RawWeight : AddWeight(w)]_weights
-----------------------------------------------------------------------------
\* Chunks lose nothing but white space between them, come in the order of the text, begin and
\* end with text, and none is longer than one character above the limit: a cut inside a word
\* takes a character more than "at most _MAX_SECTION_CHARS" (graph_extractor.py:344).
ChunksKeepText ==
    loop = "cutting" =>
        /\ \A i \in Ink(1, Len(content)) :
              \/ \E k \in DOMAIN cuts : i \in cuts[k].from .. cuts[k].to
              \/ i \in remaining.from .. remaining.to
        /\ \A k \in DOMAIN cuts :
              /\ {cuts[k].from, cuts[k].to} \subseteq Ink(1, Len(content)) /\ Length(cuts[k]) \in 1 .. Cut + 1
              /\ \A m \in DOMAIN cuts : k < m => cuts[k].to < cuts[m].from
              /\ remaining # Blank => cuts[k].to < remaining.from

\* Every round but the last takes more than half of the limit off the text: the loop ends, also
\* when no paragraph and no sentence ends in time, and a section costs so many calls at most.
RoundsBounded == rounds = 0 \/ (rounds - 1) * (Cut \div 2 + 1) < Len(content)

\* Whatever weights the model gives, "must sum to ~1.0" (criteria_generator.py:38) holds of the
\* weights that agent-eval will score with: within the tolerance, or, for a reply with more
\* criteria than the prompt asks for, within half a thousandth for each of them.
WeightsSumToOne ==
    weights # <<>> =>
        LET t == total(build_weights)
            n == Len(weights)
        IN  t \in 950 .. 1050 \/ 2 * t \in 2000 - n .. 2000 + n
=============================================================================
