----------------------------- MODULE LogIngest -----------------------------
(***************************************************************************)
(* The observer's LogIngestor (observer/src/detection/log_ingestor.py) and *)
(* the three scheduled jobs that read the gateway's log through the one    *)
(* instance that lifespan creates.                                         *)
(*                                                                         *)
(* The log file is a run of numbered lines; the last one may be half       *)
(* written when a job reads.  An offset is the number of lines before it   *)
(* and whether it lies inside the next line.  ingest() does not await, so  *)
(* a read is one step.                                                     *)
(***************************************************************************)
EXTENDS Naturals

CONSTANTS
    MaxLine,        \* bound on the lines written
    MaxRestarts     \* bound on the restarts of the observer

ASSUME IngestAssumption == MaxLine \in Nat /\ MaxRestarts \in Nat

Line == 1 .. MaxLine

VARIABLES
    first,      \* lines up to this one went with a rotated file
    lines,      \* lines completely written so far
    half,       \* the next line is half written
    inode,      \* generation of the file
    offset,     \* _offsets of the file: [inode, at, inside], or NoOffset
    restarts,   \* history: restarts of the observer
    copies,     \* history: [Line -> how often a job was given it]
    skipped,    \* history: lines older than the cutoff of a read without offset
    torn,       \* history: lines that were half written when a job read
    lost        \* history: lines no read had reached when their file was rotated

ingestVars == <<first, lines, half, inode, offset, restarts, copies, skipped, torn, lost>>

NoOffset == [inode |-> 0, at |-> 0, inside |-> FALSE]

IngestInit ==
    /\ first = 0 /\ lines = 0 /\ half = FALSE /\ inode = 1
    /\ offset = NoOffset
    /\ restarts = 0
    /\ copies = [l \in Line |-> 0]
    /\ skipped = {} /\ torn = {} /\ lost = {}

\* The gateway appends to its log, a line at a time or part of one.
WriteLine ==
    /\ lines < MaxLine
    /\ lines' = lines + 1
    /\ half' = FALSE
    /\ UNCHANGED <<first, inode, offset, restarts, copies, skipped, torn, lost>>

WriteHalf ==
    /\ lines < MaxLine /\ ~half
    /\ half' = TRUE
    /\ UNCHANGED <<first, lines, inode, offset, restarts, copies, skipped, torn, lost>>

Known == offset.inode = inode

\* Mutant: the seek is forgotten.
From_start == first

\* Where _read_file starts: after a change of inode, at the beginning.
From == IF Known THEN offset.at ELSE first

\* The file is moved aside, to a name that *.jsonl does not match, and a new one
\* started.  What the jobs had not read of it they never will.
Rotate ==
    /\ ~half /\ first < lines
    /\ first' = lines
    /\ inode' = inode + 1
    /\ lost' = lost \cup (From + 1 .. lines)
    /\ UNCHANGED <<lines, half, offset, restarts, copies, skipped, torn>>

\* The complete lines after the offset that json.loads accepts: not the rest of
\* a line the last read ended in.
Readable == {l \in From + 1 .. lines : ~(Known /\ offset.inside /\ l = From + 1)}

\* fh.tell() at the end of the file.
FileOffset == [inode |-> inode, at |-> lines, inside |-> half]

\* One of the jobs reads to the end of the file.  Without an offset it drops the
\* lines older than its cutoff: a prefix, up to line k.
Read(k) ==
    /\ k \in first .. lines
    /\ Known => k = first
    /\ LET old == {l \in Readable : l <= k}
       IN  /\ copies' = [l \in Line |-> IF l \in Readable \ old THEN copies[l] + 1 ELSE copies[l]]
           /\ skipped' = skipped \cup old
    /\ torn' = IF half THEN torn \cup {lines + 1} ELSE torn
    /\ offset' = FileOffset
    /\ UNCHANGED <<first, lines, half, inode, restarts, lost>>

\* A restarted observer has no offsets (restore_offsets is never called).
RestartIngest ==
    /\ restarts < MaxRestarts
    /\ restarts' = restarts + 1
    /\ offset' = NoOffset
    /\ UNCHANGED <<first, lines, half, inode, copies, skipped, torn, lost>>

IngestNext ==
    \/ WriteLine
    \/ WriteHalf
    \/ Rotate
    \/ \E k \in 0 .. MaxLine : Read(k)
    \/ RestartIngest

IngestSpec == IngestInit /\ [][IngestNext]_ingestVars
-----------------------------------------------------------------------------
\* Whatever the order of the jobs, rotations and restarts, a line is given to a
\* job at most once in each life of the observer process, and only a restart can
\* repeat it; and of the lines that the next read will not reach, each went to a
\* job, was older than the cutoff of a first read, was half written when a job
\* read, or was not yet read when its file was rotated (log_ingestor.py:3 says
\* that rotation is handled gracefully).
LinesReadOnce ==
    /\ \A l \in Line : copies[l] <= restarts + (IF l <= From THEN 1 ELSE 0)
    /\ \A l \in 1 .. From : copies[l] > 0 \/ l \in skipped \cup torn \cup lost
=============================================================================
