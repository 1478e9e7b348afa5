---------------------------- MODULE Preprocessor ----------------------------
(***************************************************************************)
(* The preprocessor (preprocessor/src): files are uploaded to object       *)
(* storage, and the poller and the webhook handlers run process_file on    *)
(* them, on one event loop.  An action is the code between two awaits, so  *)
(* two workers may stand anywhere inside process_file of the same file.    *)
(*                                                                         *)
(* A content stands for its SHA-256.  What extraction finds is left out,   *)
(* an error it records in the metadata too, and so are statistics.  The    *)
(* poller runs only in trigger mode poll; the webhook route is served in   *)
(* every mode, and storage delivers, loses, repeats and delays its         *)
(* notifications as it likes.                                              *)
(***************************************************************************)
EXTENDS Naturals, FiniteSets

CONSTANTS
    File,           \* storage keys
    Unwatched,      \* those the poller leaves out: outside the watch prefix, or
                    \* named metadata.json, .processed or like a directory
    Content,        \* what may be uploaded
    Hook,           \* concurrent webhook requests
    Poller,         \* the one background task
    Oversized,      \* contents above max_file_size_mb
    Unsupported,    \* files of unknown type
    None,           \* no content: no file, no metadata.json, no tracker entry
    MaxUpload,      \* bound on the uploads of a behaviour
    MaxRestart      \* bound on the restarts of a behaviour

ASSUME PreprocessorAssumption ==
    /\ None \notin Content
    /\ Poller \notin Hook
    /\ Oversized \subseteq Content /\ Unsupported \subseteq File /\ Unwatched \subseteq File
    /\ MaxUpload \in Nat /\ MaxRestart \in Nat

Worker == Hook \cup {Poller}

VARIABLES
    mode,       \* trigger_mode of the settings (event starts nothing more than webhook)
    stored,     \* [File -> Content]: the object in storage, or None
    meta,       \* [File -> Content]: content_hash in its metadata.json, or None
    tracker,    \* [File -> Content]: IdempotencyTracker._processed, or None
    at,         \* [Worker -> PC]: the await each worker stands at
    file,       \* [Worker -> File]: file_key
    hash,       \* [Worker -> Content]: content_hash of the bytes it downloaded
    old,        \* [Worker -> Content]: content_hash in the existing_meta it read
    todo,       \* files of this poll cycle still to process
    uploads, restarts,
    done,       \* history, [File -> SUBSET Content]: contents that were extracted
    crossed     \* history: files whose write failed or met another worker's

vars == <<mode, stored, meta, tracker, at, file, hash, old, todo, uploads, restarts, done, crossed>>

\* polling: list_objects.  downloading: storage.get.  comparing: exists and
\* get_json.  compared: their reply.  extracting, writing (put_json), written (its reply), notifying.
PC == {"idle", "polling", "downloading", "comparing", "compared",
       "extracting", "writing", "written", "notifying"}

Init ==
    /\ mode \in {"poll", "webhook"}
    /\ stored = [f \in File |-> None]
    /\ meta = [f \in File |-> None]
    /\ tracker = [f \in File |-> None]
    /\ at = [w \in Worker |-> "idle"]
    /\ file = [w \in Worker |-> CHOOSE f \in File : TRUE]
    /\ hash = [w \in Worker |-> None]
    /\ old = [w \in Worker |-> None]
    /\ todo = {}
    /\ uploads = 0 /\ restarts = 0
    /\ done = [f \in File |-> {}]
    /\ crossed = {}
-----------------------------------------------------------------------------
\* A tenant uploads a file, or replaces one, possibly by what it held before; or
\* storage gains one of the keys that the poller leaves out.
Upload(f, c) ==
    /\ uploads < MaxUpload /\ stored[f] # c
    /\ stored' = [stored EXCEPT ![f] = c]
    /\ uploads' = uploads + 1
    /\ UNCHANGED <<mode, meta, tracker, at, file, hash, old, todo, restarts, done, crossed>>

\* _poll_once starts; a listing that fails ends the cycle.
StartPoll ==
    /\ mode = "poll"
    /\ at[Poller] = "idle" /\ todo = {}
    /\ at' = [at EXCEPT ![Poller] = "polling"]
    /\ UNCHANGED <<mode, stored, meta, tracker, file, hash, old, todo, uploads, restarts, done, crossed>>

Listed(ok) ==
    /\ at[Poller] = "polling"
    /\ todo' = IF ok THEN {f \in File \ Unwatched : stored[f] # None} ELSE {}
    /\ at' = [at EXCEPT ![Poller] = "idle"]
    /\ UNCHANGED <<mode, stored, meta, tracker, file, hash, old, uploads, restarts, done, crossed>>

\* The poller takes the files of its list one after the other; a webhook
\* request handles the key of its notification, whatever it is (webhook.py:45
\* says "within the configured watch prefix", but line 74 asks nothing).
Begin(w, f) ==
    /\ at[w] = "idle"
    /\ w = Poller => f \in todo
    /\ w # Poller => stored[f] # None
    /\ todo' = IF w = Poller THEN todo \ {f} ELSE todo
    /\ at' = [at EXCEPT ![w] = "downloading"]
    /\ file' = [file EXCEPT ![w] = f]
    /\ UNCHANGED <<mode, stored, meta, tracker, hash, old, uploads, restarts, done, crossed>>

\* process_file returns or raises; its callers log the exception and go on.
Leave(w) ==
    /\ at' = [at EXCEPT ![w] = "idle"]
    /\ hash' = [hash EXCEPT ![w] = None]
    /\ old' = [old EXCEPT ![w] = None]

DownloadFails(w) ==
    /\ at[w] = "downloading"
    /\ Leave(w)
    /\ UNCHANGED <<mode, stored, meta, tracker, file, todo, uploads, restarts, done, crossed>>

\* A file that is too large raises: process_file calls _build_error_metadata,
\* which the class does not define.
Downloaded(w) ==
    /\ at[w] = "downloading"
    /\ IF stored[file[w]] \in Oversized
       THEN Leave(w)
       ELSE /\ at' = [at EXCEPT ![w] = "comparing"]
            /\ hash' = [hash EXCEPT ![w] = stored[file[w]]]
            /\ UNCHANGED old
    /\ UNCHANGED <<mode, stored, meta, tracker, file, todo, uploads, restarts, done, crossed>>

\* Mutant: the tracker remembers keys only.
is_processed_by_key(f, h) == tracker[f] # None

is_processed(f, h) == tracker[f] = h

\* exists and get_json take effect, or fail.
Read(w, ok) ==
    /\ at[w] = "comparing"
    /\ at' = [at EXCEPT ![w] = "compared"]
    /\ old' = [old EXCEPT ![w] = IF ok THEN meta[file[w]] ELSE None]
    /\ UNCHANGED <<mode, stored, meta, tracker, file, hash, todo, uploads, restarts, done, crossed>>

\* Their reply: the same content_hash means skip, and so does a tracker entry
\* with it; a file of unknown type is skipped too.
Compared(w) ==
    LET f == file[w]
        same == old[w] = hash[w]
    IN  /\ at[w] = "compared"
        /\ tracker' = IF same THEN [tracker EXCEPT ![f] = hash[w]] ELSE tracker
        /\ IF same \/ is_processed(f, hash[w]) \/ f \in Unsupported
           THEN Leave(w)
           ELSE at' = [at EXCEPT ![w] = "extracting"] /\ UNCHANGED <<hash, old>>
        /\ UNCHANGED <<mode, stored, meta, file, todo, uploads, restarts, done, crossed>>

\* _extract_and_build_metadata returns metadata, with an error or without.
Extracted(w) ==
    /\ at[w] = "extracting"
    /\ at' = [at EXCEPT ![w] = "writing"]
    /\ done' = [done EXCEPT ![file[w]] = @ \cup {hash[w]}]
    /\ UNCHANGED <<mode, stored, meta, tracker, file, hash, old, todo, uploads, restarts, crossed>>

\* Workers that have read or written the file's metadata.json and whose tracker
\* entry is still to come.
Unmarked(f) == {w \in Worker : at[w] \in {"compared", "written"} /\ file[w] = f}

\* put_json takes effect, or fails, which _write_metadata logs and forgets.
Write(w, ok) ==
    LET f == file[w]
    IN  /\ at[w] = "writing"
        /\ at' = [at EXCEPT ![w] = "written"]
        /\ meta' = IF ok THEN [meta EXCEPT ![f] = hash[w]] ELSE meta
        /\ crossed' = IF ok /\ Unmarked(f) = {} THEN crossed ELSE crossed \cup {f}
        /\ UNCHANGED <<mode, stored, tracker, file, hash, old, todo, uploads, restarts, done>>

\* Mutant: the tracker takes what storage holds by now.
Mark_current(w) ==
    /\ at[w] = "written"
    /\ tracker' = [tracker EXCEPT ![file[w]] = stored[file[w]]]
    /\ at' = [at EXCEPT ![w] = "notifying"]
    /\ UNCHANGED <<mode, stored, meta, file, hash, old, todo, uploads, restarts, done, crossed>>

\* put_json returns: mark_processed.
Mark(w) ==
    /\ at[w] = "written"
    /\ tracker' = [tracker EXCEPT ![file[w]] = hash[w]]
    /\ at' = [at EXCEPT ![w] = "notifying"]
    /\ UNCHANGED <<mode, stored, meta, file, hash, old, todo, uploads, restarts, done, crossed>>

\* Memory and event notifications, best effort.  With a gateway configured,
\* policy analysis raises on metadata.text_content, which FileMetadata lacks.
Notified(w) ==
    /\ at[w] = "notifying"
    /\ Leave(w)
    /\ UNCHANGED <<mode, stored, meta, tracker, file, todo, uploads, restarts, done, crossed>>

\* The process restarts: the tracker and the workers are gone.
Restart ==
    /\ restarts < MaxRestart
    /\ restarts' = restarts + 1
    /\ tracker' = [f \in File |-> None]
    /\ at' = [w \in Worker |-> "idle"]
    /\ hash' = [w \in Worker |-> None]
    /\ old' = [w \in Worker |-> None]
    /\ todo' = {}
    /\ UNCHANGED <<mode, stored, meta, file, uploads, done, crossed>>

\* What a worker inside process_file does next.
Step(w) ==
    \/ Downloaded(w) \/ DownloadFails(w)
    \/ Compared(w) \/ Extracted(w) \/ Mark(w) \/ Notified(w)
    \/ \E ok \in BOOLEAN : Read(w, ok) \/ Write(w, ok)

Next ==
    \/ \E f \in File, c \in Content : Upload(f, c)
    \/ StartPoll
    \/ \E ok \in BOOLEAN : Listed(ok)
    \/ \E w \in Worker, f \in File : Begin(w, f)
    \/ \E w \in Worker : Step(w)
    \/ Restart

Spec == Init /\ [][Next]_vars

-----------------------------------------------------------------------------
\* REQUIREMENTS.md:119, "Skip already-processed files unless content hash
\* changed": a supported file is skipped only when exactly the content that the
\* worker downloaded was extracted before, in this process or an earlier one.
SkipsOnlyDone ==
    [][\A w \in Worker :
        at[w] = "compared" /\ at'[w] = "idle" /\ restarts' = restarts
            => file[w] \in Unsupported \/ hash[w] \in done[file[w]]]_vars

Quiet(f) == \A w \in Worker : at[w] \in {"idle", "polling"} \/ file[w] # f

\* The tracker hides a stale metadata.json, so that the file is skipped until
\* the next restart, only if a write failed or came while another worker had
\* read or written the metadata and not yet marked the file: not through
\* uploads, skips, retries or restarts alone (IdempotencyTracker).
HiddenOnlyByLoss ==
    \A f \in File : (Quiet(f) /\ tracker[f] # None /\ tracker[f] # meta[f]) => f \in crossed

\* With trigger_mode poll, whatever notifications are lost or repeated and
\* however workers interleave, every content that stays below the watch prefix
\* is put through extraction, which may record an error, or is replaced.  In the
\* other modes a lost notification is never made up for.
ContentExtracted ==
    \A f \in File \ (Unsupported \cup Unwatched), c \in Content \ Oversized :
        mode = "poll" /\ stored[f] = c ~> c \in done[f] \/ stored[f] # c
=============================================================================
