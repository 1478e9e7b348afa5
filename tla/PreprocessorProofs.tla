------------------------- MODULE PreprocessorProofs -------------------------
(***************************************************************************)
(* The preprocessor's ingestion, for any files, contents and workers: a    *)
(* file is skipped only for a content that was extracted, and its tracker  *)
(* entry hides a stale metadata.json only after a failed or crossed write. *)
(* And its policy analysis, for any documents, controls and reviewers: a   *)
(* decision undoes only what was written after it had read.  The chunks of *)
(* a section keep its text and the loop that cuts them advances by more    *)
(* than half a chunk in each round; the normalised weights sum to one      *)
(* within the tolerance or half a thousandth for each weight.              *)
(***************************************************************************)
EXTENDS Preprocessor, Policy, PolicyText,
        FiniteSetTheorems, SequenceTheorems, WellFoundedInduction, TLAPS

TypeOK ==
    /\ stored \in [File -> Content \cup {None}]
    /\ meta \in [File -> Content \cup {None}]
    /\ tracker \in [File -> Content \cup {None}]
    /\ at \in [Worker -> PC]
    /\ file \in [Worker -> File \cup {CHOOSE f \in File : TRUE}]
    /\ hash \in [Worker -> Content \cup {None}]
    /\ old \in [Worker -> Content \cup {None}]
    /\ todo \subseteq {f \in File : stored[f] # None}
    /\ restarts \in Nat
    /\ done \in [File -> SUBSET Content]
    /\ crossed \subseteq File

\* What a worker carries across its awaits: the file exists, the hash is that
\* of a content, and a hash read from or written to metadata.json is of an
\* extracted one.
WorkerSound(w) ==
    /\ at[w] \notin {"idle", "polling"} => file[w] \in File /\ stored[file[w]] # None
    /\ at[w] \notin {"idle", "polling", "downloading"} => hash[w] # None
    /\ at[w] = "compared" /\ old[w] # None => old[w] \in done[file[w]]
    /\ at[w] \in {"writing", "written"} => hash[w] \in done[file[w]]

\* The tracker and metadata.json hold extracted contents only.
FileSound(f) ==
    /\ tracker[f] # None => tracker[f] \in done[f]
    /\ meta[f] # None => meta[f] \in done[f]

\* No write of the file failed or crossed another worker: a worker that has read
\* metadata.json and not acted on it has read what it holds, one that has
\* written it and not marked the file has written what it holds, and the tracker
\* agrees with it or is about to.
Agreed(f) ==
    /\ \A w \in Worker : at[w] = "compared" /\ file[w] = f => old[w] \in {None, meta[f]}
    /\ \A w \in Worker : at[w] = "written" /\ file[w] = f => hash[w] = meta[f]
    /\ \/ tracker[f] \in {None, meta[f]}
       \/ \E w \in Worker : at[w] = "written" /\ file[w] = f

IInv ==
    /\ TypeOK
    /\ \A w \in Worker : WorkerSound(w)
    /\ \A f \in File : FileSound(f)
    /\ \A f \in File \ crossed : Agreed(f)

LEMMA UploadStep ==
  ASSUME IInv, NEW f \in File, NEW c \in Content, Upload(f, c)
  PROVE  IInv'
  <1> USE PreprocessorAssumption
  <1>1. /\ stored' = [stored EXCEPT ![f] = c]
        /\ UNCHANGED <<meta, tracker, at, file, hash, old, todo, restarts, done, crossed>>
    BY DEF Upload
  <1>2. \A g \in File : stored[g] # None => stored'[g] # None
    BY <1>1 DEF IInv, TypeOK
  <1>3. TypeOK'
    BY <1>1, <1>2 DEF IInv, TypeOK
  <1>4. ASSUME NEW w \in Worker PROVE WorkerSound(w)'
    BY <1>1, <1>2 DEF IInv, WorkerSound
  <1>5. \A g \in File : FileSound(g)' /\ (g \notin crossed => Agreed(g)')
    BY <1>1 DEF IInv, FileSound, Agreed
  <1>6. QED
    BY <1>1, <1>3, <1>4, <1>5 DEF IInv

LEMMA PollStep ==
  ASSUME IInv, StartPoll \/ \E ok \in BOOLEAN : Listed(ok)
  PROVE  IInv'
  <1>1. /\ at[Poller] \in {"idle", "polling"}
        /\ UNCHANGED <<stored, meta, tracker, file, hash, old, restarts, done, crossed>>
        /\ \/ at' = [at EXCEPT ![Poller] = "idle"]
           \/ at' = [at EXCEPT ![Poller] = "polling"]
        /\ todo' \subseteq {f \in File : stored[f] # None}
    BY DEF StartPoll, Listed, IInv, TypeOK
  <1>2. Poller \in Worker
    BY DEF Worker
  <1>3. TypeOK'
    BY <1>1, <1>2 DEF IInv, TypeOK, PC
  <1>4. \A w \in Worker : at'[w] = at[w] \/ {at[w], at'[w]} \subseteq {"idle", "polling"}
    BY <1>1, <1>2 DEF IInv, TypeOK
  <1>5. ASSUME NEW w \in Worker PROVE WorkerSound(w)'
    BY <1>1, <1>4 DEF IInv, WorkerSound
  <1>6. \A w \in Worker : at'[w] \in {"compared", "written"} \/ at[w] \in {"compared", "written"}
                          => at'[w] = at[w]
    BY <1>4
  <1>7. ASSUME NEW f \in File \ crossed PROVE Agreed(f)'
    BY <1>1, <1>6 DEF IInv, Agreed
  <1>8. \A f \in File : FileSound(f)'
    BY <1>1 DEF IInv, FileSound
  <1>9. QED
    BY <1>1, <1>3, <1>5, <1>7, <1>8 DEF IInv

LEMMA BeginStep ==
  ASSUME IInv, NEW w \in Worker, NEW f \in File, Begin(w, f)
  PROVE  IInv'
  <1>1. /\ at[w] = "idle" /\ stored[f] # None
        /\ at' = [at EXCEPT ![w] = "downloading"]
        /\ file' = [file EXCEPT ![w] = f]
        /\ UNCHANGED <<stored, meta, tracker, hash, old, restarts, done, crossed>>
        /\ todo' \subseteq todo
    BY DEF Begin, IInv, TypeOK
  <1>2. TypeOK'
    BY <1>1 DEF IInv, TypeOK, PC
  <1>3. \A v \in Worker : v # w => at'[v] = at[v] /\ file'[v] = file[v]
    BY <1>1 DEF IInv, TypeOK
  <1>4. at'[w] = "downloading" /\ file'[w] = f
    BY <1>1 DEF IInv, TypeOK
  <1>5. ASSUME NEW v \in Worker PROVE WorkerSound(v)'
    BY <1>1, <1>3, <1>4 DEF IInv, WorkerSound
  <1>6. ASSUME NEW g \in File \ crossed PROVE Agreed(g)'
    BY <1>1, <1>3, <1>4 DEF IInv, Agreed
  <1>7. \A g \in File : FileSound(g)'
    BY <1>1 DEF IInv, FileSound
  <1>8. QED
    BY <1>1, <1>2, <1>5, <1>6, <1>7 DEF IInv

\* A worker that leaves process_file without having to mark it.
LEMMA LeaveStep ==
  ASSUME IInv, NEW w \in Worker, at[w] # "written", Leave(w),
         UNCHANGED <<stored, meta, tracker, file, todo, restarts, done, crossed>>
  PROVE  IInv'
  <1>1. TypeOK'
    BY DEF IInv, TypeOK, PC, Leave
  <1>2. \A v \in Worker : v # w => at'[v] = at[v] /\ hash'[v] = hash[v] /\ old'[v] = old[v]
    BY DEF IInv, TypeOK, Leave
  <1>3. at'[w] = "idle"
    BY DEF IInv, TypeOK, Leave
  <1>4. ASSUME NEW v \in Worker PROVE WorkerSound(v)'
    BY <1>2, <1>3 DEF IInv, WorkerSound
  <1>5. ASSUME NEW g \in File \ crossed PROVE Agreed(g)'
    BY <1>2, <1>3 DEF IInv, Agreed
  <1>6. \A g \in File : FileSound(g)'
    BY DEF IInv, FileSound
  <1>7. QED
    BY <1>1, <1>4, <1>5, <1>6 DEF IInv

LEMMA DownloadedStep ==
  ASSUME IInv, NEW w \in Worker, Downloaded(w)
  PROVE  IInv'
  <1>1. at[w] = "downloading" /\ file[w] \in File /\ stored[file[w]] # None
    BY DEF Downloaded, IInv, WorkerSound
  <1>2. CASE stored[file[w]] \in Oversized
    BY <1>1, <1>2, LeaveStep DEF Downloaded
  <1>3. CASE stored[file[w]] \notin Oversized
    <2>1. /\ at' = [at EXCEPT ![w] = "comparing"]
          /\ hash' = [hash EXCEPT ![w] = stored[file[w]]]
          /\ UNCHANGED <<stored, meta, tracker, file, old, todo, restarts, done, crossed>>
      BY <1>3 DEF Downloaded
    <2>2. TypeOK'
      BY <1>1, <2>1 DEF IInv, TypeOK, PC
    <2>3. \A v \in Worker : v # w => at'[v] = at[v] /\ hash'[v] = hash[v]
      BY <2>1 DEF IInv, TypeOK
    <2>4. at'[w] = "comparing" /\ hash'[w] = stored[file[w]]
      BY <2>1 DEF IInv, TypeOK
    <2>5. ASSUME NEW v \in Worker PROVE WorkerSound(v)'
      BY <1>1, <2>1, <2>3, <2>4 DEF IInv, WorkerSound
    <2>6. ASSUME NEW g \in File \ crossed PROVE Agreed(g)'
      BY <1>1, <2>1, <2>3, <2>4 DEF IInv, Agreed
    <2>7. \A g \in File : FileSound(g)'
      BY <2>1 DEF IInv, FileSound
    <2>8. QED
      BY <2>1, <2>2, <2>5, <2>6, <2>7 DEF IInv
  <1>4. QED
    BY <1>2, <1>3

LEMMA ReadStep ==
  ASSUME IInv, NEW w \in Worker, NEW ok \in BOOLEAN, Read(w, ok)
  PROVE  IInv'
  <1>1. /\ at[w] = "comparing" /\ file[w] \in File
        /\ at' = [at EXCEPT ![w] = "compared"]
        /\ UNCHANGED <<stored, meta, tracker, file, hash, todo, restarts, done, crossed>>
        /\ \/ old' = [old EXCEPT ![w] = meta[file[w]]]
           \/ old' = [old EXCEPT ![w] = None]
    BY DEF Read, IInv, WorkerSound
  <1>2. TypeOK'
    BY <1>1 DEF IInv, TypeOK, PC
  <1>3. \A v \in Worker : v # w => at'[v] = at[v] /\ old'[v] = old[v]
    BY <1>1 DEF IInv, TypeOK
  <1>4. at'[w] = "compared" /\ old'[w] \in {None, meta[file[w]]}
    BY <1>1 DEF IInv, TypeOK
  <1>5. ASSUME NEW v \in Worker PROVE WorkerSound(v)'
    BY <1>1, <1>3, <1>4 DEF IInv, WorkerSound, FileSound
  <1>6. ASSUME NEW g \in File \ crossed PROVE Agreed(g)'
    BY <1>1, <1>3, <1>4 DEF IInv, Agreed
  <1>7. \A g \in File : FileSound(g)'
    BY <1>1 DEF IInv, FileSound
  <1>8. QED
    BY <1>1, <1>2, <1>5, <1>6, <1>7 DEF IInv

\* What the comparison means: a skipped file of a known type was extracted with
\* exactly the content that the worker downloaded.
LEMMA SkipSound ==
  ASSUME IInv, NEW w \in Worker, at[w] = "compared",
         old[w] = hash[w] \/ is_processed(file[w], hash[w])
  PROVE  hash[w] \in done[file[w]]
  <1>1. file[w] \in File /\ hash[w] # None
    BY DEF IInv, WorkerSound
  <1>2. CASE old[w] = hash[w]
    BY <1>1, <1>2 DEF IInv, WorkerSound
  <1>3. CASE is_processed(file[w], hash[w])
    BY <1>1, <1>3 DEF is_processed, IInv, FileSound
  <1>4. QED
    BY <1>2, <1>3

LEMMA ComparedStep ==
  ASSUME IInv, NEW w \in Worker, Compared(w)
  PROVE  IInv'
  <1> DEFINE f == file[w]
             same == old[w] = hash[w]
             skip == same \/ is_processed(f, hash[w]) \/ f \in Unsupported
  <1>1. /\ at[w] = "compared"
        /\ tracker' = IF same THEN [tracker EXCEPT ![f] = hash[w]] ELSE tracker
        /\ IF skip THEN Leave(w)
           ELSE at' = [at EXCEPT ![w] = "extracting"] /\ UNCHANGED <<hash, old>>
        /\ UNCHANGED <<stored, meta, file, todo, restarts, done, crossed>>
    BY DEF Compared
  <1>2. f \in File /\ hash[w] # None /\ hash[w] \in Content /\ stored[f] # None
    BY <1>1 DEF IInv, WorkerSound, TypeOK
  <1>3. same => hash[w] \in done[f]
    BY <1>1, SkipSound
  <1>4. /\ at'[w] \in {"idle", "extracting"}
        /\ at' = [at EXCEPT ![w] = at'[w]]
        /\ at'[w] = "extracting" => hash'[w] = hash[w]
        /\ \A v \in Worker : v # w => at'[v] = at[v] /\ hash'[v] = hash[v] /\ old'[v] = old[v]
        /\ hash' \in [Worker -> Content \cup {None}]
        /\ old' \in [Worker -> Content \cup {None}]
    <2>1. CASE skip
      BY <1>1, <2>1 DEF Leave, IInv, TypeOK
    <2>2. CASE ~skip
      BY <1>1, <2>2 DEF IInv, TypeOK
    <2>3. QED
      BY <2>1, <2>2
  <1>5. \A g \in File : tracker'[g] = tracker[g] \/ (g = f /\ same /\ tracker'[g] = hash[w])
    BY <1>1, <1>2 DEF IInv, TypeOK
  <1>6. TypeOK'
    BY <1>1, <1>2, <1>4 DEF IInv, TypeOK, PC
  <1>7. ASSUME NEW v \in Worker PROVE WorkerSound(v)'
    BY <1>1, <1>2, <1>4 DEF IInv, WorkerSound
  <1>8. ASSUME NEW g \in File PROVE FileSound(g)'
    BY <1>1, <1>3, <1>5 DEF IInv, FileSound
  <1>9. ASSUME NEW g \in File \ crossed PROVE Agreed(g)'
    <2>1. Agreed(g)
      BY DEF IInv
    <2>2. tracker'[g] = tracker[g] \/ tracker'[g] = meta[g]
      <3>1. CASE g = f /\ same
        BY <1>1, <1>2, <1>5, <2>1, <3>1 DEF Agreed
      <3>2. CASE ~(g = f /\ same)
        BY <1>5, <3>2
      <3>3. QED
        BY <3>1, <3>2
    <2>3. \A v \in Worker : at'[v] \in {"compared", "written"} => v # w
      BY <1>4
    <2>4. \A v \in Worker : at[v] = "written" => at'[v] = "written"
      BY <1>1, <1>4
    <2>5. QED
      BY <1>1, <1>4, <2>1, <2>2, <2>3, <2>4 DEF Agreed
  <1>10. QED
    BY <1>1, <1>6, <1>7, <1>8, <1>9 DEF IInv

LEMMA ExtractedStep ==
  ASSUME IInv, NEW w \in Worker, Extracted(w)
  PROVE  IInv'
  <1>1. /\ at[w] = "extracting"
        /\ at' = [at EXCEPT ![w] = "writing"]
        /\ done' = [done EXCEPT ![file[w]] = @ \cup {hash[w]}]
        /\ UNCHANGED <<stored, meta, tracker, file, hash, old, todo, restarts, crossed>>
    BY DEF Extracted
  <1>2. file[w] \in File /\ hash[w] \in Content
    BY <1>1 DEF IInv, WorkerSound, TypeOK
  <1>3. TypeOK'
    BY <1>1, <1>2 DEF IInv, TypeOK, PC
  <1>4. /\ at'[w] = "writing" /\ hash[w] \in done'[file[w]]
        /\ \A v \in Worker : v # w => at'[v] = at[v]
        /\ \A g \in File : done[g] \subseteq done'[g]
    BY <1>1, <1>2 DEF IInv, TypeOK
  <1>5. ASSUME NEW v \in Worker PROVE WorkerSound(v)'
    BY <1>1, <1>2, <1>4 DEF IInv, WorkerSound
  <1>6. ASSUME NEW g \in File PROVE FileSound(g)'
    BY <1>1, <1>4 DEF IInv, FileSound
  <1>7. ASSUME NEW g \in File \ crossed PROVE Agreed(g)'
    BY <1>1, <1>4 DEF IInv, Agreed
  <1>8. QED
    BY <1>1, <1>3, <1>5, <1>6, <1>7 DEF IInv

LEMMA WriteStep ==
  ASSUME IInv, NEW w \in Worker, NEW ok \in BOOLEAN, Write(w, ok)
  PROVE  IInv'
  <1> DEFINE f == file[w]
  <1>1. /\ at[w] = "writing"
        /\ at' = [at EXCEPT ![w] = "written"]
        /\ meta' = IF ok THEN [meta EXCEPT ![f] = hash[w]] ELSE meta
        /\ crossed' = IF ok /\ Unmarked(f) = {} THEN crossed ELSE crossed \cup {f}
        /\ UNCHANGED <<stored, tracker, file, hash, old, todo, restarts, done>>
    BY DEF Write
  <1>2. f \in File /\ hash[w] \in Content /\ hash[w] \in done[f]
    BY <1>1 DEF IInv, WorkerSound, TypeOK
  <1>3. TypeOK'
    <2>1. meta' \in [File -> Content \cup {None}] /\ crossed' \subseteq File
      BY <1>1, <1>2 DEF IInv, TypeOK
    <2>2. QED
      BY <1>1, <2>1 DEF IInv, TypeOK, PC
  <1>4. at'[w] = "written" /\ \A v \in Worker : v # w => at'[v] = at[v]
    BY <1>1 DEF IInv, TypeOK
  <1>5. ASSUME NEW v \in Worker PROVE WorkerSound(v)'
    BY <1>1, <1>2, <1>4 DEF IInv, WorkerSound
  <1>6. \A g \in File : meta'[g] = meta[g] \/ (g = f /\ meta'[g] = hash[w])
    BY <1>1, <1>2 DEF IInv, TypeOK
  <1>7. ASSUME NEW g \in File PROVE FileSound(g)'
    BY <1>1, <1>2, <1>6 DEF IInv, FileSound
  <1>8. ASSUME NEW g \in File \ crossed' PROVE Agreed(g)'
    <2>1. g \in File \ crossed /\ Agreed(g)
      BY <1>1, <1>8 DEF IInv
    <2>2. CASE g = f
      <3>1. ok /\ Unmarked(f) = {}
        BY <1>1, <1>8, <2>2
      <3>2. meta'[f] = hash[w]
        BY <1>1, <1>2, <3>1 DEF IInv, TypeOK
      <3>3. \A v \in Worker : at[v] \in {"compared", "written"} => file[v] # f
        BY <3>1 DEF Unmarked
      <3>4. QED
        BY <1>1, <1>4, <2>2, <3>2, <3>3 DEF Agreed
    <2>3. CASE g # f
      <3>1. meta'[g] = meta[g]
        BY <1>6, <2>3
      <3>2. \A v \in Worker : file[v] = g => at'[v] = at[v]
        BY <1>4, <2>3
      <3>3. QED
        BY <1>1, <2>1, <3>1, <3>2 DEF Agreed
    <2>4. QED
      BY <2>2, <2>3
  <1>9. QED
    BY <1>1, <1>3, <1>5, <1>7, <1>8 DEF IInv

LEMMA MarkStep ==
  ASSUME IInv, NEW w \in Worker, Mark(w)
  PROVE  IInv'
  <1> DEFINE f == file[w]
  <1>1. /\ at[w] = "written"
        /\ tracker' = [tracker EXCEPT ![f] = hash[w]]
        /\ at' = [at EXCEPT ![w] = "notifying"]
        /\ UNCHANGED <<stored, meta, file, hash, old, todo, restarts, done, crossed>>
    BY DEF Mark
  <1>2. f \in File /\ hash[w] \in Content /\ hash[w] \in done[f]
    BY <1>1 DEF IInv, WorkerSound, TypeOK
  <1>3. TypeOK'
    BY <1>1, <1>2 DEF IInv, TypeOK, PC
  <1>4. /\ at'[w] = "notifying" /\ \A v \in Worker : v # w => at'[v] = at[v]
        /\ tracker'[f] = hash[w] /\ \A g \in File : g # f => tracker'[g] = tracker[g]
    BY <1>1, <1>2 DEF IInv, TypeOK
  <1>5. ASSUME NEW v \in Worker PROVE WorkerSound(v)'
    BY <1>1, <1>4 DEF IInv, WorkerSound
  <1>6. ASSUME NEW g \in File PROVE FileSound(g)'
    BY <1>1, <1>2, <1>4 DEF IInv, FileSound
  <1>7. ASSUME NEW g \in File \ crossed PROVE Agreed(g)'
    <2>1. Agreed(g)
      BY DEF IInv
    <2>2. CASE g = f
      <3>1. tracker'[g] = meta[g]
        BY <1>1, <1>4, <2>1, <2>2 DEF Agreed
      <3>2. QED
        BY <1>1, <1>4, <2>1, <3>1 DEF Agreed
    <2>3. CASE g # f
      BY <1>1, <1>4, <2>1, <2>3 DEF Agreed
    <2>4. QED
      BY <2>2, <2>3
  <1>8. QED
    BY <1>1, <1>3, <1>5, <1>6, <1>7 DEF IInv

LEMMA RestartStep ==
  ASSUME IInv, Restart
  PROVE  IInv'
  <1>1. /\ tracker' = [f \in File |-> None]
        /\ at' = [w \in Worker |-> "idle"]
        /\ hash' = [w \in Worker |-> None]
        /\ old' = [w \in Worker |-> None]
        /\ todo' = {} /\ restarts' = restarts + 1
        /\ UNCHANGED <<stored, meta, file, done, crossed>>
    BY DEF Restart
  <1>2. TypeOK'
    BY <1>1 DEF IInv, TypeOK, PC
  <1>3. \A w \in Worker : WorkerSound(w)'
    BY <1>1 DEF WorkerSound
  <1>4. \A f \in File : FileSound(f)' /\ Agreed(f)'
    BY <1>1 DEF IInv, FileSound, Agreed
  <1>5. QED
    BY <1>1, <1>2, <1>3, <1>4 DEF IInv

LEMMA StepInductive == IInv /\ [Next]_vars => IInv'
  <1> SUFFICES ASSUME IInv, [Next]_vars PROVE IInv'
    OBVIOUS
  <1>1. ASSUME NEW w \in Worker, Step(w) PROVE IInv'
    <2>1. ASSUME NEW ok \in BOOLEAN, Read(w, ok) \/ Write(w, ok) PROVE IInv'
      BY <2>1, ReadStep, WriteStep
    <2>2. ASSUME DownloadFails(w) \/ Notified(w) PROVE IInv'
      BY <2>2, LeaveStep DEF DownloadFails, Notified
    <2>3. QED
      BY <1>1, <2>1, <2>2, DownloadedStep, ComparedStep, ExtractedStep, MarkStep DEF Step
  <1>2. CASE UNCHANGED vars
    BY <1>2 DEF vars, IInv, TypeOK, WorkerSound, FileSound, Agreed
  <1>3. QED
    BY <1>1, <1>2, UploadStep, PollStep, BeginStep, RestartStep DEF Next

LEMMA Inductive == Spec => []IInv
  <1>1. Init => IInv
    BY DEF Init, IInv, TypeOK, PC, WorkerSound, FileSound, Agreed
  <1>2. QED
    BY <1>1, StepInductive, PTL DEF Spec

\* For any files, contents and number of concurrent webhook requests, process_file
\* returns early for a supported file only when the content it downloaded was
\* extracted before: neither a stale metadata.json nor a stale tracker entry makes
\* it skip a content nobody has seen.
THEOREM SkipsOnlyDoneTheorem == Spec => SkipsOnlyDone
  <1> DEFINE Skips == \A w \in Worker :
                 at[w] = "compared" /\ at'[w] = "idle" /\ restarts' = restarts
                     => file[w] \in Unsupported \/ hash[w] \in done[file[w]]
  <1>1. IInv /\ [Next]_vars => [Skips]_vars
    <2> SUFFICES ASSUME IInv, Next, NEW w \in Worker,
                        at[w] = "compared", at'[w] = "idle", restarts' = restarts
                 PROVE  file[w] \in Unsupported \/ hash[w] \in done[file[w]]
      OBVIOUS
    <2>1. at \in [Worker -> PC] /\ restarts \in Nat /\ Poller \in Worker
      BY DEF IInv, TypeOK, Worker
    <2>2. ~Restart
      BY <2>1 DEF Restart
    <2>3. ~(\E f \in File, c \in Content : Upload(f, c))
      BY DEF Upload
    <2>4. ~(StartPoll \/ \E ok \in BOOLEAN : Listed(ok))
      BY <2>1 DEF StartPoll, Listed
    <2>5. ~(\E v \in Worker, f \in File : Begin(v, f))
      BY <2>1 DEF Begin
    <2>6. PICK v \in Worker : Step(v)
      BY <2>2, <2>3, <2>4, <2>5 DEF Next
    <2>7. Compared(w)
      BY <2>1, <2>6 DEF Step, Downloaded, DownloadFails, Compared, Extracted, Mark, Notified,
                        Read, Write, Leave
    <2>8. old[w] = hash[w] \/ is_processed(file[w], hash[w]) \/ file[w] \in Unsupported
      BY <2>1, <2>7 DEF Compared
    <2>9. QED
      BY <2>8, SkipSound
  <1>2. QED
    BY <1>1, Inductive, PTL DEF Spec, SkipsOnlyDone

\* For any files and workers, a tracker entry disagrees with a quiet file's
\* metadata.json only after a put_json that failed or that crossed another
\* worker between its read or write and its mark_processed.
THEOREM HiddenOnlyByLossTheorem == Spec => []HiddenOnlyByLoss
  <1>1. IInv => HiddenOnlyByLoss
    <2> SUFFICES ASSUME IInv, NEW f \in File, Quiet(f), tracker[f] # None,
                        tracker[f] # meta[f], f \notin crossed
                 PROVE  FALSE
      BY DEF HiddenOnlyByLoss
    <2>1. QED
      BY DEF IInv, Agreed, Quiet
  <1>2. QED
    BY <1>1, Inductive, PTL
-----------------------------------------------------------------------------
CriteriaSet == [gen : Nat, status : {"none", "candidate", "approved", "rejected"}]

PolicyTypeOK ==
    /\ criteria \in [Control -> CriteriaSet]
    /\ generated \in Nat
    /\ draft \in [Document -> Nat]
    /\ call \in [Reviewer -> {"idle", "recalling", "storing"}]
    /\ verdict \in [Reviewer -> {"approved", "rejected"}]
    /\ subject \in [Reviewer -> Control \cup {CHOOSE c \in Control : TRUE}]
    /\ seen \in [Reviewer -> CriteriaSet]

\* A reviewer about to store decides on a control, on a set that its verdict
\* changes, and on the set that is stored unless that was written since.
ReviewerSound(v) ==
    /\ call[v] # "idle" => subject[v] \in Control
    /\ call[v] = "storing" => ~Settled(verdict[v], seen[v].status)
    /\ call[v] = "storing" /\ v \notin stale => seen[v] = criteria[subject[v]]

PolicyInv == PolicyTypeOK /\ \A v \in Reviewer : ReviewerSound(v)

\* Steps of a run that store nothing.
LEMMA QuietRunStep ==
  ASSUME PolicyInv, UNCHANGED <<criteria, reviewVars, stale>>,
         generated' \in Nat, draft' \in [Document -> Nat]
  PROVE  PolicyInv'
  BY DEF PolicyInv, PolicyTypeOK, ReviewerSound, reviewVars

\* What the two stores have in common: a write of one control makes every other
\* reviewer that has recalled it stale.
LEMMA WriteOutdates ==
  ASSUME PolicyInv, NEW c, NEW W \in SUBSET Reviewer, NEW v \in Reviewer \ W,
         call[v] = "storing", v \notin stale, v \notin Outdated(c, W),
         \A x \in Control : x # c => criteria'[x] = criteria[x]
  PROVE  seen[v] = criteria'[subject[v]]
  <1>1. subject[v] \in Control /\ seen[v] = criteria[subject[v]]
    BY DEF PolicyInv, ReviewerSound
  <1>2. subject[v] # c
    BY DEF Outdated
  <1>3. QED
    BY <1>1, <1>2

LEMMA StoreDraftStep ==
  ASSUME PolicyInv, NEW d \in Document, NEW took \in BOOLEAN, StoreDraft(d, took)
  PROVE  PolicyInv'
  <1> DEFINE c == about[d]
             new == [gen |-> draft[d], status |-> "candidate"]
  <1>1. /\ criteria' = IF took THEN [criteria EXCEPT ![c] = new] ELSE criteria
        /\ stale' = IF took THEN stale \cup Outdated(c, {}) ELSE stale
        /\ draft' = [draft EXCEPT ![d] = 0]
        /\ UNCHANGED <<generated, call, verdict, subject, seen>>
    BY DEF StoreDraft, reviewVars
  <1>2. new \in CriteriaSet
    BY DEF CriteriaSet, PolicyInv, PolicyTypeOK
  <1>3. PolicyTypeOK'
    BY <1>1, <1>2 DEF PolicyInv, PolicyTypeOK
  <1>4. ASSUME NEW v \in Reviewer PROVE ReviewerSound(v)'
    <2>1. CASE took
      <3>1. \A x \in Control : x # c => criteria'[x] = criteria[x]
        BY <1>1, <2>1 DEF PolicyInv, PolicyTypeOK
      <3>2. stale' = stale \cup Outdated(c, {})
        BY <1>1, <2>1
      <3>3. call[v] = "storing" /\ v \notin stale' => seen[v] = criteria'[subject[v]]
        BY <3>1, <3>2, WriteOutdates
      <3>4. QED
        BY <1>1, <3>3 DEF PolicyInv, ReviewerSound
    <2>2. CASE ~took
      BY <1>1, <2>2 DEF PolicyInv, ReviewerSound
    <2>3. QED
      BY <2>1, <2>2
  <1>5. QED
    BY <1>3, <1>4 DEF PolicyInv

LEMMA StoreVerdictStep ==
  ASSUME PolicyInv, NEW v \in Reviewer, NEW took \in BOOLEAN, StoreVerdict(v, took)
  PROVE  PolicyInv'
  <1> DEFINE c == subject[v]
             new == [seen[v] EXCEPT !.status = verdict[v]]
  <1>1. /\ criteria' = IF took THEN [criteria EXCEPT ![c] = new] ELSE criteria
        /\ stale' = (IF took THEN stale \cup Outdated(c, {v}) ELSE stale) \ {v}
        /\ call' = [call EXCEPT ![v] = "idle"]
        /\ verdict' = [verdict EXCEPT ![v] = "approved"]
        /\ subject' = [subject EXCEPT ![v] = CHOOSE x \in Control : TRUE]
        /\ seen' = [seen EXCEPT ![v] = NoSet]
        /\ UNCHANGED <<generated, draft>>
    BY DEF StoreVerdict, runVars
  <1>2. new \in CriteriaSet /\ NoSet \in CriteriaSet
    BY DEF CriteriaSet, PolicyInv, PolicyTypeOK, NoSet
  <1>3. PolicyTypeOK'
    BY <1>1, <1>2 DEF PolicyInv, PolicyTypeOK
  <1>4. ASSUME NEW u \in Reviewer PROVE ReviewerSound(u)'
    <2>1. CASE u = v
      BY <1>1, <2>1 DEF ReviewerSound, PolicyInv, PolicyTypeOK
    <2>2. CASE u # v
      <3>1. /\ call'[u] = call[u] /\ verdict'[u] = verdict[u]
            /\ subject'[u] = subject[u] /\ seen'[u] = seen[u]
        BY <1>1, <2>2 DEF PolicyInv, PolicyTypeOK
      <3>2. ASSUME call[u] = "storing", u \notin stale' PROVE seen[u] = criteria'[subject[u]]
        <4>1. CASE took
          <5>1. \A x \in Control : x # c => criteria'[x] = criteria[x]
            BY <1>1, <4>1 DEF PolicyInv, PolicyTypeOK
          <5>2. u \notin stale /\ u \notin Outdated(c, {v})
            BY <1>1, <2>2, <3>2, <4>1
          <5>3. QED
            BY <2>2, <3>2, <5>1, <5>2, WriteOutdates
        <4>2. CASE ~took
          BY <1>1, <2>2, <3>2, <4>2 DEF PolicyInv, ReviewerSound
        <4>3. QED
          BY <4>1, <4>2
      <3>3. QED
        BY <3>1, <3>2 DEF PolicyInv, ReviewerSound
    <2>3. QED
      BY <2>1, <2>2
  <1>5. QED
    BY <1>3, <1>4 DEF PolicyInv

LEMMA RecalledStep ==
  ASSUME PolicyInv, NEW v \in Reviewer, NEW ok \in BOOLEAN, Recalled(v, ok)
  PROVE  PolicyInv'
  <1> DEFINE data == criteria[subject[v]]
             ends == ~ok \/ data = NoSet \/ Settled(verdict[v], data.status)
  <1>1. call[v] = "recalling" /\ UNCHANGED <<criteria, generated, draft>>
    BY DEF Recalled, runVars
  <1>2. subject[v] \in Control /\ data \in CriteriaSet /\ NoSet \in CriteriaSet
    BY <1>1 DEF PolicyInv, PolicyTypeOK, ReviewerSound, CriteriaSet, NoSet
  <1>3. CASE ends
    <2>1. Ends(v)
      BY <1>3 DEF Recalled
    <2>2. PolicyTypeOK'
      BY <1>1, <1>2, <2>1 DEF PolicyInv, PolicyTypeOK, Ends
    <2>3. ASSUME NEW u \in Reviewer PROVE ReviewerSound(u)'
      BY <1>1, <2>1 DEF PolicyInv, PolicyTypeOK, ReviewerSound, Ends
    <2>4. QED
      BY <2>2, <2>3 DEF PolicyInv
  <1>4. CASE ~ends
    <2>1. /\ call' = [call EXCEPT ![v] = "storing"]
          /\ seen' = [seen EXCEPT ![v] = data]
          /\ UNCHANGED <<verdict, subject, stale>>
      BY <1>4 DEF Recalled
    <2>2. ~Settled(verdict[v], data.status)
      BY <1>4
    <2> HIDE DEF ends
    <2>3. PolicyTypeOK'
      BY <1>1, <1>2, <2>1 DEF PolicyInv, PolicyTypeOK
    <2>4. ASSUME NEW u \in Reviewer PROVE ReviewerSound(u)'
      BY <1>1, <1>2, <2>1, <2>2 DEF PolicyInv, PolicyTypeOK, ReviewerSound
    <2>5. QED
      BY <2>3, <2>4 DEF PolicyInv
  <1>5. QED
    BY <1>3, <1>4

LEMMA PolicyInductive == PolicyInv /\ [PolicyNext]_policyVars => PolicyInv'
  <1> SUFFICES ASSUME PolicyInv, [PolicyNext]_policyVars PROVE PolicyInv'
    OBVIOUS
  <1>1. ASSUME NEW d \in Document, RunStep(d) PROVE PolicyInv'
    <2>1. generated \in Nat /\ draft \in [Document -> Nat]
      BY DEF PolicyInv, PolicyTypeOK
    <2>2. CASE Parse(d) \/ ExtractRaises(d) \/ Announce(d)
      BY <2>1, <2>2, QuietRunStep DEF Parse, ExtractRaises, Announce
    <2>3. ASSUME NEW n \in Replies, ExtractChunk(d, n) PROVE PolicyInv'
      BY <2>1, <2>3, QuietRunStep DEF ExtractChunk
    <2>4. ASSUME NEW C \in Targets(d), MapBatch(d, C) PROVE PolicyInv'
      BY <2>1, <2>4, QuietRunStep DEF MapBatch
    <2>5. ASSUME NEW c \in Control, Generated(d, c) PROVE PolicyInv'
      BY <2>1, <2>5, QuietRunStep DEF Generated
    <2>6. ASSUME NEW c \in Control, GenerateFails(d, c) PROVE PolicyInv'
      BY <2>1, <2>6, QuietRunStep DEF GenerateFails
    <2>7. QED
      BY <1>1, <2>2, <2>3, <2>4, <2>5, <2>6, StoreDraftStep DEF RunStep
  <1>2. ASSUME NEW v \in Reviewer, ReviewStep(v) PROVE PolicyInv'
    <2>1. ASSUME NEW what \in {"approved", "rejected"}, NEW c \in Control, Decide(v, what, c)
          PROVE  PolicyInv'
      <3>1. PolicyTypeOK'
        BY <2>1 DEF Decide, runVars, PolicyInv, PolicyTypeOK
      <3>2. ASSUME NEW u \in Reviewer PROVE ReviewerSound(u)'
        BY <2>1 DEF Decide, runVars, PolicyInv, PolicyTypeOK, ReviewerSound
      <3>3. QED
        BY <3>1, <3>2 DEF PolicyInv
    <2>2. QED
      BY <1>2, <2>1, RecalledStep, StoreVerdictStep DEF ReviewStep
  <1>3. CASE UNCHANGED policyVars
    BY <1>3 DEF policyVars, runVars, reviewVars, PolicyInv, PolicyTypeOK, ReviewerSound
  <1>4. QED
    BY <1>1, <1>2, <1>3 DEF PolicyNext

\* For any documents, controls and concurrent reviewers, approve and reject put an
\* older set in the place of a newer one, or an approval in the place of a
\* rejection, only when the set was written between their recall and their store.
THEOREM UndoneOnlyByOverlapTheorem == PolicySpec => UndoneOnlyByOverlap
  <1> DEFINE Undone(c) ==
                 \/ criteria'[c].gen < criteria[c].gen /\ criteria'[c].status # "candidate"
                 \/ /\ criteria'[c].gen = criteria[c].gen
                    /\ criteria[c].status = "rejected" /\ criteria'[c].status = "approved"
             Excused(c) == \E v \in stale : call[v] = "storing" /\ call'[v] = "idle" /\ subject[v] = c
  <1>1. PolicyInit => PolicyInv
    BY DEF PolicyInit, PolicyInv, PolicyTypeOK, ReviewerSound, CriteriaSet, NoSet
  <1>2. PolicyInv /\ [PolicyNext]_policyVars => [\A c \in Control : Undone(c) => Excused(c)]_policyVars
    <2> SUFFICES ASSUME PolicyInv, PolicyNext, NEW c \in Control, Undone(c)
                 PROVE  Excused(c)
      OBVIOUS
    <2>1. criteria[c] \in CriteriaSet /\ criteria[c].gen \in Nat
      BY DEF PolicyInv, PolicyTypeOK, CriteriaSet
    <2>2. criteria'[c] # criteria[c]
      BY <2>1
    <2>3. ASSUME NEW d \in Document, RunStep(d) PROVE FALSE
      <3>1. ~UNCHANGED criteria
        BY <2>2
      <3>2. PICK took \in BOOLEAN : StoreDraft(d, took)
        BY <2>3, <3>1 DEF RunStep, Parse, ExtractChunk, ExtractRaises, MapBatch, Generated,
                          GenerateFails, Announce
      <3>3. criteria'[c] = criteria[c] \/ criteria'[c] = [gen |-> draft[d], status |-> "candidate"]
        BY <3>2 DEF StoreDraft, PolicyInv, PolicyTypeOK
      <3>4. criteria'[c].status = "candidate"
        BY <2>2, <3>3
      <3>5. QED
        BY <3>4
    <2>4. ASSUME NEW v \in Reviewer, ReviewStep(v) PROVE Excused(c)
      <3>1. ~UNCHANGED criteria
        BY <2>2
      <3>2. PICK took \in BOOLEAN : StoreVerdict(v, took)
        BY <2>4, <3>1 DEF ReviewStep, Recalled, Decide
      <3>3. call[v] = "storing" /\ call'[v] = "idle" /\ subject[v] \in Control
        BY <3>2 DEF StoreVerdict, PolicyInv, PolicyTypeOK, ReviewerSound
      <3>4. c = subject[v] /\ criteria'[c] = [seen[v] EXCEPT !.status = verdict[v]]
        BY <2>2, <3>2, <3>3 DEF StoreVerdict, PolicyInv, PolicyTypeOK
      <3>5. seen[v] \in CriteriaSet
        BY DEF PolicyInv, PolicyTypeOK
      <3>6. criteria'[c].gen = seen[v].gen /\ criteria'[c].status = verdict[v]
        BY <3>4, <3>5 DEF CriteriaSet
      <3>7. ASSUME v \notin stale PROVE FALSE
        <4>1. seen[v] = criteria[c] /\ ~Settled(verdict[v], seen[v].status)
          BY <3>3, <3>4, <3>7 DEF PolicyInv, ReviewerSound
        <4>2. ~(criteria'[c].gen < criteria[c].gen)
          BY <2>1, <3>6, <4>1
        <4>3. QED
          BY <3>6, <4>1, <4>2 DEF Settled
      <3>8. QED
        BY <3>3, <3>4, <3>7
    <2>5. QED
      BY <2>3, <2>4 DEF PolicyNext
  <1>3. QED
    BY <1>1, <1>2, PolicyInductive, PTL DEF PolicySpec, UndoneOnlyByOverlap

-----------------------------------------------------------------------------
(* How a section is cut *)

Slice == [from : Nat, to : Nat]
Half == Cut \div 2 + 1

\* A slice from text to text.
InText(s) == {s.from, s.to} \subseteq Ink(1, Len(content)) /\ s.from <= s.to

\* Before the last round every round has taken its part off what is left.
RoundsPaid ==
    /\ remaining # Blank => rounds * Half + Length(remaining) <= Len(content)
    /\ remaining = Blank => RoundsBounded

ChunkType ==
    /\ content \in Seq(Char) /\ loop \in {"typing", "cutting"} /\ rounds \in Nat
    /\ cuts \in Seq(Slice) /\ remaining \in Slice
    /\ loop = "typing" => remaining = Blank /\ cuts = <<>> /\ rounds = 0
    /\ remaining # Blank => InText(remaining)

ChunkInv == ChunkType /\ ChunksKeepText /\ RoundsPaid

LEMMA LeastOf ==
    ASSUME NEW T \in SUBSET Nat, T # {}
    PROVE  \E i \in T : \A j \in T : i <= j
<1>1. PICK i \in T : \A j \in T : ~(<<j, i>> \in OpToRel(<, Nat))
    BY NatLessThanWellFounded, WFMin
<1>2. ASSUME NEW j \in T PROVE i <= j
    <2>1. i \in Nat /\ j \in Nat
        OBVIOUS
    <2>2. ~(j < i)
        BY <1>1, <2>1 DEF OpToRel
    <2>. QED  BY <2>1, <2>2
<1>. QED  BY <1>2

LEMMA GreatestOf ==
    ASSUME NEW b \in Int, NEW T \in SUBSET Int, T # {}, \A j \in T : j <= b
    PROVE  \E i \in T : \A j \in T : j <= i
<1> DEFINE U == {b - j : j \in T}
<1>1. U \in SUBSET Nat /\ U # {}
    <2>1. \A j \in T : b - j \in Nat
        OBVIOUS
    <2>. QED  BY <2>1
<1>2. PICK u \in U : \A v \in U : u <= v
    <2>. HIDE DEF U
    <2>. QED  BY <1>1, LeastOf
<1>3. PICK i \in T : u = b - i
    OBVIOUS
<1>4. \A j \in T : b - i <= b - j
    BY <1>2, <1>3
<1>. QED  BY <1>4

\* What strip returns: nothing of a blank slice, else the slice from its first to its last text.
LEMMA StripSpec ==
    ASSUME NEW a \in Nat \ {0}, NEW b \in Nat
    PROVE  /\ Ink(a, b) = {} => strip(a, b) = Blank
           /\ Ink(a, b) # {} =>
                 /\ strip(a, b) \in Slice /\ strip(a, b) # Blank
                 /\ strip(a, b).from \in Ink(a, b) /\ strip(a, b).to \in Ink(a, b)
                 /\ \A i \in Ink(a, b) : strip(a, b).from <= i /\ i <= strip(a, b).to
<1>1. Ink(a, b) = {} => strip(a, b) = Blank
    BY DEF strip
<1>2. ASSUME Ink(a, b) # {}
      PROVE  /\ strip(a, b) \in Slice /\ strip(a, b) # Blank
             /\ strip(a, b).from \in Ink(a, b) /\ strip(a, b).to \in Ink(a, b)
             /\ \A i \in Ink(a, b) : strip(a, b).from <= i /\ i <= strip(a, b).to
    <2> DEFINE T == Ink(a, b)
               f == CHOOSE i \in T : \A j \in T : i <= j
               t == CHOOSE i \in T : \A j \in T : j <= i
    <2>1. T \in SUBSET Nat /\ \A i \in T : a <= i /\ i <= b
        BY DEF Ink
    <2>2. strip(a, b) = [from |-> f, to |-> t]
        BY <1>2 DEF strip
    <2>. HIDE DEF T
    <2>3. f \in T /\ \A j \in T : f <= j
        <3>1. \E i \in T : \A j \in T : i <= j
            BY <1>2, <2>1, LeastOf DEF T
        <3>. QED  BY <3>1
    <2>4. t \in T /\ \A j \in T : j <= t
        <3>1. \E i \in T : \A j \in T : j <= i
            <4>1. b \in Int /\ T # {} /\ T \in SUBSET Int /\ \A j \in T : j <= b
                BY <1>2, <2>1 DEF T
            <4>. QED  BY <4>1, GreatestOf
        <3>. QED  BY <3>1
    <2>. HIDE DEF f, t
    <2>5. f \in Nat /\ t \in Nat /\ t # 0
        BY <2>1, <2>3, <2>4
    <2>6. strip(a, b) \in Slice /\ strip(a, b) # Blank /\ strip(a, b).from = f /\ strip(a, b).to = t
        BY <2>2, <2>5 DEF Slice, Blank
    <2>. QED  BY <2>3, <2>4, <2>6 DEF T
<1>. QED  BY <1>1, <1>2

\* A cut lies between half the limit and the limit.
LEMMA SplitRange ==
    ASSUME NEW a
    PROVE  split_point(a) \in Nat /\ Cut \div 2 <= split_point(a) /\ split_point(a) <= Cut
<1>1. ASSUME NEW x, NEW y PROVE rfind(a, x, y) \in Int /\ rfind(a, x, y) <= Cut
    <2> DEFINE T == {i \in 0 .. Cut - 2 : content[a + i] = x /\ content[a + i + 1] = y}
    <2>1. Cut - 2 \in Int /\ Cut - 2 <= Cut /\ Cut \in Nat /\ T \in SUBSET Int /\ \A j \in T : j <= Cut - 2
        BY TextAssumption DEF TextAssumption
    <2>2. rfind(a, x, y) = IF T = {} THEN -1 ELSE CHOOSE i \in T : \A j \in T : j <= i
        BY DEF rfind
    <2>. HIDE DEF T
    <2>3. T # {} => \E i \in T : \A j \in T : j <= i
        <3> DEFINE b == Cut - 2
        <3>1. b \in Int /\ T \in SUBSET Int /\ \A j \in T : j <= b
            BY <2>1
        <3>. HIDE DEF b
        <3>. QED  BY <3>1, GreatestOf
    <2>4. rfind(a, x, y) = -1 \/ rfind(a, x, y) \in T
        BY <2>2, <2>3
    <2>5. \A j \in T : j \in Int /\ j <= Cut
        BY <2>1
    <2> DEFINE v == rfind(a, x, y)
    <2>6. v = -1 \/ (v \in Int /\ v <= Cut)
        BY <2>4, <2>5
    <2>7. -1 \in Int /\ -1 <= Cut
        BY <2>1
    <2>. HIDE DEF v
    <2>8. v \in Int /\ v <= Cut
        BY <2>6, <2>7
    <2>. QED  BY <2>8 DEF v
<1>2. Cut \in Nat /\ Cut \div 2 \in Nat /\ Cut \div 2 <= Cut
    BY TextAssumption DEF TextAssumption
<1>3. rfind(a, "\n", "\n") \in Int /\ rfind(a, "\n", "\n") <= Cut /\ rfind(a, ".", " ") \in Int /\ rfind(a, ".", " ") <= Cut
    BY <1>1
<1> DEFINE v == rfind(a, "\n", "\n")
           w == rfind(a, ".", " ")
           h == Cut \div 2
<1>4. split_point(a) = IF v >= h THEN v ELSE IF w >= h THEN w ELSE Cut
    BY DEF split_point
<1>5. v \in Int /\ v <= Cut /\ w \in Int /\ w <= Cut /\ h \in Nat /\ h <= Cut /\ Cut \in Nat
    BY <1>2, <1>3
<1>. HIDE DEF v, w, h
<1>6. split_point(a) \in Nat /\ h <= split_point(a) /\ split_point(a) <= Cut
    BY <1>4, <1>5
<1>. QED  BY <1>6 DEF h

LEMMA BlankType == Blank \in Slice /\ Blank.from = 1 /\ Blank.to = 0 /\ Length(Blank) = 0
BY DEF Blank, Slice, Length

\* The product of RoundsPaid, one round later.
LEMMA HalfType == Half \in Nat \ {0} /\ \A n \in Nat : n * Half \in Nat /\ (n + 1) * Half = n * Half + Half
<1>1. Half \in Nat \ {0}
    BY TextAssumption DEF TextAssumption, Half
<1>. HIDE DEF Half
<1>. QED  BY <1>1

LEMMA RoundTaken ==
    ASSUME NEW a \in Nat, NEW b \in Nat, NEW c \in Nat, NEW d \in Nat, NEW p \in Nat, NEW h \in Nat, NEW n \in Nat,
           p + (b - a + 1) <= n, a + h <= c, d <= b
    PROVE  p + h + (d - c + 1) <= n
OBVIOUS

LEMMA ChunkBegin ==
    ASSUME ChunkInv, BeginSplit
    PROVE  ChunkInv'
<1> DEFINE N == Len(content)
<1>1. /\ loop = "typing" /\ Ink(1, N) # {} /\ cuts = <<>> /\ rounds = 0 /\ N \in Nat
      /\ loop' = "cutting" /\ remaining' = strip(1, N) /\ content' = content /\ cuts' = cuts /\ rounds' = rounds
    BY DEF BeginSplit, ChunkInv, ChunkType
<1>2. /\ remaining' \in Slice /\ remaining' # Blank
      /\ remaining'.from \in Ink(1, N) /\ remaining'.to \in Ink(1, N)
      /\ \A i \in Ink(1, N) : remaining'.from <= i /\ i <= remaining'.to
    BY <1>1, StripSpec
<1>3. remaining'.from <= remaining'.to /\ 1 <= remaining'.from /\ remaining'.to <= N
    BY <1>1, <1>2 DEF Ink, Slice
<1>4. Ink(1, Len(content))' = Ink(1, N)
    BY <1>1 DEF Ink
<1>5. ChunkType'
    BY <1>1, <1>2, <1>3, <1>4 DEF ChunkInv, ChunkType, InText
<1>6. ChunksKeepText'
    <2>1. \A i \in Ink(1, N) : i \in remaining'.from .. remaining'.to
        BY <1>1, <1>2 DEF Ink, Slice
    <2>. QED  BY <1>1, <1>4, <2>1 DEF ChunksKeepText
<1>7. RoundsPaid'
    <2>1. rounds' * Half = 0
        BY <1>1, HalfType
    <2>. QED  BY <1>1, <1>2, <1>3, <2>1 DEF RoundsPaid, Length, Slice
<1>. QED  BY <1>5, <1>6, <1>7 DEF ChunkInv

\* A round that cuts remaining into slice c, or nothing, and r.
LEMMA ChunkRound ==
    ASSUME ChunkInv, loop = "cutting", remaining # Blank, UNCHANGED <<content, loop>>, rounds' = rounds + 1,
           NEW c \in Slice, NEW r \in Slice, remaining' = r,
           cuts' = IF c = Blank THEN cuts ELSE Append(cuts, c),
           c # Blank => InText(c) /\ Length(c) <= Cut + 1 /\ remaining.from <= c.from,
           r # Blank => InText(r) /\ remaining.from + Half <= r.from /\ r.to <= remaining.to,
           c # Blank /\ r # Blank => c.to < r.from,
           \A i \in Ink(1, Len(content)) : i \in remaining.from .. remaining.to => i \in c.from .. c.to \/ i \in r.from .. r.to
    PROVE  ChunkInv'
<1> DEFINE N == Len(content)
           new == Len(cuts) + 1
<1>1. /\ N \in Nat /\ cuts \in Seq(Slice) /\ rounds \in Nat /\ InText(remaining) /\ remaining \in Slice
    BY DEF ChunkInv, ChunkType
<1>2. Ink(1, Len(content))' = Ink(1, N) /\ Ink(1, N) \in SUBSET (1 .. N)
    BY DEF Ink
<1>3. cuts' \in Seq(Slice)
    BY <1>1
<1>4. ChunkType'
    BY <1>1, <1>2, <1>3 DEF ChunkInv, ChunkType, InText
<1>5. /\ \A k \in DOMAIN cuts : k \in DOMAIN cuts' /\ cuts'[k] = cuts[k] /\ k < new /\ k \in Nat /\ cuts[k] \in Slice
      /\ \A k \in DOMAIN cuts' : k \in DOMAIN cuts \/ (k = new /\ cuts'[k] = c /\ c # Blank)
      /\ c # Blank => new \in DOMAIN cuts' /\ cuts'[new] = c
    BY <1>1
<1>6. /\ \A i \in Ink(1, N) : (\E k \in DOMAIN cuts : i \in cuts[k].from .. cuts[k].to) \/ i \in remaining.from .. remaining.to
      /\ \A k \in DOMAIN cuts :
            /\ {cuts[k].from, cuts[k].to} \subseteq Ink(1, N) /\ Length(cuts[k]) \in 1 .. Cut + 1
            /\ \A m \in DOMAIN cuts : k < m => cuts[k].to < cuts[m].from
            /\ cuts[k].to < remaining.from
    BY DEF ChunkInv, ChunksKeepText
<1>7. c = Blank => \A i \in Ink(1, N) : ~(i \in c.from .. c.to)
    BY <1>2, BlankType
<1>8. ChunksKeepText'
    <2>1. ASSUME NEW i \in Ink(1, N)
          PROVE  (\E k \in DOMAIN cuts' : i \in cuts'[k].from .. cuts'[k].to) \/ i \in r.from .. r.to
        <3>1. CASE \E k \in DOMAIN cuts : i \in cuts[k].from .. cuts[k].to
            BY <1>5, <3>1
        <3>2. CASE i \in c.from .. c.to
            BY <1>5, <1>7, <3>2
        <3>3. CASE i \in r.from .. r.to
            BY <3>3
        <3>. QED  BY <1>6, <2>1, <3>1, <3>2, <3>3
    <2>2. ASSUME NEW k \in DOMAIN cuts'
          PROVE  /\ {cuts'[k].from, cuts'[k].to} \subseteq Ink(1, N) /\ Length(cuts'[k]) \in 1 .. Cut + 1
                 /\ \A m \in DOMAIN cuts' : k < m => cuts'[k].to < cuts'[m].from
                 /\ r # Blank => cuts'[k].to < r.from
        <3>1. CASE k \in DOMAIN cuts
            <4>1. {cuts'[k].from, cuts'[k].to} \subseteq Ink(1, N) /\ Length(cuts'[k]) \in 1 .. Cut + 1
                BY <1>5, <1>6, <3>1
            <4>2. \A m \in DOMAIN cuts' : k < m => cuts'[k].to < cuts'[m].from
                <5> SUFFICES ASSUME NEW m \in DOMAIN cuts', k < m PROVE cuts'[k].to < cuts'[m].from
                    OBVIOUS
                <5>1. CASE m \in DOMAIN cuts
                    BY <1>5, <1>6, <3>1, <5>1
                <5>2. CASE cuts'[m] = c /\ c # Blank
                    <6>1. cuts'[k].to \in Nat /\ cuts'[k].to < remaining.from /\ remaining.from <= c.from
                        BY <1>5, <1>6, <3>1, <5>2 DEF Slice
                    <6>2. remaining.from \in Nat /\ c.from \in Nat
                        BY <1>1 DEF Slice
                    <6>. QED  BY <5>2, <6>1, <6>2
                <5>. QED  BY <1>5, <5>1, <5>2
            <4>3. r # Blank => cuts'[k].to < r.from
                <5>1. cuts'[k].to \in Nat /\ cuts'[k].to < remaining.from
                    BY <1>5, <1>6, <3>1 DEF Slice
                <5>2. remaining.from \in Nat /\ r.from \in Nat /\ Half \in Nat
                    BY <1>1, HalfType DEF Slice
                <5>3. r # Blank => remaining.from + Half <= r.from
                    OBVIOUS
                <5>. HIDE DEF Half
                <5>. QED  BY <5>1, <5>2, <5>3
            <4>. QED  BY <4>1, <4>2, <4>3
        <3>2. CASE k = new /\ cuts'[k] = c /\ c # Blank
            <4>1. {c.from, c.to} \subseteq Ink(1, N) /\ Length(c) \in 1 .. Cut + 1
                <5>1. c.from \in Nat /\ c.to \in Nat /\ c.from <= c.to /\ Cut \in Nat
                    BY <3>2, TextAssumption DEF Slice, InText, TextAssumption
                <5>. QED  BY <3>2, <5>1 DEF InText, Length
            <4>2. \A m \in DOMAIN cuts' : ~(k < m)
                BY <1>1, <1>5, <3>2
            <4>. QED  BY <3>2, <4>1, <4>2
        <3>. QED  BY <1>5, <2>2, <3>1, <3>2
    <2>. QED  BY <1>2, <2>1, <2>2 DEF ChunksKeepText
<1>9. RoundsPaid'
    <2>1. /\ rounds * Half \in Nat /\ rounds' * Half = rounds * Half + Half /\ Half \in Nat
          /\ (rounds' - 1) * Half = rounds * Half
        BY <1>1, HalfType
    <2>2. rounds * Half + Length(remaining) <= N
        BY DEF ChunkInv, RoundsPaid
    <2>3. remaining.from \in Nat /\ remaining.to \in Nat /\ r.from \in Nat /\ r.to \in Nat /\ remaining.from <= remaining.to
        BY <1>1 DEF Slice, InText
    <2> DEFINE p == rounds * Half
               q == rounds' * Half
    <2>. HIDE DEF N
    <2>4. N \in Nat /\ p \in Nat /\ Half \in Nat /\ q = p + Half /\ p + Length(remaining) <= N
        BY <1>1, <2>1, <2>2
    <2>5. r # Blank => remaining.from + Half <= r.from /\ r.to <= remaining.to
        OBVIOUS
    <2>. HIDE DEF p, q, Half
    <2>6. r # Blank => q + Length(r) <= N
        BY <2>3, <2>4, <2>5, RoundTaken DEF Length
    <2>7. p < N
        BY <2>3, <2>4 DEF Length
    <2>8. /\ r # Blank => rounds' * Half + Length(r) <= N
          /\ (rounds' - 1) * Half < N
        BY <2>1, <2>6, <2>7 DEF p, q
    <2>9. Len(content') = N /\ remaining' = r
        BY DEF N
    <2>10. RoundsBounded'
        BY <2>8, <2>9 DEF RoundsBounded, Half
    <2>11. (remaining # Blank => rounds * Half + Length(remaining) <= Len(content))'
        BY <2>8, <2>9 DEF Half, Length
    <2>. QED  BY <2>10, <2>11 DEF RoundsPaid
<1>. QED  BY <1>4, <1>8, <1>9 DEF ChunkInv

LEMMA ChunkCut ==
    ASSUME ChunkInv, split_content
    PROVE  ChunkInv'
<1> DEFINE N == Len(content)
           lo == remaining.from
           hi == remaining.to
           sp == split_point(lo)
<1>1. /\ loop = "cutting" /\ remaining # Blank /\ UNCHANGED <<content, loop>> /\ rounds' = rounds + 1
    BY DEF split_content
<1>2. remaining \in Slice /\ InText(remaining) /\ N \in Nat
    BY <1>1 DEF ChunkInv, ChunkType
<1>3. lo \in Nat /\ hi \in Nat /\ 1 <= lo /\ lo <= hi /\ hi <= N /\ lo \in Ink(1, N) /\ hi \in Ink(1, N) /\ Cut \in Nat \ {0}
    BY <1>2, TextAssumption DEF Slice, InText, Ink, TextAssumption
<1>4. CASE Length(remaining) <= Cut
    <2>1. cuts' = Append(cuts, remaining) /\ remaining' = Blank
        BY <1>4 DEF split_content
    <2>2. Length(remaining) <= Cut + 1
        BY <1>3, <1>4 DEF Length
    <2>3. lo <= lo
        BY <1>3
    <2>. QED  BY <1>1, <1>2, <2>1, <2>2, <2>3, BlankType, ChunkRound
<1>5. CASE ~(Length(remaining) <= Cut)
    <2> DEFINE c == Chunk(lo)
               r == strip(lo + sp + 1, hi)
    <2>1. cuts' = (IF c = Blank THEN cuts ELSE Append(cuts, c)) /\ remaining' = r
        BY <1>5 DEF split_content
    <2>2. sp \in Nat /\ Half <= sp + 1 /\ sp <= Cut
        BY <1>3, SplitRange DEF Half
    <2>. HIDE DEF sp
    <2>3. lo + sp \in Nat /\ lo + sp <= hi /\ lo \in Nat \ {0} /\ lo + sp + 1 \in Nat \ {0}
        BY <1>3, <1>5, <2>2 DEF Length
    <2>4. c = strip(lo, lo + sp)
        BY DEF Chunk, sp
    <2>. HIDE DEF c, r, lo, hi, N
    <2>5. /\ \A i \in Ink(lo, lo + sp) : i \in Ink(1, N) /\ lo <= i /\ i <= lo + sp /\ i \in Nat
          /\ \A i \in Ink(lo + sp + 1, hi) : i \in Ink(1, N) /\ lo + sp + 1 <= i /\ i <= hi /\ i \in Nat
          /\ \A i \in Ink(1, N) : i \in lo .. hi => i \in Ink(lo, lo + sp) \/ i \in Ink(lo + sp + 1, hi)
        BY <1>2, <1>3, <2>3 DEF Ink
    <2>6. /\ c \in Slice
          /\ c = Blank => Ink(lo, lo + sp) = {}
          /\ c # Blank =>
             /\ c.from \in Ink(lo, lo + sp) /\ c.to \in Ink(lo, lo + sp)
             /\ \A i \in Ink(lo, lo + sp) : c.from <= i /\ i <= c.to
        BY <2>3, <2>4, StripSpec, BlankType
    <2>7. /\ r \in Slice
          /\ r = Blank => Ink(lo + sp + 1, hi) = {}
          /\ r # Blank =>
             /\ r.from \in Ink(lo + sp + 1, hi) /\ r.to \in Ink(lo + sp + 1, hi)
             /\ \A i \in Ink(lo + sp + 1, hi) : r.from <= i /\ i <= r.to
        BY <1>3, <2>3, StripSpec, BlankType DEF r
    <2>8. c.from \in Nat /\ c.to \in Nat /\ r.from \in Nat /\ r.to \in Nat
        BY <2>6, <2>7 DEF Slice
    <2>9. c # Blank => InText(c) /\ Length(c) <= Cut + 1 /\ lo <= c.from
        BY <1>3, <2>2, <2>3, <2>5, <2>6, <2>8 DEF InText, Length, N
    <2>10. r # Blank => InText(r) /\ lo + Half <= r.from /\ r.to <= hi
        BY <1>3, <2>2, <2>3, <2>5, <2>7, <2>8, HalfType DEF InText, N
    <2>11. c # Blank /\ r # Blank => c.to < r.from
        BY <2>3, <2>5, <2>6, <2>7, <2>8
    <2>12. \A i \in Ink(1, N) : i \in lo .. hi => i \in c.from .. c.to \/ i \in r.from .. r.to
        BY <2>5, <2>6, <2>7, <2>8
    <2>. QED  BY <1>1, <2>1, <2>6, <2>7, <2>9, <2>10, <2>11, <2>12, ChunkRound DEF lo, hi, N
<1>. QED  BY <1>4, <1>5

LEMMA ChunkStep == ChunkInv /\ [ChunkNext]_chunkVars => ChunkInv'
<1> SUFFICES ASSUME ChunkInv, [ChunkNext]_chunkVars PROVE ChunkInv'
    OBVIOUS
<1>1. ASSUME NEW c \in Char, AddChar(c) PROVE ChunkInv'
    <2>1. /\ loop = "typing" /\ content' = Append(content, c) /\ UNCHANGED <<loop, remaining, cuts, rounds>>
          /\ remaining = Blank /\ cuts = <<>> /\ rounds = 0
        BY <1>1 DEF AddChar, ChunkInv, ChunkType
    <2>2. content' \in Seq(Char)
        BY <2>1 DEF ChunkInv, ChunkType
    <2>3. ChunkType' /\ ChunksKeepText' /\ RoundsPaid'
        BY <2>1, <2>2 DEF ChunkInv, ChunkType, ChunksKeepText, RoundsPaid, RoundsBounded
    <2>. QED  BY <2>3 DEF ChunkInv
<1>2. CASE UNCHANGED chunkVars
    BY <1>2 DEF chunkVars, ChunkInv, ChunkType, ChunksKeepText, RoundsPaid, RoundsBounded, InText, Ink
<1>. QED  BY <1>1, <1>2, ChunkBegin, ChunkCut DEF ChunkNext

LEMMA InitChunk == ChunkInit => ChunkInv
BY BlankType DEF ChunkInit, ChunkInv, ChunkType, ChunksKeepText, RoundsPaid, RoundsBounded

\* Chunks keep the text of every section, for every limit: nothing but white space is lost,
\* and a chunk has one character more than the limit at most.
THEOREM ChunksKeepTextTheorem == ChunkSpec => []ChunksKeepText
<1>1. ChunkInv => ChunksKeepText
    BY DEF ChunkInv
<1>. QED  BY <1>1, InitChunk, ChunkStep, PTL DEF ChunkSpec

\* The loop over a section takes more than half of the limit off the text in every round but
\* the last, for every section and limit.
THEOREM RoundsBoundedTheorem == ChunkSpec => []RoundsBounded
<1>1. ChunkInv => RoundsBounded
    <2> SUFFICES ASSUME ChunkInv, remaining # Blank, rounds # 0 PROVE RoundsBounded
        BY DEF ChunkInv, RoundsPaid, RoundsBounded
    <2>1. /\ rounds \in Nat /\ remaining.from \in Nat /\ remaining.to \in Nat /\ remaining.from <= remaining.to
          /\ Len(content) \in Nat /\ rounds * Half + Length(remaining) <= Len(content)
        BY DEF ChunkInv, ChunkType, RoundsPaid, InText, Slice
    <2>2. rounds - 1 \in Nat /\ rounds * Half = (rounds - 1) * Half + Half /\ (rounds - 1) * Half \in Nat /\ Half \in Nat
        BY <2>1, HalfType
    <2>3. (rounds - 1) * Half < Len(content)
        BY <2>1, <2>2 DEF Length
    <2>. QED  BY <2>3 DEF RoundsBounded, Half
<1>. QED  BY <1>1, InitChunk, ChunkStep, PTL DEF ChunkSpec

-----------------------------------------------------------------------------
(* Weights *)

\* The first n weights, in thousandths.
FirstUnits(ws, n) == UNION {{i} \X (1 .. ws[i]) : i \in 1 .. n}
FirstTotal(ws, n) == Cardinality(FirstUnits(ws, n))

\* Induction up to a bound, over a set.
LEMMA UpTo ==
    ASSUME NEW N \in Nat, NEW S, 0 \in S, \A n \in 0 .. N : n \in S /\ n < N => n + 1 \in S
    PROVE  \A n \in 0 .. N : n \in S
<1> DEFINE T == {n \in 0 .. N : n \notin S}
<1> SUFFICES ASSUME T # {} PROVE FALSE
    OBVIOUS
<1>1. T \in SUBSET Nat
    OBVIOUS
<1>2. PICK m \in T : \A j \in T : m <= j
    <2>. HIDE DEF T
    <2>. QED  BY <1>1, LeastOf
<1>3. m \in 0 .. N /\ m \notin S /\ m # 0
    OBVIOUS
<1>4. m - 1 \in 0 .. N /\ m - 1 < N /\ ~(m <= m - 1) /\ m - 1 + 1 = m
    BY <1>3
<1>5. m - 1 \in S
    BY <1>2, <1>4
<1>. QED  BY <1>3, <1>4, <1>5

LEMMA CountUp ==
    ASSUME NEW k \in Nat
    PROVE  IsFiniteSet(1 .. k) /\ Cardinality(1 .. k) = k
<1>1. IsFiniteSet(1 .. k) /\ Cardinality(1 .. k) = IF 1 > k THEN 0 ELSE k - 1 + 1
    BY FS_Interval
<1>. QED  BY <1>1

\* One more weight adds itself.
LEMMA FirstTotalStep ==
    ASSUME NEW n \in Nat, NEW x \in Nat, x = n + 1, NEW ws, ws[x] \in Nat, IsFiniteSet(FirstUnits(ws, n))
    PROVE  /\ IsFiniteSet(FirstUnits(ws, x))
           /\ FirstTotal(ws, x) = FirstTotal(ws, n) + ws[x] /\ FirstTotal(ws, n) \in Nat
<1> DEFINE k == ws[x]
           U == FirstUnits(ws, n)
           V == {x} \X (1 .. k)
<1>1. FirstUnits(ws, x) = U \cup V
    <2>1. 1 .. x = (1 .. n) \cup {x}
        OBVIOUS
    <2>. QED  BY <2>1 DEF FirstUnits
<1>2. U \cap V = {}
    <2>1. x \notin 1 .. n
        OBVIOUS
    <2>. QED  BY <2>1 DEF FirstUnits
<1>3. IsFiniteSet(V) /\ Cardinality(V) = k /\ k \in Nat
    <2>1. k \in Nat
        OBVIOUS
    <2>. HIDE DEF k
    <2>2. IsFiniteSet(1 .. k) /\ Cardinality(1 .. k) = k
        BY <2>1, CountUp
    <2>3. IsFiniteSet({x}) /\ Cardinality({x}) = 1
        BY FS_Singleton
    <2>4. IsFiniteSet({x} \X (1 .. k)) /\ Cardinality({x} \X (1 .. k)) = Cardinality({x}) * Cardinality(1 .. k)
        BY <2>2, <2>3, FS_Product
    <2>. QED  BY <2>1, <2>2, <2>3, <2>4
<1>4. IsFiniteSet(U) /\ Cardinality(U) \in Nat
    BY FS_CardinalityType
<1>. HIDE DEF U, V, k
<1>5. IsFiniteSet(U \cup V) /\ Cardinality(U \cup V) = Cardinality(U) + Cardinality(V) - Cardinality(U \cap V)
    BY <1>3, <1>4, FS_Union
<1>6. Cardinality(U \cap V) = 0
    BY <1>2, FS_EmptySet
<1>7. Cardinality(U \cup V) = Cardinality(U) + k
    BY <1>3, <1>4, <1>5, <1>6
<1>. QED  BY <1>1, <1>4, <1>5, <1>7 DEF FirstTotal, U, k

LEMMA FirstTotalZero ==
    ASSUME NEW ws
    PROVE  IsFiniteSet(FirstUnits(ws, 0)) /\ FirstTotal(ws, 0) = 0
<1>1. FirstUnits(ws, 0) = {}
    BY DEF FirstUnits
<1>. QED  BY <1>1, FS_EmptySet DEF FirstTotal

\* Rounding is off by one half at most.
LEMMA RoundedRange ==
    ASSUME NEW a \in Nat, NEW b \in Nat \ {0}
    PROVE  /\ Rounded(a, b) \in Nat
           /\ 2 * b * Rounded(a, b) <= 2 * a + b
           /\ 2 * a - b <= 2 * b * Rounded(a, b)
<1> DEFINE x == 2 * a + b
           d == 2 * b
           q == x \div d
           m == x % d
<1>1. x \in Nat /\ d \in Nat \ {0}
    OBVIOUS
<1>2. q \in Nat /\ m \in 0 .. d - 1 /\ x = d * q + m
    <2>. HIDE DEF x, d
    <2>. QED  BY <1>1
<1>3. Rounded(a, b) = q
    BY DEF Rounded
<1>. HIDE DEF q, m
<1> DEFINE p == d * q
<1>4. p = 2 * b * q
    OBVIOUS
<1>5. p \in Int /\ x = p + m /\ m \in Int /\ 0 <= m /\ m <= d - 1
    BY <1>1, <1>2
<1>. HIDE DEF p
<1>6. p <= 2 * a + b /\ 2 * a - b <= p
    BY <1>5
<1>. QED  BY <1>2, <1>3, <1>4, <1>6

\* The total of a list is that of all its weights.
LEMMA TotalIsFirst ==
    ASSUME NEW N \in Nat, NEW f \in [1 .. N -> Nat]
    PROVE  total(f) = FirstTotal(f, N)
BY DEF total, Thousandths, FirstTotal, FirstUnits

\* Weights above zero sum to as much as there are of them.
LEMMA FirstTotals ==
    ASSUME NEW N \in Nat, NEW f \in [1 .. N -> Nat]
    PROVE  \A n \in 0 .. N : /\ IsFiniteSet(FirstUnits(f, n)) /\ FirstTotal(f, n) \in Nat
                             /\ (\A i \in 1 .. N : f[i] # 0) => FirstTotal(f, n) >= n
<1> DEFINE P(n) == /\ IsFiniteSet(FirstUnits(f, n)) /\ FirstTotal(f, n) \in Nat
                   /\ (\A i \in 1 .. N : f[i] # 0) => FirstTotal(f, n) >= n
           S == {n \in 0 .. N : P(n)}
<1>1. 0 \in S
    <2>1. P(0)
        BY FirstTotalZero
    <2>. HIDE DEF P
    <2>. QED  BY <2>1
<1>2. ASSUME NEW n \in 0 .. N, n \in S, n < N PROVE n + 1 \in S
    <2> DEFINE x == n + 1
    <2>1. n \in Nat /\ x \in 1 .. N /\ x \in 0 .. N /\ x \in Nat /\ x = n + 1
        BY <1>2
    <2>. HIDE DEF x
    <2>2. f[x] \in Nat
        BY <2>1
    <2>3. IsFiniteSet(FirstUnits(f, n)) /\ ((\A i \in 1 .. N : f[i] # 0) => FirstTotal(f, n) >= n)
        BY <1>2
    <2>4. IsFiniteSet(FirstUnits(f, x)) /\ FirstTotal(f, x) = FirstTotal(f, n) + f[x] /\ FirstTotal(f, n) \in Nat
        BY <2>1, <2>2, <2>3, FirstTotalStep
    <2>5. FirstTotal(f, x) \in Nat
        BY <2>2, <2>4
    <2>6. ASSUME \A i \in 1 .. N : f[i] # 0 PROVE FirstTotal(f, x) >= x
        <3>1. f[x] # 0 /\ FirstTotal(f, n) >= n
            BY <2>1, <2>3, <2>6
        <3>. QED  BY <2>1, <2>2, <2>4, <3>1
    <2>7. P(x)
        BY <2>4, <2>5, <2>6
    <2>. HIDE DEF P
    <2>. QED  BY <2>1, <2>7 DEF x
<1>. HIDE DEF S, P
<1>3. \A n \in 0 .. N : n \in S /\ n < N => n + 1 \in S
    BY <1>2
<1>4. \A n \in 0 .. N : n \in S
    BY <1>1, <1>3, UpTo
<1>5. \A n \in 0 .. N : P(n)
    BY <1>4 DEF S
<1>. QED  BY <1>5 DEF P

\* One weight more, and what rounding it costs.
LEMMA ScaleStep ==
    ASSUME NEW T \in Nat, NEW R \in Nat, NEW F \in Nat, NEW n \in Nat, NEW r \in Nat, NEW w \in Nat,
           2 * T * R <= 2000 * F + n * T, 2000 * F - n * T <= 2 * T * R,
           2 * T * r <= 2 * (1000 * w) + T, 2 * (1000 * w) - T <= 2 * T * r
    PROVE  /\ 2 * T * (R + r) <= 2000 * (F + w) + (n + 1) * T
           /\ 2000 * (F + w) - (n + 1) * T <= 2 * T * (R + r)
<1>1. 2 * T * (R + r) = 2 * T * R + 2 * T * r /\ (n + 1) * T = n * T + T
    OBVIOUS
<1> DEFINE x == 2 * T * R
           y == 2 * T * r
           z == n * T
<1>2. x \in Int /\ y \in Int /\ z \in Int
    OBVIOUS
<1>3. x <= 2000 * F + z /\ 2000 * F - z <= x /\ y <= 2 * (1000 * w) + T /\ 2 * (1000 * w) - T <= y
    OBVIOUS
<1>. HIDE DEF x, y, z
<1>4. x + y <= 2000 * (F + w) + (z + T) /\ 2000 * (F + w) - (z + T) <= x + y
    BY <1>2, <1>3
<1>. QED  BY <1>1, <1>4 DEF x, y, z

LEMMA Cancel ==
    ASSUME NEW T \in Nat \ {0}, NEW x \in Int, NEW y \in Int, T * x <= T * y
    PROVE  x <= y
<1> SUFFICES ASSUME x >= y + 1 PROVE FALSE
    OBVIOUS
<1>1. T * x >= T * (y + 1) /\ T * (y + 1) = T * y + T
    OBVIOUS
<1>2. T * y \in Int /\ T * x \in Int
    OBVIOUS
<1>. QED  BY <1>1, <1>2

\* r scales weight w, of a total T, to thousandths of one, within a half.
Scales(r, w, T) == 2 * T * r <= 2 * (1000 * w) + T /\ 2 * (1000 * w) - T <= 2 * T * r

ScaledFrom(r, f, N) ==
    /\ N \in Nat /\ f \in [1 .. N -> Nat] /\ r \in [1 .. N -> Nat] /\ FirstTotal(f, N) \in Nat \ {0}
    /\ \A i \in 1 .. N : Scales(r[i], f[i], FirstTotal(f, N))

NearOne(r, N) == 2 * FirstTotal(r, N) \in 2000 - N .. 2000 + N

LEMMA Distribute ==
    ASSUME NEW T \in Nat, NEW R \in Nat, NEW N \in Nat
    PROVE  T * (2 * R) = 2 * T * R /\ T * (2000 + N) = 2000 * T + N * T /\ T * (2000 - N) = 2000 * T - N * T
OBVIOUS

\* Scaled weights sum to one, up to half a thousandth for each.
LEMMA ScaledTotal ==
    ASSUME NEW N, NEW f, NEW r, ScaledFrom(r, f, N)
    PROVE  NearOne(r, N)
<1> DEFINE T == FirstTotal(f, N)
<1>0. T \in Nat \ {0} /\ T = FirstTotal(f, N) /\ \A i \in 1 .. N : Scales(r[i], f[i], T)
    BY DEF ScaledFrom
<1>. HIDE DEF T
<1> SUFFICES ASSUME N \in Nat, f \in [1 .. N -> Nat], r \in [1 .. N -> Nat],
                    T \in Nat \ {0}, T = FirstTotal(f, N), \A i \in 1 .. N : Scales(r[i], f[i], T)
             PROVE  NearOne(r, N)
    BY <1>0 DEF ScaledFrom
<1>1. \A n \in 0 .. N : IsFiniteSet(FirstUnits(f, n)) /\ FirstTotal(f, n) \in Nat
    BY FirstTotals
<1>2. \A n \in 0 .. N : IsFiniteSet(FirstUnits(r, n)) /\ FirstTotal(r, n) \in Nat
    BY FirstTotals
<1> DEFINE P(n) == /\ 2 * T * FirstTotal(r, n) <= 2000 * FirstTotal(f, n) + n * T
                   /\ 2000 * FirstTotal(f, n) - n * T <= 2 * T * FirstTotal(r, n)
           S == {n \in 0 .. N : P(n)}
<1>3. 0 \in S
    <2>1. FirstTotal(f, 0) = 0 /\ FirstTotal(r, 0) = 0
        BY FirstTotalZero
    <2>2. P(0)
        BY <2>1
    <2>. HIDE DEF P
    <2>. QED  BY <2>2
<1>4. ASSUME NEW n \in 0 .. N, n \in S, n < N PROVE n + 1 \in S
    <2> DEFINE y == n + 1
               R == FirstTotal(r, n)
               F == FirstTotal(f, n)
               x == r[y]
               w == f[y]
    <2>1. n \in Nat /\ y \in 1 .. N /\ y \in 0 .. N /\ y \in Nat /\ y = n + 1
        BY <1>4
    <2>2. P(n)
        BY <1>4
    <2>. HIDE DEF y
    <2>3. x \in Nat /\ w \in Nat
        BY <2>1
    <2>4. Scales(x, w, T)
        BY <2>1
    <2>5. IsFiniteSet(FirstUnits(f, n)) /\ IsFiniteSet(FirstUnits(r, n))
        BY <1>1, <1>2
    <2>6. FirstTotal(f, y) = F + w /\ F \in Nat
        BY ONLY <2>1, <2>3, <2>5, FirstTotalStep
    <2>7. FirstTotal(r, y) = R + x /\ R \in Nat
        BY ONLY <2>1, <2>3, <2>5, FirstTotalStep
    <2>8. 2 * T * R <= 2000 * F + n * T /\ 2000 * F - n * T <= 2 * T * R
        BY <2>2
    <2>. HIDE DEF R, F, x, w
    <2>9. T \in Nat
        OBVIOUS
    <2>10. /\ 2 * T * (R + x) <= 2000 * (F + w) + (n + 1) * T
          /\ 2000 * (F + w) - (n + 1) * T <= 2 * T * (R + x)
        BY ONLY <2>1, <2>3, <2>4, <2>6, <2>7, <2>8, <2>9, ScaleStep DEF Scales
    <2>11. P(y)
        BY <2>1, <2>6, <2>7, <2>10
    <2>. HIDE DEF P
    <2>. QED  BY <2>1, <2>11
<1>. HIDE DEF S, P
<1>5. \A n \in 0 .. N : n \in S /\ n < N => n + 1 \in S
    BY <1>4
<1>6. N \in Nat /\ N \in 0 .. N
    OBVIOUS
<1>7. N \in S
    BY <1>3, <1>5, <1>6, UpTo
<1>8. P(N)
    BY <1>7 DEF S
<1> DEFINE R == FirstTotal(r, N)
<1>9. R \in Nat
    BY <1>2, <1>6
<1>10. 2 * T * R <= 2000 * T + N * T /\ 2000 * T - N * T <= 2 * T * R
    BY <1>8 DEF P
<1>. HIDE DEF R
<1>11. T * (2 * R) = 2 * T * R /\ T * (2000 + N) = 2000 * T + N * T /\ T * (2000 - N) = 2000 * T - N * T
    BY <1>9, Distribute
<1>12. 2 * R \in Int /\ 2000 + N \in Int /\ 2000 - N \in Int
    BY <1>9
<1>13. 2 * R <= 2000 + N
    BY ONLY <1>10, <1>11, <1>12, T \in Nat \ {0}, Cancel
<1>14. 2000 - N <= 2 * R
    <2> DEFINE lo == 2000 - N
               hi == 2 * R
    <2>1. lo \in Int /\ hi \in Int
        BY <1>12
    <2>2. T * lo <= T * hi
        BY <1>10, <1>11
    <2>. HIDE DEF lo, hi
    <2>3. lo <= hi
        BY ONLY <2>1, <2>2, T \in Nat \ {0}, Cancel
    <2>. QED  BY <2>3 DEF lo, hi
<1>. QED  BY <1>12, <1>13, <1>14 DEF R, NearOne

LEMMA ClampRange ==
    ASSUME NEW w \in RawWeight
    PROVE  clamp_weight(w) \in 50 .. 300
BY TextAssumption DEF TextAssumption, clamp_weight

LEMMA WeightsAdd ==
    ASSUME weights \in Seq(RawWeight)
    PROVE  WeightsSumToOne
<1> SUFFICES ASSUME weights # <<>>
             PROVE  total(build_weights) \in 950 .. 1050 \/ 2 * total(build_weights) \in 2000 - Len(weights) .. 2000 + Len(weights)
    BY DEF WeightsSumToOne
<1> DEFINE N == Len(weights)
           f == [i \in DOMAIN weights |-> clamp_weight(weights[i])]
           T == FirstTotal(f, N)
           r == [i \in 1 .. N |-> Rounded(1000 * f[i], T)]
<1>1. N \in Nat \ {0} /\ DOMAIN weights = 1 .. N
    OBVIOUS
<1>2. f \in [1 .. N -> Nat \ {0}] /\ f # <<>>
    <2>1. \A i \in 1 .. N : weights[i] \in RawWeight
        BY <1>1
    <2>2. \A i \in 1 .. N : clamp_weight(weights[i]) \in 50 .. 300
        <3>1. ASSUME NEW i \in 1 .. N PROVE clamp_weight(weights[i]) \in 50 .. 300
            BY <2>1, ClampRange
        <3>. QED  BY <3>1
    <2>3. 50 .. 300 \subseteq Nat \ {0}
        OBVIOUS
    <2>4. \A i \in 1 .. N : clamp_weight(weights[i]) \in Nat \ {0}
        BY ONLY <2>2, <2>3, Zenon
    <2>5. DOMAIN f # {}
        BY <1>1
    <2>. QED  BY <1>1, <2>4, <2>5
<1>3. build_weights = normalize_weights(f)
    BY DEF build_weights
<1>. HIDE DEF f, N
<1>4. f \in [1 .. N -> Nat] /\ \A i \in 1 .. N : f[i] # 0
    BY <1>2
<1>5. total(f) = T /\ T \in Nat \ {0}
    <2>1. N \in 0 .. N /\ N >= 1
        BY <1>1
    <2>2. total(f) = FirstTotal(f, N) /\ FirstTotal(f, N) \in Nat /\ FirstTotal(f, N) >= N
        BY <1>1, <1>4, <2>1, TotalIsFirst, FirstTotals
    <2>. QED  BY <1>1, <2>1, <2>2
<1>. HIDE DEF T
<1>6. CASE T \in 950 .. 1050
    <2>1. 950 <= T /\ T <= 1050 /\ T > 0
        BY <1>6
    <2>2. normalize_weights(f) = f
        BY <1>2, <1>5, <2>1 DEF normalize_weights
    <2>3. total(build_weights) = T
        BY <1>3, <1>5, <2>2
    <2>. QED  BY <1>6, <2>3
<1>7. CASE T \notin 950 .. 1050
    <2>1. ~(T <= 0)
        BY <1>5
    <2>2. DOMAIN f = 1 .. N
        BY <1>4
    <2>3. build_weights = r
        BY <1>2, <1>3, <1>5, <1>7, <2>1, <2>2 DEF normalize_weights
    <2>. HIDE DEF r
    <2>4. ASSUME NEW i \in 1 .. N
          PROVE  r[i] \in Nat /\ Scales(r[i], f[i], T)
        <3> DEFINE a == 1000 * f[i]
                   q == Rounded(a, T)
        <3>1. a \in Nat
            BY <1>4
        <3>. HIDE DEF a
        <3>2. q \in Nat /\ 2 * T * q <= 2 * a + T /\ 2 * a - T <= 2 * T * q
            BY <1>5, <3>1, RoundedRange
        <3>3. r[i] = q
            BY DEF r, a
        <3>. HIDE DEF q
        <3>. QED  BY <3>2, <3>3 DEF a, Scales
    <2>5. r \in [1 .. N -> Nat]
        <3>1. \A i \in 1 .. N : r[i] \in Nat
            BY <2>4
        <3>. QED  BY <3>1 DEF r
    <2>6. T = FirstTotal(f, N)
        BY DEF T
    <2>7. NearOne(r, N)
        <3>1. \A i \in 1 .. N : Scales(r[i], f[i], T)
            BY <2>4
        <3>2. N \in Nat /\ f \in [1 .. N -> Nat] /\ T \in Nat \ {0}
            BY <1>1, <1>4, <1>5
        <3>3. ScaledFrom(r, f, N)
            BY <2>5, <2>6, <3>1, <3>2 DEF ScaledFrom
        <3>. QED  BY ONLY <3>3, ScaledTotal
    <2>8. total(r) = FirstTotal(r, N)
        BY <1>1, <2>5, TotalIsFirst
    <2>. QED  BY <2>3, <2>7, <2>8 DEF N, NearOne
<1>. QED  BY <1>6, <1>7

\* The weights of a reply sum to one within the tolerance or the rounding, for every list of
\* weights that a model may give.
THEOREM WeightsSumToOneTheorem == WeightSpec => []WeightsSumToOne
<1> DEFINE W == weights \in Seq(RawWeight)
<1>1. weights = <<>> => W
    OBVIOUS
<1>2. W /\ [\E w \in RawWeight : AddWeight(w)]_weights => W'
    BY DEF AddWeight
<1>3. W => WeightsSumToOne
    BY WeightsAdd
<1>. QED  BY <1>1, <1>2, <1>3, PTL DEF WeightSpec

=============================================================================
