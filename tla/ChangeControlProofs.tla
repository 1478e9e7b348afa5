------------------------- MODULE ChangeControlProofs ------------------------
(***************************************************************************)
(* Three parts of the observer, for every value of their constants.  The   *)
(* circuit breaker: one whose cooldown is longer than its window never     *)
(* closes by itself over the rollbacks that tripped it, and a half-open    *)
(* period has one probe.  Log ingestion: the offset that the jobs share    *)
(* gives no line out twice in one life of the observer, and every line not *)
(* given out has one of four reasons.  Self-regulation: thresholds         *)
(* follow the level and stay within their hard bounds, through failed      *)
(* saves and restarts.                                                     *)
(***************************************************************************)
EXTENDS CircuitBreaker, LogIngest, Regulator, FiniteSetTheorems, TLAPS

\* The changes whose rollback is still in the window.
InWindow(ages) == {c \in Change : ages[c] <= Window}

\* Fewer rollbacks in the window than it takes to trip.
Calm == count_recent_rollbacks(age) < MaxRollbacks

\* The evidence of the last trip is as old as the trip, or older: when it has
\* left the window, the breaker has still not cooled down.
TripIsNewest == tripped <= Window /\ \A c \in InWindow(age) : tripped <= age[c]

IInv ==
    /\ TypeOK
    /\ state = "closed" => pardoned \/ Calm
    /\ state = "open" => Calm \/ TripIsNewest
    /\ state = "half_open" => Calm

LEMMA CountType ==
  ASSUME NEW ages \in [Change -> 0 .. Expired]
  PROVE  /\ IsFiniteSet(InWindow(ages))
         /\ count_recent_rollbacks(ages) = Cardinality(InWindow(ages))
         /\ count_recent_rollbacks(ages) \in Nat
  <1>1. InWindow(ages) \subseteq Change
    BY DEF InWindow
  <1>2. IsFiniteSet(InWindow(ages))
    BY <1>1, FS_Subset, BreakerAssumption
  <1>3. count_recent_rollbacks(ages) = Cardinality(InWindow(ages))
    BY DEF InWindow, count_recent_rollbacks
  <1>4. QED
    BY <1>2, <1>3, FS_CardinalityType

\* Fewer changes in the window, fewer rollbacks counted.
LEMMA CountMonotone ==
  ASSUME NEW a \in [Change -> 0 .. Expired], NEW b \in [Change -> 0 .. Expired],
         InWindow(b) \subseteq InWindow(a)
  PROVE  count_recent_rollbacks(b) <= count_recent_rollbacks(a)
  BY CountType, FS_Subset

\* Checking the cooldown keeps the invariant's facts about the state it returns.
LEMMA CooldownCalm ==
  ASSUME IInv
  PROVE  LET b == check_cooldown
         IN  /\ b.state \in {"closed", "open", "half_open"}
             /\ b.used \in BOOLEAN
             /\ b.probes \subseteq Change
             /\ b.state = "closed" => state = "closed"
             /\ b.state = "open" => state = "open"
             /\ b.state = "half_open" => Calm
  <1>1. CASE Elapsed
    <2>1. state = "open" /\ tripped >= Cooldown
      BY <1>1 DEF Elapsed
    <2>2. ~TripIsNewest
      BY <2>1, BreakerAssumption DEF TripIsNewest, IInv, TypeOK, None
    <2>3. Calm
      BY <2>1, <2>2 DEF IInv
    <2>4. QED
      BY <1>1, <2>3 DEF check_cooldown
  <1>2. CASE ~Elapsed
    BY <1>2 DEF check_cooldown, IInv, TypeOK
  <1>3. QED
    BY <1>1, <1>2

LEMMA TickStep == IInv /\ Tick => IInv'
  <1> SUFFICES ASSUME IInv, Tick PROVE IInv'
    OBVIOUS
  <1> USE BreakerAssumption
  <1>1. TypeOK'
    BY DEF IInv, TypeOK, Tick, Expired, None
  <1>2. age \in [Change -> 0 .. Expired] /\ age' \in [Change -> 0 .. Expired]
    BY <1>1 DEF IInv, TypeOK
  <1>3. \A c \in InWindow(age') : c \in InWindow(age) /\ age'[c] = age[c] + 1
    BY <1>2 DEF InWindow, Tick, Expired
  <1>4. count_recent_rollbacks(age') <= count_recent_rollbacks(age)
    BY <1>2, <1>3, CountMonotone
  <1>5. Calm => Calm'
    BY <1>2, <1>4, CountType DEF Calm
  <1>6. ASSUME state = "open", TripIsNewest PROVE Calm' \/ TripIsNewest'
    <2>1. tripped \in 0 .. Window /\ tripped' = tripped + 1
      BY <1>6 DEF TripIsNewest, IInv, TypeOK, Tick, None
    <2>2. CASE tripped = Window
      <3>1. InWindow(age') = {}
        BY <1>2, <1>3, <1>6, <2>2 DEF TripIsNewest, InWindow, Expired
      <3>2. count_recent_rollbacks(age') = 0
        BY <1>2, <3>1, CountType, FS_EmptySet
      <3>3. QED
        BY <3>2 DEF Calm
    <2>3. CASE tripped < Window
      <3>1. \A c \in InWindow(age') : tripped' <= age'[c]
        BY <1>2, <1>3, <1>6, <2>1 DEF TripIsNewest, InWindow, Expired
      <3>2. QED
        BY <2>1, <2>3, <3>1 DEF TripIsNewest
    <2>4. QED
      BY <2>1, <2>2, <2>3
  <1>7. QED
    BY <1>1, <1>5, <1>6 DEF IInv, Tick

LEMMA RollbackStep == ASSUME NEW c \in Change, IInv, RecordRollback(c) PROVE IInv'
  <1> USE BreakerAssumption
  <1>1. TypeOK'
    <2>1. probe_used' \in BOOLEAN /\ pardoned' \in BOOLEAN /\ asks' \in BOOLEAN
      BY DEF IInv, TypeOK, RecordRollback, trip
    <2>2. /\ state' \in {"closed", "open", "half_open"}
          /\ tripped' \in None .. Cooldown
          /\ state' = "open" => tripped' # None
      BY DEF IInv, TypeOK, RecordRollback, trip, None
    <2>3. /\ age' \in [Change -> 0 .. Expired]
          /\ inflight' \subseteq Change
          /\ probes' \subseteq Change
      BY DEF IInv, TypeOK, RecordRollback, Expired
    <2>4. QED
      BY <2>1, <2>2, <2>3 DEF TypeOK
  <1>2. CASE Trips(age')
    <2>1. state' = "open" /\ tripped' = 0
      BY <1>2 DEF RecordRollback, trip
    <2>2. \A d \in InWindow(age') : tripped' <= age'[d]
      BY <1>1, <2>1 DEF InWindow, TypeOK, Expired
    <2>3. TripIsNewest'
      BY <2>1, <2>2 DEF TripIsNewest
    <2>4. QED
      BY <1>1, <2>1, <2>3 DEF IInv
  <1>3. CASE ~Trips(age')
    <2>1. state # "half_open" /\ ~(count_recent_rollbacks(age') >= MaxRollbacks)
      BY <1>3 DEF Trips
    <2>2. count_recent_rollbacks(age') \in Nat
      BY <1>1, CountType DEF TypeOK
    <2>3. Calm'
      BY <2>1, <2>2 DEF Calm
    <2>4. QED
      BY <1>1, <2>3 DEF IInv
  <1>4. QED
    BY <1>2, <1>3

LEMMA StepInductive == IInv /\ [Next]_vars => IInv'
  <1> SUFFICES ASSUME IInv, [Next]_vars PROVE IInv'
    OBVIOUS
  <1>1. ASSUME NEW c \in Change, CanAutoApply(c) PROVE IInv'
    <2>1. /\ UNCHANGED <<tripped, age, pardoned>>
          /\ state' = check_cooldown.state
          /\ inflight' \subseteq Change
      BY <1>1 DEF CanAutoApply, IInv, TypeOK
    <2>2. probe_used' \in BOOLEAN /\ probes' \subseteq Change
      BY <1>1, CooldownCalm DEF CanAutoApply
    <2>asks. asks' \in BOOLEAN
      BY <1>1 DEF CanAutoApply
    <2>3. TypeOK'
      BY <2>1, <2>2, <2>asks, CooldownCalm DEF IInv, TypeOK
    <2>4. QED
      BY <2>1, <2>3, CooldownCalm DEF IInv, Calm, TripIsNewest, InWindow
  <1>2. ASSUME NEW c \in Change, RecordRollback(c) PROVE IInv'
    BY <1>2, RollbackStep
  <1>3. ASSUME NEW c \in Change, RecordSuccess(c) PROVE IInv'
    <2>1. TypeOK'
      <3>1. probe_used' \in BOOLEAN /\ pardoned' \in BOOLEAN /\ asks' \in BOOLEAN
        BY <1>3 DEF IInv, TypeOK, RecordSuccess, close
      <3>2. /\ state' \in {"closed", "open", "half_open"}
            /\ tripped' \in None .. Cooldown
            /\ state' = "open" => tripped' # None
        BY <1>3, BreakerAssumption DEF IInv, TypeOK, RecordSuccess, close, None
      <3>3. /\ age' \in [Change -> 0 .. Expired]
            /\ inflight' \subseteq Change
            /\ probes' \subseteq Change
        BY <1>3 DEF IInv, TypeOK, RecordSuccess
      <3>4. QED
        BY <3>1, <3>2, <3>3 DEF TypeOK
    <2>2. Calm' = Calm /\ pardoned' = pardoned
      BY <1>3 DEF RecordSuccess, Calm
    <2>3. CASE state = "half_open"
      BY <1>3, <2>1, <2>2, <2>3 DEF RecordSuccess, close, IInv
    <2>4. CASE state # "half_open"
      BY <1>3, <2>1, <2>2, <2>4 DEF RecordSuccess, IInv, TripIsNewest, InWindow
    <2>5. QED
      BY <2>3, <2>4
  <1>4. ASSUME Look PROVE IInv'
    <2>1. TypeOK'
      BY <1>4, CooldownCalm DEF Look, IInv, TypeOK
    <2>2. QED
      BY <1>4, <2>1, CooldownCalm DEF Look, IInv, Calm, TripIsNewest, InWindow
  <1>5. ASSUME Reset PROVE IInv'
    <2>1. probe_used' \in BOOLEAN /\ pardoned' \in BOOLEAN /\ asks' \in BOOLEAN /\ pardoned'
      BY <1>5 DEF Reset, close, IInv, TypeOK
    <2>2. state' = "closed" /\ tripped' \in None .. Cooldown
      BY <1>5, BreakerAssumption DEF Reset, close, None
    <2>3. /\ age' \in [Change -> 0 .. Expired]
          /\ inflight' \subseteq Change
          /\ probes' \subseteq Change
      BY <1>5 DEF IInv, TypeOK, Reset
    <2>4. QED
      BY <2>1, <2>2, <2>3 DEF IInv, TypeOK
  <1>6. ASSUME Tick PROVE IInv'
    BY <1>6, TickStep
  <1>7. CASE UNCHANGED vars
    BY <1>7 DEF vars, IInv, TypeOK, Calm, TripIsNewest, InWindow
  <1>8. QED
    BY <1>1, <1>2, <1>3, <1>4, <1>5, <1>6, <1>7 DEF Next

LEMMA Inductive == Spec => []IInv
  <1>1. Init => IInv
    <2> SUFFICES ASSUME Init PROVE IInv
      OBVIOUS
    <2> USE BreakerAssumption DEF Init
    <2>1. TypeOK
      <3>1. probe_used \in BOOLEAN /\ pardoned \in BOOLEAN /\ asks \in BOOLEAN
        OBVIOUS
      <3>2. tripped \in None .. Cooldown /\ age \in [Change -> 0 .. Expired]
        BY DEF Expired, None
      <3>3. QED
        BY <3>1, <3>2 DEF TypeOK
    <2>2. InWindow(age) = {}
      BY DEF InWindow, Expired
    <2>3. count_recent_rollbacks(age) = 0
      BY <2>1, <2>2, CountType, FS_EmptySet DEF TypeOK
    <2>4. QED
      BY <2>1, <2>3 DEF IInv, Calm
  <1>2. QED
    BY <1>1, StepInductive, PTL DEF Spec

\* The breaker's state keeps its types; an open breaker knows when it tripped,
\* without which _check_cooldown would never let it leave OPEN.
THEOREM TypeCorrect == Spec => []TypeOK
  <1>1. IInv => TypeOK
    BY DEF IInv
  <1>2. QED
    BY <1>1, Inductive, PTL

\* For any thresholds with a cooldown longer than the window, a breaker that
\* closed by itself has fewer rollbacks in its window than it takes to trip.
THEOREM SafeCloseTheorem == Spec => []SafeClose
  <1>1. IInv => SafeClose
    BY DEF IInv, SafeClose, Calm
  <1>2. QED
    BY <1>1, Inductive, PTL
-----------------------------------------------------------------------------
\* A half-open period that has not used its probe has granted nothing, and no
\* period has granted more than one change.  Between periods, probes still
\* holds what the last one granted.
ProbeInv ==
    /\ probes = {} \/ \E c \in Change : probes = {c}
    /\ state = "half_open" /\ ~probe_used => probes = {}

\* Checking the cooldown starts a new period with its probe unused.
LEMMA CooldownProbe ==
  ASSUME ProbeInv
  PROVE  LET b == check_cooldown
         IN  /\ b.probes = {} \/ \E c \in Change : b.probes = {c}
             /\ b.state = "half_open" /\ ~b.used => b.probes = {}
  <1>1. CASE Elapsed
    BY <1>1 DEF check_cooldown
  <1>2. CASE ~Elapsed
    BY <1>2 DEF check_cooldown, ProbeInv
  <1>3. QED
    BY <1>1, <1>2

LEMMA ProbeStep == ProbeInv /\ [Next]_vars => ProbeInv'
  <1> SUFFICES ASSUME ProbeInv, [Next]_vars PROVE ProbeInv'
    OBVIOUS
  <1>1. ASSUME NEW c \in Change, CanAutoApply(c) PROVE ProbeInv'
    <2> DEFINE b == check_cooldown
               probe == Granted(b) /\ b.state = "half_open"
    <2>1. /\ state' = b.state
          /\ probe_used' = (b.used \/ probe)
          /\ probes' = IF probe THEN b.probes \cup {c} ELSE b.probes
      BY <1>1 DEF CanAutoApply
    <2>2. /\ b.probes = {} \/ \E d \in Change : b.probes = {d}
          /\ b.state = "half_open" /\ ~b.used => b.probes = {}
      BY CooldownProbe
    <2>3. probe => b.state = "half_open" /\ ~b.used
      BY DEF Granted
    <2> HIDE DEF b, probe
    <2>4. CASE probe
      BY <2>1, <2>2, <2>3, <2>4 DEF ProbeInv
    <2>5. CASE ~probe
      BY <2>1, <2>2, <2>5 DEF ProbeInv
    <2>6. QED
      BY <2>4, <2>5
  <1>2. ASSUME NEW c \in Change, RecordRollback(c) PROVE ProbeInv'
    <2>1. CASE Trips(age')
      BY <1>2, <2>1 DEF RecordRollback, trip, ProbeInv
    <2>2. CASE ~Trips(age')
      BY <1>2, <2>2 DEF RecordRollback, ProbeInv
    <2>3. QED
      BY <2>1, <2>2
  <1>3. ASSUME NEW c \in Change, RecordSuccess(c) PROVE ProbeInv'
    <2>1. CASE state = "half_open"
      BY <1>3, <2>1 DEF RecordSuccess, close, ProbeInv
    <2>2. CASE state # "half_open"
      BY <1>3, <2>2 DEF RecordSuccess, ProbeInv
    <2>3. QED
      BY <2>1, <2>2
  <1>4. ASSUME Look PROVE ProbeInv'
    BY <1>4, CooldownProbe DEF Look, ProbeInv
  <1>5. ASSUME Reset PROVE ProbeInv'
    BY <1>5 DEF Reset, close, ProbeInv
  <1>6. ASSUME Tick \/ UNCHANGED vars PROVE ProbeInv'
    BY <1>6 DEF Tick, vars, ProbeInv
  <1>7. QED
    BY <1>1, <1>2, <1>3, <1>4, <1>5, <1>6 DEF Next

\* However grants, reports of changes granted long ago, resets by the admin and
\* hours interleave, can_auto_apply grants at most one change in a half-open
\* period, for any number of changes in flight.
THEOREM OneProbeTheorem == Spec => []OneProbe
  <1>1. Init => ProbeInv
    BY DEF Init, ProbeInv
  <1>2. ProbeInv => OneProbe
    <2>1. probes = {} => Cardinality(probes) = 0
      BY FS_EmptySet
    <2>2. \A c \in Change : probes = {c} => Cardinality(probes) = 1
      BY FS_Singleton
    <2>3. QED
      BY <2>1, <2>2 DEF ProbeInv, OneProbe
  <1>3. QED
    BY <1>1, <1>2, ProbeStep, PTL DEF Spec
-----------------------------------------------------------------------------
(* Log ingestion *)

IngestTypeOK ==
    /\ lines \in 0 .. MaxLine /\ first \in 0 .. lines
    /\ half \in BOOLEAN
    /\ inode \in Nat \ {0}
    /\ offset \in [inode : Nat, at : Nat, inside : BOOLEAN]
    /\ restarts \in Nat
    /\ copies \in [Line -> Nat]

\* The offset belongs to this file or an earlier one and lies within it; a
\* line it lies inside was half written when it was read.
OffsetSound ==
    /\ offset.inode <= inode
    /\ Known => offset.at \in first .. lines
    /\ (Known /\ offset.inside) => offset.at + 1 \in torn

\* LinesReadOnce is inductive once the next read is known to start inside the
\* file: a line ahead of it has been given out in earlier lives only.
IngestInv == IngestTypeOK /\ OffsetSound /\ LinesReadOnce

LEMMA FromInside == IngestInv => From \in first .. lines
  BY DEF IngestInv, IngestTypeOK, OffsetSound, From

\* A read takes every line after the point read to, once, and moves the point to
\* the end of the file.
LEMMA ReadStep ==
  ASSUME IngestInv, NEW k \in 0 .. MaxLine, Read(k)
  PROVE  IngestInv'
  <1> USE IngestAssumption DEF IngestInv
  <1> DEFINE old == {l \in Readable : l <= k}
             new == Readable \ old
  <1>1. /\ copies' = [l \in Line |-> IF l \in new THEN copies[l] + 1 ELSE copies[l]]
        /\ skipped' = skipped \cup old
        /\ UNCHANGED <<first, lines, half, inode, restarts, lost>>
        /\ offset' = [inode |-> inode, at |-> lines, inside |-> half]
        /\ torn' = IF half THEN torn \cup {lines + 1} ELSE torn
    BY DEF Read, FileOffset
  <1>2. From \in first .. lines /\ lines \in 0 .. MaxLine
    BY FromInside DEF IngestTypeOK
  <1>3. Known' /\ From' = lines
    BY <1>1 DEF Known, From
  <1>4. IngestTypeOK'
    <2>1. copies' \in [Line -> Nat]
      BY <1>1 DEF IngestTypeOK
    <2>2. offset' \in [inode : Nat, at : Nat, inside : BOOLEAN]
      BY <1>1 DEF IngestTypeOK
    <2>3. QED
      BY <1>1, <2>1, <2>2 DEF IngestTypeOK
  <1>5. OffsetSound'
    <2>1. offset'.inside => half
      BY <1>1
    <2>2. half => lines + 1 \in torn'
      BY <1>1
    <2>3. QED
      BY <1>1, <2>1, <2>2, <1>2, <1>4 DEF OffsetSound, IngestTypeOK, Known
  <1>6. ASSUME NEW l \in Line PROVE copies'[l] <= restarts' + (IF l <= From' THEN 1 ELSE 0)
    <2>1. /\ copies[l] \in Nat /\ restarts \in Nat /\ l \in Nat
          /\ copies[l] <= restarts + (IF l <= From THEN 1 ELSE 0)
      BY DEF IngestTypeOK, LinesReadOnce, Line
    <2>2. restarts' = restarts /\ From' = lines
      BY <1>1, <1>3
    <2>3. CASE l \in new
      <3>1. l > From /\ l <= lines
        BY <1>2, <2>3 DEF Readable
      <3>2. copies'[l] = copies[l] + 1
        BY <1>1, <2>3
      <3>3. QED
        BY <1>2, <2>1, <2>2, <3>1, <3>2
    <2>4. CASE l \notin new
      <3>1. copies'[l] = copies[l]
        BY <1>1, <2>4
      <3>2. QED
        BY <1>2, <2>1, <2>2, <3>1
    <2>5. QED
      BY <2>3, <2>4
  <1>7. ASSUME NEW l \in 1 .. From'
        PROVE  copies'[l] > 0 \/ l \in skipped' \cup torn' \cup lost'
    <2>1. l \in Line /\ copies[l] \in Nat /\ l \in Nat /\ l <= lines /\ 1 <= l
      BY <1>2, <1>3 DEF IngestTypeOK, Line
    <2>2. copies'[l] = IF l \in new THEN copies[l] + 1 ELSE copies[l]
      BY <1>1, <2>1
    <2>3. CASE l <= From
      <3>1. copies[l] > 0 \/ l \in skipped \cup torn \cup lost
        BY <1>2, <2>1, <2>3 DEF LinesReadOnce
      <3>2. skipped \cup torn \cup lost \subseteq skipped' \cup torn' \cup lost'
        BY <1>1
      <3>3. QED
        BY <2>1, <2>2, <3>1, <3>2
    <2>4. CASE l > From
      <3>1. l \in Readable \/ l \in torn
        BY <1>2, <2>1, <2>4 DEF Readable, OffsetSound, From, IngestTypeOK
      <3>2. CASE l \in new
        BY <2>1, <2>2, <3>2
      <3>3. CASE l \notin new
        BY <1>1, <3>1, <3>3
      <3>4. QED
        BY <3>2, <3>3
    <2>5. QED
      BY <1>2, <2>1, <2>3, <2>4
  <1>8. QED
    BY <1>4, <1>5, <1>6, <1>7 DEF LinesReadOnce

\* Rotation leaves nothing of the old file to read: what was left of it is lost.
LEMMA RotateStep == IngestInv /\ Rotate => IngestInv'
  <1> SUFFICES ASSUME IngestInv, Rotate PROVE IngestInv'
    OBVIOUS
  <1> USE IngestAssumption DEF IngestInv
  <1>1. /\ first' = lines /\ inode' = inode + 1
        /\ lost' = lost \cup (From + 1 .. lines)
        /\ UNCHANGED <<lines, half, offset, restarts, copies, skipped, torn>>
    BY DEF Rotate
  <1>2. From \in first .. lines /\ first \in Nat /\ lines \in 0 .. MaxLine
    BY FromInside DEF IngestTypeOK
  <1>3. ~Known' /\ From' = lines
    BY <1>1 DEF IngestTypeOK, OffsetSound, Known, From
  <1>4. IngestTypeOK' /\ OffsetSound'
    BY <1>1, <1>3 DEF IngestTypeOK, OffsetSound
  <1>5. ASSUME NEW l \in Line PROVE copies'[l] <= restarts' + (IF l <= From' THEN 1 ELSE 0)
    BY <1>1, <1>2, <1>3 DEF IngestTypeOK, LinesReadOnce, Line
  <1>6. ASSUME NEW l \in 1 .. From'
        PROVE  copies'[l] > 0 \/ l \in skipped' \cup torn' \cup lost'
    BY <1>1, <1>2, <1>3 DEF LinesReadOnce
  <1>7. QED
    BY <1>4, <1>5, <1>6 DEF LinesReadOnce

LEMMA IngestInductive == IngestInv /\ [IngestNext]_ingestVars => IngestInv'
  <1> SUFFICES ASSUME IngestInv, [IngestNext]_ingestVars PROVE IngestInv'
    OBVIOUS
  <1> USE IngestAssumption DEF IngestInv
  <1>1. ASSUME WriteLine \/ WriteHalf PROVE IngestInv'
    <2>1. /\ UNCHANGED <<first, inode, offset, restarts, copies, skipped, torn, lost>>
          /\ lines' \in 0 .. MaxLine /\ lines' >= lines
      BY <1>1 DEF WriteLine, WriteHalf, IngestTypeOK
    <2>2. half' \in BOOLEAN
      BY <1>1 DEF WriteLine, WriteHalf
    <2>3. IngestTypeOK' /\ OffsetSound'
      BY <2>1, <2>2 DEF IngestTypeOK, OffsetSound, Known
    <2>4. LinesReadOnce'
      BY <2>1 DEF LinesReadOnce, From, Known
    <2>5. QED
      BY <2>3, <2>4
  <1>2. ASSUME RestartIngest PROVE IngestInv'
    <2>1. /\ UNCHANGED <<first, lines, half, inode, copies, skipped, torn, lost>>
          /\ offset' = NoOffset /\ restarts' = restarts + 1
      BY <1>2 DEF RestartIngest
    <2>2. ~Known' /\ From' = first
      BY <2>1 DEF NoOffset, Known, From, IngestTypeOK
    <2>3. IngestTypeOK' /\ OffsetSound'
      BY <2>1, <2>2 DEF NoOffset, IngestTypeOK, OffsetSound
    <2>4. From \in first .. lines /\ first \in Nat /\ lines \in Nat
      BY FromInside DEF IngestTypeOK
    <2>5. ASSUME NEW l \in Line PROVE copies'[l] <= restarts' + (IF l <= From' THEN 1 ELSE 0)
      BY <2>1, <2>2, <2>4 DEF IngestTypeOK, LinesReadOnce, Line
    <2>6. ASSUME NEW l \in 1 .. From'
          PROVE  copies'[l] > 0 \/ l \in skipped' \cup torn' \cup lost'
      BY <2>1, <2>2, <2>4 DEF LinesReadOnce
    <2>7. QED
      BY <2>3, <2>5, <2>6 DEF LinesReadOnce
  <1>3. CASE UNCHANGED ingestVars
    BY <1>3 DEF ingestVars, IngestTypeOK, OffsetSound, LinesReadOnce, Known, From
  <1>4. QED
    BY <1>1, <1>2, <1>3, RotateStep, ReadStep DEF IngestNext

\* However the jobs, the writer, rotation and restarts interleave, for any length
\* of file and any number of restarts: LogIngestor gives out a line at most once
\* in each life of the process, and a line it will not read any more was given
\* out, too old for a first read, torn, or unread when its file was rotated.
THEOREM LinesReadOnceTheorem == IngestSpec => []LinesReadOnce
  <1>1. IngestInit => IngestInv
    <2> SUFFICES ASSUME IngestInit PROVE IngestInv
      OBVIOUS
    <2>1. ~Known /\ From = 0
      BY DEF IngestInit, NoOffset, Known, From
    <2>2. IngestTypeOK
      <3>1. half \in BOOLEAN
        BY DEF IngestInit
      <3>2. QED
        BY <3>1, IngestAssumption DEF IngestInit, NoOffset, IngestTypeOK
    <2>3. OffsetSound
      BY <2>1 DEF IngestInit, NoOffset, OffsetSound
    <2>4. LinesReadOnce
      BY <2>1 DEF IngestInit, LinesReadOnce, Line
    <2>5. QED
      BY <2>2, <2>3, <2>4 DEF IngestInv
  <1>2. IngestInv => LinesReadOnce
    BY DEF IngestInv
  <1>3. QED
    BY <1>1, <1>2, IngestInductive, PTL DEF IngestSpec

-----------------------------------------------------------------------------
(* Self-regulation *)

\* A level of autonomy that is well formed, follows its level and respects the
\* hard bounds.
LevelSound(a) ==
    /\ a \in Autonomy
    /\ FollowsLevel(a)
    /\ a.min_confidence \in ConfidenceFloor .. ConfidenceCeiling
    /\ a.min_samples \in SamplesFloor .. SamplesCeiling

\* The inductive invariant: what is in force and what is stored are sound.
LevelInv ==
    /\ LevelSound(autonomy)
    /\ stored = Nothing \/ LevelSound(stored)
    /\ week \in [validated : Nat, other : Nat]

LEMMA StandardSound == LevelSound(Standard)
  BY RegulationAssumption DEF LevelSound, Standard, Autonomy, FollowsLevel, StandardTypes

LEMMA ExpandedSound == LevelSound(Expanded(Standard))
  <1> DEFINE c == AtLeastOf(ConfidenceFloor, StdConfidence - 5)
             s == AtLeastOf(SamplesFloor, StdSamples - 5)
             m == AtMostOf(20, StdMaxAuto + 5)
  <1>1. c \in Nat /\ c >= ConfidenceFloor /\ c <= StdConfidence
    BY RegulationAssumption DEF AtLeastOf
  <1>2. s \in Nat /\ s >= SamplesFloor /\ s <= StdSamples
    BY RegulationAssumption DEF AtLeastOf
  <1>3. m \in Nat /\ m >= StdMaxAuto
    BY RegulationAssumption DEF AtMostOf
  <1>4. Expanded(Standard) = [level |-> "expanded", min_confidence |-> c, min_samples |-> s,
                              max_auto |-> m, types |-> StandardTypes \cup {"prompt"}]
    BY DEF Expanded, Standard
  <1> HIDE DEF c, s, m
  <1>5. QED
    BY <1>1, <1>2, <1>3, <1>4, RegulationAssumption DEF LevelSound, Autonomy, FollowsLevel, StandardTypes

LEMMA RestrictedSound == LevelSound(Restricted(Standard))
  <1> DEFINE c == AtMostOf(ConfidenceCeiling, StdConfidence + 10)
             s == AtMostOf(SamplesCeiling, StdSamples + 20)
             m == AtLeastOf(2, StdMaxAuto - 5)
  <1>1. c \in Nat /\ c <= ConfidenceCeiling /\ c >= StdConfidence
    BY RegulationAssumption DEF AtMostOf
  <1>2. s \in Nat /\ s <= SamplesCeiling /\ s >= StdSamples
    BY RegulationAssumption DEF AtMostOf
  <1>3. m \in Nat /\ m <= StdMaxAuto
    BY RegulationAssumption DEF AtLeastOf
  <1>4. Restricted(Standard) = [level |-> "restricted", min_confidence |-> c, min_samples |-> s,
                                max_auto |-> m, types |-> {"threshold"}]
    BY DEF Restricted, Standard
  <1> HIDE DEF c, s, m
  <1>5. QED
    BY <1>1, <1>2, <1>3, <1>4, RegulationAssumption DEF LevelSound, Autonomy, FollowsLevel, StandardTypes

\* An evaluation keeps a sound level sound: it only ever relaxes or tightens the
\* standard level, which is the settings.
LEMMA EvaluateSound ==
  ASSUME NEW a, LevelSound(a), NEW r \in Nat, NEW v \in Nat
  PROVE  LevelSound(evaluate(r, v, a))
  <1>1. a.level \in {"restricted", "standard", "expanded"}
    BY DEF LevelSound, Autonomy
  <1>2. a.level = "standard" => a = Standard
    BY DEF LevelSound, FollowsLevel
  <1>3. LevelSound(expand_autonomy(a))
    BY <1>1, <1>2, StandardSound, ExpandedSound DEF expand_autonomy
  <1>4. LevelSound(restrict_autonomy(a))
    BY <1>1, <1>2, StandardSound, RestrictedSound DEF restrict_autonomy
  <1>5. evaluate(r, v, a) \in {a, expand_autonomy(a), restrict_autonomy(a)}
    BY DEF evaluate
  <1>6. QED
    BY <1>3, <1>4, <1>5

\* The window of outcomes moves: nothing but the counts of the week changes.
LEMMA WindowKeeps ==
  ASSUME LevelInv, NEW k \in {"validated", "other"}, RecordChange(k) \/ Forget(k)
  PROVE  LevelInv'
  <1> USE DEF LevelInv
  <1>a. CASE RecordChange(k)
    BY <1>a DEF RecordChange
  <1>b. CASE Forget(k)
    BY <1>b DEF Forget
  <1> QED
    BY <1>a, <1>b

\* The weekly evaluation, whether or not the store accepts its result.
LEMMA EvaluationKeeps ==
  ASSUME LevelInv, NEW accepted \in BOOLEAN, Evaluate(accepted)
  PROVE  LevelInv'
  <1> USE DEF LevelInv
  <1>counts. week.validated + week.other \in Nat /\ week.validated \in Nat
    OBVIOUS
  <1>force. LevelSound(autonomy')
    BY <1>counts, EvaluateSound DEF Evaluate
  <1>store. stored' = autonomy' \/ stored' = stored
    BY DEF Evaluate
  <1> QED
    BY <1>force, <1>store DEF Evaluate

\* A restart takes the level from the store or from the settings.
LEMMA RestartKeeps ==
  ASSUME LevelInv, NEW answered \in BOOLEAN, Restore(answered)
  PROVE  LevelInv'
  <1> USE DEF LevelInv
  <1>source. autonomy' = Standard \/ (stored # Nothing /\ autonomy' = stored)
    BY DEF Restore
  <1>force. LevelSound(autonomy')
    BY <1>source, StandardSound
  <1> QED
    BY <1>force DEF Restore

LEMMA LevelInductive == RegulatorSpec => []LevelInv
  <1>stutter. LevelInv /\ UNCHANGED regulatorVars => LevelInv'
    BY DEF LevelInv, regulatorVars
  <1>step. LevelInv /\ RegulatorNext => LevelInv'
    BY WindowKeeps, EvaluationKeeps, RestartKeeps DEF RegulatorNext
  <1>start. RegulatorInit => LevelInv
    BY StandardSound DEF RegulatorInit, LevelInv
  <1> QED
    BY <1>start, <1>step, <1>stutter, PTL DEF RegulatorSpec

\* For all settings between the bounds, the thresholds in force and the stored
\* ones follow their level.
THEOREM LevelTheorem == RegulatorSpec => []ThresholdsFollowLevel
  <1>1. LevelInv => ThresholdsFollowLevel
    BY DEF LevelInv, LevelSound, ThresholdsFollowLevel
  <1>2. QED
    BY <1>1, LevelInductive, PTL

\* For all settings between the bounds, the thresholds in force stay between the
\* floors and ceilings.
THEOREM BoundsTheorem == RegulatorSpec => []HardBounds
  <1>1. LevelInv => HardBounds
    BY DEF LevelInv, LevelSound, HardBounds
  <1>2. QED
    BY <1>1, LevelInductive, PTL
=============================================================================
