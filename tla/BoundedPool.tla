----------------------------- MODULE BoundedPool -----------------------------
(***************************************************************************)
(* What the sandbox service promises of its execution slots                *)
(* (ExecutionManager: "Enforces MAX_CONCURRENT_EXECUTIONS with a bounded   *)
(* queue of QUEUE_SIZE"): at most Slots requests inside, the others in a   *)
(* queue that is served in order, and a refusal only for a full queue.     *)
(***************************************************************************)
EXTENDS Naturals, Sequences, FiniteSets

CONSTANTS Client, Slots, QueueSize

VARIABLES inside, queue, refused

poolVars == <<inside, queue, refused>>

Queued == {queue[i] : i \in 1 .. Len(queue)}
Outside(c) == c \notin inside \cup Queued \cup refused
Free == Cardinality(inside) < Slots

PoolInit == inside = {} /\ queue = <<>> /\ refused = {}

\* Nobody is overtaken: a free slot goes to a newcomer only if no one waits.
Enter(c) ==
    /\ Outside(c) /\ Free /\ queue = <<>>
    /\ inside' = inside \cup {c}
    /\ UNCHANGED <<queue, refused>>

Wait(c) ==
    /\ Outside(c) /\ Len(queue) < QueueSize
    /\ queue' = Append(queue, c)
    /\ UNCHANGED <<inside, refused>>

Refuse(c) ==
    /\ Outside(c) /\ Len(queue) >= QueueSize
    /\ refused' = refused \cup {c}
    /\ UNCHANGED <<inside, queue>>

Serve ==
    /\ queue # <<>> /\ Free
    /\ inside' = inside \cup {Head(queue)} /\ queue' = Tail(queue)
    /\ UNCHANGED refused

Leave(c) ==
    /\ c \in inside
    /\ inside' = inside \ {c}
    /\ UNCHANGED <<queue, refused>>

\* The process is killed.
Reset == inside' = {} /\ queue' = <<>> /\ UNCHANGED refused

PoolNext == Serve \/ Reset \/ \E c \in Client : Enter(c) \/ Wait(c) \/ Refuse(c) \/ Leave(c)

\* What the pool may never do otherwise.
PoolSafety == PoolInit /\ [][PoolNext]_poolVars

\* Whoever is inside leaves, and whoever waits is served.
PoolSpec ==
    /\ PoolSafety
    /\ WF_poolVars(Serve) /\ \A c \in Client : WF_poolVars(Leave(c))
=============================================================================
