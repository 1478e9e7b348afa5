----------------------------- MODULE EventQueue -----------------------------
(***************************************************************************)
(* The event queue of one user in the memory service: a Redis list, and    *)
(* push and drain requests that work on it command by command, without a   *)
(* transaction.  Events differ by their timestamps, so an event is its     *)
(* push request.  Producers call through MemoryClient, which takes any     *)
(* failure for "not stored" or "no events".                                *)
(***************************************************************************)
EXTENDS Naturals, Sequences, SequencesExt, FiniteSets

CONSTANTS
    Event,      \* events, one push request each
    Low,        \* those of low priority
    Drain,      \* drain requests, one per /init of the assistant
    Cap         \* MAX_EVENTS_PER_USER

ASSUME EventAssumption == Low \subseteq Event /\ Cap \in Nat \ {0}

VARIABLES
    queue,      \* the Redis list
    push,       \* where a push request stands
    victim,     \* the event that a push has chosen to remove; itself stands for LPOP
    drain,      \* where a drain request stands
    taken,      \* what a drain request has read
    present,    \* what was in the list at that time
    evicted,    \* events removed to make room
    crossed,    \* pushes that were in flight together with another push
    wiped,      \* events that a drain deleted without having read them
    broken      \* events that were read and deleted by a drain whose answer was lost

eventVars == <<queue, push, victim, drain, taken, present, evicted, crossed, wiped, broken>>

Pushing == {e \in Event : push[e] \in {"evicting", "removing", "appending"}}

EventInit ==
    /\ queue = <<>>
    /\ push = [e \in Event |-> "new"]
    /\ victim = [e \in Event |-> e]
    /\ drain = [d \in Drain |-> "new"]
    /\ taken = [d \in Drain |-> <<>>]
    /\ present = [d \in Drain |-> {}]
    /\ evicted = {}
    /\ crossed = {}
    /\ wiped = {}
    /\ broken = {}

\* Mutant: the limit is checked too late.
CountEvents_late(e) ==
    /\ push[e] = "new"
    /\ push' = [push EXCEPT ![e] = IF Len(queue) > Cap THEN "evicting" ELSE "appending"]
    /\ crossed' = crossed \cup (IF Pushing # {} THEN Pushing \cup {e} ELSE {})
    /\ UNCHANGED <<queue, victim, drain, taken, present, evicted, wiped, broken>>

\* push_event: LLEN, and whether an event must go.
CountEvents(e) ==
    /\ push[e] = "new"
    /\ push' = [push EXCEPT ![e] = IF Len(queue) >= Cap THEN "evicting" ELSE "appending"]
    /\ crossed' = crossed \cup (IF Pushing # {} THEN Pushing \cup {e} ELSE {})
    /\ UNCHANGED <<queue, victim, drain, taken, present, evicted, wiped, broken>>

\* The place of the first low-priority event, 0 if there is none.
OldestLow(q) == SelectInSeq(q, LAMBDA x : x \in Low)

\* _evict_lowest_priority: LRANGE; the oldest low-priority event, or the head, is to go.
ChooseVictim(e) ==
    /\ push[e] = "evicting"
    /\ \/ /\ queue = <<>>
          /\ push' = [push EXCEPT ![e] = "appending"]
          /\ UNCHANGED victim
       \/ /\ queue # <<>>
          /\ victim' = [victim EXCEPT ![e] = IF OldestLow(queue) = 0 THEN e ELSE queue[OldestLow(queue)]]
          /\ push' = [push EXCEPT ![e] = "removing"]
    /\ UNCHANGED <<queue, drain, taken, present, evicted, crossed, wiped, broken>>

\* LREM by value, which may find nothing any more, or LPOP of whatever is first now.
RemoveVictim(e) ==
    /\ push[e] = "removing"
    /\ \/ /\ victim[e] # e
          /\ queue' = RemoveFirst(queue, victim[e])
          /\ evicted' = evicted \cup {x \in {victim[e]} : Contains(queue, x)}
       \/ /\ victim[e] = e /\ queue # <<>>
          /\ queue' = Tail(queue)
          /\ evicted' = evicted \cup {Head(queue)}
       \/ victim[e] = e /\ queue = <<>> /\ UNCHANGED <<queue, evicted>>
    /\ push' = [push EXCEPT ![e] = "appending"]
    /\ UNCHANGED <<victim, drain, taken, present, crossed, wiped, broken>>

\* RPUSH.
AppendEvent(e) ==
    /\ push[e] = "appending"
    /\ queue' = Append(queue, e)
    /\ push' = [push EXCEPT ![e] = "stored"]
    /\ UNCHANGED <<victim, drain, taken, present, evicted, crossed, wiped, broken>>

\* A command fails, and the producer logs that its event was not pushed.
PushFails(e) ==
    /\ e \in Pushing
    /\ push' = [push EXCEPT ![e] = "failed"]
    /\ UNCHANGED <<queue, victim, drain, taken, present, evicted, crossed, wiped, broken>>

\* Mutant: LRANGE 0 -2, the last event is left out.
ReadEvents_short(d) ==
    /\ drain[d] = "new"
    /\ drain' = [drain EXCEPT ![d] = "read"]
    /\ taken' = [taken EXCEPT ![d] = IF queue = <<>> THEN <<>> ELSE Front(queue)]
    /\ present' = [present EXCEPT ![d] = ToSet(queue)]
    /\ UNCHANGED <<queue, push, victim, evicted, crossed, wiped, broken>>

\* drain_events: LRANGE.
ReadEvents(d) ==
    /\ drain[d] = "new"
    /\ drain' = [drain EXCEPT ![d] = "read"]
    /\ taken' = [taken EXCEPT ![d] = queue]
    /\ present' = [present EXCEPT ![d] = ToSet(queue)]
    /\ UNCHANGED <<queue, push, victim, evicted, crossed, wiped, broken>>

\* drain_events: DELETE, whatever is in the list by now.
ClearEvents(d) ==
    /\ drain[d] = "read"
    /\ queue' = <<>>
    /\ wiped' = wiped \cup (ToSet(queue) \ present[d])
    /\ drain' = [drain EXCEPT ![d] = "cleared"]
    /\ UNCHANGED <<push, victim, taken, present, evicted, crossed, broken>>

\* The answer of a drain reaches the assistant, which sorts it by priority for the opener.
AnswerDrain(d) ==
    /\ drain[d] = "cleared"
    /\ drain' = [drain EXCEPT ![d] = "answered"]
    /\ UNCHANGED <<queue, push, victim, taken, present, evicted, crossed, wiped, broken>>

\* A drain fails: before the DELETE nothing is changed; after it the events are gone,
\* and event_queue_drain returns the empty list.
DrainFails(d) ==
    /\ drain[d] \in {"read", "cleared"}
    /\ drain' = [drain EXCEPT ![d] = "failed"]
    /\ broken' = broken \cup (IF drain[d] = "cleared" THEN ToSet(taken[d]) ELSE {})
    /\ taken' = [taken EXCEPT ![d] = <<>>]
    /\ UNCHANGED <<queue, push, victim, present, evicted, crossed, wiped>>

EventNext ==
    \/ \E e \in Event : CountEvents(e) \/ ChooseVictim(e) \/ RemoveVictim(e) \/ AppendEvent(e) \/ PushFails(e)
    \/ \E d \in Drain : ReadEvents(d) \/ ClearEvents(d) \/ AnswerDrain(d) \/ DrainFails(d)

EventSpec == EventInit /\ [][EventNext]_eventVars
-----------------------------------------------------------------------------
Delivered == UNION {ToSet(taken[d]) : d \in {x \in Drain : drain[x] = "answered"}}
Held == UNION {ToSet(taken[d]) : d \in {x \in Drain : drain[x] = "cleared"}}

\* memory-service routes/events.py:39, "Evicts oldest low-priority if at cap": the queue
\* passes the cap by no more events than pushes that were in flight together (two of them
\* may choose the same victim, or pass the LLEN before either appends).
CapRespected == Len(queue) <= Cap + (IF crossed = {} THEN 0 ELSE Cardinality(crossed) - 1)

\* Every event whose push was acknowledged is in the queue, delivered or on its way, was
\* evicted, or was lost in one of the two ways the code leaves open: appended between the
\* LRANGE and the DELETE of a drain, or in an answer that did not arrive.
StoredEventsAccounted ==
    \A e \in Event : push[e] = "stored" =>
        e \in ToSet(queue) \cup Delivered \cup Held \cup evicted \cup wiped \cup broken
=============================================================================
