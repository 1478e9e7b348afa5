--------------------------- MODULE GatewayProofs ---------------------------
(***************************************************************************)
(* Proofs about the completion handler, for every configuration: its type  *)
(* invariant; the bound on how far concurrent requests can pass a tenant's *)
(* daily limit; what the escalation loop returns and charges; which tiers  *)
(* it may call and when it may stop.                                       *)
(***************************************************************************)
EXTENDS Gateway, FiniteSetTheorems, TLAPS

\* The level that update_for_spend computes is one of the five.
LEMMA LevelType == ASSUME NEW s \in Nat PROVE compute_level(s) \in Level
  BY DEF compute_level, Level, FULL_SERVICE, NO_STRONG, FAST_ONLY, DETERMINISTIC_ONLY, QUEUED

\* The rank of a tier is 1, 2 or 3.
LEMMA RankType == ASSUME NEW t \in Tier PROVE Rank(t) \in 1 .. 3
  <1>1. CASE t = "fast" BY <1>1 DEF Rank
  <1>2. CASE t = "mid" BY <1>2 DEF Rank
  <1>3. CASE t = "strong" BY <1>3 DEF Rank
  <1> QED BY <1>1, <1>2, <1>3 DEF Tier

\* Of some tiers one is the highest.
LEMMA HighestTier ==
    ASSUME NEW S \in SUBSET Tier, S # {}
    PROVE  \E t \in S : \A u \in S : Rank(u) <= Rank(t)
  <1>1. \A t \in S : Rank(t) \in 1 .. 3
    BY RankType
  <1>2. CASE \E t \in S : Rank(t) = 3
    BY <1>1, <1>2
  <1>3. CASE (\A t \in S : Rank(t) # 3) /\ \E t \in S : Rank(t) = 2
    BY <1>1, <1>3
  <1>4. CASE \A t \in S : Rank(t) # 3 /\ Rank(t) # 2
    BY <1>1, <1>4
  <1> QED BY <1>2, <1>3, <1>4

\* cap_tier answers with a tier.
LEMMA CapType ==
    ASSUME NEW l \in Level, NEW want \in Tier
    PROVE  cap_tier(l, want) \in Tier
  <1> DEFINE allowed == {t \in tiers_for_level(l) : Rank(t) <= Rank(want)}
  <1>1. allowed \subseteq Tier
    BY DEF tiers_for_level, Tier
  <1>2. allowed # {} => \E t \in allowed : \A u \in allowed : Rank(u) <= Rank(t)
    BY <1>1, HighestTier
  <1> QED BY <1>1, <1>2 DEF cap_tier

\* Climbing the escalation path from a tier leads to tiers.
LEMMA ClimbType ==
    ASSUME NEW tier \in Tier, NEW k \in Nat
    PROVE  Climb(tier, k) \subseteq Tier
  BY GatewayAssumption DEF Climb

\* The confidence of a decision lies between 0 and 1.
LEMMA ConfidenceType ==
    ASSUME NEW resp \in Response, NEW n \in Nat
    PROVE  decided_confidence(resp, n) \in 0 .. 10
  BY DEF decided_confidence, extract_confidence, Response

\* A fresh context and the blank one are contexts.
LEMMA NewContextType ==
    ASSUME NEW t \in Tenant, NEW want \in Tier, NEW pin \in Model \cup {NoModel},
           NEW th \in 0 .. 10
    PROVE  NewContext(t, want, pin, th) \in Context
  <1>1. (CHOOSE n \in Usage : TRUE) \in Usage
    BY GatewayAssumption
  <1> QED BY <1>1 DEF NewContext, Context

LEMMA BlankType == Blank \in Context
  <1>1. (CHOOSE t \in Tenant : TRUE) \in Tenant
    BY GatewayAssumption
  <1>2. "mid" \in Tier
    BY DEF Tier
  <1> QED BY <1>1, <1>2, NewContextType DEF Blank

\* What a handler's locals must satisfy to go on with the loop.
Sound(c) == c \in Context /\ (c.best # NoModel => c.used \in Model)

\* What one handler's turn leaves behind: only slot r changes, and it stays in
\* the loop, records, or is free again.
Turn(r) ==
    /\ \E p \in {"idle", "calling", "recording"} : At(r, p)
    /\ \E n \in Nat : seen' = [seen EXCEPT ![r] = n]
    /\ \E c \in Context :
        /\ Sound(c)
        /\ ctx' = [ctx EXCEPT ![r] = c]
        /\ pc'[r] # "idle" => c.tenant = ctx[r].tenant
        /\ pc'[r] = "calling" => c.model \in Model
        /\ pc'[r] = "recording" => c.best # NoModel

\* Close, Stop and Continue are such turns.
LEMMA CloseTurn ==
    ASSUME TypeOK, NEW r \in Request, Close(r)
    PROVE  Turn(r)
  <1>1. Sound(Blank)
    BY BlankType DEF Sound, Blank, NewContext
  <1>2. pc'[r] = "idle"
    BY DEF Close, At, TypeOK
  <1> QED BY <1>1, <1>2, BlankType DEF Turn, Close

LEMMA StopTurn ==
    ASSUME TypeOK, NEW r \in Request, NEW c, Sound(c), c.tenant = ctx[r].tenant, Stop(r, c)
    PROVE  Turn(r)
  <1>1. CASE c.best # NoModel
    <2>1. pc'[r] = "recording"
      BY <1>1 DEF Stop, At, TypeOK
    <2>2. seen' = [seen EXCEPT ![r] = seen[r]] /\ seen[r] \in Nat
      BY <1>1 DEF Stop, TypeOK
    <2> QED BY <1>1, <2>1, <2>2 DEF Stop, Turn, Sound
  <1>2. CASE c.best = NoModel
    BY <1>2, CloseTurn DEF Stop
  <1> QED BY <1>1, <1>2

LEMMA ContinueTurn ==
    ASSUME TypeOK, NEW r \in Request, NEW c, Sound(c), c.tenant = ctx[r].tenant,
           NEW tier \in Tier, NEW esc \in Nat, NEW skip \in Nat,
           Continue(r, c, tier, esc, skip)
    PROVE  Turn(r)
  <1> DEFINE hops      == Hops(c, tier, esc)
             models(k) == UNION {get_models_for_tier(u) : u \in Climb(tier, k)}
             live      == {k \in hops : k >= skip /\ models(k) # {}}
             goto(u, k, m, todo) == [c EXCEPT !.tier = u, !.esc = esc + k, !.model = m, !.todo = todo]
  <1>1. hops \subseteq Nat /\ live \subseteq hops
    BY DEF Hops
  <1>2. \A k : models(k) \subseteq Model
    BY DEF get_models_for_tier, TypeOK
  <1>3. ASSUME NEW k \in Nat, NEW u \in Tier, NEW m \in Model \cup {NoModel}, NEW todo \in SUBSET Model
        PROVE  /\ Sound(goto(u, k, m, todo))
               /\ goto(u, k, m, todo).tenant = ctx[r].tenant
               /\ goto(u, k, m, todo).model = m
    <2> DEFINE d == goto(u, k, m, todo)
    <2>1. c \in Context /\ esc + k \in Nat
      BY DEF Sound
    <2>2. d \in Context
      BY <2>1 DEF Context
    <2>3. d.tenant = c.tenant /\ d.model = m /\ d.best = c.best /\ d.used = c.used
      BY <2>1 DEF Context
    <2> HIDE DEF d
    <2>4. Sound(d) /\ d.tenant = ctx[r].tenant /\ d.model = m
      BY <2>2, <2>3 DEF Sound
    <2> QED BY <2>4 DEF d
  <1> HIDE DEF goto
  <1>4. CASE \E k \in live : \E u \in Climb(tier, k) :
            /\ \A j \in live : k <= j
            /\ \E m \in FirstOf(u, TargetModel(c, esc + k), models(k)) :
                    ctx' = [ctx EXCEPT ![r] = goto(u, k, m, models(k) \ {m})]
            /\ At(r, "calling")
            /\ UNCHANGED seen
    <2>0. PICK k \in live : \E u \in Climb(tier, k) :
            /\ \E m \in FirstOf(u, TargetModel(c, esc + k), models(k)) :
                    ctx' = [ctx EXCEPT ![r] = goto(u, k, m, models(k) \ {m})]
            /\ At(r, "calling")
            /\ UNCHANGED seen
      BY <1>4
    <2>1. PICK u \in Climb(tier, k) :
            /\ \E m \in FirstOf(u, TargetModel(c, esc + k), models(k)) :
                    ctx' = [ctx EXCEPT ![r] = goto(u, k, m, models(k) \ {m})]
            /\ At(r, "calling")
            /\ UNCHANGED seen
      BY <2>0
    <2>2. PICK m \in FirstOf(u, TargetModel(c, esc + k), models(k)) :
                ctx' = [ctx EXCEPT ![r] = goto(u, k, m, models(k) \ {m})]
      BY <2>1
    <2>3. k \in Nat /\ u \in Tier /\ m \in Model /\ models(k) \ {m} \in SUBSET Model
      BY <1>1, <1>2, ClimbType DEF FirstOf
    <2> DEFINE d == goto(u, k, m, models(k) \ {m})
    <2>4. Sound(d) /\ d.tenant = ctx[r].tenant /\ d.model = m
      BY <2>3, <1>3
    <2>5. pc'[r] = "calling"
      BY <2>1 DEF At, TypeOK
    <2>6. seen' = [seen EXCEPT ![r] = seen[r]] /\ seen[r] \in Nat
      BY <2>1 DEF TypeOK
    <2>7. ctx' = [ctx EXCEPT ![r] = d]
      BY <2>2
    <2> HIDE DEF d
    <2> QED BY <2>1, <2>3, <2>4, <2>5, <2>6, <2>7 DEF Turn, Sound
  <1>5. CASE /\ live = {}
             /\ \E k \in hops : \E u \in Climb(tier, k) :
                    /\ \A j \in hops : j <= k
                    /\ Stop(r, goto(u, k, NoModel, {}))
    <2>0. PICK k \in hops : \E u \in Climb(tier, k) : Stop(r, goto(u, k, NoModel, {}))
      BY <1>5
    <2>1. PICK u \in Climb(tier, k) : Stop(r, goto(u, k, NoModel, {}))
      BY <2>0
    <2>2. k \in Nat /\ u \in Tier
      BY <1>1, ClimbType
    <2> QED BY <1>3, <2>1, <2>2, StopTurn
  <1> QED BY <1>4, <1>5 DEF Continue, goto

\* A turn keeps the types of what it changes.
LEMMA TurnTypes ==
    ASSUME TypeOK, NEW r \in Request, Turn(r),
           spend' \in [Tenant -> Nat], level' \in [Tenant -> Level],
           queued' \in [Tenant -> Nat], rotation' \subseteq Model
    PROVE  TypeOK'
  <1>1. PICK p \in {"idle", "calling", "recording"} : pc' = [pc EXCEPT ![r] = p]
    BY DEF Turn, At
  <1>2. PICK n \in Nat : seen' = [seen EXCEPT ![r] = n]
    BY DEF Turn
  <1>3. PICK c \in Context :
            /\ Sound(c)
            /\ ctx' = [ctx EXCEPT ![r] = c]
            /\ pc'[r] = "calling" => c.model \in Model
            /\ pc'[r] = "recording" => c.best # NoModel
    BY DEF Turn
  <1>4. pc' \in [Request -> PC] /\ seen' \in [Request -> Nat] /\ ctx' \in [Request -> Context]
    BY <1>1, <1>2, <1>3 DEF TypeOK, PC
  <1>5. ASSUME NEW q \in Request
        PROVE  /\ pc'[q] = "calling" => ctx'[q].model \in Model
               /\ pc'[q] = "recording" => ctx'[q].best # NoModel
               /\ ctx'[q].best # NoModel => ctx'[q].used \in Model
    <2>1. CASE q = r
      <3>1. ctx'[q] = c
        BY <1>3, <2>1 DEF TypeOK
      <3> QED BY <1>3, <2>1, <3>1 DEF Sound
    <2>2. CASE q # r
      <3>1. ctx'[q] = ctx[q] /\ pc'[q] = pc[q]
        BY <1>1, <1>3, <2>2 DEF TypeOK
      <3> QED BY <3>1 DEF TypeOK
    <2> QED BY <2>1, <2>2
  <1> QED BY <1>4, <1>5 DEF TypeOK

\* Taken keeps the locals sound: the response that answered names a model.
LEMMA TakenSound ==
    ASSUME TypeOK, NEW r \in Request, pc[r] = "calling", NEW resp \in Response, NEW tokens \in Usage
    PROVE  Sound(Taken(ctx[r], resp, tokens)) /\ Taken(ctx[r], resp, tokens).tenant = ctx[r].tenant
  <1> DEFINE c == ctx[r]
             conf == decided_confidence(resp, c.esc)
             d == Taken(c, resp, tokens)
  <1>1. c \in Context /\ c.model \in Model
    BY DEF TypeOK
  <1>2. conf \in 0 .. 10
    BY <1>1, ConfidenceType DEF Context
  <1>8. EstimateCost[c.model][tokens] \in Nat
    BY <1>1, GatewayAssumption
  <1> DEFINE take == conf > c.conf \/ ~should_escalate(resp, c.threshold, c.esc)
             paid == c.paid + EstimateCost[c.model][tokens]
             best == IF take THEN c.model ELSE c.best
             usage == IF take THEN tokens ELSE c.usage
             kept == IF take THEN conf ELSE c.conf
             top  == IF conf > c.top THEN conf ELSE c.top
  <1>6. /\ paid \in Nat /\ best \in Model \cup {NoModel} /\ usage \in Usage
        /\ kept \in 0 .. 10 /\ top \in 0 .. 10
    BY <1>1, <1>2, <1>8 DEF Context
  <1>7. d = [c EXCEPT !.model = NoModel, !.todo = {}, !.used = c.model, !.paid = paid,
                      !.best = best, !.usage = usage, !.conf = kept, !.top = top]
    BY <1>1 DEF Taken, Context
  <1> HIDE DEF c, conf, take, paid, best, usage, kept, top, d
  <1>3. d \in Context
    BY <1>1, <1>6, <1>7 DEF Context
  <1>4. d.used = c.model /\ d.tenant = c.tenant
    BY <1>1, <1>7 DEF Context
  <1>5. Sound(d) /\ d.tenant = c.tenant
    BY <1>1, <1>3, <1>4 DEF Sound
  <1> QED BY <1>5 DEF c, d

\* The three steps of the escalation loop are turns of their handler.
LEMMA RouteTurn ==
    ASSUME TypeOK, NEW r \in Request, Route(r)
    PROVE  Turn(r)
  <1> DEFINE c    == ctx[r]
             tier == cap_tier(level[c.tenant], c.want)
             pin  == IF tier # c.want THEN NoModel ELSE c.pin
  <1>1. c \in Context /\ tier \in Tier /\ pin \in Model \cup {NoModel}
    <2>1. c \in Context
      BY DEF TypeOK
    <2>2. level[c.tenant] \in Level /\ c.want \in Tier /\ c.pin \in Model \cup {NoModel}
      BY <2>1 DEF TypeOK, Context
    <2> QED BY <2>1, <2>2, CapType
  <1>2. PICK canary \in BOOLEAN :
            Continue(r, [c EXCEPT !.canary = canary, !.pin = pin], tier, 0, 0)
    BY DEF Route
  <1> DEFINE d == [c EXCEPT !.canary = canary, !.pin = pin]
  <1>3. c.best # NoModel => c.used \in Model
    BY DEF TypeOK
  <1> HIDE DEF c, tier, pin
  <1>4. d \in Context /\ d.best = c.best /\ d.used = c.used /\ d.tenant = c.tenant
    BY <1>1 DEF Context
  <1>5. Continue(r, d, tier, 0, 0)
    BY <1>2
  <1> HIDE DEF d
  <1>6. Sound(d) /\ d.tenant = ctx[r].tenant
    BY <1>3, <1>4 DEF Sound, c
  <1> QED BY <1>1, <1>5, <1>6, ContinueTurn

LEMMA CallSucceedsTurn ==
    ASSUME TypeOK, NEW r \in Request, NEW resp \in Answer, NEW tokens \in Usage, CallSucceeds(r, resp, tokens)
    PROVE  Turn(r)
  <1> DEFINE c == ctx[r]
             d == Taken(c, resp, tokens)
  <1>1. resp \in Response /\ pc[r] = "calling"
    BY GatewayAssumption DEF CallSucceeds
  <1>2. Sound(d) /\ d.tenant = c.tenant
    BY <1>1, TakenSound
  <1>3. c.tier \in Tier /\ c.esc \in Nat
    BY DEF TypeOK, Context
  <1>4. NextTiers(c) \subseteq Tier
    BY <1>3, ClimbType DEF NextTiers, get_next_tier
  <1>5. CASE Stop(r, d)
    BY <1>2, <1>5, StopTurn
  <1>6. CASE \E t \in NextTiers(c) : Continue(r, d, t, c.esc + 1, 0)
    <2>1. PICK t \in NextTiers(c) : Continue(r, d, t, c.esc + 1, 0)
      BY <1>6
    <2>2. t \in Tier /\ c.esc + 1 \in Nat
      BY <1>3, <1>4
    <2> QED BY <1>2, <2>1, <2>2, ContinueTurn
  <1> QED BY <1>5, <1>6 DEF CallSucceeds

LEMMA CallFailsTurn ==
    ASSUME TypeOK, NEW r \in Request, CallFails(r)
    PROVE  Turn(r)
  <1> DEFINE c == ctx[r]
             target == TargetModel(c, c.esc)
             up == c.todo \cap rotation
             after(m) == {n \in c.todo \ {m} : TriedBefore(c.tier, target, m, n)}
  <1>1. c \in Context /\ Sound(c)
    BY DEF TypeOK, Sound
  <1>2. c.tier \in Tier /\ c.esc \in Nat /\ c.todo \subseteq Model
    BY <1>1 DEF Context
  <1>3. CASE /\ \E m \in FirstOf(c.tier, target, up) :
                    ctx' = [ctx EXCEPT ![r] = [c EXCEPT !.model = m, !.todo = after(m)]]
             /\ UNCHANGED <<pc, seen>>
    <2>1. PICK m \in FirstOf(c.tier, target, up) :
                ctx' = [ctx EXCEPT ![r] = [c EXCEPT !.model = m, !.todo = after(m)]]
      BY <1>3
    <2>2. m \in Model /\ after(m) \in SUBSET Model
      BY <1>2 DEF FirstOf
    <2> DEFINE d == [c EXCEPT !.model = m, !.todo = after(m)]
    <2>3. /\ d \in Context /\ d.best = c.best /\ d.used = c.used
          /\ d.tenant = c.tenant /\ d.model = m
      BY <1>1, <2>2 DEF Context
    <2>4. ctx' = [ctx EXCEPT ![r] = d]
      BY <2>1
    <2> HIDE DEF d
    <2>5. Sound(d)
      BY <1>1, <2>3 DEF Sound
    <2>6. pc[r] = "calling" /\ At(r, "calling") /\ pc'[r] = "calling"
      BY <1>3 DEF CallFails, At, TypeOK
    <2>7. seen' = [seen EXCEPT ![r] = seen[r]] /\ seen[r] \in Nat
      BY <1>3 DEF TypeOK
    <2> QED BY <2>2, <2>3, <2>4, <2>5, <2>6, <2>7 DEF Turn
  <1>4. CASE Continue(r, c, c.tier, c.esc, 1)
    BY <1>1, <1>2, <1>4, ContinueTurn
  <1> QED BY <1>3, <1>4 DEF CallFails

\* What a recording handler charges is a cost of the list.
LEMMA ChargeType ==
    ASSUME TypeOK, NEW r \in Request, pc[r] = "recording"
    PROVE  Charge(ctx[r]) \in Nat /\ Charge(ctx[r]) <= MaxPrice
  <1>1. ctx[r].used \in Model /\ ctx[r].usage \in Usage
    BY DEF TypeOK, Context
  <1> QED BY <1>1, GatewayAssumption DEF Charge

\* Every step keeps the types.
LEMMA TypeStep == ASSUME TypeOK, [Next]_vars PROVE TypeOK'
  <1>1. ASSUME NEW r \in Request, NEW t \in Tenant, NEW want \in Tier, NEW pin \in Pin,
               NEW th \in Threshold, Arrive(r, t, want, pin, th)
        PROVE  TypeOK'
    <2> DEFINE c == NewContext(t, want, pin, th)
    <2>1. c \in Context
      BY NewContextType, GatewayAssumption
    <2>2. c.best = NoModel
      BY DEF NewContext
    <2> HIDE DEF c
    <2>3. /\ pc' = [pc EXCEPT ![r] = "reading"] /\ seen' = [seen EXCEPT ![r] = spend[t]]
          /\ ctx' = [ctx EXCEPT ![r] = c] /\ UNCHANGED <<spend, level, queued, rotation>>
      BY <1>1 DEF Arrive, At, c
    <2>4. ASSUME NEW q \in Request
          PROVE  /\ pc'[q] = "calling" => ctx'[q].model \in Model
                 /\ pc'[q] = "recording" => ctx'[q].best # NoModel
                 /\ ctx'[q].best # NoModel => ctx'[q].used \in Model
      <3>1. CASE q = r
        BY <2>2, <2>3, <3>1 DEF TypeOK
      <3>2. CASE q # r
        BY <2>3, <3>2 DEF TypeOK
      <3> QED BY <3>1, <3>2
    <2>5. pc' \in [Request -> PC] /\ seen' \in [Request -> Nat] /\ ctx' \in [Request -> Context]
      BY <2>1, <2>3 DEF TypeOK, PC
    <2> QED BY <2>3, <2>4, <2>5 DEF TypeOK
  <1>2. ASSUME NEW r \in Request, Admit(r) PROVE TypeOK'
    <2>1. level' \in [Tenant -> Level]
      BY <1>2, LevelType DEF Admit, TypeOK, Context
    <2>2. CASE Close(r)
      BY <1>2, <2>1, <2>2, CloseTurn, TurnTypes DEF Admit, TypeOK
    <2>3. CASE ~Close(r)
      <3>1. /\ \E p \in {"queuing", "counting"} : pc' = [pc EXCEPT ![r] = p]
            /\ UNCHANGED <<seen, ctx, spend, queued, rotation>>
        BY <1>2, <2>3 DEF Admit, At
      <3> QED BY <2>1, <3>1 DEF TypeOK, PC
    <2> QED BY <2>2, <2>3
  <1>3. ASSUME NEW r \in Request, Enqueue(r) PROVE TypeOK'
    <2>0. ctx[r].tenant \in Tenant
      BY DEF TypeOK, Context
    <2>1. queued' \in [Tenant -> Nat]
      BY <1>3, <2>0 DEF Enqueue, TypeOK
    <2> QED BY <1>3, <2>1, CloseTurn, TurnTypes DEF Enqueue, TypeOK
  <1>4. ASSUME NEW r \in Request, Route(r) PROVE TypeOK'
    BY <1>4, RouteTurn, TurnTypes DEF Route, TypeOK
  <1>5. ASSUME NEW r \in Request, NEW resp \in Answer, NEW tokens \in Usage, CallSucceeds(r, resp, tokens) PROVE TypeOK'
    BY <1>5, CallSucceedsTurn, TurnTypes DEF CallSucceeds, TypeOK
  <1>6. ASSUME NEW r \in Request, CallFails(r) PROVE TypeOK'
    BY <1>6, CallFailsTurn, TurnTypes DEF CallFails, TypeOK
  <1>7. ASSUME NEW r \in Request, Record(r) PROVE TypeOK'
    <2>1. Charge(ctx[r]) \in Nat
      BY <1>7, ChargeType DEF Record
    <2>0. ctx[r].tenant \in Tenant
      BY DEF TypeOK, Context
    <2>2. spend' \in [Tenant -> Nat]
      BY <1>7, <2>0, <2>1 DEF Record, TypeOK
    <2> QED BY <1>7, <2>2, CloseTurn, TurnTypes DEF Record, TypeOK
  <1>8. ASSUME NEW r \in Request, StoreFails(r) PROVE TypeOK'
    BY <1>8, CloseTurn, TurnTypes DEF StoreFails, TypeOK
  <1>9. ASSUME NEW m \in Model, Rotate(m) PROVE TypeOK'
    BY <1>9 DEF Rotate, TypeOK
  <1>10. CASE Midnight
    BY <1>10 DEF Midnight, TypeOK
  <1>11. CASE Restart
    <2>1. Blank.best = NoModel
      BY DEF Blank, NewContext
    <2> QED BY <1>11, <2>1, BlankType DEF Restart, TypeOK, PC, Level, FULL_SERVICE
  <1>12. CASE UNCHANGED vars
    BY <1>12 DEF vars, TypeOK
  <1> QED BY <1>1, <1>2, <1>3, <1>4, <1>5, <1>6, <1>7, <1>8, <1>9, <1>10, <1>11, <1>12
          DEF Next, Handle

\* The gateway's state stays within its types, whatever the interleaving of
\* completions, failures and restarts; in particular a handler that records a
\* cost always has a model to price it with (main.py:548).
THEOREM TypeCorrect == Spec => []TypeOK
  <1>1. Init => TypeOK
    <2>1. Blank.best = NoModel
      BY DEF Blank, NewContext
    <2> QED BY <2>1, BlankType DEF Init, TypeOK, PC, Level, FULL_SERVICE
  <1>2. TypeOK /\ [Next]_vars => TypeOK'
    BY TypeStep
  <1> QED BY <1>1, <1>2, PTL DEF Spec

\* Arithmetic of the bound, kept apart because products of two unknowns are
\* hard for the solver.
LEMMA TimesMonotone ==
    ASSUME NEW p \in Nat, NEW a \in Nat, NEW b \in Nat, a <= b
    PROVE  p * a \in Nat /\ p * b \in Nat /\ p * a <= p * b
  OBVIOUS

LEMMA TimesSuccessor ==
    ASSUME NEW p \in Nat, NEW a \in Nat
    PROVE  p * a \in Nat /\ p * (a + 1) = p * a + p
  OBVIOUS

\* The bound for one tenant.
Bounded(t) ==
    AtLeast(spend[t], 95) =>
        spend[t] * 100 + 100 * (MaxPrice * Cardinality(Committed(t)))
            < 95 * Limit + 100 * (MaxPrice * Cardinality(Request))

\* A step that adds nothing to a tenant's spend and commits no new request to
\* it keeps its bound.
LEMMA FewerCommitted ==
    ASSUME TypeOK, TypeOK', Limit > 0, NEW t \in Tenant, Bounded(t), spend'[t] = spend[t],
           AtLeast(spend[t], 95) => Committed(t)' \subseteq Committed(t)
    PROVE  Bounded(t)'
  <1> SUFFICES ASSUME AtLeast(spend[t], 95)' PROVE
            (spend[t] * 100 + 100 * (MaxPrice * Cardinality(Committed(t)))
                < 95 * Limit + 100 * (MaxPrice * Cardinality(Request)))'
    BY DEF Bounded
  <1>1. AtLeast(spend[t], 95)
    BY DEF AtLeast
  <1>2. IsFiniteSet(Committed(t)) /\ IsFiniteSet(Request)
    BY GatewayAssumption, FS_Subset DEF Committed
  <1> DEFINE a == Cardinality(Committed(t)')
             b == Cardinality(Committed(t))
             n == Cardinality(Request)
  <1>3. a \in Nat /\ b \in Nat /\ n \in Nat /\ a <= b
    BY <1>1, <1>2, FS_Subset, FS_CardinalityType
  <1>4. spend[t] * 100 + 100 * (MaxPrice * b) < 95 * Limit + 100 * (MaxPrice * n)
    BY <1>1 DEF Bounded
  <1>5. MaxPrice * a \in Nat /\ MaxPrice * b \in Nat /\ MaxPrice * n \in Nat /\ MaxPrice * a <= MaxPrice * b
    BY <1>3, TimesMonotone, GatewayAssumption
  <1> DEFINE A == MaxPrice * a
             B == MaxPrice * b
             N == MaxPrice * n
  <1>6. spend[t] \in Nat /\ Limit \in Nat
    BY LimitAssumption DEF TypeOK
  <1>7. A \in Nat /\ B \in Nat /\ N \in Nat /\ A <= B /\ spend[t] * 100 + 100 * B < 95 * Limit + 100 * N
    BY <1>4, <1>5
  <1> HIDE DEF A, B, N
  <1>8. spend[t] * 100 + 100 * A < 95 * Limit + 100 * N
    BY <1>6, <1>7
  <1> QED BY <1>8 DEF A, N

\* A request that is not in the loop yet, or no longer, and one whose handler
\* takes a turn within the loop: no tenant gets a new committed request.
LEMMA TurnCommits ==
    ASSUME TypeOK, TypeOK', NEW r \in Request, Turn(r), NEW t \in Tenant,
           pc'[r] # "idle" => pc[r] \in {"counting", "calling"}
    PROVE  Committed(t)' \subseteq Committed(t)
  <1>1. PICK p \in {"idle", "calling", "recording"} : pc' = [pc EXCEPT ![r] = p]
    BY DEF Turn, At
  <1>2. PICK n \in Nat : seen' = [seen EXCEPT ![r] = n]
    BY DEF Turn
  <1>3. PICK c \in Context :
            ctx' = [ctx EXCEPT ![r] = c] /\ (pc'[r] # "idle" => c.tenant = ctx[r].tenant)
    BY DEF Turn
  <1> SUFFICES ASSUME NEW q \in Request, q \in Committed(t)' PROVE q \in Committed(t)
    BY DEF Committed
  <1>4. CASE q = r
    <2>1. ctx'[q] = c /\ pc'[q] = p
      BY <1>1, <1>3, <1>4 DEF TypeOK
    <2>2. p # "idle" /\ c.tenant = t
      BY <2>1 DEF Committed
    <2> QED BY <1>3, <1>4, <2>1, <2>2 DEF Committed
  <1>5. CASE q # r
    <2>1. ctx'[q] = ctx[q] /\ pc'[q] = pc[q] /\ seen'[q] = seen[q]
      BY <1>1, <1>2, <1>3, <1>5 DEF TypeOK
    <2> QED BY <2>1 DEF Committed
  <1> QED BY <1>4, <1>5

\* Record adds at most MaxPrice and ends a committed request.
LEMMA RecordBounded ==
    ASSUME TypeOK, TypeOK', Limit > 0, NEW r \in Request, Record(r),
           NEW t \in Tenant, t = ctx[r].tenant, Bounded(t)
    PROVE  Bounded(t)'
  <1> DEFINE C == Committed(t)
             D == Committed(t)'
             price == Charge(ctx[r])
  <1>1. pc[r] = "recording" /\ pc'[r] = "idle" /\ Turn(r)
    BY CloseTurn DEF Record, Close, At, TypeOK
  <1>2. r \in C /\ r \notin D /\ D \subseteq C
    <2>1. D \subseteq C
      BY <1>1, TurnCommits
    <2> QED BY <1>1, <2>1 DEF Committed
  <1>3. price \in Nat /\ price <= MaxPrice /\ MaxPrice \in Nat
    BY <1>1, ChargeType, GatewayAssumption
  <1>4. spend'[t] = spend[t] + price /\ spend[t] \in Nat
    BY DEF Record, TypeOK
  <1> DEFINE b == Cardinality(C)
             a == Cardinality(D)
             n == Cardinality(Request)
  <1>5. a \in Nat /\ b \in Nat /\ n \in Nat /\ a + 1 <= b /\ a + 1 <= n
    <2>1. IsFiniteSet(Request) /\ IsFiniteSet(C) /\ IsFiniteSet(D) /\ C \subseteq Request
      BY <1>2, GatewayAssumption, FS_Subset DEF Committed
    <2>2. Cardinality(D \cup {r}) = a + 1 /\ IsFiniteSet(D \cup {r}) /\ a \in Nat
      BY <1>2, <2>1, FS_AddElement, FS_CardinalityType
    <2>3. D \cup {r} \subseteq C
      BY <1>2
    <2> QED BY <2>1, <2>2, <2>3, FS_Subset, FS_CardinalityType
  <1> DEFINE A == MaxPrice * a
             B == MaxPrice * b
             N == MaxPrice * n
  <1> HIDE DEF a, b, n
  <1>6. A \in Nat /\ B \in Nat /\ N \in Nat /\ A + MaxPrice <= B /\ A + MaxPrice <= N
    <2>1. MaxPrice * (a + 1) = A + MaxPrice /\ A \in Nat
      BY <1>3, <1>5, TimesSuccessor
    <2>2. MaxPrice * (a + 1) <= B /\ B \in Nat
      BY <1>3, <1>5, TimesMonotone
    <2>3. MaxPrice * (a + 1) <= N /\ N \in Nat
      BY <1>3, <1>5, TimesMonotone
    <2> QED BY <2>1, <2>2, <2>3
  <1> HIDE DEF A, B, N, price
  <1>7. AtLeast(spend[t], 95) => spend[t] * 100 + 100 * B < 95 * Limit + 100 * N
    BY DEF Bounded, B, N, b, n
  <1>8. spend'[t] * 100 + 100 * A < 95 * Limit + 100 * N
    <2>1. CASE AtLeast(spend[t], 95)
      BY <1>3, <1>4, <1>6, <1>7, <2>1, LimitAssumption
    <2>2. CASE ~AtLeast(spend[t], 95)
      BY <1>3, <1>4, <1>6, <2>2, LimitAssumption DEF AtLeast
    <2> QED BY <2>1, <2>2
  <1> QED BY <1>8 DEF Bounded, A, N, a, n

\* Every step keeps every tenant's bound.
LEMMA BoundStep ==
    ASSUME TypeOK, TypeOK', Limit > 0, \A t \in Tenant : Bounded(t), [Next]_vars
    PROVE  \A t \in Tenant : Bounded(t)'
  <1> TAKE t \in Tenant
  <1>0. Bounded(t)
    OBVIOUS
  <1>1. ASSUME NEW r \in Request, NEW u \in Tenant, NEW want \in Tier, NEW pin \in Pin,
               NEW th \in Threshold, Arrive(r, u, want, pin, th)
        PROVE  Bounded(t)'
    <2>1. /\ pc[r] = "idle" /\ pc' = [pc EXCEPT ![r] = "reading"]
          /\ seen' = [seen EXCEPT ![r] = spend[u]]
          /\ ctx' = [ctx EXCEPT ![r] = NewContext(u, want, pin, th)]
          /\ spend' = spend
      BY <1>1 DEF Arrive, At
    <2>2. ASSUME AtLeast(spend[t], 95), NEW q \in Request, q \in Committed(t)'
          PROVE  q \in Committed(t)
      <3>1. CASE q = r
        <4>1. pc'[q] = "reading" /\ seen'[q] = spend[u] /\ ctx'[q] = NewContext(u, want, pin, th)
          BY <2>1, <3>1 DEF TypeOK
        <4>2. ctx'[q].tenant = u
          BY <4>1 DEF NewContext
        <4>3. u = t /\ ~AtLeast(spend[u], 95)
          BY <2>2, <4>1, <4>2 DEF Committed, AtLeast
        <4> QED BY <2>2, <4>3
      <3>2. CASE q # r
        <4>1. pc'[q] = pc[q] /\ seen'[q] = seen[q] /\ ctx'[q] = ctx[q]
          BY <2>1, <3>2 DEF TypeOK
        <4> QED BY <2>2, <4>1 DEF Committed, AtLeast
      <3> QED BY <3>1, <3>2
    <2>3. AtLeast(spend[t], 95) => Committed(t)' \subseteq Committed(t)
      BY <2>2 DEF Committed
    <2> QED BY <1>0, <2>1, <2>3, FewerCommitted
  <1>2. ASSUME NEW r \in Request, Admit(r) PROVE Bounded(t)'
    <2>1. CASE Close(r)
      <3>1. Turn(r) /\ pc'[r] = "idle"
        BY <2>1, CloseTurn DEF Close, At, TypeOK
      <3>2. Committed(t)' \subseteq Committed(t)
        BY <3>1, TurnCommits
      <3> QED BY <1>0, <1>2, <3>2, FewerCommitted DEF Admit
    <2>2. CASE ~Close(r)
      <3>1. /\ pc[r] = "reading" /\ UNCHANGED <<seen, ctx, spend>>
            /\ \/ pc' = [pc EXCEPT ![r] = "queuing"]
               \/ /\ pc' = [pc EXCEPT ![r] = "counting"]
                  /\ ~should_reject_llm(compute_level(seen[r]))
        BY <1>2, <2>2 DEF Admit, At
      <3>2. seen[r] \in Nat
        BY DEF TypeOK
      <3>3. ~should_reject_llm(compute_level(seen[r])) => ~AtLeast(seen[r], 95)
        BY <3>2, LimitAssumption
           DEF should_reject_llm, compute_level, AtLeast, FULL_SERVICE, NO_STRONG, FAST_ONLY,
               DETERMINISTIC_ONLY, QUEUED
      <3>4. ASSUME NEW q \in Request, q \in Committed(t)' PROVE q \in Committed(t)
        <4>1. seen'[q] = seen[q] /\ ctx'[q] = ctx[q]
          BY <3>1
        <4>2. CASE q = r
          <5>1. pc'[q] \in {"queuing", "counting"}
            BY <3>1, <4>2 DEF TypeOK
          <5>2. pc'[q] = "counting" /\ ctx[q].tenant = t
            BY <3>4, <4>1, <5>1 DEF Committed
          <5>3. ~AtLeast(seen[r], 95)
            BY <3>1, <3>3, <4>2, <5>2 DEF TypeOK
          <5> QED BY <3>1, <4>2, <5>2, <5>3 DEF Committed
        <4>3. CASE q # r
          <5>1. pc'[q] = pc[q]
            BY <3>1, <4>3 DEF TypeOK
          <5> QED BY <3>4, <4>1, <5>1 DEF Committed, AtLeast
        <4> QED BY <4>2, <4>3
      <3>5. Committed(t)' \subseteq Committed(t)
        BY <3>4 DEF Committed
      <3> QED BY <1>0, <3>1, <3>5, FewerCommitted
    <2> QED BY <2>1, <2>2
  <1>3. ASSUME NEW r \in Request, Enqueue(r) \/ StoreFails(r) PROVE Bounded(t)'
    <2>1. Close(r) /\ spend' = spend
      BY <1>3 DEF Enqueue, StoreFails
    <2>2. Turn(r) /\ pc'[r] = "idle"
      BY <2>1, CloseTurn DEF Close, At, TypeOK
    <2> QED BY <1>0, <2>1, <2>2, TurnCommits, FewerCommitted
  <1>4. ASSUME NEW r \in Request,
               Route(r) \/ CallFails(r) \/ \E resp \in Answer, tokens \in Usage : CallSucceeds(r, resp, tokens)
        PROVE  Bounded(t)'
    <2>1. Turn(r)
      BY <1>4, RouteTurn, CallFailsTurn, CallSucceedsTurn
    <2>2. pc[r] \in {"counting", "calling"} /\ spend' = spend
      BY <1>4 DEF Route, CallFails, CallSucceeds
    <2> QED BY <1>0, <2>1, <2>2, TurnCommits, FewerCommitted
  <1>5. ASSUME NEW r \in Request, Record(r) PROVE Bounded(t)'
    <2>1. CASE t = ctx[r].tenant
      BY <1>0, <1>5, <2>1, RecordBounded
    <2>2. CASE t # ctx[r].tenant
      <3>1. Turn(r) /\ pc'[r] = "idle"
        BY <1>5, CloseTurn DEF Record, Close, At, TypeOK
      <3>2. spend'[t] = spend[t]
        BY <1>5, <2>2 DEF Record, TypeOK
      <3> QED BY <1>0, <3>1, <3>2, TurnCommits, FewerCommitted
    <2> QED BY <2>1, <2>2
  <1>6. CASE Midnight
    <2>1. spend'[t] = 0
      BY <1>6 DEF Midnight
    <2>2. ~AtLeast(spend[t], 95)'
      BY <2>1, LimitAssumption DEF AtLeast
    <2> QED BY <2>2 DEF Bounded
  <1>7. CASE Restart
    <2>1. Committed(t)' = {}
      BY <1>7 DEF Restart, Committed
    <2> QED BY <1>0, <1>7, <2>1, FewerCommitted DEF Restart
  <1>8. CASE (\E m \in Model : Rotate(m)) \/ UNCHANGED vars
    <2>1. UNCHANGED <<pc, seen, ctx, spend>>
      BY <1>8 DEF Rotate, vars
    <2>2. Committed(t)' = Committed(t)
      BY <2>1 DEF Committed, AtLeast
    <2> QED BY <1>0, <2>1, <2>2, FewerCommitted
  <1> QED BY <1>1, <1>2, <1>3, <1>4, <1>5, <1>6, <1>7, <1>8 DEF Next, Handle

\* Whatever the number of connections, tenants and models, and whatever the
\* prices: a tenant passes the 95% mark, where the gateway stops calling models,
\* by less than one call for each connection (main.py:411 and 557).
THEOREM OvershootTheorem == Spec => []OvershootBounded
  <1>1. OvershootBounded <=> (Limit > 0 => \A t \in Tenant : Bounded(t))
    BY DEF OvershootBounded, Bounded
  <1>2. Init => OvershootBounded
    <2>1. Init /\ Limit > 0 => \A t \in Tenant : ~AtLeast(spend[t], 95)
      BY LimitAssumption DEF Init, AtLeast
    <2> QED BY <1>1, <2>1 DEF Bounded
  <1>3. TypeOK /\ TypeOK' /\ OvershootBounded /\ [Next]_vars => OvershootBounded'
    BY <1>1, BoundStep DEF OvershootBounded, Bounded
  <1> QED BY <1>2, <1>3, TypeCorrect, PTL DEF Spec
-----------------------------------------------------------------------------
(* The escalation loop *)

\* The locals with which the loop comes to tier u.
Goto(c, u, esc, m, todo) == [c EXCEPT !.tier = u, !.esc = esc, !.model = m, !.todo = todo]

LEMMA GotoFields ==
    ASSUME NEW c \in Context, NEW u \in Tier, NEW esc \in Nat, NEW m \in Model \cup {NoModel},
           NEW todo \in SUBSET Model
    PROVE  LET d == Goto(c, u, esc, m, todo)
           IN  /\ d \in Context
               /\ d.tier = u /\ d.esc = esc
               /\ d.tenant = c.tenant /\ d.threshold = c.threshold
               /\ d.best = c.best /\ d.conf = c.conf /\ d.top = c.top
               /\ d.used = c.used /\ d.paid = c.paid /\ d.usage = c.usage
  BY DEF Goto, Context

\* Where Continue comes out: at a call some hops up, or as many hops up as there are.
LEMMA ContinueShape ==
    ASSUME TypeOK, NEW r \in Request, NEW c \in Context, NEW tier \in Tier, NEW esc \in Nat,
           NEW skip \in Nat, Continue(r, c, tier, esc, skip)
    PROVE  \E k \in Hops(c, tier, esc) : \E u \in Climb(tier, k) :
             \/ /\ k >= skip /\ At(r, "calling")
                /\ \E m \in Model, todo \in SUBSET Model :
                      ctx' = [ctx EXCEPT ![r] = Goto(c, u, esc + k, m, todo)]
             \/ /\ \A j \in Hops(c, tier, esc) : j <= k
                /\ Stop(r, Goto(c, u, esc + k, NoModel, {}))
  <1> DEFINE hops      == Hops(c, tier, esc)
             models(k) == UNION {get_models_for_tier(u) : u \in Climb(tier, k)}
             live      == {k \in hops : k >= skip /\ models(k) # {}}
  <1>1. CASE \E k \in live : \E u \in Climb(tier, k) :
            /\ \E m \in FirstOf(u, TargetModel(c, esc + k), models(k)) :
                    ctx' = [ctx EXCEPT ![r] = Goto(c, u, esc + k, m, models(k) \ {m})]
            /\ At(r, "calling")
    <2>1. PICK k \in live : \E u \in Climb(tier, k) :
            /\ \E m \in FirstOf(u, TargetModel(c, esc + k), models(k)) :
                    ctx' = [ctx EXCEPT ![r] = Goto(c, u, esc + k, m, models(k) \ {m})]
            /\ At(r, "calling")
      BY <1>1
    <2>2. PICK u \in Climb(tier, k) :
            /\ \E m \in FirstOf(u, TargetModel(c, esc + k), models(k)) :
                    ctx' = [ctx EXCEPT ![r] = Goto(c, u, esc + k, m, models(k) \ {m})]
            /\ At(r, "calling")
      BY <2>1
    <2>3. PICK m \in FirstOf(u, TargetModel(c, esc + k), models(k)) :
                ctx' = [ctx EXCEPT ![r] = Goto(c, u, esc + k, m, models(k) \ {m})]
      BY <2>2
    <2>4. models(k) \subseteq Model
      BY DEF get_models_for_tier, TypeOK
    <2>5. m \in Model /\ models(k) \ {m} \in SUBSET Model
      BY <2>4 DEF FirstOf
    <2> HIDE DEF models
    <2>6. k \in hops /\ k >= skip
      OBVIOUS
    <2> QED BY <2>2, <2>3, <2>5, <2>6
  <1>2. CASE \E k \in hops : \E u \in Climb(tier, k) :
                /\ \A j \in hops : j <= k
                /\ Stop(r, Goto(c, u, esc + k, NoModel, {}))
    BY <1>2
  <1> QED BY <1>1, <1>2 DEF Continue, Goto

\* A handler in the loop: the response it holds is the most confident so far, and
\* every response so far asked for more (malformed ones have a confidence of 0.3 at
\* most).  What that response cost is part of what was paid.  Before the first escalation
\* nothing has been answered.
InLoop(c, esc) ==
    /\ c.conf = c.top
    /\ c.top <= 3 \/ c.top < c.threshold
    /\ c.best # NoModel => EstimateCost[c.best][c.usage] <= c.paid
    /\ esc = 0 => c.best = NoModel /\ c.top = 0 /\ c.paid = 0
    /\ ~EscEnabled => esc = 0

\* A handler that has left the loop.
Settled(c) ==
    /\ c.conf >= c.top \/ c.esc >= MaxEsc
    /\ EstimateCost[c.best][c.usage] <= c.paid
    /\ c.esc = 0 => c.used = c.best /\ EstimateCost[c.best][c.usage] = c.paid

\* A handler that has not come to the loop has not escalated.
Account(p, c) ==
    IF p = "recording" THEN Settled(c) ELSE InLoop(c, c.esc) /\ (p # "calling" => c.esc = 0)

AccountInv == \A r \in Request : Account(pc[r], ctx[r])

LEMMA BlankInLoop == InLoop(Blank, Blank.esc) /\ Blank.esc = 0
  BY EscAssumption DEF InLoop, Blank, NewContext

\* Only slot r changes, and its account holds.
AccountKept(r) ==
    /\ \E p \in PC : pc' = [pc EXCEPT ![r] = p]
    /\ \E c \in Context : ctx' = [ctx EXCEPT ![r] = c]
    /\ Account(pc'[r], ctx'[r])

LEMMA AccountKeptStep ==
    ASSUME TypeOK, AccountInv, NEW r \in Request, AccountKept(r)
    PROVE  AccountInv'
  <1> SUFFICES ASSUME NEW q \in Request PROVE Account(pc'[q], ctx'[q])
    BY DEF AccountInv
  <1>1. CASE q = r
    BY <1>1 DEF AccountKept
  <1>2. CASE q # r
    <2>1. pc'[q] = pc[q] /\ ctx'[q] = ctx[q]
      BY <1>2 DEF AccountKept, TypeOK
    <2> QED BY <2>1 DEF AccountInv
  <1> QED BY <1>1, <1>2

LEMMA CloseAccount ==
    ASSUME TypeOK, NEW r \in Request, Close(r)
    PROVE  AccountKept(r)
  <1>1. pc'[r] = "idle" /\ ctx'[r] = Blank
    BY DEF Close, At, TypeOK
  <1>2. Account(pc'[r], ctx'[r])
    BY <1>1, BlankInLoop DEF Account
  <1> QED BY <1>2, BlankType DEF AccountKept, Close, At, PC

LEMMA StopAccount ==
    ASSUME TypeOK, NEW r \in Request, NEW c \in Context, Stop(r, c), c.best # NoModel => Settled(c)
    PROVE  AccountKept(r)
  <1>1. CASE c.best # NoModel
    <2>1. pc' = [pc EXCEPT ![r] = "recording"] /\ ctx' = [ctx EXCEPT ![r] = c]
      BY <1>1 DEF Stop, At
    <2>2. pc'[r] = "recording" /\ ctx'[r] = c
      BY <2>1 DEF TypeOK
    <2>3. Account(pc'[r], ctx'[r])
      BY <1>1, <2>2 DEF Account
    <2> QED BY <2>1, <2>3 DEF AccountKept, PC
  <1>2. CASE c.best = NoModel
    BY <1>2, CloseAccount DEF Stop
  <1> QED BY <1>1, <1>2

LEMMA ContinueAccount ==
    ASSUME TypeOK, NEW r \in Request, NEW c \in Context, NEW tier \in Tier, NEW esc \in Nat,
           NEW skip \in Nat, Continue(r, c, tier, esc, skip), InLoop(c, esc)
    PROVE  AccountKept(r)
  <1>1. PICK k \in Hops(c, tier, esc) : \E u \in Climb(tier, k) :
             \/ /\ At(r, "calling")
                /\ \E m \in Model, todo \in SUBSET Model :
                      ctx' = [ctx EXCEPT ![r] = Goto(c, u, esc + k, m, todo)]
             \/ Stop(r, Goto(c, u, esc + k, NoModel, {}))
    BY ContinueShape
  <1>2. PICK u \in Climb(tier, k) :
             \/ /\ At(r, "calling")
                /\ \E m \in Model, todo \in SUBSET Model :
                      ctx' = [ctx EXCEPT ![r] = Goto(c, u, esc + k, m, todo)]
             \/ Stop(r, Goto(c, u, esc + k, NoModel, {}))
    BY <1>1
  <1>3. k \in Nat /\ u \in Tier /\ esc + k \in Nat /\ (k > 0 => EscEnabled)
    BY ClimbType DEF Hops
  <1>4. InLoop(c, esc + k)
    BY <1>3 DEF InLoop
  <1>5. ASSUME NEW m \in Model, NEW todo \in SUBSET Model, At(r, "calling"),
               ctx' = [ctx EXCEPT ![r] = Goto(c, u, esc + k, m, todo)]
        PROVE  AccountKept(r)
    <2> DEFINE d == Goto(c, u, esc + k, m, todo)
    <2>1. /\ d \in Context /\ d.esc = esc + k /\ d.threshold = c.threshold
          /\ d.best = c.best /\ d.conf = c.conf /\ d.top = c.top
          /\ d.used = c.used /\ d.paid = c.paid /\ d.usage = c.usage
      BY <1>3, GotoFields
    <2>2. ctx' = [ctx EXCEPT ![r] = d]
      BY <1>5
    <2> HIDE DEF d
    <2>3. InLoop(d, d.esc)
      BY <1>4, <2>1 DEF InLoop
    <2>4. pc'[r] = "calling" /\ ctx'[r] = d
      BY <1>5, <2>2 DEF At, TypeOK
    <2>5. Account(pc'[r], ctx'[r])
      BY <2>3, <2>4 DEF Account
    <2> QED BY <1>5, <2>1, <2>2, <2>5 DEF AccountKept, At, PC
  <1>6. CASE Stop(r, Goto(c, u, esc + k, NoModel, {}))
    <2> DEFINE d == Goto(c, u, esc + k, NoModel, {})
    <2>1. /\ d \in Context /\ d.esc = esc + k
          /\ d.best = c.best /\ d.conf = c.conf /\ d.top = c.top
          /\ d.used = c.used /\ d.paid = c.paid /\ d.usage = c.usage
      BY <1>3 DEF Goto, Context
    <2>2. Stop(r, d)
      BY <1>6
    <2> HIDE DEF d
    <2>3. d.best # NoModel => Settled(d)
      BY <1>3, <1>4, <2>1 DEF InLoop, Settled, Context
    <2> QED BY <2>1, <2>2, <2>3, StopAccount
  <1> QED BY <1>2, <1>5, <1>6

\* What an answer leaves in the locals.
LEMMA TakenFields ==
    ASSUME NEW c \in Context, c.model \in Model, NEW resp \in Response, NEW tokens \in Usage
    PROVE  LET d    == Taken(c, resp, tokens)
               conf == decided_confidence(resp, c.esc)
               take == conf > c.conf \/ ~should_escalate(resp, c.threshold, c.esc)
           IN  /\ d \in Context
               /\ d.tier = c.tier /\ d.esc = c.esc /\ d.tenant = c.tenant
               /\ d.threshold = c.threshold
               /\ d.used = c.model /\ d.paid = c.paid + EstimateCost[c.model][tokens]
               /\ take => d.best = c.model /\ d.usage = tokens /\ d.conf = conf
               /\ ~take => d.best = c.best /\ d.usage = c.usage /\ d.conf = c.conf
               /\ conf > c.top => d.top = conf
               /\ conf <= c.top => d.top = c.top
  <1> DEFINE conf == decided_confidence(resp, c.esc)
             take == conf > c.conf \/ ~should_escalate(resp, c.threshold, c.esc)
             paid == c.paid + EstimateCost[c.model][tokens]
             best == IF take THEN c.model ELSE c.best
             usage == IF take THEN tokens ELSE c.usage
             kept == IF take THEN conf ELSE c.conf
             top  == IF conf > c.top THEN conf ELSE c.top
             d    == Taken(c, resp, tokens)
  <1>1. conf \in 0 .. 10 /\ EstimateCost[c.model][tokens] \in Nat
    BY ConfidenceType, GatewayAssumption DEF Context
  <1>2. /\ paid \in Nat /\ best \in Model \cup {NoModel} /\ usage \in Usage
        /\ kept \in 0 .. 10 /\ top \in 0 .. 10
    BY <1>1 DEF Context
  <1>3. d = [c EXCEPT !.model = NoModel, !.todo = {}, !.used = c.model, !.paid = paid,
                      !.best = best, !.usage = usage, !.conf = kept, !.top = top]
    BY DEF Taken, Context
  <1>4. conf > c.top => top = conf
    OBVIOUS
  <1>5. conf <= c.top => top = c.top
    BY <1>1 DEF Context
  <1> HIDE DEF paid, best, usage, kept, top, d, conf
  <1>6. /\ d \in Context /\ d.tier = c.tier /\ d.esc = c.esc /\ d.tenant = c.tenant
        /\ d.threshold = c.threshold /\ d.used = c.model /\ d.paid = paid
        /\ d.best = best /\ d.usage = usage /\ d.conf = kept /\ d.top = top
    BY <1>2, <1>3 DEF Context
  <1>7. /\ take => best = c.model /\ usage = tokens /\ kept = conf
        /\ ~take => best = c.best /\ usage = c.usage /\ kept = c.conf
    BY DEF best, usage, kept
  <1> QED BY <1>4, <1>5, <1>6, <1>7 DEF conf, d, paid

\* A response that escalates is malformed or below the threshold; one that does
\* not, while escalations are left, is neither.
LEMMA EscalatedIsPoor ==
    ASSUME NEW resp \in Response, NEW th \in 0 .. 10, NEW n \in Nat
    PROVE  LET conf == decided_confidence(resp, n)
           IN  /\ should_escalate(resp, th, n) => conf <= 3 \/ conf < th
               /\ MayEscalate(n) /\ ~should_escalate(resp, th, n) => conf > 3 /\ conf >= th
  <1>1. \/ resp = "empty" \/ resp = "refusal" \/ resp = "bad_json"
        \/ resp = "short" \/ resp = "unsure" \/ resp = "good"
    BY DEF Response
  <1>2. CASE resp = "empty"
    BY <1>2 DEF decided_confidence, extract_confidence, should_escalate
  <1>3. CASE resp = "refusal"
    BY <1>3 DEF decided_confidence, extract_confidence, should_escalate
  <1>4. CASE resp = "bad_json"
    BY <1>4 DEF decided_confidence, extract_confidence, should_escalate
  <1>5. CASE resp = "short"
    BY <1>5 DEF decided_confidence, extract_confidence, should_escalate
  <1>6. CASE resp = "unsure"
    BY <1>6 DEF decided_confidence, extract_confidence, should_escalate
  <1>7. CASE resp = "good"
    BY <1>7 DEF decided_confidence, extract_confidence, should_escalate
  <1> QED BY <1>1, <1>2, <1>3, <1>4, <1>5, <1>6, <1>7

\* Climbing on leaves the most confident response; stopping settles the account.
LEMMA TakenAccount ==
    ASSUME NEW c \in Context, c.model \in Model, NEW resp \in Response, NEW tokens \in Usage,
           InLoop(c, c.esc)
    PROVE  LET d == Taken(c, resp, tokens)
           IN  /\ should_escalate(resp, c.threshold, c.esc) =>
                    InLoop(d, c.esc + 1) /\ (d.best # NoModel => Settled(d))
               /\ ~should_escalate(resp, c.threshold, c.esc) => Settled(d)
  <1> DEFINE d == Taken(c, resp, tokens)
             conf == decided_confidence(resp, c.esc)
             esc == should_escalate(resp, c.threshold, c.esc)
  <1>1. /\ d \in Context /\ d.esc = c.esc /\ d.threshold = c.threshold
        /\ d.used = c.model /\ d.paid = c.paid + EstimateCost[c.model][tokens]
        /\ conf > c.conf \/ ~esc => d.best = c.model /\ d.usage = tokens /\ d.conf = conf
        /\ ~(conf > c.conf \/ ~esc) => d.best = c.best /\ d.usage = c.usage /\ d.conf = c.conf
        /\ conf > c.top => d.top = conf
        /\ conf <= c.top => d.top = c.top
    BY TakenFields
  <1>2. conf \in 0 .. 10 /\ EstimateCost[c.model][tokens] \in Nat
    BY ConfidenceType, GatewayAssumption DEF Context
  <1>3. /\ c.conf \in 0 .. 10 /\ c.top \in 0 .. 10 /\ c.threshold \in 0 .. 10
        /\ c.esc \in Nat /\ c.paid \in Nat
    BY DEF Context
  <1>4. /\ esc => conf <= 3 \/ conf < c.threshold
        /\ MayEscalate(c.esc) /\ ~esc => conf > 3 /\ conf >= c.threshold
    BY <1>3, EscalatedIsPoor
  <1>5. esc => MayEscalate(c.esc)
    BY DEF should_escalate
  <1> HIDE DEF d, conf, esc
  <1>6. d.best # NoModel =>
            /\ EstimateCost[d.best][d.usage] <= d.paid
            /\ c.esc = 0 => d.used = d.best /\ EstimateCost[d.best][d.usage] = d.paid
    <2>1. CASE conf > c.conf \/ ~esc
      <3>1. d.best = c.model /\ d.usage = tokens
        BY <1>1, <2>1
      <3> QED BY <1>1, <1>2, <1>3, <3>1 DEF InLoop
    <2>2. CASE ~(conf > c.conf \/ ~esc)
      <3>1. d.best = c.best /\ d.usage = c.usage
        BY <1>1, <2>2
      <3>2. d.best # NoModel => EstimateCost[c.best][c.usage] \in Nat
        BY <3>1, GatewayAssumption DEF Context
      <3> QED BY <1>1, <1>2, <1>3, <3>1, <3>2 DEF InLoop
    <2> QED BY <2>1, <2>2
  <1>7. CASE esc
    <2>1. d.conf = d.top /\ (d.top <= 3 \/ d.top < d.threshold)
      BY <1>1, <1>2, <1>3, <1>4, <1>7 DEF InLoop
    <2>2. InLoop(d, c.esc + 1)
      BY <1>3, <1>5, <1>6, <1>7, <2>1 DEF InLoop, MayEscalate
    <2>3. d.best # NoModel => Settled(d)
      BY <1>1, <1>2, <1>3, <1>6, <2>1 DEF Settled
    <2> QED BY <1>7, <2>2, <2>3 DEF d, esc
  <1>8. CASE ~esc
    <2>0. d.best # NoModel
      BY <1>1, <1>8, GatewayAssumption
    <2>1. d.conf = conf /\ d.top = IF conf > c.top THEN conf ELSE c.top
      BY <1>1, <1>2, <1>3, <1>8
    <2>2. CASE MayEscalate(c.esc)
      <3>1. conf >= c.top
        BY <1>2, <1>3, <1>4, <1>8, <2>2 DEF InLoop
      <3> QED BY <1>1, <1>2, <1>3, <1>6, <1>8, <2>0, <2>1, <3>1 DEF Settled, d, esc
    <2>3. CASE ~EscEnabled
      <3>1. c.top = 0
        BY <2>3 DEF InLoop
      <3>2. conf >= c.top
        BY <1>2, <3>1
      <3> QED BY <1>1, <1>2, <1>3, <1>6, <1>8, <2>0, <2>1, <3>2 DEF Settled, d, esc
    <2>4. CASE c.esc >= MaxEsc
      BY <1>1, <1>6, <1>8, <2>0, <2>4 DEF Settled, d, esc
    <2> QED BY <1>3, <2>2, <2>3, <2>4, EscAssumption DEF MayEscalate
  <1> QED BY <1>7, <1>8

LEMMA AccountStep == ASSUME TypeOK, AccountInv, [Next]_vars PROVE AccountInv'
  <1>0. \A r \in Request : ctx[r] \in Context /\ ctx[r].tier \in Tier /\ ctx[r].esc \in Nat
    BY DEF TypeOK, Context
  <1>1. ASSUME NEW r \in Request, NEW t \in Tenant, NEW want \in Tier, NEW pin \in Pin,
               NEW th \in Threshold, Arrive(r, t, want, pin, th)
        PROVE  AccountInv'
    <2> DEFINE c == NewContext(t, want, pin, th)
    <2>1. c \in Context
      BY NewContextType, GatewayAssumption
    <2>2. InLoop(c, c.esc) /\ c.esc = 0
      BY EscAssumption DEF NewContext, InLoop
    <2>3. pc' = [pc EXCEPT ![r] = "reading"] /\ ctx' = [ctx EXCEPT ![r] = c]
      BY <1>1 DEF Arrive, At
    <2> HIDE DEF c
    <2>4. pc'[r] = "reading" /\ ctx'[r] = c
      BY <2>3 DEF TypeOK
    <2>5. Account(pc'[r], ctx'[r])
      BY <2>2, <2>4 DEF Account
    <2>6. AccountKept(r)
      BY <2>1, <2>3, <2>5 DEF AccountKept, PC
    <2> QED BY <2>6, AccountKeptStep
  <1>2. ASSUME NEW r \in Request, Close(r) PROVE AccountInv'
    BY <1>2, CloseAccount, AccountKeptStep
  <1>3. ASSUME NEW r \in Request, pc[r] = "reading", UNCHANGED ctx,
               NEW p \in {"queuing", "counting"}, At(r, p)
        PROVE  AccountInv'
    BY <1>3 DEF At, AccountInv, Account, TypeOK
  <1>4. ASSUME NEW r \in Request, Route(r) PROVE AccountInv'
    <2> DEFINE c    == ctx[r]
               tier == cap_tier(level[c.tenant], c.want)
               pin  == IF tier # c.want THEN NoModel ELSE c.pin
    <2>1. tier \in Tier /\ pin \in Model \cup {NoModel}
      <3>1. level[c.tenant] \in Level /\ c.want \in Tier /\ c.pin \in Model \cup {NoModel}
        BY <1>0 DEF TypeOK, Context
      <3> QED BY <3>1, CapType
    <2>2. PICK canary \in BOOLEAN :
              Continue(r, [c EXCEPT !.canary = canary, !.pin = pin], tier, 0, 0)
      BY <1>4 DEF Route
    <2> DEFINE d == [c EXCEPT !.canary = canary, !.pin = pin]
    <2>3. InLoop(c, c.esc)
      BY <1>4 DEF AccountInv, Account, Route
    <2> HIDE DEF tier, pin
    <2>4. /\ d \in Context
          /\ d.best = c.best /\ d.conf = c.conf /\ d.top = c.top /\ d.threshold = c.threshold
          /\ d.used = c.used /\ d.paid = c.paid /\ d.usage = c.usage
      BY <1>0, <2>1 DEF Context
    <2>5. Continue(r, d, tier, 0, 0)
      BY <2>2
    <2>6. pc[r] = "counting"
      BY <1>4 DEF Route
    <2>7. c.esc = 0
      BY <2>6 DEF AccountInv, Account
    <2> HIDE DEF c, d
    <2>8. InLoop(d, 0)
      BY <2>3, <2>4, <2>7 DEF InLoop
    <2>9. AccountKept(r)
      BY <2>1, <2>4, <2>5, <2>8, ContinueAccount
    <2> QED BY <2>9, AccountKeptStep
  <1>5. ASSUME NEW r \in Request, NEW resp \in Answer, NEW tokens \in Usage, CallSucceeds(r, resp, tokens) PROVE AccountInv'
    <2> DEFINE c == ctx[r]
               d == Taken(c, resp, tokens)
               esc == should_escalate(resp, c.threshold, c.esc)
    <2>1. resp \in Response /\ pc[r] = "calling"
      BY <1>5, GatewayAssumption DEF CallSucceeds
    <2>2. c \in Context /\ c.model \in Model /\ c.tier \in Tier /\ c.esc + 1 \in Nat
      BY <1>0, <2>1 DEF TypeOK
    <2>3. InLoop(c, c.esc)
      BY <2>1 DEF AccountInv, Account
    <2>4. d \in Context
      BY <2>1, <2>2, TakenFields
    <2>5. /\ esc => InLoop(d, c.esc + 1)
          /\ d.best # NoModel => Settled(d)
      BY <2>1, <2>2, <2>3, TakenAccount
    <2>6. NextTiers(c) \subseteq Tier
      BY <2>2, ClimbType DEF NextTiers, get_next_tier
    <2>7. CASE Stop(r, d)
      BY <2>4, <2>5, <2>7, StopAccount, AccountKeptStep
    <2>8. CASE esc /\ \E t \in NextTiers(c) : Continue(r, d, t, c.esc + 1, 0)
      <3>1. PICK t \in NextTiers(c) : Continue(r, d, t, c.esc + 1, 0)
        BY <2>8
      <3>2. t \in Tier
        BY <2>6
      <3> HIDE DEF c, d
      <3>3. AccountKept(r)
        BY <2>2, <2>4, <2>5, <2>8, <3>1, <3>2, ContinueAccount
      <3> QED BY <3>3, AccountKeptStep
    <2> QED BY <1>5, <2>7, <2>8 DEF CallSucceeds
  <1>6. ASSUME NEW r \in Request, CallFails(r) PROVE AccountInv'
    <2> DEFINE c == ctx[r]
    <2>1. pc[r] = "calling" /\ InLoop(c, c.esc)
      BY <1>6 DEF CallFails, AccountInv, Account
    <2>2. CASE Continue(r, c, c.tier, c.esc, 1)
      <3>1. AccountKept(r)
        BY <1>0, <2>1, <2>2, ContinueAccount
      <3> QED BY <3>1, AccountKeptStep
    <2>3. CASE /\ \E m \in Model, todo \in SUBSET Model :
                      ctx' = [ctx EXCEPT ![r] = [c EXCEPT !.model = m, !.todo = todo]]
               /\ UNCHANGED pc
      <3>1. PICK m \in Model, todo \in SUBSET Model :
                      ctx' = [ctx EXCEPT ![r] = [c EXCEPT !.model = m, !.todo = todo]]
        BY <2>3
      <3> DEFINE d == [c EXCEPT !.model = m, !.todo = todo]
      <3>2. /\ d \in Context /\ d.esc = c.esc /\ d.threshold = c.threshold
            /\ d.best = c.best /\ d.conf = c.conf /\ d.top = c.top
            /\ d.used = c.used /\ d.paid = c.paid /\ d.usage = c.usage
        BY <1>0 DEF Context
      <3>3. ctx' = [ctx EXCEPT ![r] = d]
        BY <3>1
      <3> HIDE DEF d
      <3>4. InLoop(d, d.esc)
        BY <2>1, <3>2 DEF InLoop
      <3>5. pc'[r] = "calling" /\ ctx'[r] = d /\ pc' = [pc EXCEPT ![r] = "calling"]
        BY <2>1, <2>3, <3>3 DEF TypeOK
      <3>6. Account(pc'[r], ctx'[r])
        BY <3>4, <3>5 DEF Account
      <3>7. AccountKept(r)
        BY <3>2, <3>3, <3>5, <3>6 DEF AccountKept, PC
      <3> QED BY <3>7, AccountKeptStep
    <2>4. c.todo \subseteq Model
      BY <1>0 DEF Context
    <2> QED BY <1>6, <2>2, <2>3, <2>4 DEF CallFails, FirstOf
  <1>7. ASSUME UNCHANGED <<pc, ctx>> PROVE AccountInv'
    BY <1>7 DEF AccountInv, Account
  <1>8. CASE Restart
    <2>1. \A r \in Request : pc'[r] = "idle" /\ ctx'[r] = Blank
      BY <1>8 DEF Restart
    <2> QED BY <2>1, BlankInLoop DEF AccountInv, Account
  <1>9. ASSUME NEW r \in Request, Handle(r) \/ StoreFails(r) PROVE AccountInv'
    <2>1. CASE Admit(r)
      BY <1>2, <1>3, <2>1 DEF Admit
    <2> QED BY <1>2, <1>4, <1>5, <1>6, <1>9, <2>1 DEF Handle, Enqueue, Record, StoreFails
  <1> QED BY <1>1, <1>7, <1>8, <1>9 DEF Next, vars, Midnight, Rotate

\* Whatever the interleaving, both invariants hold.
LEMMA AccountInvariant == Spec => [](TypeOK /\ AccountInv)
  <1>1. Init => TypeOK /\ AccountInv
    <2>1. Init => TypeOK
      <3>1. Blank.best = NoModel
        BY DEF Blank, NewContext
      <3> QED BY <3>1, BlankType DEF Init, TypeOK, PC, Level, FULL_SERVICE
    <2>2. Init => AccountInv
      BY BlankInLoop DEF Init, AccountInv, Account
    <2> QED BY <2>1, <2>2
  <1>2. TypeOK /\ AccountInv /\ [Next]_vars => (TypeOK /\ AccountInv)'
    BY TypeStep, AccountStep
  <1> QED BY <1>1, <1>2, PTL DEF Spec

\* For every configuration of tiers, thresholds and escalations: complete()
\* returns the most confident response it got, unless it has used up its
\* escalations (main.py:509-512).
THEOREM BestBeforeLastTheorem == Spec => []BestBeforeLast
  <1>1. TypeOK /\ AccountInv => BestBeforeLast
    BY DEF AccountInv, Account, Settled, BestBeforeLast
  <1> QED BY <1>1, AccountInvariant, PTL

\* For every list of costs: what record_cost charges has been paid to providers, unless it
\* mixes the rate of one model with the tokens of another, and it is all that was paid when
\* the first tier's answer was returned.
THEOREM ChargeWasPaidTheorem == Spec => []ChargeWasPaid
  <1>1. TypeOK /\ AccountInv => ChargeWasPaid
    BY DEF AccountInv, Account, Settled, ChargeWasPaid, Charge
  <1> QED BY <1>1, AccountInvariant, PTL
-----------------------------------------------------------------------------
(* Which tiers the loop may call, and when it may stop *)

\* cap_tier answers with a tier that the level allows, if it allows any.
LEMMA CapAllowed ==
    ASSUME NEW l \in Level, NEW want \in Tier
    PROVE  cap_tier(l, want) \in tiers_for_level(l) \/ should_reject_llm(l)
  <1> DEFINE allowed == {t \in tiers_for_level(l) : Rank(t) <= Rank(want)}
  <1>1. CASE l \in {0, 1, 2}
    <2>1. "fast" \in tiers_for_level(l)
      BY <1>1 DEF tiers_for_level, FULL_SERVICE, NO_STRONG, FAST_ONLY
    <2>2. Rank("fast") <= Rank(want)
      <3>1. Rank("fast") = 1
        BY DEF Rank
      <3> QED BY <3>1, RankType
    <2>3. allowed # {}
      BY <2>1, <2>2
    <2>4. \E t \in allowed : \A u \in allowed : Rank(u) <= Rank(t)
      BY <2>3, HighestTier DEF tiers_for_level, Tier
    <2>5. (CHOOSE t \in allowed : \A u \in allowed : Rank(u) <= Rank(t)) \in allowed
      BY <2>4
    <2>6. cap_tier(l, want) \in allowed
      BY <2>3, <2>5 DEF cap_tier
    <2> QED BY <2>6
  <1>2. CASE l \notin {0, 1, 2}
    BY <1>2 DEF Level, should_reject_llm, DETERMINISTIC_ONLY
  <1> QED BY <1>1, <1>2

\* A call after Continue is on the tier it began with or on one allowed now.
LEMMA ContinueAllowed ==
    ASSUME TypeOK, NEW r \in Request, NEW c \in Context, NEW tier \in Tier, NEW esc \in Nat,
           NEW skip \in Nat, Continue(r, c, tier, esc, skip), pc'[r] = "calling"
    PROVE  \/ is_tier_allowed(c.tenant, ctx'[r].tier)
           \/ skip = 0 /\ ctx'[r].tier = tier
  <1>1. PICK k \in Hops(c, tier, esc) : \E u \in Climb(tier, k) :
             \/ /\ k >= skip /\ At(r, "calling")
                /\ \E m \in Model, todo \in SUBSET Model :
                      ctx' = [ctx EXCEPT ![r] = Goto(c, u, esc + k, m, todo)]
             \/ Stop(r, Goto(c, u, esc + k, NoModel, {}))
    BY ContinueShape
  <1>2. PICK u \in Climb(tier, k) :
             \/ /\ k >= skip /\ At(r, "calling")
                /\ \E m \in Model, todo \in SUBSET Model :
                      ctx' = [ctx EXCEPT ![r] = Goto(c, u, esc + k, m, todo)]
             \/ Stop(r, Goto(c, u, esc + k, NoModel, {}))
    BY <1>1
  <1>3. ~Stop(r, Goto(c, u, esc + k, NoModel, {}))
    BY DEF Stop, Close, At, TypeOK
  <1>4. PICK m \in Model, todo \in SUBSET Model :
              ctx' = [ctx EXCEPT ![r] = Goto(c, u, esc + k, m, todo)]
    BY <1>2, <1>3
  <1>5. k \in Nat /\ u \in Tier /\ esc + k \in Nat /\ k >= skip
    BY <1>2, <1>3, ClimbType DEF Hops
  <1>6. ctx'[r].tier = u
    BY <1>4, <1>5, GotoFields DEF TypeOK
  <1>7. CASE k = 0
    BY <1>5, <1>6, <1>7 DEF Climb
  <1>8. CASE k > 0
    BY <1>5, <1>6, <1>8 DEF Hops
  <1> QED BY <1>5, <1>7, <1>8

\* The tier after one k steps up is the tier k + 1 steps up: the path has no tier twice.
LEMMA ClimbOn ==
    ASSUME NEW tier \in Tier, NEW k \in Nat, NEW u \in Climb(tier, k), NEW v \in get_next_tier(u)
    PROVE  Climb(tier, k + 1) = {v} /\ k + 1 <= Len(Path)
  <1>0. Path \in Seq(Tier) /\ DOMAIN Path = 1 .. Len(Path) /\ Len(Path) \in Nat
    BY GatewayAssumption
  <1>1. PICK j \in DOMAIN Path : Path[j] = u /\ j + 1 \in DOMAIN Path /\ v = Path[j + 1]
    BY DEF get_next_tier, Climb
  <1>2. PICK i \in DOMAIN Path : Path[i] = tier /\ i + k = j
    <2>1. CASE k = 0
      BY <1>0, <1>1, <2>1 DEF Climb
    <2>2. CASE k > 0
      <3>1. PICK i \in DOMAIN Path : Path[i] = tier /\ i + k \in DOMAIN Path /\ u = Path[i + k]
        BY <2>2 DEF Climb
      <3>2. i + k = j
        BY <1>1, <3>1, GatewayAssumption
      <3> QED BY <3>1, <3>2
    <2> QED BY <2>1, <2>2
  <1>3. i + (k + 1) = j + 1 /\ k + 1 > 0
    BY <1>0, <1>2
  <1>4. \A h \in DOMAIN Path : Path[h] = tier => h = i
    BY <1>2, GatewayAssumption
  <1>5. Climb(tier, k + 1) = {Path[h + (k + 1)] : h \in {h \in DOMAIN Path : Path[h] = tier /\ h + (k + 1) \in DOMAIN Path}}
    BY <1>3 DEF Climb
  <1>6. {h \in DOMAIN Path : Path[h] = tier /\ h + (k + 1) \in DOMAIN Path} = {i}
    BY <1>1, <1>2, <1>3, <1>4
  <1>7. Climb(tier, k + 1) = {v}
    BY <1>1, <1>3, <1>5, <1>6
  <1>8. k + 1 <= Len(Path)
    BY <1>0, <1>1, <1>2, <1>3
  <1> QED BY <1>7, <1>8

\* Continue gives up only where the next tier is out of reach.
LEMMA ContinueStuck ==
    ASSUME TypeOK, NEW r \in Request, NEW c \in Context, NEW tier \in Tier, NEW esc \in Nat,
           NEW skip \in Nat, Continue(r, c, tier, esc, skip), pc'[r] = "recording", EscEnabled
    PROVE  \/ ctx'[r].esc >= MaxEsc
           \/ \A v \in get_next_tier(ctx'[r].tier) : ~is_tier_allowed(c.tenant, v)
  <1>1. PICK k \in Hops(c, tier, esc) : \E u \in Climb(tier, k) :
             \/ At(r, "calling")
             \/ /\ \A j \in Hops(c, tier, esc) : j <= k
                /\ Stop(r, Goto(c, u, esc + k, NoModel, {}))
    BY ContinueShape
  <1>2. PICK u \in Climb(tier, k) :
             \/ At(r, "calling")
             \/ /\ \A j \in Hops(c, tier, esc) : j <= k
                /\ Stop(r, Goto(c, u, esc + k, NoModel, {}))
    BY <1>1
  <1>3. ~At(r, "calling")
    BY DEF At, TypeOK
  <1>4. k \in Nat /\ u \in Tier /\ esc + k \in Nat
    BY ClimbType DEF Hops
  <1> DEFINE d == Goto(c, u, esc + k, NoModel, {})
  <1>5. d.tier = u /\ d.esc = esc + k
    BY <1>4 DEF Goto, Context
  <1>6. Stop(r, d)
    BY <1>2, <1>3
  <1> HIDE DEF d
  <1>7. ctx'[r] = d
    BY <1>6 DEF Stop, Close, At, TypeOK
  <1>8. SUFFICES ASSUME esc + k < MaxEsc, NEW v \in get_next_tier(u), is_tier_allowed(c.tenant, v)
                 PROVE  FALSE
    BY <1>4, <1>5, <1>7, EscAssumption
  <1>9. Climb(tier, k + 1) = {v} /\ k + 1 <= Len(Path)
    BY <1>4, ClimbOn
  <1>10. k + 1 \in Hops(c, tier, esc)
    <2>1. k + 1 \in 0 .. Len(Path) /\ esc + (k + 1) <= MaxEsc
      BY <1>4, <1>8, <1>9, GatewayAssumption, EscAssumption
    <2>2. ASSUME NEW j \in 1 .. k + 1, NEW w \in Climb(tier, j) PROVE is_tier_allowed(c.tenant, w)
      <3>1. CASE j = k + 1
        BY <1>8, <1>9, <3>1
      <3>2. CASE j <= k
        BY <1>4, <3>2 DEF Hops
      <3> QED BY <1>4, <3>1, <3>2
    <2> QED BY <1>9, <2>1, <2>2 DEF Hops
  <1> QED BY <1>2, <1>3, <1>4, <1>10

\* The steps that may start a call or leave the loop, and what the others leave alone.
LEMMA QuietSteps ==
    ASSUME TypeOK, [Next]_vars, NEW r \in Request
    PROVE  \/ Route(r) \/ CallFails(r) \/ \E resp \in Answer, tokens \in Usage : CallSucceeds(r, resp, tokens)
           \/ pc'[r] = pc[r] /\ ctx'[r] = ctx[r]
           \/ pc'[r] \notin {"calling", "recording"}
  <1>1. ASSUME NEW q \in Request, NEW t \in Tenant, NEW want \in Tier, NEW pin \in Pin,
               NEW th \in Threshold, Arrive(q, t, want, pin, th)
        PROVE  \/ pc'[r] = pc[r] /\ ctx'[r] = ctx[r]
               \/ pc'[r] \notin {"calling", "recording"}
    BY <1>1 DEF Arrive, At, TypeOK
  <1>2. ASSUME NEW q \in Request, Close(q)
        PROVE  \/ pc'[r] = pc[r] /\ ctx'[r] = ctx[r]
               \/ pc'[r] \notin {"calling", "recording"}
    BY <1>2 DEF Close, At, TypeOK
  <1>3. ASSUME NEW q \in Request, Admit(q)
        PROVE  \/ pc'[r] = pc[r] /\ ctx'[r] = ctx[r]
               \/ pc'[r] \notin {"calling", "recording"}
    <2>1. CASE Close(q)
      BY <1>2, <2>1
    <2>2. CASE UNCHANGED ctx /\ \E p \in {"queuing", "counting"} : At(q, p)
      BY <2>2 DEF At, TypeOK
    <2> QED BY <1>3, <2>1, <2>2 DEF Admit
  <1>4. ASSUME NEW q \in Request, Turn(q), q # r
        PROVE  pc'[r] = pc[r] /\ ctx'[r] = ctx[r]
    BY <1>4 DEF Turn, At, TypeOK
  <1>5. ASSUME NEW q \in Request, Handle(q) \/ StoreFails(q)
        PROVE  \/ Route(r) \/ CallFails(r) \/ \E resp \in Answer, tokens \in Usage : CallSucceeds(r, resp, tokens)
               \/ pc'[r] = pc[r] /\ ctx'[r] = ctx[r]
               \/ pc'[r] \notin {"calling", "recording"}
    <2>1. CASE Admit(q)
      BY <1>3, <2>1
    <2>2. CASE Enqueue(q) \/ Record(q) \/ StoreFails(q)
      BY <1>2, <2>2 DEF Enqueue, Record, StoreFails
    <2>3. CASE Route(q) \/ CallFails(q) \/ \E resp \in Answer, tokens \in Usage : CallSucceeds(q, resp, tokens)
      BY <1>4, <2>3, RouteTurn, CallFailsTurn, CallSucceedsTurn
    <2> QED BY <1>5, <2>1, <2>2, <2>3 DEF Handle
  <1>6. CASE Midnight \/ (\E m \in Model : Rotate(m)) \/ UNCHANGED vars
    BY <1>6 DEF Midnight, Rotate, vars
  <1>7. CASE Restart
    BY <1>7 DEF Restart
  <1> QED BY <1>1, <1>5, <1>6, <1>7 DEF Next

\* The body of CallsAllowedTiers, for one handler.
StartsAllowed(r) ==
    (pc'[r] = "calling" /\ (pc[r] # "calling" \/ ctx'[r] # ctx[r]))
    => LET t == ctx[r].tenant
       IN  \/ is_tier_allowed(t, ctx'[r].tier)
           \/ pc[r] = "calling" /\ ctx'[r].tier = ctx[r].tier /\ ctx'[r].model \in ctx[r].todo
           \/ pc[r] = "counting" /\ should_reject_llm(level[t])

LEMMA StartsAllowedStep ==
    ASSUME TypeOK, [Next]_vars, NEW r \in Request
    PROVE  StartsAllowed(r)
  <1> DEFINE c == ctx[r]
  <1>0. c \in Context /\ c.tier \in Tier /\ c.esc \in Nat /\ c.tenant \in Tenant /\ c.want \in Tier
    BY DEF TypeOK, Context
  <1>1. CASE Route(r)
    <2> DEFINE tier == cap_tier(level[c.tenant], c.want)
               pin  == IF tier # c.want THEN NoModel ELSE c.pin
    <2>1. level[c.tenant] \in Level /\ c.pin \in Model \cup {NoModel}
      BY <1>0 DEF TypeOK, Context
    <2>2. tier \in Tier /\ (tier \in tiers_for_level(level[c.tenant]) \/ should_reject_llm(level[c.tenant]))
      BY <1>0, <2>1, CapType, CapAllowed
    <2>3. PICK canary \in BOOLEAN :
              Continue(r, [c EXCEPT !.canary = canary, !.pin = pin], tier, 0, 0)
      BY <1>1 DEF Route
    <2> DEFINE d == [c EXCEPT !.canary = canary, !.pin = pin]
    <2>4. pin \in Model \cup {NoModel}
      BY <2>1
    <2> HIDE DEF tier, pin
    <2>5. d \in Context /\ d.tenant = c.tenant
      BY <1>0, <2>4 DEF Context
    <2>6. Continue(r, d, tier, 0, 0)
      BY <2>3
    <2> HIDE DEF d
    <2>7. pc'[r] = "calling" => is_tier_allowed(d.tenant, ctx'[r].tier) \/ ctx'[r].tier = tier
      BY <2>2, <2>5, <2>6, ContinueAllowed
    <2>8. pc[r] = "counting"
      BY <1>1 DEF Route
    <2> QED BY <2>2, <2>5, <2>7, <2>8 DEF StartsAllowed, is_tier_allowed
  <1>2. ASSUME NEW resp \in Answer, NEW tokens \in Usage, CallSucceeds(r, resp, tokens) PROVE StartsAllowed(r)
    <2> DEFINE d == Taken(c, resp, tokens)
    <2>1. resp \in Response /\ pc[r] = "calling"
      BY <1>2, GatewayAssumption DEF CallSucceeds
    <2>2. c.model \in Model
      BY <2>1 DEF TypeOK
    <2>3. d \in Context /\ d.tenant = c.tenant
      BY <1>0, <2>1, <2>2, TakenFields
    <2>4. CASE Stop(r, d)
      <3>1. pc'[r] # "calling"
        BY <2>4 DEF Stop, Close, At, TypeOK
      <3> QED BY <3>1 DEF StartsAllowed
    <2>5. CASE \E t \in NextTiers(c) : Continue(r, d, t, c.esc + 1, 0)
      <3>1. PICK t \in NextTiers(c) : Continue(r, d, t, c.esc + 1, 0)
        BY <2>5
      <3>2. t \in Tier /\ c.esc + 1 \in Nat /\ is_tier_allowed(c.tenant, t)
        BY <1>0, ClimbType DEF NextTiers, get_next_tier
      <3> HIDE DEF d
      <3>3. pc'[r] = "calling" => is_tier_allowed(d.tenant, ctx'[r].tier) \/ ctx'[r].tier = t
        BY <2>3, <3>1, <3>2, ContinueAllowed
      <3> QED BY <2>3, <3>2, <3>3 DEF StartsAllowed
    <2> QED BY <1>2, <2>4, <2>5 DEF CallSucceeds
  <1>3. CASE CallFails(r)
    <2>1. CASE Continue(r, c, c.tier, c.esc, 1)
      <3>1. pc'[r] = "calling" => is_tier_allowed(c.tenant, ctx'[r].tier)
        BY <1>0, <2>1, ContinueAllowed
      <3> QED BY <3>1 DEF StartsAllowed
    <2>2. CASE UNCHANGED pc /\ \E m \in c.todo : \E todo : ctx' = [ctx EXCEPT ![r] = [c EXCEPT !.model = m, !.todo = todo]]
      <3>1. PICK m \in c.todo : \E todo : ctx' = [ctx EXCEPT ![r] = [c EXCEPT !.model = m, !.todo = todo]]
        BY <2>2
      <3>2. ctx'[r].tier = c.tier /\ ctx'[r].model = m
        BY <1>0, <3>1 DEF TypeOK, Context
      <3> QED BY <1>3, <2>2, <3>1, <3>2 DEF StartsAllowed, CallFails
    <2> QED BY <1>3, <2>1, <2>2 DEF CallFails, FirstOf
  <1>4. CASE pc'[r] = pc[r] /\ ctx'[r] = ctx[r]
    BY <1>4 DEF StartsAllowed
  <1>5. CASE pc'[r] # "calling"
    BY <1>5 DEF StartsAllowed
  <1> QED BY <1>1, <1>2, <1>3, <1>4, <1>5, QuietSteps

\* For every path, cost list and number of connections: complete() starts a call only on a tier
\* that the tenant's level allows at that moment, except the next model of a tier after one
\* failed, and the first tier of a request whose tenant fell to level 3 or 4 after admission.
THEOREM CallsAllowedTheorem == Spec => CallsAllowedTiers
  <1>1. TypeOK /\ [Next]_vars => [\A r \in Request : StartsAllowed(r)]_vars
    BY StartsAllowedStep
  <1> QED BY <1>1, TypeCorrect, PTL DEF Spec, CallsAllowedTiers, StartsAllowed

\* The body of SettlesOnlyWhenStuck, for one handler.
SettlesStuck(r) ==
    (/\ pc[r] = "calling" /\ pc'[r] = "recording" /\ EscEnabled
     /\ ctx'[r].conf < ctx[r].threshold)
    => \/ ctx'[r].esc >= MaxEsc
       \/ \A u \in get_next_tier(ctx'[r].tier) : ~is_tier_allowed(ctx[r].tenant, u)

LEMMA SettlesStuckStep ==
    ASSUME TypeOK, [Next]_vars, NEW r \in Request
    PROVE  SettlesStuck(r)
  <1> DEFINE c == ctx[r]
  <1>0. /\ c \in Context /\ c.tier \in Tier /\ c.esc \in Nat
        /\ c.threshold \in 0 .. 10 /\ c.conf \in 0 .. 10
    BY DEF TypeOK, Context
  <1>1. ASSUME NEW resp \in Answer, NEW tokens \in Usage, CallSucceeds(r, resp, tokens) PROVE SettlesStuck(r)
    <2> DEFINE d == Taken(c, resp, tokens)
               conf == decided_confidence(resp, c.esc)
               esc == should_escalate(resp, c.threshold, c.esc)
    <2>1. resp \in Response /\ pc[r] = "calling"
      BY <1>1, GatewayAssumption DEF CallSucceeds
    <2>2. c.model \in Model
      BY <2>1 DEF TypeOK
    <2>3. /\ d \in Context /\ d.tenant = c.tenant /\ d.tier = c.tier /\ d.esc = c.esc
          /\ ~esc => d.conf = conf
      BY <1>0, <2>1, <2>2, TakenFields
    <2>4. conf \in 0 .. 10 /\ (MayEscalate(c.esc) /\ ~esc => conf >= c.threshold)
      BY <1>0, <2>1, ConfidenceType, EscalatedIsPoor
    <2>5. CASE (~esc \/ NextTiers(c) = {}) /\ Stop(r, d)
      <3> HIDE DEF d, conf, esc
      <3>1. pc'[r] = "recording" => ctx'[r] = d
        BY <2>5 DEF Stop, Close, At, TypeOK
      <3>2. CASE ~esc
        BY <1>0, <2>3, <2>4, <3>1, <3>2, EscAssumption DEF SettlesStuck, MayEscalate
      <3>3. CASE NextTiers(c) = {}
        BY <1>0, <2>3, <3>1, <3>3, EscAssumption DEF SettlesStuck, NextTiers
      <3> QED BY <2>5, <3>2, <3>3
    <2>6. CASE \E t \in NextTiers(c) : Continue(r, d, t, c.esc + 1, 0)
      <3>1. PICK t \in NextTiers(c) : Continue(r, d, t, c.esc + 1, 0)
        BY <2>6
      <3>2. t \in Tier /\ c.esc + 1 \in Nat
        BY <1>0, ClimbType DEF NextTiers, get_next_tier
      <3> HIDE DEF d
      <3> QED BY <2>3, <3>1, <3>2, ContinueStuck DEF SettlesStuck
    <2> QED BY <1>1, <2>5, <2>6 DEF CallSucceeds
  <1>2. CASE CallFails(r)
    <2>1. CASE Continue(r, c, c.tier, c.esc, 1)
      BY <1>0, <2>1, ContinueStuck DEF SettlesStuck
    <2>2. CASE UNCHANGED pc
      BY <2>2 DEF SettlesStuck
    <2> QED BY <1>2, <2>1, <2>2 DEF CallFails
  <1>3. CASE pc'[r] = pc[r] \/ pc'[r] # "recording" \/ pc[r] # "calling"
    BY <1>3 DEF SettlesStuck
  <1> QED BY <1>1, <1>2, <1>3, QuietSteps DEF Route

\* For every path without a repeated tier: complete() settles for a response below
\* the caller's threshold only when its escalations are used up or the next tier of
\* the path is not there or not allowed, whether it stopped at a poor answer or
\* because every model of a tier failed.
THEOREM SettlesTheorem == Spec => SettlesOnlyWhenStuck
  <1>1. TypeOK /\ [Next]_vars => [\A r \in Request : SettlesStuck(r)]_vars
    BY SettlesStuckStep
  <1> QED BY <1>1, TypeCorrect, PTL DEF Spec, SettlesOnlyWhenStuck, SettlesStuck
=============================================================================
