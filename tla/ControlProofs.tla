--------------------------- MODULE ControlProofs ---------------------------
(***************************************************************************)
(* Proofs about what steers the gateway, both apps with all their threads  *)
(* at once, for every set of models and contents: an unhealthy model is    *)
(* out of rotation, the file is in force when nothing is left to load, and *)
(* the samples of a canary are its model's.                                *)
(*                                                                         *)
(* The argument follows what a load has in hand: the content that it read  *)
(* is the file's unless a notification waits; the configuration in which   *)
(* the resolver looks flags every model whose checks failed, unless the    *)
(* model is in renewed; a request that was served at once was served by    *)
(* its target.                                                             *)
(***************************************************************************)
EXTENDS Control, SequenceTheorems, TLAPS

FileContent == Content \cup {"empty", "broken"}
Flag == {LastTier(c, m) : c \in FileContent, m \in Model} \X Model
Configuration == [content : FileContent, down : SUBSET Flag, off : SUBSET Flag]
Stage == {"idle", "reading", "swapping", "resolver", "canary", "health"}
Load == [at : Stage, kind : {"none", "watch", "reload", "update"}, content : FileContent, config : Nat, again : BOOLEAN]
Status == [healthy : BOOLEAN, fails : Nat]
Statuses == UNION {[S -> Status] : S \in SUBSET Model}

TypeOK ==
    /\ file \in FileContent
    /\ notified \in [App -> BOOLEAN] /\ recent \in [App -> BOOLEAN]
    /\ skipped \in [App -> BOOLEAN] /\ updated \in [App -> BOOLEAN] /\ crossed \in [App -> BOOLEAN]
    /\ configs \in [App -> Seq(Configuration)]
    /\ config \in [App -> Nat] /\ resolver \in [App -> Nat] /\ checked \in [App -> Nat]
    /\ watcher \in [App -> Load] /\ api \in Load
    /\ health \in [App -> Statuses]
    /\ renewed \in [App -> SUBSET Model]

\* What is in use is a configuration of the app.
Held(a, i) == i \in DOMAIN configs[a]

InUse ==
    /\ \A a \in App : Held(a, config[a]) /\ Held(a, resolver[a]) /\ Held(a, checked[a])
    /\ \A a \in App : watcher[a].at \in {"resolver", "canary", "health"} => Held(a, watcher[a].config)
    /\ api.at \in {"resolver", "canary", "health"} => Held("admin", api.config)

\* The content that a load has read is the file's, or a change is to be noticed or was ignored.
ReadIsCurrent ==
    /\ \A a \in App : watcher[a].at = "swapping" => watcher[a].content = file \/ notified[a]
    /\ api.at = "swapping" =>
          api.content = file \/ notified["admin"] \/ skipped["admin"] \/ crossed["admin"]

\* Two loads of the admin app are under way only after they have crossed.
OneLoad == watcher["admin"].at # "idle" /\ api.at # "idle" => crossed["admin"]

\* The file is in force, or the watcher is about to bring it there.
Coming ==
    \A a \in App : ~crossed[a] /\ ~notified[a] /\ ~skipped[a] /\ file # "broken" =>
        \/ watcher[a].at = "reading"
        \/ watcher[a].at = "swapping" /\ watcher[a].content = file
        \/ updated[a]
        \/ configs[a][config[a]].content = file

FileInv == ReadIsCurrent /\ OneLoad /\ Coming

\* What the resolver's flags hide of a model.
Hidden(a, m) ==
    LET c == configs[a][resolver[a]]
    IN  m \in ModelsOf(c.content) => Entry(c.content, m) \in c.down \cup c.off

\* A model with as many failures as the threshold is unhealthy, and an unhealthy one is
\* flagged where the resolver looks, or renewed.
FlagsOf(a, m) ==
    /\ health[a][m].fails >= Threshold => ~health[a][m].healthy
    /\ ~health[a][m].healthy => Hidden(a, m) \/ m \in renewed[a]

Flags == \A a \in App : \A m \in DOMAIN health[a] : FlagsOf(a, m)

-----------------------------------------------------------------------------
(* Operators *)

LEMMA StatusesElim ==
    ASSUME NEW h \in Statuses
    PROVE  DOMAIN h \subseteq Model /\ h \in [DOMAIN h -> Status]
BY DEF Statuses

LEMMA StatusesIntro ==
    ASSUME NEW S \in SUBSET Model, NEW h \in [S -> Status]
    PROVE  h \in Statuses
BY DEF Statuses

\* The models of a content are models.
LEMMA ModelsOfType ==
    ASSUME NEW c
    PROVE  ModelsOf(c) \subseteq Model
BY DEF ModelsOf, Entries

\* The entry that the health manager holds is one that can be flagged.
LEMMA EntryType ==
    ASSUME NEW c \in FileContent, NEW m \in Model
    PROVE  Entry(c, m) \in Flag
BY DEF Entry, Flag

LEMMA FreshType ==
    ASSUME NEW c \in FileContent
    PROVE  Fresh(c) \in Configuration /\ Fresh(c).content = c
BY DEF Fresh, Configuration

\* Known models keep their state, the others start healthy.
LEMMA TrackType ==
    ASSUME NEW old \in Statuses, NEW c
    PROVE  /\ Track(old, c) \in Statuses /\ DOMAIN Track(old, c) = ModelsOf(c)
           /\ \A m \in DOMAIN Track(old, c) :
                 Track(old, c)[m] = IF m \in DOMAIN old THEN old[m] ELSE [healthy |-> TRUE, fails |-> 0]
<1>1. Track(old, c) \in [ModelsOf(c) -> Status]
    <2>1. [healthy |-> TRUE, fails |-> 0] \in Status
        BY DEF Status
    <2>2. \A m \in DOMAIN old : old[m] \in Status
        BY StatusesElim
    <2>. QED  BY <2>1, <2>2 DEF Track
<1>2. Track(old, c) \in Statuses
    BY <1>1, ModelsOfType, StatusesIntro
<1>. QED  BY <1>1, <1>2 DEF Track

\* The state of a model after a check.
LEMMA CheckedType ==
    ASSUME NEW s \in Status
    PROVE  Passed(s) \in Status /\ Failed(s) \in Status
BY ControlAssumption DEF ControlAssumption, Passed, Failed, Status

LEMMA FlaggedType ==
    ASSUME NEW d \in SUBSET Flag, NEW e \in Flag, NEW before, NEW after
    PROVE  Flagged(d, e, before, after) \in SUBSET Flag
BY DEF Flagged

LEMMA NoLoadType == NoLoad \in Load /\ NoLoad.at = "idle"
BY ControlAssumption DEF ControlAssumption, NoLoad, Load, Stage, FileContent
-----------------------------------------------------------------------------
(* Types, and which configurations are in use *)

Base == TypeOK /\ InUse

LEMMA InitBase == Init => Base
<1> SUFFICES ASSUME Init PROVE Base
    OBVIOUS
<1>1. First \in FileContent
    BY ControlAssumption DEF ControlAssumption, FileContent
<1>2. Fresh(First) \in Configuration
    BY <1>1, FreshType
<1>3. configs \in [App -> Seq(Configuration)] /\ \A a \in App : DOMAIN configs[a] = {1}
    BY <1>2 DEF Init
<1>4. <<>> \in Statuses
    <2>1. <<>> \in [{} -> Status]
        OBVIOUS
    <2>. QED  BY <2>1, StatusesIntro
<1>5. Track(<<>>, First) \in Statuses
    BY <1>4, TrackType
<1>6. TypeOK
    BY <1>1, <1>3, <1>5, NoLoadType DEF Init, TypeOK
<1>7. InUse
    BY <1>3, NoLoadType DEF Init, InUse, Held
<1>. QED  BY <1>6, <1>7 DEF Base

\* What a step may do to configurations without touching the rest of Base: none disappears.
Kept ==
    /\ configs' \in [App -> Seq(Configuration)]
    /\ \A b \in App : DOMAIN configs[b] \subseteq DOMAIN configs'[b]

LEMMA KeptSame ==
    ASSUME TypeOK, UNCHANGED configs
    PROVE  Kept
BY DEF Kept, TypeOK

\* The steps that leave loads and the numbers in use alone.
LEMMA BaseKept ==
    ASSUME Base, Kept, UNCHANGED <<config, resolver, checked, watcher, api>>
    PROVE  InUse'
<1>1. \A b \in App : \A i : Held(b, i) => Held(b, i)'
    BY DEF Kept, Held
<1>2. "admin" \in App
    BY DEF App
<1>. QED  BY <1>1, <1>2 DEF Base, InUse

\* A loader goes on: its new state is in hand, the others stay.
LEMMA LoaderTurn ==
    ASSUME TypeOK, NEW a \in App, NEW p \in {"watcher", "api"}, p = "api" => a = "admin",
           NEW l \in Load, Loader(a, p, l)
    PROVE  /\ watcher' \in [App -> Load] /\ api' \in Load
           /\ p = "watcher" => api' = api /\ watcher'[a] = l /\ \A b \in App \ {a} : watcher'[b] = watcher[b]
           /\ p = "api" => watcher' = watcher /\ api' = l
BY DEF TypeOK, Loader

LEMMA LoaderType ==
    ASSUME TypeOK, NEW a \in App, NEW p \in {"watcher", "api"}
    PROVE  LoaderOf(a, p) \in Load
BY DEF TypeOK, LoaderOf

\* After a load's step the configurations in use exist, if the loader's does.
LEMMA InUseTurn ==
    ASSUME Base, Kept, NEW a \in App, NEW p \in {"watcher", "api"}, p = "api" => a = "admin",
           NEW l \in Load, Loader(a, p, l),
           l.at \in {"resolver", "canary", "health"} => l.config \in DOMAIN configs'[a],
           \A b \in App : /\ config'[b] \in DOMAIN configs'[b] /\ resolver'[b] \in DOMAIN configs'[b]
                          /\ checked'[b] \in DOMAIN configs'[b]
    PROVE  InUse'
<1>1. /\ p = "watcher" => api' = api /\ watcher'[a] = l /\ \A b \in App \ {a} : watcher'[b] = watcher[b]
      /\ p = "api" => watcher' = watcher /\ api' = l
    BY LoaderTurn DEF Base
<1>2. \A b \in App : watcher'[b].at \in {"resolver", "canary", "health"} => watcher'[b].config \in DOMAIN configs'[b]
    BY <1>1 DEF Base, Kept, InUse, Held
<1>3. api'.at \in {"resolver", "canary", "health"} => api'.config \in DOMAIN configs'["admin"]
    BY <1>1 DEF Base, Kept, InUse, Held, App
<1>. QED  BY <1>2, <1>3 DEF InUse, Held

LEMMA WorldBase ==
    ASSUME Base, NEW c \in FileContent, WriteFile(c)
    PROVE  Base'
<1>1. TypeOK'
    BY DEF Base, TypeOK, WriteFile, healthVars
<1>2. Kept
    BY KeptSame DEF Base, WriteFile
<1>3. InUse'
    BY <1>2, BaseKept DEF WriteFile, healthVars
<1>. QED  BY <1>1, <1>3 DEF Base

LEMMA SecondBase ==
    ASSUME Base, NEW a \in App, SecondPasses(a)
    PROVE  Base'
<1>1. TypeOK'
    BY DEF Base, TypeOK, SecondPasses, healthVars
<1>2. Kept
    BY KeptSame DEF Base, SecondPasses
<1>3. InUse'
    BY <1>2, BaseKept DEF SecondPasses, healthVars
<1>. QED  BY <1>1, <1>3 DEF Base

\* The first stage of a load.
LEMMA ReadingType ==
    ASSUME NEW kind \in {"watch", "reload", "update"}
    PROVE  LET l == [NoLoad EXCEPT !.at = "reading", !.kind = kind]
           IN  l \in Load /\ l.at = "reading" /\ l.kind = kind
BY ControlAssumption DEF ControlAssumption, NoLoad, Load, Stage, FileContent

LEMMA NoticeBase ==
    ASSUME Base, NEW a \in App, on_file_changed(a)
    PROVE  Base'
<1> DEFINE l == [NoLoad EXCEPT !.at = "reading", !.kind = "watch"]
<1>0. l \in Load /\ l.at = "reading"
    BY ReadingType
<1>1. watcher' = watcher \/ watcher' = [watcher EXCEPT ![a] = l]
    BY DEF on_file_changed
<1>. HIDE DEF l
<1>2. watcher' \in [App -> Load] /\ \A b \in App : watcher'[b] = watcher[b] \/ watcher'[b].at = "reading"
    BY <1>0, <1>1 DEF Base, TypeOK
<1>3. notified' \in [App -> BOOLEAN] /\ skipped' \in [App -> BOOLEAN] /\ crossed' \in [App -> BOOLEAN]
    BY DEF Base, TypeOK, on_file_changed
<1>4. UNCHANGED <<file, events, recent, configs, config, api, updated, resolver, healthVars, exp, req>>
    BY DEF on_file_changed
<1>5. TypeOK'
    BY <1>2, <1>3, <1>4 DEF Base, TypeOK, healthVars
<1>6. InUse'
    BY <1>2, <1>4 DEF Base, InUse, Held, healthVars
<1>. QED  BY <1>5, <1>6 DEF Base

LEMMA StartBase ==
    ASSUME Base, NEW kind \in {"reload", "update"}, StartLoad(kind)
    PROVE  Base'
<1> DEFINE l == [NoLoad EXCEPT !.at = "reading", !.kind = kind]
<1>0. l \in Load /\ l.at = "reading"
    BY ReadingType
<1>1. api' = l
    BY DEF StartLoad
<1>. HIDE DEF l
<1>2. crossed' \in [App -> BOOLEAN]
    BY DEF Base, TypeOK, StartLoad
<1>3. UNCHANGED <<file, notified, recent, configs, config, watcher, skipped, updated, resolver, healthVars, exp, req>>
    BY DEF StartLoad
<1>4. TypeOK'
    BY <1>0, <1>1, <1>2, <1>3 DEF Base, TypeOK, healthVars
<1>5. InUse'
    BY <1>0, <1>1, <1>3 DEF Base, InUse, Held, healthVars
<1>. QED  BY <1>4, <1>5 DEF Base

\* Read leaves everything but the loader, which goes on with the file or with what is in force.
ReadTurn(a, p, l) ==
    /\ l \in Load /\ Loader(a, p, l)
    /\ \/ l.at = "swapping" /\ l.content = file
       \/ l.at = "idle" /\ file = "broken"
       \/ l.at = "resolver" /\ file = "broken" /\ l.config = config[a]

LEMMA ReadIsTurn ==
    ASSUME Base, NEW a \in App, NEW p \in {"watcher", "api"}, Read(a, p)
    PROVE  \E l : ReadTurn(a, p, l)
<1> DEFINE o == LoaderOf(a, p)
<1>1. o \in Load
    BY LoaderType DEF Base
<1>2. CASE file # "broken" /\ Loader(a, p, [o EXCEPT !.at = "swapping", !.content = file])
    <2> DEFINE n == [o EXCEPT !.at = "swapping", !.content = file]
    <2>. HIDE DEF o
    <2>1. n \in Load
        BY <1>1 DEF Base, TypeOK, Load, Stage
    <2>2. n.at = "swapping" /\ n.content = file
        BY <1>1 DEF Load
    <2>3. Loader(a, p, n)
        BY <1>2
    <2>. HIDE DEF n
    <2>4. ReadTurn(a, p, n)
        BY <1>2, <2>1, <2>2, <2>3 DEF ReadTurn
    <2>. QED  BY <2>4
<1>3. CASE file = "broken" /\ Loader(a, p, NoLoad)
    BY <1>3, NoLoadType DEF ReadTurn
<1>4. CASE file = "broken" /\ Loader(a, p, [o EXCEPT !.at = "resolver", !.config = config[a], !.again = TRUE])
    <2> DEFINE n == [o EXCEPT !.at = "resolver", !.config = config[a], !.again = TRUE]
    <2>. HIDE DEF o
    <2>1. n \in Load
        BY <1>1 DEF Base, TypeOK, Load, Stage
    <2>2. n.at = "resolver" /\ n.config = config[a]
        BY <1>1 DEF Load
    <2>3. Loader(a, p, n)
        BY <1>4
    <2>. HIDE DEF n
    <2>4. ReadTurn(a, p, n)
        BY <1>4, <2>1, <2>2, <2>3 DEF ReadTurn
    <2>. QED  BY <2>4
<1>. QED  BY <1>2, <1>3, <1>4 DEF Read

LEMMA ReadBase ==
    ASSUME Base, NEW a \in App, NEW p \in {"watcher", "api"}, p = "api" => a = "admin", Read(a, p)
    PROVE  Base'
<1>1. PICK l : ReadTurn(a, p, l)
    BY ReadIsTurn
<1>2. UNCHANGED <<file, events, notified, recent, configs, config, skipped, updated, crossed, resolver, healthVars, exp, req>>
    BY DEF Read
<1>3. watcher' \in [App -> Load] /\ api' \in Load
    BY <1>1, LoaderTurn DEF Base, ReadTurn
<1>4. TypeOK'
    BY <1>2, <1>3 DEF Base, TypeOK, healthVars
<1>5. Kept
    BY <1>2, KeptSame DEF Base
<1>6. \A b \in App : /\ config'[b] \in DOMAIN configs'[b] /\ resolver'[b] \in DOMAIN configs'[b]
                     /\ checked'[b] \in DOMAIN configs'[b]
    BY <1>2 DEF Base, InUse, Held, healthVars
<1>7. l.at \in {"resolver", "canary", "health"} => l.config \in DOMAIN configs'[a]
    BY <1>1, <1>2 DEF ReadTurn, Base, InUse, Held
<1>8. InUse'
    BY <1>1, <1>5, <1>6, <1>7, InUseTurn DEF ReadTurn
<1>. QED  BY <1>4, <1>8 DEF Base

\* A load puts its configuration in force.
LEMMA SwapConfigs ==
    ASSUME Base, NEW a \in App, NEW p \in {"watcher", "api"}, Swap(a, p)
    PROVE  /\ Kept
           /\ \A b \in App : \A i \in DOMAIN configs[b] : configs'[b][i] = configs[b][i]
           /\ config'[a] \in DOMAIN configs'[a] /\ config' \in [App -> Nat]
           /\ configs'[a][config'[a]].content = LoaderOf(a, p).content
           /\ \A b \in App \ {a} : config'[b] = config[b]
<1> DEFINE c == Fresh(LoaderOf(a, p).content)
<1>1. LoaderOf(a, p).content \in FileContent
    BY LoaderType DEF Base, Load
<1>2. c \in Configuration /\ c.content = LoaderOf(a, p).content
    BY <1>1, FreshType
<1>3. configs' = [configs EXCEPT ![a] = Append(@, c)] /\ config' = [config EXCEPT ![a] = Len(configs[a]) + 1]
    BY DEF Swap
<1>. HIDE DEF c
<1>4. configs \in [App -> Seq(Configuration)] /\ config \in [App -> Nat]
    BY DEF Base, TypeOK
<1>5. configs'[a] = Append(configs[a], c) /\ configs[a] \in Seq(Configuration)
    BY <1>3, <1>4
<1>6. /\ configs'[a] \in Seq(Configuration) /\ DOMAIN configs[a] \subseteq DOMAIN configs'[a]
      /\ Len(configs[a]) + 1 \in DOMAIN configs'[a] /\ Len(configs[a]) + 1 \in Nat
      /\ configs'[a][Len(configs[a]) + 1] = c
      /\ \A i \in DOMAIN configs[a] : configs'[a][i] = configs[a][i]
    BY <1>2, <1>5
<1>7. \A b \in App \ {a} : configs'[b] = configs[b]
    BY <1>3, <1>4
<1>8. Kept
    BY <1>3, <1>4, <1>6, <1>7 DEF Kept
<1>9. config'[a] = Len(configs[a]) + 1 /\ \A b \in App \ {a} : config'[b] = config[b]
    BY <1>3, <1>4
<1>10. config' \in [App -> Nat]
    BY <1>3, <1>4, <1>6
<1>. QED  BY <1>2, <1>6, <1>7, <1>8, <1>9, <1>10

LEMMA SwapBase ==
    ASSUME Base, NEW a \in App, NEW p \in {"watcher", "api"}, p = "api" => a = "admin", Swap(a, p)
    PROVE  Base'
<1> DEFINE o == LoaderOf(a, p)
           k == Len(configs[a]) + 1
           n == [o EXCEPT !.at = "resolver", !.config = k]
<1>1. o \in Load
    BY LoaderType DEF Base
<1>2. k \in Nat /\ k \in DOMAIN configs'[a]
    <2>1. config'[a] = k
        BY DEF Swap, Base, TypeOK
    <2>. QED  BY <2>1, SwapConfigs DEF Base, TypeOK
<1>3. n \in Load /\ n.at = "resolver" /\ n.config = k
    <2>. HIDE DEF o, k
    <2>. QED  BY <1>1, <1>2 DEF Load, Stage
<1>4. Loader(a, p, n)
    BY DEF Swap
<1>5. /\ recent' \in [App -> BOOLEAN] /\ skipped' \in [App -> BOOLEAN] /\ updated' \in [App -> BOOLEAN]
      /\ UNCHANGED <<file, events, notified, crossed, resolver, healthVars, exp, req>>
    BY DEF Base, TypeOK, Swap
<1>6. /\ Kept /\ config' \in [App -> Nat]
      /\ \A b \in App : config'[b] \in DOMAIN configs'[b]
    BY SwapConfigs DEF Kept, Base, InUse, Held
<1>. HIDE DEF n, k, o
<1>7. watcher' \in [App -> Load] /\ api' \in Load
    BY <1>3, <1>4, LoaderTurn DEF Base
<1>8. TypeOK'
    BY <1>5, <1>6, <1>7 DEF Base, TypeOK, healthVars, Kept
<1>9. \A b \in App : resolver'[b] \in DOMAIN configs'[b] /\ checked'[b] \in DOMAIN configs'[b]
    BY <1>5, <1>6 DEF Base, InUse, Held, Kept, healthVars
<1>10. InUse'
    BY <1>2, <1>3, <1>4, <1>6, <1>9, InUseTurn
<1>. QED  BY <1>8, <1>10 DEF Base

\* The next stages of a load, as far as Base goes.
LEMMA ResolverBase ==
    ASSUME Base, NEW a \in App, NEW p \in {"watcher", "api"}, p = "api" => a = "admin", UpdateResolver(a, p)
    PROVE  Base'
<1> DEFINE o == LoaderOf(a, p)
           n == IF o.kind = "update" /\ o.again THEN NoLoad ELSE [o EXCEPT !.at = "canary"]
<1>1. o \in Load /\ o.at = "resolver" /\ Loader(a, p, n)
    BY LoaderType DEF Base, UpdateResolver
<1>2. o.config \in DOMAIN configs[a]
    BY <1>1 DEF LoaderOf, Base, InUse, Held
<1>3. n \in Load /\ (n.at = "idle" \/ n.config = o.config)
    <2>. HIDE DEF o
    <2>. QED  BY <1>1, NoLoadType DEF Load, Stage
<1>4. resolver' = [resolver EXCEPT ![a] = o.config] /\ o.config \in Nat
    BY <1>1 DEF UpdateResolver, Load
<1>5. Missed(a, o.config) \subseteq Model
    BY StatusesElim DEF Base, TypeOK, Missed
<1>6. renewed' \in [App -> SUBSET Model]
    BY <1>5 DEF Base, TypeOK, UpdateResolver
<1>7. UNCHANGED <<file, events, notified, recent, configs, config, skipped, updated, crossed, checked, health, exp, req>>
    BY DEF UpdateResolver
<1>. HIDE DEF o, n
<1>8. watcher' \in [App -> Load] /\ api' \in Load
    BY <1>1, <1>3, LoaderTurn DEF Base
<1>9. TypeOK'
    BY <1>4, <1>6, <1>7, <1>8 DEF Base, TypeOK
<1>10. Kept
    BY <1>7, KeptSame DEF Base
<1>11. \A b \in App : /\ config'[b] \in DOMAIN configs'[b] /\ resolver'[b] \in DOMAIN configs'[b]
                      /\ checked'[b] \in DOMAIN configs'[b]
    BY <1>2, <1>4, <1>7 DEF Base, TypeOK, InUse, Held
<1>12. n.at \in {"resolver", "canary", "health"} => n.config \in DOMAIN configs'[a]
    BY <1>2, <1>3, <1>7
<1>13. InUse'
    BY <1>1, <1>3, <1>10, <1>11, <1>12, InUseTurn
<1>. QED  BY <1>9, <1>13 DEF Base

LEMMA CanaryBase ==
    ASSUME Base, NEW a \in App, NEW p \in {"watcher", "api"}, p = "api" => a = "admin", UpdateCanary(a, p)
    PROVE  Base'
<1> DEFINE o == LoaderOf(a, p)
           n == [o EXCEPT !.at = "health"]
<1>1. o \in Load /\ o.at = "canary" /\ Loader(a, p, n)
    BY LoaderType DEF Base, UpdateCanary
<1>2. o.config \in DOMAIN configs[a]
    BY <1>1 DEF LoaderOf, Base, InUse, Held
<1>3. n \in Load /\ n.config = o.config
    <2>. HIDE DEF o
    <2>. QED  BY <1>1 DEF Load, Stage
<1>7. UNCHANGED <<file, events, notified, recent, configs, config, skipped, updated, crossed, resolver, healthVars, req>>
    BY DEF UpdateCanary
<1>. HIDE DEF o, n
<1>8. watcher' \in [App -> Load] /\ api' \in Load
    BY <1>1, <1>3, LoaderTurn DEF Base
<1>9. TypeOK'
    BY <1>7, <1>8 DEF Base, TypeOK, healthVars
<1>10. Kept
    BY <1>7, KeptSame DEF Base
<1>11. \A b \in App : /\ config'[b] \in DOMAIN configs'[b] /\ resolver'[b] \in DOMAIN configs'[b]
                      /\ checked'[b] \in DOMAIN configs'[b]
    BY <1>7 DEF Base, InUse, Held, healthVars
<1>12. n.at \in {"resolver", "canary", "health"} => n.config \in DOMAIN configs'[a]
    BY <1>2, <1>3, <1>7
<1>13. InUse'
    BY <1>1, <1>3, <1>10, <1>11, <1>12, InUseTurn
<1>. QED  BY <1>9, <1>13 DEF Base

\* What is forgotten is in nobody's hands.
LEMMA ForgetConfigs ==
    ASSUME TypeOK, NEW a \in App, NEW held, Forget(a, held)
    PROVE  /\ Kept
           /\ \A b \in App \ {a} : configs'[b] = configs[b]
           /\ \A i \in DOMAIN configs[a] : i \in held \cup {config[a]} => configs'[a][i] = configs[a][i]
<1> DEFINE H == held \cup {config[a], req.config, watcher[a].config, api.config}
           s == [i \in DOMAIN configs[a] |-> IF i \in H THEN configs[a][i] ELSE Fresh("empty")]
<1>1. configs \in [App -> Seq(Configuration)] /\ configs[a] \in Seq(Configuration)
    BY DEF TypeOK
<1>2. configs' = [configs EXCEPT ![a] = s]
    BY DEF Forget
<1>3. Fresh("empty") \in Configuration
    BY FreshType DEF FileContent
<1>4. s \in Seq(Configuration) /\ DOMAIN s = DOMAIN configs[a]
    <2>1. \A i \in DOMAIN configs[a] : configs[a][i] \in Configuration
        BY <1>1
    <2>2. DOMAIN configs[a] = 1 .. Len(configs[a]) /\ Len(configs[a]) \in Nat
        BY <1>1
    <2>. HIDE DEF H
    <2>3. s \in [1 .. Len(configs[a]) -> Configuration]
        BY <1>3, <2>1, <2>2
    <2>. QED  BY <2>2, <2>3
<1>5. \A i \in DOMAIN configs[a] : i \in held \cup {config[a]} => s[i] = configs[a][i]
    OBVIOUS
<1>. HIDE DEF s
<1>6. configs'[a] = s /\ \A b \in App \ {a} : configs'[b] = configs[b]
    BY <1>1, <1>2
<1>7. Kept
    BY <1>1, <1>2, <1>4, <1>6 DEF Kept
<1>. QED  BY <1>5, <1>6, <1>7

\* The health manager takes over the new objects: what the resolver and the loader hold stays.
LEMMA HealthTurn ==
    ASSUME Base, NEW a \in App, NEW p \in {"watcher", "api"}, UpdateHealth(a, p)
    PROVE  /\ Kept
           /\ \A b \in App : configs'[b][resolver[b]] = configs[b][resolver[b]]
           /\ \A b \in App : configs'[b][config[b]] = configs[b][config[b]]
           /\ checked' = [checked EXCEPT ![a] = LoaderOf(a, p).config]
<1>1. checked' = [checked EXCEPT ![a] = LoaderOf(a, p).config] /\ Forget(a, {resolver[a], checked'[a]})
    BY DEF UpdateHealth
<1>2. /\ Kept
      /\ \A b \in App \ {a} : configs'[b] = configs[b]
      /\ \A i \in DOMAIN configs[a] : i \in {resolver[a], checked'[a]} \cup {config[a]} => configs'[a][i] = configs[a][i]
    BY <1>1, ForgetConfigs DEF Base
<1>. QED  BY <1>1, <1>2 DEF Base, InUse, Held

LEMMA HealthBase ==
    ASSUME Base, NEW a \in App, NEW p \in {"watcher", "api"}, p = "api" => a = "admin", UpdateHealth(a, p)
    PROVE  Base'
<1> DEFINE o == LoaderOf(a, p)
           n == IF o.kind = "watch" \/ o.again THEN NoLoad ELSE [o EXCEPT !.at = "resolver", !.again = TRUE]
<1>1. o \in Load /\ o.at = "health" /\ Loader(a, p, n)
    BY LoaderType DEF Base, UpdateHealth
<1>2. o.config \in DOMAIN configs[a]
    BY <1>1 DEF LoaderOf, Base, InUse, Held
<1>3. n \in Load /\ (n.at = "idle" \/ n.config = o.config)
    <2>. HIDE DEF o
    <2>. QED  BY <1>1, NoLoadType DEF Load, Stage
<1>4. Kept /\ checked' = [checked EXCEPT ![a] = o.config] /\ o.config \in Nat
    BY <1>1, HealthTurn DEF Load
<1>5. health' \in [App -> Statuses]
    <2> DEFINE c == configs[a][o.config].content
    <2>1. health' = [health EXCEPT ![a] = Track(health[a], c)]
        BY DEF UpdateHealth, Base, TypeOK
    <2>2. health \in [App -> Statuses] /\ health[a] \in Statuses
        BY DEF Base, TypeOK
    <2>. HIDE DEF c
    <2>3. Track(health[a], c) \in Statuses
        BY <2>2, TrackType
    <2>. QED  BY <2>1, <2>2, <2>3
<1>6. renewed' \in [App -> SUBSET Model]
    <2>1. DOMAIN health'[a] \subseteq Model
        BY <1>5, StatusesElim
    <2>2. renewed' = [renewed EXCEPT ![a] = renewed[a] \cap DOMAIN health'[a]]
        BY DEF UpdateHealth, Base, TypeOK
    <2>. QED  BY <2>1, <2>2 DEF Base, TypeOK
<1>7. UNCHANGED <<file, events, notified, recent, config, skipped, updated, crossed, resolver, disabled, exp, req>>
    BY DEF UpdateHealth
<1>. HIDE DEF o, n
<1>8. watcher' \in [App -> Load] /\ api' \in Load
    BY <1>1, <1>3, LoaderTurn DEF Base
<1>9. TypeOK'
    BY <1>4, <1>5, <1>6, <1>7, <1>8 DEF Base, TypeOK, Kept
<1>11. \A b \in App : /\ config'[b] \in DOMAIN configs'[b] /\ resolver'[b] \in DOMAIN configs'[b]
                      /\ checked'[b] \in DOMAIN configs'[b]
    BY <1>2, <1>4, <1>7 DEF Base, TypeOK, InUse, Held, Kept
<1>12. n.at \in {"resolver", "canary", "health"} => n.config \in DOMAIN configs'[a]
    BY <1>2, <1>3, <1>4 DEF Kept
<1>13. InUse'
    BY <1>1, <1>3, <1>4, <1>11, <1>12, InUseTurn
<1>. QED  BY <1>9, <1>13 DEF Base

\* A flag of one object changes and nothing else in any configuration.
FlagTurn(a, d, f) ==
    /\ Kept
    /\ \A b \in App : \A i \in DOMAIN configs[b] :
          /\ configs'[b][i].content = configs[b][i].content
          /\ ~(b = a /\ i = checked[a]) => configs'[b][i] = configs[b][i]
    /\ configs'[a][checked[a]].down = d
    /\ configs'[a][checked[a]].off = f

LEMMA FlagConfigs ==
    ASSUME Base, NEW a \in App, NEW c \in Configuration, c.content = configs[a][checked[a]].content,
           configs' = [configs EXCEPT ![a] = [configs[a] EXCEPT ![checked[a]] = c]]
    PROVE  FlagTurn(a, c.down, c.off)
<1>1. configs \in [App -> Seq(Configuration)] /\ configs[a] \in Seq(Configuration) /\ checked[a] \in DOMAIN configs[a]
    BY DEF Base, TypeOK, InUse, Held
<1> DEFINE s == [configs[a] EXCEPT ![checked[a]] = c]
<1>2. s \in Seq(Configuration) /\ DOMAIN s = DOMAIN configs[a] /\ s[checked[a]] = c
      /\ \A i \in DOMAIN configs[a] : i # checked[a] => s[i] = configs[a][i]
    BY <1>1
<1>3. configs'[a] = s /\ \A b \in App \ {a} : configs'[b] = configs[b]
    BY <1>1
<1>4. configs' \in [App -> Seq(Configuration)]
    <2>1. configs' = [configs EXCEPT ![a] = s]
        OBVIOUS
    <2>. HIDE DEF s
    <2>. QED  BY <1>1, <1>2, <2>1
<1>. HIDE DEF s
<1>5. Kept
    BY <1>2, <1>3, <1>4 DEF Kept
<1>. QED  BY <1>1, <1>2, <1>3, <1>5 DEF FlagTurn

LEMMA CheckTurn ==
    ASSUME Base, NEW a \in App, NEW m \in Model, m \in DOMAIN health[a], NEW after \in Status, FinishCheck(a, m, after)
    PROVE  /\ FlagTurn(a, Flagged(configs[a][checked[a]].down, Entry(configs[a][checked[a]].content, m), health[a][m], after),
                       configs[a][checked[a]].off)
           /\ health' \in [App -> Statuses] /\ DOMAIN health'[a] = DOMAIN health[a] /\ health'[a][m] = after
           /\ \A x \in DOMAIN health[a] \ {m} : health'[a][x] = health[a][x]
           /\ \A b \in App \ {a} : health'[b] = health[b]
<1> DEFINE o == configs[a][checked[a]]
           d == Flagged(o.down, Entry(o.content, m), health[a][m], after)
           c == [o EXCEPT !.down = d]
<1>1. configs' = [configs EXCEPT ![a] = [configs[a] EXCEPT ![checked[a]] = c]]
    BY DEF FinishCheck, Base, TypeOK, InUse, Held
<1>2. o \in Configuration
    BY DEF Base, TypeOK, InUse, Held
<1>3. d \in SUBSET Flag
    <2>1. o.down \in SUBSET Flag /\ o.content \in FileContent
        BY <1>2 DEF Configuration
    <2>. HIDE DEF o
    <2>. QED  BY <2>1, FlaggedType, EntryType
<1>4. c \in Configuration /\ c.content = o.content /\ c.down = d /\ c.off = o.off
    <2>. HIDE DEF o, d
    <2>. QED  BY <1>2, <1>3 DEF Configuration
<1>5. FlagTurn(a, c.down, c.off)
    <2>. HIDE DEF c, d
    <2>. QED  BY <1>1, <1>4, FlagConfigs
<1>6. health' = [health EXCEPT ![a] = [health[a] EXCEPT ![m] = after]] /\ health[a] \in Statuses /\ health \in [App -> Statuses]
    BY DEF FinishCheck, Base, TypeOK
<1>7. DOMAIN health[a] \subseteq Model /\ health[a] \in [DOMAIN health[a] -> Status]
    BY <1>6, StatusesElim
<1>8. [health[a] EXCEPT ![m] = after] \in [DOMAIN health[a] -> Status]
    BY <1>7
<1>9. [health[a] EXCEPT ![m] = after] \in Statuses
    BY <1>7, <1>8, StatusesIntro
<1>10. health' \in [App -> Statuses] /\ \A b \in App \ {a} : health'[b] = health[b]
    BY <1>6, <1>9
<1>11. health'[a] = [health[a] EXCEPT ![m] = after]
    BY <1>6
<1>12. DOMAIN health'[a] = DOMAIN health[a] /\ health'[a][m] = after
       /\ \A x \in DOMAIN health[a] \ {m} : health'[a][x] = health[a][x]
    BY <1>7, <1>11
<1>13. FlagTurn(a, d, o.off)
    <2>. HIDE DEF c
    <2>. QED  BY <1>4, <1>5
<1>. QED  BY <1>10, <1>12, <1>13

LEMMA CheckBase ==
    ASSUME Base, NEW a \in App, NEW m \in Model, m \in DOMAIN health[a], NEW after \in Status, FinishCheck(a, m, after)
    PROVE  Base'
<1>1. Kept /\ health' \in [App -> Statuses]
    BY CheckTurn DEF FlagTurn
<1>2. renewed' \in [App -> SUBSET Model]
    BY DEF FinishCheck, Missing, Base, TypeOK
<1>3. UNCHANGED <<file, events, notified, recent, config, watcher, api, skipped, updated, crossed,
                  resolver, checked, disabled, exp, req>>
    BY DEF FinishCheck
<1>4. TypeOK'
    BY <1>1, <1>2, <1>3 DEF Base, TypeOK, Kept
<1>5. InUse'
    BY <1>1, <1>3, BaseKept
<1>. QED  BY <1>4, <1>5 DEF Base

LEMMA DisableTurn ==
    ASSUME Base, NEW m \in Model, disable_model(m)
    PROVE  /\ FlagTurn("admin", configs["admin"][checked["admin"]].down, 
                       configs["admin"][checked["admin"]].off \cup {Entry(configs["admin"][checked["admin"]].content, m)})
           /\ health' \in [App -> Statuses] /\ DOMAIN health'["admin"] = DOMAIN health["admin"]
           /\ health'["admin"][m].healthy = FALSE /\ health'["admin"][m].fails = health["admin"][m].fails
           /\ \A x \in DOMAIN health["admin"] \ {m} : health'["admin"][x] = health["admin"][x]
           /\ health'["agent"] = health["agent"]
<1> DEFINE o == configs["admin"][checked["admin"]]
           f == o.off \cup {Entry(o.content, m)}
           c == [o EXCEPT !.off = f]
           h == health["admin"]
           u == [h[m] EXCEPT !.healthy = FALSE]
<1>0. "admin" \in App /\ App \ {"admin"} = {"agent"}
    BY DEF App
<1>1. configs' = [configs EXCEPT !["admin"] = [configs["admin"] EXCEPT ![checked["admin"]] = c]]
    BY <1>0 DEF disable_model, Base, TypeOK, InUse, Held
<1>2. o \in Configuration
    BY <1>0 DEF Base, TypeOK, InUse, Held
<1>3. f \in SUBSET Flag
    <2>1. o.off \in SUBSET Flag /\ o.content \in FileContent
        BY <1>2 DEF Configuration
    <2>. HIDE DEF o
    <2>. QED  BY <2>1, EntryType
<1>4. c \in Configuration /\ c.content = o.content /\ c.down = o.down /\ c.off = f
    <2>. HIDE DEF o, f
    <2>. QED  BY <1>2, <1>3 DEF Configuration
<1>5. FlagTurn("admin", c.down, c.off)
    <2>. HIDE DEF c, f
    <2>. QED  BY <1>0, <1>1, <1>4, FlagConfigs
<1>6. m \in DOMAIN h /\ h \in Statuses /\ health \in [App -> Statuses]
    BY <1>0 DEF disable_model, Base, TypeOK
<1>7. health' = [health EXCEPT !["admin"] = [h EXCEPT ![m] = u]]
    BY <1>0, <1>6 DEF disable_model
<1>. HIDE DEF h
<1>8. DOMAIN h \subseteq Model /\ h \in [DOMAIN h -> Status]
    BY <1>6, StatusesElim
<1>9. h[m] \in Status
    BY <1>6, <1>8
<1>10. u \in Status /\ u.healthy = FALSE /\ u.fails = h[m].fails
    BY <1>9 DEF Status
<1>. HIDE DEF u
<1>11. [h EXCEPT ![m] = u] \in [DOMAIN h -> Status]
    BY <1>8, <1>10
<1>12. [h EXCEPT ![m] = u] \in Statuses
    BY <1>8, <1>11, StatusesIntro
<1>13. health'["admin"] = [h EXCEPT ![m] = u] /\ health' \in [App -> Statuses] /\ health'["agent"] = health["agent"]
    BY <1>0, <1>6, <1>7, <1>12
<1>14. /\ DOMAIN health'["admin"] = DOMAIN h /\ health'["admin"][m] = u
       /\ \A x \in DOMAIN h \ {m} : health'["admin"][x] = h[x]
    BY <1>6, <1>8, <1>13
<1>15. FlagTurn("admin", o.down, f)
    <2>. HIDE DEF c
    <2>. QED  BY <1>4, <1>5
<1>. QED  BY <1>10, <1>13, <1>14, <1>15 DEF h

LEMMA DisableBase ==
    ASSUME Base, NEW m \in Model, disable_model(m)
    PROVE  Base'
<1>1. Kept /\ health' \in [App -> Statuses]
    BY DisableTurn DEF FlagTurn
<1>2. UNCHANGED <<file, notified, recent, config, watcher, api, skipped, updated, crossed,
                  resolver, checked, exp, req>>
    BY DEF disable_model
<1>5. renewed' \in [App -> SUBSET Model]
    BY DEF disable_model, Missing, Base, TypeOK
<1>3. TypeOK'
    BY <1>1, <1>2, <1>5 DEF Base, TypeOK, Kept
<1>4. InUse'
    BY <1>1, <1>2, BaseKept
<1>. QED  BY <1>3, <1>4 DEF Base

\* The steps of requests and of canary administration leave loads and health alone.
baseVars == <<file, notified, recent, configs, config, watcher, api, skipped, updated, crossed, resolver, checked, health, renewed>>

LEMMA RestBase ==
    ASSUME Base, UNCHANGED baseVars
    PROVE  Base'
<1>1. TypeOK'
    BY DEF Base, TypeOK, baseVars
<1>2. Kept
    BY KeptSame DEF Base, baseVars
<1>3. InUse'
    BY <1>2, BaseKept DEF baseVars
<1>. QED  BY <1>1, <1>3 DEF Base

LEMMA RestSteps ==
    ASSUME \/ RequestStep \/ promote_canary \/ rollback_canary \/ \E m \in Model : set_canary(m)
           \/ UNCHANGED vars
    PROVE  UNCHANGED baseVars
BY DEF RequestStep, Resolve, PickModel, CallFails, CallAnswers, RecordResult, KeepControl, promote_canary, rollback_canary,
       EndCanary, set_canary, KeepAllButCalls, vars, baseVars, loadVars, healthVars

\* Every step is one of these.
LEMMA StepCases ==
    ASSUME Base, [Next]_vars,
           NEW ACTION P,
           \A c \in FileContent : WriteFile(c) => P,
           \A a \in App : SecondPasses(a) \/ on_file_changed(a) => P,
           \A kind \in {"reload", "update"} : StartLoad(kind) => P,
           \A a \in App, p \in {"watcher", "api"} :
               (p = "api" => a = "admin") /\ (Read(a, p) \/ Swap(a, p) \/ UpdateResolver(a, p) \/ UpdateCanary(a, p) \/ UpdateHealth(a, p)) => P,
           \A a \in App, m \in Model, after \in Status :
               m \in DOMAIN health[a] /\ after \in {Passed(health[a][m]), Failed(health[a][m])} /\ FinishCheck(a, m, after) => P,
           \A m \in Model : disable_model(m) => P,
           RequestStep \/ promote_canary \/ rollback_canary \/ (\E m \in Model : set_canary(m)) \/ UNCHANGED vars => P
    PROVE  P
<1>1. CASE World
    BY <1>1 DEF World, FileContent
<1>2. ASSUME NEW a \in App, Steering(a) PROVE P
    <2>1. CASE SecondPasses(a) \/ on_file_changed(a)
        BY <2>1
    <2>2. CASE \E p \in {"watcher", "api"} : LoadStep(a, p)
        BY <2>2 DEF LoadStep
    <2>3. CASE \E m \in Model : Check(a, m)
        <3>1. PICK m \in Model : Check(a, m)
            BY <2>3
        <3>2. m \in DOMAIN health[a]
            BY <3>1 DEF Check, CheckPasses, CheckFails
        <3>3. health[a][m] \in Status
            BY <3>2, StatusesElim DEF Base, TypeOK
        <3>4. Passed(health[a][m]) \in Status /\ Failed(health[a][m]) \in Status
            BY <3>3, CheckedType
        <3>. QED  BY <3>1, <3>2, <3>4 DEF Check, CheckPasses, CheckFails
    <2>5. CASE a = "admin" /\ (reload_config \/ update_routing \/ promote_canary \/ rollback_canary)
        BY <2>5 DEF reload_config, update_routing
    <2>6. CASE a = "admin" /\ \E m \in Model : disable_model(m) \/ set_canary(m)
        BY <2>6
    <2>. QED  BY <1>2, <2>1, <2>2, <2>3, <2>5, <2>6 DEF Steering
<1>. QED  BY <1>1, <1>2 DEF Next

LEMMA BaseStep == Base /\ [Next]_vars => Base'
<1> SUFFICES ASSUME Base, [Next]_vars PROVE Base'
    OBVIOUS
<1>1. RequestStep \/ promote_canary \/ rollback_canary \/ (\E m \in Model : set_canary(m)) \/ UNCHANGED vars => Base'
    BY RestSteps, RestBase
<1>2. \A a \in App, m \in Model, after \in Status :
          m \in DOMAIN health[a] /\ after \in {Passed(health[a][m]), Failed(health[a][m])} /\ FinishCheck(a, m, after) => Base'
    BY CheckBase
<1>3. \A a \in App, p \in {"watcher", "api"} :
          (p = "api" => a = "admin") /\ (Read(a, p) \/ Swap(a, p) \/ UpdateResolver(a, p) \/ UpdateCanary(a, p) \/ UpdateHealth(a, p)) => Base'
    BY ReadBase, SwapBase, ResolverBase, CanaryBase, HealthBase
<1>. QED  BY <1>1, <1>2, <1>3, StepCases, WorldBase, SecondBase, NoticeBase, StartBase, DisableBase

-----------------------------------------------------------------------------
(* The file in force *)

\* The content in force stays.
ContentKept == \A b \in App : config'[b] = config[b] /\ configs'[b][config[b]].content = configs[b][config[b]].content

LEMMA FileSame ==
    ASSUME FileInv, ContentKept, UNCHANGED <<file, notified, watcher, api, skipped, updated, crossed>>
    PROVE  FileInv'
<1>1. ReadIsCurrent' /\ OneLoad'
    BY DEF FileInv, ReadIsCurrent, OneLoad
<1>2. Coming'
    BY DEF FileInv, Coming, ContentKept
<1>. QED  BY <1>1, <1>2 DEF FileInv

LEMMA FileWrite ==
    ASSUME Base, FileInv, NEW c \in FileContent, WriteFile(c)
    PROVE  FileInv'
<1>1. "admin" \in App /\ \A a \in App : notified'[a]
    BY DEF WriteFile, App
<1>2. UNCHANGED <<watcher, api, crossed>>
    BY DEF WriteFile
<1>. QED  BY <1>1, <1>2 DEF FileInv, ReadIsCurrent, OneLoad, Coming

LEMMA FileNotice ==
    ASSUME Base, FileInv, NEW a \in App, on_file_changed(a)
    PROVE  FileInv'
<1> DEFINE l == [NoLoad EXCEPT !.at = "reading", !.kind = "watch"]
<1>1. /\ watcher[a].at = "idle"
      /\ UNCHANGED <<file, configs, config, api, updated>>
      /\ "admin" \in App
    BY DEF on_file_changed, App
<1>2. \A b \in App \ {a} : notified'[b] = notified[b] /\ watcher'[b] = watcher[b] /\ skipped'[b] = skipped[b] /\ crossed'[b] = crossed[b]
    BY DEF on_file_changed, Base, TypeOK
<1>3. CASE recent[a]
    <2>1. skipped'[a] /\ watcher' = watcher /\ crossed' = crossed
        BY <1>3 DEF on_file_changed, Base, TypeOK
    <2>2. ReadIsCurrent'
        BY <1>1, <1>2, <2>1 DEF FileInv, ReadIsCurrent
    <2>3. OneLoad' /\ Coming'
        BY <1>1, <1>2, <2>1 DEF FileInv, OneLoad, Coming
    <2>. QED  BY <2>2, <2>3 DEF FileInv
<1>4. CASE ~recent[a]
    <2>1. watcher'[a].at = "reading" /\ skipped' = skipped
        <3>1. watcher' = [watcher EXCEPT ![a] = l] /\ l.at = "reading"
            BY <1>4, ReadingType DEF on_file_changed
        <3>. HIDE DEF l
        <3>. QED  BY <1>4, <3>1 DEF on_file_changed, Base, TypeOK
    <2>2. crossed'[a] = (crossed[a] \/ (a = "admin" /\ api.at # "idle"))
        BY <1>4 DEF on_file_changed, Base, TypeOK
    <2>3. ReadIsCurrent'
        <3>1. \A b \in App : watcher'[b].at = "swapping" => watcher'[b].content = file' \/ notified'[b]
            BY <1>1, <1>2, <2>1 DEF FileInv, ReadIsCurrent
        <3>2. api'.at = "swapping" => api'.content = file' \/ notified'["admin"] \/ skipped'["admin"] \/ crossed'["admin"]
            BY <1>1, <1>2, <2>1, <2>2 DEF FileInv, ReadIsCurrent
        <3>. QED  BY <3>1, <3>2 DEF ReadIsCurrent
    <2>4. OneLoad'
        BY <1>1, <1>2, <2>1, <2>2 DEF FileInv, OneLoad
    <2>5. Coming'
        BY <1>1, <1>2, <2>1, <2>2 DEF FileInv, Coming
    <2>. QED  BY <2>3, <2>4, <2>5 DEF FileInv
<1>. QED  BY <1>3, <1>4

LEMMA FileStart ==
    ASSUME Base, FileInv, NEW kind \in {"reload", "update"}, StartLoad(kind)
    PROVE  FileInv'
<1>1. api'.at = "reading"
    BY ReadingType DEF StartLoad
<1>2. /\ "admin" \in App /\ crossed'["admin"] = (crossed["admin"] \/ watcher["admin"].at # "idle")
      /\ \A b \in App \ {"admin"} : crossed'[b] = crossed[b]
      /\ UNCHANGED <<file, notified, configs, config, watcher, skipped, updated>>
    BY DEF StartLoad, Base, TypeOK, App
<1>3. ReadIsCurrent' /\ OneLoad'
    BY <1>1, <1>2 DEF FileInv, ReadIsCurrent, OneLoad
<1>4. Coming'
    BY <1>2 DEF FileInv, Coming
<1>. QED  BY <1>3, <1>4 DEF FileInv

LEMMA FileRead ==
    ASSUME Base, FileInv, NEW a \in App, NEW p \in {"watcher", "api"}, p = "api" => a = "admin", Read(a, p)
    PROVE  FileInv'
<1>1. PICK l : ReadTurn(a, p, l)
    BY ReadIsTurn
<1>2. UNCHANGED <<file, notified, configs, config, skipped, updated, crossed>> /\ LoaderOf(a, p).at = "reading"
    BY DEF Read
<1>3. /\ p = "watcher" => api' = api /\ watcher'[a] = l /\ \A b \in App \ {a} : watcher'[b] = watcher[b]
      /\ p = "api" => watcher' = watcher /\ api' = l
    BY <1>1, LoaderTurn DEF Base, ReadTurn
<1>4. /\ l.at \in {"swapping", "idle", "resolver"}
      /\ l.at = "swapping" => l.content = file
      /\ l.at # "swapping" => file = "broken"
    BY <1>1 DEF ReadTurn
<1>5. ReadIsCurrent'
    BY <1>2, <1>3, <1>4 DEF FileInv, ReadIsCurrent
<1>6. OneLoad'
    BY <1>2, <1>3 DEF FileInv, OneLoad, LoaderOf, App
<1>7. Coming'
    BY <1>2, <1>3, <1>4 DEF FileInv, Coming
<1>. QED  BY <1>5, <1>6, <1>7 DEF FileInv

LEMMA FileSwap ==
    ASSUME Base, FileInv, NEW a \in App, NEW p \in {"watcher", "api"}, p = "api" => a = "admin", Swap(a, p)
    PROVE  FileInv'
<1> DEFINE o == LoaderOf(a, p)
           l == [o EXCEPT !.at = "resolver", !.config = Len(configs[a]) + 1]
<1>1. o \in Load /\ o.at = "swapping" /\ Loader(a, p, l)
    BY LoaderType DEF Base, Swap
<1>2. l \in Load /\ l.at = "resolver"
    <2>1. Len(configs[a]) + 1 \in Nat
        BY DEF Base, TypeOK
    <2> DEFINE k == Len(configs[a]) + 1
    <2>. HIDE DEF o, k
    <2>. QED  BY <1>1, <2>1 DEF Load, Stage, k
<1>. HIDE DEF l
<1>3. /\ p = "watcher" => api' = api /\ watcher'[a] = l /\ \A b \in App \ {a} : watcher'[b] = watcher[b]
      /\ p = "api" => watcher' = watcher /\ api' = l
    BY <1>1, <1>2, LoaderTurn DEF Base
<1>4. /\ skipped'[a] = (skipped[a] /\ o.content # file)
      /\ \A b \in App \ {a} : skipped'[b] = skipped[b] /\ updated'[b] = updated[b]
      /\ UNCHANGED <<file, notified, crossed>>
    BY DEF Swap, Base, TypeOK
<1>5. /\ configs'[a][config'[a]].content = o.content
      /\ \A b \in App \ {a} : config'[b] = config[b] /\ configs'[b][config[b]] = configs[b][config[b]]
    BY SwapConfigs DEF Base, InUse, Held
<1>6. /\ p = "watcher" => o = watcher[a]
      /\ p = "api" => o = api /\ a = "admin"
    BY DEF LoaderOf
<1>. HIDE DEF o
<1>7. OneLoad'
    BY <1>1, <1>3, <1>4, <1>6 DEF FileInv, OneLoad, App
<1>8. ReadIsCurrent'
    <2>1. \A b \in App : watcher'[b].at = "swapping" => watcher'[b].content = file' \/ notified'[b]
        BY <1>2, <1>3, <1>4 DEF FileInv, ReadIsCurrent
    <2>2. api'.at = "swapping" => api'.content = file' \/ notified'["admin"] \/ skipped'["admin"] \/ crossed'["admin"]
        <3>1. CASE p = "api"
            BY <1>2, <1>3, <3>1
        <3>2. CASE p = "watcher" /\ a = "admin"
            BY <1>1, <1>3, <1>4, <1>6, <3>2 DEF FileInv, OneLoad
        <3>3. CASE p = "watcher" /\ a # "admin"
            BY <1>3, <1>4, <3>3 DEF FileInv, ReadIsCurrent, App
        <3>. QED  BY <3>1, <3>2, <3>3
    <2>. QED  BY <2>1, <2>2 DEF ReadIsCurrent
<1>9. Coming'
    <2> SUFFICES ASSUME NEW b \in App, ~crossed'[b], ~notified'[b], ~skipped'[b], file' # "broken"
                 PROVE  \/ watcher'[b].at = "reading"
                        \/ watcher'[b].at = "swapping" /\ watcher'[b].content = file'
                        \/ updated'[b]
                        \/ configs'[b][config'[b]].content = file'
        BY DEF Coming
    <2>1. CASE b = a
        <3>1. o.content = file
            BY <1>1, <1>4, <1>6, <2>1 DEF FileInv, ReadIsCurrent
        <3>. QED  BY <1>4, <1>5, <2>1, <3>1
    <2>2. CASE b # a
        BY <1>3, <1>4, <1>5, <2>2 DEF FileInv, Coming
    <2>. QED  BY <2>1, <2>2
<1>. QED  BY <1>7, <1>8, <1>9 DEF FileInv

\* The later stages of a load.
LEMMA FileLate ==
    ASSUME Base, FileInv, NEW a \in App, NEW p \in {"watcher", "api"}, p = "api" => a = "admin",
           LoaderOf(a, p).at \in {"resolver", "canary", "health"},
           NEW l \in Load, l.at \in {"idle", "resolver", "canary", "health"}, Loader(a, p, l),
           ContentKept, UNCHANGED <<file, notified, skipped, updated, crossed>>
    PROVE  FileInv'
<1>1. /\ p = "watcher" => api' = api /\ watcher'[a] = l /\ \A b \in App \ {a} : watcher'[b] = watcher[b]
      /\ p = "api" => watcher' = watcher /\ api' = l
    BY LoaderTurn DEF Base
<1>2. /\ p = "watcher" => watcher[a].at \in {"resolver", "canary", "health"}
      /\ p = "api" => api.at \in {"resolver", "canary", "health"}
    BY DEF LoaderOf
<1>3. ReadIsCurrent'
    BY <1>1 DEF FileInv, ReadIsCurrent
<1>4. OneLoad'
    BY <1>1, <1>2 DEF FileInv, OneLoad, App
<1>5. Coming'
    BY <1>1, <1>2 DEF FileInv, Coming, ContentKept
<1>. QED  BY <1>3, <1>4, <1>5 DEF FileInv

\* What the later stages do to the loader.
LEMMA LateLoader ==
    ASSUME Base, NEW a \in App, NEW p \in {"watcher", "api"},
           UpdateResolver(a, p) \/ UpdateCanary(a, p) \/ UpdateHealth(a, p)
    PROVE  /\ LoaderOf(a, p).at \in {"resolver", "canary", "health"}
           /\ \E l \in Load : l.at \in {"idle", "resolver", "canary", "health"} /\ Loader(a, p, l)
           /\ ContentKept /\ UNCHANGED <<file, notified, skipped, updated, crossed>>
<1> DEFINE o == LoaderOf(a, p)
<1>1. o \in Load
    BY LoaderType DEF Base
<1>2. CASE UpdateResolver(a, p)
    <2> DEFINE n == IF o.kind = "update" /\ o.again THEN NoLoad ELSE [o EXCEPT !.at = "canary"]
    <2>1. Loader(a, p, n) /\ o.at = "resolver"
        BY <1>2 DEF UpdateResolver
    <2>2. n \in Load /\ n.at \in {"idle", "canary"}
        <3>. HIDE DEF o
        <3>. QED  BY <1>1, NoLoadType DEF Load, Stage
    <2>3. ContentKept /\ UNCHANGED <<file, notified, skipped, updated, crossed>>
        BY <1>2 DEF UpdateResolver, ContentKept
    <2>. HIDE DEF n
    <2>. QED  BY <2>1, <2>2, <2>3
<1>3. CASE UpdateCanary(a, p)
    <2> DEFINE n == [o EXCEPT !.at = "health"]
    <2>1. Loader(a, p, n) /\ o.at = "canary"
        BY <1>3 DEF UpdateCanary
    <2>2. n \in Load /\ n.at = "health"
        <3>. HIDE DEF o
        <3>. QED  BY <1>1 DEF Load, Stage
    <2>3. ContentKept /\ UNCHANGED <<file, notified, skipped, updated, crossed>>
        BY <1>3 DEF UpdateCanary, ContentKept
    <2>. HIDE DEF n
    <2>. QED  BY <2>1, <2>2, <2>3
<1>4. CASE UpdateHealth(a, p)
    <2> DEFINE n == IF o.kind = "watch" \/ o.again THEN NoLoad ELSE [o EXCEPT !.at = "resolver", !.again = TRUE]
    <2>1. Loader(a, p, n) /\ o.at = "health"
        BY <1>4 DEF UpdateHealth
    <2>2. n \in Load /\ n.at \in {"idle", "resolver"}
        <3>. HIDE DEF o
        <3>. QED  BY <1>1, NoLoadType DEF Load, Stage
    <2>3. config' = config /\ UNCHANGED <<file, notified, skipped, updated, crossed>>
        BY <1>4 DEF UpdateHealth
    <2>4. ContentKept
        BY <1>4, <2>3, HealthTurn DEF ContentKept
    <2>. HIDE DEF n
    <2>. QED  BY <2>1, <2>2, <2>3, <2>4
<1>. QED  BY <1>2, <1>3, <1>4

LEMMA FileStep == Base /\ FileInv /\ [Next]_vars => FileInv'
<1> SUFFICES ASSUME Base, FileInv, [Next]_vars PROVE FileInv'
    OBVIOUS
<1>1. RequestStep \/ promote_canary \/ rollback_canary \/ (\E m \in Model : set_canary(m)) \/ UNCHANGED vars => FileInv'
    <2> SUFFICES ASSUME UNCHANGED baseVars PROVE FileInv'
        BY RestSteps
    <2>. QED  BY FileSame DEF baseVars, ContentKept
<1>2. \A a \in App, m \in Model, after \in Status :
          m \in DOMAIN health[a] /\ after \in {Passed(health[a][m]), Failed(health[a][m])} /\ FinishCheck(a, m, after) => FileInv'
    <2> SUFFICES ASSUME NEW a \in App, NEW m \in Model, NEW after \in Status, m \in DOMAIN health[a], FinishCheck(a, m, after)
                 PROVE  FileInv'
        OBVIOUS
    <2>1. UNCHANGED <<file, notified, config, watcher, api, skipped, updated, crossed>>
        BY DEF FinishCheck
    <2>2. ContentKept
        BY <2>1, CheckTurn DEF FlagTurn, ContentKept, Base, InUse, Held
    <2>. QED  BY <2>1, <2>2, FileSame
<1>3. \A m \in Model : disable_model(m) => FileInv'
    <2> SUFFICES ASSUME NEW m \in Model, disable_model(m) PROVE FileInv'
        OBVIOUS
    <2>1. UNCHANGED <<file, notified, config, watcher, api, skipped, updated, crossed>>
        BY DEF disable_model
    <2>2. ContentKept
        BY <2>1, DisableTurn DEF FlagTurn, ContentKept, Base, InUse, Held
    <2>. QED  BY <2>1, <2>2, FileSame
<1>4. \A a \in App, p \in {"watcher", "api"} :
          (p = "api" => a = "admin") /\ (Read(a, p) \/ Swap(a, p) \/ UpdateResolver(a, p) \/ UpdateCanary(a, p) \/ UpdateHealth(a, p)) => FileInv'
    BY FileRead, FileSwap, FileLate, LateLoader
<1>5. \A a \in App : SecondPasses(a) \/ on_file_changed(a) => FileInv'
    <2>1. ASSUME NEW a \in App, SecondPasses(a) PROVE FileInv'
        BY <2>1, FileSame DEF SecondPasses, ContentKept
    <2>. QED  BY <2>1, FileNotice
<1>. QED  BY <1>1, <1>2, <1>3, <1>4, <1>5, StepCases, FileWrite, FileStart

LEMMA InitFile == Init => FileInv
<1> SUFFICES ASSUME Init PROVE FileInv
    OBVIOUS
<1>1. First \in FileContent /\ "admin" \in App
    BY ControlAssumption DEF ControlAssumption, FileContent, App
<1>2. Fresh(First).content = First
    BY <1>1, FreshType
<1>3. \A a \in App : configs[a][config[a]].content = file
    BY <1>2 DEF Init
<1>. QED  BY <1>1, <1>3, NoLoadType DEF Init, FileInv, ReadIsCurrent, OneLoad, Coming

\* The configuration in force is the file's when nothing is left to load, in both apps and
\* however their watchers, the admin's requests and the writes of the file interleave.
THEOREM FileInForceTheorem == ControlSpec => []FileInForce
<1>1. Base /\ FileInv => FileInForce
    BY DEF FileInv, Coming, FileInForce, Quiet
<1>. QED  BY <1>1, InitBase, BaseStep, InitFile, FileStep, PTL DEF ControlSpec

-----------------------------------------------------------------------------
(* Unhealthy models *)

\* Nothing that the flags of an app are about has changed.
LookKept(b) ==
    /\ health'[b] = health[b] /\ renewed'[b] = renewed[b] /\ checked'[b] = checked[b] /\ resolver'[b] = resolver[b]
    /\ configs'[b][resolver[b]] = configs[b][resolver[b]]

LEMMA FlagsSame ==
    ASSUME Flags, NEW b \in App, LookKept(b), NEW x \in DOMAIN health'[b]
    PROVE  FlagsOf(b, x)'
BY DEF Flags, FlagsOf, Hidden, LookKept

LEMMA FlagsAll ==
    ASSUME \A b \in App : \A x \in DOMAIN health'[b] : FlagsOf(b, x)'
    PROVE  Flags'
BY DEF Flags

LEMMA FlagsResolver ==
    ASSUME Base, Flags, NEW a \in App, NEW p \in {"watcher", "api"}, UpdateResolver(a, p)
    PROVE  Flags'
<1> DEFINE n == LoaderOf(a, p).config
<1>1. /\ renewed'[a] = renewed[a] \cup Missed(a, n) /\ resolver'[a] = n
      /\ UNCHANGED <<configs, health, checked>>
    BY DEF UpdateResolver, Base, TypeOK
<1>2. \A b \in App \ {a} : LookKept(b)
    BY <1>1 DEF UpdateResolver, Base, TypeOK, LookKept
<1>. HIDE DEF n
<1>3. ASSUME NEW x \in DOMAIN health'[a] PROVE FlagsOf(a, x)'
    <2>1. x \in DOMAIN health[a] /\ health' = health
        BY <1>1, <1>3
    <2>2. health[a][x].fails >= Threshold => ~health[a][x].healthy
        BY <2>1 DEF Flags, FlagsOf
    <2>3. ~health[a][x].healthy => x \in Missed(a, n) \/ Hidden(a, x)'
        BY <1>1, <2>1 DEF Missed, Hidden
    <2>. QED  BY <1>1, <2>1, <2>2, <2>3 DEF FlagsOf
<1>. QED  BY <1>2, <1>3, FlagsSame, FlagsAll

LEMMA FlagsHealth ==
    ASSUME Base, Flags, NEW a \in App, NEW p \in {"watcher", "api"}, UpdateHealth(a, p)
    PROVE  Flags'
<1> DEFINE c == configs[a][LoaderOf(a, p).config].content
<1>1. /\ health' = [health EXCEPT ![a] = Track(health[a], c)]
      /\ renewed' = [renewed EXCEPT ![a] = renewed[a] \cap DOMAIN health'[a]]
      /\ UNCHANGED resolver
    BY DEF UpdateHealth, Base, TypeOK
<1>2. health \in [App -> Statuses] /\ renewed \in [App -> SUBSET Model] /\ health[a] \in Statuses
    BY DEF Base, TypeOK
<1>3. \A b \in App \ {a} : LookKept(b)
    BY <1>1, <1>2, HealthTurn DEF LookKept, Base, TypeOK
<1>. HIDE DEF c
<1>4. health'[a] = Track(health[a], c) /\ renewed'[a] = renewed[a] \cap DOMAIN health'[a]
    BY <1>1, <1>2
<1>6. configs'[a][resolver[a]] = configs[a][resolver[a]]
    BY HealthTurn
<1>5. ASSUME NEW x \in DOMAIN health'[a] PROVE FlagsOf(a, x)'
    <2>1. health'[a][x] = IF x \in DOMAIN health[a] THEN health[a][x] ELSE [healthy |-> TRUE, fails |-> 0]
        BY <1>2, <1>4, <1>5, TrackType
    <2>2. CASE x \in DOMAIN health[a]
        <3>1. health'[a][x] = health[a][x] /\ FlagsOf(a, x)
            BY <2>1, <2>2 DEF Flags
        <3>2. x \in renewed[a] => x \in renewed'[a]
            BY <1>4, <1>5
        <3>3. Hidden(a, x) => Hidden(a, x)'
            BY <1>1, <1>6 DEF Hidden
        <3>. QED  BY <3>1, <3>2, <3>3 DEF FlagsOf
    <2>3. CASE x \notin DOMAIN health[a]
        <3>1. health'[a][x].healthy /\ health'[a][x].fails = 0
            BY <2>1, <2>3
        <3>. QED  BY <3>1, ControlAssumption DEF FlagsOf, ControlAssumption
    <2>. QED  BY <2>2, <2>3
<1>. QED  BY <1>3, <1>5, FlagsSame, FlagsAll

\* After a check that passes the model has no failures; after one that fails it is unhealthy
\* at the threshold.
LEMMA CheckResult ==
    ASSUME NEW s \in Status, NEW after \in {Passed(s), Failed(s)}
    PROVE  after.fails >= Threshold => ~after.healthy
<1>1. Threshold \in Nat \ {0} /\ s.fails \in Nat
    BY ControlAssumption DEF ControlAssumption, Status
<1>2. CASE after = Passed(s)
    BY <1>1, <1>2 DEF Passed
<1>3. CASE after = Failed(s)
    <2>1. /\ after.fails = IF s.fails < Threshold THEN s.fails + 1 ELSE Threshold
          /\ after.healthy <=> s.healthy /\ s.fails + 1 < Threshold
        BY <1>3 DEF Failed
    <2>2. after.fails >= Threshold => ~(s.fails + 1 < Threshold)
        BY <1>1, <2>1
    <2>. QED  BY <2>1, <2>2
<1>. QED  BY <1>2, <1>3

\* Entries of two models differ.
LEMMA EntryApart ==
    ASSUME NEW c, NEW k, NEW m, NEW x, x # m
    PROVE  Entry(c, x) # Entry(k, m)
BY DEF Entry

LEMMA FlagsCheck ==
    ASSUME Base, Flags, NEW a \in App, NEW m \in Model, NEW after \in Status, m \in DOMAIN health[a],
           after \in {Passed(health[a][m]), Failed(health[a][m])}, FinishCheck(a, m, after)
    PROVE  Flags'
<1> DEFINE o == configs[a][checked[a]]
           n == configs'[a][checked[a]]
           f == Entry(o.content, m)
           e == Flagged(o.down, f, health[a][m], after)
<1>1. health[a][m] \in Status
    BY StatusesElim DEF Base, TypeOK
<1>2. /\ after.healthy \in BOOLEAN /\ health[a][m].healthy \in BOOLEAN
      /\ after.fails >= Threshold => ~after.healthy
    <2>1. after.healthy \in BOOLEAN
        BY DEF Status
    <2>2. health[a][m].healthy \in BOOLEAN
        BY <1>1 DEF Status
    <2>. QED  BY <1>1, <2>1, <2>2, CheckResult
<1>3. UNCHANGED <<resolver, checked>>
    BY DEF FinishCheck
<1>4. renewed'[a] = IF after.healthy THEN renewed[a] \ {m}
                    ELSE IF health[a][m].healthy THEN renewed[a] \cup Missing(a, m) ELSE renewed[a]
    BY DEF FinishCheck, Base, TypeOK
<1>5. \A b \in App \ {a} : LookKept(b)
    BY <1>3, CheckTurn DEF FinishCheck, FlagTurn, LookKept, Base, TypeOK, InUse, Held
<1>6. /\ n.down = e /\ n.off = o.off /\ n.content = o.content
      /\ resolver[a] # checked[a] => configs'[a][resolver[a]] = configs[a][resolver[a]]
      /\ DOMAIN health'[a] = DOMAIN health[a] /\ health'[a][m] = after
      /\ \A x \in DOMAIN health[a] \ {m} : health'[a][x] = health[a][x]
    BY CheckTurn DEF FlagTurn, Base, InUse, Held
<1>7. /\ \A x : x # f => (x \in e <=> x \in o.down)
      /\ ~after.healthy => (f \in e <=> f \in o.down \/ health[a][m].healthy)
    BY <1>2 DEF Flagged
<1>. HIDE DEF e, f, n, o
<1>8. ASSUME NEW x \in DOMAIN health[a], x # m PROVE FlagsOf(a, x)'
    <2>1. FlagsOf(a, x) /\ health'[a][x] = health[a][x]
        BY <1>6, <1>8 DEF Flags
    <2>2. x \in renewed[a] => x \in renewed'[a]
        BY <1>4, <1>8
    <2>3. Hidden(a, x) => Hidden(a, x)'
        <3>1. CASE resolver[a] # checked[a]
            BY <1>3, <1>6, <3>1 DEF Hidden
        <3>2. CASE resolver[a] = checked[a]
            <4>1. Entry(o.content, x) # f
                BY <1>8, EntryApart DEF f
            <4>2. Hidden(a, x) <=> (x \in ModelsOf(o.content) => Entry(o.content, x) \in o.down \cup o.off)
                BY <3>2 DEF Hidden, o
            <4>3. Hidden(a, x)' <=> (x \in ModelsOf(n.content) => Entry(n.content, x) \in n.down \cup n.off)
                BY <1>3, <3>2 DEF Hidden, n
            <4>. QED  BY <1>6, <1>7, <4>1, <4>2, <4>3
        <3>. QED  BY <3>1, <3>2
    <2>. QED  BY <2>1, <2>2, <2>3 DEF FlagsOf
<1>9. FlagsOf(a, m)'
    <2>1. CASE after.healthy
        BY <1>2, <1>6, <2>1 DEF FlagsOf
    <2>2. CASE ~after.healthy /\ resolver[a] # checked[a]
        <3>1. CASE health[a][m].healthy
            BY <1>2, <1>4, <1>6, <2>2, <3>1 DEF FlagsOf, Missing
        <3>2. CASE ~health[a][m].healthy
            <4>1. Hidden(a, m) \/ m \in renewed[a]
                BY <3>2 DEF Flags, FlagsOf
            <4>2. Hidden(a, m) => Hidden(a, m)'
                BY <1>3, <1>6, <2>2 DEF Hidden
            <4>. QED  BY <1>2, <1>4, <1>6, <2>2, <3>2, <4>1, <4>2 DEF FlagsOf
        <3>. QED  BY <3>1, <3>2
    <2>3. CASE ~after.healthy /\ resolver[a] = checked[a]
        <3>0. /\ Hidden(a, m) <=> (m \in ModelsOf(o.content) => f \in o.down \cup o.off)
              /\ Hidden(a, m)' <=> (m \in ModelsOf(n.content) => Entry(n.content, m) \in n.down \cup n.off)
            BY <1>3, <2>3 DEF Hidden, o, n, f
        <3>1. Entry(n.content, m) = f
            BY <1>6 DEF f
        <3>2. CASE health[a][m].healthy
            <4>1. Hidden(a, m)'
                BY <1>6, <1>7, <2>3, <3>0, <3>1, <3>2
            <4>. QED  BY <1>2, <1>6, <4>1 DEF FlagsOf
        <3>3. CASE ~health[a][m].healthy
            <4>1. Hidden(a, m) \/ m \in renewed[a]
                BY <3>3 DEF Flags, FlagsOf
            <4>2. Hidden(a, m) => Hidden(a, m)'
                BY <1>6, <1>7, <2>3, <3>0, <3>1
            <4>. QED  BY <1>2, <1>4, <1>6, <2>3, <3>3, <4>1, <4>2 DEF FlagsOf
        <3>. QED  BY <3>2, <3>3
    <2>. QED  BY <2>1, <2>2, <2>3
<1>10. \A x \in DOMAIN health'[a] : FlagsOf(a, x)'
    BY <1>6, <1>8, <1>9
<1>. QED  BY <1>5, <1>10, FlagsSame, FlagsAll

LEMMA FlagsDisable ==
    ASSUME Base, Flags, NEW m \in Model, disable_model(m)
    PROVE  Flags'
<1> DEFINE a == "admin"
           o == configs[a][checked[a]]
           n == configs'[a][checked[a]]
<1>1. m \in DOMAIN health[a] /\ a \in App /\ App \ {a} = {"agent"} /\ UNCHANGED <<resolver, checked>>
    BY DEF disable_model, App
<1>2. /\ \A i \in DOMAIN configs["agent"] : configs'["agent"][i] = configs["agent"][i]
      /\ \A i \in DOMAIN configs[a] : i # checked[a] => configs'[a][i] = configs[a][i]
      /\ n.down = o.down /\ n.off = o.off \cup {Entry(o.content, m)} /\ n.content = o.content
    BY DisableTurn DEF FlagTurn, App, Base, InUse, Held
<1>3. LookKept("agent")
    <2>1. renewed'["agent"] = renewed["agent"]
        BY DEF disable_model, Base, TypeOK, App
    <2>. QED  BY <1>1, <1>2, <2>1, DisableTurn DEF LookKept, Base, InUse, Held, App
<1>4. renewed'[a] = IF health[a][m].healthy THEN renewed[a] \cup Missing(a, m) ELSE renewed[a]
    BY <1>1 DEF disable_model, Base, TypeOK
<1>5. resolver[a] \in DOMAIN configs[a]
    BY <1>1 DEF Base, InUse, Held
<1>. HIDE DEF a
<1>6. ASSUME NEW x \in DOMAIN health'[a] PROVE FlagsOf(a, x)'
    <2>1. x \in DOMAIN health[a] /\ FlagsOf(a, x)
        BY <1>1, <1>6, DisableTurn DEF Flags, a
    <2>2. /\ Hidden(a, x) => Hidden(a, x)'
          /\ x = m /\ resolver[a] = checked[a] => Hidden(a, x)'
        <3>1. CASE resolver[a] = checked[a]
            <4>1. /\ Hidden(a, x) <=> (x \in ModelsOf(o.content) => Entry(o.content, x) \in o.down \cup o.off)
                  /\ Hidden(a, x)' <=> (x \in ModelsOf(n.content) => Entry(n.content, x) \in n.down \cup n.off)
                BY <1>1, <3>1 DEF Hidden
            <4>. HIDE DEF o, n
            <4>. QED  BY <1>2, <4>1
        <3>2. CASE resolver[a] # checked[a]
            BY <1>1, <1>2, <1>5, <3>2 DEF Hidden
        <3>. QED  BY <3>1, <3>2
    <2>3. /\ health'[a][x].fails = health[a][x].fails
          /\ x # m => health'[a][x] = health[a][x]
          /\ x = m => ~health'[a][x].healthy
        BY <2>1, DisableTurn DEF a
    <2>4. x \in renewed[a] => x \in renewed'[a]
        BY <1>4
    <2>5. CASE x # m
        BY <2>1, <2>2, <2>3, <2>4, <2>5 DEF FlagsOf
    <2>6. CASE x = m
        <3>1. ~health[a][m].healthy => Hidden(a, m) \/ m \in renewed[a]
            BY <2>1, <2>6 DEF FlagsOf
        <3>2. Hidden(a, m)' \/ m \in renewed'[a]
            BY <1>4, <2>2, <2>4, <2>6, <3>1 DEF Missing
        <3>. QED  BY <2>3, <2>6, <3>2 DEF FlagsOf
    <2>. QED  BY <2>5, <2>6
<1>. QED  BY <1>1, <1>3, <1>6, FlagsSame, FlagsAll

LEMMA FlagsStep == Base /\ Flags /\ [Next]_vars => Flags'
<1> SUFFICES ASSUME Base, Flags, [Next]_vars PROVE Flags'
    OBVIOUS
<1>0. ASSUME UNCHANGED <<resolver, checked, health, renewed>>,
             \A b \in App : configs'[b][resolver[b]] = configs[b][resolver[b]]
      PROVE  Flags'
    <2>1. \A b \in App : LookKept(b)
        BY <1>0 DEF LookKept
    <2>. QED  BY <2>1, FlagsSame, FlagsAll
<1>1. RequestStep \/ promote_canary \/ rollback_canary \/ (\E m \in Model : set_canary(m)) \/ UNCHANGED vars => Flags'
    BY <1>0, RestSteps DEF baseVars
<1>2. \A a \in App, p \in {"watcher", "api"} :
          (p = "api" => a = "admin") /\ (Read(a, p) \/ Swap(a, p) \/ UpdateResolver(a, p) \/ UpdateCanary(a, p) \/ UpdateHealth(a, p)) => Flags'
    <2> SUFFICES ASSUME NEW a \in App, NEW p \in {"watcher", "api"} PROVE
            Read(a, p) \/ Swap(a, p) \/ UpdateResolver(a, p) \/ UpdateCanary(a, p) \/ UpdateHealth(a, p) => Flags'
        OBVIOUS
    <2>1. CASE Read(a, p) \/ UpdateCanary(a, p)
        BY <1>0, <2>1 DEF Read, UpdateCanary, healthVars
    <2>2. CASE Swap(a, p)
        <3>1. UNCHANGED <<resolver, checked, health, renewed>>
            BY <2>2 DEF Swap, healthVars
        <3>2. \A b \in App : configs'[b][resolver[b]] = configs[b][resolver[b]]
            BY <2>2, SwapConfigs DEF Base, InUse, Held
        <3>. QED  BY <1>0, <3>1, <3>2
    <2>. QED  BY <2>1, <2>2, FlagsResolver, FlagsHealth
<1>3. \A c \in FileContent : WriteFile(c) => Flags'
    BY <1>0 DEF WriteFile, healthVars
<1>4. \A a \in App : SecondPasses(a) \/ on_file_changed(a) => Flags'
    BY <1>0 DEF SecondPasses, on_file_changed, healthVars
<1>5. \A kind \in {"reload", "update"} : StartLoad(kind) => Flags'
    BY <1>0 DEF StartLoad, healthVars
<1>. QED  BY <1>1, <1>2, <1>3, <1>4, <1>5, StepCases, FlagsCheck, FlagsDisable

LEMMA InitFlags == Init => Flags
<1> SUFFICES ASSUME Init, NEW a \in App, NEW m \in DOMAIN health[a]
             PROVE  health[a][m].healthy /\ health[a][m].fails = 0
    BY ControlAssumption DEF Flags, FlagsOf, ControlAssumption
<1>1. <<>> \in Statuses
    <2>1. <<>> \in [{} -> Status]
        OBVIOUS
    <2>. QED  BY <2>1, StatusesIntro
<1>2. health[a] = Track(<<>>, First)
    BY DEF Init
<1>3. health[a][m] = [healthy |-> TRUE, fails |-> 0]
    BY <1>1, <1>2, TrackType
<1>. QED  BY <1>3

\* Of a model at the failure threshold, the entry that the health manager holds is out of
\* rotation unless a load has renewed it or another object than the resolver's was flagged, for
\* every order of checks, loads of both kinds and admin requests.
THEOREM UnhealthyOutTheorem == ControlSpec => []UnhealthyOut
<1>1. Flags => UnhealthyOut
    BY DEF Flags, FlagsOf, Hidden, UnhealthyOut, InRotation
<1>. QED  BY <1>1, InitBase, BaseStep, InitFlags, FlagsStep, PTL DEF ControlSpec

-----------------------------------------------------------------------------
(* Samples of a canary *)

\* Records with the fields of an experiment and of a request.
IsExperiment(e) == e \in [model : {e.model}, sample : {e.sample}, moved : BOOLEAN]

IsRequest(r) ==
    r \in [at : {r.at}, tier : {r.tier}, esc : Nat, pin : {r.pin}, canary : {r.canary}, exp : {r.exp},
           config : {r.config}, todo : {r.todo}, model : {r.model}, how : {r.how}, best : {r.best}]

\* A sample that counts is of the experiment's model.
Fits(e) == ~e.moved /\ e.sample # <<>> /\ e.sample[1].how = "first" => e.sample[1].model = e.model

\* Before the first escalation: the first call is to the target, and what leaves the loop after
\* it was answered by the target.
ServedFirst(r) ==
    /\ IsRequest(r)
    /\ r.at = "calling" /\ r.how = "first" => r.model = Target(r)
    /\ r.at = "recording" /\ r.esc = 0 /\ r.how = "first" => r.best = Target(r)
    /\ r.at # "recording" /\ r.esc = 0 => r.best = NoModel

SampleInv ==
    /\ DOMAIN exp = App /\ exp = [a \in App |-> exp[a]]
    /\ \A a \in App : IsExperiment(exp[a]) /\ Fits(exp[a])
    /\ ServedFirst(req)

\* An experiment that begins has no samples.
LEMMA NewExperiment ==
    ASSUME NEW m
    PROVE  LET e == [NoExperiment EXCEPT !.model = m]
           IN  IsExperiment(e) /\ Fits(e)
<1> DEFINE e == [NoExperiment EXCEPT !.model = m]
<1>1. e \in [model : {m}, sample : {<<>>}, moved : BOOLEAN] /\ e.model = m /\ e.sample = <<>>
    BY DEF NoExperiment
<1>. HIDE DEF e
<1>2. IsExperiment(e) /\ Fits(e)
    BY <1>1 DEF IsExperiment, Fits
<1>. QED  BY <1>2 DEF e

LEMMA NoExperimentFits == IsExperiment(NoExperiment) /\ Fits(NoExperiment)
BY DEF NoExperiment, IsExperiment, Fits

LEMMA ExperimentOfFits ==
    ASSUME NEW c
    PROVE  IsExperiment(ExperimentOf(c)) /\ Fits(ExperimentOf(c))
BY NewExperiment, NoExperimentFits DEF ExperimentOf

LEMMA NoRequestServed == ServedFirst(NoRequest)
BY DEF NoRequest, ServedFirst, IsRequest

\* The loop goes on to the next tier, or leaves.
LEMMA SettleFields ==
    ASSUME NEW r, IsRequest(r), NEW at, NEW tier, NEW esc \in Nat
    PROVE  LET q == Settle(r, at, tier, esc)
           IN  /\ IsRequest(q) /\ q.at = at /\ q.esc = esc
               /\ q.how = r.how /\ q.best = r.best /\ q.pin = r.pin /\ q.canary = r.canary /\ q.exp = r.exp
<1> DEFINE q == Settle(r, at, tier, esc)
<1>1. q \in [at : {at}, tier : {tier}, esc : {esc}, pin : {r.pin}, canary : {r.canary}, exp : {r.exp},
             config : {0}, todo : {{}}, model : {NoModel}, how : {r.how}, best : {r.best}]
    BY DEF Settle, IsRequest
<1>. HIDE DEF q
<1>2. /\ IsRequest(q) /\ q.at = at /\ q.esc = esc
      /\ q.how = r.how /\ q.best = r.best /\ q.pin = r.pin /\ q.canary = r.canary /\ q.exp = r.exp
    BY <1>1 DEF IsRequest
<1>. QED  BY <1>2 DEF q

LEMMA ClimbServes ==
    ASSUME NEW r, IsRequest(r), NEW q \in Climbs(r)
    PROVE  ServedFirst(q)
<1>1. PICK t : q = Settle(r, "routed", t, r.esc + 1)
    BY DEF Climbs
<1>2. r.esc \in Nat
    BY DEF IsRequest
<1>3. r.esc + 1 \in Nat /\ r.esc + 1 # 0
    BY <1>2
<1>4. IsRequest(q) /\ q.at = "routed" /\ q.esc = r.esc + 1
    BY <1>1, <1>3, SettleFields
<1>. QED  BY <1>3, <1>4 DEF ServedFirst

LEMMA LeaveServes ==
    ASSUME NEW r, IsRequest(r), r.esc = 0 /\ r.how = "first" /\ r.best # NoModel => r.best = Target(r)
    PROVE  ServedFirst(Leave(r))
<1>1. CASE r.best = NoModel
    BY <1>1, NoRequestServed DEF Leave
<1>2. CASE r.best # NoModel
    <2> DEFINE q == Settle(r, "recording", "mid", r.esc)
    <2>1. r.esc \in Nat
        BY DEF IsRequest
    <2>2. /\ IsRequest(q) /\ q.at = "recording" /\ q.esc = r.esc
          /\ q.how = r.how /\ q.best = r.best /\ q.pin = r.pin /\ q.canary = r.canary /\ q.exp = r.exp
        BY <2>1, SettleFields
    <2>3. Leave(r) = q
        BY <1>2 DEF Leave
    <2>. HIDE DEF q
    <2>4. Target(q) = Target(r)
        BY <2>2 DEF Target
    <2>. QED  BY <1>2, <2>2, <2>3, <2>4 DEF ServedFirst
<1>. QED  BY <1>1, <1>2

\* The next call goes to the target when the target can be called.
LEMMA TryServes ==
    ASSUME NEW r, IsRequest(r), r.esc = 0 => r.best = NoModel, NEW todo, NEW how, Try(r, todo, how)
    PROVE  ServedFirst(req')
<1>1. CASE Usable(r, todo) = {}
    <2>1. req' \in Climbs(r) \cup {Leave(r)}
        BY <1>1 DEF Try
    <2>. QED  BY <2>1, ClimbServes, LeaveServes
<1>2. CASE Usable(r, todo) # {}
    <2> DEFINE h == IF how = "first" /\ Target(r) \in Usable(r, todo) THEN "first" ELSE "fallback"
    <2>1. PICK m \in Candidates(r, Usable(r, todo)) :
              req' = [r EXCEPT !.at = "calling", !.model = m, !.todo = todo \ {m}, !.how = h]
        BY <1>2 DEF Try
    <2>2. h = "first" => m = Target(r)
        BY DEF Candidates
    <2>. HIDE DEF h
    <2>3. req' = [at |-> "calling", tier |-> r.tier, esc |-> r.esc, pin |-> r.pin, canary |-> r.canary, exp |-> r.exp,
                  config |-> r.config, todo |-> todo \ {m}, model |-> m, how |-> h, best |-> r.best]
        BY <2>1 DEF IsRequest
    <2>4. IsRequest(req')
        BY <2>3 DEF IsRequest
    <2>5. Target(req') = Target(r)
        BY <2>3 DEF Target
    <2>. QED  BY <2>2, <2>3, <2>4, <2>5 DEF ServedFirst
<1>. QED  BY <1>1, <1>2

\* A request goes on, and leaves a sample of the model that it asked for.
LEMMA SampleRequest ==
    ASSUME SampleInv, RequestStep
    PROVE  SampleInv'
<1>0. IsRequest(req) /\ ServedFirst(req) /\ "agent" \in App
    BY DEF SampleInv, ServedFirst, App
<1>9. ASSUME ServedFirst(req'), exp' = exp PROVE SampleInv'
    BY <1>9 DEF SampleInv, ServedFirst, IsRequest, Target
<1>1. CASE Resolve
    <2> DEFINE g == resolve(configs["agent"][resolver["agent"]].content)
    <2>0. PICK use \in BOOLEAN, l \in Level :
              req' = [NoRequest EXCEPT !.at = "routed", !.tier = cap_tier(l, g.tier), !.canary = use,
                        !.exp = IF use THEN exp["agent"].model ELSE NoModel,
                        !.pin = IF cap_tier(l, g.tier) = g.tier THEN g.model ELSE NoModel]
        BY <1>1 DEF Resolve
    <2> DEFINE t == cap_tier(l, g.tier)
               x == IF use THEN exp["agent"].model ELSE NoModel
               pin == IF cap_tier(l, g.tier) = g.tier THEN g.model ELSE NoModel
    <2>1. req' = [NoRequest EXCEPT !.at = "routed", !.tier = t, !.canary = use, !.exp = x, !.pin = pin]
        BY <2>0
    <2>. HIDE DEF t, x, pin
    <2>2. req' = [at |-> "routed", tier |-> t, esc |-> 0, pin |-> pin, canary |-> use, exp |-> x,
                  config |-> 0, todo |-> {}, model |-> NoModel, how |-> "first", best |-> NoModel]
        BY <2>1 DEF NoRequest
    <2>3. ServedFirst(req') /\ exp' = exp
        BY <1>1, <2>2 DEF Resolve, ServedFirst, IsRequest
    <2>. QED  BY <1>9, <2>3
<1>2. CASE PickModel
    <2> DEFINE r == [req EXCEPT !.config = resolver["agent"]]
    <2>1. IsRequest(r) /\ r.esc = req.esc /\ r.best = req.best
        BY <1>0 DEF IsRequest
    <2>2. Try(r, Offered("agent", req.tier), "first") /\ exp' = exp /\ req.at = "routed"
        BY <1>2 DEF PickModel
    <2>. HIDE DEF r
    <2>3. r.esc = 0 => r.best = NoModel
        BY <1>0, <2>1, <2>2 DEF ServedFirst
    <2>4. ServedFirst(req')
        BY <2>1, <2>2, <2>3, TryServes
    <2>. QED  BY <1>9, <2>2, <2>4
<1>3. CASE CallFails
    <2>1. req.esc = 0 => req.best = NoModel
        BY <1>0, <1>3 DEF CallFails, ServedFirst
    <2>2. ServedFirst(req') /\ exp' = exp
        BY <1>0, <1>3, <2>1, TryServes DEF CallFails
    <2>. QED  BY <1>9, <2>2
<1>4. CASE CallAnswers
    <2>1. PICK best \in {req.best, req.model} :
              LET r == [req EXCEPT !.best = best] IN req' \in Climbs(r) \cup {Leave(r)}
        BY <1>4 DEF CallAnswers
    <2> DEFINE r == [req EXCEPT !.best = best]
    <2>2. /\ IsRequest(r) /\ r.esc = req.esc /\ r.best = best /\ r.how = req.how
          /\ r.pin = req.pin /\ r.canary = req.canary /\ r.exp = req.exp
        BY <1>0 DEF IsRequest
    <2>3. req' \in Climbs(r) \cup {Leave(r)}
        BY <2>1
    <2>. HIDE DEF r
    <2>4. Target(r) = Target(req)
        BY <2>2 DEF Target
    <2>5. r.esc = 0 /\ r.how = "first" /\ r.best # NoModel => r.best = Target(r)
        BY <1>0, <1>4, <2>2, <2>4 DEF CallAnswers, ServedFirst
    <2>6. ServedFirst(req')
        BY <2>2, <2>3, <2>5, ClimbServes, LeaveServes
    <2>7. exp' = exp
        BY <1>4 DEF CallAnswers
    <2>. QED  BY <1>9, <2>6, <2>7
<1>5. CASE RecordResult
    <2> DEFINE h == HowServed(req)
               s == <<[model |-> req.best, how |-> h]>>
               e == [exp["agent"] EXCEPT !.sample = s]
    <2>1. /\ req.at = "recording" /\ req' = NoRequest
          /\ exp' = exp \/ (req.canary /\ exp' = [exp EXCEPT !["agent"] = e])
        BY <1>0, <1>5 DEF RecordResult, SampleInv
    <2>2. CASE exp' = exp
        BY <1>9, <2>1, <2>2, NoRequestServed
    <2>3. CASE req.canary /\ exp' = [exp EXCEPT !["agent"] = e]
        <3>1. h = "first" => req.best = exp["agent"].model
            <4>1. req.esc \in Nat
                BY <1>0 DEF IsRequest
            <4>2. h = "first" => exp["agent"].model = req.exp /\ req.pin = NoModel /\ req.esc = 0 /\ req.how = "first"
                BY <4>1 DEF HowServed
            <4>. QED  BY <1>0, <2>1, <2>3, <4>2 DEF ServedFirst, Target
        <3>2. s # <<>> /\ s[1].how = h /\ s[1].model = req.best
            OBVIOUS
        <3>. HIDE DEF h, s
        <3>3. e = [model |-> exp["agent"].model, sample |-> s, moved |-> exp["agent"].moved] /\ exp["agent"].moved \in BOOLEAN
            BY <1>0 DEF SampleInv, IsExperiment
        <3>4. IsExperiment(e) /\ Fits(e)
            BY <3>1, <3>2, <3>3 DEF IsExperiment, Fits
        <3>. HIDE DEF e
        <3>5. /\ DOMAIN exp' = App /\ exp' = [a \in App |-> exp'[a]]
              /\ \A a \in App : exp'[a] = exp[a] \/ exp'[a] = e
            BY <2>3 DEF SampleInv
        <3>6. \A a \in App : IsExperiment(exp'[a]) /\ Fits(exp'[a])
            BY <3>4, <3>5 DEF SampleInv
        <3>7. ServedFirst(req')
            BY <2>1, NoRequestServed
        <3>. QED  BY <3>5, <3>6, <3>7 DEF SampleInv, IsExperiment, Fits, ServedFirst, IsRequest, Target
    <2>. QED  BY <2>1, <2>2, <2>3
<1>. QED  BY <1>1, <1>2, <1>3, <1>4, <1>5 DEF RequestStep

\* An app's experiment changes to one that fits.
LEMMA SampleTurn ==
    ASSUME SampleInv, NEW a \in App, NEW e, IsExperiment(e), Fits(e), exp' = [exp EXCEPT ![a] = e], req' = req
    PROVE  SampleInv'
<1>1. /\ DOMAIN exp' = App /\ exp' = [b \in App |-> exp'[b]]
      /\ \A b \in App : exp'[b] = exp[b] \/ exp'[b] = e
    BY DEF SampleInv
<1>2. \A b \in App : IsExperiment(exp'[b]) /\ Fits(exp'[b])
    BY <1>1 DEF SampleInv
<1>3. ServedFirst(req')
    BY DEF SampleInv
<1>. QED  BY <1>1, <1>2, <1>3 DEF SampleInv, IsExperiment, Fits, ServedFirst, IsRequest, Target

LEMMA SampleSame ==
    ASSUME SampleInv, UNCHANGED <<exp, req>>
    PROVE  SampleInv'
BY DEF SampleInv, IsExperiment, Fits, ServedFirst, IsRequest, Target

\* A load: the samples are kept, and count no more once the experiment has another model.
LEMMA SampleCanary ==
    ASSUME SampleInv, NEW a \in App, NEW p, UpdateCanary(a, p)
    PROVE  SampleInv'
<1> DEFINE new == ExperimentOf(configs[a][LoaderOf(a, p).config].content)
           o == exp[a]
           n == [o EXCEPT !.model = new.model, !.moved = o.moved \/ o.model # new.model]
           e == IF new.model = NoModel \/ o.model = NoModel THEN new ELSE n
<1>1. exp' = [exp EXCEPT ![a] = e] /\ req' = req
    BY DEF UpdateCanary
<1>2. IsExperiment(new) /\ Fits(new)
    BY ExperimentOfFits
<1>3. IsExperiment(o) /\ Fits(o)
    BY DEF SampleInv
<1>. HIDE DEF new, o
<1>4. n = [model |-> new.model, sample |-> o.sample, moved |-> (o.moved \/ o.model # new.model)]
    <2> DEFINE g == o.moved \/ o.model # new.model
    <2>1. n = [o EXCEPT !.model = new.model, !.moved = g]
        OBVIOUS
    <2>. HIDE DEF n, g
    <2>2. n = [model |-> new.model, sample |-> o.sample, moved |-> g]
        BY <1>3, <2>1 DEF IsExperiment
    <2>. QED  BY <2>2 DEF g
<1>. HIDE DEF n
<1>5. IsExperiment(n) /\ Fits(n)
    <2> DEFINE g == o.moved \/ o.model # new.model
    <2>1. g \in BOOLEAN /\ (~g => ~o.moved /\ o.model = new.model)
        BY <1>3 DEF IsExperiment
    <2>2. n = [model |-> new.model, sample |-> o.sample, moved |-> g]
        BY <1>4
    <2>. HIDE DEF g
    <2>. QED  BY <1>3, <2>1, <2>2 DEF IsExperiment, Fits
<1>6. IsExperiment(e) /\ Fits(e)
    BY <1>2, <1>5
<1>. HIDE DEF e
<1>. QED  BY <1>1, <1>6, SampleTurn

LEMMA SampleStep == Base /\ SampleInv /\ [Next]_vars => SampleInv'
<1> SUFFICES ASSUME Base, SampleInv, [Next]_vars PROVE SampleInv'
    OBVIOUS
<1>0. "admin" \in App
    BY DEF App
<1>1. RequestStep \/ promote_canary \/ rollback_canary \/ (\E m \in Model : set_canary(m)) \/ UNCHANGED vars => SampleInv'
    <2>1. ASSUME NEW m \in Model, set_canary(m) PROVE SampleInv'
        <3> DEFINE e == [NoExperiment EXCEPT !.model = m]
        <3>1. exp' = [exp EXCEPT !["admin"] = e] /\ req' = req /\ IsExperiment(e) /\ Fits(e)
            BY <2>1, NewExperiment DEF set_canary, KeepAllButCalls
        <3>. HIDE DEF e
        <3>. QED  BY <1>0, <3>1, SampleTurn
    <2>2. CASE promote_canary \/ rollback_canary
        <3>1. exp' = [exp EXCEPT !["admin"] = NoExperiment] /\ req' = req
            BY <2>2 DEF promote_canary, rollback_canary, EndCanary, KeepAllButCalls
        <3>. QED  BY <1>0, <3>1, SampleTurn, NoExperimentFits
    <2>3. CASE UNCHANGED vars
        BY <2>3, SampleSame DEF vars
    <2>. QED  BY <2>1, <2>2, <2>3, SampleRequest
<1>2. \A a \in App, p \in {"watcher", "api"} :
          (p = "api" => a = "admin") /\ (Read(a, p) \/ Swap(a, p) \/ UpdateResolver(a, p) \/ UpdateCanary(a, p) \/ UpdateHealth(a, p)) => SampleInv'
    <2>1. \A a \in App, p \in {"watcher", "api"} :
              Read(a, p) \/ Swap(a, p) \/ UpdateResolver(a, p) \/ UpdateHealth(a, p) => UNCHANGED <<exp, req>>
        BY DEF Read, Swap, UpdateResolver, UpdateHealth
    <2>. QED  BY <2>1, SampleSame, SampleCanary
<1>3. \A c \in FileContent : WriteFile(c) => SampleInv'
    BY SampleSame DEF WriteFile
<1>4. \A a \in App : SecondPasses(a) \/ on_file_changed(a) => SampleInv'
    BY SampleSame DEF SecondPasses, on_file_changed
<1>5. \A kind \in {"reload", "update"} : StartLoad(kind) => SampleInv'
    BY SampleSame DEF StartLoad
<1>6. \A a \in App, m \in Model, after \in Status :
          m \in DOMAIN health[a] /\ after \in {Passed(health[a][m]), Failed(health[a][m])} /\ FinishCheck(a, m, after) => SampleInv'
    BY SampleSame DEF FinishCheck
<1>7. \A m \in Model : disable_model(m) => SampleInv'
    BY SampleSame DEF disable_model
<1>. QED  BY <1>1, <1>2, <1>3, <1>4, <1>5, <1>6, <1>7, StepCases

LEMMA InitSample == Init => SampleInv
BY ExperimentOfFits, NoRequestServed DEF Init, SampleInv

\* A canary's samples that count and are not marked as escalated were answered by its model,
\* whatever loads, admin requests, failures, flags and escalations come between the choice of
\* the canary and the record of the result.
THEOREM SamplesFitTheorem == ControlSpec => []SamplesFit
<1>1. SampleInv => SamplesFit
    BY DEF SampleInv, Fits, SamplesFit
<1>. QED  BY <1>1, InitBase, BaseStep, InitSample, SampleStep, PTL DEF ControlSpec

=============================================================================
