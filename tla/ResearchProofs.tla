---------------------------- MODULE ResearchProofs ----------------------------
(***************************************************************************)
(* What a snapshot of a research session and a reported backtest can be    *)
(* trusted for, for any number of requests, chats and changes by clients.  *)
(* One inductive invariant follows strategy, model and plugin from the     *)
(* agents' contexts into the snapshots and back into the context of a      *)
(* chat; a second one the parameters, between the context, the row and     *)
(* what an agent has read of the row.                                      *)
(***************************************************************************)
EXTENDS Research, TLAPS

\* A context or snapshot names a strategy that was committed or that a client came with, a
\* model that was committed, and that model's own plugin.
Sound(c) ==
    /\ c.strategy # None => strategies[c.strategy] # None \/ c.strategy \in named
    /\ c.model # None => models[c.model] # None
    /\ c.plugin # None => c.model # None /\ models[c.model].plugin = c.plugin

\* What request r carries where it is.
Own(r) ==
    /\ Sound(ctx[r])
    /\ pc[r] \notin {"idle", "over", "strategy"} => ctx[r].strategy # None
    /\ pc[r] \in {"idle", "strategy", "features", "model"} => models[r] = None
    /\ pc[r] = "tuned" => ctx[r].found \in Params
    /\ pc[r] = "trained" => ctx[r].view \in Params

SessionsInv ==
    \A r \in Requests : sessions[r] # None =>
       /\ sessions[r].strategy # None /\ Sound(sessions[r])
       /\ sessions[r].best_model \in {None, sessions[r].plugin}

Inv == TypeOK /\ (\A r \in Requests : Own(r)) /\ SessionsInv

\* No strategy or model comes to nothing, and no model changes its plugin.
Kept ==
    /\ named \subseteq named'
    /\ \A i \in Ids : strategies[i] # None => strategies'[i] # None
    /\ \A q \in Requests : models[q] # None =>
          models'[q] # None /\ models'[q].plugin = models[q].plugin

\* An agent goes on with the strategy, the model and the plugin it was given.
Same(d, c) == d.strategy = c.strategy /\ d.model = c.model /\ d.plugin = c.plugin

\* A request's context is one, and names requests.
LEMMA ContextOf ==
    ASSUME TypeOK, NEW r \in Requests
    PROVE  /\ ctx[r] \in Contexts
           /\ ctx[r].strategy \in Ids \cup {None} /\ ctx[r].model \in Requests \cup {None}
<1>1. ctx[r] \in Contexts
  BY DEF TypeOK
<1> QED BY <1>1 DEF Contexts

-----------------------------------------------------------------------------
\* None is nothing that the variables hold besides.
LEMMA NoneIsNothing ==
    /\ None \notin Ids /\ None \notin Requests /\ None \notin Params /\ None \notin Models
    /\ None # "draft" /\ None # "validated" /\ None # "gone"
BY ResearchAssumption DEF Ids

\* What is sound stays so while rows are kept.
LEMMA SoundKept ==
    ASSUME Kept, NEW c, c.strategy \in Ids \cup {None}, c.model \in Requests \cup {None},
           Sound(c)
    PROVE  /\ c.strategy # None => strategies'[c.strategy] # None \/ c.strategy \in named'
           /\ c.model # None => models'[c.model] # None
           /\ c.plugin # None => c.model # None /\ models'[c.model].plugin = c.plugin
BY DEF Kept, Sound

\* A request that takes a step leaves the others and the sessions as they are.
LEMMA OwnStep ==
    ASSUME Inv, NEW r \in Requests, Kept, Own(r)',
           pc' \in [Requests -> Labels], ctx' \in [Requests -> Contexts],
           \A q \in Requests \ {r} :
              pc'[q] = pc[q] /\ ctx'[q] = ctx[q] /\ (models[q] = None => models'[q] = None),
           poisoned' \subseteq Requests,
           strategies' \in [Ids -> {None, "draft", "validated", "gone"}],
           models' \in [Requests -> Models \cup {None}],
           named' \subseteq Ids, UNCHANGED <<sessions, patched, changes>>
    PROVE  Inv'
<1>1. TypeOK'
  BY DEF Inv, TypeOK
<1>2. ASSUME NEW q \in Requests
      PROVE  Own(q)'
  <2>1. CASE q = r
    BY <2>1
  <2>2. CASE q # r
    <3>1. ctx[q].strategy \in Ids \cup {None} /\ ctx[q].model \in Requests \cup {None}
      BY ContextOf DEF Inv
    <3>2. Sound(ctx[q]) /\ Own(q) /\ pc'[q] = pc[q] /\ ctx'[q] = ctx[q]
      BY <2>2 DEF Inv, Own
    <3>3. Sound(ctx[q])'
      BY <3>1, <3>2, SoundKept DEF Sound
    <3> QED BY <2>2, <3>2, <3>3 DEF Own
  <2> QED BY <2>1, <2>2
<1>3. ASSUME NEW q \in Requests, sessions'[q] # None
      PROVE  /\ sessions'[q].strategy # None /\ Sound(sessions[q])'
             /\ sessions'[q].best_model \in {None, sessions'[q].plugin}
  <2>1. sessions[q].strategy \in Ids \cup {None} /\ sessions[q].model \in Requests \cup {None}
    BY <1>3 DEF Inv, TypeOK, Snapshots
  <2>2. Sound(sessions[q])
    BY <1>3 DEF Inv, SessionsInv
  <2>3. Sound(sessions[q])'
    BY <2>1, <2>2, SoundKept DEF Sound
  <2> QED BY <1>3, <2>3 DEF Inv, SessionsInv
<1> QED BY <1>1, <1>2, <1>3 DEF Inv, SessionsInv

\* A step that leaves the rows alone and keeps what a context says of them.
LEMMA QuietStep ==
    ASSUME Inv, NEW r \in Requests, UNCHANGED <<rows, sessions>>, poisoned' \subseteq Requests,
           NEW l \in Labels, Goto(r, l), ctx' \in [Requests -> Contexts],
           \A q \in Requests \ {r} : ctx'[q] = ctx[q],
           /\ ctx'[r].strategy = ctx[r].strategy /\ ctx'[r].model = ctx[r].model
           /\ ctx'[r].plugin = ctx[r].plugin,
           l \notin {"idle", "over", "strategy"} => ctx[r].strategy # None,
           l \in {"idle", "strategy", "features", "model"} => models[r] = None,
           l = "tuned" => ctx'[r].found \in Params,
           l = "trained" => ctx'[r].view \in Params
    PROVE  Inv'
<1>1. Kept
  BY DEF Kept, rows
<1>2. pc' \in [Requests -> Labels] /\ pc'[r] = l /\ \A q \in Requests \ {r} : pc'[q] = pc[q]
  BY DEF Goto, Inv, TypeOK
<1>3. Sound(ctx[r])
  BY DEF Inv, Own
<1>4. Own(r)'
  BY <1>2, <1>3 DEF Own, Sound, rows
<1> QED BY <1>1, <1>2, <1>4, OwnStep DEF Inv, TypeOK, rows

\* A request that is over carries nothing.
LEMMA OverStep ==
    ASSUME Inv, NEW r \in Requests, Over(r), UNCHANGED rows
    PROVE  /\ TypeOK' <=> sessions' \in [Requests -> Snapshots \cup {None}]
           /\ \A q \in Requests : Own(q)'
<1> USE ResearchAssumption
<1>1. NewContext \in Contexts
  BY DEF NewContext, Contexts
<1>2. /\ pc' \in [Requests -> Labels] /\ ctx' \in [Requests -> Contexts]
      /\ pc'[r] = "over" /\ ctx'[r] = NewContext
      /\ \A q \in Requests \ {r} : pc'[q] = pc[q] /\ ctx'[q] = ctx[q]
  BY <1>1 DEF Over, Goto, Labels, Inv, TypeOK
<1>3. TypeOK' <=> sessions' \in [Requests -> Snapshots \cup {None}]
  BY <1>2 DEF Over, rows, Inv, TypeOK
<1>4. ASSUME NEW q \in Requests
      PROVE  Own(q)'
  <2>1. CASE q = r
    BY <1>2, <2>1 DEF Own, Sound, NewContext
  <2>2. CASE q # r
    BY <1>2, <2>2 DEF Own, Sound, Inv, rows
  <2> QED BY <2>1, <2>2
<1> QED BY <1>3, <1>4

\* A request that is over without a snapshot.
LEMMA RaiseStep ==
    ASSUME Inv, NEW r \in Requests, Raise(r)
    PROVE  Inv'
<1>1. Over(r) /\ UNCHANGED <<rows, sessions>>
  BY DEF Raise
<1>2. SessionsInv'
  BY <1>1 DEF rows, SessionsInv, Sound, Inv
<1> QED BY <1>1, <1>2, OverStep DEF Inv, TypeOK

-----------------------------------------------------------------------------
\* A request begins, with a new context or a rehydrated one.
LEMMA ParseStep ==
    ASSUME Inv, NEW r \in Requests, pc[r] = "idle", NEW c \in Contexts, Parse(r, c),
           named \subseteq named', named' \subseteq Ids,
           c.strategy # None => strategies[c.strategy] # None \/ c.strategy \in named',
           c.model # None => models[c.model] # None,
           c.plugin # None => c.model # None /\ models[c.model].plugin = c.plugin
    PROVE  Inv'
<1>1. PICK words \in BOOLEAN :
         ctx' = [ctx EXCEPT ![r] = [c EXCEPT !.symbols = words \/ c.symbols]]
  BY DEF Parse
<1> DEFINE d == [c EXCEPT !.symbols = words \/ c.symbols]
<1>2. d \in Contexts /\ d.strategy = c.strategy /\ d.model = c.model /\ d.plugin = c.plugin
  BY DEF Contexts
<1>3. ctx' \in [Requests -> Contexts] /\ ctx'[r] = d /\ \A q \in Requests \ {r} : ctx'[q] = ctx[q]
  BY <1>1, <1>2 DEF Inv, TypeOK
<1>4. /\ pc' \in [Requests -> Labels] /\ pc'[r] = "strategy"
      /\ \A q \in Requests \ {r} : pc'[q] = pc[q]
  BY DEF Parse, Goto, Inv, TypeOK, Labels
<1>5. /\ UNCHANGED <<poisoned, strategies, models, patched, changes, sessions>>
      /\ models[r] = None
  BY DEF Parse, Inv, Own
<1>6. Own(r)'
  BY <1>2, <1>3, <1>4, <1>5 DEF Own, Sound
<1>7. Kept
  BY <1>5 DEF Kept
<1> QED BY <1>3, <1>4, <1>5, <1>6, <1>7, OwnStep DEF Inv, TypeOK

\* The contexts that requests begin with are sound.
LEMMA BeginStep ==
    ASSUME Inv, NEW r \in Requests, Ask(r) \/ Chat(r)
    PROVE  Inv'
<1> USE ResearchAssumption
<1>0. NewContext \in Contexts
  BY DEF NewContext, Contexts
<1>1. ASSUME Ask(r)
      PROVE  Inv'
  <2>1. PICK s \in {None} \cup {i \in Ids : i \in Strangers \/ strategies[i] # None},
             streams \in BOOLEAN :
             /\ Parse(r, [NewContext EXCEPT !.strategy = s, !.streams = streams])
             /\ named' = named \cup ({s} \ {None})
    BY <1>1 DEF Ask
  <2> DEFINE c == [NewContext EXCEPT !.strategy = s, !.streams = streams]
  <2>2. c \in Contexts /\ c.strategy = s /\ c.model = None /\ c.plugin = None
    BY <1>0 DEF NewContext, Contexts
  <2>3. named \subseteq named' /\ named' \subseteq Ids /\ (s # None => s \in named')
    BY <2>1 DEF Inv, TypeOK
  <2> HIDE DEF c
  <2>4. Parse(r, c)
    BY <2>1 DEF c
  <2> QED BY <1>1, <2>2, <2>3, <2>4, ParseStep DEF Ask
<1>2. ASSUME Chat(r), Parse(r, NewContext)
      PROVE  Inv'
  <2>1. Sound(NewContext)
    BY DEF Sound, NewContext
  <2> QED BY <1>0, <1>2, <2>1, ParseStep DEF Chat, Sound, Inv, TypeOK
<1>3. ASSUME Chat(r), NEW p \in Requests, sessions[p] # None, Parse(r, Rehydrate(p))
      PROVE  Inv'
  <2>1. sessions[p] \in Snapshots /\ Sound(sessions[p])
        /\ sessions[p].best_model \in {None, sessions[p].plugin}
    BY <1>3 DEF Inv, TypeOK, SessionsInv
  <2>2. /\ Rehydrate(p) \in Contexts
        /\ Rehydrate(p).strategy = sessions[p].strategy /\ Rehydrate(p).model = sessions[p].model
        /\ Rehydrate(p).plugin = sessions[p].best_model
    BY <1>0, <2>1 DEF Rehydrate, NewContext, Contexts, Snapshots
  <2>3. Sound(Rehydrate(p))
    BY <2>1, <2>2 DEF Sound
  <2> QED BY <1>3, <2>2, <2>3, ParseStep DEF Chat, Sound, Inv, TypeOK
<1> QED BY <1>1, <1>2, <1>3 DEF Chat

\* The strategy of the request is in its context when its row is.
LEMMA StrategyStep ==
    ASSUME Inv, NEW r \in Requests, EnsureStrategy(r)
    PROVE  Inv'
<1> USE ResearchAssumption
<1>0. models[r] = None
  BY DEF EnsureStrategy, Inv, Own
<1>1. ASSUME ctx[r].strategy # None, Goto(r, "features"), UNCHANGED <<ctx, poisoned, rows, sessions>>
      PROVE  Inv'
  BY <1>0, <1>1, QuietStep DEF Inv, TypeOK, Labels
<1>2. ASSUME strategies' = [strategies EXCEPT ![r] = "draft"], ctx' = [ctx EXCEPT ![r].strategy = r],
             Goto(r, "features"), UNCHANGED <<poisoned, models, patched, named, changes, sessions>>
      PROVE  Inv'
  <2>1. ctx' = [ctx EXCEPT ![r] = [@ EXCEPT !.strategy = r]]
    BY <1>2
  <2>2. /\ [ctx[r] EXCEPT !.strategy = r] \in Contexts
        /\ [ctx[r] EXCEPT !.strategy = r].strategy = r
        /\ [ctx[r] EXCEPT !.strategy = r].model = ctx[r].model
        /\ [ctx[r] EXCEPT !.strategy = r].plugin = ctx[r].plugin
    <3>1. ctx[r] \in Contexts
      BY ContextOf DEF Inv
    <3> QED BY <3>1 DEF Contexts, Ids
  <2>3. /\ ctx' \in [Requests -> Contexts] /\ ctx'[r].strategy = r
        /\ ctx'[r].model = ctx[r].model /\ ctx'[r].plugin = ctx[r].plugin
        /\ \A q \in Requests \ {r} : ctx'[q] = ctx[q]
    BY <2>1, <2>2 DEF Inv, TypeOK
  <2>4. /\ pc' \in [Requests -> Labels] /\ pc'[r] = "features"
        /\ \A q \in Requests \ {r} : pc'[q] = pc[q]
    BY <1>2 DEF Goto, Inv, TypeOK, Labels
  <2>5. /\ strategies' \in [Ids -> {None, "draft", "validated", "gone"}]
        /\ strategies'[r] # None /\ Kept
    BY <1>2 DEF Kept, Inv, TypeOK, Ids
  <2>6. Sound(ctx[r])
    BY DEF Inv, Own
  <2>7. Own(r)'
    BY <1>0, <1>2, <2>3, <2>4, <2>5, <2>6 DEF Own, Sound
  <2> QED BY <1>2, <2>3, <2>4, <2>5, <2>7, OwnStep DEF Inv, TypeOK
<1> QED BY <1>1, <1>2, RaiseStep DEF EnsureStrategy

\* The features come into the context.
LEMMA FeaturesStep ==
    ASSUME Inv, NEW r \in Requests, DiscoverFeatures(r)
    PROVE  Inv'
<1>1. ASSUME ctx' = [ctx EXCEPT ![r].features = TRUE], Goto(r, "model"),
             poisoned' \subseteq Requests, UNCHANGED <<rows, sessions>>
      PROVE  Inv'
  <2>1. ctx' = [ctx EXCEPT ![r] = [@ EXCEPT !.features = TRUE]]
    BY <1>1
  <2> DEFINE d == [ctx[r] EXCEPT !.features = TRUE]
  <2>0. ctx[r] \in Contexts
    BY ContextOf DEF Inv
  <2>2. /\ d \in Contexts /\ d.strategy = ctx[r].strategy
        /\ d.model = ctx[r].model /\ d.plugin = ctx[r].plugin
    BY <2>0 DEF Contexts
  <2>3. /\ ctx' \in [Requests -> Contexts] /\ ctx'[r] = d
        /\ \A q \in Requests \ {r} : ctx'[q] = ctx[q]
    BY <2>1, <2>2 DEF Inv, TypeOK
  <2>4. ctx[r].strategy # None /\ models[r] = None
    BY DEF DiscoverFeatures, Inv, Own
  <2> QED BY <1>1, <2>2, <2>3, <2>4, QuietStep DEF Labels
<1>2. poisoned \subseteq Requests /\ poisoned \cup {r} \subseteq Requests
  BY DEF Inv, TypeOK
<1> QED BY <1>1, <1>2, RaiseStep DEF DiscoverFeatures, Caught

-----------------------------------------------------------------------------
\* A context in which an agent notes what it found and what it read.
LEMMA Noted ==
    ASSUME NEW c \in Contexts, NEW f \in Params \cup {None, "passed", "failed"},
           NEW v \in Params \cup {None, "draft", "validated"}
    PROVE  /\ Note(c, f, v) \in Contexts /\ Same(Note(c, f, v), c)
           /\ Note(c, f, v).found = f /\ Note(c, f, v).view = v
<1> DEFINE e == [c EXCEPT !.found = f]
           d == [e EXCEPT !.view = v]
<1>1. e \in Contexts /\ Same(e, c) /\ e.found = f
  BY DEF Contexts, Same
<1>2. Note(c, f, v) = d
  BY DEF Note
<1> HIDE DEF e
<1>3. d \in Contexts /\ Same(d, e) /\ d.found = e.found /\ d.view = v
  BY <1>1 DEF Contexts, Same
<1> QED BY <1>1, <1>2, <1>3 DEF Same

\* A context in which the tuned parameters are noted.
LEMMA NotedParams ==
    ASSUME NEW c \in Contexts, NEW p \in Params
    PROVE  WithParams(c, p) \in Contexts /\ Same(WithParams(c, p), c)
<1> DEFINE e == [c EXCEPT !.params = p]
<1>1. e \in Contexts /\ Same(e, c)
  BY DEF Contexts, Same
<1>2. WithParams(c, p) = Note(e, None, None)
  BY DEF WithParams
<1> HIDE DEF e
<1> QED BY <1>1, <1>2, Noted DEF Same

\* A context with a model.
LEMMA NotedModel ==
    ASSUME NEW c \in Contexts, NEW r \in Requests, NEW g \in Plugins, NEW p \in Params
    PROVE  LET d == WithModel(c, r, g, p)
           IN  d \in Contexts /\ d.strategy = c.strategy /\ d.model = r /\ d.plugin = g
<1> DEFINE e == [c EXCEPT !.model = r]
           f == [e EXCEPT !.plugin = g]
           d == [f EXCEPT !.params = p]
<1>1. e \in Contexts /\ e.strategy = c.strategy /\ e.model = r
  BY DEF Contexts
<1>2. WithModel(c, r, g, p) = d
  BY DEF WithModel
<1> HIDE DEF e
<1>3. f \in Contexts /\ f.strategy = e.strategy /\ f.model = e.model /\ f.plugin = g
  BY <1>1 DEF Contexts
<1> HIDE DEF f
<1>4. d \in Contexts /\ d.strategy = f.strategy /\ d.model = f.model /\ d.plugin = f.plugin
  BY <1>3 DEF Contexts
<1> QED BY <1>1, <1>2, <1>3, <1>4

\* Model, plugin and row belong together.
LEMMA ModelStep ==
    ASSUME Inv, NEW r \in Requests, DiscoverModel(r)
    PROVE  Inv'
<1>0. ctx[r].strategy # None /\ models[r] = None /\ Sound(ctx[r])
  BY DEF DiscoverModel, Inv, Own
<1>1. ASSUME NEW g \in Plugins, NEW p \in Params,
             models' = [models EXCEPT ![r] =
                           [plugin |-> g, params |-> p, artifact |-> None, there |-> TRUE]],
             ctx' = [ctx EXCEPT ![r] = WithModel(@, r, g, p)],
             Goto(r, "tune"), UNCHANGED <<poisoned, strategies, patched, named, changes, sessions>>
      PROVE  Inv'
  <2> DEFINE row == [plugin |-> g, params |-> p, artifact |-> None, there |-> TRUE]
             d == WithModel(ctx[r], r, g, p)
  <2>1. row \in Models /\ row # None /\ row.plugin = g
    <3>1. row \in Models
      BY <1>1, ResearchAssumption DEF Models
    <3> QED BY <3>1, NoneIsNothing
  <2>2. ctx' = [ctx EXCEPT ![r] = d] /\ ctx[r] \in Contexts
    BY <1>1 DEF Inv, TypeOK
  <2>3. d \in Contexts /\ d.strategy = ctx[r].strategy /\ d.model = r /\ d.plugin = g
    BY <1>1, <2>2, NotedModel
  <2>4. /\ ctx' \in [Requests -> Contexts] /\ ctx'[r] = d
        /\ \A q \in Requests \ {r} : ctx'[q] = ctx[q]
    BY <2>2, <2>3 DEF Inv, TypeOK
  <2>5. /\ pc' \in [Requests -> Labels] /\ pc'[r] = "tune"
        /\ \A q \in Requests \ {r} : pc'[q] = pc[q]
    BY <1>1 DEF Goto, Inv, TypeOK, Labels
  <2>6. /\ models' \in [Requests -> Models \cup {None}] /\ models'[r] = row
        /\ \A q \in Requests \ {r} : models'[q] = models[q]
    BY <1>1, <2>1 DEF Inv, TypeOK
  <2>7. Kept
    BY <1>0, <1>1, <2>6 DEF Kept
  <2> HIDE DEF d, row
  <2>8. Own(r)'
    <3>1. Sound(ctx[r])'
      <4>1. /\ ctx'[r].strategy = ctx[r].strategy /\ ctx'[r].model = r /\ ctx'[r].plugin = g
            /\ models'[r] # None /\ models'[r].plugin = g /\ r # None
        BY <2>1, <2>3, <2>4, <2>6, NoneIsNothing
      <4>2. UNCHANGED <<strategies, named>>
        BY <1>1
      <4> QED BY <1>0, <4>1, <4>2 DEF Sound
    <3>2. ctx'[r].strategy # None
      BY <1>0, <2>3, <2>4
    <3> QED BY <2>5, <3>1, <3>2 DEF Own
  <2> QED BY <1>1, <2>4, <2>5, <2>6, <2>7, <2>8, OwnStep DEF Inv, TypeOK
<1>2. ASSUME Caught(r, "tune"), UNCHANGED <<ctx, rows, sessions>>
      PROVE  Inv'
  <2>1. poisoned' \subseteq Requests /\ Goto(r, "tune")
    BY <1>2 DEF Caught, Inv, TypeOK
  <2> QED BY <1>0, <1>2, <2>1, QuietStep DEF Inv, TypeOK, Labels
<1> QED BY <1>1, <1>2, RaiseStep DEF DiscoverModel

-----------------------------------------------------------------------------
\* Steps of the agents after that change neither strategy nor model nor plugin.
LEMMA LaterStep ==
    ASSUME Inv, NEW r \in Requests, pc[r] \notin {"idle", "over", "strategy"},
           UNCHANGED <<rows, sessions>>, poisoned' \subseteq Requests,
           NEW l \in Labels \ {"idle", "strategy", "features", "model"}, Goto(r, l),
           NEW d \in Contexts, ctx' = [ctx EXCEPT ![r] = d],
           Same(d, ctx[r]),
           l = "tuned" => d.found \in Params, l = "trained" => d.view \in Params
    PROVE  Inv'
<1>1. ctx' \in [Requests -> Contexts] /\ ctx'[r] = d /\ \A q \in Requests \ {r} : ctx'[q] = ctx[q]
  BY DEF Inv, TypeOK
<1>2. ctx[r].strategy # None
  BY DEF Inv, Own
<1> QED BY <1>1, <1>2, QuietStep DEF Same

\* Steps of the agents that leave the context alone.
LEMMA SkipStep ==
    ASSUME Inv, NEW r \in Requests, pc[r] \notin {"idle", "over", "strategy"},
           UNCHANGED <<ctx, rows, sessions>>, poisoned' \subseteq Requests,
           NEW l \in Labels \ {"idle", "strategy", "features", "model", "tuned", "trained"},
           Goto(r, l)
    PROVE  Inv'
<1>1. ctx[r] \in Contexts /\ ctx' = [ctx EXCEPT ![r] = ctx[r]]
  BY DEF Inv, TypeOK
<1> QED BY <1>1, LaterStep DEF Same

\* A caught exception may poison the session of its request.
LEMMA CaughtMoves ==
    ASSUME Inv, NEW r \in Requests, NEW l, Caught(r, l)
    PROVE  Goto(r, l) /\ poisoned' \subseteq Requests
BY DEF Caught, Inv, TypeOK

\* Tuning reads the row, if it is there, and remembers what it found.
LEMMA TuneStep ==
    ASSUME Inv, NEW r \in Requests, Tune(r) \/ SkipTuning(r)
    PROVE  Inv'
<1>0. pc[r] = "tune" /\ UNCHANGED <<rows, sessions>> /\ ctx[r] \in Contexts
  BY DEF Tune, SkipTuning, Inv, TypeOK
<1> DEFINE v == ParamsOf(ctx[r].model)
<1>1. ASSUME NEW p \in Params, Goto(r, "tuned"), UNCHANGED poisoned,
             ctx' = [ctx EXCEPT ![r] = Note(@, p, v)]
      PROVE  Inv'
  <2> DEFINE d == Note(ctx[r], p, v)
  <2>1. v \in Params \cup {None}
    BY DEF ParamsOf, There, Inv, TypeOK, Contexts, Models
  <2> HIDE DEF v
  <2>2. d \in Contexts /\ Same(d, ctx[r]) /\ d.found = p
    BY <1>0, <2>1, Noted
  <2>3. ctx' = [ctx EXCEPT ![r] = d]
    BY <1>1 DEF Inv, TypeOK
  <2>4. poisoned' \subseteq Requests
    BY <1>1 DEF Inv, TypeOK
  <2>5. "tuned" \in Labels \ {"idle", "strategy", "features", "model"}
    BY DEF Labels
  <2> HIDE DEF d
  <2> QED BY <1>0, <1>1, <2>2, <2>3, <2>4, <2>5, LaterStep
<1>2. ASSUME Caught(r, "train") \/ (Goto(r, "train") /\ UNCHANGED poisoned), UNCHANGED ctx
      PROVE  Inv'
  BY <1>0, <1>2, CaughtMoves, SkipStep DEF Labels, Inv, TypeOK
<1> QED BY <1>1, <1>2 DEF Tune, SkipTuning

\* A row keeps its plugin and its place when its parameters or artifact are written.
LEMMA RowWritten ==
    ASSUME Inv, NEW m \in Requests, models[m] # None, NEW row \in Models,
           row.plugin = models[m].plugin, models' = [models EXCEPT ![m] = row],
           UNCHANGED <<strategies, named>>
    PROVE  /\ models' \in [Requests -> Models \cup {None}] /\ Kept
           /\ \A q \in Requests : models[q] = None => models'[q] = None
BY NoneIsNothing DEF Kept, Inv, TypeOK

\* Steps of the agents that write a row and change neither strategy nor model nor plugin of
\* the context.
LEMMA WritingStep ==
    ASSUME Inv, NEW r \in Requests, pc[r] \notin {"idle", "over", "strategy"},
           UNCHANGED <<patched, named, changes, sessions>>, poisoned' \subseteq Requests,
           strategies' \in [Ids -> {None, "draft", "validated", "gone"}],
           models' \in [Requests -> Models \cup {None}], Kept,
           \A q \in Requests : models[q] = None => models'[q] = None,
           NEW l \in Labels \ {"idle", "strategy", "features", "model", "tuned", "trained"},
           Goto(r, l),
           NEW d \in Contexts, ctx' = [ctx EXCEPT ![r] = d],
           Same(d, ctx[r])
    PROVE  Inv'
<1>1. ctx' \in [Requests -> Contexts] /\ ctx'[r] = d /\ \A q \in Requests \ {r} : ctx'[q] = ctx[q]
  BY DEF Inv, TypeOK
<1>2. pc' \in [Requests -> Labels] /\ pc'[r] = l /\ \A q \in Requests \ {r} : pc'[q] = pc[q]
  BY DEF Goto, Inv, TypeOK
<1>3. ctx[r].strategy # None /\ Sound(ctx[r])
  BY DEF Inv, Own
<1>4. ctx[r].strategy \in Ids \cup {None} /\ ctx[r].model \in Requests \cup {None}
  BY ContextOf DEF Inv
<1>5. Own(r)'
  BY <1>1, <1>2, <1>3, <1>4, SoundKept DEF Own, Sound, Same
<1>6. named' \subseteq Ids
  BY DEF Inv, TypeOK
<1> QED BY <1>1, <1>2, <1>5, <1>6, OwnStep

\* A session is told off, or an agent gives up: it forgets what it found and read.
LEMMA GiveUpStep ==
    ASSUME Inv, NEW r \in Requests, pc[r] \notin {"idle", "over", "strategy"},
           UNCHANGED <<rows, sessions>>, poisoned' \subseteq Requests,
           ctx' = [ctx EXCEPT ![r] = Note(@, None, None)],
           NEW l \in Labels \ {"idle", "strategy", "features", "model", "tuned", "trained"},
           Goto(r, l)
    PROVE  Inv'
<1> DEFINE d == Note(ctx[r], None, None)
<1>1. ctx' = [ctx EXCEPT ![r] = d] /\ ctx[r] \in Contexts
  BY DEF Inv, TypeOK
<1>3. d \in Contexts /\ Same(d, ctx[r])
  BY <1>1, Noted
<1> HIDE DEF d
<1> QED BY <1>1, <1>3, LaterStep

\* The tuned parameters are written to the row or the session is told off.
LEMMA SaveTunedStep ==
    ASSUME Inv, NEW r \in Requests, SaveTuned(r)
    PROVE  Inv'
<1> DEFINE m == ctx[r].model
           updates == ctx[r].view \notin {None, ctx[r].found}
<1>0. pc[r] = "tuned" /\ ctx[r].found \in Params /\ ctx[r] \in Contexts
  BY DEF SaveTuned, Inv, Own, TypeOK
<1>1. ASSUME updates => There(m),
             models' = IF updates THEN [models EXCEPT ![m].params = ctx[r].found] ELSE models,
             ctx' = [ctx EXCEPT ![r] = WithParams(@, ctx[r].found)],
             Goto(r, "train"), UNCHANGED <<poisoned, strategies, patched, named, changes, sessions>>
      PROVE  Inv'
  <2> DEFINE d == WithParams(ctx[r], ctx[r].found)
  <2>1. d \in Contexts /\ Same(d, ctx[r])
    BY <1>0, NotedParams
  <2>2. ctx' = [ctx EXCEPT ![r] = d]
    BY <1>1 DEF Inv, TypeOK
  <2>3. /\ models' \in [Requests -> Models \cup {None}] /\ Kept
        /\ \A q \in Requests : models[q] = None => models'[q] = None
    <3>1. CASE updates
      <4> DEFINE row == [models[m] EXCEPT !.params = ctx[r].found]
      <4>1. m \in Requests /\ models[m] # None /\ models[m] \in Models
        BY <1>1, <3>1 DEF There, Inv, TypeOK, Contexts
      <4>2. row \in Models /\ row.plugin = models[m].plugin
        BY <1>0, <4>1 DEF Models
      <4>3. models' = [models EXCEPT ![m] = row]
        BY <1>1, <3>1
      <4> HIDE DEF row
      <4> QED BY <1>1, <4>1, <4>2, <4>3, RowWritten
    <3>2. CASE ~updates
      BY <1>1, <3>2 DEF Kept, Inv, TypeOK
    <3> QED BY <3>1, <3>2
  <2>4. /\ "train" \in Labels \ {"idle", "strategy", "features", "model", "tuned", "trained"}
        /\ poisoned' \subseteq Requests
        /\ strategies' \in [Ids -> {None, "draft", "validated", "gone"}]
    BY <1>1 DEF Labels, Inv, TypeOK
  <2> HIDE DEF d
  <2> QED BY <1>0, <1>1, <2>1, <2>2, <2>3, <2>4, WritingStep
<1>2. ASSUME Caught(r, "train"), UNCHANGED <<rows, sessions>>,
             ctx' = [ctx EXCEPT ![r] = Note(@, None, None)]
      PROVE  Inv'
  BY <1>0, <1>2, CaughtMoves, GiveUpStep DEF Labels
<1> QED BY <1>1, <1>2 DEF SaveTuned

-----------------------------------------------------------------------------
\* The model is trained with the parameters of its row, as read before and written after.
LEMMA TrainStep ==
    ASSUME Inv, NEW r \in Requests,
           Train(r) \/ SaveTrained(r) \/ Backtest(r) \/ BacktestFails(r)
    PROVE  Inv'
<1> DEFINE m == ctx[r].model
<1>0. /\ pc[r] \in {"train", "trained", "backtest"} /\ ctx[r] \in Contexts
      /\ m \in Requests \cup {None} /\ UNCHANGED <<patched, named, changes, sessions, strategies>>
  BY ContextOf DEF Train, SaveTrained, Backtest, BacktestFails, Inv, rows
<1>1. ASSUME Train(r)
      PROVE  Inv'
  <2> DEFINE v == models[m].params
             d == Note(ctx[r], None, v)
  <2>1. v \in Params
    BY <1>0, <1>1 DEF Train, There, Inv, TypeOK, Models
  <2> HIDE DEF v
  <2>2. d \in Contexts /\ Same(d, ctx[r]) /\ d.view \in Params
    BY <1>0, <2>1, Noted
  <2>3. /\ ctx' = [ctx EXCEPT ![r] = d] /\ Goto(r, "trained")
        /\ poisoned' \subseteq Requests /\ UNCHANGED <<rows, sessions>>
        /\ "trained" \in Labels \ {"idle", "strategy", "features", "model"}
    BY <1>1 DEF Train, Inv, TypeOK, Labels, v
  <2> HIDE DEF d
  <2> QED BY <1>0, <2>2, <2>3, LaterStep
<1>2. ASSUME SaveTrained(r)
      PROVE  Inv'
  <2> DEFINE d == Note(ctx[r], None, None)
             row == [models[m] EXCEPT !.artifact = ctx[r].view]
  <2>1. ctx[r].view \in Params /\ m \in Requests /\ models[m] \in Models /\ models[m] # None
    BY <1>0, <1>2 DEF SaveTrained, There, Inv, TypeOK, Own
  <2>2. row \in Models /\ row.plugin = models[m].plugin
    BY <2>1 DEF Models
  <2>3. models' = [models EXCEPT ![m] = row]
    BY <1>2 DEF SaveTrained
  <2>4. d \in Contexts /\ Same(d, ctx[r])
    BY <1>0, Noted
  <2>5. /\ ctx' = [ctx EXCEPT ![r] = d] /\ Goto(r, "backtest")
        /\ poisoned' \subseteq Requests
        /\ strategies' \in [Ids -> {None, "draft", "validated", "gone"}]
        /\ "backtest" \in Labels \ {"idle", "strategy", "features", "model", "tuned", "trained"}
    BY <1>0, <1>2 DEF SaveTrained, Inv, TypeOK, Labels
  <2> HIDE DEF d, row
  <2>6. /\ models' \in [Requests -> Models \cup {None}] /\ Kept
        /\ \A q \in Requests : models[q] = None => models'[q] = None
    BY <1>0, <2>1, <2>2, <2>3, RowWritten
  <2> QED BY <1>0, <2>4, <2>5, <2>6, WritingStep
<1>3. ASSUME Backtest(r)
      PROVE  Inv'
  <2> DEFINE b == IF There(m) THEN [plugin |-> models[m].plugin, params |-> models[m].params,
                                    artifact |-> models[m].artifact]
                  ELSE [plugin |-> None, params |-> Empty, artifact |-> None]
             d == [ctx[r] EXCEPT !.backtest = b]
  <2>1. b \in [plugin : Plugins \cup {None}, params : Params, artifact : Params \cup {None}]
    BY <1>0, ResearchAssumption DEF There, Inv, TypeOK, Models
  <2>2. ctx' = [ctx EXCEPT ![r] = d]
    BY <1>3 DEF Backtest
  <2> HIDE DEF b
  <2>3. d \in Contexts /\ Same(d, ctx[r])
    BY <1>0, <2>1 DEF Contexts, Same
  <2>4. /\ Goto(r, "validate") /\ poisoned' \subseteq Requests /\ UNCHANGED <<rows, sessions>>
        /\ "validate" \in Labels \ {"idle", "strategy", "features", "model", "tuned", "trained"}
    BY <1>3 DEF Backtest, Inv, TypeOK, Labels, rows
  <2> HIDE DEF d
  <2> QED BY <1>0, <2>2, <2>3, <2>4, LaterStep
<1>4. ASSUME BacktestFails(r)
      PROVE  Inv'
  BY <1>0, <1>4, CaughtMoves, GiveUpStep DEF BacktestFails, Labels
<1> QED BY <1>1, <1>2, <1>3, <1>4

\* A strategy gets a verdict, and only one that is there.
LEMMA StatusWritten ==
    ASSUME Inv, NEW s, StrategyThere(s), s \in Ids \cup {None},
           strategies' = [strategies EXCEPT ![s] = "validated"], UNCHANGED <<models, named>>
    PROVE  strategies' \in [Ids -> {None, "draft", "validated", "gone"}] /\ Kept
BY NoneIsNothing DEF StrategyThere, Kept, Inv, TypeOK

\* Validation writes at most the strategy's status.
LEMMA ValidationStep ==
    ASSUME Inv, NEW r \in Requests,
           \/ SkipValidation(r) \/ WalkForward(r) \/ WalkForwardFails(r)
           \/ SaveVerdict(r) \/ Cpcv(r) \/ Govern(r)
    PROVE  Inv'
<1> DEFINE s == ctx[r].strategy
           Later == Labels \ {"idle", "strategy", "features", "model", "tuned", "trained"}
<1>0. /\ pc[r] \in {"validate", "verdict", "cpcv", "govern"} /\ ctx[r] \in Contexts
      /\ s \in Ids \cup {None} /\ UNCHANGED <<models, patched, named, changes, sessions>>
  BY ContextOf
     DEF SkipValidation, WalkForward, WalkForwardFails, SaveVerdict, Cpcv, Govern, Inv, rows
<1>1. {"verdict", "cpcv", "govern", "store"} \subseteq Later
  BY DEF Labels
<1>2. poisoned \subseteq Requests
  BY DEF Inv, TypeOK
<1> HIDE DEF Later
<1>3. ASSUME SkipValidation(r) \/ Govern(r)
      PROVE  Inv'
  BY <1>0, <1>1, <1>2, <1>3, SkipStep DEF SkipValidation, Govern, Later
<1>4. ASSUME WalkForward(r)
      PROVE  Inv'
  <2>1. PICK verdict \in {"passed", "failed"} :
           ctx' = [ctx EXCEPT ![r] = Note(@, verdict, strategies[s])]
    BY <1>4 DEF WalkForward
  <2> DEFINE d == Note(ctx[r], verdict, strategies[s])
  <2>2. strategies[s] \in {"draft", "validated"}
    BY <1>0, <1>4 DEF WalkForward, StrategyThere, Inv, TypeOK
  <2>3. d \in Contexts /\ Same(d, ctx[r])
    BY <1>0, <2>2, Noted
  <2>4. /\ ctx' = [ctx EXCEPT ![r] = d] /\ Goto(r, "verdict") /\ UNCHANGED <<poisoned, rows, sessions>>
    BY <1>4, <2>1 DEF WalkForward
  <2> HIDE DEF d
  <2> QED BY <1>0, <1>1, <1>2, <2>3, <2>4, LaterStep DEF Later
<1>5. ASSUME WalkForwardFails(r)
      PROVE  Inv'
  BY <1>0, <1>1, <1>5, CaughtMoves, GiveUpStep DEF WalkForwardFails, Later
<1>6. ASSUME SaveVerdict(r)
      PROVE  Inv'
  <2> DEFINE d == Note(ctx[r], None, None)
  <2>1. d \in Contexts /\ Same(d, ctx[r])
    BY <1>0, Noted
  <2>2. ctx' = [ctx EXCEPT ![r] = d]
    BY <1>6 DEF SaveVerdict
  <2>3. PICK l \in Later : Goto(r, l) /\ poisoned' \subseteq Requests
    BY <1>1, <1>2, <1>6 DEF SaveVerdict, Caught
  <2>4. strategies' \in [Ids -> {None, "draft", "validated", "gone"}] /\ Kept
    <3>1. CASE strategies' = strategies
      BY <1>0, <3>1 DEF Kept, Inv, TypeOK
    <3>2. CASE StrategyThere(s) /\ strategies' = [strategies EXCEPT ![s] = "validated"]
      BY <1>0, <3>2, StatusWritten
    <3> QED BY <1>6, <3>1, <3>2 DEF SaveVerdict
  <2>5. models' \in [Requests -> Models \cup {None}]
    BY <1>0 DEF Inv, TypeOK
  <2> HIDE DEF d
  <2> QED BY <1>0, <2>1, <2>2, <2>3, <2>4, <2>5, WritingStep DEF Later
<1>7. ASSUME Cpcv(r)
      PROVE  Inv'
  <2>1. PICK verdict \in {"passed", "failed", "error"}, writes \in BOOLEAN :
          /\ writes => StrategyThere(s)
          /\ strategies' = IF writes THEN [strategies EXCEPT ![s] = "validated"] ELSE strategies
          /\ IF verdict = "error" THEN Caught(r, "govern") ELSE Goto(r, "govern") /\ UNCHANGED poisoned
    BY <1>7 DEF Cpcv
  <2>2. Goto(r, "govern") /\ poisoned' \subseteq Requests
    BY <1>2, <2>1, CaughtMoves
  <2>3. strategies' \in [Ids -> {None, "draft", "validated", "gone"}] /\ Kept
    <3>1. CASE writes
      BY <1>0, <2>1, <3>1, StatusWritten
    <3>2. CASE ~writes
      BY <1>0, <2>1, <3>2 DEF Kept, Inv, TypeOK
    <3> QED BY <3>1, <3>2
  <2>4. models' \in [Requests -> Models \cup {None}] /\ ctx' = [ctx EXCEPT ![r] = ctx[r]]
    BY <1>0, <1>7 DEF Cpcv, Inv, TypeOK
  <2> QED BY <1>0, <1>1, <2>2, <2>3, <2>4, WritingStep DEF Later, Same
<1> QED BY <1>3, <1>4, <1>5, <1>6, <1>7

-----------------------------------------------------------------------------
\* A snapshot is as sound as the context it is taken of.
LEMMA StoreStep ==
    ASSUME Inv, NEW r \in Requests, Store(r)
    PROVE  Inv'
<1> DEFINE s == [symbols |-> ctx[r].symbols, strategy |-> ctx[r].strategy,
                 features |-> ctx[r].features, model |-> ctx[r].model,
                 plugin |-> ctx[r].plugin,
                 best_model |-> IF ctx[r].streams THEN ctx[r].plugin ELSE None]
<1>1. Over(r) /\ UNCHANGED rows /\ sessions' = [sessions EXCEPT ![r] = s]
  BY DEF Store
<1>2. ctx[r] \in Contexts /\ ctx[r].strategy # None /\ Sound(ctx[r])
  BY DEF Store, Inv, TypeOK, Own
<1>3. /\ s \in Snapshots /\ s.strategy = ctx[r].strategy /\ s.model = ctx[r].model
      /\ s.plugin = ctx[r].plugin /\ s.best_model \in {None, s.plugin}
  BY <1>2 DEF Contexts, Snapshots
<1> HIDE DEF s
<1>4. /\ sessions' \in [Requests -> Snapshots \cup {None}] /\ sessions'[r] = s
      /\ \A q \in Requests \ {r} : sessions'[q] = sessions[q]
  BY <1>1, <1>3 DEF Inv, TypeOK
<1>5. ASSUME NEW q \in Requests, sessions'[q] # None
      PROVE  /\ sessions'[q].strategy # None /\ Sound(sessions[q])'
             /\ sessions'[q].best_model \in {None, sessions'[q].plugin}
  <2>1. CASE q = r
    BY <1>1, <1>2, <1>3, <1>4, <2>1 DEF Sound, rows
  <2>2. CASE q # r
    BY <1>1, <1>4, <1>5, <2>2 DEF Inv, SessionsInv, Sound, rows
  <2> QED BY <2>1, <2>2
<1> QED BY <1>1, <1>4, <1>5, OverStep DEF Inv, SessionsInv

\* Clients change and delete rows; no row is forgotten and no model gets another plugin.
LEMMA OthersStep ==
    ASSUME Inv, NEW q \in Requests, PatchModel(q) \/ DeleteModel(q) \/ DeleteStrategy(q)
    PROVE  Inv'
<1>1. Kept /\ TypeOK' /\ \A o \in Requests : models[o] = None => models'[o] = None
  <2>0. patched \cup {q} \subseteq Requests /\ changes + 1 \in Nat
    BY DEF Inv, TypeOK
  <2>1. ASSUME PatchModel(q)
        PROVE  Kept /\ TypeOK' /\ \A o \in Requests : models[o] = None => models'[o] = None
    <3>1. PICK p \in Params : models' = [models EXCEPT ![q].params = p]
      BY <2>1 DEF PatchModel
    <3> DEFINE row == [models[q] EXCEPT !.params = p]
    <3>2. models[q] \in Models /\ models[q] # None
      BY <2>1 DEF PatchModel, There, Inv, TypeOK
    <3>3. row \in Models /\ row.plugin = models[q].plugin /\ models' = [models EXCEPT ![q] = row]
      BY <3>1, <3>2 DEF Models
    <3> HIDE DEF row
    <3>4. UNCHANGED <<pc, ctx, poisoned, strategies, named, sessions>>
      BY <2>1 DEF PatchModel
    <3>5. /\ models' \in [Requests -> Models \cup {None}] /\ Kept
          /\ \A o \in Requests : models[o] = None => models'[o] = None
      BY <3>2, <3>3, <3>4, RowWritten
    <3> QED BY <2>0, <2>1, <3>4, <3>5 DEF PatchModel, Change, Inv, TypeOK
  <2>2. ASSUME DeleteModel(q)
        PROVE  Kept /\ TypeOK' /\ \A o \in Requests : models[o] = None => models'[o] = None
    <3> DEFINE row == [models[q] EXCEPT !.there = FALSE]
    <3>2. models[q] \in Models /\ models[q] # None
      BY <2>2 DEF DeleteModel, There, Inv, TypeOK
    <3>3. row \in Models /\ row.plugin = models[q].plugin /\ models' = [models EXCEPT ![q] = row]
      BY <2>2, <3>2 DEF Models, DeleteModel
    <3> HIDE DEF row
    <3>4. UNCHANGED <<pc, ctx, poisoned, strategies, patched, named, sessions>>
      BY <2>2 DEF DeleteModel
    <3>5. /\ models' \in [Requests -> Models \cup {None}] /\ Kept
          /\ \A o \in Requests : models[o] = None => models'[o] = None
      BY <3>2, <3>3, <3>4, RowWritten
    <3> QED BY <2>0, <2>2, <3>4, <3>5 DEF DeleteModel, Change, Inv, TypeOK
  <2>3. ASSUME DeleteStrategy(q)
        PROVE  Kept /\ TypeOK' /\ \A o \in Requests : models[o] = None => models'[o] = None
    BY <2>0, <2>3, NoneIsNothing DEF DeleteStrategy, Change, StrategyThere, Kept, Inv, TypeOK
  <2> QED BY <2>1, <2>2, <2>3
<1>2. UNCHANGED <<pc, ctx, poisoned, sessions>>
  BY DEF PatchModel, DeleteModel, DeleteStrategy
<1>3. ASSUME NEW c, c \in {ctx[o] : o \in Requests}
             \/ (\E o \in Requests : c = sessions[o] /\ sessions[o] # None)
      PROVE  c.strategy \in Ids \cup {None} /\ c.model \in Requests \cup {None}
  BY <1>3 DEF Inv, TypeOK, Contexts, Snapshots
<1>4. ASSUME NEW o \in Requests
      PROVE  Own(o)'
  <2>1. Sound(ctx[o])'
    BY <1>1, <1>2, <1>3, SoundKept DEF Sound, Inv, Own
  <2> QED BY <1>1, <1>2, <2>1 DEF Inv, Own
<1>5. ASSUME NEW o \in Requests, sessions'[o] # None
      PROVE  Sound(sessions[o])'
  <2>1. Sound(sessions[o])
    BY <1>2, <1>5 DEF Inv, SessionsInv
  <2> QED BY <1>1, <1>2, <1>3, <1>5, <2>1, SoundKept DEF Sound
<1>6. SessionsInv'
  BY <1>2, <1>5 DEF Inv, SessionsInv
<1> QED BY <1>1, <1>4, <1>6 DEF Inv

\* A crash forgets sessions and ends what is under way.
LEMMA CrashStep ==
    ASSUME Inv, Crash
    PROVE  Inv'
<1> USE NoneIsNothing
<1>1. NewContext \in Contexts
  BY ResearchAssumption DEF NewContext, Contexts
<1>2. /\ pc' \in [Requests -> Labels] /\ ctx' \in [Requests -> Contexts]
      /\ sessions' = [r \in Requests |-> None] /\ poisoned' = {} /\ UNCHANGED rows
      /\ \A r \in Requests : \/ pc'[r] = "over" /\ ctx'[r] = NewContext
                             \/ pc'[r] = pc[r] /\ ctx'[r] = ctx[r]
  BY <1>1 DEF Crash, Inv, TypeOK, Labels
<1>3. TypeOK' /\ SessionsInv'
  BY <1>2 DEF Inv, TypeOK, SessionsInv, rows
<1>4. ASSUME NEW r \in Requests
      PROVE  Own(r)'
  <2>1. CASE pc'[r] = "over" /\ ctx'[r] = NewContext
    BY <2>1 DEF Own, Sound, NewContext
  <2>2. CASE pc'[r] = pc[r] /\ ctx'[r] = ctx[r]
    BY <1>2, <2>2 DEF Own, Sound, Inv, rows
  <2> QED BY <1>2, <2>1, <2>2
<1> QED BY <1>3, <1>4 DEF Inv

-----------------------------------------------------------------------------
\* The rows, contexts and snapshots of a service that starts.
LEMMA InvInit == Init => Inv
<1> SUFFICES ASSUME Init PROVE Inv
  OBVIOUS
<1>1. NewContext \in Contexts
  BY ResearchAssumption DEF NewContext, Contexts
<1>2. TypeOK
  BY <1>1 DEF Init, TypeOK, Labels
<1>3. \A r \in Requests : Own(r)
  BY DEF Init, Own, Sound, NewContext
<1> QED BY <1>2, <1>3 DEF Inv, Init, SessionsInv

\* Every step of the agents, of clients and of the crash keeps the invariant.
LEMMA InvStep == Inv /\ [Next]_vars => Inv'
<1> SUFFICES ASSUME Inv, [Next]_vars PROVE Inv'
  OBVIOUS
<1>1. ASSUME NEW r \in Requests, Run(r)
      PROVE  Inv'
  <2>1. CASE Ask(r) \/ Chat(r) \/ EnsureStrategy(r) \/ DiscoverFeatures(r) \/ DiscoverModel(r)
    BY <2>1, BeginStep, StrategyStep, FeaturesStep, ModelStep
  <2>2. CASE SkipTuning(r) \/ Tune(r) \/ SaveTuned(r)
    BY <2>2, TuneStep, SaveTunedStep
  <2>3. CASE Train(r) \/ SaveTrained(r) \/ Backtest(r) \/ BacktestFails(r)
    BY <2>3, TrainStep
  <2>4. CASE \/ SkipValidation(r) \/ WalkForward(r) \/ WalkForwardFails(r)
             \/ SaveVerdict(r) \/ Cpcv(r) \/ Govern(r)
    BY <2>4, ValidationStep
  <2>5. CASE GovernRaises(r) \/ Store(r) \/ Disconnect(r)
    BY <2>5, RaiseStep, StoreStep DEF GovernRaises, Disconnect
  <2> QED BY <1>1, <2>1, <2>2, <2>3, <2>4, <2>5 DEF Run
<1>2. CASE UNCHANGED vars
  BY <1>2 DEF vars, rows, Inv, TypeOK, Own, Sound, SessionsInv
<1> QED BY <1>1, <1>2, OthersStep, CrashStep DEF Next, Others

\* Whatever agents failed before it was stored, a snapshot names a strategy that was committed
\* or that a client came with, a model that was committed, and its model's plugin.
\* (_build_context, _ensure_strategy, _ctx_snapshot and chat)
THEOREM SnapshotsAreSound == Spec => []SnapshotSound
<1>1. Inv => SnapshotSound
  BY DEF Inv, SessionsInv, Sound, SnapshotSound
<1> QED BY <1>1, InvInit, InvStep, PTL DEF Spec

\* Requests, contexts, rows and snapshots are what the module says they are.
THEOREM ResearchTypes == Spec => []TypeOK
<1>1. Inv => TypeOK
  BY DEF Inv
<1> QED BY <1>1, InvInit, InvStep, PTL DEF Spec

-----------------------------------------------------------------------------
(***************************************************************************)
(* The backtest that a request reports                                     *)
(***************************************************************************)

\* Where a context may hold a backtest.
Reporting == {"validate", "verdict", "cpcv", "govern", "store"}

\* Until request r is over no other context and no snapshot has its model.
Mine(r) ==
    /\ pc[r] = "over" => ctx[r].model = None
    /\ \A q \in Requests \ {r} : ctx[q].model = r => pc[r] = "over"
    /\ \A q \in Requests : sessions[q] # None /\ sessions[q].model = r => pc[r] = "over"

\* What the context and the row of the model say of its parameters is the same, and so is
\* what an agent has read of them and, from the training on, the artifact.
Agrees(r) ==
    ctx[r].model = r /\ There(r) /\ r \notin patched =>
       /\ ctx[r].plugin = models[r].plugin /\ ctx[r].params = models[r].params
       /\ pc[r] \in {"tuned", "trained"} => ctx[r].view = models[r].params
       /\ pc[r] = "backtest" => models[r].artifact = models[r].params
       /\ ctx[r].backtest # None =>
             ctx[r].backtest = [plugin |-> models[r].plugin, params |-> models[r].params,
                                artifact |-> models[r].params]

Reported(r) == ctx[r].backtest # None => pc[r] \in Reporting

ReportInv == \A r \in Requests : Mine(r) /\ Reported(r) /\ Agrees(r)

\* What a step of request r leaves of its own context.
Coherent(r) ==
    /\ \A m \in Requests \ {r} : ctx'[r].model = m => pc[m] = "over"
    /\ pc'[r] = "over" => ctx'[r].model = None
    /\ Reported(r)' /\ Agrees(r)'

\* Notes leave parameters and backtest alone.
LEMMA NotedRest ==
    ASSUME NEW c \in Contexts, NEW f \in Params \cup {None, "passed", "failed"},
           NEW v \in Params \cup {None, "draft", "validated"}
    PROVE  /\ Note(c, f, v).params = c.params /\ Note(c, f, v).backtest = c.backtest
           /\ Note(c, f, v).model = c.model /\ Note(c, f, v).plugin = c.plugin
           /\ Note(c, f, v).view = v
BY DEF Note, Contexts

\* The context takes over the tuned parameters.
LEMMA NotedParamsRest ==
    ASSUME NEW c \in Contexts, NEW p \in Params
    PROVE  /\ WithParams(c, p).params = p /\ WithParams(c, p).backtest = c.backtest
           /\ WithParams(c, p).model = c.model /\ WithParams(c, p).plugin = c.plugin
BY DEF WithParams, Note, Contexts

\* The context gets a model, its plugin and its parameters.
LEMMA NotedModelRest ==
    ASSUME NEW c \in Contexts, NEW r \in Requests, NEW g \in Plugins, NEW p \in Params
    PROVE  /\ WithModel(c, r, g, p).params = p /\ WithModel(c, r, g, p).backtest = c.backtest
           /\ WithModel(c, r, g, p).model = r /\ WithModel(c, r, g, p).plugin = g
BY DEF WithModel, Contexts

\* A step of request r touches no other request, and no row but that of its model.
LEMMA OwnRowsOnly ==
    ASSUME Inv, NEW r \in Requests, Run(r), NEW q \in Requests \ {r}
    PROVE  /\ pc'[q] = pc[q] /\ ctx'[q] = ctx[q] /\ sessions'[q] = sessions[q]
           /\ patched' = patched
           /\ ctx[r].model # q => models'[q] = models[q]
<1> USE DEF Inv, TypeOK, rows
<1>1. CASE Ask(r) \/ Chat(r)
  BY <1>1 DEF Ask, Chat, Parse, Goto
<1>2. CASE EnsureStrategy(r) \/ DiscoverFeatures(r) \/ DiscoverModel(r)
  BY <1>2 DEF EnsureStrategy, DiscoverFeatures, DiscoverModel, Caught, Goto, Raise, Over
<1>3. CASE SkipTuning(r) \/ Tune(r) \/ SaveTuned(r)
  BY <1>3 DEF SkipTuning, Tune, SaveTuned, Caught, Goto
<1>4. CASE Train(r) \/ SaveTrained(r) \/ Backtest(r) \/ BacktestFails(r)
  BY <1>4 DEF Train, SaveTrained, Backtest, BacktestFails, Caught, Goto
<1>5. CASE \/ SkipValidation(r) \/ WalkForward(r) \/ WalkForwardFails(r) \/ SaveVerdict(r)
           \/ Cpcv(r) \/ Govern(r)
  BY <1>5 DEF SkipValidation, WalkForward, WalkForwardFails, SaveVerdict, Cpcv, Govern, Caught, Goto
<1>6. CASE GovernRaises(r) \/ Store(r) \/ Disconnect(r)
  BY <1>6 DEF GovernRaises, Store, Disconnect, Raise, Over, Goto
<1> QED BY <1>1, <1>2, <1>3, <1>4, <1>5, <1>6 DEF Run

\* Who is over has nothing more to do.
LEMMA RunsNotOver ==
    ASSUME NEW r \in Requests, Run(r)
    PROVE  pc[r] # "over"
BY DEF Run, Ask, Chat, EnsureStrategy, DiscoverFeatures, DiscoverModel, SkipTuning, Tune,
       SaveTuned, Train, SaveTrained, Backtest, BacktestFails, SkipValidation, WalkForward,
       WalkForwardFails, SaveVerdict, Cpcv, Govern, GovernRaises, Store, Disconnect, Active

\* A snapshot is taken of the context of a request that is over then.
LEMMA SnapshotModel ==
    ASSUME Inv, NEW r \in Requests, Run(r), sessions'[r] # sessions[r]
    PROVE  sessions'[r].model = ctx[r].model /\ pc'[r] = "over"
<1>1. CASE Store(r)
  BY <1>1 DEF Store, Over, Goto, Inv, TypeOK
<1>2. CASE ~Store(r)
  BY <1>2 DEF Run, Ask, Chat, Parse, EnsureStrategy, DiscoverFeatures, DiscoverModel, SkipTuning,
       Tune, SaveTuned, Train, SaveTrained, Backtest, BacktestFails, SkipValidation, WalkForward,
       WalkForwardFails, SaveVerdict, Cpcv, Govern, GovernRaises, Disconnect, Raise
<1> QED BY <1>1, <1>2

\* What a request leaves coherent of its own is so for all.
LEMMA CoherentStep ==
    ASSUME Inv, ReportInv, NEW r \in Requests, Run(r), Coherent(r)
    PROVE  ReportInv'
<1>1. ASSUME NEW q \in Requests
      PROVE  Mine(q)'
  <2>1. pc[q] = "over" => q # r /\ pc'[q] = "over"
    BY OwnRowsOnly, RunsNotOver
  <2>2. pc'[q] = "over" => ctx'[q].model = None
    BY OwnRowsOnly DEF Coherent, ReportInv, Mine
  <2>3. ASSUME NEW p \in Requests \ {q}, ctx'[p].model = q
        PROVE  pc'[q] = "over"
    <3>1. CASE p = r
      BY <2>1, <2>3, <3>1 DEF Coherent
    <3>2. CASE p # r
      <4>1. ctx[p].model = q
        BY <2>3, <3>2, OwnRowsOnly
      <4> QED BY <2>1, <4>1 DEF ReportInv, Mine
    <3> QED BY <3>1, <3>2
  <2>4. ASSUME NEW p \in Requests, sessions'[p] # None, sessions'[p].model = q
        PROVE  pc'[q] = "over"
    <3>1. CASE sessions'[p] = sessions[p]
      BY <2>1, <2>4, <3>1 DEF ReportInv, Mine
    <3>2. CASE sessions'[p] # sessions[p]
      <4>1. p = r
        BY <3>2, OwnRowsOnly
      <4>2. ctx[r].model = q /\ pc'[r] = "over"
        BY <2>4, <3>2, <4>1, SnapshotModel
      <4> QED BY <2>1, <4>2 DEF ReportInv, Mine
    <3> QED BY <3>1, <3>2
  <2> QED BY <2>2, <2>3, <2>4 DEF Mine
<1>2. ASSUME NEW q \in Requests \ {r}
      PROVE  Reported(q)' /\ Agrees(q)'
  <2>1. pc'[q] = pc[q] /\ ctx'[q] = ctx[q] /\ patched' = patched
    BY OwnRowsOnly
  <2>2. Reported(q) /\ Agrees(q) /\ Mine(q)
    BY DEF ReportInv
  <2>3. CASE ctx[r].model # q
    BY <2>1, <2>2, <2>3, OwnRowsOnly DEF Reported, Agrees, There
  <2>4. CASE ctx[r].model = q
    <3>1. ctx[q].model = None
      BY <2>2, <2>4 DEF Mine
    <3> QED BY <2>1, <2>2, <3>1, NoneIsNothing DEF Reported, Agrees
  <2> QED BY <2>3, <2>4
<1> QED BY <1>1, <1>2 DEF ReportInv, Coherent

\* A model of another request is that of one that is over.
LEMMA OthersModel ==
    ASSUME ReportInv, NEW r \in Requests, ctx'[r].model = ctx[r].model
    PROVE  \A m \in Requests \ {r} : ctx'[r].model = m => pc[m] = "over"
BY DEF ReportInv, Mine

\* Who carries model, plugin, parameters and backtest on to an agent that has read nothing.
LEMMA Carried ==
    ASSUME Inv, ReportInv, NEW r \in Requests, pc[r] # "over", UNCHANGED <<models, patched>>,
           NEW l \in Labels \ {"over", "tuned", "trained", "backtest"}, Goto(r, l),
           NEW d \in Contexts, ctx' = [ctx EXCEPT ![r] = d],
           d.model = ctx[r].model, d.plugin = ctx[r].plugin, d.params = ctx[r].params,
           d.backtest = ctx[r].backtest, pc[r] \in Reporting => l \in Reporting
    PROVE  Coherent(r)
<1>1. ctx'[r] = d /\ pc'[r] = l
  BY DEF Goto, Inv, TypeOK
<1>2. \A m \in Requests \ {r} : ctx'[r].model = m => pc[m] = "over"
  BY <1>1, OthersModel
<1>3. Reported(r)'
  BY <1>1 DEF ReportInv, Reported
<1>4. Agrees(r)'
  <2>1. Agrees(r) /\ l \notin {"tuned", "trained", "backtest"}
    BY DEF ReportInv
  <2>2. models'[r] = models[r] /\ patched' = patched /\ (There(r)' <=> There(r))
    BY DEF There
  <2> QED BY <1>1, <2>1, <2>2 DEF Agrees
<1> QED BY <1>1, <1>2, <1>3, <1>4 DEF Coherent

\* Who leaves the context as it is.
LEMMA CarriedOver ==
    ASSUME Inv, ReportInv, NEW r \in Requests, pc[r] # "over", UNCHANGED <<ctx, models, patched>>,
           NEW l \in Labels \ {"over", "tuned", "trained", "backtest"}, Goto(r, l),
           pc[r] \in Reporting => l \in Reporting
    PROVE  Coherent(r)
<1>1. ctx[r] \in Contexts /\ ctx' = [ctx EXCEPT ![r] = ctx[r]]
  BY DEF Inv, TypeOK
<1> QED BY <1>1, Carried

\* Who forgets what it found and read.
LEMMA CarriedOn ==
    ASSUME Inv, ReportInv, NEW r \in Requests, pc[r] # "over", UNCHANGED <<models, patched>>,
           NEW f \in Params \cup {None, "passed", "failed"},
           NEW v \in Params \cup {None, "draft", "validated"},
           ctx' = [ctx EXCEPT ![r] = Note(@, f, v)],
           NEW l \in Labels \ {"over", "tuned", "trained", "backtest"}, Goto(r, l),
           pc[r] \in Reporting => l \in Reporting
    PROVE  Coherent(r)
<1> DEFINE d == Note(ctx[r], f, v)
<1>1. ctx[r] \in Contexts /\ ctx' = [ctx EXCEPT ![r] = d]
  BY DEF Inv, TypeOK
<1>2. d \in Contexts
  BY <1>1, Noted
<1>3. /\ d.model = ctx[r].model /\ d.plugin = ctx[r].plugin /\ d.params = ctx[r].params
      /\ d.backtest = ctx[r].backtest
  BY <1>1, NotedRest
<1> HIDE DEF d
<1> QED BY <1>1, <1>2, <1>3, Carried

\* A request that is over reports nothing.
LEMMA CarriedOff ==
    ASSUME Inv, NEW r \in Requests, Over(r)
    PROVE  Coherent(r)
<1>1. ctx'[r] = NewContext /\ pc'[r] = "over"
  BY DEF Over, Goto, Inv, TypeOK
<1>2. ctx'[r].model = None /\ ctx'[r].backtest = None
  BY <1>1 DEF NewContext
<1> QED BY <1>1, <1>2, NoneIsNothing DEF Coherent, Reported, Agrees

\* A request begins with no model or with that of a session that is over.
LEMMA CoherentBegin ==
    ASSUME Inv, ReportInv, NEW r \in Requests, Ask(r) \/ Chat(r)
    PROVE  Coherent(r)
<1>0. pc[r] = "idle"
  BY DEF Ask, Chat
<1>1. ASSUME NEW c \in Contexts, Parse(r, c), c.backtest = None,
             \A m \in Requests : c.model = m => pc[m] = "over"
      PROVE  Coherent(r)
  <2>1. PICK words \in BOOLEAN :
           ctx' = [ctx EXCEPT ![r] = [c EXCEPT !.symbols = words \/ c.symbols]]
    BY <1>1 DEF Parse
  <2> DEFINE d == [c EXCEPT !.symbols = words \/ c.symbols]
  <2>2. d.model = c.model /\ d.backtest = None
    BY <1>1 DEF Contexts
  <2>3. ctx'[r] = d /\ pc'[r] = "strategy"
    BY <1>1, <2>1 DEF Parse, Goto, Inv, TypeOK
  <2> HIDE DEF d
  <2> QED BY <1>0, <1>1, <2>2, <2>3 DEF Coherent, Reported, Agrees
<1>2. NewContext \in Contexts /\ NewContext.model = None /\ NewContext.backtest = None
  BY ResearchAssumption DEF NewContext, Contexts
<1>3. ASSUME NEW s \in {None} \cup Ids, NEW streams \in BOOLEAN,
             Parse(r, [NewContext EXCEPT !.strategy = s, !.streams = streams])
      PROVE  Coherent(r)
  <2> DEFINE c == [NewContext EXCEPT !.strategy = s, !.streams = streams]
  <2>1. c \in Contexts /\ c.model = None /\ c.backtest = None
    BY <1>2 DEF NewContext, Contexts
  <2> HIDE DEF c
  <2> QED BY <1>1, <1>3, <2>1, NoneIsNothing DEF c
<1>4. ASSUME Parse(r, NewContext)
      PROVE  Coherent(r)
  BY <1>1, <1>2, <1>4, NoneIsNothing
<1>5. ASSUME NEW p \in Requests, sessions[p] # None, Parse(r, Rehydrate(p))
      PROVE  Coherent(r)
  <2>1. sessions[p] \in Snapshots /\ sessions[p].best_model \in {None, sessions[p].plugin}
    BY <1>5 DEF Inv, TypeOK, SessionsInv
  <2>2. /\ Rehydrate(p) \in Contexts /\ Rehydrate(p).model = sessions[p].model
        /\ Rehydrate(p).backtest = None
    BY <1>2, <2>1 DEF Rehydrate, NewContext, Contexts, Snapshots
  <2>3. \A m \in Requests : sessions[p].model = m => pc[m] = "over"
    BY <1>5 DEF ReportInv, Mine
  <2> QED BY <1>1, <1>5, <2>2, <2>3
<1> QED BY <1>3, <1>4, <1>5 DEF Ask, Chat

\* Before it has created one, a request has no model of its own.
LEMMA NoModelYet ==
    ASSUME Inv, NEW r \in Requests, pc[r] \in {"idle", "strategy", "features", "model"}
    PROVE  ctx[r].model # r
<1>1. Sound(ctx[r]) /\ models[r] = None /\ r # None
  BY NoneIsNothing DEF Inv, Own
<1> QED BY <1>1 DEF Sound

\* The strategy, the features and the model.
LEMMA CoherentDiscovery ==
    ASSUME Inv, ReportInv, NEW r \in Requests,
           EnsureStrategy(r) \/ DiscoverFeatures(r) \/ DiscoverModel(r)
    PROVE  Coherent(r)
<1>0. /\ pc[r] \in {"strategy", "features", "model"} /\ pc[r] # "over" /\ pc[r] \notin Reporting
      /\ ctx[r] \in Contexts /\ ctx[r].model # r /\ ctx[r].backtest = None
  <2>1. pc[r] \in {"strategy", "features", "model"} /\ ctx[r] \in Contexts
    BY DEF EnsureStrategy, DiscoverFeatures, DiscoverModel, Inv, TypeOK
  <2>2. pc[r] \notin Reporting
    BY <2>1 DEF Reporting
  <2>3. ctx[r].backtest = None
    BY <2>2 DEF ReportInv, Reported
  <2> QED BY <2>1, <2>2, <2>3, NoModelYet
<1>1. {"features", "model", "tune"} \subseteq Labels \ {"over", "tuned", "trained", "backtest"}
  BY DEF Labels
<1>2. ASSUME Raise(r)
      PROVE  Coherent(r)
  BY <1>2, CarriedOff DEF Raise
<1>3. ASSUME UNCHANGED <<ctx, rows>>, NEW l \in {"features", "tune"}, Goto(r, l)
      PROVE  Coherent(r)
  BY <1>0, <1>1, <1>3, CarriedOver DEF rows
<1>4. ASSUME ctx' = [ctx EXCEPT ![r].strategy = r], Goto(r, "features"), UNCHANGED <<models, patched>>
      PROVE  Coherent(r)
  <2> DEFINE d == [ctx[r] EXCEPT !.strategy = r]
  <2>1. /\ d \in Contexts /\ d.model = ctx[r].model /\ d.plugin = ctx[r].plugin
        /\ d.params = ctx[r].params /\ d.backtest = ctx[r].backtest
    BY <1>0 DEF Contexts, Ids
  <2>2. ctx' = [ctx EXCEPT ![r] = d]
    BY <1>4 DEF Inv, TypeOK
  <2> HIDE DEF d
  <2> QED BY <1>0, <1>1, <1>4, <2>1, <2>2, Carried
<1>5. ASSUME ctx' = [ctx EXCEPT ![r].features = TRUE], Goto(r, "model"), UNCHANGED <<models, patched>>
      PROVE  Coherent(r)
  <2> DEFINE d == [ctx[r] EXCEPT !.features = TRUE]
  <2>1. /\ d \in Contexts /\ d.model = ctx[r].model /\ d.plugin = ctx[r].plugin
        /\ d.params = ctx[r].params /\ d.backtest = ctx[r].backtest
    BY <1>0 DEF Contexts
  <2>2. ctx' = [ctx EXCEPT ![r] = d]
    BY <1>5 DEF Inv, TypeOK
  <2> HIDE DEF d
  <2> QED BY <1>0, <1>1, <1>5, <2>1, <2>2, Carried
<1>6. ASSUME NEW g \in Plugins, NEW p \in Params,
             models' = [models EXCEPT ![r] =
                           [plugin |-> g, params |-> p, artifact |-> None, there |-> TRUE]],
             ctx' = [ctx EXCEPT ![r] = WithModel(@, r, g, p)], Goto(r, "tune")
      PROVE  Coherent(r)
  <2> DEFINE d == WithModel(ctx[r], r, g, p)
  <2>1. d.model = r /\ d.plugin = g /\ d.params = p /\ d.backtest = None
    BY <1>0, NotedModelRest
  <2>2. ctx'[r] = d /\ pc'[r] = "tune"
    BY <1>6 DEF Goto, Inv, TypeOK
  <2>3. models'[r].plugin = g /\ models'[r].params = p
    BY <1>6 DEF Inv, TypeOK
  <2> HIDE DEF d
  <2> QED BY <2>1, <2>2, <2>3 DEF Coherent, Reported, Agrees
<1>7. ASSUME EnsureStrategy(r)
      PROVE  Coherent(r)
  BY <1>2, <1>3, <1>4, <1>7 DEF EnsureStrategy, rows
<1>8. ASSUME DiscoverFeatures(r)
      PROVE  Coherent(r)
  BY <1>2, <1>5, <1>8 DEF DiscoverFeatures, Caught, rows
<1>9. ASSUME DiscoverModel(r)
      PROVE  Coherent(r)
  BY <1>2, <1>3, <1>6, <1>9 DEF DiscoverModel, Caught
<1> QED BY <1>7, <1>8, <1>9

\* What tuning finds is in the row and in the context, or in neither.
LEMMA CoherentTuning ==
    ASSUME Inv, ReportInv, NEW r \in Requests, SkipTuning(r) \/ Tune(r) \/ SaveTuned(r)
    PROVE  Coherent(r)
<1> DEFINE m == ctx[r].model
           updates == ctx[r].view \notin {None, ctx[r].found}
<1>0. /\ pc[r] \in {"tune", "tuned"} /\ pc[r] # "over" /\ pc[r] \notin Reporting
      /\ ctx[r] \in Contexts /\ ctx[r].backtest = None
      /\ "train" \in Labels \ {"over", "tuned", "trained", "backtest"}
  <2>1. pc[r] \in {"tune", "tuned"} /\ ctx[r] \in Contexts
    BY DEF SkipTuning, Tune, SaveTuned, Inv, TypeOK
  <2>2. pc[r] \notin Reporting
    BY <2>1 DEF Reporting
  <2>3. ctx[r].backtest = None
    BY <2>2 DEF ReportInv, Reported
  <2> QED BY <2>1, <2>2, <2>3 DEF Labels
<1>1. ASSUME UNCHANGED <<ctx, rows>>, Goto(r, "train")
      PROVE  Coherent(r)
  BY <1>0, <1>1, CarriedOver DEF rows
<1>2. ASSUME NEW p \in Params, ctx' = [ctx EXCEPT ![r] = Note(@, p, ParamsOf(m))],
             Goto(r, "tuned"), UNCHANGED rows
      PROVE  Coherent(r)
  <2> DEFINE d == Note(ctx[r], p, ParamsOf(m))
  <2>1. ParamsOf(m) \in Params \cup {None}
    BY <1>0 DEF ParamsOf, There, Inv, TypeOK, Contexts, Models
  <2>2. /\ d.model = m /\ d.plugin = ctx[r].plugin /\ d.params = ctx[r].params
        /\ d.backtest = None /\ d.view = ParamsOf(m)
    BY <1>0, <2>1, NotedRest
  <2>3. ctx'[r] = d /\ pc'[r] = "tuned"
    BY <1>2 DEF Goto, Inv, TypeOK
  <2>4. UNCHANGED <<models, patched>>
    BY <1>2 DEF rows
  <2> HIDE DEF d
  <2>5. \A o \in Requests \ {r} : ctx'[r].model = o => pc[o] = "over"
    BY <2>2, <2>3, OthersModel
  <2>6. Agrees(r)'
    <3>1. Agrees(r)
      BY DEF ReportInv
    <3> QED BY <2>2, <2>3, <2>4, <3>1 DEF Agrees, There, ParamsOf
  <2> QED BY <2>2, <2>3, <2>5, <2>6 DEF Coherent, Reported
<1>3. ASSUME UNCHANGED rows, ctx' = [ctx EXCEPT ![r] = Note(@, None, None)], Goto(r, "train")
      PROVE  Coherent(r)
  BY <1>0, <1>3, CarriedOn DEF rows
<1>4. ASSUME pc[r] = "tuned", updates => There(m), UNCHANGED patched,
             models' = IF updates THEN [models EXCEPT ![m].params = ctx[r].found] ELSE models,
             ctx' = [ctx EXCEPT ![r] = WithParams(@, ctx[r].found)], Goto(r, "train")
      PROVE  Coherent(r)
  <2> DEFINE d == WithParams(ctx[r], ctx[r].found)
  <2>1. ctx[r].found \in Params
    BY <1>4 DEF Inv, Own
  <2>2. /\ d.model = m /\ d.plugin = ctx[r].plugin /\ d.params = ctx[r].found
        /\ d.backtest = None
    BY <1>0, <2>1, NotedParamsRest
  <2>3. ctx'[r] = d /\ pc'[r] = "train"
    BY <1>4 DEF Goto, Inv, TypeOK
  <2> HIDE DEF d
  <2>4. \A o \in Requests \ {r} : ctx'[r].model = o => pc[o] = "over"
    BY <2>2, <2>3, OthersModel
  <2>5. ASSUME m = r, There(r)', r \notin patched'
        PROVE  d.plugin = models'[r].plugin /\ d.params = models'[r].params
    <3>1. models[r] \in Models \cup {None}
      BY DEF Inv, TypeOK
    <3>2. There(r)
      BY <1>4, <2>5 DEF There
    <3>3. ctx[r].plugin = models[r].plugin /\ ctx[r].view = models[r].params
      BY <1>4, <2>5, <3>2 DEF ReportInv, Agrees
    <3>4. models[r] \in Models /\ ctx[r].view # None
      BY <3>1, <3>2, <3>3, NoneIsNothing DEF There, Models
    <3>5. CASE updates
      BY <1>4, <2>2, <2>5, <3>3, <3>4, <3>5 DEF Models, Inv, TypeOK
    <3>6. CASE ~updates
      BY <1>4, <2>2, <3>3, <3>4, <3>6
    <3> QED BY <3>5, <3>6
  <2> QED BY <2>2, <2>3, <2>4, <2>5 DEF Coherent, Reported, Agrees
<1>5. ASSUME SaveTuned(r)
      PROVE  Coherent(r)
  BY <1>3, <1>4, <1>5 DEF SaveTuned, Caught
<1> QED BY <1>1, <1>2, <1>5 DEF SkipTuning, Tune, Caught

\* Training goes by the row's parameters, and the backtest by the row.
LEMMA CoherentBacktest ==
    ASSUME Inv, ReportInv, NEW r \in Requests,
           Train(r) \/ SaveTrained(r) \/ Backtest(r) \/ BacktestFails(r)
    PROVE  Coherent(r)
<1> DEFINE m == ctx[r].model
<1>0. /\ pc[r] \in {"train", "trained", "backtest"} /\ pc[r] # "over" /\ pc[r] \notin Reporting
      /\ ctx[r] \in Contexts /\ ctx[r].backtest = None /\ patched' = patched
  <2>1. /\ pc[r] \in {"train", "trained", "backtest"} /\ ctx[r] \in Contexts
        /\ patched' = patched
    BY DEF Train, SaveTrained, Backtest, BacktestFails, Inv, TypeOK, rows
  <2>2. pc[r] \notin Reporting
    BY <2>1 DEF Reporting
  <2>3. ctx[r].backtest = None
    BY <2>2 DEF ReportInv, Reported
  <2> QED BY <2>1, <2>2, <2>3
<1>1. ASSUME Train(r)
      PROVE  Coherent(r)
  <2> DEFINE d == Note(ctx[r], None, models[m].params)
  <2>1. m \in Requests /\ models[m].params \in Params
    BY <1>1 DEF Train, There, Inv, TypeOK, Contexts, Models
  <2>2. /\ d.model = m /\ d.plugin = ctx[r].plugin /\ d.params = ctx[r].params
        /\ d.backtest = None /\ d.view = models[m].params
    BY <1>0, <2>1, NotedRest
  <2>3. ctx'[r] = d /\ pc'[r] = "trained" /\ models' = models
    BY <1>1 DEF Train, Goto, Inv, TypeOK, rows
  <2> HIDE DEF d
  <2>4. \A o \in Requests \ {r} : ctx'[r].model = o => pc[o] = "over"
    BY <2>2, <2>3, OthersModel
  <2>5. Agrees(r)'
    <3>1. Agrees(r)
      BY DEF ReportInv
    <3> QED BY <1>0, <2>2, <2>3, <3>1 DEF Agrees, There
  <2> QED BY <2>2, <2>3, <2>4, <2>5 DEF Coherent, Reported
<1>2. ASSUME SaveTrained(r)
      PROVE  Coherent(r)
  <2> DEFINE d == Note(ctx[r], None, None)
  <2>1. m \in Requests /\ models[m] \in Models
    BY <1>2 DEF SaveTrained, There, Inv, TypeOK, Contexts
  <2>2. /\ d.model = m /\ d.plugin = ctx[r].plugin /\ d.params = ctx[r].params
        /\ d.backtest = None
    BY <1>0, NotedRest
  <2>3. ctx'[r] = d /\ pc'[r] = "backtest" /\ pc[r] = "trained"
    BY <1>2 DEF SaveTrained, Goto, Inv, TypeOK
  <2>4. /\ models'[m].plugin = models[m].plugin /\ models'[m].params = models[m].params
        /\ models'[m].artifact = ctx[r].view
    BY <1>2, <2>1 DEF SaveTrained, Models, Inv, TypeOK
  <2> HIDE DEF d
  <2>5. \A o \in Requests \ {r} : ctx'[r].model = o => pc[o] = "over"
    BY <2>2, <2>3, OthersModel
  <2>6. Agrees(r)'
    <3>1. Agrees(r) /\ There(m)
      BY <1>2 DEF ReportInv, SaveTrained
    <3> QED BY <1>0, <2>2, <2>3, <2>4, <3>1 DEF Agrees
  <2> QED BY <2>2, <2>3, <2>5, <2>6 DEF Coherent, Reported
<1>3. ASSUME Backtest(r)
      PROVE  Coherent(r)
  <2> DEFINE b == IF There(m) THEN [plugin |-> models[m].plugin, params |-> models[m].params,
                                    artifact |-> models[m].artifact]
                  ELSE [plugin |-> None, params |-> Empty, artifact |-> None]
             d == [ctx[r] EXCEPT !.backtest = b]
  <2>1. /\ d.model = m /\ d.plugin = ctx[r].plugin /\ d.params = ctx[r].params
        /\ d.backtest = b
    BY <1>0 DEF Contexts
  <2>2. ctx'[r] = d /\ pc'[r] = "validate" /\ pc[r] = "backtest" /\ models' = models
    BY <1>3 DEF Backtest, Goto, Inv, TypeOK
  <2>3. There(m) => b = [plugin |-> models[m].plugin, params |-> models[m].params,
                         artifact |-> models[m].artifact]
    OBVIOUS
  <2> HIDE DEF b, d
  <2>4. \A o \in Requests \ {r} : ctx'[r].model = o => pc[o] = "over"
    BY <2>1, <2>2, OthersModel
  <2>5. Agrees(r)'
    <3>1. Agrees(r)
      BY DEF ReportInv
    <3> QED BY <1>0, <2>1, <2>2, <2>3, <3>1 DEF Agrees, There
  <2> QED BY <2>2, <2>4, <2>5 DEF Coherent, Reported, Reporting
<1>4. ASSUME BacktestFails(r)
      PROVE  Coherent(r)
  <2>1. /\ UNCHANGED rows /\ ctx' = [ctx EXCEPT ![r] = Note(@, None, None)]
        /\ Goto(r, "validate")
    BY <1>4 DEF BacktestFails, Caught
  <2> QED BY <1>0, <2>1, CarriedOn DEF rows, Labels
<1> QED BY <1>1, <1>2, <1>3, <1>4

\* Validation and governance leave the backtest and the models alone.
LEMMA CoherentValidation ==
    ASSUME Inv, ReportInv, NEW r \in Requests,
           \/ SkipValidation(r) \/ WalkForward(r) \/ WalkForwardFails(r)
           \/ SaveVerdict(r) \/ Cpcv(r) \/ Govern(r)
    PROVE  Coherent(r)
<1> DEFINE Later == {"verdict", "cpcv", "govern", "store"}
<1>0. /\ pc[r] # "over" /\ ctx[r] \in Contexts /\ UNCHANGED <<models, patched>>
      /\ ctx[r].strategy \in Ids \cup {None}
  BY ContextOf
     DEF SkipValidation, WalkForward, WalkForwardFails, SaveVerdict, Cpcv, Govern, Inv, rows
<1>1. Later \subseteq Labels \ {"over", "tuned", "trained", "backtest"} /\ Later \subseteq Reporting
  BY DEF Labels, Reporting
<1> HIDE DEF Later
<1>2. ASSUME UNCHANGED ctx, NEW l \in Later, Goto(r, l)
      PROVE  Coherent(r)
  BY <1>0, <1>1, <1>2, CarriedOver
<1>3. ASSUME NEW f \in {None, "passed", "failed"}, NEW v \in {None, "draft", "validated"},
             ctx' = [ctx EXCEPT ![r] = Note(@, f, v)], NEW l \in Later, Goto(r, l)
      PROVE  Coherent(r)
  BY <1>0, <1>1, <1>3, CarriedOn
<1>4. ASSUME WalkForward(r)
      PROVE  Coherent(r)
  <2>1. strategies[ctx[r].strategy] \in {"draft", "validated"}
    BY <1>0, <1>4 DEF WalkForward, StrategyThere, Inv, TypeOK
  <2> QED BY <1>3, <1>4, <2>1 DEF WalkForward, Later
<1>5. ASSUME SkipValidation(r) \/ Govern(r) \/ Cpcv(r)
      PROVE  Coherent(r)
  BY <1>2, <1>5 DEF SkipValidation, Govern, Cpcv, Caught, Later
<1>6. ASSUME WalkForwardFails(r) \/ SaveVerdict(r)
      PROVE  Coherent(r)
  BY <1>3, <1>6 DEF WalkForwardFails, SaveVerdict, Caught, Later
<1> QED BY <1>4, <1>5, <1>6

\* A client's change of a row is noted, and a deleted row does not come back.
LEMMA ReportOthers ==
    ASSUME Inv, ReportInv, NEW q \in Requests, PatchModel(q) \/ DeleteModel(q) \/ DeleteStrategy(q)
    PROVE  ReportInv'
<1>1. UNCHANGED <<pc, ctx, sessions>>
  BY DEF PatchModel, DeleteModel, DeleteStrategy
<1>2. ASSUME NEW r \in Requests, There(r)', r \notin patched'
      PROVE  There(r) /\ r \notin patched /\ models'[r] = models[r]
  <2>1. CASE PatchModel(q)
    BY <1>2, <2>1 DEF PatchModel, There, Inv, TypeOK
  <2>2. CASE DeleteModel(q)
    BY <1>2, <2>2 DEF DeleteModel, There, Inv, TypeOK, Models
  <2>3. CASE DeleteStrategy(q)
    BY <1>2, <2>3 DEF DeleteStrategy, There
  <2> QED BY <2>1, <2>2, <2>3
<1>3. ASSUME NEW r \in Requests
      PROVE  Mine(r)' /\ Reported(r)' /\ Agrees(r)'
  <2>1. Mine(r) /\ Reported(r) /\ Agrees(r)
    BY DEF ReportInv
  <2>2. Agrees(r)'
    BY <1>1, <1>2, <2>1 DEF Agrees
  <2> QED BY <1>1, <2>1, <2>2 DEF Mine, Reported
<1> QED BY <1>3 DEF ReportInv

\* A crash leaves nothing to report.
LEMMA ReportCrash ==
    ASSUME Inv, ReportInv, Crash
    PROVE  ReportInv'
<1>1. /\ sessions' = [r \in Requests |-> None] /\ UNCHANGED rows
      /\ \A r \in Requests : \/ pc'[r] = "over" /\ ctx'[r] = NewContext
                             \/ pc'[r] = pc[r] /\ ctx'[r] = ctx[r]
  BY DEF Crash, Inv, TypeOK
<1>2. NewContext.model = None /\ NewContext.backtest = None
  BY DEF NewContext
<1>3. \A r \in Requests : pc[r] = "over" => pc'[r] = "over"
  BY <1>1
<1>4. ASSUME NEW r \in Requests
      PROVE  Mine(r)' /\ Reported(r)' /\ Agrees(r)'
  <2>1. Mine(r) /\ Reported(r) /\ Agrees(r)
    BY DEF ReportInv
  <2>2. Mine(r)'
    <3>1. pc'[r] = "over" => ctx'[r].model = None
      BY <1>1, <1>2, <2>1 DEF Mine
    <3>2. ASSUME NEW q \in Requests \ {r}, ctx'[q].model = r
          PROVE  pc'[r] = "over"
      BY <1>1, <1>2, <1>3, <2>1, <3>2, NoneIsNothing DEF Mine
    <3> QED BY <1>1, <3>1, <3>2 DEF Mine
  <2>3. Reported(r)' /\ Agrees(r)'
    <3>1. CASE pc'[r] = "over" /\ ctx'[r] = NewContext
      BY <1>2, <3>1, NoneIsNothing DEF Reported, Agrees
    <3>2. CASE pc'[r] = pc[r] /\ ctx'[r] = ctx[r]
      BY <1>1, <2>1, <3>2 DEF Reported, Agrees, There, rows
    <3> QED BY <1>1, <3>1, <3>2
  <2> QED BY <2>2, <2>3
<1> QED BY <1>4 DEF ReportInv

\* The service starts with nothing to report, and each step keeps the reports coherent.
LEMMA ReportAlways == Spec => [](Inv /\ ReportInv)
<1>1. Init => Inv /\ ReportInv
  <2>1. NewContext.model = None /\ NewContext.backtest = None
    BY DEF NewContext
  <2> QED BY <2>1, InvInit, NoneIsNothing DEF Init, ReportInv, Mine, Reported, Agrees
<1>2. Inv /\ ReportInv /\ [Next]_vars => (Inv /\ ReportInv)'
  <2> SUFFICES ASSUME Inv, ReportInv, [Next]_vars PROVE Inv' /\ ReportInv'
    OBVIOUS
  <2>1. ASSUME NEW r \in Requests, Run(r)
        PROVE  ReportInv'
    <3>1. CASE Ask(r) \/ Chat(r)
      BY <2>1, <3>1, CoherentBegin, CoherentStep
    <3>2. CASE EnsureStrategy(r) \/ DiscoverFeatures(r) \/ DiscoverModel(r)
      BY <2>1, <3>2, CoherentDiscovery, CoherentStep
    <3>3. CASE SkipTuning(r) \/ Tune(r) \/ SaveTuned(r)
      BY <2>1, <3>3, CoherentTuning, CoherentStep
    <3>4. CASE Train(r) \/ SaveTrained(r) \/ Backtest(r) \/ BacktestFails(r)
      BY <2>1, <3>4, CoherentBacktest, CoherentStep
    <3>5. CASE \/ SkipValidation(r) \/ WalkForward(r) \/ WalkForwardFails(r)
               \/ SaveVerdict(r) \/ Cpcv(r) \/ Govern(r)
      BY <2>1, <3>5, CoherentValidation, CoherentStep
    <3>6. CASE GovernRaises(r) \/ Store(r) \/ Disconnect(r)
      <4>1. Coherent(r)
        BY <3>6, CarriedOff DEF GovernRaises, Store, Disconnect, Raise
      <4> QED BY <2>1, <4>1, CoherentStep
    <3> QED BY <2>1, <3>1, <3>2, <3>3, <3>4, <3>5, <3>6 DEF Run
  <2>2. ASSUME UNCHANGED vars
        PROVE  ReportInv'
    <3>1. UNCHANGED <<pc, ctx, sessions, patched, models>>
      BY <2>2 DEF vars, rows
    <3>2. ASSUME NEW r \in Requests
          PROVE  Mine(r)' /\ Reported(r)' /\ Agrees(r)'
      BY <3>1 DEF ReportInv, Mine, Reported, Agrees, There
    <3> QED BY <3>2 DEF ReportInv
  <2> QED BY <2>1, <2>2, InvStep, ReportOthers, ReportCrash DEF Next, Others
<1> QED BY <1>1, <1>2, PTL DEF Spec

\* For any number of requests and chats: the backtest that a session with a model of its own
\* reports was made with the parameters that are validated and reported, unless a client
\* changed or deleted the model.  (HyperparameterAgent, BacktestAgent and ValidationAgent)
THEOREM ReportIsCoherent == Spec => []ReportCoherent
<1>1. ReportInv => ReportCoherent
  BY DEF ReportInv, Agrees, ReportCoherent
<1> QED BY <1>1, ReportAlways, PTL
=============================================================================
