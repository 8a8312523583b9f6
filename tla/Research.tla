------------------------------- MODULE Research -------------------------------
(***************************************************************************)
(* The research agents.  A request (research, its stream, or chat) makes a *)
(* context, runs the agents of research_manager.py one after the other in  *)
(* one database session, and stores a snapshot of the context in memory,   *)
(* from which a later chat goes on.                                        *)
(*                                                                         *)
(* Strategies and models are named for the request that creates them.  A   *)
(* step is what an agent does up to its next commit, or the whole agent    *)
(* where nobody else can tell.  Each agent but the first two catches what  *)
(* goes wrong in it; a flush that failed leaves the session poisoned, as   *)
(* nobody rolls back.                                                      *)
(***************************************************************************)
EXTENDS Integers

CONSTANTS
    Requests,
    Strangers,      \* strategy ids that clients make up, of which there is never a row
    Chats,          \* those of /agents/chat; the others are of /agents/research
    Plugins,        \* model plugins; each has a search space (search_spaces.py)
    Params,         \* hyperparameters, {} among them
    Empty,          \* {}
    MaxChanges,     \* bound: what clients change or delete
    None

Models == [plugin : Plugins, params : Params, artifact : Params \cup {None}, there : BOOLEAN]

\* A strategy of the service is named for the request that creates it.
Ids == Requests \cup Strangers

ASSUME ResearchAssumption ==
    /\ Chats \subseteq Requests
    /\ Requests \cap Strangers = {}
    /\ Empty \in Params
    /\ MaxChanges \in Nat
    /\ None \notin Requests \cup Strangers \cup Plugins \cup Params \cup Models
    /\ None \notin {"draft", "validated", "gone"}

VARIABLES
    pc,             \* request -> the agent whose turn it is
    ctx,            \* request -> AgentContext
    poisoned,       \* requests whose session can only be rolled back
    strategies,     \* id -> status of its strategy: None before, "gone" after
    models,         \* request -> the row of its model, None before
    sessions,       \* _sessions
    patched,        \* models whose parameters a client has changed
    named,          \* the ids that research requests have come with
    changes         \* how often clients changed or deleted something

rows == <<strategies, models, patched, named, changes>>
vars == <<pc, ctx, poisoned, rows, sessions>>

NewContext ==
    [streams |-> FALSE, symbols |-> FALSE, strategy |-> None, features |-> FALSE, model |-> None,
     plugin |-> None, params |-> Empty, backtest |-> None,
     found |-> None, view |-> None]

Labels ==
    {"idle", "strategy", "features", "model", "tune", "tuned", "train", "trained", "backtest",
     "validate", "verdict", "cpcv", "govern", "store", "over"}
Contexts ==
    [streams : BOOLEAN, symbols : BOOLEAN, strategy : Ids \cup {None}, features : BOOLEAN,
     model : Requests \cup {None}, plugin : Plugins \cup {None}, params : Params,
     backtest : {None} \cup [plugin : Plugins \cup {None}, params : Params,
                             artifact : Params \cup {None}],
     found : Params \cup {None, "passed", "failed"},
     view : Params \cup {None, "draft", "validated"}]
Snapshots ==
    [symbols : BOOLEAN, strategy : Ids \cup {None}, features : BOOLEAN,
     model : Requests \cup {None}, plugin : Plugins \cup {None}, best_model : Plugins \cup {None}]

Active(r) == pc[r] \notin {"idle", "over"}
Goto(r, label) == pc' = [pc EXCEPT ![r] = label]
There(m) == m # None /\ models[m] # None /\ models[m].there
StrategyThere(s) == s # None /\ strategies[s] \notin {None, "gone"}

\* What is not there is read as None.
ParamsOf(m) == IF There(m) THEN models[m].params ELSE None

\* What an agent found and what it read, until it commits.
Note(c, found, view) == [c EXCEPT !.found = found, !.view = view]

WithModel(c, m, plugin, params) ==
    [c EXCEPT !.model = m, !.plugin = plugin, !.params = params]
WithParams(c, params) == Note([c EXCEPT !.params = params], None, None)

\* An exception that the agent catches; it may be one of a flush.
Caught(r, label) ==
    /\ Goto(r, label)
    /\ poisoned' \in {poisoned, poisoned \cup {r}}

Usable(r) == r \notin poisoned

-----------------------------------------------------------------------------
(***************************************************************************)
(* The endpoints                                                           *)
(***************************************************************************)

\* _parse_query takes the first words of the query for symbols, where it has any that are
\* short enough.
Parse(r, c) ==
    /\ \E words \in BOOLEAN :
          ctx' = [ctx EXCEPT ![r] = [c EXCEPT !.symbols = words \/ c.symbols]]
    /\ Goto(r, "strategy")
    /\ UNCHANGED <<poisoned, strategies, models, patched, changes, sessions>>

\* A request may name any id for its strategy; nobody looks whether there is, or ever was,
\* such a row.  The ids of rows to come are random, and nobody names one.
Ask(r) ==
    /\ pc[r] = "idle" /\ r \notin Chats
    /\ \E s \in {None} \cup {i \in Ids : i \in Strangers \/ strategies[i] # None},
          streams \in BOOLEAN :
          /\ Parse(r, [NewContext EXCEPT !.strategy = s, !.streams = streams])
          /\ named' = named \cup ({s} \ {None})

\* Mutant: the chat does not take over the model's id.
RehydrateNoModel(p) ==
    LET prev == sessions[p]
    IN  [NewContext EXCEPT !.symbols = prev.symbols, !.features = prev.features,
                           !.strategy = prev.strategy, !.plugin = prev.best_model]

\* The parameters are not taken over.  A context_override, by which a client may write any
\* field, is assumed to be empty.
Rehydrate(p) ==
    LET prev == sessions[p]
    IN  [NewContext EXCEPT !.symbols = prev.symbols, !.features = prev.features,
                           !.strategy = prev.strategy, !.model = prev.model,
                           !.plugin = prev.best_model]

Chat(r) ==
    /\ pc[r] = "idle" /\ r \in Chats
    /\ \/ Parse(r, NewContext)
       \/ \E p \in Requests : sessions[p] # None /\ Parse(r, Rehydrate(p))
    /\ UNCHANGED named

Over(r) ==
    /\ Goto(r, "over")
    /\ ctx' = [ctx EXCEPT ![r] = NewContext]
    /\ poisoned' = poisoned \ {r}

\* What leaves the manager ends the request without a snapshot.
Raise(r) == Over(r) /\ UNCHANGED <<rows, sessions>>

\* The client of a stream goes away between two events.
Disconnect(r) == Active(r) /\ ctx[r].streams /\ Raise(r)

\* A snapshot of what the agents have left in the context.  The plugin is under best_model,
\* where a chat looks for it, only in that of a stream.
Store(r) ==
    /\ pc[r] = "store"
    /\ sessions' = [sessions EXCEPT ![r] =
                       [symbols |-> ctx[r].symbols, strategy |-> ctx[r].strategy,
                        features |-> ctx[r].features, model |-> ctx[r].model,
                        plugin |-> ctx[r].plugin,
                        best_model |-> IF ctx[r].streams THEN ctx[r].plugin ELSE None]]
    /\ Over(r)
    /\ UNCHANGED rows

-----------------------------------------------------------------------------
(***************************************************************************)
(* The manager's strategy, features and model                              *)
(***************************************************************************)

EnsureStrategy(r) ==
    /\ pc[r] = "strategy"
    /\ \/ /\ ctx[r].strategy # None
          /\ Goto(r, "features")
          /\ UNCHANGED <<ctx, poisoned, rows, sessions>>
       \/ /\ ctx[r].strategy = None
          /\ strategies' = [strategies EXCEPT ![r] = "draft"]
          /\ ctx' = [ctx EXCEPT ![r].strategy = r]
          /\ Goto(r, "features")
          /\ UNCHANGED <<poisoned, models, patched, named, changes, sessions>>
       \/ ctx[r].strategy = None /\ Raise(r)

\* The rows are inserted one by one, and a failure ends the request.  SHAP looks at the
\* features that the context had before, and every failure of it is passed over.
DiscoverFeatures(r) ==
    /\ pc[r] = "features"
    /\ \/ /\ ctx' = [ctx EXCEPT ![r].features = TRUE]
          /\ IF ctx[r].symbols /\ ctx[r].features
             THEN Caught(r, "model")
             ELSE Goto(r, "model") /\ UNCHANGED poisoned
          /\ UNCHANGED <<rows, sessions>>
       \/ Raise(r)

\* AutoML without a result leaves the context as it was, with the model of an earlier
\* session if it has one.
DiscoverModel(r) ==
    /\ pc[r] = "model"
    /\ \/ /\ Usable(r)
          /\ \E g \in Plugins, p \in Params :
                /\ models' = [models EXCEPT ![r] =
                                 [plugin |-> g, params |-> p, artifact |-> None, there |-> TRUE]]
                /\ ctx' = [ctx EXCEPT ![r] = WithModel(@, r, g, p)]
          /\ Goto(r, "tune")
          /\ UNCHANGED <<poisoned, strategies, patched, named, changes, sessions>>
       \/ /\ ctx[r].symbols
          /\ Caught(r, "tune")
          /\ UNCHANGED <<ctx, rows, sessions>>
       \/ Raise(r)

-----------------------------------------------------------------------------
(***************************************************************************)
(* HyperparameterAgent                                                     *)
(***************************************************************************)

SkipTuning(r) ==
    /\ pc[r] = "tune"
    /\ ctx[r].plugin = None \/ ~ctx[r].features \/ ~ctx[r].symbols
    /\ Goto(r, "train")
    /\ UNCHANGED <<ctx, poisoned, rows, sessions>>

Tune(r) ==
    /\ pc[r] = "tune"
    /\ ctx[r].plugin # None /\ ctx[r].features /\ ctx[r].symbols
    /\ \/ /\ Usable(r)
          /\ \E p \in Params :
                ctx' = [ctx EXCEPT ![r] = Note(@, p, ParamsOf(ctx[r].model))]
          /\ Goto(r, "tuned")
          /\ UNCHANGED poisoned
       \/ Caught(r, "train") /\ UNCHANGED ctx
    /\ UNCHANGED <<rows, sessions>>

\* Mutant: the row is left as it is.
SaveTunedInContext(r) ==
    /\ pc[r] = "tuned"
    /\ ctx' = [ctx EXCEPT ![r] = WithParams(@, ctx[r].found)]
    /\ Goto(r, "train")
    /\ UNCHANGED <<poisoned, rows, sessions>>

\* An UPDATE of a row that is gone fails; parameters that are the row's already make none.
SaveTuned(r) ==
    /\ pc[r] = "tuned"
    /\ LET m == ctx[r].model
           updates == ctx[r].view \notin {None, ctx[r].found}
       IN  \/ /\ updates => There(m)
              /\ models' = IF updates THEN [models EXCEPT ![m].params = ctx[r].found] ELSE models
              /\ ctx' = [ctx EXCEPT ![r] = WithParams(@, ctx[r].found)]
              /\ Goto(r, "train")
              /\ UNCHANGED <<poisoned, strategies, patched, named, changes, sessions>>
           \/ /\ ctx[r].view # None
              /\ Caught(r, "train")
              /\ updates /\ ~There(m) => r \in poisoned'
              /\ ctx' = [ctx EXCEPT ![r] = Note(@, None, None)]
              /\ UNCHANGED <<rows, sessions>>

-----------------------------------------------------------------------------
(***************************************************************************)
(* BacktestAgent                                                           *)
(***************************************************************************)

\* No model in the context, no such row, no symbol, or any other exception.
BacktestFails(r) ==
    /\ pc[r] \in {"train", "trained", "backtest"}
    /\ Caught(r, "validate")
    /\ pc[r] = "trained" /\ ~There(ctx[r].model) => r \in poisoned'
    /\ ctx' = [ctx EXCEPT ![r] = Note(@, None, None)]
    /\ UNCHANGED <<rows, sessions>>

Train(r) ==
    /\ pc[r] = "train"
    /\ Usable(r) /\ ctx[r].symbols /\ There(ctx[r].model)
    /\ ctx' = [ctx EXCEPT ![r] = Note(@, None, models[ctx[r].model].params)]
    /\ Goto(r, "trained")
    /\ UNCHANGED <<poisoned, rows, sessions>>

\* The artifact is trained with the parameters of the row as it was read.  An exception of
\* what follows the commit is the next step's.
SaveTrained(r) ==
    /\ pc[r] = "trained" /\ There(ctx[r].model)
    /\ models' = [models EXCEPT ![ctx[r].model].artifact = ctx[r].view]
    /\ ctx' = [ctx EXCEPT ![r] = Note(@, None, None)]
    /\ Goto(r, "backtest")
    /\ UNCHANGED <<poisoned, strategies, patched, named, changes, sessions>>

\* BacktestPipeline reads the row of the model again; without one the signals are those of
\* the strategy's own model, if it has one, or BUY throughout.
Backtest(r) ==
    /\ pc[r] = "backtest"
    /\ LET m == ctx[r].model
       IN  ctx' = [ctx EXCEPT ![r].backtest =
              IF There(m) THEN [plugin |-> models[m].plugin, params |-> models[m].params,
                                artifact |-> models[m].artifact]
              ELSE [plugin |-> None, params |-> Empty, artifact |-> None]]
    /\ Goto(r, "validate")
    /\ UNCHANGED <<poisoned, strategies, models, patched, named, changes, sessions>>

-----------------------------------------------------------------------------
(***************************************************************************)
(* ValidationAgent                                                         *)
(***************************************************************************)

\* Something of the context is missing.
SkipValidation(r) ==
    /\ pc[r] = "validate"
    /\ ~ctx[r].features \/ ctx[r].plugin = None
    /\ Goto(r, "govern")
    /\ UNCHANGED <<ctx, poisoned, rows, sessions>>

\* The walk forward ends with a verdict and the session's view of the strategy.
WalkForward(r) ==
    /\ pc[r] = "validate"
    /\ Usable(r) /\ ctx[r].symbols /\ ctx[r].features /\ ctx[r].plugin # None
    /\ StrategyThere(ctx[r].strategy)
    /\ \E verdict \in {"passed", "failed"} :
          ctx' = [ctx EXCEPT ![r] = Note(@, verdict, strategies[ctx[r].strategy])]
    /\ Goto(r, "verdict")
    /\ UNCHANGED <<poisoned, rows, sessions>>

\* An exception, at the commit (which poisons the session if the strategy is gone) or of
\* the run that is logged after it.
WalkForwardFails(r) ==
    /\ pc[r] \in {"validate", "verdict"} /\ ctx[r].features /\ ctx[r].plugin # None
    /\ ctx' = [ctx EXCEPT ![r] = Note(@, None, None)]
    /\ Caught(r, "govern")
    /\ UNCHANGED <<rows, sessions>>

\* The status is written if it is news to the session; then the run is logged.
SaveVerdict(r) ==
    /\ pc[r] = "verdict"
    /\ LET s == ctx[r].strategy
           verdict == ctx[r].found
           writes == verdict = "passed" /\ ctx[r].view # "validated"
       IN  /\ writes => StrategyThere(s)
           /\ strategies' = IF writes THEN [strategies EXCEPT ![s] = "validated"] ELSE strategies
           /\ \/ Goto(r, IF verdict = "passed" THEN "cpcv" ELSE "govern") /\ UNCHANGED poisoned
              \/ Caught(r, "govern")
    /\ ctx' = [ctx EXCEPT ![r] = Note(@, None, None)]
    /\ UNCHANGED <<models, patched, named, changes, sessions>>

\* Only after a walk forward that passed.  The strategy is read once the gates are known.
Cpcv(r) ==
    /\ pc[r] = "cpcv"
    /\ \E verdict \in {"passed", "failed", "error"}, writes \in BOOLEAN :
          /\ verdict = "failed" => ~writes
          /\ verdict = "passed" => writes = StrategyThere(ctx[r].strategy)
          /\ writes => StrategyThere(ctx[r].strategy)
          /\ strategies' = IF writes THEN [strategies EXCEPT ![ctx[r].strategy] = "validated"]
                           ELSE strategies
          /\ IF verdict = "error" THEN Caught(r, "govern")
             ELSE Goto(r, "govern") /\ UNCHANGED poisoned
    /\ UNCHANGED <<ctx, models, patched, named, changes, sessions>>

-----------------------------------------------------------------------------
(***************************************************************************)
(* GovernanceAgent                                                         *)
(***************************************************************************)

\* The flags go into the context and into the answer, and nowhere else.
Govern(r) ==
    /\ pc[r] = "govern"
    /\ Goto(r, "store")
    /\ UNCHANGED <<ctx, poisoned, rows, sessions>>

\* Two dates of which one has a time zone cannot be subtracted.
GovernRaises(r) == pc[r] = "govern" /\ Raise(r)

-----------------------------------------------------------------------------
(***************************************************************************)
(* The other requests, and the crash of the process                        *)
(***************************************************************************)

Change == changes < MaxChanges /\ changes' = changes + 1

PatchModel(m) ==
    /\ There(m)
    /\ \E p \in Params \ {models[m].params} : models' = [models EXCEPT ![m].params = p]
    /\ patched' = patched \cup {m}
    /\ Change
    /\ UNCHANGED <<pc, ctx, poisoned, strategies, named, sessions>>

DeleteModel(m) ==
    /\ There(m)
    /\ models' = [models EXCEPT ![m].there = FALSE]
    /\ Change
    /\ UNCHANGED <<pc, ctx, poisoned, strategies, patched, named, sessions>>

\* After its backtests and experiments.
DeleteStrategy(s) ==
    /\ StrategyThere(s)
    /\ strategies' = [strategies EXCEPT ![s] = "gone"]
    /\ Change
    /\ UNCHANGED <<pc, ctx, poisoned, models, patched, named, sessions>>

Crash ==
    /\ \E r \in Requests : Active(r) \/ sessions[r] # None
    /\ pc' = [r \in Requests |-> IF Active(r) THEN "over" ELSE pc[r]]
    /\ ctx' = [r \in Requests |-> IF Active(r) THEN NewContext ELSE ctx[r]]
    /\ poisoned' = {}
    /\ sessions' = [r \in Requests |-> None]
    /\ UNCHANGED rows

-----------------------------------------------------------------------------
Init ==
    /\ pc = [r \in Requests |-> "idle"]
    /\ ctx = [r \in Requests |-> NewContext]
    /\ poisoned = {}
    /\ strategies = [i \in Ids |-> None]
    /\ models = [r \in Requests |-> None]
    /\ sessions = [r \in Requests |-> None]
    /\ patched = {}
    /\ named = {}
    /\ changes = 0

Run(r) ==
    \/ Ask(r) \/ Chat(r) \/ EnsureStrategy(r) \/ DiscoverFeatures(r) \/ DiscoverModel(r)
    \/ SkipTuning(r) \/ Tune(r) \/ SaveTuned(r)
    \/ Train(r) \/ SaveTrained(r) \/ Backtest(r) \/ BacktestFails(r)
    \/ SkipValidation(r) \/ WalkForward(r) \/ WalkForwardFails(r) \/ SaveVerdict(r) \/ Cpcv(r)
    \/ Govern(r) \/ GovernRaises(r) \/ Store(r) \/ Disconnect(r)

Others == \E q \in Requests : PatchModel(q) \/ DeleteModel(q) \/ DeleteStrategy(q)

Next == (\E r \in Requests : Run(r)) \/ Others \/ Crash

Spec == Init /\ [][Next]_vars

-----------------------------------------------------------------------------
(***************************************************************************)
(* Properties                                                              *)
(***************************************************************************)

\* Where requests are and what contexts, rows and snapshots hold.
TypeOK ==
    /\ pc \in [Requests -> Labels]
    /\ ctx \in [Requests -> Contexts]
    /\ poisoned \subseteq Requests
    /\ strategies \in [Ids -> {None, "draft", "validated", "gone"}]
    /\ models \in [Requests -> Models \cup {None}]
    /\ sessions \in [Requests -> Snapshots \cup {None}]
    /\ patched \subseteq Requests
    /\ named \subseteq Ids
    /\ changes \in Nat

\* Whatever agents failed before it was stored, and whatever it was rehydrated from, a
\* snapshot names a strategy, which was committed unless a client came with its id, and the
\* model that it names was committed and is the one of its plugin.  (the merging of
\* ctx_updates, _ctx_snapshot and chat)
SnapshotSound ==
    \A r \in Requests : sessions[r] # None =>
       LET s == sessions[r]
       IN  /\ s.strategy # None /\ (strategies[s.strategy] # None \/ s.strategy \in named)
           /\ s.model # None => models[s.model] # None
           /\ s.plugin # None => s.model # None /\ models[s.model].plugin = s.plugin

\* In a session with a model of its own, the backtest that it reports was made with the
\* parameters that are validated and reported, which the agents pass on in the context on
\* the one hand and in the model's row on the other, unless a client has changed or deleted
\* the model.  (HyperparameterAgent, BacktestAgent and ValidationAgent)
ReportCoherent ==
    \A r \in Requests :
       ctx[r].backtest # None /\ ctx[r].model = r /\ r \notin patched /\ There(r) =>
          ctx[r].backtest =
             [plugin |-> ctx[r].plugin, params |-> ctx[r].params, artifact |-> ctx[r].params]
=============================================================================
