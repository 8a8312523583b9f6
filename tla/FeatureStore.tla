---------------------------- MODULE FeatureStore ----------------------------
(***************************************************************************)
(* engines/feature_engine: runs of the feature pipeline over the feature   *)
(* store.  A run loads its features, fetches market data once and then,    *)
(* feature by feature, computes, looks the version up in SQLite, and either*)
(* reads what is there or puts a Parquet file, caches and records it.  Runs*)
(* are on the event loop and in the threads of the task queue, each with a *)
(* session of its own; what lies between two accesses of store, cache and  *)
(* database is one step.                                                   *)
(*                                                                         *)
(* The version hash is a value: what it is computed from.  A news feature  *)
(* fetches its news while it computes; they are no part of the hash.       *)
(***************************************************************************)
EXTENDS Integers, Sequences, FiniteSets, Functions

CONSTANTS Runs,        \* runs of the pipeline: requests and tasks
          Features,    \* rows of the features table
          Wanted,      \* Wanted[r]: the features that run r is asked for
          Lenient,     \* runs that go on with those of their features that they find
          Definitions, \* plugin keys with their parameters
          Def,         \* Def[f]: the definition that feature f is created with
          NewsDefs,    \* the definitions whose plugin fetches news
          MaxSource,   \* bound: revisions of the market data
          MaxNews,     \* bound: what news can say
          Edited,      \* bound: the features that are changed or deleted, once each
          Nothing      \* no file, no cache entry, nothing computed, no such feature

MaxAttempts == 2

ASSUME FeatureAssumption ==
    /\ Wanted \in [Runs -> SUBSET Features] /\ \A r \in Runs : IsFiniteSet(Wanted[r])
    /\ Lenient \subseteq Runs
    /\ Def \in [Features -> Definitions]
    /\ NewsDefs \subseteq Definitions /\ Edited \subseteq Features
    /\ MaxSource \in Nat \ {0} /\ MaxNews \in Nat \ {0}

\* What a plugin has computed; news is 0 without any, which is also what a fetch of
\* news that failed leaves.
Contents == [def : Definitions, source : 1..MaxSource, news : 0..MaxNews]
ASSUME NothingAssumption == Nothing \notin Contents \cup Definitions

VARIABLES
    upstream,  \* the version of the market data that the Data Service serves
    definition,\* definition[f]: the row of feature f, Nothing when it is deleted
    file,      \* file[h]: the Parquet file with the version hash h in its key
    cache,     \* cache[h]: the entry of the DiskCache
    rows,      \* the rows of feature_datasets, each named after the run that inserted it
    pc,        \* pc[r]: where run r is
    loaded,    \* loaded[r]: the definitions as r has loaded them
    attempt,   \* attempt[r]: failed attempts of the fetch
    source,    \* source[r]: the version of the market data r works with, 0 before
    todo,      \* todo[r]: the features r has not materialised yet
    computed,  \* computed[r]: what the plugin has computed, or what is being read
    frames     \* frames[r]: the frames r has so far, feature by feature

sourceVars == <<upstream, definition>>
storeVars == <<file, cache, rows>>
localVars == <<loaded, attempt, source, todo, computed, frames>>
vars == <<sourceVars, storeVars, pc, localVars>>

Active == {"load", "fetch", "compute", "find", "put", "cache", "insert", "read", "get", "recache"}
PCs == Active \cup {"joined", "raised"}
Hashes == Definitions \X (0..MaxSource)

\* Mutant: the fingerprint of the source is not hashed.
VersionHashWithoutSource(d, s) == <<d, 0>>

VersionHash(d, s) == <<d, s>>

Feature(r) == Head(todo[r])
Own(r) == loaded[r][Feature(r)]
Hash(r) == VersionHash(Own(r), source[r])
Matching(f, h) == {row \in rows : row.feature = f /\ row.hash = h}

Init ==
    /\ upstream = 1
    /\ definition = Def
    /\ file = [h \in Hashes |-> Nothing]
    /\ cache = [h \in Hashes |-> Nothing]
    /\ rows = {}
    /\ pc = [r \in Runs |-> "load"]
    /\ loaded = [r \in Runs |-> Def]
    /\ attempt = [r \in Runs |-> 0]
    /\ source = [r \in Runs |-> 0]
    /\ todo = [r \in Runs |-> <<>>]
    /\ computed = [r \in Runs |-> Nothing]
    /\ frames = [r \in Runs |-> <<>>]

-----------------------------------------------------------------------------
(* A run *)

Goto(r, label) == pc' = [pc EXCEPT ![r] = label]

\* An exception: what the run has in memory is gone.
Raise(r) ==
    /\ Goto(r, "raised")
    /\ computed' = [computed EXCEPT ![r] = Nothing]
    /\ todo' = [todo EXCEPT ![r] = <<>>]
    /\ frames' = [frames EXCEPT ![r] = <<>>]

Proceed(r, label) == Goto(r, label) /\ UNCHANGED <<computed, todo, frames>>

\* The orders in which a SELECT ... IN may return the features that it finds.
Orders(found) == Bijection(1 .. Cardinality(found), found)

\* The features as they are now, for all of the run.  The endpoints and the task of one
\* feature raise when one is missing (404, ValueError); the tasks that train and signal,
\* the validation, the agents and the backtest go on with what there is, even if it is nothing.
\* The backtest loads after its fetch; each of the two steps is the run's own business.
Load(r) ==
    LET found == {f \in Wanted[r] : definition[f] # Nothing}
    IN  /\ pc[r] = "load"
        /\ loaded' = [loaded EXCEPT ![r] = definition]
        /\ \/ found # Wanted[r] /\ r \notin Lenient /\ Raise(r)
           \/ /\ found = Wanted[r] \/ r \in Lenient
              /\ \E order \in Orders(found) : todo' = [todo EXCEPT ![r] = order]
              /\ Goto(r, "fetch")
              /\ UNCHANGED <<computed, frames>>
        /\ UNCHANGED <<sourceVars, storeVars, attempt, source>>

\* get_ohlcv: the bars as the Data Service has them now; the call's own count is gone.
Fetch(r) ==
    /\ pc[r] = "fetch"
    /\ source' = [source EXCEPT ![r] = upstream]
    /\ attempt' = [attempt EXCEPT ![r] = 0]
    /\ Proceed(r, IF todo[r] = <<>> THEN "joined" ELSE "compute")
    /\ UNCHANGED <<sourceVars, storeVars, loaded>>

\* No connection, or no answer in time.
FetchTimesOut(r) ==
    /\ pc[r] = "fetch"
    /\ attempt' = [attempt EXCEPT ![r] = @ + 1]
    /\ IF attempt[r] + 1 < MaxAttempts THEN Proceed(r, "fetch") ELSE Raise(r)
    /\ UNCHANGED <<sourceVars, storeVars, loaded, source>>

\* The plugin's compute.  A news plugin computes with what the news say at the time, and
\* turns a failed fetch into zeros.
Compute(r) ==
    /\ pc[r] = "compute"
    /\ \E n \in IF Own(r) \in NewsDefs THEN 0..MaxNews ELSE {0} :
          computed' = [computed EXCEPT ![r] =
                          [def |-> Own(r), source |-> source[r], news |-> n]]
    /\ Goto(r, "find")
    /\ UNCHANGED <<sourceVars, storeVars, loaded, attempt, source, todo, frames>>

\* find_existing: scalar_one_or_none raises when there are two.
Find(r) ==
    LET existing == Matching(Feature(r), Hash(r))
    IN  /\ pc[r] = "find"
        /\ \/ existing = {} /\ Proceed(r, "put")
           \/ (\E row \in existing : existing = {row}) /\ Proceed(r, "read")
           \/ (\E a, b \in existing : a # b) /\ Raise(r)
        /\ UNCHANGED <<sourceVars, storeVars, loaded, attempt, source>>

\* Mutant: nobody waits for the upload.
PutLater(r) ==
    /\ pc[r] = "put"
    /\ Goto(r, "cache")
    /\ UNCHANGED <<sourceVars, storeVars, localVars>>

\* put_bytes, without a test for the key.
Put(r) ==
    /\ pc[r] = "put"
    /\ file' = [file EXCEPT ![Hash(r)] = computed[r]]
    /\ Goto(r, "cache")
    /\ UNCHANGED <<sourceVars, cache, rows, localVars>>

\* FeatureCache.set keeps its exceptions to itself.
SetCache(r, label) ==
    /\ \/ cache' = [cache EXCEPT ![Hash(r)] = computed[r]]
       \/ UNCHANGED cache
    /\ Goto(r, label)
    /\ UNCHANGED <<sourceVars, file, rows, localVars>>

CacheNew(r) == pc[r] = "cache" /\ SetCache(r, "insert")

\* The row is inserted and committed; there is no unique constraint.
Insert(r) ==
    /\ pc[r] = "insert"
    /\ rows' = rows \cup
          {[feature |-> Feature(r), hash |-> Hash(r), source |-> source[r], run |-> r]}
    /\ Goto(r, "read")
    /\ UNCHANGED <<sourceVars, file, cache, localVars>>

\* The frame joins the others; the next feature, or the end of run_many.
Frame(r, content) ==
    /\ frames' = [frames EXCEPT ![r] = Append(@, [feature |-> Feature(r), content |-> content])]
    /\ computed' = [computed EXCEPT ![r] = Nothing]
    /\ todo' = [todo EXCEPT ![r] = Tail(@)]
    /\ Goto(r, IF Tail(todo[r]) = <<>> THEN "joined" ELSE "compute")
    /\ UNCHANGED <<sourceVars, loaded, attempt, source>>

\* read_dataframe: from the cache if it has the hash (an error there is a miss) ...
Read(r) ==
    /\ pc[r] = "read"
    /\ \/ cache[Hash(r)] # Nothing /\ Frame(r, cache[Hash(r)])
       \/ Goto(r, "get") /\ UNCHANGED <<sourceVars, localVars>>
    /\ UNCHANGED storeVars

\* ... or from the object store (a key that is not there raises: Fail) ...
Get(r) ==
    /\ pc[r] = "get" /\ file[Hash(r)] # Nothing
    /\ computed' = [computed EXCEPT ![r] = file[Hash(r)]]
    /\ Goto(r, "recache")
    /\ UNCHANGED <<sourceVars, storeVars, loaded, attempt, source, todo, frames>>

\* ... and then into the cache.
Recache(r) ==
    /\ pc[r] = "recache"
    /\ \/ cache' = [cache EXCEPT ![Hash(r)] = computed[r]]
       \/ UNCHANGED cache
    /\ Frame(r, computed[r])
    /\ UNCHANGED <<file, rows>>

\* Data Service, plugin, object store or database fail, there is no data, or the process
\* dies: what is put, cached and committed stays.
Fail(r) ==
    /\ pc[r] \in Active
    /\ Raise(r)
    /\ UNCHANGED <<sourceVars, storeVars, loaded, attempt, source>>

Step(r) ==
    \/ Load(r) \/ Fetch(r) \/ FetchTimesOut(r) \/ Compute(r) \/ Find(r)
    \/ Put(r) \/ CacheNew(r) \/ Insert(r) \/ Read(r) \/ Get(r) \/ Recache(r) \/ Fail(r)

-----------------------------------------------------------------------------
(* Around the runs *)

\* Bars are corrected or come late.
Revise ==
    /\ upstream < MaxSource
    /\ upstream' = upstream + 1
    /\ UNCHANGED <<definition, storeVars, pc, localVars>>

\* PATCH gives a feature another plugin or other parameters, DELETE takes it away; its
\* datasets stay, for SQLite checks no foreign keys here.
Edit(f) ==
    /\ f \in Edited /\ definition[f] = Def[f]
    /\ \E d \in (Definitions \cup {Nothing}) \ {Def[f]} :
          definition' = [definition EXCEPT ![f] = d]
    /\ UNCHANGED <<upstream, storeVars, pc, localVars>>

\* The time to live is over.
Expire(h) ==
    /\ cache[h] # Nothing
    /\ cache' = [cache EXCEPT ![h] = Nothing]
    /\ UNCHANGED <<sourceVars, file, rows, pc, localVars>>

Next ==
    \/ \E r \in Runs : Step(r)
    \/ Revise
    \/ \E f \in Features : Edit(f)
    \/ \E h \in Hashes : Expire(h)

Spec == Init /\ [][Next]_vars

-----------------------------------------------------------------------------
(* Properties *)

\* Types; a fetch is not tried a third time (market_data_client.py:170).
TypeOK ==
    /\ upstream \in 1..MaxSource
    /\ definition \in [Features -> Definitions \cup {Nothing}]
    /\ file \in [Hashes -> Contents \cup {Nothing}]
    /\ cache \in [Hashes -> Contents \cup {Nothing}]
    /\ rows \subseteq [feature : Features, hash : Hashes, source : 1..MaxSource, run : Runs]
    /\ pc \in [Runs -> PCs]
    /\ loaded \in [Runs -> [Features -> Definitions \cup {Nothing}]]
    /\ attempt \in [Runs -> 0..MaxAttempts]
    /\ source \in [Runs -> 0..MaxSource]
    /\ todo \in [Runs -> Seq(Features)]
    /\ computed \in [Runs -> Contents \cup {Nothing}]
    /\ frames \in [Runs -> Seq([feature : Features, content : Contents])]

\* What is on record can be read: wherever runs fail and however they overlap, the file
\* of every row exists, and was computed from the market data whose fingerprint the row
\* has and as the row's feature was defined when its run loaded it, even if another run
\* has put the file again or another feature shares it (write_dataframe puts before it
\* inserts).
RecordedIsStored ==
    \A row \in rows : /\ file[row.hash] # Nothing
                      /\ file[row.hash].def = loaded[row.run][row.feature]
                      /\ file[row.hash].source = row.source

\* A run gets its own version of everything: whether a frame comes from the cache or
\* from the store, and whoever put it there, it is the feature as the run has loaded it
\* over the very market data that this run has fetched; so the frames that run_many
\* joins are of one version, the one the forward returns are computed from as well
\* (dataset_assembler.py:43-60).
ServesOwnVersion ==
    \A r \in Runs : \A i \in DOMAIN frames[r] :
       /\ frames[r][i].content.def = loaded[r][frames[r][i].feature]
       /\ frames[r][i].content.source = source[r]

\* History is not overwritten (README.md:172-173): what has been put under a key is
\* there for good, even when runs without a record of it put it again; but for the
\* plugins that fetch news.
HistoryKept ==
    [][\A h \in Hashes : h[1] \notin NewsDefs /\ file[h] # Nothing => file'[h] = file[h]]_vars

\* "the same definition + inputs always resolves to the same dataset"
\* (dataset_orm.py:6-7): no lookup can find two.  Two runs that look before either has
\* inserted make it fail, and every later run raises in Find.
AlwaysResolves ==
    \A f \in Features, h \in Hashes : \A a, b \in Matching(f, h) : a = b
=============================================================================
