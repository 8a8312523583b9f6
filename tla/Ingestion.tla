----------------------------- MODULE Ingestion -----------------------------
(***************************************************************************)
(* app/data: requests for market data, the DiskCache of file names, the    *)
(* SQLite registry and the Parquet files in the object store.  The four    *)
(* pipelines of ingestion/pipeline.py (OHLCV, news, fundamentals, macro)   *)
(* have one order of steps and differ in the data they carry; a dataset    *)
(* stands for the parameters that compute_hash makes the hash of.          *)
(*                                                                         *)
(* A step is what a request does between two awaits.  SQLite gives the     *)
(* first INSERT of a session (log_start) the write lock of the database,   *)
(* and the session keeps it until its commit or rollback.                  *)
(***************************************************************************)
EXTENDS Integers, FiniteSets

CONSTANTS Requests,     \* requests of clients of the delivery API
          Datasets,     \* hash values
          Want,         \* Want[r]: the dataset request r asks for
          Micros,       \* microsecond fractions of the clock, as file suffixes
          MayCoincide,  \* whether the clock may show a fraction a second time
          MaxVersion,   \* bound: revisions of a dataset by its provider
          MaxCrashes,   \* bound: crashes of the service
          NoFile,       \* the None of a lookup
          Free          \* the database's write lock held by nobody

ASSUME IngestionAssumption ==
    /\ Want \in [Requests -> Datasets]
    /\ Micros \subseteq Nat \ {0}
    /\ MaxVersion \in Nat \ {0} /\ MaxCrashes \in Nat
    /\ Free \notin Requests
    /\ NoFile \notin Datasets \X Nat

VARIABLES
    upstream,   \* upstream[d]: the version of d that the provider serves
    file,       \* file[k]: the version in the Parquet file k, 0 if there is none
    cache,      \* cache[d]: the file the DiskCache has for d, NoFile on a miss
    record,     \* record[d]: the file of the committed DatasetRecord of d
    logged,     \* the requests with a committed IngestionLog row
    writer,     \* the request whose session holds the write lock
    crashes,    \* crashes so far
    pc,         \* pc[r]: where request r is
    data,       \* data[r]: the version r has downloaded and normalised
    uri,        \* uri[r]: the file r writes, or found
    served,     \* served[d]: the newest version of d a client was given
    refreshed,  \* refreshed[d]: the version upstream had at the last refresh of d
    floor       \* floor[r]: served and refreshed when r was asked

storeVars == <<file, cache, record, logged>>
ghostVars == <<served, refreshed, floor>>
localVars == <<data, uri>>
vars == <<upstream, storeVars, writer, crashes, pc, localVars, ghostVars>>

Keys == Datasets \X ({0} \cup Micros)
Key(d, m) == <<d, m>>
Found == Keys \cup {NoFile}

\* Where a request is: at the endpoint, in the pipeline before its session writes,
\* in the session's transaction, reading the file, or over.
Transaction == {"download", "head", "put", "create", "cache_set", "commit", "rollback"}
Active == {"endpoint", "pipeline", "registry", "recache", "log", "read"} \cup Transaction
PCs == Active \cup {"idle", "done", "crashed"}
Anything == [served |-> 1, refreshed |-> 1]

Init ==
    /\ upstream = [d \in Datasets |-> 1]
    /\ file = [k \in Keys |-> 0]
    /\ cache = [d \in Datasets |-> NoFile]
    /\ record = [d \in Datasets |-> NoFile]
    /\ logged = {}
    /\ writer = Free
    /\ crashes = 0
    /\ pc = [r \in Requests |-> "idle"]
    /\ data = [r \in Requests |-> 0]
    /\ uri = [r \in Requests |-> NoFile]
    /\ served = [d \in Datasets |-> 1]
    /\ refreshed = [d \in Datasets |-> 1]
    /\ floor = [r \in Requests |-> Anything]

-----------------------------------------------------------------------------
(* A request *)

Goto(r, label) == pc' = [pc EXCEPT ![r] = label]
Answer(r) ==
    /\ Goto(r, "done")
    /\ data' = [data EXCEPT ![r] = 0]
    /\ uri' = [uri EXCEPT ![r] = NoFile]
    /\ floor' = [floor EXCEPT ![r] = Anything]

Ask(r) ==
    /\ pc[r] = "idle"
    /\ Goto(r, "endpoint")
    /\ floor' = [floor EXCEPT ![r] = [served |-> served[Want[r]],
                                      refreshed |-> refreshed[Want[r]]]]
    /\ UNCHANGED <<upstream, storeVars, writer, crashes, localVars, served,
                   refreshed>>

\* The endpoint and then the pipeline look into the cache.
LookCache(r) ==
    LET f == cache[Want[r]]
    IN  /\ pc[r] \in {"endpoint", "pipeline"}
        /\ IF f # NoFile
           THEN uri' = [uri EXCEPT ![r] = f] /\ Goto(r, "read")
           ELSE /\ Goto(r, IF pc[r] = "endpoint" THEN "pipeline" ELSE "registry")
                /\ UNCHANGED uri
        /\ UNCHANGED <<upstream, storeVars, writer, crashes, data, ghostVars>>

\* get_by_hash reads what is committed.
LookRegistry(r) ==
    LET f == record[Want[r]]
    IN  /\ pc[r] = "registry"
        /\ uri' = [uri EXCEPT ![r] = f]
        /\ Goto(r, IF f # NoFile THEN "recache" ELSE "log")
        /\ UNCHANGED <<upstream, storeVars, writer, crashes, data, ghostVars>>

Recache(r) ==
    /\ pc[r] = "recache"
    /\ cache' = [cache EXCEPT ![Want[r]] = uri[r]]
    /\ Goto(r, "read")
    /\ UNCHANGED <<upstream, file, record, logged, writer, crashes, localVars,
                   ghostVars>>

\* Mutant: the log row is added and not flushed, so no lock is taken.
LogStartUnflushed(r) ==
    /\ pc[r] = "log"
    /\ Goto(r, "download")
    /\ UNCHANGED <<upstream, storeVars, writer, crashes, localVars, ghostVars>>

\* log_start flushes the row of this attempt: the session gets the write lock.
LogStart(r) ==
    /\ pc[r] = "log"
    /\ writer = Free
    /\ writer' = r
    /\ Goto(r, "download")
    /\ UNCHANGED <<upstream, storeVars, crashes, localVars, ghostVars>>

\* The lock was not to be had in time: the exception leaves the pipeline, and the
\* client is told that the provider is unavailable.
LogStartLocked(r) ==
    /\ pc[r] = "log"
    /\ writer # Free
    /\ Answer(r)
    /\ UNCHANGED <<upstream, storeVars, writer, crashes, served, refreshed>>

\* The provider's data, normalised and validated.  What the validators find goes
\* into the record and stops nothing.
Download(r) ==
    /\ pc[r] = "download"
    /\ data' = [data EXCEPT ![r] = upstream[Want[r]]]
    /\ Goto(r, "head")
    /\ UNCHANGED <<upstream, storeVars, writer, crashes, uri, ghostVars>>

\* Mutant: the path is taken whether it exists or not.
HeadNever(r) ==
    /\ pc[r] = "head"
    /\ uri' = [uri EXCEPT ![r] = Key(Want[r], 0)]
    /\ Goto(r, "put")
    /\ UNCHANGED <<upstream, storeVars, writer, crashes, data, ghostVars>>

\* ParquetStore.write: a path that exists gets the clock's microseconds ...
Head(r) ==
    LET d == Want[r]
        micros == {m \in Micros : MayCoincide \/ file[Key(d, m)] = 0}
    IN  /\ pc[r] = "head"
        /\ \E m \in IF file[Key(d, 0)] = 0 THEN {0} ELSE micros :
               uri' = [uri EXCEPT ![r] = Key(d, m)]
        /\ Goto(r, "put")
        /\ UNCHANGED <<upstream, storeVars, writer, crashes, data, ghostVars>>

\* Mutant: nobody waits for the upload.
PutLater(r) ==
    /\ pc[r] = "put"
    /\ Goto(r, "create")
    /\ UNCHANGED <<upstream, storeVars, writer, crashes, localVars, ghostVars>>

\* ... and the file is put, without another test.
Put(r) ==
    /\ pc[r] = "put"
    /\ file' = [file EXCEPT ![uri[r]] = data[r]]
    /\ Goto(r, "create")
    /\ UNCHANGED <<upstream, cache, record, logged, writer, crashes, localVars,
                   ghostVars>>

\* Mutant: no unique constraint on the hash.
CreateAlways(r) ==
    /\ pc[r] = "create"
    /\ Goto(r, "cache_set")
    /\ UNCHANGED <<upstream, storeVars, writer, crashes, localVars, ghostVars>>

\* registry.create and log_success: the rows are flushed, nobody else sees them.
\* The hash is unique: a record that was committed since get_by_hash makes the
\* flush raise.
Create(r) ==
    /\ pc[r] = "create"
    /\ Goto(r, IF record[Want[r]] = NoFile THEN "cache_set" ELSE "rollback")
    /\ UNCHANGED <<upstream, storeVars, writer, crashes, localVars, ghostVars>>

\* The cache is set, and the event published, before the session commits.
CacheSet(r) ==
    /\ pc[r] = "cache_set"
    /\ cache' = [cache EXCEPT ![Want[r]] = uri[r]]
    /\ Goto(r, "commit")
    /\ UNCHANGED <<upstream, file, record, logged, writer, crashes, localVars,
                   ghostVars>>

Commit(r) ==
    /\ pc[r] = "commit"
    /\ record' = [record EXCEPT ![Want[r]] = uri[r]]
    /\ logged' = logged \cup {r}
    /\ writer' = Free
    /\ Goto(r, "read")
    /\ UNCHANGED <<upstream, file, cache, crashes, localVars, ghostVars>>

\* The provider, the object store, the disk, the cache or the database fails: inside
\* the try the session is rolled back, outside it the client gets the error.
Fail(r) ==
    \/ /\ pc[r] \in {"download", "head", "put", "cache_set", "commit"}
       /\ Goto(r, "rollback")
       /\ UNCHANGED <<upstream, storeVars, writer, crashes, localVars, ghostVars>>
    \/ /\ pc[r] \in {"registry", "recache", "read"}
       /\ Answer(r)
       /\ UNCHANGED <<upstream, storeVars, writer, crashes, served, refreshed>>

\* Mutant: a failed attempt is tried again.
RollbackRetries(r) ==
    /\ pc[r] = "rollback"
    /\ writer' = Free
    /\ Goto(r, "registry")
    /\ UNCHANGED <<upstream, storeVars, crashes, localVars, ghostVars>>

\* log_failure writes into the session that get_session then rolls back, the row
\* of this attempt included.
Rollback(r) ==
    /\ pc[r] = "rollback"
    /\ writer' = Free
    /\ Answer(r)
    /\ UNCHANGED <<upstream, storeVars, crashes, served, refreshed>>

\* DuckDB reads the file for the client; a file that is not there is an error.
Read(r) ==
    LET v == file[uri[r]]
        d == Want[r]
    IN  /\ pc[r] = "read"
        /\ served' = [served EXCEPT ![d] = IF v > @ THEN v ELSE @]
        /\ Answer(r)
        /\ UNCHANGED <<upstream, storeVars, writer, crashes, refreshed>>

Step(r) ==
    \/ LookCache(r) \/ LookRegistry(r) \/ Recache(r)
    \/ LogStart(r) \/ LogStartLocked(r)
    \/ Download(r) \/ Head(r) \/ Put(r) \/ Create(r) \/ CacheSet(r)
    \/ Commit(r) \/ Rollback(r) \/ Read(r)

-----------------------------------------------------------------------------
(* Around the requests *)

\* The provider corrects its data.
Revise(d) ==
    /\ upstream[d] < MaxVersion
    /\ upstream' = [upstream EXCEPT ![d] = @ + 1]
    /\ UNCHANGED <<storeVars, writer, crashes, pc, localVars, ghostVars>>

\* The time to live is over, or somebody invalidates the hash or flushes the symbol.
Drop(d) ==
    /\ cache[d] # NoFile
    /\ cache' = [cache EXCEPT ![d] = NoFile]
    /\ UNCHANGED <<upstream, file, record, logged, writer, crashes, pc,
                   localVars, ghostVars>>

\* POST /cache/refresh.
Refresh(d) ==
    /\ cache' = [cache EXCEPT ![d] = NoFile]
    /\ refreshed' = [refreshed EXCEPT ![d] = upstream[d]]
    /\ UNCHANGED <<upstream, file, record, logged, writer, crashes, pc,
                   localVars, served, floor>>

\* The service dies; cache, database and object store stay as they are, and SQLite
\* rolls back what was not committed.
Crash ==
    /\ crashes < MaxCrashes
    /\ crashes' = crashes + 1
    /\ writer' = Free
    /\ pc' = [r \in Requests |-> IF pc[r] \in Active THEN "crashed" ELSE pc[r]]
    /\ data' = [r \in Requests |-> 0]
    /\ uri' = [r \in Requests |-> NoFile]
    /\ floor' = [r \in Requests |-> Anything]
    /\ UNCHANGED <<upstream, storeVars, served, refreshed>>

Next ==
    \/ \E r \in Requests : Ask(r) \/ Step(r) \/ Fail(r)
    \/ \E d \in Datasets : Revise(d) \/ Drop(d) \/ Refresh(d)
    \/ Crash

Spec == Init /\ [][Next]_vars

\* The event loop goes on with every request it has taken, and calls to the
\* provider, the database and the object store return or raise.
FairSpec == Spec /\ \A r \in Requests : WF_vars(Step(r))

-----------------------------------------------------------------------------
(* Properties *)

\* Every variable has its type.
TypeOK ==
    /\ upstream \in [Datasets -> 1..MaxVersion]
    /\ file \in [Keys -> 0..MaxVersion]
    /\ cache \in [Datasets -> Found]
    /\ record \in [Datasets -> Found]
    /\ logged \subseteq Requests
    /\ writer \in Requests \cup {Free}
    /\ crashes \in 0..MaxCrashes
    /\ pc \in [Requests -> PCs]
    /\ data \in [Requests -> 0..MaxVersion]
    /\ uri \in [Requests -> Found]
    /\ served \in [Datasets -> 1..MaxVersion]
    /\ refreshed \in [Datasets -> 1..MaxVersion]
    /\ floor \in [Requests -> [served : 1..MaxVersion, refreshed : 1..MaxVersion]]

\* Whatever fails, and whenever the service dies: a file that the cache, the
\* registry or an answer names is there, and is the dataset's own.
NoDanglingUri ==
    /\ \A d \in Datasets : \A f \in {cache[d], record[d]} \ {NoFile} :
        f[1] = d /\ file[f] # 0
    /\ \A r \in Requests : pc[r] = "read" => uri[r] \in Keys /\ file[uri[r]] # 0

\* The cache is set before the commit and read by everybody at once; all the same,
\* once a dataset has a record the cache has the record's file or none.
CacheAgrees ==
    \A d \in Datasets :
        record[d] # NoFile /\ cache[d] # NoFile => cache[d] = record[d]

\* ParquetStore: "Never overwrite existing files".  The test for the file and the
\* upload are two calls; the database's write lock is what keeps them together.
NeverOverwritten == [][\A k \in Keys : file[k] # 0 => file'[k] = file[k]]_file

\* A client never gets older data than a client got before it asked: what the promise
\* below comes to for one client.
NeverOlder ==
    \A r \in Requests : pc[r] = "read" => file[uri[r]] >= floor[r].served

\* Every request is answered, unless the service dies under it: nobody waits for
\* ever for the write lock.
Answered == \A r \in Requests : (pc[r] = "endpoint") ~> (pc[r] \in {"done", "crashed"})

\* cache_refresh: "Invalidates the cache for a specific dataset so the next request
\* triggers a fresh download from the upstream provider".  A request that comes after
\* a refresh and misses the cache gets nothing older than the refresh.
RefreshReingests ==
    \A r \in Requests : pc[r] = "recache" => file[uri[r]] >= floor[r].refreshed

\* The data layer keeps what DatasetPromise says of it: a version is published by the
\* commit of its record, and offered to a request that is about to read the file.
Published == [d \in Datasets |-> IF record[d] = NoFile THEN 0 ELSE file[record[d]]]
Offered == [r \in Requests |-> IF pc[r] = "read" THEN file[uri[r]] ELSE 0]
Promise == INSTANCE DatasetPromise WITH Versions <- 1..MaxVersion, shown <- served,
                                        published <- Published, offered <- Offered
DataPromiseKept == Promise!PromiseSpec

\* A committed record has one audit row, and only a record has.
OneRowPerRecord ==
    \A d \in Datasets :
        Cardinality({r \in logged : Want[r] = d}) = IF record[d] = NoFile THEN 0 ELSE 1
=============================================================================
