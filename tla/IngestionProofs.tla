-------------------------- MODULE IngestionProofs --------------------------
(***************************************************************************)
(* What holds of the data layer for any requests, datasets and crashes.    *)
(* The invariant is built in layers, each proved with the ones below it:   *)
(*   TypeOK, NameInv   types, and whose files the names are;               *)
(*   LockInv           who is in a transaction holds the write lock;       *)
(*   StoreInv          what is named is in the object store;               *)
(*   AgreeInv          how cache, record and a request's file fit together;*)
(*   LogInv            the audit rows of a record;                         *)
(*   VersionInv        a transaction has the newest data of its dataset;   *)
(*   NamedInv          what is named is as new as anything that is read.   *)
(* The last two need a clock whose fractions do not repeat (~MayCoincide). *)
(* The providers behind the data layer (module Providers) follow, with the *)
(* bound of their circuit breaker.                                         *)
(***************************************************************************)
EXTENDS Ingestion, Providers, FiniteSetTheorems, TLAPS

KeysOf(d) == {d} \X ({0} \cup Micros)

\* Cache, registry and requests name files of their own datasets.
Named == {"recache", "put", "create", "cache_set", "commit", "read"}
NameInv ==
    /\ \A d \in Datasets : /\ cache[d] \in KeysOf(d) \cup {NoFile}
                           /\ record[d] \in KeysOf(d) \cup {NoFile}
    /\ \A r \in Requests : pc[r] \in Named => uri[r] \in KeysOf(Want[r])

\* SQLite's write lock and the transactions of the sessions.
LockInv ==
    \A r \in Requests : pc[r] \in Transaction <=> writer = r

\* What the cache, the registry or a request names has been put, and what is about
\* to be put has been downloaded.
Held == {"recache", "create", "cache_set", "commit", "read"}
StoreInv ==
    /\ \A d \in Datasets : /\ cache[d] # NoFile => file[cache[d]] # 0
                           /\ record[d] # NoFile => file[record[d]] # 0
    /\ \A r \in Requests : /\ pc[r] \in Held => file[uri[r]] # 0
                           /\ pc[r] \in {"head", "put"} => data[r] # 0

\* A transaction past the unique constraint is the only one for its dataset, and
\* between CacheSet and Commit nobody else sets the cache.
AgreeInv ==
    /\ CacheAgrees
    /\ \A r \in Requests :
        /\ pc[r] \in {"cache_set", "commit"} => record[Want[r]] = NoFile
        /\ pc[r] = "commit" => cache[Want[r]] \in {uri[r], NoFile}
        /\ pc[r] = "recache" => record[Want[r]] = uri[r]

\* The audit rows: none without a record, one with it.
LogInv ==
    \A d \in Datasets :
        IF record[d] = NoFile
        THEN \A r \in logged : Want[r] # d
        ELSE \E r \in logged : /\ Want[r] = d
                               /\ \A q \in logged : Want[q] = d => q = r

\* No file of d, and nothing a client was given of d, is newer than v.
NoneNewer(d, v) ==
    served[d] <= v /\ \A k \in KeysOf(d) : file[k] <= v

\* The data of a transaction is the newest there is of its dataset, so what replaces
\* a name is never older than what the old name gave.
Loaded == {"head", "put", "create", "cache_set", "commit"}
Stored == {"create", "cache_set", "commit"}
Fresh(r) ==
    /\ pc[r] \in Loaded => NoneNewer(Want[r], data[r]) /\ data[r] <= upstream[Want[r]]
    /\ pc[r] = "put" => file[uri[r]] = 0
    /\ pc[r] \in Stored => file[uri[r]] = data[r]
    /\ floor[r].served <= served[Want[r]]
    /\ pc[r] = "read" => floor[r].served <= file[uri[r]]
VersionInv ==
    /\ \A d \in Datasets : NoneNewer(d, upstream[d])
    /\ \A r \in Requests : Fresh(r)

\* Who reads a file reads nothing newer than what the cache or the registry names.
Names(d) == {cache[d], record[d]} \ {NoFile}
NamedInv ==
    \A d \in Datasets : \A f \in Names(d) :
        /\ served[d] <= file[f]
        /\ \A r \in Requests :
            pc[r] \in {"recache", "read"} /\ Want[r] = d => file[uri[r]] <= file[f]

-----------------------------------------------------------------------------
\* The names of a dataset are names of files, and None is not one.
LEMMA KeysOfDataset ==
    \A d \in Datasets : KeysOf(d) \subseteq Keys /\ NoFile \notin KeysOf(d)
<1>1. \A d \in Datasets : KeysOf(d) \subseteq Keys
  BY DEF KeysOf, Keys
<1>2. {0} \cup Micros \subseteq Nat
  BY IngestionAssumption
<1>3. ASSUME NEW d \in Datasets
      PROVE  KeysOf(d) \subseteq Datasets \X Nat
  BY <1>2 DEF KeysOf
<1> QED BY <1>1, <1>3, IngestionAssumption

\* Every step keeps the types.
LEMMA TypeOKStep ==
    ASSUME TypeOK, NameInv, [Next]_vars
    PROVE  TypeOK'
<1> USE IngestionAssumption
<1>0. TypeOK
  OBVIOUS
<1>1. ASSUME NEW r \in Requests, NEW label \in PCs, Goto(r, label)
      PROVE  pc' \in [Requests -> PCs]
  BY <1>1 DEF Goto, TypeOK
<1>2. NoFile \in Found /\ 0 \in 0..MaxVersion /\ "done" \in PCs
  BY DEF Found, PCs
<1>3. Anything \in [served : 1..MaxVersion, refreshed : 1..MaxVersion]
  BY DEF Anything
<1>4. ASSUME NEW r \in Requests, Answer(r)
      PROVE  /\ pc' \in [Requests -> PCs]
             /\ data' \in [Requests -> 0..MaxVersion]
             /\ uri' \in [Requests -> Found]
             /\ floor' \in [Requests -> [served : 1..MaxVersion, refreshed : 1..MaxVersion]]
  BY <1>1, <1>2, <1>3, <1>4 DEF Answer, TypeOK
<1>5. ASSUME NEW r \in Requests, Ask(r)
      PROVE  TypeOK'
  <2>1. pc' \in [Requests -> PCs]
    BY <1>1, <1>5 DEF Ask, PCs, Active
  <2>2. floor' \in [Requests -> [served : 1..MaxVersion, refreshed : 1..MaxVersion]]
    BY <1>5 DEF Ask, TypeOK
  <2> QED BY <1>5, <2>1, <2>2 DEF Ask, TypeOK, storeVars, localVars
<1>6. ASSUME NEW r \in Requests, LookCache(r) \/ LookRegistry(r)
      PROVE  TypeOK'
  <2>1. pc' \in [Requests -> PCs]
    BY <1>1, <1>6 DEF LookCache, LookRegistry, PCs, Active
  <2>2. uri' \in [Requests -> Found]
    BY <1>6 DEF LookCache, LookRegistry, TypeOK
  <2> QED BY <1>6, <2>1, <2>2 DEF LookCache, LookRegistry, TypeOK, storeVars, ghostVars
<1>7. ASSUME NEW r \in Requests, Recache(r) \/ CacheSet(r)
      PROVE  TypeOK'
  <2>1. pc' \in [Requests -> PCs]
    BY <1>1, <1>7 DEF Recache, CacheSet, PCs, Active, Transaction
  <2>2. cache' \in [Datasets -> Found]
    BY <1>7 DEF Recache, CacheSet, TypeOK
  <2> QED BY <1>7, <2>1, <2>2 DEF Recache, CacheSet, TypeOK, localVars, ghostVars
<1>8. ASSUME NEW r \in Requests, LogStart(r)
      PROVE  TypeOK'
  <2>1. pc' \in [Requests -> PCs]
    BY <1>1, <1>8 DEF LogStart, PCs, Active, Transaction
  <2> QED BY <1>8, <2>1 DEF LogStart, TypeOK, storeVars, localVars, ghostVars
<1>9. ASSUME NEW r \in Requests, LogStartLocked(r) \/ Rollback(r)
      PROVE  TypeOK'
  BY <1>4, <1>9 DEF LogStartLocked, Rollback, TypeOK, storeVars
<1>10. ASSUME NEW r \in Requests, Download(r)
       PROVE  TypeOK'
  <2>1. pc' \in [Requests -> PCs]
    BY <1>1, <1>10 DEF Download, PCs, Active, Transaction
  <2>2. data' \in [Requests -> 0..MaxVersion]
    BY <1>10 DEF Download, TypeOK
  <2> QED BY <1>10, <2>1, <2>2 DEF Download, TypeOK, storeVars, ghostVars
<1>11. ASSUME NEW r \in Requests, Head(r)
       PROVE  TypeOK'
  <2>1. pc' \in [Requests -> PCs]
    BY <1>1, <1>11 DEF Head, PCs, Active, Transaction
  <2>2. uri' \in [Requests -> Found]
    BY <1>11 DEF Head, Key, Keys, Found, TypeOK
  <2> QED BY <1>11, <2>1, <2>2 DEF Head, TypeOK, storeVars, ghostVars
<1>12. ASSUME NEW r \in Requests, Put(r)
       PROVE  TypeOK'
  <2>1. pc' \in [Requests -> PCs]
    BY <1>1, <1>12 DEF Put, PCs, Active, Transaction
  <2>2. file' \in [Keys -> 0..MaxVersion]
    BY <1>12 DEF Put, TypeOK
  <2> QED BY <1>12, <2>1, <2>2 DEF Put, TypeOK, localVars, ghostVars
<1>13. ASSUME NEW r \in Requests, Create(r)
       PROVE  TypeOK'
  <2>1. pc' \in [Requests -> PCs]
    BY <1>1, <1>13 DEF Create, PCs, Active, Transaction
  <2> QED BY <1>13, <2>1 DEF Create, TypeOK, storeVars, localVars, ghostVars
<1>14. ASSUME NEW r \in Requests, Commit(r)
       PROVE  TypeOK'
  <2>1. pc' \in [Requests -> PCs]
    BY <1>1, <1>14 DEF Commit, PCs, Active, Transaction
  <2>2. record' \in [Datasets -> Found]
    BY <1>14 DEF Commit, TypeOK
  <2> QED BY <1>14, <2>1, <2>2 DEF Commit, TypeOK, localVars, ghostVars
<1>15. ASSUME NEW r \in Requests, Read(r)
       PROVE  TypeOK'
  <2>1. served' \in [Datasets -> 1..MaxVersion]
    <3>1. uri[r] \in Keys
      BY <1>15 DEF Read, NameInv, Named, Keys, KeysOf
    <3> DEFINE v == file[uri[r]]
               w == served[Want[r]]
    <3>2. v \in 0..MaxVersion /\ w \in 1..MaxVersion
      BY <3>1 DEF TypeOK
    <3>3. (IF v > w THEN v ELSE w) \in 1..MaxVersion
      BY <3>2
    <3>4. served' = [served EXCEPT ![Want[r]] = IF v > w THEN v ELSE w]
      BY <1>15 DEF Read
    <3> QED BY <3>3, <3>4 DEF TypeOK
  <2> QED BY <1>4, <1>15, <2>1 DEF Read, TypeOK, storeVars
<1>16. ASSUME NEW r \in Requests, Fail(r)
       PROVE  TypeOK'
  <2>1. CASE Goto(r, "rollback") /\ UNCHANGED <<upstream, storeVars, writer, crashes, localVars, ghostVars>>
    <3>1. pc' \in [Requests -> PCs]
      BY <1>1, <2>1 DEF PCs, Active, Transaction
    <3> QED BY <2>1, <3>1 DEF TypeOK, storeVars, localVars, ghostVars
  <2>2. CASE Answer(r) /\ UNCHANGED <<upstream, storeVars, writer, crashes, served, refreshed>>
    BY <1>4, <2>2 DEF TypeOK, storeVars
  <2> QED BY <1>16, <2>1, <2>2 DEF Fail
<1>17. ASSUME NEW d \in Datasets, Revise(d)
       PROVE  TypeOK'
  <2>1. upstream' \in [Datasets -> 1..MaxVersion]
    BY <1>17 DEF Revise, TypeOK
  <2> QED BY <1>17, <2>1 DEF Revise, TypeOK, storeVars, localVars, ghostVars
<1>18. ASSUME NEW d \in Datasets, Drop(d) \/ Refresh(d)
       PROVE  TypeOK'
  <2>1. cache' \in [Datasets -> Found]
    BY <1>2, <1>18 DEF Drop, Refresh, TypeOK
  <2>2. refreshed' \in [Datasets -> 1..MaxVersion]
    BY <1>18 DEF Drop, Refresh, TypeOK, ghostVars
  <2> QED BY <1>18, <2>1, <2>2 DEF Drop, Refresh, TypeOK, localVars, ghostVars
<1>19. CASE Crash
  <2>1. pc' \in [Requests -> PCs]
    BY <1>19 DEF Crash, TypeOK, PCs
  <2> QED BY <1>2, <1>3, <1>19, <2>1 DEF Crash, TypeOK, storeVars
<1>20. CASE UNCHANGED vars
  BY <1>20 DEF vars, storeVars, localVars, ghostVars, TypeOK
<1> QED BY <1>5, <1>6, <1>7, <1>8, <1>9, <1>10, <1>11, <1>12, <1>13, <1>14, <1>15, <1>16,
           <1>17, <1>18, <1>19, <1>20
        DEF Next, Step

\* Every step keeps the names.
LEMMA NameStep ==
    ASSUME TypeOK, NameInv, [Next]_vars
    PROVE  NameInv'
<1> USE IngestionAssumption
<1>0. TypeOK
  OBVIOUS
<1>1. ASSUME NEW r \in Requests, Ask(r) \/ LogStart(r) \/ Download(r) \/ Put(r) \/ Create(r)
      PROVE  NameInv'
  BY <1>1 DEF Ask, LogStart, Download, Put, Create, Goto, TypeOK, NameInv, Named,
              storeVars, localVars, ghostVars
<1>2. ASSUME NEW r \in Requests, LookCache(r) \/ LookRegistry(r)
      PROVE  NameInv'
  BY <1>2 DEF LookCache, LookRegistry, Goto, TypeOK, NameInv, Named, storeVars
<1>3. ASSUME NEW r \in Requests, Recache(r) \/ CacheSet(r) \/ Commit(r)
      PROVE  NameInv'
  BY <1>3 DEF Recache, CacheSet, Commit, Goto, TypeOK, NameInv, Named, localVars
<1>4. ASSUME NEW r \in Requests, Head(r)
      PROVE  NameInv'
  BY <1>4 DEF Head, Key, KeysOf, Goto, TypeOK, NameInv, Named, storeVars
<1>5. ASSUME NEW r \in Requests, LogStartLocked(r)
      PROVE  NameInv'
  BY <1>5 DEF LogStartLocked, Answer, Goto, TypeOK, NameInv, Named, storeVars
<1>10. ASSUME NEW r \in Requests, Rollback(r)
       PROVE  NameInv'
  BY <1>10 DEF Rollback, Answer, Goto, TypeOK, NameInv, Named, storeVars
<1>11. ASSUME NEW r \in Requests, Read(r)
       PROVE  NameInv'
  BY <1>11 DEF Read, Answer, Goto, TypeOK, NameInv, Named, storeVars
<1>6. ASSUME NEW r \in Requests, Fail(r)
      PROVE  NameInv'
  BY <1>6 DEF Fail, Answer, Goto, TypeOK, NameInv, Named, storeVars, localVars
<1>7. ASSUME NEW d \in Datasets, Revise(d) \/ Drop(d) \/ Refresh(d)
      PROVE  NameInv'
  BY <1>7 DEF Revise, Drop, Refresh, TypeOK, NameInv, storeVars, localVars
<1>8. CASE Crash
  BY <1>8 DEF Crash, TypeOK, NameInv, Named, Active, Transaction, storeVars
<1>9. CASE UNCHANGED vars
  BY <1>9 DEF vars, storeVars, localVars, NameInv
<1> QED BY <1>1, <1>2, <1>3, <1>4, <1>5, <1>6, <1>7, <1>8, <1>9,
             <1>10, <1>11 DEF Next, Step

-----------------------------------------------------------------------------
\* The write lock follows the transactions.
LEMMA LockStep ==
    ASSUME TypeOK, LockInv, [Next]_vars
    PROVE  LockInv'
<1> USE DEF Transaction
<1>0. pc \in [Requests -> PCs] /\ Free \notin Requests
  BY IngestionAssumption DEF TypeOK
<1>1. ASSUME NEW r \in Requests, Ask(r) \/ LookCache(r) \/ LookRegistry(r) \/ Recache(r)
      PROVE  LockInv'
  BY <1>0, <1>1 DEF Ask, LookCache, LookRegistry, Recache, Goto, LockInv
<1>2. ASSUME NEW r \in Requests, LogStart(r)
      PROVE  LockInv'
  BY <1>0, <1>2 DEF LogStart, Goto, LockInv
<1>3. ASSUME NEW r \in Requests, LogStartLocked(r) \/ Read(r)
      PROVE  LockInv'
  BY <1>0, <1>3 DEF LogStartLocked, Read, Answer, Goto, LockInv
<1>4. ASSUME NEW r \in Requests,
             Download(r) \/ Head(r) \/ Put(r) \/ Create(r) \/ CacheSet(r)
      PROVE  LockInv'
  BY <1>0, <1>4 DEF Download, Head, Put, Create, CacheSet, Goto, LockInv
<1>5. ASSUME NEW r \in Requests, Commit(r) \/ Rollback(r)
      PROVE  LockInv'
  BY <1>0, <1>5 DEF Commit, Rollback, Answer, Goto, LockInv
<1>6. ASSUME NEW r \in Requests, Fail(r)
      PROVE  LockInv'
  BY <1>0, <1>6 DEF Fail, Answer, Goto, LockInv
<1>7. ASSUME NEW d \in Datasets, Revise(d) \/ Drop(d) \/ Refresh(d)
      PROVE  LockInv'
  BY <1>7 DEF Revise, Drop, Refresh, LockInv
<1>8. CASE Crash
  BY <1>0, <1>8 DEF Crash, Active, LockInv
<1>9. CASE UNCHANGED vars
  BY <1>9 DEF vars, LockInv
<1> QED BY <1>1, <1>2, <1>3, <1>4, <1>5, <1>6, <1>7, <1>8, <1>9 DEF Next, Step

\* What is named stays in the store.
LEMMA StoreStep ==
    ASSUME TypeOK, NameInv, StoreInv, [Next]_vars
    PROVE  StoreInv'
<1>0. /\ pc \in [Requests -> PCs] /\ uri \in [Requests -> Found]
      /\ data \in [Requests -> 0..MaxVersion] /\ file \in [Keys -> 0..MaxVersion]
      /\ cache \in [Datasets -> Found] /\ record \in [Datasets -> Found]
      /\ Want \in [Requests -> Datasets]
      /\ upstream \in [Datasets -> 1..MaxVersion]
  BY IngestionAssumption DEF TypeOK
<1>1. ASSUME NEW r \in Requests, Ask(r) \/ LogStart(r) \/ Create(r)
      PROVE  StoreInv'
  BY <1>0, <1>1 DEF Ask, LogStart, Create, Goto, StoreInv, Held, storeVars, localVars
<1>2. ASSUME NEW r \in Requests, LookCache(r) \/ LookRegistry(r)
      PROVE  StoreInv'
  BY <1>0, <1>2 DEF LookCache, LookRegistry, Goto, StoreInv, Held, storeVars
<1>3. ASSUME NEW r \in Requests, Recache(r) \/ CacheSet(r)
      PROVE  StoreInv'
  <2>1. file[uri[r]] # 0 /\ cache' = [cache EXCEPT ![Want[r]] = uri[r]] /\ Want[r] \in Datasets
    BY <1>0, <1>3 DEF Recache, CacheSet, StoreInv, Held
  <2>2. \A d \in Datasets : cache'[d] # NoFile => file[cache'[d]] # 0
    BY <1>0, <2>1 DEF StoreInv
  <2> QED BY <1>0, <1>3, <2>2 DEF Recache, CacheSet, Goto, StoreInv, Held, localVars
<1>4. ASSUME NEW r \in Requests, Commit(r)
      PROVE  StoreInv'
  <2>1. file[uri[r]] # 0 /\ record' = [record EXCEPT ![Want[r]] = uri[r]] /\ Want[r] \in Datasets
    BY <1>0, <1>4 DEF Commit, StoreInv, Held
  <2>2. \A d \in Datasets : record'[d] # NoFile => file[record'[d]] # 0
    BY <1>0, <2>1 DEF StoreInv
  <2> QED BY <1>0, <1>4, <2>2 DEF Commit, Goto, StoreInv, Held, localVars
<1>5. ASSUME NEW r \in Requests, Download(r)
      PROVE  StoreInv'
  <2>1. upstream[Want[r]] # 0
    BY <1>0
  <2> QED BY <1>0, <1>5, <2>1 DEF Download, Goto, StoreInv, Held, storeVars
<1>6. ASSUME NEW r \in Requests, Head(r)
      PROVE  StoreInv'
  BY <1>0, <1>6 DEF Head, Goto, StoreInv, Held, storeVars
<1>7. ASSUME NEW r \in Requests, Put(r)
      PROVE  StoreInv'
  <2>1. uri[r] \in Keys
    BY KeysOfDataset, <1>0, <1>7 DEF Put, NameInv, Named
  <2>2. \A f \in Keys : file[f] # 0 \/ f = uri[r] => file'[f] # 0
    BY <1>0, <1>7, <2>1 DEF Put, StoreInv
  <2>3. \A d \in Datasets : /\ cache[d] # NoFile => cache[d] \in Keys
                            /\ record[d] # NoFile => record[d] \in Keys
    BY <1>0 DEF Found
  <2>4. \A q \in Requests : pc[q] \in Held => uri[q] \in Keys
    BY KeysOfDataset, <1>0 DEF NameInv, Named, Held
  <2>5. \A q \in Requests : /\ pc'[q] \in Held => pc[q] \in Held \/ q = r
                            /\ pc'[q] \in {"head", "put"} => pc[q] \in {"head", "put"}
    BY <1>0, <1>7 DEF Put, Goto, Held
  <2>6. uri' = uri /\ data' = data /\ cache' = cache /\ record' = record
    BY <1>7 DEF Put, localVars
  <2>7. \A q \in Requests : /\ pc'[q] \in Held => file'[uri'[q]] # 0
                            /\ pc'[q] \in {"head", "put"} => data'[q] # 0
    BY <2>1, <2>2, <2>4, <2>5, <2>6 DEF StoreInv
  <2> QED BY <2>2, <2>3, <2>6, <2>7 DEF StoreInv
<1>8. ASSUME NEW r \in Requests, LogStartLocked(r) \/ Rollback(r) \/ Read(r)
      PROVE  StoreInv'
  BY <1>0, <1>8 DEF LogStartLocked, Rollback, Read, Answer, Goto, StoreInv, Held, storeVars
<1>9. ASSUME NEW r \in Requests, Fail(r)
      PROVE  StoreInv'
  <2>1. UNCHANGED storeVars /\ \A q \in Requests \ {r} : pc'[q] = pc[q] /\ uri'[q] = uri[q] /\ data'[q] = data[q]
    BY <1>0, <1>9 DEF Fail, Answer, Goto, localVars
  <2>2. pc'[r] \in {"rollback", "done"}
    BY <1>0, <1>9 DEF Fail, Answer, Goto
  <2> QED BY <2>1, <2>2 DEF StoreInv, Held, storeVars
<1>10. ASSUME NEW d \in Datasets, Revise(d) \/ Drop(d) \/ Refresh(d)
       PROVE  StoreInv'
  BY <1>0, <1>10 DEF Revise, Drop, Refresh, StoreInv, storeVars, localVars
<1>11. CASE Crash
  BY <1>0, <1>11 DEF Crash, StoreInv, Held, Active, Transaction, storeVars
<1>12. CASE UNCHANGED vars
  BY <1>12 DEF vars, storeVars, localVars, StoreInv
<1> QED BY <1>1, <1>2, <1>3, <1>4, <1>5, <1>6, <1>7, <1>8, <1>9, <1>10, <1>11, <1>12
        DEF Next, Step

\* Cache, record and the files of requests go on fitting together.
LEMMA AgreeStep ==
    ASSUME TypeOK, NameInv, LockInv, AgreeInv, [Next]_vars
    PROVE  AgreeInv'
<1>0. /\ pc \in [Requests -> PCs] /\ uri \in [Requests -> Found]
      /\ cache \in [Datasets -> Found] /\ record \in [Datasets -> Found]
      /\ Want \in [Requests -> Datasets]
  BY IngestionAssumption DEF TypeOK
<1>a. ASSUME NEW r \in Requests, pc[r] \in Named
      PROVE  uri[r] # NoFile
  BY KeysOfDataset, <1>0, <1>a DEF NameInv
<1>b. ASSUME NEW r \in Requests, NEW q \in Requests,
             pc[r] \in Transaction, pc[q] \in Transaction
      PROVE  r = q
  BY <1>b DEF LockInv
<1>1. ASSUME NEW r \in Requests, Ask(r) \/ LogStart(r) \/ Create(r) \/ Download(r) \/ Put(r)
      PROVE  AgreeInv'
  BY <1>0, <1>1
     DEF Ask, LogStart, Create, Download, Put, Goto, AgreeInv, CacheAgrees, storeVars, localVars
<1>2. ASSUME NEW r \in Requests, LookCache(r) \/ LookRegistry(r) \/ Head(r)
      PROVE  AgreeInv'
  BY <1>0, <1>2 DEF LookCache, LookRegistry, Head, Goto, AgreeInv, CacheAgrees, storeVars
<1>3. ASSUME NEW r \in Requests, Recache(r)
      PROVE  AgreeInv'
  <2>1. record[Want[r]] = uri[r] /\ uri[r] # NoFile
    BY <1>a, <1>3 DEF Recache, AgreeInv, Named
  <2> QED BY <1>0, <1>3, <2>1 DEF Recache, Goto, AgreeInv, CacheAgrees, localVars
<1>4. ASSUME NEW r \in Requests, CacheSet(r)
      PROVE  AgreeInv'
  <2>1. \A q \in Requests \ {r} : pc[q] \notin {"cache_set", "commit"}
    BY <1>b, <1>4 DEF CacheSet, Transaction
  <2> QED BY <1>0, <1>4, <2>1 DEF CacheSet, Goto, AgreeInv, CacheAgrees, localVars
<1>5. ASSUME NEW r \in Requests, Commit(r)
      PROVE  AgreeInv'
  <2>1. \A q \in Requests \ {r} : pc[q] \notin {"cache_set", "commit"}
    BY <1>b, <1>5 DEF Commit, Transaction
  <2>2. \A q \in Requests : pc[q] = "recache" => Want[q] # Want[r]
    BY <1>a, <1>5 DEF Commit, AgreeInv, Named
  <2> QED BY <1>0, <1>5, <2>1, <2>2 DEF Commit, Goto, AgreeInv, CacheAgrees, localVars
<1>6. ASSUME NEW r \in Requests, LogStartLocked(r) \/ Rollback(r) \/ Read(r)
      PROVE  AgreeInv'
  BY <1>0, <1>6
     DEF LogStartLocked, Rollback, Read, Answer, Goto, AgreeInv, CacheAgrees, storeVars
<1>7. ASSUME NEW r \in Requests, Fail(r)
      PROVE  AgreeInv'
  BY <1>0, <1>7 DEF Fail, Answer, Goto, AgreeInv, CacheAgrees, storeVars, localVars
<1>8. ASSUME NEW d \in Datasets, Revise(d) \/ Drop(d) \/ Refresh(d)
      PROVE  AgreeInv'
  BY <1>0, <1>8 DEF Revise, Drop, Refresh, AgreeInv, CacheAgrees, storeVars, localVars
<1>9. CASE Crash
  BY <1>0, <1>9 DEF Crash, AgreeInv, CacheAgrees, Active, Transaction, storeVars
<1>10. CASE UNCHANGED vars
  BY <1>10 DEF vars, storeVars, localVars, AgreeInv, CacheAgrees
<1> QED BY <1>1, <1>2, <1>3, <1>4, <1>5, <1>6, <1>7, <1>8, <1>9, <1>10 DEF Next, Step

\* A commit writes the one row of its record.
LEMMA LogStep ==
    ASSUME TypeOK, NameInv, AgreeInv, LogInv, [Next]_vars
    PROVE  LogInv'
<1>0. /\ logged \subseteq Requests /\ record \in [Datasets -> Found]
      /\ Want \in [Requests -> Datasets]
  BY IngestionAssumption DEF TypeOK
<1>1. ASSUME NEW r \in Requests, Commit(r)
      PROVE  LogInv'
  <2>1. uri[r] # NoFile
    BY KeysOfDataset, <1>0, <1>1 DEF Commit, NameInv, Named
  <2>2. \A q \in logged : Want[q] # Want[r]
    BY <1>0, <1>1 DEF Commit, AgreeInv, LogInv
  <2> QED BY <1>0, <1>1, <2>1, <2>2 DEF Commit, LogInv
<1>2. CASE UNCHANGED <<record, logged>>
  BY <1>2 DEF LogInv
<1>3. (\E r \in Requests : Commit(r)) \/ UNCHANGED <<record, logged>>
  BY DEF Next, Step, vars, storeVars, Ask, LookCache, LookRegistry, Recache, LogStart,
         LogStartLocked, Download, Head, Put, Create, CacheSet, Rollback, Read, Fail,
         Revise, Drop, Refresh, Crash
<1> QED BY <1>1, <1>2, <1>3

\* As long as the clock shows no fraction twice, newer data replaces older.
LEMMA VersionStep ==
    ASSUME TypeOK, NameInv, LockInv, StoreInv, AgreeInv, VersionInv, NamedInv,
           ~MayCoincide, [Next]_vars
    PROVE  VersionInv'
<1>0. /\ pc \in [Requests -> PCs] /\ uri \in [Requests -> Found]
      /\ data \in [Requests -> 0..MaxVersion] /\ file \in [Keys -> 0..MaxVersion]
      /\ Want \in [Requests -> Datasets] /\ MaxVersion \in Nat
      /\ upstream \in [Datasets -> 1..MaxVersion]
      /\ served \in [Datasets -> 1..MaxVersion]
      /\ floor \in [Requests -> [served : 1..MaxVersion, refreshed : 1..MaxVersion]]
  BY IngestionAssumption DEF TypeOK
<1>n. \A r \in Requests : pc[r] \in Named => uri[r] \in KeysOf(Want[r]) /\ uri[r] \in Keys
  BY KeysOfDataset, <1>0 DEF NameInv
\* A step of one request that puts no file and serves nothing.
<1>k. ASSUME NEW r \in Requests, UNCHANGED <<upstream, file, served>>, Fresh(r)',
             \A q \in Requests \ {r} : /\ pc'[q] = pc[q] /\ data'[q] = data[q]
                                       /\ uri'[q] = uri[q] /\ floor'[q] = floor[q]
      PROVE  VersionInv'
  BY <1>k DEF VersionInv, NoneNewer, Fresh
<1>1. ASSUME NEW r \in Requests, Ask(r)
      PROVE  VersionInv'
  <2>1. Fresh(r)'
    BY <1>0, <1>1 DEF Ask, Goto, Fresh, Loaded, Stored
  <2> QED BY <1>0, <1>1, <1>k, <2>1 DEF Ask, Goto, storeVars, localVars
<1>2. ASSUME NEW r \in Requests, LookCache(r)
      PROVE  VersionInv'
  <2> DEFINE d == Want[r]
  <2>1. CASE cache[d] # NoFile
    <3>1. pc'[r] = "read" /\ uri'[r] = cache[d] /\ UNCHANGED <<file, served, floor>>
      BY <1>0, <1>2, <2>1 DEF LookCache, Goto, storeVars, ghostVars
    <3>2. served[d] <= file[cache[d]] /\ cache[d] \in Keys /\ floor[r].served <= served[d]
      BY KeysOfDataset, <1>0, <2>1 DEF NamedInv, Names, NameInv, VersionInv, Fresh
    <3>3. floor[r].served <= file[cache[d]]
      BY <1>0, <3>2
    <3>4. Fresh(r)'
      BY <3>1, <3>2, <3>3 DEF Fresh, Loaded, Stored
    <3> QED BY <1>0, <1>2, <1>k, <3>4 DEF LookCache, Goto, storeVars, ghostVars
  <2>2. CASE cache[d] = NoFile
    <3>1. Fresh(r)'
      BY <1>0, <1>2, <2>2 DEF LookCache, Goto, Fresh, VersionInv, Loaded, Stored, storeVars, ghostVars
    <3> QED BY <1>0, <1>2, <1>k, <3>1 DEF LookCache, Goto, storeVars, ghostVars
  <2> QED BY <2>1, <2>2
<1>3. ASSUME NEW r \in Requests, LookRegistry(r) \/ LogStart(r)
      PROVE  VersionInv'
  <2>1. Fresh(r)'
    BY <1>0, <1>3
       DEF LookRegistry, LogStart, Goto, Fresh, VersionInv, Loaded, Stored, storeVars, localVars, ghostVars
  <2> QED BY <1>0, <1>3, <1>k, <2>1 DEF LookRegistry, LogStart, Goto, storeVars, localVars, ghostVars
<1>4. ASSUME NEW r \in Requests, Recache(r)
      PROVE  VersionInv'
  <2> DEFINE d == Want[r]
  <2>1. pc'[r] = "read" /\ UNCHANGED <<file, served, floor, uri>>
    BY <1>0, <1>4 DEF Recache, Goto, localVars, ghostVars
  <2>2. record[d] = uri[r] /\ uri[r] \in Keys /\ record[d] # NoFile
    BY KeysOfDataset, <1>0, <1>4 DEF Recache, AgreeInv, NameInv, Named
  <2>3. served[d] <= file[uri[r]] /\ floor[r].served <= served[d]
    BY <1>0, <2>2 DEF NamedInv, Names, VersionInv, Fresh
  <2>4. floor[r].served <= file[uri[r]]
    BY <1>0, <2>2, <2>3
  <2>5. Fresh(r)'
    BY <2>1, <2>3, <2>4 DEF Fresh, Loaded, Stored
  <2> QED BY <1>0, <1>4, <1>k, <2>5 DEF Recache, Goto, localVars, ghostVars
<1>5. ASSUME NEW r \in Requests, Download(r)
      PROVE  VersionInv'
  <2>1. pc'[r] = "head" /\ data'[r] = upstream[Want[r]] /\ UNCHANGED <<upstream, file, served, floor>>
    BY <1>0, <1>5 DEF Download, Goto, storeVars, ghostVars
  <2>2. Fresh(r)'
    BY <1>0, <2>1 DEF Fresh, VersionInv, NoneNewer, Loaded, Stored
  <2> QED BY <1>0, <1>5, <1>k, <2>2 DEF Download, Goto, storeVars, ghostVars
<1>6. ASSUME NEW r \in Requests, Head(r)
      PROVE  VersionInv'
  <2>1. pc[r] = "head" /\ pc'[r] = "put" /\ UNCHANGED <<upstream, file, served, floor, data>>
    BY <1>0, <1>6 DEF Head, Goto, storeVars, ghostVars
  <2>2. file[uri'[r]] = 0
    BY <1>0, <1>6 DEF Head
  <2>3. Fresh(r)'
    BY <2>1, <2>2 DEF Fresh, VersionInv, NoneNewer, Loaded, Stored
  <2> QED BY <1>0, <1>6, <1>k, <2>3 DEF Head, Goto, storeVars, ghostVars
<1>7. ASSUME NEW r \in Requests, Put(r)
      PROVE  VersionInv'
  <2> DEFINE f == uri[r]
  <2>1. /\ pc[r] = "put" /\ pc' = [pc EXCEPT ![r] = "create"]
        /\ file' = [file EXCEPT ![f] = data[r]]
        /\ UNCHANGED <<upstream, served, floor, data, uri>>
    BY <1>7 DEF Put, Goto, localVars, ghostVars
  <2>2. f \in KeysOf(Want[r]) /\ f \in Keys /\ file[f] = 0
    BY <1>n, <2>1 DEF Named, VersionInv, Fresh
  <2>3. \A q \in Requests \ {r} : pc[q] \notin Transaction
    BY <2>1 DEF LockInv, Transaction
  <2>4. \A q \in Requests \ {r} : pc[q] = "read" => uri[q] # f
    BY <2>2 DEF StoreInv, Held
  <2>5. \A d \in Datasets, v \in Nat :
            NoneNewer(d, v) /\ (d = Want[r] => data[r] <= v) => NoneNewer(d, v)'
    <3> SUFFICES ASSUME NEW d \in Datasets, NEW v \in Nat, NoneNewer(d, v),
                        d = Want[r] => data[r] <= v, NEW k \in KeysOf(d)
                 PROVE  file'[k] <= v
      BY <2>1 DEF NoneNewer
    <3>1. k \in Keys /\ (k = f => d = Want[r])
      BY KeysOfDataset, <2>2 DEF KeysOf
    <3> QED BY <1>0, <2>1, <3>1 DEF NoneNewer
  <2>6. NoneNewer(Want[r], data[r]) /\ data[r] <= upstream[Want[r]]
    BY <2>1 DEF VersionInv, Fresh, Loaded
  <2>7. \A d \in Datasets : NoneNewer(d, upstream[d])'
    <3> SUFFICES ASSUME NEW d \in Datasets
                 PROVE  NoneNewer(d, upstream[d])'
      OBVIOUS
    <3>1. upstream[d] \in Nat /\ upstream'[d] = upstream[d] /\ NoneNewer(d, upstream[d])
      BY <1>0, <2>1 DEF VersionInv
    <3>2. served'[d] <= upstream[d] /\ \A k \in KeysOf(d) : file'[k] <= upstream[d]
      BY <2>5, <2>6, <3>1 DEF NoneNewer
    <3> QED BY <3>1, <3>2 DEF NoneNewer
  <2>8. Fresh(r)'
    <3>1. data[r] \in Nat /\ data'[r] = data[r] /\ upstream' = upstream
      BY <1>0, <2>1
    <3>2. served'[Want[r]] <= data[r] /\ \A k \in KeysOf(Want[r]) : file'[k] <= data[r]
      BY <1>0, <2>5, <2>6, <3>1 DEF NoneNewer
    <3>3. pc'[r] = "create" /\ file'[uri'[r]] = data[r]
      BY <1>0, <2>1, <2>2
    <3>4. floor'[r].served <= served'[Want[r]]
      BY <2>1 DEF VersionInv, Fresh
    <3> QED BY <2>6, <3>1, <3>2, <3>3, <3>4 DEF Fresh, NoneNewer, Loaded, Stored
  <2>9. \A q \in Requests \ {r} : Fresh(q)'
    <3> SUFFICES ASSUME NEW q \in Requests \ {r}
                 PROVE  Fresh(q)'
      OBVIOUS
    <3>1. pc'[q] = pc[q] /\ pc[q] \notin Loaded /\ pc[q] \notin Stored /\ pc[q] # "put"
      BY <1>0, <2>1, <2>3 DEF Transaction, Loaded, Stored
    <3>2. pc[q] = "read" => file'[uri'[q]] = file[uri[q]]
      BY <1>0, <1>n, <2>1, <2>4 DEF Named
    <3> QED BY <2>1, <3>1, <3>2 DEF VersionInv, Fresh
  <2> QED BY <2>7, <2>8, <2>9 DEF VersionInv
<1>8. ASSUME NEW r \in Requests, Create(r) \/ CacheSet(r)
      PROVE  VersionInv'
  <2>1. /\ pc[r] \in {"create", "cache_set"} /\ pc'[r] \in {"cache_set", "commit", "rollback"}
        /\ UNCHANGED <<upstream, file, served, floor, data, uri>>
    BY <1>0, <1>8 DEF Create, CacheSet, Goto, storeVars, localVars, ghostVars
  <2>2. Fresh(r)'
    BY <2>1 DEF Fresh, VersionInv, NoneNewer, Loaded, Stored
  <2> QED BY <1>0, <1>8, <1>k, <2>2 DEF Create, CacheSet, Goto, storeVars, localVars, ghostVars
<1>9. ASSUME NEW r \in Requests, Commit(r)
      PROVE  VersionInv'
  <2> DEFINE d == Want[r]
  <2>1. pc[r] = "commit" /\ pc'[r] = "read" /\ UNCHANGED <<upstream, file, served, floor, data, uri>>
    BY <1>0, <1>9 DEF Commit, Goto, localVars, ghostVars
  <2>2. floor[r].served <= served[d] /\ served[d] <= data[r] /\ file[uri[r]] = data[r]
    BY <2>1 DEF VersionInv, Fresh, NoneNewer, Loaded, Stored
  <2>3. floor[r].served <= file[uri[r]]
    BY <1>0, <2>2
  <2>4. Fresh(r)'
    BY <2>1, <2>2, <2>3 DEF Fresh, Loaded, Stored
  <2> QED BY <1>0, <1>9, <1>k, <2>4 DEF Commit, Goto, localVars, ghostVars
<1>a. ASSUME NEW r \in Requests, Answer(r)
      PROVE  /\ pc'[r] = "done" /\ floor'[r].served = 1
             /\ \A q \in Requests \ {r} : /\ pc'[q] = pc[q] /\ data'[q] = data[q]
                                          /\ uri'[q] = uri[q] /\ floor'[q] = floor[q]
  BY <1>0, <1>a DEF Answer, Goto, Anything
<1>b. ASSUME NEW r \in Requests, Answer(r), UNCHANGED <<upstream, file, served>>
      PROVE  VersionInv'
  <2>1. Fresh(r)'
    BY <1>0, <1>a, <1>b DEF Fresh, Loaded, Stored
  <2> QED BY <1>a, <1>b, <1>k, <2>1
<1>10. ASSUME NEW r \in Requests, LogStartLocked(r) \/ Rollback(r)
       PROVE  VersionInv'
  BY <1>10, <1>b DEF LogStartLocked, Rollback, storeVars
<1>11. ASSUME NEW r \in Requests, Fail(r)
       PROVE  VersionInv'
  <2>1. CASE Goto(r, "rollback") /\ UNCHANGED <<upstream, storeVars, writer, crashes, localVars, ghostVars>>
    <3>1. Fresh(r)'
      BY <1>0, <2>1 DEF Goto, Fresh, VersionInv, Loaded, Stored, storeVars, localVars, ghostVars
    <3> QED BY <1>0, <1>k, <2>1, <3>1 DEF Goto, storeVars, localVars, ghostVars
  <2>2. CASE Answer(r) /\ UNCHANGED <<upstream, storeVars, writer, crashes, served, refreshed>>
    BY <1>b, <2>2 DEF storeVars
  <2> QED BY <1>11, <2>1, <2>2 DEF Fail
<1>12. ASSUME NEW r \in Requests, Read(r)
       PROVE  VersionInv'
  <2> DEFINE d == Want[r]
             v == file[uri[r]]
             w == IF v > served[d] THEN v ELSE served[d]
  <2>1. /\ pc[r] = "read" /\ Answer(r) /\ UNCHANGED <<upstream, file>>
        /\ served' = [served EXCEPT ![d] = w]
    BY <1>12 DEF Read, storeVars
  <2>2. v \in 0..MaxVersion /\ served[d] \in 1..MaxVersion /\ uri[r] \in KeysOf(d) /\ d \in Datasets
    BY <1>0, <1>n, <2>1 DEF Named
  <2>3. served[d] <= w /\ w \in Nat /\ w >= 1
    BY <1>0, <2>2
  <2>4. ASSUME NEW c \in Datasets, NEW x \in Nat, NoneNewer(c, x)
        PROVE  NoneNewer(c, x)'
    <3>1. c = d => w <= x
      BY <1>0, <2>2, <2>4 DEF NoneNewer
    <3>2. served'[c] = IF c = d THEN w ELSE served[c]
      BY <1>0, <2>1
    <3> QED BY <2>1, <2>4, <3>1, <3>2 DEF NoneNewer
  <2>5. \A q \in Requests : served[Want[q]] <= served'[Want[q]] /\ served'[Want[q]] >= 1
    BY <1>0, <2>1, <2>3
  <2>6. \A c \in Datasets : NoneNewer(c, upstream[c])'
    BY <1>0, <2>1, <2>4 DEF VersionInv, NoneNewer
  <2>7. \A q \in Requests \ {r} : Fresh(q)'
    <3> SUFFICES ASSUME NEW q \in Requests \ {r}
                 PROVE  Fresh(q)'
      OBVIOUS
    <3>1. pc'[q] = pc[q] /\ data'[q] = data[q] /\ uri'[q] = uri[q] /\ floor'[q] = floor[q]
      BY <1>a, <2>1
    <3>2. pc[q] \in Loaded => NoneNewer(Want[q], data[q])'
      <4>1. data[q] \in Nat /\ Want[q] \in Datasets
        BY <1>0
      <4>2. pc[q] \in Loaded => NoneNewer(Want[q], data[q])
        BY DEF VersionInv, Fresh
      <4> QED BY <2>4, <3>1, <4>1, <4>2 DEF NoneNewer
    <3>3. floor'[q].served <= served'[Want[q]]
      <4>1. floor[q].served <= served[Want[q]] /\ floor[q].served \in Nat
        BY <1>0 DEF VersionInv, Fresh
      <4>2. served[Want[q]] \in Nat /\ served'[Want[q]] \in Nat
        BY <1>0, <2>1, <2>3
      <4> QED BY <2>5, <3>1, <4>1, <4>2
    <3> QED BY <2>1, <3>1, <3>2, <3>3 DEF VersionInv, Fresh, NoneNewer
  <2>8. Fresh(r)'
    BY <1>0, <1>a, <2>1, <2>5 DEF Fresh, Loaded, Stored
  <2> QED BY <2>6, <2>7, <2>8 DEF VersionInv
<1>13. ASSUME NEW d \in Datasets, Revise(d)
       PROVE  VersionInv'
  <2>1. /\ \A c \in Datasets : upstream[c] <= upstream'[c] /\ upstream'[c] \in Nat
        /\ UNCHANGED <<file, served, pc, data, uri, floor>>
    BY <1>0, <1>13 DEF Revise, storeVars, localVars, ghostVars
  <2>2. \A c \in Datasets : NoneNewer(c, upstream[c])'
    <3> SUFFICES ASSUME NEW c \in Datasets
                 PROVE  NoneNewer(c, upstream[c])'
      OBVIOUS
    <3>1. NoneNewer(c, upstream[c]) /\ upstream[c] \in Nat /\ served[c] \in Nat
      BY <1>0 DEF VersionInv
    <3>2. \A k \in KeysOf(c) : file[k] \in Nat
      BY KeysOfDataset, <1>0
    <3> QED BY <2>1, <3>1, <3>2 DEF NoneNewer
  <2>3. \A q \in Requests : Fresh(q)'
    <3> SUFFICES ASSUME NEW q \in Requests
                 PROVE  Fresh(q)'
      OBVIOUS
    <3>1. Fresh(q) /\ data[q] \in Nat /\ upstream[Want[q]] \in Nat /\ Want[q] \in Datasets
      BY <1>0 DEF VersionInv
    <3>2. data[q] <= upstream[Want[q]] => data[q] <= upstream'[Want[q]]
      BY <2>1, <3>1
    <3> QED BY <2>1, <3>1, <3>2 DEF Fresh, NoneNewer
  <2> QED BY <2>2, <2>3 DEF VersionInv
<1>14. ASSUME NEW d \in Datasets, Drop(d) \/ Refresh(d)
       PROVE  VersionInv'
  BY <1>14 DEF Drop, Refresh, VersionInv, Fresh, NoneNewer, localVars, ghostVars
<1>15. CASE Crash
  <2>1. /\ \A r \in Requests : pc'[r] \notin Active /\ floor'[r].served = 1
        /\ UNCHANGED <<upstream, file, served>>
    BY <1>0, <1>15 DEF Crash, Active, Transaction, Anything, storeVars
  <2> QED BY <1>0, <2>1 DEF VersionInv, Fresh, NoneNewer, Loaded, Stored, Active, Transaction
<1>16. CASE UNCHANGED vars
  BY <1>16 DEF vars, storeVars, localVars, ghostVars, VersionInv, Fresh, NoneNewer
<1> QED BY <1>1, <1>2, <1>3, <1>4, <1>5, <1>6, <1>7, <1>8, <1>9, <1>10, <1>11, <1>12, <1>13,
           <1>14, <1>15, <1>16
        DEF Next, Step

\* What the cache or the registry names stays the newest that anybody reads.
LEMMA NamedStep ==
    ASSUME TypeOK, NameInv, StoreInv, AgreeInv, VersionInv, NamedInv, [Next]_vars
    PROVE  NamedInv'
<1> DEFINE Reading == {"recache", "read"}
<1>0. /\ pc \in [Requests -> PCs] /\ uri \in [Requests -> Found]
      /\ cache \in [Datasets -> Found] /\ record \in [Datasets -> Found]
      /\ Want \in [Requests -> Datasets] /\ MaxVersion \in Nat
      /\ served \in [Datasets -> 1..MaxVersion] /\ file \in [Keys -> 0..MaxVersion]
  BY IngestionAssumption DEF TypeOK
<1>n. \A r \in Requests : pc[r] \in Named =>
          uri[r] \in KeysOf(Want[r]) /\ uri[r] \in Keys /\ uri[r] # NoFile
  BY KeysOfDataset, <1>0 DEF NameInv
<1>m. \A d \in Datasets : \A f \in Names(d) : f \in Keys /\ file[f] # 0
  BY <1>0 DEF Names, StoreInv, Found
\* A step that names nothing new and opens nothing new.
<1>k. ASSUME UNCHANGED <<file, served>>,
             \A d \in Datasets : Names(d)' \subseteq Names(d),
             \A q \in Requests : pc'[q] \in Reading => pc[q] \in Reading /\ uri'[q] = uri[q]
      PROVE  NamedInv'
  <2> SUFFICES ASSUME NEW d \in Datasets, NEW f \in Names(d)'
               PROVE  /\ served[d] <= file[f]
                      /\ \A q \in Requests :
                            pc'[q] \in Reading /\ Want[q] = d => file[uri'[q]] <= file[f]
    BY <1>k DEF NamedInv
  <2> QED BY <1>k DEF NamedInv
<1>1. ASSUME NEW r \in Requests,
             Ask(r) \/ LogStart(r) \/ Download(r) \/ Head(r) \/ Create(r) \/ Fail(r)
                \/ LogStartLocked(r) \/ Rollback(r)
      PROVE  NamedInv'
  <2>1. /\ pc'[r] \notin Reading
        /\ \A q \in Requests \ {r} : pc'[q] = pc[q] /\ uri'[q] = uri[q]
    BY <1>0, <1>1 DEF Ask, LogStart, Download, Head, Create, Fail, LogStartLocked, Rollback,
                      Answer, Goto, localVars
  <2>2. UNCHANGED <<file, served, cache, record>>
    BY <1>1 DEF Ask, LogStart, Download, Head, Create, Fail, LogStartLocked, Rollback,
                storeVars, ghostVars
  <2> QED BY <1>k, <2>1, <2>2 DEF Names
<1>2. ASSUME NEW r \in Requests, NEW f \in Found, f # NoFile, f \in Names(Want[r]),
             Goto(r, "read") \/ Goto(r, "recache"), uri' = [uri EXCEPT ![r] = f],
             UNCHANGED <<file, served, cache, record>>
      PROVE  NamedInv'
  <2>1. \A g \in Names(Want[r]) : g = f
    BY <1>0, <1>2 DEF Names, AgreeInv, CacheAgrees
  <2>2. \A q \in Requests \ {r} : pc'[q] = pc[q] /\ uri'[q] = uri[q]
    BY <1>0, <1>2 DEF Goto
  <2> SUFFICES ASSUME NEW d \in Datasets, NEW g \in Names(d)
               PROVE  /\ served[d] <= file[g]
                      /\ \A q \in Requests :
                            pc'[q] \in Reading /\ Want[q] = d => file[uri'[q]] <= file[g]
    BY <1>2 DEF NamedInv, Names
  <2>3. file[g] \in Int
    BY <1>0, <1>m
  <2> QED BY <1>0, <1>2, <2>1, <2>2, <2>3 DEF NamedInv
<1>3. ASSUME NEW r \in Requests, LookCache(r)
      PROVE  NamedInv'
  <2>1. CASE cache[Want[r]] # NoFile
    BY <1>0, <1>2, <1>3, <2>1 DEF LookCache, Names, storeVars, ghostVars
  <2>2. CASE cache[Want[r]] = NoFile
    <3>1. /\ pc'[r] \notin Reading /\ uri' = uri
          /\ \A q \in Requests \ {r} : pc'[q] = pc[q]
          /\ UNCHANGED <<file, served, cache, record>>
      BY <1>0, <1>3, <2>2 DEF LookCache, Goto, storeVars, ghostVars
    <3> QED BY <1>k, <3>1 DEF Names
  <2> QED BY <2>1, <2>2
<1>4. ASSUME NEW r \in Requests, LookRegistry(r)
      PROVE  NamedInv'
  <2>1. CASE record[Want[r]] # NoFile
    BY <1>0, <1>2, <1>4, <2>1 DEF LookRegistry, Names, storeVars, ghostVars
  <2>2. CASE record[Want[r]] = NoFile
    <3>1. /\ pc'[r] \notin Reading
          /\ \A q \in Requests \ {r} : pc'[q] = pc[q] /\ uri'[q] = uri[q]
          /\ UNCHANGED <<file, served, cache, record>>
      BY <1>0, <1>4, <2>2 DEF LookRegistry, Goto, storeVars, ghostVars
    <3> QED BY <1>k, <3>1 DEF Names
  <2> QED BY <2>1, <2>2
<1>5. ASSUME NEW r \in Requests, Recache(r)
      PROVE  NamedInv'
  <2>1. /\ pc[r] = "recache" /\ pc' = [pc EXCEPT ![r] = "read"]
        /\ cache' = [cache EXCEPT ![Want[r]] = uri[r]]
        /\ UNCHANGED <<file, served, record, uri>>
    BY <1>5 DEF Recache, Goto, localVars, ghostVars
  <2>2. uri[r] = record[Want[r]]
    BY <2>1 DEF AgreeInv
  <2>3. \A d \in Datasets : Names(d)' \subseteq Names(d)
    BY <1>0, <2>1, <2>2 DEF Names
  <2>4. \A q \in Requests : pc'[q] \in Reading => pc[q] \in Reading /\ uri'[q] = uri[q]
    BY <1>0, <2>1
  <2> QED BY <1>k, <2>1, <2>3, <2>4
<1>6. ASSUME NEW r \in Requests, Put(r)
      PROVE  NamedInv'
  <2>1. /\ pc[r] = "put" /\ pc' = [pc EXCEPT ![r] = "create"]
        /\ file' = [file EXCEPT ![uri[r]] = data[r]]
        /\ UNCHANGED <<served, cache, record, uri>>
    BY <1>6 DEF Put, Goto, localVars, ghostVars
  <2>2. file[uri[r]] = 0
    BY <2>1 DEF VersionInv, Fresh
  <2>3. \A f \in Keys : file[f] # 0 => file'[f] = file[f]
    BY <1>0, <2>1, <2>2
  <2>4. \A q \in Requests : pc'[q] \in Reading =>
            pc[q] \in Reading /\ file[uri[q]] # 0 /\ uri[q] \in Keys
    BY <1>0, <1>n, <2>1 DEF StoreInv, Held, Named
  <2> SUFFICES ASSUME NEW d \in Datasets, NEW f \in Names(d)
               PROVE  /\ served[d] <= file'[f]
                      /\ \A q \in Requests :
                            pc'[q] \in Reading /\ Want[q] = d => file'[uri[q]] <= file'[f]
    BY <2>1 DEF NamedInv, Names
  <2>5. file'[f] = file[f]
    BY <1>m, <2>3
  <2> QED BY <2>3, <2>4, <2>5 DEF NamedInv
\* CacheSet and Commit name the newest file of the dataset.
<1>7. ASSUME NEW r \in Requests, pc[r] \in Stored
      PROVE  /\ served[Want[r]] <= file[uri[r]]
             /\ \A q \in Requests : pc[q] \in Reading /\ Want[q] = Want[r] =>
                    file[uri[q]] <= file[uri[r]]
  <2>1. NoneNewer(Want[r], data[r]) /\ file[uri[r]] = data[r]
    BY <1>7 DEF VersionInv, Fresh, Loaded, Stored
  <2>2. \A q \in Requests : pc[q] \in Reading => uri[q] \in KeysOf(Want[q])
    BY <1>n DEF Named
  <2> QED BY <2>1, <2>2 DEF NoneNewer
<1>8. ASSUME NEW r \in Requests, CacheSet(r)
      PROVE  NamedInv'
  <2>1. /\ pc[r] = "cache_set" /\ pc' = [pc EXCEPT ![r] = "commit"]
        /\ cache' = [cache EXCEPT ![Want[r]] = uri[r]]
        /\ UNCHANGED <<file, served, record, uri>>
    BY <1>8 DEF CacheSet, Goto, localVars, ghostVars
  <2>2. \A d \in Datasets : \A f \in Names(d)' :
            f \in Names(d) \/ (d = Want[r] /\ f = uri[r])
    BY <1>0, <2>1 DEF Names
  <2>3. \A q \in Requests : pc'[q] \in Reading => pc[q] \in Reading
    BY <1>0, <2>1
  <2> SUFFICES ASSUME NEW d \in Datasets, NEW f \in Names(d)'
               PROVE  /\ served[d] <= file[f]
                      /\ \A q \in Requests :
                            pc'[q] \in Reading /\ Want[q] = d => file[uri[q]] <= file[f]
    BY <2>1 DEF NamedInv
  <2>4. CASE f \in Names(d)
    BY <2>3, <2>4 DEF NamedInv
  <2>5. CASE d = Want[r] /\ f = uri[r]
    BY <1>7, <2>1, <2>3, <2>5 DEF Stored
  <2> QED BY <2>2, <2>4, <2>5
<1>9. ASSUME NEW r \in Requests, Commit(r)
      PROVE  NamedInv'
  <2>1. /\ pc[r] = "commit" /\ pc' = [pc EXCEPT ![r] = "read"]
        /\ record' = [record EXCEPT ![Want[r]] = uri[r]]
        /\ UNCHANGED <<file, served, cache, uri>>
    BY <1>9 DEF Commit, Goto, localVars, ghostVars
  <2>2. \A d \in Datasets : \A f \in Names(d)' :
            IF d = Want[r] THEN f = uri[r] ELSE f \in Names(d)
    BY <1>0, <2>1 DEF Names, AgreeInv
  <2>3. \A q \in Requests : pc'[q] \in Reading => pc[q] \in Reading \/ q = r
    BY <1>0, <2>1
  <2>4. uri[r] \in Keys
    BY <1>n, <2>1 DEF Named
  <2> SUFFICES ASSUME NEW d \in Datasets, NEW f \in Names(d)'
               PROVE  /\ served[d] <= file[f]
                      /\ \A q \in Requests :
                            pc'[q] \in Reading /\ Want[q] = d => file[uri[q]] <= file[f]
    BY <2>1 DEF NamedInv
  <2>5. CASE d # Want[r]
    BY <2>2, <2>3, <2>5 DEF NamedInv
  <2>6. CASE d = Want[r]
    <3>1. file[uri[r]] <= file[uri[r]]
      BY <1>0, <2>4
    <3> QED BY <1>7, <2>1, <2>2, <2>3, <2>6, <3>1 DEF Stored
  <2> QED BY <2>5, <2>6
<1>10. ASSUME NEW r \in Requests, Read(r)
       PROVE  NamedInv'
  <2> DEFINE d == Want[r]
             v == file[uri[r]]
             w == IF v > served[d] THEN v ELSE served[d]
  <2>1. /\ pc[r] = "read" /\ pc'[r] = "done" /\ served' = [served EXCEPT ![d] = w]
        /\ \A q \in Requests \ {r} : pc'[q] = pc[q] /\ uri'[q] = uri[q]
        /\ UNCHANGED <<file, cache, record>>
    BY <1>0, <1>10 DEF Read, Answer, Goto, storeVars
  <2> SUFFICES ASSUME NEW c \in Datasets, NEW f \in Names(c)
               PROVE  /\ served'[c] <= file[f]
                      /\ \A q \in Requests :
                            pc'[q] \in Reading /\ Want[q] = c => file[uri'[q]] <= file[f]
    BY <2>1 DEF NamedInv, Names
  <2>2. served[c] <= file[f] /\ (c = d => v <= file[f])
    BY <2>1 DEF NamedInv
  <2>3. served'[c] = IF c = d THEN w ELSE served[c]
    BY <1>0, <2>1
  <2>4. w = v \/ w = served[d]
    OBVIOUS
  <2>5. served'[c] <= file[f]
    BY <2>2, <2>3, <2>4
  <2>6. \A q \in Requests : pc'[q] \in Reading => pc[q] \in Reading /\ uri'[q] = uri[q]
    BY <2>1
  <2> QED BY <2>5, <2>6 DEF NamedInv
<1>11. ASSUME NEW d \in Datasets, Revise(d) \/ Drop(d) \/ Refresh(d)
       PROVE  NamedInv'
  <2>1. /\ UNCHANGED <<file, served, record, pc, uri>>
        /\ cache' = cache \/ cache' = [cache EXCEPT ![d] = NoFile]
    BY <1>11 DEF Revise, Drop, Refresh, storeVars, localVars, ghostVars
  <2>2. \A c \in Datasets : Names(c)' \subseteq Names(c)
    BY <1>0, <2>1 DEF Names
  <2> QED BY <1>k, <2>1, <2>2
<1>12. CASE Crash
  <2>1. \A q \in Requests : pc'[q] \notin Reading
    BY <1>0, <1>12 DEF Crash, Active, Transaction
  <2>2. UNCHANGED <<file, served, cache, record>>
    BY <1>12 DEF Crash, storeVars
  <2> QED BY <1>k, <2>1, <2>2 DEF Names
<1>13. CASE UNCHANGED vars
  BY <1>13, <1>k DEF vars, storeVars, localVars, ghostVars, Names
<1> QED BY <1>1, <1>3, <1>4, <1>5, <1>6, <1>8, <1>9, <1>10, <1>11, <1>12, <1>13 DEF Next, Step

-----------------------------------------------------------------------------
\* What holds without an assumption on the clock.
StoreLayers == TypeOK /\ NameInv /\ LockInv /\ StoreInv /\ AgreeInv /\ LogInv

LEMMA StoreLayersInit == Init => StoreLayers
<1> SUFFICES ASSUME Init
             PROVE  StoreLayers
  OBVIOUS
<1>1. TypeOK
  BY IngestionAssumption DEF Init, TypeOK, Found, PCs, Anything
<1>2. NameInv /\ StoreInv /\ AgreeInv /\ LogInv
  BY IngestionAssumption
     DEF Init, NameInv, Named, StoreInv, Held, AgreeInv, CacheAgrees, LogInv
<1>3. LockInv
  BY IngestionAssumption DEF Init, LockInv, Transaction
<1> QED BY <1>1, <1>2, <1>3 DEF StoreLayers

LEMMA StoreLayersAlways == Spec => []StoreLayers
<1>1. Init => StoreLayers
  BY StoreLayersInit
<1>2. StoreLayers /\ [Next]_vars => StoreLayers'
  BY TypeOKStep, NameStep, LockStep, StoreStep, AgreeStep, LogStep DEF StoreLayers
<1> QED BY <1>1, <1>2, PTL DEF Spec

\* Every variable keeps its type: in particular a lookup gives the name of a file or
\* nothing, and what a file holds is a version the provider has served.
THEOREM IngestionTypes == Spec => []TypeOK
<1>1. StoreLayers => TypeOK
  BY DEF StoreLayers
<1> QED BY <1>1, StoreLayersAlways, PTL

\* At any point of a request where a call can fail or the service can die, what the
\* cache or the registry names, and what a request is about to read, has been put.
THEOREM NamedFilesExist == Spec => []NoDanglingUri
<1>1. ASSUME StoreLayers
      PROVE  NoDanglingUri
  <2> USE <1>1 DEF StoreLayers
  <2>1. ASSUME NEW d \in Datasets, NEW f \in {cache[d], record[d]} \ {NoFile}
        PROVE  f[1] = d /\ file[f] # 0
    <3>1. f \in KeysOf(d) /\ file[f] # 0
      BY <2>1 DEF NameInv, StoreInv
    <3> QED BY <3>1 DEF KeysOf
  <2>2. ASSUME NEW r \in Requests, pc[r] = "read"
        PROVE  uri[r] \in Keys /\ file[uri[r]] # 0
    BY <2>2, KeysOfDataset, IngestionAssumption DEF NameInv, StoreInv, Named, Held
  <2> QED BY <2>1, <2>2 DEF NoDanglingUri
<1> QED BY <1>1, StoreLayersAlways, PTL

\* The cache, which is set before the commit, never names another file than a record.
THEOREM CacheFollowsRegistry == Spec => []CacheAgrees
<1>1. StoreLayers => CacheAgrees
  BY DEF StoreLayers, AgreeInv
<1> QED BY <1>1, StoreLayersAlways, PTL

\* However many requests ingest one dataset, one attempt is recorded.
THEOREM RecordHasOneRow == Spec => []OneRowPerRecord
<1>1. ASSUME StoreLayers
      PROVE  OneRowPerRecord
  <2> SUFFICES ASSUME NEW d \in Datasets
               PROVE  Cardinality({r \in logged : Want[r] = d}) =
                        IF record[d] = NoFile THEN 0 ELSE 1
    BY DEF OneRowPerRecord
  <2> USE <1>1 DEF StoreLayers
  <2>1. CASE record[d] = NoFile
    <3>1. {r \in logged : Want[r] = d} = {}
      BY <2>1 DEF LogInv
    <3> QED BY <2>1, <3>1, FS_EmptySet
  <2>2. CASE record[d] # NoFile
    <3>1. PICK r \in logged : /\ Want[r] = d
                              /\ \A q \in logged : Want[q] = d => q = r
      BY <2>2 DEF LogInv
    <3>2. {q \in logged : Want[q] = d} = {r}
      BY <3>1
    <3> QED BY <2>2, <3>2, FS_Singleton
  <2> QED BY <2>1, <2>2
<1> QED BY <1>1, StoreLayersAlways, PTL

\* What holds as long as the clock shows no fraction of a second twice.
AllLayers == StoreLayers /\ VersionInv /\ NamedInv

LEMMA AllLayersAlways ==
    ASSUME ~MayCoincide
    PROVE  Spec => []AllLayers
<1>1. Init => AllLayers
  <2> SUFFICES ASSUME Init
               PROVE  AllLayers
    OBVIOUS
  <2>1. \A d \in Datasets : Names(d) = {}
    BY DEF Init, Names
  <2>2. \A d \in Datasets : NoneNewer(d, upstream[d])
    BY KeysOfDataset DEF Init, NoneNewer
  <2>3. \A r \in Requests : Fresh(r)
    BY IngestionAssumption DEF Init, Anything, Fresh, Loaded, Stored
  <2> QED BY StoreLayersInit, <2>1, <2>2, <2>3 DEF AllLayers, VersionInv, NamedInv
<1>2. AllLayers /\ [Next]_vars => AllLayers'
  <2> SUFFICES ASSUME AllLayers, [Next]_vars
               PROVE  AllLayers'
    OBVIOUS
  <2>1. StoreLayers'
    BY TypeOKStep, NameStep, LockStep, StoreStep, AgreeStep, LogStep DEF AllLayers, StoreLayers
  <2>2. VersionInv'
    BY VersionStep DEF AllLayers, StoreLayers
  <2>3. NamedInv'
    BY NamedStep DEF AllLayers, StoreLayers
  <2> QED BY <2>1, <2>2, <2>3 DEF AllLayers
<1> QED BY <1>1, <1>2, PTL DEF Spec

\* A client never gets older data than a client got before it asked, although caches
\* are dropped, sessions rolled back and the service restarted in between.
THEOREM ServedDataNeverOlder ==
    ASSUME ~MayCoincide
    PROVE  Spec => []NeverOlder
<1>1. AllLayers => NeverOlder
  BY DEF AllLayers, VersionInv, Fresh, NeverOlder
<1> QED BY <1>1, AllLayersAlways, PTL

\* A file that a step finds in the store is the same file after it.
LEMMA FileKept ==
    ASSUME AllLayers, [Next]_vars
    PROVE  \A k \in Keys : file[k] # 0 => file'[k] = file[k]
<1>1. ASSUME NEW r \in Requests, Put(r)
      PROVE  \A k \in Keys : file[k] # 0 => file'[k] = file[k]
  <2>1. file[uri[r]] = 0 /\ file' = [file EXCEPT ![uri[r]] = data[r]]
    BY <1>1 DEF Put, AllLayers, VersionInv, Fresh
  <2> QED BY <2>1 DEF AllLayers, StoreLayers, TypeOK
<1>2. (\E r \in Requests : Put(r)) \/ UNCHANGED file
  BY DEF Next, Step, vars, storeVars, Ask, LookCache, LookRegistry, Recache, LogStart,
         LogStartLocked, Download, Head, Create, CacheSet, Commit, Rollback, Read, Fail,
         Revise, Drop, Refresh, Crash
<1> QED BY <1>1, <1>2

\* No Parquet file is overwritten: the test in Head and the upload in Put are two
\* calls, and the write lock keeps everybody else's upload from between them.
THEOREM FilesNeverOverwritten ==
    ASSUME ~MayCoincide
    PROVE  Spec => NeverOverwritten
<1>1. AllLayers /\ [Next]_vars => [\A k \in Keys : file[k] # 0 => file'[k] = file[k]]_file
  BY FileKept
<1> QED BY <1>1, AllLayersAlways, PTL DEF Spec, NeverOverwritten

-----------------------------------------------------------------------------
\* A step of the data layer is a step of its promise or none at all.
LEMMA DataPromiseStep ==
    ASSUME AllLayers, [Next]_vars
    PROVE  [Promise!PromiseNext]_(Promise!promiseVars)
<1> USE DEF Promise!promiseVars
<1>0. /\ pc \in [Requests -> PCs] /\ uri \in [Requests -> Found]
      /\ file \in [Keys -> 0..MaxVersion] /\ served \in [Datasets -> 1..MaxVersion]
      /\ cache \in [Datasets -> Found] /\ record \in [Datasets -> Found]
      /\ Want \in [Requests -> Datasets] /\ MaxVersion \in Nat
  BY IngestionAssumption DEF AllLayers, StoreLayers, TypeOK
<1>1. ASSUME NEW d \in Datasets, NEW f \in KeysOf(d), file[f] # 0
      PROVE  f \in Keys /\ f # NoFile /\ file[f] \in 1..MaxVersion /\ file'[f] = file[f]
  BY <1>0, <1>1, KeysOfDataset, FileKept
<1>2. ASSUME NEW d \in Datasets, NEW f \in Names(d)
      PROVE  f \in KeysOf(d) /\ file[f] # 0
  BY <1>2 DEF Names, AllLayers, StoreLayers, NameInv, StoreInv
<1>3. ASSUME NEW r \in Requests, pc[r] \in Held
      PROVE  uri[r] \in KeysOf(Want[r]) /\ file[uri[r]] # 0
  BY <1>3 DEF Held, Named, AllLayers, StoreLayers, NameInv, StoreInv
<1>4. ASSUME record' = record
      PROVE  Published' = Published
  <2>1. ASSUME NEW d \in Datasets, record[d] # NoFile
        PROVE  file'[record[d]] = file[record[d]]
    BY <1>1, <1>2, <2>1 DEF Names
  <2> QED BY <1>4, <2>1 DEF Published
<1>5. ASSUME NEW q \in Requests, pc'[q] = pc[q], uri'[q] = uri[q]
      PROVE  Offered'[q] = Offered[q]
  BY <1>0, <1>1, <1>3, <1>5 DEF Offered, Held
<1>6. ASSUME NEW r \in Requests, \A q \in Requests \ {r} : pc'[q] = pc[q] /\ uri'[q] = uri[q],
             NEW v, Offered'[r] = v
      PROVE  Offered' = [Offered EXCEPT ![r] = v]
  BY <1>5, <1>6 DEF Offered
<1>7. ASSUME NEW q \in Requests
      PROVE  /\ Offered[q] \in 0..MaxVersion
             /\ pc[q] = "read" => Offered[q] = file[uri[q]] /\ Offered[q] # 0
             /\ pc[q] # "read" => Offered[q] = 0
  BY <1>0, <1>1, <1>3 DEF Offered, Held
<1>8. ASSUME NEW r \in Requests, pc[r] # "read", pc'[r] # "read",
             \A q \in Requests \ {r} : pc'[q] = pc[q] /\ uri'[q] = uri[q],
             record' = record, served' = served
      PROVE  UNCHANGED <<Published, served, Offered>>
  <2>1. Offered[r] = 0 /\ Offered'[r] = 0
    BY <1>8 DEF Offered
  <2>2. Offered' = Offered
    BY <1>5, <1>8, <2>1 DEF Offered
  <2> QED BY <1>4, <1>8, <2>2
<1>9. ASSUME NEW r \in Requests, NEW f \in Names(Want[r]), pc[r] # "read",
             pc'[r] = "read", uri'[r] = f,
             \A q \in Requests \ {r} : pc'[q] = pc[q] /\ uri'[q] = uri[q],
             record' = record, served' = served
      PROVE  Promise!Offer(r, file[f]) /\ file[f] \in 1..MaxVersion
  <2>1. Want[r] \in Datasets
    BY <1>0
  <2>2. file'[f] = file[f] /\ file[f] \in 1..MaxVersion
    BY <1>1, <1>2, <1>9, <2>1
  <2>3. Offered[r] = 0 /\ Offered' = [Offered EXCEPT ![r] = file[f]]
    BY <1>6, <1>7, <1>9, <2>2 DEF Offered
  <2>4. CASE record[Want[r]] = NoFile
    <3>1. Published[Want[r]] = 0
      BY <2>1, <2>4 DEF Published
    <3>2. served[Want[r]] <= file[f]
      BY <1>9, <2>1 DEF AllLayers, NamedInv
    <3>3. ASSUME NEW q \in Requests, Want[q] = Want[r]
          PROVE  Offered[q] <= file[f]
      <4>1. pc[q] = "read" => file[uri[q]] <= file[f]
        BY <1>9, <2>1, <3>3 DEF AllLayers, NamedInv
      <4> QED BY <1>0, <1>7, <2>2, <4>1
    <3>4. Promise!Newest(Want[r], file[f])
      BY <3>2, <3>3 DEF Promise!Newest
    <3> QED BY <1>4, <1>9, <2>2, <2>3, <3>1, <3>4 DEF Promise!Offer
  <2>5. CASE record[Want[r]] # NoFile
    <3>1. f = record[Want[r]]
      BY <1>9, <2>1, <2>5 DEF Names, AllLayers, StoreLayers, AgreeInv, CacheAgrees
    <3>2. Published[Want[r]] = file[f] /\ file[f] # 0
      BY <2>1, <2>2, <2>5, <3>1 DEF Published
    <3> QED BY <1>4, <1>9, <2>2, <2>3, <3>2 DEF Promise!Offer
  <2> QED BY <2>4, <2>5
<1>10. ASSUME NEW r \in Requests, LookCache(r)
       PROVE  \/ \E v \in 1..MaxVersion : Promise!Offer(r, v)
              \/ UNCHANGED <<Published, served, Offered>>
  <2>1. /\ pc[r] # "read" /\ record' = record /\ served' = served
        /\ \A q \in Requests \ {r} : pc'[q] = pc[q] /\ uri'[q] = uri[q]
    BY <1>0, <1>10 DEF LookCache, Goto, storeVars, ghostVars
  <2>2. CASE cache[Want[r]] = NoFile
    <3>1. pc'[r] # "read"
      BY <1>0, <1>10, <2>2 DEF LookCache, Goto
    <3> QED BY <1>8, <2>1, <3>1
  <2>3. CASE cache[Want[r]] # NoFile
    <3>1. pc'[r] = "read" /\ uri'[r] = cache[Want[r]]
      BY <1>0, <1>10, <2>3 DEF LookCache, Goto
    <3>2. cache[Want[r]] \in Names(Want[r])
      BY <2>3 DEF Names
    <3> QED BY <1>9, <2>1, <3>1, <3>2
  <2> QED BY <2>2, <2>3
<1>11. ASSUME NEW r \in Requests, Recache(r)
       PROVE  \E v \in 1..MaxVersion : Promise!Offer(r, v)
  <2>1. /\ pc[r] = "recache" /\ pc'[r] = "read" /\ uri' = uri
        /\ record' = record /\ served' = served
        /\ \A q \in Requests \ {r} : pc'[q] = pc[q] /\ uri'[q] = uri[q]
    BY <1>0, <1>11 DEF Recache, Goto, localVars, ghostVars
  <2>2. uri[r] = record[Want[r]] /\ uri[r] # NoFile
    BY <1>0, <1>1, <1>3, <2>1 DEF AllLayers, StoreLayers, AgreeInv, Held
  <2>3. uri'[r] \in Names(Want[r])
    BY <2>1, <2>2 DEF Names
  <2> QED BY <1>9, <2>1, <2>3
<1>12. ASSUME NEW r \in Requests, Commit(r)
       PROVE  \E v \in 1..MaxVersion : Promise!Publish(r, v)
  <2> DEFINE v == file[uri[r]]
             d == Want[r]
  <2>1. /\ pc[r] = "commit" /\ pc'[r] = "read" /\ uri' = uri /\ file' = file
        /\ record' = [record EXCEPT ![d] = uri[r]] /\ served' = served
        /\ \A q \in Requests \ {r} : pc'[q] = pc[q] /\ uri'[q] = uri[q]
    BY <1>0, <1>12 DEF Commit, Goto, localVars, ghostVars
  <2>2. uri[r] # NoFile /\ v \in 1..MaxVersion /\ d \in Datasets
    BY <1>0, <1>1, <1>3, <2>1 DEF Held
  <2>3. record[d] = NoFile
    BY <2>1 DEF AllLayers, StoreLayers, AgreeInv
  <2>4. NoneNewer(d, v)
    BY <2>1 DEF AllLayers, VersionInv, Fresh, Loaded, Stored
  <2>5. ASSUME NEW q \in Requests, Want[q] = d
        PROVE  Offered[q] <= v
    <3>1. pc[q] = "read" => file[uri[q]] <= v
      BY <1>3, <2>4, <2>5 DEF NoneNewer, Held
    <3> QED BY <1>0, <1>7, <2>2, <3>1
  <2>6. Promise!Newest(d, v)
    BY <2>4, <2>5 DEF NoneNewer, Promise!Newest
  <2>7. Published[d] = 0 /\ Published' = [Published EXCEPT ![d] = v]
    BY <1>0, <2>1, <2>2, <2>3 DEF Published
  <2>8. Offered[r] = 0 /\ Offered' = [Offered EXCEPT ![r] = v]
    BY <1>6, <1>7, <2>1 DEF Offered
  <2> QED BY <2>1, <2>2, <2>6, <2>7, <2>8 DEF Promise!Publish
<1>13. ASSUME NEW r \in Requests, Read(r)
       PROVE  Promise!Give(r)
  <2>1. /\ pc[r] = "read" /\ pc'[r] = "done" /\ record' = record
        /\ \A q \in Requests \ {r} : pc'[q] = pc[q] /\ uri'[q] = uri[q]
    BY <1>0, <1>13 DEF Read, Answer, Goto, storeVars
  <2>2. Offered[r] = file[uri[r]] /\ Offered[r] # 0
    BY <1>7, <2>1
  <2>3. Offered' = [Offered EXCEPT ![r] = 0]
    BY <1>6, <2>1 DEF Offered
  <2>4. served' = [served EXCEPT ![Want[r]] = IF Offered[r] > @ THEN Offered[r] ELSE @]
    BY <1>13, <2>2 DEF Read
  <2> QED BY <1>4, <2>1, <2>2, <2>3, <2>4 DEF Promise!Give
<1>14. ASSUME NEW R \in SUBSET Requests, record' = record, served' = served,
              \A q \in R : pc'[q] # "read",
              \A q \in Requests \ R : pc'[q] = pc[q] /\ uri'[q] = uri[q]
       PROVE  Promise!Withdraw(R)
  <2>1. \A q \in R : Offered'[q] = 0
    BY <1>14 DEF Offered
  <2>2. Offered' = [q \in Requests |-> IF q \in R THEN 0 ELSE Offered[q]]
    BY <1>5, <1>14, <2>1 DEF Offered
  <2> QED BY <1>4, <1>14, <2>2 DEF Promise!Withdraw
<1>15. ASSUME NEW r \in Requests, Fail(r)
       PROVE  Promise!Withdraw({r})
  <2>1. /\ pc'[r] # "read" /\ record' = record /\ served' = served
        /\ \A q \in Requests \ {r} : pc'[q] = pc[q] /\ uri'[q] = uri[q]
    BY <1>0, <1>15 DEF Fail, Answer, Goto, storeVars, localVars, ghostVars
  <2> QED BY <1>14, <2>1
<1>16. CASE Crash
  <2>1. /\ record' = record /\ served' = served
        /\ \A q \in Requests : pc'[q] # "read"
    BY <1>0, <1>16 DEF Crash, Active, storeVars
  <2>2. Promise!Withdraw(Requests)
    BY <1>14, <2>1
  <2> QED BY <2>2 DEF Promise!PromiseNext
<1>17. ASSUME NEW r \in Requests,
              \/ Ask(r) \/ LookRegistry(r) \/ LogStart(r) \/ Download(r) \/ Head(r)
              \/ Put(r) \/ Create(r) \/ CacheSet(r)
       PROVE  UNCHANGED <<Published, served, Offered>>
  <2>1. /\ pc[r] # "read" /\ pc'[r] # "read" /\ record' = record /\ served' = served
        /\ \A q \in Requests \ {r} : pc'[q] = pc[q] /\ uri'[q] = uri[q]
    BY <1>0, <1>17 DEF Ask, LookRegistry, LogStart, Download, Head, Put, Create, CacheSet,
                       Goto, storeVars, localVars, ghostVars
  <2> QED BY <1>8, <2>1
<1>18. ASSUME NEW r \in Requests, LogStartLocked(r) \/ Rollback(r)
       PROVE  UNCHANGED <<Published, served, Offered>>
  <2>1. /\ pc[r] # "read" /\ pc'[r] # "read" /\ record' = record /\ served' = served
        /\ \A q \in Requests \ {r} : pc'[q] = pc[q] /\ uri'[q] = uri[q]
    BY <1>0, <1>18 DEF LogStartLocked, Rollback, Answer, Goto, storeVars
  <2> QED BY <1>8, <2>1
<1>19. ASSUME record' = record, served' = served, pc' = pc, uri' = uri
       PROVE  UNCHANGED <<Published, served, Offered>>
  <2>1. Offered' = Offered
    BY <1>5, <1>19 DEF Offered
  <2> QED BY <1>4, <1>19, <2>1
<1>20. ASSUME NEW d \in Datasets, Revise(d) \/ Drop(d) \/ Refresh(d)
       PROVE  UNCHANGED <<Published, served, Offered>>
  BY <1>19, <1>20 DEF Revise, Drop, Refresh, storeVars, localVars, ghostVars
<1>21. CASE UNCHANGED vars
  BY <1>19, <1>21 DEF vars, storeVars, localVars, ghostVars
<1>22. ASSUME NEW r \in Requests, Fail(r)
       PROVE  Promise!PromiseNext
  <2>1. {r} \in SUBSET Requests /\ Promise!Withdraw({r})
    BY <1>15, <1>22
  <2> QED BY <2>1 DEF Promise!PromiseNext
<1>23. ASSUME NEW r \in Requests, Step(r)
       PROVE  Promise!PromiseNext \/ UNCHANGED <<Published, served, Offered>>
  BY <1>10, <1>11, <1>12, <1>13, <1>17, <1>18, <1>23 DEF Step, Promise!PromiseNext
<1> QED BY <1>16, <1>17, <1>20, <1>21, <1>22, <1>23 DEF Next

\* The data layer keeps its promise with a clock whose fractions do not repeat: one
\* version of a dataset is published, everybody is offered it from then on, and nobody
\* is ever offered anything older than what somebody was given before.
THEOREM DataLayerKeepsPromise ==
    ASSUME ~MayCoincide
    PROVE  Spec => DataPromiseKept
<1>1. Init => Promise!PromiseInit
  BY DEF Init, Promise!PromiseInit, Published, Offered
<1>2. AllLayers /\ [Next]_vars => [Promise!PromiseNext]_(Promise!promiseVars)
  BY DataPromiseStep
<1> QED BY <1>1, <1>2, AllLayersAlways, PTL DEF Spec, DataPromiseKept, Promise!PromiseSpec

-----------------------------------------------------------------------------
(* The providers that the data layer downloads from, and Yahoo's circuit    *)
(* breaker (module Providers).                                             *)

ProvidersInv ==
    /\ ProvidersTypeOK
    /\ \A f \in Feeds : failures[f].count > 0 => ProviderOf(f) = "yahoo"
    /\ Overshoot

\* The downloads under way are no more than the slots, before and after a step.
LEMMA SlotsCounted ==
    ASSUME NEW T \in SUBSET Slots
    PROVE  /\ IsFiniteSet(T) /\ Cardinality(T) \in Nat
           /\ Cardinality(Slots) \in Nat
           /\ Cardinality(T) <= Cardinality(Slots)
           /\ \A s \in T : Cardinality(T \ {s}) = Cardinality(T) - 1
           /\ \A U \in SUBSET T : Cardinality(U) <= Cardinality(T)
  <1>1. IsFiniteSet(Slots) /\ IsFiniteSet(T)
    BY ProvidersAssumption, FS_Subset
  <1> QED
    BY <1>1, FS_Subset, FS_CardinalityType, FS_RemoveElement

\* The downloads under way for a feed hold slots.
LEMMA InFlightSlots == ASSUME NEW f PROVE InFlight(f) \subseteq Slots /\ InFlight(f)' \subseteq Slots
  BY DEF InFlight

\* The slot that a step empties or fills is the only one whose download it ends or begins.
LEMMA InFlightAfter ==
    ASSUME NEW f \in Feeds, NEW s \in Slots, DOMAIN call = Slots, DOMAIN call' = Slots,
           \A t \in Slots \ {s} : call'[t] = call[t]
    PROVE  /\ call'[s].phase # "fetching" /\ s \in InFlight(f) =>
                InFlight(f)' = InFlight(f) \ {s}
           /\ call'[s].phase # "fetching" => InFlight(f)' \subseteq InFlight(f)
           /\ call'[s].phase = "fetching" /\ call[s].phase = "fetching"
                /\ call'[s].feed = call[s].feed => InFlight(f)' = InFlight(f)
           /\ call'[s].phase = "fetching" /\ call'[s].feed # f =>
                InFlight(f)' \subseteq InFlight(f)
  BY DEF InFlight

\* The bound survives a step that counts no failure and begins no download.
LEMMA FewerInFlight ==
    ASSUME ProvidersInv, NEW f \in Feeds,
           failures'[f].count \in {0, failures[f].count},
           InFlight(f)' \subseteq InFlight(f),
           failures'[f].count > 0
    PROVE  failures'[f].count + Cardinality(InFlight(f)')
              <= Threshold - 1 + Cardinality(Slots)
  <1>1. /\ failures[f].count \in Nat /\ Threshold \in Nat /\ Cardinality(Slots) \in Nat
        /\ failures[f].count > 0 => failures[f].count + Cardinality(InFlight(f))
                                      <= Threshold - 1 + Cardinality(Slots)
    BY SlotsCounted, ProvidersAssumption DEF ProvidersInv, ProvidersTypeOK, Overshoot
  <1>2. /\ Cardinality(InFlight(f)') \in Nat /\ Cardinality(InFlight(f)) \in Nat
        /\ Cardinality(InFlight(f)') <= Cardinality(InFlight(f))
    BY SlotsCounted, InFlightSlots
  <1> QED
    BY <1>1, <1>2

\* An answered or lost request leaves its slot.
LEMMA SlotFreed ==
    ASSUME DOMAIN call = Slots, NEW s \in Slots, call' = [call EXCEPT ![s] = FreeSlot]
    PROVE  /\ DOMAIN call' = Slots /\ call'[s].phase = "free"
           /\ \A t \in Slots \ {s} : call'[t] = call[t]
  BY DEF FreeSlot

\* The step relation keeps the types ...
LEMMA ProvidersTypeStep ==
    ASSUME ProvidersTypeOK, [ProvidersNext]_providersVars
    PROVE  ProvidersTypeOK'
  <1> DEFINE Failure == [count : Nat, age : 0 .. ResetTimeout + 1]
             Call == {FreeSlot} \cup [phase : {"sent"}, feed : Feeds]
                     \cup [phase : {"fetching"}, feed : Feeds, try : 1 .. MaxTries]
             Waiting == [phase : {"waiting"}, feed : Feeds, attempt : 1 .. MaxAttempts,
                         slot : Slots \cup {"none"}]
             Client == {Nothing} \cup Waiting
  <1>0. /\ failures \in [Feeds -> Failure] /\ call \in [Slots -> Call]
        /\ client \in [Clients -> Client]
        /\ ResetTimeout \in Nat
        /\ Closed \in Failure /\ FreeSlot \in Call /\ Nothing \in Client
    BY ProvidersAssumption DEF ProvidersTypeOK, Closed
  <1>1. ASSUME NEW s \in Slots
        PROVE  /\ call[s].phase = "sent" => call[s] \in [phase : {"sent"}, feed : Feeds]
               /\ call[s].phase = "fetching" =>
                    call[s] \in [phase : {"fetching"}, feed : Feeds, try : 1 .. MaxTries]
    BY <1>0 DEF FreeSlot
  <1>2. ASSUME NEW c \in Clients, client[c].phase = "waiting"
        PROVE  client[c] \in Waiting
    BY <1>0, <1>2 DEF Nothing
  <1>3. ASSUME failures' \in [Feeds -> Failure], call' \in [Slots -> Call],
               client' \in [Clients -> Client]
        PROVE  ProvidersTypeOK'
    BY <1>3 DEF ProvidersTypeOK
  <1>4. ASSUME NEW f \in Feeds
        PROVE  /\ AfterIsOpen(f) \in [Feeds -> Failure]
               /\ AfterFailure(f) \in [Feeds -> Failure]
               /\ AfterReset(f) \in [Feeds -> Failure]
    BY <1>0 DEF AfterIsOpen, AfterFailure, AfterReset
  <1>5. ASSUME NEW s \in Slots, Reply(s)
        PROVE  call' \in [Slots -> Call] /\ client' \in [Clients -> Client]
    BY <1>0, <1>5 DEF Reply
  <1>6. ASSUME NEW c \in Clients, NEW f \in Feeds, NEW a \in 1 .. MaxAttempts, Request(c, f, a)
        PROVE  call' \in [Slots -> Call] /\ client' \in [Clients -> Client]
    BY <1>0, <1>6 DEF Request
  <1>7. CASE Tick
    <2>1. ASSUME NEW f \in Feeds, failures[f].count > 0, ~Expired(f)
          PROVE  [failures[f] EXCEPT !.age = @ + 1] \in Failure
      BY <1>0, <2>1 DEF Expired
    <2>2. failures' \in [Feeds -> Failure]
      BY <1>0, <1>7, <2>1 DEF Tick
    <2> QED
      BY <1>0, <1>3, <1>7, <2>2 DEF Tick
  <1>8. ASSUME NEW c \in Clients, Get(c) \/ Retry(c) \/ GiveUp(c)
        PROVE  ProvidersTypeOK'
    <2>1. CASE Get(c)
      <3>1. 1 \in 1 .. MaxAttempts
        BY DEF MaxAttempts
      <3> QED
        BY <1>0, <1>3, <1>6, <2>1, <3>1 DEF Get
    <2>2. CASE Retry(c)
      <3>1. client[c].feed \in Feeds /\ client[c].attempt + 1 \in 1 .. MaxAttempts
        BY <1>2, <2>2 DEF Retry, MaxAttempts
      <3> QED
        BY <1>0, <1>3, <1>6, <2>2, <3>1 DEF Retry
    <2>3. CASE GiveUp(c)
      BY <1>0, <1>3, <2>3 DEF GiveUp
    <2> QED
      BY <1>8, <2>1, <2>2, <2>3
  <1>9. ASSUME NEW s \in Slots, Start(s) \/ StartOther(s) \/ TryAgain(s) \/ FallBack(s)
        PROVE  ProvidersTypeOK'
    <2>1. call[s].feed \in Feeds
      BY <1>1, <1>9 DEF Start, StartOther, TryAgain, FallBack
    <2>2. \/ \E k \in 1 .. MaxTries :
                call' = [call EXCEPT ![s] = [phase |-> "fetching", feed |-> call[s].feed, try |-> k]]
          \/ /\ call[s].phase = "fetching"
             /\ \E k \in 1 .. MaxTries : call' = [call EXCEPT ![s].try = k]
      <3>1. CASE Start(s)
        BY <3>1 DEF Start, MaxTries
      <3>2. CASE StartOther(s)
        <4>1. (IF ProviderOf(call[s].feed) = "news" /\ NewsKey THEN 1 ELSE 2) \in 1 .. MaxTries
          BY DEF MaxTries
        <4> QED
          BY <3>2, <4>1 DEF StartOther
      <3>3. CASE TryAgain(s)
        <4>1. call[s].try + 1 \in 1 .. MaxTries
          BY <1>1, <3>3 DEF TryAgain, MaxTries
        <4>2. call' = [call EXCEPT ![s].try = call[s].try + 1] /\ call[s].phase = "fetching"
          BY <1>0, <3>3 DEF TryAgain
        <4> QED
          BY <4>1, <4>2
      <3>4. CASE FallBack(s)
        BY <3>4 DEF FallBack, MaxTries
      <3> QED
        BY <1>9, <3>1, <3>2, <3>3, <3>4
    <2>3. call' \in [Slots -> Call]
      BY <1>0, <1>1, <2>1, <2>2
    <2>4. failures' \in [Feeds -> Failure] /\ UNCHANGED client
      BY <1>0, <1>4, <1>9, <2>1 DEF Start, StartOther, TryAgain, FallBack
    <2> QED
      BY <1>0, <1>3, <2>3, <2>4
  <1>10. ASSUME NEW s \in Slots,
                Refuse(s) \/ Unsupported(s) \/ Fails(s) \/ Succeeds(s) \/ EndOther(s)
         PROVE  ProvidersTypeOK'
    <2>1. call[s].feed \in Feeds /\ Reply(s)
      BY <1>1, <1>10 DEF Refuse, Unsupported, Fails, Succeeds, EndOther
    <2>2. failures' \in [Feeds -> Failure]
      BY <1>0, <1>4, <1>10, <2>1 DEF Refuse, Unsupported, Fails, Succeeds, EndOther
    <2> QED
      BY <1>3, <1>5, <2>1, <2>2
  <1>11. ASSUME NEW s \in Slots, Lose(s)
         PROVE  ProvidersTypeOK'
    <2>1. ASSUME NEW c \in Clients, client[c].phase = "waiting"
          PROVE  [client[c] EXCEPT !.slot = "none"] \in Client
      BY <1>2, <2>1
    <2>2. client' \in [Clients -> Client]
      BY <1>0, <1>11, <2>1 DEF Lose
    <2> QED
      BY <1>0, <1>3, <1>11, <2>2 DEF Lose
  <1>12. CASE UNCHANGED providersVars
    BY <1>0, <1>3, <1>12 DEF providersVars
  <1> QED
    BY <1>7, <1>8, <1>9, <1>10, <1>11, <1>12 DEF ProvidersNext

\* ... and the bound.
LEMMA OvershootStep ==
    ASSUME ProvidersInv, ProvidersTypeOK', [ProvidersNext]_providersVars
    PROVE  Overshoot'
  <1>0. /\ failures \in [Feeds -> [count : Nat, age : 0 .. ResetTimeout + 1]]
        /\ DOMAIN call = Slots /\ DOMAIN call' = Slots
        /\ \A s \in Slots : call[s].phase \in {"sent", "fetching"} => call[s].feed \in Feeds
        /\ Threshold \in Nat \ {0} /\ Closed.count = 0 /\ Cardinality(Slots) \in Nat
    BY ProvidersAssumption, FS_CardinalityType
    DEF ProvidersInv, ProvidersTypeOK, Closed, FreeSlot
  <1>1. ASSUME \A f \in Feeds : /\ failures'[f].count \in {0, failures[f].count}
                                /\ InFlight(f)' \subseteq InFlight(f)
        PROVE  Overshoot'
    BY <1>1, FewerInFlight DEF Overshoot
  <1>2. ASSUME NEW f \in Feeds, AfterIsOpen(f) = failures' \/ AfterReset(f) = failures'
        PROVE  \A g \in Feeds : failures'[g].count \in {0, failures[g].count}
    BY <1>0, <1>2 DEF AfterIsOpen, AfterReset
  <1>3. CASE Tick
    BY <1>0, <1>1, <1>3 DEF Tick, InFlight
  <1>4. ASSUME NEW s \in Slots, call' = [call EXCEPT ![s] = FreeSlot],
               \A f \in Feeds : failures'[f].count \in {0, failures[f].count}
        PROVE  Overshoot'
    BY <1>0, <1>1, <1>4, SlotFreed, InFlightAfter
  <1>5. ASSUME NEW c \in Clients, Get(c) \/ Retry(c)
        PROVE  Overshoot'
    <2>1. PICK s \in Slots :
             /\ call'[s].phase = "sent" /\ UNCHANGED failures
             /\ \A t \in Slots \ {s} : call'[t] = call[t]
      BY <1>0, <1>5 DEF Get, Retry, Request
    <2> QED
      BY <1>0, <1>1, <2>1, InFlightAfter
  <1>6. ASSUME NEW c \in Clients, GiveUp(c)
        PROVE  Overshoot'
    BY <1>1, <1>6 DEF GiveUp, InFlight
  <1>7. ASSUME NEW s \in Slots, Start(s)
        PROVE  Overshoot'
    <2>1. /\ call[s].feed \in Feeds /\ call[s].phase = "sent"
          /\ call'[s].phase = "fetching" /\ call'[s].feed = call[s].feed
          /\ \A t \in Slots \ {s} : call'[t] = call[t]
          /\ ~IsOpen(call[s].feed) /\ failures' = AfterIsOpen(call[s].feed)
      BY <1>0, <1>7 DEF Start
    <2> SUFFICES ASSUME NEW f \in Feeds, failures'[f].count > 0
                 PROVE  failures'[f].count + Cardinality(InFlight(f)')
                           <= Threshold - 1 + Cardinality(Slots)
      BY DEF Overshoot
    <2>2. CASE f = call[s].feed
      <3>1. failures'[f].count < Threshold /\ failures'[f].count \in Nat
        BY <1>0, <2>1, <2>2 DEF IsOpen, AfterIsOpen, Expired
      <3>2. /\ Cardinality(InFlight(f)') \in Nat
            /\ Cardinality(InFlight(f)') <= Cardinality(Slots)
        BY SlotsCounted, InFlightSlots
      <3> QED
        BY <1>0, <3>1, <3>2
    <2>3. CASE f # call[s].feed
      <3>1. InFlight(f)' \subseteq InFlight(f)
        BY <1>0, <2>1, <2>3, InFlightAfter
      <3> QED
        BY <1>2, <2>1, <3>1, FewerInFlight
    <2> QED
      BY <2>2, <2>3
  <1>8. ASSUME NEW s \in Slots, TryAgain(s) \/ FallBack(s)
        PROVE  Overshoot'
    <2>1. /\ call'[s].phase = call[s].phase /\ call'[s].feed = call[s].feed
          /\ UNCHANGED failures
          /\ \A t \in Slots \ {s} : call'[t] = call[t]
      BY <1>0, <1>8 DEF TryAgain, FallBack, ProvidersInv, ProvidersTypeOK, FreeSlot
    <2> QED
      BY <1>0, <1>1, <2>1 DEF InFlight
  <1>9. ASSUME NEW s \in Slots, StartOther(s)
        PROVE  Overshoot'
    <2>1. /\ ProviderOf(call[s].feed) # "yahoo" /\ UNCHANGED failures
          /\ call'[s].phase = "fetching" /\ call'[s].feed = call[s].feed
          /\ \A t \in Slots \ {s} : call'[t] = call[t]
      BY <1>0, <1>9 DEF StartOther
    <2> SUFFICES ASSUME NEW f \in Feeds, failures'[f].count > 0
                 PROVE  failures'[f].count + Cardinality(InFlight(f)')
                           <= Threshold - 1 + Cardinality(Slots)
      BY DEF Overshoot
    <2>2. f # call[s].feed
      BY <2>1 DEF ProvidersInv
    <2>3. InFlight(f)' \subseteq InFlight(f)
      BY <1>0, <2>1, <2>2, InFlightAfter
    <2> QED
      BY <2>1, <2>3, FewerInFlight
  <1>10. ASSUME NEW s \in Slots, Fails(s)
         PROVE  Overshoot'
    <2>1. /\ call[s].feed \in Feeds /\ s \in InFlight(call[s].feed)
          /\ call' = [call EXCEPT ![s] = FreeSlot]
          /\ failures' = AfterFailure(call[s].feed)
      BY <1>0, <1>10 DEF Fails, Reply, InFlight
    <2> SUFFICES ASSUME NEW f \in Feeds, failures'[f].count > 0
                 PROVE  failures'[f].count + Cardinality(InFlight(f)')
                           <= Threshold - 1 + Cardinality(Slots)
      BY DEF Overshoot
    <2>2. CASE f = call[s].feed
      <3>1. failures'[f].count = failures[f].count + 1 /\ failures[f].count \in Nat
        BY <1>0, <2>1, <2>2 DEF AfterFailure
      <3>2. /\ Cardinality(InFlight(f)') = Cardinality(InFlight(f)) - 1
            /\ Cardinality(InFlight(f)) \in Nat
            /\ Cardinality(InFlight(f)) <= Cardinality(Slots)
        <4>1. InFlight(f)' = InFlight(f) \ {s}
          BY <1>0, <2>1, <2>2, SlotFreed, InFlightAfter
        <4> QED
          BY <2>1, <2>2, <4>1, SlotsCounted, InFlightSlots
      <3>3. failures[f].count > 0 => failures[f].count + Cardinality(InFlight(f))
                                        <= Threshold - 1 + Cardinality(Slots)
        BY DEF ProvidersInv, Overshoot
      <3> QED
        BY <1>0, <3>1, <3>2, <3>3
    <2>3. CASE f # call[s].feed
      <3>1. InFlight(f)' \subseteq InFlight(f)
        BY <1>0, <2>1, SlotFreed, InFlightAfter
      <3>2. failures'[f] = failures[f]
        BY <1>0, <2>1, <2>3 DEF AfterFailure
      <3> QED
        BY <3>1, <3>2, FewerInFlight
    <2> QED
      BY <2>2, <2>3
  <1>11. ASSUME NEW s \in Slots,
                Refuse(s) \/ Unsupported(s) \/ Succeeds(s) \/ EndOther(s) \/ Lose(s)
         PROVE  Overshoot'
    <2>1. /\ call' = [call EXCEPT ![s] = FreeSlot]
          /\ UNCHANGED failures \/ (call[s].feed \in Feeds /\ failures' = AfterReset(call[s].feed))
      BY <1>0, <1>11
         DEF Refuse, Unsupported, Succeeds, EndOther, Lose, Reply, AfterIsOpen, AfterReset
    <2> QED
      BY <1>2, <1>4, <2>1
  <1>12. CASE UNCHANGED providersVars
    BY <1>1, <1>12 DEF providersVars, InFlight
  <1> QED
    BY <1>3, <1>5, <1>6, <1>7, <1>8, <1>9, <1>10, <1>11, <1>12 DEF ProvidersNext

\* Only a feed of Yahoo's ever has a failure counted.
LEMMA YahooStep ==
    ASSUME ProvidersInv, [ProvidersNext]_providersVars,
           NEW f \in Feeds, failures'[f].count > 0
    PROVE  ProviderOf(f) = "yahoo"
  <1>0. /\ failures \in [Feeds -> [count : Nat, age : 0 .. ResetTimeout + 1]]
        /\ failures[f].count > 0 => ProviderOf(f) = "yahoo"
        /\ Closed.count = 0
    BY DEF ProvidersInv, ProvidersTypeOK, Closed
  <1>1. CASE failures'[f].count \in {0, failures[f].count}
    BY <1>0, <1>1
  <1>2. CASE Tick
    BY <1>0, <1>1, <1>2 DEF Tick
  <1>3. ASSUME NEW s \in Slots, Start(s) \/ Unsupported(s) \/ Succeeds(s)
        PROVE  failures'[f].count \in {0, failures[f].count}
    BY <1>0, <1>3 DEF Start, Unsupported, Succeeds, AfterIsOpen, AfterReset
  <1>4. ASSUME NEW s \in Slots, Fails(s)
        PROVE  failures'[f].count = failures[f].count \/ ProviderOf(f) = "yahoo"
    BY <1>0, <1>4 DEF Fails, AfterFailure
  <1>5. ASSUME NEW s \in Slots, \/ Refuse(s) \/ TryAgain(s) \/ StartOther(s)
                                \/ FallBack(s) \/ EndOther(s) \/ Lose(s)
        PROVE  UNCHANGED failures
    BY <1>5 DEF Refuse, TryAgain, StartOther, FallBack, EndOther, Lose
  <1>6. ASSUME NEW c \in Clients, Get(c) \/ Retry(c) \/ GiveUp(c)
        PROVE  UNCHANGED failures
    BY <1>6 DEF Get, Retry, GiveUp
  <1> QED
    BY <1>1, <1>2, <1>3, <1>4, <1>5, <1>6 DEF ProvidersNext, providersVars

\* The circuit breaker of Yahoo, which is asked before a download and told after it: the
\* failures it counts pass the threshold by less than the requests the data service can
\* have in hand, whatever its clients give up and try again.
THEOREM CircuitBounded == ProvidersSpec => []Overshoot
  <1>1. ASSUME ProvidersInit
        PROVE  ProvidersInv
    <2>1. ProvidersTypeOK
      BY <1>1, ProvidersAssumption DEF ProvidersInit, ProvidersTypeOK, Closed
    <2>2. \A f \in Feeds : ~(failures[f].count > 0)
      BY <1>1 DEF ProvidersInit, Closed
    <2> QED
      BY <2>1, <2>2 DEF ProvidersInv, Overshoot
  <1>2. ProvidersInv /\ [ProvidersNext]_providersVars => ProvidersInv'
    BY ProvidersTypeStep, OvershootStep, YahooStep DEF ProvidersInv
  <1>3. ProvidersInv => Overshoot
    BY DEF ProvidersInv
  <1> QED
    BY <1>1, <1>2, <1>3, PTL DEF ProvidersSpec
=============================================================================
