------------------------- MODULE FeatureStoreProofs -------------------------
(***************************************************************************)
(* What holds of the feature store for any number of runs, features and    *)
(* revisions.  The heart is StoreInv: whatever lies under a hash is what the *)
(* hash says, in the store and in the cache; RunInv says the same of what a*)
(* run carries, and RowInv ties the rows to the files.                     *)
(***************************************************************************)
EXTENDS FeatureStore, FiniteSetTheorems, TLAPS

\* c is what h is the hash of; of news the hash says nothing.
Matches(c, h) ==
    /\ c \in Contents
    /\ c.def = h[1] /\ c.source = h[2]
    /\ h[1] \notin NewsDefs => c.news = 0

StoreInv ==
    \A h \in Hashes : /\ file[h] # Nothing => Matches(file[h], h)
                      /\ cache[h] # Nothing => Matches(cache[h], h)

Carrying == {"find", "put", "cache", "insert", "read", "get", "recache"}
Working == Carrying \cup {"compute"}

RunInv ==
    \A r \in Runs :
       /\ pc[r] \in {"load", "fetch"} => frames[r] = <<>> /\ attempt[r] < MaxAttempts
       /\ pc[r] \in Working \cup {"fetch"} =>
             \A i \in DOMAIN todo[r] : loaded[r][todo[r][i]] # Nothing
       /\ pc[r] \in Working => source[r] \in 1..MaxSource /\ todo[r] # <<>>
       /\ pc[r] \in Carrying => Matches(computed[r], Hash(r))
       /\ pc[r] \in {"cache", "insert"} => file[Hash(r)] # Nothing

RowInv ==
    \A row \in rows :
       /\ pc[row.run] # "load"
       /\ row.hash = VersionHash(loaded[row.run][row.feature], row.source)
       /\ file[row.hash] # Nothing

IInv == TypeOK /\ StoreInv /\ RunInv /\ RowInv /\ ServesOwnVersion

(***************************************************************************)
(* Hashes and contents                                                     *)
(***************************************************************************)

\* A hash is its parts.
LEMMA HashParts ==
    ASSUME NEW d \in Definitions, NEW s \in 0..MaxSource
    PROVE  /\ VersionHash(d, s) \in Hashes
           /\ VersionHash(d, s)[1] = d
           /\ VersionHash(d, s)[2] = s
BY DEF VersionHash, Hashes

\* A run that works has a feature, its definition and a hash.
LEMMA RunHash ==
    ASSUME TypeOK, RunInv, NEW r \in Runs, pc[r] \in Working
    PROVE  /\ Feature(r) \in Features
           /\ Own(r) \in Definitions
           /\ source[r] \in 1..MaxSource
           /\ Hash(r) \in Hashes
           /\ Hash(r)[1] = Own(r)
           /\ Hash(r)[2] = source[r]
<1>1. todo[r] \in Seq(Features) /\ todo[r] # <<>> /\ source[r] \in 1..MaxSource
  BY DEF TypeOK, RunInv
<1>2. Head(todo[r]) \in Features /\ 1 \in DOMAIN todo[r] /\ Head(todo[r]) = todo[r][1]
  BY <1>1
<1>3. source[r] \in 0..MaxSource
  BY <1>1, FeatureAssumption
<1>4. loaded[r][Head(todo[r])] \in Definitions
  <2>1. loaded[r][todo[r][1]] # Nothing
    BY <1>2 DEF RunInv
  <2>2. loaded[r] \in [Features -> Definitions \cup {Nothing}]
    BY DEF TypeOK
  <2> QED BY <1>2, <2>1, <2>2
<1> QED BY <1>1, <1>2, <1>3, <1>4, HashParts DEF Hash, Feature, Own

\* What is computed without news is determined by its hash.
LEMMA OneContent ==
    ASSUME NEW h, NEW c, NEW d, Matches(c, h), Matches(d, h), h[1] \notin NewsDefs
    PROVE  c = d
<1>1. c.def = d.def /\ c.source = d.source /\ c.news = d.news
  BY DEF Matches
<1>2. /\ c = [def |-> c.def, source |-> c.source, news |-> c.news]
      /\ d = [def |-> d.def, source |-> d.source, news |-> d.news]
  BY DEF Matches, Contents
<1> QED BY <1>1, <1>2

\* What is there is not nothing.
LEMMA Present ==
    ASSUME NEW c, NEW h, Matches(c, h)
    PROVE  c \in Contents /\ c # Nothing
BY NothingAssumption DEF Matches

(***************************************************************************)
(* Steps                                                                   *)
(***************************************************************************)

\* Nothing is stored yet, and every run has all of its features to do.
LEMMA FeatureInit == Init => IInv
<1> SUFFICES ASSUME Init PROVE IInv
  OBVIOUS
<1>1. TypeOK
  <2>1. 1 \in 1..MaxSource /\ 0 \in 0..MaxSource /\ 0 \in 0..MaxAttempts
    BY FeatureAssumption DEF MaxAttempts
  <2>2. todo \in [Runs -> Seq(Features)]
    BY FeatureAssumption DEF Init
  <2>3. pc \in [Runs -> PCs]
    BY DEF Init, PCs, Active
  <2>4. /\ file \in [Hashes -> Contents \cup {Nothing}]
        /\ cache \in [Hashes -> Contents \cup {Nothing}]
    BY DEF Init
  <2>5. frames \in [Runs -> Seq([feature : Features, content : Contents])]
    BY DEF Init
  <2>6. computed \in [Runs -> Contents \cup {Nothing}]
    BY DEF Init
  <2>7. Def \in [Features -> Definitions \cup {Nothing}]
    BY FeatureAssumption
  <2>8. /\ definition \in [Features -> Definitions \cup {Nothing}]
        /\ loaded \in [Runs -> [Features -> Definitions \cup {Nothing}]]
    BY <2>7 DEF Init
  <2> QED BY <2>1, <2>2, <2>3, <2>4, <2>5, <2>6, <2>8 DEF Init, TypeOK
<1>2. StoreInv /\ RowInv
  BY DEF Init, StoreInv, RowInv
<1>3. RunInv /\ ServesOwnVersion
  BY FeatureAssumption DEF Init, RunInv, Working, Carrying, ServesOwnVersion, MaxAttempts
<1> QED BY <1>1, <1>2, <1>3 DEF IInv

\* What a run carries concerns nobody else: a step that moves r within its work, and
\* leaves alone what it has, keeps everything.
LEMMA Moves ==
    ASSUME IInv, NEW r \in Runs, NEW label \in Carrying, Goto(r, label),
           pc[r] \in Carrying,
           label \in {"cache", "insert"} => pc[r] \in {"cache", "insert"},
           UNCHANGED <<sourceVars, storeVars, localVars>>
    PROVE  IInv'
<1> USE DEF IInv
<1>1. pc' = [pc EXCEPT ![r] = label] /\ pc \in [Runs -> PCs] /\ label \in PCs
  BY DEF Goto, TypeOK, Carrying, PCs, Active
<1>2. TypeOK'
  BY <1>1 DEF TypeOK, sourceVars, storeVars, localVars
<1>3. StoreInv'
  BY DEF StoreInv, storeVars
<1>4. \A q \in Runs : Hash(q)' = Hash(q)
  BY DEF Hash, Own, Feature, localVars
<1>5. RunInv'
  BY <1>1, <1>4 DEF RunInv, storeVars, localVars, Working, Carrying
<1>6. ServesOwnVersion'
  BY DEF ServesOwnVersion, localVars
<1>7. RowInv'
  BY <1>1 DEF RowInv, VersionHash, storeVars, localVars, TypeOK, Carrying
<1> QED BY <1>2, <1>3, <1>5, <1>6, <1>7

\* A run that raises leaves what it has stored, and has nothing left itself.
LEMMA Raises ==
    ASSUME IInv, NEW r \in Runs, Raise(r), pc[r] # "load" \/ ~\E row \in rows : row.run = r,
           UNCHANGED <<sourceVars, storeVars, source>>,
           pc[r] # "load" => loaded' = loaded,
           loaded' \in [Runs -> [Features -> Definitions \cup {Nothing}]],
           attempt' \in [Runs -> 0..MaxAttempts],
           \A q \in Runs : q # r => attempt'[q] = attempt[q] /\ loaded'[q] = loaded[q]
    PROVE  IInv'
<1> USE DEF IInv
<1>0. /\ UNCHANGED <<upstream, definition, file, cache, rows, source>>
      /\ \A q \in Runs : pc[q] # "load" => loaded'[q] = loaded[q]
  <2>1. UNCHANGED <<upstream, definition, file, cache, rows, source>>
    BY DEF sourceVars, storeVars
  <2>2. \A q \in Runs : pc[q] # "load" => loaded'[q] = loaded[q]
    OBVIOUS
  <2> QED BY <2>1, <2>2
<1>1. /\ pc' = [pc EXCEPT ![r] = "raised"]
      /\ computed' = [computed EXCEPT ![r] = Nothing]
      /\ todo' = [todo EXCEPT ![r] = <<>>]
      /\ frames' = [frames EXCEPT ![r] = <<>>]
  BY DEF Raise, Goto
<1>2. /\ pc \in [Runs -> PCs] /\ computed \in [Runs -> Contents \cup {Nothing}]
      /\ todo \in [Runs -> Seq(Features)]
      /\ frames \in [Runs -> Seq([feature : Features, content : Contents])]
  BY DEF TypeOK
<1>3. TypeOK'
  <2>1. pc' \in [Runs -> PCs] /\ computed' \in [Runs -> Contents \cup {Nothing}]
    BY <1>1, <1>2 DEF PCs
  <2>2. todo' \in [Runs -> Seq(Features)]
    BY <1>1, <1>2
  <2>3. frames' \in [Runs -> Seq([feature : Features, content : Contents])]
    <3> DEFINE F == [feature : Features, content : Contents]
    <3>1. <<>> \in Seq(F)
      OBVIOUS
    <3> HIDE DEF F
    <3>2. frames \in [Runs -> Seq(F)]
      BY <1>2 DEF F
    <3>3. frames' \in [Runs -> Seq(F)]
      BY <1>1, <3>1, <3>2
    <3> QED BY <3>3 DEF F
  <2> QED BY <1>0, <2>1, <2>2, <2>3 DEF TypeOK
<1>4. StoreInv'
  BY <1>0 DEF StoreInv
<1>5. \A q \in Runs : q # r => Hash(q)' = Hash(q)
  BY <1>0, <1>1, <1>2 DEF Hash, Own, Feature
<1>6. RunInv'
  <2> SUFFICES ASSUME NEW q \in Runs
               PROVE  /\ pc'[q] \in {"load", "fetch"} =>
                            frames'[q] = <<>> /\ attempt'[q] < MaxAttempts
                      /\ pc'[q] \in Working \cup {"fetch"} =>
                            \A i \in DOMAIN todo'[q] : loaded'[q][todo'[q][i]] # Nothing
                      /\ pc'[q] \in Working => source'[q] \in 1..MaxSource /\ todo'[q] # <<>>
                      /\ pc'[q] \in Carrying => Matches(computed[q], Hash(q))'
                      /\ pc'[q] \in {"cache", "insert"} => (file[Hash(q)] # Nothing)'
    BY DEF RunInv
  <2>1. CASE q = r
    BY <1>1, <1>2, <2>1 DEF Working, Carrying
  <2>2. CASE q # r
    <3>1. /\ pc'[q] = pc[q] /\ computed'[q] = computed[q] /\ todo'[q] = todo[q]
          /\ frames'[q] = frames[q] /\ source'[q] = source[q] /\ Hash(q)' = Hash(q)
          /\ attempt'[q] = attempt[q] /\ loaded'[q] = loaded[q] /\ file' = file
      BY <1>0, <1>1, <1>2, <1>5, <2>2
    <3> QED BY <3>1 DEF RunInv
  <2> QED BY <2>1, <2>2
<1>7. ServesOwnVersion'
  <2> SUFFICES ASSUME NEW q \in Runs, NEW i \in DOMAIN frames'[q]
               PROVE  /\ frames'[q][i].content.def = loaded'[q][frames'[q][i].feature]
                      /\ frames'[q][i].content.source = source'[q]
    BY DEF ServesOwnVersion
  <2>1. q # r
    BY <1>1, <1>2
  <2> QED BY <1>0, <1>1, <1>2, <2>1 DEF ServesOwnVersion
<1>8. RowInv'
  BY <1>0, <1>1, <1>2 DEF RowInv, VersionHash, TypeOK
<1> QED BY <1>3, <1>4, <1>6, <1>7, <1>8

\* The rows that a SELECT finds come as a sequence of them.
LEMMA OrderIsSequence ==
    ASSUME NEW r \in Runs, NEW found \in SUBSET Wanted[r], NEW order \in Orders(found)
    PROVE  order \in Seq(Features) /\ \A i \in DOMAIN order : order[i] \in found
<1>1. found \subseteq Features /\ IsFiniteSet(found)
  BY FeatureAssumption, FS_Subset
<1>2. Cardinality(found) \in Nat
  BY <1>1, FS_CardinalityType
<1>3. order \in [1 .. Cardinality(found) -> found]
  BY DEF Orders, Bijection, Injection
<1> QED BY <1>1, <1>2, <1>3

\* The features that a run goes on with exist.
LEMMA LoadStep ==
    ASSUME IInv, NEW r \in Runs, Load(r)
    PROVE  IInv'
<1> USE DEF IInv
<1>1. /\ pc[r] = "load" /\ loaded' = [loaded EXCEPT ![r] = definition]
      /\ UNCHANGED <<sourceVars, storeVars, attempt, source>>
  BY DEF Load
<1>2. ~\E row \in rows : row.run = r
  BY <1>1 DEF RowInv
<1>3. loaded' \in [Runs -> [Features -> Definitions \cup {Nothing}]]
  BY <1>1 DEF TypeOK
<1>4. \A q \in Runs : q # r => attempt'[q] = attempt[q] /\ loaded'[q] = loaded[q]
  BY <1>1 DEF TypeOK
<1>5. attempt' \in [Runs -> 0..MaxAttempts]
  BY <1>1 DEF TypeOK
<1>6. CASE Raise(r)
  BY <1>1, <1>2, <1>3, <1>4, <1>5, <1>6, Raises
<1> DEFINE found == {f \in Wanted[r] : definition[f] # Nothing}
<1>7. ASSUME NEW order \in Orders(found), todo' = [todo EXCEPT ![r] = order],
             Goto(r, "fetch"), UNCHANGED <<computed, frames>>
      PROVE  IInv'
  <2>1. pc' = [pc EXCEPT ![r] = "fetch"] /\ UNCHANGED <<computed, frames>>
    BY <1>7 DEF Goto
  <2>0. order \in Seq(Features) /\ \A i \in DOMAIN order : definition[order[i]] # Nothing
    <3>1. found \in SUBSET Wanted[r]
      OBVIOUS
    <3> QED BY <1>7, <3>1, OrderIsSequence
  <2>2. /\ pc \in [Runs -> PCs] /\ loaded \in [Runs -> [Features -> Definitions \cup {Nothing}]]
        /\ todo' \in [Runs -> Seq(Features)] /\ todo'[r] = order
        /\ \A q \in Runs : q # r => todo'[q] = todo[q]
    BY <1>7, <2>0 DEF TypeOK
  <2> HIDE DEF found
  <2>3. TypeOK'
    <3>1. pc' \in [Runs -> PCs]
      BY <2>1, <2>2 DEF PCs, Active
    <3> QED BY <1>1, <1>3, <2>1, <2>2, <3>1 DEF TypeOK, sourceVars, storeVars
  <2>4. StoreInv'
    BY <1>1 DEF StoreInv, storeVars
  <2>5. RowInv'
    BY <1>1, <1>2, <2>1, <2>2 DEF RowInv, TypeOK, VersionHash, storeVars
  <2>6. \A q \in Runs : q # r => Hash(q)' = Hash(q)
    BY <1>1, <1>4, <2>2 DEF Hash, Own, Feature
  <2>7. frames[r] = <<>>
    BY <1>1 DEF RunInv
  <2>8. RunInv'
    <3> SUFFICES ASSUME NEW q \in Runs
                 PROVE  /\ pc'[q] \in {"load", "fetch"} =>
                              frames'[q] = <<>> /\ attempt'[q] < MaxAttempts
                        /\ pc'[q] \in Working \cup {"fetch"} =>
                              \A i \in DOMAIN todo'[q] : loaded'[q][todo'[q][i]] # Nothing
                        /\ pc'[q] \in Working => source'[q] \in 1..MaxSource /\ todo'[q] # <<>>
                        /\ pc'[q] \in Carrying => Matches(computed[q], Hash(q))'
                        /\ pc'[q] \in {"cache", "insert"} => (file[Hash(q)] # Nothing)'
      BY DEF RunInv
    <3>1. CASE q = r
      <4>1. pc'[q] = "fetch" /\ loaded'[q] = definition
        BY <1>1, <2>1, <2>2, <3>1
      <4> QED BY <1>1, <2>0, <2>1, <2>2, <2>7, <3>1, <4>1 DEF RunInv, Working, Carrying
    <3>2. CASE q # r
      <4>1. /\ pc'[q] = pc[q] /\ loaded'[q] = loaded[q] /\ Hash(q)' = Hash(q)
            /\ todo'[q] = todo[q]
        BY <1>4, <2>1, <2>2, <2>6, <3>2
      <4> QED BY <1>1, <2>1, <4>1 DEF RunInv, storeVars
    <3> QED BY <3>1, <3>2
  <2>9. ServesOwnVersion'
    <3> SUFFICES ASSUME NEW q \in Runs, NEW i \in DOMAIN frames[q]
                 PROVE  /\ frames[q][i].content.def = loaded'[q][frames[q][i].feature]
                        /\ frames[q][i].content.source = source[q]
      BY <1>1, <2>1 DEF ServesOwnVersion
    <3>1. q # r
      BY <2>7
    <3> QED BY <1>4, <3>1 DEF ServesOwnVersion
  <2> QED BY <2>3, <2>4, <2>5, <2>8, <2>9
<1> QED BY <1>6, <1>7 DEF Load

\* A run that has fetched knows the version it will work with.
LEMMA FetchStep ==
    ASSUME IInv, NEW r \in Runs, Fetch(r)
    PROVE  IInv'
<1> USE DEF IInv
<1> DEFINE label == IF todo[r] = <<>> THEN "joined" ELSE "compute"
<1>1. pc' = [pc EXCEPT ![r] = label] /\ pc \in [Runs -> PCs] /\ pc[r] = "fetch"
  BY DEF Fetch, Proceed, Goto, TypeOK
<1>2. source' = [source EXCEPT ![r] = upstream] /\ source \in [Runs -> 0..MaxSource]
  BY DEF Fetch, TypeOK
<1>3. upstream \in 1..MaxSource /\ upstream \in 0..MaxSource
  BY FeatureAssumption DEF TypeOK
<1>4. UNCHANGED <<loaded, todo, computed, frames>> /\ UNCHANGED <<sourceVars, storeVars>>
  BY DEF Fetch, Proceed
<1>5. attempt' = [attempt EXCEPT ![r] = 0] /\ attempt \in [Runs -> 0..MaxAttempts]
  BY DEF Fetch, TypeOK
<1>6. TypeOK'
  <2>1. attempt' \in [Runs -> 0..MaxAttempts]
    BY <1>5 DEF MaxAttempts
  <2>2. pc' \in [Runs -> PCs] /\ source' \in [Runs -> 0..MaxSource]
    BY <1>1, <1>2, <1>3 DEF PCs, Active
  <2> QED BY <2>1, <2>2, <1>4 DEF TypeOK, sourceVars, storeVars
<1>7. StoreInv'
  BY <1>4 DEF StoreInv, storeVars
<1>8. RowInv'
  BY <1>1, <1>4 DEF RowInv, VersionHash, TypeOK, storeVars
<1>9. RunInv'
  BY <1>1, <1>2, <1>3, <1>4, <1>5 DEF RunInv, storeVars, Hash, Own, Feature, Working, Carrying
<1>10. ServesOwnVersion'
  BY <1>1, <1>2, <1>4 DEF ServesOwnVersion, RunInv
<1> QED BY <1>6, <1>7, <1>8, <1>9, <1>10

\* The second failure raises.
LEMMA TimeoutStep ==
    ASSUME IInv, NEW r \in Runs, FetchTimesOut(r)
    PROVE  IInv'
<1> USE DEF IInv
<1>1. /\ attempt' = [attempt EXCEPT ![r] = @ + 1]
      /\ attempt \in [Runs -> 0..MaxAttempts]
      /\ attempt[r] < MaxAttempts /\ pc[r] = "fetch"
      /\ UNCHANGED <<sourceVars, storeVars, loaded, source>>
  BY DEF FetchTimesOut, TypeOK, RunInv
<1>2. attempt' \in [Runs -> 0..MaxAttempts]
  BY <1>1 DEF MaxAttempts
<1>3. CASE Raise(r)
  <2>1. \A q \in Runs : q # r => attempt'[q] = attempt[q] /\ loaded'[q] = loaded[q]
    BY <1>1
  <2>2. loaded' \in [Runs -> [Features -> Definitions \cup {Nothing}]]
    BY <1>1 DEF TypeOK
  <2> QED BY <1>1, <1>2, <1>3, <2>1, <2>2, Raises
<1>4. CASE Proceed(r, "fetch") /\ attempt[r] + 1 < MaxAttempts
  <2>1. pc' = [pc EXCEPT ![r] = "fetch"] /\ UNCHANGED <<computed, todo, frames>>
    BY <1>4 DEF Proceed, Goto
  <2>2. pc \in [Runs -> PCs]
    BY DEF TypeOK
  <2>3. pc' = pc
    BY <1>1, <2>1, <2>2
  <2>4. TypeOK'
    BY <1>1, <1>2, <2>1, <2>3 DEF TypeOK, sourceVars, storeVars
  <2>5. StoreInv' /\ RowInv' /\ ServesOwnVersion'
    BY <1>1, <2>1, <2>3 DEF StoreInv, RowInv, VersionHash, ServesOwnVersion, storeVars
  <2>6. \A q \in Runs : Hash(q)' = Hash(q)
    BY <1>1, <2>1 DEF Hash, Own, Feature
  <2>7. attempt'[r] < MaxAttempts /\ \A q \in Runs : q # r => attempt'[q] = attempt[q]
    BY <1>1, <1>4
  <2>8. RunInv'
    BY <1>1, <2>1, <2>3, <2>6, <2>7 DEF RunInv, storeVars
  <2> QED BY <2>4, <2>5, <2>8
<1> QED BY <1>3, <1>4 DEF FetchTimesOut

\* What a plugin computes is what the run's hash says.
LEMMA ComputeStep ==
    ASSUME IInv, NEW r \in Runs, Compute(r)
    PROVE  IInv'
<1> USE DEF IInv
<1>1. pc' = [pc EXCEPT ![r] = "find"] /\ pc \in [Runs -> PCs] /\ pc[r] = "compute"
  BY DEF Compute, Goto, TypeOK
<1>2. UNCHANGED <<sourceVars, storeVars, loaded, attempt, source, todo, frames>>
  BY DEF Compute
<1>3. PICK n \in IF Own(r) \in NewsDefs THEN 0..MaxNews ELSE {0} :
        computed' = [computed EXCEPT ![r] = [def |-> Own(r), source |-> source[r], news |-> n]]
  BY DEF Compute
<1>4. /\ Hash(r)[1] = Own(r) /\ Hash(r)[2] = source[r]
      /\ Own(r) \in Definitions /\ source[r] \in 1..MaxSource
  BY <1>1, RunHash DEF Working
<1>5. n \in 0..MaxNews
  BY <1>3, FeatureAssumption
<1> DEFINE c == [def |-> Own(r), source |-> source[r], news |-> n]
<1>6. c \in Contents /\ c.def = Hash(r)[1] /\ c.source = Hash(r)[2] /\ c.news = n
  BY <1>4, <1>5 DEF Contents
<1>7. Matches(c, Hash(r))
  BY <1>3, <1>4, <1>6 DEF Matches
<1>8. computed \in [Runs -> Contents \cup {Nothing}] /\ computed' = [computed EXCEPT ![r] = c]
  BY <1>3 DEF TypeOK
<1> HIDE DEF c
<1>9. \A q \in Runs : Hash(q)' = Hash(q)
  BY <1>2 DEF Hash, Own, Feature
<1>10. TypeOK'
  <2>1. pc' \in [Runs -> PCs] /\ computed' \in [Runs -> Contents \cup {Nothing}]
    BY <1>1, <1>6, <1>8 DEF PCs, Active
  <2> QED BY <1>2, <2>1 DEF TypeOK, sourceVars, storeVars
<1>11. StoreInv' /\ ServesOwnVersion'
  BY <1>2 DEF StoreInv, ServesOwnVersion, storeVars
<1>12. RowInv'
  BY <1>1, <1>2 DEF RowInv, VersionHash, TypeOK, storeVars
<1>13. RunInv'
  BY <1>1, <1>2, <1>7, <1>8, <1>9 DEF RunInv, storeVars, Working, Carrying
<1> QED BY <1>10, <1>11, <1>12, <1>13

\* A put leaves under the key what the key says, which for a definition without news
\* is what was there.
LEMMA PutStep ==
    ASSUME IInv, NEW r \in Runs, Put(r)
    PROVE  /\ IInv'
           /\ \A h \in Hashes : h[1] \notin NewsDefs /\ file[h] # Nothing => file'[h] = file[h]
<1> USE DEF IInv
<1>1. pc' = [pc EXCEPT ![r] = "cache"] /\ pc \in [Runs -> PCs] /\ pc[r] = "put"
  BY DEF Put, Goto, TypeOK
<1>2. UNCHANGED <<sourceVars, cache, rows, localVars>>
  BY DEF Put
<1>3. /\ file' = [file EXCEPT ![Hash(r)] = computed[r]]
      /\ file \in [Hashes -> Contents \cup {Nothing}]
      /\ Hash(r) \in Hashes
  BY <1>1, RunHash DEF Put, TypeOK, Working, Carrying
<1>4. Matches(computed[r], Hash(r)) /\ computed[r] \in Contents /\ computed[r] # Nothing
  BY <1>1, Present DEF RunInv, Carrying
<1>5. \A q \in Runs : Hash(q)' = Hash(q)
  BY <1>2 DEF Hash, Own, Feature, localVars
<1>6. TypeOK'
  <2>1. pc' \in [Runs -> PCs] /\ file' \in [Hashes -> Contents \cup {Nothing}]
    BY <1>1, <1>3, <1>4 DEF PCs, Active
  <2> QED BY <1>2, <2>1 DEF TypeOK, sourceVars, localVars
<1>7. StoreInv'
  BY <1>2, <1>3, <1>4 DEF StoreInv
<1>8. \A h \in Hashes : file[h] # Nothing => file'[h] # Nothing
  BY <1>3, <1>4
<1>9. RowInv'
  <2>1. \A row \in rows : row.hash \in Hashes /\ row.run \in Runs
    BY DEF TypeOK
  <2>2. loaded' = loaded /\ \A q \in Runs : pc'[q] = "load" => pc[q] = "load"
    BY <1>1, <1>2 DEF localVars
  <2> QED BY <1>2, <1>8, <2>1, <2>2 DEF RowInv, VersionHash
<1>10. RunInv'
  <2>1. \A q \in Runs : pc[q] \in Working => Hash(q) \in Hashes
    BY RunHash
  <2>2. file'[Hash(r)] # Nothing
    BY <1>3, <1>4
  <2>3. UNCHANGED <<loaded, attempt, source, todo, computed, frames>>
    BY <1>2 DEF localVars
  <2> QED BY <1>1, <1>5, <1>8, <2>1, <2>2, <2>3 DEF RunInv, Working, Carrying
<1>11. ServesOwnVersion'
  BY <1>2 DEF ServesOwnVersion, localVars
<1>12. ASSUME NEW h \in Hashes, h[1] \notin NewsDefs, file[h] # Nothing
       PROVE  file'[h] = file[h]
  <2>1. Matches(file[h], h)
    BY <1>12 DEF StoreInv
  <2>2. CASE h = Hash(r)
    BY <1>3, <1>4, <1>12, <2>1, <2>2, OneContent
  <2>3. CASE h # Hash(r)
    BY <1>3, <2>3
  <2> QED BY <2>2, <2>3
<1> QED BY <1>6, <1>7, <1>9, <1>10, <1>11, <1>12

\* What goes into the cache is what its hash says.
LEMMA CacheKeeps ==
    ASSUME IInv, NEW h \in Hashes, NEW c, Matches(c, h), file' = file,
           cache' = [cache EXCEPT ![h] = c] \/ cache' = cache
    PROVE  cache' \in [Hashes -> Contents \cup {Nothing}] /\ StoreInv'
<1>1. cache \in [Hashes -> Contents \cup {Nothing}] /\ c \in Contents /\ StoreInv
  BY Present DEF IInv, TypeOK
<1>2. CASE cache' = cache
  BY <1>1, <1>2 DEF StoreInv
<1>3. CASE cache' = [cache EXCEPT ![h] = c]
  BY <1>1, <1>3 DEF StoreInv
<1> QED BY <1>2, <1>3

\* The cache gets what was put, or nothing.
LEMMA CacheStep ==
    ASSUME IInv, NEW r \in Runs, CacheNew(r)
    PROVE  IInv'
<1> USE DEF IInv
<1>1. pc' = [pc EXCEPT ![r] = "insert"] /\ pc \in [Runs -> PCs] /\ pc[r] = "cache"
  BY DEF CacheNew, SetCache, Goto, TypeOK
<1>2. UNCHANGED <<sourceVars, file, rows, localVars>>
  BY DEF CacheNew, SetCache
<1>3. Matches(computed[r], Hash(r)) /\ Hash(r) \in Hashes
  BY <1>1, RunHash DEF RunInv, Working, Carrying
<1>4. cache' = [cache EXCEPT ![Hash(r)] = computed[r]] \/ cache' = cache
  BY DEF CacheNew, SetCache
<1>5. cache' \in [Hashes -> Contents \cup {Nothing}] /\ StoreInv'
  BY <1>2, <1>3, <1>4, CacheKeeps
<1>6. \A q \in Runs : Hash(q)' = Hash(q)
  BY <1>2 DEF Hash, Own, Feature, localVars
<1>7. TypeOK'
  <2>1. pc' \in [Runs -> PCs]
    BY <1>1 DEF PCs, Active
  <2> QED BY <1>2, <1>5, <2>1 DEF TypeOK, sourceVars, localVars
<1>8. ServesOwnVersion'
  BY <1>2 DEF ServesOwnVersion, localVars
<1>9. RowInv'
  BY <1>1, <1>2 DEF RowInv, VersionHash, TypeOK, localVars
<1>10. RunInv'
  BY <1>1, <1>2, <1>6 DEF RunInv, Working, Carrying, localVars
<1> QED BY <1>5, <1>7, <1>8, <1>9, <1>10

\* The file of a new row is there since the put.
LEMMA InsertStep ==
    ASSUME IInv, NEW r \in Runs, Insert(r)
    PROVE  IInv'
<1> USE DEF IInv
<1>1. pc' = [pc EXCEPT ![r] = "read"] /\ pc \in [Runs -> PCs] /\ pc[r] = "insert"
  BY DEF Insert, Goto, TypeOK
<1>2. UNCHANGED <<sourceVars, file, cache, localVars>>
  BY DEF Insert
<1> DEFINE new == [feature |-> Feature(r), hash |-> Hash(r), source |-> source[r], run |-> r]
<1>3. rows' = rows \cup {new}
  BY DEF Insert
<1>4. Feature(r) \in Features /\ Hash(r) \in Hashes /\ source[r] \in 1..MaxSource
  BY <1>1, RunHash DEF Working, Carrying
<1>5. \A q \in Runs : Hash(q)' = Hash(q)
  BY <1>2 DEF Hash, Own, Feature, localVars
<1>6. TypeOK'
  <2>1. pc' \in [Runs -> PCs]
    BY <1>1 DEF PCs, Active
  <2>2. new \in [feature : Features, hash : Hashes, source : 1..MaxSource, run : Runs]
    BY <1>4
  <2>3. rows' \subseteq [feature : Features, hash : Hashes, source : 1..MaxSource, run : Runs]
    BY <1>3, <2>2 DEF TypeOK
  <2> QED BY <1>2, <2>1, <2>3 DEF TypeOK, sourceVars, localVars
<1>7. StoreInv' /\ ServesOwnVersion'
  BY <1>2 DEF StoreInv, ServesOwnVersion, localVars
<1>8. RowInv'
  <2>1. /\ new.run = r /\ file[new.hash] # Nothing
        /\ new.hash = VersionHash(loaded[r][new.feature], new.source)
    BY <1>1 DEF RunInv, Hash, Own
  <2>2. \A row \in rows' :
           /\ row.hash = VersionHash(loaded[row.run][row.feature], row.source)
           /\ file[row.hash] # Nothing
    BY <1>3, <2>1 DEF RowInv
  <2>3. \A row \in rows' : pc'[row.run] # "load"
    BY <1>1, <1>3, <2>1 DEF RowInv, TypeOK
  <2>4. loaded' = loaded
    BY <1>2 DEF localVars
  <2> HIDE DEF new
  <2> QED BY <1>2, <2>2, <2>3, <2>4 DEF RowInv, VersionHash
<1>9. RunInv'
  BY <1>1, <1>2, <1>5 DEF RunInv, Working, Carrying, localVars
<1> QED BY <1>6, <1>7, <1>8, <1>9

\* A frame that is what the run's hash says joins the others, and the run goes on with
\* the next feature or is over.
LEMMA FrameKeeps ==
    ASSUME IInv, NEW r \in Runs, pc[r] \in Carrying, NEW c, Matches(c, Hash(r)),
           Frame(r, c), file' = file, rows' = rows,
           cache' \in [Hashes -> Contents \cup {Nothing}]
    PROVE  TypeOK' /\ RunInv' /\ RowInv' /\ ServesOwnVersion'
<1> USE DEF IInv
<1> DEFINE frame == [feature |-> Feature(r), content |-> c]
           label == IF Tail(todo[r]) = <<>> THEN "joined" ELSE "compute"
<1>1. /\ Feature(r) \in Features /\ source[r] \in 1..MaxSource
      /\ c.def = Own(r) /\ c.source = source[r] /\ c \in Contents
      /\ todo[r] \in Seq(Features) /\ todo[r] # <<>>
  BY RunHash DEF Working, Matches, RunInv, TypeOK
<1>2. /\ frames' = [frames EXCEPT ![r] = Append(frames[r], frame)]
      /\ computed' = [computed EXCEPT ![r] = Nothing]
      /\ todo' = [todo EXCEPT ![r] = Tail(todo[r])]
      /\ pc' = [pc EXCEPT ![r] = label]
      /\ UNCHANGED <<sourceVars, loaded, attempt, source>>
  BY DEF Frame, Goto
<1>3. /\ frames \in [Runs -> Seq([feature : Features, content : Contents])]
      /\ computed \in [Runs -> Contents \cup {Nothing}]
      /\ todo \in [Runs -> Seq(Features)] /\ pc \in [Runs -> PCs]
  BY DEF TypeOK
<1>4. frame \in [feature : Features, content : Contents]
  BY <1>1
<1>5. Append(frames[r], frame) \in Seq([feature : Features, content : Contents])
  <2>1. frames[r] \in Seq([feature : Features, content : Contents])
    BY <1>3
  <2> HIDE DEF frame
  <2> QED BY <1>4, <2>1
<1>6. TypeOK'
  <2>1. /\ frames' \in [Runs -> Seq([feature : Features, content : Contents])]
        /\ computed' \in [Runs -> Contents \cup {Nothing}]
        /\ pc' \in [Runs -> PCs]
    BY <1>1, <1>2, <1>3, <1>5 DEF PCs, Active
  <2>2. todo' \in [Runs -> Seq(Features)]
    BY <1>1, <1>2, <1>3
  <2> QED BY <1>2, <2>1, <2>2 DEF TypeOK, sourceVars
<1>7. \A q \in Runs : q # r => Hash(q)' = Hash(q)
  BY <1>2, <1>3 DEF Hash, Own, Feature
<1>8. RunInv'
  <2>1. label \in {"joined", "compute"} /\ (label = "compute" => Tail(todo[r]) # <<>>)
    OBVIOUS
  <2>2. \A i \in DOMAIN Tail(todo[r]) :
           i + 1 \in DOMAIN todo[r] /\ Tail(todo[r])[i] = todo[r][i + 1]
    BY <1>1
  <2>3. \A i \in DOMAIN todo[r] : loaded[r][todo[r][i]] # Nothing
    BY DEF RunInv, Working
  <2>4. \A i \in DOMAIN Tail(todo[r]) : loaded[r][Tail(todo[r])[i]] # Nothing
    BY <2>2, <2>3
  <2> HIDE DEF label, frame
  <2> SUFFICES ASSUME NEW q \in Runs
               PROVE  RunInv!(q)'
    BY DEF RunInv
  <2>5. CASE q = r
    <3>1. pc'[r] = label /\ todo'[r] = Tail(todo[r]) /\ loaded' = loaded /\ source' = source
      BY <1>2, <1>3
    <3> QED BY <1>1, <2>1, <2>4, <2>5, <3>1 DEF Working, Carrying
  <2>6. CASE q # r
    <3>1. /\ pc'[q] = pc[q] /\ todo'[q] = todo[q] /\ computed'[q] = computed[q]
          /\ frames'[q] = frames[q]
          /\ UNCHANGED <<loaded, attempt, source, file>> /\ Hash(q)' = Hash(q)
      BY <1>2, <1>3, <1>7, <2>6
    <3> QED BY <3>1 DEF RunInv, Working, Carrying
  <2> QED BY <2>5, <2>6
<1>9. RowInv'
  <2>1. \A q \in Runs : pc'[q] = "load" => pc[q] = "load"
    BY <1>2, <1>3
  <2> QED BY <1>2, <2>1 DEF RowInv, VersionHash, TypeOK
<1>10. ServesOwnVersion'
  <2> SUFFICES ASSUME NEW q \in Runs, NEW i \in DOMAIN frames'[q]
               PROVE  /\ frames'[q][i].content.def = loaded[q][frames'[q][i].feature]
                      /\ frames'[q][i].content.source = source[q]
    BY <1>2 DEF ServesOwnVersion
  <2>1. CASE q # r
    BY <1>2, <1>3, <2>1 DEF ServesOwnVersion
  <2>2. CASE q = r
    <3>1. frames'[q] = Append(frames[q], frame)
      BY <1>2, <1>3, <2>2
    <3>2. frames[q] \in Seq([feature : Features, content : Contents])
      BY <1>3
    <3>3. CASE i = Len(frames[q]) + 1
      <4>1. frames'[q][i] = frame
        BY <1>4, <3>1, <3>2, <3>3
      <4> QED BY <1>1, <2>2, <4>1 DEF Own
    <3>4. CASE i # Len(frames[q]) + 1
      <4>1. i \in DOMAIN frames[q] /\ frames'[q][i] = frames[q][i]
        BY <1>4, <3>1, <3>2, <3>4
      <4> QED BY <4>1 DEF ServesOwnVersion
    <3> QED BY <3>3, <3>4
  <2> QED BY <2>1, <2>2
<1> QED BY <1>6, <1>8, <1>9, <1>10

\* What the cache has under the hash is what the run would have computed.
LEMMA ReadStep ==
    ASSUME IInv, NEW r \in Runs, Read(r)
    PROVE  IInv'
<1>1. pc[r] = "read" /\ UNCHANGED storeVars
  BY DEF Read
<1>2. CASE cache[Hash(r)] # Nothing /\ Frame(r, cache[Hash(r)])
  <2>1. Hash(r) \in Hashes
    BY <1>1, RunHash DEF IInv, Working, Carrying
  <2>2. Matches(cache[Hash(r)], Hash(r))
    BY <1>2, <2>1 DEF IInv, StoreInv
  <2>3. file' = file /\ rows' = rows /\ cache' = cache
    BY <1>1 DEF storeVars
  <2>4. cache' \in [Hashes -> Contents \cup {Nothing}]
    BY <2>3 DEF IInv, TypeOK
  <2>5. TypeOK' /\ RunInv' /\ RowInv' /\ ServesOwnVersion'
    BY <1>1, <1>2, <2>2, <2>3, <2>4, FrameKeeps DEF Carrying
  <2>6. StoreInv'
    BY <2>3 DEF IInv, StoreInv
  <2> QED BY <2>5, <2>6 DEF IInv
<1>3. CASE Goto(r, "get") /\ UNCHANGED <<sourceVars, localVars>>
  BY <1>1, <1>3, Moves DEF Carrying
<1> QED BY <1>2, <1>3 DEF Read

\* So is what the store has.
LEMMA GetStep ==
    ASSUME IInv, NEW r \in Runs, Get(r)
    PROVE  IInv'
<1> USE DEF IInv
<1>1. /\ pc[r] = "get" /\ file[Hash(r)] # Nothing
      /\ UNCHANGED <<sourceVars, storeVars, loaded, attempt, source, todo, frames>>
  BY DEF Get
<1>2. /\ computed' = [computed EXCEPT ![r] = file[Hash(r)]]
      /\ pc' = [pc EXCEPT ![r] = "recache"]
  BY DEF Get, Goto
<1>3. Matches(file[Hash(r)], Hash(r)) /\ file[Hash(r)] \in Contents
  BY <1>1, RunHash DEF StoreInv, Working, Carrying, Matches
<1>4. pc \in [Runs -> PCs] /\ computed \in [Runs -> Contents \cup {Nothing}]
  BY DEF TypeOK
<1>5. TypeOK'
  <2>1. pc' \in [Runs -> PCs] /\ computed' \in [Runs -> Contents \cup {Nothing}]
    BY <1>2, <1>3, <1>4 DEF PCs, Active
  <2> QED BY <1>1, <2>1 DEF TypeOK, sourceVars, storeVars
<1>6. StoreInv' /\ ServesOwnVersion'
  BY <1>1 DEF StoreInv, ServesOwnVersion, storeVars
<1>7. RowInv'
  BY <1>1, <1>2, <1>4 DEF RowInv, VersionHash, TypeOK, storeVars
<1>8. \A q \in Runs : Hash(q)' = Hash(q)
  BY <1>1 DEF Hash, Own, Feature
<1>9. RunInv'
  BY <1>1, <1>2, <1>3, <1>4, <1>8 DEF RunInv, storeVars, Working, Carrying
<1> QED BY <1>5, <1>6, <1>7, <1>9

\* It goes into the cache and to the run.
LEMMA RecacheStep ==
    ASSUME IInv, NEW r \in Runs, Recache(r)
    PROVE  IInv'
<1>1. /\ pc[r] = "recache" /\ Frame(r, computed[r]) /\ file' = file /\ rows' = rows
      /\ cache' = [cache EXCEPT ![Hash(r)] = computed[r]] \/ cache' = cache
  BY DEF Recache
<1>2. Matches(computed[r], Hash(r)) /\ Hash(r) \in Hashes
  BY <1>1, RunHash DEF IInv, RunInv, Working, Carrying
<1>3. cache' \in [Hashes -> Contents \cup {Nothing}] /\ StoreInv'
  BY <1>1, <1>2, CacheKeeps
<1>4. TypeOK' /\ RunInv' /\ RowInv' /\ ServesOwnVersion'
  BY <1>1, <1>2, <1>3, FrameKeeps DEF Carrying
<1> QED BY <1>3, <1>4 DEF IInv

\* A lookup decides where the run goes on, a failure that it does not.
LEMMA FindFailStep ==
    ASSUME IInv, NEW r \in Runs, Find(r) \/ Fail(r)
    PROVE  IInv'
<1>1. UNCHANGED <<sourceVars, storeVars, loaded, attempt, source>>
  BY DEF Find, Fail
<1>2. CASE Raise(r)
  <2>1. pc[r] # "load" \/ ~\E row \in rows : row.run = r
    BY DEF IInv, RowInv
  <2>2. /\ loaded \in [Runs -> [Features -> Definitions \cup {Nothing}]]
        /\ attempt \in [Runs -> 0..MaxAttempts]
    BY DEF IInv, TypeOK
  <2> QED BY <1>1, <1>2, <2>1, <2>2, Raises
<1>3. CASE Find(r) /\ (Proceed(r, "put") \/ Proceed(r, "read"))
  <2>1. pc[r] = "find"
    BY <1>3 DEF Find
  <2>2. PICK label \in {"put", "read"} : Goto(r, label)
    BY <1>3 DEF Proceed
  <2>3. UNCHANGED <<sourceVars, storeVars, localVars>>
    BY <1>1, <1>3 DEF Proceed, localVars
  <2> QED BY <2>1, <2>2, <2>3, Moves DEF Carrying
<1> QED BY <1>2, <1>3 DEF Find, Fail

\* The market data, other requests' edits and the age of the cache's entries disturb
\* nothing.
LEMMA AroundStep ==
    ASSUME IInv, Revise \/ (\E f \in Features : Edit(f)) \/ \E h \in Hashes : Expire(h)
    PROVE  IInv'
<1>1. UNCHANGED <<file, rows, pc, localVars>>
  BY DEF Revise, Edit, Expire, storeVars
<1>2. upstream' \in 1..MaxSource /\ definition' \in [Features -> Definitions \cup {Nothing}]
  <2>1. upstream \in 1..MaxSource /\ definition \in [Features -> Definitions \cup {Nothing}]
    BY DEF IInv, TypeOK
  <2>2. CASE Revise
    BY <2>1, <2>2, FeatureAssumption DEF Revise
  <2>3. CASE \E f \in Features : Edit(f)
    BY <2>1, <2>3 DEF Edit
  <2>4. CASE \E h \in Hashes : Expire(h)
    BY <2>1, <2>4 DEF Expire, sourceVars
  <2> QED BY <2>2, <2>3, <2>4
<1>3. cache' \in [Hashes -> Contents \cup {Nothing}] /\ StoreInv'
  <2>1. cache \in [Hashes -> Contents \cup {Nothing}] /\ StoreInv
    BY DEF IInv, TypeOK
  <2>2. CASE cache' = cache
    BY <1>1, <2>1, <2>2 DEF StoreInv
  <2>3. CASE \E h \in Hashes : Expire(h)
    <3>1. PICK h \in Hashes : cache' = [cache EXCEPT ![h] = Nothing]
      BY <2>3 DEF Expire
    <3> QED BY <1>1, <2>1, <3>1 DEF StoreInv
  <2> QED BY <2>2, <2>3 DEF Revise, Edit, storeVars
<1>4. TypeOK'
  BY <1>1, <1>2, <1>3 DEF IInv, TypeOK, localVars
<1>5. \A q \in Runs : Hash(q)' = Hash(q)
  BY <1>1 DEF Hash, Own, Feature, localVars
<1>6. RowInv' /\ ServesOwnVersion'
  BY <1>1 DEF IInv, RowInv, VersionHash, ServesOwnVersion, localVars
<1>7. RunInv'
  BY <1>1, <1>5 DEF IInv, RunInv, localVars
<1> QED BY <1>3, <1>4, <1>6, <1>7 DEF IInv

\* Every step keeps the invariant.
LEMMA FeatureNext == IInv /\ [Next]_vars => IInv'
<1> SUFFICES ASSUME IInv, [Next]_vars PROVE IInv'
  OBVIOUS
<1>1. ASSUME NEW r \in Runs, Step(r) PROVE IInv'
  BY <1>1, LoadStep, FetchStep, TimeoutStep, ComputeStep, FindFailStep, PutStep, CacheStep,
     InsertStep, ReadStep, GetStep, RecacheStep DEF Step
<1>2. CASE UNCHANGED vars
  <2>1. UNCHANGED <<upstream, definition, file, cache, rows, pc>> /\ UNCHANGED localVars
    BY <1>2 DEF vars, sourceVars, storeVars
  <2>2. UNCHANGED <<loaded, attempt, source, todo, computed, frames>>
    BY <2>1 DEF localVars
  <2>3. \A q \in Runs : Hash(q)' = Hash(q)
    BY <2>2 DEF Hash, Own, Feature
  <2>4. TypeOK'
    BY <2>1, <2>2 DEF IInv, TypeOK
  <2>5. StoreInv'
    BY <2>1 DEF IInv, StoreInv
  <2>6. RowInv'
    BY <2>1, <2>2 DEF IInv, RowInv, VersionHash
  <2>7. ServesOwnVersion'
    BY <2>1, <2>2 DEF IInv, ServesOwnVersion
  <2>8. RunInv'
    BY <2>1, <2>2, <2>3 DEF IInv, RunInv
  <2> QED BY <2>4, <2>5, <2>6, <2>7, <2>8 DEF IInv
<1>3. CASE \E r \in Runs : Step(r)
  BY <1>1, <1>3
<1> QED BY <1>2, <1>3, AroundStep DEF Next

\* The invariant holds.
LEMMA FeatureInvariant == Spec => []IInv
<1> QED BY FeatureInit, FeatureNext, PTL DEF Spec

(***************************************************************************)
(* Theorems                                                                *)
(***************************************************************************)

\* Every variable keeps its type, and no fetch is tried a third time.
THEOREM FeatureTypes == Spec => []TypeOK
<1>1. IInv => TypeOK
  BY DEF IInv
<1> QED BY <1>1, FeatureInvariant, PTL

\* However runs fail and overlap, a row's file exists and is what the row says.
THEOREM RowsAreStored == Spec => []RecordedIsStored
<1>1. IInv => RecordedIsStored
  <2> SUFFICES ASSUME IInv, NEW row \in rows
               PROVE  /\ file[row.hash] # Nothing
                      /\ file[row.hash].def = loaded[row.run][row.feature]
                      /\ file[row.hash].source = row.source
    BY DEF RecordedIsStored
  <2>1. row.hash \in Hashes
    BY DEF IInv, TypeOK
  <2>2. /\ row.hash = <<loaded[row.run][row.feature], row.source>>
        /\ file[row.hash] # Nothing
    BY DEF IInv, RowInv, VersionHash
  <2>3. Matches(file[row.hash], row.hash)
    BY <2>1, <2>2 DEF IInv, StoreInv
  <2>4. row.hash[1] = loaded[row.run][row.feature] /\ row.hash[2] = row.source
    BY <2>2
  <2> QED BY <2>2, <2>3, <2>4 DEF Matches
<1> QED BY <1>1, FeatureInvariant, PTL

\* Whatever other runs leave in the cache and the store, a run is given the features
\* as defined, over the very market data it has fetched.
THEOREM RunsAreServedTheirVersion == Spec => []ServesOwnVersion
<1>1. IInv => ServesOwnVersion
  BY DEF IInv
<1> QED BY <1>1, FeatureInvariant, PTL

\* Nothing that has been put is ever changed, but for features made from news.
THEOREM HistoryIsKept == Spec => HistoryKept
<1> DEFINE Kept == \A h \in Hashes :
                      h[1] \notin NewsDefs /\ file[h] # Nothing => file'[h] = file[h]
<1>1. IInv /\ [Next]_vars => [Kept]_vars
  <2> SUFFICES ASSUME IInv, Next PROVE Kept
    OBVIOUS
  <2>1. ASSUME file' = file PROVE Kept
    BY <2>1
  <2>2. ASSUME NEW r \in Runs, Put(r) PROVE Kept
    BY <2>2, PutStep
  <2>3. ASSUME NEW r \in Runs, Step(r), ~Put(r) PROVE file' = file
    BY <2>3 DEF Step, Load, Fetch, FetchTimesOut, Compute, Find, CacheNew, SetCache, Insert,
                Read, Get, Recache, Fail, storeVars
  <2>4. ASSUME Revise \/ (\E f \in Features : Edit(f)) \/ \E h \in Hashes : Expire(h)
        PROVE  file' = file
    BY <2>4 DEF Revise, Edit, Expire, storeVars
  <2> HIDE DEF Kept
  <2> QED BY <2>1, <2>2, <2>3, <2>4 DEF Next
<1>2. Spec => [][Kept]_vars
  <2> HIDE DEF Kept
  <2> QED BY <1>1, FeatureInvariant, PTL DEF Spec
<1> QED BY <1>2 DEF HistoryKept
=============================================================================
