---------------------------- MODULE TokenProofs ----------------------------
(***************************************************************************)
(* Proofs about Token for any key ring, any supply of handles and any      *)
(* number of threads.                                                      *)
(***************************************************************************)
EXTENDS Token, TLAPS

----------------------------------------------------------------------------
\* Type correctness.

\* The calls that name a version do so from their first step on.
CallNamesVersion ==
    \A t \in Threads :
        pc[t] \in {"get_key", "create_key", "create_version", "poll", "destroy"}
            => ckv[t] \in Versions

TypeInv == TypeOK /\ CallNamesVersion

\* The RPCs of the key ring keep its type.
LEMMA CreateVersionType ==
    ASSUME KmsTypeOK, NEW v \in Versions, CreateVersion(v)
    PROVE  vstate' \in [Versions -> VersionStates] /\ generating' \subseteq Versions
BY DEF KmsTypeOK, CreateVersion, VersionStates

LEMMA FirstVersion ==
    ASSUME NEW k \in Keys
    PROVE  <<k, 1>> \in Versions
BY KmsConstants DEF Versions

LEMMA CreateCryptoKeyType ==
    ASSUME KmsTypeOK, NEW k \in Keys, NEW b \in BOOLEAN, CreateCryptoKey(k, b)
    PROVE  KmsTypeOK'
<1>1. <<k, 1>> \in Versions
  BY FirstVersion
<1>2. vstate' \in [Versions -> VersionStates] /\ generating' \subseteq Versions
  BY <1>1, CreateVersionType DEF CreateCryptoKey, KmsTypeOK
<1> QED
  BY <1>2 DEF CreateCryptoKey, KmsTypeOK

LEMMA KmsNextType ==
    ASSUME KmsTypeOK, KmsNext
    PROVE  KmsTypeOK'
<1>1. CASE \E k \in Keys, b \in BOOLEAN : CreateCryptoKey(k, b)
  BY <1>1, CreateCryptoKeyType
<1>2. ASSUME NEW v \in Versions, CreateCryptoKeyVersion(v)
      PROVE  KmsTypeOK'
  BY <1>2, CreateVersionType DEF CreateCryptoKeyVersion, KmsTypeOK
<1>3. ASSUME NEW v \in Versions, FinishGeneration(v)
      PROVE  KmsTypeOK'
  BY <1>3 DEF FinishGeneration, KmsTypeOK, VersionStates
<1>4. ASSUME NEW v \in Versions, NEW s \in {"ENABLED", "DISABLED"},
             UpdateCryptoKeyVersion(v, s)
      PROVE  KmsTypeOK'
  BY <1>4 DEF UpdateCryptoKeyVersion, KmsTypeOK, VersionStates
<1>5. ASSUME NEW v \in Versions, DestroyCryptoKeyVersion(v)
      PROVE  KmsTypeOK'
  BY <1>5 DEF DestroyCryptoKeyVersion, KmsTypeOK, VersionStates
<1> QED
  BY <1>1, <1>2, <1>3, <1>4, <1>5 DEF KmsNext

LEMMA ClassesOfType ==
    ASSUME NEW v
    PROVE  ClassesOf(v) \subseteq Classes /\ ClassesOf(v) # {}
BY DEF ClassesOf, Classes

\* What NewKeys returns: objects of v, one of each class, with handles that
\* were free and differ from one another.
LEMMA NewKeysFacts ==
    ASSUME NEW v \in Versions, NEW new \in NewKeys(v)
    PROVE  /\ new \subseteq Objects
           /\ \A o \in new : o.ckv = v /\ o.class \in ClassesOf(v)
           /\ \A o \in new : o.handle \notin allocated
           /\ \A c \in ClassesOf(v) : \E o \in new : o.class = c
           /\ \A o, p \in new : o.handle = p.handle => o = p
           /\ \A o, p \in new : o.class = p.class => o = p
           /\ new # {}
<1>1. PICK h \in [ClassesOf(v) -> Handles \ allocated] :
         /\ \A c, d \in ClassesOf(v) : h[c] = h[d] => c = d
         /\ new = {[ckv |-> v, class |-> c, handle |-> h[c]] : c \in ClassesOf(v)}
  BY DEF NewKeys
<1>2. \A o \in new : \E c \in ClassesOf(v) :
         o = [ckv |-> v, class |-> c, handle |-> h[c]]
  BY <1>1
<1>3. \A c \in ClassesOf(v) : [ckv |-> v, class |-> c, handle |-> h[c]] \in new
  BY <1>1
<1>4. new \subseteq Objects
  BY <1>1, <1>2, ClassesOfType DEF Objects
<1>5. \A c \in ClassesOf(v) : \E o \in new : o.class = c
  BY <1>3
<1>6. /\ \A o \in new : o.ckv = v /\ o.class \in ClassesOf(v)
      /\ \A o \in new : o.handle \notin allocated
      /\ \A o, p \in new : o.handle = p.handle => o = p
      /\ \A o, p \in new : o.class = p.class => o = p
  BY <1>1, <1>2
<1> QED
  BY <1>4, <1>5, <1>6, ClassesOfType

\* A step that goes on at a known step keeps the type of the call variables.
LEMMA GotoType ==
    ASSUME TypeOK, NEW t \in Threads, NEW step \in Steps, Goto(t, step)
    PROVE  /\ pc' \in [Threads -> Steps]
           /\ fn' \in [Threads -> {"none", "Refresh", "Generate", "Destroy"}]
           /\ ckv' \in [Threads -> Versions \cup {NoVersion}]
BY DEF TypeOK, Goto

LEMMA TypeInit == Init => TypeInv
BY DEF Init, KmsInit, TypeInv, TypeOK, KmsTypeOK, CallNamesVersion, Steps,
       VersionStates

LEMMA BeginType ==
    ASSUME TypeInv, NEW t \in Threads, Begin(t)
    PROVE  TypeInv'
<1> USE DEF TypeInv, TypeOK, CallNamesVersion, Enter, Steps
<1>1. CASE RefreshTick(t)
  BY <1>1 DEF RefreshTick, kmsVars, loaderVars, buildVars, KmsTypeOK
<1>2. ASSUME NEW k \in Keys, GenerateKey(t, k)
      PROVE  TypeInv'
  BY <1>2, FirstVersion DEF GenerateKey, kmsVars, loaderVars, buildVars, KmsTypeOK
<1>3. ASSUME NEW o \in objects, DestroyObject(t, o)
      PROVE  TypeInv'
  <2>1. o.ckv \in Versions
    BY DEF Objects
  <2> QED
    BY <1>3, <2>1 DEF DestroyObject, kmsVars, loaderVars, buildVars, KmsTypeOK
<1> QED
  BY <1>1, <1>2, <1>3 DEF Begin

LEMMA StepType ==
    ASSUME TypeInv, NEW t \in Threads, Step(t)
    PROVE  TypeInv'
<1> USE DEF TypeInv, kmsVars, loaderVars, buildVars, callVars
<1> DEFINE Same == UNCHANGED <<kmsVars, loaderVars, cacheMutex, objects, buildVars>>
<1>1. ASSUME NEW step \in Steps, Goto(t, step),
             step \in {"get_key", "create_key", "create_version", "poll", "destroy"}
                => ckv[t] \in Versions
      PROVE  CallNamesVersion'
  BY <1>1 DEF CallNamesVersion, Goto, TypeOK
<1>2. ASSUME NEW step \in Steps, Goto(t, step), Same,
             step \in {"get_key", "create_key", "create_version", "poll", "destroy"}
                => ckv[t] \in Versions
      PROVE  TypeInv'
  BY <1>1, <1>2, GotoType DEF TypeOK, KmsTypeOK
<1>3. CASE GetCryptoKey(t)
  <2>1. ckv[t] \in Versions
    BY <1>3 DEF GetCryptoKey, CallNamesVersion
  <2>2. PICK step \in {"create_key", "create_version", "idle"} : Goto(t, step)
    BY <1>3 DEF GetCryptoKey
  <2> QED
    BY <1>2, <1>3, <2>1, <2>2 DEF GetCryptoKey, Steps
<1>4. CASE CreateKey(t)
  <2>1. ckv[t] \in Versions /\ ckv[t][1] \in Keys
    BY <1>4 DEF CreateKey, CallNamesVersion, Versions
  <2>2. PICK step \in {"poll", "idle"} : Goto(t, step)
    BY <1>4 DEF CreateKey
  <2>3. KmsTypeOK'
    BY <1>4, <2>1, CreateCryptoKeyType DEF CreateKey, TypeOK, KmsTypeOK
  <2> QED
    BY <1>1, <1>4, <2>1, <2>2, <2>3, GotoType DEF CreateKey, Steps, TypeOK
<1>5. CASE CreateKeyVersion(t)
  <2>1. PICK v \in Versions :
           /\ CreateCryptoKeyVersion(v)
           /\ \/ /\ pc' = [pc EXCEPT ![t] = IF vstate'[v] = "PENDING_GENERATION"
                                               THEN "poll" ELSE "lock"]
                 /\ ckv' = [ckv EXCEPT ![t] = v]
                 /\ UNCHANGED fn
              \/ Goto(t, "idle")
    BY <1>5 DEF CreateKeyVersion
  <2>2. KmsTypeOK'
    BY <2>1, CreateVersionType DEF CreateCryptoKeyVersion, TypeOK, KmsTypeOK
  <2>3. CASE Goto(t, "idle")
    BY <1>1, <1>5, <2>2, <2>3, GotoType DEF CreateKeyVersion, Steps, TypeOK
  <2>4. CASE ~Goto(t, "idle")
    BY <1>5, <2>1, <2>2, <2>4 DEF CreateKeyVersion, Steps, TypeOK, CallNamesVersion
  <2> QED
    BY <2>3, <2>4
<1>6. CASE WaitForGeneration(t)
  <2>1. ckv[t] \in Versions
    BY <1>6 DEF WaitForGeneration, CallNamesVersion
  <2> QED
    BY <1>2, <1>6, <2>1 DEF WaitForGeneration, Steps
<1>7. CASE DestroyVersion(t)
  <2>1. ckv[t] \in Versions
    BY <1>7 DEF DestroyVersion, CallNamesVersion
  <2>2. PICK step \in {"lock", "idle"} : Goto(t, step)
    BY <1>7 DEF DestroyVersion
  <2>3. KmsTypeOK'
    BY <1>7, <2>1 DEF DestroyVersion, DestroyCryptoKeyVersion, TypeOK, KmsTypeOK,
                      VersionStates
  <2> QED
    BY <1>1, <1>7, <2>2, <2>3, GotoType DEF DestroyVersion, Steps, TypeOK
<1>8. CASE CallError(t)
  BY <1>2, <1>8 DEF CallError, Steps
<1>9. CASE LockCache(t)
  <2>1. Goto(t, "list_keys")
    BY <1>9 DEF LockCache
  <2> QED
    BY <1>1, <1>9, <2>1, GotoType DEF LockCache, Steps, TypeOK, KmsTypeOK
<1>10. CASE ListKeys(t)
  <2>1. Goto(t, "load")
    BY <1>10 DEF ListKeys
  <2> QED
    BY <1>1, <1>10, <2>1, GotoType
    DEF ListKeys, Steps, TypeOK, KmsTypeOK, ListCryptoKeysResponse
<1>11. ASSUME NEW k \in Keys, ListVersions(t, k)
       PROVE  TypeInv'
  BY <1>11 DEF ListVersions, TypeOK, KmsTypeOK, ListCryptoKeyVersionsResponse,
               CallNamesVersion
<1>12. ASSUME NEW v \in Versions, LoadCached(t, v)
       PROVE  TypeInv'
  BY <1>12 DEF LoadCached, AddKey, CacheGet, TypeOK, KmsTypeOK, CallNamesVersion
<1>13. ASSUME NEW v \in Versions, LoadNew(t, v)
       PROVE  TypeInv'
  <2>1. PICK new \in NewKeys(v) : CacheStore(v, new) /\ AddKey(t, v, new)
    BY <1>13 DEF LoadNew
  <2>2. new \subseteq Objects
    BY NewKeysFacts
  <2>3. HandlesOf(new) \subseteq Handles
    BY <2>2 DEF HandlesOf, Objects
  <2> QED
    BY <2>1, <2>2, <2>3 DEF CacheStore, AddKey, TypeOK, KmsTypeOK, CallNamesVersion
<1>14. CASE FinishBuild(t)
  <2>1. Goto(t, "swap")
    BY <1>14 DEF FinishBuild
  <2> QED
    BY <1>1, <1>14, <2>1, GotoType DEF FinishBuild, EvictUnused, Steps, TypeOK,
                                       KmsTypeOK
<1>15. CASE BuildError(t)
  <2>1. Goto(t, "idle")
    BY <1>15 DEF BuildError
  <2> QED
    BY <1>1, <1>15, <2>1, GotoType DEF BuildError, Steps, TypeOK, KmsTypeOK
<1>16. CASE SwapStore(t)
  <2>1. PICK step \in {"idle", "find_secret", "find_public"} : Goto(t, step)
    BY <1>16 DEF SwapStore, AfterRefresh
  <2> QED
    BY <1>1, <1>16, <2>1, GotoType DEF SwapStore, Steps, TypeOK, KmsTypeOK
<1>17. CASE FindObject(t)
  <2>1. PICK step \in {"idle", "find_private"} : Goto(t, step)
    BY <1>17 DEF FindObject, FindSingle
  <2> QED
    BY <1>2, <1>17, <2>1 DEF FindObject, FindSingle, Steps
<1> QED
  BY <1>3, <1>4, <1>5, <1>6, <1>7, <1>8, <1>9, <1>10, <1>11, <1>12, <1>13,
     <1>14, <1>15, <1>16, <1>17 DEF Step

LEMMA TypeStep == TypeInv /\ [Next]_vars => TypeInv'
<1> SUFFICES ASSUME TypeInv, [Next]_vars
             PROVE  TypeInv'
  OBVIOUS
<1>1. CASE OthersStep
  BY <1>1, KmsNextType DEF OthersStep, TypeInv, TypeOK, CallNamesVersion,
                           loaderVars, callVars, buildVars
<1>2. ASSUME NEW t \in Threads, Begin(t)
      PROVE  TypeInv'
  BY <1>2, BeginType
<1>3. ASSUME NEW t \in Threads, Step(t)
      PROVE  TypeInv'
  BY <1>3, StepType
<1>4. CASE UNCHANGED vars
  BY <1>4 DEF vars, kmsVars, loaderVars, callVars, buildVars, TypeInv, TypeOK,
              KmsTypeOK, CallNamesVersion
<1> QED
  BY <1>1, <1>2, <1>3, <1>4 DEF Next

\* Every variable of the loader, the token and its callers keeps its type.
THEOREM TypeCorrect == Spec => []TypeOK
<1>1. TypeInv => TypeOK
  BY DEF TypeInv
<1> QED
  BY TypeInit, TypeStep, <1>1, PTL DEF Spec

----------------------------------------------------------------------------
\* The handles of the loader, the states it builds and the published store.

\* Handles identify objects and every version is there as a whole.
GoodStore(S) == ObjectStoreNewOk(S) /\ WholeKeys(S)

\* What a thread has built: under cache_mutex_, whole keys of the cache; after
\* it, a copy that no longer depends on the cache.
BuildOk(t) ==
    /\ pc[t] \in {"list_keys", "load"} => cacheMutex = t
    /\ pc[t] = "load" =>
         result[t] = {o \in cache : o.ckv \in VersionsOf(result[t])}
    /\ pc[t] = "swap" => GoodStore(result[t])
    /\ pc[t] \notin {"load", "swap"} => result[t] = {}

LoaderInv ==
    /\ HandleAccounting
    /\ WholeKeys(cache)
    /\ GoodStore(objects)
    /\ \A t \in Threads : BuildOk(t)

LEMMA LoaderInit == Init => LoaderInv
BY DEF Init, LoaderInv, HandleAccounting, HandlesOf, WholeKeys, GoodStore,
       ObjectStoreNewOk, BuildOk

\* What the invariant says of cache, allocated and objects alone.
LEMMA LoaderFrame ==
    ASSUME LoaderInv, UNCHANGED <<cache, allocated, objects>>
    PROVE  HandleAccounting' /\ WholeKeys(cache)' /\ GoodStore(objects)'
<1>1. HandleAccounting'
  BY DEF LoaderInv, HandleAccounting
<1>2. WholeKeys(cache)'
  BY DEF LoaderInv, WholeKeys
<1>3. GoodStore(objects)'
  BY DEF LoaderInv, GoodStore, ObjectStoreNewOk, WholeKeys
<1> QED
  BY <1>1, <1>2, <1>3

\* Part of a cache that is closed under versions is a good store.
LEMMA GoodPart ==
    ASSUME HandleAccounting, WholeKeys(cache), NEW V
    PROVE  GoodStore({o \in cache : o.ckv \in V})
BY DEF HandleAccounting, WholeKeys, GoodStore, ObjectStoreNewOk

\* The thread in the critical section is the only one that builds.
LEMMA OtherBuilds ==
    ASSUME LoaderInv, NEW t \in Threads, NEW u \in Threads, u # t,
           pc[t] \in {"list_keys", "load"}
    PROVE  pc[u] \notin {"list_keys", "load"}
BY DEF LoaderInv, BuildOk

\* A thread that stands still keeps BuildOk if it is outside BuildState.
LEMMA OtherBuildOk ==
    ASSUME NEW u \in Threads, BuildOk(u), pc'[u] = pc[u], result'[u] = result[u],
           pc[u] \notin {"list_keys", "load"} \/ UNCHANGED <<cache, cacheMutex>>
    PROVE  BuildOk(u)'
BY DEF BuildOk, VersionsOf, GoodStore, ObjectStoreNewOk, WholeKeys

LEMMA LoadNewInv ==
    ASSUME TypeOK, LoaderInv, NEW t \in Threads, NEW v \in Versions, LoadNew(t, v)
    PROVE  LoaderInv'
<1>1. PICK new \in NewKeys(v) : CacheStore(v, new) /\ AddKey(t, v, new)
  BY DEF LoadNew
<1>2. cache' = cache \cup new /\ \A o \in cache : o.ckv # v
  BY <1>1 DEF LoadNew, CacheGet, CacheStore
<1>3. allocated' = allocated \cup HandlesOf(new)
  BY <1>1 DEF CacheStore
<1>4. HandleAccounting'
  BY <1>2, <1>3, NewKeysFacts DEF LoaderInv, HandleAccounting, HandlesOf
<1>5. WholeKeys(cache)'
  BY <1>2, NewKeysFacts DEF LoaderInv, WholeKeys
<1>6. pc' = pc /\ cacheMutex' = cacheMutex /\ objects' = objects
      /\ result' = [result EXCEPT ![t] = @ \cup new]
  BY <1>1 DEF AddKey
<1>7. BuildOk(t)'
  <2>1. result'[t] = result[t] \cup new
    BY <1>6 DEF TypeOK
  <2>2. VersionsOf(result'[t]) = VersionsOf(result[t]) \cup {v}
    BY <2>1, NewKeysFacts DEF VersionsOf
  <2>3. result[t] = {o \in cache : o.ckv \in VersionsOf(result[t])}
    BY DEF LoadNew, LoaderInv, BuildOk
  <2>4. result'[t] = {o \in cache' : o.ckv \in VersionsOf(result'[t])}
    <3>1. \A o \in cache : o.ckv \in VersionsOf(result[t]) \cup {v}
                             <=> o.ckv \in VersionsOf(result[t])
      BY <1>2
    <3>2. \A o \in new : o.ckv = v
      BY NewKeysFacts
    <3> HIDE DEF VersionsOf
    <3> QED
      BY <1>2, <2>1, <2>2, <2>3, <3>1, <3>2
  <2>5. pc[t] = "load" /\ cacheMutex = t
    BY DEF LoadNew, LoaderInv, BuildOk
  <2> QED
    BY <1>6, <2>4, <2>5 DEF BuildOk, VersionsOf
<1>8. ASSUME NEW u \in Threads, u # t
      PROVE  BuildOk(u)'
  <2>1. pc[u] \notin {"list_keys", "load"}
    BY OtherBuilds, <1>8 DEF LoadNew
  <2>2. result'[u] = result[u]
    BY <1>6, <1>8 DEF TypeOK
  <2> QED
    BY <1>6, <2>1, <2>2, OtherBuildOk DEF LoaderInv
<1> QED
  BY <1>4, <1>5, <1>6, <1>7, <1>8 DEF LoaderInv, GoodStore, ObjectStoreNewOk,
                                       WholeKeys

LEMMA LoadCachedInv ==
    ASSUME TypeOK, LoaderInv, NEW t \in Threads, NEW v \in Versions, LoadCached(t, v)
    PROVE  LoaderInv'
<1>1. /\ cache' = cache /\ allocated' = allocated /\ pc' = pc
      /\ cacheMutex' = cacheMutex /\ objects' = objects
      /\ result' = [result EXCEPT ![t] = @ \cup CacheGet(v)]
  BY DEF LoadCached, AddKey, loaderVars
<1>2. BuildOk(t)'
  <2>1. result'[t] = result[t] \cup CacheGet(v)
    BY <1>1 DEF TypeOK
  <2>2. VersionsOf(result'[t]) = VersionsOf(result[t]) \cup {v}
    BY <2>1 DEF LoadCached, VersionsOf, CacheGet
  <2>3. result[t] = {o \in cache : o.ckv \in VersionsOf(result[t])}
    BY DEF LoadCached, LoaderInv, BuildOk
  <2>4. result'[t] = {o \in cache : o.ckv \in VersionsOf(result'[t])}
    BY <2>1, <2>2, <2>3 DEF CacheGet
  <2>5. pc[t] = "load" /\ cacheMutex = t
    BY DEF LoadCached, LoaderInv, BuildOk
  <2> QED
    BY <1>1, <2>4, <2>5 DEF BuildOk, VersionsOf
<1>3. ASSUME NEW u \in Threads, u # t
      PROVE  BuildOk(u)'
  BY <1>1, <1>3, OtherBuildOk DEF LoaderInv, TypeOK
<1> QED
  BY <1>1, <1>2, <1>3, LoaderFrame DEF LoaderInv

\* A completed build evicts down to exactly what it returns.
LEMMA FinishBuildCache ==
    ASSUME TypeOK, LoaderInv, NEW t \in Threads, FinishBuild(t)
    PROVE  cache' = result[t] /\ result' = result /\ GoodStore(result[t])
<1>1. result[t] = {o \in cache : o.ckv \in VersionsOf(result[t])}
  BY DEF FinishBuild, LoaderInv, BuildOk
<1>2. cache' = {o \in cache : o.ckv \in VersionsOf(result[t])}
  BY DEF FinishBuild, EvictUnused
<1>3. GoodStore({o \in cache : o.ckv \in VersionsOf(result[t])})
  BY GoodPart DEF LoaderInv
<1> QED
  BY <1>1, <1>2, <1>3 DEF FinishBuild, buildVars

LEMMA FinishBuildInv ==
    ASSUME TypeOK, LoaderInv, NEW t \in Threads, FinishBuild(t)
    PROVE  LoaderInv'
<1>1. cache' = result[t] /\ result' = result /\ GoodStore(result[t])
  BY FinishBuildCache
<1>2. result[t] \subseteq cache
  BY DEF FinishBuild, LoaderInv, BuildOk
<1>3. HandleAccounting'
  <2>1. allocated' = allocated \ HandlesOf(cache \ result[t])
    BY <1>1 DEF FinishBuild, EvictUnused
  <2>2. allocated' = HandlesOf(result[t])
    BY <1>2, <2>1 DEF LoaderInv, HandleAccounting, HandlesOf
  <2> QED
    BY <1>1, <1>2, <2>2 DEF LoaderInv, HandleAccounting, HandlesOf
<1>4. WholeKeys(cache)'
  BY <1>1 DEF GoodStore, WholeKeys
<1>5. GoodStore(objects)'
  BY DEF FinishBuild, LoaderInv, GoodStore, ObjectStoreNewOk, WholeKeys
<1>6. pc' = [pc EXCEPT ![t] = "swap"]
  BY DEF FinishBuild, Goto
<1>7. BuildOk(t)'
  BY <1>1, <1>6 DEF BuildOk, TypeOK, GoodStore, ObjectStoreNewOk, WholeKeys
<1>8. ASSUME NEW u \in Threads, u # t
      PROVE  BuildOk(u)'
  <2>1. pc[u] \notin {"list_keys", "load"}
    BY OtherBuilds, <1>8 DEF FinishBuild
  <2> QED
    BY <1>1, <1>6, <1>8, <2>1, OtherBuildOk DEF LoaderInv, TypeOK
<1> QED
  BY <1>3, <1>4, <1>5, <1>7, <1>8 DEF LoaderInv

LEMMA SwapStoreInv ==
    ASSUME TypeOK, LoaderInv, NEW t \in Threads, SwapStore(t)
    PROVE  LoaderInv' /\ objects' = result[t]
<1>1. GoodStore(result[t])
  BY DEF SwapStore, LoaderInv, BuildOk
<1>2. PICK step \in {"idle", "find_secret", "find_public"} :
         pc' = [pc EXCEPT ![t] = step]
  BY DEF SwapStore, AfterRefresh, Goto
<1>3. /\ objects' = result[t] /\ cache' = cache /\ allocated' = allocated
      /\ cacheMutex' = cacheMutex /\ result' = [result EXCEPT ![t] = {}]
  BY <1>1 DEF SwapStore, GoodStore, loaderVars
<1>4. BuildOk(t)'
  BY <1>2, <1>3 DEF BuildOk, TypeOK
<1>5. ASSUME NEW u \in Threads, u # t
      PROVE  BuildOk(u)'
  BY <1>2, <1>3, <1>5, OtherBuildOk DEF LoaderInv, TypeOK
<1>6. HandleAccounting' /\ WholeKeys(cache)'
  BY <1>3 DEF LoaderInv, HandleAccounting, WholeKeys
<1>7. GoodStore(objects)'
  BY <1>1, <1>3 DEF GoodStore, ObjectStoreNewOk, WholeKeys
<1> QED
  BY <1>3, <1>4, <1>5, <1>6, <1>7 DEF LoaderInv

\* The steps outside BuildState that leave the loader and the store alone.
LEMMA QuietStep ==
    ASSUME TypeOK, LoaderInv, NEW t \in Threads, NEW step,
           pc' = [pc EXCEPT ![t] = step],
           pc[t] \notin {"list_keys", "load", "swap"},
           step \notin {"list_keys", "load", "swap"},
           UNCHANGED <<cache, allocated, cacheMutex, objects, result>>
    PROVE  LoaderInv'
<1>1. BuildOk(t)'
  BY DEF LoaderInv, BuildOk, TypeOK
<1>2. ASSUME NEW u \in Threads, u # t
      PROVE  BuildOk(u)'
  BY <1>2, OtherBuildOk DEF LoaderInv, TypeOK
<1> QED
  BY <1>1, <1>2, LoaderFrame DEF LoaderInv

LEMMA LoaderStep == TypeInv /\ LoaderInv /\ [Next]_vars => LoaderInv'
<1> SUFFICES ASSUME TypeInv, LoaderInv, [Next]_vars
             PROVE  LoaderInv'
  OBVIOUS
<1> USE DEF TypeInv
<1>1. ASSUME UNCHANGED <<loaderVars, cacheMutex, objects, pc, buildVars>>
      PROVE  LoaderInv'
  <2>1. HandleAccounting' /\ WholeKeys(cache)' /\ GoodStore(objects)'
    BY <1>1, LoaderFrame DEF loaderVars
  <2>2. \A u \in Threads : BuildOk(u)'
    BY <1>1, OtherBuildOk DEF LoaderInv, loaderVars, buildVars
  <2> QED
    BY <2>1, <2>2 DEF LoaderInv
<1>2. ASSUME NEW t \in Threads, Begin(t)
      PROVE  LoaderInv'
  <2>1. PICK step \in {"lock", "get_key", "create_key", "destroy"} :
           pc' = [pc EXCEPT ![t] = step]
    BY <1>2 DEF Begin, RefreshTick, GenerateKey, DestroyObject, Enter
  <2>2. pc[t] = "idle"
    BY <1>2 DEF Begin, RefreshTick, GenerateKey, DestroyObject, Enter
  <2>3. UNCHANGED <<cache, allocated, cacheMutex, objects, result>>
    BY <1>2 DEF Begin, RefreshTick, GenerateKey, DestroyObject, loaderVars, buildVars
  <2> QED
    BY <2>1, <2>2, <2>3, QuietStep
<1>3. ASSUME NEW t \in Threads, Step(t)
      PROVE  LoaderInv'
  <2>1. CASE \/ GetCryptoKey(t) \/ CreateKey(t) \/ CreateKeyVersion(t)
             \/ WaitForGeneration(t) \/ DestroyVersion(t) \/ CallError(t)
             \/ FindObject(t)
    <3> DEFINE Outside == {"idle", "get_key", "create_key", "create_version",
                           "poll", "destroy", "lock", "find_public",
                           "find_private", "find_secret"}
    <3>1. pc[t] \in Outside
      BY <2>1 DEF GetCryptoKey, CreateKey, CreateKeyVersion, WaitForGeneration,
                  DestroyVersion, CallError, FindObject, FindSingle
    <3>2. PICK step \in Outside : pc' = [pc EXCEPT ![t] = step]
      BY <2>1 DEF GetCryptoKey, CreateKey, CreateKeyVersion, WaitForGeneration,
                  DestroyVersion, CallError, FindObject, FindSingle, Goto
    <3>3. UNCHANGED <<cache, allocated, cacheMutex, objects, result>>
      BY <2>1 DEF GetCryptoKey, CreateKey, CreateKeyVersion, WaitForGeneration,
                  DestroyVersion, CallError, FindObject, FindSingle, loaderVars,
                  buildVars
    <3> QED
      BY <3>1, <3>2, <3>3, QuietStep
  <2>2. CASE LockCache(t)
    <3>1. /\ pc' = [pc EXCEPT ![t] = "list_keys"] /\ cacheMutex' = t
          /\ UNCHANGED <<cache, allocated, objects, result>>
      BY SMTT(20), <2>2 DEF LockCache, Goto, loaderVars, buildVars
    <3>2. \A u \in Threads : pc[u] \notin {"list_keys", "load"}
      BY <2>2, TokenConstants DEF LockCache, LoaderInv, BuildOk, Threads
    <3>3. BuildOk(t)'
      BY <2>2, <3>1 DEF LockCache, LoaderInv, BuildOk, TypeOK
    <3>4. ASSUME NEW u \in Threads, u # t
          PROVE  BuildOk(u)'
      BY <3>1, <3>2, <3>4, OtherBuildOk DEF LoaderInv, TypeOK
    <3>5. HandleAccounting' /\ WholeKeys(cache)' /\ GoodStore(objects)'
      BY <3>1, LoaderFrame
    <3>6. \A u \in Threads : BuildOk(u)'
      BY <3>3, <3>4
    <3> QED
      BY <3>5, <3>6 DEF LoaderInv
  <2>3. CASE ListKeys(t)
    <3>1. /\ pc' = [pc EXCEPT ![t] = "load"] /\ pc[t] = "list_keys"
          /\ UNCHANGED <<cache, allocated, cacheMutex, objects, result>>
      BY <2>3 DEF ListKeys, Goto, loaderVars
    <3>2. BuildOk(t)'
      BY <3>1 DEF LoaderInv, BuildOk, TypeOK, VersionsOf
    <3>3. ASSUME NEW u \in Threads, u # t
          PROVE  BuildOk(u)'
      BY <3>1, <3>3, OtherBuildOk DEF LoaderInv, TypeOK
    <3>5. HandleAccounting' /\ WholeKeys(cache)' /\ GoodStore(objects)'
      BY <3>1, LoaderFrame
    <3>6. \A u \in Threads : BuildOk(u)'
      BY <3>2, <3>3
    <3> QED
      BY <3>5, <3>6 DEF LoaderInv
  <2>4. ASSUME NEW k \in Keys, ListVersions(t, k)
        PROVE  LoaderInv'
    <3>1. HandleAccounting' /\ WholeKeys(cache)' /\ GoodStore(objects)'
      BY <2>4, LoaderFrame DEF ListVersions, loaderVars
    <3>2. \A u \in Threads : BuildOk(u)'
      BY <2>4, OtherBuildOk DEF ListVersions, LoaderInv, loaderVars
    <3> QED
      BY <3>1, <3>2 DEF LoaderInv
  <2>5. ASSUME NEW v \in Versions, LoadCached(t, v)
        PROVE  LoaderInv'
    BY <2>5, LoadCachedInv
  <2>6. ASSUME NEW v \in Versions, LoadNew(t, v)
        PROVE  LoaderInv'
    BY <2>6, LoadNewInv
  <2>7. CASE FinishBuild(t)
    BY <2>7, FinishBuildInv
  <2>8. CASE BuildError(t)
    <3>1. /\ pc' = [pc EXCEPT ![t] = "idle"]
          /\ result' = [result EXCEPT ![t] = {}]
          /\ UNCHANGED <<cache, allocated, objects>>
      BY <2>8 DEF BuildError, Goto, loaderVars
    <3>2. BuildOk(t)'
      BY <3>1 DEF BuildOk, TypeOK
    <3>3. ASSUME NEW u \in Threads, u # t
          PROVE  BuildOk(u)'
      <4>1. pc[u] \notin {"list_keys", "load"}
        BY <2>8, <3>3, OtherBuilds DEF BuildError, AtBuildRpc
      <4> QED
        BY <3>1, <3>3, <4>1, OtherBuildOk DEF LoaderInv, TypeOK
    <3>5. HandleAccounting' /\ WholeKeys(cache)' /\ GoodStore(objects)'
      BY <3>1, LoaderFrame
    <3>6. \A u \in Threads : BuildOk(u)'
      BY <3>2, <3>3
    <3> QED
      BY <3>5, <3>6 DEF LoaderInv
  <2>9. CASE SwapStore(t)
    BY <2>9, SwapStoreInv
  <2> QED
    BY <1>3, <2>1, <2>2, <2>3, <2>4, <2>5, <2>6, <2>7, <2>8, <2>9 DEF Step
<1> QED
  BY <1>1, <1>2, <1>3 DEF Next, OthersStep, vars

\* The conjunction of both is the inductive invariant of Token.
LEMMA TokenInvariant == Spec => [](TypeInv /\ LoaderInv)
BY TypeInit, TypeStep, LoaderInit, LoaderStep, PTL DEF Spec

\* Handles are neither leaked nor handed out twice, whatever builds fail.
THEOREM HandlesAccounted == Spec => []HandleAccounting
<1>1. LoaderInv => HandleAccounting
  BY DEF LoaderInv
<1> QED
  BY TokenInvariant, <1>1, PTL

\* The published store is always well formed, for any number of threads that
\* replace it.
THEOREM StoreAlwaysWellFormed == Spec => []StoreWellFormed
<1>1. LoaderInv => StoreWellFormed
  BY DEF LoaderInv, GoodStore, StoreWellFormed
<1> QED
  BY TokenInvariant, <1>1, PTL

\* ObjectStore::New never meets a duplicate handle.
THEOREM DuplicateHandleUnreachable == Spec => []NoDuplicateHandle
<1>1. LoaderInv => NoDuplicateHandle
  BY DEF LoaderInv, BuildOk, GoodStore, NoDuplicateHandle
<1> QED
  BY TokenInvariant, <1>1, PTL

\* BuildState is exclusive, and its work is in the cache.
THEOREM BuildExclusive == Spec => []BuildInMutex
<1>1. LoaderInv => BuildInMutex
  BY DEF LoaderInv, BuildOk, BuildInMutex
<1> QED
  BY TokenInvariant, <1>1, PTL

\* Only storing a new key and evicting change the cache.
LEMMA CacheChange ==
    ASSUME [Next]_vars, cache' # cache
    PROVE  \E t \in Threads : FinishBuild(t) \/ \E v \in Versions : LoadNew(t, v)
<1>1. ASSUME NEW t \in Threads, Begin(t)
      PROVE  FALSE
  BY <1>1 DEF Begin, RefreshTick, GenerateKey, DestroyObject, loaderVars
<1>2. ASSUME NEW t \in Threads, Step(t)
      PROVE  FinishBuild(t) \/ \E v \in Versions : LoadNew(t, v)
  BY <1>2 DEF Step, GetCryptoKey, CreateKey, CreateKeyVersion, WaitForGeneration,
              DestroyVersion, CallError, LockCache, ListKeys, ListVersions,
              LoadCached, BuildError, SwapStore, FindObject, FindSingle, loaderVars
<1> QED
  BY <1>1, <1>2 DEF Next, OthersStep, vars, loaderVars

\* The handles of a cached version never change.
THEOREM HandlesStable == Spec => StableHandles
<1>1. TypeInv /\ LoaderInv /\ [Next]_vars => [SameHandles]_vars
  <2> SUFFICES ASSUME TypeInv, LoaderInv, [Next]_vars
               PROVE  SameHandles
    OBVIOUS
  <2>1. CASE cache' = cache
    BY <2>1 DEF SameHandles, LoaderInv, WholeKeys
  <2>2. ASSUME NEW t \in Threads, FinishBuild(t)
        PROVE  SameHandles
    BY <2>2 DEF FinishBuild, EvictUnused, SameHandles, LoaderInv, WholeKeys
  <2>3. ASSUME NEW t \in Threads, NEW v \in Versions, LoadNew(t, v)
        PROVE  SameHandles
    <3>1. PICK new \in NewKeys(v) : CacheStore(v, new)
      BY <2>3 DEF LoadNew
    <3>2. cache' = cache \cup new /\ \A o \in cache : o.ckv # v
      BY <2>3, <3>1 DEF LoadNew, CacheGet, CacheStore
    <3>3. \A o \in new : o.ckv = v
      BY NewKeysFacts
    <3> QED
      BY <3>2, <3>3 DEF SameHandles, LoaderInv, WholeKeys
  <2> QED
    BY <2>1, <2>2, <2>3, CacheChange
<1> QED
  BY TokenInvariant, <1>1, PTL DEF Spec, StableHandles

\* A successful build leaves in the cache exactly what it returns.
THEOREM EvictionIsExact == Spec => EvictionExact
<1>1. TypeInv /\ LoaderInv /\ [Next]_vars => [EvictsToResult]_vars
  <2> SUFFICES ASSUME TypeInv, LoaderInv, [Next]_vars, NEW t \in Threads,
                      pc[t] = "load", pc'[t] = "swap"
               PROVE  cache' = result[t]
    BY DEF EvictsToResult
  <2>1. FinishBuild(t)
    <3>1. ASSUME NEW u \in Threads, Begin(u)
          PROVE  FALSE
      BY SMTT(20), <3>1 DEF Begin, RefreshTick, GenerateKey, DestroyObject, Enter, TypeInv, TypeOK
    <3>2. ASSUME NEW u \in Threads, Step(u), ~FinishBuild(u)
          PROVE  FALSE
      BY <3>2 DEF Step, GetCryptoKey, CreateKey, CreateKeyVersion, WaitForGeneration,
                  DestroyVersion, CallError, LockCache, ListKeys, ListVersions, AddKey,
                  LoadCached, LoadNew, BuildError, SwapStore, AfterRefresh, FindObject,
                  FindSingle, Goto, TypeInv, TypeOK
    <3>3. ASSUME NEW u \in Threads, FinishBuild(u)
          PROVE  u = t
      BY <3>3 DEF FinishBuild, Goto, TypeInv, TypeOK
    <3> QED
      BY <3>1, <3>2, <3>3 DEF Next, OthersStep, vars
  <2> QED
    BY <2>1, FinishBuildCache DEF TypeInv
<1> QED
  BY TokenInvariant, <1>1, PTL DEF Spec, EvictionExact
============================================================================
