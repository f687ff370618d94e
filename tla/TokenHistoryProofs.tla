------------------------- MODULE TokenHistoryProofs ------------------------
(***************************************************************************)
(* Token with its history implements TokenView, for any key ring and any   *)
(* number of threads.                                                      *)
(***************************************************************************)
EXTENDS TokenHistory, TokenProofs

\* A version that exists, or is being generated, belongs to a key that exists.
VersionsHaveKeys ==
    \A v \in Versions : vstate[v] # "ABSENT" \/ v \in generating => v[1] \in cryptoKeys

\* The history of a refresh encloses what is available now.
Encloses(t) ==
    IF Refreshing(pc[t]) THEN always[t] \subseteq Available /\ Available \subseteq ever[t]
                         ELSE always[t] = {} /\ ever[t] = {}

\* How far a build has got: what it has found was available at some time, and
\* what has been available all the time is found, listed or yet to be listed.
Progress(t) ==
    /\ pc[t] = "load" =>
         /\ \A k \in keysLeft[t] : IsLoadableKey(k)
         /\ versLeft[t] \subseteq ever[t]
         /\ VersionsOf(result[t]) \subseteq ever[t]
         /\ \A v \in always[t] : \/ v \in VersionsOf(result[t])
                                 \/ v \in versLeft[t]
                                 \/ v[1] \in keysLeft[t]
    /\ pc[t] = "swap" =>
         /\ always[t] \subseteq VersionsOf(result[t])
         /\ VersionsOf(result[t]) \subseteq ever[t]
    /\ pc[t] # "load" => versLeft[t] = {} /\ keysLeft[t] = {}

HistoryInv ==
    /\ HistoryTypeOK
    /\ VersionsHaveKeys
    /\ \A t \in Threads : Encloses(t) /\ Progress(t)

HInv == TypeInv /\ LoaderInv /\ HistoryInv

LEMMA HistoryInit == HInit => HInv
<1> SUFFICES ASSUME HInit
             PROVE  HInv
  OBVIOUS
<1>1. TypeInv /\ LoaderInv
  BY TypeInit, LoaderInit DEF HInit
<1>2. HistoryTypeOK /\ VersionsHaveKeys
  BY DEF HInit, Init, KmsInit, HistoryTypeOK, VersionsHaveKeys
<1>3. \A t \in Threads : Encloses(t) /\ Progress(t)
  BY DEF HInit, Init, Encloses, Progress, Refreshing
<1> QED
  BY <1>1, <1>2, <1>3 DEF HInv, HistoryInv

LEMMA AvailableType == Available \subseteq Versions
BY DEF Available

\* The history variables and the enclosure, whatever the step.
LEMMA HistoryStep ==
    ASSUME HInv, HNext
    PROVE  /\ HistoryTypeOK'
           /\ \A t \in Threads : Encloses(t)'
<1>1. Available' \subseteq Versions
  BY DEF Available
<1>2. /\ ever' = [t \in Threads |-> EverNext(t)]
      /\ always' = [t \in Threads |-> AlwaysNext(t)]
  BY DEF HNext
<1>3. ASSUME NEW t \in Threads
      PROVE  EverNext(t) \subseteq Versions /\ AlwaysNext(t) \subseteq Versions
  BY <1>1 DEF EverNext, AlwaysNext, HInv, HistoryInv, HistoryTypeOK
<1>4. HistoryTypeOK'
  BY <1>2, <1>3 DEF HistoryTypeOK
<1>5. ASSUME NEW t \in Threads
      PROVE  Encloses(t)'
  <2>1. ever'[t] = EverNext(t) /\ always'[t] = AlwaysNext(t)
    BY <1>2
  <2> QED
    BY <2>1 DEF Encloses, EverNext, AlwaysNext
<1> QED
  BY <1>4, <1>5

LEMMA CreateVersionKeys ==
    ASSUME VersionsHaveKeys, KmsTypeOK, NEW v \in Versions, CreateVersion(v),
           v[1] \in cryptoKeys', cryptoKeys \subseteq cryptoKeys'
    PROVE  VersionsHaveKeys'
BY DEF VersionsHaveKeys, CreateVersion, KmsTypeOK

LEMMA CreateCryptoKeyKeys ==
    ASSUME VersionsHaveKeys, KmsTypeOK, NEW k \in Keys, NEW b \in BOOLEAN,
           CreateCryptoKey(k, b)
    PROVE  VersionsHaveKeys'
<1>1. CASE b
  BY <1>1 DEF CreateCryptoKey, VersionsHaveKeys
<1>2. CASE ~b
  BY <1>2, FirstVersion, CreateVersionKeys DEF CreateCryptoKey
<1> QED
  BY <1>1, <1>2

LEMMA KmsNextKeys ==
    ASSUME VersionsHaveKeys, KmsTypeOK, KmsNext
    PROVE  VersionsHaveKeys'
<1>1. CASE \E k \in Keys, b \in BOOLEAN : CreateCryptoKey(k, b)
  BY <1>1, CreateCryptoKeyKeys
<1>2. ASSUME NEW v \in Versions, CreateCryptoKeyVersion(v)
      PROVE  VersionsHaveKeys'
  BY <1>2, CreateVersionKeys DEF CreateCryptoKeyVersion
<1>3. ASSUME NEW v \in Versions, FinishGeneration(v)
      PROVE  VersionsHaveKeys'
  BY <1>3 DEF FinishGeneration, VersionsHaveKeys, KmsTypeOK
<1>4. ASSUME NEW v \in Versions, NEW s \in {"ENABLED", "DISABLED"},
             UpdateCryptoKeyVersion(v, s)
      PROVE  VersionsHaveKeys'
  BY <1>4 DEF UpdateCryptoKeyVersion, VersionsHaveKeys, KmsTypeOK
<1>5. ASSUME NEW v \in Versions, DestroyCryptoKeyVersion(v)
      PROVE  VersionsHaveKeys'
  BY <1>5 DEF DestroyCryptoKeyVersion, CanDestroy, VersionsHaveKeys, KmsTypeOK
<1> QED
  BY <1>1, <1>2, <1>3, <1>4, <1>5 DEF KmsNext

LEMMA KeysStep ==
    ASSUME HInv, [Next]_vars
    PROVE  VersionsHaveKeys'
<1> USE DEF HInv, HistoryInv, TypeInv, TypeOK
<1>1. CASE UNCHANGED kmsVars
  BY <1>1 DEF kmsVars, VersionsHaveKeys
<1>2. CASE KmsNext
  BY <1>2, KmsNextKeys
<1>3. ASSUME NEW t \in Threads, CreateKey(t)
      PROVE  VersionsHaveKeys'
  <2>1. ckv[t][1] \in Keys
    BY <1>3 DEF CreateKey, CallNamesVersion, Versions
  <2> QED
    BY <1>1, <1>3, <2>1, CreateCryptoKeyKeys DEF CreateKey
<1>4. ASSUME NEW t \in Threads, CreateKeyVersion(t)
      PROVE  KmsNext
  BY <1>4 DEF CreateKeyVersion, KmsNext
<1>5. ASSUME NEW t \in Threads, DestroyVersion(t)
      PROVE  KmsNext \/ UNCHANGED kmsVars
  BY <1>5 DEF DestroyVersion, KmsNext, CallNamesVersion
<1>6. ASSUME NEW t \in Threads, Begin(t)
      PROVE  UNCHANGED kmsVars
  BY <1>6 DEF Begin, RefreshTick, GenerateKey, DestroyObject
<1>7. ASSUME NEW t \in Threads, Step(t), ~CreateKey(t), ~CreateKeyVersion(t),
             ~DestroyVersion(t)
      PROVE  UNCHANGED kmsVars
  BY <1>7 DEF Step, GetCryptoKey, WaitForGeneration, CallError, LockCache, ListKeys,
              ListVersions, AddKey, LoadCached, LoadNew, FinishBuild, BuildError,
              SwapStore, FindObject, FindSingle
<1> QED
  BY <1>1, <1>2, <1>3, <1>4, <1>5, <1>6, <1>7 DEF Next, OthersStep, vars

\* While a refresh goes on, its history only widens.
LEMMA HistoryWidens ==
    ASSUME HInv, HNext, NEW t \in Threads, Refreshing(pc[t]), Refreshing(pc'[t])
    PROVE  /\ ever[t] \subseteq ever'[t] /\ Available' \subseteq ever'[t]
           /\ always'[t] \subseteq always[t] /\ always'[t] \subseteq Available'
BY DEF HNext, EverNext, AlwaysNext

\* A thread that stands still keeps its progress.
LEMMA ProgressKept ==
    ASSUME HInv, HNext, NEW t \in Threads, pc'[t] = pc[t],
           keysLeft'[t] = keysLeft[t], versLeft'[t] = versLeft[t],
           result'[t] = result[t]
    PROVE  Progress(t)'
<1>1. Progress(t)
  BY DEF HInv, HistoryInv
<1>2. CASE pc[t] \in {"load", "swap"}
  <2>1. ever[t] \subseteq ever'[t] /\ always'[t] \subseteq always[t]
    BY <1>2, HistoryWidens DEF Refreshing
  <2>2. VersionsOf(result[t])' = VersionsOf(result[t])
    BY DEF VersionsOf
  <2> QED
    BY <1>1, <1>2, <2>1, <2>2 DEF Progress, IsLoadableKey
<1>3. CASE pc[t] \notin {"load", "swap"}
  BY <1>1, <1>3 DEF Progress
<1> QED
  BY <1>2, <1>3

\* A thread outside of a refresh makes no progress and has none.
LEMMA ProgressOutside ==
    ASSUME NEW t \in Threads, pc'[t] \notin {"load", "swap"},
           keysLeft'[t] = {}, versLeft'[t] = {}
    PROVE  Progress(t)'
BY DEF Progress

LEMMA ListKeysProgress ==
    ASSUME HInv, HNext, NEW t \in Threads, ListKeys(t)
    PROVE  Progress(t)'
<1> USE DEF HInv, HistoryInv, TypeInv, TypeOK
<1>1. /\ pc[t] = "list_keys" /\ pc'[t] = "load" /\ result'[t] = {}
      /\ versLeft'[t] = {} /\ keysLeft'[t] = {k \in cryptoKeys : IsLoadableKey(k)}
  <2>1. result[t] = {} /\ versLeft[t] = {}
    BY DEF ListKeys, LoaderInv, BuildOk, Progress
  <2> QED
    BY <2>1 DEF ListKeys, Goto, ListCryptoKeysResponse
<1>2. always'[t] \subseteq Available
  BY <1>1, HistoryWidens DEF Refreshing, Encloses
<1>3. \A v \in Available : v[1] \in keysLeft'[t]
  BY <1>1 DEF Available, VersionsHaveKeys
<1> QED
  BY <1>1, <1>2, <1>3 DEF Progress, VersionsOf, IsLoadableKey

LEMMA ListVersionsProgress ==
    ASSUME HInv, HNext, NEW t \in Threads, NEW k \in Keys, ListVersions(t, k)
    PROVE  Progress(t)'
<1> USE DEF HInv, HistoryInv, TypeInv, TypeOK
<1>1. /\ pc[t] = "load" /\ pc'[t] = "load" /\ result'[t] = result[t]
      /\ keysLeft'[t] = keysLeft[t] \ {k} /\ k \in keysLeft[t] /\ versLeft[t] = {}
      /\ versLeft'[t] = {v \in Versions : v[1] = k /\ vstate[v] = "ENABLED"}
  BY DEF ListVersions, ListCryptoKeyVersionsResponse, IsLoadableVersion
<1>2. /\ ever[t] \subseteq ever'[t] /\ always'[t] \subseteq always[t]
      /\ always'[t] \subseteq Available /\ Available \subseteq ever[t]
  BY <1>1, HistoryWidens DEF Refreshing, Encloses
<1>3. versLeft'[t] = {v \in Available : v[1] = k}
  BY <1>1 DEF Available, Progress
<1>4. VersionsOf(result[t])' = VersionsOf(result[t])
  BY <1>1 DEF VersionsOf
<1> QED
  BY <1>1, <1>2, <1>3, <1>4 DEF Progress, IsLoadableKey

\* A version moves from the listed ones to the result.
LEMMA AddKeyProgress ==
    ASSUME HInv, HNext, NEW t \in Threads, NEW v \in Versions, NEW new,
           pc[t] = "load", v \in versLeft[t], AddKey(t, v, new), new # {},
           \A o \in new : o.ckv = v
    PROVE  Progress(t)'
<1> USE DEF HInv, HistoryInv, TypeInv, TypeOK
<1>1. /\ pc'[t] = "load" /\ keysLeft'[t] = keysLeft[t]
      /\ versLeft'[t] = versLeft[t] \ {v} /\ result'[t] = result[t] \cup new
  BY DEF AddKey
<1>2. ever[t] \subseteq ever'[t] /\ always'[t] \subseteq always[t]
  BY <1>1, HistoryWidens DEF Refreshing
<1>3. VersionsOf(result'[t]) = VersionsOf(result[t]) \cup {v}
  BY <1>1 DEF VersionsOf
<1>4. VersionsOf(result[t])' = VersionsOf(result'[t])
  BY DEF VersionsOf
<1>5. Progress(t)
  OBVIOUS
<1> QED
  BY <1>1, <1>2, <1>3, <1>4, <1>5 DEF Progress, IsLoadableKey

LEMMA FinishBuildProgress ==
    ASSUME HInv, HNext, NEW t \in Threads, FinishBuild(t)
    PROVE  Progress(t)'
<1> USE DEF HInv, HistoryInv, TypeInv, TypeOK
<1>1. /\ pc[t] = "load" /\ pc'[t] = "swap" /\ keysLeft[t] = {} /\ versLeft[t] = {}
      /\ keysLeft'[t] = {} /\ versLeft'[t] = {} /\ result'[t] = result[t]
  BY DEF FinishBuild, Goto, buildVars
<1>2. ever[t] \subseteq ever'[t] /\ always'[t] \subseteq always[t]
  BY <1>1, HistoryWidens DEF Refreshing
<1>3. VersionsOf(result[t])' = VersionsOf(result[t])
  BY <1>1 DEF VersionsOf
<1> QED
  BY <1>1, <1>2, <1>3 DEF Progress

Outside == {"idle", "get_key", "create_key", "create_version", "poll", "destroy",
            "lock", "find_public", "find_private", "find_secret"}

\* The steps of a call that are not part of a refresh.
OutsideStep(t) ==
    \/ Begin(t)
    \/ GetCryptoKey(t) \/ CreateKey(t) \/ CreateKeyVersion(t)
    \/ WaitForGeneration(t) \/ DestroyVersion(t) \/ CallError(t) \/ FindObject(t)

LEMMA OutsideStepFacts ==
    ASSUME TypeOK, NEW t \in Threads, OutsideStep(t)
    PROVE  /\ pc[t] \in Outside
           /\ \E step \in Outside : pc' = [pc EXCEPT ![t] = step]
           /\ UNCHANGED <<objects, keysLeft, versLeft, result>>
<1> USE DEF Outside
<1>1. CASE Begin(t)
  BY <1>1 DEF Begin, RefreshTick, GenerateKey, DestroyObject, Enter, buildVars
<1>2. CASE ~Begin(t)
  <2>1. pc[t] \in Outside
    BY <1>2 DEF OutsideStep, GetCryptoKey, CreateKey, CreateKeyVersion,
                WaitForGeneration, DestroyVersion, CallError, FindObject, FindSingle
  <2>2. \E step \in Outside : pc' = [pc EXCEPT ![t] = step]
    BY <1>2 DEF OutsideStep, GetCryptoKey, CreateKey, CreateKeyVersion,
                WaitForGeneration, DestroyVersion, CallError, FindObject,
                FindSingle, Goto
  <2>3. UNCHANGED <<objects, keysLeft, versLeft, result>>
    BY <1>2 DEF OutsideStep, GetCryptoKey, CreateKey, CreateKeyVersion,
                WaitForGeneration, DestroyVersion, CallError, FindObject,
                FindSingle, buildVars
  <2> QED
    BY <2>1, <2>2, <2>3
<1> QED
  BY <1>1, <1>2

\* What a step inside a refresh does to the thread's place.
LEMMA InsideStepFacts ==
    ASSUME TypeInv, LoaderInv, NEW t \in Threads, Step(t), ~OutsideStep(t)
    PROVE  \/ LockCache(t) /\ pc[t] = "lock" /\ pc' = [pc EXCEPT ![t] = "list_keys"]
           \/ /\ ListKeys(t) \/ FinishBuild(t) \/ \E k \in Keys : ListVersions(t, k)
                 \/ \E v \in Versions : LoadCached(t, v) \/ LoadNew(t, v)
              /\ Refreshing(pc[t])
              /\ \E step \in {"load", "swap"} : pc' = [pc EXCEPT ![t] = step]
           \/ /\ BuildError(t) /\ pc[t] \in {"list_keys", "load"}
              /\ pc' = [pc EXCEPT ![t] = "idle"]
           \/ /\ SwapStore(t) /\ pc[t] = "swap"
              /\ \E step \in Outside : pc' = [pc EXCEPT ![t] = step]
<1> USE DEF Refreshing, TypeInv, TypeOK
<1>1. CASE LockCache(t)
  BY <1>1 DEF LockCache, Goto
<1>2. CASE ListKeys(t) \/ FinishBuild(t)
  BY <1>2 DEF ListKeys, FinishBuild, Goto
<1>3. CASE \/ \E k \in Keys : ListVersions(t, k)
           \/ \E v \in Versions : LoadCached(t, v) \/ LoadNew(t, v)
  <2>1. pc[t] = "load" /\ pc' = pc
    BY <1>3 DEF ListVersions, LoadCached, LoadNew, AddKey
  <2>2. pc' = [pc EXCEPT ![t] = "load"]
    BY <2>1
  <2> QED
    BY SMTT(20), <1>3, <2>1, <2>2
<1>4. CASE BuildError(t)
  BY SMTT(20), <1>4 DEF BuildError, AtBuildRpc, Goto
<1>5. CASE SwapStore(t)
  BY <1>5 DEF SwapStore, AfterRefresh, Goto, Outside
<1> QED
  BY <1>1, <1>2, <1>3, <1>4, <1>5 DEF Step, OutsideStep

LEMMA OthersStandStill ==
    ASSUME TypeInv, LoaderInv, NEW t \in Threads, Begin(t) \/ Step(t),
           NEW u \in Threads, u # t
    PROVE  /\ pc'[u] = pc[u] /\ keysLeft'[u] = keysLeft[u]
           /\ versLeft'[u] = versLeft[u] /\ result'[u] = result[u]
<1> USE DEF TypeInv, TypeOK
<1>1. CASE OutsideStep(t)
  BY <1>1, OutsideStepFacts
<1>2. CASE ~OutsideStep(t)
  <2>1. Step(t)
    BY <1>2 DEF OutsideStep
  <2>2. pc'[u] = pc[u]
    BY SMTT(20), <1>2, <2>1, InsideStepFacts
  <2>3. /\ keysLeft'[u] = keysLeft[u] /\ versLeft'[u] = versLeft[u]
        /\ result'[u] = result[u]
    BY <1>2, <2>1 DEF Step, OutsideStep, LockCache, ListKeys, ListVersions, LoadCached,
                      LoadNew, AddKey, FinishBuild, BuildError, SwapStore, buildVars
  <2> QED
    BY <2>2, <2>3
<1> QED
  BY <1>1, <1>2

\* Every step keeps the progress of every thread.
LEMMA ProgressStep ==
    ASSUME HInv, HNext
    PROVE  \A u \in Threads : Progress(u)'
<1> USE DEF HInv
<1>1. CASE OthersStep
  BY <1>1, ProgressKept DEF OthersStep, buildVars
<1>2. ASSUME NEW t \in Threads, Begin(t) \/ Step(t)
      PROVE  \A u \in Threads : Progress(u)'
  <2>1. ASSUME NEW u \in Threads, u # t
        PROVE  Progress(u)'
    BY <1>2, <2>1, OthersStandStill, ProgressKept
  <2>2. Progress(t)
    BY DEF HistoryInv
  <2>3. Progress(t)'
    <3>1. CASE OutsideStep(t)
      BY <2>2, <3>1, OutsideStepFacts DEF Outside, Progress, TypeInv, TypeOK
    <3>2. CASE ~OutsideStep(t) /\ LockCache(t)
      BY <2>2, <3>2 DEF LockCache, Goto, buildVars, Progress, TypeInv, TypeOK
    <3>3. CASE ListKeys(t)
      BY <3>3, ListKeysProgress
    <3>4. CASE \E k \in Keys : ListVersions(t, k)
      BY <3>4, ListVersionsProgress
    <3>5. ASSUME NEW v \in Versions, LoadCached(t, v)
          PROVE  Progress(t)'
      BY <3>5, AddKeyProgress DEF LoadCached, CacheGet
    <3>6. ASSUME NEW v \in Versions, LoadNew(t, v)
          PROVE  Progress(t)'
      BY <3>6, AddKeyProgress, NewKeysFacts DEF LoadNew
    <3>7. CASE FinishBuild(t)
      BY <3>7, FinishBuildProgress
    <3>8. CASE BuildError(t)
      BY <3>8 DEF BuildError, Goto, Progress, TypeInv, TypeOK
    <3>9. CASE SwapStore(t)
      <4>1. pc'[t] \in Outside
        BY <3>9 DEF SwapStore, AfterRefresh, Goto, Outside, TypeInv, TypeOK
      <4> QED
        BY <2>2, <3>9, <4>1 DEF SwapStore, Outside, Progress
    <3> QED
      BY SMTT(20), <1>2, <3>1, <3>2, <3>3, <3>4, <3>5, <3>6, <3>7, <3>8, <3>9
         DEF Step, OutsideStep
  <2> QED
    BY SMTT(20), <2>1, <2>3
<1> QED
  BY <1>1, <1>2 DEF HNext, Next

LEMMA HistoryInvStep == HInv /\ [HNext]_hvars => HInv'
<1> SUFFICES ASSUME HInv, [HNext]_hvars
             PROVE  HInv'
  OBVIOUS
<1>1. [Next]_vars
  BY DEF HNext, hvars
<1>2. TypeInv' /\ LoaderInv'
  BY <1>1, TypeStep, LoaderStep DEF HInv
<1>3. VersionsHaveKeys'
  BY <1>1, KeysStep
<1>4. CASE HNext
  BY <1>2, <1>3, <1>4, HistoryStep, ProgressStep DEF HInv, HistoryInv
<1>5. CASE UNCHANGED hvars
  <2>1. HistoryTypeOK'
    BY <1>5 DEF HInv, HistoryInv, HistoryTypeOK, hvars, historyVars
  <2>2. \A t \in Threads : Encloses(t)' /\ Progress(t)'
    BY <1>5 DEF HInv, HistoryInv, Encloses, Progress, hvars, historyVars, vars,
                kmsVars, buildVars, Available, VersionsOf, IsLoadableKey
  <2> QED
    BY <1>2, <1>3, <2>1, <2>2 DEF HInv, HistoryInv
<1> QED
  BY <1>4, <1>5

LEMMA HistoryInvariant == HSpec => []HInv
BY HistoryInit, HistoryInvStep, PTL DEF HSpec

\* BuildState returns a regular snapshot of the key ring, however the ring
\* changes between its RPCs and whatever it takes from the cache.
THEOREM SnapshotIsRegular == HSpec => []RegularSnapshot
<1>1. HInv => RegularSnapshot
  BY DEF HInv, HistoryInv, Progress, RegularSnapshot
<1> QED
  BY HistoryInvariant, <1>1, PTL

----------------------------------------------------------------------------
\* The refinement, step by step.

LEMMA ViewInit == HInit => View!Init
BY DEF HInit, Init, KmsInit, View!Init, Available, VersionsOf, Active, Refreshing

\* A step that neither begins nor ends a refresh only shows the ring's changes.
LEMMA ViewChange ==
    ASSUME HInv, HNext, UNCHANGED objects,
           \A t \in Threads : Refreshing(pc'[t]) <=> Refreshing(pc[t])
    PROVE  View!Change
<1>1. Available' \in SUBSET Versions
  BY DEF Available
<1>2. Active' = Active /\ VersionsOf(objects)' = VersionsOf(objects)
  BY DEF Active, VersionsOf
<1>3. \A t \in Threads : t \notin Active => ever[t] = {} /\ always[t] = {}
  BY DEF HInv, HistoryInv, Encloses, Active
<1>4. ever' = [t \in Threads |-> IF t \in Active THEN ever[t] \cup Available' ELSE ever[t]]
  BY <1>3 DEF HNext, EverNext, Active
<1>5. always' = [t \in Threads |-> IF t \in Active THEN always[t] \cap Available'
                                                   ELSE always[t]]
  BY <1>3 DEF HNext, AlwaysNext, Active
<1> QED
  BY <1>1, <1>2, <1>4, <1>5 DEF View!Change

\* In a step of thread t that leaves the ring alone, the history of the other
\* threads stays as it is.
LEMMA OtherHistories ==
    ASSUME HInv, HNext, NEW t \in Threads, Available' = Available,
           \A u \in Threads : u # t => pc'[u] = pc[u]
    PROVE  /\ ever' = [ever EXCEPT ![t] = EverNext(t)]
           /\ always' = [always EXCEPT ![t] = AlwaysNext(t)]
<1>1. ASSUME NEW u \in Threads, u # t
      PROVE  EverNext(u) = ever[u] /\ AlwaysNext(u) = always[u]
  BY <1>1 DEF HInv, HistoryInv, Encloses, EverNext, AlwaysNext
<1> QED
  BY <1>1 DEF HNext, HInv, HistoryInv, HistoryTypeOK

LEMMA ViewStep == HInv /\ [HNext]_hvars => [View!Next]_(View!vars)
<1> SUFFICES ASSUME HInv, [HNext]_hvars
             PROVE  [View!Next]_(View!vars)
  OBVIOUS
<1> USE DEF HInv, TypeInv
<1>1. CASE UNCHANGED hvars
  BY <1>1 DEF hvars, historyVars, vars, kmsVars, View!vars, Available, VersionsOf, Active,
              IsLoadableKey
<1>2. CASE HNext /\ OthersStep
  BY <1>2, ViewChange DEF OthersStep, View!Next
<1>3. ASSUME HNext, NEW t \in Threads, OutsideStep(t)
      PROVE  View!Next
  <2>1. \A u \in Threads : Refreshing(pc'[u]) <=> Refreshing(pc[u])
    BY <1>3, OutsideStepFacts DEF Outside, Refreshing, TypeOK
  <2> QED
    BY <1>3, <2>1, OutsideStepFacts, ViewChange DEF View!Next
<1>4. ASSUME HNext, NEW t \in Threads, Step(t), ~OutsideStep(t)
      PROVE  View!Next
  <2>1. \A u \in Threads : u # t => pc'[u] = pc[u]
    BY <1>4, OthersStandStill
  <2>2. CASE LockCache(t)
    <3>1. pc[t] = "lock" /\ pc'[t] = "list_keys"
      BY <2>2 DEF LockCache, Goto, TypeOK
    <3>2. Available' = Available /\ VersionsOf(objects)' = VersionsOf(objects)
      BY <2>2 DEF LockCache, kmsVars, Available, VersionsOf, IsLoadableKey
    <3>3. t \notin Active /\ Active' = Active \cup {t}
      BY <2>1, <3>1 DEF Active, Refreshing
    <3>4. EverNext(t) = Available /\ AlwaysNext(t) = Available
      BY <3>1, <3>2 DEF EverNext, AlwaysNext, Refreshing
    <3>5. View!BeginRefresh(t)
      BY <1>4, <2>1, <3>2, <3>3, <3>4, OtherHistories DEF View!BeginRefresh
    <3> QED
      BY <3>5 DEF View!Next
  <2>3. CASE \/ ListKeys(t) \/ FinishBuild(t) \/ \E k \in Keys : ListVersions(t, k)
             \/ \E v \in Versions : LoadCached(t, v) \/ LoadNew(t, v)
    <3>1. UNCHANGED objects
      BY SMTT(20), <2>3 DEF ListKeys, FinishBuild, ListVersions, LoadCached, LoadNew, AddKey
    <3>2. Refreshing(pc[t]) /\ Refreshing(pc'[t])
      BY <2>3 DEF ListKeys, FinishBuild, ListVersions, LoadCached, LoadNew, AddKey,
                  Goto, Refreshing, TypeOK
    <3> QED
      BY SMTT(20), <1>4, <2>1, <3>1, <3>2, ViewChange DEF View!Next
  <2>4. CASE BuildError(t) \/ SwapStore(t)
    <3>1. Refreshing(pc[t]) /\ ~Refreshing(pc'[t])
      <4>1. CASE BuildError(t)
        BY <4>1 DEF BuildError, AtBuildRpc, Goto, Refreshing, TypeOK
      <4>2. CASE SwapStore(t)
        BY SMTT(20), <4>2 DEF SwapStore, AfterRefresh, Goto, Refreshing, TypeOK
      <4> QED
        BY SMTT(20), <2>4, <4>1, <4>2
    <3>2. Available' = Available
      BY <2>4 DEF BuildError, SwapStore, kmsVars, Available, IsLoadableKey
    <3>3. t \in Active /\ Active' = Active \ {t}
      BY <2>1, <3>1 DEF Active
    <3>4. View!EndRefresh(t)
      BY <1>4, <2>1, <3>1, <3>2, <3>3, OtherHistories
         DEF View!EndRefresh, EverNext, AlwaysNext
    <3>5. CASE BuildError(t)
      BY <3>4, <3>5 DEF BuildError, View!Abandon, View!Next, VersionsOf
    <3>6. CASE SwapStore(t)
      <4>1. VersionsOf(objects)' = VersionsOf(result[t])
        BY <3>6, SwapStoreInv DEF VersionsOf
      <4>2. always[t] \subseteq VersionsOf(result[t]) /\ VersionsOf(result[t]) \subseteq ever[t]
        BY <3>6 DEF SwapStore, HistoryInv, Progress
      <4> QED
        BY <3>4, <4>1, <4>2 DEF View!Publish, View!Next
    <3> QED
      BY <2>4, <3>5, <3>6
  <2> QED
    BY <1>4, <2>2, <2>3, <2>4 DEF Step, OutsideStep
<1> QED
  BY <1>1, <1>2, <1>3, <1>4 DEF HNext, Next, OutsideStep

\* The token implements TokenView: whatever refreshes overlap, fail or are
\* delayed, RefreshState publishes a regular snapshot in one step or nothing.
THEOREM TokenImplementsView == HSpec => RefinesTokenView
BY HistoryInvariant, ViewInit, ViewStep, PTL DEF HSpec, RefinesTokenView, View!Spec
============================================================================
