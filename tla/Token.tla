------------------------------- MODULE Token -------------------------------
(***************************************************************************)
(* The objects of one PKCS #11 token: the loader that reads the key ring   *)
(* into a cache of keys and handles (object_loader.cc), the object store   *)
(* built from it (object_store.cc), and the calls that replace the token's *)
(* store while others use it (token.cc, provider.cc, session.cc).          *)
(*                                                                         *)
(* A thread is the provider's refresher, which calls Token::RefreshState   *)
(* in a loop, or an application thread in C_GenerateKey[Pair] or           *)
(* C_DestroyObject, which call it after their own RPC.  A step is an RPC,  *)
(* a critical section, or the local work between two of them.  An RPC that *)
(* fails ends the call; a lost response leaves its effect on the server.   *)
(***************************************************************************)
EXTENDS Kms

CONSTANTS
    Handles,    \* the CK_OBJECT_HANDLEs that RandomHandle can return
    Certified,  \* versions that get a certificate (supplied or generated)
    Refreshers, \* {the provider's refresher thread}, or {} without refresh
    Apps,       \* application threads
    Experimental, \* the option experimental_create_multiple_versions
    NoThread, NoVersion

ASSUME TokenConstants ==
    /\ Certified \subseteq Versions
    /\ Refreshers \cap Apps = {}
    /\ Experimental \in BOOLEAN
    /\ NoThread \notin Refreshers \cup Apps
    /\ NoVersion \notin Versions

Threads == Refreshers \cup Apps

Classes == {"public", "private", "certificate", "secret"}

\* The objects that one key version becomes.
ClassesOf(v) ==
    IF Kind[v[1]] = "secret" THEN {"secret"}
    ELSE {"public", "private"}
           \cup (IF v \in Certified THEN {"certificate"} ELSE {})

\* An object and its handle.  The keys of a cache, of an ObjectStoreState and
\* of an ObjectStore are all sets of these.
Objects == [ckv : Versions, class : Classes, handle : Handles]

HandlesOf(S) == {o.handle : o \in S}
VersionsOf(S) == {o.ckv : o \in S}

\* "idle": between two calls, whether the last one returned CKR_OK or an error.
Steps ==
    {"idle", "get_key", "create_key", "create_version", "poll", "destroy",
     "lock", "list_keys", "load", "swap",
     "find_public", "find_private", "find_secret"}

VARIABLES
    cache,      \* ObjectLoader::Cache::keys_
    allocated,  \* ObjectLoader::Cache::allocated_handles_
    cacheMutex, \* the thread that holds ObjectLoader::cache_mutex_
    objects,    \* Token::objects_
    pc,         \* where each thread is
    fn,         \* the call it is in
    ckv,        \* the version that the call is about
    keysLeft,   \* BuildState: keys listed and not yet visited
    versLeft,   \* BuildState: versions listed and not yet loaded
    result      \* BuildState: the state built so far, then its return value

loaderVars == <<cache, allocated>>
buildVars == <<keysLeft, versLeft, result>>
callVars == <<fn, ckv>>
vars == <<kmsVars, loaderVars, cacheMutex, objects, pc, callVars, buildVars>>

TypeOK ==
    /\ KmsTypeOK
    /\ cache \subseteq Objects
    /\ allocated \subseteq Handles
    /\ cacheMutex \in Threads \cup {NoThread}
    /\ objects \subseteq Objects
    /\ pc \in [Threads -> Steps]
    /\ fn \in [Threads -> {"none", "Refresh", "Generate", "Destroy"}]
    /\ ckv \in [Threads -> Versions \cup {NoVersion}]
    /\ keysLeft \in [Threads -> SUBSET Keys]
    /\ versLeft \in [Threads -> SUBSET Versions]
    /\ result \in [Threads -> SUBSET Objects]

\* Thread t enters function f, about version v.
Enter(t, f, v, step) ==
    /\ pc[t] = "idle"
    /\ pc' = [pc EXCEPT ![t] = step]
    /\ fn' = [fn EXCEPT ![t] = f]
    /\ ckv' = [ckv EXCEPT ![t] = v]

\* Thread t goes on at a step, or returns when the step is "idle".
Goto(t, step) ==
    /\ pc' = [pc EXCEPT ![t] = step]
    /\ fn' = IF step = "idle" THEN [fn EXCEPT ![t] = "none"] ELSE fn
    /\ ckv' = IF step = "idle" THEN [ckv EXCEPT ![t] = NoVersion] ELSE ckv

----------------------------------------------------------------------------
\* The loader's cache.

IsLoadableKey(k) == Kind[k] # "unsupported"

\* Mutant: a version in any state is loaded.
IsLoadableAnyState(v) == TRUE

IsLoadableVersion(v) == vstate[v] = "ENABLED"

\* Mutant: the cached copy of a key comes without its certificate.
CacheGetKeysOnly(v) == {o \in cache : o.ckv = v /\ o.class # "certificate"}

CacheGet(v) == {o \in cache : o.ckv = v}

\* Mutant: RandomHandle's result is used without looking for a collision.
NewKeysUnchecked(v) ==
    {{[ckv |-> v, class |-> c, handle |-> h[c]] : c \in ClassesOf(v)} :
        h \in [ClassesOf(v) -> Handles]}

\* A set of objects for v, one of each class, with distinct new handles.
NewKeys(v) ==
    {{[ckv |-> v, class |-> c, handle |-> h[c]] : c \in ClassesOf(v)} :
        h \in {f \in [ClassesOf(v) -> Handles \ allocated] :
                 \A c, d \in ClassesOf(v) : f[c] = f[d] => c = d}}

\* Cache::Store and StoreSecretKey: replace the entry of v by new.
CacheStore(v, new) ==
    /\ cache' = {o \in cache : o.ckv # v} \cup new
    /\ allocated' = allocated \cup HandlesOf(new)

\* Mutant: only the handles of key pairs are freed.
EvictUnusedLeak(state) ==
    LET retain == {o \in cache : o.ckv \in VersionsOf(state)}
    IN  /\ cache' = retain
        /\ allocated' = allocated \ HandlesOf({o \in cache \ retain :
                                                 o.class \in {"public", "private"}})

\* Mutant: nothing is evicted.
EvictUnusedNothing(state) == UNCHANGED <<cache, allocated>>

\* Cache::EvictUnused: drop the keys that are not in state, free their handles.
EvictUnused(state) ==
    LET retain == {o \in cache : o.ckv \in VersionsOf(state)}
    IN  /\ cache' = retain
        /\ allocated' = allocated \ HandlesOf(cache \ retain)

\* ObjectStore::New refuses a state in which two objects share a handle.
ObjectStoreNewOk(state) ==
    \A o, p \in state : o.handle = p.handle => o = p

----------------------------------------------------------------------------
\* Session::GenerateKey, GenerateKeyPair and DestroyObject, up to the call of
\* Token::RefreshState.

\* A call that would create key k and its first version.  The library asks
\* only for keys it can load; their label may name a key of another kind that
\* is there already, and the call then fails on the mismatch.
GenerateKey(t, k) ==
    /\ IsLoadableKey(k) \/ k \in cryptoKeys
    /\ Enter(t, "Generate", <<k, 1>>,
             IF Experimental THEN "get_key" ELSE "create_key")
    /\ UNCHANGED <<kmsVars, loaderVars, cacheMutex, objects, buildVars>>

\* CreateKeyAndVersion with the experiment: look for the key first.
GetCryptoKey(t) ==
    LET k == ckv[t][1]
    IN  /\ pc[t] = "get_key"
        /\ \/ k \notin cryptoKeys /\ Goto(t, "create_key")
           \/ k \in cryptoKeys /\ IsLoadableKey(k) /\ Goto(t, "create_version")
           \/ k \in cryptoKeys /\ ~IsLoadableKey(k) /\ Goto(t, "idle")
        /\ UNCHANGED <<kmsVars, loaderVars, cacheMutex, objects, buildVars>>

\* CreateCryptoKeyAndWaitForFirstVersion, until the wait.
CreateKey(t) ==
    /\ pc[t] = "create_key"
    /\ \/ /\ ckv[t][1] \in cryptoKeys
          /\ Goto(t, "idle")
          /\ UNCHANGED kmsVars
       \/ /\ CreateCryptoKey(ckv[t][1], FALSE)
          /\ Goto(t, "poll")
       \/ /\ CreateCryptoKey(ckv[t][1], FALSE)
          /\ Goto(t, "idle")
    /\ UNCHANGED <<loaderVars, cacheMutex, objects, buildVars>>

\* CreateCryptoKeyVersionAndWait, until the wait: the response of a version
\* that is generated at once ends the wait before its first poll.
CreateKeyVersion(t) ==
    /\ pc[t] = "create_version"
    /\ \E v \in Versions :
         /\ v[1] = ckv[t][1]
         /\ CreateCryptoKeyVersion(v)
         /\ \/ /\ pc' = [pc EXCEPT ![t] = IF vstate'[v] = "PENDING_GENERATION"
                                             THEN "poll" ELSE "lock"]
               /\ ckv' = [ckv EXCEPT ![t] = v]
               /\ UNCHANGED fn
            \/ Goto(t, "idle")
    /\ UNCHANGED <<loaderVars, cacheMutex, objects, buildVars>>

\* One GetCryptoKeyVersion of WaitForGeneration's loop: any state but
\* PENDING_GENERATION ends the wait.
WaitForGeneration(t) ==
    /\ pc[t] = "poll"
    /\ Goto(t, IF vstate[ckv[t]] = "PENDING_GENERATION" THEN "poll" ELSE "lock")
    /\ UNCHANGED <<kmsVars, loaderVars, cacheMutex, objects, buildVars>>

\* GetObject finds o under its handle; only private and secret keys can be
\* destroyed.
DestroyObject(t, o) ==
    /\ o.class \in {"private", "secret"}
    /\ Enter(t, "Destroy", o.ckv, "destroy")
    /\ UNCHANGED <<kmsVars, loaderVars, cacheMutex, objects, buildVars>>

DestroyVersion(t) ==
    /\ pc[t] = "destroy"
    /\ \/ /\ ~CanDestroy(ckv[t])
          /\ Goto(t, "idle")
          /\ UNCHANGED kmsVars
       \/ /\ DestroyCryptoKeyVersion(ckv[t])
          /\ Goto(t, "lock")
       \/ /\ DestroyCryptoKeyVersion(ckv[t])
          /\ Goto(t, "idle")
    /\ UNCHANGED <<loaderVars, cacheMutex, objects, buildVars>>

\* The refresher's timed wait runs out.
RefreshTick(t) ==
    /\ Enter(t, "Refresh", NoVersion, "lock")
    /\ UNCHANGED <<kmsVars, loaderVars, cacheMutex, objects, buildVars>>

----------------------------------------------------------------------------
\* ObjectLoader::BuildState, in one critical section of cache_mutex_.

\* Mutant: BuildState takes no mutex.
LockCacheUnguarded(t) ==
    /\ pc[t] = "lock"
    /\ cacheMutex' = t
    /\ Goto(t, "list_keys")
    /\ UNCHANGED <<kmsVars, loaderVars, objects, buildVars>>

LockCache(t) ==
    /\ pc[t] = "lock"
    /\ cacheMutex = NoThread
    /\ cacheMutex' = t
    /\ Goto(t, "list_keys")
    /\ UNCHANGED <<kmsVars, loaderVars, objects, buildVars>>

ListKeys(t) ==
    /\ pc[t] = "list_keys"
    /\ keysLeft' = [keysLeft EXCEPT ![t] =
                      {k \in ListCryptoKeysResponse : IsLoadableKey(k)}]
    /\ Goto(t, "load")
    /\ UNCHANGED <<kmsVars, loaderVars, cacheMutex, objects, versLeft, result>>

ListVersions(t, k) ==
    /\ pc[t] = "load"
    /\ versLeft[t] = {}
    /\ k \in keysLeft[t]
    /\ keysLeft' = [keysLeft EXCEPT ![t] = @ \ {k}]
    /\ versLeft' = [versLeft EXCEPT ![t] =
           {v \in ListCryptoKeyVersionsResponse(k) : IsLoadableVersion(v)}]
    /\ UNCHANGED <<kmsVars, loaderVars, cacheMutex, objects, pc, callVars,
                   result>>

\* Adds objects to the state under construction for the listed version v.
AddKey(t, v, new) ==
    /\ versLeft' = [versLeft EXCEPT ![t] = @ \ {v}]
    /\ result' = [result EXCEPT ![t] = @ \cup new]
    /\ UNCHANGED <<kmsVars, cacheMutex, objects, pc, callVars, keysLeft>>

LoadCached(t, v) ==
    /\ pc[t] = "load"
    /\ v \in versLeft[t]
    /\ CacheGet(v) # {}
    /\ AddKey(t, v, CacheGet(v))
    /\ UNCHANGED loaderVars

\* Mutant: the cache is not consulted first.
LoadNewAlways(t, v) ==
    /\ pc[t] = "load"
    /\ v \in versLeft[t]
    /\ Kind[v[1]] = "secret" \/ GetPublicKeyOk(v)
    /\ \E new \in NewKeys(v) : CacheStore(v, new) /\ AddKey(t, v, new)

\* A secret key needs no RPC, a key pair needs its public key.
LoadNew(t, v) ==
    /\ pc[t] = "load"
    /\ v \in versLeft[t]
    /\ CacheGet(v) = {}
    /\ Kind[v[1]] = "secret" \/ GetPublicKeyOk(v)
    /\ \E new \in NewKeys(v) : CacheStore(v, new) /\ AddKey(t, v, new)

FinishBuild(t) ==
    /\ pc[t] = "load"
    /\ versLeft[t] = {} /\ keysLeft[t] = {}
    /\ EvictUnused(result[t])
    /\ cacheMutex' = NoThread
    /\ Goto(t, "swap")
    /\ UNCHANGED <<kmsVars, objects, buildVars>>

\* BuildState is about to send an RPC, or to ask for the public key of a
\* version that was disabled since it was listed.
AtBuildRpc(t) ==
    \/ pc[t] = "list_keys"
    \/ pc[t] = "load" /\ versLeft[t] = {} /\ keysLeft[t] # {}
    \/ pc[t] = "load" /\ \E v \in versLeft[t] :
         CacheGet(v) = {} /\ Kind[v[1]] = "asymmetric"

\* Mutant: the early return does not leave the mutex.
BuildErrorKeepsMutex(t) ==
    /\ AtBuildRpc(t)
    /\ Goto(t, "idle")
    /\ keysLeft' = [keysLeft EXCEPT ![t] = {}]
    /\ versLeft' = [versLeft EXCEPT ![t] = {}]
    /\ result' = [result EXCEPT ![t] = {}]
    /\ UNCHANGED <<kmsVars, loaderVars, cacheMutex, objects>>

\* An RPC of BuildState fails: the early return leaves the mutex, skips the
\* eviction, and keeps the keys that were stored.
BuildError(t) ==
    /\ AtBuildRpc(t)
    /\ cacheMutex' = NoThread
    /\ Goto(t, "idle")
    /\ keysLeft' = [keysLeft EXCEPT ![t] = {}]
    /\ versLeft' = [versLeft EXCEPT ![t] = {}]
    /\ result' = [result EXCEPT ![t] = {}]
    /\ UNCHANGED <<kmsVars, loaderVars, objects>>

\* An RPC of the call itself fails without effect on the server.
CallError(t) ==
    /\ pc[t] \in {"get_key", "create_key", "create_version", "poll", "destroy"}
    /\ Goto(t, "idle")
    /\ UNCHANGED <<kmsVars, loaderVars, cacheMutex, objects, buildVars>>

----------------------------------------------------------------------------
\* The rest of Token::RefreshState, and what follows it.

\* Where a call goes on after RefreshState.
AfterRefresh(t) ==
    IF fn[t] = "Generate"
      THEN IF Kind[ckv[t][1]] = "secret" THEN "find_secret" ELSE "find_public"
      ELSE "idle"

\* Mutant: the new objects are added to the old ones.
SwapStoreMerges(t) ==
    /\ pc[t] = "swap"
    /\ objects' = objects \cup result[t]
    /\ Goto(t, AfterRefresh(t))
    /\ result' = [result EXCEPT ![t] = {}]
    /\ UNCHANGED <<kmsVars, loaderVars, cacheMutex, keysLeft, versLeft>>

\* Mutant: the new store is built and dropped.
SwapStoreForgets(t) ==
    /\ pc[t] = "swap"
    /\ Goto(t, AfterRefresh(t))
    /\ result' = [result EXCEPT ![t] = {}]
    /\ UNCHANGED <<kmsVars, loaderVars, cacheMutex, objects, keysLeft, versLeft>>

\* ObjectStore::New, then the swap under objects_mutex_: a critical section of
\* its own, which other threads may enter between BuildState and this one.
SwapStore(t) ==
    /\ pc[t] = "swap"
    /\ IF ObjectStoreNewOk(result[t])
         THEN objects' = result[t] /\ Goto(t, AfterRefresh(t))
         ELSE UNCHANGED objects /\ Goto(t, "idle")
    /\ result' = [result EXCEPT ![t] = {}]
    /\ UNCHANGED <<kmsVars, loaderVars, cacheMutex, keysLeft, versLeft>>

\* Token::FindSingleObject fails unless exactly one object matches.
FindSingle(t, step, class, next) ==
    /\ pc[t] = step
    /\ Goto(t, IF \E o \in objects :
                    {p \in objects : p.ckv = ckv[t] /\ p.class = class} = {o}
                 THEN next ELSE "idle")
    /\ UNCHANGED <<kmsVars, loaderVars, cacheMutex, objects, buildVars>>

FindObject(t) ==
    \/ FindSingle(t, "find_public", "public", "find_private")
    \/ FindSingle(t, "find_private", "private", "idle")
    \/ FindSingle(t, "find_secret", "secret", "idle")

----------------------------------------------------------------------------
\* Token::New on an empty key ring.
Init ==
    /\ KmsInit
    /\ cache = {}
    /\ allocated = {}
    /\ cacheMutex = NoThread
    /\ objects = {}
    /\ pc = [t \in Threads |-> "idle"]
    /\ fn = [t \in Threads |-> "none"]
    /\ ckv = [t \in Threads |-> NoVersion]
    /\ keysLeft = [t \in Threads |-> {}]
    /\ versLeft = [t \in Threads |-> {}]
    /\ result = [t \in Threads |-> {}]

\* The steps of a call that is under way.
Step(t) ==
    \/ GetCryptoKey(t) \/ CreateKey(t) \/ CreateKeyVersion(t)
    \/ WaitForGeneration(t) \/ DestroyVersion(t) \/ CallError(t)
    \/ LockCache(t) \/ ListKeys(t)
    \/ \E k \in Keys : ListVersions(t, k)
    \/ \E v \in Versions : LoadCached(t, v) \/ LoadNew(t, v)
    \/ FinishBuild(t) \/ BuildError(t)
    \/ SwapStore(t) \/ FindObject(t)

Begin(t) ==
    \/ t \in Refreshers /\ RefreshTick(t)
    \/ t \in Apps /\ \E k \in Keys : GenerateKey(t, k)
    \/ t \in Apps /\ \E o \in objects : DestroyObject(t, o)

OthersStep ==
    /\ KmsNext
    /\ UNCHANGED <<loaderVars, cacheMutex, objects, pc, callVars, buildVars>>

Next == OthersStep \/ \E t \in Threads : Begin(t) \/ Step(t)

Spec == Init /\ [][Next]_vars

\* Threads run: every call goes on, and absl::Mutex wakes its waiters in turn.
\* A poll for a version that stays pending ends with the call's deadline,
\* which is a CallError.
FairSpec ==
    /\ Spec
    /\ \A t \in Threads : WF_vars(Step(t)) /\ SF_vars(LockCache(t))

----------------------------------------------------------------------------
\* Properties.

\* allocated_handles_ is exactly the handles of the cached keys, and no two
\* cached objects share one: builds that fail half-way, evictions and handle
\* reuse neither leak a handle nor hand one out twice.
HandleAccounting ==
    /\ allocated = HandlesOf(cache)
    /\ \A o, p \in cache : o.handle = p.handle => o = p

\* A set of objects holds each of its versions completely and once.
WholeKeys(S) ==
    /\ \A o \in S : /\ o.class \in ClassesOf(o.ckv)
                    /\ \A c \in ClassesOf(o.ckv) :
                         \E p \in S : p.ckv = o.ckv /\ p.class = c
    /\ \A o, p \in S : o.ckv = p.ckv /\ o.class = p.class => o = p

\* Whatever calls overlap, the published store maps a handle to one object
\* and shows all the objects of a version or none of them: no public key
\* without its private key, no lost certificate.
StoreWellFormed == ObjectStoreNewOk(objects) /\ WholeKeys(objects)

\* The state that a thread carries out of BuildState, whose handles may since
\* have been freed and given to other keys, never makes ObjectStore::New fail
\* with "duplicate handle detected".
NoDuplicateHandle == \A t \in Threads : pc[t] = "swap" => ObjectStoreNewOk(result[t])

\* At most one thread is in BuildState, it holds cache_mutex_, and what it has
\* built so far is in the cache.
BuildInMutex ==
    \A t \in Threads : pc[t] \in {"list_keys", "load"} =>
        cacheMutex = t /\ result[t] \subseteq cache

\* The handles of a version never change while it stays cached, so that an
\* application's handle survives every refresh.
SameHandles ==
    \A o \in cache, p \in cache' :
        o.ckv = p.ckv /\ o.class = p.class => o.handle = p.handle
StableHandles == [][SameHandles]_vars

\* A build that succeeds leaves in the cache exactly what it returns: keys that
\* earlier, failed builds stored and that are gone now are dropped.
EvictsToResult ==
    \A t \in Threads : pc[t] = "load" /\ pc'[t] = "swap" => cache' = result[t]
EvictionExact == [][EvictsToResult]_vars

\* Every call returns: nobody waits for cache_mutex_ for ever, not even after
\* a build that failed.
CallsReturn == \A t \in Threads : pc[t] # "idle" ~> pc[t] = "idle"

\* What a build that reads the whole ring at once would load.
Available == {v \in Versions : IsLoadableKey(v[1]) /\ vstate[v] = "ENABLED"}

\* As long as refreshes keep succeeding, a version that stays enabled is
\* eventually published for good, and one that stays unavailable eventually
\* is not: a store built long ago cannot come back again and again.
EventuallyUpToDate ==
    []<><<\E t \in Threads : SwapStore(t)>>_vars =>
        \A v \in Versions :
            /\ <>[](v \in Available) => <>[](v \in VersionsOf(objects))
            /\ <>[](v \notin Available) => <>[](v \notin VersionsOf(objects))
============================================================================
