# TLA+ models of the Cloud KMS integrations

This directory models the PKCS #11 library for Cloud KMS (`kmsp11`), the CNG key
storage provider (`kmscng`), the client they share (`common`) and the part of the
key management service they depend on (`fakekms`). It checks the models with TLC
on small instances and proves their main invariants with TLAPS for every instance.
`PROJECT.json` maps every definition to the lines it models.

## The system

| Part | Source | Modelled by |
|---|---|---|
| Fake KMS: keys, versions, states | `fakekms/*.go` | `Kms` |
| Fake KMS: cryptographic calls | `fakekms/symmetric_rpcs.go`, `asymmetric_rpcs.go`, `generate_random.go` | `FakeKmsCrypto` |
| KMS client | `common/kms_client.cc` | `Token` (keys), `KmsCrypto` (cryptographic calls), `KmsClientLoops` (lists and waits), `KmsClient` (both) |
| Pagination, backoff | `common/pagination_range.h`, `backoff.cc` | `KmsClientLoops` |
| Token, object loader and cache, object store | `kmsp11/token.cc`, `object_loader.cc`, `object_store.cc` | `Token`, `TokenHistory`, `TokenView`, `TokenClaims` |
| Session: key generation and destruction | `kmsp11/session.cc` | `Token` |
| Session: find, encrypt, decrypt, sign, verify | `kmsp11/session.cc`, `main/bridge.cc`, `operation/` | `Session` |
| Algorithms, mechanisms, usage of a key, padding | `kmsp11/algorithm_details.cc`, `mechanism.cc`, `object.cc`, `operation/`, `util/padding.cc` | `Algorithms`, `KmsCrypto` |
| Library life cycle, fork handlers, logging | `main/bridge.cc`, `util/global_provider.cc`, `util/logging.cc`, `main/fork_support_*.cc` | `Library` |
| Provider, refresher thread, session map, login | `provider.cc`, `util/handle_map.h`, `token.cc` | `Library`; what a refresh does in `Token` |
| CNG provider | `kmscng/` | `Cng` |
| Configuration, error and string helpers, samples, build | | not modelled |

An application calls the library from several threads. The provider owns the
tokens and a refresher thread. A token shows the objects of one key ring: its
loader lists keys and versions, fetches public keys, gives each object a random
handle, and keeps all this in a cache under `cache_mutex_`; the object store built
from it replaces the published one under `objects_mutex_`. Generating or
destroying a key changes the ring by an RPC and then refreshes the token. A
session has at most one operation at a time.

## Modules

**`Kms`** is the server. `vstate` gives each version its state. `CreateCryptoKey`,
`CreateCryptoKeyVersion`, `UpdateCryptoKeyVersion` and `DestroyCryptoKeyVersion`
are the RPCs, each atomic because the lock interceptor serialises them;
`FinishGeneration` is the goroutine that enables a new version later. The ring
also changes under other clients (`KmsNext`).

**`Token`** is the client side. Threads are the refresher and application threads.
A call is cut into steps at each RPC and each critical section: `LockCache`,
`ListKeys`, `ListVersions`, `LoadCached` or `LoadNew`, and `FinishBuild` are
`ObjectLoader::BuildState`; `SwapStore` is the second half of
`Token::RefreshState`. `BuildError` and `CallError` are failed RPCs, with or
without an effect on the server; `CallError` is also the deadline of
`WaitForGeneration`. `FindObject` is the lookup at the end of a generation.

**`TokenView`** is the abstract specification of a refresh: it publishes, in one
step, a *regular snapshot* of the ring (everything that was available throughout
the refresh, nothing that never was) or changes nothing. **`TokenHistory`** adds
the history variables that the refinement mapping needs and states that `Token`
implements `TokenView`. **`TokenClaims`** states what two session tests say by
name about freshly generated and destroyed keys.

**`Session`** is one session. Each action is one PKCS #11 call, from the argument
checks in `bridge.cc` through `session.cc` to the class under `operation/`. A
class is a record of what tells it apart: whether it takes parts, whether it
refuses a single-part call after parts, its length limits and the origin of its
IV. What a cipher computes is represented by the input it got. The token's objects
change between calls.

**`Library`** is one process. A thread's `pc` is the point it has reached in
`C_Initialize`, in `C_Finalize` or in a call on a session. `static_provider`,
`logging_initialized` and the members of the provider are the state these share,
and `logging_lock` is a reader-writer lock. `DestroyProvider`, `JoinRefresher` and
`DestroyMembers` are the destructor of `Provider`, in the order of its members;
`RefresherWakes`, `RefreshToken` and `RefresherEnds` are the thread it joins.
`OpenSession`, `CloseSession`, `CloseAllSessions` and `GetSession` are the handle
map. A call keeps the session it took, also when another thread closes the handle.
`Fork` keeps the forking thread only and continues with the handler of the child.

**`Algorithms`** holds the tables and the checks of `C_*Init`: which mechanism a
key takes and what its usage attributes say. **`FakeKmsCrypto`** has an operator
for each cryptographic call of the server, from a request to its replies.
**`KmsCrypto`** follows a call from its arguments through the request, a connection
that loses or changes fields, the server, and the checks of the client, to the
result. A byte string is a term with a length, and a checksum is the value it was
computed from. A signature or ciphertext is kept and used by later calls.
**`KmsClientLoops`** has `PaginationRange` over pages of any size, empty ones
included, and `WaitForGeneration` with its delays and deadline. **`KmsClient`** is
a client that does either, one call at a time.

**`Cng`** is the key storage provider. Provider and key handles are addresses, so
a freed one comes back. Calls that need no server are one step; `OpenKey`,
`SignHash` and the first `EnumKeys` wait for each RPC while versions change.
`Refused` stands for the argument checks that fail.

`MCToken`, `MCTokenHistory`, `MCTokenClaims`, `MCSession`, `MCLibrary`,
`MCKmsClient` and `MCCng` fix the constants that a configuration cannot write.
`TokenProofs`, `TokenHistoryProofs`, `SessionProofs`, `LibraryProofs`,
`KmsClientProofs` and `CngProofs` hold the theorems. Definitions whose comment
begins with "Mutant:" are wrong variants of the definition that follows: no
specification uses them, and each shows that a property notices the mistake.

## Runs

| Run | Instance | What it shows |
|---|---|---|
| `TokenOverlap` | one certified key pair, 3 handles, refresher and 2 threads | handle accounting, whole key pairs in the store, no duplicate handle, exact eviction, with refreshes that overlap and fail |
| `TokenVersions` | one secret key with 2 versions and a key that cannot be loaded, 2 handles, `experimental_create_multiple_versions` | the same for versions; handles survive refreshes |
| `TokenLiveness` | one key pair, refresher and 2 threads, fair | every call returns, those that poll for a generated key too; a token that keeps being refreshed converges |
| `TokenSnapshot` | two secret keys, refresher and 1 thread | builds are regular snapshots; `Token` implements `TokenView` |
| `SingleClient` | one thread, no refresher | both claims of the tests hold |
| `GeneratedKeyIsImmediatelyAvailable`, `DestroyedKeyIsImmediatelyAbsent` | refresher and 1 thread | each claim fails (below) |
| `SessionOperations` | inputs of 0, 1, 2 and 4 bytes, limits of 1 to 4 | outputs cover their input, IV and ciphertext belong together, buffers stay bounded, finds deplete, operations end when they should |
| `LibraryLifeCycle` | 2 threads, 2 slots, 1 session handle, 2 providers, 1 fork, fair | logging and provider stay in step after failures, races and forks; no second provider; the refresher never uses what is destroyed; a session belongs to the provider that is set; every call returns |
| `KmsClientCalls` | every algorithm and mechanism, lengths on both sides of each limit, up to 2 faults; a list of 4 in pages of 0 to 2; a wait of 30 s | what the integrity checks catch; only advertised mechanisms succeed; usage attributes are exact; no late refusal; signatures and ciphertexts round-trip; lists are complete, waits timely, both end |
| `CngProvider` | 2 threads, 2 provider handles, 1 key handle, 3 versions, 2 changes | enumerations are faithful, `OpenKey` agrees with `EnumKeys`, keys outlive their provider |
| `MissingVersionIsSkipped` | one provider, 1 change | the claim of a comment fails (below) |

**Three findings.** `Token::RefreshState` leaves `cache_mutex_` before it swaps the
store (`token.cc:146`), so an older build can replace a newer one. With the
refresher running, `C_GenerateKey` may then fail to find the key it has just
created, and a destroyed key may reappear after `C_DestroyObject` has returned.
The tests `GeneratedKeyPairIsImmediatelyAvailable` and
`DestroyedKeyPairIsImmediatelyAbsent` (`session_test.cc:1347` and `1673`) promise
otherwise, and pass because they run one thread. The user guide does mention that
the library's view of the ring may be stale; the next refresh repairs it, which
`EventuallyUpToDate` states. No property claims that overlapping refreshes are
ordered, and `TokenView` says that they are not.

In the CNG provider, `BuildCkvList` logs that a version does not exist
(`object_loader.cc:81`, "Key not found, log warning.") and then dereferences the
`StatusOr` that holds the error, which ends the process. The same happens for every
other error of `GetCryptoKeyVersion`.

`OutputCoversInput` names one exception: the AES decrypters take `C_Decrypt` after
`C_DecryptUpdate` and decrypt only its argument, while the encrypters, signers and
verifiers refuse the corresponding call.

Other properties name their exceptions too, and each is what the code does:

- `Integrity`: lost additional data, `RawDecrypt` fields without a checksum, the
  vector of a GCM reply, a reply that lost a value with its checksum, the flags of
  `MacVerify`.
- `OneFaultIsHarmless`: in GCM the first of these (`C_Encrypt` makes a ciphertext
  without the additional data, `C_Decrypt` takes one made without it) and the third
  (`C_Encrypt` hands out a wrong vector).
- `OnlyAdvertised`: the key size that the table gives for `SHA512_HMAC`.
- `NoLateRefusal`: a `CKM_AES_CBC_PAD` text of exactly 64 KiB, whose padding, one
  more block, is added after the check.
- `ListIsComplete`: an empty page that has a token ends the list.
- `CallsReturn` of `Library`: a child that was forked while another thread held
  `logging_lock` or deleted the provider.

## Bounds

`MaxVersions` bounds the versions of a key, `Handles` the handles (so that an
evicted handle is soon reused, the case that random 64-bit handles hide), and the
sets of keys and threads are constants. Three threads let two builds overtake each
other while a third waits. `MaxDigested` bounds what is fed to a digest, which has
no limit in the code, and `MaxCount` the handles that one `C_FindObjects` asks for.
The limits are small enough that inputs fall below, on and above each of them.
Listings are one page in `Token`, as the fake server sends them; pages are the
subject of `KmsClientLoops`. A key's kind is fixed by its name; `Init` is a token on
an empty ring. Symmetry is used in safety runs only, and for handles only.

`MaxProviders` and `MaxForks` bound `Library`: two providers are enough for a
session of the first to be mistaken for one of the second. In `KmsClientCalls` the
lengths are the limits of the code (the RSA overheads, 64 KiB with and without a
block) and their neighbours, and the 30 s and the durations of 5 and 700 ms let the
delay reach its maximum and a call straddle the deadline. `MaxFaults` is two, since
one fault can hide another. In `Cng`, `Does` and `Settable` say which functions each
thread calls and which properties it sets: one thread enumerates while the other
works with keys. Two changes let a version be disabled and come back during an
enumeration.

What callers are assumed to do:

- No call overlaps `C_Finalize`, and one session is used by one thread at a time
  (PKCS #11).
- A CNG caller frees no handle that a call is using and uses none that it freed,
  except a key after its provider, which `object.cc:93` mentions.
- A CNG caller does not set a property of a provider while a call reads it.

After a fork `Library` follows the child. `CngProvider` and `MissingVersionIsSkipped`
do not check for deadlock because the process may be stopped (above), and
`LibraryLifeCycle` does not because a child forked at the wrong moment may hang.

## Fairness

`FairSpec` asks that a thread inside a call takes its next step (weak fairness:
RPCs have deadlines, and threads are scheduled) and that a thread which keeps
finding `cache_mutex_` free gets it (strong fairness: `absl::Mutex` queues its
waiters). Nothing is assumed about the server, the start of calls or the success
of RPCs. `EventuallyUpToDate` states its own premise, infinitely many swaps.

In `Library` a thread inside a call is strongly fair, for the same reason with
`logging_lock`; a refresh ends (RPC deadlines) and a notified refresher ends (weak
fairness). Nothing makes the application call, or the refresher's wait time out. In
`KmsClient` the thread inside a loop goes on (weak fairness of `LoopStep`); nothing
makes the server generate the key.

## Proofs

The theorems hold for every set of keys, versions, handles, threads, inputs and
limits that satisfies the named assumptions `KmsConstants`, `TokenConstants`,
`SessionConstants`, `LibraryConstants`, `CryptoConstants`, `LoopConstants` and
`CngConstants`.

*Token.* `HandleAccounting` and `NoDuplicateHandle` are not inductive alone. The
invariant `LoaderInv` adds that the cache holds whole keys under distinct handles,
that whoever builds holds the mutex, that a partial result is a subset of the
cache, and that a result carried out of the mutex is well formed in itself,
although its handles may since belong to other keys. One lemma per action shows
that it is kept.

*TokenHistory.* `Progress` says, for a build under way, where each version that has
been available throughout is: already in the result, among the versions still to
load, or of a key still to list. With it, a finished build is a regular snapshot
(`SnapshotIsRegular`), and each step maps to a step of `TokenView` or a stutter
(`TokenImplementsView`).

*Session.* `BufferHoldsParts` relates the operation to its history: the buffer is
all the accepted parts, it is empty until a part was given, and a class that takes
parts refuses single-part calls afterwards unless it is a decrypter. From it follow
`OutputsCoverInputs`, `BuffersBounded` and `IvsMatchCiphertexts`. `FindsDeplete` is
inductive with the types; every call but `C_FindObjects*` leaves a search alone or
ends with none. `OperationsEndInTime` is an action property, proved call by call.

*Library.* `LibraryInv` has three parts. `LockInv`: at most one thread is between
the initialization of logging and the end of `C_Initialize`, or in `C_Finalize`,
although no lock is held throughout; `logging_initialized` is what keeps a second
one out. `MemberInv`: the provider that is set has its members until it is deleted,
and the refresher runs only while it has those it uses. `SessionInv`: sessions
belong to the provider that is set. The four safety properties follow.

*KmsClient.* `ListInv`: what was handed out and what is left of the page are the
first elements of the list, as many as the token says. `WaitInv`: how far the clock
can pass the deadline, and how long a generated version can stay unseen. The
cryptographic calls leave both alone.

*Cng.* `KeyInv`: every key, and every signature in progress, has a client that
reached the server when the key was opened. `EnumInv`: the list made so far is
that of the first versions of the configuration, between what was loadable
throughout and what was at some time.

Only model-checked:

- liveness, which is outside the prover's reach: `CallsReturn` (of `Token` and of
  `Library`), `EventuallyUpToDate`, `LoopsEnd`;
- the claims of tests and comments: `GeneratedKeyIsImmediatelyAvailable`,
  `DestroyedKeyIsImmediatelyAbsent`, `MissingVersionIsSkipped`;
- the properties of cryptographic calls: `Integrity`, `OneFaultIsHarmless`,
  `OnlyAdvertised`, `UsageIsExact`, `NoLateRefusal`, `RoundTrip`. They are about the
  tables, which the run covers in full, and the lengths, of which it has the
  limits.

## Not modelled

- Attributes other than usage, `C_GetAttributeValue`, slot, token and session info:
  copies of constants, with the buffer conventions of PKCS #11.
- `C_GetMechanismList` as a list. The constructor of `Provider` sizes the vector and
  then appends to it (`provider.h:87`), so the list begins with as many entries of
  value 0; the model has the set of mechanisms, where this cannot be seen.
- Two threads in one session. A plaintext is copied out after `op_mutex_` is left
  (`bridge.cc:453`), which is safe only because PKCS #11 forbids this.
- The generation goroutine of the fake server undoing an update made meanwhile: the
  model takes this step as the code does, and no property forbids it.
- Parsing of configurations, error and string formatting, resource names and field
  masks: functions of their input without state.
- Certificates, key encodings and ciphers: BoringSSL's work. Collisions of CRC32C.
- The fault interceptor of the fake server, which tests program; faults are choices
  of the models instead.
- Registration and installation of the CNG provider, which write the registry, and
  the functions that return "not supported".
- Channel settings and headers of the client, platform wrappers, the generator of
  the function list, samples and the build.
