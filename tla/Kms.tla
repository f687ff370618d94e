-------------------------------- MODULE Kms --------------------------------
(***************************************************************************)
(* One key ring of the in-memory Cloud KMS server in src/fakekms: its      *)
(* crypto keys, the states of their versions, and the goroutine that       *)
(* completes the generation of an asymmetric version.  Every RPC runs      *)
(* under the server's lock (the lock interceptor), so an RPC is one step.  *)
(***************************************************************************)
EXTENDS Integers

CONSTANTS
    Keys,        \* CryptoKey names of the key ring
    MaxVersions, \* bound on the number of versions of one key
    Kind         \* what each key is: its purpose and protection level

\* "asymmetric" (sign or decrypt) and "secret" (MAC or raw encryption) keys
\* at protection level HSM, and keys that the PKCS #11 library ignores.
Kinds == {"asymmetric", "secret", "unsupported"}

ASSUME KmsConstants ==
    /\ MaxVersions \in Nat \ {0}
    /\ Kind \in [Keys -> Kinds]

\* A CryptoKeyVersion name: the key's name and the version's number.
Versions == Keys \X (1 .. MaxVersions)

VersionStates == {"ABSENT", "PENDING_GENERATION", "ENABLED", "DISABLED",
                  "DESTROY_SCHEDULED"}

VARIABLES
    cryptoKeys, \* the keys of the ring
    vstate,     \* the state of every version ("ABSENT": not created)
    generating  \* versions whose generation goroutine has yet to run

kmsVars == <<cryptoKeys, vstate, generating>>

KmsTypeOK ==
    /\ cryptoKeys \subseteq Keys
    /\ vstate \in [Versions -> VersionStates]
    /\ generating \subseteq Versions

----------------------------------------------------------------------------
\* What the read-only RPCs answer.

ListCryptoKeysResponse == cryptoKeys

ListCryptoKeyVersionsResponse(k) ==
    {v \in Versions : v[1] = k /\ vstate[v] # "ABSENT"}

\* A public key is served only for an enabled version that has its material.
GetPublicKeyOk(v) ==
    /\ vstate[v] = "ENABLED"
    /\ v \notin generating
    /\ Kind[v[1]] = "asymmetric"

\* The number the next version of a key gets: len(ck.versions) + 1.
IsNextVersion(v) ==
    /\ vstate[v] = "ABSENT"
    /\ \A n \in 1 .. v[2] - 1 : vstate[<<v[1], n>>] # "ABSENT"

----------------------------------------------------------------------------
\* The RPCs that change the key ring.

\* An asymmetric version is generated asynchronously, others at once.
CreateVersion(v) ==
    /\ IsNextVersion(v)
    /\ IF Kind[v[1]] = "asymmetric"
         THEN /\ vstate' = [vstate EXCEPT ![v] = "PENDING_GENERATION"]
              /\ generating' = generating \cup {v}
         ELSE /\ vstate' = [vstate EXCEPT ![v] = "ENABLED"]
              /\ UNCHANGED generating

\* Unless the request skips it, a new key gets its first version.
CreateCryptoKey(k, skipInitialVersion) ==
    /\ k \notin cryptoKeys
    /\ cryptoKeys' = cryptoKeys \cup {k}
    /\ IF skipInitialVersion THEN UNCHANGED <<vstate, generating>>
                             ELSE CreateVersion(<<k, 1>>)

CreateCryptoKeyVersion(v) ==
    /\ v[1] \in cryptoKeys
    /\ CreateVersion(v)
    /\ UNCHANGED cryptoKeys

\* The goroutine enables the version, whatever its state has become.
FinishGeneration(v) ==
    /\ v \in generating
    /\ generating' = generating \ {v}
    /\ vstate' = [vstate EXCEPT ![v] = "ENABLED"]
    /\ UNCHANGED cryptoKeys

\* An update moves a version to ENABLED or DISABLED from any state.
UpdateCryptoKeyVersion(v, s) ==
    /\ vstate[v] # "ABSENT"
    /\ vstate' = [vstate EXCEPT ![v] = s]
    /\ UNCHANGED <<cryptoKeys, generating>>

CanDestroy(v) == vstate[v] \in {"ENABLED", "DISABLED"}

\* Mutant: a version is destroyed at once, without the scheduled state.
DestroyAtOnce(v) ==
    /\ CanDestroy(v)
    /\ vstate' = [vstate EXCEPT ![v] = "DESTROYED"]
    /\ UNCHANGED <<cryptoKeys, generating>>

DestroyCryptoKeyVersion(v) ==
    /\ CanDestroy(v)
    /\ vstate' = [vstate EXCEPT ![v] = "DESTROY_SCHEDULED"]
    /\ UNCHANGED <<cryptoKeys, generating>>

----------------------------------------------------------------------------
KmsInit ==
    /\ cryptoKeys = {}
    /\ vstate = [v \in Versions |-> "ABSENT"]
    /\ generating = {}

\* What the server's other clients and its goroutines may do at any time.
KmsNext ==
    \/ \E k \in Keys, skip \in BOOLEAN : CreateCryptoKey(k, skip)
    \/ \E v \in Versions :
         \/ CreateCryptoKeyVersion(v)
         \/ FinishGeneration(v)
         \/ \E s \in {"ENABLED", "DISABLED"} : UpdateCryptoKeyVersion(v, s)
         \/ DestroyCryptoKeyVersion(v)
============================================================================
