--------------------------------- MODULE Cng ---------------------------------
(***************************************************************************)
(* The CNG key storage provider (kmscng): provider and key handles, the    *)
(* properties that configure the client, NCryptEnumKeys and NCryptSignHash,*)
(* called by several threads, while the versions of Cloud KMS change.      *)
(*                                                                         *)
(* A handle is the address of an object, so a freed handle may come back   *)
(* for a new object.  The library does not see whether a handle is valid;  *)
(* the model has the calls of an application that frees no handle while a  *)
(* call is using it and uses none after it freed it, except that a key may *)
(* be used and freed after its provider (kmscng/object.cc:93).  Calls that *)
(* need no server are one step, the others wait for each of their RPCs.    *)
(***************************************************************************)
EXTENDS Naturals, SequencesExt

CONSTANTS
  Threads, ProvHandles, KeyHandles,
  Versions,         \* names of CryptoKeyVersions
  ProtectionLevel,  \* of each version: "HSM" or "SOFTWARE"
  Algorithm,        \* of each version
  Config,           \* the versions of config.yaml, in order
  Settable,         \* the properties the application sets: bounds the model
  Does,             \* the functions each thread calls: bounds the model
  MaxChanges        \* bound on the changes of version states

ASSUME CngConstants ==
  /\ ProtectionLevel \in [Versions -> {"HSM", "SOFTWARE"}]
  /\ Algorithm \in [Versions -> STRING]
  /\ Config \in Seq(Versions)

VARIABLES
  vstate,     \* the state of every version
  changes,    \* changes of it so far
  providers,  \* what each provider handle points to: {} or {provider_info_}
  objects,    \* what each key handle points to: {} or {o}
  calls,      \* the call of each thread that waits for the server: {} or {c}
  enums,      \* the EnumState of each thread: {} or {e}
  returned,   \* what the last call of each thread returned: {} or {r}
  aborted,    \* why the process was stopped, "no" while it runs
  loadable    \* history: the versions that were loadable always, and at some
              \* time, since the thread's enumeration began

appVars == <<providers, objects, calls, enums, returned, aborted>>
vars == <<vstate, changes, appVars, loadable>>

VersionStates == {"ENABLED", "DISABLED", "ABSENT"}
-----------------------------------------------------------------------------
\* The tables.
algorithm_identifiers == {"ECDSA_P256", "ECDSA_P384"}

GetDetails ==
  LET Ecdsa(property, digest, signature) ==
        [algorithm_property |-> property, digest |-> digest, signature |-> signature]
  IN  [a \in {"EC_SIGN_P256_SHA256", "EC_SIGN_P384_SHA384"} |->
         CASE a = "EC_SIGN_P256_SHA256" -> Ecdsa("ECDSA_P256", 32, 64)
           [] a = "EC_SIGN_P384_SHA384" -> Ecdsa("ECDSA_P384", 48, 96)]

kAlgorithmNames == <<"ECDSA_P256", "ECDSA_P384">>

\* The properties of a provider, and those SetProperty changes.
Immutable == {"ImplType", "Version"}
mutable_properties == {"EndpointAddress", "ChannelCredentials", "UserProject"}

\* Each is as the environment or the default has it, or as it was set.
BuildInfo == [p \in Immutable \cup mutable_properties |-> "default"]

\* NewKmsClient: the options are copied from the provider.
NewKmsClient(info) == [p \in mutable_properties |-> info[p]]

\* A client reaches the server unless it was given another one.
Reaches(client) ==
  client["EndpointAddress"] = "default" /\ client["ChannelCredentials"] = "default"

IsLoadable(v) ==
  /\ ProtectionLevel[v] = "HSM"
  /\ vstate[v] = "ENABLED"
  /\ Algorithm[v] \in DOMAIN GetDetails

Loadable == {v \in Versions : IsLoadable(v)}

Init ==
  /\ vstate = [v \in Versions |-> "ENABLED"]
  /\ changes = 0
  /\ providers = [p \in ProvHandles |-> {}]
  /\ objects = [k \in KeyHandles |-> {}]
  /\ calls = [t \in Threads |-> {}]
  /\ enums = [t \in Threads |-> {}]
  /\ returned = [t \in Threads |-> {}]
  /\ aborted = "no"
  /\ loadable = [t \in Threads |-> [always |-> {}, ever |-> {}]]
-----------------------------------------------------------------------------
\* How calls begin and end.  What a call returns is kept until the thread's
\* next call, with what the properties below need to know of the call.
Free(t, fn) == aborted = "no" /\ calls[t] = {} /\ fn \in Does[t]

Return(t, r) == returned' = [returned EXCEPT ![t] = {r}]
Ret(fn, ss, about) == [fn |-> fn, ss |-> ss, about |-> about]

Wait(t, c) ==
  calls' = [calls EXCEPT ![t] = {c}] /\ returned' = [returned EXCEPT ![t] = {}]
Finish(t, r) == calls' = [calls EXCEPT ![t] = {}] /\ Return(t, r)

\* A call with a null pointer, an unknown flag or another argument the function
\* does not take, or an EnumKeys whose configuration cannot be read.
Refused(t) ==
  /\ aborted = "no" /\ calls[t] = {}
  /\ Return(t, Ret("Refused", "NTE_INVALID_PARAMETER", {}))
  /\ UNCHANGED <<vstate, changes, providers, objects, calls, enums, aborted, loadable>>

InUse(h) == \E t \in Threads : \E c \in calls[t] : h \in c.handles

OpenProvider(t) ==
  /\ Free(t, "OpenProvider")
  /\ \E p \in ProvHandles :
       /\ providers[p] = {}
       /\ providers' = [providers EXCEPT ![p] = {BuildInfo}]
       /\ Return(t, Ret("OpenProvider", "SUCCESS", {}))
  /\ UNCHANGED <<vstate, changes, objects, calls, enums, aborted, loadable>>

FreeProvider(t) ==
  /\ Free(t, "FreeProvider")
  /\ \E p \in ProvHandles :
       /\ providers[p] # {} /\ ~InUse(p)
       /\ providers' = [providers EXCEPT ![p] = {}]
       /\ Return(t, Ret("FreeProvider", "SUCCESS", {}))
  /\ UNCHANGED <<vstate, changes, objects, calls, enums, aborted, loadable>>

\* Provider::SetProperty.
SetProviderProperty(t) ==
  /\ Free(t, "SetProviderProperty")
  /\ \E p \in ProvHandles, name \in Settable : \E info \in providers[p] :
       IF name \in mutable_properties
       THEN /\ providers' = [providers EXCEPT ![p] = {[info EXCEPT ![name] = "set"]}]
            /\ Return(t, Ret("SetProviderProperty", "SUCCESS", {}))
       ELSE /\ Return(t, Ret("SetProviderProperty",
                             IF name \in DOMAIN info THEN "NTE_INVALID_PARAMETER"
                                                     ELSE "NTE_NOT_SUPPORTED", {}))
            /\ UNCHANGED providers
  /\ UNCHANGED <<vstate, changes, objects, calls, enums, aborted, loadable>>
-----------------------------------------------------------------------------
\* A value handed out to a buffer that is large enough, or null to ask for the
\* size, or else too short.
CopyOut(fits) == IF fits THEN "SUCCESS" ELSE "NTE_BUFFER_TOO_SMALL"

GetProviderProperty(t) ==
  /\ Free(t, "GetProviderProperty")
  /\ \E p \in ProvHandles, name \in Settable, fits \in BOOLEAN :
       \E info \in providers[p] :
         Return(t, Ret("GetProviderProperty",
                       IF name \in DOMAIN info THEN CopyOut(fits)
                                               ELSE "NTE_NOT_SUPPORTED", {}))
  /\ UNCHANGED <<vstate, changes, providers, objects, calls, enums, aborted, loadable>>
-----------------------------------------------------------------------------
\* Keys.  Object::New makes a client first and then asks for the public key.
OpenKey(t) ==
  /\ Free(t, "OpenKey")
  /\ \E p \in ProvHandles, v \in Versions : \E info \in providers[p] :
       Wait(t, [fn |-> "OpenKey", handles |-> {p}, prov |-> p, name |-> v,
                client |-> NewKmsClient(info)])
  /\ UNCHANGED <<vstate, changes, providers, objects, enums, aborted, loadable>>

\* Mutant: the protection level is not looked at.
GetPublicKeyStatusAnyLevel(v, client) ==
  IF ~Reaches(client) THEN "UNREACHABLE"
  ELSE IF vstate[v] = "ABSENT" THEN "NTE_BAD_KEYSET"
  ELSE IF vstate[v] = "DISABLED" THEN "NTE_INTERNAL_ERROR"
  ELSE IF Algorithm[v] \notin DOMAIN GetDetails THEN "NTE_NOT_SUPPORTED"
  ELSE "SUCCESS"

\* GetPublicKey of object.cc, ParseX509PublicKeyPem and GetDetails: the status.
\* The server gives out public keys of enabled versions only.
GetPublicKeyStatus(v, client) ==
  IF ~Reaches(client) THEN "UNREACHABLE"
  ELSE IF vstate[v] = "ABSENT" THEN "NTE_BAD_KEYSET"
  ELSE IF vstate[v] = "DISABLED" THEN "NTE_INTERNAL_ERROR"
  ELSE IF ProtectionLevel[v] # "HSM" \/ Algorithm[v] \notin DOMAIN GetDetails
       THEN "NTE_NOT_SUPPORTED" ELSE "SUCCESS"

NewObject(c) ==
  [prov |-> c.prov, name |-> c.name, client |-> c.client,
   algorithm |-> Algorithm[c.name]]

\* An RPC may also fail for reasons of the server.
OpenKeyAnswered(t) ==
  /\ aborted = "no"
  /\ \E c \in {x \in calls[t] : x.fn = "OpenKey"} :
       \E ss \in {GetPublicKeyStatus(c.name, c.client), "UNAVAILABLE"} :
         /\ Finish(t, Ret("OpenKey", ss, [client |-> c.client,
                                         loadable |-> IsLoadable(c.name)]))
         /\ IF ss = "SUCCESS"
            THEN \E k \in KeyHandles :
                   objects[k] = {} /\ objects' = [objects EXCEPT ![k] = {NewObject(c)}]
            ELSE UNCHANGED objects
  /\ UNCHANGED <<vstate, changes, providers, enums, aborted, loadable>>

\* ValidateKeyHandle: the provider is compared by its handle.
ValidateKeyHandle(p, o) == o.prov = p

\* The key functions take any provider handle, that of a freed one included.
KeyRet(fn, ss, p, o) == Ret(fn, ss, [prov |-> p, object |-> o])

FreeKey(t) ==
  /\ Free(t, "FreeKey")
  /\ \E p \in ProvHandles, k \in KeyHandles : ~InUse(k) /\ \E o \in objects[k] :
       IF ValidateKeyHandle(p, o)
       THEN /\ objects' = [objects EXCEPT ![k] = {}]
            /\ Return(t, KeyRet("FreeKey", "SUCCESS", p, o))
       ELSE /\ Return(t, KeyRet("FreeKey", "NTE_INVALID_HANDLE", p, o))
            /\ UNCHANGED objects
  /\ UNCHANGED <<vstate, changes, providers, calls, enums, aborted, loadable>>

\* ExportKey and GetKeyProperty only read the object.
ReadKey(t, fn) ==
  /\ Free(t, fn)
  /\ \E p \in ProvHandles, k \in KeyHandles, fits \in BOOLEAN :
       \E o \in objects[k] :
         Return(t, KeyRet(fn, IF ValidateKeyHandle(p, o) THEN CopyOut(fits)
                                                        ELSE "NTE_INVALID_HANDLE", p, o))
  /\ UNCHANGED <<vstate, changes, providers, objects, calls, enums, aborted, loadable>>

ExportKey(t) == ReadKey(t, "ExportKey")
GetKeyProperty(t) == ReadKey(t, "GetKeyProperty")

\* What SignHash answers without the server, or "SIGN".  The buffer has size 0
\* when it is null: the call asks for the size.  SignDigest wants exactly the
\* signature's size.
SignHashChecks(p, o, digest, buffer) ==
  LET d == GetDetails[o.algorithm]
  IN  IF ~ValidateKeyHandle(p, o) THEN "NTE_INVALID_HANDLE"
      ELSE IF buffer = 0 THEN "SUCCESS"
      ELSE IF buffer < d.signature THEN "NTE_BUFFER_TOO_SMALL"
      ELSE IF digest # d.digest THEN "NTE_INVALID_PARAMETER"
      ELSE IF buffer # d.signature THEN "NTE_INTERNAL_ERROR"
      ELSE "SIGN"

SignHash(t) ==
  /\ Free(t, "SignHash")
  /\ \E p \in ProvHandles, k \in KeyHandles, digest \in {32, 48}, buffer \in {0, 64, 96} :
       \E o \in objects[k] :
         LET ss == SignHashChecks(p, o, digest, buffer)
         IN  IF ss = "SIGN"
             THEN Wait(t, [fn |-> "SignHash", handles |-> {k}, prov |-> p, object |-> o])
             ELSE Return(t, KeyRet("SignHash", ss, p, o)) /\ UNCHANGED calls
  /\ UNCHANGED <<vstate, changes, providers, objects, enums, aborted, loadable>>

\* KmsClient::AsymmetricSign with a client.
AsymmetricSignStatus(v, client) ==
  IF ~Reaches(client) THEN "UNREACHABLE"
  ELSE IF vstate[v] # "ENABLED" THEN "NTE_INTERNAL_ERROR" ELSE "SUCCESS"

\* Mutant: the client is made from the provider that has the handle now.
SignHashAnsweredByProvider(t) ==
  /\ aborted = "no"
  /\ \E c \in {x \in calls[t] : x.fn = "SignHash"} : \E info \in providers[c.prov] :
       Finish(t, KeyRet("SignHash", AsymmetricSignStatus(c.object.name, NewKmsClient(info)),
                        c.prov, c.object))
  /\ UNCHANGED <<vstate, changes, providers, objects, enums, aborted, loadable>>

SignHashAnswered(t) ==
  /\ aborted = "no"
  /\ \E c \in {x \in calls[t] : x.fn = "SignHash"} :
       \E ss \in {AsymmetricSignStatus(c.object.name, c.object.client), "UNAVAILABLE"} :
         Finish(t, KeyRet("SignHash", ss, c.prov, c.object))
  /\ UNCHANGED <<vstate, changes, providers, objects, enums, aborted, loadable>>
-----------------------------------------------------------------------------
\* EnumKeys.  The first call makes the list with one RPC for each version of
\* the configuration; the others go through it.
EnumKeysFirst(t) ==
  /\ Free(t, "EnumKeys") /\ enums[t] = {}
  /\ \E p \in ProvHandles : \E info \in providers[p] :
       Wait(t, [fn |-> "EnumKeys", handles |-> {p}, prov |-> p, client |-> NewKmsClient(info),
                next |-> 1, result |-> <<>>])
  /\ loadable' = [loadable EXCEPT ![t] = [always |-> Loadable, ever |-> Loadable]]
  /\ UNCHANGED <<vstate, changes, providers, objects, enums, aborted>>

KeyDetails(v) ==
  [key_name |-> v, algorithm_identifier |-> GetDetails[Algorithm[v]].algorithm_property]

\* One turn of the loop of BuildCkvList.  An answer that is an error is used as
\* if it were a version, which stops the process.
GetCryptoKeyVersionStatus(v, client) ==
  IF ~Reaches(client) THEN "UNREACHABLE"
  ELSE IF vstate[v] = "ABSENT" THEN "not found" ELSE "SUCCESS"

BuildCkvListStep(t) ==
  /\ aborted = "no"
  /\ \E c \in {x \in calls[t] : x.fn = "EnumKeys"} : c.next <= Len(Config) /\
       \E ss \in {GetCryptoKeyVersionStatus(Config[c.next], c.client), "UNAVAILABLE"} :
         IF ss # "SUCCESS" THEN aborted' = ss /\ UNCHANGED calls
         ELSE /\ calls' = [calls EXCEPT ![t] =
                   {[c EXCEPT !.next = @ + 1,
                              !.result = IF IsLoadable(Config[c.next])
                                         THEN Append(@, KeyDetails(Config[c.next]))
                                         ELSE @]}]
              /\ UNCHANGED aborted
  /\ UNCHANGED <<vstate, changes, providers, objects, enums, returned, loadable>>

\* The end of EnumKeys: the next element of the list, or the end of it.
NextKey(t, e) ==
  IF e.current = Len(e.key_details)
  THEN /\ enums' = [enums EXCEPT ![t] = {e}]
       /\ Return(t, Ret("EnumKeys", "NTE_NO_MORE_ITEMS", {}))
  ELSE /\ enums' = [enums EXCEPT ![t] = {[e EXCEPT !.current = @ + 1]}]
       /\ Return(t, Ret("EnumKeys", "SUCCESS", {e.key_details[e.current + 1]}))

\* Mutant: the list ends before the last version of the configuration.
EnumKeysBuiltEarly(t) ==
  /\ aborted = "no"
  /\ \E c \in {x \in calls[t] : x.fn = "EnumKeys"} :
       /\ c.next >= Len(Config)
       /\ NextKey(t, [key_details |-> c.result, current |-> 0])
  /\ calls' = [calls EXCEPT ![t] = {}]
  /\ UNCHANGED <<vstate, changes, providers, objects, aborted, loadable>>

EnumKeysBuilt(t) ==
  /\ aborted = "no"
  /\ \E c \in {x \in calls[t] : x.fn = "EnumKeys"} :
       /\ c.next > Len(Config)
       /\ NextKey(t, [key_details |-> c.result, current |-> 0])
  /\ calls' = [calls EXCEPT ![t] = {}]
  /\ UNCHANGED <<vstate, changes, providers, objects, aborted, loadable>>

EnumKeysAgain(t) ==
  /\ Free(t, "EnumKeys")
  /\ \E e \in enums[t] : NextKey(t, e)
  /\ UNCHANGED <<vstate, changes, providers, objects, calls, aborted, loadable>>

\* FreeBuffer of the enumeration state.
FreeBuffer(t) ==
  /\ Free(t, "EnumKeys") /\ enums[t] # {}
  /\ enums' = [enums EXCEPT ![t] = {}]
  /\ Return(t, Ret("FreeBuffer", "SUCCESS", {}))
  /\ loadable' = [loadable EXCEPT ![t] = [always |-> {}, ever |-> {}]]
  /\ UNCHANGED <<vstate, changes, providers, objects, calls, aborted>>

\* An administrator or another client changes a version.
ChangeVersion ==
  /\ aborted = "no" /\ changes < MaxChanges
  /\ changes' = changes + 1
  /\ \E v \in Versions, s \in VersionStates :
       s # vstate[v] /\ vstate[v] # "ABSENT" /\ vstate' = [vstate EXCEPT ![v] = s]
  /\ loadable' =
       [t \in Threads |->
          IF \E c \in calls[t] : c.fn = "EnumKeys"
          THEN [always |-> loadable[t].always \cap Loadable',
                ever |-> loadable[t].ever \cup Loadable']
          ELSE loadable[t]]
  /\ UNCHANGED appVars

Step(t) ==
  \/ Refused(t) \/ OpenProvider(t) \/ FreeProvider(t) \/ SetProviderProperty(t)
  \/ GetProviderProperty(t) \/ OpenKey(t) \/ OpenKeyAnswered(t) \/ FreeKey(t)
  \/ ExportKey(t) \/ GetKeyProperty(t) \/ SignHash(t) \/ SignHashAnswered(t)
  \/ EnumKeysFirst(t) \/ BuildCkvListStep(t) \/ EnumKeysBuilt(t)
  \/ EnumKeysAgain(t) \/ FreeBuffer(t)

Next == ChangeVersion \/ \E t \in Threads : Step(t)

Spec == Init /\ [][Next]_vars
-----------------------------------------------------------------------------
\* EnumerationIsFaithful: an enumeration gives versions of the configuration in
\* its order; it misses none that was loadable all the time while the list was
\* made, and has none that was not loadable at any time of it.  Every
\* algorithm it names is one that IsAlgSupported and EnumAlgorithms know.
EnumerationIsFaithful ==
  \A t \in Threads : \A e \in enums[t] :
    LET names == [i \in DOMAIN e.key_details |-> e.key_details[i].key_name]
    IN  /\ \E at \in [DOMAIN names -> DOMAIN Config] :
             /\ \A i \in DOMAIN names : names[i] = Config[at[i]]
             /\ \A i, j \in DOMAIN names : i < j => at[i] < at[j]
        /\ Range(Config) \cap loadable[t].always \subseteq Range(names)
        /\ Range(names) \subseteq loadable[t].ever
        /\ \A i \in DOMAIN e.key_details :
             e.key_details[i].algorithm_identifier \in
               algorithm_identifiers \cap Range(kAlgorithmNames)

\* OpensExactlyLoadable: OpenKey, which asks for the public key, agrees
\* with EnumKeys, which asks for the version, on which versions are loadable:
\* a key is opened only if it is loadable, and one that is loadable when the
\* server answers is opened unless the server cannot be reached, whether or
\* not the configuration names it.
OpensExactlyLoadable ==
  \A t \in Threads : \A r \in returned[t] :
    r.fn = "OpenKey" =>
      /\ r.ss = "SUCCESS" => r.about.loadable
      /\ r.about.loadable /\ Reaches(r.about.client) =>
           r.ss \in {"SUCCESS", "UNAVAILABLE"}

\* KeyOutlivesProvider: a key function takes exactly the provider handle the
\* key was opened with, whether that provider still exists or not, and a key
\* that could be opened never loses its server: not when the properties of
\* the provider change, when it is freed, or when another provider has its
\* handle.
KeyOutlivesProvider ==
  \A t \in Threads : \A r \in returned[t] :
    r.fn \in {"FreeKey", "ExportKey", "GetKeyProperty", "SignHash"} =>
      /\ (r.ss = "NTE_INVALID_HANDLE") = (r.about.prov # r.about.object.prov)
      /\ r.ss # "UNREACHABLE"

\* MissingVersionIsSkipped: a version of the configuration that does not exist
\* is only logged ("Key not found, log warning.", kmscng/object_loader.cc:81),
\* and the enumeration goes on.
MissingVersionIsSkipped == aborted # "not found"
=============================================================================
