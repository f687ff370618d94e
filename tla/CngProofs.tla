------------------------------ MODULE CngProofs ------------------------------
(***************************************************************************)
(* Proofs about Cng, for any threads, handles, versions, configuration and *)
(* number of changes.                                                      *)
(***************************************************************************)
EXTENDS Cng, TLAPS

\* The variables indexed by threads and handles are functions on them.
Functions ==
  /\ vstate \in [Versions -> VersionStates]
  /\ objects = [k \in KeyHandles |-> objects[k]]
  /\ calls = [t \in Threads |-> calls[t]]
  /\ enums = [t \in Threads |-> enums[t]]
  /\ returned = [t \in Threads |-> returned[t]]
  /\ loadable = [t \in Threads |-> loadable[t]]

\* What an open key keeps of the provider it was opened with: a client that
\* reached the server.  A signature in progress uses such a key, with the
\* handle it was opened with.
Reaching(o) == Reaches(o.client)

KeyCall(c) ==
  /\ c.fn = "OpenKey" => c.name \in Versions
  /\ c.fn = "SignHash" => Reaching(c.object) /\ ValidateKeyHandle(c.prov, c.object)
  /\ c.fn = "EnumKeys" =>
       c = [fn |-> "EnumKeys", handles |-> c.handles, prov |-> c.prov,
            client |-> c.client, next |-> c.next, result |-> c.result]

KeysReach ==
  /\ \A k \in KeyHandles : \A o \in objects[k] : Reaching(o)
  /\ \A t \in Threads : \A c \in calls[t] : KeyCall(c)

\* The two properties of one returned value.
OpenedExactly(r) ==
  r.fn = "OpenKey" =>
    /\ r.ss = "SUCCESS" => r.about.loadable
    /\ r.about.loadable /\ Reaches(r.about.client) =>
         r.ss \in {"SUCCESS", "UNAVAILABLE"}

KeyUsed(r) ==
  r.fn \in {"FreeKey", "ExportKey", "GetKeyProperty", "SignHash"} =>
    /\ (r.ss = "NTE_INVALID_HANDLE") = (r.about.prov # r.about.object.prov)
    /\ r.ss # "UNREACHABLE"

KeyInv ==
  /\ Functions
  /\ KeysReach
  /\ \A t \in Threads : \A r \in returned[t] : OpenedExactly(r) /\ KeyUsed(r)

\* A step that returns something good, or nothing, keeps the last conjunct.
LEMMA ReturnedKept ==
  ASSUME NEW t \in Threads, NEW r, KeyInv,
         OpenedExactly(r) /\ KeyUsed(r), Return(t, r)
  PROVE  /\ returned' = [u \in Threads |-> returned'[u]]
         /\ \A u \in Threads : \A q \in returned'[u] : OpenedExactly(q) /\ KeyUsed(q)
  BY DEF KeyInv, Functions, Return

\* A call that returns about something else.
LEMMA OtherReturn ==
  ASSUME NEW fn \in {"OpenProvider", "FreeProvider", "SetProviderProperty", "Refused",
                     "GetProviderProperty", "EnumKeys", "FreeBuffer"}, NEW ss, NEW about
  PROVE  OpenedExactly(Ret(fn, ss, about)) /\ KeyUsed(Ret(fn, ss, about))
  BY DEF OpenedExactly, KeyUsed, Ret

\* An answered OpenKey took exactly what IsLoadable takes.
LEMMA OpenKeyMatchesLoadable ==
  ASSUME NEW v \in Versions, NEW client, Functions
  PROVE  /\ GetPublicKeyStatus(v, client) = "SUCCESS" => IsLoadable(v) /\ Reaches(client)
         /\ IsLoadable(v) /\ Reaches(client) => GetPublicKeyStatus(v, client) = "SUCCESS"
  BY DEF GetPublicKeyStatus, IsLoadable, Functions, VersionStates

LEMMA OpenKeyAnsweredKeeps ==
  ASSUME NEW t \in Threads, KeyInv, OpenKeyAnswered(t)
  PROVE  KeyInv'
  <1>1. PICK c \in {x \in calls[t] : x.fn = "OpenKey"} :
          \E ss \in {GetPublicKeyStatus(c.name, c.client), "UNAVAILABLE"} :
            /\ Finish(t, Ret("OpenKey", ss, [client |-> c.client,
                                            loadable |-> IsLoadable(c.name)]))
            /\ IF ss = "SUCCESS"
               THEN \E k \in KeyHandles :
                      objects[k] = {} /\ objects' = [objects EXCEPT ![k] = {NewObject(c)}]
               ELSE UNCHANGED objects
    BY DEF OpenKeyAnswered
  <1>2. PICK ss \in {GetPublicKeyStatus(c.name, c.client), "UNAVAILABLE"} :
            /\ Finish(t, Ret("OpenKey", ss, [client |-> c.client,
                                            loadable |-> IsLoadable(c.name)]))
            /\ IF ss = "SUCCESS"
               THEN \E k \in KeyHandles :
                      objects[k] = {} /\ objects' = [objects EXCEPT ![k] = {NewObject(c)}]
               ELSE UNCHANGED objects
    BY <1>1
  <1> DEFINE r == Ret("OpenKey", ss, [client |-> c.client, loadable |-> IsLoadable(c.name)])
  <1>0. c.name \in Versions
    BY DEF OpenKeyAnswered, KeyInv, KeysReach, KeyCall
  <1>3. OpenedExactly(r) /\ KeyUsed(r)
    BY <1>0, OpenKeyMatchesLoadable DEF OpenedExactly, KeyUsed, Ret, KeyInv
  <1>4. /\ calls' = [calls EXCEPT ![t] = {}] /\ Return(t, r)
        /\ UNCHANGED <<vstate, enums, loadable>>
    BY <1>2 DEF Finish, OpenKeyAnswered
  <1>5. CASE ss = "SUCCESS"
    <2>1. PICK k \in KeyHandles : objects' = [objects EXCEPT ![k] = {NewObject(c)}]
      BY <1>2, <1>5
    <2>2. Reaching(NewObject(c))
      BY <1>0, <1>5, OpenKeyMatchesLoadable DEF Reaching, NewObject, KeyInv
    <2> QED
      BY <1>3, <1>4, <2>1, <2>2, ReturnedKept DEF KeyInv, Functions, KeysReach
  <1>6. CASE ss # "SUCCESS"
    BY <1>2, <1>3, <1>4, <1>6, ReturnedKept DEF KeyInv, Functions, KeysReach
  <1> QED
    BY <1>5, <1>6

LEMMA FreeKeyKeeps ==
  ASSUME NEW t \in Threads, KeyInv, FreeKey(t)
  PROVE  KeyInv'
  <1>1. PICK p \in ProvHandles, k \in KeyHandles : \E o \in objects[k] :
       IF ValidateKeyHandle(p, o)
       THEN /\ objects' = [objects EXCEPT ![k] = {}]
            /\ Return(t, KeyRet("FreeKey", "SUCCESS", p, o))
       ELSE /\ Return(t, KeyRet("FreeKey", "NTE_INVALID_HANDLE", p, o))
            /\ UNCHANGED objects
    BY DEF FreeKey
  <1>2. PICK o \in objects[k] :
       IF ValidateKeyHandle(p, o)
       THEN /\ objects' = [objects EXCEPT ![k] = {}]
            /\ Return(t, KeyRet("FreeKey", "SUCCESS", p, o))
       ELSE /\ Return(t, KeyRet("FreeKey", "NTE_INVALID_HANDLE", p, o))
            /\ UNCHANGED objects
    BY <1>1
  <1>3. UNCHANGED <<vstate, calls, enums, loadable>>
    BY DEF FreeKey
  <1>4. CASE ValidateKeyHandle(p, o)
    <2> DEFINE r == KeyRet("FreeKey", "SUCCESS", p, o)
    <2>1. OpenedExactly(r) /\ KeyUsed(r)
      BY <1>4 DEF OpenedExactly, KeyUsed, Ret, KeyRet, ValidateKeyHandle
    <2> QED
      BY <1>2, <1>3, <1>4, <2>1, ReturnedKept DEF KeyInv, Functions, KeysReach
  <1>5. CASE ~ValidateKeyHandle(p, o)
    <2> DEFINE r == KeyRet("FreeKey", "NTE_INVALID_HANDLE", p, o)
    <2>1. OpenedExactly(r) /\ KeyUsed(r)
      BY <1>5 DEF OpenedExactly, KeyUsed, Ret, KeyRet, ValidateKeyHandle
    <2> QED
      BY <1>2, <1>3, <1>5, <2>1, ReturnedKept DEF KeyInv, Functions, KeysReach
  <1> QED
    BY <1>4, <1>5

LEMMA ReadKeyKeeps ==
  ASSUME NEW t \in Threads, NEW fn \in {"ExportKey", "GetKeyProperty"}, KeyInv,
         ReadKey(t, fn)
  PROVE  KeyInv'
  <1>1. PICK p \in ProvHandles, k \in KeyHandles, fits \in BOOLEAN : \E o \in objects[k] :
         Return(t, KeyRet(fn, IF ValidateKeyHandle(p, o) THEN CopyOut(fits)
                                                        ELSE "NTE_INVALID_HANDLE", p, o))
    BY DEF ReadKey
  <1>2. PICK o \in objects[k] :
         Return(t, KeyRet(fn, IF ValidateKeyHandle(p, o) THEN CopyOut(fits)
                                                        ELSE "NTE_INVALID_HANDLE", p, o))
    BY <1>1
  <1> DEFINE r == KeyRet(fn, IF ValidateKeyHandle(p, o) THEN CopyOut(fits)
                                                       ELSE "NTE_INVALID_HANDLE", p, o)
  <1>3. OpenedExactly(r) /\ KeyUsed(r)
    BY DEF OpenedExactly, KeyUsed, Ret, KeyRet, ValidateKeyHandle, CopyOut
  <1> QED
    BY <1>2, <1>3, ReturnedKept DEF KeyInv, Functions, KeysReach, ReadKey

\* A call that waits with good data keeps the invariant.
LEMMA WaitKept ==
  ASSUME NEW t \in Threads, NEW c, KeyCall(c), Wait(t, c), KeyInv,
         UNCHANGED <<vstate, objects, enums>>, 
         loadable' = [u \in Threads |-> loadable'[u]]
  PROVE  KeyInv'
  BY DEF Wait, KeyInv, Functions, KeysReach

LEMMA SignHashKeeps ==
  ASSUME NEW t \in Threads, KeyInv, SignHash(t)
  PROVE  KeyInv'
  <1>1. PICK p \in ProvHandles, k \in KeyHandles, digest \in {32, 48},
             buffer \in {0, 64, 96} : \E o \in objects[k] :
         LET ss == SignHashChecks(p, o, digest, buffer)
         IN  IF ss = "SIGN"
             THEN Wait(t, [fn |-> "SignHash", handles |-> {k}, prov |-> p, object |-> o])
             ELSE Return(t, KeyRet("SignHash", ss, p, o)) /\ UNCHANGED calls
    BY DEF SignHash
  <1>2. PICK o \in objects[k] :
         LET ss == SignHashChecks(p, o, digest, buffer)
         IN  IF ss = "SIGN"
             THEN Wait(t, [fn |-> "SignHash", handles |-> {k}, prov |-> p, object |-> o])
             ELSE Return(t, KeyRet("SignHash", ss, p, o)) /\ UNCHANGED calls
    BY SMTT(20), <1>1
  <1> DEFINE ss == SignHashChecks(p, o, digest, buffer)
             r == KeyRet("SignHash", ss, p, o)
             c == [fn |-> "SignHash", handles |-> {k}, prov |-> p, object |-> o]
  <1>3. /\ (ss = "NTE_INVALID_HANDLE") = ~ValidateKeyHandle(p, o)
        /\ ss # "UNREACHABLE"
    BY DEF SignHashChecks
  <1>4. UNCHANGED <<vstate, objects, enums, loadable>>
    BY DEF SignHash
  <1>5. CASE ss = "SIGN"
    <2>1. KeyCall(c)
      BY <1>3, <1>5 DEF KeyCall, KeyInv, KeysReach
    <2>2. Wait(t, c)
      BY <1>2, <1>5
    <2> QED
      <3> HIDE DEF c
      <3> QED
        BY <1>4, <2>1, <2>2, WaitKept DEF KeyInv, Functions
  <1>6. CASE ss # "SIGN"
    <2>1. OpenedExactly(r) /\ KeyUsed(r)
      BY <1>3 DEF OpenedExactly, KeyUsed, Ret, KeyRet, ValidateKeyHandle
    <2>2. Return(t, r) /\ UNCHANGED calls
      BY <1>2, <1>6
    <2> QED
      BY <1>4, <2>1, <2>2, ReturnedKept DEF KeyInv, Functions, KeysReach
  <1> QED
    BY <1>5, <1>6

LEMMA SignHashAnsweredKeeps ==
  ASSUME NEW t \in Threads, KeyInv, SignHashAnswered(t)
  PROVE  KeyInv'
  <1>1. PICK c \in {x \in calls[t] : x.fn = "SignHash"} :
       \E ss \in {AsymmetricSignStatus(c.object.name, c.object.client), "UNAVAILABLE"} :
         Finish(t, KeyRet("SignHash", ss, c.prov, c.object))
    BY DEF SignHashAnswered
  <1>2. PICK ss \in {AsymmetricSignStatus(c.object.name, c.object.client), "UNAVAILABLE"} :
         Finish(t, KeyRet("SignHash", ss, c.prov, c.object))
    BY <1>1
  <1> DEFINE r == KeyRet("SignHash", ss, c.prov, c.object)
  <1>3. KeyCall(c)
    BY DEF KeyInv, KeysReach
  <1>4. ss # "UNREACHABLE" /\ ss # "NTE_INVALID_HANDLE"
    BY <1>1, <1>3 DEF AsymmetricSignStatus, KeyCall, Reaching
  <1>5. OpenedExactly(r) /\ KeyUsed(r)
    BY <1>1, <1>3, <1>4 DEF OpenedExactly, KeyUsed, Ret, KeyRet, KeyCall, ValidateKeyHandle
  <1> QED
    BY <1>2, <1>5, ReturnedKept DEF Finish, SignHashAnswered, KeyInv, Functions, KeysReach

LEMMA KeyInvInit == ASSUME Init PROVE KeyInv
  BY DEF Init, KeyInv, Functions, KeysReach, VersionStates

\* What an EnumKeys call in progress is after one turn of the loop.
LEMMA NextTurn ==
  ASSUME NEW c, c.fn = "EnumKeys", KeyCall(c), NEW next, NEW result
  PROVE  [c EXCEPT !.next = next, !.result = result] =
           [fn |-> "EnumKeys", handles |-> c.handles, prov |-> c.prov,
            client |-> c.client, next |-> next, result |-> result]
  <1>1. \E h, p, cl, n, r :
          c = [fn |-> "EnumKeys", handles |-> h, prov |-> p, client |-> cl, next |-> n,
               result |-> r]
    BY DEF KeyCall
  <1>2. PICK h, p, cl, n, r :
          c = [fn |-> "EnumKeys", handles |-> h, prov |-> p, client |-> cl, next |-> n,
               result |-> r]
    BY <1>1
  <1>3. c.handles = h /\ c.prov = p /\ c.client = cl
    BY <1>2
  <1> DEFINE d == [c EXCEPT !.next = next]
  <1>4. d = [fn |-> "EnumKeys", handles |-> h, prov |-> p, client |-> cl, next |-> next,
             result |-> r]
    BY <1>2
  <1>5. [c EXCEPT !.next = next, !.result = result] = [d EXCEPT !.result = result]
    OBVIOUS
  <1> HIDE DEF d
  <1>6. [d EXCEPT !.result = result] =
          [fn |-> "EnumKeys", handles |-> h, prov |-> p, client |-> cl, next |-> next,
           result |-> result]
    BY <1>4
  <1> QED
    BY <1>3, <1>5, <1>6

\* Every step keeps the invariant: one step of the proof for each action.
LEMMA KeyInvNext == ASSUME KeyInv, [Next]_vars PROVE KeyInv'
  <1>1. CASE UNCHANGED vars
    BY <1>1 DEF vars, appVars, KeyInv, Functions, KeysReach
  <1>2. CASE ChangeVersion
    BY <1>2 DEF ChangeVersion, appVars, KeyInv, Functions, KeysReach
  <1>3. ASSUME NEW t \in Threads, Step(t) PROVE KeyInv'
    <2>1. CASE Refused(t)
      BY <2>1, ReturnedKept, OtherReturn DEF Refused, KeyInv, Functions, KeysReach
    <2>2. CASE OpenProvider(t)
      BY <2>2, ReturnedKept, OtherReturn DEF OpenProvider, KeyInv, Functions, KeysReach
    <2>3. CASE FreeProvider(t)
      BY <2>3, ReturnedKept, OtherReturn DEF FreeProvider, KeyInv, Functions, KeysReach
    <2>4. CASE SetProviderProperty(t)
      <3>1. \E ss : Return(t, Ret("SetProviderProperty", ss, {}))
        BY <2>4 DEF SetProviderProperty
      <3> QED
        BY <2>4, <3>1, ReturnedKept, OtherReturn
        DEF SetProviderProperty, KeyInv, Functions, KeysReach
    <2>5. CASE GetProviderProperty(t)
      <3>1. \E ss : Return(t, Ret("GetProviderProperty", ss, {}))
        BY <2>5 DEF GetProviderProperty
      <3> QED
        BY <2>5, <3>1, ReturnedKept, OtherReturn
        DEF GetProviderProperty, KeyInv, Functions, KeysReach
    <2>6. CASE OpenKey(t)
      <3>1. PICK p \in ProvHandles, v \in Versions : \E info \in providers[p] :
              Wait(t, [fn |-> "OpenKey", handles |-> {p}, prov |-> p, name |-> v,
                       client |-> NewKmsClient(info)])
        BY <2>6 DEF OpenKey
      <3>2. PICK info \in providers[p] :
              Wait(t, [fn |-> "OpenKey", handles |-> {p}, prov |-> p, name |-> v,
                       client |-> NewKmsClient(info)])
        BY <3>1
      <3> DEFINE c == [fn |-> "OpenKey", handles |-> {p}, prov |-> p, name |-> v,
                       client |-> NewKmsClient(info)]
      <3>3. KeyCall(c)
        BY DEF KeyCall
      <3>4. Wait(t, c)
        BY <3>2
      <3> HIDE DEF c
      <3> QED
        BY <2>6, <3>3, <3>4, WaitKept DEF OpenKey, KeyInv, Functions
    <2>7. CASE OpenKeyAnswered(t)
      BY <2>7, OpenKeyAnsweredKeeps
    <2>8. CASE FreeKey(t)
      BY <2>8, FreeKeyKeeps
    <2>9. CASE ExportKey(t) \/ GetKeyProperty(t)
      BY <2>9, ReadKeyKeeps DEF ExportKey, GetKeyProperty
    <2>10. CASE SignHash(t)
      BY <2>10, SignHashKeeps
    <2>11. CASE SignHashAnswered(t)
      BY <2>11, SignHashAnsweredKeeps
    <2>12. CASE EnumKeysFirst(t)
      <3>1. \E c : KeyCall(c) /\ Wait(t, c)
        BY <2>12 DEF EnumKeysFirst, KeyCall
      <3> QED
        BY <2>12, <3>1, WaitKept DEF EnumKeysFirst, KeyInv, Functions
    <2>13. CASE BuildCkvListStep(t)
      <3>1. CASE UNCHANGED calls
        BY <2>13, <3>1 DEF BuildCkvListStep, KeyInv, Functions, KeysReach
      <3>2. ASSUME NEW c \in calls[t], c.fn = "EnumKeys", NEW next, NEW result,
                   calls' = [calls EXCEPT ![t] =
                               {[c EXCEPT !.next = next, !.result = result]}]
            PROVE  KeyInv'
        <4> DEFINE d == [c EXCEPT !.next = next, !.result = result]
        <4>1. KeyCall(c)
          BY DEF KeyInv, KeysReach
        <4>2. KeyCall(d)
          <5>1. d = [fn |-> "EnumKeys", handles |-> c.handles, prov |-> c.prov,
                     client |-> c.client, next |-> next, result |-> result]
            BY <3>2, <4>1, NextTurn
          <5> HIDE DEF d
          <5> QED
            BY <5>1 DEF KeyCall
        <4>3. calls' = [calls EXCEPT ![t] = {d}]
          BY <3>2
        <4> HIDE DEF d
        <4> QED
          BY <2>13, <4>2, <4>3 DEF BuildCkvListStep, KeyInv, Functions, KeysReach
      <3> QED
        BY <2>13, <3>1, <3>2 DEF BuildCkvListStep
    <2>14. CASE EnumKeysBuilt(t) \/ EnumKeysAgain(t)
      <3>1. \E ss, about : Return(t, Ret("EnumKeys", ss, about))
        BY <2>14 DEF EnumKeysBuilt, EnumKeysAgain, NextKey
      <3>2. enums' = [u \in Threads |-> enums'[u]]
        BY <2>14 DEF EnumKeysBuilt, EnumKeysAgain, NextKey, KeyInv, Functions
      <3> QED
        BY <2>14, <3>1, <3>2, ReturnedKept, OtherReturn
        DEF EnumKeysBuilt, EnumKeysAgain, KeyInv, Functions, KeysReach
    <2>15. CASE FreeBuffer(t)
      BY <2>15, ReturnedKept, OtherReturn DEF FreeBuffer, KeyInv, Functions, KeysReach
    <2> QED
      BY <1>3, <2>1, <2>2, <2>3, <2>4, <2>5, <2>6, <2>7, <2>8, <2>9, <2>10, <2>11,
         <2>12, <2>13, <2>14, <2>15 DEF Step
  <1> QED
    BY <1>1, <1>2, <1>3 DEF Next

\* Every key object, and every call that works with one, keeps a client that
\* reaches the server, and every result agrees with it (object.cc, bridge.cc).
THEOREM KeyInvariant == Spec => []KeyInv
  BY KeyInvInit, KeyInvNext, PTL DEF Spec

\* OpenKey takes the versions that EnumKeys finds loadable, and only those,
\* whatever the versions are and however they change.
THEOREM OpenKeyExact == Spec => []OpensExactlyLoadable
  <1>1. KeyInv => OpensExactlyLoadable
    BY DEF KeyInv, OpenedExactly, OpensExactlyLoadable
  <1> QED
    BY <1>1, KeyInvariant, PTL

\* A key keeps working when its provider is changed or freed and its handle is
\* given to another one, and never works with another handle.
THEOREM KeysOutliveProviders == Spec => []KeyOutlivesProvider
  <1>1. KeyInv => KeyOutlivesProvider
    BY DEF KeyInv, KeyUsed, KeyOutlivesProvider
  <1> QED
    BY <1>1, KeyInvariant, PTL
-----------------------------------------------------------------------------
\* Enumeration.  A list is made from the first n versions of the configuration:
\* it has them in order, none that was not loadable at some time, and all that
\* were loadable all the time.
ListOf(list, n, window) ==
  /\ \E at \in [DOMAIN list -> 1..n] :
       /\ \A i \in DOMAIN list : list[i].key_name = Config[at[i]]
       /\ \A i, j \in DOMAIN list : i < j => at[i] < at[j]
  /\ \A j \in 1..n :
       Config[j] \in window.always => \E i \in DOMAIN list : list[i].key_name = Config[j]
  /\ \A i \in DOMAIN list :
       /\ list[i].key_name \in window.ever
       /\ list[i].algorithm_identifier \in algorithm_identifiers \cap Range(kAlgorithmNames)

EnumCall(c, window) ==
  c.fn = "EnumKeys" =>
    /\ c.next \in 1..(Len(Config) + 1)
    /\ c.result \in Seq([key_name : Versions,
                         algorithm_identifier : {"ECDSA_P256", "ECDSA_P384"}])
    /\ ListOf(c.result, c.next - 1, window)
    /\ window.always \subseteq Loadable
    /\ Loadable \subseteq window.ever

EnumInv ==
  \A t \in Threads :
    /\ \A c \in calls[t] : EnumCall(c, loadable[t])
    /\ \A e \in enums[t] : ListOf(e.key_details, Len(Config), loadable[t])

\* One turn of the loop of BuildCkvList adds the next version, or not.
LEMMA ListGrows ==
  ASSUME NEW list \in Seq([key_name : Versions,
                           algorithm_identifier : {"ECDSA_P256", "ECDSA_P384"}]),
         NEW n \in 0..(Len(Config) - 1), NEW window, ListOf(list, n, window),
         window.always \subseteq Loadable, Loadable \subseteq window.ever,
         IsLoadable(Config[n + 1])
  PROVE  /\ Append(list, KeyDetails(Config[n + 1])) \in
              Seq([key_name : Versions,
                   algorithm_identifier : {"ECDSA_P256", "ECDSA_P384"}])
         /\ ListOf(Append(list, KeyDetails(Config[n + 1])), n + 1, window)
  <1> DEFINE v == Config[n + 1]
             d == KeyDetails(v)
             longer == Append(list, d)
             Keys == [key_name : Versions,
                      algorithm_identifier : {"ECDSA_P256", "ECDSA_P384"}]
  <1>1. Len(Config) \in Nat /\ n \in Nat /\ v \in Versions
    BY CngConstants DEF CngConstants
  <1>2. GetDetails[Algorithm[v]].algorithm_property \in {"ECDSA_P256", "ECDSA_P384"}
    BY DEF IsLoadable, GetDetails
  <1>3. d \in Keys /\ d.key_name = v /\ v \in window.ever
    BY <1>1, <1>2 DEF KeyDetails, Loadable
  <1>4. d.algorithm_identifier \in algorithm_identifiers \cap Range(kAlgorithmNames)
    <2>1. d.algorithm_identifier \in {"ECDSA_P256", "ECDSA_P384"}
      BY <1>3
    <2>2. kAlgorithmNames[1] = "ECDSA_P256" /\ kAlgorithmNames[2] = "ECDSA_P384"
          /\ 1 \in DOMAIN kAlgorithmNames /\ 2 \in DOMAIN kAlgorithmNames
      BY DEF kAlgorithmNames
    <2> QED
      BY <2>1, <2>2 DEF algorithm_identifiers, Range
  <1> HIDE DEF d, v
  <1>5. /\ longer \in Seq(Keys) /\ Len(list) \in Nat
        /\ DOMAIN list = 1..Len(list) /\ DOMAIN longer = 1..(Len(list) + 1)
        /\ \A i \in 1..Len(list) : longer[i] = list[i]
        /\ longer[Len(list) + 1] = d
    BY <1>3
  <1> HIDE DEF longer
  <1>6. PICK at \in [DOMAIN list -> 1..n] :
          /\ \A i \in DOMAIN list : list[i].key_name = Config[at[i]]
          /\ \A i, j \in DOMAIN list : i < j => at[i] < at[j]
    BY DEF ListOf
  <1> DEFINE to == [i \in DOMAIN longer |-> IF i \in DOMAIN list THEN at[i] ELSE n + 1]
  <1>7. /\ to \in [DOMAIN longer -> 1..(n + 1)]
        /\ \A i \in DOMAIN longer : longer[i].key_name = Config[to[i]]
        /\ \A i, j \in DOMAIN longer : i < j => to[i] < to[j]
    BY <1>1, <1>3, <1>5, <1>6 DEF v
  <1>8. ASSUME NEW j \in 1..(n + 1), Config[j] \in window.always
        PROVE  \E i \in DOMAIN longer : longer[i].key_name = Config[j]
    <2>1. CASE j = n + 1
      BY <1>3, <1>5, <2>1 DEF v
    <2>2. CASE j \in 1..n
      BY <1>5, <1>8, <2>2 DEF ListOf
    <2> QED
      BY <1>1, <2>1, <2>2
  <1>9. \A i \in DOMAIN longer :
          /\ longer[i].key_name \in window.ever
          /\ longer[i].algorithm_identifier \in
               algorithm_identifiers \cap Range(kAlgorithmNames)
    <2> SUFFICES ASSUME NEW i \in DOMAIN longer
                 PROVE  /\ longer[i].key_name \in window.ever
                        /\ longer[i].algorithm_identifier \in
                             algorithm_identifiers \cap Range(kAlgorithmNames)
      OBVIOUS
    <2>1. CASE i \in DOMAIN list
      BY <1>5, <2>1 DEF ListOf
    <2>2. CASE i = Len(list) + 1
      BY SMTT(20), <1>3, <1>4, <1>5, <2>2
    <2> QED
      BY <1>5, <2>1, <2>2
  <1> HIDE DEF to
  <1> QED
    BY <1>5, <1>7, <1>8, <1>9 DEF ListOf, longer, d, v

\* A version that is not loadable is passed over.
LEMMA ListPasses ==
  ASSUME NEW list, NEW n \in 0..(Len(Config) - 1), NEW window, ListOf(list, n, window),
         window.always \subseteq Loadable, ~IsLoadable(Config[n + 1])
  PROVE  ListOf(list, n + 1, window)
  <1>1. Len(Config) \in Nat /\ n \in Nat /\ 1..n \subseteq 1..(n + 1)
    BY CngConstants DEF CngConstants
  <1>2. PICK at \in [DOMAIN list -> 1..n] :
          /\ \A i \in DOMAIN list : list[i].key_name = Config[at[i]]
          /\ \A i, j \in DOMAIN list : i < j => at[i] < at[j]
    BY DEF ListOf
  <1>3. at \in [DOMAIN list -> 1..(n + 1)]
    BY <1>1
  <1>4. Config[n + 1] \notin window.always
    BY DEF Loadable
  <1>5. ASSUME NEW j \in 1..(n + 1), Config[j] \in window.always PROVE j \in 1..n
    BY <1>1, <1>4, <1>5
  <1> QED
    BY <1>2, <1>3, <1>5 DEF ListOf

\* Time only widens the window of an enumeration.
LEMMA WindowWidens ==
  ASSUME NEW list, NEW n, NEW w, NEW x, ListOf(list, n, w),
         x.always \subseteq w.always, w.ever \subseteq x.ever
  PROVE  ListOf(list, n, x)
  BY DEF ListOf

\* A step that neither changes the versions nor the enumerations.
LEMMA EnumFrame ==
  ASSUME EnumInv, UNCHANGED <<vstate, enums, loadable>>,
         \A t \in Threads : \A c \in calls'[t] :
           c \in calls[t] \/ EnumCall(c, loadable[t])
  PROVE  EnumInv'
  <1>1. Loadable' = Loadable
    BY DEF Loadable, IsLoadable
  <1>2. \A t \in Threads : \A c \in calls'[t] : EnumCall(c, loadable[t])
    BY DEF EnumInv
  <1> QED
    BY <1>1, <1>2 DEF EnumInv, EnumCall

LEMMA ChangeVersionKeepsLists ==
  ASSUME Functions, EnumInv, ChangeVersion
  PROVE  EnumInv'
  <1> SUFFICES ASSUME NEW t \in Threads
               PROVE  /\ \A c \in calls[t] : EnumCall(c, loadable[t])'
                      /\ \A e \in enums[t] : ListOf(e.key_details, Len(Config), loadable'[t])
    BY DEF EnumInv, ChangeVersion, appVars, ListOf
  <1>1. CASE \E c \in calls[t] : c.fn = "EnumKeys"
    <2>1. loadable'[t] = [always |-> loadable[t].always \cap Loadable',
                          ever |-> loadable[t].ever \cup Loadable']
      BY <1>1 DEF ChangeVersion
    <2>2. /\ loadable'[t].always \subseteq loadable[t].always \cap Loadable'
          /\ loadable[t].ever \cup Loadable' \subseteq loadable'[t].ever
      BY <2>1
    <2>3. \A e \in enums[t] : ListOf(e.key_details, Len(Config), loadable'[t])
      BY <2>2, WindowWidens DEF EnumInv
    <2>4. ASSUME NEW c \in calls[t], c.fn = "EnumKeys"
          PROVE  /\ c.next \in 1..(Len(Config) + 1)
                 /\ c.result \in Seq([key_name : Versions,
                                      algorithm_identifier : {"ECDSA_P256", "ECDSA_P384"}])
                 /\ ListOf(c.result, c.next - 1, loadable'[t])
                 /\ loadable'[t].always \subseteq Loadable'
                 /\ Loadable' \subseteq loadable'[t].ever
      BY <2>2, <2>4, WindowWidens DEF EnumInv, EnumCall
    <2> QED
      BY <2>3, <2>4 DEF EnumCall, ListOf
  <1>2. CASE \A c \in calls[t] : c.fn # "EnumKeys"
    <2>1. loadable'[t] = loadable[t]
      BY <1>2 DEF ChangeVersion
    <2> QED
      BY <1>2, <2>1 DEF EnumInv, EnumCall
  <1> QED
    BY <1>1, <1>2

LEMMA BuildCkvListStepKeepsLists ==
  ASSUME NEW t \in Threads, KeyInv, EnumInv, BuildCkvListStep(t)
  PROVE  EnumInv'
  <1>1. CASE UNCHANGED calls
    BY <1>1, EnumFrame DEF BuildCkvListStep
  <1>2. ASSUME NEW c \in calls[t], c.fn = "EnumKeys", c.next <= Len(Config),
               calls' = [calls EXCEPT ![t] =
                   {[c EXCEPT !.next = c.next + 1,
                              !.result = IF IsLoadable(Config[c.next])
                                         THEN Append(c.result, KeyDetails(Config[c.next]))
                                         ELSE c.result]}]
        PROVE  EnumInv'
    <2> DEFINE n == c.next - 1
               w == loadable[t]
               longer == IF IsLoadable(Config[c.next])
                         THEN Append(c.result, KeyDetails(Config[c.next])) ELSE c.result
               d == [c EXCEPT !.next = c.next + 1, !.result = longer]
               Keys == [key_name : Versions,
                        algorithm_identifier : {"ECDSA_P256", "ECDSA_P384"}]
    <2>1. /\ c.next \in 1..(Len(Config) + 1) /\ c.result \in Seq(Keys)
          /\ ListOf(c.result, n, w) /\ w.always \subseteq Loadable
          /\ Loadable \subseteq w.ever
      BY <1>2 DEF EnumInv, EnumCall
    <2>2. n \in 0..(Len(Config) - 1) /\ c.next = n + 1 /\ Len(Config) \in Nat
          /\ n + 1 \in 1..Len(Config) /\ n + 2 - 1 = n + 1 /\ c.next + 1 = n + 2
      BY <1>2, <2>1, CngConstants DEF CngConstants
    <2>3. longer \in Seq(Keys) /\ ListOf(longer, n + 1, w)
      BY <2>1, <2>2, ListGrows, ListPasses
    <2>4. d = [fn |-> "EnumKeys", handles |-> c.handles, prov |-> c.prov,
               client |-> c.client, next |-> c.next + 1, result |-> longer]
      <3> HIDE DEF longer
      <3> QED
        BY <1>2, NextTurn DEF KeyInv, KeysReach
    <2>5. calls' = [calls EXCEPT ![t] = {d}]
      BY <1>2
    <2> HIDE DEF longer, d
    <2>6. d.next = n + 2 /\ d.result = longer
      BY <2>2, <2>4
    <2>7. EnumCall(d, w)
      BY SMTT(20), <2>1, <2>2, <2>3, <2>6 DEF EnumCall
    <2>8. UNCHANGED <<vstate, enums, loadable>>
      BY DEF BuildCkvListStep
    <2> QED
      BY <2>5, <2>7, <2>8, EnumFrame DEF KeyInv, Functions
  <1> QED
    BY <1>1, <1>2 DEF BuildCkvListStep

LEMMA EnumInvInit == ASSUME Init PROVE EnumInv
  BY DEF Init, EnumInv

LEMMA EnumKeysFirstKeepsLists ==
  ASSUME NEW t \in Threads, KeyInv, EnumInv, EnumKeysFirst(t)
  PROVE  EnumInv'
  <1>1. PICK p \in ProvHandles : \E info \in providers[p] :
          Wait(t, [fn |-> "EnumKeys", handles |-> {p}, prov |-> p,
                   client |-> NewKmsClient(info), next |-> 1, result |-> <<>>])
    BY DEF EnumKeysFirst
  <1>2. PICK info \in providers[p] :
          Wait(t, [fn |-> "EnumKeys", handles |-> {p}, prov |-> p,
                   client |-> NewKmsClient(info), next |-> 1, result |-> <<>>])
    BY <1>1
  <1> DEFINE w == [always |-> Loadable, ever |-> Loadable]
             c == [fn |-> "EnumKeys", handles |-> {p}, prov |-> p,
                   client |-> NewKmsClient(info), next |-> 1, result |-> <<>>]
  <1>3. /\ enums[t] = {} /\ UNCHANGED <<vstate, enums>>
        /\ loadable' = [loadable EXCEPT ![t] = w]
        /\ calls' = [calls EXCEPT ![t] = {c}]
    BY <1>2 DEF EnumKeysFirst, Wait
  <1>4. ListOf(<<>>, 0, w)
    <2>1. DOMAIN <<>> = {} /\ 1..0 = {}
      OBVIOUS
    <2>2. \E at \in [{} -> {}] : TRUE
      <3>1. [x \in {} |-> x] \in [{} -> {}]
        OBVIOUS
      <3> QED
        BY <3>1
    <2> QED
      BY <2>1, <2>2 DEF ListOf
  <1>5. Len(Config) \in Nat /\ 1 \in 1..(Len(Config) + 1) /\ 1 - 1 = 0
    BY CngConstants DEF CngConstants
  <1>6. Loadable' = Loadable
    BY <1>3 DEF Loadable, IsLoadable
  <1>7. w.always = Loadable /\ w.ever = Loadable /\ c.next = 1 /\ c.result = <<>>
    OBVIOUS
  <1> HIDE DEF w, c
  <1>8. EnumCall(c, w)
    BY <1>4, <1>5, <1>7 DEF EnumCall
  <1>9. \A u \in Threads :
          /\ \A x \in calls'[u] : EnumCall(x, loadable'[u])
          /\ \A e \in enums'[u] : ListOf(e.key_details, Len(Config), loadable'[u])
    BY <1>3, <1>8 DEF EnumInv, KeyInv, Functions
  <1> QED
    BY <1>6, <1>9 DEF EnumInv, EnumCall

LEMMA EnumKeysBuiltKeepsLists ==
  ASSUME NEW t \in Threads, KeyInv, EnumInv, EnumKeysBuilt(t)
  PROVE  EnumInv'
  <1>1. PICK c \in {x \in calls[t] : x.fn = "EnumKeys"} :
          c.next > Len(Config) /\ NextKey(t, [key_details |-> c.result, current |-> 0])
    BY DEF EnumKeysBuilt
  <1>2. c.next - 1 = Len(Config) /\ ListOf(c.result, c.next - 1, loadable[t])
    BY <1>1, CngConstants DEF EnumInv, EnumCall, CngConstants
  <1>3. \E e : enums' = [enums EXCEPT ![t] = {e}] /\ e.key_details = c.result
    <2> DEFINE e == [key_details |-> c.result, current |-> 0]
               f == [e EXCEPT !.current = @ + 1]
    <2>1. e.key_details = c.result /\ f.key_details = c.result
      OBVIOUS
    <2>2. enums' = [enums EXCEPT ![t] = {e}] \/ enums' = [enums EXCEPT ![t] = {f}]
      BY <1>1 DEF NextKey
    <2> QED
      BY <2>1, <2>2
  <1>4. \A u \in Threads : \A e \in enums'[u] :
          ListOf(e.key_details, Len(Config), loadable[u])
    BY <1>2, <1>3 DEF EnumInv, KeyInv, Functions
  <1>5. UNCHANGED <<vstate, loadable>> /\ calls' = [calls EXCEPT ![t] = {}]
    BY DEF EnumKeysBuilt
  <1>6. Loadable' = Loadable
    BY <1>5 DEF Loadable, IsLoadable
  <1> QED
    BY <1>4, <1>5, <1>6 DEF EnumInv, EnumCall, KeyInv, Functions

LEMMA EnumKeysAgainKeepsLists ==
  ASSUME NEW t \in Threads, KeyInv, EnumInv, EnumKeysAgain(t)
  PROVE  EnumInv'
  <1>1. PICK e \in enums[t] : NextKey(t, e)
    BY DEF EnumKeysAgain
  <1>2. PICK f : enums' = [enums EXCEPT ![t] = {f}] /\ f.key_details = e.key_details
    <2>1. [e EXCEPT !.current = @ + 1].key_details = e.key_details
      OBVIOUS
    <2> QED
      BY <1>1, <2>1 DEF NextKey
  <1>3. \A u \in Threads : \A x \in enums'[u] :
          ListOf(x.key_details, Len(Config), loadable[u])
    BY <1>2 DEF EnumInv, KeyInv, Functions
  <1>4. UNCHANGED <<vstate, loadable, calls>>
    BY DEF EnumKeysAgain
  <1>5. Loadable' = Loadable
    BY <1>4 DEF Loadable, IsLoadable
  <1> QED
    BY <1>3, <1>4, <1>5 DEF EnumInv, EnumCall

\* The calls that have nothing to do with enumerations.
LEMMA OtherCallsKeepLists ==
  ASSUME NEW t \in Threads, KeyInv, EnumInv, UNCHANGED <<vstate, enums, loadable>>,
         \/ UNCHANGED calls
         \/ calls' = [calls EXCEPT ![t] = {}]
         \/ \E c : calls' = [calls EXCEPT ![t] = {c}] /\ c.fn # "EnumKeys"
  PROVE  EnumInv'
  <1>1. \A u \in Threads : \A c \in calls'[u] :
          c \in calls[u] \/ EnumCall(c, loadable[u])
    BY DEF KeyInv, Functions, EnumCall
  <1> QED
    BY <1>1, EnumFrame

LEMMA EnumInvNext == ASSUME KeyInv, EnumInv, [Next]_vars PROVE EnumInv'
  <1>1. CASE UNCHANGED vars
    BY <1>1, EnumFrame DEF vars, appVars
  <1>2. CASE ChangeVersion
    BY <1>2, ChangeVersionKeepsLists DEF KeyInv
  <1>3. ASSUME NEW t \in Threads, Step(t) PROVE EnumInv'
    <2>1. CASE Refused(t) \/ OpenProvider(t) \/ FreeProvider(t)
               \/ SetProviderProperty(t) \/ GetProviderProperty(t)
               \/ FreeKey(t) \/ ExportKey(t) \/ GetKeyProperty(t)
      <3>1. UNCHANGED <<vstate, calls, enums, loadable>>
        BY <2>1 DEF Refused, OpenProvider, FreeProvider, SetProviderProperty,
           GetProviderProperty, FreeKey, ExportKey, GetKeyProperty, ReadKey
      <3> QED
        BY <3>1, OtherCallsKeepLists
    <2>2. CASE OpenKey(t) \/ SignHash(t)
      <3>1. ASSUME NEW c, Wait(t, c), c.fn # "EnumKeys" PROVE EnumInv'
        <4>1. calls' = [calls EXCEPT ![t] = {c}]
          BY <3>1 DEF Wait
        <4>2. UNCHANGED <<vstate, enums, loadable>>
          BY <2>2 DEF OpenKey, SignHash
        <4> QED
          BY <3>1, <4>1, <4>2, OtherCallsKeepLists
      <3>2. CASE OpenKey(t)
        <4>1. PICK p, v, cl : Wait(t, [fn |-> "OpenKey", handles |-> {p}, prov |-> p,
                                       name |-> v, client |-> cl])
          BY <3>2 DEF OpenKey
        <4> DEFINE c == [fn |-> "OpenKey", handles |-> {p}, prov |-> p, name |-> v,
                         client |-> cl]
        <4>2. c.fn # "EnumKeys" /\ Wait(t, c)
          BY <4>1
        <4> HIDE DEF c
        <4> QED
          BY <3>1, <4>2
      <3>3. CASE SignHash(t)
        <4>1. CASE UNCHANGED calls
          BY <3>3, <4>1, OtherCallsKeepLists DEF SignHash
        <4>2. CASE calls' # calls
          <5>1. PICK p, k, o : Wait(t, [fn |-> "SignHash", handles |-> {k}, prov |-> p,
                                        object |-> o])
            BY <3>3, <4>2 DEF SignHash
          <5> DEFINE c == [fn |-> "SignHash", handles |-> {k}, prov |-> p, object |-> o]
          <5>2. c.fn # "EnumKeys" /\ Wait(t, c)
            BY <5>1
          <5> HIDE DEF c
          <5> QED
            BY <3>1, <5>2
        <4> QED
          BY <4>1, <4>2
      <3> QED
        BY <2>2, <3>2, <3>3
    <2>3. CASE OpenKeyAnswered(t) \/ SignHashAnswered(t)
      <3>1. calls' = [calls EXCEPT ![t] = {}] /\ UNCHANGED <<vstate, enums, loadable>>
        BY <2>3 DEF OpenKeyAnswered, SignHashAnswered, Finish
      <3> QED
        BY <3>1, OtherCallsKeepLists
    <2>4. CASE EnumKeysFirst(t)
      BY <2>4, EnumKeysFirstKeepsLists
    <2>5. CASE BuildCkvListStep(t)
      BY <2>5, BuildCkvListStepKeepsLists
    <2>6. CASE EnumKeysBuilt(t)
      BY <2>6, EnumKeysBuiltKeepsLists
    <2>7. CASE EnumKeysAgain(t)
      BY <2>7, EnumKeysAgainKeepsLists
    <2>8. CASE FreeBuffer(t)
      <3>1. /\ UNCHANGED <<vstate, calls>> /\ calls[t] = {}
            /\ enums' = [enums EXCEPT ![t] = {}]
            /\ \A u \in Threads \ {t} : loadable'[u] = loadable[u]
        BY <2>8 DEF FreeBuffer, Free, KeyInv, Functions
      <3>2. Loadable' = Loadable
        BY <3>1 DEF Loadable, IsLoadable
      <3>3. \A u \in Threads :
              /\ \A x \in calls'[u] : EnumCall(x, loadable'[u])
              /\ \A e \in enums'[u] : ListOf(e.key_details, Len(Config), loadable'[u])
        BY <3>1 DEF EnumInv, KeyInv, Functions
      <3> QED
        BY <3>2, <3>3 DEF EnumInv, EnumCall
    <2> QED
      BY <1>3, <2>1, <2>2, <2>3, <2>4, <2>5, <2>6, <2>7, <2>8 DEF Step
  <1> QED
    BY <1>1, <1>2, <1>3 DEF Next

\* Every enumeration is faithful to the configuration and to the versions as
\* they were while its list was made, for configurations of any length.
THEOREM EnumerationsFaithful == Spec => []EnumerationIsFaithful
  <1>1. EnumInv => EnumerationIsFaithful
    <2> SUFFICES ASSUME EnumInv, NEW t \in Threads, NEW e \in enums[t],
                        NEW names, names = [i \in DOMAIN e.key_details |->
                                              e.key_details[i].key_name]
                 PROVE  /\ \E at \in [DOMAIN names -> DOMAIN Config] :
                             /\ \A i \in DOMAIN names : names[i] = Config[at[i]]
                             /\ \A i, j \in DOMAIN names : i < j => at[i] < at[j]
                        /\ Range(Config) \cap loadable[t].always \subseteq Range(names)
                        /\ Range(names) \subseteq loadable[t].ever
                        /\ \A i \in DOMAIN e.key_details :
                             e.key_details[i].algorithm_identifier \in
                               algorithm_identifiers \cap Range(kAlgorithmNames)
      BY DEF EnumerationIsFaithful
    <2>1. ListOf(e.key_details, Len(Config), loadable[t])
      BY DEF EnumInv
    <2>2. DOMAIN Config = 1..Len(Config) /\ DOMAIN names = DOMAIN e.key_details
      BY CngConstants DEF CngConstants
    <2>3. \E at \in [DOMAIN names -> DOMAIN Config] :
             /\ \A i \in DOMAIN names : names[i] = Config[at[i]]
             /\ \A i, j \in DOMAIN names : i < j => at[i] < at[j]
      BY <2>1, <2>2 DEF ListOf
    <2>4. Range(Config) \cap loadable[t].always \subseteq Range(names)
      BY <2>1, <2>2 DEF ListOf, Range
    <2>5. Range(names) \subseteq loadable[t].ever
      BY <2>1, <2>2 DEF ListOf, Range
    <2> QED
      BY SMTT(20), <2>1, <2>3, <2>4, <2>5 DEF ListOf
  <1> QED
    BY <1>1, EnumInvInit, EnumInvNext, KeyInvariant, PTL DEF Spec
============================================================================
