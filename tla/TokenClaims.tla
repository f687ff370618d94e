---------------------------- MODULE TokenClaims ----------------------------
(***************************************************************************)
(* What the session tests say of C_GenerateKey[Pair] and C_DestroyObject:  *)
(* a generated key "is immediately available", a destroyed one "is         *)
(* immediately absent".  Two history variables tell apart the cases in     *)
(* which another client of the key ring interferes.                        *)
(***************************************************************************)
EXTENDS Token

VARIABLES
    steady,   \* threads whose version nobody else touched in their refresh
    destroyed \* versions that DestroyObject destroyed, and not enabled since

claimVars == <<steady, destroyed>>

CInit == Init /\ steady = {} /\ destroyed = {}

\* DestroyObject returns CKR_OK when it has replaced the store.
DestroyReturns(t) == pc[t] = "swap" /\ fn[t] = "Destroy" /\ pc'[t] = "idle"

CNext ==
    /\ Next
    /\ steady' = {t \in Threads :
                    /\ t \in steady \/ pc'[t] = "list_keys"
                    /\ \/ fn'[t] = "Generate" /\ ckv'[t] \in Available'
                       \/ fn'[t] = "Destroy" /\ ckv'[t] \notin Available'}
    /\ destroyed' =
         (destroyed \cup {ckv[t] : t \in {u \in steady : DestroyReturns(u)}})
           \ Available'

CSpec == CInit /\ [][CNext]_<<vars, claimVars>>

----------------------------------------------------------------------------
\* Session::GenerateKey and GenerateKeyPair find the objects of the version
\* they have created when nobody has disabled it since
\* (GeneratedKeyPairIsImmediatelyAvailable, session_test.cc:1347).
GeneratedKeyIsImmediatelyAvailable ==
    \A t \in steady : pc[t] \in {"find_public", "find_private", "find_secret"}
                        => ckv[t] \in VersionsOf(objects)

\* Once DestroyObject has returned CKR_OK, the objects of the version are gone
\* unless somebody enables it again
\* (DestroyedKeyPairIsImmediatelyAbsent, session_test.cc:1673).
DestroyedKeyIsImmediatelyAbsent == destroyed \cap VersionsOf(objects) = {}
============================================================================
