------------------------------ MODULE KmsClient ------------------------------
(***************************************************************************)
(* The client of Cloud KMS (common/kms_client.cc) as a thread of the       *)
(* library uses it: one call at a time, of a cryptographic method          *)
(* (KmsCrypto) or of one that loops (KmsClientLoops).                      *)
(***************************************************************************)
EXTENDS KmsCrypto, KmsClientLoops

clientVars == <<cryptoVars, loopVars>>

Init == CryptoInit /\ LoopInit

CryptoCall == loop = "idle" /\ CryptoNext /\ UNCHANGED loopVars

LoopCall == phase = "idle" /\ artifact = {} /\ LoopNext /\ UNCHANGED cryptoVars

Next == CryptoCall \/ LoopCall

Spec == Init /\ [][Next]_clientVars /\ WF_clientVars(LoopStep /\ UNCHANGED cryptoVars)
=============================================================================
