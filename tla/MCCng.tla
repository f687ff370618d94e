-------------------------------- MODULE MCCng --------------------------------
EXTENDS Cng

CONSTANTS t1, t2, v1, v2, v3

\* A P-256 and a P-384 version, and one that is not in the HSM.
MCProtectionLevel == v1 :> "HSM" @@ v2 :> "HSM" @@ v3 :> "SOFTWARE"
MCAlgorithm ==
  v1 :> "EC_SIGN_P256_SHA256" @@ v2 :> "EC_SIGN_P384_SHA384" @@
  v3 :> "EC_SIGN_P256_SHA256"
MCConfig == <<v2, v3, v1>>

\* One thread enumerates and changes properties, the other uses keys.
MCDoes ==
  t1 :> {"SetProviderProperty", "EnumKeys"} @@
  t2 :> {"OpenProvider", "FreeProvider", "GetProviderProperty", "OpenKey",
         "FreeKey", "SignHash", "ExportKey", "GetKeyProperty"}

Symmetry == Permutations(ProvHandles)
=============================================================================
