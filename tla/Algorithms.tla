----------------------------- MODULE Algorithms -----------------------------
(***************************************************************************)
(* The tables that decide what a key can do: the Cloud KMS algorithms the  *)
(* library supports (kmsp11/algorithm_details.cc), the mechanisms it       *)
(* advertises (kmsp11/mechanism.cc), the usage attributes of its objects   *)
(* (kmsp11/object.cc), the checks C_EncryptInit, C_DecryptInit,            *)
(* C_SignInit and C_VerifyInit make of a key and a mechanism               *)
(* (kmsp11/operation), and the algorithms of the fake server               *)
(* (fakekms/kms_enums.go).  Names drop the prefixes CKM_, CKK_ and CKO_.   *)
(***************************************************************************)
EXTENDS Naturals, FiniteSets, TLC

NoDigest == "none"

Details(purpose, allowed, key_type, bits, gen, digest) ==
  [purpose |-> purpose, allowed_mechanisms |-> allowed, key_type |-> key_type,
   key_bit_length |-> bits, key_gen_mechanism |-> gen,
   digest_mechanism |-> digest]

EcDetails ==
  LET Ec(bits, mechanism, digest) ==
        Details("ASYMMETRIC_SIGN", {"ECDSA", mechanism}, "EC", bits,
                "EC_KEY_PAIR_GEN", digest)
  IN  "EC_SIGN_P256_SHA256" :> Ec(256, "ECDSA_SHA256", "SHA256") @@
      "EC_SIGN_P384_SHA384" :> Ec(384, "ECDSA_SHA384", "SHA384")

Rsa(purpose, allowed, bits, digest) ==
  Details(purpose, allowed, "RSA", bits, "RSA_PKCS_KEY_PAIR_GEN", digest)

OaepDetails ==
  LET Oaep(bits, digest) ==
        Rsa("ASYMMETRIC_DECRYPT", {"RSA_PKCS_OAEP"}, bits, digest)
  IN  "RSA_DECRYPT_OAEP_2048_SHA256" :> Oaep(2048, "SHA256") @@
      "RSA_DECRYPT_OAEP_3072_SHA256" :> Oaep(3072, "SHA256") @@
      "RSA_DECRYPT_OAEP_4096_SHA256" :> Oaep(4096, "SHA256") @@
      "RSA_DECRYPT_OAEP_4096_SHA512" :> Oaep(4096, "SHA512")

Pkcs1Details ==
  LET Pkcs1(bits, mechanism, digest) ==
        Rsa("ASYMMETRIC_SIGN", {"RSA_PKCS", mechanism}, bits, digest)
  IN  "RSA_SIGN_PKCS1_2048_SHA256" :> Pkcs1(2048, "SHA256_RSA_PKCS", "SHA256") @@
      "RSA_SIGN_PKCS1_3072_SHA256" :> Pkcs1(3072, "SHA256_RSA_PKCS", "SHA256") @@
      "RSA_SIGN_PKCS1_4096_SHA256" :> Pkcs1(4096, "SHA256_RSA_PKCS", "SHA256") @@
      "RSA_SIGN_PKCS1_4096_SHA512" :> Pkcs1(4096, "SHA512_RSA_PKCS", "SHA512")

PssDetails ==
  LET Pss(bits, mechanism, digest) ==
        Rsa("ASYMMETRIC_SIGN", {"RSA_PKCS_PSS", mechanism}, bits, digest)
  IN  "RSA_SIGN_PSS_2048_SHA256" :> Pss(2048, "SHA256_RSA_PKCS_PSS", "SHA256") @@
      "RSA_SIGN_PSS_3072_SHA256" :> Pss(3072, "SHA256_RSA_PKCS_PSS", "SHA256") @@
      "RSA_SIGN_PSS_4096_SHA256" :> Pss(4096, "SHA256_RSA_PKCS_PSS", "SHA256") @@
      "RSA_SIGN_PSS_4096_SHA512" :> Pss(4096, "SHA512_RSA_PKCS_PSS", "SHA512")

RawPkcs1Details ==
  LET Raw(bits) ==
        Rsa("ASYMMETRIC_SIGN",
            {"RSA_PKCS", "SHA256_RSA_PKCS", "SHA512_RSA_PKCS"}, bits, NoDigest)
  IN  "RSA_SIGN_RAW_PKCS1_2048" :> Raw(2048) @@
      "RSA_SIGN_RAW_PKCS1_3072" :> Raw(3072) @@
      "RSA_SIGN_RAW_PKCS1_4096" :> Raw(4096)

\* The key type of an HMAC key has the name of its one mechanism.
HmacDetails ==
  LET Hmac(bits, mechanism) ==
        Details("MAC", {mechanism}, mechanism, bits, "GENERIC_SECRET_KEY_GEN",
                NoDigest)
  IN  "HMAC_SHA1"   :> Hmac(160, "SHA_1_HMAC") @@
      "HMAC_SHA224" :> Hmac(224, "SHA224_HMAC") @@
      "HMAC_SHA256" :> Hmac(256, "SHA256_HMAC") @@
      "HMAC_SHA384" :> Hmac(384, "SHA384_HMAC") @@
      "HMAC_SHA512" :> Hmac(512, "SHA512_HMAC")

AesDetails ==
  LET Aes(bits, allowed) ==
        Details("RAW_ENCRYPT_DECRYPT", allowed, "AES", bits, "AES_KEY_GEN",
                NoDigest)
  IN  "AES_128_GCM" :> Aes(128, {"CLOUDKMS_AES_GCM"}) @@
      "AES_256_GCM" :> Aes(256, {"CLOUDKMS_AES_GCM"}) @@
      "AES_128_CTR" :> Aes(128, {"AES_CTR"}) @@
      "AES_256_CTR" :> Aes(256, {"AES_CTR"}) @@
      "AES_128_CBC" :> Aes(128, {"AES_CBC", "AES_CBC_PAD"}) @@
      "AES_256_CBC" :> Aes(256, {"AES_CBC", "AES_CBC_PAD"})

\* GetDetails: kAlgorithmDetails as a function of the algorithm.
GetDetails ==
  EcDetails @@ OaepDetails @@ Pkcs1Details @@ PssDetails @@ RawPkcs1Details @@
  HmacDetails @@ AesDetails

Algorithms == DOMAIN GetDetails

IsRawRsaAlgorithm(alg) == alg \in DOMAIN RawPkcs1Details
-----------------------------------------------------------------------------
\* AllMechanisms: the flags and the key sizes C_GetMechanismInfo reports.
Info(min, max, flags) == [min |-> min, max |-> max, flags |-> flags]

Signs == {"Sign", "Verify"}
Crypts == {"Encrypt", "Decrypt"}

EcMechanisms ==
  "ECDSA"           :> Info(256, 384, Signs) @@
  "ECDSA_SHA256"    :> Info(256, 256, Signs) @@
  "ECDSA_SHA384"    :> Info(384, 384, Signs) @@
  "EC_KEY_PAIR_GEN" :> Info(256, 384, {"GenerateKeyPair"})

RsaMechanisms ==
  "RSA_PKCS_KEY_PAIR_GEN" :> Info(2048, 4096, {"GenerateKeyPair"}) @@
  "RSA_PKCS"              :> Info(2048, 4096, Signs) @@
  "SHA256_RSA_PKCS"       :> Info(2048, 4096, Signs) @@
  "SHA512_RSA_PKCS"       :> Info(2048, 4096, Signs) @@
  "RSA_PKCS_OAEP"         :> Info(2048, 4096, Crypts) @@
  "RSA_PKCS_PSS"          :> Info(2048, 4096, Signs) @@
  "SHA256_RSA_PKCS_PSS"   :> Info(2048, 4096, Signs) @@
  "SHA512_RSA_PKCS_PSS"   :> Info(4096, 4096, Signs)

\* In bits for GENERIC_SECRET_KEY_GEN, in bytes for the others.
MacMechanisms ==
  "GENERIC_SECRET_KEY_GEN" :> Info(160, 256, {"Generate"}) @@
  "SHA_1_HMAC"             :> Info(20, 20, Signs) @@
  "SHA224_HMAC"            :> Info(28, 28, Signs) @@
  "SHA256_HMAC"            :> Info(32, 32, Signs) @@
  "SHA384_HMAC"            :> Info(48, 48, Signs) @@
  "SHA512_HMAC"            :> Info(48, 48, Signs)

\* In bytes.
AesMechanisms ==
  "AES_KEY_GEN"      :> Info(16, 32, Crypts) @@
  "CLOUDKMS_AES_GCM" :> Info(16, 32, Crypts) @@
  "AES_CTR"          :> Info(16, 32, Crypts) @@
  "AES_CBC"          :> Info(16, 32, Crypts) @@
  "AES_CBC_PAD"      :> Info(16, 32, Crypts)

AllMechanisms ==
  EcMechanisms @@ RsaMechanisms @@ MacMechanisms @@ AesMechanisms

\* The mechanism AES_GCM is refused by name; it is in no table.
Mechanisms == DOMAIN AllMechanisms \cup {"AES_GCM"}
-----------------------------------------------------------------------------
\* Objects: the classes Object::NewKeyPair and Object::NewSecretKey give a
\* version, and the Boolean usage attributes that are TRUE in each.
Asymmetric == {"ASYMMETRIC_SIGN", "ASYMMETRIC_DECRYPT"}

ClassesOf(alg) ==
  IF GetDetails[alg].purpose \in Asymmetric
  THEN {"PUBLIC_KEY", "PRIVATE_KEY"} ELSE {"SECRET_KEY"}

Keys == UNION {{[alg |-> a, class |-> c] : c \in ClassesOf(a)} : a \in Algorithms}

\* Mutant: every public key verifies.
PublicKeyUsageVerifies(alg) == {"Verify"}

PublicKeyUsage(alg) ==
  {f \in {"Encrypt", "Verify"} :
     GetDetails[alg].purpose = IF f = "Encrypt" THEN "ASYMMETRIC_DECRYPT"
                                                ELSE "ASYMMETRIC_SIGN"}

PrivateKeyUsage(alg) ==
  {f \in {"Decrypt", "Sign"} :
     GetDetails[alg].purpose = IF f = "Decrypt" THEN "ASYMMETRIC_DECRYPT"
                                                ELSE "ASYMMETRIC_SIGN"}

SecretKeyUsage(alg) ==
  {f \in Signs \cup Crypts :
     GetDetails[alg].purpose = IF f \in Crypts THEN "RAW_ENCRYPT_DECRYPT"
                                               ELSE "MAC"}

Usage(key) ==
  CASE key.class = "PUBLIC_KEY"  -> PublicKeyUsage(key.alg)
    [] key.class = "PRIVATE_KEY" -> PrivateKeyUsage(key.alg)
    [] key.class = "SECRET_KEY"  -> SecretKeyUsage(key.alg)
-----------------------------------------------------------------------------
\* What C_EncryptInit, C_DecryptInit, C_SignInit and C_VerifyInit check.  The
\* mechanism's parameters are absent, "right" (the structure, hash, mask
\* function, salt and vector length the mechanism wants of this key) or
\* "wrong" (any of these differs).
Params == {"none", "right", "wrong"}

\* The digest a hashing mechanism applies, NoDigest for the others.
DigestForMechanism(mechanism) ==
  CASE mechanism \in {"ECDSA_SHA256", "SHA256_RSA_PKCS", "SHA256_RSA_PKCS_PSS"} ->
         "SHA256"
    [] mechanism = "ECDSA_SHA384" -> "SHA384"
    [] mechanism \in {"SHA512_RSA_PKCS", "SHA512_RSA_PKCS_PSS"} -> "SHA512"
    [] OTHER -> NoDigest

DigestSize == "SHA256" :> 32 @@ "SHA384" :> 48 @@ "SHA512" :> 64

\* Mutant: the allowed mechanisms are not looked up.
CheckKeyPreconditionsTypeOnly(key_type, class, mechanism, key) ==
  IF GetDetails[key.alg].key_type # key_type THEN "KEY_TYPE_INCONSISTENT"
  ELSE IF key.class = class THEN "OK" ELSE "KEY_FUNCTION_NOT_PERMITTED"

CheckKeyPreconditions(key_type, class, mechanism, key) ==
  IF GetDetails[key.alg].key_type # key_type THEN "KEY_TYPE_INCONSISTENT"
  ELSE IF /\ key.class = class
          /\ mechanism \in GetDetails[key.alg].allowed_mechanisms
       THEN "OK" ELSE "KEY_FUNCTION_NOT_PERMITTED"

EnsureNoParameters(params) ==
  IF params = "none" THEN "OK" ELSE "MECHANISM_PARAM_INVALID"

\* Of ValidatePssParameters, ValidateRsaOaepParameters, ExtractGcmParameters,
\* ExtractIv and the vector of AES-CBC.
ValidateParameters(params) ==
  IF params = "right" THEN "OK" ELSE "MECHANISM_PARAM_INVALID"

\* The checks in their order: the first that fails is the answer.
First(a, b) == IF a # "OK" THEN a ELSE b

EcdsaMechanisms == {"ECDSA", "ECDSA_SHA256", "ECDSA_SHA384"}
Pkcs1Mechanisms == {"RSA_PKCS", "SHA256_RSA_PKCS", "SHA512_RSA_PKCS"}
PssMechanisms == {"RSA_PKCS_PSS", "SHA256_RSA_PKCS_PSS", "SHA512_RSA_PKCS_PSS"}
HmacMechanisms ==
  {"SHA_1_HMAC", "SHA224_HMAC", "SHA256_HMAC", "SHA384_HMAC", "SHA512_HMAC"}
CbcMechanisms == {"AES_CBC", "AES_CBC_PAD"}

\* The inner signer or verifier is made for the mechanism that does not hash,
\* and only that one is looked up among the allowed mechanisms.
NewEcdsa(key, class, params) ==
  First(CheckKeyPreconditions("EC", class, "ECDSA", key),
        EnsureNoParameters(params))

NewRsaPkcs1(key, class, params) ==
  First(CheckKeyPreconditions("RSA", class, "RSA_PKCS", key),
        EnsureNoParameters(params))

\* RsaRawPkcs1Signer::New and RsaRawPkcs1Verifier::New.
NewRsaRawPkcs1(key, class, params) ==
  First(CheckKeyPreconditions("RSA", class, "RSA_PKCS", key),
        EnsureNoParameters(params))

NewRsaPss(key, class, params) ==
  First(CheckKeyPreconditions("RSA", class, "RSA_PKCS_PSS", key),
        ValidateParameters(params))

NewHmac(key, mechanism, params) ==
  First(CheckKeyPreconditions(mechanism, "SECRET_KEY", mechanism, key),
        EnsureNoParameters(params))

NewRsaOaep(key, class, params) ==
  First(CheckKeyPreconditions("RSA", class, "RSA_PKCS_OAEP", key),
        ValidateParameters(params))

NewAesGcm(key, params) ==
  First(CheckKeyPreconditions("AES", "SECRET_KEY", "CLOUDKMS_AES_GCM", key),
        ValidateParameters(params))

NewAesCtr(key, params) ==
  First(CheckKeyPreconditions("AES", "SECRET_KEY", "AES_CTR", key),
        ValidateParameters(params))

NewAesCbc(key, mechanism, params) ==
  First(CheckKeyPreconditions("AES", "SECRET_KEY", mechanism, key),
        ValidateParameters(params))

\* NewSignOp and NewVerifyOp differ in the class of an asymmetric key.
NewSignatureOp(key, class, mechanism, params) ==
  CASE mechanism \in EcdsaMechanisms -> NewEcdsa(key, class, params)
    [] mechanism \in Pkcs1Mechanisms ->
         IF GetDetails[key.alg].digest_mechanism = NoDigest
         THEN NewRsaRawPkcs1(key, class, params)
         ELSE NewRsaPkcs1(key, class, params)
    [] mechanism \in PssMechanisms -> NewRsaPss(key, class, params)
    [] mechanism \in HmacMechanisms -> NewHmac(key, mechanism, params)
    [] OTHER -> "MECHANISM_INVALID"

NewSignOp(key, mechanism, params) ==
  NewSignatureOp(key, "PRIVATE_KEY", mechanism, params)

NewVerifyOp(key, mechanism, params) ==
  NewSignatureOp(key, "PUBLIC_KEY", mechanism, params)

NewCipherOp(key, class, mechanism, params) ==
  CASE mechanism = "RSA_PKCS_OAEP" -> NewRsaOaep(key, class, params)
    [] mechanism = "CLOUDKMS_AES_GCM" -> NewAesGcm(key, params)
    [] mechanism = "AES_CTR" -> NewAesCtr(key, params)
    [] mechanism \in CbcMechanisms -> NewAesCbc(key, mechanism, params)
    [] OTHER -> "MECHANISM_INVALID"

NewEncryptOp(key, mechanism, params) ==
  NewCipherOp(key, "PUBLIC_KEY", mechanism, params)

NewDecryptOp(key, mechanism, params) ==
  NewCipherOp(key, "PRIVATE_KEY", mechanism, params)

NewOp(fn, key, mechanism, params) ==
  CASE fn = "Sign"    -> NewSignOp(key, mechanism, params)
    [] fn = "Verify"  -> NewVerifyOp(key, mechanism, params)
    [] fn = "Encrypt" -> NewEncryptOp(key, mechanism, params)
    [] fn = "Decrypt" -> NewDecryptOp(key, mechanism, params)
============================================================================
