--------------------------- MODULE FakeKmsCrypto ----------------------------
(***************************************************************************)
(* The cryptographic calls of the fake server (fakekms/symmetric_rpcs.go   *)
(* and fakekms/asymmetric_rpcs.go), as operators from a request to the set *)
(* of its replies: no reply is an error status.                            *)
(*                                                                         *)
(* A byte string is a value: what it is (a term) and how long it is.  The  *)
(* checksum of a value is the value itself, so that two values with the    *)
(* same checksum are equal: collisions of CRC32C are not modelled.  A      *)
(* request holds a value and perhaps a checksum for each of its fields; an *)
(* empty field and an absent one are the same on the wire.                 *)
(***************************************************************************)
EXTENDS Algorithms, Sequences

Value(term, size) == [term |-> term, size |-> size]
Empty == Value(<<"empty">>, 0)
Data(n) == IF n = 0 THEN Empty ELSE Value(<<"data", n>>, n)
Nonce(n) == Value(<<"nonce", n>>, n)
Hash(h, v) == Value(<<"hash", h, v>>, DigestSize[h])

\* A DigestInfo: 19 bytes name the hash function.
DigestInfo(h, digest) == Value(<<"info", h, digest>>, digest.size + 19)

\* Padded to whole blocks, see Pad in kmsp11/util/padding.cc.
BlockSize == 16
Pad(v) == Value(<<"pad", v>>, v.size + (BlockSize - (v.size % BlockSize)))

\* Bytes that stand for nothing the application or the server made.
Junk(size) == Value(<<"junk", size>>, size)
-----------------------------------------------------------------------------
\* The algorithms of the server: purpose, size of the key, hash function.
Def(purpose, bits, hash) == [Purpose |-> purpose, bits |-> bits, hash |-> hash]

RawEncryptDefs ==
  LET Aes(bits) == Def("RAW_ENCRYPT_DECRYPT", bits, NoDigest)
  IN  "AES_128_GCM" :> Aes(128) @@ "AES_256_GCM" :> Aes(256) @@
      "AES_128_CTR" :> Aes(128) @@ "AES_256_CTR" :> Aes(256) @@
      "AES_128_CBC" :> Aes(128) @@ "AES_256_CBC" :> Aes(256)

AsymmetricDecryptDefs ==
  LET Oaep(bits, hash) == Def("ASYMMETRIC_DECRYPT", bits, hash)
  IN  "RSA_DECRYPT_OAEP_2048_SHA256" :> Oaep(2048, "SHA256") @@
      "RSA_DECRYPT_OAEP_3072_SHA256" :> Oaep(3072, "SHA256") @@
      "RSA_DECRYPT_OAEP_4096_SHA256" :> Oaep(4096, "SHA256") @@
      "RSA_DECRYPT_OAEP_4096_SHA512" :> Oaep(4096, "SHA512")

SignDef(bits, hash) == Def("ASYMMETRIC_SIGN", bits, hash)

\* The server also makes P-224 and P-521 keys, which the library does not load.
EcSignDefs ==
  "EC_SIGN_P256_SHA256" :> SignDef(256, "SHA256") @@
  "EC_SIGN_P384_SHA384" :> SignDef(384, "SHA384")

RsaSignDefs ==
  "RSA_SIGN_PKCS1_2048_SHA256" :> SignDef(2048, "SHA256") @@
  "RSA_SIGN_PKCS1_3072_SHA256" :> SignDef(3072, "SHA256") @@
  "RSA_SIGN_PKCS1_4096_SHA256" :> SignDef(4096, "SHA256") @@
  "RSA_SIGN_PKCS1_4096_SHA512" :> SignDef(4096, "SHA512") @@
  "RSA_SIGN_PSS_2048_SHA256" :> SignDef(2048, "SHA256") @@
  "RSA_SIGN_PSS_3072_SHA256" :> SignDef(3072, "SHA256") @@
  "RSA_SIGN_PSS_4096_SHA256" :> SignDef(4096, "SHA256") @@
  "RSA_SIGN_PSS_4096_SHA512" :> SignDef(4096, "SHA512") @@
  "RSA_SIGN_RAW_PKCS1_2048" :> SignDef(2048, NoDigest) @@
  "RSA_SIGN_RAW_PKCS1_3072" :> SignDef(3072, NoDigest) @@
  "RSA_SIGN_RAW_PKCS1_4096" :> SignDef(4096, NoDigest)

MacDefs ==
  "HMAC_SHA1"   :> Def("MAC", 160, "SHA1") @@
  "HMAC_SHA224" :> Def("MAC", 224, "SHA224") @@
  "HMAC_SHA256" :> Def("MAC", 256, "SHA256") @@
  "HMAC_SHA384" :> Def("MAC", 384, "SHA384") @@
  "HMAC_SHA512" :> Def("MAC", 512, "SHA512")

algorithmDef ==
  RawEncryptDefs @@ AsymmetricDecryptDefs @@ EcSignDefs @@ RsaSignDefs @@ MacDefs

\* Length of an HMAC: as long as its hash, and as its key.
MacSize(alg) == algorithmDef[alg].bits \div 8

GcmAlgorithms == {"AES_128_GCM", "AES_256_GCM"}
CbcAlgorithms == {"AES_128_CBC", "AES_256_CBC"}
-----------------------------------------------------------------------------
maxPlaintextSize == 64 * 1024
maxCiphertextSize == 10 * maxPlaintextSize
maxIvSize == 16
defaultTagLength == 16

Given(req, f) == req.val[f] # Empty
crc32c(v) == v
Mismatch(req, f) == req.crc[f] # {} /\ req.crc[f] # {crc32c(req.val[f])}
Verified(req) == {f \in DOMAIN req.crc : req.crc[f] # {}}

Reply(f, v, flags) ==
  [val |-> f :> v, crc |-> f :> {crc32c(v)}, flags |-> flags]

IsFor(alg, purpose) == algorithmDef[alg].Purpose = purpose

\* What a signature is made of, and the bytes the server returns: an ASN.1
\* structure for ECDSA, as long as the modulus for RSA.
Signature(alg, signed) ==
  IF alg \in DOMAIN EcSignDefs
  THEN Value(<<"asn1", alg, signed>>, algorithmDef[alg].bits \div 4 + 8)
  ELSE Value(<<"sig", alg, signed>>, algorithmDef[alg].bits \div 8)

FakeAsymmetricSign(alg, req) ==
  LET hash == algorithmDef[alg].hash
      signed == CASE ~Given(req, "data")  -> req.val.digest
                  [] hash = NoDigest      -> req.val.data
                  [] OTHER                -> Hash(hash, req.val.data)
  IN  IF /\ IsFor(alg, "ASYMMETRIC_SIGN")
         /\ req.crc.data = {} \/ req.crc.digest = {}
         /\ Given(req, "digest") # Given(req, "data")
         /\ hash = NoDigest => Given(req, "data")
         /\ Given(req, "data") => ~Mismatch(req, "data")
         /\ hash # NoDigest => signed.size = DigestSize[hash]
         /\ req.crc.digest \in {{}, {crc32c(signed)}}
         /\ hash = NoDigest => signed.size <= algorithmDef[alg].bits \div 8 - 11
      THEN {Reply("signature", Signature(alg, signed), Verified(req))}
      ELSE {}

FakeAsymmetricDecrypt(alg, req) ==
  LET ct == req.val.ciphertext
  IN  IF /\ IsFor(alg, "ASYMMETRIC_DECRYPT")
         /\ Given(req, "ciphertext")
         /\ ct.size <= maxCiphertextSize
         /\ ~Mismatch(req, "ciphertext")
         /\ ct.term[1] = "oaep" /\ ct.term[2] = alg
      THEN {Reply("plaintext", ct.term[3], Verified(req))}
      ELSE {}

\* aes.NewCipher, Seal, XORKeyStream and CryptBlocks.
Encrypted(alg, iv, aad, pt) ==
  Value(<<"ct", alg, iv, aad, pt>>,
        pt.size + IF alg \in GcmAlgorithms THEN defaultTagLength ELSE 0)

\* A vector of another size than a block stops the server, which is an error
\* status for the client.
FakeRawEncrypt(alg, req) ==
  LET pt == req.val.plaintext
      gcm == alg \in GcmAlgorithms
      nonce == CASE gcm               -> Nonce(12)
                 [] Given(req, "iv")  -> req.val.iv
                 [] OTHER             -> Nonce(16)
      ct == Encrypted(alg, nonce, req.val.aad, pt)
  IN  IF /\ IsFor(alg, "RAW_ENCRYPT_DECRYPT")
         /\ Given(req, "plaintext")
         /\ pt.size <= maxPlaintextSize
         /\ ~Mismatch(req, "plaintext")
         /\ gcm => ~Given(req, "iv") /\ (Given(req, "aad") => ~Mismatch(req, "aad"))
         /\ ~gcm => ~Given(req, "aad") /\ nonce.size = BlockSize
         /\ alg \in CbcAlgorithms => pt.size % BlockSize = 0
      THEN {[val |-> [ciphertext |-> ct, iv |-> nonce],
             crc |-> [ciphertext |-> {crc32c(ct)}, iv |-> {crc32c(nonce)}],
             flags |-> Verified(req)]}
      ELSE {}

\* The plaintext of a ciphertext made with this key and vector.  For any other,
\* GCM reports a failure and the other modes return bytes that mean nothing.
Decrypted(alg, iv, aad, ct) ==
  LET made == /\ ct.term[1] = "ct"
              /\ ct.term[2] = alg /\ ct.term[3] = iv /\ ct.term[4] = aad
  IN  CASE made -> {ct.term[5]}
        [] ~made /\ alg \in GcmAlgorithms -> {}
        [] OTHER -> {Junk(ct.size)}

FakeRawDecrypt(alg, req) ==
  LET ct == req.val.ciphertext
      iv == req.val.iv
  IN  IF /\ IsFor(alg, "RAW_ENCRYPT_DECRYPT")
         /\ Given(req, "ciphertext")
         /\ ct.size <= maxCiphertextSize
         /\ ~Mismatch(req, "ciphertext")
         /\ iv.size <= maxIvSize
         /\ Given(req, "iv") => ~Mismatch(req, "iv")
         /\ Given(req, "aad") => alg \in GcmAlgorithms /\ ~Mismatch(req, "aad")
         /\ IF alg \in GcmAlgorithms THEN iv.size = 12 ELSE iv.size = BlockSize
         /\ alg \in CbcAlgorithms => ct.size % BlockSize = 0
      THEN {Reply("plaintext", pt, Verified(req)) :
              pt \in Decrypted(alg, iv, req.val.aad, ct)}
      ELSE {}

Mac(alg, data) == Value(<<"mac", alg, data>>, MacSize(alg))

FakeMacSign(alg, req) ==
  IF /\ IsFor(alg, "MAC")
     /\ Given(req, "data")
     /\ req.val.data.size <= maxPlaintextSize
     /\ ~Mismatch(req, "data")
  THEN {Reply("mac", Mac(alg, req.val.data), Verified(req))}
  ELSE {}

FakeMacVerify(alg, req) ==
  LET equal == req.val.mac = Mac(alg, req.val.data)
  IN  IF /\ IsFor(alg, "MAC")
         /\ Given(req, "data")
         /\ req.val.data.size <= maxPlaintextSize
         /\ ~Mismatch(req, "data")
         /\ Given(req, "mac")
         /\ req.val.mac.size = MacSize(alg)
         /\ ~Mismatch(req, "mac")
      THEN {[val |-> <<>>, crc |-> <<>>,
             flags |-> Verified(req) \cup
                       IF equal THEN {"success", "integrity"} ELSE {}]}
      ELSE {}

\* GenerateRandomBytes of a location, for the HSM; the length is a field.
FakeGenerateRandomBytes(req) ==
  LET n == req.val.length_bytes.size
  IN  IF n \in 8..1024 THEN {Reply("data", Nonce(n), {})} ELSE {}
=============================================================================
