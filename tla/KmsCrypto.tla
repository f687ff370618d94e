------------------------------ MODULE KmsCrypto ------------------------------
(***************************************************************************)
(* One cryptographic call of an application, end to end: the checks of     *)
(* C_SignInit and its like and of the operation (kmsp11/operation), the    *)
(* request and the integrity checks of the client (common/kms_client.cc),  *)
(* the server (FakeKmsCrypto), and a connection that may lose or change    *)
(* fields of the request and of the reply, which is what the checksums of  *)
(* the client are there for.  A signature or ciphertext that a call made   *)
(* without such a fault is kept as the artifact of its key, and later      *)
(* calls verify or decrypt it.  Sessions, buffers and multi-part           *)
(* operations are in Session; here an operation is one single-part call.   *)
(***************************************************************************)
EXTENDS FakeKmsCrypto

CONSTANTS
  Algs,       \* the algorithms of the key versions in use
  Sizes,      \* the lengths of the application's data
  RandomSizes,  \* and of its buffers for random bytes
  MaxFaults   \* bound on the faults of the connection during one call

ASSUME CryptoConstants ==
  /\ Algs \subseteq Algorithms /\ MaxFaults \in Nat
  /\ Sizes \subseteq Nat /\ RandomSizes \subseteq Nat

VARIABLES
  phase,      \* "idle", "sending", "replying" or "done"
  call,       \* the call under way: {} or {c}
  request,    \* the request as the client made it: {} or {m}
  received,   \* the request as the server got it: {} or {m}
  answer,     \* the reply as the server made it: {} or {m}
  wire,       \* the message in flight: {} or {m}
  result,     \* what the call returned: {} or {r}
  faults,     \* faults of the connection during this call
  artifact    \* a signature or ciphertext made earlier: {} or {a}

rpcVars == <<request, received, answer, wire>>
cryptoVars == <<phase, call, rpcVars, result, faults, artifact>>

Functions == {"Sign", "Verify", "Encrypt", "Decrypt"}

CryptoInit ==
  /\ phase = "idle" /\ call = {} /\ request = {} /\ received = {}
  /\ answer = {} /\ wire = {} /\ result = {} /\ faults = 0 /\ artifact = {}
-----------------------------------------------------------------------------
\* The operations of the library.
KeyBytes(alg) == GetDetails[alg].key_bit_length \div 8
Hashing(alg) == GetDetails[alg].digest_mechanism
RsaPkcs1OverheadBytes == 11
MaxPlaintextBytes == 64 * 1024
MaxCiphertextBytes == MaxPlaintextBytes + 16
MaxMacDataBytes == 64 * 1024

Request(rpc, val, checked) ==
  [rpc |-> rpc, val |-> val,
   crc |-> [f \in DOMAIN val |-> IF f \in checked THEN {crc32c(val[f])} ELSE {}]]

\* ExtractDigest: the digest inside a DigestInfo for the key's hash function.
ExtractDigest(v, hash) ==
  IF v.term[1] = "info" /\ v.term[2] = hash THEN {v.term[3]} ELSE {}

\* KmsDigestingSigner::Sign and KmsDigestingVerifier::Verify: what they hand to
\* the signer or verifier inside.
DigestedInput(c) ==
  LET hash == DigestForMechanism(c.mechanism)
  IN  CASE hash = NoDigest -> c.data
        [] IsRawRsaAlgorithm(c.key.alg) -> DigestInfo(hash, Hash(hash, c.data))
        [] OTHER -> Hash(hash, c.data)

\* What is signed for a call, if its size is right: the raw data, or a digest
\* as long as the key's hash function makes it.
RawInput(c) ==
  {v \in {DigestedInput(c)} :
     v.size <= KeyBytes(c.key.alg) - RsaPkcs1OverheadBytes}

PrehashedInput(c) ==
  LET hash == Hashing(c.key.alg)
      given == IF c.mechanism = "RSA_PKCS" THEN ExtractDigest(c.data, hash)
                                           ELSE {DigestedInput(c)}
  IN  {v \in given : v.size = DigestSize[hash]}

AsymmetricInput(c) ==
  IF IsRawRsaAlgorithm(c.key.alg) THEN RawInput(c) ELSE PrehashedInput(c)

\* KmsClient::AsymmetricSign sends the data if there is any, else the digest,
\* and refuses a request that has neither.
AsymmetricSignRequest(c) ==
  {Request("AsymmetricSign", [data |-> v, digest |-> Empty], {"data"}) :
     v \in {w \in AsymmetricInput(c) : IsRawRsaAlgorithm(c.key.alg) /\ w # Empty}}
  \cup
  {Request("AsymmetricSign", [data |-> Empty, digest |-> v], {"digest"}) :
     v \in {w \in AsymmetricInput(c) : ~IsRawRsaAlgorithm(c.key.alg)}}

\* Mutant: no limit on the data.
MacSignRequestUnlimited(c) == {Request("MacSign", [data |-> c.data], {"data"})}

MacSignRequest(c) ==
  {Request("MacSign", [data |-> v], {"data"}) :
     v \in {w \in {c.data} : w.size <= MaxMacDataBytes}}

MacVerifyRequest(c) ==
  IF c.data.size <= MaxMacDataBytes /\ c.sig.size = KeyBytes(c.key.alg)
  THEN {Request("MacVerify", [data |-> c.data, mac |-> c.sig], {"data", "mac"})}
  ELSE {}

RawFields == {"plaintext", "ciphertext", "aad", "iv"}

\* AesGcmEncrypter, AesCtrEncrypter and AesCbcEncrypter.  The length is
\* checked before the padding is added.
RawEncryptRequest(c) ==
  LET pt == IF c.mechanism = "AES_CBC_PAD" THEN Pad(c.data) ELSE c.data
      gcm == c.mechanism = "CLOUDKMS_AES_GCM"
  IN  IF /\ c.data.size <= MaxPlaintextBytes
         /\ c.mechanism = "AES_CBC" => c.data.size % BlockSize = 0
      THEN {Request("RawEncrypt",
                    [plaintext |-> pt,
                     aad |-> IF gcm THEN c.aad ELSE Empty,
                     iv |-> IF gcm THEN Empty ELSE c.iv], RawFields)}
      ELSE {}

RawDecryptRequest(c) ==
  IF c.data.size <= MaxCiphertextBytes
  THEN {Request("RawDecrypt",
                [ciphertext |-> c.data, iv |-> c.iv,
                 aad |-> IF c.mechanism = "CLOUDKMS_AES_GCM" THEN c.aad ELSE Empty],
                RawFields)}
  ELSE {}

AsymmetricDecryptRequest(c) ==
  IF c.data.size = KeyBytes(c.key.alg)
  THEN {Request("AsymmetricDecrypt", [ciphertext |-> c.data], {"ciphertext"})}
  ELSE {}

\* Session::GenerateRandom: the length of the buffer.
GenerateRandomRequest(c) ==
  IF c.data.size \in 8..1024
  THEN {Request("GenerateRandomBytes", [length_bytes |-> c.data], {})}
  ELSE {}

\* The request a call sends: none when the library refuses the call.
RequestOf(c) ==
  LET mac == GetDetails[c.key.alg].purpose = "MAC"
      rsa == GetDetails[c.key.alg].key_type = "RSA"
  IN  CASE c.fn = "Sign"    -> IF mac THEN MacSignRequest(c)
                                      ELSE AsymmetricSignRequest(c)
        [] c.fn = "Verify"  -> MacVerifyRequest(c)
        [] c.fn = "Encrypt" -> RawEncryptRequest(c)
        [] c.fn = "Decrypt" -> IF rsa THEN AsymmetricDecryptRequest(c)
                                      ELSE RawDecryptRequest(c)
        [] c.fn = "GenerateRandom" -> GenerateRandomRequest(c)
-----------------------------------------------------------------------------
\* What the library makes of a reply, or without one.  The third part of a
\* result is the vector AES-GCM leaves with the caller.
Result(rv, out, iv) == [rv |-> rv, out |-> out, iv |-> iv]
Failed(rv) == Result(rv, Empty, Empty)

\* EcdsaSigAsn1ToP1363: the two numbers of the signature, side by side.
EcdsaSigLengthP1363(alg) == 2 * KeyBytes(alg)
EcdsaSigAsn1ToP1363(v) ==
  IF v.term[1] = "asn1"
  THEN {Value(<<"p1363", v.term[2], v.term[3]>>, EcdsaSigLengthP1363(v.term[2]))}
  ELSE {}

\* EcdsaVerifyP1363, RsaVerifyPkcs1, RsaVerifyPss and RsaVerifyRawPkcs1: the
\* signature is one of the key over this input.
VerifiesLocally(c) ==
  \E v \in AsymmetricInput(c) :
     c.sig \in IF GetDetails[c.key.alg].key_type = "EC"
               THEN EcdsaSigAsn1ToP1363(Signature(c.key.alg, v))
               ELSE {Signature(c.key.alg, v)}

EncryptRsaOaep(c) ==
  IF c.data.size <= KeyBytes(c.key.alg) - 2 * DigestSize[Hashing(c.key.alg)] - 2
  THEN Result("OK", Value(<<"oaep", c.key.alg, c.data>>, KeyBytes(c.key.alg)), Empty)
  ELSE Failed("DATA_LEN_RANGE")

\* Public key operations need no server.
IsLocal(c) == c.key.class = "PUBLIC_KEY"

LocalResult(c) ==
  CASE c.fn = "Encrypt" -> EncryptRsaOaep(c)
    [] c.fn = "Verify" /\ VerifiesLocally(c) -> Result("OK", Empty, Empty)
    [] c.fn = "Verify" /\ ~VerifiesLocally(c) -> Failed("SIGNATURE_INVALID")

\* A checksum that is absent reads as 0, the checksum of no bytes.
CRC32CMatches(m, f) == m.crc[f] = {m.val[f]} \/ (m.crc[f] = {} /\ m.val[f] = Empty)

\* The checks of the methods of KmsClient after a reply.
\* Mutant: the verified flags of the reply are not looked at.
AsymmetricSignAcceptsUnverified(req, m) == CRC32CMatches(m, "signature")

AsymmetricSignAccepts(req, m) ==
  /\ CRC32CMatches(m, "signature")
  /\ IF Given(req, "data") THEN "data" \in m.flags ELSE "digest" \in m.flags

AsymmetricDecryptAccepts(m) ==
  CRC32CMatches(m, "plaintext") /\ "ciphertext" \in m.flags

MacSignAccepts(m) == CRC32CMatches(m, "mac") /\ "data" \in m.flags

MacVerifyAccepts(m) ==
  /\ ("success" \in m.flags) = ("integrity" \in m.flags)
  /\ {"data", "mac"} \subseteq m.flags

RawDecryptAccepts(m) == CRC32CMatches(m, "plaintext")

RawEncryptAccepts(m) ==
  CRC32CMatches(m, "ciphertext") /\ {"plaintext", "aad", "iv"} \subseteq m.flags

ClientAccepts(req, m) ==
  CASE req.rpc = "AsymmetricSign"      -> AsymmetricSignAccepts(req, m)
    [] req.rpc = "AsymmetricDecrypt"   -> AsymmetricDecryptAccepts(m)
    [] req.rpc = "MacSign"             -> MacSignAccepts(m)
    [] req.rpc = "MacVerify"           -> MacVerifyAccepts(m)
    [] req.rpc = "RawDecrypt"          -> RawDecryptAccepts(m)
    [] req.rpc = "RawEncrypt"          -> RawEncryptAccepts(m)
    [] req.rpc = "GenerateRandomBytes" -> TRUE

\* KmsPrehashedSigner::CopySignature, EcdsaSigner::CopySignature; the signers
\* of raw RSA and of HMAC copy what they get.
CopySignature(c, v) ==
  CASE GetDetails[c.key.alg].key_type = "EC" -> EcdsaSigAsn1ToP1363(v)
    [] Hashing(c.key.alg) # NoDigest ->
         IF v.size = KeyBytes(c.key.alg) THEN {v} ELSE {}
    [] OTHER -> {v}

\* Unpad: the outcomes for a text, each with the unpadded text or without one.
\* Bytes that are not a padded text may happen to end like one.
\* Of an empty text it reads a byte that is not there, and refuses every value.
Unpad(v) ==
  CASE v.term[1] = "pad" -> {{v.term[2]}}
    [] v.size = 0 -> {{}}
    [] OTHER -> {{}, {Junk(v.size - 1)}}

OkOr(outs, rv) ==
  IF outs = {} THEN {Failed(rv)} ELSE {Result("OK", o, Empty) : o \in outs}

SignResult(c, m) ==
  OkOr(CopySignature(c, m.val[IF "mac" \in DOMAIN m.val THEN "mac" ELSE "signature"]),
       "INTERNAL")

VerifyResult(m) ==
  {IF "success" \in m.flags THEN Result("OK", Empty, Empty)
                            ELSE Failed("SIGNATURE_INVALID")}

\* Mutant: the vector of the reply is not compared.
EncryptResultAnyVector(c, m) ==
  {Result("OK", m.val.ciphertext,
          IF c.mechanism = "CLOUDKMS_AES_GCM" THEN m.val.iv ELSE c.iv)}

EncryptResult(c, m) ==
  {CASE c.mechanism = "CLOUDKMS_AES_GCM" ->
          Result("OK", m.val.ciphertext, m.val.iv)
     [] c.mechanism # "CLOUDKMS_AES_GCM" /\ m.val.iv = c.iv ->
          Result("OK", m.val.ciphertext, c.iv)
     [] OTHER -> Failed("INTERNAL")}

\* Mutant: the padding is left on.
DecryptResultPadded(c, m) == {Result("OK", m.val.plaintext, Empty)}

DecryptResult(c, m) ==
  IF c.mechanism = "AES_CBC_PAD"
  THEN UNION {OkOr(outs, "INTERNAL") : outs \in Unpad(m.val.plaintext)}
  ELSE {Result("OK", m.val.plaintext, Empty)}

RandomResult(c, m) ==
  {IF m.val.data.size = c.data.size THEN Result("OK", m.val.data, Empty)
                                    ELSE Failed("INTERNAL")}

ResultsOf(c, m) ==
  CASE c.fn = "Sign"    -> SignResult(c, m)
    [] c.fn = "Verify"  -> VerifyResult(m)
    [] c.fn = "Encrypt" -> EncryptResult(c, m)
    [] c.fn = "Decrypt" -> DecryptResult(c, m)
    [] c.fn = "GenerateRandom" -> RandomResult(c, m)

\* The handler of the server for a request.
FakeReplies(alg, req) ==
  CASE req.rpc = "AsymmetricSign"    -> FakeAsymmetricSign(alg, req)
    [] req.rpc = "AsymmetricDecrypt" -> FakeAsymmetricDecrypt(alg, req)
    [] req.rpc = "RawEncrypt"        -> FakeRawEncrypt(alg, req)
    [] req.rpc = "RawDecrypt"        -> FakeRawDecrypt(alg, req)
    [] req.rpc = "MacSign"           -> FakeMacSign(alg, req)
    [] req.rpc = "MacVerify"         -> FakeMacVerify(alg, req)
    [] req.rpc = "GenerateRandomBytes" -> FakeGenerateRandomBytes(req)
-----------------------------------------------------------------------------
\* The application's inputs: plain data, a digest, a DigestInfo.
Inputs ==
  {Data(n) : n \in Sizes} \cup
  UNION {{Hash(h, Data(1)), DigestInfo(h, Hash(h, Data(1)))} : h \in DOMAIN DigestSize}

KeysInUse == {k \in Keys : k.alg \in Algs}
Vector(n, size) == IF size = 0 THEN Empty ELSE Value(<<"vector", n>>, size)

Call(fn, offer, data, sig, aad, iv) ==
  [fn |-> fn, key |-> offer[1], mechanism |-> offer[2], params |-> offer[3],
   data |-> data, sig |-> sig, aad |-> aad, iv |-> iv]

Finish(r) == phase' = "done" /\ result' = {r}

\* The operation itself, after its C_...Init.
Start(c) ==
  /\ call' = {c}
  /\ \/ IsLocal(c) /\ Finish(LocalResult(c)) /\ UNCHANGED rpcVars
     \/ /\ ~IsLocal(c) /\ RequestOf(c) = {}
        /\ Finish(Failed("REFUSED_LOCALLY")) /\ UNCHANGED rpcVars
     \/ \E m \in IF IsLocal(c) THEN {} ELSE RequestOf(c) :
          /\ phase' = "sending" /\ request' = {m} /\ wire' = {m}
          /\ UNCHANGED <<received, answer, result>>
  /\ UNCHANGED <<faults, artifact>>

\* The keys, mechanisms and parameters C_...Init takes, and the others.
Offers == KeysInUse \X Mechanisms \X Params
Taken(fn) == {o \in Offers : NewOp(fn, o[1], o[2], o[3]) = "OK"}
TakenFor(fn, alg) == {o \in Taken(fn) : o[1].alg = alg}

InitFails ==
  /\ phase = "idle" /\ artifact = {}
  /\ \E fn \in Functions : \E o \in Offers \ Taken(fn) :
       /\ call' = {Call(fn, o, Empty, Empty, Empty, Empty)}
       /\ Finish(Failed(NewOp(fn, o[1], o[2], o[3])))
  /\ UNCHANGED <<rpcVars, faults, artifact>>

Sign ==
  /\ phase = "idle" /\ artifact = {}
  /\ \E o \in Taken("Sign"), v \in Inputs :
       Start(Call("Sign", o, v, Empty, Empty, Empty))

Verify ==
  /\ phase = "idle"
  /\ \E a \in {x \in artifact : x.call.fn = "Sign"} :
       \E o \in TakenFor("Verify", a.call.key.alg), v \in Inputs,
          sig \in {a.out, Junk(a.out.size)} :
          Start(Call("Verify", o, v, sig, Empty, Empty))

Aads(o) == IF o[2] = "CLOUDKMS_AES_GCM" THEN {Empty, Data(1)} ELSE {Empty}

Encrypt ==
  /\ phase = "idle" /\ artifact = {}
  /\ \E o \in Taken("Encrypt"), n \in Sizes : \E aad \in Aads(o) :
       Start(Call("Encrypt", o, Data(n), Empty, aad, Vector(1, BlockSize)))

Decrypt ==
  /\ phase = "idle"
  /\ \E a \in {x \in artifact : x.call.fn = "Encrypt"} :
       \E o \in TakenFor("Decrypt", a.call.key.alg), iv \in {a.iv, Vector(2, a.iv.size)},
          ct \in {a.out, Junk(a.out.size)} :
          \E aad \in Aads(o) : Start(Call("Decrypt", o, ct, Empty, aad, iv))

\* C_GenerateRandom needs no key.
NoOffer == <<[alg |-> "none", class |-> "none"], "none", "none">>

GenerateRandom ==
  /\ phase = "idle" /\ artifact = {}
  /\ \E n \in RandomSizes :
       Start(Call("GenerateRandom", NoOffer, Data(n), Empty, Empty, Empty))

\* The connection loses or changes a value or a checksum of the message in
\* flight, or a flag of a reply.
Noise == Value(<<"noise">>, 1)
Changed(v) == IF v = Empty THEN Junk(1) ELSE Junk(v.size)

FaultyMessages(m) ==
  UNION {{[m EXCEPT !.val[f] = Empty], [m EXCEPT !.val[f] = Changed(m.val[f])],
          [m EXCEPT !.crc[f] = {}], [m EXCEPT !.crc[f] = {Noise}]} :
            f \in DOMAIN m.val}

FaultyFlags(m) ==
  {[m EXCEPT !.flags = @ \ {f}] : f \in m.flags} \cup
  {[m EXCEPT !.flags = @ \cup {f}] : f \in {"success", "integrity"}}

Corrupt ==
  /\ phase \in {"sending", "replying"} /\ faults < MaxFaults
  /\ \E m \in wire :
       \E n \in FaultyMessages(m) \cup
                IF phase = "replying" THEN FaultyFlags(m) ELSE {} :
          n # m /\ wire' = {n}
  /\ faults' = faults + 1
  /\ UNCHANGED <<phase, call, request, received, answer, result, artifact>>

\* The server answers, refuses the request, or cannot be reached.
Serve ==
  /\ phase = "sending"
  /\ \E c \in call, m \in wire : \E r \in FakeReplies(c.key.alg, m) :
       received' = {m} /\ answer' = {r} /\ wire' = {r}
  /\ phase' = "replying"
  /\ UNCHANGED <<call, request, result, faults, artifact>>

Refuse ==
  /\ phase = "sending"
  /\ \E c \in call, m \in wire : FakeReplies(c.key.alg, m) = {} /\ received' = {m}
  /\ wire' = {}
  /\ Finish(Failed("REFUSED"))
  /\ UNCHANGED <<call, request, answer, faults, artifact>>

ServerFails ==
  /\ phase = "sending"
  /\ wire' = {}
  /\ Finish(Failed("UNAVAILABLE"))
  /\ UNCHANGED <<call, request, received, answer, faults, artifact>>

\* The client checks the reply and the operation finishes with it.
Receive ==
  /\ phase = "replying"
  /\ \E c \in call, req \in request, m \in wire :
       \E r \in IF ClientAccepts(req, m) THEN ResultsOf(c, m)
                                         ELSE {Failed("INTEGRITY")} : Finish(r)
  /\ UNCHANGED <<call, rpcVars, faults, artifact>>

\* The call returns; what it made without a fault is kept for later calls.
Return ==
  /\ phase = "done"
  /\ artifact' = {[call |-> x[1], out |-> x[2].out, iv |-> x[2].iv] :
                    x \in {y \in call \X result :
                             /\ y[1].fn \in {"Sign", "Encrypt"}
                             /\ y[2].rv = "OK" /\ faults = 0}}
  /\ phase' = "idle" /\ call' = {} /\ result' = {} /\ faults' = 0
  /\ request' = {} /\ received' = {} /\ answer' = {} /\ wire' = {}

CryptoNext ==
  \/ InitFails \/ Sign \/ Verify \/ Encrypt \/ Decrypt \/ GenerateRandom
  \/ Corrupt \/ Serve \/ Refuse \/ ServerFails \/ Receive \/ Return

CryptoSpec == CryptoInit /\ [][CryptoNext]_cryptoVars
-----------------------------------------------------------------------------
Done == phase = "done"

\* Integrity: a call that succeeds used the answer of the server to the request
\* of the client, whatever the connection lost or changed, however often.  The
\* exceptions are the gaps of the checks in kms_client.cc.  Additional data
\* that is lost is not noticed, since the server compares the checksums of the
\* fields it got.  RawDecrypt: the client does not look at the verified flags,
\* so a field that lost its checksum may differ, and only GCM notices.  The
\* vector of a RawEncrypt reply has a checksum that is not compared; CTR and
\* CBC compare the vector, GCM hands it to the caller.  A reply that lost both
\* a value and its checksum reads as an empty value with the checksum 0, which
\* only the signers that know their length refuse.  The answer of MacVerify is
\* two flags that may both have been changed.  And GenerateRandomBytes checks
\* nothing but the length.
Integrity ==
  \A c \in call, r \in result, req \in request, rec \in received, ans \in answer,
     m \in wire :
    Done /\ r.rv = "OK" /\ c.fn \in Functions =>
      /\ \A f \in DOMAIN req.val :
           \/ rec.val[f] = req.val[f]
           \/ f = "aad" /\ rec.val[f] = Empty
           \/ /\ req.rpc = "RawDecrypt" /\ rec.crc[f] = {}
              /\ c.key.alg \notin GcmAlgorithms
      /\ \A f \in DOMAIN ans.val :
           \/ m.val[f] = ans.val[f]
           \/ f = "iv" /\ c.key.alg \in GcmAlgorithms
           \/ /\ m.val[f] = Empty /\ m.crc[f] = {}
              /\ c.fn = "Sign" => Hashing(c.key.alg) = NoDigest
      /\ req.rpc = "MacVerify" =>
           ("success" \in ans.flags) = ("integrity" \in m.flags) \/ faults >= 2

\* The results of a call when the server gets request q and no reply is changed.
FaultlessResults(c, q) ==
  UNION {ResultsOf(c, rep) : rep \in FakeReplies(c.key.alg, q)}

\* OneFaultIsHarmless: with at most one fault, the result of a successful call
\* is one the same call has without faults, except for two gaps above in GCM.
\* When the additional data is lost on the way, C_Encrypt makes a ciphertext
\* without it, and C_Decrypt takes a ciphertext made without it for one made
\* with it.  When the vector of the reply is lost or changed, C_Encrypt hands
\* out the right ciphertext with the wrong vector.
OneFaultIsHarmless ==
  \A c \in call, r \in result, req \in request, rec \in received :
    Done /\ r.rv = "OK" /\ faults <= 1 /\ c.fn \in Functions =>
      \/ r \in FaultlessResults(c, req)
      \/ /\ c.mechanism = "CLOUDKMS_AES_GCM"
         /\ rec = [req EXCEPT !.val["aad"] = Empty]
         /\ r \in FaultlessResults(c, rec)
      \/ /\ c.mechanism = "CLOUDKMS_AES_GCM" /\ c.fn = "Encrypt"
         /\ \E x \in FaultlessResults(c, req) : r = [x EXCEPT !.iv = r.iv]

\* OnlyAdvertised: whatever C_...Init takes, a call succeeds only with a
\* mechanism that CKA_ALLOWED_MECHANISMS lists for the key and that
\* C_GetMechanismInfo gives for this function and size of key.  C_SignInit and
\* C_VerifyInit look up the mechanism that does not hash and take, for
\* example, SHA512_RSA_PKCS with a SHA-256 key: the call fails later, on the
\* length of the digest.  The sizes listed for SHA512_HMAC do not include its
\* keys, which have 64 bytes (kmsp11/mechanism.cc:188).
OnlyAdvertised ==
  \A c \in call, r \in result :
    Done /\ r.rv = "OK" /\ c.fn \in Functions =>
      LET info == AllMechanisms[c.mechanism]
          details == GetDetails[c.key.alg]
          size == IF details.purpose \in Asymmetric THEN details.key_bit_length
                                                    ELSE KeyBytes(c.key.alg)
      IN  /\ c.mechanism \in details.allowed_mechanisms
          /\ c.fn \in info.flags
          /\ c.mechanism # "SHA512_HMAC" => size \in info.min .. info.max

\* UsageIsExact: the usage attributes of an object (CKA_SIGN, CKA_VERIFY,
\* CKA_ENCRYPT, CKA_DECRYPT) say which C_...Init has a mechanism for it.
UsageIsExact ==
  \A c \in {x \in call : x.fn \in Functions} :
    c.fn \in Usage(c.key) <=>
      \E m \in Mechanisms, p \in Params : NewOp(c.fn, c.key, m, p) = "OK"

\* NoLateRefusal: a request that the library lets through is not refused by
\* the server over its contents, except empty input, a ciphertext that was not
\* made this way, and a text for AES_CBC_PAD of the largest size.  Its length
\* is checked before the padding is added, and the padding of a text of whole
\* blocks is one more block (padding.cc:26).
NoLateRefusal ==
  \A c \in call, r \in result :
    Done /\ r.rv = "REFUSED" /\ faults = 0 =>
      \/ c.data = Empty
      \/ c.fn = "Decrypt" /\ c \notin
           {[c EXCEPT !.data = a.out, !.iv = a.iv, !.aad = a.call.aad] : a \in artifact}
      \/ c.mechanism = "AES_CBC_PAD" /\ c.data.size = MaxPlaintextBytes

\* What a signature covers, as the standard defines the mechanisms.
Covered(c) ==
  LET hash == DigestForMechanism(c.mechanism)
  IN  CASE hash # NoDigest -> DigestInfo(hash, Hash(hash, c.data))
        [] c.mechanism \in {"ECDSA", "RSA_PKCS_PSS"} ->
             DigestInfo(Hashing(c.key.alg), c.data)
        [] OTHER -> c.data

\* RoundTrip: without faults, C_Verify takes a signature that C_Sign made
\* exactly when both calls cover the same bytes, and C_Decrypt of what
\* C_Encrypt made returns the text.  For GCM every change to the ciphertext,
\* the vector or the additional data is an error.
RoundTrip ==
  \A c \in call, r \in result, a \in artifact :
    Done /\ faults = 0 /\ r.rv # "UNAVAILABLE" =>
      LET same == c.data = a.out /\ c.aad = a.call.aad /\
                  (a.iv # Empty => c.iv = a.iv)
      IN  /\ c.fn = "Verify" =>
               (r.rv = "OK" <=> c.sig = a.out /\ Covered(c) = Covered(a.call))
          /\ c.fn = "Decrypt" /\ same /\ c.mechanism = a.call.mechanism =>
               r.rv = "OK" /\ r.out = a.call.data
          /\ c.fn = "Decrypt" /\ ~same /\ c.mechanism = "CLOUDKMS_AES_GCM" =>
               r.rv # "OK"
============================================================================
