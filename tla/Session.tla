------------------------------ MODULE Session ------------------------------
(***************************************************************************)
(* The operations of one PKCS #11 session: C_FindObjects*, C_Encrypt*,     *)
(* C_Decrypt*, C_Sign* and C_Verify* (main/bridge.cc), the session's one   *)
(* operation slot (session.cc) and the mechanisms (operation/).            *)
(*                                                                         *)
(* An action is one call: PKCS #11 lets an application use a session from  *)
(* one thread at a time.  The token's objects change between calls, and    *)
(* every RPC may fail.  Data are short sequences of bytes.  What a cipher  *)
(* or a signer computes is stood for by the input it was given.            *)
(***************************************************************************)
EXTENDS Integers, Sequences, FiniteSets

CONSTANTS
    Handles,    \* object handles
    Bytes,
    Parts,      \* the inputs that an application passes in one call
    MaxBytes,   \* kMaxPlaintextBytes, kMaxMacDataBytes
    Overhead,   \* kMaxCiphertextBytes - kMaxPlaintextBytes
    BlockSize,  \* of AES-CBC without padding
    FixedLen,   \* the input length of a prehashed signature, of RSA decryption
    MaxDigested, \* bound on the bytes that are fed to a digest
    MaxCount,   \* bound on the handles that one C_FindObjects asks for
    IVs         \* the initialization vectors that the server may choose

ASSUME SessionConstants ==
    /\ IsFiniteSet(Handles)
    /\ Parts \subseteq Seq(Bytes)
    /\ {MaxBytes, Overhead, FixedLen, MaxDigested, MaxCount} \subseteq Nat
    /\ \A p \in Parts : Len(p) <= MaxDigested
    /\ MaxBytes + Overhead < MaxDigested
    /\ BlockSize \in Nat \ {0}
    /\ 0 \notin IVs

----------------------------------------------------------------------------
\* The classes under operation/, by what tells them apart: whether they take
\* parts, whether a single-part call is refused once parts were given (strict),
\* the input lengths they take, and where the IV of a ciphertext comes from.
Impl(type, multi, strict, min, max, block, iv) ==
    [type |-> type, multi |-> multi, strict |-> strict,
     min |-> min, max |-> max, block |-> block, iv |-> iv]

AesCbcEncrypter == Impl("encrypt", TRUE, TRUE, 0, MaxBytes, BlockSize, "caller")
AesCbcPadEncrypter == Impl("encrypt", TRUE, TRUE, 0, MaxBytes, 1, "caller")
AesCtrEncrypter == Impl("encrypt", TRUE, TRUE, 0, MaxBytes, 1, "caller")
AesGcmEncrypter == Impl("encrypt", TRUE, TRUE, 0, MaxBytes, 1, "server")
RsaOaepEncrypter == Impl("encrypt", FALSE, FALSE, 0, FixedLen, 1, "none")

AesCbcDecrypter == Impl("decrypt", TRUE, FALSE, 0, MaxBytes + Overhead, 1, "caller")
AesCtrDecrypter == Impl("decrypt", TRUE, FALSE, 0, MaxBytes + Overhead, 1, "caller")
AesGcmDecrypter == Impl("decrypt", TRUE, FALSE, 0, MaxBytes + Overhead, 1, "caller")
RsaOaepDecrypter == Impl("decrypt", FALSE, FALSE, FixedLen, FixedLen, 1, "none")

HmacSigner == Impl("sign", TRUE, TRUE, 0, MaxBytes, 1, "none")
KmsDigestingSigner == Impl("sign", TRUE, TRUE, 0, MaxDigested, 1, "none")
KmsPrehashedSigner == Impl("sign", FALSE, FALSE, FixedLen, FixedLen, 1, "none")
EcdsaSigner == KmsPrehashedSigner
RsaPssSigner == KmsPrehashedSigner
\* takes a DigestInfo, whose digest has the fixed length
RsaPkcs1Signer == KmsPrehashedSigner
RsaRawPkcs1Signer == Impl("sign", FALSE, FALSE, 0, FixedLen, 1, "none")

HmacVerifier == Impl("verify", TRUE, TRUE, 0, MaxBytes, 1, "none")
KmsDigestingVerifier == Impl("verify", TRUE, TRUE, 0, MaxDigested, 1, "none")
EcdsaVerifier == Impl("verify", FALSE, FALSE, FixedLen, FixedLen, 1, "none")
RsaPssVerifier == EcdsaVerifier
RsaPkcs1Verifier == EcdsaVerifier
RsaRawPkcs1Verifier == Impl("verify", FALSE, FALSE, 0, FixedLen, 1, "none")

EncryptImpls == {AesCbcEncrypter, AesCbcPadEncrypter, AesCtrEncrypter,
                 AesGcmEncrypter, RsaOaepEncrypter}
DecryptImpls == {AesCbcDecrypter, AesCtrDecrypter, AesGcmDecrypter,
                 RsaOaepDecrypter}
SignImpls == {HmacSigner, KmsDigestingSigner, EcdsaSigner, RsaPssSigner,
              RsaPkcs1Signer, RsaRawPkcs1Signer}
VerifyImpls == {HmacVerifier, KmsDigestingVerifier, EcdsaVerifier,
                RsaPssVerifier, RsaPkcs1Verifier, RsaRawPkcs1Verifier}
NoImpl == Impl("none", FALSE, FALSE, 0, 0, 1, "none")
FindImpl == Impl("find", FALSE, FALSE, 0, 0, 1, "none")
Impls == EncryptImpls \cup DecryptImpls \cup SignImpls \cup VerifyImpls
           \cup {NoImpl, FindImpl}

VARIABLES
    objects, \* the handles of the token's objects
    op,      \* Session::op_: the implementation, whether parts were given,
             \* the parts so far; the handles of a FindOp and its offset
    iv,      \* the buffer for the IV of AES-GCM encryption; 0: all zeroes
    fed,     \* history: the parts that the operation has accepted
    found,   \* history: the handles that the operation has returned
    ret      \* history: what the last call returned

vars == <<objects, op, iv, fed, found, ret>>

NewOp(impl, results) ==
    [impl |-> impl, multi |-> FALSE, buf |-> <<>>,
     results |-> results, offset |-> 0]
NoOp == NewOp(NoImpl, <<>>)

Active(type) == op.impl.type = type

Outs == {"null", "small", "large"}  \* the caller's output buffer

\* The types of the variables; a FindOp's offset stays within its handles.
TypeOK ==
    /\ objects \subseteq Handles
    /\ op \in [impl : Impls, multi : BOOLEAN, buf : Seq(Bytes),
               results : Seq(Handles), offset : Nat]
    /\ op.offset <= Len(op.results)
    /\ iv \in IVs \cup {0}
    /\ fed \in Seq(Bytes)
    /\ found \in Seq(Handles)

----------------------------------------------------------------------------
\* How a call ends.

\* A return without output.  out says why: a size was asked for ("size"), or
\* C_FindObjects returned fewer handles than it was asked for ("short").
Return(f, rv, out) ==
    ret' = [fn |-> f, rv |-> rv, out |-> out, sent |-> <<>>, given |-> <<>>,
            iv |-> 0]

\* A return with the output computed from sent, under IV v, when the
\* application has passed given since the operation began.
Deliver(f, sent, given, v) ==
    ret' = [fn |-> f, rv |-> "OK", out |-> "data", sent |-> sent,
            given |-> given, iv |-> v]

\* Session::ReleaseOperation
Release == op' = NoOp /\ fed' = <<>> /\ found' = <<>>

Keep == UNCHANGED <<op, fed, found>>

\* Most failing calls release the operation, whatever its type.
Fail(f, rv) == Release /\ Return(f, rv, "none") /\ UNCHANGED iv

----------------------------------------------------------------------------
\* What the methods of the operation classes return.

\* The input reaches the RPC, or BoringSSL.  Return codes are classes of codes:
\* BAD_DATA is CKR_DATA_LEN_RANGE, CKR_ENCRYPTED_DATA_LEN_RANGE or
\* CKR_DATA_INVALID, DEVICE_ERROR stands for the codes of a failed RPC, and
\* SIGNATURE_INVALID also for a signature of the wrong length.
Compute == {"OK", "DEVICE_ERROR"}
             \cup (IF Active("verify") THEN {"SIGNATURE_INVALID"} ELSE {})

GoodLength(data) ==
    /\ Len(data) \in op.impl.min .. op.impl.max
    /\ Len(data) % op.impl.block = 0

SinglePart(data) ==
    IF op.impl.strict /\ op.multi THEN {"FUNCTION_FAILED"}
    ELSE IF ~GoodLength(data) THEN {"BAD_DATA"}
    ELSE Compute

\* Mutant: the size of the buffer is not added.
FitsAlone(part) == Len(part) <= op.impl.max

Fits(part) == Len(part) + Len(op.buf) <= op.impl.max

\* Mutant: a part replaces the ones before it.
BufferedLast(part) == part

Buffered(part) == op.buf \o part

UpdateRv(part) ==
    IF ~op.impl.multi THEN "FUNCTION_FAILED"
    ELSE IF ~Fits(part) THEN "BAD_DATA"
    ELSE "OK"

Final ==
    IF ~(op.impl.multi /\ op.multi) THEN {"FUNCTION_FAILED"}
    ELSE IF ~GoodLength(op.buf) THEN {"BAD_DATA"}
    ELSE Compute

\* Mutant: the IV is copied only into a buffer that is still zero.
CopyIvOnce(v) == IF op.impl.iv = "server" /\ iv = 0 THEN v ELSE iv

\* AesGcmEncrypter copies the server's IV into the caller's buffer.
CopyIv(v) == IF op.impl.iv = "server" THEN v ELSE iv

----------------------------------------------------------------------------
\* C_FindObjectsInit, C_FindObjects and C_FindObjectsFinal.

\* The objects S match the template; the store lists them in some order.
FindObjectsInit(S) ==
    /\ \/ /\ op # NoOp
          /\ Keep
          /\ Return("FindObjectsInit", "OPERATION_ACTIVE", "none")
       \/ /\ op = NoOp
          /\ \E order \in [1 .. Cardinality(S) -> S] :
               /\ \A i, j \in 1 .. Cardinality(S) :
                    order[i] = order[j] => i = j
               /\ op' = NewOp(FindImpl, order)
          /\ fed' = <<>> /\ found' = <<>>
          /\ Return("FindObjectsInit", "OK", "none")
    /\ UNCHANGED <<objects, iv>>

\* Mutant: the last handles are not taken off.
FindNextAgain(max) ==
    LET remaining == Len(op.results) - op.offset
    IN  IF remaining <= max THEN [count |-> remaining, offset |-> op.offset]
                            ELSE [count |-> max, offset |-> op.offset + max]

\* Mutant: the offset moves by what was asked for.
FindNextPast(max) ==
    LET remaining == Len(op.results) - op.offset
    IN  [count |-> IF remaining <= max THEN remaining ELSE max,
         offset |-> op.offset + max]

\* FindOp::Next: how many handles it returns, and its offset afterwards.
FindNext(max) ==
    LET remaining == Len(op.results) - op.offset
    IN  IF remaining <= max THEN [count |-> remaining, offset |-> Len(op.results)]
                            ELSE [count |-> max, offset |-> op.offset + max]

FindObjects(max) ==
    /\ \/ /\ ~Active("find")
          /\ Keep
          /\ Return("FindObjects", "OPERATION_NOT_INITIALIZED", "none")
       \/ /\ Active("find")
          /\ LET next == FindNext(max)
             IN  /\ op' = [op EXCEPT !.offset = next.offset]
                 /\ found' = found \o SubSeq(op.results, op.offset + 1,
                                             op.offset + next.count)
                 /\ Return("FindObjects", "OK",
                           IF next.count < max THEN "short" ELSE "none")
          /\ UNCHANGED fed
    /\ UNCHANGED <<objects, iv>>

FindObjectsFinal ==
    /\ \/ /\ ~Active("find")
          /\ Keep
          /\ Return("FindObjectsFinal", "OPERATION_NOT_INITIALIZED", "none")
       \/ Active("find") /\ Release /\ Return("FindObjectsFinal", "OK", "none")
    /\ UNCHANGED <<objects, iv>>

\* A null argument of C_FindObjectsInit, of C_FindObjects, and of C_*Init once
\* it has found the key, leaves the operation alone.
KeepingNullArgument(f) ==
    Keep /\ Return(f, "ARGUMENTS_BAD", "none") /\ UNCHANGED <<objects, iv>>

\* A null argument of any other call releases it.
ReleasingNullArgument(f) ==
    Fail(f, "ARGUMENTS_BAD") /\ UNCHANGED objects

----------------------------------------------------------------------------
\* The IV buffer for AES-GCM encryption must be zero.
ParametersOk(impl) == impl.iv = "server" => iv = 0

\* C_EncryptInit and its like: the key is looked up first, then the slot must
\* be free, then the implementation checks the key, the mechanism and its
\* parameters (any of which MECHANISM_PARAM_INVALID stands for).
OperationInit(f, impl, h) ==
    /\ \/ /\ h \notin objects
          /\ Keep
          /\ Return(f, "KEY_HANDLE_INVALID", "none")
       \/ /\ h \in objects /\ op # NoOp
          /\ Keep
          /\ Return(f, "OPERATION_ACTIVE", "none")
       \/ /\ h \in objects /\ op = NoOp
          /\ Keep
          /\ Return(f, "MECHANISM_PARAM_INVALID", "none")
       \/ /\ h \in objects /\ op = NoOp
          /\ ParametersOk(impl)
          /\ op' = NewOp(impl, <<>>)
          /\ fed' = <<>> /\ found' = <<>>
          /\ Return(f, "OK", "none")
    /\ UNCHANGED <<objects, iv>>

EncryptInit(impl, h) == OperationInit("EncryptInit", impl, h)
DecryptInit(impl, h) == OperationInit("DecryptInit", impl, h)
SignInit(impl, h) == OperationInit("SignInit", impl, h)
VerifyInit(impl, h) == OperationInit("VerifyInit", impl, h)

\* C_EncryptUpdate and its like.
OperationUpdate(f, type, part) ==
    /\ \/ ~Active(type) /\ Fail(f, "OPERATION_NOT_INITIALIZED")
       \/ Active(type) /\ UpdateRv(part) # "OK" /\ Fail(f, UpdateRv(part))
       \/ /\ Active(type) /\ UpdateRv(part) = "OK"
          /\ op' = [op EXCEPT !.multi = TRUE, !.buf = Buffered(part)]
          /\ fed' = fed \o part
          /\ Return(f, "OK", "none")
          /\ UNCHANGED <<iv, found>>
    /\ UNCHANGED objects

EncryptUpdate(part) == OperationUpdate("EncryptUpdate", "encrypt", part)
DecryptUpdate(part) == OperationUpdate("DecryptUpdate", "decrypt", part)
SignUpdate(part) == OperationUpdate("SignUpdate", "sign", part)
VerifyUpdate(part) == OperationUpdate("VerifyUpdate", "verify", part)

----------------------------------------------------------------------------
\* C_Encrypt, C_Decrypt and their Final forms.  The output is computed before
\* the caller's buffer is looked at: a call that only asks for the size, or
\* whose buffer is too small, has sent the RPC, and sends it again when it is
\* repeated.
Crypt(f, type, rvs, data, given, out) ==
    /\ \/ ~Active(type) /\ Fail(f, "OPERATION_NOT_INITIALIZED")
       \/ Active(type) /\ \E rv \in rvs \ {"OK"} : Fail(f, rv)
       \/ /\ Active(type) /\ "OK" \in rvs
          /\ \E v \in IVs :
               /\ iv' = CopyIv(v)
               /\ \/ out = "null" /\ Keep /\ Return(f, "OK", "size")
                  \/ out = "small" /\ Keep /\ Return(f, "BUFFER_TOO_SMALL", "size")
                  \/ /\ out = "large"
                     /\ Release
                     /\ Deliver(f, data, given,
                                IF op.impl.iv = "server" THEN v ELSE 0)
    /\ UNCHANGED objects

Encrypt(data, out) ==
    Crypt("Encrypt", "encrypt", SinglePart(data), data, fed \o data, out)
Decrypt(data, out) ==
    Crypt("Decrypt", "decrypt", SinglePart(data), data, fed \o data, out)
EncryptFinal(out) ==
    Crypt("EncryptFinal", "encrypt", Final, op.buf, fed, out)
DecryptFinal(out) ==
    Crypt("DecryptFinal", "decrypt", Final, op.buf, fed, out)

\* Mutant: a failing signature leaves the operation, so that it can be retried.
SignCallRetry(f, rvs, data, given, out) ==
    /\ \/ ~Active("sign") /\ Fail(f, "OPERATION_NOT_INITIALIZED")
       \/ /\ Active("sign")
          /\ \/ out = "null" /\ Keep /\ Return(f, "OK", "size")
             \/ out = "small" /\ Keep /\ Return(f, "BUFFER_TOO_SMALL", "size")
             \/ /\ out = "large"
                /\ \/ "OK" \in rvs /\ Release /\ Deliver(f, data, given, 0)
                   \/ \E rv \in rvs \ {"OK"} : Keep /\ Return(f, rv, "none")
          /\ UNCHANGED iv
    /\ UNCHANGED objects

\* C_Sign and C_SignFinal: the signature's length is known beforehand, and an
\* attempt to sign ends the operation whether it succeeds or not.
SignCall(f, rvs, data, given, out) ==
    /\ \/ ~Active("sign") /\ Fail(f, "OPERATION_NOT_INITIALIZED")
       \/ /\ Active("sign")
          /\ \/ out = "null" /\ Keep /\ Return(f, "OK", "size")
             \/ out = "small" /\ Keep /\ Return(f, "BUFFER_TOO_SMALL", "size")
             \/ /\ out = "large"
                /\ Release
                /\ \/ "OK" \in rvs /\ Deliver(f, data, given, 0)
                   \/ \E rv \in rvs \ {"OK"} : Return(f, rv, "none")
          /\ UNCHANGED iv
    /\ UNCHANGED objects

Sign(data, out) == SignCall("Sign", SinglePart(data), data, fed \o data, out)
SignFinal(out) == SignCall("SignFinal", Final, op.buf, fed, out)

\* C_Verify and C_VerifyFinal always end the operation.
VerifyCall(f, rvs, data, given) ==
    /\ Release
    /\ \/ ~Active("verify") /\ Return(f, "OPERATION_NOT_INITIALIZED", "none")
       \/ Active("verify") /\ "OK" \in rvs /\ Deliver(f, data, given, 0)
       \/ Active("verify") /\ \E rv \in rvs \ {"OK"} : Return(f, rv, "none")
    /\ UNCHANGED <<objects, iv>>

Verify(data) == VerifyCall("Verify", SinglePart(data), data, fed \o data)
VerifyFinal == VerifyCall("VerifyFinal", Final, op.buf, fed)

----------------------------------------------------------------------------
\* The token is refreshed.
TokenChanges ==
    /\ objects' \in SUBSET Handles
    /\ UNCHANGED <<op, iv, fed, found, ret>>

NoCall == [fn |-> "none", rv |-> "OK", out |-> "none", sent |-> <<>>,
           given |-> <<>>, iv |-> 0]

\* The application clears its IV buffer for another encryption.
ClearIv ==
    /\ op = NoOp /\ iv # 0
    /\ iv' = 0
    /\ ret' = NoCall
    /\ UNCHANGED <<objects, op, fed, found>>

Init ==
    /\ objects \in SUBSET Handles
    /\ op = NoOp
    /\ iv = 0
    /\ fed = <<>>
    /\ found = <<>>
    /\ ret = NoCall

FindCall ==
    \/ \E S \in SUBSET objects : FindObjectsInit(S)
    \/ \E n \in 0 .. MaxCount : FindObjects(n)
    \/ FindObjectsFinal

InitCall ==
    \E h \in Handles :
        \/ \E i \in EncryptImpls : EncryptInit(i, h)
        \/ \E i \in DecryptImpls : DecryptInit(i, h)
        \/ \E i \in SignImpls : SignInit(i, h)
        \/ \E i \in VerifyImpls : VerifyInit(i, h)

\* What is fed to a digest has no limit in the code; MaxDigested bounds it.
UpdateCall ==
    \E p \in Parts :
        /\ op.impl.max = MaxDigested => Fits(p)
        /\ EncryptUpdate(p) \/ DecryptUpdate(p) \/ SignUpdate(p) \/ VerifyUpdate(p)

OutputCall ==
    \/ \E p \in Parts, out \in Outs :
         Encrypt(p, out) \/ Decrypt(p, out) \/ Sign(p, out)
    \/ \E out \in Outs : EncryptFinal(out) \/ DecryptFinal(out) \/ SignFinal(out)
    \/ \E p \in Parts : Verify(p)
    \/ VerifyFinal

NullCall ==
    \/ \E f \in {"FindObjectsInit", "FindObjects"} : KeepingNullArgument(f)
    \/ /\ objects # {}
       /\ \E f \in {"EncryptInit", "DecryptInit", "SignInit", "VerifyInit"} :
            KeepingNullArgument(f)
    \/ \E f \in {"Encrypt", "Decrypt", "Sign", "Verify", "EncryptUpdate",
                 "DecryptUpdate", "SignUpdate", "VerifyUpdate", "EncryptFinal",
                 "DecryptFinal", "SignFinal", "VerifyFinal"} :
         ReleasingNullArgument(f)

Call == FindCall \/ InitCall \/ UpdateCall \/ OutputCall \/ NullCall

Next == Call \/ TokenChanges \/ ClearIv

Spec == Init /\ [][Next]_vars

----------------------------------------------------------------------------
\* Properties.

\* The output that a call delivers was computed from exactly what the
\* application has passed since C_*Init: no part is lost, repeated or reordered,
\* whatever size queries, refused buffers and failed calls came before.  Only
\* C_Decrypt ignores the parts that C_DecryptUpdate took: the decrypters, unlike
\* the encrypters, do not refuse a single-part call then.
OutputCoversInput ==
    ret.out = "data" => ret.sent = ret.given \/ ret.fn = "Decrypt"

\* The IV in the application's buffer is the one of the ciphertext that the
\* application got, although every size query makes the server choose another.
IvMatchesCiphertext == ret.iv # 0 => ret.iv = iv

\* The multi-part buffer never exceeds the limit of the mechanism.
BufferBounded == op.buf # <<>> => Len(op.buf) <= op.impl.max

\* C_FindObjects returns each handle of the snapshot that C_FindObjectsInit took
\* once and in order, however the calls divide it, and a call that returns
\* fewer than it was asked for has returned the last.
FindDepletes ==
    Active("find") =>
        /\ found = SubSeq(op.results, 1, op.offset)
        /\ ret.fn = "FindObjects" /\ ret.out = "short"
             => op.offset = Len(op.results)

InitOrFind == {"EncryptInit", "DecryptInit", "SignInit", "VerifyInit",
               "FindObjectsInit", "FindObjects", "FindObjectsFinal"}
Ends ==
    \/ ret'.out = "data"
    \/ ret'.rv \notin {"OK", "BUFFER_TOO_SMALL"} /\ ret'.fn \notin InitOrFind
    \/ ret'.fn = "FindObjectsFinal" /\ ret'.rv = "OK"
EndsWhenDone ==
    /\ Ends /\ ret' # ret => op' = NoOp
    /\ op # NoOp /\ op' = NoOp => Ends
    /\ ret'.out = "size" => op' = op

\* An operation of a session ends with the call that delivers its output or
\* fails, and with no other: size queries and buffers that are too small leave it
\* as it was.
OperationLifetime == [][EndsWhenDone]_vars
============================================================================
