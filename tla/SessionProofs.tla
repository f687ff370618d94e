--------------------------- MODULE SessionProofs ---------------------------
(***************************************************************************)
(* Proofs about Session, for all handles, inputs, limits and IVs.          *)
(***************************************************************************)
EXTENDS Session, TLAPS, SequenceTheorems, FiniteSetTheorems

\* What relates the operation to the parts it was given: the buffer holds all
\* of them; it is empty until a part was given; only a class that takes parts
\* has been given one; and such a class refuses single-part calls from then on,
\* unless it is a decrypter.
BufferHoldsParts ==
    /\ fed = op.buf
    /\ ~op.multi => op.buf = <<>>
    /\ op.multi => op.impl.multi
    /\ op.impl.multi => op.impl.strict \/ Active("decrypt")

SessionInv ==
    /\ TypeOK
    /\ BufferHoldsParts
    /\ BufferBounded
    /\ OutputCoversInput
    /\ IvMatchesCiphertext

\* What the classes under operation/ have in common.
LEMMA ImplProperties ==
    ASSUME NEW i \in Impls
    PROVE  /\ i.min \in Nat /\ i.max \in Nat
           /\ i.multi => i.strict \/ i.type = "decrypt"
  <1>1. /\ MaxBytes \in Nat /\ MaxBytes + Overhead \in Nat /\ FixedLen \in Nat
        /\ MaxDigested \in Nat
    BY SessionConstants DEF SessionConstants
  <1>2. CASE i \in EncryptImpls
    BY <1>1, <1>2 DEF EncryptImpls, Impl, AesCbcEncrypter, AesCbcPadEncrypter,
      AesCtrEncrypter, AesGcmEncrypter, RsaOaepEncrypter
  <1>3. CASE i \in DecryptImpls
    BY <1>1, <1>3 DEF DecryptImpls, Impl, AesCbcDecrypter, AesCtrDecrypter,
      AesGcmDecrypter, RsaOaepDecrypter
  <1>4. CASE i \in SignImpls
    BY <1>1, <1>4 DEF SignImpls, Impl, HmacSigner, KmsDigestingSigner,
      KmsPrehashedSigner, EcdsaSigner, RsaPssSigner, RsaPkcs1Signer,
      RsaRawPkcs1Signer
  <1>5. CASE i \in VerifyImpls
    BY <1>1, <1>5 DEF VerifyImpls, Impl, HmacVerifier, KmsDigestingVerifier,
      EcdsaVerifier, RsaPssVerifier, RsaPkcs1Verifier, RsaRawPkcs1Verifier
  <1>6. CASE i \in {NoImpl, FindImpl}
    BY <1>6 DEF NoImpl, FindImpl, Impl
  <1> QED
    BY <1>2, <1>3, <1>4, <1>5, <1>6 DEF Impls

\* The part of the invariant about op, fed and found, and the part about ret.
OperationInv ==
    /\ op \in [impl : Impls, multi : BOOLEAN, buf : Seq(Bytes),
               results : Seq(Handles), offset : Nat]
    /\ op.offset <= Len(op.results)
    /\ fed \in Seq(Bytes)
    /\ found \in Seq(Handles)
    /\ BufferHoldsParts
    /\ BufferBounded

ReturnInv ==
    /\ objects \subseteq Handles
    /\ iv \in IVs \cup {0}
    /\ OutputCoversInput
    /\ IvMatchesCiphertext

LEMMA Split == SessionInv <=> OperationInv /\ ReturnInv
  BY DEF SessionInv, OperationInv, ReturnInv, TypeOK

\* A fresh operation of any class satisfies its part of the invariant.
LEMMA NewOpInv ==
    ASSUME NEW i \in Impls, NEW r \in Seq(Handles),
           op' = NewOp(i, r), fed' = <<>>, found' = <<>>
    PROVE  OperationInv'
  <1>1. <<>> \in Seq(Bytes) /\ <<>> \in Seq(Handles) /\ Len(r) \in Nat
    BY EmptySeq, LenProperties
  <1>2. i.multi => i.strict \/ i.type = "decrypt"
    BY ImplProperties
  <1> QED
    BY <1>1, <1>2 DEF OperationInv, NewOp, BufferHoldsParts, BufferBounded, Active

LEMMA ReleaseInv ==
    ASSUME Release PROVE OperationInv'
  <1>1. NoImpl \in Impls
    BY DEF Impls
  <1> QED
    BY <1>1, EmptySeq, NewOpInv DEF Release, NoOp

LEMMA KeepInv ==
    ASSUME OperationInv, Keep PROVE OperationInv'
  BY DEF OperationInv, Keep, BufferHoldsParts, BufferBounded, Active

\* A call that returns no output leaves its part of the invariant intact.
LEMMA SilentInv ==
    ASSUME ReturnInv, NEW f, NEW rv, NEW out, out # "data", Return(f, rv, out),
           objects' \subseteq Handles, iv' \in IVs \cup {0}
    PROVE  ReturnInv'
  BY DEF ReturnInv, Return, OutputCoversInput, IvMatchesCiphertext

LEMMA FailInv ==
    ASSUME ReturnInv, NEW f, NEW rv, Fail(f, rv), UNCHANGED objects
    PROVE  OperationInv' /\ ReturnInv'
  <1>1. OperationInv'
    BY ReleaseInv DEF Fail
  <1>2. ReturnInv'
    BY SilentInv DEF Fail, ReturnInv
  <1> QED
    BY <1>1, <1>2

\* FindOp: the calls of C_FindObjects* keep the invariant.
LEMMA FindCallInv ==
    ASSUME OperationInv, ReturnInv, FindCall
    PROVE  OperationInv' /\ ReturnInv'
  <1>1. ASSUME NEW S \in SUBSET objects, FindObjectsInit(S)
        PROVE  OperationInv' /\ ReturnInv'
    <2>1. ReturnInv'
      BY <1>1, SilentInv DEF FindObjectsInit, ReturnInv
    <2>2. CASE op # NoOp
      BY <1>1, <2>1, <2>2, KeepInv DEF FindObjectsInit
    <2>3. CASE op = NoOp
      <3>1. PICK order \in [1 .. Cardinality(S) -> S] :
              op' = NewOp(FindImpl, order) /\ fed' = <<>> /\ found' = <<>>
        BY <1>1, <2>3 DEF FindObjectsInit
      <3>2. S \subseteq Handles /\ Cardinality(S) \in Nat
        BY SessionConstants, FS_Subset, FS_CardinalityType
        DEF SessionConstants, ReturnInv
      <3>3. order \in Seq(Handles)
        BY <3>2
      <3>4. FindImpl \in Impls
        BY DEF Impls
      <3> QED
        BY <2>1, <3>1, <3>3, <3>4, NewOpInv
    <2> QED
      BY <2>2, <2>3
  <1>2. ASSUME NEW n \in 0 .. MaxCount, FindObjects(n)
        PROVE  OperationInv' /\ ReturnInv'
    <2>1. ReturnInv'
      <3>1. PICK rv, out : Return("FindObjects", rv, out) /\ out # "data"
        BY <1>2 DEF FindObjects
      <3> QED
        BY <1>2, <3>1, SilentInv DEF FindObjects, ReturnInv
    <2>2. CASE ~Active("find")
      BY <1>2, <2>1, <2>2, KeepInv DEF FindObjects
    <2>3. CASE Active("find")
      <3> DEFINE next == FindNext(n)
      <3>1. /\ op' = [op EXCEPT !.offset = next.offset]
            /\ found' = found \o SubSeq(op.results, op.offset + 1,
                                        op.offset + next.count)
            /\ fed' = fed
        BY <1>2, <2>3 DEF FindObjects
      <3>2. n \in Nat /\ op.offset \in Nat /\ Len(op.results) \in Nat
            /\ op.offset <= Len(op.results)
        BY <1>2, SessionConstants, LenProperties DEF SessionConstants, OperationInv
      <3>3. /\ next.offset \in Nat /\ next.offset <= Len(op.results)
            /\ next.count \in Nat /\ op.offset + next.count <= Len(op.results)
        BY <3>2 DEF FindNext
      <3>4. SubSeq(op.results, op.offset + 1, op.offset + next.count)
              \in Seq(Handles)
        <4>1. \A i \in op.offset + 1 .. op.offset + next.count :
                op.results[i] \in Handles
          BY <3>2, <3>3, ElementOfSeq DEF OperationInv
        <4> QED
          BY <4>1, <3>2, <3>3, SubSeqProperties
      <3>5. found' \in Seq(Handles)
        BY <3>1, <3>4, ConcatProperties DEF OperationInv
      <3>6. OperationInv'
        BY <3>1, <3>3, <3>5
        DEF OperationInv, BufferHoldsParts, BufferBounded, Active
      <3> QED
        BY <2>1, <3>6
    <2> QED
      BY <2>2, <2>3
  <1>3. ASSUME FindObjectsFinal
        PROVE  OperationInv' /\ ReturnInv'
    <2>1. ReturnInv'
      BY <1>3, SilentInv DEF FindObjectsFinal, ReturnInv
    <2> QED
      BY <1>3, <2>1, KeepInv, ReleaseInv DEF FindObjectsFinal
  <1> QED
    BY <1>1, <1>2, <1>3 DEF FindCall

\* C_*Init keeps the invariant.
LEMMA InitCallInv ==
    ASSUME OperationInv, ReturnInv, InitCall
    PROVE  OperationInv' /\ ReturnInv'
  <1>1. PICK h, f, i : i \in Impls /\ OperationInit(f, i, h)
    <2>1. PICK h \in Handles :
            \/ \E i \in EncryptImpls : OperationInit("EncryptInit", i, h)
            \/ \E i \in DecryptImpls : OperationInit("DecryptInit", i, h)
            \/ \E i \in SignImpls : OperationInit("SignInit", i, h)
            \/ \E i \in VerifyImpls : OperationInit("VerifyInit", i, h)
      BY DEF InitCall, EncryptInit, DecryptInit, SignInit, VerifyInit
    <2> QED
      BY <2>1, Zenon DEF Impls
  <1>2. ReturnInv'
    BY <1>1, SilentInv DEF OperationInit, ReturnInv
  <1>3. OperationInv'
    BY <1>1, KeepInv, NewOpInv, EmptySeq DEF OperationInit
  <1> QED
    BY <1>2, <1>3

\* A part that fits is appended to the buffer and to the history alike.
LEMMA UpdateInv ==
    ASSUME OperationInv, ReturnInv, NEW f, NEW type, NEW part \in Parts,
           OperationUpdate(f, type, part)
    PROVE  OperationInv' /\ ReturnInv'
  <1>1. CASE \E rv : Fail(f, rv)
    BY <1>1, FailInv DEF OperationUpdate
  <1>2. CASE /\ UpdateRv(part) = "OK"
             /\ op' = [op EXCEPT !.multi = TRUE, !.buf = Buffered(part)]
             /\ fed' = fed \o part
             /\ Return(f, "OK", "none")
             /\ UNCHANGED <<iv, found>>
    <2>1. part \in Seq(Bytes) /\ op.buf \in Seq(Bytes)
      BY SessionConstants DEF SessionConstants, OperationInv
    <2>2. op.impl.multi /\ Fits(part)
      BY <1>2 DEF UpdateRv
    <2>3. /\ Buffered(part) \in Seq(Bytes)
          /\ Len(Buffered(part)) <= op.impl.max
      <3>1. Len(Buffered(part)) = Len(op.buf) + Len(part)
        BY <2>1, ConcatProperties DEF Buffered
      <3>2. Len(op.buf) \in Nat /\ Len(part) \in Nat
        BY <2>1, LenProperties
      <3> QED
        BY <2>1, <2>2, <3>1, <3>2, ConcatProperties DEF Buffered, Fits
    <2>4. fed' = Buffered(part)
      BY <1>2 DEF Buffered, OperationInv, BufferHoldsParts
    <2>5. op'.buf = Buffered(part) /\ op'.multi = TRUE /\ op'.impl = op.impl
      BY <1>2 DEF OperationInv
    <2>6. OperationInv'
      <3>1. BufferHoldsParts'
        BY <2>2, <2>4, <2>5 DEF OperationInv, BufferHoldsParts, Active
      <3>2. BufferBounded'
        BY <2>3, <2>5 DEF BufferBounded
      <3> QED
        BY <1>2, <2>3, <2>4, <3>1, <3>2 DEF OperationInv
    <2>7. ReturnInv'
      BY <1>2, SilentInv DEF OperationUpdate, ReturnInv
    <2> QED
      BY <2>6, <2>7
  <1> QED
    BY <1>1, <1>2 DEF OperationUpdate

\* An output computed from everything that was given keeps the invariant, when
\* the IV that it was computed under is the one in the application's buffer.
LEMMA DeliverInv ==
    ASSUME ReturnInv, NEW f, NEW sent, NEW given, NEW v,
           sent = given \/ f = "Decrypt", Deliver(f, sent, given, v),
           v # 0 => v = iv', UNCHANGED objects, iv' \in IVs \cup {0}
    PROVE  ReturnInv'
  BY DEF ReturnInv, Deliver, OutputCoversInput, IvMatchesCiphertext

\* A single-part call that does not fail, of a class that is no decrypter, was
\* given nothing before.
LEMMA SinglePartIsWhole ==
    ASSUME OperationInv, NEW data \in Parts, "OK" \in SinglePart(data),
           ~Active("decrypt")
    PROVE  fed \o data = data
  <1>1. ~(op.impl.strict /\ op.multi)
    BY DEF SinglePart
  <1>2. ~op.multi
    BY <1>1 DEF OperationInv, BufferHoldsParts
  <1>3. fed = <<>> /\ data \in Seq(Bytes)
    BY <1>2, SessionConstants DEF SessionConstants, OperationInv, BufferHoldsParts
  <1> QED
    BY <1>3, ConcatEmptySeq

LEMMA CryptInv ==
    ASSUME OperationInv, ReturnInv, NEW f, NEW type, NEW rvs, NEW data, NEW given,
           NEW out, Crypt(f, type, rvs, data, given, out),
           "OK" \in rvs /\ Active(type) => data = given \/ f = "Decrypt"
    PROVE  OperationInv' /\ ReturnInv'
  <1>1. CASE \E rv : Fail(f, rv)
    BY <1>1, FailInv DEF Crypt
  <1>2. ASSUME NEW v \in IVs, Active(type), "OK" \in rvs, iv' = CopyIv(v),
               \/ out = "null" /\ Keep /\ Return(f, "OK", "size")
               \/ out = "small" /\ Keep /\ Return(f, "BUFFER_TOO_SMALL", "size")
               \/ /\ out = "large"
                  /\ Release
                  /\ Deliver(f, data, given,
                             IF op.impl.iv = "server" THEN v ELSE 0)
        PROVE  OperationInv' /\ ReturnInv'
    <2>1. OperationInv'
      BY <1>2, KeepInv, ReleaseInv
    <2>2. iv' \in IVs \cup {0} /\ UNCHANGED objects
      BY <1>2 DEF CopyIv, ReturnInv, Crypt
    <2>3. CASE Return(f, "OK", "size") \/ Return(f, "BUFFER_TOO_SMALL", "size")
      BY <2>1, <2>2, <2>3, SilentInv DEF ReturnInv
    <2>4. CASE Deliver(f, data, given, IF op.impl.iv = "server" THEN v ELSE 0)
      <3> DEFINE w == IF op.impl.iv = "server" THEN v ELSE 0
      <3>1. w # 0 => w = iv'
        BY <1>2 DEF CopyIv
      <3>2. data = given \/ f = "Decrypt"
        BY <1>2
      <3>3. Deliver(f, data, given, w)
        BY <2>4
      <3> HIDE DEF w
      <3> QED
        BY <2>1, <2>2, <3>1, <3>2, <3>3, DeliverInv
    <2> QED
      BY <1>2, <2>3, <2>4
  <1> QED
    BY <1>1, <1>2 DEF Crypt

LEMMA SignCallInv ==
    ASSUME OperationInv, ReturnInv, NEW f, NEW rvs, NEW data, NEW given, NEW out,
           SignCall(f, rvs, data, given, out),
           "OK" \in rvs /\ Active("sign") => data = given
    PROVE  OperationInv' /\ ReturnInv'
  <1>1. CASE Fail(f, "OPERATION_NOT_INITIALIZED")
    BY <1>1, FailInv DEF SignCall
  <1>2. CASE Active("sign") /\ UNCHANGED iv
    <2>1. OperationInv'
      BY <1>2, KeepInv, ReleaseInv DEF SignCall
    <2>2. iv' \in IVs \cup {0} /\ objects' \subseteq Handles /\ UNCHANGED objects
      BY <1>2 DEF SignCall, ReturnInv
    <2>3. CASE \E rv : Return(f, rv, "size") \/ Return(f, rv, "none")
      BY <2>1, <2>2, <2>3, SilentInv
    <2>4. CASE "OK" \in rvs /\ Deliver(f, data, given, 0)
      BY <1>2, <2>1, <2>2, <2>4, DeliverInv
    <2> QED
      BY <1>2, <2>3, <2>4 DEF SignCall
  <1> QED
    BY <1>1, <1>2 DEF SignCall

LEMMA VerifyCallInv ==
    ASSUME OperationInv, ReturnInv, NEW f, NEW rvs, NEW data, NEW given,
           VerifyCall(f, rvs, data, given),
           "OK" \in rvs /\ Active("verify") => data = given
    PROVE  OperationInv' /\ ReturnInv'
  <1>1. OperationInv'
    BY ReleaseInv DEF VerifyCall
  <1>2. iv' \in IVs \cup {0} /\ objects' \subseteq Handles /\ UNCHANGED objects
    BY DEF VerifyCall, ReturnInv
  <1>3. CASE \E rv : Return(f, rv, "none")
    BY <1>1, <1>2, <1>3, SilentInv
  <1>4. CASE Active("verify") /\ "OK" \in rvs /\ Deliver(f, data, given, 0)
    BY <1>1, <1>2, <1>4, DeliverInv
  <1> QED
    BY <1>3, <1>4 DEF VerifyCall

\* The calls that deliver an output keep the invariant: a Final call passes the
\* buffer, which holds all the parts, and a single-part call had none before it.
LEMMA OutputCallInv ==
    ASSUME OperationInv, ReturnInv, OutputCall
    PROVE  OperationInv' /\ ReturnInv'
  <1> fed = op.buf
    BY DEF OperationInv, BufferHoldsParts
  <1>1. ASSUME NEW p \in Parts, NEW out \in Outs, Encrypt(p, out)
        PROVE  OperationInv' /\ ReturnInv'
    BY <1>1, CryptInv, SinglePartIsWhole DEF Encrypt, Active
  <1>2. ASSUME NEW p \in Parts, NEW out \in Outs, Decrypt(p, out)
        PROVE  OperationInv' /\ ReturnInv'
    BY <1>2, CryptInv DEF Decrypt
  <1>3. ASSUME NEW p \in Parts, NEW out \in Outs, Sign(p, out)
        PROVE  OperationInv' /\ ReturnInv'
    BY <1>3, SignCallInv, SinglePartIsWhole DEF Sign, Active
  <1>4. ASSUME NEW out \in Outs, EncryptFinal(out)
        PROVE  OperationInv' /\ ReturnInv'
    BY <1>4, CryptInv DEF EncryptFinal
  <1>5. ASSUME NEW out \in Outs, DecryptFinal(out)
        PROVE  OperationInv' /\ ReturnInv'
    BY <1>5, CryptInv DEF DecryptFinal
  <1>6. ASSUME NEW out \in Outs, SignFinal(out)
        PROVE  OperationInv' /\ ReturnInv'
    BY <1>6, SignCallInv DEF SignFinal
  <1>7. ASSUME NEW p \in Parts, Verify(p)
        PROVE  OperationInv' /\ ReturnInv'
    BY <1>7, VerifyCallInv, SinglePartIsWhole DEF Verify, Active
  <1>8. ASSUME VerifyFinal
        PROVE  OperationInv' /\ ReturnInv'
    BY <1>8, VerifyCallInv DEF VerifyFinal
  <1> QED
    BY <1>1, <1>2, <1>3, <1>4, <1>5, <1>6, <1>7, <1>8 DEF OutputCall

LEMMA NullCallInv ==
    ASSUME OperationInv, ReturnInv, NullCall
    PROVE  OperationInv' /\ ReturnInv'
  <1>1. ASSUME NEW f, KeepingNullArgument(f)
        PROVE  OperationInv' /\ ReturnInv'
    <2>1. OperationInv'
      BY <1>1, KeepInv DEF KeepingNullArgument
    <2>2. ReturnInv'
      BY <1>1, SilentInv DEF KeepingNullArgument, ReturnInv
    <2> QED
      BY <2>1, <2>2
  <1>2. ASSUME NEW f, ReleasingNullArgument(f)
        PROVE  OperationInv' /\ ReturnInv'
    BY <1>2, FailInv DEF ReleasingNullArgument
  <1> QED
    BY <1>1, <1>2 DEF NullCall

LEMMA InitInv == Init => SessionInv
  <1> SUFFICES ASSUME Init PROVE OperationInv /\ ReturnInv
    BY Split
  <1>1. /\ <<>> \in Seq(Bytes) /\ <<>> \in Seq(Handles)
        /\ NoImpl \in Impls /\ Len(<<>>) = 0
    BY EmptySeq DEF Impls
  <1>2. NoImpl.multi = FALSE
    BY DEF NoImpl, Impl
  <1>3. OperationInv
    BY <1>1, <1>2
    DEF Init, OperationInv, NoOp, NewOp, BufferHoldsParts, BufferBounded
  <1>4. ReturnInv
    BY DEF Init, ReturnInv, NoCall, OutputCoversInput, IvMatchesCiphertext
  <1> QED
    BY <1>3, <1>4

LEMMA NextInv == SessionInv /\ [Next]_vars => SessionInv'
  <1> SUFFICES ASSUME OperationInv, ReturnInv, [Next]_vars
               PROVE  OperationInv' /\ ReturnInv'
    <2>1. SessionInv' <=> OperationInv' /\ ReturnInv'
      BY DEF SessionInv, OperationInv, ReturnInv, TypeOK
    <2> QED
      BY <2>1, Split
  <1>1. CASE FindCall
    BY <1>1, FindCallInv
  <1>2. CASE InitCall
    BY <1>2, InitCallInv
  <1>3. CASE UpdateCall
    <2>1. PICK p \in Parts : EncryptUpdate(p) \/ DecryptUpdate(p)
                               \/ SignUpdate(p) \/ VerifyUpdate(p)
      BY <1>3 DEF UpdateCall
    <2> QED
      BY <2>1, UpdateInv DEF EncryptUpdate, DecryptUpdate, SignUpdate, VerifyUpdate
  <1>4. CASE OutputCall
    BY <1>4, OutputCallInv
  <1>5. CASE NullCall
    BY <1>5, NullCallInv
  <1>6. CASE TokenChanges
    <2>1. OperationInv'
      BY <1>6, KeepInv DEF TokenChanges, Keep
    <2>2. ReturnInv'
      BY <1>6
      DEF TokenChanges, ReturnInv, OutputCoversInput, IvMatchesCiphertext
    <2> QED
      BY <2>1, <2>2
  <1>7. CASE ClearIv
    <2>1. OperationInv'
      BY <1>7, KeepInv DEF ClearIv, Keep
    <2>2. ReturnInv'
      BY <1>7
      DEF ClearIv, NoCall, ReturnInv, OutputCoversInput, IvMatchesCiphertext
    <2> QED
      BY <2>1, <2>2
  <1>8. CASE UNCHANGED vars
    <2>1. OperationInv'
      BY <1>8, KeepInv DEF vars, Keep
    <2>2. ReturnInv'
      BY <1>8 DEF vars, ReturnInv, OutputCoversInput, IvMatchesCiphertext
    <2> QED
      BY <2>1, <2>2
  <1> QED
    BY <1>1, <1>2, <1>3, <1>4, <1>5, <1>6, <1>7, <1>8 DEF Next, Call

\* The inductive invariant holds throughout.
THEOREM SessionInvariant == Spec => []SessionInv
  BY InitInv, NextInv, PTL DEF Spec

\* The variables keep their types, and FindOp::Next keeps its offset within the
\* handles.
THEOREM SessionTypeCorrect == Spec => []TypeOK
  <1>1. SessionInv => TypeOK
    BY DEF SessionInv
  <1> QED
    BY <1>1, SessionInvariant, PTL

\* Every output of C_Encrypt, C_EncryptFinal, C_DecryptFinal, C_Sign,
\* C_SignFinal, C_Verify and C_VerifyFinal was computed from all that was passed
\* since C_*Init, for inputs and limits of any size.
THEOREM OutputsCoverInputs == Spec => []OutputCoversInput
  <1>1. SessionInv => OutputCoversInput
    BY DEF SessionInv
  <1> QED
    BY <1>1, SessionInvariant, PTL

\* The application's IV buffer holds the IV of the AES-GCM ciphertext it got,
\* after any number of size queries.
THEOREM IvsMatchCiphertexts == Spec => []IvMatchesCiphertext
  <1>1. SessionInv => IvMatchesCiphertext
    BY DEF SessionInv
  <1> QED
    BY <1>1, SessionInvariant, PTL

\* No sequence of C_*Update calls makes a buffer exceed its limit.
THEOREM BuffersBounded == Spec => []BufferBounded
  <1>1. SessionInv => BufferBounded
    BY DEF SessionInv
  <1> QED
    BY <1>1, SessionInvariant, PTL

----------------------------------------------------------------------------
\* C_FindObjects*.

\* A call of another operation leaves a search as it is, or ends with none.
Aside ==
    \/ UNCHANGED <<op, found>> /\ (ret' = ret \/ ret'.out # "short")
    \/ op'.impl.type # "find"

LEMMA NoneIsNoFind == NoOp.impl.type # "find"
  BY DEF NoOp, NewOp, NoImpl, Impl

LEMMA KeepIsAside ==
    ASSUME Keep, NEW f, NEW rv, NEW out, out # "short", Return(f, rv, out)
    PROVE  Aside
  BY DEF Keep, Return, Aside

LEMMA ReleaseIsAside == ASSUME Release PROVE Aside
  BY NoneIsNoFind DEF Release, Aside

LEMMA UpdateIsAside ==
    ASSUME TypeOK, NEW f, NEW type, type # "find", NEW p, OperationUpdate(f, type, p)
    PROVE  Aside
  <1>1. CASE Release
    BY <1>1, ReleaseIsAside
  <1>2. CASE Active(type) /\ op' = [op EXCEPT !.multi = TRUE, !.buf = Buffered(p)]
    <2>1. op'.impl = op.impl
      BY <1>2 DEF TypeOK
    <2> QED
      BY <1>2, <2>1 DEF Aside, Active
  <1> QED
    BY <1>1, <1>2 DEF OperationUpdate, Fail

LEMMA OutputIsAside == ASSUME OutputCall PROVE Aside
  <1>1. ASSUME NEW f, NEW type, NEW rvs, NEW data, NEW given, NEW out,
               Crypt(f, type, rvs, data, given, out)
        PROVE  Aside
    BY <1>1, ReleaseIsAside, KeepIsAside DEF Crypt, Fail
  <1>2. ASSUME NEW f, NEW rvs, NEW data, NEW given, NEW out,
               SignCall(f, rvs, data, given, out)
        PROVE  Aside
    BY <1>2, ReleaseIsAside, KeepIsAside DEF SignCall, Fail
  <1>3. ASSUME NEW f, NEW rvs, NEW data, NEW given, VerifyCall(f, rvs, data, given)
        PROVE  Aside
    BY <1>3, ReleaseIsAside DEF VerifyCall
  <1> QED
    BY <1>1, <1>2, <1>3
    DEF OutputCall, Encrypt, Decrypt, Sign, EncryptFinal, DecryptFinal, SignFinal,
        Verify, VerifyFinal

LEMMA OtherCallsAside ==
    ASSUME TypeOK, InitCall \/ UpdateCall \/ OutputCall \/ NullCall \/ TokenChanges
                     \/ ClearIv \/ UNCHANGED vars
    PROVE  Aside
  <1>1. CASE InitCall
    <2>1. PICK f \in {"EncryptInit", "DecryptInit", "SignInit", "VerifyInit"},
               i \in EncryptImpls \cup DecryptImpls \cup SignImpls \cup VerifyImpls,
               h \in Handles : OperationInit(f, i, h)
      BY <1>1, Zenon DEF InitCall, EncryptInit, DecryptInit, SignInit, VerifyInit
    <2>2. i.type # "find"
      BY DEF EncryptImpls, DecryptImpls, SignImpls, VerifyImpls, Impl, AesCbcEncrypter,
        AesCbcPadEncrypter, AesCtrEncrypter, AesGcmEncrypter, RsaOaepEncrypter,
        AesCbcDecrypter, AesCtrDecrypter, AesGcmDecrypter, RsaOaepDecrypter,
        HmacSigner, KmsDigestingSigner, KmsPrehashedSigner, EcdsaSigner, RsaPssSigner,
        RsaPkcs1Signer, RsaRawPkcs1Signer, HmacVerifier, KmsDigestingVerifier,
        EcdsaVerifier, RsaPssVerifier, RsaPkcs1Verifier, RsaRawPkcs1Verifier
    <2>3. CASE Keep
      BY <2>1, <2>3, KeepIsAside DEF OperationInit
    <2>4. CASE op' = NewOp(i, <<>>)
      BY <2>2, <2>4 DEF NewOp, Aside
    <2> QED
      BY <2>1, <2>3, <2>4 DEF OperationInit
  <1>2. CASE UpdateCall
    BY <1>2, UpdateIsAside
    DEF UpdateCall, EncryptUpdate, DecryptUpdate, SignUpdate, VerifyUpdate
  <1>3. CASE OutputCall
    BY <1>3, OutputIsAside
  <1>4. CASE NullCall
    BY <1>4, KeepIsAside, ReleaseIsAside
    DEF NullCall, KeepingNullArgument, ReleasingNullArgument, Fail
  <1>5. CASE TokenChanges \/ ClearIv \/ UNCHANGED vars
    BY <1>5 DEF TokenChanges, ClearIv, NoCall, vars, Aside
  <1> QED
    BY <1>1, <1>2, <1>3, <1>4, <1>5

LEMMA SubSeqExtends ==
    ASSUME NEW E, NEW r \in Seq(E), NEW k \in Nat, NEW c \in Nat, k + c <= Len(r)
    PROVE  SubSeq(r, 1, k) \o SubSeq(r, k + 1, k + c) = SubSeq(r, 1, k + c)
  <1> DEFINE a == SubSeq(r, 1, k)
             b == SubSeq(r, k + 1, k + c)
             d == SubSeq(r, 1, k + c)
  <1>1. Len(r) \in Nat /\ \A i \in 1 .. Len(r) : r[i] \in E
    OBVIOUS
  <1>2. a \in Seq(E) /\ Len(a) = k /\ \A i \in 1 .. k : a[i] = r[i]
    BY <1>1, SubSeqProperties
  <1>3. b \in Seq(E) /\ Len(b) = c /\ \A i \in 1 .. c : b[i] = r[k + i]
    BY <1>1, SubSeqProperties
  <1>4. d \in Seq(E) /\ Len(d) = k + c /\ \A i \in 1 .. k + c : d[i] = r[i]
    BY <1>1, SubSeqProperties
  <1> HIDE DEF a, b, d
  <1>5. /\ a \o b \in Seq(E) /\ Len(a \o b) = k + c
        /\ \A i \in 1 .. k + c : (a \o b)[i] = IF i <= k THEN a[i] ELSE b[i - k]
    BY <1>2, <1>3, ConcatProperties
  <1>6. \A i \in 1 .. k + c : (a \o b)[i] = d[i]
    <2> SUFFICES ASSUME NEW i \in 1 .. k + c PROVE (a \o b)[i] = d[i]
      OBVIOUS
    <2>1. CASE i <= k
      BY <1>2, <1>4, <1>5, <2>1
    <2>2. CASE ~(i <= k)
      <3>1. i - k \in 1 .. c /\ k + (i - k) = i
        BY <2>2
      <3> QED
        BY <1>3, <1>4, <1>5, <2>2, <3>1
    <2> QED
      BY <2>1, <2>2
  <1>7. a \o b = d
    BY <1>4, <1>5, <1>6, SeqEqual
  <1> QED
    BY <1>7 DEF a, b, d

\* FindOp::Next appends the handles that follow the ones returned so far.
LEMMA FindKeepsOrder ==
    ASSUME TypeOK, FindDepletes, FindCall PROVE FindDepletes'
  <1>1. ASSUME NEW S \in SUBSET objects, FindObjectsInit(S) PROVE FindDepletes'
    <2>1. CASE Keep
      BY <1>1, <2>1 DEF FindObjectsInit, Keep, Return, FindDepletes, Active
    <2>2. CASE op = NoOp /\ ~Keep
      <3>1. PICK order \in [1 .. Cardinality(S) -> S] :
              op' = NewOp(FindImpl, order) /\ found' = <<>>
        BY <1>1, <2>2 DEF FindObjectsInit
      <3>2. op'.results = order /\ op'.offset = 0 /\ SubSeq(order, 1, 0) = <<>>
        BY <3>1 DEF NewOp
      <3>3. ret'.fn # "FindObjects"
        BY <1>1 DEF FindObjectsInit, Return
      <3> QED
        BY <3>1, <3>2, <3>3 DEF FindDepletes
    <2> QED
      BY <1>1, <2>1, <2>2 DEF FindObjectsInit
  <1>2. ASSUME NEW n \in 0 .. MaxCount, FindObjects(n) PROVE FindDepletes'
    <2>1. CASE ~Active("find")
      BY <1>2, <2>1 DEF FindObjects, Keep, Return, FindDepletes, Active
    <2>2. CASE Active("find")
      <3> DEFINE r == op.results
                 k == op.offset
                 c == FindNext(n).count
      <3>1. /\ n \in Nat /\ k \in Nat /\ r \in Seq(Handles) /\ Len(r) \in Nat
            /\ k <= Len(r)
        BY <1>2, SessionConstants, LenProperties DEF SessionConstants, TypeOK
      <3>2. /\ op' = [op EXCEPT !.offset = FindNext(n).offset]
            /\ found' = found \o SubSeq(r, k + 1, k + c)
            /\ ret'.out = IF c < n THEN "short" ELSE "none"
        <4>1. PICK out : /\ out = IF c < n THEN "short" ELSE "none"
                         /\ Return("FindObjects", "OK", out)
          BY <1>2, <2>2 DEF FindObjects
        <4>2. ret'.out = out
          BY <4>1 DEF Return
        <4> QED
          BY <1>2, <2>2, <4>1, <4>2 DEF FindObjects
      <3>3. /\ c \in Nat /\ FindNext(n).offset = k + c /\ k + c <= Len(r)
            /\ c < n => k + c = Len(r)
        BY <3>1 DEF FindNext
      <3>4. op'.results = r /\ op'.offset = k + c
        BY <3>2, <3>3 DEF TypeOK
      <3> HIDE DEF c
      <3>5. SubSeq(r, 1, k) \o SubSeq(r, k + 1, k + c) = SubSeq(r, 1, k + c)
        BY <3>1, <3>3, SubSeqExtends
      <3>6. found = SubSeq(r, 1, k)
        BY <2>2 DEF FindDepletes
      <3> QED
        BY <3>2, <3>3, <3>4, <3>5, <3>6 DEF FindDepletes
    <2> QED
      BY <2>1, <2>2
  <1>3. ASSUME FindObjectsFinal PROVE FindDepletes'
    BY <1>3, NoneIsNoFind DEF FindObjectsFinal, Keep, Release, Return, FindDepletes, Active
  <1> QED
    BY <1>1, <1>2, <1>3 DEF FindCall

\* A search returns every handle of its snapshot once and in order, for
\* snapshots and requests of any size (FindOp::Next).
THEOREM FindsDeplete == Spec => []FindDepletes
  <1>1. Init => FindDepletes
    BY NoneIsNoFind DEF Init, FindDepletes, Active
  <1>2. TypeOK /\ FindDepletes /\ [Next]_vars => FindDepletes'
    <2> SUFFICES ASSUME TypeOK, FindDepletes, [Next]_vars PROVE FindDepletes'
      OBVIOUS
    <2>1. CASE Aside
      BY <2>1 DEF Aside, FindDepletes, Active
    <2> QED
      BY <2>1, FindKeepsOrder, OtherCallsAside DEF Next, Call
  <1> QED
    BY <1>1, <1>2, SessionTypeCorrect, PTL DEF Spec

----------------------------------------------------------------------------
\* When an operation ends.

LEMMA FailEnds ==
    ASSUME NEW f, f \notin InitOrFind, NEW rv, rv \notin {"OK", "BUFFER_TOO_SMALL"},
           Release, Return(f, rv, "none")
    PROVE  EndsWhenDone
  BY DEF Release, Return, EndsWhenDone, Ends

LEMMA DeliverEnds ==
    ASSUME NEW f, NEW sent, NEW given, NEW v, Release, Deliver(f, sent, given, v)
    PROVE  EndsWhenDone
  BY DEF Release, Deliver, EndsWhenDone, Ends

\* A call that keeps the operation: of C_*Init or C_FindObjects*, or without
\* an error.
LEMMA KeepGoesOn ==
    ASSUME NEW f, NEW rv, NEW out, out \in {"none", "size"}, Keep, Return(f, rv, out),
           \/ f \in InitOrFind /\ (f # "FindObjectsFinal" \/ rv # "OK")
           \/ rv \in {"OK", "BUFFER_TOO_SMALL"} /\ f # "FindObjectsFinal"
    PROVE  EndsWhenDone
  BY DEF Keep, Return, EndsWhenDone, Ends

\* The return codes of a call with input that fails.
Failures == {"FUNCTION_FAILED", "BAD_DATA", "DEVICE_ERROR", "SIGNATURE_INVALID"}

LEMMA ReturnCodes ==
    /\ \A data : SinglePart(data) \subseteq Failures \cup {"OK"}
    /\ Final \subseteq Failures \cup {"OK"}
    /\ \A part : UpdateRv(part) \in Failures \cup {"OK"}
  BY DEF SinglePart, Final, UpdateRv, Compute, Failures

OutputFunctions ==
    {"Encrypt", "Decrypt", "Sign", "Verify", "EncryptUpdate", "DecryptUpdate",
     "SignUpdate", "VerifyUpdate", "EncryptFinal", "DecryptFinal", "SignFinal",
     "VerifyFinal"}

LEMMA FunctionsDiffer ==
    \A f \in OutputFunctions : f \notin InitOrFind /\ f # "FindObjectsFinal"
  BY DEF OutputFunctions, InitOrFind

LEMMA CodesDiffer ==
    \A rv \in Failures \cup {"OPERATION_NOT_INITIALIZED", "ARGUMENTS_BAD"} :
        rv \notin {"OK", "BUFFER_TOO_SMALL"}
  BY DEF Failures

LEMMA UpdateLifetime ==
    ASSUME TypeOK, NEW f \in OutputFunctions, NEW type, NEW p, OperationUpdate(f, type, p)
    PROVE  EndsWhenDone
  <1>1. CASE \E rv \in Failures \cup {"OPERATION_NOT_INITIALIZED"} : Fail(f, rv)
    BY <1>1, FunctionsDiffer, CodesDiffer, FailEnds DEF Fail
  <1>2. CASE /\ op' = [op EXCEPT !.multi = TRUE, !.buf = Buffered(p)]
             /\ Return(f, "OK", "none")
    <2>1. op'.multi /\ ~NoOp.multi
      BY <1>2 DEF TypeOK, NoOp, NewOp
    <2>2. op' # NoOp /\ ~Ends /\ ret'.out # "size"
      BY <1>2, <2>1, FunctionsDiffer DEF Return, Ends
    <2> QED
      BY <2>2 DEF EndsWhenDone
  <1> QED
    BY <1>1, <1>2, ReturnCodes DEF OperationUpdate

LEMMA CryptLifetime ==
    ASSUME NEW f \in OutputFunctions, NEW type, NEW rvs \in SUBSET (Failures \cup {"OK"}),
           NEW data, NEW given, NEW out, Crypt(f, type, rvs, data, given, out)
    PROVE  EndsWhenDone
  <1>1. CASE \E rv \in Failures \cup {"OPERATION_NOT_INITIALIZED"} : Fail(f, rv)
    BY <1>1, FunctionsDiffer, CodesDiffer, FailEnds DEF Fail
  <1>2. CASE Keep /\ \E rv \in {"OK", "BUFFER_TOO_SMALL"} : Return(f, rv, "size")
    BY <1>2, FunctionsDiffer, KeepGoesOn
  <1>3. CASE Release /\ \E v : Deliver(f, data, given, v)
    BY <1>3, DeliverEnds
  <1> QED
    BY <1>1, <1>2, <1>3 DEF Crypt

LEMMA SignLifetime ==
    ASSUME NEW f \in OutputFunctions, NEW rvs \in SUBSET (Failures \cup {"OK"}),
           NEW data, NEW given, NEW out, SignCall(f, rvs, data, given, out)
    PROVE  EndsWhenDone
  <1>1. CASE /\ Release
             /\ \E rv \in Failures \cup {"OPERATION_NOT_INITIALIZED"} : Return(f, rv, "none")
    BY <1>1, FunctionsDiffer, CodesDiffer, FailEnds
  <1>2. CASE Keep /\ \E rv \in {"OK", "BUFFER_TOO_SMALL"} : Return(f, rv, "size")
    BY <1>2, FunctionsDiffer, KeepGoesOn
  <1>3. CASE Release /\ Deliver(f, data, given, 0)
    BY <1>3, DeliverEnds
  <1> QED
    BY <1>1, <1>2, <1>3 DEF SignCall, Fail

LEMMA VerifyLifetime ==
    ASSUME NEW f \in OutputFunctions, NEW rvs \in SUBSET (Failures \cup {"OK"}),
           NEW data, NEW given, VerifyCall(f, rvs, data, given)
    PROVE  EndsWhenDone
  <1>1. CASE \E rv \in Failures \cup {"OPERATION_NOT_INITIALIZED"} : Return(f, rv, "none")
    BY <1>1, FunctionsDiffer, CodesDiffer, FailEnds DEF VerifyCall
  <1>2. CASE Deliver(f, data, given, 0)
    BY <1>2, DeliverEnds DEF VerifyCall
  <1> QED
    BY <1>1, <1>2 DEF VerifyCall

LEMMA FindLifetime == ASSUME TypeOK, FindCall PROVE EndsWhenDone
  <1>1. ASSUME NEW S \in SUBSET objects, FindObjectsInit(S) PROVE EndsWhenDone
    <2>1. CASE Keep
      BY <1>1, <2>1, KeepGoesOn DEF FindObjectsInit, InitOrFind
    <2>2. CASE op = NoOp /\ ~Keep
      BY <1>1, <2>2 DEF FindObjectsInit, Return, EndsWhenDone, Ends
    <2> QED
      BY <1>1, <2>1, <2>2 DEF FindObjectsInit
  <1>2. ASSUME NEW n \in 0 .. MaxCount, FindObjects(n) PROVE EndsWhenDone
    <2>1. CASE ~Active("find")
      BY <1>2, <2>1, KeepGoesOn DEF FindObjects, InitOrFind
    <2>2. CASE Active("find")
      <3>1. PICK out \in {"short", "none"} : Return("FindObjects", "OK", out)
        BY <1>2, <2>2 DEF FindObjects
      <3>2. op'.impl = op.impl
        BY <1>2, <2>2 DEF FindObjects, TypeOK
      <3>3. op' # NoOp
        BY <2>2, <3>2, NoneIsNoFind DEF Active
      <3>4. ~Ends /\ ret'.out # "size"
        BY <3>1 DEF Return, Ends
      <3> QED
        BY <3>3, <3>4 DEF EndsWhenDone
    <2> QED
      BY <2>1, <2>2
  <1>3. ASSUME FindObjectsFinal PROVE EndsWhenDone
    <2>1. CASE Keep /\ Return("FindObjectsFinal", "OPERATION_NOT_INITIALIZED", "none")
      BY <2>1, KeepGoesOn DEF InitOrFind
    <2>2. CASE Release /\ Return("FindObjectsFinal", "OK", "none")
      BY <2>2 DEF Release, Return, EndsWhenDone, Ends
    <2> QED
      BY <1>3, <2>1, <2>2 DEF FindObjectsFinal
  <1> QED
    BY <1>1, <1>2, <1>3 DEF FindCall

LEMMA OutputLifetime == ASSUME OutputCall PROVE EndsWhenDone
  <1>1. ASSUME NEW p \in Parts, NEW out \in Outs, Encrypt(p, out) \/ Decrypt(p, out)
        PROVE  EndsWhenDone
    <2>1. SinglePart(p) \in SUBSET (Failures \cup {"OK"})
      BY ReturnCodes
    <2>2. "Encrypt" \in OutputFunctions /\ "Decrypt" \in OutputFunctions
      BY DEF OutputFunctions
    <2> QED
      BY <1>1, <2>1, <2>2, CryptLifetime DEF Encrypt, Decrypt
  <1>2. ASSUME NEW out \in Outs, EncryptFinal(out) \/ DecryptFinal(out)
        PROVE  EndsWhenDone
    <2>1. "EncryptFinal" \in OutputFunctions /\ "DecryptFinal" \in OutputFunctions
      BY DEF OutputFunctions
    <2> QED
      BY <1>2, <2>1, ReturnCodes, CryptLifetime DEF EncryptFinal, DecryptFinal
  <1>3. ASSUME NEW p \in Parts, NEW out \in Outs, Sign(p, out) PROVE EndsWhenDone
    <2>1. SinglePart(p) \in SUBSET (Failures \cup {"OK"}) /\ "Sign" \in OutputFunctions
      BY ReturnCodes DEF OutputFunctions
    <2> QED
      BY <1>3, <2>1, SignLifetime DEF Sign
  <1>4. ASSUME NEW out \in Outs, SignFinal(out) PROVE EndsWhenDone
    <2>1. "SignFinal" \in OutputFunctions
      BY DEF OutputFunctions
    <2> QED
      BY <1>4, <2>1, ReturnCodes, SignLifetime DEF SignFinal
  <1>5. ASSUME NEW p \in Parts, Verify(p) PROVE EndsWhenDone
    <2>1. SinglePart(p) \in SUBSET (Failures \cup {"OK"}) /\ "Verify" \in OutputFunctions
      BY ReturnCodes DEF OutputFunctions
    <2> QED
      BY <1>5, <2>1, VerifyLifetime DEF Verify
  <1>6. ASSUME VerifyFinal PROVE EndsWhenDone
    <2>1. "VerifyFinal" \in OutputFunctions
      BY DEF OutputFunctions
    <2> QED
      BY <1>6, <2>1, ReturnCodes, VerifyLifetime DEF VerifyFinal
  <1> QED
    BY <1>1, <1>2, <1>3, <1>4, <1>5, <1>6 DEF OutputCall

LEMMA StepLifetime == TypeOK /\ [Next]_vars => [EndsWhenDone]_vars
  <1> SUFFICES ASSUME TypeOK, Next PROVE EndsWhenDone
    OBVIOUS
  <1>1. CASE InitCall
    <2>1. PICK f \in {"EncryptInit", "DecryptInit", "SignInit", "VerifyInit"},
               i \in EncryptImpls \cup DecryptImpls \cup SignImpls \cup VerifyImpls,
               h \in Handles : OperationInit(f, i, h)
      BY <1>1, Zenon DEF InitCall, EncryptInit, DecryptInit, SignInit, VerifyInit
    <2>2. f \in InitOrFind /\ f # "FindObjectsFinal"
      BY DEF InitOrFind
    <2>3. CASE Keep
      BY <2>1, <2>2, <2>3, KeepGoesOn DEF OperationInit
    <2>4. CASE op = NoOp /\ Return(f, "OK", "none")
      BY <2>2, <2>4 DEF Return, EndsWhenDone, Ends
    <2> QED
      BY <2>1, <2>3, <2>4 DEF OperationInit
  <1>2. CASE UpdateCall
    <2>1. {"EncryptUpdate", "DecryptUpdate", "SignUpdate", "VerifyUpdate"}
            \subseteq OutputFunctions
      BY DEF OutputFunctions
    <2> QED
      BY <1>2, <2>1, UpdateLifetime
      DEF UpdateCall, EncryptUpdate, DecryptUpdate, SignUpdate, VerifyUpdate
  <1>3. CASE NullCall
    <2>1. CASE \E f \in InitOrFind \ {"FindObjectsFinal"} : KeepingNullArgument(f)
      BY <2>1, KeepGoesOn DEF KeepingNullArgument
    <2>2. CASE \E f \in OutputFunctions : ReleasingNullArgument(f)
      BY <2>2, FunctionsDiffer, CodesDiffer, FailEnds DEF ReleasingNullArgument, Fail
    <2> QED
      BY <1>3, <2>1, <2>2 DEF NullCall, InitOrFind, OutputFunctions
  <1>4. CASE TokenChanges
    BY <1>4 DEF TokenChanges, EndsWhenDone
  <1>5. CASE ClearIv
    BY <1>5 DEF ClearIv, NoCall, EndsWhenDone, Ends
  <1> QED
    BY <1>1, <1>2, <1>3, <1>4, <1>5, FindLifetime, OutputLifetime DEF Next, Call

\* The call that delivers the output of an operation or fails ends it, and no
\* other does, for every class under operation/ (Session::ReleaseOperation).
THEOREM OperationsEndInTime == Spec => OperationLifetime
  BY StepLifetime, SessionTypeCorrect, PTL DEF Spec, OperationLifetime
============================================================================
