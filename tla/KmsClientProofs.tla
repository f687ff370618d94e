--------------------------- MODULE KmsClientProofs ---------------------------
(***************************************************************************)
(* Proofs about KmsClient: the loops of the client, for lists and pages of *)
(* any length, any deadline and any duration of calls.                     *)
(***************************************************************************)
EXTENDS KmsClient, TLAPS

\* What the range has handed out and what it holds of the current page are the
\* first next_page_token elements of the list, until a call failed.
ListInv ==
  /\ loop \in {"idle", "next", "body", "sleep", "poll", "done"}
  /\ outcome \in {"none", "end", "error", "ok", "deadline"}
  /\ loop = "done" <=> outcome # "none"
  /\ yielded \in Seq(Elements) /\ current_page \in Seq(Elements)
  /\ Len(yielded) <= Len(Items)
  /\ \A i \in 1..Len(yielded) : yielded[i] = Items[i]
  /\ on_last_page \in BOOLEAN /\ hollow \in BOOLEAN
  /\ next_page_token \in 0..Len(Items)
  /\ outcome # "error" =>
       /\ Len(yielded) + Len(current_page) = next_page_token
       /\ \A i \in 1..Len(current_page) : current_page[i] = Items[Len(yielded) + i]
       /\ on_last_page => next_page_token = Len(Items)
  /\ outcome = "end" => current_page = <<>> /\ (on_last_page \/ hollow)

\* How far a wait can get past its deadline, and how long before the clock a
\* version can have been generated without a call having seen it.
WaitInv ==
  /\ clock \in Nat /\ generated \subseteq Nat
  /\ loop = "idle" => generated = {} /\ clock = 0
  /\ loop = "sleep" => clock <= Timeout /\ \A t \in generated : t = clock
  /\ loop = "poll" => clock <= Timeout + MaxDelay /\ \A t \in generated : t >= clock - MaxDelay
  /\ loop = "done" <=> outcome # "none"
  /\ WaitIsTimely

LEMMA Facts ==
  /\ Len(Items) \in Nat /\ Items \in Seq(Elements)
  /\ Timeout \in Nat /\ MaxPage \in Nat /\ RpcTimes \subseteq Nat
  /\ Max(RpcTimes) \in RpcTimes /\ \A d \in RpcTimes : d <= Max(RpcTimes)
  <1>1. /\ Len(Items) \in Nat /\ Items \in Seq(Elements)
        /\ Timeout \in Nat /\ MaxPage \in Nat /\ RpcTimes \subseteq Nat
    BY LoopConstants DEF LoopConstants
  <1>2. \E d \in RpcTimes : \A e \in RpcTimes : d >= e
    BY LoopConstants, <1>1 DEF LoopConstants
  <1>3. Max(RpcTimes) \in RpcTimes /\ \A d \in RpcTimes : Max(RpcTimes) >= d
    BY <1>2 DEF Max
  <1> QED
    BY <1>1, <1>3

LEMMA BackoffBounded == ASSUME NEW n PROVE ComputeBackoff(n) \in 0..MaxDelay
  <1>1. MaxDelay \in 0..MaxDelay
    BY DEF MaxDelay
  <1>2. \A d \in MinDelay..MaxDelay : d \in 0..MaxDelay
    BY DEF MinDelay, MaxDelay
  <1> QED
    BY <1>1, <1>2, Zenon DEF ComputeBackoff

LEMMA ListInit == ASSUME LoopInit PROVE ListInv
  <1>1. <<>> \in Seq(Elements) /\ Len(<<>>) = 0
    OBVIOUS
  <1>2. on_last_page \in BOOLEAN /\ hollow \in BOOLEAN
    BY DEF LoopInit, NoList
  <1> QED
    BY <1>1, <1>2, Facts DEF LoopInit, NoList, ListInv

\* A page is what follows the elements before it.
LEMMA PageFollows ==
  ASSUME NEW k \in 0..Len(Items), NEW n \in 0..MaxPage, k + n <= Len(Items)
  PROVE  /\ SubSeq(Rest(k), 1, n) \in Seq(Elements)
         /\ Len(SubSeq(Rest(k), 1, n)) = n
         /\ \A i \in 1..n : SubSeq(Rest(k), 1, n)[i] = Items[k + i]
  <1>1. Len(Items) \in Nat /\ k \in Nat /\ n \in Nat /\ Items \in Seq(Elements)
    BY Facts
  <1>2. /\ Rest(k) \in Seq(Elements) /\ Len(Rest(k)) = Len(Items) - k
        /\ \A i \in 1..(Len(Items) - k) : Rest(k)[i] = Items[k + i]
    BY <1>1 DEF Rest
  <1> QED
    BY <1>1, <1>2

LEMMA NextPageKeeps == ASSUME ListInv, NextPage PROVE ListInv'
  <1>1. PICK n \in PageSizes :
          /\ LoadPage(n)
          /\ IF n = 0 THEN loop' = "done" /\ outcome' = "end"
                      ELSE loop' = "next" /\ UNCHANGED outcome
    BY DEF NextPage
  <1>2. /\ current_page = <<>> /\ outcome = "none" /\ yielded' = yielded
        /\ Len(yielded) = next_page_token /\ Len(Items) \in Nat /\ Len(yielded) \in Nat
    BY Facts DEF NextPage, ListInv
  <1>3. /\ n \in 0..MaxPage /\ next_page_token + n <= Len(Items) /\ n \in Nat
        /\ next_page_token \in 0..Len(Items)
    BY Facts DEF PageSizes, ListInv
  <1>4. /\ current_page' \in Seq(Elements) /\ Len(current_page') = n
        /\ \A i \in 1..n : current_page'[i] = Items[next_page_token + i]
    BY <1>1, <1>3, PageFollows DEF LoadPage
  <1>5. /\ next_page_token' = next_page_token + n
        /\ on_last_page' = (next_page_token + n = Len(Items))
        /\ hollow' = (hollow \/ (n = 0 /\ next_page_token + n # Len(Items)))
    BY <1>1 DEF LoadPage
  <1>6. CASE n = 0
    <2>1. current_page' = <<>>
      BY <1>4, <1>6
    <2> QED
      BY <1>1, <1>2, <1>3, <1>4, <1>5, <1>6, <2>1 DEF ListInv
  <1>7. CASE n # 0
    BY <1>1, <1>2, <1>3, <1>4, <1>5, <1>7 DEF ListInv
  <1> QED
    BY <1>6, <1>7
LEMMA NextOfPageKeeps == ASSUME ListInv, NextOfPage PROVE ListInv'
  <1>1. /\ current_page # <<>> /\ current_page \in Seq(Elements) /\ outcome = "none"
        /\ yielded \in Seq(Elements) /\ Len(yielded) \in Nat
        /\ Len(current_page) \in Nat \ {0} /\ Len(Items) \in Nat
    BY Facts DEF NextOfPage, ListInv
  <1>2. /\ Head(current_page) = current_page[1]
        /\ Head(current_page) \in Elements
        /\ current_page' \in Seq(Elements) /\ Len(current_page') = Len(current_page) - 1
        /\ \A i \in 1..(Len(current_page) - 1) : current_page'[i] = current_page[i + 1]
    BY <1>1 DEF NextOfPage
  <1>3. /\ yielded' \in Seq(Elements) /\ Len(yielded') = Len(yielded) + 1
        /\ yielded'[Len(yielded) + 1] = Head(current_page)
        /\ \A i \in 1..Len(yielded) : yielded'[i] = yielded[i]
    BY <1>1, <1>2 DEF NextOfPage
  <1>4. Head(current_page) = Items[Len(yielded) + 1]
    BY <1>1, <1>2 DEF ListInv
  <1>5. /\ Len(yielded') <= Len(Items)
        /\ Len(yielded') + Len(current_page') = next_page_token'
    BY <1>1, <1>2, <1>3 DEF ListInv, NextOfPage
  <1>6. \A i \in 1..Len(yielded') : yielded'[i] = Items[i]
    BY <1>1, <1>3, <1>4 DEF ListInv
  <1>7. \A i \in 1..Len(current_page') : current_page'[i] = Items[Len(yielded') + i]
    <2> SUFFICES ASSUME NEW i \in 1..Len(current_page')
                 PROVE  current_page'[i] = Items[Len(yielded') + i]
      OBVIOUS
    <2>1. i + 1 \in 1..Len(current_page) /\ current_page'[i] = current_page[i + 1]
      BY <1>1, <1>2
    <2>2. current_page[i + 1] = Items[Len(yielded) + (i + 1)]
      BY <2>1, <1>1 DEF ListInv
    <2> QED
      BY <2>1, <2>2, <1>1, <1>3
  <1> QED
    BY <1>1, <1>2, <1>3, <1>5, <1>6, <1>7 DEF ListInv, NextOfPage

LEMMA ListKept == ASSUME ListInv, [LoopNext]_loopVars PROVE ListInv'
  <1>1. CASE BeginList \/ Increment \/ BeginWait \/ Sleep \/ Generate
    <2>1. /\ UNCHANGED <<outcome, listVars>> /\ loop # "done" /\ loop' # "done"
          /\ loop' \in {"idle", "next", "body", "sleep", "poll", "done"}
      BY <1>1 DEF ListInv, BeginList, Increment, BeginWait, Sleep, Generate
    <2> QED
      BY <2>1 DEF ListInv, listVars
  <1>2. CASE NextIsEnd
    BY <1>2 DEF ListInv, NextIsEnd, listVars
  <1>3. CASE NextPageFails
    <2>1. on_last_page' \in BOOLEAN /\ hollow' \in BOOLEAN /\ next_page_token' \in 0..Len(Items)
      BY <1>3, Facts DEF ListInv, NextPageFails
    <2> QED
      BY <1>3, <2>1 DEF ListInv, NextPageFails
  <1>4. CASE Poll
    BY <1>4 DEF ListInv, Poll, listVars
  <1>5. CASE PollFails
    BY <1>5 DEF ListInv, PollFails, listVars
  <1>6. CASE LoopReturn
    <2>1. <<>> \in Seq(Elements) /\ Len(<<>>) = 0
      OBVIOUS
    <2>2. on_last_page' \in BOOLEAN /\ hollow' \in BOOLEAN
      BY <1>6 DEF LoopReturn, Clear
    <2> QED
      BY <1>6, <2>1, <2>2, Facts DEF ListInv, LoopReturn, Clear
  <1>7. CASE UNCHANGED loopVars
    BY <1>7 DEF ListInv, loopVars, listVars
  <1> QED
    BY <1>1, <1>2, <1>3, <1>4, <1>5, <1>6, <1>7, NextPageKeeps, NextOfPageKeeps
    DEF LoopNext, LoopStep
-----------------------------------------------------------------------------
LEMMA WaitInit == ASSUME LoopInit PROVE WaitInv
  BY DEF LoopInit, NoWait, WaitInv, WaitIsTimely

LEMMA PollKeeps == ASSUME WaitInv, Poll PROVE WaitInv'
  <1>1. PICK d \in RpcTimes :
          IF clock + d < Timeout
          THEN /\ clock' = clock + d
               /\ IF generated = {} THEN loop' = "sleep" /\ UNCHANGED outcome
                                    ELSE loop' = "done" /\ outcome' = "ok"
          ELSE /\ clock' = Max({clock, Timeout})
               /\ loop' = "done" /\ outcome' = "deadline"
    BY DEF Poll
  <1>2. /\ clock \in Nat /\ d \in Nat /\ Timeout \in Nat /\ generated \subseteq Nat
        /\ clock <= Timeout + MaxDelay /\ \A t \in generated : t >= clock - MaxDelay
        /\ outcome = "none" /\ generated' = generated
        /\ d <= Max(RpcTimes) /\ Max(RpcTimes) \in Nat
    BY Facts DEF WaitInv, Poll
  <1>3. CASE clock + d < Timeout /\ generated = {}
    BY <1>1, <1>2, <1>3 DEF WaitInv, WaitIsTimely
  <1>4. CASE clock + d < Timeout /\ generated # {}
    BY <1>1, <1>2, <1>4 DEF WaitInv, WaitIsTimely
  <1>5. CASE ~(clock + d < Timeout)
    <2>1. \E m \in {clock, Timeout} : \A n \in {clock, Timeout} : m >= n
      BY <1>2
    <2>2. Max({clock, Timeout}) \in {clock, Timeout}
      BY <2>1 DEF Max
    <2>3. clock' \in Nat /\ clock' <= Timeout + MaxDelay
      BY <1>1, <1>2, <1>5, <2>2 DEF MaxDelay
    <2>4. \A t \in generated : t >= Timeout - MaxDelay - Max(RpcTimes)
      BY <1>2, <1>5 DEF MaxDelay
    <2> QED
      BY <1>1, <1>2, <1>5, <2>3, <2>4 DEF WaitInv, WaitIsTimely
  <1> QED
    BY <1>3, <1>4, <1>5

LEMMA WaitKept == ASSUME WaitInv, ListInv, [LoopNext]_loopVars PROVE WaitInv'
  <1>1. CASE BeginList \/ NextOfPage \/ NextIsEnd \/ NextPageFails \/ Increment
    BY <1>1 DEF WaitInv, WaitIsTimely, BeginList, NextOfPage, NextIsEnd, NextPageFails,
                Increment, waitVars
  <1>2. CASE NextPage
    BY <1>2 DEF WaitInv, WaitIsTimely, NextPage, waitVars
  <1>3. CASE BeginWait
    BY <1>3, Facts DEF WaitInv, WaitIsTimely, BeginWait, waitVars
  <1>4. CASE Sleep
    <2>1. PICK delay \in 0..MaxDelay : clock' = clock + delay
      BY <1>4, BackoffBounded DEF Sleep
    <2>2. /\ clock \in Nat /\ generated \subseteq Nat /\ clock <= Timeout /\ outcome = "none"
          /\ \A t \in generated : t = clock
      BY <1>4 DEF WaitInv, Sleep
    <2>3. clock' \in Nat /\ clock' <= Timeout + MaxDelay /\ clock >= clock' - MaxDelay
      BY <2>1, <2>2, Facts DEF MaxDelay
    <2>4. loop' = "poll" /\ outcome' = outcome /\ generated' = generated
      BY <1>4 DEF Sleep
    <2> QED
      BY <2>2, <2>3, <2>4 DEF WaitInv, WaitIsTimely
  <1>5. CASE Generate
    BY <1>5 DEF WaitInv, WaitIsTimely, Generate, MaxDelay
  <1>6. CASE PollFails
    BY <1>6 DEF WaitInv, WaitIsTimely, PollFails, waitVars
  <1>7. CASE LoopReturn
    BY <1>7 DEF WaitInv, WaitIsTimely, LoopReturn, Clear
  <1>8. CASE UNCHANGED loopVars
    BY <1>8 DEF WaitInv, WaitIsTimely, loopVars, waitVars
  <1> QED
    BY <1>1, <1>2, <1>3, <1>4, <1>5, <1>6, <1>7, <1>8, PollKeeps DEF LoopNext, LoopStep

\* A call of another method leaves the state of the loops alone.
LEMMA CallsAreLoopSteps == ASSUME [Next]_clientVars PROVE [LoopNext]_loopVars
  BY DEF Next, CryptoCall, LoopCall, clientVars

\* The two invariants of the loops hold in every state of the client.
THEOREM LoopInvariant == Spec => [](ListInv /\ WaitInv)
  <1>1. Init => ListInv /\ WaitInv
    BY ListInit, WaitInit DEF Init
  <1>2. (ListInv /\ WaitInv) /\ [Next]_clientVars => (ListInv /\ WaitInv)'
    BY CallsAreLoopSteps, ListKept, WaitKept
  <1> QED
    BY <1>1, <1>2, PTL DEF Spec

\* A loop over a list sees its elements in order and, if it ends without an
\* error and no page was empty, all of them (PaginationRange::GetNext): for a
\* list of any length, cut into pages in any way.
THEOREM ListsAreComplete == Spec => []ListIsComplete
  <1>1. ListInv => ListIsComplete
    <2> SUFFICES ASSUME ListInv PROVE ListIsComplete
      OBVIOUS
    <2>1. /\ Items \in Seq(Elements) /\ yielded \in Seq(Elements) /\ Len(Items) \in Nat
          /\ Len(yielded) \in Nat /\ Len(yielded) <= Len(Items)
          /\ \A i \in 1..Len(yielded) : yielded[i] = Items[i]
      BY Facts DEF ListInv
    <2>2. yielded = Seen(Len(yielded))
      BY <2>1 DEF Seen
    <2>3. Len(yielded) = Len(Items) => yielded = Items
      BY <2>1
    <2>4. outcome = "end" => Len(yielded) = Len(Items) \/ hollow
      BY <2>1 DEF ListInv
    <2> QED
      BY <2>2, <2>3, <2>4 DEF ListIsComplete
  <1> QED
    BY <1>1, LoopInvariant, PTL

\* WaitForGeneration succeeds only for a version that was generated in time,
\* and gives up at most one delay late: for every deadline and every duration
\* of a call.
THEOREM WaitsAreTimely == Spec => []WaitIsTimely
  <1>1. WaitInv => WaitIsTimely
    BY DEF WaitInv
  <1> QED
    BY <1>1, LoopInvariant, PTL
=============================================================================
