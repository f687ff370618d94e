--------------------------- MODULE KmsClientLoops ---------------------------
(***************************************************************************)
(* The two loops of the client: the range that reads the pages of a list   *)
(* (common/pagination_range.h, the List methods of common/kms_client.cc)   *)
(* and the wait for a version to be generated (WaitForGeneration, with the *)
(* delays of common/backoff.cc).  A list is read by a for loop, as in      *)
(* ObjectLoader::BuildState, which stops at the first error.               *)
(*                                                                         *)
(* The server cuts a list into pages as it likes; a page may be empty and  *)
(* still have a token for the next one, which the Cloud KMS API allows.    *)
(* Time passes in milliseconds: only sleeping and calls take any.          *)
(***************************************************************************)
EXTENDS Integers, Sequences, FiniteSetsExt

CONSTANTS
  Items,       \* the elements of the list on the server, a sequence
  MaxPage,     \* the largest page
  Timeout,     \* the deadline of a wait, after its start
  RpcTimes     \* how long a call of GetCryptoKeyVersion may take

Elements == {Items[i] : i \in DOMAIN Items}

ASSUME LoopConstants ==
  /\ Items \in Seq(Elements)
  /\ MaxPage \in Nat /\ Timeout \in Nat /\ RpcTimes \subseteq Nat
  /\ \E d \in RpcTimes : \A e \in RpcTimes : e <= d

VARIABLES
  loop,             \* "idle", "next", "body", "sleep", "poll" or "done"
  outcome,          \* how the loop ended: "none", "end", "error", "ok", "deadline"
  current_page,     \* the elements of the page that are not yet returned
  on_last_page,     \* the server has no further page
  next_page_token,  \* the elements before the next page
  yielded,          \* the elements the loop body has seen
  hollow,           \* an empty page had a token
  tries,            \* polls made
  clock,            \* time since the wait began
  generated         \* when the version left PENDING_GENERATION: {} or {t}

listVars == <<current_page, on_last_page, next_page_token, yielded, hollow>>
waitVars == <<tries, clock, generated>>
loopVars == <<loop, outcome, listVars, waitVars>>

MinDelay == 20
MaxDelay == 1000

\* ComputeBackoff(MinDelay, MaxDelay, n): a factor of 1.3 for each retry, here
\* rounded down to a millisecond each time, and at most the maximum.
Grown[n \in Nat] == IF n = 0 THEN MinDelay ELSE (Grown[n - 1] * 13) \div 10
\* Mutant: no maximum.
ComputeBackoffUncapped(n) == Grown[n]

ComputeBackoff(n) == IF Grown[n] \in MinDelay..MaxDelay THEN Grown[n] ELSE MaxDelay

NoList ==
  /\ current_page = <<>> /\ on_last_page = FALSE /\ next_page_token = 0
  /\ yielded = <<>> /\ hollow = FALSE
NoWait == tries = 0 /\ clock = 0 /\ generated = {}

LoopInit == loop = "idle" /\ outcome = "none" /\ NoList /\ NoWait

Clear ==
  /\ outcome' = "none" /\ current_page' = <<>> /\ on_last_page' = FALSE
  /\ next_page_token' = 0 /\ yielded' = <<>> /\ hollow' = FALSE
  /\ tries' = 0 /\ clock' = 0 /\ generated' = {}
-----------------------------------------------------------------------------
\* A range: the constructor and begin().
BeginList ==
  /\ loop = "idle"
  /\ loop' = "next"
  /\ UNCHANGED <<outcome, listVars, waitVars>>

\* GetNext while the page has elements left.
NextOfPage ==
  /\ loop = "next" /\ current_page # <<>>
  /\ yielded' = Append(yielded, Head(current_page))
  /\ current_page' = Tail(current_page)
  /\ loop' = "body"
  /\ UNCHANGED <<outcome, on_last_page, next_page_token, hollow, waitVars>>

\* GetNext past the last page returns end(), and the loop stops.
NextIsEnd ==
  /\ loop = "next" /\ current_page = <<>> /\ on_last_page
  /\ loop' = "done" /\ outcome' = "end"
  /\ UNCHANGED <<listVars, waitVars>>

\* The elements after the first n, and whether the list ends with them.
Rest(n) == SubSeq(Items, n + 1, Len(Items))
PageSizes == {n \in 0..MaxPage : next_page_token + n <= Len(Items)}

\* The server returns a page of n elements, with a token if more are left.
LoadPage(n) ==
  LET last == next_page_token + n = Len(Items)
  IN  /\ current_page' = SubSeq(Rest(next_page_token), 1, n)
      /\ next_page_token' = next_page_token + n
      /\ on_last_page' = last
      /\ hollow' = (hollow \/ (n = 0 /\ ~last))

\* GetNext at the end of a page reads the next one and returns its first
\* element; if it has none, GetNext returns end(), token or not.
NextPage ==
  /\ loop = "next" /\ current_page = <<>> /\ ~on_last_page
  /\ \E n \in PageSizes :
       /\ LoadPage(n)
       /\ IF n = 0 THEN loop' = "done" /\ outcome' = "end"
                   ELSE loop' = "next" /\ UNCHANGED outcome
  /\ UNCHANGED <<yielded, waitVars>>

\* Mutant: a failed call ends the list like the last page.
NextPageFailsSilently ==
  /\ loop = "next" /\ current_page = <<>> /\ ~on_last_page
  /\ next_page_token' = 0 /\ on_last_page' = TRUE
  /\ loop' = "done" /\ outcome' = "end"
  /\ UNCHANGED <<current_page, yielded, hollow, waitVars>>

\* The call for a page fails: an iterator with the error, and no further page.
NextPageFails ==
  /\ loop = "next" /\ current_page = <<>> /\ ~on_last_page
  /\ next_page_token' = 0 /\ on_last_page' = TRUE
  /\ loop' = "done" /\ outcome' = "error"
  /\ UNCHANGED <<current_page, yielded, hollow, waitVars>>

\* it++
Increment ==
  /\ loop = "body"
  /\ loop' = "next"
  /\ UNCHANGED <<outcome, listVars, waitVars>>
-----------------------------------------------------------------------------
\* WaitForGeneration, for a version that is pending when it is called.
BeginWait ==
  /\ loop = "idle"
  /\ loop' = "sleep"
  /\ UNCHANGED <<outcome, listVars, waitVars>>

\* absl::SleepFor: the deadline does not cut a sleep short.
Sleep ==
  /\ loop = "sleep"
  /\ clock' = clock + ComputeBackoff(tries)
  /\ tries' = tries + 1
  /\ loop' = "poll"
  /\ UNCHANGED <<outcome, listVars, generated>>

\* The server finishes to generate the key, at any time.
Generate ==
  /\ loop \in {"sleep", "poll"} /\ generated = {}
  /\ generated' = {clock}
  /\ UNCHANGED <<loop, outcome, listVars, tries, clock>>

\* Mutant: the deadline and the delays start again with each call.
PollForever ==
  /\ loop = "poll"
  /\ IF generated = {} THEN loop' = "sleep" /\ clock' = 0 /\ tries' = 0 /\ UNCHANGED outcome
     ELSE loop' = "done" /\ outcome' = "ok" /\ UNCHANGED <<clock, tries>>
  /\ UNCHANGED <<listVars, generated>>

\* GetCryptoKeyVersion with the deadline of the whole wait: the answer comes
\* before it, or there is none; it is the state at the time of the answer.
Poll ==
  /\ loop = "poll"
  /\ \E d \in RpcTimes :
       IF clock + d < Timeout
       THEN /\ clock' = clock + d
            /\ IF generated = {} THEN loop' = "sleep" /\ UNCHANGED outcome
                                 ELSE loop' = "done" /\ outcome' = "ok"
       ELSE /\ clock' = Max({clock, Timeout})
            /\ loop' = "done" /\ outcome' = "deadline"
  /\ UNCHANGED <<listVars, tries, generated>>

PollFails ==
  /\ loop = "poll"
  /\ loop' = "done" /\ outcome' = "error"
  /\ UNCHANGED <<listVars, waitVars>>

LoopReturn ==
  /\ loop = "done"
  /\ loop' = "idle"
  /\ Clear

LoopStep ==
  \/ NextOfPage \/ NextIsEnd \/ NextPage \/ NextPageFails \/ Increment
  \/ Sleep \/ Poll \/ PollFails \/ LoopReturn

LoopNext == BeginList \/ BeginWait \/ Generate \/ LoopStep

\* The caller's thread runs; nothing makes the server generate the key.
LoopFairness == WF_loopVars(LoopStep)

LoopSpec == LoopInit /\ [][LoopNext]_loopVars /\ LoopFairness
-----------------------------------------------------------------------------
Seen(n) == SubSeq(Items, 1, n)

\* ListIsComplete: the loop body sees the elements of the list in order, each
\* once, and a loop that ends without an error has seen all of them, unless
\* the server sent an empty page with a token (common/pagination_range.h:204,
\* where the range takes such a page for the end of the list).
ListIsComplete ==
  /\ yielded = Seen(Len(yielded))
  /\ outcome = "end" => yielded = Items \/ hollow

\* WaitIsTimely: a wait that succeeds saw the version generated, before the
\* deadline; one that runs into the deadline returns at most one delay after
\* it, and the version was not generated longer before the deadline than one
\* delay and one call take.
WaitIsTimely ==
  /\ outcome = "ok" => generated # {} /\ clock < Timeout
  /\ outcome = "deadline" =>
       /\ clock <= Timeout + MaxDelay
       /\ \A t \in generated : t >= Timeout - MaxDelay - Max(RpcTimes)

\* LoopsEnd: every list and every wait ends, also for a key that is never
\* generated.
LoopsEnd == (loop # "idle") ~> (loop = "idle")
=============================================================================
