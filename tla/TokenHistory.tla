---------------------------- MODULE TokenHistory ---------------------------
(***************************************************************************)
(* Token with history variables: for a thread that is between taking       *)
(* cache_mutex_ and replacing the store, which versions the key ring       *)
(* offered at some time and which it offered all the time.  They restrict  *)
(* no step of Token.                                                       *)
(***************************************************************************)
EXTENDS Token

VARIABLES
    ever,     \* versions that were available at some time in the refresh
    always    \* versions that were available all the time in the refresh

historyVars == <<ever, always>>
hvars == <<vars, historyVars>>

Refreshing(step) == step \in {"list_keys", "load", "swap"}
Active == {t \in Threads : Refreshing(pc[t])}

HistoryTypeOK ==
    /\ ever \in [Threads -> SUBSET Versions]
    /\ always \in [Threads -> SUBSET Versions]

HInit ==
    /\ Init
    /\ ever = [t \in Threads |-> {}]
    /\ always = [t \in Threads |-> {}]

\* How a step of Token extends the history of thread t's refresh.
EverNext(t) ==
    IF ~Refreshing(pc'[t]) THEN {}
    ELSE Available' \cup (IF Refreshing(pc[t]) THEN ever[t] ELSE {})

AlwaysNext(t) ==
    IF ~Refreshing(pc'[t]) THEN {}
    ELSE Available' \cap (IF Refreshing(pc[t]) THEN always[t] ELSE Available)

HNext ==
    /\ Next
    /\ ever' = [t \in Threads |-> EverNext(t)]
    /\ always' = [t \in Threads |-> AlwaysNext(t)]

HSpec == HInit /\ [][HNext]_hvars

----------------------------------------------------------------------------
\* The state that BuildState returns is a regular snapshot of the key ring: it
\* has every version that was available throughout the build, also the ones
\* served from the cache, and none that never was.
RegularSnapshot ==
    \A t \in Threads : pc[t] = "swap" =>
        /\ always[t] \subseteq VersionsOf(result[t])
        /\ VersionsOf(result[t]) \subseteq ever[t]

View == INSTANCE TokenView
            WITH available <- Available,
                 published <- VersionsOf(objects),
                 active <- Active

\* Every behaviour of the token, with refreshes that overlap, fail half-way and
\* are delayed before the swap, is one that TokenView allows.
RefinesTokenView == View!Spec
============================================================================
