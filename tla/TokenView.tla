----------------------------- MODULE TokenView -----------------------------
(***************************************************************************)
(* What Token::RefreshState promises.  The key ring changes at any time.   *)
(* A refresh either replaces the published keys in one step, by a snapshot *)
(* taken during the refresh itself, or changes nothing.  The snapshot is   *)
(* "regular": the ring is read by several RPCs, so a version that was      *)
(* available for only a part of the refresh may be in it or not; one that  *)
(* was available throughout is, and one that never was is not.             *)
(*                                                                         *)
(* Nothing orders two overlapping refreshes: the snapshot that is          *)
(* published last may be the older one.                                    *)
(***************************************************************************)
CONSTANTS Versions, Threads

VARIABLES
    available, \* the versions that the key ring offers now
    published, \* the versions that the token shows
    active,    \* the threads that are in a refresh
    ever,      \* versions available at some time since a thread's refresh began
    always     \* versions available ever since it began

vars == <<available, published, active, ever, always>>

TypeOK ==
    /\ available \subseteq Versions
    /\ published \subseteq Versions
    /\ active \subseteq Threads
    /\ ever \in [Threads -> SUBSET Versions]
    /\ always \in [Threads -> SUBSET Versions]

Init ==
    /\ available = {}
    /\ published = {}
    /\ active = {}
    /\ ever = [t \in Threads |-> {}]
    /\ always = [t \in Threads |-> {}]

\* The key ring changes; every refresh under way may or may not notice.
Change ==
    /\ available' \in SUBSET Versions
    /\ ever' = [t \in Threads |-> IF t \in active THEN ever[t] \cup available'
                                                  ELSE ever[t]]
    /\ always' = [t \in Threads |-> IF t \in active THEN always[t] \cap available'
                                                    ELSE always[t]]
    /\ UNCHANGED <<published, active>>

BeginRefresh(t) ==
    /\ t \notin active
    /\ active' = active \cup {t}
    /\ ever' = [ever EXCEPT ![t] = available]
    /\ always' = [always EXCEPT ![t] = available]
    /\ UNCHANGED <<available, published>>

\* The refresh of t is over, and its interval with it.
EndRefresh(t) ==
    /\ t \in active
    /\ active' = active \ {t}
    /\ ever' = [ever EXCEPT ![t] = {}]
    /\ always' = [always EXCEPT ![t] = {}]
    /\ UNCHANGED available

Publish(t) ==
    /\ EndRefresh(t)
    /\ always[t] \subseteq published'
    /\ published' \subseteq ever[t]

Abandon(t) == EndRefresh(t) /\ UNCHANGED published

Next == Change \/ \E t \in Threads : BeginRefresh(t) \/ Publish(t) \/ Abandon(t)

Spec == Init /\ [][Next]_vars
============================================================================
