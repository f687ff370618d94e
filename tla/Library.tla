------------------------------ MODULE Library ------------------------------
(***************************************************************************)
(* The life of the library in one process: C_Initialize and C_Finalize     *)
(* (main/bridge.cc), the global provider (util/global_provider.cc), the    *)
(* logging state (util/logging.cc), the provider with its refresher        *)
(* thread, its session map and its tokens' logins (provider.cc,            *)
(* util/handle_map.h, token.cc), and fork (main/fork_support_posix.cc).    *)
(*                                                                         *)
(* Threads call concurrently.  An application obeys PKCS #11: C_Finalize   *)
(* does not overlap another call.  After a fork the model follows the      *)
(* child, in which only the forking thread exists.  What a token holds is  *)
(* modelled in Token, what a session does in Session.                      *)
(***************************************************************************)
EXTENDS Naturals, FiniteSets

CONSTANTS
    Threads,      \* the application's threads
    Slots,        \* the slots, one for each configured token
    Handles,      \* session handles
    MaxProviders, \* bound on the providers that C_Initialize makes
    MaxForks,     \* bound on the forks
    NoSession     \* a handle without a session

Session == [slot : Slots, rw : BOOLEAN, owner : 1..MaxProviders]

ASSUME LibraryConstants ==
    MaxProviders \in Nat /\ MaxForks \in Nat /\ NoSession \notin Session

VARIABLES
    pc,                  \* what a thread is about to do
    status,              \* the status with which its call returns
    static_provider,     \* the global pointer; 0 is nullptr
    made,                \* providers made so far, the last one has this number
    members,             \* the members of the last provider that exist
    logging_initialized,
    registered,          \* the fork handlers are registered
    refresher,           \* what the provider's refresher thread does
    notified,            \* Refresher::shutdown_
    refreshing,          \* the tokens that are left in this round
    sessions,            \* the provider's handle map
    is_logged_in,        \* for each token
    session,             \* the session that a thread has taken from the map
    orphaned,            \* how a thread that is lost in a fork held logging_lock
    torn,                \* a fork lost a thread that was deleting the provider
    forks

libVars == <<static_provider, made, members, logging_initialized, registered>>
refresherVars == <<refresher, notified, refreshing>>
sessionVars == <<sessions, is_logged_in>>
forkVars == <<orphaned, torn, forks>>
vars == <<pc, status, session, libVars, refresherVars, sessionVars, forkVars>>

\* The members of Provider that other code uses.
Members == {"tokens_", "sessions_", "kms_client_", "mechanism_types_"}

\* Where a thread holds logging_lock: the writers and the readers.
Writing == {"InitGoogleLogging", "ShutdownGoogleLogging"}
Reading == {"LOG"}

InitializeSteps == {"GetGlobalProvider", "InitializeLogging",
                    "InitGoogleLogging", "Provider::New", "SetGlobalProvider"}
DeleteSteps == {"~Provider", "~Refresher", "~Members", "nullptr"}
ShutdownSteps == {"ShutdownLogging", "ShutdownGoogleLogging"}
Steps == {"idle", "use", "return", "LOG", "lost"}
           \cup InitializeSteps \cup DeleteSteps \cup ShutdownSteps

TypeOK ==
    /\ pc \in [Threads -> Steps]
    /\ status \in [Threads -> {"ok", "error"}]
    /\ static_provider \in 0..made
    /\ made \in 0..MaxProviders
    /\ members \subseteq Members
    /\ logging_initialized \in BOOLEAN /\ registered \in BOOLEAN
    /\ notified \in BOOLEAN /\ torn \in BOOLEAN
    /\ refresher \in {"none", "waiting", "refreshing", "ended"}
    /\ refreshing \subseteq Slots
    /\ sessions \in [Handles -> Session \cup {NoSession}]
    /\ is_logged_in \in [Slots -> BOOLEAN]
    /\ session \in [Threads -> Session \cup {NoSession}]
    /\ orphaned \in {"none", "reader", "writer"}
    /\ forks \in 0..MaxForks

Init ==
    /\ pc = [t \in Threads |-> "idle"]
    /\ status = [t \in Threads |-> "ok"]
    /\ static_provider = 0 /\ made = 0 /\ members = {}
    /\ logging_initialized = FALSE /\ registered = FALSE
    /\ refresher = "none" /\ notified = FALSE /\ refreshing = {}
    /\ sessions = [h \in Handles |-> NoSession]
    /\ is_logged_in = [s \in Slots |-> FALSE]
    /\ session = [t \in Threads |-> NoSession]
    /\ orphaned = "none" /\ torn = FALSE /\ forks = 0

----------------------------------------------------------------------------
\* A thread goes on to step, or returns from its call with a status.
Goto(t, step) == pc' = [pc EXCEPT ![t] = step] /\ UNCHANGED status

Return(t, s) ==
    /\ pc' = [pc EXCEPT ![t] = IF s = "ok" THEN "idle" ELSE "return"]
    /\ status' = [status EXCEPT ![t] = s]

\* An application makes no call during C_Finalize, which a thread of it runs
\* while no other thread is in a call.
Finalizing(t) ==
    pc[t] \in DeleteSteps \/ (pc[t] \in ShutdownSteps /\ status[t] = "ok")

MayCall(t) == pc[t] = "idle" /\ \A u \in Threads : ~Finalizing(u)

MayFinalize(t) ==
    pc[t] = "idle" /\ \A u \in Threads \ {t} : pc[u] \in {"idle", "lost"}

\* logging_lock, an absl::Mutex: one writer, or readers.
CanRead == orphaned # "writer" /\ \A u \in Threads : pc[u] \notin Writing
CanWrite == orphaned = "none" /\ \A u \in Threads : pc[u] \notin Writing \cup Reading

\* LogAndResolve, which every entry point ends with: an error takes the lock.
LogAndResolve(t) ==
    /\ pc[t] = "return" /\ CanRead
    /\ Goto(t, "LOG")
    /\ UNCHANGED <<session, libVars, refresherVars, sessionVars, forkVars>>

Logged(t) ==
    /\ pc[t] = "LOG"
    /\ Goto(t, "idle")
    /\ UNCHANGED <<session, libVars, refresherVars, sessionVars, forkVars>>

----------------------------------------------------------------------------
\* Initialize, up to the fork handlers: the arguments and the configuration
\* are accepted or not, and the handlers are registered unless it skips them.
Initialize(t) ==
    /\ MayCall(t)
    /\ \/ Return(t, "error") /\ UNCHANGED registered
       \/ Goto(t, "GetGlobalProvider") /\ registered' \in {registered, TRUE}
    /\ UNCHANGED <<session, static_provider, made, members, logging_initialized,
                   refresherVars, sessionVars, forkVars>>

\* Initialize refuses when there is a provider.
CheckExisting(t) ==
    /\ pc[t] = "GetGlobalProvider"
    /\ IF static_provider # 0 THEN Return(t, "error") ELSE Goto(t, "InitializeLogging")
    /\ UNCHANGED <<session, libVars, refresherVars, sessionVars, forkVars>>

\* Mutant: logging that is initialized is initialized again.
InitializeLoggingAgain(t) ==
    /\ pc[t] = "InitializeLogging" /\ CanWrite
    /\ Goto(t, "InitGoogleLogging")
    /\ UNCHANGED <<session, libVars, refresherVars, sessionVars, forkVars>>

\* InitializeLogging takes the lock, and refuses when logging is initialized.
InitializeLogging(t) ==
    /\ pc[t] = "InitializeLogging" /\ CanWrite
    /\ IF logging_initialized THEN Return(t, "error") ELSE Goto(t, "InitGoogleLogging")
    /\ UNCHANGED <<session, libVars, refresherVars, sessionVars, forkVars>>

InitGoogleLogging(t) ==
    /\ pc[t] = "InitGoogleLogging"
    /\ logging_initialized' = TRUE
    /\ Goto(t, "Provider::New")
    /\ UNCHANGED <<session, static_provider, made, members, registered,
                   refresherVars, sessionVars, forkVars>>

\* Provider::New: the tokens are loaded and the refresher thread is started,
\* unless the configuration has no refresh interval.
NewProvider(t) ==
    /\ pc[t] = "Provider::New" /\ made < MaxProviders
    /\ made' = made + 1 /\ members' = Members
    /\ refresher' \in {"none", "waiting"} /\ notified' = FALSE /\ refreshing' = {}
    /\ sessions' = [h \in Handles |-> NoSession]
    /\ is_logged_in' = [s \in Slots |-> FALSE]
    /\ Goto(t, "SetGlobalProvider")
    /\ UNCHANGED <<session, static_provider, logging_initialized, registered, forkVars>>

\* Mutant: logging is not shut down when the provider cannot be made.
NewProviderFailsKeepsLogging(t) ==
    /\ pc[t] = "Provider::New"
    /\ Return(t, "error")
    /\ UNCHANGED <<session, libVars, refresherVars, sessionVars, forkVars>>

\* A token cannot be loaded, so Initialize shuts logging down again.
NewProviderFails(t) ==
    /\ pc[t] = "Provider::New"
    /\ pc' = [pc EXCEPT ![t] = "ShutdownLogging"]
    /\ status' = [status EXCEPT ![t] = "error"]
    /\ UNCHANGED <<session, libVars, refresherVars, sessionVars, forkVars>>

\* SetGlobalProvider takes the new provider over, unless there is one.
SetGlobalProvider(t) ==
    /\ pc[t] = "SetGlobalProvider"
    /\ static_provider' = IF static_provider = 0 THEN made ELSE static_provider
    /\ Return(t, IF static_provider = 0 THEN "ok" ELSE "error")
    /\ UNCHANGED <<session, made, members, logging_initialized, registered,
                   refresherVars, sessionVars, forkVars>>

----------------------------------------------------------------------------
\* Finalize goes on to ReleaseGlobalProvider when there is a provider.
Finalize(t) ==
    /\ MayFinalize(t)
    /\ IF static_provider = 0
         THEN Return(t, "error")
         ELSE /\ pc' = [pc EXCEPT ![t] = "~Provider"]
              /\ status' = [status EXCEPT ![t] = "ok"]
    /\ UNCHANGED <<session, libVars, refresherVars, sessionVars, forkVars>>

\* Mutant: the refresher is joined without being notified.
DestroyProviderSilently(t) ==
    /\ pc[t] = "~Provider" /\ members = Members
    /\ members' = members \ {"mechanism_types_"}
    /\ Goto(t, "~Refresher")
    /\ UNCHANGED <<session, static_provider, made, logging_initialized, registered,
                   refresherVars, sessionVars, forkVars>>

\* The members are destroyed from the last to the first: mechanism_types_, then
\* refresher_, whose destructor notifies the thread and waits for its end.
\* What a second deletion of a provider does is undefined and not followed.
DestroyProvider(t) ==
    /\ pc[t] = "~Provider" /\ members = Members
    /\ members' = members \ {"mechanism_types_"}
    /\ notified' = TRUE
    /\ Goto(t, "~Refresher")
    /\ UNCHANGED <<session, static_provider, made, logging_initialized, registered,
                   refresher, refreshing, sessionVars, forkVars>>

\* Mutant: the thread is detached instead of joined.
DetachRefresher(t) ==
    /\ pc[t] = "~Refresher"
    /\ Goto(t, "~Members")
    /\ UNCHANGED <<session, libVars, refresherVars, sessionVars, forkVars>>

\* std::thread::join in ~Refresher.
JoinRefresher(t) ==
    /\ pc[t] = "~Refresher" /\ refresher \in {"none", "ended"}
    /\ Goto(t, "~Members")
    /\ UNCHANGED <<session, libVars, refresherVars, sessionVars, forkVars>>

\* Mutant: the sessions stay in the map.
DestroyMembersKeepsSessions(t) ==
    /\ pc[t] = "~Members"
    /\ members' = {}
    /\ Goto(t, "nullptr")
    /\ UNCHANGED <<session, static_provider, made, logging_initialized, registered,
                   refresherVars, sessionVars, forkVars>>

\* kms_client_, sessions_ with every session of the map, tokens_.
DestroyMembers(t) ==
    /\ pc[t] = "~Members"
    /\ members' = {}
    /\ sessions' = [h \in Handles |-> NoSession]
    /\ Goto(t, "nullptr")
    /\ UNCHANGED <<session, static_provider, made, logging_initialized, registered,
                   refresherVars, is_logged_in, forkVars>>

ClearProvider(t) ==
    /\ pc[t] = "nullptr"
    /\ static_provider' = 0
    /\ Goto(t, "ShutdownLogging")
    /\ UNCHANGED <<session, made, members, logging_initialized, registered,
                   refresherVars, sessionVars, forkVars>>

ShutdownLogging(t) ==
    /\ pc[t] = "ShutdownLogging" /\ CanWrite
    /\ Goto(t, "ShutdownGoogleLogging")
    /\ UNCHANGED <<session, libVars, refresherVars, sessionVars, forkVars>>

\* Logging ends; Initialize goes on to return its error.
ShutdownGoogleLogging(t) ==
    /\ pc[t] = "ShutdownGoogleLogging"
    /\ logging_initialized' = FALSE
    /\ Return(t, status[t])
    /\ UNCHANGED <<session, static_provider, made, members, registered,
                   refresherVars, sessionVars, forkVars>>

----------------------------------------------------------------------------
\* The refresher thread: the wait for its notification times out, and it
\* refreshes the tokens one after another; or it is notified, and ends.
RefresherWakes ==
    /\ refresher = "waiting" /\ ~notified
    /\ refresher' = "refreshing" /\ refreshing' = Slots
    /\ UNCHANGED <<pc, status, session, libVars, notified, sessionVars, forkVars>>

\* Token::RefreshState, whose error is only logged (the store is in Token).
RefreshToken ==
    /\ refresher = "refreshing"
    /\ \/ refreshing = {} /\ refresher' = "waiting" /\ UNCHANGED refreshing
       \/ \E s \in refreshing : refreshing' = refreshing \ {s} /\ UNCHANGED refresher
    /\ UNCHANGED <<pc, status, session, libVars, notified, sessionVars, forkVars>>

RefresherEnds ==
    /\ refresher = "waiting" /\ notified
    /\ refresher' = "ended"
    /\ UNCHANGED <<pc, status, session, libVars, notified, refreshing, sessionVars,
                   forkVars>>

----------------------------------------------------------------------------
\* HandleMap::Add draws a handle until it finds one that is not in use.
OpenSession(t, slot, rw) ==
    /\ MayCall(t)
    /\ IF static_provider = 0
         THEN Return(t, "error") /\ UNCHANGED sessions
         ELSE /\ \E h \in Handles :
                   /\ sessions[h] = NoSession
                   /\ sessions' = [sessions EXCEPT ![h] =
                        [slot |-> slot, rw |-> rw, owner |-> static_provider]]
              /\ Return(t, "ok")
    /\ UNCHANGED <<session, libVars, refresherVars, is_logged_in, forkVars>>

CloseSession(t, h) ==
    /\ MayCall(t)
    /\ IF static_provider = 0 \/ sessions[h] = NoSession
         THEN Return(t, "error") /\ UNCHANGED sessions
         ELSE Return(t, "ok") /\ sessions' = [sessions EXCEPT ![h] = NoSession]
    /\ UNCHANGED <<session, libVars, refresherVars, is_logged_in, forkVars>>

\* The sessions of one slot are closed; its login is not touched.
CloseAllSessions(t, slot) ==
    /\ MayCall(t)
    /\ IF static_provider = 0
         THEN Return(t, "error") /\ UNCHANGED sessions
         ELSE /\ Return(t, "ok")
              /\ sessions' = [h \in Handles |->
                   IF sessions[h] # NoSession /\ sessions[h].slot = slot
                     THEN NoSession ELSE sessions[h]]
    /\ UNCHANGED <<session, libVars, refresherVars, is_logged_in, forkVars>>

\* Every call on a session takes a shared_ptr to it from the map, which keeps
\* it when its handle is closed before the call is over.
GetSession(t, h) ==
    /\ MayCall(t)
    /\ IF static_provider = 0 \/ sessions[h] = NoSession
         THEN Return(t, "error") /\ UNCHANGED session
         ELSE Goto(t, "use") /\ session' = [session EXCEPT ![t] = sessions[h]]
    /\ UNCHANGED <<libVars, refresherVars, sessionVars, forkVars>>

\* The end of a call on a session that leaves the login alone (C_GetSessionInfo).
UseSession(t) ==
    /\ pc[t] = "use"
    /\ \E s \in {"ok", "error"} : Return(t, s)
    /\ session' = [session EXCEPT ![t] = NoSession]
    /\ UNCHANGED <<libVars, refresherVars, sessionVars, forkVars>>

\* Token::Login and Token::Logout, through the session's token.
SetLogin(t, on) ==
    /\ pc[t] = "use"
    /\ LET slot == session[t].slot IN
         IF is_logged_in[slot] = on
           THEN Return(t, "error") /\ UNCHANGED is_logged_in
           ELSE Return(t, "ok") /\ is_logged_in' = [is_logged_in EXCEPT ![slot] = on]
    /\ session' = [session EXCEPT ![t] = NoSession]
    /\ UNCHANGED <<libVars, refresherVars, sessions, forkVars>>

Login(t) == SetLogin(t, TRUE)
Logout(t) == SetLogin(t, FALSE)

----------------------------------------------------------------------------
\* fork: the child has the forking thread only, and in it the handler that
\* RegisterForkHandlers registered releases the provider and shuts logging
\* down.  The locks of the lost threads stay locked.  The C library takes a
\* thread that was lost for ended, so that the refresher can be joined.
Fork(t) ==
    /\ pc[t] = "idle" /\ registered /\ forks < MaxForks
    /\ forks' = forks + 1
    /\ orphaned' = IF \E u \in Threads : pc[u] \in Writing THEN "writer"
                   ELSE IF \E u \in Threads : pc[u] \in Reading THEN "reader"
                   ELSE orphaned
    /\ torn' = (static_provider # 0 /\ members # Members)
    /\ pc' = [u \in Threads |->
                IF u # t THEN "lost"
                ELSE IF static_provider # 0 THEN "~Provider" ELSE "ShutdownLogging"]
    /\ status' = [status EXCEPT ![t] = "ok"]
    /\ session' = [u \in Threads |-> NoSession]
    /\ refresher' = IF refresher = "none" THEN "none" ELSE "ended"
    /\ refreshing' = {}
    /\ UNCHANGED <<libVars, notified, sessionVars>>

\* A thread inside a call.
CallStep(t) ==
    \/ CheckExisting(t) \/ InitializeLogging(t) \/ InitGoogleLogging(t)
    \/ NewProvider(t) \/ NewProviderFails(t) \/ SetGlobalProvider(t)
    \/ DestroyProvider(t) \/ JoinRefresher(t) \/ DestroyMembers(t)
    \/ ClearProvider(t) \/ ShutdownLogging(t) \/ ShutdownGoogleLogging(t)
    \/ LogAndResolve(t) \/ Logged(t)
    \/ UseSession(t) \/ Login(t) \/ Logout(t)

Call(t) ==
    \/ Initialize(t) \/ Finalize(t)
    \/ \E slot \in Slots :
         CloseAllSessions(t, slot) \/ \E rw \in BOOLEAN : OpenSession(t, slot, rw)
    \/ \E h \in Handles : CloseSession(t, h) \/ GetSession(t, h)

RefresherStep == RefresherWakes \/ RefreshToken \/ RefresherEnds

Next ==
    \/ \E t \in Threads : Call(t) \/ CallStep(t) \/ Fork(t)
    \/ RefresherStep

\* A thread inside a call goes on; logging_lock is fair, so that a thread that
\* can get it again and again gets it; and a refresh ends, by the deadlines of
\* its RPCs.  Nothing makes an application call or the refresher's wait end.
Fairness ==
    /\ \A t \in Threads : SF_vars(CallStep(t))
    /\ WF_vars(RefreshToken)
    /\ WF_vars(RefresherEnds)

Spec == Init /\ [][Next]_vars /\ Fairness

----------------------------------------------------------------------------
\* Outside the middle of C_Initialize and C_Finalize, logging is initialized if
\* and only if there is a provider, whatever failed, raced or was forked
\* before: otherwise C_Initialize could never succeed again.
LoggingFollowsProvider ==
    (\A t \in Threads : pc[t] \notin
        {"InitGoogleLogging", "Provider::New", "SetGlobalProvider"}
          \cup DeleteSteps \cup ShutdownSteps)
      => (logging_initialized <=> static_provider # 0)

\* SetGlobalProvider never meets another provider, although Initialize checks
\* for one long before, and threads may initialize the library at once.
SetNeverRefused ==
    \A t \in Threads : pc[t] = "SetGlobalProvider" => static_provider = 0

\* The refresher thread uses the tokens and the KMS client of its provider only
\* while they exist: ~Provider joins it before it destroys them.
RefresherUsesLiveMembers ==
    refresher = "refreshing" => {"tokens_", "kms_client_"} \subseteq members

\* A session that a call has taken, and a session that a handle leads to,
\* belongs to the provider that is set, whose token and client it uses: a
\* handle from before C_Finalize never leads to a session.
SessionsAreBacked ==
    /\ \A t \in Threads : session[t] # NoSession =>
         session[t].owner = static_provider /\ members = Members
    /\ \A h \in Handles : sessions[h] # NoSession =>
         /\ sessions[h].owner = static_provider
         /\ {"tokens_", "sessions_", "kms_client_"} \subseteq members

\* Every call returns, C_Finalize with its join and the handler of a forked
\* child among them, except in a child that was forked while another thread
\* held logging_lock or was deleting the provider.
CallsReturn ==
    \A t \in Threads :
      pc[t] \notin {"idle", "lost"}
        ~> (pc[t] \in {"idle", "lost"} \/ orphaned # "none" \/ torn)
============================================================================
