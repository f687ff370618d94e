---------------------------- MODULE LibraryProofs ----------------------------
(***************************************************************************)
(* Proofs about Library, for any threads, slots, handles, providers and    *)
(* forks.                                                                  *)
(***************************************************************************)
EXTENDS Library, TLAPS

\* The steps between the one that takes logging_lock to initialize logging and
\* the end of C_Initialize, and those of C_Finalize.
Exclusive == {"InitGoogleLogging", "Provider::New", "SetGlobalProvider"}
               \cup DeleteSteps \cup ShutdownSteps

\* At most one thread is in them, although no lock is held all the time: it is
\* logging_initialized that keeps a second C_Initialize out, and the rules of
\* PKCS #11 that keep calls out of C_Finalize.
LockInv ==
    /\ \A t, u \in Threads : pc[t] \in Exclusive /\ pc[u] \in Exclusive => t = u
    /\ \A t \in Threads : Finalizing(t) =>
         \A u \in Threads \ {t} : pc[u] \in {"idle", "lost"}
    /\ \A t \in Threads :
         /\ pc[t] \in DeleteSteps => status[t] = "ok" /\ static_provider # 0
         /\ pc[t] \in {"InitGoogleLogging", "Provider::New", "SetGlobalProvider"}
                        \cup ShutdownSteps => static_provider = 0
         /\ pc[t] \in {"Provider::New", "SetGlobalProvider"} => logging_initialized
         /\ pc[t] = "SetGlobalProvider" => made # 0
         /\ pc[t] \in ShutdownSteps /\ status[t] # "ok" => logging_initialized
    /\ LoggingFollowsProvider

\* The provider that is set has all its members until it is deleted, and the
\* refresher runs only while it has those that it uses.
MemberInv ==
    /\ static_provider # 0 /\ (\A t \in Threads : pc[t] \notin DeleteSteps) =>
         members = Members
    /\ \A t \in Threads : pc[t] = "SetGlobalProvider" => members = Members
    /\ \A t \in Threads : pc[t] \in {"~Members", "nullptr"} =>
         refresher \in {"none", "ended"}
    /\ refresher \in {"waiting", "refreshing"} =>
         {"tokens_", "kms_client_"} \subseteq members

\* Sessions are those of the provider that is set.
SessionInv ==
    /\ \A t \in Threads : session[t] # NoSession =>
         /\ pc[t] = "use"
         /\ session[t].owner = static_provider /\ members = Members
    /\ \A h \in Handles : sessions[h] # NoSession =>
         /\ sessions[h].owner = static_provider
         /\ {"tokens_", "sessions_", "kms_client_"} \subseteq members
         /\ \A t \in Threads : pc[t] # "nullptr"

LibraryInv == TypeOK /\ LockInv /\ MemberInv /\ SessionInv

LEMMA InitInv == ASSUME Init PROVE LibraryInv
  <1>1. TypeOK
    <2>1. static_provider \in 0..made /\ made \in 0..MaxProviders /\ forks \in 0..MaxForks
      BY LibraryConstants DEF LibraryConstants, Init
    <2>2. /\ pc \in [Threads -> Steps] /\ status \in [Threads -> {"ok", "error"}]
          /\ sessions \in [Handles -> Session \cup {NoSession}]
          /\ is_logged_in \in [Slots -> BOOLEAN]
          /\ session \in [Threads -> Session \cup {NoSession}]
      BY DEF Init, Steps
    <2> QED
      BY <2>1, <2>2 DEF Init, TypeOK
  <1>2. LockInv
    BY DEF Init, LockInv, Exclusive, DeleteSteps, ShutdownSteps, Finalizing,
       LoggingFollowsProvider
  <1>3. MemberInv /\ SessionInv
    BY DEF Init, MemberInv, SessionInv, DeleteSteps
  <1> QED
    BY <1>1, <1>2, <1>3 DEF LibraryInv
-----------------------------------------------------------------------------
\* How Goto and Return change pc and status.
LEMMA Control ==
  ASSUME TypeOK, NEW t \in Threads
  PROVE  /\ \A step : Goto(t, step) =>
              /\ pc'[t] = step /\ \A u \in Threads \ {t} : pc'[u] = pc[u]
              /\ status' = status
         /\ \A s : Return(t, s) =>
              /\ pc'[t] = IF s = "ok" THEN "idle" ELSE "return"
              /\ status'[t] = s
              /\ \A u \in Threads \ {t} : pc'[u] = pc[u] /\ status'[u] = status[u]
  BY DEF TypeOK, Goto, Return

LEMMA StepNames ==
  /\ InitializeSteps \subseteq Steps /\ DeleteSteps \subseteq Steps
  /\ ShutdownSteps \subseteq Steps
  /\ {"idle", "use", "return", "LOG", "lost"} \subseteq Steps
  /\ {"GetGlobalProvider", "InitializeLogging", "InitGoogleLogging", "Provider::New"}
       \subseteq InitializeSteps
  /\ "~Provider" \in DeleteSteps
  BY DEF Steps, InitializeSteps, DeleteSteps

\* What of TypeOK a step changes through Goto and Return.
ControlType ==
  pc \in [Threads -> Steps] /\ status \in [Threads -> {"ok", "error"}]

LEMMA ControlTyped ==
  ASSUME TypeOK, NEW t \in Threads
  PROVE  /\ \A step \in Steps : Goto(t, step) => ControlType'
         /\ \A s \in {"ok", "error"} : Return(t, s) => ControlType'
  <1>1. ASSUME NEW step \in Steps, Goto(t, step) PROVE ControlType'
    BY <1>1 DEF TypeOK, ControlType, Goto
  <1>2. ASSUME NEW s \in {"ok", "error"}, Return(t, s) PROVE ControlType'
    BY <1>2, StepNames DEF TypeOK, ControlType, Return
  <1> QED
    BY <1>1, <1>2

LEMMA TypeNext == ASSUME TypeOK, [Next]_vars PROVE TypeOK'
  <1> USE DEF TypeOK
  <1>1. CASE UNCHANGED vars
    BY <1>1 DEF vars, libVars, refresherVars, sessionVars, forkVars
  <1>2. CASE RefresherStep
    BY <1>2 DEF RefresherStep, RefresherWakes, RefreshToken, RefresherEnds, libVars,
       sessionVars, forkVars
  <1>3. ASSUME NEW t \in Threads, CallStep(t) PROVE TypeOK'
    <2>1. CASE CheckExisting(t) \/ InitializeLogging(t) \/ InitGoogleLogging(t)
      <3>1. ControlType'
        BY <2>1, ControlTyped, StepNames
        DEF CheckExisting, InitializeLogging, InitGoogleLogging
      <3> QED
        BY <2>1, <3>1 DEF CheckExisting, InitializeLogging, InitGoogleLogging,
          ControlType, libVars, refresherVars, sessionVars, forkVars
    <2>10. CASE Login(t) \/ Logout(t)
      <3>1. PICK on \in BOOLEAN : SetLogin(t, on)
        BY <2>10 DEF Login, Logout
      <3>2. ControlType'
        BY <3>1, ControlTyped DEF SetLogin
      <3>3. is_logged_in' \in [Slots -> BOOLEAN]
        BY <3>1 DEF SetLogin
      <3>4. session' \in [Threads -> Session \cup {NoSession}]
        BY <3>1 DEF SetLogin
      <3> QED
        BY <3>1, <3>2, <3>3, <3>4 DEF SetLogin, ControlType, libVars, refresherVars,
          forkVars
    <2> USE DEF CallStep, Goto, Return, Steps, InitializeSteps, DeleteSteps,
          ShutdownSteps, libVars, refresherVars, sessionVars, forkVars
    <2>2. CASE NewProvider(t)
      <3>1. static_provider' \in 0..made' /\ made' \in 0..MaxProviders
        BY <2>2, LibraryConstants DEF NewProvider, LibraryConstants
      <3>2. /\ pc' \in [Threads -> Steps]
            /\ sessions' \in [Handles -> Session \cup {NoSession}]
            /\ is_logged_in' \in [Slots -> BOOLEAN]
        BY <2>2 DEF NewProvider
      <3> QED
        BY <2>2, <3>1, <3>2 DEF NewProvider
    <2>3. CASE NewProviderFails(t) \/ SetGlobalProvider(t)
      BY <2>3 DEF NewProviderFails, SetGlobalProvider
    <2>4. CASE DestroyProvider(t) \/ JoinRefresher(t)
      BY <2>4 DEF DestroyProvider, JoinRefresher
    <2>5. CASE DestroyMembers(t)
      BY <2>5 DEF DestroyMembers
    <2>6. CASE ClearProvider(t)
      BY <2>6 DEF ClearProvider
    <2>7. CASE ShutdownLogging(t) \/ ShutdownGoogleLogging(t)
      BY <2>7 DEF ShutdownLogging, ShutdownGoogleLogging
    <2>8. CASE LogAndResolve(t) \/ Logged(t)
      BY <2>8 DEF LogAndResolve, Logged
    <2>9. CASE UseSession(t)
      BY <2>9 DEF UseSession
    <2> QED
      BY <1>3, <2>1, <2>2, <2>3, <2>4, <2>5, <2>6, <2>7, <2>8, <2>9, <2>10
  <1>4. ASSUME NEW t \in Threads, Call(t) PROVE TypeOK'
    <2>1. CASE Initialize(t) \/ Finalize(t)
      <3>1. CASE Initialize(t)
        <4>1. ControlType' /\ registered' \in BOOLEAN
          BY <3>1, ControlTyped, StepNames DEF Initialize
        <4> QED
          BY <3>1, <4>1 DEF Initialize, ControlType, refresherVars, sessionVars, forkVars
      <3>2. CASE Finalize(t)
        <4>1. ControlType'
          BY <3>2, ControlTyped, StepNames DEF Finalize, ControlType
        <4> QED
          BY <3>2, <4>1 DEF Finalize, ControlType, libVars, refresherVars, sessionVars,
            forkVars
      <3> QED
        BY <2>1, <3>1, <3>2
    <2> USE DEF Call, Goto, Return, Steps, InitializeSteps, DeleteSteps,
          ShutdownSteps, libVars, refresherVars, sessionVars, forkVars
    <2>2. ASSUME NEW slot \in Slots, CloseAllSessions(t, slot) PROVE TypeOK'
      BY <2>2 DEF CloseAllSessions
    <2>3. ASSUME NEW slot \in Slots, NEW rw \in BOOLEAN, OpenSession(t, slot, rw)
          PROVE  TypeOK'
      <3>1. CASE static_provider = 0
        BY <2>3, <3>1 DEF OpenSession
      <3>2. CASE static_provider # 0
        <4>1. static_provider \in 1..MaxProviders
          BY <3>2, LibraryConstants DEF LibraryConstants
        <4>2. [slot |-> slot, rw |-> rw, owner |-> static_provider] \in Session
          BY <4>1 DEF Session
        <4> QED
          BY <2>3, <3>2, <4>2 DEF OpenSession
      <3> QED
        BY <3>1, <3>2
    <2>4. ASSUME NEW h \in Handles, CloseSession(t, h) \/ GetSession(t, h)
          PROVE  TypeOK'
      BY <2>4 DEF CloseSession, GetSession
    <2> QED
      BY <1>4, <2>1, <2>2, <2>3, <2>4
  <1>5. ASSUME NEW t \in Threads, Fork(t) PROVE TypeOK'
    BY <1>5, LibraryConstants DEF Fork, LibraryConstants, Steps, DeleteSteps,
       ShutdownSteps, libVars, sessionVars
  <1> QED
    BY <1>1, <1>2, <1>3, <1>4, <1>5 DEF Next
-----------------------------------------------------------------------------
\* A step that changes neither the control nor the provider.
LEMMA RefresherKeeps ==
  ASSUME LibraryInv, RefresherStep
  PROVE  LockInv' /\ MemberInv' /\ SessionInv'
  <1>1. UNCHANGED <<pc, status, session, libVars, sessions>>
    BY DEF RefresherStep, RefresherWakes, RefreshToken, RefresherEnds, sessionVars
  <1>2. LockInv'
    BY <1>1 DEF libVars, LibraryInv, LockInv, Finalizing, LoggingFollowsProvider
  <1>3. MemberInv'
    BY <1>1 DEF libVars, LibraryInv, MemberInv, RefresherStep, RefresherWakes,
       RefreshToken, RefresherEnds
  <1>4. SessionInv'
    BY <1>1 DEF libVars, LibraryInv, SessionInv
  <1> QED
    BY <1>2, <1>3, <1>4

\* A call that does not concern the provider, or is refused, leaves a thread
\* outside the exclusive steps and the rest as it was.
LEMMA PlainStepKeeps ==
  ASSUME LibraryInv, NEW t \in Threads,
         pc[t] \notin Exclusive, pc'[t] \notin Exclusive,
         pc'[t] \in {"idle", "lost"} \/ pc[t] \notin {"idle", "lost"} \/ MayCall(t),
         \A u \in Threads \ {t} : pc'[u] = pc[u] /\ status'[u] = status[u],
         UNCHANGED <<static_provider, made, members, logging_initialized, refresher>>
  PROVE  LockInv' /\ MemberInv'
  <1> USE DEF Exclusive, DeleteSteps, ShutdownSteps
  <1>1. \A u \in Threads : pc'[u] \in Exclusive => u # t /\ pc[u] = pc'[u]
    OBVIOUS
  <1>2. LockInv'
    BY DEF LibraryInv, LockInv, Finalizing, MayCall, LoggingFollowsProvider
  <1>3. MemberInv'
    BY SMTT(20) DEF LibraryInv, MemberInv
  <1> QED
    BY <1>2, <1>3

\* The exclusive steps.
LEMMA LockKept ==
  ASSUME LibraryInv, NEW t \in Threads,
         \/ InitializeLogging(t) \/ InitGoogleLogging(t) \/ NewProvider(t)
         \/ NewProviderFails(t) \/ SetGlobalProvider(t) \/ Finalize(t)
         \/ DestroyProvider(t) \/ JoinRefresher(t) \/ DestroyMembers(t)
         \/ ClearProvider(t) \/ ShutdownLogging(t) \/ ShutdownGoogleLogging(t)
  PROVE  LockInv'
  <1> USE DEF LibraryInv, TypeOK, LockInv, Exclusive, DeleteSteps, ShutdownSteps,
        Finalizing, LoggingFollowsProvider, Goto, Return, libVars
  <1>1. CASE InitializeLogging(t)
    BY <1>1 DEF InitializeLogging, CanWrite, Writing
  <1>2. CASE InitGoogleLogging(t)
    BY <1>2 DEF InitGoogleLogging
  <1>3. CASE NewProvider(t)
    BY <1>3 DEF NewProvider
  <1>4. CASE NewProviderFails(t)
    BY <1>4 DEF NewProviderFails
  <1>5. CASE SetGlobalProvider(t)
    BY <1>5 DEF SetGlobalProvider
  <1>6. CASE Finalize(t)
    BY <1>6 DEF Finalize, MayFinalize
  <1>7. CASE DestroyProvider(t)
    BY <1>7 DEF DestroyProvider
  <1>8. CASE JoinRefresher(t)
    BY <1>8 DEF JoinRefresher
  <1>9. CASE DestroyMembers(t)
    BY <1>9 DEF DestroyMembers
  <1>10. CASE ClearProvider(t)
    BY <1>10 DEF ClearProvider
  <1>11. CASE ShutdownLogging(t)
    BY <1>11 DEF ShutdownLogging
  <1>12. CASE ShutdownGoogleLogging(t)
    BY <1>12 DEF ShutdownGoogleLogging
  <1> QED
    BY <1>1, <1>2, <1>3, <1>4, <1>5, <1>6, <1>7, <1>8, <1>9, <1>10, <1>11, <1>12

LEMMA MembersKept ==
  ASSUME LibraryInv, NEW t \in Threads,
         \/ InitializeLogging(t) \/ InitGoogleLogging(t) \/ NewProvider(t)
         \/ NewProviderFails(t) \/ SetGlobalProvider(t) \/ Finalize(t)
         \/ DestroyProvider(t) \/ JoinRefresher(t) \/ DestroyMembers(t)
         \/ ClearProvider(t) \/ ShutdownLogging(t) \/ ShutdownGoogleLogging(t)
  PROVE  MemberInv'
  <1> USE DEF LibraryInv, TypeOK, LockInv, Exclusive, DeleteSteps, ShutdownSteps,
        MemberInv, Goto, Return, libVars, refresherVars
  <1>1. CASE InitializeLogging(t) \/ InitGoogleLogging(t)
    BY <1>1 DEF InitializeLogging, InitGoogleLogging
  <1>2. CASE NewProvider(t)
    BY <1>2 DEF NewProvider, Members
  <1>3. CASE NewProviderFails(t) \/ SetGlobalProvider(t)
    BY <1>3 DEF NewProviderFails, SetGlobalProvider
  <1>4. CASE Finalize(t)
    BY <1>4 DEF Finalize, MayFinalize
  <1>5. CASE DestroyProvider(t)
    BY <1>5 DEF DestroyProvider, Members
  <1>6. CASE JoinRefresher(t)
    BY <1>6 DEF JoinRefresher
  <1>7. CASE DestroyMembers(t)
    BY <1>7 DEF DestroyMembers
  <1>8. CASE ClearProvider(t)
    BY <1>8 DEF ClearProvider
  <1>9. CASE ShutdownLogging(t) \/ ShutdownGoogleLogging(t)
    BY SMTT(20), <1>9 DEF ShutdownLogging, ShutdownGoogleLogging
  <1> QED
    BY <1>1, <1>2, <1>3, <1>4, <1>5, <1>6, <1>7, <1>8, <1>9

LEMMA SessionsKept ==
  ASSUME LibraryInv, NEW t \in Threads,
         \/ InitializeLogging(t) \/ InitGoogleLogging(t) \/ NewProvider(t)
         \/ NewProviderFails(t) \/ SetGlobalProvider(t) \/ Finalize(t)
         \/ DestroyProvider(t) \/ JoinRefresher(t) \/ DestroyMembers(t)
         \/ ClearProvider(t) \/ ShutdownLogging(t) \/ ShutdownGoogleLogging(t)
  PROVE  SessionInv'
  <1>0. /\ \A h \in Handles : sessions[h] # NoSession => sessions[h].owner # 0
        /\ \A u \in Threads : session[u] # NoSession => session[u].owner # 0
    BY LibraryConstants DEF LibraryConstants, LibraryInv, TypeOK, Session
  <1> USE DEF LibraryInv, TypeOK, LockInv, DeleteSteps, ShutdownSteps,
        SessionInv, Goto, Return, libVars, sessionVars
  <1>1. CASE InitializeLogging(t) \/ InitGoogleLogging(t)
    BY <1>1 DEF InitializeLogging, InitGoogleLogging
  <1>2. CASE NewProvider(t)
    BY <1>0, <1>2 DEF NewProvider
  <1>3. CASE NewProviderFails(t)
    BY <1>3 DEF NewProviderFails
  <1>4. CASE SetGlobalProvider(t)
    BY <1>0, <1>4 DEF SetGlobalProvider
  <1>5. CASE Finalize(t)
    BY <1>5 DEF Finalize, MayFinalize
  <1>6. CASE DestroyProvider(t)
    BY <1>6 DEF DestroyProvider, Members, Finalizing
  <1>7. CASE JoinRefresher(t)
    BY <1>7 DEF JoinRefresher
  <1>8. CASE DestroyMembers(t)
    BY <1>8 DEF DestroyMembers, Finalizing
  <1>9. CASE ClearProvider(t)
    BY <1>9 DEF ClearProvider, Finalizing
  <1>10. CASE ShutdownLogging(t) \/ ShutdownGoogleLogging(t)
    BY <1>10 DEF ShutdownLogging, ShutdownGoogleLogging
  <1> QED
    BY <1>1, <1>2, <1>3, <1>4, <1>5, <1>6, <1>7, <1>8, <1>9, <1>10

\* A forked child begins with the provider and the members as they were, in the
\* hands of its only thread.
LEMMA ForkKeeps ==
  ASSUME LibraryInv, NEW t \in Threads, Fork(t)
  PROVE  LockInv' /\ MemberInv' /\ SessionInv'
  <1> USE DEF LibraryInv, TypeOK, LockInv, Exclusive, DeleteSteps, ShutdownSteps,
        Fork, libVars, sessionVars
  <1>1. LockInv'
    BY DEF Finalizing, LoggingFollowsProvider
  <1>2. MemberInv'
    BY DEF MemberInv
  <1>3. SessionInv'
    BY DEF SessionInv
  <1> QED
    BY <1>1, <1>2, <1>3

LEMMA CallStepKeeps ==
  ASSUME LibraryInv, NEW t \in Threads, CallStep(t)
  PROVE  LockInv' /\ MemberInv' /\ SessionInv'
  <1>1. CASE \/ InitializeLogging(t) \/ InitGoogleLogging(t) \/ NewProvider(t)
             \/ NewProviderFails(t) \/ SetGlobalProvider(t)
             \/ DestroyProvider(t) \/ JoinRefresher(t) \/ DestroyMembers(t)
             \/ ClearProvider(t) \/ ShutdownLogging(t) \/ ShutdownGoogleLogging(t)
    BY <1>1, LockKept, MembersKept, SessionsKept
  <1>2. CASE CheckExisting(t) \/ LogAndResolve(t) \/ Logged(t)
    <2>1. LockInv' /\ MemberInv'
      BY <1>2, PlainStepKeeps DEF CheckExisting, LogAndResolve, Logged, Goto, Return,
         LibraryInv, TypeOK, Exclusive, DeleteSteps, ShutdownSteps, libVars, refresherVars
    <2>2. SessionInv'
      BY <1>2 DEF CheckExisting, LogAndResolve, Logged, Goto, Return, LibraryInv,
         SessionInv, TypeOK, libVars, sessionVars
    <2> QED
      BY <2>1, <2>2
  <1>3. CASE UseSession(t) \/ Login(t) \/ Logout(t)
    <2>1. LockInv' /\ MemberInv'
      BY <1>3, PlainStepKeeps DEF UseSession, Login, Logout, SetLogin, Return,
         LibraryInv, TypeOK, Exclusive, DeleteSteps, ShutdownSteps, libVars, refresherVars
    <2>2. SessionInv'
      BY <1>3 DEF UseSession, Login, Logout, SetLogin, Return, LibraryInv,
         SessionInv, TypeOK, libVars, sessionVars
    <2> QED
      BY <2>1, <2>2
  <1> QED
    BY <1>1, <1>2, <1>3 DEF CallStep

LEMMA CallKeeps ==
  ASSUME LibraryInv, NEW t \in Threads, Call(t)
  PROVE  LockInv' /\ MemberInv' /\ SessionInv'
  <1>0. MayCall(t) => \A u \in Threads : pc[u] \notin DeleteSteps
    BY DEF MayCall, Finalizing
  <1> USE DEF Goto, Return, LibraryInv, TypeOK, Exclusive, DeleteSteps, ShutdownSteps,
        libVars
  <1>1. CASE Finalize(t)
    BY <1>1, LockKept, MembersKept, SessionsKept
  <1>2. CASE Initialize(t)
    <2>1. LockInv' /\ MemberInv'
      BY <1>2, PlainStepKeeps DEF Initialize, MayCall, refresherVars
    <2>2. SessionInv'
      BY <1>2 DEF Initialize, MayCall, SessionInv, sessionVars
    <2> QED
      BY <2>1, <2>2
  <1>3. ASSUME NEW slot \in Slots, NEW rw \in BOOLEAN, OpenSession(t, slot, rw)
        PROVE  LockInv' /\ MemberInv' /\ SessionInv'
    <2>1. LockInv' /\ MemberInv'
      BY SMTT(20), <1>3, PlainStepKeeps DEF OpenSession, MayCall, refresherVars
    <2>2. CASE static_provider = 0
      BY <1>3, <2>1, <2>2 DEF OpenSession, MayCall, SessionInv
    <2>3. CASE static_provider # 0
      <3>1. members = Members
        BY <1>0, <1>3, <2>3 DEF OpenSession, MemberInv
      <3>2. {"tokens_", "sessions_", "kms_client_"} \subseteq members
        BY <3>1 DEF Members
      <3>3. PICK h \in Handles :
              sessions' = [sessions EXCEPT ![h] =
                             [slot |-> slot, rw |-> rw, owner |-> static_provider]]
        BY <1>3, <2>3 DEF OpenSession
      <3>4. /\ pc[t] = "idle" /\ pc'[t] = "idle" /\ UNCHANGED <<session, static_provider, members>>
            /\ \A u \in Threads : pc[u] # "nullptr" /\ pc'[u] = pc[u]
        BY <1>0, <1>3, <2>3 DEF OpenSession, MayCall
      <3>5. \A g \in Handles : sessions'[g] # NoSession => sessions'[g].owner = static_provider
        BY <3>3 DEF SessionInv
      <3> QED
        BY <2>1, <3>2, <3>4, <3>5 DEF SessionInv
    <2> QED
      BY <2>2, <2>3
  <1>4. ASSUME NEW slot \in Slots, CloseAllSessions(t, slot)
        PROVE  LockInv' /\ MemberInv' /\ SessionInv'
    <2>1. LockInv' /\ MemberInv'
      BY <1>4, PlainStepKeeps DEF CloseAllSessions, MayCall, refresherVars
    <2>2. SessionInv'
      BY <1>4 DEF CloseAllSessions, MayCall, SessionInv
    <2> QED
      BY <2>1, <2>2
  <1>5. ASSUME NEW h \in Handles, CloseSession(t, h)
        PROVE  LockInv' /\ MemberInv' /\ SessionInv'
    <2>1. LockInv' /\ MemberInv'
      BY <1>5, PlainStepKeeps DEF CloseSession, MayCall, refresherVars
    <2>2. SessionInv'
      BY <1>5 DEF CloseSession, MayCall, SessionInv
    <2> QED
      BY <2>1, <2>2
  <1>6. ASSUME NEW h \in Handles, GetSession(t, h)
        PROVE  LockInv' /\ MemberInv' /\ SessionInv'
    <2>1. LockInv' /\ MemberInv'
      BY <1>6, PlainStepKeeps DEF GetSession, MayCall, refresherVars
    <2>2. static_provider # 0 => members = Members
      BY <1>0, <1>6 DEF GetSession, MemberInv
    <2>3. SessionInv'
      BY <1>6, <2>2 DEF GetSession, MayCall, SessionInv, sessionVars
    <2> QED
      BY <2>1, <2>3
  <1> QED
    BY <1>1, <1>2, <1>3, <1>4, <1>5, <1>6 DEF Call
-----------------------------------------------------------------------------
\* The inductive invariant of the life cycle holds throughout: who may be where
\* in Initialize and ReleaseGlobalProvider at once, and what exists by then.
THEOREM LibraryInvariant == Spec => []LibraryInv
  <1>1. ASSUME LibraryInv, [Next]_vars PROVE LibraryInv'
    <2>1. TypeOK'
      BY SMTT(20), <1>1, TypeNext DEF LibraryInv
    <2>2. CASE UNCHANGED vars
      BY <1>1, <2>1, <2>2 DEF vars, libVars, refresherVars, sessionVars, LibraryInv,
         LockInv, MemberInv, SessionInv, Finalizing, LoggingFollowsProvider
    <2>3. CASE Next
      BY <1>1, <2>1, <2>3, RefresherKeeps, CallKeeps, CallStepKeeps, ForkKeeps
      DEF Next, LibraryInv
    <2> QED
      BY <1>1, <2>2, <2>3
  <1> QED
    BY <1>1, InitInv, PTL DEF Spec

\* The state of the library keeps its types.
THEOREM LibraryTypeCorrect == Spec => []TypeOK
  BY LibraryInvariant, PTL DEF LibraryInv

\* Logging is initialized exactly while there is a provider, so that after any
\* failure, race or fork the library can be initialized again.
THEOREM LoggingInStep == Spec => []LoggingFollowsProvider
  BY LibraryInvariant, PTL DEF LibraryInv, LockInv

\* The check for a provider at the start of C_Initialize is enough, for any
\* number of threads that initialize the library at once.
THEOREM SetAlwaysSucceeds == Spec => []SetNeverRefused
  <1>1. LibraryInv => SetNeverRefused
    BY DEF LibraryInv, LockInv, SetNeverRefused
  <1> QED
    BY <1>1, LibraryInvariant, PTL

\* The refresher thread never uses a member of a provider that is destroyed.
THEOREM RefresherIsSafe == Spec => []RefresherUsesLiveMembers
  <1>1. LibraryInv => RefresherUsesLiveMembers
    BY DEF LibraryInv, MemberInv, RefresherUsesLiveMembers
  <1> QED
    BY <1>1, LibraryInvariant, PTL

\* No call reaches a session of another provider than the one that is set.
THEOREM SessionsBacked == Spec => []SessionsAreBacked
  <1>1. LibraryInv => SessionsAreBacked
    BY DEF LibraryInv, SessionInv, SessionsAreBacked
  <1> QED
    BY <1>1, LibraryInvariant, PTL
============================================================================
