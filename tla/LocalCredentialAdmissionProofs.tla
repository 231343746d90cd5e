------------------- MODULE LocalCredentialAdmissionProofs -------------------
(***************************************************************************)
(* Theorems about LocalCredentialAdmission, for every set of credentials,  *)
(* requests, settings and administrative operations: the counters of a     *)
(* limiter are exact, no wake-up is lost, and the limit of a credential is *)
(* kept while nothing is reconfigured.                                     *)
(***************************************************************************)
EXTENDS LocalCredentialAdmission, FiniteSetTheorems, TLAPS

USE DEF MaybeLimiter

\* A new limiter is a limiter.
LEMMA NewIsLimiter == ASSUME made \in Nat, made < MaxLimiters
                      PROVE  NewLimiter \in Limiters /\ NewLimiter # 0
  BY BoundsAssumption DEF NewLimiter, Limiters

\* 0 stands for a missing entry of the limiter map.
LEMMA LimiterNotZero == 0 \notin Limiters
  BY BoundsAssumption DEF Limiters

\* The settings are pairs of numbers.
LEMMA SettingsType == /\ Zero \in AnySettings /\ Settings \subseteq AnySettings
                      /\ \A s \in AnySettings : s.max \in Nat /\ s.cap \in Nat
  BY SettingsAssumption DEF AnySettings, Zero

\* The placeholder of cred is a credential.
LEMMA AnyCredType == AnyCred \in Creds
  BY Zenon, CredsAssumption DEF AnyCred

-----------------------------------------------------------------------------
(* What a request leaves alone, and what everybody else leaves alone. *)

Request(r) == Run(r) \/ Expire(r) \/ CtxDone(r)
Outside == ConfigChange \/ (\E c \in Creds : Tell(c)) \/ (\E a \in Admins : AdminStepOf(a))

\* Who takes a step.
LEMMA StepKinds == [Next]_vars <=> (\E r \in Requests : Request(r)) \/ Outside \/ UNCHANGED vars
  BY Zenon DEF Next, Request, Outside

\* A request leaves the configuration and the operations alone.
LEMMA RequestFrame == ASSUME NEW r \in Requests, Request(r)
                      PROVE  UNCHANGED <<config, reloads, telling, live, epoch, opVars>>
  BY Zenon DEF Request, Run, Pick, Load, ConfigureLimiter, Admit, Refuse, Release, PickFails, Register,
     QueuesFull, Collect, Park, Wake, Recheck, Leave, Expire, CtxDone, configVars, adminVars

\* Everybody else leaves the requests and the counters alone.
LEMMA OutsideFrame == ASSUME Outside
                      PROVE  UNCHANGED <<made, inFlight, waiters, pc, pickVars, round, tried, busy,
                                         counted, at, registered, deadline>>
  BY SMTT(60) DEF Outside, AdminStepOf, ConfigChange, Tell, RefreshLoad, RefreshConfigure, RefreshDelete,
     RemoveEntry, RemoveConfigure, ChangeAuth, Remove, limiterVars, mapVars, passVars, waitVars

-----------------------------------------------------------------------------
(* Types. *)

\* Every step keeps the types of the configuration.
LEMMA ConfigTypeStep == ConfigType /\ AdminType /\ [Next]_vars => ConfigType'
<1> SUFFICES ASSUME ConfigType, AdminType, [Next]_vars
             PROVE  ConfigType'
  BY Zenon
<1> USE DEF ConfigType
<1>1. ASSUME NEW r \in Requests, Request(r)
      PROVE  ConfigType'
  BY Zenon, <1>1, RequestFrame
<1>2. CASE ConfigChange
  BY <1>2 DEF ConfigChange, adminVars
<1>3. ASSUME NEW c \in Creds, Tell(c)
      PROVE  ConfigType'
  BY Zenon, <1>3 DEF Tell, adminVars
<1>4. ASSUME NEW a \in Admins, AdminStepOf(a)
      PROVE  ConfigType'
  <2>1. ASSUME NEW c \in Creds, ChangeAuth(a, c)
        PROVE  ConfigType'
    BY <2>1 DEF ChangeAuth
  <2>2. ASSUME NEW c \in Creds, Remove(a, c)
        PROVE  ConfigType'
    BY <2>2 DEF Remove, configVars
  <2> QED
    BY Zenon, <1>4, <2>1, <2>2 DEF AdminStepOf, RefreshLoad, RefreshConfigure, RefreshDelete,
       RemoveEntry, RemoveConfigure, configVars
<1>5. CASE UNCHANGED vars
  BY Zenon, <1>5 DEF vars, configVars, adminVars
<1> QED
  BY Zenon, <1>1, <1>2, <1>3, <1>4, <1>5, StepKinds DEF Outside

\* Every step keeps the types of the administrative operations.
LEMMA AdminTypeStep ==
    ConfigType /\ LimiterType /\ AdminType /\ [Next]_vars => AdminType'
<1> SUFFICES ASSUME ConfigType, LimiterType, AdminType, [Next]_vars
             PROVE  AdminType'
  BY Zenon
<1> USE SettingsType, LimiterNotZero DEF AdminType, AdminStep
<1>1. CASE UNCHANGED opVars
  BY Zenon, <1>1 DEF opVars
<1>2. ASSUME NEW a \in Admins, AdminStepOf(a)
      PROVE  AdminType'
  <2>1. ASSUME NEW c \in Creds, ChangeAuth(a, c)
        PROVE  AdminType'
    <3>1. epoch'[c] \in Nat
      BY <2>1 DEF ChangeAuth, ConfigType
    <3> QED
      BY Zenon, <2>1, <3>1 DEF ChangeAuth
  <2>2. ASSUME NEW c \in Creds, Remove(a, c)
        PROVE  AdminType'
    BY Zenon, <2>2 DEF Remove
  <2>3. CASE RefreshLoad(a)
    BY ZenonT(60), <2>3 DEF RefreshLoad, ConfigType, LimiterType
  <2>4. CASE RefreshConfigure(a)
    BY Zenon, <2>4 DEF RefreshConfigure
  <2>5. CASE RefreshDelete(a)
    BY Zenon, <2>5 DEF RefreshDelete
  <2>6. CASE RemoveEntry(a)
    BY Zenon, <2>6 DEF RemoveEntry, LimiterType
  <2>7. CASE RemoveConfigure(a)
    BY Zenon, <2>7 DEF RemoveConfigure
  <2> QED
    BY Zenon, <1>2, <2>1, <2>2, <2>3, <2>4, <2>5, <2>6, <2>7 DEF AdminStepOf
<1>3. CASE ConfigChange \/ \E c \in Creds : Tell(c)
  BY Zenon, <1>1, <1>3 DEF ConfigChange, Tell, adminVars
<1> QED
  BY Zenon, <1>1, <1>2, <1>3, RequestFrame, StepKinds DEF Outside, vars, adminVars

\* A request that returns has typed variables.
LEMMA ReturnType == ASSUME NEW r \in Requests, PassType, Return(r)
                    PROVE  PassType'
  BY AnyCredType, SettingsType DEF PassType, PC, Return, DropPick

\* So has one that looks for another credential,
LEMMA DropType == ASSUME NEW r \in Requests, PassType, DropPick(r), UNCHANGED <<round, tried>>,
                         pc' = [pc EXCEPT ![r] = "pick"], busy' \in [Requests -> Seq(Refusals)]
                  PROVE  PassType'
  BY Zenon, AnyCredType, SettingsType DEF PassType, PC, DropPick

\* one that begins another pass,
LEMMA FreshPassType == ASSUME NEW r \in Requests, PassType, FreshPass(r),
                              UNCHANGED <<pickVars, round>>
                       PROVE  PassType'
  BY DEF PassType, PC, FreshPass, pickVars

\* and one that moves on with what it has.
LEMMA StayType == ASSUME NEW r \in Requests, NEW p \in PC \ {"configure", "acquire"}, PassType,
                         UNCHANGED passVars, pc' = [pc EXCEPT ![r] = p]
                  PROVE  PassType'
  BY Zenon DEF PassType, PC, passVars, pickVars

\* Every step keeps the types of the passes.
LEMMA PassTypeStep ==
    ConfigType /\ LimiterType /\ PassType /\ WaitType /\ [Next]_vars => PassType'
<1> SUFFICES ASSUME ConfigType, LimiterType, PassType, WaitType, [Next]_vars
             PROVE  PassType'
  BY Zenon
<1> USE SettingsType, LimiterNotZero DEF PC
<1>1. ASSUME NEW r \in Requests, Pick(r)
      PROVE  PassType'
  <2>1. PICK c \in Creds : /\ tried' = [tried EXCEPT ![r] = @ \cup {c}]
                           /\ \/ UNCHANGED <<pc, cred, want>>
                              \/ /\ cred' = [cred EXCEPT ![r] = c]
                                 /\ want' = [want EXCEPT ![r] = config[c]]
                                 /\ pc' = [pc EXCEPT ![r] = IF config[c].max = 0 THEN "hold"
                                                                             ELSE "load"]
    BY Zenon, <1>1 DEF Pick
  <2>2. UNCHANGED <<lim, round, busy>>
    BY Zenon, <1>1 DEF Pick
  <2>3. tried' \in [Requests -> SUBSET Creds]
    BY <2>1 DEF PassType
  <2>4. CASE UNCHANGED <<pc, cred, want>>
    BY Zenon, <2>2, <2>3, <2>4 DEF PassType
  <2>5. CASE ~ UNCHANGED <<pc, cred, want>>
    BY <2>1, <2>2, <2>3, <2>5 DEF PassType, ConfigType
  <2> QED
    BY Zenon, <2>4, <2>5
<1>2. ASSUME NEW r \in Requests, Load(r)
      PROVE  PassType'
  <2> DEFINE c == cred[r]
  <2>1. c \in Creds /\ limiter'[c] \in Limiters
    BY Zenon, <1>2, NewIsLimiter DEF PassType, Load, LimiterType, mapVars
  <2> QED
    BY Zenon, <1>2, <2>1 DEF PassType, Load
<1>3. ASSUME NEW r \in Requests, ConfigureLimiter(r)
      PROVE  PassType'
  <2>1. UNCHANGED passVars /\ pc' = [pc EXCEPT ![r] = "acquire"] /\ pc[r] = "configure"
    BY Zenon, <1>3 DEF ConfigureLimiter
  <2> QED
    BY Zenon, <2>1 DEF PassType, passVars, pickVars
<1>4. ASSUME NEW r \in Requests, Admit(r)
      PROVE  PassType'
  BY Zenon, <1>4 DEF PassType, Admit
<1>5. ASSUME NEW r \in Requests, Refuse(r)
      PROVE  PassType'
  <2>1. [cred |-> cred[r], lim |-> lim[r]] \in Refusals
    BY Zenon, <1>5 DEF PassType, Refuse, Refusals
  <2>2. busy' \in [Requests -> Seq(Refusals)]
    BY <1>5, <2>1 DEF PassType, Refuse
  <2> QED
    BY Zenon, <1>5, <2>2, DropType DEF Refuse
<1>6. ASSUME NEW r \in Requests, Release(r)
      PROVE  PassType'
  <2>1. CASE Return(r)
    BY Zenon, <2>1, ReturnType
  <2>2. CASE DropPick(r) /\ pc' = [pc EXCEPT ![r] = "pick"] /\ UNCHANGED <<round, tried, busy>>
    BY Zenon, <2>2, DropType DEF PassType
  <2> QED
    BY Zenon, <1>6, <2>1, <2>2 DEF Release
<1>7. ASSUME NEW r \in Requests, PickFails(r)
      PROVE  PassType'
  <2>1. CASE Return(r)
    BY Zenon, <2>1, ReturnType
  <2>2. CASE UNCHANGED passVars /\ pc' = [pc EXCEPT ![r] = "register"]
    BY Zenon, <2>2, StayType
  <2>3. CASE /\ round' = [round EXCEPT ![r] = @ + 1] /\ tried' = [tried EXCEPT ![r] = {}]
             /\ UNCHANGED <<pc, pickVars, busy>>
    BY <2>3 DEF PassType, pickVars
  <2> QED
    BY Zenon, <1>7, <2>1, <2>2, <2>3 DEF PickFails
<1>8. ASSUME NEW r \in Requests, Register(r)
      PROVE  PassType'
  <2>1. CASE FreshPass(r) /\ UNCHANGED <<pickVars, round>>
    BY Zenon, <2>1, FreshPassType
  <2>2. CASE UNCHANGED <<tried, busy, pc, pickVars, round>>
    BY Zenon, <2>2 DEF PassType, pickVars
  <2>3. CASE UNCHANGED passVars /\ pc' = [pc EXCEPT ![r] = "collect"]
    BY Zenon, <2>3, StayType
  <2> QED
    BY Zenon, <1>8, <2>1, <2>2, <2>3 DEF Register, passVars
<1>9. ASSUME NEW r \in Requests, QueuesFull(r)
      PROVE  PassType'
  BY Zenon, <1>9, ReturnType DEF QueuesFull
<1>10. ASSUME NEW r \in Requests, Collect(r)
       PROVE  PassType'
  <2>1. CASE pc' = pc
    BY Zenon, <1>10, <2>1 DEF Collect, PassType, passVars, pickVars
  <2> QED
    BY Zenon, <1>10, <2>1, StayType DEF Collect
<1>11. ASSUME NEW r \in Requests, Park(r)
       PROVE  PassType'
  BY Zenon, <1>11, StayType DEF Park
<1>12. ASSUME NEW r \in Requests, Wake(r)
       PROVE  PassType'
  BY Zenon, <1>12, StayType DEF Wake
<1>13. ASSUME NEW r \in Requests, Recheck(r)
       PROVE  PassType'
  <2>1. CASE pc' = pc
    BY Zenon, <1>13, <2>1 DEF Recheck, PassType, passVars, pickVars
  <2> QED
    BY Zenon, <1>13, <2>1, StayType DEF Recheck
<1>14. ASSUME NEW r \in Requests, Leave(r)
       PROVE  PassType'
  BY Zenon, <1>14, ReturnType, FreshPassType DEF Leave
<1>15. ASSUME NEW r \in Requests, Expire(r)
       PROVE  PassType'
  BY Zenon, <1>15 DEF PassType, Expire, passVars, pickVars
<1>16. ASSUME NEW r \in Requests, CtxDone(r)
       PROVE  PassType'
  BY Zenon, <1>16, ReturnType, StayType DEF CtxDone
<1>17. CASE Outside
  BY Zenon, <1>17, OutsideFrame DEF PassType, pickVars
<1>18. CASE UNCHANGED vars
  BY Zenon, <1>18 DEF vars, PassType, passVars, pickVars
<1> QED
  BY Zenon, <1>1, <1>2, <1>3, <1>4, <1>5, <1>6, <1>7, <1>8, <1>9, <1>10, <1>11, <1>12, <1>13,
     <1>14, <1>15, <1>16, <1>17, <1>18, StepKinds DEF Request, Run

\* A signal wakes requests and drops subscriptions.
LEMMA SignalType == ASSUME NEW l \in Limiters, WaitType, Signal(l)
                    PROVE  subs' \in [Requests -> SUBSET Limiters] /\ signalled' \subseteq Requests
  BY Zenon DEF WaitType, Signal

\* Configuring a limiter keeps the types of what it touches.
LEMMA ConfigureType == ASSUME NEW l \in Limiters, NEW s \in AnySettings, LimiterType, WaitType,
                              Configure(l, s)
                       PROVE  /\ settings' \in [Limiters -> AnySettings]
                              /\ subs' \in [Requests -> SUBSET Limiters]
                              /\ signalled' \subseteq Requests
  BY Zenon, SignalType DEF LimiterType, WaitType, Configure

\* A request that returns has a typed position and deadline.
LEMMA ReturnWait == ASSUME NEW r \in Requests, WaitType, Return(r)
                    PROVE  /\ at' \in [Requests -> Nat \ {0}]
                           /\ deadline' \in [Requests -> {"unset", "armed", "passed"}]
  BY DEF WaitType, Return

\* The refusal a request looks at names a limiter.
LEMMA BusyLimiter == ASSUME NEW r \in Requests, PassType, WaitType, at[r] =< Len(busy[r])
                     PROVE  busy[r][at[r]].lim \in Limiters
<1>1. busy[r] \in Seq(Refusals) /\ at[r] \in 1..Len(busy[r])
  BY SMTT(60) DEF PassType, WaitType
<1>2. busy[r][at[r]] \in Refusals
  BY <1>1
<1> QED
  BY Zenon, <1>2 DEF Refusals

\* Every step keeps the types of the waits.
LEMMA WaitTypeStep ==
    TypeOK /\ [Next]_vars => WaitType'
<1> SUFFICES ASSUME TypeOK, [Next]_vars
             PROVE  WaitType'
  BY Zenon
<1> USE SettingsType, LimiterNotZero DEF TypeOK
<1>1. ASSUME NEW r \in Requests, Pick(r)
      PROVE  WaitType'
  BY Zenon, <1>1 DEF WaitType, Pick, waitVars
<1>2. ASSUME NEW r \in Requests, Load(r)
      PROVE  WaitType'
  BY Zenon, <1>2 DEF WaitType, Load, waitVars
<1>3. ASSUME NEW r \in Requests, ConfigureLimiter(r)
      PROVE  WaitType'
  <2>1. lim[r] \in Limiters /\ want[r] \in AnySettings
    BY Zenon, <1>3 DEF ConfigureLimiter, PassType
  <2> QED
    BY Zenon, <1>3, <2>1, ConfigureType DEF ConfigureLimiter, WaitType
<1>4. ASSUME NEW r \in Requests, Admit(r)
      PROVE  WaitType'
  <2>1. lim[r] \in Limiters
    BY Zenon, <1>4 DEF Admit, PassType
  <2> QED
    BY Zenon, <1>4, <2>1 DEF Admit, WaitType, waitVars
<1>5. ASSUME NEW r \in Requests, Refuse(r)
      PROVE  WaitType'
  BY Zenon, <1>5 DEF WaitType, Refuse, waitVars
<1>6. ASSUME NEW r \in Requests, Release(r)
      PROVE  WaitType'
  <2>1. subs' \in [Requests -> SUBSET Limiters] /\ signalled' \subseteq Requests
    BY Zenon, <1>6, SignalType DEF Release, Released, WaitType
  <2> QED
    <3>1. counted' \in [Requests -> MaybeLimiter] /\ registered' = registered
      BY Zenon, <1>6 DEF Release, WaitType
    <3>2. CASE Return(r)
      BY Zenon, <2>1, <3>1, <3>2, ReturnWait DEF WaitType
    <3>3. CASE UNCHANGED <<at, deadline>>
      BY Zenon, <2>1, <3>1, <3>3 DEF WaitType
    <3> QED
      BY Zenon, <1>6, <3>2, <3>3 DEF Release
<1>7. ASSUME NEW r \in Requests, PickFails(r)
      PROVE  WaitType'
  BY SMTT(60), <1>7 DEF PickFails, Return, WaitType
<1>8. ASSUME NEW r \in Requests, Register(r)
      PROVE  WaitType'
  <2>1. busy[r][at[r]].lim \in Limiters
    BY Zenon, <1>8, BusyLimiter DEF Register
  <2> QED
    <3>1. at' \in [Requests -> Nat \ {0}]
      <4>1. at' = [at EXCEPT ![r] = 1] \/ at' = [at EXCEPT ![r] = at[r] + 1]
        BY Zenon, <1>8 DEF Register, FreshPass
      <4>2. at \in [Requests -> Nat \ {0}]
        BY Zenon DEF WaitType
      <4> HIDE DEF TypeOK
      <4>3. at[r] + 1 \in Nat \ {0}
        BY <4>2
      <4> QED
        BY <4>1, <4>2, <4>3
    <3>2. registered' \in [Requests -> MaybeLimiter]
      BY Zenon, <1>8, <2>1 DEF Register, WaitType
    <3> QED
      BY Zenon, <1>8, <3>1, <3>2 DEF Register, WaitType
<1>9. ASSUME NEW r \in Requests, QueuesFull(r)
      PROVE  WaitType'
  BY SMTT(60), <1>9 DEF QueuesFull, Return, WaitType
<1>10. ASSUME NEW r \in Requests, Collect(r)
       PROVE  WaitType'
  <2>1. busy[r][at[r]].lim \in Limiters
    BY Zenon, <1>10, BusyLimiter DEF Collect
  <2> QED
    <3>1. at' \in [Requests -> Nat \ {0}]
      BY SMTT(60), <1>10 DEF Collect, WaitType
    <3>2. subs' \in [Requests -> SUBSET Limiters]
      <4> DEFINE l == busy[r][at[r]].lim
      <4>1. l \in Limiters
        BY Zenon, <2>1
      <4>2. subs' = subs \/ subs' = [subs EXCEPT ![r] = @ \cup {l}]
        BY Zenon, <1>10 DEF Collect
      <4> HIDE DEF l
      <4> QED
        BY SMTT(60), <4>1, <4>2 DEF WaitType
    <3> QED
      BY Zenon, <1>10, <3>1, <3>2 DEF Collect, WaitType
<1>11. ASSUME NEW r \in Requests, Park(r)
       PROVE  WaitType'
  BY Zenon, <1>11 DEF Park, Deadline, WaitType
<1>12. ASSUME NEW r \in Requests, Wake(r)
       PROVE  WaitType'
  BY SMTT(60), <1>12 DEF Wake, WaitType
<1>13. ASSUME NEW r \in Requests, Recheck(r)
       PROVE  WaitType'
  BY SMTT(60), <1>13 DEF Recheck, WaitType
<1>14. ASSUME NEW r \in Requests, Leave(r)
       PROVE  WaitType'
  BY SMTT(60), <1>14 DEF Leave, FreshPass, Return, WaitType
<1>15. ASSUME NEW r \in Requests, Expire(r)
       PROVE  WaitType'
  BY Zenon, <1>15 DEF Expire, WaitType
<1>16. ASSUME NEW r \in Requests, CtxDone(r)
       PROVE  WaitType'
  BY Zenon, <1>16, ReturnWait DEF CtxDone, WaitType
<1>17. CASE Outside
  <2>1. subs' \in [Requests -> SUBSET Limiters] /\ signalled' \subseteq Requests
    <3>1. CASE UNCHANGED <<subs, signalled>>
      BY Zenon, <3>1 DEF WaitType
    <3>2. ASSUME NEW l \in Limiters, NEW s \in AnySettings, Configure(l, s)
          PROVE  subs' \in [Requests -> SUBSET Limiters] /\ signalled' \subseteq Requests
      BY Zenon, <3>2, ConfigureType
    <3>3. ASSUME NEW c \in Creds, Tell(c)
          PROVE  subs' \in [Requests -> SUBSET Limiters] /\ signalled' \subseteq Requests
      BY Zenon, <3>1, <3>3, SignalType DEF Tell, LimiterType
    <3>4. ASSUME NEW a \in Admins, RefreshConfigure(a)
          PROVE  \E l \in Limiters, s \in AnySettings : Configure(l, s)
      BY Zenon, <3>4 DEF RefreshConfigure, AdminType
    <3>5. ASSUME NEW a \in Admins, RemoveConfigure(a)
          PROVE  \E l \in Limiters, s \in AnySettings : Configure(l, s)
      BY Zenon, <3>5 DEF RemoveConfigure, AdminType
    <3>6. ASSUME ConfigChange PROVE UNCHANGED <<subs, signalled>>
      BY Zenon, <3>6 DEF ConfigChange, waitVars
    <3>7. ASSUME NEW a \in Admins, RefreshLoad(a) \/ RefreshDelete(a) \/ RemoveEntry(a)
          PROVE  UNCHANGED <<subs, signalled>>
      BY Zenon, <3>7 DEF RefreshLoad, RefreshDelete, RemoveEntry, waitVars
    <3>8. ASSUME NEW a \in Admins, NEW c \in Creds, ChangeAuth(a, c) \/ Remove(a, c)
          PROVE  UNCHANGED <<subs, signalled>>
      BY Zenon, <3>8 DEF ChangeAuth, Remove, waitVars
    <3>9. ASSUME NEW a \in Admins, AdminStepOf(a)
          PROVE  subs' \in [Requests -> SUBSET Limiters] /\ signalled' \subseteq Requests
      BY Zenon, <3>1, <3>2, <3>4, <3>5, <3>7, <3>8, <3>9 DEF AdminStepOf
    <3> QED
      BY Zenon, <1>17, <3>1, <3>3, <3>6, <3>9 DEF Outside
  <2> QED
    BY Zenon, <1>17, <2>1, OutsideFrame DEF WaitType
<1>18. CASE UNCHANGED vars
  BY Zenon, <1>18 DEF vars, WaitType, waitVars
<1> QED
  BY Zenon, <1>1, <1>2, <1>3, <1>4, <1>5, <1>6, <1>7, <1>8, <1>9, <1>10, <1>11, <1>12, <1>13,
     <1>14, <1>15, <1>16, <1>17, <1>18, StepKinds DEF Request, Run

\* Every step keeps the types of the limiters.
LEMMA LimiterTypeStep ==
    TypeOK /\ [Next]_vars => LimiterType'
<1> SUFFICES ASSUME TypeOK, [Next]_vars
             PROVE  LimiterType'
  BY Zenon
<1> USE SettingsType, LimiterNotZero DEF TypeOK
<1>1. made' \in Nat /\ made' =< MaxLimiters /\ limiter' \in [Creds -> MaybeLimiter]
  <2>1. CASE UNCHANGED mapVars
    BY Zenon, <2>1 DEF mapVars, LimiterType
  <2>2. ASSUME NEW r \in Requests, Load(r)
        PROVE  made' \in Nat /\ made' =< MaxLimiters /\ limiter' \in [Creds -> MaybeLimiter]
    <3>1. CASE made' = made + 1 /\ limiter' = [limiter EXCEPT ![cred[r]] = NewLimiter]
      <4>1. made \in Nat /\ made < MaxLimiters /\ NewLimiter \in Limiters
        BY SMTT(60), <2>2, <3>1, NewIsLimiter DEF Load, LimiterType, mapVars
      <4>2. made' \in Nat /\ made' =< MaxLimiters
        BY <3>1, <4>1, BoundsAssumption
      <4>3. limiter' \in [Creds -> MaybeLimiter]
        BY Zenon, <3>1, <4>1 DEF LimiterType
      <4> QED
        BY Zenon, <4>2, <4>3
    <3> QED
      BY Zenon, <2>1, <2>2, <3>1 DEF Load
  <2>3. ASSUME NEW r \in Requests, Request(r)
        PROVE  Load(r) \/ UNCHANGED mapVars
    BY Zenon, <2>3 DEF Request, Run, Pick, ConfigureLimiter, Admit, Refuse, Release, PickFails, Register,
       QueuesFull, Collect, Park, Wake, Recheck, Leave, Expire, CtxDone
  <2>4. CASE Outside
    <3>1. made' = made
      BY Zenon, <2>4, OutsideFrame
    <3>2. limiter' = limiter \/ \E c \in Creds : limiter' = [limiter EXCEPT ![c] = 0]
      <4>1. ASSUME ConfigChange \/ \E c \in Creds : Tell(c)
            PROVE  limiter' = limiter
        BY Zenon, <4>1 DEF ConfigChange, Tell, mapVars
      <4>2. ASSUME NEW a \in Admins, RefreshDelete(a) \/ RemoveEntry(a)
            PROVE  \E c \in Creds : limiter' = [limiter EXCEPT ![c] = 0]
        BY Zenon, <4>2 DEF RefreshDelete, RemoveEntry, AdminType
      <4>3. ASSUME NEW a \in Admins, RefreshLoad(a) \/ RefreshConfigure(a) \/ RemoveConfigure(a)
            PROVE  limiter' = limiter
        BY Zenon, <4>3 DEF RefreshLoad, RefreshConfigure, RemoveConfigure, mapVars
      <4>4. ASSUME NEW a \in Admins, NEW c \in Creds, ChangeAuth(a, c) \/ Remove(a, c)
            PROVE  limiter' = limiter
        BY Zenon, <4>4 DEF ChangeAuth, Remove, mapVars
      <4> QED
        BY Zenon, <2>4, <4>1, <4>2, <4>3, <4>4 DEF Outside, AdminStepOf
    <3> QED
      BY Zenon, <3>1, <3>2 DEF LimiterType
  <2> QED
    BY Zenon, <2>1, <2>2, <2>3, <2>4, StepKinds DEF vars
<1>2. settings' \in [Limiters -> AnySettings]
  <2>1. CASE settings' = settings
    BY Zenon, <2>1 DEF LimiterType
  <2>2. ASSUME NEW l \in Limiters, NEW s \in AnySettings, Configure(l, s)
        PROVE  settings' \in [Limiters -> AnySettings]
    BY Zenon, <2>2, ConfigureType
  <2>3. ASSUME NEW r \in Requests, Request(r)
        PROVE  settings' = settings \/ \E l \in Limiters, s \in AnySettings : Configure(l, s)
    <3>1. CASE ConfigureLimiter(r)
      BY Zenon, <3>1 DEF ConfigureLimiter, PassType
    <3> QED
      BY Zenon, <2>3, <3>1 DEF Request, Run, Pick, Load, Admit, Refuse, Release, PickFails, Register,
         QueuesFull, Collect, Park, Wake, Recheck, Leave, Expire, CtxDone, limiterVars
  <2>4. ASSUME NEW a \in Admins, AdminStepOf(a)
        PROVE  settings' = settings \/ \E l \in Limiters, s \in AnySettings : Configure(l, s)
    <3>1. CASE RefreshConfigure(a)
      BY Zenon, <3>1 DEF RefreshConfigure, AdminType
    <3>2. CASE RemoveConfigure(a)
      BY Zenon, <3>2 DEF RemoveConfigure, AdminType
    <3> QED
      BY Zenon, <2>4, <3>1, <3>2 DEF AdminStepOf, RefreshLoad, RefreshDelete, RemoveEntry, ChangeAuth,
         Remove, limiterVars
  <2>5. CASE ConfigChange \/ \E c \in Creds : Tell(c)
    BY Zenon, <2>1, <2>5 DEF ConfigChange, Tell, limiterVars
  <2> QED
    BY Zenon, <2>1, <2>2, <2>3, <2>4, <2>5, StepKinds DEF Outside, vars, limiterVars
<1>3. inFlight' \in [Limiters -> Nat]
  <2>1. CASE inFlight' = inFlight
    BY Zenon, <2>1 DEF LimiterType
  <2>2. ASSUME NEW r \in Requests, Admit(r)
        PROVE  inFlight' \in [Limiters -> Nat]
    BY SMTT(60), <2>1, <2>2 DEF Admit, LimiterType
  <2>3. ASSUME NEW r \in Requests, Release(r)
        PROVE  inFlight' \in [Limiters -> Nat]
    BY SMTT(60), <2>1, <2>3 DEF Release, Released, Less, LimiterType
  <2>4. ASSUME NEW r \in Requests, Request(r)
        PROVE  Admit(r) \/ Release(r) \/ inFlight' = inFlight
    BY Zenon, <2>4 DEF Request, Run, Pick, Load, ConfigureLimiter, Refuse, PickFails, Register,
       QueuesFull, Collect, Park, Wake, Recheck, Leave, Expire, CtxDone, limiterVars
  <2> QED
    BY Zenon, <2>1, <2>2, <2>3, <2>4, StepKinds, OutsideFrame DEF vars, limiterVars
<1>4. waiters' \in [Limiters -> Nat]
  <2>1. CASE waiters' = waiters
    BY Zenon, <2>1 DEF LimiterType
  <2>2. ASSUME NEW r \in Requests, Register(r)
        PROVE  waiters' \in [Limiters -> Nat]
    <3>1. waiters' = waiters \/ \E l : waiters' = [waiters EXCEPT ![l] = @ + 1]
      BY Zenon, <2>2 DEF Register
    <3> QED
      BY SMTT(60), <2>1, <3>1 DEF LimiterType
  <2>3. ASSUME NEW r \in Requests, Leave(r)
        PROVE  waiters' \in [Limiters -> Nat]
    <3>1. \A n \in Nat : Less(n) \in Nat
      BY SMTT(60) DEF Less
    <3>2. waiters' = [waiters EXCEPT ![registered[r]] = Less(@)]
      BY Zenon, <2>3 DEF Leave, LeaveQueue
    <3> QED
      BY Zenon, <3>1, <3>2 DEF LimiterType
  <2>4. ASSUME NEW r \in Requests, Request(r)
        PROVE  Register(r) \/ Leave(r) \/ waiters' = waiters
    BY Zenon, <2>4 DEF Request, Run, Pick, Load, ConfigureLimiter, Admit, Refuse, Release, PickFails,
       QueuesFull, Collect, Park, Wake, Recheck, Expire, CtxDone, limiterVars
  <2> QED
    BY Zenon, <2>1, <2>2, <2>3, <2>4, StepKinds, OutsideFrame DEF vars, limiterVars
<1> QED
  BY Zenon, <1>1, <1>2, <1>3, <1>4 DEF LimiterType

\* The initial state is typed.
LEMMA InitType == Init => TypeOK
<1> SUFFICES ASSUME Init PROVE TypeOK
  BY Zenon
<1> USE SettingsType, LimiterNotZero, AnyCredType, BoundsAssumption DEF Init
<1>1. ConfigType
  BY Zenon DEF ConfigType
<1>2. LimiterType
  BY SMTT(60) DEF LimiterType
<1>3. PassType
  BY SMTT(60) DEF PassType, PC
<1>4. WaitType
  BY SMTT(60) DEF WaitType
<1>5. AdminType
  BY Zenon DEF AdminType, AdminStep
<1> QED
  BY Zenon, <1>1, <1>2, <1>3, <1>4, <1>5 DEF TypeOK

\* The state keeps its type, and whoever is about to use a limiter has a real
\* one: a request past LoadOrStore, an operation that refreshes or removes.
THEOREM TypeCorrect == Spec => []TypeOK
<1>1. TypeOK /\ [Next]_vars => TypeOK'
  BY Zenon, ConfigTypeStep, LimiterTypeStep, PassTypeStep, WaitTypeStep, AdminTypeStep DEF TypeOK
<1> QED
  BY <1>1, InitType, PTL DEF Spec


-----------------------------------------------------------------------------
(* Where a request may go. *)

\* Inside waitForLocalCredentialCapacity, past registerWaiter.
Inside == {"collect", "parked", "recheck", "leaveRetry", "leaveFail"}

\* A step of a request moves no other request.
LEMMA PcFrame == ASSUME TypeOK, NEW r \in Requests, Request(r)
                 PROVE  \A q \in Requests \ {r} : pc'[q] = pc[q]
<1>1. pc' = pc \/ \E p : pc' = [pc EXCEPT ![r] = p]
  BY Zenon DEF Request, Run, Pick, Load, ConfigureLimiter, Admit, Refuse, Release, Return, PickFails,
     Register, FreshPass, QueuesFull, Collect, Park, Wake, Recheck, Leave, Expire, CtxDone
<1> QED
  BY Zenon, <1>1 DEF TypeOK, PassType

-----------------------------------------------------------------------------
(* Slots. *)

\* Only an execution counts on a limiter.
HoldInv == \A r \in Requests : counted[r] # 0 => pc[r] = "hold"

SlotsInv == HoldInv /\ SlotsCounted

\* Finitely many requests hold a slot.
LEMMA HoldersFinite == ASSUME NEW l PROVE IsFiniteSet(Holders(l))
  BY Zenon, RequestsAssumption, FS_Subset DEF Holders

\* Only Admit and Release change who holds a slot.
LEMMA OtherRequestSlots ==
    ASSUME TypeOK, NEW r \in Requests, Request(r), ~ Admit(r), ~ Release(r)
    PROVE  UNCHANGED <<inFlight, counted>> /\ (pc[r] = "hold" => pc'[r] = "hold")
<1>1. CASE Expire(r)
  BY Zenon, <1>1 DEF Expire, limiterVars
<1>2. CASE CtxDone(r)
  BY Zenon, <1>2 DEF CtxDone, limiterVars
<1>3. CASE Run(r)
  BY Zenon, <1>3 DEF Run, Pick, Load, ConfigureLimiter, Refuse, PickFails, Register, QueuesFull,
     Collect, Park, Wake, Recheck, Leave, limiterVars
<1> QED
  BY Zenon, <1>1, <1>2, <1>3 DEF Request

\* A step that changes no slot keeps SlotsInv.
LEMMA SlotsSame == ASSUME SlotsInv, UNCHANGED <<inFlight, counted>>,
                          \A q \in Requests : pc[q] = "hold" => pc'[q] = "hold"
                   PROVE  SlotsInv'
  BY Zenon DEF SlotsInv, HoldInv, SlotsCounted, Holders

\* Every step keeps SlotsInv.
LEMMA SlotsStep == TypeOK /\ SlotsInv /\ [Next]_vars => SlotsInv'
<1> SUFFICES ASSUME TypeOK, SlotsInv, [Next]_vars
             PROVE  SlotsInv'
  BY Zenon
<1> USE LimiterNotZero
<1>1. ASSUME NEW r \in Requests, Admit(r)
      PROVE  SlotsInv'
  <2>1. HoldInv'
    BY Zenon, <1>1 DEF Admit, SlotsInv, HoldInv, TypeOK, PassType, WaitType
  <2>2. CASE UNCHANGED <<inFlight, counted>>
    BY Zenon, <2>1, <2>2 DEF SlotsInv, SlotsCounted, Holders
  <2>3. CASE /\ inFlight' = [inFlight EXCEPT ![lim[r]] = @ + 1]
             /\ counted' = [counted EXCEPT ![r] = lim[r]]
    <3>1. counted[r] = 0
      BY Zenon, <1>1 DEF Admit, SlotsInv, HoldInv
    <3>2. ASSUME NEW l \in Limiters, l # lim[r]
          PROVE  Holders(l)' = Holders(l) /\ inFlight'[l] = inFlight[l]
      BY Zenon, <2>3, <3>1, <3>2 DEF Holders, TypeOK, WaitType, LimiterType
    <3>3. ASSUME NEW l \in Limiters, l = lim[r]
          PROVE  inFlight'[l] = Cardinality(Holders(l)')
      <4>1. Holders(l)' = Holders(l) \cup {r} /\ r \notin Holders(l)
        BY Zenon, <2>3, <3>1, <3>3 DEF Holders, TypeOK, WaitType
      <4>2. Cardinality(Holders(l) \cup {r}) = Cardinality(Holders(l)) + 1
        BY Zenon, <4>1, HoldersFinite, FS_AddElement
      <4>3. inFlight'[l] = inFlight[l] + 1
        BY Zenon, <2>3, <3>3 DEF TypeOK, LimiterType
      <4> QED
        BY Zenon, <4>1, <4>2, <4>3 DEF SlotsInv, SlotsCounted
    <3> QED
      BY Zenon, <2>1, <3>2, <3>3 DEF SlotsInv, SlotsCounted
  <2> QED
    BY Zenon, <1>1, <2>2, <2>3 DEF Admit
<1>2. ASSUME NEW r \in Requests, Release(r)
      PROVE  SlotsInv'
  <2>1. HoldInv'
    <3>1. counted' = [counted EXCEPT ![r] = 0]
      BY Zenon, <1>2 DEF Release
    <3>2. \A q \in Requests \ {r} : pc'[q] = pc[q]
      BY Zenon, <1>2, PcFrame DEF Request, Run
    <3> QED
      BY Zenon, <3>1, <3>2 DEF SlotsInv, HoldInv, TypeOK, WaitType
  <2>2. ASSUME NEW l \in Limiters, l # counted[r]
        PROVE  Holders(l)' = Holders(l) /\ inFlight'[l] = inFlight[l]
    BY <1>2, <2>2 DEF Release, Released, Holders, TypeOK, WaitType, LimiterType
  <2>3. ASSUME NEW l \in Limiters, l = counted[r]
        PROVE  inFlight'[l] = Cardinality(Holders(l)')
    <3>1. Holders(l)' = Holders(l) \ {r} /\ r \in Holders(l)
      BY Zenon, <1>2, <2>3 DEF Release, Holders, TypeOK, WaitType
    <3>2. Cardinality(Holders(l) \ {r}) = Cardinality(Holders(l)) - 1
      BY Zenon, <3>1, HoldersFinite, FS_RemoveElement
    <3>3. Cardinality(Holders(l)) \in Nat /\ Cardinality(Holders(l) \ {r}) \in Nat
      BY Zenon, HoldersFinite, FS_CardinalityType, FS_RemoveElement
    <3>4. inFlight'[l] = Less(inFlight[l])
      BY Zenon, <1>2, <2>3 DEF Release, Released, TypeOK, LimiterType
    <3> QED
      BY <3>1, <3>2, <3>3, <3>4 DEF SlotsInv, SlotsCounted, Less
  <2> QED
    BY Zenon, <2>1, <2>2, <2>3 DEF SlotsInv, SlotsCounted
<1>3. ASSUME NEW r \in Requests, Request(r), ~ Admit(r), ~ Release(r)
      PROVE  SlotsInv'
  BY Zenon, <1>3, OtherRequestSlots, PcFrame, SlotsSame
<1>4. CASE Outside
  BY Zenon, <1>4, OutsideFrame, SlotsSame
<1>5. CASE UNCHANGED vars
  BY Zenon, <1>5, SlotsSame DEF vars, limiterVars
<1> QED
  BY Zenon, <1>1, <1>2, <1>3, <1>4, <1>5, StepKinds

\* No slot of a limiter leaks and none is given back twice, whatever
\* reconfigurations, removals and replacements interleave with executions.
THEOREM SlotsAlwaysCounted == Spec => []SlotsCounted
<1>1. Init => SlotsInv
  <2> SUFFICES ASSUME Init PROVE SlotsInv
    BY Zenon
  <2>1. \A l \in Limiters : Holders(l) = {}
    BY Zenon, LimiterNotZero DEF Init, Holders
  <2> QED
    BY Zenon, <2>1, FS_EmptySet DEF Init, SlotsInv, HoldInv, SlotsCounted
<1>2. SlotsInv => SlotsCounted
  BY Zenon DEF SlotsInv
<1> QED
  BY <1>1, <1>2, SlotsStep, TypeCorrect, PTL DEF Spec

-----------------------------------------------------------------------------
(* The queue. *)

\* Exactly the requests past registerWaiter have a queue slot.
RegisteredInv == \A r \in Requests : registered[r] # 0 <=> pc[r] \in Inside

QueueInv == RegisteredInv /\ QueueCounted

\* Finitely many requests wait.
LEMMA WaitingFinite == ASSUME NEW l PROVE IsFiniteSet(Waiting(l))
  BY Zenon, RequestsAssumption, FS_Subset DEF Waiting

\* Only Register and Leave change who is in a queue.
LEMMA OtherRequestQueue ==
    ASSUME TypeOK, NEW r \in Requests, Request(r), ~ Register(r), ~ Leave(r)
    PROVE  UNCHANGED <<waiters, registered>> /\ (pc[r] \in Inside <=> pc'[r] \in Inside)
<1> USE DEF Inside, TypeOK, PassType
<1>1. CASE Expire(r)
  BY Zenon, <1>1 DEF Expire, limiterVars
<1>2. CASE CtxDone(r)
  BY Zenon, <1>2 DEF CtxDone, Return, limiterVars
<1>3. CASE Pick(r) \/ Load(r) \/ ConfigureLimiter(r) \/ Admit(r) \/ Refuse(r) \/ Release(r)
  <2>1. CASE Pick(r)
    BY <2>1 DEF Pick, limiterVars, waitVars
  <2>2. CASE Load(r)
    BY Zenon, <2>2 DEF Load, limiterVars, waitVars
  <2>3. CASE ConfigureLimiter(r)
    BY Zenon, <2>3 DEF ConfigureLimiter
  <2>4. CASE Admit(r)
    BY Zenon, <2>4 DEF Admit, limiterVars, waitVars
  <2>5. CASE Refuse(r)
    BY Zenon, <2>5 DEF Refuse, limiterVars, waitVars
  <2>6. CASE Release(r)
    BY Zenon, <2>6 DEF Release, Return, limiterVars, waitVars
  <2> QED
    BY Zenon, <1>3, <2>1, <2>2, <2>3, <2>4, <2>5, <2>6
<1>4. CASE PickFails(r) \/ QueuesFull(r) \/ Collect(r) \/ Park(r) \/ Wake(r) \/ Recheck(r)
  BY Zenon, <1>4 DEF PickFails, QueuesFull, Return, Collect, Park, Wake, Recheck, limiterVars
<1> QED
  BY Zenon, <1>1, <1>2, <1>3, <1>4 DEF Request, Run

\* A step that changes no queue keeps QueueInv.
LEMMA QueueSame == ASSUME QueueInv, UNCHANGED <<waiters, registered>>,
                          \A q \in Requests : pc[q] \in Inside <=> pc'[q] \in Inside
                   PROVE  QueueInv'
  BY Zenon DEF QueueInv, RegisteredInv, QueueCounted, Waiting

\* Every step keeps QueueInv.
LEMMA QueueStep == TypeOK /\ QueueInv /\ [Next]_vars => QueueInv'
<1> SUFFICES ASSUME TypeOK, QueueInv, [Next]_vars
             PROVE  QueueInv'
  BY Zenon
<1> USE LimiterNotZero
<1>1. ASSUME NEW r \in Requests, Register(r)
      PROVE  QueueInv'
  <2> DEFINE l == busy[r][at[r]].lim
  <2>1. l \in Limiters
    BY Zenon, <1>1, BusyLimiter DEF Register, TypeOK
  <2>2. \A q \in Requests \ {r} : pc'[q] = pc[q]
    BY Zenon, <1>1, PcFrame DEF Request, Run
  <2>3. pc[r] \notin Inside /\ registered[r] = 0
    BY Zenon, <1>1 DEF Register, QueueInv, RegisteredInv, Inside
  <2>4. CASE UNCHANGED <<waiters, registered>> /\ pc'[r] \notin Inside
    BY Zenon, <2>2, <2>3, <2>4, QueueSame
  <2>5. CASE /\ waiters' = [waiters EXCEPT ![l] = @ + 1]
             /\ registered' = [registered EXCEPT ![r] = l]
             /\ pc'[r] = "collect"
    <3> HIDE DEF l
    <3>1. RegisteredInv'
      BY Zenon, <2>1, <2>2, <2>5 DEF QueueInv, RegisteredInv, Inside, TypeOK, WaitType
    <3>2. ASSUME NEW k \in Limiters, k # l
          PROVE  Waiting(k)' = Waiting(k) /\ waiters'[k] = waiters[k]
      BY Zenon, <2>3, <2>5, <3>2 DEF Waiting, TypeOK, WaitType, LimiterType
    <3>3. ASSUME NEW k \in Limiters, k = l
          PROVE  waiters'[k] = Cardinality(Waiting(k)')
      <4>1. Waiting(k)' = Waiting(k) \cup {r} /\ r \notin Waiting(k)
        BY Zenon, <2>3, <2>5, <3>3 DEF Waiting, TypeOK, WaitType
      <4>2. Cardinality(Waiting(k) \cup {r}) = Cardinality(Waiting(k)) + 1
        BY Zenon, <4>1, WaitingFinite, FS_AddElement
      <4>3. waiters'[k] = waiters[k] + 1
        BY Zenon, <2>5, <3>3 DEF TypeOK, LimiterType
      <4> QED
        BY Zenon, <4>1, <4>2, <4>3 DEF QueueInv, QueueCounted
    <3> QED
      BY Zenon, <3>1, <3>2, <3>3 DEF QueueInv, QueueCounted
  <2> QED
    BY Zenon, <1>1, <2>3, <2>4, <2>5 DEF Register, FreshPass, TypeOK, PassType, Inside
<1>2. ASSUME NEW r \in Requests, Leave(r)
      PROVE  QueueInv'
  <2>1. /\ registered' = [registered EXCEPT ![r] = 0]
        /\ waiters' = [waiters EXCEPT ![registered[r]] = Less(@)]
        /\ pc'[r] \notin Inside
    BY Zenon, <1>2 DEF Leave, LeaveQueue, FreshPass, Return, Inside, TypeOK, PassType
  <2>2. RegisteredInv'
    <3>1. \A q \in Requests \ {r} : pc'[q] = pc[q]
      BY Zenon, <1>2, PcFrame DEF Request, Run
    <3> QED
      BY Zenon, <2>1, <3>1 DEF QueueInv, RegisteredInv, TypeOK, WaitType
  <2>3. ASSUME NEW l \in Limiters, l # registered[r]
        PROVE  Waiting(l)' = Waiting(l) /\ waiters'[l] = waiters[l]
    BY Zenon, <2>1, <2>3 DEF Waiting, TypeOK, WaitType, LimiterType
  <2>4. ASSUME NEW l \in Limiters, l = registered[r]
        PROVE  waiters'[l] = Cardinality(Waiting(l)')
    <3>1. Waiting(l)' = Waiting(l) \ {r} /\ r \in Waiting(l)
      BY Zenon, <2>1, <2>4 DEF Waiting, TypeOK, WaitType
    <3>2. Cardinality(Waiting(l) \ {r}) = Cardinality(Waiting(l)) - 1
      BY Zenon, <3>1, WaitingFinite, FS_RemoveElement
    <3>3. Cardinality(Waiting(l)) \in Nat /\ Cardinality(Waiting(l) \ {r}) \in Nat
      BY Zenon, WaitingFinite, FS_CardinalityType, FS_RemoveElement
    <3>4. waiters'[l] = Less(waiters[l])
      BY Zenon, <2>1, <2>4 DEF TypeOK, LimiterType
    <3> QED
      BY <3>1, <3>2, <3>3, <3>4 DEF QueueInv, QueueCounted, Less
  <2> QED
    BY Zenon, <2>2, <2>3, <2>4 DEF QueueInv, QueueCounted
<1>3. ASSUME NEW r \in Requests, Request(r), ~ Register(r), ~ Leave(r)
      PROVE  QueueInv'
  BY Zenon, <1>3, OtherRequestQueue, PcFrame, QueueSame
<1>4. CASE Outside
  BY Zenon, <1>4, OutsideFrame, QueueSame
<1>5. CASE UNCHANGED vars
  BY Zenon, <1>5, QueueSame DEF vars, limiterVars, waitVars
<1> QED
  BY Zenon, <1>1, <1>2, <1>3, <1>4, <1>5, StepKinds

\* Every way out of the wait gives the queue slot back: retry, timeout, a
\* closed channel, the end of the context.
THEOREM QueueAlwaysCounted == Spec => []QueueCounted
<1>1. Init => QueueInv
  <2> SUFFICES ASSUME Init PROVE QueueInv
    BY Zenon
  <2>1. \A l \in Limiters : Waiting(l) = {}
    BY Zenon, LimiterNotZero DEF Init, Waiting
  <2> QED
    BY Zenon, <2>1, FS_EmptySet DEF Init, QueueInv, RegisteredInv, QueueCounted, Inside
<1>2. QueueInv => QueueCounted
  BY Zenon DEF QueueInv
<1> QED
  BY <1>1, <1>2, QueueStep, TypeCorrect, PTL DEF Spec

-----------------------------------------------------------------------------
(* Wake-ups. *)

\* A channel that somebody listens to belongs to a limiter without capacity.
FullInv == \A r \in Requests : \A l \in subs[r] : ~ Available(l)

\* Until one of its channels closes, a request listens to every busy limiter
\* that it has passed, and it parks only when it has passed all of them.
Listens(r) ==
    /\ pc[r] \in {"collect", "parked"} /\ r \notin signalled =>
         \A i \in 1..Len(busy[r]) : i < at[r] => busy[r][i].lim \in subs[r]
    /\ pc[r] = "parked" => at[r] > Len(busy[r])

ListenInv == \A r \in Requests : Listens(r)

WakeInv == FullInv /\ ListenInv

\* Whether a limiter has room depends on its counter and settings.
LEMMA AvailableSame == ASSUME NEW l, inFlight'[l] = inFlight[l], settings'[l] = settings[l]
                       PROVE  Available(l)' = Available(l)
  BY Zenon DEF Available

\* A signalled limiter has no listener left, so that its state may change.
LEMMA FullSignal ==
    ASSUME TypeOK, FullInv, NEW l \in Limiters, Signal(l),
           \A k \in Limiters \ {l} : inFlight'[k] = inFlight[k] /\ settings'[k] = settings[k]
    PROVE  FullInv'
<1> SUFFICES ASSUME NEW r \in Requests, NEW k \in subs'[r]
             PROVE  ~ Available(k)'
  BY Zenon DEF FullInv
<1>1. k \in subs[r] /\ k # l /\ k \in Limiters
  BY Zenon DEF Signal, TypeOK, WaitType
<1> QED
  BY Zenon, <1>1, AvailableSame DEF FullInv

\* Fewer subscriptions to the same limiters keep FullInv.
LEMMA FullSame == ASSUME FullInv, UNCHANGED <<inFlight, settings>>,
                         \A r \in Requests : subs'[r] \subseteq subs[r]
                  PROVE  FullInv'
  BY Zenon, AvailableSame DEF FullInv

\* configure tells the subscribers before they could miss the room it makes.
LEMMA FullConfigure ==
    ASSUME TypeOK, FullInv, NEW l \in Limiters, NEW s, Configure(l, s), UNCHANGED inFlight
    PROVE  FullInv'
<1>1. CASE UNCHANGED <<settings, subs, signalled>>
  BY Zenon, <1>1, FullSame
<1>2. CASE settings' = [settings EXCEPT ![l] = s] /\ Signal(l)
  BY Zenon, <1>2, FullSignal DEF TypeOK, LimiterType
<1> QED
  BY Zenon, <1>1, <1>2 DEF Configure

\* The other steps of a request give no subscribed limiter room.
LEMMA OtherRequestFull ==
    ASSUME TypeOK, FullInv, NEW r \in Requests, Request(r),
           ~ ConfigureLimiter(r), ~ Admit(r), ~ Release(r), ~ Collect(r)
    PROVE  FullInv'
<1>1. UNCHANGED <<inFlight, settings>>
  BY Zenon DEF Request, Run, Pick, Load, Refuse, PickFails, Register, QueuesFull, Park, Wake,
     Recheck, Leave, Expire, CtxDone, limiterVars
<1>2. subs' = subs \/ subs' = [subs EXCEPT ![r] = {}]
  BY Zenon DEF Request, Run, Pick, Load, Refuse, PickFails, Register, QueuesFull, Park, Wake,
     Recheck, Leave, Expire, CtxDone, waitVars
<1> QED
  BY Zenon, <1>1, <1>2, FullSame DEF TypeOK, WaitType

\* Every step keeps FullInv.
LEMMA FullStep == TypeOK /\ FullInv /\ [Next]_vars => FullInv'
<1> SUFFICES ASSUME TypeOK, FullInv, [Next]_vars
             PROVE  FullInv'
  BY Zenon
<1> USE LimiterNotZero
<1>1. ASSUME NEW r \in Requests, ConfigureLimiter(r)
      PROVE  FullInv'
  <2>1. lim[r] \in Limiters
    BY Zenon, <1>1 DEF ConfigureLimiter, TypeOK, PassType
  <2>2. Configure(lim[r], want[r]) /\ UNCHANGED inFlight
    BY Zenon, <1>1 DEF ConfigureLimiter
  <2> QED
    BY Zenon, <2>1, <2>2, FullConfigure
<1>2. ASSUME NEW r \in Requests, Admit(r)
      PROVE  FullInv'
  <2> SUFFICES ASSUME NEW q \in Requests, NEW k \in subs'[q]
               PROVE  ~ Available(k)'
    BY Zenon DEF FullInv
  <2>1. k \in subs[q] /\ k \in Limiters /\ k # lim[r] /\ ~ Available(k)
    BY Zenon, <1>2 DEF Admit, waitVars, FullInv, TypeOK, WaitType
  <2>2. inFlight'[k] = inFlight[k] /\ settings'[k] = settings[k]
    BY Zenon, <1>2, <2>1 DEF Admit, TypeOK, LimiterType
  <2> QED
    BY Zenon, <2>1, <2>2, AvailableSame
<1>3. ASSUME NEW r \in Requests, Release(r)
      PROVE  FullInv'
  <2>1. CASE UNCHANGED <<inFlight, subs, signalled>>
    BY Zenon, <1>3, <2>1, FullSame DEF Release
  <2>2. CASE counted[r] # 0 /\ inFlight' = [inFlight EXCEPT ![counted[r]] = Less(@)]
             /\ Signal(counted[r])
    <3>1. counted[r] \in Limiters
      BY Zenon, <2>2 DEF TypeOK, WaitType
    <3>2. \A k \in Limiters \ {counted[r]} :
             inFlight'[k] = inFlight[k] /\ settings'[k] = settings[k]
      BY Zenon, <1>3, <2>2 DEF Release, TypeOK, LimiterType
    <3> QED
      BY Zenon, <2>2, <3>1, <3>2, FullSignal
  <2> QED
    BY Zenon, <1>3, <2>1, <2>2 DEF Release, Released
<1>4. ASSUME NEW r \in Requests, Collect(r)
      PROVE  FullInv'
  <2> DEFINE l == busy[r][at[r]].lim
  <2>1. UNCHANGED <<inFlight, settings>>
    BY Zenon, <1>4 DEF Collect, limiterVars
  <2>2. \/ subs' = subs
        \/ ~ Available(l) /\ subs' = [subs EXCEPT ![r] = @ \cup {l}]
    BY Zenon, <1>4 DEF Collect
  <2> HIDE DEF l
  <2> SUFFICES ASSUME NEW q \in Requests, NEW k \in subs'[q]
               PROVE  ~ Available(k)'
    BY Zenon DEF FullInv
  <2>3. k \in subs[q] \/ (k = l /\ ~ Available(l))
    BY <2>2 DEF TypeOK, WaitType
  <2> QED
    BY Zenon, <2>1, <2>3, AvailableSame DEF FullInv
<1>5. ASSUME NEW r \in Requests, Request(r),
             ~ ConfigureLimiter(r), ~ Admit(r), ~ Release(r), ~ Collect(r)
      PROVE  FullInv'
  BY Zenon, <1>5, OtherRequestFull
<1>6. ASSUME NEW c \in Creds, Tell(c)
      PROVE  FullInv'
  <2>1. CASE UNCHANGED <<subs, signalled>>
    BY Zenon, <1>6, <2>1, FullSame DEF Tell, limiterVars
  <2>2. CASE limiter[c] # 0 /\ Signal(limiter[c])
    <3>1. limiter[c] \in Limiters
      BY Zenon, <2>2 DEF TypeOK, LimiterType
    <3>2. UNCHANGED <<inFlight, settings>>
      BY Zenon, <1>6 DEF Tell, limiterVars
    <3> QED
      BY Zenon, <2>2, <3>1, <3>2, FullSignal
  <2> QED
    BY Zenon, <1>6, <2>1, <2>2 DEF Tell
<1>7. ASSUME NEW a \in Admins, RefreshConfigure(a) \/ RemoveConfigure(a)
      PROVE  FullInv'
  <2>1. opLim[a] \in Limiters
    <3>1. op[a] \in {"loaded", "removed"}
      BY Zenon, <1>7 DEF RefreshConfigure, RemoveConfigure
    <3> QED
      BY Zenon, <3>1 DEF TypeOK, AdminType
  <2>2. (\E s : Configure(opLim[a], s)) /\ UNCHANGED inFlight
    BY Zenon, <1>7 DEF RefreshConfigure, RemoveConfigure
  <2> QED
    BY Zenon, <2>1, <2>2, FullConfigure
<1>8. CASE Outside
  <2>1. CASE UNCHANGED <<inFlight, settings, subs>>
    BY Zenon, <2>1, FullSame
  <2> QED
    BY <1>6, <1>7, <1>8, <2>1 DEF Outside, AdminStepOf, ConfigChange, RefreshLoad, RefreshDelete,
       RemoveEntry, ChangeAuth, Remove, limiterVars, waitVars
<1>9. CASE UNCHANGED vars
  BY Zenon, <1>9, FullSame DEF vars, limiterVars, waitVars
<1> QED
  BY Zenon, <1>1, <1>2, <1>3, <1>4, <1>5, <1>8, <1>9, StepKinds

\* Whoever stops listening to a limiter has been signalled.
StillHeard == \A q \in Requests : q \notin signalled' =>
                 q \notin signalled /\ subs[q] \subseteq subs'[q]

\* A signal loses no subscription that is not signalled.
LEMMA SignalHeard == ASSUME TypeOK, NEW l, Signal(l)
                     PROVE  StillHeard
  BY Zenon DEF StillHeard, Signal, TypeOK, WaitType

\* A request that does not move goes on listening.
LEMMA ListensSame ==
    ASSUME NEW q \in Requests, Listens(q), StillHeard,
           pc'[q] = pc[q], busy'[q] = busy[q], at'[q] = at[q]
    PROVE  Listens(q)'
  BY Zenon DEF Listens, StillHeard

\* A request that is not waiting need not listen.
LEMMA ListensAway == ASSUME NEW r \in Requests, pc'[r] \notin {"collect", "parked"}
                     PROVE  Listens(r)'
  BY Zenon DEF Listens

\* The steps of a request change nothing of another one but through a signal.
LEMMA RequestHeard ==
    ASSUME TypeOK, NEW r \in Requests, Request(r), NEW q \in Requests \ {r}
    PROVE  /\ busy'[q] = busy[q] /\ at'[q] = at[q]
           /\ q \notin signalled' => q \notin signalled /\ subs[q] \subseteq subs'[q]
<1>1. busy'[q] = busy[q]
  <2>1. busy' = busy \/ \E b : busy' = [busy EXCEPT ![r] = b]
    BY Zenon DEF Request, Run, Pick, Load, ConfigureLimiter, Admit, Refuse, Release, Return, PickFails,
       Register, FreshPass, QueuesFull, Collect, Park, Wake, Recheck, Leave, Expire, CtxDone,
       passVars
  <2> QED
    BY Zenon, <2>1 DEF TypeOK, PassType
<1>2. at'[q] = at[q]
  <2>1. at' = at \/ \E n : at' = [at EXCEPT ![r] = n]
    BY Zenon DEF Request, Run, Pick, Load, ConfigureLimiter, Admit, Refuse, Release, Return, PickFails,
       Register, FreshPass, QueuesFull, Collect, Park, Wake, Recheck, Leave, Expire, CtxDone,
       waitVars
  <2> QED
    BY Zenon, <2>1 DEF TypeOK, WaitType
<1>3. q \notin signalled' => q \notin signalled /\ subs[q] \subseteq subs'[q]
  <2>1. CASE UNCHANGED <<subs, signalled>>
    BY Zenon, <2>1
  <2>2. CASE Configure(lim[r], want[r]) \/ Released(r)
    BY Zenon, <2>1, <2>2, SignalHeard DEF Configure, Released, StillHeard
  <2>3. CASE Collect(r) \/ Leave(r)
    BY Zenon, <2>3 DEF Collect, Leave, TypeOK, WaitType
  <2> QED
    BY Zenon, <2>1, <2>2, <2>3 DEF Request, Run, Pick, Load, ConfigureLimiter, Admit, Refuse, Release,
       PickFails, Register, QueuesFull, Park, Wake, Recheck, Expire, CtxDone, waitVars
<1> QED
  BY Zenon, <1>1, <1>2, <1>3

\* A request keeps listening while it collects channels and parks.
LEMMA OwnListens ==
    ASSUME TypeOK, ListenInv, NEW r \in Requests, Request(r)
    PROVE  Listens(r)'
<1> USE DEF TypeOK, PassType, WaitType
<1>0. Listens(r)
  BY Zenon DEF ListenInv
<1>1. CASE Register(r)
  <2>1. CASE pc'[r] = "collect" /\ at'[r] = 1
    <3> HIDE DEF TypeOK, PassType, WaitType
    <3>1. \A i \in 1..Len(busy'[r]) : ~ (i < at'[r])
      BY <2>1
    <3> QED
      BY Zenon, <2>1, <3>1 DEF Listens
  <2>2. pc'[r] = "collect" => at'[r] = 1
    BY Zenon, <1>1 DEF Register, FreshPass
  <2> QED
    BY Zenon, <1>1, <2>1, <2>2, ListensAway DEF Register, FreshPass
<1>2. CASE Collect(r)
  <2> DEFINE l == busy[r][at[r]].lim
  <2>1. CASE pc' = [pc EXCEPT ![r] = "leaveRetry"]
    BY Zenon, <2>1, ListensAway
  <2>2. CASE /\ at' = [at EXCEPT ![r] = @ + 1] /\ subs' = [subs EXCEPT ![r] = @ \cup {l}]
             /\ UNCHANGED pc
    <3>1. pc[r] = "collect" /\ busy' = busy /\ signalled' = signalled
      BY Zenon, <1>2 DEF Collect, passVars
    <3>2. at'[r] = at[r] + 1 /\ subs'[r] = subs[r] \cup {l} /\ pc'[r] = "collect"
      BY Zenon, <2>2, <3>1
    <3>3. ASSUME r \notin signalled, NEW i \in 1..Len(busy[r]), i < at[r] + 1
          PROVE  busy[r][i].lim \in subs'[r]
      <4>1. CASE i = at[r]
        BY Zenon, <3>2, <4>1
      <4>2. CASE i < at[r]
        BY Zenon, <1>0, <3>1, <3>2, <3>3, <4>2 DEF Listens
      <4> QED
        BY SMTT(60), <3>3, <4>1, <4>2
    <3> QED
      BY Zenon, <3>1, <3>2, <3>3 DEF Listens
  <2> QED
    BY Zenon, <1>2, <2>1, <2>2 DEF Collect
<1>3. CASE Park(r)
  <2>1. /\ pc[r] = "collect" /\ at[r] > Len(busy[r])
        /\ busy' = busy /\ at' = at /\ subs' = subs /\ signalled' = signalled
    BY Zenon, <1>3 DEF Park, passVars
  <2> QED
    BY Zenon, <1>0, <2>1 DEF Listens
<1>4. CASE Wake(r)
  BY Zenon, <1>4, ListensAway DEF Wake
<1>5. CASE Recheck(r)
  BY Zenon, <1>5, ListensAway DEF Recheck
<1>6. CASE Leave(r)
  BY Zenon, <1>6, ListensAway DEF Leave, FreshPass, Return
<1>7. CASE CtxDone(r)
  BY Zenon, <1>7, ListensAway DEF CtxDone, Return
<1>8. CASE Expire(r)
  <2>1. UNCHANGED <<pc, busy, at, subs, signalled>>
    BY Zenon, <1>8 DEF Expire, passVars
  <2> QED
    BY Zenon, <1>0, <2>1 DEF Listens
<1>9. CASE Pick(r) \/ Load(r) \/ ConfigureLimiter(r) \/ Admit(r) \/ Refuse(r) \/ Release(r)
  BY ZenonT(60), <1>9, ListensAway DEF Pick, Load, ConfigureLimiter, Admit, Refuse, Release, Return
<1>10. CASE PickFails(r) \/ QueuesFull(r)
  BY Zenon, <1>10, ListensAway DEF PickFails, QueuesFull, Return
<1> QED
  BY Zenon, <1>1, <1>2, <1>3, <1>4, <1>5, <1>6, <1>7, <1>8, <1>9, <1>10 DEF Request, Run

\* Every step keeps ListenInv.
LEMMA ListenStep == TypeOK /\ ListenInv /\ [Next]_vars => ListenInv'
<1> SUFFICES ASSUME TypeOK, ListenInv, [Next]_vars, NEW q \in Requests
             PROVE  Listens(q)'
  BY Zenon DEF ListenInv
<1>0. Listens(q)
  BY Zenon DEF ListenInv
<1>1. ASSUME NEW r \in Requests, Request(r)
      PROVE  Listens(q)'
  <2>1. CASE q = r
    BY Zenon, <1>1, <2>1, OwnListens
  <2>2. CASE q # r
    BY Zenon, <1>0, <1>1, <2>2, PcFrame, RequestHeard DEF Listens
  <2> QED
    BY Zenon, <2>1, <2>2
<1>2. CASE Outside
  <2>1. pc'[q] = pc[q] /\ busy'[q] = busy[q] /\ at'[q] = at[q]
    BY Zenon, <1>2, OutsideFrame
  <2>2. CASE UNCHANGED <<subs, signalled>>
    BY Zenon, <1>0, <2>1, <2>2 DEF Listens
  <2>3. ASSUME NEW l, Signal(l)
        PROVE  Listens(q)'
    BY Zenon, <1>0, <2>1, <2>3, SignalHeard, ListensSame
  <2>4. UNCHANGED <<subs, signalled>> \/ \E l : Signal(l)
    <3>1. ASSUME ConfigChange PROVE UNCHANGED <<subs, signalled>>
      BY Zenon, <3>1 DEF ConfigChange, waitVars
    <3>2. ASSUME NEW c \in Creds, Tell(c)
          PROVE  UNCHANGED <<subs, signalled>> \/ \E l : Signal(l)
      BY Zenon, <3>2 DEF Tell, waitVars
    <3>3. ASSUME NEW a \in Admins, RefreshLoad(a) \/ RefreshDelete(a) \/ RemoveEntry(a)
          PROVE  UNCHANGED <<subs, signalled>>
      BY Zenon, <3>3 DEF RefreshLoad, RefreshDelete, RemoveEntry, waitVars
    <3>4. ASSUME NEW a \in Admins, RefreshConfigure(a) \/ RemoveConfigure(a)
          PROVE  UNCHANGED <<subs, signalled>> \/ \E l : Signal(l)
      <4>1. PICK s : Configure(opLim[a], s)
        BY Zenon, <3>4 DEF RefreshConfigure, RemoveConfigure
      <4> QED
        BY Zenon, <4>1 DEF Configure
    <3>5. ASSUME NEW a \in Admins, NEW c \in Creds, ChangeAuth(a, c) \/ Remove(a, c)
          PROVE  UNCHANGED <<subs, signalled>>
      BY Zenon, <3>5 DEF ChangeAuth, Remove, waitVars
    <3> QED
      BY Zenon, <1>2, <3>1, <3>2, <3>3, <3>4, <3>5 DEF Outside, AdminStepOf
  <2> QED
    BY Zenon, <2>2, <2>3, <2>4
<1>3. CASE UNCHANGED vars
  BY Zenon, <1>0, <1>3 DEF vars, passVars, waitVars, Listens
<1> QED
  BY Zenon, <1>1, <1>2, <1>3, StepKinds

\* No wake-up is lost between the refusal of a request and its parking: while
\* none of its channels is closed, every limiter that refused it is full.
THEOREM NoCapacityLost == Spec => []NoLostCapacity
<1>1. Init => WakeInv
  BY DEF Init, WakeInv, FullInv, ListenInv, Listens
<1>2. TypeOK /\ WakeInv /\ [Next]_vars => WakeInv'
  BY Zenon, FullStep, ListenStep DEF WakeInv
<1>3. TypeOK /\ WakeInv => NoLostCapacity
  <2> SUFFICES ASSUME TypeOK, WakeInv, NEW r \in Requests, pc[r] = "parked", r \notin signalled,
                      NEW i \in 1..Len(busy[r])
               PROVE  ~ Available(busy[r][i].lim)
    BY Zenon DEF NoLostCapacity
  <2>1. i < at[r]
    BY SMTT(60) DEF WakeInv, ListenInv, Listens, TypeOK, PassType, WaitType
  <2>2. busy[r][i].lim \in subs[r]
    BY Zenon, <2>1 DEF WakeInv, ListenInv, Listens
  <2> QED
    BY Zenon, <2>2 DEF WakeInv, FullInv
<1> QED
  BY <1>1, <1>2, <1>3, TypeCorrect, PTL DEF Spec


-----------------------------------------------------------------------------
(* The limit.  It is kept while nothing is reconfigured: no configuration is
   loaded that changes the settings of a credential and no credential is
   registered, updated or removed.  Without this condition LimitKept is false:
   an entry of the limiter map may be replaced while its limiter is in use. *)

Undisturbed == UNCHANGED <<config, adminVars>>

\* Requests read the settings of their credential, find its one limiter, and
\* have configured it before they ask it for a slot.
OwnInv ==
    \A r \in Requests :
        /\ pc[r] \in {"load", "configure", "acquire"} =>
               want[r] = config[cred[r]] /\ want[r].max # 0
        /\ pc[r] \in {"configure", "acquire"} => lim[r] = limiter[cred[r]]
        /\ pc[r] = "acquire" => settings[lim[r]] = want[r]
        /\ pc[r] = "hold" /\ config[cred[r]].max # 0 =>
               counted[r] = limiter[cred[r]] /\ counted[r] # 0

\* The limiters of the map are different objects, with the settings of their
\* credential from the first use on, and never admit more than these allow.
MapInv ==
    /\ \A c \in Creds : limiter[c] =< made
    /\ \A c, d \in Creds : limiter[c] = limiter[d] /\ limiter[c] # 0 => c = d
    /\ \A c \in Creds : limiter[c] # 0 =>
           \/ settings[limiter[c]] = Zero /\ inFlight[limiter[c]] = 0
           \/ /\ settings[limiter[c]] = config[c]
              /\ inFlight[limiter[c]] =< config[c].max
    /\ \A l \in Limiters : l > made => settings[l] = Zero /\ inFlight[l] = 0

\* No administrative operation is under way.
CalmInv == \A a \in Admins : op[a] = "idle"

LimitInv == OwnInv /\ MapInv /\ CalmInv

\* A request works on its own variables.
LEMMA OthersFrame ==
    ASSUME TypeOK, NEW r \in Requests, Request(r)
    PROVE  \A q \in Requests \ {r} : /\ pc'[q] = pc[q] /\ cred'[q] = cred[q]
                                     /\ want'[q] = want[q] /\ lim'[q] = lim[q]
                                     /\ counted'[q] = counted[q]
<1> USE DEF Request, Run, Pick, Load, ConfigureLimiter, Admit, Refuse, Release, Return, DropPick,
        PickFails, Register, FreshPass, QueuesFull, Collect, Park, Wake, Recheck, Leave, Expire,
        CtxDone, passVars, pickVars
<1>1. cred' = cred \/ \E x : cred' = [cred EXCEPT ![r] = x]
  BY Zenon
<1>2. want' = want \/ \E x : want' = [want EXCEPT ![r] = x]
  BY Zenon
<1>3. lim' = lim \/ \E x : lim' = [lim EXCEPT ![r] = x]
  BY Zenon
<1>4. counted' = counted \/ \E x : counted' = [counted EXCEPT ![r] = x]
  BY Zenon
<1> HIDE DEF Request, Run, Pick, Load, ConfigureLimiter, Admit, Refuse, Release, Return, DropPick,
        PickFails, Register, FreshPass, QueuesFull, Collect, Park, Wake, Recheck, Leave, Expire,
        CtxDone, passVars, pickVars
<1> QED
  BY <1>1, <1>2, <1>3, <1>4, PcFrame DEF TypeOK, PassType, WaitType

\* Where a request deals with the credential it picked.
Trying == {"load", "configure", "acquire", "hold"}

\* Waiting for capacity is no concern of the limit.
LEMMA OtherRequestLimit ==
    ASSUME TypeOK, NEW r \in Requests, Request(r), ~ Pick(r), ~ Load(r), ~ ConfigureLimiter(r),
           ~ Admit(r), ~ Release(r)
    PROVE  /\ UNCHANGED <<made, limiter, settings, inFlight, counted>>
           /\ pc'[r] \notin Trying \/ UNCHANGED <<pc, cred, want, lim>>
<1>1. UNCHANGED <<made, limiter, settings, inFlight, counted>>
  BY Zenon DEF Request, Run, Refuse, PickFails, Register, QueuesFull, Collect, Park, Wake, Recheck,
     Leave, Expire, CtxDone, limiterVars, mapVars
<1>2. CASE Expire(r)
  BY Zenon, <1>1, <1>2 DEF Expire, passVars, pickVars
<1>3. CASE CtxDone(r) \/ Refuse(r) \/ QueuesFull(r) \/ Leave(r)
  BY Zenon, <1>1, <1>3 DEF CtxDone, Refuse, QueuesFull, Leave, Return, FreshPass, Trying, TypeOK, PassType
<1>4. CASE PickFails(r)
  BY Zenon, <1>1, <1>4 DEF PickFails, Return, Trying, TypeOK, PassType
<1>5. CASE Register(r)
  BY Zenon, <1>1, <1>5 DEF Register, FreshPass, Trying, TypeOK, PassType
<1>6. CASE Collect(r) \/ Park(r) \/ Wake(r) \/ Recheck(r)
  BY Zenon, <1>1, <1>6 DEF Collect, Park, Wake, Recheck, Trying, TypeOK, PassType
<1> QED
  BY Zenon, <1>2, <1>3, <1>4, <1>5, <1>6 DEF Request, Run

\* What OwnInv says of one request.
Own(r) ==
    /\ pc[r] \in {"load", "configure", "acquire"} =>
           want[r] = config[cred[r]] /\ want[r].max # 0
    /\ pc[r] \in {"configure", "acquire"} => lim[r] = limiter[cred[r]]
    /\ pc[r] = "acquire" => settings[lim[r]] = want[r]
    /\ pc[r] = "hold" /\ config[cred[r]].max # 0 =>
           counted[r] = limiter[cred[r]] /\ counted[r] # 0

\* OwnInv, request by request.
LEMMA OwnParts == OwnInv <=> \A r \in Requests : Own(r)
  BY Zenon DEF OwnInv, Own

\* A request keeps what it owns when it does not move or gives up trying.
LEMMA OwnSame ==
    ASSUME NEW q \in Requests, Own(q), UNCHANGED <<config, limiter, settings>>,
           \/ pc'[q] \notin Trying
           \/ /\ pc'[q] = pc[q] /\ cred'[q] = cred[q] /\ want'[q] = want[q]
              /\ lim'[q] = lim[q] /\ counted'[q] = counted[q]
    PROVE  Own(q)'
  BY Zenon DEF Own, Trying

\* MapInv depends on the limiters and the configuration only.
LEMMA MapSame == MapInv /\ UNCHANGED <<config, made, limiter, settings, inFlight>> => MapInv'
  BY DEF MapInv

\* The steps of requests keep the limit.
LEMMA LimitRequest ==
    ASSUME TypeOK, SlotsInv, OwnInv, MapInv, UNCHANGED config, NEW r \in Requests, Request(r)
    PROVE  OwnInv' /\ MapInv'
<1>0. \A q \in Requests : Own(q)
  BY Zenon, OwnParts
<1>a. \A q \in Requests \ {r} : /\ pc'[q] = pc[q] /\ cred'[q] = cred[q]
                                /\ want'[q] = want[q] /\ lim'[q] = lim[q]
                                /\ counted'[q] = counted[q]
  BY Zenon, OthersFrame
<1>b. /\ limiter \in [Creds -> MaybeLimiter] /\ made \in Nat
      /\ settings \in [Limiters -> AnySettings] /\ inFlight \in [Limiters -> Nat]
      /\ pc \in [Requests -> PC] /\ cred \in [Requests -> Creds]
      /\ want \in [Requests -> AnySettings] /\ lim \in [Requests -> MaybeLimiter]
      /\ counted \in [Requests -> MaybeLimiter] /\ config \in [Creds -> Settings]
      /\ (pc[r] \in {"configure", "acquire"} => lim[r] \in Limiters)
      /\ \A q \in Requests : pc[q] \in {"configure", "acquire"} => lim[q] # 0
  BY Zenon DEF TypeOK, LimiterType, PassType, WaitType, ConfigType
<1> SUFFICES (\A q \in Requests : Own(q)') /\ MapInv'
  BY Zenon DEF OwnInv, Own
<1>1. CASE Pick(r)
  <2>1. UNCHANGED <<made, limiter, settings, inFlight, counted, lim>> /\ pc[r] = "pick"
    BY Zenon, <1>1 DEF Pick, limiterVars, mapVars
  <2>2. ASSUME NEW q \in Requests \ {r} PROVE Own(q)'
    BY Zenon, <1>0, <1>a, <2>1, OwnSame
  <2>3. Own(r)'
    <3>1. PICK c \in Creds :
             \/ UNCHANGED <<pc, cred, want>>
             \/ /\ cred' = [cred EXCEPT ![r] = c]
                /\ want' = [want EXCEPT ![r] = config[c]]
                /\ pc' = [pc EXCEPT ![r] = IF config[c].max = 0 THEN "hold" ELSE "load"]
      BY Zenon, <1>1 DEF Pick
    <3> QED
      BY <1>b, <2>1, <3>1 DEF Own
  <2> QED
    BY Zenon, <2>1, <2>2, <2>3, MapSame
<1>2. CASE Load(r)
  <2>1. /\ pc[r] = "load" /\ pc' = [pc EXCEPT ![r] = "configure"]
        /\ lim' = [lim EXCEPT ![r] = limiter'[cred[r]]]
        /\ UNCHANGED <<cred, want, settings, inFlight, counted>>
    BY Zenon, <1>2 DEF Load, limiterVars
  <2>2. CASE UNCHANGED mapVars
    <3>1. UNCHANGED <<made, limiter>>
      BY Zenon, <2>2 DEF mapVars
    <3>2. ASSUME NEW q \in Requests \ {r} PROVE Own(q)'
      BY Zenon, <1>0, <1>a, <2>1, <3>1, OwnSame
    <3>3. Own(r)'
      BY Zenon, <1>0, <1>b, <2>1, <3>1 DEF Own
    <3> QED
      BY Zenon, <2>1, <3>1, <3>2, <3>3, MapSame
  <2>3. CASE /\ limiter[cred[r]] = 0 /\ made < MaxLimiters /\ made' = made + 1
             /\ limiter' = [limiter EXCEPT ![cred[r]] = NewLimiter]
    <3> DEFINE n == made + 1
    <3>1. /\ NewLimiter = n /\ n \in Limiters /\ n # 0 /\ n > made /\ n \in Nat
      BY <1>b, <2>3, NewIsLimiter DEF NewLimiter
    <3>2. /\ limiter'[cred[r]] = n
          /\ \A c \in Creds \ {cred[r]} : limiter'[c] = limiter[c]
      BY Zenon, <1>b, <2>3, <3>1
    <3>3. ASSUME NEW q \in Requests \ {r} PROVE Own(q)'
      <4>1. pc[q] \in {"configure", "acquire"} => limiter'[cred[q]] = limiter[cred[q]]
        BY <1>0, <1>b, <2>3, <3>2 DEF Own
      <4>2. pc[q] = "hold" /\ config[cred[q]].max # 0 => limiter'[cred[q]] = limiter[cred[q]]
        BY <1>0, <1>b, <2>3, <3>2 DEF Own
      <4> QED
        BY <1>0, <1>a, <2>1, <4>1, <4>2 DEF Own
    <3>4. Own(r)'
      BY Zenon, <1>0, <1>b, <2>1 DEF Own
    <3>5. MapInv'
      <4>1. \A c \in Creds : limiter[c] \in Nat /\ limiter[c] =< made
        BY <1>b DEF MapInv, Limiters
      <4>2. \A c \in Creds : limiter'[c] =< made'
        BY <1>b, <2>3, <3>1, <3>2, <4>1
      <4>3. \A c \in Creds \ {cred[r]} : limiter'[c] # n
        BY <1>b, <3>1, <3>2, <4>1
      <4>4. \A c, d \in Creds : limiter'[c] = limiter'[d] /\ limiter'[c] # 0 => c = d
        BY <3>2, <4>3 DEF MapInv
      <4>5. settings[n] = Zero /\ inFlight[n] = 0
        BY Zenon, <3>1 DEF MapInv
      <4>6. \A c \in Creds : limiter'[c] # 0 =>
               \/ settings[limiter'[c]] = Zero /\ inFlight[limiter'[c]] = 0
               \/ /\ settings[limiter'[c]] = config[c]
                  /\ inFlight[limiter'[c]] =< config[c].max
        BY Zenon, <3>2, <4>5 DEF MapInv
      <4>7. \A l \in Limiters : l > made' => l > made
        BY <1>b, <2>3, BoundsAssumption DEF Limiters
      <4>8. \A l \in Limiters : l > made' => settings[l] = Zero /\ inFlight[l] = 0
        BY Zenon, <4>7 DEF MapInv
      <4> HIDE DEF n
      <4> QED
        BY Zenon, <2>1, <4>2, <4>4, <4>6, <4>8 DEF MapInv
    <3> QED
      BY Zenon, <3>3, <3>4, <3>5
  <2> QED
    BY Zenon, <1>2, <2>2, <2>3 DEF Load
<1>3. CASE ConfigureLimiter(r)
  <2> DEFINE l == lim[r]
  <2>1. /\ pc[r] = "configure" /\ pc' = [pc EXCEPT ![r] = "acquire"] /\ Configure(l, want[r])
        /\ UNCHANGED <<made, limiter, inFlight, cred, want, lim, counted>>
    BY Zenon, <1>3 DEF ConfigureLimiter, mapVars, passVars, pickVars
  <2>2. settings' = [settings EXCEPT ![l] = want[r]]
    BY Zenon, <1>b, <2>1 DEF Configure
  <2>3. /\ l \in Limiters /\ l # 0 /\ l = limiter[cred[r]] /\ cred[r] \in Creds
        /\ want[r] = config[cred[r]]
    BY Zenon, <1>0, <1>b, <2>1, LimiterNotZero DEF Own
  <2>4. /\ settings'[l] = config[cred[r]]
        /\ \A k \in Limiters \ {l} : settings'[k] = settings[k]
    BY Zenon, <1>b, <2>2, <2>3
  <2>5. ASSUME NEW q \in Requests \ {r} PROVE Own(q)'
    <3>1. ASSUME pc[q] = "acquire" PROVE settings'[lim[q]] = want[q]
      <4>1. /\ lim[q] = limiter[cred[q]] /\ lim[q] \in Limiters /\ cred[q] \in Creds
            /\ settings[lim[q]] = want[q] /\ want[q] = config[cred[q]]
        BY <1>0, <1>b, <3>1 DEF Own
      <4>2. CASE lim[q] = l
        <5>1. cred[q] = cred[r]
          BY Zenon, <2>3, <4>1, <4>2 DEF MapInv
        <5> QED
          BY Zenon, <2>4, <4>1, <4>2, <5>1
      <4>3. CASE lim[q] # l
        BY Zenon, <2>4, <4>1, <4>3
      <4> QED
        BY Zenon, <4>2, <4>3
    <3> QED
      BY <1>0, <1>a, <2>1, <3>1 DEF Own
  <2>6. Own(r)'
    BY Zenon, <1>0, <1>b, <2>1, <2>3, <2>4 DEF Own
  <2>7. MapInv'
    <3>1. \A c \in Creds : limiter[c] # 0 =>
             \/ settings'[limiter[c]] = Zero /\ inFlight[limiter[c]] = 0
             \/ settings'[limiter[c]] = config[c] /\ inFlight[limiter[c]] =< config[c].max
      <4> SUFFICES ASSUME NEW c \in Creds, limiter[c] # 0
                   PROVE  \/ settings'[limiter[c]] = Zero /\ inFlight[limiter[c]] = 0
                          \/ /\ settings'[limiter[c]] = config[c]
                             /\ inFlight[limiter[c]] =< config[c].max
        BY Zenon
      <4>1. limiter[c] \in Limiters
        BY Zenon, <1>b
      <4>2. CASE c = cred[r]
        <5>1. config[c].max \in Nat
          BY Zenon, <1>b, SettingsType
        <5>2. inFlight[l] =< config[c].max
          BY <2>3, <4>2, <5>1 DEF MapInv
        <5> QED
          BY Zenon, <2>3, <2>4, <4>2, <5>2
      <4>3. CASE c # cred[r]
        <5>1. limiter[c] # l
          BY Zenon, <2>3, <4>3 DEF MapInv
        <5>2. settings'[limiter[c]] = settings[limiter[c]]
          BY Zenon, <2>4, <4>1, <5>1
        <5> QED
          BY Zenon, <5>2 DEF MapInv
      <4> QED
        BY Zenon, <4>2, <4>3
    <3>2. l =< made
      BY Zenon, <2>3 DEF MapInv
    <3>3. \A k \in Limiters : k > made => k # l
      BY <1>b, <2>3, <3>2, BoundsAssumption DEF Limiters
    <3>4. \A k \in Limiters : k > made => settings'[k] = Zero /\ inFlight[k] = 0
      BY Zenon, <2>4, <3>3 DEF MapInv
    <3> QED
      BY Zenon, <2>1, <3>1, <3>4 DEF MapInv
  <2> QED
    BY Zenon, <2>5, <2>6, <2>7
<1>4. CASE Admit(r)
  <2> DEFINE l == lim[r]
  <2>1. /\ pc[r] = "acquire" /\ pc' = [pc EXCEPT ![r] = "hold"] /\ Available(l)
        /\ UNCHANGED <<made, limiter, settings, cred>>
    BY Zenon, <1>4 DEF Admit, mapVars
  <2>2. /\ l \in Limiters /\ l # 0 /\ l = limiter[cred[r]] /\ cred[r] \in Creds
        /\ settings[l] = config[cred[r]] /\ settings[l].max # 0
    BY Zenon, <1>0, <1>b, <2>1, LimiterNotZero DEF Own
  <2>3. /\ inFlight' = [inFlight EXCEPT ![l] = @ + 1]
        /\ counted' = [counted EXCEPT ![r] = l]
    BY Zenon, <1>4, <2>2 DEF Admit
  <2>4. ASSUME NEW q \in Requests \ {r} PROVE Own(q)'
    BY Zenon, <1>0, <1>a, <2>1, OwnSame
  <2>5. Own(r)'
    BY Zenon, <1>b, <2>1, <2>2, <2>3 DEF Own
  <2>6. MapInv'
    <3>1. inFlight[l] < settings[l].max
      BY Zenon, <2>1, <2>2 DEF Available
    <3>2. /\ inFlight'[l] = inFlight[l] + 1
          /\ \A k \in Limiters \ {l} : inFlight'[k] = inFlight[k]
      BY Zenon, <1>b, <2>2, <2>3
    <3>3. inFlight'[l] =< settings[l].max
      <4>1. settings[l].max \in Nat /\ inFlight[l] \in Nat
        BY Zenon, <1>b, <2>2, SettingsType
      <4> QED
        BY <3>1, <3>2, <4>1
    <3>4. \A c \in Creds : limiter[c] # 0 =>
             \/ settings[limiter[c]] = Zero /\ inFlight'[limiter[c]] = 0
             \/ settings[limiter[c]] = config[c] /\ inFlight'[limiter[c]] =< config[c].max
      <4> SUFFICES ASSUME NEW c \in Creds, limiter[c] # 0
                   PROVE  \/ settings[limiter[c]] = Zero /\ inFlight'[limiter[c]] = 0
                          \/ /\ settings[limiter[c]] = config[c]
                             /\ inFlight'[limiter[c]] =< config[c].max
        BY Zenon
      <4>1. limiter[c] \in Limiters
        BY Zenon, <1>b
      <4>2. CASE c = cred[r]
        BY Zenon, <2>2, <3>3, <4>2
      <4>3. CASE c # cred[r]
        <5>1. limiter[c] # l
          BY Zenon, <2>2, <4>3 DEF MapInv
        <5>2. inFlight'[limiter[c]] = inFlight[limiter[c]]
          BY Zenon, <3>2, <4>1, <5>1
        <5> QED
          BY Zenon, <5>2 DEF MapInv
      <4> QED
        BY Zenon, <4>2, <4>3
    <3>5. l =< made
      BY Zenon, <2>2 DEF MapInv
    <3>6. \A k \in Limiters : k > made => k # l
      BY <1>b, <2>2, <3>5, BoundsAssumption DEF Limiters
    <3>7. \A k \in Limiters : k > made => settings[k] = Zero /\ inFlight'[k] = 0
      BY Zenon, <3>2, <3>6 DEF MapInv
    <3> QED
      BY Zenon, <2>1, <3>4, <3>7 DEF MapInv
  <2> QED
    BY Zenon, <2>4, <2>5, <2>6
<1>5. CASE Release(r)
  <2>1. /\ UNCHANGED <<made, limiter, settings>>
        /\ pc'[r] \notin Trying
    BY Zenon, <1>5, <1>b DEF Release, Return, mapVars, Trying
  <2>2. ASSUME NEW q \in Requests PROVE Own(q)'
    BY Zenon, <1>0, <1>a, <2>1, OwnSame
  <2>3. \A k \in Limiters : inFlight'[k] \in Nat /\ inFlight'[k] =< inFlight[k]
    <3>1. \A m \in Nat : Less(m) \in Nat /\ Less(m) =< m
      BY DEF Less
    <3>2. inFlight' = inFlight \/ inFlight' = [inFlight EXCEPT ![counted[r]] = Less(@)]
      BY Zenon, <1>5 DEF Release, Released
    <3> QED
      BY <1>b, <3>1, <3>2
  <2>4. \A c \in Creds : config[c].max \in Nat
    BY Zenon, <1>b, SettingsType
  <2>5. \A c \in Creds : limiter[c] # 0 =>
           \/ settings[limiter[c]] = Zero /\ inFlight'[limiter[c]] = 0
           \/ settings[limiter[c]] = config[c] /\ inFlight'[limiter[c]] =< config[c].max
    <3> SUFFICES ASSUME NEW c \in Creds, limiter[c] # 0
                 PROVE  \/ settings[limiter[c]] = Zero /\ inFlight'[limiter[c]] = 0
                        \/ /\ settings[limiter[c]] = config[c]
                           /\ inFlight'[limiter[c]] =< config[c].max
      BY Zenon
    <3> DEFINE k == limiter[c]
    <3>1. k \in Limiters /\ inFlight[k] \in Nat /\ inFlight'[k] \in Nat /\ inFlight'[k] =< inFlight[k]
      BY Zenon, <1>b, <2>3
    <3>2. inFlight[k] = 0 => inFlight'[k] = 0
      BY <3>1
    <3>3. inFlight[k] =< config[c].max => inFlight'[k] =< config[c].max
      BY <2>4, <3>1
    <3> QED
      BY Zenon, <3>2, <3>3 DEF MapInv
  <2>6. \A k \in Limiters : inFlight[k] = 0 => inFlight'[k] = 0
    BY <1>b, <2>3
  <2>7. \A k \in Limiters : k > made => settings[k] = Zero /\ inFlight'[k] = 0
    BY Zenon, <2>6 DEF MapInv
  <2> QED
    BY Zenon, <2>1, <2>2, <2>5, <2>7 DEF MapInv
<1>6. CASE ~ Pick(r) /\ ~ Load(r) /\ ~ ConfigureLimiter(r) /\ ~ Admit(r) /\ ~ Release(r)
  <2>1. /\ UNCHANGED <<made, limiter, settings, inFlight, counted>>
        /\ pc'[r] \notin Trying \/ UNCHANGED <<pc, cred, want, lim>>
    BY Zenon, <1>6, OtherRequestLimit
  <2>2. ASSUME NEW q \in Requests PROVE Own(q)'
    BY Zenon, <1>0, <1>a, <2>1, OwnSame
  <2> QED
    BY Zenon, <2>1, <2>2, MapSame
<1> QED
  BY Zenon, <1>1, <1>2, <1>3, <1>4, <1>5, <1>6

\* Every undisturbed step keeps the limit.
LEMMA LimitStep ==
    TypeOK /\ SlotsInv /\ LimitInv /\ [Next]_vars /\ [Undisturbed]_vars => LimitInv'
<1> SUFFICES ASSUME TypeOK, SlotsInv, LimitInv, [Next]_vars, UNCHANGED <<config, adminVars>>
             PROVE  LimitInv'
  BY Zenon DEF Undisturbed, vars, configVars
<1>0. CalmInv' /\ UNCHANGED config
  BY Zenon DEF LimitInv, CalmInv, adminVars, opVars
<1>1. ASSUME NEW r \in Requests, Request(r)
      PROVE  LimitInv'
  BY Zenon, <1>0, <1>1, LimitRequest DEF LimitInv
<1>2. CASE Outside
  <2>1. ASSUME NEW a \in Admins, AdminStepOf(a)
        PROVE  FALSE
    <3>1. op[a] = "idle" /\ op' = op /\ op \in [Admins -> AdminStep]
      BY Zenon DEF LimitInv, CalmInv, adminVars, opVars, TypeOK, AdminType
    <3> QED
      BY Zenon, <2>1, <3>1 DEF AdminStepOf, RefreshLoad, RefreshConfigure, RefreshDelete, RemoveEntry,
         RemoveConfigure, ChangeAuth, Remove
  <2>2. UNCHANGED <<made, limiter, settings, inFlight>>
    BY Zenon, <1>2, <2>1 DEF Outside, ConfigChange, Tell, limiterVars, mapVars
  <2>3. UNCHANGED <<pc, cred, want, lim, counted>>
    BY Zenon, <1>2, OutsideFrame DEF pickVars
  <2>4. OwnInv'
    BY Zenon, <1>0, <2>2, <2>3 DEF LimitInv, OwnInv
  <2> QED
    BY Zenon, <1>0, <2>2, <2>4, MapSame DEF LimitInv
<1>3. CASE UNCHANGED vars
  <2>1. UNCHANGED <<made, limiter, settings, inFlight, pc, cred, want, lim, counted>>
    BY Zenon, <1>3 DEF vars, limiterVars, mapVars, passVars, pickVars
  <2>2. OwnInv'
    BY Zenon, <1>0, <2>1 DEF LimitInv, OwnInv
  <2> QED
    BY Zenon, <1>0, <2>1, <2>2, MapSame DEF LimitInv
<1> QED
  BY Zenon, <1>1, <1>2, <1>3, StepKinds

\* The executions of a credential all count on its limiter.
LEMMA LimitHolds == TypeOK /\ SlotsInv /\ LimitInv => LimitKept
<1> SUFFICES ASSUME TypeOK, SlotsInv, LimitInv, NEW c \in live, config[c].max > 0
             PROVE  Cardinality(Executing(c)) =< config[c].max
  BY Zenon DEF LimitKept
<1> DEFINE l == limiter[c]
<1>0. c \in Creds /\ config[c].max \in Nat /\ l \in Limiters \cup {0}
  BY Zenon, SettingsType DEF TypeOK, ConfigType, LimiterType
<1>1. \A r \in Executing(c) : l # 0 /\ r \in Holders(l)
  BY <1>0 DEF LimitInv, OwnInv, Executing, Holders
<1>2. CASE Executing(c) = {}
  BY <1>0, <1>2, FS_EmptySet
<1>3. CASE Executing(c) # {}
  <2>1. l \in Limiters /\ l # 0
    BY Zenon, <1>0, <1>1, <1>3
  <2>2. Executing(c) \subseteq Holders(l)
    BY Zenon, <1>1
  <2>3. /\ Cardinality(Executing(c)) =< Cardinality(Holders(l))
        /\ Cardinality(Executing(c)) \in Nat /\ Cardinality(Holders(l)) \in Nat
    BY Zenon, <2>2, HoldersFinite, FS_Subset, FS_CardinalityType
  <2>4. inFlight[l] = Cardinality(Holders(l))
    BY Zenon, <2>1 DEF SlotsInv, SlotsCounted
  <2>5. inFlight[l] =< config[c].max
    BY <1>0, <2>1 DEF LimitInv, MapInv
  <2> QED
    BY <1>0, <2>3, <2>4, <2>5
<1> QED
  BY Zenon, <1>2, <1>3

\* While nothing is reconfigured, no more requests execute on a credential than
\* its MaxInFlight: every one of them holds a slot of the same limiter.
THEOREM LimitAlwaysKept == Spec /\ [][Undisturbed]_vars => []LimitKept
<1>1. Init => SlotsInv /\ LimitInv
  <2> SUFFICES ASSUME Init PROVE SlotsInv /\ LimitInv
    BY Zenon
  <2>1. \A l \in Limiters : Holders(l) = {}
    BY Zenon, LimiterNotZero DEF Init, Holders
  <2>2. SlotsInv
    BY Zenon, <2>1, FS_EmptySet DEF Init, SlotsInv, HoldInv, SlotsCounted
  <2>3. MapInv
    BY DEF Init, MapInv
  <2> QED
    BY Zenon, <2>2, <2>3 DEF Init, LimitInv, OwnInv, CalmInv
<1> QED
  BY <1>1, SlotsStep, LimitStep, LimitHolds, TypeCorrect, PTL DEF Spec
=============================================================================
