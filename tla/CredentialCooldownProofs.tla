----------------------- MODULE CredentialCooldownProofs -----------------------
(***************************************************************************)
(* Theorems about CredentialCooldown, for every set of models, requests    *)
(* and failures, and for all durations: no deadline lies beyond the        *)
(* longest cooldown, and the quota ladder climbs once per window.          *)
(***************************************************************************)
EXTENDS CredentialCooldown, TLAPS

-----------------------------------------------------------------------------
(* Maxima. *)

\* Latest and Earliest choose a member of the set, or zero.
LEMMA ChosenOf == ASSUME NEW S
                  PROVE  Latest(S) \in S \cup {0} /\ Earliest(S) \in S \cup {0}
BY Zenon DEF Latest, Earliest, Max, Min

\* Of at most three numbers none is later than Latest.
LEMMA LatestOf == ASSUME NEW a \in Nat, NEW b \in Nat, NEW c \in Nat, NEW S, S \subseteq {a, b, c}
                  PROVE  \A y \in S : Latest(S) >= y
<1> SUFFICES ASSUME NEW y \in S PROVE Latest(S) >= y
  OBVIOUS
<1>1. \E x \in S : \A z \in S : x >= z
  OBVIOUS
<1> QED
  BY Zenon, <1>1 DEF Latest, Max

-----------------------------------------------------------------------------
(* Durations and levels. *)

\* Forever lies further ahead than every duration of the code.
LEMMA ForeverIsFar ==
    /\ Forever \in Nat /\ Horizon \in Nat
    /\ \A t \in 1..Horizon, d \in {Long, Unauthorized, Ceiling, Floor, Minute} \cup Hints :
          t + d <= Forever /\ d \in Nat
    /\ \A t \in 1..Horizon : Transient >= 0 => t + Transient <= Forever
    /\ \A t \in 1..Horizon : t <= Forever
<1> DEFINE T == Max({Transient, 1})
<1>1. /\ Hints \subseteq 1..LongestHint /\ LongestHint \in Nat
      /\ Horizon \in Nat /\ Transient \in Int
      /\ Long \in Nat /\ Unauthorized \in Nat /\ Ceiling \in Nat /\ Floor \in Nat /\ Minute \in Nat
  BY ConstantsOK
<1>2. T \in Nat /\ T >= Transient
  <2>1. \E x \in {Transient, 1} : \A y \in {Transient, 1} : x >= y
    BY <1>1
  <2>2. T \in {Transient, 1} /\ \A y \in {Transient, 1} : T >= y
    BY Zenon, <2>1 DEF Max
  <2> HIDE DEF T
  <2> QED
    BY <1>1, <2>2
<1>3. Forever = Horizon + Long + Unauthorized + Ceiling + Floor + Minute + LongestHint + T
  BY Zenon DEF Forever
<1> HIDE DEF T
<1>4. Forever \in Nat
  BY <1>1, <1>2, <1>3
<1>5. ASSUME NEW t \in 1..Horizon, NEW d \in Hints
      PROVE  t + d <= Forever /\ d \in Nat
  <2>1. d \in 1..LongestHint
    BY Zenon, <1>1
  <2> QED
    BY <1>1, <1>2, <1>3, <2>1
<1>6. ASSUME NEW t \in 1..Horizon
      PROVE  /\ t + Long <= Forever /\ t + Unauthorized <= Forever /\ t + Ceiling <= Forever
             /\ t + Floor <= Forever /\ t + Minute <= Forever /\ t <= Forever
             /\ Transient >= 0 => t + Transient <= Forever
  BY <1>1, <1>2, <1>3
<1> QED
  BY Zenon, <1>1, <1>4, <1>5, <1>6

\* nextQuotaCooldown waits at most for the ceiling and stays on the ladder: a climb from
\* the last rung would double the base past the ceiling.
LEMMA NextOnLadder == ASSUME NEW level \in Levels
                      PROVE  /\ nextQuotaCooldown(level).wait \in 0..Ceiling
                             /\ nextQuotaCooldown(level).level \in Levels
<1> DEFINE P == 2^level
           wait == Base * P
<1>1. Ceiling \in Nat /\ Base \in Nat /\ Base >= 1
  BY ConstantsOK
<1>2. level \in 0..Ceiling
  BY Zenon DEF Levels
<1>3. P \in Nat /\ P > level
  BY Zenon, <1>2, DoublingGrows
<1>4. nextQuotaCooldown(level) = IF wait >= Ceiling THEN [wait |-> Ceiling, level |-> level]
                                 ELSE [wait |-> wait, level |-> level + 1]
  BY Zenon DEF nextQuotaCooldown
<1>5. CASE wait >= Ceiling
  BY <1>1, <1>4, <1>5
<1>6. CASE ~ (wait >= Ceiling)
  <2>1. wait \in Nat /\ wait >= P /\ wait < Ceiling
    <3> HIDE DEF P
    <3> QED
      BY <1>1, <1>3, <1>6
  <2>2. (level + 1) - 1 = level /\ level + 1 \in 0..Ceiling
    <3> HIDE DEF P, wait
    <3> QED
      BY <1>1, <1>2, <1>3, <2>1
  <2>3. level + 1 \in Levels
    BY Zenon, <2>1, <2>2 DEF Levels
  <2> HIDE DEF wait
  <2>4. wait \in 0..Ceiling
    BY <1>1, <2>1
  <2> QED
    BY <1>4, <1>6, <2>3, <2>4
<1> QED
  BY Zenon, <1>5, <1>6

-----------------------------------------------------------------------------
(* Types of the data. *)

Reasons == {"", "quota", "credential_quota", "cloudflare challenge"}
Errs == Kinds \cup {None}
Clock == now \in 1..Horizon

\* Deadlines are closed under the operators that choose among them.
LEMMA TimesClosed ==
    /\ 0 \in Times
    /\ \A S : S \subseteq Times => Latest(S) \in Times /\ Earliest(S) \in Times
    /\ \A a, b \in Times : Latest({a, b}) \in Times
    /\ \A a, b, c \in Times : Latest({a, b, c}) \in Times
<1>1. 0 \in Times
  BY ForeverIsFar DEF Times
<1>2. \A S : S \subseteq Times => Latest(S) \in Times /\ Earliest(S) \in Times
  BY Zenon, <1>1, ChosenOf
<1>3. \A a, b, c \in Times : {a, b} \subseteq Times /\ {a, b, c} \subseteq Times
  BY Zenon
<1> QED
  BY Zenon, <1>1, <1>2, <1>3

\* So are the levels.
LEMMA LevelsClosed ==
    /\ 0 \in Levels /\ Levels \subseteq Int
    /\ \A S : S \subseteq Levels => Latest(S) \in Levels
    /\ \A a, b \in Levels : Latest({a, b}) \in Levels
<1>1. 0 \in 0..Ceiling /\ 0..Ceiling \subseteq Int
  BY ConstantsOK
<1>2. 0 \in Levels /\ Levels \subseteq Int
  BY Zenon, <1>1 DEF Levels
<1>3. \A S : S \subseteq Levels => Latest(S) \in Levels
  BY Zenon, <1>2, ChosenOf
<1>4. \A a, b \in Levels : {a, b} \subseteq Levels
  BY Zenon
<1> QED
  BY Zenon, <1>2, <1>3, <1>4

\* The deadlines a failure can set.
LEMMA NowTimes == ASSUME Clock
                  PROVE  /\ now \in Times
                         /\ \A d \in {Long, Unauthorized, Floor, Minute} \cup Hints : now + d \in Times
                         /\ \A d \in 0..Ceiling : now + d \in Times
                         /\ Transient >= 0 => now + Transient \in Times
<1>1. Forever \in Nat /\ Horizon \in Nat /\ Transient \in Int /\ Ceiling \in Nat
  BY ForeverIsFar, ConstantsOK
<1>2. now \in Nat /\ now <= Forever
  BY <1>1, ForeverIsFar DEF Clock
<1>3. ASSUME NEW d \in {Long, Unauthorized, Floor, Minute} \cup Hints
      PROVE  now + d \in Times
  <2>1. now + d <= Forever /\ d \in Nat
    BY Zenon, ForeverIsFar DEF Clock
  <2> QED
    BY <1>1, <1>2, <2>1 DEF Times
<1>4. ASSUME NEW d \in 0..Ceiling
      PROVE  now + d \in Times
  <2>1. now + Ceiling <= Forever
    BY Zenon, ForeverIsFar DEF Clock
  <2> QED
    BY <1>1, <1>2, <2>1 DEF Times
<1>5. Transient >= 0 => now + Transient \in Times
  <2>1. Transient >= 0 => now + Transient <= Forever
    BY Zenon, ForeverIsFar DEF Clock
  <2> QED
    BY <1>1, <1>2, <2>1 DEF Times
<1>6. now \in Times
  BY <1>1, <1>2 DEF Times
<1> QED
  BY Zenon, <1>3, <1>4, <1>5, <1>6

\* The fields of the records, and records made of typed fields.
LEMMA QuotaFields ==
    /\ \A q \in Quotas : /\ q.exceeded \in BOOLEAN /\ q.reason \in Reasons
                         /\ q.recover \in Times /\ q.level \in Levels
    /\ \A e \in BOOLEAN, r \in Reasons, d \in Times, l \in Levels :
          [exceeded |-> e, reason |-> r, recover |-> d, level |-> l] \in Quotas
    /\ NoQuota \in Quotas
<1>1. 0 \in Times /\ 0 \in Levels
  BY Zenon, TimesClosed, LevelsClosed
<1>2. Quotas = [exceeded : BOOLEAN, reason : Reasons, recover : Times, level : Levels]
  BY Zenon DEF Quotas, Reasons
<1>3. "" \in Reasons
  BY Zenon DEF Reasons
<1> QED
  BY Zenon, <1>1, <1>2, <1>3 DEF NoQuota

\* The fields of a model's state.
LEMMA StateFields ==
    /\ \A s \in States : /\ s.status \in {"active", "error"} /\ s.unavailable \in BOOLEAN
                         /\ s.retry \in Times /\ s.indep \in Times /\ s.err \in Errs
                         /\ s.quota \in Quotas /\ s.updated \in Times
    /\ \A a \in {"active", "error"}, u \in BOOLEAN, d, i, t \in Times, e \in Errs, q \in Quotas :
          [status |-> a, unavailable |-> u, retry |-> d, indep |-> i, err |-> e, quota |-> q,
           updated |-> t] \in States
    /\ Fresh \in States
<1>1. 0 \in Times /\ NoQuota \in Quotas /\ None \in Errs
  BY Zenon, TimesClosed, QuotaFields DEF Errs
<1>2. States = [status : {"active", "error"}, unavailable : BOOLEAN, retry : Times, indep : Times,
                err : Errs, quota : Quotas, updated : Times]
  BY Zenon DEF States, Errs
<1> QED
  BY <1>1, <1>2 DEF Fresh

\* The fields of a credential.
LEMMA CredentialFields ==
    \A c \in Credentials :
        /\ c.unavailable \in BOOLEAN /\ c.retry \in Times /\ c.err \in Errs /\ c.quota \in Quotas
        /\ c.updated \in Times /\ c.epoch \in Nat /\ c.version \in Nat
        /\ c.models \in [Models -> States \cup {None}]
        /\ \A m \in Models : StateOf(c, m) \in States
        /\ \A m \in Known(c) : m \in Models /\ c.models[m] \in States
<1> TAKE c \in Credentials
<1>1. /\ c.unavailable \in BOOLEAN /\ c.retry \in Times /\ c.err \in Errs /\ c.quota \in Quotas
      /\ c.updated \in Times /\ c.epoch \in Nat /\ c.version \in Nat
      /\ c.models \in [Models -> States \cup {None}]
  BY DEF Credentials, Errs
<1> QED
  BY Zenon, <1>1, StateFields DEF StateOf, Known

-----------------------------------------------------------------------------
(* The operators keep the types, and the recoveries never raise a level:   *)
(* they leave the quota of a model as it is or replace it by one that is   *)
(* not the quota of an exhausted window.                                   *)

Tame(c, d) == \A m \in Models :
    \/ d.models[m] = None
    \/ d.models[m].quota.reason # "quota"
    \/ c.models[m] # None /\ d.models[m].quota = c.models[m].quota

\* The models failed in the same way, with the same quotas.
SameFailures(c, d) == \A m \in Models :
    \/ d.models[m] = None
    \/ /\ c.models[m] # None /\ d.models[m].quota = c.models[m].quota
       /\ d.models[m].err = c.models[m].err

\* Tame is transitive, and holds where the models do not change.
LEMMA TameSteps == /\ \A c, d, e : Tame(c, d) /\ Tame(d, e) => Tame(c, e)
                   /\ \A c, d : d.models = c.models => Tame(c, d) /\ SameFailures(c, d)
                   /\ \A c, d : SameFailures(c, d) => Tame(c, d)
<1>1. ASSUME NEW c, NEW d, NEW e, Tame(c, d), Tame(d, e) PROVE Tame(c, e)
  <2> SUFFICES ASSUME NEW m \in Models
               PROVE  \/ e.models[m] = None
                      \/ e.models[m].quota.reason # "quota"
                      \/ c.models[m] # None /\ e.models[m].quota = c.models[m].quota
    BY Zenon DEF Tame
  <2> QED
    BY Zenon, <1>1 DEF Tame
<1>2. \A c, d : d.models = c.models => Tame(c, d) /\ SameFailures(c, d)
  BY Zenon DEF Tame, SameFailures
<1>3. \A c, d : SameFailures(c, d) => Tame(c, d)
  BY Zenon DEF Tame, SameFailures
<1> QED
  BY Zenon, <1>1, <1>2, <1>3

\* The summary of the quotas of the models.
LEMMA AggregatedQuotaType == ASSUME NEW c \in Credentials
                             PROVE  AggregatedQuota(c) \in Quotas
<1> DEFINE over == {m \in Known(c) : c.models[m].quota.exceeded}
           recovers == {c.models[m].quota.recover : m \in over}
           levels == {c.models[m].quota.level : m \in over}
           due == Earliest(recovers \ {0})
<1>1. \A m \in over : c.models[m].quota \in Quotas
  BY Zenon, CredentialFields, StateFields
<1>2. recovers \ {0} \subseteq Times /\ levels \subseteq Levels
  BY Zenon, <1>1, QuotaFields
<1>3. due \in Times /\ Latest(levels) \in Levels
  BY Zenon, <1>2, TimesClosed, LevelsClosed
<1>4. c.quota \in Quotas /\ c.quota.recover \in Times /\ NoQuota \in Quotas
  BY Zenon, CredentialFields, QuotaFields
<1>5. Latest({c.quota.recover, due}) \in Times
  BY Zenon, <1>3, <1>4, TimesClosed
<1>6. [exceeded |-> TRUE, reason |-> "quota", recover |-> Latest({c.quota.recover, due}),
       level |-> Latest(levels)] \in Quotas
  <2>1. "quota" \in Reasons /\ TRUE \in BOOLEAN
    BY Zenon DEF Reasons
  <2> HIDE DEF due, levels
  <2> QED
    BY Zenon, <1>3, <1>5, <2>1, QuotaFields
<1> QED
  BY Zenon, <1>4, <1>6 DEF AggregatedQuota

\* The summary of the models' states.
LEMMA AggregateType == ASSUME NEW c \in Credentials
                       PROVE  /\ updateAggregatedAvailability(c) \in Credentials
                              /\ SameFailures(c, updateAggregatedAvailability(c))
                              /\ Tame(c, updateAggregatedAvailability(c))
<1> DEFINE d == updateAggregatedAvailability(c)
<1>1. CASE CredentialQuota(c)
  <2>1. d = [c EXCEPT !.unavailable = TRUE]
    BY Zenon, <1>1 DEF updateAggregatedAvailability
  <2>2. d \in Credentials /\ d.models = c.models
    BY Zenon, <2>1 DEF Credentials
  <2> QED
    BY Zenon, <2>2, TameSteps
<1>2. CASE ~CredentialQuota(c) /\ Known(c) = {}
  <2>1. d = [c EXCEPT !.unavailable = FALSE, !.retry = 0, !.quota = NoQuota]
    BY Zenon, <1>2 DEF updateAggregatedAvailability, clearAggregatedAvailability
  <2>2. FALSE \in BOOLEAN /\ 0 \in Times /\ NoQuota \in Quotas
    BY Zenon, TimesClosed, QuotaFields
  <2>3. d \in Credentials /\ d.models = c.models
    BY Zenon, <2>1, <2>2 DEF Credentials
  <2> QED
    BY Zenon, <2>3, TameSteps
<1>3. CASE ~CredentialQuota(c) /\ Known(c) # {}
  <2> DEFINE all == \A m \in Known(c) : Waiting(c.models[m])
             ms == [m \in Models |->
                    IF m \in Known(c) /\ Lapsed(c.models[m])
                    THEN [c.models[m] EXCEPT !.unavailable = FALSE, !.retry = 0]
                    ELSE c.models[m]]
             r == IF all THEN Earliest({c.models[m].retry : m \in Known(c)}) ELSE 0
             q == AggregatedQuota(c)
  <2>1. d = [c EXCEPT !.models = ms, !.unavailable = all, !.retry = r, !.quota = q]
    BY Zenon, <1>3 DEF updateAggregatedAvailability
  <2>2. ASSUME NEW m \in Models
        PROVE  /\ ms[m] \in States \cup {None}
               /\ \/ ms[m] = None
                  \/ /\ c.models[m] # None /\ ms[m].quota = c.models[m].quota
                     /\ ms[m].err = c.models[m].err
    <3>1. c.models[m] \in States \cup {None}
      BY Zenon, CredentialFields
    <3>2. CASE m \in Known(c) /\ Lapsed(c.models[m])
      <4>1. ms[m] = [c.models[m] EXCEPT !.unavailable = FALSE, !.retry = 0] /\ c.models[m] # None
        BY Zenon, <3>2 DEF Known
      <4>2. c.models[m] \in States /\ 0 \in Times
        BY Zenon, <3>1, <4>1, TimesClosed
      <4>3. ms[m] \in States /\ ms[m].quota = c.models[m].quota /\ ms[m].err = c.models[m].err
        BY Zenon, <4>1, <4>2 DEF States
      <4> QED
        BY Zenon, <4>1, <4>3
    <3>3. CASE ~ (m \in Known(c) /\ Lapsed(c.models[m]))
      <4>1. ms[m] = c.models[m]
        BY Zenon, <3>3
      <4> QED
        BY Zenon, <3>1, <4>1
    <3> QED
      BY Zenon, <3>2, <3>3
  <2>3. ms \in [Models -> States \cup {None}]
    BY Zenon, <2>2
  <2>4. r \in Times
    <3>1. {c.models[m].retry : m \in Known(c)} \subseteq Times
      BY Zenon, CredentialFields, StateFields
    <3> QED
      BY Zenon, <3>1, TimesClosed
  <2>5. q \in Quotas
    BY Zenon, AggregatedQuotaType
  <2>6. all \in BOOLEAN
    BY Zenon
  <2> HIDE DEF all, ms, r, q
  <2>7. d \in Credentials /\ d.models = ms
    <3> DEFINE e == [c EXCEPT !.models = ms, !.unavailable = all, !.retry = r, !.quota = q]
    <3>1. e \in Credentials /\ e.models = ms
      BY Zenon, <2>3, <2>4, <2>5, <2>6 DEF Credentials
    <3>2. d = e
      BY Zenon, <2>1
    <3> QED
      BY Zenon, <3>1, <3>2
  <2>8. SameFailures(c, d)
    BY Zenon, <2>2, <2>7 DEF SameFailures
  <2> QED
    BY Zenon, <2>7, <2>8, TameSteps
<1> QED
  BY Zenon, <1>1, <1>2, <1>3

\* The error of a credential is dropped, not its models.
LEMMA SettledType == ASSUME NEW c \in Credentials
                     PROVE  Settled(c) \in Credentials /\ Tame(c, Settled(c))
<1>1. None \in Errs
  BY Zenon DEF Errs
<1>2. [c EXCEPT !.err = None] \in Credentials /\ [c EXCEPT !.err = None].models = c.models
  BY <1>1 DEF Credentials, Errs
<1> QED
  BY Zenon, <1>2, TameSteps DEF Settled

\* A model state after resetModelState.
LEMMA ResetType == ASSUME Clock
                   PROVE  Reset \in States /\ Reset.quota.reason # "quota"
<1>1. now \in Times /\ Fresh \in States
  BY Zenon, NowTimes, StateFields
<1>2. Reset \in States
  BY <1>1 DEF Reset, States
<1>3. Reset.quota = NoQuota
  BY DEF Reset, Fresh
<1>4. NoQuota.reason = ""
  BY DEF NoQuota
<1> QED
  BY Zenon, <1>2, <1>3, <1>4

\* A success.
LEMMA SucceededType == ASSUME Clock, NEW c \in Credentials, NEW m \in Models, NEW t
                       PROVE  Succeeded(c, m, t) \in Credentials /\ Tame(c, Succeeded(c, m, t))
<1> DEFINE d == [c EXCEPT !.models[m] = Reset]
           ms == [c.models EXCEPT ![m] = Reset]
<1>1. c.models \in [Models -> States \cup {None}] /\ Reset \in States
  BY Zenon, CredentialFields, ResetType
<1>2. ms \in [Models -> States \cup {None}]
  BY <1>1
<1>3. d = [c EXCEPT !.models = ms]
  OBVIOUS
<1>4. d \in Credentials /\ d.models = ms
  <2> HIDE DEF ms
  <2>1. [c EXCEPT !.models = ms] \in Credentials /\ [c EXCEPT !.models = ms].models = ms
    BY <1>2 DEF Credentials
  <2> QED
    BY Zenon, <1>3, <2>1
<1>5. Tame(c, d)
  <2> SUFFICES ASSUME NEW x \in Models
               PROVE  \/ ms[x].quota.reason # "quota"
                      \/ ms[x] = c.models[x]
    BY Zenon, <1>4 DEF Tame
  <2>1. ms[x] = IF x = m THEN Reset ELSE c.models[x]
    BY <1>1
  <2> QED
    BY Zenon, <2>1, ResetType
<1> HIDE DEF d
<1> DEFINE e == updateAggregatedAvailability(d)
<1>6. e \in Credentials /\ Tame(d, e)
  BY Zenon, <1>4, AggregateType
<1> HIDE DEF e
<1>7. Settled(e) \in Credentials /\ Tame(e, Settled(e))
  BY Zenon, <1>6, SettledType
<1>8. Tame(c, Settled(e)) /\ Tame(c, c)
  BY Zenon, <1>5, <1>6, <1>7, TameSteps
<1> QED
  BY Zenon, <1>7, <1>8 DEF Succeeded, d, e

\* The cooldown of one model is dropped.
LEMMA ClearedStateType == ASSUME Clock, NEW s \in States
                          PROVE  /\ ClearedState(s) \in States
                                 /\ \/ ClearedState(s).quota.reason # "quota"
                                    \/ ClearedState(s).quota = s.quota
<1> DEFINE t == [s EXCEPT !.unavailable = FALSE, !.retry = 0, !.indep = 0, !.quota = NoQuota,
                          !.updated = now]
<1>1. now \in Times /\ 0 \in Times /\ NoQuota \in Quotas
  BY Zenon, NowTimes, TimesClosed, QuotaFields
<1>2. t \in States /\ t.quota = NoQuota
  BY Zenon, <1>1 DEF States
<1>3. NoQuota.reason = ""
  BY DEF NoQuota
<1>4. ClearedState(s) = t \/ ClearedState(s) = s
  BY Zenon DEF ClearedState
<1> HIDE DEF t
<1> QED
  BY Zenon, <1>2, <1>3, <1>4

\* All cooldowns are dropped.
LEMMA ClearCooldownType ==
    ASSUME Clock, NEW c \in Credentials
    PROVE  /\ clearCooldownStateForAuth(c) \in Credentials
           /\ Tame(c, clearCooldownStateForAuth(c))
<1> DEFINE own == c.unavailable \/ c.retry # 0 \/ c.quota.exceeded \/ c.quota.recover # 0
           ms == [m \in Models |-> IF m \in Known(c) THEN ClearedState(c.models[m]) ELSE None]
           u == c.unavailable /\ ~own
           r == IF own THEN 0 ELSE c.retry
           q == IF own THEN NoQuota ELSE c.quota
           d == [c EXCEPT !.models = ms, !.unavailable = u, !.retry = r, !.quota = q]
           e == IF Known(c) # {} THEN updateAggregatedAvailability(d) ELSE d
           f == [e EXCEPT !.epoch = @ + 1, !.updated = now]
           changed == own \/ ms # c.models
<1>1. \A m \in Known(c) : /\ ClearedState(c.models[m]) \in States /\ c.models[m] # None
                          /\ \/ ClearedState(c.models[m]).quota.reason # "quota"
                             \/ ClearedState(c.models[m]).quota = c.models[m].quota
  BY Zenon, CredentialFields, ClearedStateType DEF Known
<1>2. ms \in [Models -> States \cup {None}]
  BY Zenon, <1>1
<1>3. u \in BOOLEAN /\ r \in Times /\ q \in Quotas
  BY Zenon, CredentialFields, TimesClosed, QuotaFields
<1>4. d \in Credentials /\ d.models = ms
  <2> HIDE DEF ms, u, r, q
  <2> QED
    BY Zenon, <1>2, <1>3 DEF Credentials
<1>5. clearCooldownStateForAuth(c) = IF changed THEN f ELSE e
  BY Zenon DEF clearCooldownStateForAuth
<1> HIDE DEF d
<1>6. Tame(c, d)
  BY Zenon, <1>1, <1>4 DEF Tame
<1>7. e \in Credentials /\ Tame(c, e)
  BY Zenon, <1>4, <1>6, AggregateType, TameSteps
<1> HIDE DEF e
<1>8. f \in Credentials /\ f.models = e.models
  <2>1. now \in Times
    BY Zenon, NowTimes
  <2>2. [e EXCEPT !.epoch = @ + 1] \in Credentials
    BY <1>7 DEF Credentials
  <2>3. f = [[e EXCEPT !.epoch = @ + 1] EXCEPT !.updated = now]
    BY <1>7 DEF Credentials
  <2> QED
    BY Zenon, <1>7, <2>1, <2>2, <2>3 DEF Credentials
<1> HIDE DEF f, changed
<1>9. Tame(c, f)
  BY Zenon, <1>7, <1>8, TameSteps
<1> QED
  BY Zenon, <1>5, <1>7, <1>8, <1>9

\* What is left of a cooldown without its 401.
LEMMA RemainingType ==
    ASSUME NEW d \in Times, NEW i \in Times, NEW t, NEW q \in Quotas
    PROVE  remainingUnauthorizedCooldown(d, i, t, q) \in Times
<1> DEFINE live == {x \in {i} : x > now} \cup {x \in {q.recover} : QuotaActive(q)}
           kept == Latest(live)
<1>1. q.recover \in Times
  BY Zenon, QuotaFields
<1>2. live \subseteq Times
  BY Zenon, <1>1
<1>3. kept \in Times
  BY Zenon, <1>2, TimesClosed
<1> HIDE DEF live
<1>4. Latest({kept, d}) \in Times
  BY Zenon, <1>3, TimesClosed
<1> QED
  BY Zenon, <1>3, <1>4 DEF remainingUnauthorizedCooldown, live

\* The 401 of one model is retired.
LEMMA ClearUnauthorizedStateType ==
    ASSUME Clock, NEW s \in States
    PROVE  /\ clearUnauthorizedState(s) \in States
           /\ \/ clearUnauthorizedState(s).quota.reason # "quota"
              \/ clearUnauthorizedState(s).quota = s.quota
<1> DEFINE next == remainingUnauthorizedCooldown(s.retry, s.indep, s.updated, s.quota)
           blocked == QuotaActive(s.quota) \/ next > now
           a == IF blocked THEN "error" ELSE "active"
           q == IF blocked THEN s.quota ELSE NoQuota
           t == [s EXCEPT !.err = None, !.status = a, !.retry = next, !.unavailable = blocked,
                          !.updated = now, !.quota = q]
<1>1. s.retry \in Times /\ s.indep \in Times /\ s.quota \in Quotas
  BY Zenon, StateFields
<1>2. next \in Times
  BY Zenon, <1>1, RemainingType
<1>3. /\ a \in {"active", "error"} /\ blocked \in BOOLEAN /\ q \in Quotas /\ now \in Times
      /\ None \in Errs
  BY Zenon, <1>1, QuotaFields, NowTimes DEF Errs
<1>4. q.reason # "quota" \/ q = s.quota
  <2>1. NoQuota.reason = ""
    BY DEF NoQuota
  <2> QED
    BY Zenon, <2>1
<1>5. clearUnauthorizedState(s) = t
  BY Zenon DEF clearUnauthorizedState
<1> HIDE DEF next, blocked, a, q
<1>6. t \in States /\ t.quota = q
  BY Zenon, <1>2, <1>3 DEF States, Errs
<1> QED
  BY Zenon, <1>4, <1>5, <1>6

\* The 401s of the models are retired.
LEMMA ClearUnauthorizedModelsType ==
    ASSUME Clock, NEW c \in Credentials
    PROVE  /\ clearUnauthorizedModelStates(c) \in Credentials
           /\ Tame(c, clearUnauthorizedModelStates(c))
<1> DEFINE hit == {m \in Known(c) : c.models[m].err = "unauthorized"}
           ms == [m \in Models |-> IF m \in hit THEN clearUnauthorizedState(c.models[m])
                                   ELSE c.models[m]]
           d == [c EXCEPT !.models = ms]
           apart == /\ c.err # "unauthorized" /\ c.unavailable /\ c.retry > now
                    /\ ~ \E m \in Known(d) : d.models[m].err # None /\ d.models[m].err = c.err
           e == updateAggregatedAvailability(d)
           q == IF QuotaActive(c.quota) THEN c.quota ELSE e.quota
           r == IF apart THEN c.retry ELSE e.retry
           u == e.unavailable \/ apart
           f == [e EXCEPT !.quota = q, !.retry = r, !.unavailable = u]
<1>1. \A m \in hit : /\ clearUnauthorizedState(c.models[m]) \in States /\ c.models[m] # None
                     /\ \/ clearUnauthorizedState(c.models[m]).quota.reason # "quota"
                        \/ clearUnauthorizedState(c.models[m]).quota = c.models[m].quota
  BY Zenon, CredentialFields, ClearUnauthorizedStateType DEF Known
<1>2. ms \in [Models -> States \cup {None}]
  BY Zenon, <1>1, CredentialFields
<1>3. d \in Credentials /\ d.models = ms
  <2> HIDE DEF ms
  <2> QED
    BY <1>2 DEF Credentials
<1>4. clearUnauthorizedModelStates(c) = IF hit = {} THEN c ELSE f
  BY Zenon DEF clearUnauthorizedModelStates
<1> HIDE DEF d
<1>5. Tame(c, d)
  BY Zenon, <1>1, <1>3 DEF Tame
<1>6. e \in Credentials /\ Tame(c, e)
  BY Zenon, <1>3, <1>5, AggregateType, TameSteps
<1> HIDE DEF e
<1>7. u \in BOOLEAN /\ r \in Times /\ q \in Quotas
  BY Zenon, <1>6, CredentialFields
<1>8. f \in Credentials /\ f.models = e.models
  <2> HIDE DEF u, r, q
  <2> QED
    BY Zenon, <1>6, <1>7 DEF Credentials
<1> HIDE DEF f
<1>9. Tame(c, f) /\ Tame(c, c)
  BY Zenon, <1>6, <1>8, TameSteps
<1> QED
  BY Zenon, <1>4, <1>8, <1>9

\* The 401 of the credential is retired with those of its models.
LEMMA ClearUnauthorizedAuthType ==
    ASSUME Clock, NEW c \in Credentials
    PROVE  /\ clearUnauthorizedAuthState(c) \in Credentials
           /\ Tame(c, clearUnauthorizedAuthState(c))
<1> DEFINE next == remainingUnauthorizedCooldown(c.retry, 0, c.updated, c.quota)
           blocked == QuotaActive(c.quota) \/ next > now
           b == clearUnauthorizedModelStates(c)
           d == [b EXCEPT !.err = None]
           e == updateAggregatedAvailability(d)
           held == blocked /\ (e.quota.reason = "credential_quota" \/ e.unavailable)
           f == [d EXCEPT !.retry = next, !.unavailable = blocked]
           u == e.unavailable \/ held
           r == IF held THEN Latest({e.retry, next}) ELSE e.retry
           g == [e EXCEPT !.unavailable = u, !.retry = r]
<1>1. next \in Times /\ blocked \in BOOLEAN
  <2>1. c.retry \in Times /\ 0 \in Times /\ c.quota \in Quotas
    BY Zenon, CredentialFields, TimesClosed
  <2> QED
    BY Zenon, <2>1, RemainingType
<1>2. b \in Credentials /\ Tame(c, b)
  BY Zenon, ClearUnauthorizedModelsType
<1>3. clearUnauthorizedAuthState(c) = IF c.err # "unauthorized" THEN b
                                      ELSE IF Known(c) = {} THEN f ELSE g
  BY Zenon DEF clearUnauthorizedAuthState
<1> HIDE DEF b
<1>4. d \in Credentials /\ d.models = b.models
  <2>1. None \in Errs
    BY Zenon DEF Errs
  <2> QED
    BY <1>2, <2>1 DEF Credentials, Errs
<1> HIDE DEF d
<1>5. e \in Credentials /\ Tame(c, d) /\ Tame(c, e)
  BY Zenon, <1>2, <1>4, AggregateType, TameSteps
<1> HIDE DEF e, next
<1>6. u \in BOOLEAN /\ r \in Times
  BY Zenon, <1>1, <1>5, CredentialFields, TimesClosed
<1> HIDE DEF blocked, u, r
<1>7. f \in Credentials /\ f.models = d.models
  BY Zenon, <1>1, <1>4 DEF Credentials
<1>8. g \in Credentials /\ g.models = e.models
  BY Zenon, <1>5, <1>6 DEF Credentials
<1> HIDE DEF f, g
<1>9. Tame(c, f) /\ Tame(c, g)
  BY Zenon, <1>5, <1>7, <1>8, TameSteps
<1> QED
  BY Zenon, <1>2, <1>3, <1>7, <1>8, <1>9

\* A credential with a new token.
LEMMA NewTokenType ==
    ASSUME Clock, NEW c \in Credentials
    PROVE  WithNewToken(c) \in Credentials /\ Tame(c, WithNewToken(c))
<1> DEFINE b == clearUnauthorizedAuthState(c)
           d == [b EXCEPT !.version = @ + 1]
           e == [d EXCEPT !.updated = now]
<1>1. b \in Credentials /\ Tame(c, b)
  BY Zenon, ClearUnauthorizedAuthType
<1>2. WithNewToken(c) = [b EXCEPT !.version = @ + 1, !.updated = now]
  BY Zenon DEF WithNewToken
<1> HIDE DEF b
<1>3. d \in Credentials /\ d.models = b.models
  BY <1>1 DEF Credentials
<1>4. [b EXCEPT !.version = @ + 1, !.updated = now] = e
  BY <1>1 DEF Credentials
<1> HIDE DEF d
<1>5. e \in Credentials /\ e.models = d.models
  <2>1. now \in Times
    BY Zenon, NowTimes
  <2> QED
    BY <1>3, <2>1 DEF Credentials
<1> QED
  BY Zenon, <1>1, <1>2, <1>3, <1>4, <1>5, TameSteps

\* A credential whose time of change is now.
LEMMA TouchedType ==
    ASSUME Clock, NEW c \in Credentials
    PROVE  [c EXCEPT !.updated = now] \in Credentials /\ Tame(c, [c EXCEPT !.updated = now])
<1>1. now \in Times
  BY Zenon, NowTimes
<1>2. [c EXCEPT !.updated = now] \in Credentials /\ [c EXCEPT !.updated = now].models = c.models
  BY <1>1 DEF Credentials
<1> QED
  BY Zenon, <1>2, TameSteps

\* The answer of a token refresh.
LEMMA RefreshedType ==
    ASSUME Clock, NEW b \in Credentials
    PROVE  Refreshed(b) \in Credentials /\ Tame(b, Refreshed(b))
<1> DEFINE d == [b EXCEPT !.err = None, !.unavailable = FALSE, !.updated = now]
<1>1. d \in Credentials /\ d.models = b.models
  <2>1. now \in Times /\ None \in Errs
    BY Zenon, NowTimes DEF Errs
  <2> QED
    BY Zenon, <2>1 DEF Credentials, Errs
<1>2. Refreshed(b) = clearUnauthorizedModelStates(d)
  BY Zenon DEF Refreshed
<1> HIDE DEF d
<1> QED
  BY Zenon, <1>1, <1>2, ClearUnauthorizedModelsType, TameSteps

\* The merge of a refreshed credential into the one found.
LEMMA MergeRefreshedType ==
    ASSUME Clock, NEW b \in Credentials, NEW c \in Credentials
    PROVE  MergeRefreshedAuth(b, c) \in Credentials /\ Tame(c, MergeRefreshedAuth(b, c))
<1> DEFINE new == Refreshed(b)
           keep == \/ authAvailabilityChanged(b, c)
                   \/ CredentialQuota(c)
                   \/ c.unavailable /\ c.retry > now
           u == c.unavailable /\ keep
           e == IF keep THEN c.err ELSE None
           ms == [m \in Models |-> IF Unaltered(b, c, m) THEN new.models[m] ELSE c.models[m]]
           d == [c EXCEPT !.unavailable = u, !.err = e, !.models = ms]
<1>1. MergeRefreshedAuth(b, c) = d
  BY Zenon DEF MergeRefreshedAuth
<1>2. new \in Credentials /\ Tame(b, new)
  BY Zenon, RefreshedType
<1> HIDE DEF new
<1>3. u \in BOOLEAN /\ e \in Errs
  BY Zenon, CredentialFields DEF Errs
<1>4. ms \in [Models -> States \cup {None}]
  BY Zenon, <1>2, CredentialFields
<1>5. \A m \in Models : \/ ms[m] = c.models[m]
                        \/ ms[m] = new.models[m] /\ b.models[m] = c.models[m]
  BY Zenon DEF Unaltered
<1> HIDE DEF keep, u, e, ms
<1>6. d \in Credentials /\ d.models = ms
  BY Zenon, <1>3, <1>4 DEF Credentials, Errs
<1> HIDE DEF d
<1>7. Tame(c, d)
  BY Zenon, <1>2, <1>5, <1>6 DEF Tame
<1> QED
  BY Zenon, <1>1, <1>6, <1>7

\* What a failed refresh leaves.
LEMMA RefreshFailedType ==
    ASSUME Clock, NEW b \in Credentials, NEW c \in Credentials, NEW x \in Kinds, NEW valid \in BOOLEAN
    PROVE  LET d == RefreshFailed(b, c, x, valid) IN
           /\ d \in Credentials /\ Tame(c, d)
           /\ d.models = c.models /\ d.quota = c.quota /\ d.retry = c.retry
           /\ c.unavailable => d.unavailable
<1> DEFINE keep == authAvailabilityChanged(b, c) \/ authHasActiveCooldown(c)
           e == IF keep THEN c.err ELSE x
           u == c.unavailable \/ (~keep /\ ~valid)
           d == [c EXCEPT !.err = e, !.unavailable = u, !.updated = now]
<1>1. RefreshFailed(b, c, x, valid) = d
  BY Zenon DEF RefreshFailed
<1>2. e \in Errs /\ u \in BOOLEAN /\ now \in Times /\ (c.unavailable => u)
  BY Zenon, CredentialFields, NowTimes DEF Errs
<1> HIDE DEF keep, e, u
<1>3. /\ d \in Credentials /\ d.models = c.models /\ d.quota = c.quota /\ d.retry = c.retry
      /\ d.unavailable = u
  BY Zenon, <1>2 DEF Credentials, Errs
<1> HIDE DEF d
<1> QED
  BY Zenon, <1>1, <1>2, <1>3, TameSteps

\* A credential parsed from its file takes over what is still in force.
LEMMA IncomingType ==
    ASSUME Clock, NEW c \in Credentials
    PROVE  Incoming(c) \in Credentials /\ Tame(c, Incoming(c))
<1> DEFINE keep == c.unavailable /\ (c.retry > now \/ QuotaActive(c.quota) \/ c.err = "unauthorized")
           q == IF QuotaActive(c.quota) THEN c.quota ELSE NoQuota
           r == IF keep THEN c.retry ELSE 0
           e == IF keep THEN c.err ELSE None
           t == IF keep THEN c.updated ELSE 0
           d == [c EXCEPT !.quota = q, !.unavailable = keep, !.retry = r, !.err = e, !.updated = t]
<1>1. Incoming(c) = d
  BY Zenon DEF Incoming
<1>2. keep \in BOOLEAN /\ q \in Quotas /\ r \in Times /\ e \in Errs /\ t \in Times
  BY Zenon, CredentialFields, QuotaFields, TimesClosed DEF Errs
<1> HIDE DEF keep, q, r, e, t
<1>3. d \in Credentials /\ d.models = c.models
  BY Zenon, <1>2 DEF Credentials, Errs
<1> HIDE DEF d
<1> QED
  BY Zenon, <1>1, <1>3, TameSteps

\* Without cooldowns a credential that is stored has none.
LEMMA KeptType ==
    ASSUME Clock, NEW c \in Credentials
    PROVE  Kept(c) \in Credentials /\ Tame(c, Kept(c))
BY Zenon, ClearCooldownType, TameSteps DEF Kept

-----------------------------------------------------------------------------
(* The records of the store. *)

Records == [model : Models \cup {None}, retry : Times, indep : Times, quota : Quotas,
            err : Errs, updated : Times]

\* What is saved of a credential.
LEMMA RecordsType ==
    ASSUME NEW c \in Credentials, NEW on
    PROVE  cooldownStateRecordsForAuth(c, on) \subseteq Records
<1>1. ASSUME NEW m \in Known(c) PROVE ModelRecord(m, c.models[m]) \in Records
  <2>1. m \in Models /\ c.models[m] \in States
    BY Zenon, CredentialFields
  <2>2. /\ c.models[m].retry \in Times /\ c.models[m].indep \in Times
        /\ c.models[m].err \in Errs /\ c.models[m].quota \in Quotas /\ c.models[m].updated \in Times
    BY Zenon, <2>1, StateFields
  <2> QED
    BY <2>1, <2>2 DEF ModelRecord, Records
<1>2. AuthRecord(c) \in Records
  <2>1. /\ c.retry \in Times /\ c.err \in Errs /\ c.quota \in Quotas /\ c.updated \in Times
        /\ 0 \in Times
    BY Zenon, CredentialFields, TimesClosed
  <2> QED
    BY <2>1 DEF AuthRecord, Records
<1> QED
  BY Zenon, <1>1, <1>2 DEF cooldownStateRecordsForAuth

\* The fields of a record.
LEMMA RecordFields ==
    \A r \in Records : /\ r.model \in Models \cup {None} /\ r.retry \in Times /\ r.indep \in Times
                       /\ r.quota \in Quotas /\ r.err \in Errs /\ r.updated \in Times
                       /\ RestoredQuota(r) \in Quotas
<1> TAKE r \in Records
<1>1. /\ r.model \in Models \cup {None} /\ r.retry \in Times /\ r.indep \in Times
      /\ r.quota \in Quotas /\ r.err \in Errs /\ r.updated \in Times
  BY DEF Records
<1>2. [r.quota EXCEPT !.recover = r.retry] \in Quotas
  BY Zenon, <1>1 DEF Quotas
<1> QED
  BY Zenon, <1>1, <1>2 DEF RestoredQuota

\* Two states of a model are merged.
LEMMA MergeModelType ==
    ASSUME NEW a \in States, NEW b \in States
    PROVE  mergeModelState(a, b) \in States
<1> DEFINE newer == b.updated > a.updated
           first == IF newer THEN b ELSE a
           other == IF newer THEN a ELSE b
           unavailable == a.unavailable \/ b.unavailable
           exceeded == a.quota.exceeded \/ b.quota.exceeded
           reason == IF first.quota.reason # "" THEN first.quota.reason ELSE other.quota.reason
           recover == Latest({a.quota.recover, b.quota.recover})
           level == Latest({a.quota.level, b.quota.level})
           status == IF unavailable \/ exceeded THEN "error" ELSE first.status
           retry == Latest({a.retry, b.retry})
           indep == Latest({a.indep, b.indep})
           err == IF first.err # None THEN first.err ELSE other.err
           updated == Latest({a.updated, b.updated})
           quota == [exceeded |-> exceeded, reason |-> reason, recover |-> recover, level |-> level]
<1>1. first \in States /\ other \in States
  BY Zenon
<1>2. a.quota \in Quotas /\ b.quota \in Quotas /\ first.quota \in Quotas /\ other.quota \in Quotas
  BY Zenon, <1>1, StateFields
<1>3. /\ recover \in Times /\ retry \in Times /\ indep \in Times /\ updated \in Times
      /\ level \in Levels
  BY Zenon, <1>2, StateFields, QuotaFields, TimesClosed, LevelsClosed
<1>4. exceeded \in BOOLEAN /\ unavailable \in BOOLEAN /\ reason \in Reasons
  BY Zenon, <1>2, QuotaFields
<1>5. status \in {"active", "error"} /\ err \in Errs
  BY Zenon, <1>1, StateFields
<1>6. mergeModelState(a, b) = [status |-> status, unavailable |-> unavailable, retry |-> retry,
                               indep |-> indep, err |-> err, quota |-> quota, updated |-> updated]
  BY Zenon DEF mergeModelState
<1> HIDE DEF newer, first, other, unavailable, exceeded, reason, recover, level, status, retry,
             indep, err, updated
<1>7. quota \in Quotas
  BY Zenon, <1>3, <1>4, QuotaFields
<1> HIDE DEF quota
<1> QED
  <2>1. [status |-> status, unavailable |-> unavailable, retry |-> retry, indep |-> indep,
         err |-> err, quota |-> quota, updated |-> updated] \in States
    BY <1>3, <1>4, <1>5, <1>7 DEF States, Errs
  <2> QED
    BY Zenon, <1>6, <2>1

\* A saved record is merged into the state of its model.
LEMMA RestoredStateType ==
    ASSUME NEW s \in States, NEW r \in Records
    PROVE  RestoredState(s, r) \in States
<1> DEFINE t == [status |-> "error", unavailable |-> TRUE, retry |-> r.retry, indep |-> r.indep,
                 err |-> r.err, quota |-> RestoredQuota(r), updated |-> r.updated]
<1>1. t \in States
  BY RecordFields DEF States, Errs
<1>2. RestoredState(s, r) = mergeModelState(s, t)
  BY Zenon DEF RestoredState
<1> HIDE DEF t
<1> QED
  BY Zenon, <1>1, <1>2, MergeModelType

\* The saved records are restored.
LEMMA RestoreType ==
    ASSUME NEW c \in Credentials, NEW records, records \subseteq Records, NEW on
    PROVE  RestoreCooldownStates(c, records, on) \in Credentials
<1> DEFINE live == IF on THEN {r \in records : r.retry > now} ELSE {}
           Of(m) == {r \in live : r.model = m}
           ms == [m \in Models |-> IF Of(m) = {} THEN c.models[m]
                                   ELSE RestoredState(StateOf(c, m), CHOOSE r \in Of(m) : TRUE)]
           d == [c EXCEPT !.models = ms]
           e == IF \E m \in Models : Of(m) # {} THEN updateAggregatedAvailability(d) ELSE d
           own == CHOOSE r \in Of(None) : TRUE
           f == [e EXCEPT !.unavailable = TRUE, !.retry = own.retry, !.err = own.err,
                          !.quota = RestoredQuota(own), !.updated = own.updated]
<1>1. \A m : Of(m) \subseteq Records
  BY Zenon
<1>2. \A m : Of(m) # {} => (CHOOSE r \in Of(m) : TRUE) \in Records
  BY Zenon, <1>1
<1>3. RestoreCooldownStates(c, records, on) = IF Of(None) = {} THEN e ELSE f
  BY Zenon DEF RestoreCooldownStates
<1> HIDE DEF Of
<1>4. ASSUME NEW m \in Models PROVE ms[m] \in States \cup {None}
  <2>1. StateOf(c, m) \in States /\ c.models[m] \in States \cup {None}
    BY Zenon, CredentialFields
  <2> QED
    BY Zenon, <1>2, <2>1, RestoredStateType
<1>5. ms \in [Models -> States \cup {None}]
  BY Zenon, <1>4
<1>6. d \in Credentials
  <2> HIDE DEF ms
  <2> QED
    BY <1>5 DEF Credentials
<1> HIDE DEF d
<1>7. e \in Credentials
  BY Zenon, <1>6, AggregateType
<1> HIDE DEF e
<1>8. CASE Of(None) = {}
  BY Zenon, <1>3, <1>7, <1>8
<1>9. CASE Of(None) # {}
  <2>1. own \in Records
    BY Zenon, <1>2, <1>9
  <2> HIDE DEF own
  <2>2. /\ own.retry \in Times /\ own.err \in Errs /\ RestoredQuota(own) \in Quotas
        /\ own.updated \in Times
    BY Zenon, <2>1, RecordFields
  <2>3. f \in Credentials
    BY Zenon, <1>7, <2>2 DEF Credentials, Errs
  <2> QED
    BY Zenon, <1>3, <1>9, <2>3
<1> QED
  BY Zenon, <1>8, <1>9

-----------------------------------------------------------------------------
(* Failures. *)

\* The window of a 429, and the rung of the ladder it leaves the model on: a window that
\* is open is neither extended by the ladder nor does it climb.
LEMMA QuotaWindowType ==
    ASSUME Clock, NEW q \in Quotas, NEW hint \in Hints \cup {None}, NEW on \in BOOLEAN
    PROVE  /\ QuotaWindow(q, hint, on).next \in Times
           /\ QuotaWindow(q, hint, on).level \in Levels
           /\ q.recover > now => QuotaWindow(q, hint, on).level = q.level
<1>1. q.level \in Levels /\ q.recover \in Times /\ 0 \in Times
  BY Zenon, QuotaFields, TimesClosed
<1>2. CASE ~on
  <2>1. QuotaWindow(q, hint, on) = [next |-> 0, level |-> q.level]
    BY Zenon, <1>2 DEF QuotaWindow
  <2> QED
    BY <1>1, <2>1
<1>3. CASE on /\ hint # None
  <2> DEFINE d == now + Latest({hint, Floor})
  <2>1. QuotaWindow(q, hint, on) = [next |-> d, level |-> q.level]
    BY Zenon, <1>3 DEF QuotaWindow
  <2>2. d \in Times
    <3>1. hint \in Hints
      BY Zenon, <1>3
    <3>2. Latest({hint, Floor}) \in {hint, Floor} \cup {0}
      BY Zenon, ChosenOf
    <3>3. now + 0 = now /\ now \in Times
      <4>1. now \in Times /\ Horizon \in Nat
        BY NowTimes, ForeverIsFar
      <4>2. now \in Int
        BY <4>1 DEF Clock
      <4> QED
        BY <4>1, <4>2
    <3> QED
      BY Zenon, <3>1, <3>2, <3>3, NowTimes
  <2> HIDE DEF d
  <2> QED
    BY <1>1, <2>1, <2>2
<1>4. CASE on /\ hint = None
  <2>1. QuotaWindow(q, hint, on) = quotaCooldownAfterFailure(q)
    BY Zenon, <1>4 DEF QuotaWindow
  <2>2. CASE q.recover > now
    <3>1. quotaCooldownAfterFailure(q) = [next |-> q.recover, level |-> q.level]
      BY Zenon, <2>2 DEF quotaCooldownAfterFailure
    <3> QED
      BY <1>1, <2>1, <3>1
  <2>3. CASE ~ (q.recover > now)
    <3> DEFINE n == nextQuotaCooldown(q.level)
    <3>1. quotaCooldownAfterFailure(q) = [next |-> now + n.wait, level |-> n.level]
      BY Zenon, <2>3 DEF quotaCooldownAfterFailure
    <3>2. n.wait \in 0..Ceiling /\ n.level \in Levels
      BY Zenon, <1>1, NextOnLadder
    <3> HIDE DEF n
    <3>3. now + n.wait \in Times
      BY Zenon, <3>2, NowTimes
    <3> QED
      BY <2>1, <2>3, <3>1, <3>2, <3>3
  <2> QED
    BY Zenon, <2>2, <2>3
<1> QED
  BY Zenon, <1>2, <1>3, <1>4

\* The window of a challenge.
LEMMA CloudflareType ==
    ASSUME Clock, NEW level \in Levels, NEW on \in BOOLEAN
    PROVE  /\ nextCloudflareCooldown(level, on).next \in Times
           /\ nextCloudflareCooldown(level, on).level \in Levels
<1> DEFINE n == nextQuotaCooldown(level)
           d == now + Latest({n.wait, Floor})
<1>1. nextCloudflareCooldown(level, on) = IF on THEN [next |-> d, level |-> n.level]
                                          ELSE [next |-> 0, level |-> level]
  BY Zenon DEF nextCloudflareCooldown
<1>2. n.wait \in 0..Ceiling /\ n.level \in Levels
  BY Zenon, NextOnLadder
<1> HIDE DEF n
<1>3. Latest({n.wait, Floor}) \in {n.wait, Floor} \cup {0}
  BY Zenon, ChosenOf
<1>4. 0 \in 0..Ceiling /\ 0 \in Times
  BY ConstantsOK, TimesClosed
<1>5. d \in Times
  BY Zenon, <1>2, <1>3, <1>4, NowTimes
<1> HIDE DEF d
<1> QED
  BY <1>1, <1>2, <1>4, <1>5

\* The deadline of a transient failure.
LEMMA RecoverableType ==
    ASSUME Clock, NEW hint \in Hints \cup {None}, NEW on \in BOOLEAN
    PROVE  recoverableFailureRetryAfter(hint, on) \in Times
<1>1. Transient \in Int
  BY Zenon, ConstantsOK
<1>2. ~ (Transient < 0) => Transient >= 0
  BY <1>1
<1> QED
  BY Zenon, <1>2, NowTimes, TimesClosed DEF recoverableFailureRetryAfter

\* The quota a failure starts from.
LEMMA QuotaForFailureType ==
    ASSUME NEW c \in Credentials, NEW m \in Models, NEW kind
    PROVE  /\ QuotaForFailure(c, m, kind) \in Quotas
           /\ kind # "credential" => QuotaForFailure(c, m, kind) = StateOf(c, m).quota
BY Zenon, CredentialFields, StateFields, QuotaFields DEF QuotaForFailure

\* A deadline is extended to the one of the quota.
LEMMA ExtendedType ==
    ASSUME NEW s \in States, NEW d \in Times
    PROVE  Extended(s, d) \in Times
BY Zenon, StateFields, QuotaFields, TimesClosed DEF Extended

\* What MarkResult decides about the model that failed.
LEMMA VerdictType ==
    ASSUME Clock, NEW c \in Credentials, NEW m \in Models, NEW kind \in Kinds,
           NEW hint \in Hints \cup {None}, NEW on \in BOOLEAN
    PROVE  LET v == Verdict(c, m, kind, hint, on)
               p == StateOf(c, m).quota
           IN  /\ v.retry \in Times /\ v.quota \in Quotas
               /\ kind # "credential" /\ p.recover > now /\ v.quota.reason = "quota"
                    => v.quota.level = p.level
<1> DEFINE v == Verdict(c, m, kind, hint, on)
           s == StateOf(c, m)
           w == QuotaWindow(QuotaForFailure(c, m, kind), hint, on)
           f == nextCloudflareCooldown(s.quota.level, on)
           a == IF on THEN now + Unauthorized ELSE 0
           b == IF on THEN now + Long ELSE 0
           x == IF on THEN Extended(s, w.next) ELSE 0
           o == IF on /\ hint # None THEN now + hint ELSE recoverableFailureRetryAfter(None, on)
           t == recoverableFailureRetryAfter(hint, on)
           y == recoverableFailureRetryAfter(None, on)
           l == now + Long
           Keep(d) == [retry |-> d, quota |-> s.quota]
           Over(next, why, level) ==
            [retry |-> next,
             quota |-> [exceeded |-> TRUE, reason |-> why, recover |-> next, level |-> level]]
<1>1. s \in States /\ s.quota \in Quotas /\ s.quota.level \in Levels
  BY Zenon, CredentialFields, StateFields, QuotaFields
<1>2. w.next \in Times /\ w.level \in Levels
  BY Zenon, QuotaForFailureType, QuotaWindowType
<1>3. kind # "credential" /\ s.quota.recover > now => w.level = s.quota.level
  <2>1. QuotaForFailure(c, m, kind) \in Quotas
    BY Zenon, QuotaForFailureType
  <2>2. QuotaForFailure(c, m, kind).recover > now => w.level = QuotaForFailure(c, m, kind).level
    BY Zenon, <2>1, QuotaWindowType
  <2>3. kind # "credential" => QuotaForFailure(c, m, kind) = s.quota
    BY Zenon, QuotaForFailureType
  <2> QED
    BY Zenon, <2>2, <2>3
<1>4. f.next \in Times /\ f.level \in Levels
  BY Zenon, <1>1, CloudflareType
<1>5. a \in Times /\ b \in Times /\ l \in Times
  BY Zenon, NowTimes, TimesClosed
<1>6. x \in Times
  BY Zenon, <1>1, <1>2, ExtendedType, TimesClosed
<1>7. o \in Times /\ t \in Times /\ y \in Times
  BY Zenon, RecoverableType, NowTimes
<1>8. \/ v \in {Keep(d) : d \in {l, a, b, o, t, y}}
      \/ v = Over(f.next, "cloudflare challenge", f.level)
      \/ v = Over(x, "quota", w.level)
  <2>1. v = CASE kind = "support" -> Keep(l)
              [] kind = "cloudflare" -> Over(f.next, "cloudflare challenge", f.level)
              [] kind \in {"grant", "unauthorized", "payment"} -> Keep(a)
              [] kind = "missing" -> Keep(b)
              [] kind \in {"quota", "credential"} -> Over(x, "quota", w.level)
              [] kind = "overloaded" -> Keep(o)
              [] kind = "transient" -> Keep(t)
              [] OTHER -> Keep(y)
    BY Zenon DEF Verdict
  <2> HIDE DEF v, w, f, a, b, x, o, t, y, l, Keep, Over
  <2> QED
    BY Zenon, <2>1
<1> HIDE DEF v, s, w, f, a, b, x, o, t, y, l
<1>9. CASE v \in {Keep(d) : d \in {l, a, b, o, t, y}}
  <2>1. PICK d \in Times : v = Keep(d)
    BY Zenon, <1>5, <1>7, <1>9
  <2>2. v.retry = d /\ v.quota = s.quota
    BY <2>1
  <2> QED
    BY Zenon, <1>1, <2>2 DEF v, s
<1>10. CASE v = Over(f.next, "cloudflare challenge", f.level)
  <2> DEFINE q == [exceeded |-> TRUE, reason |-> "cloudflare challenge", recover |-> f.next,
                   level |-> f.level]
  <2>1. q \in Quotas /\ q.reason = "cloudflare challenge"
    BY <1>4 DEF Quotas
  <2>2. v.retry = f.next /\ v.quota = q
    BY Zenon, <1>10
  <2> HIDE DEF q
  <2> QED
    BY Zenon, <1>4, <2>1, <2>2 DEF v, s
<1>11. CASE v = Over(x, "quota", w.level)
  <2> DEFINE q == [exceeded |-> TRUE, reason |-> "quota", recover |-> x, level |-> w.level]
  <2>1. q \in Quotas /\ q.level = w.level
    BY <1>2, <1>6 DEF Quotas
  <2>2. v.retry = x /\ v.quota = q
    BY <1>11
  <2> HIDE DEF q
  <2> QED
    BY Zenon, <1>3, <1>6, <2>1, <2>2 DEF v, s
<1> QED
  BY Zenon, <1>8, <1>9, <1>10, <1>11

\* The state of the model that failed.
LEMMA FailedStateType ==
    ASSUME Clock, NEW s \in States, NEW v, v.retry \in Times, v.quota \in Quotas,
           NEW kind \in Kinds, NEW on \in BOOLEAN
    PROVE  /\ FailedState(s, v, kind, on) \in States
           /\ FailedState(s, v, kind, on).err = kind
           /\ FailedState(s, v, kind, on).quota.reason = v.quota.reason
           /\ FailedState(s, v, kind, on).quota.level = v.quota.level
<1> DEFINE retry == IF kind = "forced" /\ v.retry = 0 THEN now + Minute ELSE v.retry
           open == ~on /\ v.retry = 0 /\ v.quota.recover = 0
           u == \/ kind = "forced"
                \/ /\ ~open
                   /\ kind \in {"overloaded", "transient", "other"} => v.retry # 0
           r == IF retry # 0 /\ s.retry > now THEN Latest({retry, s.retry}) ELSE retry
           i == rememberIndependentCooldown(s.indep, retry, kind)
           x == v.quota.exceeded /\ ~open
           q == [v.quota EXCEPT !.exceeded = x]
           f == [status |-> "error", unavailable |-> u, retry |-> r, indep |-> i, err |-> kind,
                 quota |-> q, updated |-> now]
<1>1. retry \in Times
  BY Zenon, NowTimes
<1>2. s.retry \in Times /\ s.indep \in Times /\ 0 \in Times /\ now \in Times
  BY Zenon, StateFields, TimesClosed, NowTimes
<1>3. FailedState(s, v, kind, on) = f
  BY Zenon DEF FailedState
<1>4. x \in BOOLEAN /\ u \in BOOLEAN
  BY Zenon, QuotaFields
<1> HIDE DEF retry, x, u
<1>5. r \in Times /\ i \in Times
  BY Zenon, <1>1, <1>2, TimesClosed DEF rememberIndependentCooldown
<1> HIDE DEF r, i
<1>6. q \in Quotas /\ q.reason = v.quota.reason /\ q.level = v.quota.level
  BY Zenon, <1>4 DEF Quotas
<1> HIDE DEF q
<1>7. f \in States /\ f.err = kind /\ f.quota = q
  BY <1>2, <1>4, <1>5, <1>6 DEF States
<1> HIDE DEF f
<1> QED
  BY Zenon, <1>3, <1>6, <1>7

\* A sibling of a model that met a credential wide quota.
LEMMA PropagatedType ==
    ASSUME NEW s \in States, NEW d \in Times, NEW l \in Levels
    PROVE  /\ Propagated(s, d, l) \in States
           /\ Propagated(s, d, l).quota.reason # "quota"
<1> DEFINE x == Extended(s, d)
           r == Latest({s.retry, x})
           q == [exceeded |-> TRUE, reason |-> "credential_quota", recover |-> x, level |-> l]
           t == [s EXCEPT !.unavailable = TRUE, !.status = "error", !.retry = r, !.quota = q]
<1>1. x \in Times
  BY Zenon, ExtendedType
<1>2. r \in Times
  BY Zenon, <1>1, StateFields, TimesClosed
<1>3. Propagated(s, d, l) = t
  BY Zenon DEF Propagated
<1> HIDE DEF x, r
<1>4. q \in Quotas /\ q.reason = "credential_quota"
  BY <1>1 DEF Quotas
<1> HIDE DEF q
<1>5. t \in States /\ t.quota = q
  BY Zenon, <1>2, <1>4 DEF States
<1> HIDE DEF t
<1> QED
  BY Zenon, <1>3, <1>4, <1>5

\* A model whose quota window is open in c stays on its rung of the ladder in f.
SameRungs(c, f) ==
    \A x \in Models :
        \/ f.models[x] = None \/ c.models[x] = None
        \/ f.models[x].quota.reason # "quota"
        \/ ~ (c.models[x].quota.recover > now)
        \/ f.models[x].err = "credential"
        \/ f.models[x].quota.level = c.models[x].quota.level

\* A failure keeps the types.  The quota of a model whose window is open changes its
\* level only by the credential wide failure.
LEMMA FailedType ==
    ASSUME Clock, NEW c \in Credentials, NEW m \in Models, NEW kind \in Kinds,
           NEW hint \in Hints \cup {None}, NEW on \in BOOLEAN
    PROVE  /\ Failed(c, m, kind, hint, on) \in Credentials
           /\ SameRungs(c, Failed(c, m, kind, hint, on))
<1> DEFINE p == QuotaForFailure(c, m, kind)
           v == Verdict(c, m, kind, hint, on)
           w == QuotaWindow(p, hint, on)
           wide == kind = "credential" /\ on
           own == FailedState(StateOf(c, m), v, kind, on)
           ms == [x \in Models |->
                    IF x = m THEN own
                    ELSE IF wide /\ x \in Known(c) THEN Propagated(c.models[x], w.next, w.level)
                    ELSE c.models[x]]
           u == c.unavailable \/ wide
           r == IF wide THEN Latest({w.next, p.recover}) ELSE c.retry
           q == IF wide THEN [exceeded |-> TRUE, reason |-> "credential_quota",
                              recover |-> Latest({w.next, p.recover}), level |-> w.level]
                ELSE c.quota
           d == [c EXCEPT !.models = ms, !.err = kind, !.unavailable = u, !.retry = r, !.quota = q]
           f == updateAggregatedAvailability(d)
<1>1. StateOf(c, m) \in States /\ c.quota \in Quotas /\ c.retry \in Times /\ p \in Quotas
  BY Zenon, CredentialFields, QuotaForFailureType
<1>2. w.next \in Times /\ w.level \in Levels /\ p.recover \in Times
  BY Zenon, <1>1, QuotaWindowType, QuotaFields
<1>3. /\ v.retry \in Times /\ v.quota \in Quotas
      /\ kind # "credential" /\ StateOf(c, m).quota.recover > now /\ v.quota.reason = "quota"
            => v.quota.level = StateOf(c, m).quota.level
  BY Zenon, VerdictType
<1>4. Failed(c, m, kind, hint, on) = f
  BY Zenon DEF Failed
<1> HIDE DEF v, w, p
<1>5. /\ own \in States /\ own.err = kind
      /\ own.quota.reason = v.quota.reason /\ own.quota.level = v.quota.level
  <2> DEFINE t == StateOf(c, m)
  <2> HIDE DEF t
  <2>1. t \in States
    BY Zenon, <1>1 DEF t
  <2>2. /\ FailedState(t, v, kind, on) \in States
        /\ FailedState(t, v, kind, on).err = kind
        /\ FailedState(t, v, kind, on).quota.reason = v.quota.reason
        /\ FailedState(t, v, kind, on).quota.level = v.quota.level
    <3>1. v.retry \in Times /\ v.quota \in Quotas
      BY Zenon, <1>3
    <3> QED
      BY <2>1, <3>1, FailedStateType
  <2> QED
    BY Zenon, <2>2 DEF t
<1> HIDE DEF own
<1>6. \A x \in Models : ms[x] \in States \cup {None}
  BY Zenon, <1>2, <1>5, CredentialFields, PropagatedType
<1>7. ms \in [Models -> States \cup {None}]
  BY Zenon, <1>6
<1>8. u \in BOOLEAN /\ r \in Times /\ q \in Quotas
  <2>1. Latest({w.next, p.recover}) \in Times
    BY Zenon, <1>2, TimesClosed
  <2>2. [exceeded |-> TRUE, reason |-> "credential_quota",
         recover |-> Latest({w.next, p.recover}), level |-> w.level] \in Quotas
    <3> DEFINE l == Latest({w.next, p.recover})
    <3> HIDE DEF l
    <3> QED
      BY <1>2, <2>1 DEF Quotas, l
  <2> QED
    BY Zenon, <1>1, <2>1, <2>2, CredentialFields
<1>9. ASSUME NEW x \in Models
      PROVE  \/ ms[x] = None \/ c.models[x] = None
             \/ ms[x].quota.reason # "quota"
             \/ ~ (c.models[x].quota.recover > now)
             \/ ms[x].err = "credential"
             \/ ms[x].quota.level = c.models[x].quota.level
  <2>1. CASE x = m
    <3>1. ms[x] = own
      BY Zenon, <2>1
    <3>2. c.models[x] # None => StateOf(c, m) = c.models[x]
      BY Zenon, <2>1 DEF StateOf
    <3> QED
      BY Zenon, <1>3, <1>5, <3>1, <3>2
  <2>2. CASE x # m /\ wide /\ x \in Known(c)
    <3>1. ms[x] = Propagated(c.models[x], w.next, w.level)
      BY Zenon, <2>2
    <3> QED
      BY Zenon, <1>2, <2>2, <3>1, CredentialFields, PropagatedType
  <2>3. CASE x # m /\ ~ (wide /\ x \in Known(c))
    <3>1. ms[x] = c.models[x]
      BY Zenon, <2>3
    <3> QED
      BY Zenon, <3>1
  <2> QED
    BY Zenon, <2>1, <2>2, <2>3
<1> HIDE DEF ms, u, r, q, wide
<1>10. d \in Credentials /\ d.models = ms
  BY Zenon, <1>7, <1>8 DEF Credentials
<1> HIDE DEF d
<1>11. f \in Credentials /\ SameFailures(d, f)
  BY Zenon, <1>10, AggregateType
<1> HIDE DEF f
<1>12. SameRungs(c, f)
  BY Zenon, <1>9, <1>10, <1>11 DEF SameFailures, SameRungs
<1> QED
  BY Zenon, <1>4, <1>11, <1>12

-----------------------------------------------------------------------------
(* Types of the state. *)

Attempts == [model : Models, started : Times, epoch : Nat, version : Nat]
Ledgers == [owed : [Models -> Debts], all : Times]

\* The history of deadlines.
LEMMA DebtsType ==
    /\ NothingOwed \in Debts /\ NothingSaved \in Ledgers
    /\ \A o \in Debts : o.any \in Times /\ o.token \in Times /\ o.may \in Times /\ o.at \in Times
    /\ \A o \in Debts, d \in Times : [o EXCEPT !.may = d] \in Debts
    /\ \A o \in Debts : [o EXCEPT !.token = 0] \in Debts
    /\ \A a, b, c, t \in Times : [any |-> a, token |-> b, may |-> c, at |-> t] \in Debts
<1>1. 0 \in Times
  BY Zenon, TimesClosed
<1> QED
  BY <1>1 DEF NothingOwed, NothingSaved, Debts, Ledgers

\* What a failure adds to it.
LEMMA OwingType ==
    ASSUME Clock, NEW o \in Debts, NEW kind, NEW d \in Times
    PROVE  /\ Owing(o, kind, d) \in Debts /\ Reached(o, d) \in Debts
           /\ Reached(o, d).any = o.any /\ Reached(o, d).token = o.token /\ Reached(o, d).at = o.at
<1>1. o.any \in Times /\ o.token \in Times /\ o.may \in Times /\ now \in Times /\ 0 \in Times
  BY Zenon, DebtsType, NowTimes, TimesClosed
<1> DEFINE a == Latest({o.token, d})
           b == Latest({o.any, d})
           c == Latest({o.may, o.any})
           e == Latest({o.may, d})
<1>2. a \in Times /\ b \in Times /\ c \in Times /\ e \in Times
  BY Zenon, <1>1, TimesClosed
<1>3. /\ Reached(o, d) = [o EXCEPT !.may = e]
      /\ d = 0 => Owing(o, kind, d) = [NothingOwed EXCEPT !.may = c, !.at = now]
      /\ d # 0 /\ kind = "unauthorized" => Owing(o, kind, d) = [o EXCEPT !.token = a, !.at = now]
      /\ d # 0 /\ kind # "unauthorized" => Owing(o, kind, d) = [o EXCEPT !.any = b, !.at = now]
  BY Zenon DEF Owing, Reached
<1> HIDE DEF a, b, c, e
<1>4. /\ [o EXCEPT !.may = e] \in Debts
      /\ [o EXCEPT !.may = e].any = o.any /\ [o EXCEPT !.may = e].token = o.token
      /\ [o EXCEPT !.may = e].at = o.at
  BY <1>2 DEF Debts
<1>5. [NothingOwed EXCEPT !.may = c, !.at = now] \in Debts
  BY Zenon, <1>1, <1>2 DEF Debts, NothingOwed
<1>6. [o EXCEPT !.token = a, !.at = now] \in Debts /\ [o EXCEPT !.any = b, !.at = now] \in Debts
  BY Zenon, <1>1, <1>2 DEF Debts
<1> QED
  BY Zenon, <1>3, <1>4, <1>5, <1>6

\* What a success leaves of it.
LEMMA LiftedType == ASSUME NEW o \in Debts, NEW s, NEW t
                    PROVE  /\ Lifted(o, s, t) \in Debts
                           /\ Lifted(o, s, t).any = 0 /\ Lifted(o, s, t).token = 0
                           /\ Lifted(o, s, t).at = 0
<1> DEFINE a == IF s.updated > t THEN Latest({o.any, o.token, o.may}) ELSE 0
<1>1. 0 \in Times /\ a \in Times
  BY Zenon, DebtsType, TimesClosed
<1>2. Lifted(o, s, t) = [NothingOwed EXCEPT !.may = a]
  BY Zenon DEF Lifted
<1> HIDE DEF a
<1>3. /\ [NothingOwed EXCEPT !.may = a] \in Debts /\ [NothingOwed EXCEPT !.may = a].any = 0
      /\ [NothingOwed EXCEPT !.may = a].token = 0 /\ [NothingOwed EXCEPT !.may = a].at = 0
  BY <1>1 DEF Debts, NothingOwed
<1> QED
  BY Zenon, <1>2, <1>3

\* Two debts together.
LEMMA TogetherType == ASSUME NEW o \in Debts, NEW p \in Debts
                      PROVE  /\ Together(o, p) \in Debts
                             /\ Together(o, p).any = Latest({o.any, p.any})
                             /\ Together(o, p).token = Latest({o.token, p.token})
                             /\ Together(o, p).at = Latest({o.at, p.at})
<1>1. /\ Latest({o.any, p.any}) \in Times /\ Latest({o.token, p.token}) \in Times
      /\ Latest({o.may, p.may}) \in Times /\ Latest({o.at, p.at}) \in Times
  BY Zenon, DebtsType, TimesClosed
<1>2. Together(o, p) \in Debts
  BY Zenon, <1>1, DebtsType DEF Together
<1> QED
  BY <1>2 DEF Together

\* The deadline a failure asks for.
LEMMA AskedType ==
    ASSUME Clock, cred \in Credentials, NEW m \in Models, NEW kind \in Kinds,
           NEW hint \in Hints \cup {None}, NEW on \in BOOLEAN
    PROVE  Asked(m, kind, hint, on) \in Times
<1>1. QuotaWindow(QuotaForFailure(cred, m, kind), hint, on).next \in Times
  BY Zenon, QuotaForFailureType, QuotaWindowType
<1>2. Verdict(cred, m, kind, hint, on).retry \in Times
  BY Zenon, VerdictType
<1>3. now + Minute \in Times
  BY Zenon, NowTimes
<1> QED
  BY Zenon, <1>1, <1>2, <1>3 DEF Asked

\* TypeOK with the sets of this module.
Typed ==
    /\ Clock
    /\ cred \in Credentials
    /\ refresh \in Credentials \cup {None}
    /\ cooling \in BOOLEAN /\ dirty \in BOOLEAN /\ durable \in BOOLEAN
    /\ attempts \in [Requests -> Attempts \cup {None}]
    /\ disk \subseteq Records
    /\ owed \in [Models -> Debts]
    /\ owedAll \in Times
    /\ saved \in Ledgers
    /\ events \in 0..MaxEvents

\* They are the same.
LEMMA TypeParts == TypeOK <=> Typed
<1>1. {cooling, dirty, durable} \subseteq BOOLEAN
        <=> cooling \in BOOLEAN /\ dirty \in BOOLEAN /\ durable \in BOOLEAN
  BY Zenon
<1> QED
  BY Zenon, <1>1 DEF TypeOK, Typed, Clock, Attempts, Records, Ledgers, Errs

\* The first state.
LEMMA InitType == Init => Typed
<1> SUFFICES ASSUME Init PROVE Typed
  BY Zenon
<1>1. Clean \in Credentials
  <2>1. 0 \in Times /\ NoQuota \in Quotas /\ None \in Errs
    BY Zenon, TimesClosed, QuotaFields DEF Errs
  <2> QED
    BY <2>1 DEF Clean, Credentials, Errs
<1>2. Clock /\ events \in 0..MaxEvents
  BY ConstantsOK DEF Init, Clock
<1>3. {} \subseteq Records /\ 0 \in Times /\ NothingOwed \in Debts
  BY Zenon, TimesClosed, DebtsType
<1>4. owed \in [Models -> Debts]
  BY Zenon, <1>3 DEF Init
<1> QED
  BY Zenon, <1>1, <1>2, <1>3, <1>4, DebtsType DEF Init, Typed

-----------------------------------------------------------------------------
(* Steps. *)

\* A step is counted.
LEMMA StepType == ASSUME Typed, Step
                  PROVE  events' \in 0..MaxEvents
<1>1. events \in 0..MaxEvents /\ MaxEvents \in Nat
  BY Zenon, ConstantsOK DEF Typed
<1> QED
  BY <1>1 DEF Step

\* Every change of the credential ends in Store.
LEMMA StoreType == ASSUME Typed, NEW c \in Credentials, Store(c)
                   PROVE  /\ cred' = c /\ cred' \in Credentials
                          /\ dirty' \in BOOLEAN /\ durable' \in BOOLEAN
BY Zenon DEF Store, Typed

\* The steps that leave the credential alone.
LEMMA QuietTypes ==
    ASSUME Typed
    PROVE  /\ Tick => Typed' /\ cred' = cred
           /\ \A r \in Requests, m \in Models : Send(r, m) => Typed' /\ cred' = cred
           /\ RefreshBegin => Typed' /\ cred' = cred
           /\ Save => Typed' /\ cred' = cred
<1>1. ASSUME Tick PROVE Typed' /\ cred' = cred
  <2>1. now' \in 1..Horizon
    <3>1. now \in 1..Horizon /\ Horizon \in Nat
      BY ForeverIsFar DEF Typed, Clock
    <3> QED
      BY <1>1, <3>1 DEF Tick
  <2> QED
    BY Zenon, <1>1, <2>1 DEF Tick, Typed, Clock
<1>2. ASSUME NEW r \in Requests, NEW m \in Models, Send(r, m) PROVE Typed' /\ cred' = cred
  <2> DEFINE a == [model |-> m, started |-> now, epoch |-> cred.epoch, version |-> cred.version]
  <2>1. now \in Times /\ cred.epoch \in Nat /\ cred.version \in Nat
    BY Zenon, NowTimes, CredentialFields DEF Typed
  <2>2. a \in Attempts
    BY <2>1 DEF Attempts
  <2>3. attempts' = [attempts EXCEPT ![r] = a]
    BY Zenon, <1>2 DEF Send
  <2> HIDE DEF a
  <2>4. attempts \in [Requests -> Attempts \cup {None}]
    BY Zenon DEF Typed
  <2>5. attempts' \in [Requests -> Attempts \cup {None}]
    BY <2>2, <2>3, <2>4
  <2> QED
    BY Zenon, <1>2, <2>5 DEF Send, Typed, Clock
<1>3. ASSUME RefreshBegin PROVE Typed' /\ cred' = cred
  BY Zenon, <1>3 DEF RefreshBegin, Typed, Clock
<1>4. ASSUME Save PROVE Typed' /\ cred' = cred
  <2>1. disk' \subseteq Records
    BY Zenon, <1>4, RecordsType DEF Save, Typed
  <2>2. dirty' \in BOOLEAN /\ durable' \in BOOLEAN
    BY Zenon, <1>4 DEF Save, Typed
  <2>3. owed \in [Models -> Debts] /\ owedAll \in Times /\ saved \in Ledgers
    BY Zenon DEF Typed
  <2>4. [owed |-> owed, all |-> owedAll] \in Ledgers
    BY <2>3 DEF Ledgers
  <2>5. saved' \in Ledgers
    BY Zenon, <1>4, <2>3, <2>4, DebtsType DEF Save
  <2> QED
    BY Zenon, <1>4, <2>1, <2>2, <2>5 DEF Save, Typed, Clock
<1> QED
  BY Zenon, <1>1, <1>2, <1>3, <1>4

\* A request is over.
LEMMA DoneType == ASSUME Typed, NEW r \in Requests, Done(r)
                  PROVE  attempts' \in [Requests -> Attempts \cup {None}]
<1>1. attempts \in [Requests -> Attempts \cup {None}]
  BY Zenon DEF Typed
<1> QED
  BY <1>1 DEF Done

\* Results that count for nothing, and successes.
LEMMA NeutralTypes ==
    ASSUME Typed, NEW r \in Requests
    PROVE  /\ Neutral(r) => Typed' /\ Tame(cred, cred')
           /\ MarkSuccess(r) => Typed' /\ Tame(cred, cred')
<1>1. Clock /\ cred \in Credentials
  BY Zenon DEF Typed
<1>2. ASSUME Neutral(r) PROVE Typed' /\ Tame(cred, cred')
  <2> DEFINE c == IF Bound(r) THEN [cred EXCEPT !.updated = now] ELSE cred
  <2>1. c \in Credentials /\ Tame(cred, c)
    BY Zenon, <1>1, TouchedType, TameSteps
  <2>2. Store(c) /\ Step /\ Done(r)
    BY Zenon, <1>2 DEF Neutral
  <2> HIDE DEF c
  <2>3. cred' = c /\ dirty' \in BOOLEAN /\ durable' \in BOOLEAN
    BY Zenon, <2>1, <2>2, StoreType
  <2>4. events' \in 0..MaxEvents /\ attempts' \in [Requests -> Attempts \cup {None}]
    BY Zenon, <2>2, StepType, DoneType
  <2> QED
    BY Zenon, <1>2, <2>1, <2>3, <2>4 DEF Neutral, Typed, Clock
<1>3. ASSUME MarkSuccess(r) PROVE Typed' /\ Tame(cred, cred')
  <2> DEFINE m == attempts[r].model
             b == Succeeded(cred, m, attempts[r].started)
             c == [b EXCEPT !.updated = now]
  <2>1. attempts[r] \in Attempts
    BY Zenon, <1>3 DEF MarkSuccess, Typed
  <2>2. m \in Models
    BY <2>1 DEF Attempts
  <2>3. b \in Credentials /\ Tame(cred, b)
    BY Zenon, <1>1, <2>2, SucceededType
  <2>4. /\ Store(c) /\ Step /\ Done(r)
        /\ owed' = owed \/ owed' = [owed EXCEPT ![m] = Lifted(@, StateOf(cred, m), attempts[r].started)]
    BY Zenon, <1>3 DEF MarkSuccess
  <2> HIDE DEF b
  <2>5. c \in Credentials /\ Tame(cred, c)
    BY Zenon, <1>1, <2>3, TouchedType, TameSteps
  <2> HIDE DEF c
  <2>6. cred' = c /\ dirty' \in BOOLEAN /\ durable' \in BOOLEAN
    BY Zenon, <2>4, <2>5, StoreType
  <2>7. events' \in 0..MaxEvents /\ attempts' \in [Requests -> Attempts \cup {None}]
    BY Zenon, <2>4, StepType, DoneType
  <2>8. owed' \in [Models -> Debts]
    <3> DEFINE l == Lifted(owed[m], StateOf(cred, m), attempts[r].started)
    <3>1. owed \in [Models -> Debts]
      BY Zenon DEF Typed
    <3>2. l \in Debts
      BY Zenon, <2>2, <3>1, LiftedType
    <3>3. owed' = owed \/ owed' = [owed EXCEPT ![m] = l]
      BY Zenon, <2>4
    <3> HIDE DEF l
    <3>4. [owed EXCEPT ![m] = l] \in [Models -> Debts]
      BY Zenon, <3>1, <3>2
    <3> QED
      BY Zenon, <3>1, <3>3, <3>4
  <2> QED
    BY Zenon, <1>3, <2>5, <2>6, <2>7, <2>8 DEF MarkSuccess, Typed, Clock
<1> QED
  BY Zenon, <1>2, <1>3

\* A failure.
LEMMA FailureTypes ==
    ASSUME Typed, NEW r \in Requests, NEW kind \in Kinds, NEW hint \in Hints \cup {None},
           MarkFailure(r, kind, hint)
    PROVE  Typed' /\ SameRungs(cred, cred')
<1> DEFINE m == attempts[r].model
           on == cooling \/ kind = "forced"
           d == Asked(m, kind, hint, on)
           b == Failed(cred, m, kind, hint, on)
           c == [b EXCEPT !.updated = now]
           o == [x \in Models |->
                    IF x = m THEN Owing(owed[x], kind, d)
                    ELSE IF kind = "credential" /\ x \in Known(cred) THEN Reached(owed[x], d)
                    ELSE owed[x]]
<1>1. Clock /\ cred \in Credentials /\ owed \in [Models -> Debts] /\ owedAll \in Times
  BY Zenon DEF Typed
<1>2. attempts[r] \in Attempts
  BY Zenon DEF MarkFailure, Typed
<1>3. m \in Models
  BY <1>2 DEF Attempts
<1>4. on \in BOOLEAN
  BY Zenon
<1>5. /\ Store(c) /\ Step /\ Done(r) /\ owed' = o
      /\ owedAll' = Latest({owedAll, d}) \/ owedAll' = owedAll
  BY Zenon DEF MarkFailure
<1> HIDE DEF m, on
<1>6. d \in Times
  BY Zenon, <1>1, <1>3, <1>4, AskedType
<1>7. b \in Credentials /\ SameRungs(cred, b)
  BY Zenon, <1>1, <1>3, <1>4, FailedType
<1> HIDE DEF b, d
<1>8. c \in Credentials /\ c.models = b.models
  <2>1. now \in Times
    BY Zenon, <1>1, NowTimes
  <2> QED
    BY <1>7, <2>1 DEF Credentials
<1> HIDE DEF c
<1>9. cred' = c /\ dirty' \in BOOLEAN /\ durable' \in BOOLEAN
  BY Zenon, <1>5, <1>8, StoreType
<1>10. events' \in 0..MaxEvents /\ attempts' \in [Requests -> Attempts \cup {None}]
  BY Zenon, <1>5, StepType, DoneType
<1>11. owedAll' \in Times
  BY Zenon, <1>1, <1>5, <1>6, TimesClosed
<1>12. owed' \in [Models -> Debts]
  <2>1. ASSUME NEW x \in Models PROVE o[x] \in Debts
    <3>1. owed[x] \in Debts
      BY Zenon, <1>1
    <3>2. Owing(owed[x], kind, d) \in Debts /\ Reached(owed[x], d) \in Debts
      BY Zenon, <1>1, <1>6, <3>1, OwingType
    <3> QED
      BY Zenon, <3>1, <3>2
  <2>2. o \in [Models -> Debts]
    BY Zenon, <2>1
  <2> QED
    BY Zenon, <1>5, <2>2
<1>13. Typed'
  BY Zenon, <1>8, <1>9, <1>10, <1>11, <1>12 DEF MarkFailure, Typed, Clock
<1>14. SameRungs(cred, cred')
  BY Zenon, <1>7, <1>8, <1>9 DEF SameRungs
<1> QED
  BY Zenon, <1>13, <1>14

\* The history after a token may have changed.
LEMMA RenewedType == ASSUME Typed, NEW paid, Renewed(paid)
                     PROVE  owed' \in [Models -> Debts] /\ owedAll' \in Times
<1>1. owed \in [Models -> Debts] /\ owedAll \in Times /\ 0 \in Times
  BY Zenon, TimesClosed DEF Typed
<1> DEFINE P(m) == IF ~cooling THEN NothingOwed
                   ELSE IF m \in paid /\ StateOf(cred, m).err = "unauthorized"
                   THEN [owed[m] EXCEPT !.token = 0]
                   ELSE owed[m]
<1>2. ASSUME NEW m \in Models PROVE P(m) \in Debts
  BY Zenon, <1>1, DebtsType
<1>3. owed' = [m \in Models |-> P(m)] /\ owedAll' = IF cooling THEN owedAll ELSE 0
  BY Zenon DEF Renewed
<1> HIDE DEF P
<1>4. owed' \in [Models -> Debts]
  BY Zenon, <1>2, <1>3
<1> QED
  BY Zenon, <1>1, <1>3, <1>4

\* The end of updateInternal.
LEMMA UpdatedType ==
    ASSUME Typed, NEW c \in Credentials, Tame(cred, c), NEW changed \in BOOLEAN, Updated(c, changed)
    PROVE  /\ cred' \in Credentials /\ Tame(cred, cred')
           /\ dirty' \in BOOLEAN /\ durable' \in BOOLEAN
<1> DEFINE d == IF changed THEN WithNewToken(c) ELSE [c EXCEPT !.updated = now]
<1>1. Clock
  BY Zenon DEF Typed
<1>2. cred' = Kept(d)
  BY Zenon DEF Updated
<1>3. dirty' \in BOOLEAN /\ durable' \in BOOLEAN
  BY Zenon DEF Updated, Typed
<1>4. d \in Credentials /\ Tame(cred, d)
  BY Zenon, <1>1, NewTokenType, TouchedType, TameSteps
<1> HIDE DEF d
<1> QED
  BY Zenon, <1>1, <1>2, <1>3, <1>4, KeptType, TameSteps

\* The steps of the administration.
LEMMA AdminTypes ==
    ASSUME Typed
    PROVE  /\ ResetQuota => Typed' /\ Tame(cred, cred')
           /\ \A on \in BOOLEAN : SetConfig(on) => Typed' /\ Tame(cred, cred')
           /\ \A changed \in BOOLEAN : Replace(changed) => Typed' /\ Tame(cred, cred')
           /\ \A S \in SUBSET Models : Reconcile(S) => Typed' /\ Tame(cred, cred')
<1>1. Clock /\ cred \in Credentials /\ owed \in [Models -> Debts] /\ 0 \in Times
  BY Zenon, TimesClosed DEF Typed
<1>2. [m \in Models |-> NothingOwed] \in [Models -> Debts]
  BY Zenon, DebtsType
<1>3. ASSUME ResetQuota PROVE Typed' /\ Tame(cred, cred')
  <2> DEFINE ms == [m \in Models |-> IF cred.models[m] = None THEN None ELSE Reset]
             c == [cred EXCEPT !.models = ms]
             e == clearCooldownStateForAuth(c)
             f == updateAggregatedAvailability(e)
             d == Settled(f)
             g == [d EXCEPT !.epoch = @ + 1]
             h == [d EXCEPT !.epoch = @ + 1, !.updated = now]
  <2>1. ms \in [Models -> States \cup {None}]
    BY Zenon, <1>1, ResetType
  <2>2. c \in Credentials /\ c.models = ms
    <3> HIDE DEF ms
    <3> QED
      BY <1>1, <2>1 DEF Credentials
  <2>3. Store(h) /\ Step
    BY Zenon, <1>3 DEF ResetQuota
  <2> HIDE DEF c
  <2>4. Tame(cred, c)
    BY Zenon, <1>1, <2>2, ResetType DEF Tame
  <2>5. e \in Credentials /\ Tame(cred, e)
    BY Zenon, <1>1, <2>2, <2>4, ClearCooldownType, TameSteps
  <2> HIDE DEF e
  <2>6. f \in Credentials /\ Tame(cred, f)
    BY Zenon, <2>5, AggregateType, TameSteps
  <2> HIDE DEF f
  <2>7. d \in Credentials /\ Tame(cred, d)
    BY Zenon, <2>6, SettledType, TameSteps
  <2> HIDE DEF d
  <2>8. g \in Credentials /\ g.models = d.models
    BY <2>7 DEF Credentials
  <2>9. h = [g EXCEPT !.updated = now]
    BY <2>7 DEF Credentials
  <2> HIDE DEF g, h
  <2>10. h \in Credentials /\ Tame(cred, h)
    BY Zenon, <1>1, <2>7, <2>8, <2>9, TouchedType, TameSteps
  <2>11. cred' = h /\ dirty' \in BOOLEAN /\ durable' \in BOOLEAN /\ events' \in 0..MaxEvents
    BY Zenon, <2>3, <2>10, StoreType, StepType
  <2> QED
    BY Zenon, <1>1, <1>2, <1>3, <2>10, <2>11 DEF ResetQuota, Typed, Clock
<1>4. ASSUME NEW on \in BOOLEAN, SetConfig(on) PROVE Typed' /\ Tame(cred, cred')
  <2> DEFINE c == clearCooldownStateForAuth(cred)
  <2>1. c \in Credentials /\ Tame(cred, c) /\ Tame(cred, cred)
    BY Zenon, <1>1, ClearCooldownType, TameSteps
  <2>2. events' \in 0..MaxEvents
    BY Zenon, <1>4, StepType DEF SetConfig
  <2>3. \/ cred' = cred /\ dirty' = dirty /\ durable' = durable /\ owed' = owed /\ owedAll' = owedAll
        \/ /\ cred' = c /\ dirty' = TRUE /\ durable' = FALSE
           /\ owed' = [m \in Models |-> NothingOwed] /\ owedAll' = 0
    BY Zenon, <1>4 DEF SetConfig
  <2>4. /\ cooling' = on /\ now' = now /\ attempts' = attempts /\ refresh' = refresh
        /\ disk' = disk /\ saved' = saved
    BY Zenon, <1>4 DEF SetConfig
  <2> HIDE DEF c
  <2> QED
    BY Zenon, <1>1, <1>2, <2>1, <2>2, <2>3, <2>4 DEF Typed, Clock
<1>5. ASSUME NEW changed \in BOOLEAN, Replace(changed) PROVE Typed' /\ Tame(cred, cred')
  <2> DEFINE c == Incoming(cred)
             paid == IF changed THEN Models ELSE {}
  <2>1. c \in Credentials /\ Tame(cred, c)
    BY Zenon, <1>1, IncomingType
  <2>2. Updated(c, changed) /\ Step /\ Renewed(paid)
    BY Zenon, <1>5 DEF Replace
  <2> HIDE DEF c, paid
  <2>3. /\ cred' \in Credentials /\ Tame(cred, cred')
        /\ dirty' \in BOOLEAN /\ durable' \in BOOLEAN
    BY Zenon, <2>1, <2>2, UpdatedType
  <2>4. events' \in 0..MaxEvents /\ owed' \in [Models -> Debts] /\ owedAll' \in Times
    BY Zenon, <2>2, StepType, RenewedType
  <2> QED
    BY Zenon, <1>5, <2>3, <2>4 DEF Replace, Typed, Clock
<1>6. ASSUME NEW S \in SUBSET Models, Reconcile(S) PROVE Typed' /\ Tame(cred, cred')
  <2> DEFINE Expired(s) == ~modelStateIsClean(s) /\ ~isModelStateActiveCooldown(s)
             ms == [m \in Models |->
                      IF m \notin Known(cred) \cap S THEN None
                      ELSE IF Expired(cred.models[m]) THEN Reset ELSE cred.models[m]]
             b == [cred EXCEPT !.models = ms]
             e == updateAggregatedAvailability(b)
             c == Settled(e)
             d == IF ms = cred.models THEN cred ELSE [c EXCEPT !.updated = now]
  <2>1. ms \in [Models -> States \cup {None}]
    BY Zenon, <1>1, ResetType, CredentialFields
  <2>2. b \in Credentials /\ b.models = ms
    <3> HIDE DEF ms
    <3> QED
      BY <1>1, <2>1 DEF Credentials
  <2>3. Store(d) /\ Step
    BY Zenon, <1>6 DEF Reconcile
  <2>4. owed' \in [Models -> Debts]
    BY Zenon, <1>1, <1>6, DebtsType DEF Reconcile
  <2>5. \A m \in Models : ms[m] = None \/ ms[m] = Reset \/ (ms[m] = cred.models[m] /\ ms[m] # None)
    BY Zenon DEF Known
  <2> HIDE DEF b, ms
  <2>6. Tame(cred, b)
    BY Zenon, <1>1, <2>2, <2>5, ResetType DEF Tame
  <2>7. e \in Credentials /\ Tame(cred, e)
    BY Zenon, <2>2, <2>6, AggregateType, TameSteps
  <2> HIDE DEF e
  <2>8. c \in Credentials /\ Tame(cred, c)
    BY Zenon, <2>7, SettledType, TameSteps
  <2> HIDE DEF c
  <2>9. d \in Credentials /\ Tame(cred, d)
    BY Zenon, <1>1, <2>8, TouchedType, TameSteps
  <2> HIDE DEF d
  <2>10. cred' = d /\ dirty' \in BOOLEAN /\ durable' \in BOOLEAN /\ events' \in 0..MaxEvents
    BY Zenon, <2>3, <2>9, StoreType, StepType
  <2> QED
    BY Zenon, <1>6, <2>4, <2>9, <2>10 DEF Reconcile, Typed, Clock
<1> QED
  BY Zenon, <1>3, <1>4, <1>5, <1>6

\* The end of a refresh.
LEMMA RefreshTypes == ASSUME Typed, NEW changed \in BOOLEAN, RefreshEnd(changed)
                      PROVE  Typed' /\ Tame(cred, cred')
<1> DEFINE c == MergeRefreshedAuth(refresh, cred)
           paid == {m \in Models : changed \/ Unaltered(refresh, cred, m)}
<1>1. Clock /\ cred \in Credentials /\ refresh \in Credentials
  BY Zenon DEF Typed, RefreshEnd
<1>2. events' \in 0..MaxEvents
  BY Zenon, StepType DEF RefreshEnd
<1>3. CASE refresh.version # cred.version
  <2>1. Tame(cred, cred)
    BY Zenon, <1>1, TameSteps
  <2>2. /\ cred' = cred /\ dirty' = dirty /\ durable' = durable /\ owed' = owed
        /\ owedAll' = owedAll
    BY Zenon, <1>3 DEF RefreshEnd
  <2> QED
    BY Zenon, <1>2, <2>1, <2>2 DEF RefreshEnd, Typed, Clock
<1>4. CASE ~ (refresh.version # cred.version)
  <2>1. Updated(c, changed) /\ Renewed(paid)
    BY Zenon, <1>4 DEF RefreshEnd
  <2>2. c \in Credentials /\ Tame(cred, c)
    BY Zenon, <1>1, MergeRefreshedType
  <2> HIDE DEF c, paid
  <2>3. /\ cred' \in Credentials /\ Tame(cred, cred')
        /\ dirty' \in BOOLEAN /\ durable' \in BOOLEAN
    BY Zenon, <2>1, <2>2, UpdatedType
  <2>4. owed' \in [Models -> Debts] /\ owedAll' \in Times
    BY Zenon, <2>1, RenewedType
  <2> QED
    BY Zenon, <1>2, <2>3, <2>4 DEF RefreshEnd, Typed, Clock
<1> QED
  BY Zenon, <1>3, <1>4

\* A refresh fails.
LEMMA RefreshFailTypes ==
    ASSUME Typed, NEW x \in Kinds \cup {None}, NEW valid \in BOOLEAN, RefreshFail(x, valid)
    PROVE  /\ Typed' /\ Tame(cred, cred')
           /\ cred'.models = cred.models /\ cred'.quota = cred.quota /\ cred'.retry = cred.retry
           /\ cred.unavailable => cred'.unavailable
<1> DEFINE d == RefreshFailed(refresh, cred, x, valid)
<1>1. Clock /\ cred \in Credentials /\ refresh \in Credentials
  BY Zenon DEF Typed, RefreshFail
<1>2. events' \in 0..MaxEvents
  BY Zenon, StepType DEF RefreshFail
<1>3. cred' = cred \/ (x \in Kinds /\ cred' = d)
  BY Zenon DEF RefreshFail
<1>4. ASSUME x \in Kinds
      PROVE  /\ d \in Credentials /\ Tame(cred, d)
             /\ d.models = cred.models /\ d.quota = cred.quota /\ d.retry = cred.retry
             /\ cred.unavailable => d.unavailable
  BY Zenon, <1>1, <1>4, RefreshFailedType
<1> HIDE DEF d
<1>5. /\ cred' \in Credentials /\ Tame(cred, cred')
      /\ cred'.models = cred.models /\ cred'.quota = cred.quota /\ cred'.retry = cred.retry
      /\ cred.unavailable => cred'.unavailable
  <2>1. CASE cred' = cred
    <3>1. Tame(cred, cred')
      BY Zenon, <2>1, TameSteps
    <3> QED
      BY Zenon, <1>1, <2>1, <3>1
  <2>2. CASE x \in Kinds /\ cred' = d
    BY Zenon, <1>4, <2>2
  <2> QED
    BY Zenon, <1>3, <2>1, <2>2
<1> QED
  BY Zenon, <1>2, <1>5 DEF RefreshFail, Typed, Clock

\* The store is read back.
LEMMA RestoreTypes == ASSUME Typed
                      PROVE  (Restart => Typed') /\ (Reload => Typed')
<1>1. /\ Clock /\ cred \in Credentials /\ disk \subseteq Records /\ owed \in [Models -> Debts]
      /\ owedAll \in Times /\ saved \in Ledgers /\ 0 \in Times /\ NothingOwed \in Debts
  BY Zenon, TimesClosed, DebtsType DEF Typed
<1>2. saved.all \in Times /\ saved.owed \in [Models -> Debts]
  BY <1>1 DEF Ledgers
<1>3. /\ \A m \in Models : Together(owed[m], saved.owed[m]) \in Debts
      /\ Latest({owedAll, saved.all}) \in Times
  BY Zenon, <1>1, <1>2, TogetherType, TimesClosed
<1>4. ASSUME Restart PROVE Typed'
  <2> DEFINE c == [Clean EXCEPT !.version = cred.version + 1]
  <2>1. c \in Credentials
    <3>1. 0 \in Times /\ NoQuota \in Quotas /\ None \in Errs /\ cred.version \in Nat
      BY Zenon, <1>1, TimesClosed, QuotaFields, CredentialFields DEF Errs
    <3>2. Clean \in Credentials
      BY <3>1 DEF Clean, Credentials, Errs
    <3> QED
      BY <3>1, <3>2 DEF Credentials
  <2> HIDE DEF c
  <2>2. cred' \in Credentials
    BY Zenon, <1>1, <1>4, <2>1, RestoreType DEF Restart, c
  <2>3. owed' \in [Models -> Debts] /\ owedAll' \in Times
    BY Zenon, <1>1, <1>2, <1>3, <1>4 DEF Restart
  <2>4. events' \in 0..MaxEvents
    BY Zenon, <1>4, StepType DEF Restart
  <2>5. attempts' \in [Requests -> Attempts \cup {None}]
    BY Zenon, <1>4 DEF Restart
  <2>6. dirty' \in BOOLEAN /\ durable' \in BOOLEAN
    BY Zenon, <1>4 DEF Restart
  <2> QED
    BY Zenon, <1>4, <2>2, <2>3, <2>4, <2>5, <2>6 DEF Restart, Typed, Clock
<1>5. ASSUME Reload PROVE Typed'
  <2>1. cred' \in Credentials
    BY Zenon, <1>1, <1>5, RestoreType DEF Reload
  <2>2. owed' \in [Models -> Debts] /\ owedAll' \in Times
    BY Zenon, <1>1, <1>2, <1>3, <1>5 DEF Reload
  <2>3. events' \in 0..MaxEvents /\ dirty' \in BOOLEAN /\ durable' \in BOOLEAN
    BY Zenon, <1>5, StepType DEF Reload
  <2> QED
    BY Zenon, <1>5, <2>1, <2>2, <2>3 DEF Reload, Typed, Clock
<1> QED
  BY Zenon, <1>4, <1>5

\* A tame step climbs no rung.
LEMMA TameKeepsRung == ASSUME Typed, Tame(cred, cred')
                       PROVE  KeepsRung
<1> SUFFICES ASSUME NEW m \in Known(cred) \cap Known(cred'),
                    cred'.models[m].quota.reason = "quota"
             PROVE  cred'.models[m].quota.level <= cred.models[m].quota.level
  BY Zenon DEF KeepsRung
<1>1. m \in Models /\ cred'.models[m] # None /\ cred.models[m] \in States
  BY Zenon, CredentialFields DEF Typed, Known
<1>2. cred'.models[m].quota = cred.models[m].quota
  BY Zenon, <1>1 DEF Tame
<1>3. cred.models[m].quota.level \in Levels
  BY Zenon, <1>1, StateFields, QuotaFields
<1>4. cred.models[m].quota.level \in Int
  BY Zenon, <1>3, LevelsClosed
<1> QED
  BY <1>2, <1>4

\* Every step keeps the types and climbs no rung while a window is open.
LEMMA NextTypes == ASSUME Typed, [Next]_vars
                   PROVE  Typed' /\ (KeepsRung \/ UNCHANGED vars)
<1>1. cred' = cred => KeepsRung
  BY Zenon, TameSteps, TameKeepsRung
<1>2. CASE UNCHANGED vars
  BY Zenon, <1>2 DEF vars, Typed, Clock
<1>3. CASE Tick
  BY Zenon, <1>1, <1>3, QuietTypes
<1>4. ASSUME NEW r \in Requests, NEW m \in Models, Send(r, m)
      PROVE  Typed' /\ KeepsRung
  BY Zenon, <1>1, <1>4, QuietTypes
<1>5. ASSUME NEW r \in Requests, Neutral(r) \/ MarkSuccess(r)
      PROVE  Typed' /\ KeepsRung
  BY Zenon, <1>5, NeutralTypes, TameKeepsRung
<1>6. ASSUME NEW r \in Requests, NEW k \in Kinds, NEW h \in Hints \cup {None}, MarkFailure(r, k, h)
      PROVE  Typed' /\ KeepsRung
  <2>1. Typed'
    BY Zenon, <1>6, FailureTypes
  <2>2. ASSUME NEW m \in Known(cred) \cap Known(cred'),
               cred.models[m].quota.recover > now,
               cred'.models[m].quota.reason = "quota",
               cred'.models[m].err # "credential"
        PROVE  cred'.models[m].quota.level <= cred.models[m].quota.level
    <3>1. m \in Models /\ cred'.models[m] # None /\ cred.models[m] # None
      BY Zenon DEF Known
    <3>2. cred'.models[m].quota.level = cred.models[m].quota.level
      BY Zenon, <1>6, <2>2, <3>1, FailureTypes DEF SameRungs
    <3>3. cred.models[m].quota.level \in Levels
      BY Zenon, CredentialFields, StateFields, QuotaFields DEF Typed
    <3>4. cred.models[m].quota.level \in Int
      BY Zenon, <3>3, LevelsClosed
    <3> QED
      BY <3>2, <3>4
  <2>3. KeepsRung
    BY Zenon, <2>2 DEF KeepsRung
  <2> QED
    BY Zenon, <2>1, <2>3
<1>7. CASE ResetQuota
  BY Zenon, <1>7, AdminTypes, TameKeepsRung
<1>8. ASSUME NEW b \in BOOLEAN, SetConfig(b) \/ Replace(b)
      PROVE  Typed' /\ KeepsRung
  BY Zenon, <1>8, AdminTypes, TameKeepsRung
<1>9. CASE RefreshBegin \/ Save
  BY Zenon, <1>1, <1>9, QuietTypes
<1>10. ASSUME NEW b \in BOOLEAN, RefreshEnd(b)
       PROVE  Typed' /\ KeepsRung
  BY Zenon, <1>10, RefreshTypes, TameKeepsRung
<1>11. ASSUME NEW S \in SUBSET Models, Reconcile(S)
       PROVE  Typed' /\ KeepsRung
  BY Zenon, <1>11, AdminTypes, TameKeepsRung
<1>12. CASE Restart \/ Reload
  <2>1. KeepsRung
    BY Zenon, <1>12 DEF KeepsRung
  <2> QED
    BY Zenon, <1>12, <2>1, RestoreTypes
<1>13. ASSUME NEW x \in Kinds \cup {None}, NEW b \in BOOLEAN, RefreshFail(x, b)
       PROVE  Typed' /\ KeepsRung
  BY Zenon, <1>13, RefreshFailTypes, TameKeepsRung
<1> QED
  BY Zenon, <1>2, <1>3, <1>4, <1>5, <1>6, <1>7, <1>8, <1>9, <1>10, <1>11, <1>12, <1>13 DEF Next

-----------------------------------------------------------------------------
(* The theorems. *)

\* Every deadline that the code keeps, saves or restores lies within the longest cooldown
\* it can give, and the quota ladder stays below its first rung at the ceiling.
THEOREM TypeCorrect == Spec => []TypeOK
<1>1. Init => Typed
  BY InitType
<1>2. Typed /\ [Next]_vars => Typed'
  BY NextTypes
<1>3. Typed => TypeOK
  BY TypeParts
<1> QED
  BY <1>1, <1>2, <1>3, PTL DEF Spec

\* One exhausted window costs one rung of the quota ladder: failures that arrive while the
\* window of a model is open do not raise its back-off level (quotaCooldownAfterFailure).
THEOREM OneRungPerWindow == Spec => LadderOnce
<1>1. Init => Typed
  BY InitType
<1>2. Typed /\ [Next]_vars => Typed' /\ [KeepsRung]_vars
  BY NextTypes
<1> QED
  BY <1>1, <1>2, PTL DEF Spec, LadderOnce

-----------------------------------------------------------------------------
(* What the operators keep of a cooldown. *)

\* The summary is unavailable during a credential wide quota.
Sound(c) == CredentialQuota(c) => c.unavailable

\* What a summary may do to a state: a state that is resting stays.
Eased(s, t) == \/ t = s
               \/ /\ s # None /\ ~Waiting(s)
                  /\ t # None /\ ~t.unavailable /\ t.updated \in {s.updated, now}

\* What a new token may do to it: only the 401 of a resting state ends.
Relieved(s, t) ==
    \/ t = s
    \/ /\ s # None /\ t # None /\ t.updated \in {s.updated, now}
       /\ ~t.unavailable \/ t.err = None
       /\ Waiting(s) => /\ s.err = "unauthorized"
                        /\ s.indep > now => /\ t.unavailable /\ t.retry >= s.indep
                                            /\ t.indep = s.indep /\ t.err = None

Eases(c, d) == \A m \in Models : Eased(c.models[m], d.models[m])

Relieves(c, d) == \A m \in Models : Relieved(c.models[m], d.models[m])

\* A credential wide quota goes on.
Wide(c, d) == c.unavailable /\ CredentialQuota(c) =>
    d.unavailable /\ d.quota = c.quota /\ (d.retry >= c.retry \/ d.retry >= c.quota.recover)

\* A credential wide quota that d has is that of c.
NoWider(c, d) == CredentialQuota(d) => d.quota = c.quota /\ d.retry = c.retry

\* The same availability.
Alike(c, d) == /\ d.models = c.models /\ d.unavailable = c.unavailable
               /\ d.retry = c.retry /\ d.quota = c.quota

\* Deadlines are numbers.
LEMMA TimesAreNumbers == \A t \in Times : t \in Nat
<1>1. Forever \in Nat
  BY Zenon, ForeverIsFar
<1> QED
  BY <1>1 DEF Times

\* So is the clock.
LEMMA ClockIsNumber == ASSUME Clock PROVE now \in Nat /\ now > 0
BY ForeverIsFar DEF Clock

\* The later of two deadlines.
LEMMA LaterOfTwo ==
    \A a, b \in Times : /\ Latest({a, b}) \in Times /\ Latest({a, b}) \in {a, b}
                        /\ Latest({a, b}) >= a /\ Latest({a, b}) >= b
<1> TAKE a \in Times, b \in Times
<1>1. a \in Nat /\ b \in Nat
  BY Zenon, TimesAreNumbers
<1>2. {a, b} \subseteq {a, b, b}
  BY Zenon
<1>3. Latest({a, b}) >= a /\ Latest({a, b}) >= b
  BY Zenon, <1>1, <1>2, LatestOf
<1>4. Latest({a, b}) \in {a, b} \cup {0} /\ Latest({a, b}) \in Times
  BY Zenon, ChosenOf, TimesClosed
<1>5. Latest({a, b}) = 0 => a = 0
  BY <1>1, <1>3
<1> QED
  BY Zenon, <1>3, <1>4, <1>5

\* States are not nil, and None is no failure.
LEMMA NotNil == /\ \A s \in States : s # None
                /\ \A k \in Kinds : k # None
                /\ None # "unauthorized"
<1>1. "unauthorized" \in AllKinds /\ Kinds \subseteq AllKinds
  BY ConstantsOK DEF AllKinds
<1> QED
  BY Zenon, <1>1, NoneAssumption

\* The numbers of a state.
LEMMA StateNumbers == \A s \in States : s.retry \in Nat /\ s.indep \in Nat /\ s.updated \in Nat
BY Zenon, StateFields, TimesAreNumbers

\* The relations compose, and the first implies the second.
LEMMA EasedSteps ==
    /\ \A s, t, u : Eased(s, t) /\ Eased(t, u) => Eased(s, u)
    /\ \A s, t : Eased(s, t) => Relieved(s, t)
    /\ \A c, d, e : Eases(c, d) /\ Eases(d, e) => Eases(c, e)
    /\ \A c, d : Eases(c, d) => Relieves(c, d)
    /\ \A c, d : d.models = c.models => Eases(c, d)
<1>1. \A s, t, u : Eased(s, t) /\ Eased(t, u) => Eased(s, u)
  BY Zenon DEF Eased, Waiting
<1>2. \A s, t : Eased(s, t) => Relieved(s, t)
  BY Zenon DEF Eased, Relieved
<1>3. \A s : Eased(s, s)
  BY Zenon DEF Eased
<1> QED
  BY Zenon, <1>1, <1>2, <1>3 DEF Eases, Relieves

\* The relation of a new token composes.
LEMMA RelievedSteps ==
    ASSUME Clock, NEW c \in Credentials, NEW d \in Credentials, NEW e \in Credentials,
           Relieves(c, d), Relieves(d, e)
    PROVE  Relieves(c, e)
<1> SUFFICES ASSUME NEW m \in Models PROVE Relieved(c.models[m], e.models[m])
  BY Zenon DEF Relieves
<1> DEFINE s == c.models[m]
           t == d.models[m]
           u == e.models[m]
<1>1. Relieved(s, t) /\ Relieved(t, u) /\ None # "unauthorized"
  BY Zenon, NotNil DEF Relieves
<1>2. s \in States \cup {None} /\ t \in States \cup {None}
  BY Zenon, CredentialFields
<1> HIDE DEF s, t, u
<1>3. CASE u = t \/ t = s
  BY Zenon, <1>1, <1>3 DEF s, u
<1>4. CASE u # t /\ t # s
  <2>1. /\ s # None /\ t # None /\ u # None
        /\ t.updated \in {s.updated, now} /\ u.updated \in {t.updated, now}
        /\ ~u.unavailable \/ u.err = None
    BY Zenon, <1>1, <1>4 DEF Relieved
  <2>2. ASSUME Waiting(s), s.indep > now PROVE FALSE
    <3>1. t.unavailable /\ t.retry >= s.indep /\ t.err = None
      BY Zenon, <1>1, <1>4, <2>2 DEF Relieved
    <3>2. s \in States /\ t \in States
      BY Zenon, <1>2, <2>1
    <3>3. s.indep \in Nat /\ t.retry \in Nat /\ now \in Nat
      BY Zenon, <3>2, StateNumbers, ClockIsNumber
    <3>4. t.retry > now
      BY <2>2, <3>1, <3>3
    <3>5. t.err = "unauthorized"
      BY Zenon, <1>1, <1>4, <3>1, <3>4 DEF Relieved, Waiting
    <3> QED
      BY Zenon, <1>1, <3>1, <3>5
  <2>3. Waiting(s) => s.err = "unauthorized"
    BY Zenon, <1>1, <1>4 DEF Relieved
  <2>4. Relieved(s, u)
    BY Zenon, <2>1, <2>2, <2>3 DEF Relieved
  <2> QED
    BY Zenon, <2>4 DEF s, u
<1> QED
  BY Zenon, <1>3, <1>4

\* What holds of alike credentials.
LEMMA AlikeSteps ==
    /\ \A c, d : Alike(c, d) => Eases(c, d) /\ NoWider(c, d) /\ (Sound(c) => Sound(d))
    /\ \A c, d, e : Alike(d, e) /\ Eases(c, d) => Eases(c, e)
    /\ \A c, d, e : Alike(d, e) /\ Relieves(c, d) => Relieves(c, e)
    /\ \A c, d, e : Alike(d, e) /\ Wide(c, d) => Wide(c, e)
    /\ \A c, d, e : Alike(d, e) /\ NoWider(c, d) => NoWider(c, e)
<1>1. \A c, d : Alike(c, d) => Eases(c, d) /\ NoWider(c, d)
  BY Zenon, EasedSteps DEF Alike, NoWider
<1>2. \A c, d : Alike(c, d) /\ Sound(c) => Sound(d)
  BY Zenon DEF Alike, Sound, CredentialQuota
<1>3. \A c, d, e : Alike(d, e) /\ Eases(c, d) => Eases(c, e)
  BY Zenon DEF Alike, Eases
<1>4. \A c, d, e : Alike(d, e) /\ Relieves(c, d) => Relieves(c, e)
  BY Zenon DEF Alike, Relieves
<1>5. \A c, d, e : Alike(d, e) /\ Wide(c, d) => Wide(c, e)
  BY Zenon DEF Alike, Wide, CredentialQuota
<1>6. \A c, d, e : Alike(d, e) /\ NoWider(c, d) => NoWider(c, e)
  BY Zenon DEF Alike, NoWider, CredentialQuota
<1> QED
  BY Zenon, <1>1, <1>2, <1>3, <1>4, <1>5, <1>6

\* A credential wide quota that goes on and on.
LEMMA WideSteps ==
    ASSUME Clock, NEW c \in Credentials, NEW d \in Credentials, NEW e \in Credentials
    PROVE  /\ Wide(c, d) /\ Wide(d, e) => Wide(c, e)
           /\ Alike(c, d) => Wide(c, d)
           /\ Wide(c, c)
<1>1. /\ c.retry \in Nat /\ d.retry \in Nat /\ e.retry \in Nat /\ c.quota.recover \in Nat
  BY Zenon, CredentialFields, QuotaFields, TimesAreNumbers
<1>2. ASSUME Wide(c, d), Wide(d, e), c.unavailable, CredentialQuota(c)
      PROVE  e.unavailable /\ e.quota = c.quota /\ (e.retry >= c.retry \/ e.retry >= c.quota.recover)
  <2>1. d.unavailable /\ d.quota = c.quota /\ (d.retry >= c.retry \/ d.retry >= c.quota.recover)
    BY Zenon, <1>2 DEF Wide
  <2>2. CredentialQuota(d)
    BY Zenon, <1>2, <2>1 DEF CredentialQuota
  <2>3. e.unavailable /\ e.quota = c.quota /\ (e.retry >= d.retry \/ e.retry >= c.quota.recover)
    BY Zenon, <1>2, <2>1, <2>2 DEF Wide
  <2> QED
    BY <1>1, <2>1, <2>3
<1>3. c.retry >= c.retry
  BY <1>1
<1> QED
  BY Zenon, <1>2, <1>3 DEF Wide, Alike

\* The summary leaves resting states and a credential wide quota alone.
LEMMA AggregateRests ==
    ASSUME Clock, NEW c \in Credentials
    PROVE  /\ Eases(c, updateAggregatedAvailability(c))
           /\ Wide(c, updateAggregatedAvailability(c))
           /\ NoWider(c, updateAggregatedAvailability(c))
           /\ Sound(updateAggregatedAvailability(c))
<1> DEFINE d == updateAggregatedAvailability(c)
<1>0. c.retry \in Nat /\ c.retry >= c.retry
  <2>1. c.retry \in Nat
    BY Zenon, CredentialFields, TimesAreNumbers
  <2> QED
    BY <2>1
<1>1. CASE CredentialQuota(c)
  <2>1. d = [c EXCEPT !.unavailable = TRUE]
    BY Zenon, <1>1 DEF updateAggregatedAvailability
  <2>2. d.models = c.models /\ d.quota = c.quota /\ d.retry = c.retry /\ d.unavailable
    BY <2>1 DEF Credentials
  <2> HIDE DEF d
  <2>3. Eases(c, d) /\ Wide(c, d) /\ NoWider(c, d) /\ Sound(d)
    BY Zenon, <1>0, <2>2, EasedSteps DEF Wide, NoWider, Sound
  <2> QED
    BY Zenon, <2>3 DEF d
<1>2. CASE ~CredentialQuota(c) /\ Known(c) = {}
  <2>1. d = [c EXCEPT !.unavailable = FALSE, !.retry = 0, !.quota = NoQuota]
    BY Zenon, <1>2 DEF updateAggregatedAvailability, clearAggregatedAvailability
  <2>2. d.models = c.models /\ d.quota = NoQuota
    BY <2>1 DEF Credentials
  <2>3. NoQuota.exceeded = FALSE
    BY DEF NoQuota
  <2> HIDE DEF d
  <2>4. Eases(c, d) /\ Wide(c, d) /\ NoWider(c, d) /\ Sound(d)
    BY Zenon, <1>2, <2>2, <2>3, EasedSteps DEF Wide, NoWider, Sound, CredentialQuota
  <2> QED
    BY Zenon, <2>4 DEF d
<1>3. CASE ~CredentialQuota(c) /\ Known(c) # {}
  <2> DEFINE all == \A m \in Known(c) : Waiting(c.models[m])
             ms == [m \in Models |->
                    IF m \in Known(c) /\ Lapsed(c.models[m])
                    THEN [c.models[m] EXCEPT !.unavailable = FALSE, !.retry = 0]
                    ELSE c.models[m]]
             r == IF all THEN Earliest({c.models[m].retry : m \in Known(c)}) ELSE 0
             q == AggregatedQuota(c)
  <2>1. d = [c EXCEPT !.models = ms, !.unavailable = all, !.retry = r, !.quota = q]
    BY Zenon, <1>3 DEF updateAggregatedAvailability
  <2>2. ASSUME NEW m \in Models
        PROVE  Eased(c.models[m], ms[m])
    <3>1. CASE m \in Known(c) /\ Lapsed(c.models[m])
      <4> DEFINE s == c.models[m]
                 t == [s EXCEPT !.unavailable = FALSE, !.retry = 0]
      <4>1. ms[m] = t /\ s # None /\ s \in States /\ 0 \in Times
        BY Zenon, <3>1, CredentialFields, TimesClosed DEF Known
      <4>2. ~Waiting(s)
        <5>1. s.retry \in Nat /\ now \in Nat
          BY Zenon, <4>1, StateNumbers, ClockIsNumber
        <5> QED
          BY <3>1, <5>1 DEF Waiting, Lapsed
      <4> HIDE DEF s
      <4>3. t \in States /\ ~t.unavailable /\ t.updated = s.updated
        BY Zenon, <4>1 DEF States
      <4> HIDE DEF t
      <4>4. Eased(s, t)
        BY Zenon, <4>1, <4>2, <4>3, NotNil DEF Eased
      <4> QED
        BY Zenon, <4>1, <4>4 DEF s
    <3>2. CASE ~ (m \in Known(c) /\ Lapsed(c.models[m]))
      BY Zenon, <3>2 DEF Eased
    <3> QED
      BY Zenon, <3>1, <3>2
  <2>3. ~ (q.exceeded /\ q.reason = "credential_quota" /\ q.recover > now)
    <3>1. q = NoQuota \/ q = c.quota \/ q.reason = "quota"
      BY DEF AggregatedQuota
    <3>2. NoQuota.exceeded = FALSE
      BY DEF NoQuota
    <3>3. q.reason = "quota" => q.reason # "credential_quota"
      OBVIOUS
    <3> QED
      BY Zenon, <1>3, <3>1, <3>2, <3>3 DEF CredentialQuota
  <2> HIDE DEF all, ms, r, q
  <2>4. d.models = ms /\ d.quota = q
    BY <2>1 DEF Credentials
  <2> HIDE DEF d
  <2>5. Eases(c, d)
    BY Zenon, <2>2, <2>4 DEF Eases
  <2>6. Wide(c, d) /\ NoWider(c, d) /\ Sound(d)
    BY Zenon, <1>3, <2>3, <2>4 DEF Wide, NoWider, Sound, CredentialQuota
  <2> QED
    BY Zenon, <2>5, <2>6 DEF d
<1> QED
  BY Zenon, <1>1, <1>2, <1>3

\* Neither the error of the credential nor its time of change matters.
LEMMA AlikeCredentials ==
    ASSUME NEW c \in Credentials
    PROVE  /\ Alike(c, Settled(c))
           /\ Alike(c, [c EXCEPT !.updated = now])
           /\ Alike(c, [c EXCEPT !.version = @ + 1, !.updated = now])
           /\ Alike(c, [c EXCEPT !.epoch = @ + 1, !.updated = now])
           /\ Alike(c, c)
<1>1. Alike(c, [c EXCEPT !.err = None]) /\ Alike(c, c)
  BY DEF Alike, Credentials
<1>2. Alike(c, Settled(c))
  BY Zenon, <1>1 DEF Settled
<1>3. Alike(c, [c EXCEPT !.updated = now])
  BY DEF Alike, Credentials
<1>4. Alike(c, [c EXCEPT !.version = @ + 1, !.updated = now])
  BY DEF Alike, Credentials
<1>5. Alike(c, [c EXCEPT !.epoch = @ + 1, !.updated = now])
  BY DEF Alike, Credentials
<1> QED
  BY Zenon, <1>1, <1>2, <1>3, <1>4, <1>5

\* A state after resetModelState does not rest.
LEMMA ResetRests == ASSUME Clock
                    PROVE  Reset # None /\ ~Reset.unavailable /\ Reset.updated = now
<1>1. Reset # None
  BY Zenon, ResetType, NotNil
<1> QED
  BY Zenon, <1>1 DEF Reset, Fresh

\* What a success of a request sent at t makes of the credential c.
SucceedsTo(c, d, m, t) ==
    /\ Wide(c, d) /\ Sound(d)
    /\ \/ d = c
       \/ /\ ~CredentialQuota(c)
          /\ resultMayClearModelState(StateOf(c, m), t)
          /\ \A x \in Models : x # m => Eased(c.models[x], d.models[x])
          /\ d.models[m] # None /\ ~d.models[m].unavailable /\ d.models[m].updated = now

\* A success either changes nothing, as it must during a credential wide quota, or it
\* resets its own model, whose state then allowed it.
LEMMA SucceededRests ==
    ASSUME Clock, NEW c \in Credentials, NEW m \in Models, NEW t, Sound(c)
    PROVE  SucceedsTo(c, Succeeded(c, m, t), m, t)
<1> DEFINE ms == [c.models EXCEPT ![m] = Reset]
           b == [c EXCEPT !.models[m] = Reset]
           e == updateAggregatedAvailability(b)
           d == Succeeded(c, m, t)
<1>1. CASE c.quota.reason = "credential_quota" /\ c.quota.recover > now
  <2>1. d = c
    BY Zenon, <1>1 DEF Succeeded
  <2> QED
    BY Zenon, <2>1, WideSteps DEF SucceedsTo
<1>2. CASE ~ (c.quota.reason = "credential_quota" /\ c.quota.recover > now)
  <2>1. ~CredentialQuota(c)
    BY Zenon, <1>2 DEF CredentialQuota
  <2>2. Wide(c, d)
    BY Zenon, <2>1 DEF Wide
  <2>3. CASE ~resultMayClearModelState(StateOf(c, m), t)
    <3>1. d = c
      BY Zenon, <1>2, <2>3 DEF Succeeded
    <3> QED
      BY Zenon, <2>2, <3>1 DEF SucceedsTo
  <2>4. CASE resultMayClearModelState(StateOf(c, m), t)
    <3>1. d = Settled(e)
      BY Zenon, <1>2, <2>4 DEF Succeeded
    <3>2. c.models \in [Models -> States \cup {None}] /\ Reset \in States
      BY Zenon, CredentialFields, ResetType
    <3>3. /\ ms \in [Models -> States \cup {None}] /\ ms[m] = Reset
          /\ \A x \in Models : x # m => ms[x] = c.models[x]
      BY <3>2
    <3>4. b = [c EXCEPT !.models = ms]
      OBVIOUS
    <3>5. b \in Credentials /\ b.models = ms
      <4> HIDE DEF ms
      <4>1. [c EXCEPT !.models = ms] \in Credentials /\ [c EXCEPT !.models = ms].models = ms
        BY <3>3 DEF Credentials
      <4> QED
        BY Zenon, <3>4, <4>1
    <3> HIDE DEF b, ms
    <3>6. e \in Credentials /\ Eases(b, e) /\ Sound(e)
      BY Zenon, <3>5, AggregateType, AggregateRests
    <3> HIDE DEF e
    <3>7. Alike(e, d)
      BY Zenon, <3>1, <3>6, AlikeCredentials
    <3> HIDE DEF d
    <3>8. Eases(b, d) /\ Sound(d)
      BY Zenon, <3>6, <3>7, AlikeSteps
    <3>9. \A x \in Models : x # m => Eased(c.models[x], d.models[x])
      BY Zenon, <3>3, <3>5, <3>8 DEF Eases
    <3>10. Eased(Reset, d.models[m])
      BY Zenon, <3>3, <3>5, <3>8 DEF Eases
    <3>11. d.models[m] # None /\ ~d.models[m].unavailable /\ d.models[m].updated = now
      BY Zenon, <3>10, ResetRests DEF Eased
    <3> QED
      BY Zenon, <2>1, <2>2, <2>4, <3>8, <3>9, <3>11 DEF d, SucceedsTo
  <2> QED
    BY Zenon, <2>3, <2>4
<1> QED
  BY Zenon, <1>1, <1>2

\* Without cooldowns nothing rests.
LEMMA ClearCooldownRests ==
    ASSUME Clock, NEW c \in Credentials
    PROVE  LET d == clearCooldownStateForAuth(c) IN
           /\ ~CredentialQuota(d)
           /\ \A m \in Models : /\ d.models[m] = None \/ ~d.models[m].unavailable
                                /\ c.models[m] # None => d.models[m] # None
<1> DEFINE own == c.unavailable \/ c.retry # 0 \/ c.quota.exceeded \/ c.quota.recover # 0
           ms == [m \in Models |-> IF m \in Known(c) THEN ClearedState(c.models[m]) ELSE None]
           u == c.unavailable /\ ~own
           r == IF own THEN 0 ELSE c.retry
           q == IF own THEN NoQuota ELSE c.quota
           d == [c EXCEPT !.models = ms, !.unavailable = u, !.retry = r, !.quota = q]
           e == IF Known(c) # {} THEN updateAggregatedAvailability(d) ELSE d
           f == [e EXCEPT !.epoch = @ + 1, !.updated = now]
           changed == own \/ ms # c.models
<1>1. ASSUME NEW m \in Known(c)
      PROVE  ClearedState(c.models[m]) \in States /\ ~ClearedState(c.models[m]).unavailable
  <2> DEFINE s == c.models[m]
  <2>1. s \in States
    BY Zenon, CredentialFields
  <2> HIDE DEF s
  <2>2. ClearedState(s) \in States
    BY Zenon, <2>1, ClearedStateType
  <2>3. ~ClearedState(s).unavailable
    BY <2>1 DEF ClearedState, States
  <2> QED
    BY Zenon, <2>2, <2>3 DEF s
<1>2. /\ ms \in [Models -> States \cup {None}]
      /\ \A m \in Models : /\ ms[m] = None \/ ~ms[m].unavailable
                           /\ c.models[m] # None => ms[m] # None
  BY Zenon, <1>1, NotNil DEF Known
<1>3. u \in BOOLEAN /\ r \in Times /\ q \in Quotas
  BY Zenon, CredentialFields, TimesClosed, QuotaFields
<1>4. ~q.exceeded
  <2>1. NoQuota.exceeded = FALSE
    BY DEF NoQuota
  <2> QED
    BY Zenon, <2>1
<1>5. clearCooldownStateForAuth(c) = IF changed THEN f ELSE e
  BY Zenon DEF clearCooldownStateForAuth
<1>6. d \in Credentials /\ d.models = ms /\ d.quota = q
  <2> HIDE DEF ms, u, r, q
  <2> QED
    BY Zenon, <1>2, <1>3 DEF Credentials
<1> HIDE DEF d, ms, q
<1>7. ~CredentialQuota(d)
  BY Zenon, <1>4, <1>6 DEF CredentialQuota
<1>8. e \in Credentials /\ Eases(d, e) /\ ~CredentialQuota(e)
  <2>1. CASE Known(c) # {}
    <3>1. e = updateAggregatedAvailability(d)
      BY Zenon, <2>1
    <3> QED
      BY Zenon, <1>6, <1>7, <3>1, AggregateType, AggregateRests DEF NoWider, CredentialQuota
  <2>2. CASE Known(c) = {}
    <3>1. e = d
      BY Zenon, <2>2
    <3> QED
      BY Zenon, <1>6, <1>7, <3>1, EasedSteps
  <2> QED
    BY Zenon, <2>1, <2>2
<1> HIDE DEF e
<1>9. Alike(e, f) /\ Alike(e, e)
  BY Zenon, <1>8, AlikeCredentials
<1> HIDE DEF f
<1> DEFINE g == clearCooldownStateForAuth(c)
<1>10. Alike(e, g)
  BY Zenon, <1>5, <1>9
<1> HIDE DEF g
<1>11. Eases(d, g) /\ ~CredentialQuota(g)
  BY Zenon, <1>8, <1>10, AlikeSteps DEF Alike, CredentialQuota
<1>12. ASSUME NEW m \in Models
       PROVE  /\ g.models[m] = None \/ ~g.models[m].unavailable
              /\ c.models[m] # None => g.models[m] # None
  BY Zenon, <1>2, <1>6, <1>11 DEF Eases, Eased
<1> QED
  BY Zenon, <1>11, <1>12 DEF g

\* What is left of a cooldown without its 401 reaches as far as the other failures asked
\* for, and as far as an active quota.
LEMMA RemainingRests ==
    ASSUME Clock, NEW d \in Times, NEW i \in Times, NEW t, NEW q \in Quotas
    PROVE  LET next == remainingUnauthorizedCooldown(d, i, t, q) IN
           /\ i > now => next >= i
           /\ QuotaActive(q) => next >= q.recover
<1> DEFINE live == {x \in {i} : x > now} \cup {x \in {q.recover} : QuotaActive(q)}
           kept == Latest(live)
           next == remainingUnauthorizedCooldown(d, i, t, q)
<1>1. q.recover \in Times
  BY Zenon, QuotaFields
<1>2. live \subseteq {i, q.recover, 0} /\ live \subseteq Times
  BY Zenon, <1>1
<1>3. kept \in Times /\ \A y \in live : kept >= y
  <2>1. i \in Nat /\ q.recover \in Nat /\ 0 \in Nat
    BY Zenon, <1>1, TimesAreNumbers, TimesClosed
  <2>2. \A y \in live : kept >= y
    BY Zenon, <1>2, <2>1, LatestOf
  <2> QED
    BY Zenon, <1>2, <2>2, TimesClosed
<1>4. (i > now => i \in live) /\ (QuotaActive(q) => q.recover \in live)
  BY Zenon
<1>5. next = kept \/ next = Latest({kept, d})
  BY Zenon DEF remainingUnauthorizedCooldown
<1> HIDE DEF live, next
<1>6. kept \in Times
  BY Zenon, <1>3
<1> HIDE DEF kept
<1>7. next >= kept /\ next \in Nat /\ kept \in Nat
  <2>1. kept \in Nat
    BY Zenon, <1>6, TimesAreNumbers
  <2>2. kept >= kept
    BY <2>1
  <2>3. Latest({kept, d}) >= kept /\ Latest({kept, d}) \in Nat
    BY Zenon, <1>6, LaterOfTwo, TimesAreNumbers
  <2> QED
    BY Zenon, <1>5, <2>1, <2>2, <2>3
<1>8. i \in Nat /\ q.recover \in Nat
  BY Zenon, <1>1, TimesAreNumbers
<1>9. (i > now => next >= i) /\ (QuotaActive(q) => next >= q.recover)
  <2>1. (i > now => kept >= i) /\ (QuotaActive(q) => kept >= q.recover)
    BY Zenon, <1>3, <1>4
  <2> QED
    BY <1>7, <1>8, <2>1
<1> QED
  BY Zenon, <1>9 DEF next

\* The 401 of one model is retired.
LEMMA ClearUnauthorizedStateRests ==
    ASSUME Clock, NEW s \in States, s.err = "unauthorized"
    PROVE  Relieved(s, clearUnauthorizedState(s))
<1> DEFINE next == remainingUnauthorizedCooldown(s.retry, s.indep, s.updated, s.quota)
           blocked == QuotaActive(s.quota) \/ next > now
           a == IF blocked THEN "error" ELSE "active"
           q == IF blocked THEN s.quota ELSE NoQuota
           t == [s EXCEPT !.err = None, !.status = a, !.retry = next, !.unavailable = blocked,
                          !.updated = now, !.quota = q]
<1>1. s.retry \in Times /\ s.indep \in Times /\ s.quota \in Quotas
  BY Zenon, StateFields
<1>2. next \in Nat /\ s.indep \in Nat /\ now \in Nat
  BY Zenon, <1>1, RemainingType, TimesAreNumbers, ClockIsNumber
<1>3. s.indep > now => next >= s.indep
  BY Zenon, <1>1, RemainingRests
<1>4. s.indep > now => blocked
  <2>1. s.indep > now => next > now
    BY <1>2, <1>3
  <2> QED
    BY Zenon, <2>1
<1>5. clearUnauthorizedState(s) = t
  BY Zenon DEF clearUnauthorizedState
<1> HIDE DEF next, blocked, a, q
<1>6. /\ t.err = None /\ t.updated = now /\ t.indep = s.indep /\ t.retry = next
      /\ t.unavailable = blocked
  BY DEF States
<1> HIDE DEF t
<1>7. t \in States
  BY Zenon, <1>5, ClearUnauthorizedStateType
<1>8. s # None /\ t # None
  BY Zenon, <1>7, NotNil
<1>9. Relieved(s, t)
  BY Zenon, <1>3, <1>4, <1>6, <1>8 DEF Relieved
<1> QED
  BY Zenon, <1>5, <1>9

\* The 401s of the models are retired.
LEMMA ClearUnauthorizedModelsRests ==
    ASSUME Clock, NEW c \in Credentials
    PROVE  LET d == clearUnauthorizedModelStates(c) IN
           /\ Relieves(c, d) /\ Wide(c, d)
           /\ Sound(c) => Sound(d)
           /\ (\A m \in Known(c) : c.models[m].err # "unauthorized") => d = c
<1> DEFINE hit == {m \in Known(c) : c.models[m].err = "unauthorized"}
           ms == [m \in Models |-> IF m \in hit THEN clearUnauthorizedState(c.models[m])
                                   ELSE c.models[m]]
           d == [c EXCEPT !.models = ms]
           apart == /\ c.err # "unauthorized" /\ c.unavailable /\ c.retry > now
                    /\ ~ \E m \in Known(d) : d.models[m].err # None /\ d.models[m].err = c.err
           e == updateAggregatedAvailability(d)
           q == IF QuotaActive(c.quota) THEN c.quota ELSE e.quota
           r == IF apart THEN c.retry ELSE e.retry
           u == e.unavailable \/ apart
           f == [e EXCEPT !.quota = q, !.retry = r, !.unavailable = u]
           g == clearUnauthorizedModelStates(c)
<1>1. ASSUME NEW m \in Models PROVE ms[m] \in States \cup {None} /\ Relieved(c.models[m], ms[m])
  <2>1. CASE m \in hit
    <3>1. ms[m] = clearUnauthorizedState(c.models[m]) /\ c.models[m] \in States
      BY Zenon, <2>1, CredentialFields
    <3> QED
      BY Zenon, <2>1, <3>1, ClearUnauthorizedStateType, ClearUnauthorizedStateRests
  <2>2. CASE m \notin hit
    <3>1. ms[m] = c.models[m] /\ c.models[m] \in States \cup {None}
      BY Zenon, <2>2, CredentialFields
    <3> QED
      BY Zenon, <3>1 DEF Relieved
  <2> QED
    BY Zenon, <2>1, <2>2
<1>2. ms \in [Models -> States \cup {None}]
  BY Zenon, <1>1
<1>3. /\ d \in Credentials /\ d.models = ms /\ d.quota = c.quota /\ d.retry = c.retry
      /\ d.unavailable = c.unavailable
  <2> HIDE DEF ms
  <2> QED
    BY <1>2 DEF Credentials
<1>4. g = IF hit = {} THEN c ELSE f
  BY Zenon DEF clearUnauthorizedModelStates
<1>5. (\A m \in Known(c) : c.models[m].err # "unauthorized") => hit = {}
  BY Zenon
<1> HIDE DEF d, hit, g
<1>6. Relieves(c, d)
  BY Zenon, <1>1, <1>3 DEF Relieves
<1> HIDE DEF ms
<1>7. e \in Credentials /\ Eases(d, e) /\ Wide(d, e) /\ NoWider(d, e) /\ Sound(e)
  BY Zenon, <1>3, AggregateType, AggregateRests
<1> HIDE DEF e, apart
<1>8. u \in BOOLEAN /\ r \in Times /\ q \in Quotas
  BY Zenon, <1>7, CredentialFields DEF apart
<1>9. f \in Credentials /\ f.models = e.models /\ f.quota = q /\ f.retry = r /\ f.unavailable = u
  <2> HIDE DEF u, r, q
  <2> QED
    BY Zenon, <1>7, <1>8 DEF Credentials
<1> HIDE DEF f
<1>10. Relieves(c, f)
  <2>1. Relieves(d, f)
    BY Zenon, <1>7, <1>9, EasedSteps DEF Relieves, Eases
  <2> QED
    BY Zenon, <1>3, <1>6, <1>9, <2>1, RelievedSteps
<1>11. Wide(c, f)
  <2> SUFFICES ASSUME c.unavailable, CredentialQuota(c)
               PROVE  /\ f.unavailable /\ f.quota = c.quota
                      /\ f.retry >= c.retry \/ f.retry >= c.quota.recover
    BY Zenon DEF Wide
  <2>1. QuotaActive(c.quota) /\ CredentialQuota(d)
    BY Zenon, <1>3 DEF QuotaActive, CredentialQuota
  <2>2. e.unavailable /\ (e.retry >= c.retry \/ e.retry >= c.quota.recover)
    BY Zenon, <1>3, <1>7, <2>1 DEF Wide
  <2>3. c.retry \in Nat
    BY Zenon, CredentialFields, TimesAreNumbers
  <2>4. c.retry >= c.retry
    BY <2>3
  <2> QED
    BY Zenon, <1>9, <2>1, <2>2, <2>4
<1>12. Sound(f)
  <2> SUFFICES ASSUME CredentialQuota(f) PROVE f.unavailable
    BY Zenon DEF Sound
  <2>1. CASE QuotaActive(c.quota)
    <3>1. CredentialQuota(c) /\ CredentialQuota(d)
      BY Zenon, <1>3, <1>9, <2>1 DEF CredentialQuota
    <3>2. e = [d EXCEPT !.unavailable = TRUE]
      BY Zenon, <3>1 DEF e, updateAggregatedAvailability
    <3>3. e.unavailable
      BY <1>3, <3>2 DEF Credentials
    <3> QED
      BY Zenon, <1>9, <3>3
  <2>2. CASE ~QuotaActive(c.quota)
    <3>1. CredentialQuota(e)
      BY Zenon, <1>9, <2>2 DEF CredentialQuota
    <3> QED
      BY Zenon, <1>7, <1>9, <3>1 DEF Sound
  <2> QED
    BY Zenon, <2>1, <2>2
<1>13. Relieves(c, c) /\ Wide(c, c)
  BY Zenon, WideSteps DEF Relieves, Relieved
<1>14. /\ Relieves(c, g) /\ Wide(c, g) /\ (Sound(c) => Sound(g))
       /\ (\A m \in Known(c) : c.models[m].err # "unauthorized") => g = c
  BY Zenon, <1>4, <1>5, <1>10, <1>11, <1>12, <1>13
<1> QED
  BY Zenon, <1>14 DEF g

\* The 401 of the credential is retired with those of its models.
LEMMA ClearUnauthorizedAuthRests ==
    ASSUME Clock, NEW c \in Credentials, Sound(c)
    PROVE  LET d == clearUnauthorizedAuthState(c) IN
           /\ Relieves(c, d) /\ Wide(c, d) /\ Sound(d)
           /\ ~Recovers(c) => d = c
<1> DEFINE next == remainingUnauthorizedCooldown(c.retry, 0, c.updated, c.quota)
           blocked == QuotaActive(c.quota) \/ next > now
           b == clearUnauthorizedModelStates(c)
           d == [b EXCEPT !.err = None]
           e == updateAggregatedAvailability(d)
           held == blocked /\ (e.quota.reason = "credential_quota" \/ e.unavailable)
           f == [d EXCEPT !.retry = next, !.unavailable = blocked]
           u == e.unavailable \/ held
           r == IF held THEN Latest({e.retry, next}) ELSE e.retry
           g == [e EXCEPT !.unavailable = u, !.retry = r]
           h == clearUnauthorizedAuthState(c)
<1>1. /\ next \in Times /\ blocked \in BOOLEAN
      /\ QuotaActive(c.quota) => next >= c.quota.recover
  <2>1. c.retry \in Times /\ 0 \in Times /\ c.quota \in Quotas
    BY Zenon, CredentialFields, TimesClosed
  <2> QED
    BY Zenon, <2>1, RemainingType, RemainingRests
<1>2. b \in Credentials /\ Relieves(c, b) /\ Wide(c, b) /\ Sound(b)
  BY Zenon, ClearUnauthorizedModelsType, ClearUnauthorizedModelsRests
<1>3. h = IF c.err # "unauthorized" THEN b ELSE IF Known(c) = {} THEN f ELSE g
  BY Zenon DEF clearUnauthorizedAuthState
<1>4. (Known(c) = {} => b = c) /\ (~Recovers(c) => b = c /\ c.err # "unauthorized")
  BY Zenon, ClearUnauthorizedModelsRests DEF Recovers
<1> HIDE DEF b, h
<1>5. d \in Credentials /\ Alike(b, d)
  <2>1. None \in Errs
    BY Zenon DEF Errs
  <2> QED
    BY <1>2, <2>1 DEF Credentials, Errs, Alike
<1> HIDE DEF d
<1>6. Relieves(c, d) /\ Wide(c, d)
  BY Zenon, <1>2, <1>5, AlikeSteps
<1>7. e \in Credentials /\ Eases(d, e) /\ Wide(d, e) /\ Sound(e)
  BY Zenon, <1>5, AggregateType, AggregateRests
<1> HIDE DEF e, next
<1>8. Relieves(c, e) /\ Wide(c, e)
  <2>1. Relieves(d, e)
    BY Zenon, <1>7, EasedSteps
  <2> QED
    BY Zenon, <1>5, <1>6, <1>7, <2>1, RelievedSteps, WideSteps
<1>9. u \in BOOLEAN /\ r \in Times /\ (r >= e.retry)
  <2>1. e.retry \in Times /\ e.retry \in Nat
    BY Zenon, <1>7, CredentialFields, TimesAreNumbers
  <2>2. e.retry >= e.retry
    BY <2>1
  <2> QED
    BY Zenon, <1>1, <1>7, <2>1, <2>2, CredentialFields, LaterOfTwo
<1> HIDE DEF r
<1>10. /\ f.models = d.models /\ f.quota = d.quota /\ f.retry = next /\ f.unavailable = blocked
  <2> HIDE DEF blocked
  <2> QED
    BY <1>5 DEF Credentials
<1>11. /\ g.models = e.models /\ g.quota = e.quota /\ g.retry = r /\ g.unavailable = u
  <2> HIDE DEF u
  <2> QED
    BY <1>7 DEF Credentials
<1> HIDE DEF f, g
<1>12. Relieves(c, g) /\ Wide(c, g) /\ Sound(g)
  <2>1. Relieves(c, g)
    BY Zenon, <1>8, <1>11 DEF Relieves
  <2>2. Sound(g)
    BY Zenon, <1>7, <1>11 DEF Sound, CredentialQuota
  <2>3. r \in Nat /\ e.retry \in Nat /\ c.retry \in Nat /\ c.quota.recover \in Nat
    BY Zenon, <1>7, <1>9, CredentialFields, QuotaFields, TimesAreNumbers
  <2>4. ASSUME c.unavailable, CredentialQuota(c)
        PROVE  g.unavailable /\ g.quota = c.quota /\ (g.retry >= c.retry \/ g.retry >= c.quota.recover)
    <3>1. e.unavailable /\ e.quota = c.quota /\ (e.retry >= c.retry \/ e.retry >= c.quota.recover)
      BY Zenon, <1>8, <2>4 DEF Wide
    <3>2. r >= c.retry \/ r >= c.quota.recover
      BY <1>9, <2>3, <3>1
    <3> QED
      BY Zenon, <1>11, <3>1, <3>2
  <2> QED
    BY Zenon, <2>1, <2>2, <2>4 DEF Wide
<1>13. Known(c) = {} => Relieves(c, f) /\ Wide(c, f) /\ Sound(f)
  <2> SUFFICES ASSUME Known(c) = {} PROVE Relieves(c, f) /\ Wide(c, f) /\ Sound(f)
    BY Zenon
  <2>1. f.models = c.models /\ f.quota = c.quota
    BY Zenon, <1>4, <1>5, <1>10 DEF Alike
  <2>2. Relieves(c, f)
    BY Zenon, <2>1 DEF Relieves, Relieved
  <2>3. CredentialQuota(c) => QuotaActive(c.quota)
    BY Zenon DEF CredentialQuota, QuotaActive
  <2>4. Wide(c, f)
    BY Zenon, <1>1, <1>10, <2>1, <2>3 DEF Wide
  <2>5. Sound(f)
    BY Zenon, <1>10, <2>1, <2>3 DEF Sound, CredentialQuota
  <2> QED
    BY Zenon, <2>2, <2>4, <2>5
<1>14. Relieves(c, h) /\ Wide(c, h) /\ Sound(h) /\ (~Recovers(c) => h = c)
  BY Zenon, <1>2, <1>3, <1>4, <1>12, <1>13
<1> QED
  BY Zenon, <1>14 DEF h

\* A new token.
LEMMA NewTokenRests ==
    ASSUME Clock, NEW c \in Credentials, Sound(c)
    PROVE  /\ Relieves(c, WithNewToken(c)) /\ Wide(c, WithNewToken(c)) /\ Sound(WithNewToken(c))
           /\ ~Recovers(c) => Alike(c, WithNewToken(c))
<1> DEFINE d == clearUnauthorizedAuthState(c)
<1>1. d \in Credentials /\ Relieves(c, d) /\ Wide(c, d) /\ Sound(d) /\ (~Recovers(c) => d = c)
  BY Zenon, ClearUnauthorizedAuthType, ClearUnauthorizedAuthRests
<1>2. WithNewToken(c) = [d EXCEPT !.version = @ + 1, !.updated = now]
  BY Zenon DEF WithNewToken
<1> HIDE DEF d
<1>3. Alike(d, WithNewToken(c))
  BY Zenon, <1>1, <1>2, AlikeCredentials
<1> QED
  BY Zenon, <1>1, <1>3, AlikeSteps

\* The answer of a refresh is merged into what it finds.
LEMMA MergeRefreshedRests ==
    ASSUME Clock, NEW b \in Credentials, NEW c \in Credentials, Sound(c)
    PROVE  LET d == MergeRefreshedAuth(b, c) IN
           /\ Relieves(c, d) /\ Wide(c, d) /\ NoWider(c, d) /\ Sound(d)
           /\ \A m \in Models : Unaltered(b, c, m) \/ d.models[m] = c.models[m]
<1> DEFINE b1 == [b EXCEPT !.err = None, !.unavailable = FALSE, !.updated = now]
           n == Refreshed(b)
           keep == \/ authAvailabilityChanged(b, c)
                   \/ CredentialQuota(c)
                   \/ c.unavailable /\ c.retry > now
           u == c.unavailable /\ keep
           er == IF keep THEN c.err ELSE None
           ms == [m \in Models |-> IF Unaltered(b, c, m) THEN n.models[m] ELSE c.models[m]]
           f == [c EXCEPT !.unavailable = u, !.err = er, !.models = ms]
<1>1. b1 \in Credentials /\ b1.models = b.models
  <2>1. now \in Times
    BY Zenon, NowTimes
  <2> QED
    BY Zenon, <2>1 DEF Credentials
<1>2. n = clearUnauthorizedModelStates(b1)
  BY Zenon DEF Refreshed
<1> HIDE DEF b1
<1>3. Relieves(b1, n)
  BY Zenon, <1>1, <1>2, ClearUnauthorizedModelsRests
<1>4. MergeRefreshedAuth(b, c) = f
  BY Zenon DEF MergeRefreshedAuth
<1> HIDE DEF n
<1>5. ASSUME NEW m \in Models PROVE Relieved(c.models[m], ms[m])
  <2>1. Relieved(b.models[m], n.models[m]) /\ Relieved(c.models[m], c.models[m])
    BY Zenon, <1>1, <1>3 DEF Relieves, Relieved
  <2>2. ms[m] = c.models[m] \/ (b.models[m] = c.models[m] /\ ms[m] = n.models[m])
    BY Zenon DEF Unaltered
  <2> QED
    BY Zenon, <2>1, <2>2
<1>6. /\ f.models = ms /\ f.unavailable = u /\ f.retry = c.retry /\ f.quota = c.quota
  <2> HIDE DEF ms, u, er
  <2> QED
    BY DEF Credentials
<1>7. \A m \in Models : Unaltered(b, c, m) \/ f.models[m] = c.models[m]
  BY Zenon, <1>6
<1> HIDE DEF f, ms
<1>8. Relieves(c, f)
  BY Zenon, <1>5, <1>6 DEF Relieves
<1>9. c.retry \in Nat /\ c.retry >= c.retry
  <2>1. c.retry \in Nat
    BY Zenon, CredentialFields, TimesAreNumbers
  <2> QED
    BY <2>1
<1>10. Wide(c, f) /\ NoWider(c, f) /\ Sound(f)
  BY Zenon, <1>6, <1>9 DEF Wide, NoWider, Sound, CredentialQuota
<1> QED
  BY Zenon, <1>4, <1>8, <1>10, <1>7

\* A credential is read again from its file.
LEMMA IncomingRests ==
    ASSUME Clock, NEW c \in Credentials, Sound(c)
    PROVE  LET d == Incoming(c) IN
           d.models = c.models /\ Wide(c, d) /\ NoWider(c, d) /\ Sound(d)
<1> DEFINE keep == c.unavailable /\ (c.retry > now \/ QuotaActive(c.quota) \/ c.err = "unauthorized")
           q == IF QuotaActive(c.quota) THEN c.quota ELSE NoQuota
           r == IF keep THEN c.retry ELSE 0
           e == IF keep THEN c.err ELSE None
           t == IF keep THEN c.updated ELSE 0
           d == [c EXCEPT !.quota = q, !.unavailable = keep, !.retry = r, !.err = e, !.updated = t]
<1>1. Incoming(c) = d
  BY Zenon DEF Incoming
<1>2. d.models = c.models /\ d.quota = q /\ d.unavailable = keep /\ d.retry = r
  <2> HIDE DEF keep, q, r, e, t
  <2> QED
    BY DEF Credentials
<1> HIDE DEF d
<1>3. ~NoQuota.exceeded
  BY DEF NoQuota
<1>4. c.retry \in Nat /\ c.retry >= c.retry
  <2>1. c.retry \in Nat
    BY Zenon, CredentialFields, TimesAreNumbers
  <2> QED
    BY <2>1
<1>5. CredentialQuota(d) => QuotaActive(c.quota) /\ q = c.quota /\ CredentialQuota(c)
  BY Zenon, <1>2, <1>3 DEF CredentialQuota
<1>6. CredentialQuota(c) => QuotaActive(c.quota) /\ keep
  BY Zenon DEF CredentialQuota, QuotaActive, Sound
<1>7. Wide(c, d)
  BY Zenon, <1>2, <1>4, <1>6 DEF Wide
<1>8. NoWider(c, d) /\ Sound(d)
  BY Zenon, <1>2, <1>5, <1>6 DEF NoWider, Sound
<1> QED
  BY Zenon, <1>1, <1>2, <1>7, <1>8

-----------------------------------------------------------------------------
(* What is owed, and what covers it. *)

Owes(o) == o.any > now \/ o.token > now

\* A state, or a record of it, reaches as far as what is owed.
Covers(s, o) == /\ o.any > now => s.retry >= o.any /\ s.indep >= o.any
                /\ o.token > now => s.retry >= o.token

\* So does the quota of the credential.
Spans(retry, q, d) ==
    q.exceeded /\ q.reason = "credential_quota" /\ q.recover >= d /\ retry >= d

RestingAll(c, a) == a > now => c.unavailable /\ Spans(c.retry, c.quota, a)

OneRecord(D) == \A r, t \in D : r.model = t.model => r = t

\* What a step that lifts nothing may do to a state.
Lasts(s, t) ==
    \/ t = s
    \/ /\ s # None /\ t # None /\ t.updated \in {s.updated, now}
       /\ Waiting(s) => t.unavailable /\ t.retry >= s.retry /\ t.indep >= s.indep

\* No more is owed than before.
Less(p, o) == (p.any = 0 \/ p.any = o.any) /\ (p.token = 0 \/ p.token = o.token)

\* What was covered is covered when less is owed.
LEMMA LessCovers ==
    ASSUME Clock
    PROVE  /\ \A p, o : Less(p, o) => (Owes(p) => Owes(o)) /\ \A s : Covers(s, o) => Covers(s, p)
           /\ \A p : p.any = 0 /\ p.token = 0 => ~Owes(p)
           /\ ~Owes(NothingOwed) /\ NothingOwed.at = 0 /\ \A o : Less(NothingOwed, o) /\ Less(o, o)
<1>1. ~ (0 > now)
  <2>1. now \in Nat /\ now > 0
    BY Zenon, ClockIsNumber
  <2> QED
    BY <2>1
<1>2. NothingOwed.any = 0 /\ NothingOwed.token = 0 /\ NothingOwed.at = 0
  BY DEF NothingOwed
<1> QED
  BY Zenon, <1>1, <1>2 DEF Less, Owes, Covers

\* What covers a debt ends after now.
LEMMA CoversWaits ==
    ASSUME Clock, NEW s, s.retry \in Times, NEW o \in Debts, Owes(o), Covers(s, o)
    PROVE  s.retry > now
<1>1. s.retry \in Nat /\ now \in Nat /\ o.any \in Nat /\ o.token \in Nat
  BY Zenon, ClockIsNumber, TimesAreNumbers, DebtsType
<1>2. (o.any > now /\ s.retry >= o.any) \/ (o.token > now /\ s.retry >= o.token)
  BY Zenon DEF Owes, Covers
<1> QED
  BY <1>1, <1>2

\* Deadlines that are later cover as much.
LEMMA LaterCovers ==
    ASSUME Clock, NEW s, s.retry \in Nat, s.indep \in Nat, NEW t, t.retry \in Nat, t.indep \in Nat,
           t.retry >= s.retry, t.indep >= s.indep, NEW o \in Debts, Covers(s, o)
    PROVE  Covers(t, o)
<1>1. o.any \in Nat /\ o.token \in Nat
  BY Zenon, TimesAreNumbers, DebtsType
<1>2. /\ o.any > now => s.retry >= o.any /\ s.indep >= o.any
      /\ o.token > now => s.retry >= o.token
  BY Zenon DEF Covers
<1>3. /\ o.any > now => t.retry >= o.any /\ t.indep >= o.any
      /\ o.token > now => t.retry >= o.token
  BY <1>1, <1>2
<1> QED
  BY Zenon, <1>3 DEF Covers

\* A state that lasts covers what it covered.
LEMMA LastsCovers ==
    ASSUME Clock, NEW s \in States \cup {None}, NEW t \in States \cup {None}, NEW o \in Debts,
           Owes(o), s # None, s.unavailable, Covers(s, o), Lasts(s, t)
    PROVE  t # None /\ t.unavailable /\ Covers(t, o)
<1>1. s \in States /\ s.retry \in Times /\ s.retry \in Nat /\ s.indep \in Nat
  BY Zenon, StateFields, TimesAreNumbers
<1>2. Waiting(s)
  BY Zenon, <1>1, CoversWaits DEF Waiting
<1>3. CASE t = s
  BY Zenon, <1>3
<1>4. CASE t # s
  <2>1. t # None /\ t.unavailable /\ t.retry >= s.retry /\ t.indep >= s.indep
    BY Zenon, <1>2, <1>4 DEF Lasts
  <2>2. t.retry \in Nat /\ t.indep \in Nat
    BY Zenon, <2>1, StateNumbers
  <2>3. Covers(t, o)
    BY Zenon, <1>1, <2>1, <2>2, LaterCovers
  <2> QED
    BY Zenon, <2>1, <2>3
<1> QED
  BY Zenon, <1>3, <1>4

\* A credential wide quota that goes on spans what it spanned.
LEMMA WideSpans ==
    ASSUME Clock, NEW c \in Credentials, NEW d \in Credentials, NEW a \in Times,
           RestingAll(c, a), Wide(c, d)
    PROVE  RestingAll(d, a)
<1> SUFFICES ASSUME a > now PROVE d.unavailable /\ Spans(d.retry, d.quota, a)
  BY Zenon DEF RestingAll
<1>1. c.unavailable /\ Spans(c.retry, c.quota, a)
  BY Zenon DEF RestingAll
<1>2. /\ a \in Nat /\ now \in Nat /\ c.retry \in Nat /\ d.retry \in Nat /\ c.quota.recover \in Nat
  BY Zenon, CredentialFields, QuotaFields, TimesAreNumbers, ClockIsNumber
<1>3. c.quota.recover >= a /\ c.retry >= a
  BY Zenon, <1>1 DEF Spans
<1>4. c.quota.recover > now
  BY <1>2, <1>3
<1>5. CredentialQuota(c)
  BY Zenon, <1>1, <1>4 DEF Spans, CredentialQuota
<1>6. d.unavailable /\ d.quota = c.quota /\ (d.retry >= c.retry \/ d.retry >= c.quota.recover)
  BY Zenon, <1>1, <1>5 DEF Wide
<1>7. d.retry >= a
  BY <1>2, <1>3, <1>6
<1> QED
  BY Zenon, <1>1, <1>6, <1>7 DEF Spans

\* A credential wide quota that is owed is there.
LEMMA SpansQuota ==
    ASSUME Clock, NEW c \in Credentials, NEW a \in Times, a > now, RestingAll(c, a)
    PROVE  CredentialQuota(c) /\ c.unavailable /\ c.retry > now /\ c.quota.recover >= a
<1>1. c.unavailable /\ Spans(c.retry, c.quota, a)
  BY Zenon DEF RestingAll
<1>2. a \in Nat /\ now \in Nat /\ c.retry \in Nat /\ c.quota.recover \in Nat
  BY Zenon, CredentialFields, QuotaFields, TimesAreNumbers, ClockIsNumber
<1>3. c.quota.recover >= a /\ c.retry >= a
  BY Zenon, <1>1 DEF Spans
<1>4. c.quota.recover > now /\ c.retry > now
  BY <1>2, <1>3
<1> QED
  BY Zenon, <1>1, <1>3, <1>4 DEF Spans, CredentialQuota

\* What a token relieves covers what is owed without it.
LEMMA RelievedCovers ==
    ASSUME Clock, NEW s \in States \cup {None}, NEW t \in States \cup {None}, NEW o \in Debts,
           NEW p \in Debts, Less(p, o), Owes(p), s # None, s.unavailable, Covers(s, o),
           Relieved(s, t), s.err = "unauthorized" => p.token = 0
    PROVE  t # None /\ t.unavailable /\ Covers(t, p)
<1>1. s \in States /\ s.retry \in Times /\ s.retry \in Nat /\ s.indep \in Nat /\ now \in Nat
  BY Zenon, StateFields, TimesAreNumbers, ClockIsNumber
<1>2. Owes(o) /\ Covers(s, p)
  BY Zenon, LessCovers
<1>3. Waiting(s)
  BY Zenon, <1>1, <1>2, CoversWaits DEF Waiting
<1>4. CASE t = s
  BY Zenon, <1>2, <1>4
<1>5. CASE t # s
  <2>1. s.err = "unauthorized" /\ p.token = 0 /\ t # None
    BY Zenon, <1>3, <1>5 DEF Relieved
  <2>2. ~ (0 > now)
    <3>1. now > 0
      BY Zenon, ClockIsNumber
    <3> QED
      BY <1>1, <3>1
  <2>3. p.any > now
    BY Zenon, <2>1, <2>2 DEF Owes
  <2>4. s.indep >= p.any
    BY Zenon, <1>2, <2>3 DEF Covers
  <2>5. p.any \in Nat
    BY Zenon, DebtsType, TimesAreNumbers
  <2>6. s.indep > now
    BY <1>1, <2>3, <2>4, <2>5
  <2>7. t.unavailable /\ t.retry >= s.indep /\ t.indep = s.indep
    BY Zenon, <1>3, <1>5, <2>6 DEF Relieved
  <2>8. t.retry \in Nat
    BY Zenon, <2>1, StateNumbers
  <2>9. t.retry >= p.any
    BY <1>1, <2>4, <2>5, <2>7, <2>8
  <2>10. Covers(t, p)
    BY Zenon, <2>1, <2>2, <2>4, <2>7, <2>9 DEF Covers
  <2> QED
    BY Zenon, <2>1, <2>7, <2>10
<1> QED
  BY Zenon, <1>4, <1>5

-----------------------------------------------------------------------------
(* What a failure asks for. *)

\* The deadline MarkResult gives the model of a failure.
Given(v, kind) == IF kind = "forced" /\ v.retry = 0 THEN now + Minute ELSE v.retry

\* It lies no earlier than what the failure asks for by itself.
LEMMA AskedRests ==
    ASSUME Clock, cred \in Credentials, NEW m \in Models, NEW kind \in Kinds,
           NEW hint \in Hints \cup {None}, NEW on \in BOOLEAN, Asked(m, kind, hint, on) # 0
    PROVE  LET v == Verdict(cred, m, kind, hint, on) IN
           /\ Given(v, kind) >= Asked(m, kind, hint, on)
           /\ kind = "forced" \/ v.retry # 0
           /\ kind \in {"quota", "credential"} => on
<1> DEFINE s == StateOf(cred, m)
           v == Verdict(cred, m, kind, hint, on)
           p == QuotaForFailure(cred, m, kind)
           w == QuotaWindow(p, hint, on)
           d == Asked(m, kind, hint, on)
<1>1. v.retry \in Times /\ d \in Times /\ w.next \in Times /\ s \in States
  BY Zenon, VerdictType, AskedType, QuotaForFailureType, QuotaWindowType, CredentialFields
<1>2. CASE kind \in {"quota", "credential"}
  <2>1. kind # "forced"
    BY <1>2
  <2>2. d = w.next /\ Given(v, kind) = v.retry
    BY Zenon, <1>2, <2>1 DEF Asked, Given
  <2>3. on
    <3>1. ~on => w = [next |-> 0, level |-> p.level]
      BY Zenon DEF QuotaWindow
    <3> HIDE DEF w, p
    <3>2. ~on => w.next = 0
      BY <3>1
    <3> QED
      BY Zenon, <2>2, <3>2
  <2>4. v.retry = Extended(s, w.next)
    <3> DEFINE x == Extended(s, w.next)
               q == [exceeded |-> TRUE, reason |-> "quota", recover |-> x, level |-> w.level]
    <3>1. v = [retry |-> x, quota |-> q]
      <4> DEFINE f == nextCloudflareCooldown(s.quota.level, on)
                 Keep(next) == [retry |-> next, quota |-> s.quota]
                 Over(next, why, level) ==
                    [retry |-> next, quota |-> [exceeded |-> TRUE, reason |-> why,
                                                recover |-> next, level |-> level]]
                 a == IF on THEN now + Unauthorized ELSE 0
                 b == IF on THEN now + Long ELSE 0
                 y == IF on THEN x ELSE 0
                 o == IF on /\ hint # None THEN now + hint
                      ELSE recoverableFailureRetryAfter(None, on)
                 t == recoverableFailureRetryAfter(hint, on)
                 z == recoverableFailureRetryAfter(None, on)
                 l == now + Long
      <4>1. v = CASE kind = "support" -> Keep(l)
                  [] kind = "cloudflare" -> Over(f.next, "cloudflare challenge", f.level)
                  [] kind \in {"grant", "unauthorized", "payment"} -> Keep(a)
                  [] kind = "missing" -> Keep(b)
                  [] kind \in {"quota", "credential"} -> Over(y, "quota", w.level)
                  [] kind = "overloaded" -> Keep(o)
                  [] kind = "transient" -> Keep(t)
                  [] OTHER -> Keep(z)
        BY Zenon DEF Verdict
      <4>2. y = x
        BY Zenon, <2>3
      <4> HIDE DEF v, w, f, a, b, x, y, o, t, z, l, Keep, Over
      <4>3. v = Over(y, "quota", w.level)
        BY <1>2, <4>1
      <4> QED
        BY Zenon, <4>2, <4>3 DEF Over
    <3> HIDE DEF v, x, q
    <3>2. v.retry = x
      BY <3>1
    <3> QED
      BY Zenon, <3>2 DEF x
  <2>5. s.quota.recover \in Times
    BY Zenon, <1>1, StateFields, QuotaFields
  <2> HIDE DEF v, w, s, d
  <2>6. w.next \in Nat
    BY Zenon, <1>1, TimesAreNumbers
  <2>7. Extended(s, w.next) >= w.next
    <3>1. Latest({w.next, s.quota.recover}) >= w.next
      BY Zenon, <1>1, <2>5, LaterOfTwo
    <3>2. w.next >= w.next
      BY <2>6
    <3> QED
      BY Zenon, <3>1, <3>2 DEF Extended
  <2>8. d # 0
    BY Zenon DEF d
  <2>9. v.retry \in Nat
    BY Zenon, <1>1, TimesAreNumbers
  <2>10. v.retry # 0 /\ v.retry >= d
    BY <2>2, <2>4, <2>6, <2>7, <2>8, <2>9
  <2> QED
    BY Zenon, <2>2, <2>3, <2>10 DEF v, d
<1>3. CASE kind \notin {"quota", "credential"}
  <2>1. d = Given(v, kind)
    BY Zenon, <1>3 DEF Asked, Given
  <2>2. d \in Nat
    BY Zenon, <1>1, TimesAreNumbers
  <2> HIDE DEF d
  <2>3. d >= d
    BY <2>2
  <2>4. kind = "forced" \/ v.retry # 0
    BY Zenon, <2>1 DEF Given, d
  <2> QED
    BY Zenon, <1>3, <2>1, <2>3, <2>4 DEF d
<1> QED
  BY Zenon, <1>2, <1>3

\* What a failure makes of the state s of its model.
FailsTo(s, f, v, kind, d) ==
    /\ f.updated = now /\ f.err = kind
    /\ d # 0 /\ Given(v, kind) >= d /\ (kind = "forced" \/ v.retry # 0) =>
         /\ f.unavailable /\ f.retry >= d
         /\ s.retry > now => f.retry >= s.retry
         /\ f.indep >= s.indep
         /\ kind # "unauthorized" => f.indep >= d

\* The state of the model that failed rests until then, and as long as it did before; only
\* a 401 does not count as a failure of another kind.
LEMMA FailedStateRests ==
    ASSUME Clock, NEW s \in States, NEW v, v.retry \in Times, v.quota \in Quotas,
           NEW kind \in Kinds, NEW on \in BOOLEAN, NEW d \in Times
    PROVE  FailsTo(s, FailedState(s, v, kind, on), v, kind, d)
<1> DEFINE retry == IF kind = "forced" /\ v.retry = 0 THEN now + Minute ELSE v.retry
           open == ~on /\ v.retry = 0 /\ v.quota.recover = 0
           u == \/ kind = "forced"
                \/ /\ ~open
                   /\ kind \in {"overloaded", "transient", "other"} => v.retry # 0
           r == IF retry # 0 /\ s.retry > now THEN Latest({retry, s.retry}) ELSE retry
           i == rememberIndependentCooldown(s.indep, retry, kind)
           x == v.quota.exceeded /\ ~open
           q == [v.quota EXCEPT !.exceeded = x]
           f == [status |-> "error", unavailable |-> u, retry |-> r, indep |-> i, err |-> kind,
                 quota |-> q, updated |-> now]
<1>1. retry \in Times /\ s.retry \in Times /\ s.indep \in Times
  BY Zenon, NowTimes, StateFields
<1>2. retry = Given(v, kind)
  BY Zenon DEF Given
<1>3. FailedState(s, v, kind, on) = f
  BY Zenon DEF FailedState
<1>4. kind = "forced" \/ v.retry # 0 => u
  BY Zenon
<1> HIDE DEF retry, u, q
<1>5. /\ retry \in Nat /\ s.retry \in Nat /\ s.indep \in Nat /\ d \in Nat
      /\ Latest({retry, s.retry}) >= retry /\ Latest({retry, s.retry}) >= s.retry
      /\ Latest({retry, s.retry}) \in Nat
      /\ Latest({s.indep, retry}) >= retry /\ Latest({s.indep, retry}) >= s.indep
      /\ Latest({s.indep, retry}) \in Nat
  BY Zenon, <1>1, TimesAreNumbers, LaterOfTwo
<1>6. ASSUME d # 0, retry >= d
      PROVE  /\ r >= d /\ (s.retry > now => r >= s.retry)
             /\ i >= s.indep /\ (kind # "unauthorized" => i >= d)
  <2>1. retry # 0
    BY <1>5, <1>6
  <2>2. i = IF kind # "unauthorized" THEN Latest({s.indep, retry}) ELSE s.indep
    BY Zenon, <2>1 DEF rememberIndependentCooldown
  <2>3. r = IF s.retry > now THEN Latest({retry, s.retry}) ELSE retry
    BY Zenon, <2>1
  <2> HIDE DEF i, r
  <2> DEFINE a == Latest({retry, s.retry})
             b == Latest({s.indep, retry})
  <2> HIDE DEF a, b
  <2>4. /\ a >= retry /\ a >= s.retry /\ a \in Nat /\ b >= retry /\ b >= s.indep /\ b \in Nat
        /\ i = (IF kind # "unauthorized" THEN b ELSE s.indep)
        /\ r = (IF s.retry > now THEN a ELSE retry)
    BY Zenon, <1>5, <2>2, <2>3 DEF a, b
  <2> QED
    BY <1>5, <1>6, <2>4
<1> HIDE DEF r, i
<1>7. /\ f.unavailable = u /\ f.retry = r /\ f.indep = i /\ f.err = kind /\ f.updated = now
  OBVIOUS
<1> HIDE DEF f
<1>8. /\ f.updated = now /\ f.err = kind
      /\ d # 0 /\ Given(v, kind) >= d /\ (kind = "forced" \/ v.retry # 0) =>
                /\ f.unavailable /\ f.retry >= d
                /\ s.retry > now => f.retry >= s.retry
                /\ f.indep >= s.indep
                /\ kind # "unauthorized" => f.indep >= d
  BY Zenon, <1>2, <1>4, <1>6, <1>7
<1> QED
  BY Zenon, <1>3, <1>8 DEF FailsTo

\* A sibling of a model that met a credential wide quota rests no less.
LEMMA PropagatedRests ==
    ASSUME Clock, NEW s \in States, NEW d \in Times, NEW l \in Levels, NEW t,
           Eased(Propagated(s, d, l), t)
    PROVE  Lasts(s, t)
<1> DEFINE x == Extended(s, d)
           r == Latest({s.retry, x})
           q == [exceeded |-> TRUE, reason |-> "credential_quota", recover |-> x, level |-> l]
           p == [s EXCEPT !.unavailable = TRUE, !.status = "error", !.retry = r, !.quota = q]
<1>1. x \in Times /\ s.retry \in Times /\ s.indep \in Times
  BY Zenon, ExtendedType, StateFields
<1>2. r >= s.retry /\ r \in Nat /\ s.retry \in Nat /\ s.indep \in Nat /\ now \in Nat
  BY Zenon, <1>1, LaterOfTwo, TimesAreNumbers, ClockIsNumber
<1>3. Propagated(s, d, l) = p
  BY Zenon DEF Propagated
<1>4. Propagated(s, d, l) # None /\ s # None
  BY Zenon, PropagatedType, NotNil
<1> HIDE DEF x, r, q
<1>5. /\ p.unavailable = TRUE /\ p.retry = r /\ p.indep = s.indep /\ p.updated = s.updated
  BY DEF States
<1> HIDE DEF p
<1>6. Waiting(s) => r > now
  <2>1. s.retry > now => r > now
    BY <1>2
  <2> QED
    BY Zenon, <2>1 DEF Waiting
<1>7. Waiting(s) => Waiting(p)
  BY Zenon, <1>5, <1>6 DEF Waiting
<1>8. p # None /\ Eased(p, t)
  BY Zenon, <1>3, <1>4
<1>9. s.indep >= s.indep
  BY <1>2
<1>10. CASE t = p
  BY Zenon, <1>2, <1>4, <1>5, <1>8, <1>9, <1>10 DEF Lasts
<1>11. CASE t # p
  BY Zenon, <1>4, <1>5, <1>7, <1>8, <1>11 DEF Lasts, Eased
<1> QED
  BY Zenon, <1>10, <1>11

\* What a failure makes of the credential, f, when it asks model m to rest until d: s was
\* the state of the model and q the quota that MarkResult starts from.
FailureRests(f, d, s, q, m, kind, on) ==
    /\ Sound(f)
    /\ f.models[m] # None /\ f.models[m].updated = now
    /\ \A x \in Models : x # m => Lasts(cred.models[x], f.models[x])
    /\ d # 0 /\ (d > now \/ Waiting(s)) =>
         LET t == f.models[m] IN
         /\ t.unavailable /\ t.err = kind /\ t.retry >= d
         /\ Waiting(s) => t.retry >= s.retry
         /\ t.indep >= s.indep
         /\ kind # "unauthorized" => t.indep >= d
    /\ kind # "credential" \/ (d = 0 /\ ~on) => Wide(cred, f)
    /\ kind = "credential" /\ on =>
         \A a \in Times : a > now /\ (d >= a \/ q.recover >= a)
             => f.unavailable /\ Spans(f.retry, f.quota, a)

\* A failure.
LEMMA FailedRests ==
    ASSUME Clock, cred \in Credentials, NEW m \in Models, NEW kind \in Kinds,
           NEW hint \in Hints \cup {None}, NEW on \in BOOLEAN
    PROVE  FailureRests(Failed(cred, m, kind, hint, on), Asked(m, kind, hint, on),
                        StateOf(cred, m), QuotaForFailure(cred, m, kind), m, kind, on)
<1> DEFINE c == cred
           p == QuotaForFailure(c, m, kind)
           v == Verdict(c, m, kind, hint, on)
           w == QuotaWindow(p, hint, on)
           wide == kind = "credential" /\ on
           s == StateOf(c, m)
           own == FailedState(s, v, kind, on)
           ms == [x \in Models |->
                    IF x = m THEN own
                    ELSE IF wide /\ x \in Known(c) THEN Propagated(c.models[x], w.next, w.level)
                    ELSE c.models[x]]
           u == c.unavailable \/ wide
           l == Latest({w.next, p.recover})
           r == IF wide THEN l ELSE c.retry
           q == IF wide THEN [exceeded |-> TRUE, reason |-> "credential_quota",
                              recover |-> l, level |-> w.level]
                ELSE c.quota
           e == [c EXCEPT !.models = ms, !.err = kind, !.unavailable = u, !.retry = r, !.quota = q]
           f == updateAggregatedAvailability(e)
           d == Asked(m, kind, hint, on)
<1>1. s \in States /\ c.quota \in Quotas /\ c.retry \in Times /\ p \in Quotas /\ d \in Times
  BY Zenon, CredentialFields, QuotaForFailureType, AskedType
<1>2. w.next \in Times /\ w.level \in Levels /\ p.recover \in Times
  BY Zenon, <1>1, QuotaWindowType, QuotaFields
<1>3. v.retry \in Times /\ v.quota \in Quotas
  BY Zenon, VerdictType
<1>4. Failed(cred, m, kind, hint, on) = f
  BY Zenon DEF Failed
<1>5. kind = "credential" => d = w.next
  BY Zenon DEF Asked
<1>6. d # 0 => Given(v, kind) >= d /\ (kind = "forced" \/ v.retry # 0)
  BY Zenon, AskedRests
<1> HIDE DEF v, w, p, s, d
<1>7. own \in States
  <2> QED
    BY <1>1, <1>3, FailedStateType
<1>8. /\ own.updated = now /\ own.err = kind
      /\ d # 0 => /\ own.unavailable /\ own.retry >= d
                  /\ s.retry > now => own.retry >= s.retry
                  /\ own.indep >= s.indep
                  /\ kind # "unauthorized" => own.indep >= d
  <2>1. LET f1 == FailedState(s, v, kind, on) IN
        /\ f1.updated = now /\ f1.err = kind
        /\ d # 0 /\ Given(v, kind) >= d /\ (kind = "forced" \/ v.retry # 0) =>
             /\ f1.unavailable /\ f1.retry >= d
             /\ s.retry > now => f1.retry >= s.retry
             /\ f1.indep >= s.indep
             /\ kind # "unauthorized" => f1.indep >= d
    BY <1>1, <1>3, FailedStateRests DEF FailsTo
  <2> QED
    BY Zenon, <1>6, <2>1
<1> HIDE DEF own
<1>9. \A x \in Models : ms[x] \in States \cup {None}
  BY Zenon, <1>2, <1>7, CredentialFields, PropagatedType
<1>10. ms \in [Models -> States \cup {None}] /\ ms[m] = own
  BY Zenon, <1>9
<1>11. /\ l \in Times /\ l >= w.next /\ l >= p.recover
  BY Zenon, <1>2, LaterOfTwo
<1> HIDE DEF l
<1>12. u \in BOOLEAN /\ r \in Times /\ q \in Quotas
  <2>1. [exceeded |-> TRUE, reason |-> "credential_quota", recover |-> l, level |-> w.level]
          \in Quotas
    BY <1>2, <1>11 DEF Quotas
  <2> QED
    BY Zenon, <1>1, <1>11, <2>1, CredentialFields
<1>13. wide => /\ u /\ r = l /\ q.exceeded /\ q.reason = "credential_quota" /\ q.recover = l
  <2> DEFINE y == [exceeded |-> TRUE, reason |-> "credential_quota", recover |-> l,
                   level |-> w.level]
  <2>1. y.exceeded /\ y.reason = "credential_quota" /\ y.recover = l
    OBVIOUS
  <2> HIDE DEF y
  <2>2. wide => q = y
    BY Zenon DEF y
  <2> HIDE DEF q
  <2> QED
    BY Zenon, <2>1, <2>2
<1>14. ~wide => u = c.unavailable /\ r = c.retry /\ q = c.quota
  BY Zenon, CredentialFields
<1>15. ASSUME NEW x \in Models, x # m, NEW t, Eased(ms[x], t) PROVE Lasts(c.models[x], t)
  <2>1. CASE wide /\ x \in Known(c)
    <3>1. c.models[x] \in States /\ ms[x] = Propagated(c.models[x], w.next, w.level)
      BY Zenon, <1>15, <2>1, CredentialFields
    <3> HIDE DEF ms
    <3> QED
      BY Zenon, <1>2, <1>15, <3>1, PropagatedRests
  <2>2. CASE ~ (wide /\ x \in Known(c))
    <3>1. ms[x] = c.models[x]
      BY Zenon, <1>15, <2>2
    <3> HIDE DEF ms
    <3> QED
      BY Zenon, <1>15, <3>1 DEF Lasts, Eased
  <2> QED
    BY Zenon, <2>1, <2>2
<1> HIDE DEF ms, u, r, q
<1>16. /\ e \in Credentials /\ e.models = ms /\ e.unavailable = u /\ e.retry = r /\ e.quota = q
  BY Zenon, <1>10, <1>12 DEF Credentials
<1> HIDE DEF e
<1>17. f \in Credentials /\ Eases(e, f) /\ Wide(e, f) /\ Sound(f)
  BY Zenon, <1>16, AggregateType, AggregateRests
<1> HIDE DEF f
<1>18. Eased(own, f.models[m]) /\ \A x \in Models : Eased(ms[x], f.models[x])
  BY Zenon, <1>10, <1>16, <1>17 DEF Eases
<1>19. own # None
  BY Zenon, <1>7, NotNil
<1>20. f.models[m] # None /\ f.models[m].updated = now
  BY Zenon, <1>8, <1>18, <1>19 DEF Eased
<1>21. ASSUME d # 0, d > now \/ Waiting(s)
       PROVE  LET t == f.models[m] IN
              /\ t.unavailable /\ t.err = kind /\ t.retry >= d
              /\ Waiting(s) => t.retry >= s.retry
              /\ t.indep >= s.indep
              /\ kind # "unauthorized" => t.indep >= d
  <2>1. own.retry \in Nat /\ d \in Nat /\ now \in Nat /\ s.retry \in Nat
    BY Zenon, <1>1, <1>7, StateNumbers, ClockIsNumber, TimesAreNumbers
  <2>2. Waiting(s) => s.retry > now
    BY Zenon DEF Waiting
  <2>3. own.retry >= d /\ (s.retry > now => own.retry >= s.retry)
    BY Zenon, <1>8, <1>21
  <2>4. own.retry > now
    BY <1>21, <2>1, <2>2, <2>3
  <2>5. f.models[m] = own
    BY Zenon, <1>8, <1>18, <1>21, <2>4 DEF Eased, Waiting
  <2> QED
    BY Zenon, <1>8, <1>21, <2>2, <2>5
<1>22. ~wide => Wide(c, f)
  BY Zenon, <1>14, <1>16, <1>17 DEF Wide, CredentialQuota
<1>23. ASSUME wide, NEW a \in Times, a > now, d >= a \/ p.recover >= a
       PROVE  f.unavailable /\ Spans(f.retry, f.quota, a)
  <2>1. d = w.next
    BY Zenon, <1>5, <1>23
  <2>2. /\ l \in Nat /\ d \in Nat /\ p.recover \in Nat /\ a \in Nat /\ now \in Nat
        /\ f.retry \in Nat
    BY Zenon, <1>1, <1>2, <1>11, <1>17, CredentialFields, TimesAreNumbers, ClockIsNumber
  <2>3. l >= a /\ l > now
    BY <1>11, <1>23, <2>1, <2>2
  <2>4. CredentialQuota(e) /\ e.unavailable
    BY Zenon, <1>13, <1>16, <1>23, <2>3 DEF CredentialQuota
  <2>5. f.unavailable /\ f.quota = q /\ (f.retry >= e.retry \/ f.retry >= e.quota.recover)
    BY Zenon, <1>16, <1>17, <2>4 DEF Wide
  <2>6. f.retry >= l
    BY Zenon, <1>13, <1>16, <1>23, <2>5
  <2>7. f.retry >= a
    BY <2>2, <2>3, <2>6
  <2> QED
    BY Zenon, <1>13, <1>23, <2>3, <2>5, <2>7 DEF Spans
<1>24. \A x \in Models : x # m => Lasts(cred.models[x], f.models[x])
  BY Zenon, <1>15, <1>18
<1>25. kind # "credential" \/ (d = 0 /\ ~on) => Wide(cred, f)
  BY Zenon, <1>22
<1>26. Sound(f)
  BY Zenon, <1>17
<1> QED
  <2>1. FailureRests(f, d, s, p, m, kind, on)
    BY Zenon, <1>20, <1>21, <1>23, <1>24, <1>25, <1>26 DEF FailureRests
  <2> QED
    BY Zenon, <1>4, <2>1 DEF d, s, p

\* A debt is dated now, and a failure that asks for no rest leaves none; another one adds
\* its own deadline.
LEMMA OwingNow ==
    ASSUME Clock, NEW o \in Debts, NEW d \in Times, NEW kind \in Kinds
    PROVE  LET p == Owing(o, kind, d) IN
           /\ p.at = now
           /\ d = 0 => p.any = 0 /\ p.token = 0
           /\ p.token \in {o.token, d, 0}
           /\ p.any = o.any \/ p.any = 0 \/ (p.any = d /\ kind # "unauthorized")
<1> DEFINE a == Latest({o.token, d})
           b == Latest({o.any, d})
           c == Latest({o.may, o.any})
           p == Owing(o, kind, d)
<1>1. p = IF d = 0 THEN [NothingOwed EXCEPT !.may = c, !.at = now]
          ELSE IF kind = "unauthorized" THEN [o EXCEPT !.token = a, !.at = now]
          ELSE [o EXCEPT !.any = b, !.at = now]
  BY Zenon DEF Owing
<1>2. a \in {o.token, d} /\ b \in {o.any, d}
  BY Zenon, DebtsType, LaterOfTwo
<1> HIDE DEF a, b, c, p
<1>3. CASE d = 0
  <2>1. p.at = now /\ p.any = 0 /\ p.token = 0
    BY <1>1, <1>3 DEF NothingOwed
  <2> QED
    BY Zenon, <2>1 DEF p
<1>4. CASE d # 0 /\ kind = "unauthorized"
  <2>1. p.at = now /\ p.any = o.any /\ p.token = a
    BY <1>1, <1>4 DEF Debts
  <2> QED
    BY Zenon, <1>2, <1>4, <2>1 DEF p
<1>5. CASE d # 0 /\ kind # "unauthorized"
  <2>1. p.at = now /\ p.any = b /\ p.token = o.token
    BY <1>1, <1>5 DEF Debts
  <2> QED
    BY Zenon, <1>2, <1>5, <2>1 DEF p
<1> QED
  BY Zenon, <1>3, <1>4, <1>5

\* The state of the model that failed covers what it is owed from then on.
LEMMA OwingCovers ==
    ASSUME Clock, NEW o \in Debts, NEW kind \in Kinds, NEW d \in Times, d # 0,
           NEW s \in States, NEW t \in States,
           Owes(o) => Waiting(s) /\ Covers(s, o),
           t.retry >= d, Waiting(s) => t.retry >= s.retry, t.indep >= s.indep,
           kind # "unauthorized" => t.indep >= d
    PROVE  Covers(t, Owing(o, kind, d))
<1> DEFINE p == Owing(o, kind, d)
<1>1. p.token \in {o.token, d, 0} /\ (p.any = o.any \/ p.any = 0 \/ (p.any = d /\ kind # "unauthorized"))
  BY Zenon, OwingNow
<1>2. o.any \in Times /\ o.token \in Times
  BY Zenon, DebtsType
<1> HIDE DEF p
<1>4. /\ p.token = o.token \/ p.token = d \/ p.token = 0
      /\ p.any = o.any \/ p.any = 0 \/ (p.any = d /\ kind # "unauthorized")
  BY Zenon, <1>1
<1>5. /\ o.any > now => Waiting(s) /\ s.retry >= o.any /\ s.indep >= o.any
      /\ o.token > now => Waiting(s) /\ s.retry >= o.token
  BY Zenon DEF Owes, Covers
<1>6. /\ o.any \in Nat /\ o.token \in Nat /\ d \in Nat /\ now \in Nat
      /\ s.retry \in Nat /\ s.indep \in Nat /\ t.retry \in Nat /\ t.indep \in Nat
  BY Zenon, <1>2, TimesAreNumbers, ClockIsNumber, StateNumbers
<1> DEFINE w == Waiting(s)
<1> HIDE DEF w
<1>7. /\ o.any > now => w /\ s.retry >= o.any /\ s.indep >= o.any
      /\ o.token > now => w /\ s.retry >= o.token
      /\ w => t.retry >= s.retry
  BY Zenon, <1>5 DEF w
<1>8. /\ p.any > now => t.retry >= p.any /\ t.indep >= p.any
      /\ p.token > now => t.retry >= p.token
  BY <1>4, <1>6, <1>7
<1>9. Covers(t, p)
  BY Zenon, <1>8 DEF Covers
<1> QED
  BY Zenon, <1>9 DEF p

-----------------------------------------------------------------------------
(* What the store keeps. *)

\* The records D tell of every resting state of the credential c, and of nothing else.
Snapshot(D, c) ==
    /\ \A m \in Known(c) : Waiting(c.models[m]) => ModelRecord(m, c.models[m]) \in D
    /\ c.unavailable /\ c.retry > now => AuthRecord(c) \in D
    /\ \A r \in D : \/ r.model \in Models /\ r = ModelRecord(r.model, c.models[r.model])
                    \/ r.model = None /\ r = AuthRecord(c)
    /\ CredentialQuota(c) => RestoredQuota(AuthRecord(c)) = c.quota

\* What is saved of a credential.
LEMMA RecordsRest ==
    ASSUME Clock, NEW c \in Credentials
    PROVE  Snapshot(cooldownStateRecordsForAuth(c, TRUE), c)
<1> DEFINE D == cooldownStateRecordsForAuth(c, TRUE)
           W == {x \in Known(c) : Waiting(c.models[x])}
           M == {ModelRecord(m, c.models[m]) : m \in W}
           O == IF c.unavailable /\ c.retry > now THEN {AuthRecord(c)} ELSE {}
<1>1. D = M \cup O
  BY Zenon DEF cooldownStateRecordsForAuth
<1>2. \A m, s : ModelRecord(m, s).model = m
  BY DEF ModelRecord
<1>3. AuthRecord(c).model = None /\ AuthRecord(c).quota = c.quota
  BY DEF AuthRecord
<1>4. CredentialQuota(c) => c.quota.recover # 0
  <2>1. now \in Nat /\ c.quota.recover \in Nat
    BY Zenon, ClockIsNumber, CredentialFields, QuotaFields, TimesAreNumbers
  <2> QED
    BY <2>1 DEF CredentialQuota
<1>5. CredentialQuota(c) => RestoredQuota(AuthRecord(c)) = c.quota
  BY Zenon, <1>3, <1>4 DEF RestoredQuota
<1>6. \A m \in Known(c) : m \in Models
  BY Zenon DEF Known
<1>7. \A r \in M : r.model \in Models /\ r = ModelRecord(r.model, c.models[r.model])
  BY Zenon, <1>2, <1>6
<1>8. \A m \in Known(c) : Waiting(c.models[m]) => ModelRecord(m, c.models[m]) \in M
  BY Zenon
<1>9. \A r \in O : r = AuthRecord(c)
  BY Zenon
<1>10. c.unavailable /\ c.retry > now => AuthRecord(c) \in O
  BY Zenon
<1> HIDE DEF D, M, O
<1>11. /\ \A m \in Known(c) : Waiting(c.models[m]) => ModelRecord(m, c.models[m]) \in D
       /\ c.unavailable /\ c.retry > now => AuthRecord(c) \in D
  BY Zenon, <1>1, <1>8, <1>10
<1>12. \A r \in D : \/ r.model \in Models /\ r = ModelRecord(r.model, c.models[r.model])
                    \/ r.model = None /\ r = AuthRecord(c)
  BY Zenon, <1>1, <1>3, <1>7, <1>9
<1> QED
  BY Zenon, <1>5, <1>11, <1>12 DEF D, Snapshot

\* A record is merged into the state of its model: the later of each deadline.
LEMMA RestoredStateRests ==
    ASSUME NEW s \in States, NEW r \in Records
    PROVE  LET t == RestoredState(s, r) IN
           /\ t # None /\ t.unavailable
           /\ t.retry = Latest({s.retry, r.retry}) /\ t.indep = Latest({s.indep, r.indep})
           /\ t.updated = Latest({s.updated, r.updated})
<1> DEFINE b == [status |-> "error", unavailable |-> TRUE, retry |-> r.retry, indep |-> r.indep,
                 err |-> r.err, quota |-> RestoredQuota(r), updated |-> r.updated]
           t == RestoredState(s, r)
<1>1. t = mergeModelState(s, b)
  BY Zenon DEF RestoredState
<1>2. b.unavailable /\ b.retry = r.retry /\ b.indep = r.indep /\ b.updated = r.updated
  OBVIOUS
<1> HIDE DEF b
<1>3. /\ t.unavailable = (s.unavailable \/ b.unavailable)
      /\ t.retry = Latest({s.retry, b.retry}) /\ t.indep = Latest({s.indep, b.indep})
      /\ t.updated = Latest({s.updated, b.updated})
  <2> DEFINE newer == b.updated > s.updated
             first == IF newer THEN b ELSE s
             other == IF newer THEN s ELSE b
             unavailable == s.unavailable \/ b.unavailable
             exceeded == s.quota.exceeded \/ b.quota.exceeded
             status == IF unavailable \/ exceeded THEN "error" ELSE first.status
             retry == Latest({s.retry, b.retry})
             indep == Latest({s.indep, b.indep})
             err == IF first.err # None THEN first.err ELSE other.err
             quota == [exceeded |-> exceeded,
                       reason |-> IF first.quota.reason # "" THEN first.quota.reason
                                  ELSE other.quota.reason,
                       recover |-> Latest({s.quota.recover, b.quota.recover}),
                       level |-> Latest({s.quota.level, b.quota.level})]
             updated == Latest({s.updated, b.updated})
  <2>1. t = [status |-> status, unavailable |-> unavailable, retry |-> retry, indep |-> indep,
             err |-> err, quota |-> quota, updated |-> updated]
    BY Zenon, <1>1 DEF mergeModelState
  <2> HIDE DEF status, unavailable, retry, indep, err, quota, updated, t
  <2>2. /\ t.unavailable = unavailable /\ t.retry = retry /\ t.indep = indep
        /\ t.updated = updated
    BY <2>1
  <2> QED
    BY Zenon, <2>2 DEF unavailable, retry, indep, updated
<1>4. t # None
  BY Zenon, RestoredStateType, NotNil
<1>5. /\ t.unavailable /\ t.retry = Latest({s.retry, r.retry})
      /\ t.indep = Latest({s.indep, r.indep}) /\ t.updated = Latest({s.updated, r.updated})
  BY Zenon, <1>2, <1>3
<1> HIDE DEF t
<1> QED
  BY Zenon, <1>4, <1>5 DEF t

\* What restoring the records D makes of the credential c: the live record of a model is
\* merged into its state, that of the credential sets the summary, and the rest is eased.
Restores(c, d, D, on) ==
    LET Live(r) == on /\ r.retry > now
    IN  /\ \A r \in D : Live(r) /\ r.model \in Models
             => d.models[r.model] = RestoredState(StateOf(c, r.model), r)
        /\ \A m \in Models : (\A r \in D : Live(r) => r.model # m)
             => Eased(c.models[m], d.models[m])
        /\ \A r \in D : Live(r) /\ r.model = None
             => d.unavailable /\ d.retry = r.retry /\ d.quota = RestoredQuota(r)
        /\ (\A r \in D : Live(r) => r.model # None) => Wide(c, d) /\ NoWider(c, d)
        /\ Sound(c) => Sound(d)

\* Restoring: the live record of a model is merged into its state, that of the credential
\* replaces its summary, and what has no live record goes on as it was.
LEMMA RestoreRests ==
    ASSUME Clock, NEW c \in Credentials, NEW records, records \subseteq Records,
           OneRecord(records), NEW on \in BOOLEAN
    PROVE  Restores(c, RestoreCooldownStates(c, records, on), records, on)
<1> DEFINE Live(r) == on /\ r.retry > now
           live == IF on THEN {r \in records : r.retry > now} ELSE {}
           Of(m) == {r \in live : r.model = m}
           ms == [m \in Models |-> IF Of(m) = {} THEN c.models[m]
                                   ELSE RestoredState(StateOf(c, m), CHOOSE r \in Of(m) : TRUE)]
           d == [c EXCEPT !.models = ms]
           e == IF \E m \in Models : Of(m) # {} THEN updateAggregatedAvailability(d) ELSE d
           own == CHOOSE r \in Of(None) : TRUE
           f == [e EXCEPT !.unavailable = TRUE, !.retry = own.retry, !.err = own.err,
                          !.quota = RestoredQuota(own), !.updated = own.updated]
           g == RestoreCooldownStates(c, records, on)
<1>1. \A r \in records : Live(r) => Of(r.model) = {r}
  <2> SUFFICES ASSUME NEW r \in records, Live(r) PROVE Of(r.model) = {r}
    BY Zenon
  <2>1. r \in Of(r.model)
    BY Zenon
  <2>2. \A x \in Of(r.model) : x = r
    BY Zenon DEF OneRecord
  <2> QED
    BY Zenon, <2>1, <2>2
<1>2. \A m : (\A r \in records : Live(r) => r.model # m) => Of(m) = {}
  BY Zenon
<1>3. \A r : (CHOOSE x \in {r} : TRUE) = r
  BY Zenon
<1>4. \A m : Of(m) \subseteq Records /\ (Of(m) # {} => (CHOOSE r \in Of(m) : TRUE) \in Of(m))
  BY Zenon
<1>5. g = IF Of(None) = {} THEN e ELSE f
  BY Zenon DEF RestoreCooldownStates
<1>6. \A m : \A r \in Of(m) : r.retry > now
  BY Zenon
<1> HIDE DEF Of, g
<1>7. ASSUME NEW m \in Models PROVE ms[m] \in States \cup {None}
  <2>1. StateOf(c, m) \in States /\ c.models[m] \in States \cup {None}
    BY Zenon, CredentialFields
  <2>2. Of(m) # {} => (CHOOSE r \in Of(m) : TRUE) \in Records
    BY Zenon, <1>4
  <2> QED
    BY Zenon, <2>1, <2>2, RestoredStateType
<1>8. ms \in [Models -> States \cup {None}]
  BY Zenon, <1>7
<1>9. ASSUME NEW m \in Models, Of(m) # {} PROVE ms[m] # None /\ Waiting(ms[m])
  <2> DEFINE r == CHOOSE x \in Of(m) : TRUE
             s == StateOf(c, m)
  <2>1. r \in Records /\ r.retry > now /\ s \in States
    BY Zenon, <1>4, <1>6, <1>9, CredentialFields
  <2>2. ms[m] = RestoredState(s, r)
    BY Zenon, <1>9
  <2> HIDE DEF r, s
  <2> HIDE DEF ms
  <2>3. ms[m] # None /\ ms[m].unavailable /\ ms[m].retry = Latest({s.retry, r.retry})
    <3> DEFINE t == RestoredState(s, r)
    <3>1. t # None /\ t.unavailable /\ t.retry = Latest({s.retry, r.retry})
      BY Zenon, <2>1, RestoredStateRests
    <3> HIDE DEF t
    <3>2. ms[m] = t
      BY Zenon, <2>2 DEF t
    <3> QED
      BY Zenon, <3>1, <3>2
  <2>4. s.retry \in Times /\ r.retry \in Times
    BY Zenon, <2>1, StateFields, RecordFields
  <2>5. Latest({s.retry, r.retry}) >= r.retry /\ Latest({s.retry, r.retry}) \in Times
    BY Zenon, <2>4, LaterOfTwo
  <2>6. ms[m].retry >= r.retry /\ ms[m].retry \in Nat /\ r.retry \in Nat /\ now \in Nat
    BY Zenon, <2>3, <2>4, <2>5, TimesAreNumbers, ClockIsNumber
  <2>7. ms[m].retry > now
    BY <2>1, <2>6
  <2> QED
    BY Zenon, <2>3, <2>7 DEF Waiting
<1>10. /\ \A r \in records : Live(r) /\ r.model \in Models
              => ms[r.model] = RestoredState(StateOf(c, r.model), r) /\ Of(r.model) # {}
       /\ \A m \in Models : Of(m) = {} => ms[m] = c.models[m]
  <2>1. ASSUME NEW r \in records, Live(r), r.model \in Models
        PROVE  ms[r.model] = RestoredState(StateOf(c, r.model), r) /\ Of(r.model) # {}
    <3>1. Of(r.model) = {r} /\ {r} # {}
      BY Zenon, <1>1, <2>1
    <3>2. (CHOOSE x \in Of(r.model) : TRUE) = r
      BY Zenon, <1>3, <3>1
    <3>3. ms[r.model] = RestoredState(StateOf(c, r.model), CHOOSE x \in Of(r.model) : TRUE)
      BY Zenon, <2>1, <3>1
    <3> QED
      BY Zenon, <3>1, <3>2, <3>3
  <2> QED
    BY Zenon, <2>1
<1>11. /\ d \in Credentials /\ d.models = ms /\ d.quota = c.quota /\ d.retry = c.retry
       /\ d.unavailable = c.unavailable
  <2> HIDE DEF ms
  <2> QED
    BY <1>8 DEF Credentials
<1> HIDE DEF ms, d
<1>12. e \in Credentials /\ Eases(d, e) /\ Wide(d, e) /\ NoWider(d, e) /\ (Sound(d) => Sound(e))
  <2>1. Eases(d, d) /\ Wide(d, d) /\ NoWider(d, d)
    BY Zenon, <1>11, WideSteps, EasedSteps DEF NoWider
  <2> QED
    BY Zenon, <1>11, <2>1, AggregateType, AggregateRests
<1> HIDE DEF e
<1>13. Wide(c, e) /\ NoWider(c, e) /\ (Sound(c) => Sound(e))
  BY Zenon, <1>11, <1>12 DEF Wide, NoWider, Sound, CredentialQuota
<1>14. /\ \A r \in records : Live(r) /\ r.model \in Models
              => e.models[r.model] = RestoredState(StateOf(c, r.model), r)
       /\ \A m \in Models : Of(m) = {} => Eased(c.models[m], e.models[m])
  <2>1. \A m \in Models : Eased(ms[m], e.models[m])
    BY Zenon, <1>11, <1>12 DEF Eases
  <2>2. \A m \in Models : Of(m) # {} => e.models[m] = ms[m]
    BY Zenon, <1>9, <2>1 DEF Eased
  <2> QED
    BY Zenon, <1>10, <2>1, <2>2
<1>15. /\ f.models = e.models /\ f.unavailable = TRUE /\ f.retry = own.retry
       /\ f.quota = RestoredQuota(own)
  <2> HIDE DEF own
  <2> QED
    BY <1>12 DEF Credentials
<1> HIDE DEF f
<1>16. \A r \in records : Live(r) /\ r.model = None => Of(None) # {} /\ own = r
  BY Zenon, <1>1, <1>3
<1> HIDE DEF own
<1>17. Sound(f)
  BY Zenon, <1>15 DEF Sound
<1>18. g.models = e.models
  BY Zenon, <1>5, <1>15
<1>19. /\ \A r \in records : Live(r) /\ r.model \in Models
            => g.models[r.model] = RestoredState(StateOf(c, r.model), r)
       /\ \A m \in Models : (\A r \in records : Live(r) => r.model # m)
            => Eased(c.models[m], g.models[m])
  BY Zenon, <1>2, <1>14, <1>18
<1>20. /\ \A r \in records : Live(r) /\ r.model = None
            => g.unavailable /\ g.retry = r.retry /\ g.quota = RestoredQuota(r)
       /\ (\A r \in records : Live(r) => r.model # None) => Wide(c, g) /\ NoWider(c, g)
       /\ Sound(c) => Sound(g)
  BY Zenon, <1>2, <1>5, <1>13, <1>15, <1>16, <1>17
<1> QED
  BY Zenon, <1>19, <1>20 DEF g, Restores

\* What is owed together is covered by what covers both.
LEMMA TogetherCovers ==
    ASSUME NEW o \in Debts, NEW p \in Debts
    PROVE  /\ Owes(Together(o, p)) => Owes(o) \/ Owes(p)
           /\ \A s : Covers(s, o) /\ Covers(s, p) => Covers(s, Together(o, p))
           /\ \A s : (~Owes(o) => Covers(s, o)) /\ (~Owes(p) => Covers(s, p))
           /\ Together(o, p).at \in {o.at, p.at}
           /\ Together(o, p).at >= o.at /\ Together(o, p).at >= p.at
<1>1. /\ o.any \in Times /\ p.any \in Times /\ o.token \in Times /\ p.token \in Times
      /\ o.at \in Times /\ p.at \in Times
  BY Zenon, DebtsType
<1>2. /\ Together(o, p).any = Latest({o.any, p.any})
      /\ Together(o, p).token = Latest({o.token, p.token})
      /\ Together(o, p).at = Latest({o.at, p.at})
  BY Zenon, TogetherType
<1>3. /\ Together(o, p).any \in {o.any, p.any} /\ Together(o, p).token \in {o.token, p.token}
      /\ Together(o, p).at \in {o.at, p.at}
      /\ Together(o, p).at >= o.at /\ Together(o, p).at >= p.at
  BY Zenon, <1>1, <1>2, LaterOfTwo
<1>4. Owes(Together(o, p)) => Owes(o) \/ Owes(p)
  BY Zenon, <1>3 DEF Owes
<1>5. \A s : Covers(s, o) /\ Covers(s, p) => Covers(s, Together(o, p))
  BY Zenon, <1>3 DEF Covers
<1>6. \A s : (~Owes(o) => Covers(s, o)) /\ (~Owes(p) => Covers(s, p))
  BY Zenon DEF Owes, Covers
<1> QED
  BY Zenon, <1>3, <1>4, <1>5, <1>6

===============================================================================
