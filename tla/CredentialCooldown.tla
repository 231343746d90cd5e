------------------------- MODULE CredentialCooldown -------------------------
(***************************************************************************)
(* The cooldown bookkeeping of one credential (sdk/cliproxy/auth:          *)
(* conductor_cooldown.go, credential_recovery.go, selector.go).            *)
(*                                                                         *)
(* A credential keeps one state per model it was used for, and a summary   *)
(* of its own.  Requests run concurrently; each reports its outcome, late, *)
(* through MarkResult.  A failure blocks the model (or, for a credential   *)
(* wide quota, every model) until a deadline; a success, an explicit       *)
(* reset, a refreshed token or a configuration change lifts blocks; the    *)
(* deadlines are written to disk after each change and read back when the  *)
(* process starts again or its configuration is reloaded.                  *)
(*                                                                         *)
(* Time is a natural number that only grows; 0 is Go's zero time.  The     *)
(* durations of the code keep their order, not their size.                 *)
(*                                                                         *)
(* Every result names a model (MarkResult falls back to the route model),  *)
(* so the paths of a result without one are not reachable and not here.    *)
(***************************************************************************)
EXTENDS Integers, FiniteSets, FiniteSetsExt

CONSTANTS
    Models,        \* the models the credential serves
    Requests,      \* concurrent requests that use it
    Kinds,         \* the kinds of failure explored
    Hints,         \* the Retry-After values an upstream may send
    LongestHint,   \* none of them is longer
    None,          \* nil
    Base, Ceiling, \* quotaBackoffBase, quotaBackoffMax
    Floor,         \* minQuotaCooldownFloor
    Transient,     \* the configured cooldown of a transient failure; negative: none
    Minute,        \* transientErrorCooldown
    Unauthorized,  \* unauthorizedCooldown
    Long,          \* 12 hours
    Horizon,       \* the last instant explored
    MaxEvents      \* the number of results and administrative steps explored

AllKinds == {"support", "cloudflare", "grant", "unauthorized", "payment",
             "missing", "quota", "credential", "overloaded", "transient",
             "other", "forced", "skipped"}

ASSUME ConstantsOK ==
    /\ IsFiniteSet(Models) /\ Models # {} /\ None \notin Models
    /\ Kinds \subseteq AllKinds
    /\ Hints \subseteq 1..LongestHint
    /\ {Base, Ceiling, Floor, Minute, Unauthorized, Long, LongestHint} \subseteq Nat \ {0}
    /\ Transient \in Int
    /\ Horizon \in Nat \ {0} /\ MaxEvents \in Nat

\* A fact of arithmetic: doubling reaches every ceiling.
ASSUME DoublingGrows == \A l \in 0..Ceiling : 2^l \in Nat /\ 2^l > l

VARIABLES
    now,       \* the clock
    cred,      \* the credential in the manager's map
    cooling,   \* FALSE when the configuration disables cooldowns for it
    attempts,  \* what each request bound to its result when it was sent
    refresh,   \* the credential as the running token refresh read it, or None
    disk,      \* the cooldown records of the store
    dirty,     \* a change of the records is yet to be saved
    owed,      \* history: the deadlines the failures so far ask for
    owedAll,   \* history: the deadline of the credential wide quota
    saved,     \* history: what was owed when the records were last saved
    durable,   \* history: the store has every change; it has none without cooldowns
    events     \* results and administrative steps so far

vars == <<now, cred, cooling, attempts, refresh, disk, dirty, owed, owedAll, saved, durable,
          events>>

----------------------------------------------------------------------------
(* Data.                                                                    *)

NoQuota == [exceeded |-> FALSE, reason |-> "", recover |-> 0, level |-> 0]

\* ModelState as ensureModelState makes it.
Fresh == [status |-> "active", unavailable |-> FALSE, retry |-> 0, indep |-> 0,
          err |-> None, quota |-> NoQuota, updated |-> 0]

\* A registered credential without runtime state.
Clean == [unavailable |-> FALSE, retry |-> 0, err |-> None, quota |-> NoQuota,
          updated |-> 0, epoch |-> 1, version |-> 1,
          models |-> [m \in Models |-> None]]

Known(c) == {m \in Models : c.models[m] # None}

\* The last and the first of some deadlines, 0 if there are none.
Latest(S) == IF \E d \in S : \A e \in S : d >= e THEN Max(S) ELSE 0
Earliest(S) == IF \E d \in S : \A e \in S : d =< e THEN Min(S) ELSE 0

StateOf(c, m) == IF c.models[m] = None THEN Fresh ELSE c.models[m]

CredentialQuota(c) ==
    c.quota.exceeded /\ c.quota.reason = "credential_quota" /\ c.quota.recover > now

QuotaActive(q) == q.exceeded /\ (q.recover = 0 \/ q.recover > now)

----------------------------------------------------------------------------
(* Selection: until when a model is blocked.  Forever stands for a block    *)
(* without a deadline, 0 for no block.                                      *)

Forever == Horizon + Long + Unauthorized + Ceiling + Floor + Minute
               + LongestHint + Max({Transient, 1})

availabilityBlock(unavailable, exceeded, retry, recover) ==
    IF ~unavailable /\ ~exceeded THEN 0
    ELSE IF Latest({retry, recover}) > now THEN Latest({retry, recover})
    ELSE IF retry # 0 \/ recover # 0 THEN 0
    ELSE Forever

modelAvailabilityBlock(s) ==
    availabilityBlock(s.unavailable, s.quota.exceeded, s.retry, s.quota.recover)

authAvailabilityBlock(c) ==
    availabilityBlock(c.unavailable,
                      c.quota.exceeded /\ (Known(c) = {} \/ c.unavailable
                                              \/ c.quota.reason = "credential_quota"),
                      c.retry, c.quota.recover)

isAuthBlockedForModel(c, m) ==
    IF CredentialQuota(c) THEN c.quota.recover
    ELSE IF Known(c) = {} THEN authAvailabilityBlock(c)
    ELSE IF c.models[m] = None THEN 0
    ELSE modelAvailabilityBlock(c.models[m])

----------------------------------------------------------------------------
(* The summary of the model states.                                         *)

Lapsed(s) == s.unavailable /\ s.retry # 0 /\ s.retry <= now

Waiting(s) == s.unavailable /\ s.retry > now

clearAggregatedAvailability(c) ==
    [c EXCEPT !.unavailable = FALSE, !.retry = 0, !.quota = NoQuota]

AggregatedQuota(c) ==
    LET over == {m \in Known(c) : c.models[m].quota.exceeded}
        due  == Earliest({c.models[m].quota.recover : m \in over} \ {0})
    IN  IF over # {}
        THEN [exceeded |-> TRUE, reason |-> "quota", recover |-> Latest({c.quota.recover, due}),
              level |-> Latest({c.models[m].quota.level : m \in over})]
        ELSE IF c.quota.exceeded /\ c.quota.recover > now THEN c.quota
        ELSE NoQuota

updateAggregatedAvailability(c) ==
    IF CredentialQuota(c) THEN [c EXCEPT !.unavailable = TRUE]
    ELSE IF Known(c) = {} THEN clearAggregatedAvailability(c)
    ELSE LET all == \A m \in Known(c) : Waiting(c.models[m])
         IN  [c EXCEPT
                !.models = [m \in Models |->
                    IF m \in Known(c) /\ Lapsed(c.models[m])
                    THEN [c.models[m] EXCEPT !.unavailable = FALSE, !.retry = 0]
                    ELSE c.models[m]],
                !.unavailable = all,
                !.retry = IF all THEN Earliest({c.models[m].retry : m \in Known(c)}) ELSE 0,
                !.quota = AggregatedQuota(c)]

hasModelError(c) ==
    \E m \in Known(c) : LET s == c.models[m] IN
        \/ s.err # None
        \/ s.status = "error" /\ s.unavailable /\ (s.retry = 0 \/ s.retry > now)

----------------------------------------------------------------------------
(* Failures.                                                                *)

BugNextQuotaCooldown(level) ==
    [wait |-> Min({Base * 2^level, Ceiling}), level |-> level + 1]

nextQuotaCooldown(level) ==
    LET wait == Base * 2^level IN
    IF wait >= Ceiling THEN [wait |-> Ceiling, level |-> level]
                       ELSE [wait |-> wait, level |-> level + 1]

BugQuotaCooldownAfterFailure(q) ==
    LET n == nextQuotaCooldown(q.level)
    IN  [next |-> Latest({q.recover, now + n.wait}), level |-> n.level]

quotaCooldownAfterFailure(q) ==
    IF q.recover > now THEN [next |-> q.recover, level |-> q.level]
    ELSE LET n == nextQuotaCooldown(q.level) IN [next |-> now + n.wait, level |-> n.level]

nextCloudflareCooldown(level, on) ==
    LET n == nextQuotaCooldown(level) IN
    IF on THEN [next |-> now + Latest({n.wait, Floor}), level |-> n.level]
          ELSE [next |-> 0, level |-> level]

recoverableFailureRetryAfter(hint, on) ==
    IF ~on \/ Transient < 0 THEN 0
    ELSE IF hint # None THEN now + hint
    ELSE now + Transient

\* The 429 branch: the deadline the failure itself asks for, and the ladder.
QuotaWindow(q, hint, on) ==
    IF ~on THEN [next |-> 0, level |-> q.level]
    ELSE IF hint # None THEN [next |-> now + Latest({hint, Floor}), level |-> q.level]
    ELSE quotaCooldownAfterFailure(q)

\* The quota a 429 extends: a credential wide one never starts from a model's.
QuotaForFailure(c, m, kind) ==
    IF kind # "credential" THEN StateOf(c, m).quota
    ELSE IF c.quota.exceeded /\ c.quota.reason = "credential_quota" THEN c.quota
    ELSE NoQuota

Extended(s, d) == IF s.quota.exceeded THEN Latest({d, s.quota.recover}) ELSE d

\* The deadline and the quota MarkResult's switch gives the model of the failure.
Verdict(c, m, kind, hint, on) ==
    LET s == StateOf(c, m)
        w == QuotaWindow(QuotaForFailure(c, m, kind), hint, on)
        f == nextCloudflareCooldown(s.quota.level, on)
        Keeping(next) == [retry |-> next, quota |-> s.quota]
        Fixed(d) == Keeping(IF on THEN now + d ELSE 0)
        Over(next, why, level) ==
            [retry |-> next,
             quota |-> [exceeded |-> TRUE, reason |-> why, recover |-> next, level |-> level]]
    IN  CASE kind = "support" -> Keeping(now + Long)
          [] kind = "cloudflare" -> Over(f.next, "cloudflare challenge", f.level)
          [] kind \in {"grant", "unauthorized", "payment"} -> Fixed(Unauthorized)
          [] kind = "missing" -> Fixed(Long)
          [] kind \in {"quota", "credential"} ->
                Over(IF on THEN Extended(s, w.next) ELSE 0, "quota", w.level)
          [] kind = "overloaded" ->
                Keeping(IF on /\ hint # None THEN now + hint
                        ELSE recoverableFailureRetryAfter(None, on))
          [] kind = "transient" -> Keeping(recoverableFailureRetryAfter(hint, on))
          [] OTHER -> Keeping(recoverableFailureRetryAfter(None, on))

rememberIndependentCooldown(previous, next, kind) ==
    IF next = 0 THEN 0
    ELSE IF kind # "unauthorized" THEN Latest({previous, next})
    ELSE previous

FailedState(s, v, kind, on) ==
    LET retry == IF kind = "forced" /\ v.retry = 0 THEN now + Minute ELSE v.retry
        open  == ~on /\ v.retry = 0 /\ v.quota.recover = 0
    IN  [status |-> "error",
         unavailable |-> \/ kind = "forced"
                         \/ /\ ~open
                            /\ kind \in {"overloaded", "transient", "other"} => v.retry # 0,
         retry |-> IF retry # 0 /\ s.retry > now THEN Latest({retry, s.retry}) ELSE retry,
         indep |-> rememberIndependentCooldown(s.indep, retry, kind),
         err |-> kind,
         quota |-> [v.quota EXCEPT !.exceeded = @ /\ ~open],
         updated |-> now]

\* A credential wide quota reaches the sibling models that have a state.
Propagated(s, next, level) ==
    [s EXCEPT !.unavailable = TRUE, !.status = "error",
              !.retry = Latest({s.retry, Extended(s, next)}),
              !.quota = [exceeded |-> TRUE, reason |-> "credential_quota",
                         recover |-> Extended(s, next), level |-> level]]

Failed(c, m, kind, hint, on) ==
    LET v == Verdict(c, m, kind, hint, on)
        w == QuotaWindow(QuotaForFailure(c, m, kind), hint, on)
        wide == kind = "credential" /\ on
        own == FailedState(StateOf(c, m), v, kind, on)
    IN  updateAggregatedAvailability(
            [c EXCEPT
                !.models = [x \in Models |->
                    IF x = m THEN own
                    ELSE IF wide /\ x \in Known(c) THEN Propagated(c.models[x], w.next, w.level)
                    ELSE c.models[x]],
                !.err = kind,
                !.unavailable = @ \/ wide,
                !.retry = IF wide THEN Latest({w.next, QuotaForFailure(c, m, kind).recover}) ELSE @,
                !.quota = IF wide
                          THEN [exceeded |-> TRUE, reason |-> "credential_quota",
                                recover |-> Latest({w.next, QuotaForFailure(c, m, kind).recover}),
                                level |-> w.level]
                          ELSE @])

----------------------------------------------------------------------------
(* Recoveries.                                                              *)

\* resetModelState
Reset == [Fresh EXCEPT !.updated = now]

Settled(c) == IF hasModelError(c) THEN c ELSE [c EXCEPT !.err = None]

BugResultMayClearModelState(s, started) ==
    s.updated <= now

resultMayClearModelState(s, started) ==
    \/ s.updated = 0
    \/ modelAvailabilityBlock(s) = 0
    \/ s.updated <= started

Succeeded(c, m, started) ==
    IF c.quota.reason = "credential_quota" /\ c.quota.recover > now THEN c
    ELSE IF resultMayClearModelState(StateOf(c, m), started)
    THEN Settled(updateAggregatedAvailability([c EXCEPT !.models[m] = Reset]))
    ELSE c

ClearedState(s) ==
    IF s.unavailable \/ s.retry # 0 \/ s.indep # 0 \/ s.quota.exceeded \/ s.quota.recover # 0
    THEN [s EXCEPT !.unavailable = FALSE, !.retry = 0, !.indep = 0, !.quota = NoQuota,
                   !.updated = now]
    ELSE s

clearCooldownStateForAuth(c) ==
    LET own == c.unavailable \/ c.retry # 0 \/ c.quota.exceeded \/ c.quota.recover # 0
        models == [m \in Models |-> IF m \in Known(c) THEN ClearedState(c.models[m]) ELSE None]
        d == [c EXCEPT !.models = models,
                       !.unavailable = @ /\ ~own, !.retry = IF own THEN 0 ELSE @,
                       !.quota = IF own THEN NoQuota ELSE @]
        changed == own \/ models # c.models
        e == IF Known(c) # {} THEN updateAggregatedAvailability(d) ELSE d
    IN  IF changed THEN [e EXCEPT !.epoch = @ + 1, !.updated = now] ELSE e

BugRemainingUnauthorizedCooldown(next, indep, updated, q) ==
    Latest({indep, next} \cup {d \in {q.recover} : QuotaActive(q)})

remainingUnauthorizedCooldown(next, indep, updated, q) ==
    LET kept == Latest({d \in {indep} : d > now} \cup {d \in {q.recover} : QuotaActive(q)})
    IN  IF indep = 0 /\ updated # 0 /\ next > now /\ next > updated + Unauthorized
        THEN Latest({kept, next}) ELSE kept

clearUnauthorizedState(s) ==
    LET next == remainingUnauthorizedCooldown(s.retry, s.indep, s.updated, s.quota)
        blocked == QuotaActive(s.quota) \/ next > now
    IN  [s EXCEPT !.err = None, !.status = IF blocked THEN "error" ELSE "active",
                  !.retry = next, !.unavailable = blocked, !.updated = now,
                  !.quota = IF blocked THEN @ ELSE NoQuota]

clearUnauthorizedModelStates(c) ==
    LET hit == {m \in Known(c) : c.models[m].err = "unauthorized"}
        d == [c EXCEPT !.models =
                [m \in Models |-> IF m \in hit THEN clearUnauthorizedState(c.models[m]) ELSE @[m]]]
        apart == /\ c.err # "unauthorized" /\ c.unavailable /\ c.retry > now
                 /\ ~ \E m \in Known(d) : d.models[m].err # None /\ d.models[m].err = c.err
        e == updateAggregatedAvailability(d)
    IN  IF hit = {} THEN c
        ELSE [e EXCEPT !.quota = IF QuotaActive(c.quota) THEN c.quota ELSE @,
                       !.retry = IF apart THEN c.retry ELSE @,
                       !.unavailable = @ \/ apart]

clearUnauthorizedAuthState(c) ==
    LET next == remainingUnauthorizedCooldown(c.retry, 0, c.updated, c.quota)
        blocked == QuotaActive(c.quota) \/ next > now
        d == [clearUnauthorizedModelStates(c) EXCEPT !.err = None]
        e == updateAggregatedAvailability(d)
        held == blocked /\ (e.quota.reason = "credential_quota" \/ e.unavailable)
    IN  IF c.err # "unauthorized" THEN clearUnauthorizedModelStates(c)
        ELSE IF Known(c) = {} THEN [d EXCEPT !.retry = next, !.unavailable = blocked]
        ELSE [e EXCEPT !.unavailable = @ \/ held,
                       !.retry = IF held THEN Latest({@, next}) ELSE @]

----------------------------------------------------------------------------
(* The token refresh: three-way merge of what it read, made and finds.      *)

\* refreshAuthForRequest's answer, built from the credential it read.
Refreshed(base) ==
    clearUnauthorizedModelStates([base EXCEPT !.err = None, !.unavailable = FALSE, !.updated = now])

authAvailabilityChanged(base, c) ==
    \/ base.epoch # c.epoch \/ base.err # c.err \/ base.unavailable # c.unavailable
    \/ base.retry # c.retry \/ base.quota # c.quota \/ base.models # c.models

\* Nothing happened to the model since the refresh read the credential.
Unaltered(base, c, m) == base.epoch = c.epoch /\ base.models[m] = c.models[m]

\* MergeRefreshedAuth onto a credential that still has the token the refresh read.
MergeRefreshedAuth(base, c) ==
    LET new == Refreshed(base)
        keep == \/ authAvailabilityChanged(base, c)
                \/ CredentialQuota(c)
                \/ c.unavailable /\ c.retry > now
    IN  [c EXCEPT
            !.unavailable = @ /\ keep,
            !.err = IF keep THEN @ ELSE None,
            !.models = [m \in Models |-> IF Unaltered(base, c, m) THEN new.models[m] ELSE @[m]]]

modelStateIsClean(s) ==
    s.status = "active" /\ ~s.unavailable /\ s.retry = 0 /\ s.err = None /\ s.quota = NoQuota

isModelStateActiveCooldown(s) ==
    s.retry > now \/ s.quota.recover > now \/ (s.quota.exceeded /\ s.quota.recover = 0)

authHasActiveCooldown(c) ==
    \/ c.retry > now \/ c.quota.recover > now \/ (c.quota.exceeded /\ c.quota.recover = 0)
    \/ \E m \in Known(c) : isModelStateActiveCooldown(c.models[m])

\* What the failure err of a refresh leaves on the credential; valid: its access token still is.
RefreshFailed(base, c, err, valid) ==
    LET keep == authAvailabilityChanged(base, c) \/ authHasActiveCooldown(c)
    IN  [c EXCEPT !.err = IF keep THEN @ ELSE err,
                  !.unavailable = @ \/ (~keep /\ ~valid),
                  !.updated = now]

\* preserveIncomingAuthCooldown onto a credential parsed from its file, which has no runtime state.
Incoming(c) ==
    LET keep == c.unavailable /\ (c.retry > now \/ QuotaActive(c.quota) \/ c.err = "unauthorized")
    IN  [c EXCEPT !.quota = IF QuotaActive(c.quota) THEN @ ELSE NoQuota,
                  !.unavailable = keep,
                  !.retry = IF keep THEN @ ELSE 0,
                  !.err = IF keep THEN @ ELSE None,
                  !.updated = IF keep THEN @ ELSE 0]

\* The end of updateInternal, once the credential's token is known to have changed.
WithNewToken(c) == [clearUnauthorizedAuthState(c) EXCEPT !.version = @ + 1, !.updated = now]

----------------------------------------------------------------------------
(* The store.                                                               *)

ModelRecord(m, s) ==
    [model |-> m, retry |-> s.retry, indep |-> s.indep, quota |-> s.quota, err |-> s.err,
     updated |-> s.updated]

AuthRecord(c) ==
    [model |-> None, retry |-> c.retry, indep |-> 0, quota |-> c.quota, err |-> c.err,
     updated |-> c.updated]

cooldownStateRecordsForAuth(c, on) ==
    IF ~on THEN {}
    ELSE {ModelRecord(m, c.models[m]) : m \in {x \in Known(c) : Waiting(c.models[x])}}
            \cup (IF c.unavailable /\ c.retry > now THEN {AuthRecord(c)} ELSE {})

mergeModelState(target, source) ==
    LET newer == source.updated > target.updated
        first == IF newer THEN source ELSE target
        other == IF newer THEN target ELSE source
        unavailable == target.unavailable \/ source.unavailable
        exceeded == target.quota.exceeded \/ source.quota.exceeded
    IN  [status |-> IF unavailable \/ exceeded THEN "error" ELSE first.status,
         unavailable |-> unavailable,
         retry |-> Latest({target.retry, source.retry}),
         indep |-> Latest({target.indep, source.indep}),
         err |-> IF first.err # None THEN first.err ELSE other.err,
         quota |-> [exceeded |-> exceeded,
                    reason |-> IF first.quota.reason # "" THEN first.quota.reason
                               ELSE other.quota.reason,
                    recover |-> Latest({target.quota.recover, source.quota.recover}),
                    level |-> Latest({target.quota.level, source.quota.level})],
         updated |-> Latest({target.updated, source.updated})]

RestoredQuota(r) ==
    IF r.quota.exceeded /\ r.quota.recover = 0 THEN [r.quota EXCEPT !.recover = r.retry] ELSE r.quota

RestoredState(s, r) ==
    mergeModelState(s, [status |-> "error", unavailable |-> TRUE, retry |-> r.retry,
                        indep |-> r.indep, err |-> r.err, quota |-> RestoredQuota(r),
                        updated |-> r.updated])

\* restoreCooldownRecordLocked for the model records, then for the credential's own.  The
\* code sums up after every record and the order of the file decides which recovery time
\* the summary's quota ends with; here the summary is made once, after the last one.
RestoreCooldownStates(c, records, on) ==
    LET live == IF on THEN {r \in records : r.retry > now} ELSE {}
        Of(m) == {r \in live : r.model = m}
        d == [c EXCEPT !.models =
                [m \in Models |-> IF Of(m) = {} THEN @[m]
                                  ELSE RestoredState(StateOf(c, m), CHOOSE r \in Of(m) : TRUE)]]
        e == IF \E m \in Models : Of(m) # {} THEN updateAggregatedAvailability(d) ELSE d
        own == CHOOSE r \in Of(None) : TRUE
    IN  IF Of(None) = {} THEN e
        ELSE [e EXCEPT !.unavailable = TRUE, !.retry = own.retry, !.err = own.err,
                       !.quota = RestoredQuota(own), !.updated = own.updated]

----------------------------------------------------------------------------
(* The history of deadlines, kept apart from the code's state: what each    *)
(* failure asks for, and what lifts it.  A model has to rest until any, and *)
(* until token unless a refresh ends it before; it may rest until may.      *)
(* Its last failure was at at.                                              *)

NothingOwed == [any |-> 0, token |-> 0, may |-> 0, at |-> 0]
NothingSaved == [owed |-> [m \in Models |-> NothingOwed], all |-> 0]

\* The deadline a failure asks for by itself; 0 when cooldowns are off.
Asked(m, kind, hint, on) ==
    LET d == IF kind \in {"quota", "credential"}
             THEN QuotaWindow(QuotaForFailure(cred, m, kind), hint, on).next
             ELSE Verdict(cred, m, kind, hint, on).retry
    IN  IF kind = "forced" /\ d = 0 THEN now + Minute ELSE d

\* What a failure adds to what its model is owed.  One that asks for no rest (cooldowns
\* of its kind are off) lifts the others, but the quota of an earlier one may go on.
Owing(o, kind, d) ==
    IF d = 0 THEN [NothingOwed EXCEPT !.may = Latest({o.may, o.any}), !.at = now]
    ELSE IF kind = "unauthorized" THEN [o EXCEPT !.token = Latest({@, d}), !.at = now]
    ELSE [o EXCEPT !.any = Latest({@, d}), !.at = now]

\* A credential wide quota is owed by the credential; it may stay with the models it reached.
Reached(o, d) == [o EXCEPT !.may = Latest({@, d})]

\* A success lifts what was owed when its request was sent.  The state s of the model may
\* rest on if it changed since.
Lifted(o, s, started) ==
    [NothingOwed EXCEPT !.may = IF s.updated > started THEN Latest({o.any, o.token, o.may}) ELSE 0]

Deadline(m) == Latest({owed[m].any, owed[m].token, owedAll})

----------------------------------------------------------------------------
(* Steps.                                                                   *)

Init ==
    /\ now = 1
    /\ cred = Clean
    /\ cooling = TRUE
    /\ attempts = [r \in Requests |-> None]
    /\ refresh = None
    /\ disk = {}
    /\ dirty = FALSE
    /\ owed = [m \in Models |-> NothingOwed]
    /\ owedAll = 0
    /\ saved = NothingSaved
    /\ durable = TRUE
    /\ events = 0

Step == events < MaxEvents /\ events' = events + 1

InFlight == Cardinality({r \in Requests : attempts[r] # None})

\* What is begun can still end within the bound.
Room == events + InFlight + (IF refresh = None THEN 0 ELSE 1) < MaxEvents

\* The tail of every change: the records are saved if they differ.
Store(c) ==
    /\ cred' = c
    /\ dirty' = (dirty \/ cooldownStateRecordsForAuth(cred, cooling)
                             # cooldownStateRecordsForAuth(c, cooling))
    /\ durable' = (durable /\ cooling /\ ~dirty')

Tick ==
    /\ now < Horizon
    /\ now > 1 \/ cred # Clean \/ InFlight > 0
    /\ now' = now + 1
    /\ UNCHANGED <<cred, cooling, attempts, refresh, disk, dirty, owed, owedAll, saved, durable,
                   events>>

\* A request picks the credential for a model it is not blocked for.
Send(r, m) ==
    /\ attempts[r] = None /\ Room
    /\ isAuthBlockedForModel(cred, m) = 0
    /\ attempts' = [attempts EXCEPT ![r] = [model |-> m, started |-> now, epoch |-> cred.epoch,
                                            version |-> cred.version]]
    /\ UNCHANGED <<now, cred, cooling, refresh, disk, dirty, owed, owedAll, saved, durable, events>>

Bound(r) == attempts[r].version = cred.version

Counts(r) == Bound(r) /\ attempts[r].epoch = cred.epoch

Done(r) == attempts' = [attempts EXCEPT ![r] = None]

\* MarkResult of an outcome that leaves availability alone: it is stale, an
\* auxiliary success (count_tokens), or a failure of the request itself.
Neutral(r) ==
    /\ attempts[r] # None
    /\ Step
    /\ Store(IF Bound(r) THEN [cred EXCEPT !.updated = now] ELSE cred)
    /\ Done(r)
    /\ UNCHANGED <<now, cooling, refresh, disk, owed, owedAll, saved>>

MarkSuccess(r) ==
    /\ attempts[r] # None /\ Counts(r)
    /\ Step
    /\ LET m == attempts[r].model IN
       /\ Store([Succeeded(cred, m, attempts[r].started) EXCEPT !.updated = now])
       /\ owed' = IF owedAll > now \/ owed[m].at > attempts[r].started
                  THEN owed
                  ELSE [owed EXCEPT ![m] = Lifted(@, StateOf(cred, m), attempts[r].started)]
    /\ Done(r)
    /\ UNCHANGED <<now, cooling, refresh, disk, owedAll, saved>>

MarkFailure(r, kind, hint) ==
    /\ attempts[r] # None /\ Counts(r)
    /\ kind # "skipped"
    /\ Step
    /\ LET m == attempts[r].model
           on == cooling \/ kind = "forced"
           d == Asked(m, kind, hint, on)
       IN  /\ Store([Failed(cred, m, kind, hint, on) EXCEPT !.updated = now])
           /\ owed' = [x \in Models |->
                         IF x = m THEN Owing(owed[x], kind, d)
                         ELSE IF kind = "credential" /\ x \in Known(cred) THEN Reached(owed[x], d)
                         ELSE owed[x]]
           /\ owedAll' = IF kind = "credential" THEN Latest({owedAll, d}) ELSE owedAll
    /\ Done(r)
    /\ UNCHANGED <<now, cooling, refresh, disk, saved>>

\* ResetQuota
ResetQuota ==
    /\ Step
    /\ LET c == [cred EXCEPT !.models = [m \in Models |-> IF @[m] = None THEN None ELSE Reset]]
           d == Settled(updateAggregatedAvailability(clearCooldownStateForAuth(c)))
       IN  Store([d EXCEPT !.epoch = @ + 1, !.updated = now])
    /\ owed' = [m \in Models |-> NothingOwed]
    /\ owedAll' = 0
    /\ UNCHANGED <<now, cooling, attempts, refresh, disk, saved>>

\* SetConfig with another disable-cooling setting.
SetConfig(on) ==
    /\ cooling # on
    /\ Step
    /\ cooling' = on
    /\ LET c == clearCooldownStateForAuth(cred) IN
       IF on \/ c.epoch = cred.epoch
       THEN UNCHANGED <<cred, dirty, durable, owed, owedAll>>
       ELSE /\ cred' = c
            /\ dirty' = TRUE /\ durable' = FALSE
            /\ owed' = [m \in Models |-> NothingOwed]
            /\ owedAll' = 0
    /\ UNCHANGED <<now, attempts, refresh, disk, saved>>

Kept(c) == IF cooling THEN c ELSE clearCooldownStateForAuth(c)

\* What updateInternal reports as a change of the cooldown records.
Recovers(c) == c.err = "unauthorized" \/ \E m \in Known(c) : c.models[m].err = "unauthorized"

\* The end of updateInternal, for the merged credential c; changed: its token did.
Updated(c, changed) ==
    LET d == IF changed THEN WithNewToken(c) ELSE [c EXCEPT !.updated = now] IN
    /\ cred' = Kept(d)
    /\ dirty' = (dirty \/ (changed /\ Recovers(c)) \/ Kept(d).epoch # d.epoch)
    /\ durable' = (durable /\ ~dirty')

\* The 401s of the models in paid are over, except where a failure of another kind is the
\* one on record; without cooldowns nothing is owed.
Renewed(paid) ==
    /\ owed' = [m \in Models |->
                  IF ~cooling THEN NothingOwed
                  ELSE IF m \in paid /\ StateOf(cred, m).err = "unauthorized"
                  THEN [owed[m] EXCEPT !.token = 0]
                  ELSE owed[m]]
    /\ owedAll' = IF cooling THEN owedAll ELSE 0

\* The watcher or the management API replaces the credential; changed: its token too.
Replace(changed) ==
    /\ Step
    /\ Updated(Incoming(cred), changed)
    /\ Renewed(IF changed THEN Models ELSE {})
    /\ UNCHANGED <<now, cooling, attempts, refresh, disk, saved>>

RefreshBegin ==
    /\ refresh = None /\ Room
    /\ refresh' = cred
    /\ UNCHANGED <<now, cred, cooling, attempts, disk, dirty, owed, owedAll, saved, durable, events>>

\* The executor's answer reaches UpdateRefreshedAuth; changed: it holds a new token.  The
\* same token, or none at all, counts as a successful refresh too: it ends the 401s that the
\* refresh read and nothing else.  A token replaced in the meantime wins.
RefreshEnd(changed) ==
    /\ refresh # None
    /\ Step
    /\ IF refresh.version # cred.version
       THEN UNCHANGED <<cred, dirty, durable, owed, owedAll>>
       ELSE /\ Updated(MergeRefreshedAuth(refresh, cred), changed)
            /\ Renewed({m \in Models : changed \/ Unaltered(refresh, cred, m)})
    /\ refresh' = None
    /\ UNCHANGED <<now, cooling, attempts, disk, saved>>

\* The executor fails, or is canceled (None).
RefreshFail(err, valid) ==
    /\ refresh # None
    /\ Step
    /\ cred' = IF err = None \/ refresh.version # cred.version THEN cred
               ELSE RefreshFailed(refresh, cred, err, valid)
    /\ refresh' = None
    /\ UNCHANGED <<now, cooling, attempts, disk, dirty, owed, owedAll, saved, durable>>

\* ReconcileRegistryModelStates, the credential now serving the models in S.
Reconcile(S) ==
    /\ Step
    /\ LET Expired(s) == ~modelStateIsClean(s) /\ ~isModelStateActiveCooldown(s)
           models == [m \in Models |->
                        IF m \notin Known(cred) \cap S THEN None
                        ELSE IF Expired(cred.models[m]) THEN Reset ELSE cred.models[m]]
           c == Settled(updateAggregatedAvailability([cred EXCEPT !.models = models]))
       IN  Store(IF models = cred.models THEN cred ELSE [c EXCEPT !.updated = now])
    /\ owed' = [m \in Models |-> IF m \in S THEN owed[m] ELSE NothingOwed]
    /\ UNCHANGED <<now, cooling, attempts, refresh, disk, owedAll, saved>>

\* persistCooldownStates: the store takes the records as they are by now.
Save ==
    /\ dirty
    /\ dirty' = FALSE
    /\ \/ /\ disk' = cooldownStateRecordsForAuth(cred, cooling) /\ durable' = cooling
          /\ saved' = IF cooling THEN [owed |-> owed, all |-> owedAll] ELSE NothingSaved
       \/ durable' = FALSE /\ UNCHANGED <<disk, saved>>
    /\ UNCHANGED <<now, cred, cooling, attempts, refresh, owed, owedAll, events>>

\* What a model is owed together with what was saved for it before.
Together(o, p) ==
    [any |-> Latest({o.any, p.any}), token |-> Latest({o.token, p.token}),
     may |-> Latest({o.may, p.may}), at |-> Latest({o.at, p.at})]

\* The process ends and starts again; Load leaves no runtime state.
Restart ==
    /\ Step
    /\ cred' = RestoreCooldownStates([Clean EXCEPT !.version = cred.version + 1], disk, cooling)
    /\ attempts' = [r \in Requests |-> None]
    /\ refresh' = None
    /\ dirty' = (disk # {})
    /\ durable' = TRUE
    /\ owed' = [m \in Models |-> IF ~cooling THEN NothingOwed
                                 ELSE IF durable THEN Together(owed[m], saved.owed[m])
                                 ELSE saved.owed[m]]
    /\ owedAll' = IF ~cooling THEN 0 ELSE IF durable THEN Latest({owedAll, saved.all}) ELSE saved.all
    /\ UNCHANGED <<now, cooling, disk, saved>>

\* The store has a record for m (None: for the credential) that would be restored now.
Restorable(m) == cooling /\ \E r \in disk : r.model = m /\ r.retry > now

\* A configuration reload restores the saved records into the running credential.
Reload ==
    /\ Step /\ disk # {}
    /\ cred' = RestoreCooldownStates(cred, disk, cooling)
    /\ dirty' = TRUE /\ durable' = FALSE
    /\ owedAll' = IF Restorable(None) THEN saved.all ELSE owedAll
    /\ owed' = [m \in Models |-> IF Restorable(m) THEN Together(owed[m], saved.owed[m])
                                 ELSE owed[m]]
    /\ UNCHANGED <<now, cooling, attempts, refresh, disk, saved>>

Next ==
    \/ Tick
    \/ \E r \in Requests :
        \/ \E m \in Models : Send(r, m)
        \/ Neutral(r)
        \/ MarkSuccess(r)
        \/ \E k \in Kinds, h \in Hints \cup {None} : MarkFailure(r, k, h)
    \/ ResetQuota
    \/ \E on \in BOOLEAN : SetConfig(on)
    \/ \E changed \in BOOLEAN : Replace(changed)
    \/ RefreshBegin
    \/ \E changed \in BOOLEAN : RefreshEnd(changed)
    \/ \E err \in (Kinds \cap {"unauthorized", "transient"}) \cup {None}, valid \in BOOLEAN :
        RefreshFail(err, valid)
    \/ \E S \in SUBSET Models : Reconcile(S)
    \/ Save
    \/ Restart
    \/ Reload

Spec == Init /\ [][Next]_vars

----------------------------------------------------------------------------
(* Properties.                                                              *)

Times == 0..Forever

\* The rungs of the quota ladder: a climb starts where the wait is below the ceiling.
Levels == {l \in 0..Ceiling : l = 0 \/ Base * 2^(l - 1) < Ceiling}

Quotas == [exceeded : BOOLEAN, reason : {"", "quota", "credential_quota", "cloudflare challenge"},
           recover : Times, level : Levels]
States == [status : {"active", "error"}, unavailable : BOOLEAN, retry : Times, indep : Times,
           err : Kinds \cup {None}, quota : Quotas, updated : Times]
Credentials == [unavailable : BOOLEAN, retry : Times, err : Kinds \cup {None}, quota : Quotas,
                updated : Times, epoch : Nat, version : Nat,
                models : [Models -> States \cup {None}]]

\* nil is neither a failure nor a state.
ASSUME NoneAssumption == None \notin AllKinds \cup States

Debts == [any : Times, token : Times, may : Times, at : Times]

\* Types.  No deadline lies further ahead than the longest cooldown the code can give,
\* and the ladder of nextQuotaCooldown never climbs past its first rung at the ceiling.
TypeOK ==
    /\ now \in 1..Horizon
    /\ cred \in Credentials
    /\ refresh \in Credentials \cup {None}
    /\ {cooling, dirty, durable} \subseteq BOOLEAN
    /\ attempts \in [Requests -> [model : Models, started : Times, epoch : Nat, version : Nat]
                                    \cup {None}]
    /\ disk \subseteq [model : Models \cup {None}, retry : Times, indep : Times, quota : Quotas,
                       err : Kinds \cup {None}, updated : Times]
    /\ owed \in [Models -> Debts]
    /\ owedAll \in Times
    /\ saved \in [owed : [Models -> Debts], all : Times]
    /\ events \in 0..MaxEvents

\* No cooldown is lost: as long as the failures that MarkResult counted still ask a model
\* to rest, isAuthBlockedForModel blocks it, whatever late success, shorter failure,
\* failed refresh, file reload, registry change or restart from saved records came in
\* between.  A refresh that succeeds ends what a 401 asks for, even when it brings the same
\* token: for the models that nothing changed since the refresh began.
\* The saved record of the credential replaces a newer one when the configuration is
\* reloaded (restoreCooldownRecordLocked); what it asks for is then what is owed.
BlockHonoured ==
    \A m \in Models : Deadline(m) > now => isAuthBlockedForModel(cred, m) # 0

\* No cooldown is invented: a blocked model is owed a rest by a failure nothing lifted
\* yet.  A reset, a success that started late enough, a refresh after a 401, or the
\* deadline itself makes the credential selectable again for the model.  It may rest on
\* (may) where the code keeps a state that something lifted in part: the quota that a
\* credential wide failure left with every model, the quota under a failure that asks for
\* no rest, a state that changed after the request of the success was sent.  A credential
\* that keeps no model state is left out: its own summary decides then, and a summary can
\* outlive the model it was made of.
NotOverBlocked ==
    \A m \in Models : /\ isAuthBlockedForModel(cred, m) # 0
                      /\ Known(cred) # {} \/ CredentialQuota(cred)
                      => Latest({Deadline(m), owed[m].may}) > now

\* The models whose own quota window is open do not climb.
KeepsRung ==
    \A m \in Known(cred) \cap Known(cred') :
        LET p == cred.models[m].quota
            q == cred'.models[m].quota
            owned == cred'.models[m].err # "credential" /\ ~Reload /\ ~Restart
        IN  p.recover > now /\ p.reason = "quota" /\ q.reason = "quota" /\ owned
                => q.level <= p.level

\* One exhausted window costs one rung: the failures of requests that were in flight
\* together, and any other step while a model's quota window is open, do not escalate its
\* back-off level (quotaCooldownAfterFailure).  A credential wide failure brings its own
\* level, and a reload or a restart brings back the saved one.
LadderOnce == [][KeepsRung]_vars

\* Once every change is saved, the store holds no live record of a model that is not
\* blocked any more, so that a restart does not bring back an obsolete cooldown.
RecoveryReachesStore ==
    ~dirty /\ durable =>
        \A r \in disk : r.model # None /\ r.retry > now => isAuthBlockedForModel(cred, r.model) # 0
=============================================================================
