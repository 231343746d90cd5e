---------------------------- MODULE RequestRounds ----------------------------
(***************************************************************************)
(* How one public call (Execute, ExecuteStream) goes through the local     *)
(* credentials: sdk/cliproxy/auth, conductor_execution.go and              *)
(* conductor_selection.go.                                                 *)
(*                                                                         *)
(* A call runs rounds.  In a round it tries one credential after another:  *)
(* it picks one that is not blocked and was not tried in this round, takes *)
(* one of its slots, and calls the upstream.  A credential without a free  *)
(* slot is set aside; when nothing else is left the call queues for a slot *)
(* and looks at the set aside ones again.  When the round is exhausted the *)
(* call decides, in two separate reads of the pool, whether to run another *)
(* round and how long to wait for it.                                      *)
(*                                                                         *)
(* Time is kept as what is left until each deadline; Tick takes one unit   *)
(* from all of them.  A credential serves one upstream model here, and an  *)
(* execution includes its one repetition with a refreshed token.           *)
(***************************************************************************)
EXTENDS Integers, FiniteSets, FiniteSetsExt

CONSTANTS
    Creds,         \* the credentials
    Requests,      \* the concurrent calls
    Limit,         \* effectiveRequestRetryLimit of each credential
    Slots,         \* max-in-flight of each credential
    MaxCreds,      \* max-retry-credentials; 0: no limit
    MaxWait,       \* max-retry-interval; 0: never wait
    QueueTimeout,  \* how long a call may queue in total
    Kinds,         \* the kinds of failure explored
    Rest,          \* the cooldown each kind of failure gives; 0: none
    Hints,         \* the Retry-After values of an answer
    Floor,         \* minQuotaCooldownFloor
    JitterShare,   \* the part of a wait that may be added to it: one in JitterShare
    Bare,          \* credentials without an upstream model for the route
    Uncooled,      \* credentials with cooling disabled
    None

AllKinds == {"quota", "overloaded", "forbidden", "unauthorized"}

ASSUME PoolAssumption ==
    /\ IsFiniteSet(Creds) /\ IsFiniteSet(Requests)
    /\ Bare \subseteq Creds /\ Uncooled \subseteq Creds
    /\ None \notin Creds
ASSUME LimitAssumption == Limit \in [Creds -> Nat]
ASSUME TimeAssumption ==
    /\ {MaxCreds, MaxWait} \subseteq Nat
    /\ {Slots, QueueTimeout, Floor, JitterShare} \subseteq Nat \ {0}
    /\ Hints \subseteq Nat
    /\ None \notin Nat
ASSUME KindAssumption == Kinds \subseteq AllKinds /\ Rest \in [Kinds -> Nat]

VARIABLES
    left,      \* until each credential is selectable again; 0: it is
    why,       \* the failure that blocks it
    slots,     \* its executions
    pc,        \* where each call is
    round,     \* attempt of Execute
    tried,     \* tried of executeMixedOnce
    attempted, \* attempted of executeMixedOnce
    picked,    \* roundAttempted of Execute
    busy,      \* busyAdmissions
    cur,       \* the credential it picked last
    last,      \* lastErr of the round, then the error of the round
    after,     \* the Retry-After of that error
    timer,     \* the rest of its sleep between rounds
    budget,    \* the rest of its queueing deadline, once it has one
    woken,     \* the calls a freed slot has signalled
    tries,     \* history: executions by call and credential
    queued,    \* history: time spent queueing
    slept      \* history: the length of the last sleep

pool == <<left, why, slots>>
pass == <<round, tried, attempted, picked, busy, cur, last, after>>
wait == <<timer, budget, woken>>
history == <<tries, queued, slept>>
vars == <<pool, pc, pass, wait, history>>

----------------------------------------------------------------------------
(* The pool.                                                                *)

Blocked(c) == left[c] > 0

Candidates(r) == {c \in Creds : c \notin tried[r] /\ ~Blocked(c)}

requestRetryRoundExclusions(n) == {c \in Creds : n > 0 /\ Limit[c] < n}

isCredentialRetryRoundStatus(e) == e \in {"quota", "overloaded", "forbidden", "cooldown"}

TooMany(e) == e \in {"quota", "cooldown"}

\* timedBlockIsCooldown
RestsOnly(c) == why[c] \in {"quota", "overloaded"}

\* The error of a pick that finds nothing, and its Retry-After.
PickError(r) ==
    LET untried == Creds \ tried[r]
        cooling == untried # {} /\ \A c \in untried : Blocked(c) /\ RestsOnly(c)
    IN  IF cooling THEN [err |-> "cooldown", after |-> Min({left[c] : c \in untried})]
        ELSE [err |-> "unavailable", after |-> None]

\* retryRoundAvailabilityForAuth
RoundEligible(c) == Blocked(c) => isCredentialRetryRoundStatus(why[c])

retryAllowed(n) == \E c \in Creds : n < Limit[c] /\ RoundEligible(c)

\* How long one credential makes the next round wait.
WaitFor(c, tooMany, was) ==
    IF c \notin was \/ c \in Uncooled \/ ~tooMany THEN left[c]
    ELSE Max({left[c], Floor})

\* closestCooldownWaitWithAttempted; None: nothing found.
closestCooldownWait(n, tooMany, was) ==
    LET usable == {c \in Creds : n < Limit[c] /\ RoundEligible(c)}
    IN  IF usable = {} THEN None ELSE Min({WaitFor(c, tooMany, was) : c \in usable})

TooLong(w) == w > 0 /\ (MaxWait = 0 \/ w > MaxWait)

\* jitteredCooldownWait: the waits it may choose.  Jitter is a share of the wait and
\* never leads past MaxWait.
Jittered(w) ==
    {d \in w..(w + w) : (d - w) * JitterShare <= w /\ (d > w => d <= MaxWait)}

Full(c) == slots[c] >= Slots

----------------------------------------------------------------------------
(* Steps of a call.                                                         *)

Init ==
    /\ left = [c \in Creds |-> 0]
    /\ why = [c \in Creds |-> None]
    /\ slots = [c \in Creds |-> 0]
    /\ pc = [r \in Requests |-> "idle"]
    /\ round = [r \in Requests |-> 0]
    /\ tried = [r \in Requests |-> {}]
    /\ attempted = [r \in Requests |-> {}]
    /\ picked = [r \in Requests |-> {}]
    /\ busy = [r \in Requests |-> {}]
    /\ cur = [r \in Requests |-> None]
    /\ last = [r \in Requests |-> None]
    /\ after = [r \in Requests |-> None]
    /\ timer = [r \in Requests |-> 0]
    /\ budget = [r \in Requests |-> None]
    /\ woken = {}
    /\ tries = [r \in Requests |-> [c \in Creds |-> 0]]
    /\ queued = [r \in Requests |-> 0]
    /\ slept = [r \in Requests |-> 0]

Goto(r, l) == pc' = [pc EXCEPT ![r] = l]

\* The call returns; what it knew, and its history, are gone.
Return(r) ==
    /\ Goto(r, "done")
    /\ tried' = [tried EXCEPT ![r] = {}]
    /\ attempted' = [attempted EXCEPT ![r] = {}]
    /\ picked' = [picked EXCEPT ![r] = {}]
    /\ busy' = [busy EXCEPT ![r] = {}]
    /\ cur' = [cur EXCEPT ![r] = None]
    /\ last' = [last EXCEPT ![r] = None]
    /\ after' = [after EXCEPT ![r] = None]
    /\ timer' = [timer EXCEPT ![r] = 0]
    /\ budget' = [budget EXCEPT ![r] = None]
    /\ round' = [round EXCEPT ![r] = 0]
    /\ tries' = [tries EXCEPT ![r] = [c \in Creds |-> 0]]
    /\ queued' = [queued EXCEPT ![r] = 0]
    /\ slept' = [slept EXCEPT ![r] = 0]

BugRoundOf(r, n) ==
    /\ round' = [round EXCEPT ![r] = n]
    /\ tried' = [tried EXCEPT ![r] = {}]
    /\ attempted' = [attempted EXCEPT ![r] = {}]
    /\ picked' = [picked EXCEPT ![r] = {}]
    /\ busy' = [busy EXCEPT ![r] = {}]
    /\ last' = [last EXCEPT ![r] = None]
    /\ after' = [after EXCEPT ![r] = None]

\* executeMixedOnce begins round n.
RoundOf(r, n) ==
    /\ round' = [round EXCEPT ![r] = n]
    /\ tried' = [tried EXCEPT ![r] = requestRetryRoundExclusions(n)]
    /\ attempted' = [attempted EXCEPT ![r] = {}]
    /\ picked' = [picked EXCEPT ![r] = {}]
    /\ busy' = [busy EXCEPT ![r] = {}]
    /\ last' = [last EXCEPT ![r] = None]
    /\ after' = [after EXCEPT ![r] = None]

Begin(r) ==
    /\ pc[r] = "idle"
    /\ Goto(r, "pick")
    /\ RoundOf(r, 0)
    /\ UNCHANGED <<pool, cur, wait, history>>

CapReached(r) == MaxCreds > 0 /\ Cardinality(attempted[r]) >= MaxCreds

\* pickNextMixed gives a credential.
Pick(r, c) ==
    /\ pc[r] = "pick" /\ ~CapReached(r)
    /\ c \in Candidates(r)
    /\ tried' = [tried EXCEPT ![r] = @ \cup {c}]
    /\ picked' = [picked EXCEPT ![r] = @ \cup {c}]
    /\ cur' = [cur EXCEPT ![r] = IF c \in Bare THEN None ELSE c]
    /\ Goto(r, IF c \in Bare THEN "pick" ELSE "admit")
    /\ UNCHANGED <<pool, round, attempted, busy, last, after, wait, history>>

\* tryAcquireLocalCredential
Admit(r) ==
    LET c == cur[r] IN
    /\ pc[r] = "admit" /\ ~Full(c)
    /\ slots' = [slots EXCEPT ![c] = @ + 1]
    /\ attempted' = [attempted EXCEPT ![r] = @ \cup {c}]
    /\ tries' = [tries EXCEPT ![r][c] = @ + 1]
    /\ Goto(r, "exec")
    /\ UNCHANGED <<left, why, round, tried, picked, busy, cur, last, after, wait, queued, slept>>

Refuse(r) ==
    /\ pc[r] = "admit" /\ Full(cur[r])
    /\ busy' = [busy EXCEPT ![r] = @ \cup {cur[r]}]
    /\ cur' = [cur EXCEPT ![r] = None]
    /\ Goto(r, "pick")
    /\ UNCHANGED <<pool, round, tried, attempted, picked, last, after, wait, history>>

\* New deadlines; a credential at rest no longer has its failure count for anything.
Rested(l) ==
    /\ left' = l
    /\ why' = [c \in Creds |-> IF l[c] = 0 THEN None ELSE why[c]]

\* The slot of credential c is free again: whoever queues for it is signalled.
Release(c) ==
    /\ slots' = [slots EXCEPT ![c] = @ - 1]
    /\ woken' = woken \cup {r \in Requests : pc[r] = "full" /\ c \in busy[r]}

\* A failure that another credential may repair: MarkResult, release, next credential.
Fail(r, k, hint) ==
    LET c == cur[r]
        rest == IF c \in Uncooled THEN 0 ELSE Rest[k]
    IN  /\ pc[r] = "exec"
        /\ left' = [left EXCEPT ![c] = IF rest = 0 THEN 0 ELSE Max({@, rest})]
        /\ why' = [why EXCEPT ![c] = IF rest = 0 THEN None ELSE k]
        /\ Release(c)
        /\ last' = [last EXCEPT ![r] = k]
        /\ after' = [after EXCEPT ![r] = hint]
        /\ cur' = [cur EXCEPT ![r] = None]
        /\ Goto(r, "pick")
        /\ UNCHANGED <<round, tried, attempted, picked, busy, timer, budget, history>>

BugLeave(r) ==
    /\ pc[r] \in {"exec", "stream"}
    /\ Return(r)
    /\ UNCHANGED <<left, why, slots, woken>>

\* Whatever ends an execution for good gives the slot back: a failure of the request
\* itself, the end of its context, or the end of its stream.
Leave(r) ==
    /\ pc[r] \in {"exec", "stream"}
    /\ Release(cur[r])
    /\ Return(r)
    /\ UNCHANGED <<left, why>>

\* MarkResult of a success, which lifts the cooldown unless it is too recent; an
\* answer releases the slot at once, a stream when it ends.
Succeed(r, lifts, streams) ==
    LET c == cur[r] IN
    /\ pc[r] = "exec"
    /\ Rested(IF lifts THEN [left EXCEPT ![c] = 0] ELSE left)
    /\ \/ streams /\ Goto(r, "stream") /\ UNCHANGED <<slots, pass, wait, history>>
       \/ ~streams /\ Release(c) /\ Return(r)

----------------------------------------------------------------------------
(* Queueing for a slot.                                                     *)

NothingLeft(r) == pc[r] = "pick" /\ ~CapReached(r) /\ Candidates(r) = {}

BugLookAgainAtNone(r) ==
    /\ Goto(r, "pick")
    /\ woken' = woken \ {r}
    /\ UNCHANGED <<pass, timer>>

BugLookAgain(r) ==
    /\ busy' = [busy EXCEPT ![r] = {}]
    /\ Goto(r, "pick")
    /\ woken' = woken \ {r}
    /\ UNCHANGED <<round, tried, attempted, picked, cur, last, after, timer>>

\* waitForLocalCredentialCapacity returned nil: the ones set aside may be picked again.
LookAgain(r) ==
    /\ tried' = [tried EXCEPT ![r] = @ \ busy[r]]
    /\ busy' = [busy EXCEPT ![r] = {}]
    /\ Goto(r, "pick")
    /\ woken' = woken \ {r}
    /\ UNCHANGED <<round, attempted, picked, cur, last, after, timer>>

BugRemaining(r) == QueueTimeout

\* remaining: the deadline is set once and holds for all rounds of the call.
remaining(r) == IF budget[r] = None THEN QueueTimeout ELSE budget[r]

Queue(r) ==
    /\ NothingLeft(r) /\ busy[r] # {}
    /\ \/ /\ \E c \in busy[r] : ~Full(c)
          /\ LookAgain(r)
          /\ UNCHANGED budget
       \/ /\ \A c \in busy[r] : Full(c)
          /\ remaining(r) > 0
          /\ budget' = [budget EXCEPT ![r] = remaining(r)]
          /\ Goto(r, "full")
          /\ UNCHANGED <<pass, timer, woken>>
    /\ UNCHANGED <<pool, history>>

\* The deadline is over already, or no queue has room: how long the queues are is left
\* to LocalCredentialAdmission, they may be full at any time.
QueueRefuses(r) ==
    /\ NothingLeft(r) /\ busy[r] # {}
    /\ \A c \in busy[r] : Full(c)
    /\ Return(r)
    /\ UNCHANGED <<pool, woken>>

Wake(r) ==
    /\ pc[r] = "full" /\ r \in woken
    /\ LookAgain(r)
    /\ UNCHANGED <<pool, budget, history>>

\* The timer of the wait; it looks once more before it gives up.
Expire(r) ==
    /\ pc[r] = "full" /\ budget[r] = 0
    /\ \/ (\E c \in busy[r] : ~Full(c)) /\ LookAgain(r) /\ UNCHANGED <<budget, history>>
       \/ (\A c \in busy[r] : Full(c)) /\ Return(r) /\ woken' = woken \ {r}
    /\ UNCHANGED pool

\* The context ends while the call queues or sleeps.
Cancel(r) ==
    /\ pc[r] \in {"full", "sleep"}
    /\ Return(r)
    /\ woken' = woken \ {r}
    /\ UNCHANGED pool

----------------------------------------------------------------------------
(* The end of a round.                                                      *)

RoundOver(r) ==
    /\ pc[r] = "pick"
    /\ CapReached(r) \/ (Candidates(r) = {} /\ busy[r] = {})
    /\ LET e == IF last[r] # None THEN [err |-> last[r], after |-> after[r]]
                ELSE IF CapReached(r) THEN [err |-> "unavailable", after |-> None]
                ELSE PickError(r)
       IN  /\ last' = [last EXCEPT ![r] = e.err]
           /\ after' = [after EXCEPT ![r] = e.after]
    /\ Goto(r, "decide")
    /\ UNCHANGED <<pool, round, tried, attempted, picked, busy, cur, wait, history>>

MayRetry(r) == isCredentialRetryRoundStatus(last[r]) /\ retryAllowed(round[r])

\* shouldRetryAfterErrorWithAttempted, first read of the pool.
Decide(r) ==
    /\ pc[r] = "decide"
    /\ \/ MayRetry(r) /\ Goto(r, "closest") /\ UNCHANGED <<pass, timer, budget, history>>
       \/ ~MayRetry(r) /\ Return(r)
    /\ UNCHANGED <<pool, woken>>

\* Second read: how long to wait.  What was eligible may be gone by now.
RetryDelay(r) ==
    LET found == closestCooldownWait(round[r], TooMany(last[r]), picked[r])
    IN  IF found # None THEN found ELSE IF after[r] # None THEN after[r] ELSE 0

Sleep(r) ==
    LET w == RetryDelay(r) IN
    /\ pc[r] = "closest" /\ ~TooLong(w)
    /\ \E d \in Jittered(w) :
        /\ timer' = [timer EXCEPT ![r] = d]
        /\ slept' = [slept EXCEPT ![r] = d]
    /\ Goto(r, "sleep")
    /\ UNCHANGED <<pool, pass, budget, woken, tries, queued>>

GiveUp(r) ==
    /\ pc[r] = "closest" /\ TooLong(RetryDelay(r))
    /\ Return(r)
    /\ UNCHANGED <<pool, woken>>

NextRound(r) ==
    /\ pc[r] = "sleep" /\ timer[r] = 0
    /\ RoundOf(r, round[r] + 1)
    /\ slept' = [slept EXCEPT ![r] = 0]
    /\ Goto(r, "pick")
    /\ UNCHANGED <<pool, cur, wait, tries, queued>>

----------------------------------------------------------------------------
(* Time, and what else happens to the pool.                                 *)

Less(n) == IF n > 0 THEN n - 1 ELSE n

\* Timers are on time: no unit passes while a queue timer is due.
Tick ==
    /\ \/ \E c \in Creds : left[c] > 0
       \/ \E r \in Requests : timer[r] > 0 \/ pc[r] = "full"
    /\ \A r \in Requests : pc[r] = "full" => budget[r] > 0
    /\ Rested([c \in Creds |-> Less(left[c])])
    /\ timer' = [r \in Requests |-> Less(timer[r])]
    /\ budget' = [r \in Requests |-> IF budget[r] = None THEN None ELSE Less(budget[r])]
    /\ queued' = [r \in Requests |-> queued[r] + (IF pc[r] = "full" THEN 1 ELSE 0)]
    /\ UNCHANGED <<slots, pc, pass, woken, tries, slept>>

\* A reset, a new token or another model's credential state lifts a cooldown.
Lift(c) ==
    /\ left[c] > 0
    /\ Rested([left EXCEPT ![c] = 0])
    /\ UNCHANGED <<slots, pc, pass, wait, history>>

Answer(r) ==
    \/ \E k \in Kinds, h \in Hints \cup {None} : Fail(r, k, h)
    \/ \E lifts \in BOOLEAN, streams \in BOOLEAN : Succeed(r, lifts, streams)
    \/ Leave(r)

Proceed(r) ==
    \/ \E c \in Creds : Pick(r, c)
    \/ Admit(r) \/ Refuse(r)
    \/ Queue(r) \/ QueueRefuses(r) \/ Wake(r) \/ Expire(r)
    \/ RoundOver(r) \/ Decide(r) \/ Sleep(r) \/ GiveUp(r) \/ NextRound(r)

Next ==
    \/ \E r \in Requests : Begin(r) \/ Proceed(r) \/ Answer(r) \/ Cancel(r)
    \/ Tick
    \/ \E c \in Creds : Lift(c)

Spec == Init /\ [][Next]_vars

\* A call keeps running, an upstream answers, streams end and time passes.
FairSpec ==
    /\ Spec
    /\ WF_vars(Tick)
    /\ \A r \in Requests : WF_vars(Proceed(r)) /\ WF_vars(Answer(r))

----------------------------------------------------------------------------
(* Properties.                                                              *)

Labels == {"idle", "pick", "admit", "exec", "stream", "full", "decide", "closest", "sleep", "done"}

Errors == AllKinds \cup {"cooldown", "unavailable", None}

PoolType ==
    /\ left \in [Creds -> Nat]
    /\ why \in [Creds -> AllKinds \cup {None}]
    /\ slots \in [Creds -> Nat]

PassType ==
    /\ pc \in [Requests -> Labels]
    /\ round \in [Requests -> Nat]
    /\ tried \in [Requests -> SUBSET Creds]
    /\ attempted \in [Requests -> SUBSET Creds]
    /\ picked \in [Requests -> SUBSET Creds]
    /\ busy \in [Requests -> SUBSET Creds]
    /\ cur \in [Requests -> Creds \cup {None}]
    /\ last \in [Requests -> Errors]
    /\ after \in [Requests -> Nat \cup {None}]

WaitType ==
    /\ timer \in [Requests -> Nat]
    /\ budget \in [Requests -> Nat \cup {None}]
    /\ woken \subseteq Requests

HistoryType ==
    /\ tries \in [Requests -> [Creds -> Nat]]
    /\ queued \in [Requests -> Nat]
    /\ slept \in [Requests -> Nat]

\* Types: no counter of slots falls below zero, no deadline is missed.
TypeOK == PoolType /\ PassType /\ WaitType /\ HistoryType

\* One call never burdens a credential with more than its request-retry setting allows:
\* one attempt per round, none in a round beyond the setting; queueing for a slot and
\* looking at the same credential again does not add attempts (executeMixedOnce,
\* requestRetryRoundExclusions).
TriesWithinLimits ==
    \A r \in Requests, c \in Creds : tries[r][c] <= Limit[c] + 1

GivesUpRound(r) == pc[r] = "pick" /\ pc'[r] = "decide" /\ ~CapReached(r)

\* Failover is complete: a round is only given up when every credential was attempted in
\* it, is blocked, has no upstream model or may not take part in a round this late, or
\* when max-retry-credentials attempts were made.  Nobody set aside as busy is forgotten
\* (the loop of executeMixedOnce and waitForLocalCredentialCapacity).
NoneSkipped ==
    [][\A r \in Requests : GivesUpRound(r) =>
        \A c \in Creds \ (attempted[r] \cup Bare) :
            Blocked(c) \/ c \in requestRetryRoundExclusions(round[r])]_vars

\* A call queues for QueueTimeout at most, all its rounds and wake-ups together
\* (localCredentialAdmissionWaitState).
QueueBudget == \A r \in Requests : queued[r] <= QueueTimeout

\* No sleep between rounds is longer than max-retry-interval, jitter included
\* (jitteredCooldownWait).
SleepBounded == \A r \in Requests : slept[r] <= MaxWait

Executing(c) == {r \in Requests : pc[r] \in {"exec", "stream"} /\ cur[r] = c}

\* Every way out of an execution gives its slot back, so that a call never holds one while
\* it queues, sleeps or has returned (releaseAdmission).
SlotsReturned == \A c \in Creds : slots[c] = Cardinality(Executing(c))

\* Every call returns, although calls queue for the slots of each other.
CallReturns == \A r \in Requests : pc[r] # "idle" ~> pc[r] = "done"
=============================================================================
