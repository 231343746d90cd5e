---------------------- MODULE LocalCredentialAdmission ----------------------
(***************************************************************************)
(* The per-credential concurrency limiters of the auth manager             *)
(* (sdk/cliproxy/auth/local_credential_admission.go) and the part of an    *)
(* execution call that goes through them (conductor_execution.go).         *)
(*                                                                         *)
(* A limiter is an object: a request keeps its pointer from step to step   *)
(* while the map entry of its credential may be deleted and made anew.     *)
(* Limiters are numbered in the order they are allocated.  Every section   *)
(* under a limiter's mutex is one action, and so is every access to the    *)
(* configuration or to the limiter map.                                    *)
(*                                                                         *)
(* A limiter closes and replaces its notification channel on every change: *)
(* subs[r] holds the limiters whose current channel request r listens to,  *)
(* and signalled the requests that listen to a closed one.                 *)
(*                                                                         *)
(* A definition BugX states a plausible mistake in the definition X that   *)
(* follows it.                                                             *)
(***************************************************************************)
EXTENDS Integers, Sequences, FiniteSets

CONSTANTS
    Creds,        \* credentials (auth IDs)
    Requests,     \* execution calls
    Admins,       \* registrations, updates and removals of credentials
    Settings,     \* the settings [max, cap] a credential may be given
    MaxLimiters,  \* bound: limiter objects allocated
    MaxReloads,   \* bound: configuration changes
    MaxRounds     \* retry rounds of a call, after the first

ASSUME SettingsAssumption == Settings \subseteq [max : Nat, cap : Nat]
ASSUME CredsAssumption == Creds # {}
ASSUME RequestsAssumption == IsFiniteSet(Requests)
ASSUME BoundsAssumption == MaxLimiters \in Nat /\ MaxReloads \in Nat /\ MaxRounds \in Nat

Limiters == 1..MaxLimiters

\* The zero localCredentialAdmissionSettings: no limit, no queue.
Zero == [max |-> 0, cap |-> 0]

VARIABLES
    config,      \* localCredentialAdmissionSettings of each credential
    reloads,     \* configuration changes so far
    telling,     \* credentials a configuration change has yet to signal
    made,        \* limiters allocated so far
    limiter,     \* localCredentialAdmissions: credential -> limiter, 0 if none
    settings,    \* per limiter
    inFlight,    \* per limiter
    waiters,     \* per limiter
    pc,          \* per request: where its call is
    cred,        \* per request: the credential it picked
    want,        \* per request: the settings it read for cred
    lim,         \* per request: the limiter it loaded for cred, 0 if none
    round,       \* per request: retry round of its call
    tried,       \* per request: credentials picked since the last fresh pass
    busy,        \* per request: refusals [cred, lim], in order
    at,          \* per request: index in busy of the loop under way
    counted,     \* per request: limiter its admission counts on, 0 if none
    registered,  \* per request: limiter whose queue slot it takes, 0 if none
    subs,        \* per request: limiters whose channel it listens to
    signalled,   \* requests one of whose channels is closed
    deadline,    \* per request: its admission deadline: unset, armed, passed
    live,        \* credentials in Manager.auths
    epoch,       \* authEpochs: per credential
    op,          \* per admin: the step of its operation
    opCred,      \* per admin: the credential it works on
    opEpoch,     \* per admin: the epoch of the credential it stored
    opLim,       \* per admin: the limiter it works on, 0 if none
    opSet        \* per admin: the settings it read

configVars == <<config, reloads, telling>>
limiterVars == <<settings, inFlight, waiters>>
mapVars == <<made, limiter>>
pickVars == <<cred, want, lim>>
passVars == <<pickVars, round, tried, busy>>
waitVars == <<at, registered, subs, signalled, deadline>>
opVars == <<op, opCred, opEpoch, opLim, opSet>>
adminVars == <<live, epoch, opVars>>
vars == <<configVars, limiterVars, mapVars, pc, passVars, counted, waitVars,
          adminVars>>

PC == {"pick", "load", "configure", "acquire", "hold", "register", "collect",
       "parked", "recheck", "leaveRetry", "leaveFail", "done"}

AdminStep == {"idle", "changed", "loaded", "delete", "removing", "removed", "done"}

AnySettings == Settings \cup {Zero}

AnyCred == CHOOSE c \in Creds : TRUE

Init ==
    /\ config \in [Creds -> Settings]
    /\ reloads = 0
    /\ telling = {}
    /\ made = 0
    /\ limiter = [c \in Creds |-> 0]
    /\ settings = [l \in Limiters |-> Zero]
    /\ inFlight = [l \in Limiters |-> 0]
    /\ waiters = [l \in Limiters |-> 0]
    /\ pc = [r \in Requests |-> "pick"]
    /\ cred = [r \in Requests |-> AnyCred]
    /\ want = [r \in Requests |-> Zero]
    /\ lim = [r \in Requests |-> 0]
    /\ round = [r \in Requests |-> 0]
    /\ tried = [r \in Requests |-> {}]
    /\ busy = [r \in Requests |-> <<>>]
    /\ at = [r \in Requests |-> 1]
    /\ counted = [r \in Requests |-> 0]
    /\ registered = [r \in Requests |-> 0]
    /\ subs = [r \in Requests |-> {}]
    /\ signalled = {}
    /\ deadline = [r \in Requests |-> "unset"]
    /\ live = Creds
    /\ epoch = [c \in Creds |-> 0]
    /\ op = [a \in Admins |-> "idle"]
    /\ opCred = [a \in Admins |-> AnyCred]
    /\ opEpoch = [a \in Admins |-> 0]
    /\ opLim = [a \in Admins |-> 0]
    /\ opSet = [a \in Admins |-> Zero]

-----------------------------------------------------------------------------
(* The limiter: operations under its mutex. *)

BugSignal(l) == UNCHANGED <<subs, signalled>>
\* signalLocked: close the channel, so that whoever listens to it wakes up, and
\* replace it by one nobody listens to yet.
Signal(l) ==
    /\ signalled' = signalled \cup {r \in Requests : l \in subs[r]}
    /\ subs' = [r \in Requests |-> subs[r] \ {l}]

\* configure: only settings that differ are stored and signalled.
Configure(l, s) ==
    IF settings[l] = s
      THEN UNCHANGED <<settings, subs, signalled>>
      ELSE /\ settings' = [settings EXCEPT ![l] = s]
           /\ Signal(l)

BugAvailable(l) == inFlight[l] =< settings[l].max
\* A limiter is available when it has no limit or is below it.
Available(l) == settings[l].max = 0 \/ inFlight[l] < settings[l].max

\* No queue, or no slot left in it.
QueueFull(l) == settings[l].cap = 0 \/ waiters[l] >= settings[l].cap

\* A counter that never drops below zero.
Less(n) == IF n > 0 THEN n - 1 ELSE n

\* The request is through with the credential it picked.
DropPick(r) ==
    /\ cred' = [cred EXCEPT ![r] = AnyCred]
    /\ want' = [want EXCEPT ![r] = Zero]
    /\ lim' = [lim EXCEPT ![r] = 0]

\* The call returns: its local state is gone.
Return(r) ==
    /\ pc' = [pc EXCEPT ![r] = "done"]
    /\ DropPick(r)
    /\ round' = [round EXCEPT ![r] = 0]
    /\ tried' = [tried EXCEPT ![r] = {}]
    /\ busy' = [busy EXCEPT ![r] = <<>>]
    /\ at' = [at EXCEPT ![r] = 1]
    /\ deadline' = [deadline EXCEPT ![r] = "unset"]

-----------------------------------------------------------------------------
(* A request: pick a credential and try to be admitted by its limiter. *)

\* pickNextMixed returns a credential that this pass has not tried; the call
\* goes on to the next one if it has no model for it.  Otherwise it reads the
\* settings of the credential, and runs unlimited if no limit is enabled.
Pick(r) ==
    /\ pc[r] = "pick"
    /\ \E c \in Creds \ tried[r] :
         /\ tried' = [tried EXCEPT ![r] = @ \cup {c}]
         /\ \/ UNCHANGED <<pc, cred, want>>
            \/ /\ cred' = [cred EXCEPT ![r] = c]
               /\ want' = [want EXCEPT ![r] = config[c]]
               /\ pc' = [pc EXCEPT ![r] = IF config[c].max = 0 THEN "hold" ELSE "load"]
    /\ UNCHANGED <<configVars, limiterVars, mapVars, lim, round, busy, counted, waitVars,
                   adminVars>>

\* The limiter that LoadOrStore is given, an object of its own.
NewLimiter == made + 1

\* LoadOrStore of the limiter map.
Load(r) ==
    LET c == cred[r] IN
    /\ pc[r] = "load"
    /\ \/ limiter[c] # 0 /\ UNCHANGED mapVars
       \/ /\ limiter[c] = 0
          /\ made < MaxLimiters
          /\ made' = made + 1
          /\ limiter' = [limiter EXCEPT ![c] = NewLimiter]
    /\ lim' = [lim EXCEPT ![r] = limiter'[c]]
    /\ pc' = [pc EXCEPT ![r] = "configure"]
    /\ UNCHANGED <<configVars, limiterVars, cred, want, round, tried, busy, counted,
                   waitVars, adminVars>>

\* The limiter takes the settings that the request read.
ConfigureLimiter(r) ==
    /\ pc[r] = "configure"
    /\ Configure(lim[r], want[r])
    /\ pc' = [pc EXCEPT ![r] = "acquire"]
    /\ UNCHANGED <<configVars, inFlight, waiters, mapVars, passVars, counted, at,
                   registered, deadline, adminVars>>

\* tryAcquire admits the request: without counting it when there is no limit.
Admit(r) ==
    LET l == lim[r] IN
    /\ pc[r] = "acquire"
    /\ Available(l)
    /\ IF settings[l].max = 0
         THEN UNCHANGED <<inFlight, counted>>
         ELSE /\ inFlight' = [inFlight EXCEPT ![l] = @ + 1]
              /\ counted' = [counted EXCEPT ![r] = l]
    /\ want' = [want EXCEPT ![r] = Zero]
    /\ lim' = [lim EXCEPT ![r] = 0]
    /\ pc' = [pc EXCEPT ![r] = "hold"]
    /\ UNCHANGED <<configVars, settings, waiters, mapVars, cred, round, tried, busy,
                   waitVars, adminVars>>

\* tryAcquire refuses: the limiter joins the busy ones and another credential
\* is picked.
Refuse(r) ==
    /\ pc[r] = "acquire"
    /\ ~ Available(lim[r])
    /\ busy' = [busy EXCEPT ![r] = Append(@, [cred |-> cred[r], lim |-> lim[r]])]
    /\ DropPick(r)
    /\ pc' = [pc EXCEPT ![r] = "pick"]
    /\ UNCHANGED <<configVars, limiterVars, mapVars, round, tried, counted, waitVars,
                   adminVars>>

BugReleased(r) == UNCHANGED <<inFlight, subs, signalled>>
\* The release function: give the slot back and wake whoever waits for it.
Released(r) ==
    IF counted[r] = 0
      THEN UNCHANGED <<inFlight, subs, signalled>>
      ELSE /\ inFlight' = [inFlight EXCEPT ![counted[r]] = Less(@)]
           /\ Signal(counted[r])

\* The execution ends: the call returns, or goes on to another credential.
Release(r) ==
    /\ pc[r] = "hold"
    /\ Released(r)
    /\ counted' = [counted EXCEPT ![r] = 0]
    /\ \/ Return(r)
       \/ /\ pc' = [pc EXCEPT ![r] = "pick"]
          /\ DropPick(r)
          /\ UNCHANGED <<round, tried, busy, at, deadline>>
    /\ UNCHANGED <<configVars, settings, waiters, mapVars, registered, adminVars>>

-----------------------------------------------------------------------------
(* A request that found every credential busy or tried waits for capacity. *)

BusyCreds(r) == {busy[r][i].cred : i \in DOMAIN busy[r]}

\* pickNextMixed finds no credential: wait if some were busy; else the call
\* fails, or starts another retry round.  The call also fails when it may not
\* attempt any more credentials.
PickFails(r) ==
    /\ pc[r] = "pick"
    /\ \/ /\ busy[r] # <<>>
          /\ pc' = [pc EXCEPT ![r] = "register"]
          /\ UNCHANGED <<passVars, at, deadline>>
       \/ /\ busy[r] = <<>> \/ tried[r] # BusyCreds(r)
          /\ Return(r)
       \/ /\ busy[r] = <<>>
          /\ round[r] < MaxRounds
          /\ round' = [round EXCEPT ![r] = @ + 1]
          /\ tried' = [tried EXCEPT ![r] = {}]
          /\ UNCHANGED <<pc, pickVars, busy, at, deadline>>
    /\ UNCHANGED <<configVars, limiterVars, mapVars, counted, registered, subs, signalled,
                   adminVars>>

\* The wait is over: the busy credentials may be picked again.
FreshPass(r) ==
    /\ pc' = [pc EXCEPT ![r] = "pick"]
    /\ tried' = [tried EXCEPT ![r] = @ \ BusyCreds(r)]
    /\ busy' = [busy EXCEPT ![r] = <<>>]
    /\ at' = [at EXCEPT ![r] = 1]

\* registerWaiter of the next busy limiter takes the first free queue slot.
Register(r) ==
    LET l == busy[r][at[r]].lim IN
    /\ pc[r] = "register"
    /\ at[r] =< Len(busy[r])
    /\ \/ /\ Available(l)
          /\ FreshPass(r)
          /\ UNCHANGED <<waiters, registered>>
       \/ /\ ~ Available(l) /\ QueueFull(l)
          /\ at' = [at EXCEPT ![r] = @ + 1]
          /\ UNCHANGED <<tried, busy, pc, waiters, registered>>
       \/ /\ ~ Available(l) /\ ~ QueueFull(l)
          /\ waiters' = [waiters EXCEPT ![l] = @ + 1]
          /\ registered' = [registered EXCEPT ![r] = l]
          /\ at' = [at EXCEPT ![r] = 1]
          /\ pc' = [pc EXCEPT ![r] = "collect"]
          /\ UNCHANGED <<tried, busy>>
    /\ UNCHANGED <<configVars, settings, inFlight, mapVars, pickVars, round, counted, subs,
                   signalled, deadline, adminVars>>

\* Every queue is full: the call fails with the busy error.
QueuesFull(r) ==
    /\ pc[r] = "register"
    /\ at[r] > Len(busy[r])
    /\ Return(r)
    /\ UNCHANGED <<configVars, limiterVars, mapVars, counted, registered, subs, signalled,
                   adminVars>>

\* availabilitySignal of the next busy limiter: listen to it, or stop waiting.
Collect(r) ==
    LET l == busy[r][at[r]].lim IN
    /\ pc[r] = "collect"
    /\ at[r] =< Len(busy[r])
    /\ \/ /\ Available(l)
          /\ pc' = [pc EXCEPT ![r] = "leaveRetry"]
          /\ UNCHANGED <<at, subs>>
       \/ /\ ~ Available(l)
          /\ at' = [at EXCEPT ![r] = @ + 1]
          /\ subs' = [subs EXCEPT ![r] = @ \cup {l}]
          /\ UNCHANGED pc
    /\ UNCHANGED <<configVars, limiterVars, mapVars, passVars, counted, registered,
                   signalled, deadline, adminVars>>

\* remaining: the deadline is armed once per call.
Deadline(r) == deadline' = [deadline EXCEPT ![r] = IF @ = "unset" THEN "armed" ELSE @]

\* Park on all the channels, unless the deadline of the call has passed.
Park(r) ==
    /\ pc[r] = "collect"
    /\ at[r] > Len(busy[r])
    /\ Deadline(r)
    /\ pc' = [pc EXCEPT ![r] = IF deadline'[r] = "passed" THEN "leaveFail" ELSE "parked"]
    /\ UNCHANGED <<configVars, limiterVars, mapVars, passVars, counted, at, registered,
                   subs, signalled, adminVars>>

\* Time passes beyond the deadline of the call.
Expire(r) ==
    /\ deadline[r] = "armed"
    /\ deadline' = [deadline EXCEPT ![r] = "passed"]
    /\ UNCHANGED <<configVars, limiterVars, mapVars, pc, passVars, counted, at,
                   registered, subs, signalled, adminVars>>

\* The select of a parked request takes a channel, its timer, or ctx.Done().
Wake(r) ==
    /\ pc[r] = "parked"
    /\ \/ /\ r \in signalled
          /\ pc' = [pc EXCEPT ![r] = "leaveRetry"]
          /\ UNCHANGED at
       \/ /\ deadline[r] = "passed"
          /\ pc' = [pc EXCEPT ![r] = "recheck"]
          /\ at' = [at EXCEPT ![r] = 1]
    /\ UNCHANGED <<configVars, limiterVars, mapVars, passVars, counted, registered, subs,
                   signalled, deadline, adminVars>>

\* The context of the request ends: looked at before and after registering.
CtxDone(r) ==
    /\ \/ /\ pc[r] = "register" /\ at[r] = 1
          /\ Return(r)
       \/ /\ \/ pc[r] = "collect" /\ at[r] > Len(busy[r])
             \/ pc[r] = "parked"
          /\ pc' = [pc EXCEPT ![r] = "leaveFail"]
          /\ UNCHANGED <<passVars, at, deadline>>
    /\ UNCHANGED <<configVars, limiterVars, mapVars, counted, registered, subs, signalled,
                   adminVars>>

\* After a timeout every busy limiter is looked at once more.
Recheck(r) ==
    /\ pc[r] = "recheck"
    /\ \/ /\ at[r] =< Len(busy[r]) /\ ~ Available(busy[r][at[r]].lim)
          /\ at' = [at EXCEPT ![r] = @ + 1]
          /\ UNCHANGED pc
       \/ /\ at[r] =< Len(busy[r]) /\ Available(busy[r][at[r]].lim)
          /\ pc' = [pc EXCEPT ![r] = "leaveRetry"]
          /\ UNCHANGED at
       \/ /\ at[r] > Len(busy[r])
          /\ pc' = [pc EXCEPT ![r] = "leaveFail"]
          /\ UNCHANGED at
    /\ UNCHANGED <<configVars, limiterVars, mapVars, passVars, counted, registered, subs,
                   signalled, deadline, adminVars>>

BugLeaveQueue(r) == waiters' = waiters
\* The cancel function of registerWaiter.
LeaveQueue(r) == waiters' = [waiters EXCEPT ![registered[r]] = Less(@)]

\* waitForLocalCredentialCapacity returns: its deferred cancel runs.
Leave(r) ==
    /\ LeaveQueue(r)
    /\ registered' = [registered EXCEPT ![r] = 0]
    /\ subs' = [subs EXCEPT ![r] = {}]
    /\ signalled' = signalled \ {r}
    /\ \/ pc[r] = "leaveRetry" /\ FreshPass(r) /\ UNCHANGED <<pickVars, round, deadline>>
       \/ pc[r] = "leaveFail" /\ Return(r)
    /\ UNCHANGED <<configVars, settings, inFlight, mapVars, counted, adminVars>>

-----------------------------------------------------------------------------
(* Configuration changes, and changes of a credential. *)

\* setConfigSnapshotLocked: the new configuration is stored first, then every
\* limiter of the map is signalled.
ConfigChange ==
    /\ telling = {}
    /\ reloads < MaxReloads
    /\ reloads' = reloads + 1
    /\ config' \in [Creds -> Settings]
    /\ telling' = Creds
    /\ UNCHANGED <<limiterVars, mapVars, pc, passVars, counted, waitVars, adminVars>>

\* notifyLocalCredentialAdmissionConfigChanged visits one entry of the map.
Tell(c) ==
    /\ c \in telling
    /\ telling' = telling \ {c}
    /\ IF limiter[c] = 0 THEN UNCHANGED <<subs, signalled>> ELSE Signal(limiter[c])
    /\ UNCHANGED <<config, reloads, limiterVars, mapVars, pc, passVars, counted, at,
                   registered, deadline, adminVars>>

\* Nobody reads Manager.auths under m.mu.
Unread == \A a \in Admins : op[a] \notin {"loaded", "delete"}

\* No removal holds the persistence lock of the credential.
Unlocked(c) ==
    \A a \in Admins : opCred[a] = c => op[a] \notin {"removing", "removed"}

\* Register or updateInternal has stored a credential with its own settings:
\* a registration starts a new epoch.
ChangeAuth(a, c) ==
    /\ op[a] = "idle"
    /\ Unread /\ Unlocked(c)
    /\ config' \in {[config EXCEPT ![c] = s] : s \in Settings}
    /\ \/ c \in live /\ UNCHANGED <<live, epoch>>
       \/ live' = live \cup {c} /\ epoch' = [epoch EXCEPT ![c] = @ + 1]
    /\ op' = [op EXCEPT ![a] = "changed"]
    /\ opCred' = [opCred EXCEPT ![a] = c]
    /\ opEpoch' = [opEpoch EXCEPT ![a] = epoch'[c]]
    /\ UNCHANGED <<reloads, telling, limiterVars, mapVars, pc, passVars, counted, waitVars,
                   opLim, opSet>>

\* refreshLocalCredentialAdmission, under m.mu: nothing to do if the credential
\* is of another epoch or has no limiter.
RefreshLoad(a) ==
    LET c == opCred[a] IN
    /\ op[a] = "changed"
    /\ \/ /\ c \notin live \/ epoch[c] # opEpoch[a] \/ limiter[c] = 0
          /\ op' = [op EXCEPT ![a] = "done"]
          /\ UNCHANGED <<opLim, opSet>>
       \/ /\ c \in live /\ epoch[c] = opEpoch[a] /\ limiter[c] # 0
          /\ op' = [op EXCEPT ![a] = "loaded"]
          /\ opLim' = [opLim EXCEPT ![a] = limiter[c]]
          /\ opSet' = [opSet EXCEPT ![a] = config[c]]
    /\ UNCHANGED <<configVars, limiterVars, mapVars, pc, passVars, counted, waitVars,
                   live, epoch, opCred, opEpoch>>

\* It configures the limiter, with no limit when limits are disabled.
RefreshConfigure(a) ==
    LET s == opSet[a] IN
    /\ op[a] = "loaded"
    /\ Configure(opLim[a], IF s.max > 0 THEN s ELSE Zero)
    /\ op' = [op EXCEPT ![a] = IF s.max > 0 THEN "done" ELSE "delete"]
    /\ UNCHANGED <<configVars, inFlight, waiters, mapVars, pc, passVars, counted, at,
                   registered, deadline, live, epoch, opCred, opEpoch, opLim, opSet>>

\* And then deletes whatever entry the credential has.
RefreshDelete(a) ==
    /\ op[a] = "delete"
    /\ limiter' = [limiter EXCEPT ![opCred[a]] = 0]
    /\ op' = [op EXCEPT ![a] = "done"]
    /\ UNCHANGED <<configVars, limiterVars, made, pc, passVars, counted, waitVars,
                   live, epoch, opCred, opEpoch, opLim, opSet>>

\* RemoveWithPersistence takes the credential out of Manager.auths.
Remove(a, c) ==
    /\ op[a] = "idle"
    /\ Unread /\ Unlocked(c)
    /\ c \in live
    /\ live' = live \ {c}
    /\ epoch' = [epoch EXCEPT ![c] = @ + 1]
    /\ op' = [op EXCEPT ![a] = "removing"]
    /\ opCred' = [opCred EXCEPT ![a] = c]
    /\ UNCHANGED <<configVars, limiterVars, mapVars, pc, passVars, counted, waitVars,
                   opEpoch, opLim, opSet>>

\* removeLocalCredentialAdmission: LoadAndDelete, then lift the limit.
RemoveEntry(a) ==
    LET c == opCred[a] IN
    /\ op[a] = "removing"
    /\ limiter' = [limiter EXCEPT ![c] = 0]
    /\ op' = [op EXCEPT ![a] = IF limiter[c] = 0 THEN "done" ELSE "removed"]
    /\ opLim' = [opLim EXCEPT ![a] = limiter[c]]
    /\ UNCHANGED <<configVars, limiterVars, made, pc, passVars, counted, waitVars,
                   live, epoch, opCred, opEpoch, opSet>>

RemoveConfigure(a) ==
    /\ op[a] = "removed"
    /\ Configure(opLim[a], Zero)
    /\ op' = [op EXCEPT ![a] = "done"]
    /\ UNCHANGED <<configVars, inFlight, waiters, mapVars, pc, passVars, counted, at,
                   registered, deadline, live, epoch, opCred, opEpoch, opLim, opSet>>

-----------------------------------------------------------------------------
Run(r) ==
    \/ Pick(r) \/ Load(r) \/ ConfigureLimiter(r) \/ Admit(r) \/ Refuse(r)
    \/ Release(r) \/ PickFails(r) \/ Register(r) \/ QueuesFull(r) \/ Collect(r)
    \/ Park(r) \/ Wake(r) \/ Recheck(r) \/ Leave(r)

AdminStepOf(a) ==
    \/ RefreshLoad(a) \/ RefreshConfigure(a) \/ RefreshDelete(a)
    \/ RemoveEntry(a) \/ RemoveConfigure(a)
    \/ \E c \in Creds : ChangeAuth(a, c) \/ Remove(a, c)

Next ==
    \/ \E r \in Requests : Run(r) \/ Expire(r) \/ CtxDone(r)
    \/ \E a \in Admins : AdminStepOf(a)
    \/ ConfigChange
    \/ \E c \in Creds : Tell(c)

Spec == Init /\ [][Next]_vars

\* A call keeps running and every execution ends; neither a deadline nor the
\* end of a context is counted on.
FairSpec == Spec /\ \A r \in Requests : WF_vars(Run(r))

-----------------------------------------------------------------------------
(* Properties. *)

MaybeLimiter == Limiters \cup {0}
Refusals == [cred : Creds, lim : Limiters]

ConfigType ==
    /\ config \in [Creds -> Settings]
    /\ reloads \in Nat
    /\ telling \subseteq Creds
    /\ live \subseteq Creds
    /\ epoch \in [Creds -> Nat]

LimiterType ==
    /\ made \in Nat /\ made =< MaxLimiters
    /\ limiter \in [Creds -> MaybeLimiter]
    /\ settings \in [Limiters -> AnySettings]
    /\ inFlight \in [Limiters -> Nat]
    /\ waiters \in [Limiters -> Nat]

PassType ==
    /\ pc \in [Requests -> PC]
    /\ cred \in [Requests -> Creds]
    /\ want \in [Requests -> AnySettings]
    /\ lim \in [Requests -> MaybeLimiter]
    /\ \A r \in Requests : pc[r] \in {"configure", "acquire"} => lim[r] # 0
    /\ round \in [Requests -> Nat]
    /\ tried \in [Requests -> SUBSET Creds]
    /\ busy \in [Requests -> Seq(Refusals)]

WaitType ==
    /\ at \in [Requests -> Nat \ {0}]
    /\ counted \in [Requests -> MaybeLimiter]
    /\ registered \in [Requests -> MaybeLimiter]
    /\ subs \in [Requests -> SUBSET Limiters]
    /\ signalled \subseteq Requests
    /\ deadline \in [Requests -> {"unset", "armed", "passed"}]

AdminType ==
    /\ op \in [Admins -> AdminStep]
    /\ opCred \in [Admins -> Creds]
    /\ opEpoch \in [Admins -> Nat]
    /\ opLim \in [Admins -> MaybeLimiter]
    /\ opSet \in [Admins -> AnySettings]
    /\ \A a \in Admins : op[a] \in {"loaded", "removed"} => opLim[a] # 0

\* Every variable keeps its type; whoever is about to use a limiter, a request
\* past LoadOrStore or an administrative operation, has a real one.
TypeOK == ConfigType /\ LimiterType /\ PassType /\ WaitType /\ AdminType

Holders(l) == {r \in Requests : counted[r] = l}
Waiting(l) == {r \in Requests : registered[r] = l}

\* inFlight is the number of executions admitted against the limiter that have
\* not ended, whatever reconfiguration, removal or replacement happened since:
\* no slot leaks and none is given back twice.
SlotsCounted == \A l \in Limiters : inFlight[l] = Cardinality(Holders(l))

\* waiters is the number of requests inside waitForLocalCredentialCapacity that
\* took a slot of this queue: every way out of the wait gives the slot back.
QueueCounted == \A l \in Limiters : waiters[l] = Cardinality(Waiting(l))

\* No wake-up is lost: while a request is parked and none of its channels is
\* closed, every limiter that refused it is at its limit, so that a release or
\* a reconfiguration of any of them will wake it.
NoLostCapacity ==
    \A r \in Requests : pc[r] = "parked" /\ r \notin signalled =>
        \A i \in 1..Len(busy[r]) : ~ Available(busy[r][i].lim)

Executing(c) == {r \in Requests : pc[r] = "hold" /\ cred[r] = c}

\* "MaxInFlight limits concurrent inference requests per local Claude
\* credential" (internal/config/sdk_config.go:73): at no time do more requests
\* execute on a registered credential than its limit.
LimitKept ==
    \A c \in live : config[c].max > 0 => Cardinality(Executing(c)) =< config[c].max

\* A request parked in a queue always leaves it again without the help of its
\* timer: its limiters are full, so someone holds a slot, and gives it back.
WaitEnds == \A r \in Requests : pc[r] = "parked" ~> pc[r] # "parked"

=============================================================================
