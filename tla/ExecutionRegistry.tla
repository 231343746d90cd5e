-------------------------- MODULE ExecutionRegistry --------------------------
(***************************************************************************)
(* The execution registry of one Home subscriber lifetime                  *)
(* (sdk/cliproxy/executionregistry).  Request goroutines reserve a pending *)
(* dispatch, install it as a scope, bind one closeable resource to the     *)
(* scope and finally end it.  Concurrently the registry is drained or      *)
(* closed, its in-flight executions are frozen for Home, and every ended   *)
(* accounted scope is announced to a release sink as a cumulative sequence *)
(* number per (credential, model) group.                                   *)
(*                                                                         *)
(* Granularity.  Every critical section of Registry.mu or Scope.mu is one  *)
(* step, except that the lifecycle state is an atomic word that Drain and  *)
(* Close change WITHOUT holding mu.  BeginDispatch, Install and Bind       *)
(* therefore take two steps: lock mu and load the state, then act on the   *)
(* loaded value and unlock; mu and muId say who is in between.             *)
(*                                                                         *)
(* An operator BugX is a faulty variant of the definition X that follows   *)
(* it; no action uses it.  Replacing X by BugX must break a property.      *)
(***************************************************************************)
EXTENDS Naturals, FiniteSets

CONSTANTS
    MaxDispatch,   \* bound on r.next: dispatch ids are 1..MaxDispatch
    Groups,        \* release groups (credential, model) of accounted scopes
    Unaccounted,   \* the "group" of a scope whose spec is not accounted
    Sinks,         \* release sinks (the MarkDirty methods of flushers)
    NoSink,        \* the nil release sink
    MaxBarrier,    \* barrier revisions are 1..MaxBarrier
    Drainers,      \* goroutines that call Drain
    Closers,       \* goroutines that call Close
    Waiters        \* goroutines that call WaitPending

Ids == 1..MaxDispatch
Callers == Drainers \cup Closers \cup Waiters

ASSUME BoundsAssumption == MaxDispatch \in Nat /\ MaxBarrier \in Nat
ASSUME NamesAssumption == /\ Unaccounted \notin Groups
                          /\ NoSink \notin Sinks
ASSUME CallersAssumption == /\ Drainers \cap Closers = {}
                            /\ Drainers \cap Waiters = {}
                            /\ Closers \cap Waiters = {}

VARIABLES
    state,                   \* Registry.state: "accepting", "draining", "closed"
    mu, muId,                \* who is between the state load and its effect
    next,                    \* Registry.next, the last dispatch id given out
    pending, scopes,         \* the keys of Registry.pending and Registry.scopes
    group,                   \* Scope.spec: group, or Unaccounted, per id
    resource,                \* Scope.closeFn and closeDone, see ResourceState
    ending,                  \* progress of Scope.EndWithRelease, see EndState
    releaseSink,             \* Registry.releaseSink
    releaseSequences,        \* Registry.releaseSequences
    announcing,              \* sink and sequence EndWithRelease captured, per id
    replay,                  \* sequences SetReleaseSink has still to replay
    announced,               \* highest sequence each sink was called with
    observedBarrier, pendingBarrierSequence, publishedBarrier,
    begunBefore,             \* history: r.next when a barrier was observed
    freeze,                  \* the last Freeze: its barrier and executions
    call,                    \* control state of Drain, Close and WaitPending
    snapshot,                \* scopes a Drain or Close has still to close
    closePhase,              \* closeStarted and closeDone: see ClosePhase
    closeWait                \* the scope whose resource Close waits for, or 0

lifecycle == <<state, mu, muId>>
dispatchVars == <<next, pending, scopes, group>>
releaseVars == <<releaseSink, releaseSequences, announcing, replay, announced>>
barrierVars == <<observedBarrier, pendingBarrierSequence, publishedBarrier,
                 begunBefore, freeze>>
closeVars == <<closePhase, closeWait>>
slots == <<dispatchVars, resource, ending>>
reports == <<releaseVars, barrierVars>>
calls == <<call, snapshot, closeVars>>
vars == <<lifecycle, slots, reports, calls>>

\* "none": closeFn = nil and closeDone = nil; "bound": closeFn # nil;
\* "closing": closeDone is open, its goroutine runs closeFn; "closed".
ResourceState == {"none", "bound", "closing", "closed"}

\* "absent": no scope yet; "active": Scope.active; then the steps of
\* EndWithRelease: start closing, wait for closeDone, mark the release, call
\* the sink, delete the scope; "ended".
EndState == {"absent", "active", "inactive", "closing", "mark", "sink",
             "delete", "ended"}
Released == {"sink", "delete", "ended"}

\* "woken" is a caller about to lock mu and evaluate its loop condition,
\* "parked" one that waits for the changed channel it read under mu.
CallState == {"idle", "force", "snapshot", "close", "join", "parked", "woken",
              "timeout", "done"}

\* "none": closeStarted is false; "started": closeDone is open; "done".
ClosePhase == {"none", "started", "done"}

NoAnnouncement == [sink |-> NoSink, seq |-> 0]

\* Types of the fields of Registry, Scope and PendingDispatch and of their callers.
TypeOK ==
    /\ state \in {"accepting", "draining", "closed"}
    /\ mu \in {"free", "begin", "install", "bind"}
    /\ muId \in 0..MaxDispatch
    /\ next \in 0..MaxDispatch
    /\ pending \subseteq Ids
    /\ scopes \subseteq Ids
    /\ group \in [Ids -> Groups \cup {Unaccounted}]
    /\ resource \in [Ids -> ResourceState]
    /\ ending \in [Ids -> EndState]
    /\ releaseSink \in Sinks \cup {NoSink}
    /\ releaseSequences \in [Groups -> Nat]
    /\ announcing \in [Ids -> [sink : Sinks \cup {NoSink}, seq : Nat]]
    /\ replay \in SUBSET [group : Groups, seq : Nat]
    /\ announced \in [Sinks -> [Groups -> Nat]]
    /\ observedBarrier \in 0..MaxBarrier
    /\ pendingBarrierSequence \in 0..MaxDispatch
    /\ publishedBarrier \in 0..MaxBarrier
    /\ begunBefore \in [0..MaxBarrier -> 0..MaxDispatch]
    /\ freeze \in [barrier : 0..MaxBarrier, executions : SUBSET Ids]
    /\ call \in [Callers -> CallState]
    /\ snapshot \in [Callers -> SUBSET Ids]
    /\ closePhase \in ClosePhase
    /\ closeWait \in 0..MaxDispatch

Init ==
    /\ state = "accepting"
    /\ mu = "free" /\ muId = 0
    /\ next = 0
    /\ pending = {} /\ scopes = {}
    /\ group = [i \in Ids |-> Unaccounted]
    /\ resource = [i \in Ids |-> "none"]
    /\ ending = [i \in Ids |-> "absent"]
    /\ releaseSink = NoSink
    /\ releaseSequences = [g \in Groups |-> 0]
    /\ announcing = [i \in Ids |-> NoAnnouncement]
    /\ replay = {}
    /\ announced = [s \in Sinks |-> [g \in Groups |-> 0]]
    /\ observedBarrier = 0 /\ pendingBarrierSequence = 0 /\ publishedBarrier = 0
    /\ begunBefore = [b \in 0..MaxBarrier |-> 0]
    /\ freeze = [barrier |-> 0, executions |-> {}]
    /\ call = [c \in Callers |-> "idle"]
    /\ snapshot = [c \in Callers |-> {}]
    /\ closePhase = "none" /\ closeWait = 0

-----------------------------------------------------------------------------
(* Helpers *)

BugSignal == UNCHANGED call
\* signalLocked: close the changed channel, which wakes every caller that
\* holds it, and make a fresh one for the callers that park later.
Signal == call' = [c \in Callers |-> IF call[c] = "parked" THEN "woken" ELSE call[c]]

\* startBoundResourceClose: hand a bound resource to a closing goroutine;
\* without one, or once closeDone exists, nothing changes.
StartClose(i) ==
    resource' = [resource EXCEPT ![i] = IF @ = "bound" THEN "closing" ELSE @]

Lock(op, i) == mu = "free" /\ mu' = op /\ muId' = i
Unlock == mu' = "free" /\ muId' = 0

-----------------------------------------------------------------------------
(* Request goroutines *)

\* BeginDispatch up to its state check under mu.
BeginCheck ==
    /\ next < MaxDispatch
    /\ state = "accepting"
    /\ Lock("begin", next + 1)
    /\ UNCHANGED <<state, slots, reports, calls>>

\* r.next after the increment, the id of the new dispatch.
NextId == next + 1

BeginCommit ==
    /\ mu = "begin"
    /\ next' = NextId
    /\ pending' = pending \cup {next'}
    /\ Unlock
    /\ UNCHANGED <<state, scopes, group, resource, ending, reports, calls>>

\* PendingDispatch.End; a second End, or one after Install, does nothing.
PendingEnd(i) ==
    /\ mu = "free"
    /\ i \in pending
    /\ pending' = pending \ {i}
    /\ Signal
    /\ UNCHANGED <<lifecycle, next, scopes, group, resource, ending, reports,
                   snapshot, closeVars>>

\* The state loaded by Install, under mu.
InstallAllowed == state = "accepting"

\* Install of a registry that no longer accepts consumes the dispatch.
InstallReject(i) ==
    /\ mu = "free"
    /\ i \in pending
    /\ ~ InstallAllowed
    /\ pending' = pending \ {i}
    /\ Signal
    /\ UNCHANGED <<lifecycle, next, scopes, group, resource, ending, reports,
                   snapshot, closeVars>>

InstallCheck(i) ==
    /\ i \in pending
    /\ InstallAllowed
    /\ Lock("install", i)
    /\ UNCHANGED <<state, slots, reports, calls>>

InstallCommit(g) ==
    /\ mu = "install"
    /\ pending' = pending \ {muId}
    /\ scopes' = scopes \cup {muId}
    /\ group' = [group EXCEPT ![muId] = g]
    /\ ending' = [ending EXCEPT ![muId] = "active"]
    /\ Signal
    /\ Unlock
    /\ UNCHANGED <<state, next, resource, reports, snapshot, closeVars>>

BugBindAllowed(i) == ending[i] = "active"
\* The state and the active flag that Bind reads under mu.
BindAllowed(i) == state = "accepting" /\ ending[i] = "active"

\* Bind up to its checks; a Bind refused here changes nothing.
BindCheck(i) ==
    /\ BindAllowed(i)
    /\ Lock("bind", i)
    /\ UNCHANGED <<state, slots, reports, calls>>

\* A scope accepts one resource: a second Bind fails.
BindCommit ==
    /\ mu = "bind"
    /\ resource' = [resource EXCEPT ![muId] = IF @ = "none" THEN "bound" ELSE @]
    /\ Unlock
    /\ UNCHANGED <<state, dispatchVars, ending, reports, calls>>

\* EndWithRelease, run once per scope: clear the active flag, ...
EndDeactivate(i) ==
    /\ mu = "free"
    /\ ending[i] = "active"
    /\ ending' = [ending EXCEPT ![i] = "inactive"]
    /\ UNCHANGED <<lifecycle, dispatchVars, resource, reports, calls>>

BugAfterStartClose(i) == "mark"
\* waitForBoundResourceClose waits only if there is something to close.
AfterStartClose(i) == IF resource[i] = "none" THEN "mark" ELSE "closing"

\* ... start closing the bound resource, if there is one, ...
EndStartClose(i) ==
    /\ ending[i] = "inactive"
    /\ StartClose(i)
    /\ ending' = [ending EXCEPT ![i] = AfterStartClose(i)]
    /\ UNCHANGED <<lifecycle, dispatchVars, reports, calls>>

\* ... wait for closeDone, ...
EndWaitClosed(i) ==
    /\ ending[i] = "closing"
    /\ resource[i] = "closed"
    /\ ending' = [ending EXCEPT ![i] = "mark"]
    /\ UNCHANGED <<lifecycle, dispatchVars, resource, reports, calls>>

BugCounted(i) == group[i] # Unaccounted /\ releaseSink # NoSink
\* markReleasedLocked counts the accounted scopes only.
Counted(i) == group[i] # Unaccounted

BugReleaseSequence(g) == releaseSequences[g] + 2
\* The sequence number that markReleasedLocked hands to the sink.
ReleaseSequence(g) == releaseSequences[g] + 1

\* ... count the release and capture the sink with the new sequence, ...
EndMark(i) ==
    /\ mu = "free"
    /\ ending[i] = "mark"
    /\ IF Counted(i)
         THEN /\ releaseSequences' = [releaseSequences EXCEPT ![group[i]] = @ + 1]
              /\ announcing' = [announcing EXCEPT ![i] =
                     [sink |-> releaseSink, seq |-> ReleaseSequence(group[i])]]
              /\ ending' = [ending EXCEPT ![i] = IF releaseSink = NoSink
                                                   THEN "delete" ELSE "sink"]
         ELSE /\ ending' = [ending EXCEPT ![i] = "delete"]
              /\ UNCHANGED <<releaseSequences, announcing>>
    /\ UNCHANGED <<lifecycle, dispatchVars, resource, releaseSink, replay,
                   announced, barrierVars, calls>>

BugAnnounce(s, g, n) == announced' = [announced EXCEPT ![s][g] = n]
\* A sink keeps the highest sequence it is called with (MarkDirty).
Announce(s, g, n) ==
    announced' = [announced EXCEPT ![s][g] = IF n > @ THEN n ELSE @]

\* ... call the captured sink with no mutex held, ...
EndCallSink(i) ==
    /\ ending[i] = "sink"
    /\ Announce(announcing[i].sink, group[i], announcing[i].seq)
    /\ ending' = [ending EXCEPT ![i] = "delete"]
    /\ UNCHANGED <<lifecycle, dispatchVars, resource, releaseSink,
                   releaseSequences, announcing, replay, barrierVars, calls>>

\* ... and leave the registry.
EndDelete(i) ==
    /\ mu = "free"
    /\ ending[i] = "delete"
    /\ scopes' = scopes \ {i}
    /\ ending' = [ending EXCEPT ![i] = "ended"]
    /\ Signal
    /\ UNCHANGED <<lifecycle, next, pending, group, resource, reports,
                   snapshot, closeVars>>

\* The goroutine of startBoundResourceClose: closeFn returned.
ResourceClosed(i) ==
    /\ resource[i] = "closing"
    /\ resource' = [resource EXCEPT ![i] = "closed"]
    /\ UNCHANGED <<lifecycle, dispatchVars, ending, reports, calls>>

-----------------------------------------------------------------------------
(* The release sink, set by the subscriber goroutine only *)

SetReleaseSink(s) ==
    /\ mu = "free"
    /\ replay = {}
    /\ releaseSink' = s
    /\ replay' = IF s = NoSink THEN {}
                 ELSE {[group |-> g, seq |-> releaseSequences[g]] :
                          g \in {h \in Groups : releaseSequences[h] > 0}}
    /\ UNCHANGED <<lifecycle, slots, releaseSequences, announcing, announced,
                   barrierVars, calls>>

\* The loop after mu is released replays the copied sequences.
ReplaySink(r) ==
    /\ r \in replay
    /\ replay' = replay \ {r}
    /\ Announce(releaseSink, r.group, r.seq)
    /\ UNCHANGED <<lifecycle, slots, releaseSink, releaseSequences,
                   announcing, barrierVars, calls>>

-----------------------------------------------------------------------------
(* Observation by Home *)

ObserveBarrier(b) ==
    /\ mu = "free"
    /\ b > observedBarrier
    /\ observedBarrier' = b
    /\ pendingBarrierSequence' = next
    /\ begunBefore' = [begunBefore EXCEPT ![b] = next]
    /\ UNCHANGED <<lifecycle, slots, releaseVars, publishedBarrier, freeze,
                   calls>>

BugBlocks(i) == i < pendingBarrierSequence
\* A pending dispatch that was begun before the observed barrier.
Blocks(i) == i <= pendingBarrierSequence

\* FreezeInFlight publishes the observed barrier once no dispatch begun before
\* it is pending.  snapshotRevision only numbers the freezes and is left out.
FreezeInFlight ==
    /\ mu = "free"
    /\ publishedBarrier' =
          IF /\ observedBarrier > publishedBarrier
             /\ \A i \in pending : ~ Blocks(i)
          THEN observedBarrier ELSE publishedBarrier
    /\ freeze' = [barrier |-> publishedBarrier', executions |-> scopes]
    /\ UNCHANGED <<lifecycle, slots, releaseVars, observedBarrier,
                   pendingBarrierSequence, begunBefore, calls>>

-----------------------------------------------------------------------------
(* Drain.  A Drain of a closed registry returns ErrRegistryClosed and changes
   nothing; one that timed out may be repeated. *)

DrainStart(d) ==
    /\ call[d] \in {"idle", "timeout"}
    /\ state \in {"accepting", "draining"}
    /\ state' = "draining"
    /\ call' = [call EXCEPT ![d] = "snapshot"]
    /\ UNCHANGED <<mu, muId, slots, reports, snapshot, closeVars>>

\* Drain and Close copy the scopes under mu, to start their closes outside it.
TakeSnapshot(c) ==
    /\ mu = "free"
    /\ call[c] = "snapshot"
    /\ snapshot' = [snapshot EXCEPT ![c] = scopes]
    /\ call' = [call EXCEPT ![c] = "close"]
    /\ UNCHANGED <<lifecycle, slots, reports, closeVars>>

DrainStartClose(d, i) ==
    /\ call[d] = "close"
    /\ i \in snapshot[d]
    /\ StartClose(i)
    /\ snapshot' = [snapshot EXCEPT ![d] = @ \ {i}]
    /\ UNCHANGED <<lifecycle, dispatchVars, ending, reports, call, closeVars>>

BugBusy == scopes # {}
\* What Drain waits out: dispatches in flight and installed scopes.
Busy == pending # {} \/ scopes # {}

\* The loop head: park on the changed channel, or finish.
DrainCheck(d) ==
    /\ mu = "free"
    /\ call[d] = "woken" \/ (call[d] = "close" /\ snapshot[d] = {})
    /\ IF Busy
         THEN /\ call' = [call EXCEPT ![d] = "parked"]
              /\ UNCHANGED state
         ELSE /\ call' = [call EXCEPT ![d] = "done"]
              /\ state' = "closed"
    /\ UNCHANGED <<mu, muId, slots, reports, snapshot, closeVars>>

\* The select of Drain and WaitPending takes ctx.Done().
Timeout(c) ==
    /\ call[c] \in {"parked", "woken"}
    /\ call' = [call EXCEPT ![c] = "timeout"]
    /\ UNCHANGED <<lifecycle, slots, reports, snapshot, closeVars>>

-----------------------------------------------------------------------------
(* Close: the first caller closes, the later ones join it. *)

BugCloseTarget == IF state = "closed" THEN "done"
                  ELSE IF closePhase # "none" THEN "join" ELSE "force"
\* Join a Close that has started; else return at once if already closed.
CloseTarget == IF closePhase # "none" THEN "join"
               ELSE IF state = "closed" THEN "done" ELSE "force"

CloseEnter(c) ==
    /\ call[c] = "idle"
    /\ call' = [call EXCEPT ![c] = CloseTarget]
    /\ closePhase' = IF CloseTarget = "force" THEN "started" ELSE closePhase
    /\ UNCHANGED <<lifecycle, slots, reports, snapshot, closeWait>>

CloseForce(c) ==
    /\ call[c] = "force"
    /\ state' = "closed"
    /\ call' = [call EXCEPT ![c] = "snapshot"]
    /\ UNCHANGED <<mu, muId, slots, reports, snapshot, closeVars>>

\* waitForBoundResourceClose on one scope after the other.
CloseStartClose(c, i) ==
    /\ call[c] = "close"
    /\ closeWait = 0
    /\ i \in snapshot[c]
    /\ StartClose(i)
    /\ snapshot' = [snapshot EXCEPT ![c] = @ \ {i}]
    /\ closeWait' = IF resource[i] = "none" THEN 0 ELSE i
    /\ UNCHANGED <<lifecycle, dispatchVars, ending, reports, call,
                   closePhase>>

CloseWaited(c) ==
    /\ call[c] = "close"
    /\ closeWait # 0
    /\ resource[closeWait] = "closed"
    /\ closeWait' = 0
    /\ UNCHANGED <<lifecycle, slots, reports, call, snapshot, closePhase>>

BugCompleteClose == UNCHANGED closePhase
\* close(closeDone) releases the callers that joined.
CompleteClose == closePhase' = "done"

CloseFinish(c) ==
    /\ call[c] = "close"
    /\ snapshot[c] = {}
    /\ closeWait = 0
    /\ CompleteClose
    /\ call' = [call EXCEPT ![c] = "done"]
    /\ UNCHANGED <<lifecycle, slots, reports, snapshot, closeWait>>

CloseJoin(c) ==
    /\ call[c] = "join"
    /\ closePhase = "done"
    /\ call' = [call EXCEPT ![c] = "done"]
    /\ UNCHANGED <<lifecycle, slots, reports, snapshot, closeVars>>

-----------------------------------------------------------------------------
(* WaitPending, which does not stop new dispatches. *)

WaitPendingStart(w) ==
    /\ call[w] \in {"idle", "timeout", "done"}
    /\ call' = [call EXCEPT ![w] = "woken"]
    /\ UNCHANGED <<lifecycle, slots, reports, snapshot, closeVars>>

WaitPendingCheck(w) ==
    /\ mu = "free"
    /\ call[w] = "woken"
    /\ call' = [call EXCEPT ![w] = IF pending # {} THEN "parked" ELSE "done"]
    /\ UNCHANGED <<lifecycle, slots, reports, snapshot, closeVars>>

-----------------------------------------------------------------------------

Request(i) ==
    \/ PendingEnd(i) \/ InstallReject(i) \/ InstallCheck(i) \/ BindCheck(i)
    \/ EndDeactivate(i) \/ EndStartClose(i) \/ EndWaitClosed(i) \/ EndMark(i)
    \/ EndCallSink(i) \/ EndDelete(i) \/ ResourceClosed(i)

Drain(d) ==
    \/ DrainStart(d) \/ TakeSnapshot(d) \/ DrainCheck(d) \/ Timeout(d)
    \/ \E i \in Ids : DrainStartClose(d, i)

Close(c) ==
    \/ CloseEnter(c) \/ CloseForce(c) \/ TakeSnapshot(c) \/ CloseWaited(c)
    \/ CloseFinish(c) \/ CloseJoin(c)
    \/ \E i \in Ids : CloseStartClose(c, i)

WaitPending(w) == WaitPendingStart(w) \/ WaitPendingCheck(w) \/ Timeout(w)

Next ==
    \/ BeginCheck \/ BeginCommit \/ BindCommit \/ FreezeInFlight
    \/ \E i \in Ids : Request(i)
    \/ \E g \in Groups \cup {Unaccounted} : InstallCommit(g)
    \/ \E s \in Sinks \cup {NoSink} : SetReleaseSink(s)
    \/ \E r \in replay : ReplaySink(r)
    \/ \E b \in 1..MaxBarrier : ObserveBarrier(b)
    \/ \E d \in Drainers : Drain(d)
    \/ \E c \in Closers : Close(c)
    \/ \E w \in Waiters : WaitPending(w)

Spec == Init /\ [][Next]_vars

(* Fairness.  A goroutine that can run does run: the holder of mu, a request,
   the closing goroutines (a closeFn returns), Drain, Close and WaitPending.
   A pending dispatch is resolved because the Home call it waits for is
   bounded.  An owner ends its scope once its resource was closed, which cancels
   its attempt, or once Bind refused it; while the registry accepts, an execution
   may last for ever.  Nothing makes a context time out.  The mutex is
   starvation-free, hence strong fairness for the goroutines that lock it. *)
Owner(i) == EndDeactivate(i) /\ (resource[i] = "closed" \/ state # "accepting")

RequestProgress(i) ==
    \/ PendingEnd(i) \/ InstallReject(i) \/ InstallCheck(i) \/ Owner(i)
    \/ EndStartClose(i) \/ EndWaitClosed(i) \/ EndMark(i) \/ EndCallSink(i)
    \/ EndDelete(i)

DrainProgress(d) ==
    TakeSnapshot(d) \/ DrainCheck(d) \/ \E i \in Ids : DrainStartClose(d, i)

CloseProgress(c) ==
    \/ CloseForce(c) \/ TakeSnapshot(c) \/ CloseWaited(c) \/ CloseFinish(c)
    \/ CloseJoin(c) \/ \E i \in Ids : CloseStartClose(c, i)

MuHolder ==
    BeginCommit \/ BindCommit \/ \E g \in Groups \cup {Unaccounted} : InstallCommit(g)

Fairness ==
    /\ WF_vars(MuHolder)
    /\ \A i \in Ids : SF_vars(RequestProgress(i)) /\ WF_vars(ResourceClosed(i))
    /\ \A d \in Drainers : SF_vars(DrainProgress(d))
    /\ \A c \in Closers : SF_vars(CloseProgress(c))

FairSpec == Spec /\ Fairness

-----------------------------------------------------------------------------
(* Properties *)

\* A resource nobody holds open: never bound, or completely closed.
Quiet(i) == resource[i] \in {"none", "closed"}

\* EndWithRelease counts, announces and forgets a scope only after its bound
\* resource is completely closed, whoever started the close (registry.go:308),
\* so Home never gives a slot away while the old execution still runs.
ReleasedAfterClose ==
    \A i \in Ids : ending[i] \in Released \cup {"mark"} => Quiet(i)

\* "Drain rejects new work, cancels active resources, and waits for all owners
\* to end" (registry.go:378): once a Drain has returned nil, no dispatch, scope
\* or open resource exists, then or ever after, although the state changed
\* outside mu while requests were between their check and their effect.
DrainedIsEmpty ==
    (\E d \in Drainers : call[d] = "done") =>
        /\ state = "closed"
        /\ pending = {} /\ scopes = {}
        /\ \A i \in Ids : Quiet(i)

\* Once a Drain has been through its snapshot, every resource is being closed:
\* none is left bound, and none is bound later, even if that Drain times out.
DrainCancelsAll ==
    (\E d \in Drainers : \/ call[d] \in {"parked", "woken", "timeout", "done"}
                         \/ call[d] = "close" /\ snapshot[d] = {})
    => \A i \in Ids : resource[i] # "bound"

\* "Close permanently rejects new work and closes every currently bound
\* resource" (registry.go:418): when any Close call has returned, be it the
\* first, a joined or an early one, no resource is open or still closing.
CloseReturnsClosed ==
    (\E c \in Closers : call[c] = "done") => \A i \in Ids : Quiet(i)

\* No lost wake-up: nobody stays parked on the changed channel (registry.go:168
\* and 404) once the condition of its loop holds.
NoLostWakeup ==
    /\ (\E d \in Drainers : call[d] = "parked") => pending \cup scopes # {}
    /\ (\E w \in Waiters : call[w] = "parked") => pending # {}

\* The cumulative sequence of a group is the number of its accounted scopes
\* that have been released: none is counted twice or skipped.
ReleaseCount ==
    \A g \in Groups : releaseSequences[g] =
        Cardinality({i \in Ids : group[i] = g /\ ending[i] \in Released})

\* No release is lost when sinks are swapped (SetReleaseSink copies the
\* sequences and installs the sink in one critical section): the current sink
\* has the latest sequence of every group, or a caller is about to hand it over.
NoReleaseLost ==
    releaseSink # NoSink =>
        \A g \in Groups :
            \/ announced[releaseSink][g] = releaseSequences[g]
            \/ [group |-> g, seq |-> releaseSequences[g]] \in replay
            \/ \E i \in Ids : /\ ending[i] = "sink" /\ group[i] = g
                              /\ announcing[i] = [sink |-> releaseSink,
                                                  seq |-> releaseSequences[g]]

\* A sink is never told of more releases than happened, whatever the order in
\* which the callers outside mu reach it.
NeverOverAnnounced ==
    \A s \in Sinks, g \in Groups : announced[s][g] <= releaseSequences[g]

\* A freeze that reports a barrier is complete for it: every dispatch begun
\* before the barrier was observed is in the freeze or has left the registry;
\* none is still waiting to turn into an execution Home does not know of.
BarrierComplete ==
    \A i \in Ids : i <= begunBefore[freeze.barrier] =>
        /\ i \notin pending
        /\ i \in scopes => i \in freeze.executions

\* Every Drain that was called returns, provided that owners end what was cancelled.
DrainReturns == \A d \in Drainers :
    call[d] = "snapshot" ~> call[d] \in {"done", "timeout"}

\* So does every Close, also one that joins a Close under way.
CloseReturns == \A c \in Closers : call[c] \in {"force", "join"} ~> call[c] = "done"
=============================================================================
