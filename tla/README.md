# CodexProxy in TLA+

CodexProxy is a Go proxy that serves the Codex, Claude and OpenAI protocols from a pool
of credentials. This directory models its stateful core: how a request gets a credential
and gives it back, how credentials change while requests run, how their cooldowns are
kept, and how executions are registered, drained and reported. TLC checks the modules on
small instances; TLAPS proves all but one of the safety
properties that hold, for every value of the constants. `PROJECT.json` lists the parts of the program, the runs, the theorems, the
hazards behind the properties and the source lines of every definition.

    tlc -config Registry.cfg MCExecutionRegistry     # one run; see the table of runs
    tlapm ExecutionRegistryProofs.tla                # the proofs of one module

## The parts and how they interact

A request (`Manager.Execute`) runs *rounds* over the credentials. In a round it picks a
credential that is not in a *cooldown*, takes an *admission* slot of it and calls the
upstream. The result goes to the *auth manager*, which keeps the entry of every credential
(`m.auths`), writes it to a store and tells a scheduler. Entries also change because a
token is refreshed, because somebody uses the management API, or because a credential file
changes, which the *watcher* carries to the manager. Executions on behalf of Home, a remote
coordinator, live in the *execution registry*, and the *release flusher* tells Home how
many of them have ended.

| module | models | state and actions |
| --- | --- | --- |
| `ExecutionRegistry` | `executionregistry/registry.go`, `observation.go` | the lifecycle state, the mutex, pending dispatches and scopes, resources, release counts, sinks and barriers; one action per critical section, callback and wait |
| `AtomicRegistry` | what the registry promises | every operation is one step, and none begins after `Drain` or `Close` |
| `ExecutionRegistryRefinement` | the mapping between the two | what the holder of `mu` is about to do counts as done |
| `ReleaseFlusher` | `home/concurrency_release.go` | per group the marked and acknowledged sequence, tickets, the two channels of capacity one, `Run`, `Flush`; Home and the network are external |
| `LocalCredentialAdmission` | `auth/local_credential_admission.go` | limiter objects and the map that names them, passes of a request over the credentials, queues and channels, reconfiguration and removal |
| `RequestRounds` | `conductor_execution.go`, `conductor_selection.go` | the loop of a call: rounds, picks, slots, queueing, the decision about another round, sleeps; time is what is left until each deadline |
| `AuthLifecycle` | `conductor_lifecycle.go`, `conductor_refresh.go`, `lifecycle_state.go`, parts of the scheduler | one credential in `m.auths`, in the store and in the scheduler; registration, update, patch, reload, removal, deletion, results, reset, refresh, preparation, each in the steps its locks cut it into |
| `CredentialCooldown` | `conductor_cooldown.go`, `credential_recovery.go`, `selector.go` | the states of the models of one credential, results, the quota ladder, resets, reloads, the store of cooldowns and restarts |
| `AuthWatcher` | `internal/watcher`, `service_auth.go` | one credential file, its events, full scans, the beliefs of the watcher, revisions, the pipeline to the consumer and the hook of the manager |

`MC…` modules add the symmetry and the values of constants of the runs. `…Proofs` and
`CredentialCooldownBlocks` hold the theorems. `AuthLifecycle` and `CredentialCooldown` share
the entry of a credential: the first keeps of a cooldown only that there is one, the second
keeps everything but the store of tokens. `RequestRounds` abstracts the limiters of
`LocalCredentialAdmission` to a counter and the cooldowns to what is left of them.

What a cooldown should be is a history beside the program's state: `owed` keeps for every
model until when failures ask it to rest whatever happens (`any`), until when unless a
refresh ends it (`token`), until when it may rest although it need not (`may`), and the time of
its last failure (`at`); `owedAll` is the rest a credential-wide quota asks of all models,
and `saved` is what was owed when the store was written. Failures raise these, and a success
that started after the last failure, a refresh, a reset and a configuration without
cooldowns lower them. A refresh that brings a new token ends every 401; one that brings the
same token back, which the code clears 401 states for as well, ends those of the models that
nothing changed since it began; one that fails ends none. No action of the program reads them.

An operator `BugX` is a faulty variant of the definition `X` that follows it and is used by
no action. Replacing `X` by it breaks the property it is listed with.

## Runs

| run | instance | shows |
| --- | --- | --- |
| `registry` | two dispatches, a Drain, one sink, one barrier | a drained registry is empty for good, resources close before their release is counted, releases are counted and announced exactly, a barrier accounts for every dispatch begun before it, no wake-up is lost, and the registry implements `AtomicRegistry` |
| `registry_close` | one dispatch, two Close calls, a Drain, a WaitPending | every call returns, and no Close returns while a resource is open |
| `flusher` | one group, sequences up to 3, one Flush | tickets and Flush tell the truth, none is stuck, the backoff holds, every ticket completes once Home answers |
| `admission` | two credentials with one slot each, with and without a queue, two requests | the limit holds, and nobody parks on a limiter with capacity |
| `admission_change` | one credential whose limit is lifted, set and removed | the counters of every limiter object are exact, and a parked request leaves |
| `admission_replaced` | the same with two operations | finding: `LimitKept` is violated |
| `rounds` | two calls, two credentials, two kinds of failure | retry limits, queue budget and slots hold, no credential is overlooked, every call returns |
| `auth_lifecycle` | two goroutines, three calls, two tokens | the copies agree when the writers are done, nothing deleted comes back, a reset holds, no lock is kept |
| `cooldown` | two models, two requests, four kinds of failure | a block lasts as long as it should and no longer, through refreshes that bring a new token, the same one or fail; one burst climbs one rung |
| `cooldown_store` | one request, 401 failures | finding: `RecoveryReachesStore` is violated |
| `watcher` | two contents, one alien, torn writes, one scan, one hook | the newest change is never dropped, the service never goes back and ends with the file, five named gaps excepted |
| `watcher_ghost` | two contents, one scan | finding: `NoGhost` is violated |

### Bounds

Every bound is a constant that occurs in a guard. Two of everything that can collide are
enough to let any two steps meet in either order, and where a third matters it is there: the
flusher needs a sequence that overtakes one in flight and one that is marked in between, and
`auth_lifecycle` needs a late writer, a change and a removal, hence three calls. The
theorems remove these bounds for the properties they cover. Durations in `RequestRounds`
and `CredentialCooldown` keep the order of the program's durations, not their size.

`CHECK_DEADLOCK FALSE` stands in the configurations whose calls are finitely many and end.

### Fairness

- `registry_close`: whoever holds `mu` goes on (`WF` of `MuHolder`), a closing resource
  closes (`WF`: a `closeFn` returns), and a request, `Drain` and `Close` are not shut out of
  the mutex for ever (`SF`: Go's mutex is starvation free). A pending dispatch is resolved
  because the Home call it waits for is bounded. An owner ends its scope once its resource was
  closed, which cancels its attempt; while the registry accepts, an execution may last for
  ever. No context is assumed to time out.
- `flusher`: `RunStart` and `EndFlush` are weakly fair: while Home is subscribed, `Run` is
  started again after it ends. At shutdown, or when the subscriber is replaced
  (`service_home.go`), nobody starts it again, and `TicketsComplete` claims nothing then.
  `RunTimer` is strongly fair because
  the subscriber does not end `Run` for ever before its first flush, whose timer has no
  delay; a send ends, and Home does not refuse a group for ever (`SF` of `SendOk`).
- `admission_change`: `WF` of the steps of a call, its execution included. No deadline and no cancellation is
  counted on.
- `rounds`: `WF` of a call's steps, of the answer of the upstream, and of time.

`registry`, `admission`, `auth_lifecycle`, `cooldown` and `watcher` check safety only.

## Proofs

Every theorem is `Spec => []Inv` or `Spec => [][A]_vars` or a refinement, proved from
`Init`, `[Next]_vars` and the assumptions on the constants that the modules name. These say
no more than what the values are (finite sets of requests and credentials, limits and
durations in `Nat`, a longest delay a failure may ask for, `None` different from the values
it stands beside), and in
`CredentialCooldown` a fact of arithmetic the prover does not know, that `2^l > l`
(`DoublingGrows`); TLC evaluates them in the runs. A proof goes through an inductive invariant: one lemma per kind of step, and
frame lemmas for the steps that leave a part of the state alone. Leaves that need no
arithmetic name `Zenon`, which finds them at once.

| theorem | states |
| --- | --- |
| **`ExecutionRegistryProofs`** | |
| `TypeCorrect` | types, and that whoever carries a count carries a real group and sink |
| `WakeupsArrive` | `NoLostWakeup` |
| `ReleaseFollowsClose` | `ReleasedAfterClose` |
| `DrainEmpties`, `DrainCancels` | `DrainedIsEmpty`, `DrainCancelsAll` |
| `CloseCloses` | `CloseReturnsClosed` |
| `RegistryIsAtomic` | `AtomicSpec`: the refinement of `AtomicRegistry` |
| `BarriersComplete` | `BarrierComplete` |
| `ReleasesCounted`, `ReleasesArrive`, `NoneInvented` | `ReleaseCount`, `NoReleaseLost`, `NeverOverAnnounced` |
| **`ReleaseFlusherProofs`** | |
| `TypeCorrect`, `TicketsTrue`, `TicketsServed`, `FlushWaits`, `BackoffKept` | `TypeOK`, `TicketsHonest`, `NoTicketStuck`, `FlushDelivers`, `BackoffHolds` |
| **`LocalCredentialAdmissionProofs`** | |
| `TypeCorrect`, `SlotsAlwaysCounted`, `QueueAlwaysCounted`, `NoCapacityLost` | `TypeOK`, `SlotsCounted`, `QueueCounted`, `NoLostCapacity` |
| `LimitAlwaysKept` | `LimitKept`, while nothing is reconfigured (`Undisturbed`) |
| **`RequestRoundsProofs`** | |
| `TypeCorrect`, `RetriesBounded`, `QueueingBounded`, `SleepsBounded`, `SlotsAlwaysReturned` | `TypeOK`, `TriesWithinLimits`, `QueueBudget`, `SleepBounded`, `SlotsReturned` |
| `FailoverComplete` | `NoneSkipped`, an action property |
| **`AuthLifecycleProofs`** | |
| `TypeCorrect`, `SchedulerFollows`, `StoreFollows`, `DeletedStaysDeleted`, `ResetsHold` | `TypeOK`, `SchedulerCurrent`, `StoreCurrent`, `NoResurrection`, `ResetHolds` |
| `SchedulerNeverBack` | `SchedulerForward`, an action property |
| `LocksReturned` | `LocksGivenBack`, with `ENABLED` replaced by the locks a step waits for |
| **`AuthWatcherProofs`** | |
| `NewestUpdateKept`, `ServiceForward` | `NoUpdateLost`, `AppliedForward`, an action property |
| `Convergence` | `Converged` |
| **`CredentialCooldownProofs`** | |
| `TypeCorrect` | `TypeOK`: no deadline lies beyond the longest cooldown, and the quota ladder stops at its first rung at the ceiling |
| `OneRungPerWindow` | `LadderOnce`, an action property |
| **`CredentialCooldownBlocks`** | |
| `BlocksLast` | `BlockHonoured` |

The arguments, and why the properties are not inductive by themselves:

- **Registry.** The state changes outside the mutex, so that a request may act on a state
  it loaded before. `IdInv` and `MuInv` say what the holder of `mu` found out stays true
  until it acts; `StateInv`, `DrainInv` and `FlightInv` say that a snapshot taken after the
  state changed misses nothing, since the mutex was free then; `EndInv` and `CloseInv` follow
  the resources. The refinement maps the holder of `mu` to one whose operation is done, and
  needs `BeginInv`: nobody else moves the next id meanwhile.
- **Reports.** `Announced` adds to the two properties that nobody carries a count ahead of
  the real one; a count in somebody's hands is what makes `NoReleaseLost` hold between the
  mutex and the sink. `BarrierInv` ties the published barrier to the ids begun before it.
- **Flusher.** `DeliveryInv`: acknowledged is at most what Home has and at most what was
  marked, and so is what is being sent.
- **Admission.** The counters need `HoldInv` and `RegisteredInv` (who has a slot is where a
  slot is held). No wake-up is lost because a channel somebody listens to belongs to a full
  limiter (`FullInv`) and a request listens to every limiter it has passed (`ListenInv`).
  `LimitAlwaysKept` needs that distinct credentials have distinct limiters, configured before
  their first use (`MapInv`, `OwnInv`).
- **Rounds.** `Accounted`: every credential a round has tried was attempted, set aside, has
  no model, is excluded or is the current one. With it a round that is over has overlooked
  none, an attempt is counted once per round, and a slot is returned on every path out.
- **Lifecycle.** `CopiesInv`: one operation at a time is between its change and the end of
  its write; no copy is ahead of `m.auths`; every snapshot from the last visible change on
  looks like the entry; the scheduler knows the last visible change, or somebody will tell
  it; the store has the last durable change, or somebody will write it. `ResetHolds` needs
  that a disabled credential has no cooldown (`OffInv`). For the locks, `HolderInv` says at
  which steps an operation has one: whoever holds the persistence lock asks for no other, so
  that somebody can always go on.
- **Watcher.** `Below` and `Carried`: no update is newer than the watcher's revision, and the
  newest is carried by somebody until it is handled. `Converged` speaks of the end only;
  `Conv` follows a change of the file all the way. The last notification tells whether the
  file is there (`Notified`), a scan during which nothing was observed found what is in the
  file (`FoundCurrent`), a clone of the manager's entry overtakes no other update unless that
  gap is recorded (`ClonesAlone`, `OneNewest`), and once nobody is going to look at the file,
  the newest update in flight, or the manager's entry if there is none, is the file's
  (`Reaches`). An update that is refused is either a recorded gap or not the one that decides
  (`HandleReaches`).
- **Cooldowns.** `TypeOK` is inductive, but says something: a lemma per operator shows that
  aggregation, recovery, the merge of a refresh and the restoration of records make no
  deadline that was not one before, and that `nextQuotaCooldown` stops climbing. For the
  ladder, `Tame` relates a credential to what a recovery makes of it: a model's quota is
  kept, or is no longer a quota of the model. A failure alone may climb, and does not while
  the window is open.
- **Blocks.** `Honours` ties what is owed to memory and store. `InMemory`: the state of a
  model reaches as far as what the model is owed, with its independent deadline as far as
  what no refresh ends; a credential-wide quota spans what all models are owed; a failure
  after a request was sent shows in the state of its model, so that the success of the
  request does not lift it. `InStore` says the same of the saved records and of what was owed
  when they were saved, and that memory and records agree when nothing is left to save,
  which is what a restart needs. One lemma per operator, at the end of
  `CredentialCooldownProofs`, says what it may do to a state: a summary changes no state that
  rests (`Eased`), a refresh ends the 401 of a state and nothing else of it (`Relieved`), a
  failure only prolongs it (`Lasts`). `CredentialCooldownBlocks` has the invariant and a
  lemma per action.

`LimitKept` is false in general, which `admission_replaced` shows. `Undisturbed` is the
condition under which the code keeps it: no setting changes, and no credential is
registered, updated or removed.

### Only model-checked

- Liveness (`DrainReturns`, `CloseReturns`, `TicketsComplete`, `WaitEnds`, `CallReturns`): the
  prover has no rules for fairness, nor for the `ENABLED` of `LocksGivenBack`.
- `NotOverBlocked`, the converse of `BlockHonoured`: its inductive invariant would have to
  bound every deadline in memory, in the saved records and in the copy a refresh works on by
  what is or was owed, summaries included; it is not worked out. Simulations of up to 14
  results and administrative steps, with nine kinds of failure, found no violation.

`TypeOK` of the other modules with theorems and `SleepBounded` are not in a run's list: the
runs spend their properties on what is harder to see.

## Findings

1. `admission_replaced`: a credential that is removed and registered again gets a fresh
   limiter while executions admitted by the old one still run, so that more than
   `max-in-flight` requests execute on it.
2. `cooldown_store`: a token refresh that ends a 401 cooldown leaves its record in the
   cooldown store, and a restart brings the cooldown back.
3. `watcher_ghost`: a file that a scan saw appears and vanishes before its events are
   handled; its removal is ignored as unknown, and the credential stays.

`PROJECT.json` quotes the lines these contradict.

## What is left out

Within the modelled parts:

- `AuthLifecycle` is about one credential, and a store that saves or fails. `m.mu` is not a
  variable: what the code does under it is one step. `persist` looks whether the file is
  there and saves it in one step, so that a removal by another program between the two is not
  explored. Of two snapshots with the same epoch and generation the scheduler keeps the one
  with the later `updatedAt`; here it keeps the one that arrives last. Its content is
  abstracted to a token, a note, the disabled flag and whether there is a cooldown. `ResetHolds`
  makes no claim about a cooldown that the reload of a file carried over.
- `CredentialCooldown` leaves out models disabled by hand. It restores all records of the
  models and then sums up once; the code sums up after every record, so that the recovery
  time in the summary's quota may depend on the order of the file.
  Two things the code does are exceptions of its properties. A configuration reload puts the
  saved record of the credential over a newer one, so that a credential-wide quota that was
  not saved yet is forgotten: `BlockHonoured` counts what the record asks for. And a summary
  can outlive the model it was made of: when the registry drops a model that failed and a
  new token then clears the 401 of another one, `clearUnauthorizedModelStates` takes the
  summary for a failure of the credential itself; it is saved, and after a restart, with no
  model state, it blocks every model until its deadline. `NotOverBlocked` leaves out
  credentials without model states. It also lets a model rest on where the code keeps part
  of a state that was lifted: the quota that a credential-wide failure left with every model,
  the quota under a later failure that asks for no rest, and a state that changed after the
  request of the success was sent.
- `AuthWatcher` leaves out the first scan, the rescan after the auth directory was changed,
  credentials that exist at run time only, the end of the dispatcher, failing saves and files
  with several credentials; a batch of the consumer is one step for the manager, and a
  management request changes the manager's entry and the file in one step. `Converged`
  excludes five situations in which the code does not converge: a removal within the debounce
  window, a removal of a file without a cached hash, an event suppressed by a hash older than
  the belief, a hook that stamps its clone over a change still on its way, and an update that
  the service refuses. The last is `Refuse`: the account that is replaced or removed cannot
  be revoked, or the manager refuses the entry, and the old one stays; or the provider is
  not supported, and the entry goes. The revision of the update is recorded before, so that
  nothing tries it again; an update that comes later, or a rescan that publishes the file
  again, mends it. A clone carries no registration epoch in the model, so that one of an
  earlier registration may be refused too, where the code ignores it.
- `RequestRounds` covers the local credentials; the loop for Home is not in it. The early
  returns of an execution, each of which calls `releaseAdmission`, are the one action `Leave`:
  `SlotsReturned` does not tell which of them forgot to. A round that has made
  `max-retry-credentials` attempts ends without another look at the credentials it set
  aside as busy, and the next round starts with all of them (`RoundOver`, `RoundOf`). The order in
  which credentials are picked is a free choice, which covers all selectors.

Not modelled: protocol translators, executors and HTTP handlers (pure conversions, or one
exchange whose outcome is kept), websocket sessions, plugins, OAuth logins, session affinity
(it only changes the order of picks), the Home client, persistent stores behind the one
`AuthLifecycle` uses, usage accounting, configuration, logging and the terminal interface.
The modelled parts are a small share of the program's lines: most of it is conversion and
I/O without shared state.
