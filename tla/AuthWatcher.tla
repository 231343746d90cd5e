----------------------------- MODULE AuthWatcher -----------------------------
(***************************************************************************)
(* How a change of one credential file reaches the running service:        *)
(* internal/watcher (events.go, clients.go, dispatcher.go) and             *)
(* sdk/cliproxy/service_auth.go.                                           *)
(*                                                                         *)
(* The goroutine that handles file events, full scans of the directory     *)
(* after a change of the configuration, and the hook of the management API *)
(* each look at the file or the manager, change what the watcher believes  *)
(* under clientsMutex, stamp the change with a revision and enqueue it     *)
(* later.  The updates go through a map of pending updates, the goroutine  *)
(* of the dispatcher and a channel to the consumer, which applies them to  *)
(* the auth manager.                                                       *)
(*                                                                         *)
(* A step is one critical section of clientsMutex, one access to the file  *)
(* or one batch of the consumer.  The model begins after the first scan.   *)
(***************************************************************************)
EXTENDS Integers, Sequences, FiniteSets

CONSTANTS
    Contents,      \* complete contents of the file
    Alien,         \* those that describe no credential
    Torn,          \* contents while the file is being written
    Invalid,       \* the hash "", which no content has
    None,
    Scanners,      \* goroutines that reload the configuration
    Managers,      \* management requests and token refreshes
    QueueSize,     \* capacity of authUpdates
    MaxChanges,    \* bound: changes of the file or the manager's entry
    MaxScans       \* bound: scans

ASSUME ContentsAssumption ==
    /\ Alien \subseteq Contents
    /\ Contents \cap Torn = {}
    /\ {None, Invalid} \cap (Contents \cup Torn) = {}
    /\ None # Invalid

Files == Contents \cup Torn \cup {None}
Entries == [c : Contents \ Alien, by : {"file", "core"}]
Updates == [kind : {"set", "noted"}, c : Contents \ Alien, rev : Nat]
              \cup [kind : {"delete"}, c : {None}, rev : Nat]
Auths == [c : Contents \ Alien, epoch : Nat]

\* None is not an entry, an update or a credential of the manager.
ASSUME NoneAssumption == None \notin Entries \cup Updates \cup Auths
ASSUME BoundsAssumption ==
    /\ QueueSize \in Nat \ {0}
    /\ MaxChanges \in Nat /\ MaxScans \in Nat

VARIABLES
    disk,          \* the file, or None
    events,        \* fsnotify's channel
    hash,          \* lastAuthHashes: the content last parsed, Invalid or None
    owned,         \* fileAuthsByPath lists the credential
    cur,           \* currentAuths: what the watcher believes, or None
    rev,           \* authRevisions of the watcher
    obs,           \* fileObservations
    scans,         \* activeAuthScans
    recent,        \* a removal was handled within authRemoveDebounceWindow
    pend,          \* pendingUpdates, or None
    batch,         \* the update the dispatcher is about to send, or None
    queue,         \* authUpdates
    svcRev,        \* authRevisions of the service
    core,          \* the auth manager's entry, or None
    epochs,        \* registrations so far
    ev,            \* the event goroutine
    scan,          \* the scans
    mgr            \* the management requests

(* History. *)
VARIABLES
    changes,       \* changes so far
    scanned,       \* scans started
    gaps           \* how a change may have been missed since the last update

fileVars == <<disk, events, changes>>
believed == <<hash, owned, cur, rev, obs, scans>>
pipe == <<pend, batch, queue>>
service == <<svcRev, core, epochs>>
vars == <<fileVars, believed, recent, pipe, service, ev, scan, mgr, scanned, gaps>>

-----------------------------------------------------------------------------
(* Data.                                                                    *)

\* An entry of currentAuths: read from the file, or a clone of the manager's.
Entry(c, by) == [c |-> c, by |-> by]

\* What the synthesizer makes of a file.
Synthesized(c) == IF c \in Contents \ Alien THEN Entry(c, "file") ELSE None

\* An update; clones carry the epoch of their registration, entries read from the
\* file carry none.
Update(e, r) ==
    [kind |-> IF e = None THEN "delete" ELSE IF e.by = "file" THEN "set" ELSE "noted",
     c |-> IF e = None THEN None ELSE e.c, rev |-> r]

Queued == {queue[i] : i \in 1..Len(queue)}

\* The updates between the stamp and the service.
InFlight ==
    ({ev.upd, pend, batch} \cup {scan[s].upd : s \in Scanners}
        \cup {mgr[m].upd : m \in Managers} \cup Queued) \ {None}

\* The credential that the content c describes, or None.
Credential(c) == IF c \in Contents \ Alien THEN c ELSE None

\* The entry e is the one of the content c.
Shows(e, c) == (IF e = None THEN None ELSE e.c) = Credential(c)

\* The newest update, if the service has yet to apply it to the manager's entry.
Deciding == {u \in InFlight : u.rev = rev /\ u.rev > svcRev /\ u.kind # "noted"}

\* The manager runs with the content c once the updates have reached it.
Ends(c) == IF Deciding = {} THEN Shows(core, c) ELSE \A u \in Deciding : u.c = Credential(c)

\* And the watcher believes in it.
Settled(c) == Shows(cur, c) /\ Ends(c)

Gap(name, seen) == IF seen THEN {name} ELSE {}

IdleEvent == [pc |-> "idle", c |-> None, had |-> FALSE, upd |-> None]
IdleScan == [pc |-> "idle", force |-> FALSE, rev |-> 0, obs |-> 0, found |-> None, upd |-> None]
IdleManager == [pc |-> "idle", epoch |-> 0, c |-> None, upd |-> None]

Init ==
    /\ disk \in (Contents \ Alien) \cup {None}
    /\ events = <<>>
    /\ hash = disk /\ owned = (disk # None) /\ cur = Synthesized(disk)
    /\ rev = 1 /\ obs = 0 /\ scans = 0
    /\ recent = FALSE
    /\ pend = None /\ batch = None /\ queue = <<>>
    /\ svcRev = 1 /\ epochs = 1
    /\ core = IF disk = None THEN None ELSE [c |-> disk, epoch |-> 1]
    /\ ev = IdleEvent
    /\ scan = [s \in Scanners |-> IdleScan]
    /\ mgr = [m \in Managers |-> IdleManager]
    /\ changes = 0 /\ scanned = 0 /\ gaps = {}

-----------------------------------------------------------------------------
(* The file.                                                                *)

\* The file becomes c, of which the watcher is notified.
Change(c) ==
    /\ changes < MaxChanges
    /\ disk' = c
    /\ events' = Append(events, IF c = None THEN "remove" ELSE "write")
    /\ changes' = changes + 1

\* Somebody writes, in one step or in two, or removes the file.
External ==
    /\ \E c \in Contents \cup Torn \cup {None} :
         /\ c # disk
         /\ Change(c)
    /\ UNCHANGED <<believed, recent, pipe, service, ev, scan, mgr, scanned, gaps>>

-----------------------------------------------------------------------------
(* Stamping and enqueueing.                                                 *)

\* stampAuthUpdatesLocked: the belief becomes e, and the change has a number.
Stamp(e) ==
    /\ cur' = e
    /\ rev' = rev + 1

BugEnqueue(u) == pend' = u

\* dispatchAuthUpdates: an update that was overtaken is dropped, a pending one replaced.
Enqueue(u) == pend' = IF u.rev < rev THEN pend ELSE u

-----------------------------------------------------------------------------
(* The event goroutine: handleEvent, addOrUpdateClientLocked,               *)
(* removeClientLocked.                                                      *)

\* observeAuthFile: the scans under way must not publish what they read.
Observe ==
    /\ obs' = obs + 1
    /\ hash' = IF scans > 0 /\ hash # None THEN Invalid ELSE hash

Take ==
    /\ ev.pc = "idle" /\ events # <<>>
    /\ events' = Tail(events)
    /\ Observe
    /\ LET removal == Head(events) = "remove" IN
       /\ ev' = [IdleEvent EXCEPT !.pc = IF removal /\ recent THEN "idle"
                                         ELSE IF removal THEN "settle" ELSE "check"]
       /\ recent' = (recent \/ removal)
       /\ gaps' = gaps \cup Gap("debounced", removal /\ recent /\ disk = None)
    /\ UNCHANGED <<disk, changes, owned, cur, rev, scans, pipe, service, scan,
                   mgr, scanned>>

\* authFileUnchanged, then addOrUpdateClientLocked.
Examine ==
    IF disk \in Contents /\ disk = hash
    THEN /\ ev' = IdleEvent
         /\ gaps' = gaps \cup Gap("suppressed", ~Settled(disk))
         /\ UNCHANGED <<hash, obs>>
    ELSE ev' = [ev EXCEPT !.pc = "read"] /\ Observe /\ UNCHANGED gaps

Check ==
    /\ ev.pc = "check"
    /\ Examine
    /\ UNCHANGED <<fileVars, owned, cur, rev, scans, recent, pipe, service, scan, mgr,
                   scanned>>

\* After replaceCheckDelay the file may be there again.
Settle ==
    /\ ev.pc = "settle"
    /\ IF disk # None THEN Examine
       ELSE IF hash = None
       THEN /\ ev' = IdleEvent
            /\ gaps' = gaps \cup Gap("unknown", ~Settled(None))
            /\ UNCHANGED <<hash, obs>>
       ELSE ev' = [ev EXCEPT !.pc = "remove"] /\ Observe /\ UNCHANGED gaps
    /\ UNCHANGED <<fileVars, owned, cur, rev, scans, recent, pipe, service, scan, mgr,
                   scanned>>

\* The file is read, parsed and compared with the hash.
Read ==
    /\ ev.pc = "read"
    /\ IF disk \notin Contents \/ disk = hash
       THEN /\ ev' = IdleEvent
            /\ gaps' = gaps \cup Gap("suppressed", disk \in Contents /\ ~Settled(disk))
            /\ UNCHANGED hash
       ELSE /\ hash' = disk
            /\ ev' = [ev EXCEPT !.pc = "publish", !.c = disk, !.had = owned]
            /\ UNCHANGED gaps
    /\ UNCHANGED <<fileVars, owned, cur, rev, obs, scans, recent, pipe, service, scan, mgr,
                   scanned>>

\* computePerPathUpdatesLocked for the entry e.
Publish(e, had) ==
    IF (e = None /\ ~had) \/ (e # None /\ cur = e)
    THEN /\ ev' = IdleEvent
         /\ gaps' = gaps \cup Gap("suppressed", ~Settled(IF e = None THEN None ELSE e.c))
         /\ UNCHANGED <<cur, rev>>
    ELSE /\ Stamp(e)
         /\ ev' = [IdleEvent EXCEPT !.pc = "send", !.upd = Update(e, rev + 1)]
         /\ gaps' = {}

AddOrUpdate ==
    /\ ev.pc = "publish"
    /\ owned' = (Synthesized(ev.c) # None)
    /\ Publish(Synthesized(ev.c), ev.had)
    /\ UNCHANGED <<fileVars, hash, obs, scans, recent, pipe, service, scan, mgr, scanned>>

RemoveClient ==
    /\ ev.pc = "remove"
    /\ hash' = None /\ owned' = FALSE
    /\ Publish(None, owned)
    /\ UNCHANGED <<fileVars, obs, scans, recent, pipe, service, scan, mgr, scanned>>

EventSend ==
    /\ ev.pc = "send"
    /\ Enqueue(ev.upd)
    /\ ev' = IdleEvent
    /\ UNCHANGED <<fileVars, believed, recent, batch, queue, service, scan, mgr, scanned,
                   gaps>>

\* authRemoveDebounceWindow passes.
Elapse ==
    /\ recent
    /\ recent' = FALSE
    /\ UNCHANGED <<fileVars, believed, pipe, service, ev, scan, mgr, scanned, gaps>>

-----------------------------------------------------------------------------
(* A full scan: refreshAuthState after a reload of the configuration.       *)

\* reloadClients forgets the credentials of the OAuth providers whose settings changed.
Forget(s) ==
    /\ scan[s].pc = "idle" /\ scanned < MaxScans
    /\ cur' = None
    /\ scan' = [scan EXCEPT ![s].pc = "begin"]
    /\ scanned' = scanned + 1
    /\ UNCHANGED <<fileVars, hash, owned, rev, obs, scans, recent, pipe, service, ev, mgr,
                   gaps>>

Reload(s) ==
    /\ scan[s].pc = "idle" /\ scanned < MaxScans
    /\ scan' = [scan EXCEPT ![s].pc = "begin"]
    /\ scanned' = scanned + 1
    /\ UNCHANGED <<fileVars, believed, recent, pipe, service, ev, mgr, gaps>>

ScanBegin(s) ==
    /\ scan[s].pc = "begin"
    /\ scans' = scans + 1
    /\ \E force \in BOOLEAN :
         scan' = [scan EXCEPT ![s] = [IdleScan EXCEPT !.pc = "scan", !.force = force,
                                                      !.rev = rev, !.obs = obs]]
    /\ UNCHANGED <<fileVars, hash, owned, cur, rev, obs, recent, pipe, service, ev, mgr,
                   scanned, gaps>>

\* snapshotCoreAuths, without a lock.
ScanRead(s) ==
    /\ scan[s].pc = "scan"
    /\ scan' = [scan EXCEPT ![s].pc = "finish", ![s].found = Synthesized(disk)]
    /\ UNCHANGED <<fileVars, believed, recent, pipe, service, ev, mgr, scanned, gaps>>

BugChangedDuringScan(s) == scan[s].rev # rev

\* A file event or an update of the credential was seen while the scan ran.
ChangedDuringScan(s) == scan[s].rev # rev \/ scan[s].obs # obs

\* What the scan publishes: what it read, or the belief that is newer than that.
ScanFinish(s) ==
    /\ scan[s].pc = "finish"
    /\ scans' = scans - 1
    /\ LET e == IF ChangedDuringScan(s) THEN cur ELSE scan[s].found
           update == e # cur \/ (scan[s].force /\ e # None)
       IN /\ IF update
             THEN /\ Stamp(e)
                  /\ scan' = [scan EXCEPT ![s] = [IdleScan EXCEPT !.pc = "send",
                                                                  !.upd = Update(e, rev + 1)]]
             ELSE scan' = [scan EXCEPT ![s] = IdleScan] /\ UNCHANGED <<cur, rev>>
          /\ gaps' = IF update /\ ~ChangedDuringScan(s) THEN {} ELSE gaps
    /\ UNCHANGED <<fileVars, hash, owned, obs, recent, pipe, service, ev, mgr, scanned>>

ScanSend(s) ==
    /\ scan[s].pc = "send"
    /\ Enqueue(scan[s].upd)
    /\ scan' = [scan EXCEPT ![s] = IdleScan]
    /\ UNCHANGED <<fileVars, believed, recent, batch, queue, service, ev, mgr, scanned,
                   gaps>>

-----------------------------------------------------------------------------
(* The dispatcher and the consumer.                                         *)

\* nextPendingBatch.
NextPendingBatch ==
    /\ batch = None /\ pend # None
    /\ batch' = pend /\ pend' = None
    /\ UNCHANGED <<fileVars, believed, recent, queue, service, ev, scan, mgr, scanned,
                   gaps>>

DispatchSend ==
    /\ batch # None /\ Len(queue) < QueueSize
    /\ queue' = Append(queue, batch) /\ batch' = None
    /\ UNCHANGED <<fileVars, believed, recent, pend, service, ev, scan, mgr, scanned,
                   gaps>>

\* prepareCoreAuthForModelRegistration and applyCoreAuthRemoval: a clone of the
\* manager's own entry is not applied to it again.
Apply(u) ==
    CASE u.kind = "delete" -> core' = None /\ UNCHANGED epochs
      [] u.kind = "noted" -> UNCHANGED <<core, epochs>>
      [] u.kind = "set" /\ core # None -> core' = [core EXCEPT !.c = u.c] /\ UNCHANGED epochs
      [] OTHER -> core' = [c |-> u.c, epoch |-> epochs + 1] /\ epochs' = epochs + 1

\* The same functions when they give up: the account that is removed or replaced cannot be
\* revoked, or the manager refuses the entry, and it keeps the one it has; or the service
\* does not support the provider (any more), and removes it.  The revision is recorded
\* all the same, so that nobody applies the update again.
Refuse(u) ==
    /\ core # None \/ u.kind = "set"
    /\ \/ u.kind # "noted" /\ UNCHANGED core
       \/ u.kind # "delete" /\ core' = None
    /\ UNCHANGED epochs
    /\ gaps' = gaps \cup Gap("refused", Deciding \subseteq {u})

\* The last of the updates us, in the order of their revisions.
ApplyLast(us) ==
    \E u \in us :
        /\ \A v \in us : v.rev <= u.rev
        /\ svcRev' = u.rev
        /\ (Apply(u) /\ UNCHANGED gaps) \/ Refuse(u)

BugHandleAuthUpdates(us) == ApplyLast(us)

\* Of a batch, the last update that is newer than all that were handled before.
HandleAuthUpdates(us) ==
    LET fresh == {u \in us : u.rev > svcRev}
    IN IF fresh = {} THEN UNCHANGED <<service, gaps>> ELSE ApplyLast(fresh)

\* consumeAuthUpdates takes all there is.
Consume ==
    /\ queue # <<>>
    /\ HandleAuthUpdates(Queued)
    /\ queue' = <<>>
    /\ UNCHANGED <<fileVars, believed, recent, pend, batch, ev, scan, mgr, scanned>>

-----------------------------------------------------------------------------
(* Changes that begin at the manager.                                       *)

\* Manager.Update saves the file, unless somebody removed it; the hook follows when
\* the management API made the change, and not when a token was refreshed.
Save(m) ==
    /\ mgr[m].pc = "idle" /\ core # None
    /\ \E c \in Contents \ Alien, hooked \in BOOLEAN :
         /\ c # core.c
         /\ core' = [core EXCEPT !.c = c]
         /\ IF disk # None THEN Change(c)
            ELSE /\ changes < MaxChanges
                 /\ changes' = changes + 1
                 /\ UNCHANGED <<disk, events>>
         /\ mgr' = [mgr EXCEPT ![m].pc = IF hooked THEN "hook" ELSE "idle",
                               ![m].epoch = IF hooked THEN core.epoch ELSE 0]
    /\ UNCHANGED <<believed, recent, pipe, svcRev, epochs, ev, scan, scanned, gaps>>

\* Manager.RemoveWithPersistence.
Delete(m) ==
    /\ mgr[m].pc = "idle" /\ disk # None
    /\ Change(None)
    /\ core' = None
    /\ UNCHANGED <<believed, recent, pipe, svcRev, epochs, ev, scan, mgr, scanned, gaps>>

\* runtimeAuthSyncHook: only for the registration that was changed, as it is now.
Hook(m) ==
    /\ mgr[m].pc = "hook"
    /\ mgr' = [mgr EXCEPT ![m] =
                 IF core = None THEN IdleManager
                 ELSE IF core.epoch # mgr[m].epoch THEN IdleManager
                 ELSE [IdleManager EXCEPT !.pc = "stamp", !.c = core.c]]
    /\ UNCHANGED <<fileVars, believed, recent, pipe, service, ev, scan, scanned, gaps>>

\* dispatchPersistedAuthUpdateWithRevision.
StampPersisted(m) ==
    /\ mgr[m].pc = "stamp"
    /\ owned' = TRUE
    /\ Stamp(Entry(mgr[m].c, "core"))
    /\ mgr' = [mgr EXCEPT ![m] = [IdleManager EXCEPT !.pc = "send",
                                    !.upd = Update(Entry(mgr[m].c, "core"), rev + 1)]]
    /\ gaps' = gaps \cup Gap("overtaken", InFlight # {} \/ ~Shows(cur, mgr[m].c))
    /\ UNCHANGED <<fileVars, hash, obs, scans, recent, pipe, service, ev, scan, scanned>>

ManagerSend(m) ==
    /\ mgr[m].pc = "send"
    /\ Enqueue(mgr[m].upd)
    /\ mgr' = [mgr EXCEPT ![m].pc = "apply"]
    /\ UNCHANGED <<fileVars, believed, recent, batch, queue, service, ev, scan, scanned,
                   gaps>>

\* The hook applies the update itself, under the revision that it was given.
ManagerApply(m) ==
    /\ mgr[m].pc = "apply"
    /\ HandleAuthUpdates({mgr[m].upd})
    /\ mgr' = [mgr EXCEPT ![m] = IdleManager]
    /\ UNCHANGED <<fileVars, believed, recent, pipe, ev, scan, scanned>>

-----------------------------------------------------------------------------
EventStep == Check \/ Settle \/ Read \/ AddOrUpdate \/ RemoveClient \/ EventSend
ScanStep(s) == ScanBegin(s) \/ ScanRead(s) \/ ScanFinish(s) \/ ScanSend(s)
ManagerStep(m) == Hook(m) \/ StampPersisted(m) \/ ManagerSend(m) \/ ManagerApply(m)

Next ==
    \/ External
    \/ Take \/ EventStep \/ Elapse
    \/ \E s \in Scanners : Forget(s) \/ Reload(s) \/ ScanStep(s)
    \/ NextPendingBatch \/ DispatchSend \/ Consume
    \/ \E m \in Managers : Save(m) \/ Delete(m) \/ ManagerStep(m)

Spec == Init /\ [][Next]_vars

-----------------------------------------------------------------------------
(* Properties.                                                              *)

ManagerType ==
    /\ core \in Auths \cup {None}
    /\ svcRev \in Nat /\ epochs \in Nat

HookType ==
    /\ mgr \in [Managers -> [pc : {"idle", "hook", "stamp", "send", "apply"}, epoch : Nat,
                             c : (Contents \ Alien) \cup {None}, upd : Updates \cup {None}]]
    /\ \A m \in Managers : mgr[m].pc \in {"send", "apply"} <=> mgr[m].upd # None
    /\ \A m \in Managers : mgr[m].pc = "stamp" => mgr[m].c # None

PipeType ==
    /\ pend \in Updates \cup {None} /\ batch \in Updates \cup {None}
    /\ queue \in Seq(Updates)

BeliefType ==
    /\ owned \in BOOLEAN
    /\ cur \in Entries \cup {None}
    /\ rev \in Nat /\ obs \in Nat

EventType ==
    /\ ev \in [pc : {"idle", "settle", "check", "read", "publish", "remove", "send"},
               c : Contents \cup {None}, had : BOOLEAN, upd : Updates \cup {None}]
    /\ ev.pc = "send" <=> ev.upd # None

ScanType ==
    /\ scan \in [Scanners -> [pc : {"idle", "begin", "scan", "finish", "send"},
                              force : BOOLEAN, rev : Nat, obs : Nat,
                              found : Entries \cup {None}, upd : Updates \cup {None}]]
    /\ \A s \in Scanners : scan[s].pc = "send" <=> scan[s].upd # None

\* Types; activeAuthScans counts the scans between their two critical sections, and
\* a goroutine that is about to send holds an update.
TypeOK ==
    /\ ManagerType /\ HookType /\ PipeType /\ BeliefType /\ EventType /\ ScanType
    /\ Len(queue) <= QueueSize
    /\ disk \in Files /\ events \in Seq({"write", "remove"})
    /\ hash \in Contents \cup {None, Invalid} /\ recent \in BOOLEAN
    /\ scans = Cardinality({s \in Scanners : scan[s].pc \in {"scan", "finish"}})

\* The newest change the watcher stamped is on its way or was handled: dropping
\* overtaken updates, replacing pending ones and coalescing batches never loses it.
NoUpdateLost ==
    /\ svcRev <= rev
    /\ svcRev < rev => \E u \in InFlight : u.rev = rev

Quiet ==
    /\ events = <<>> /\ ev = IdleEvent
    /\ InFlight = {}
    /\ \A s \in Scanners : scan[s].pc \in {"idle", "begin"}
    /\ \A m \in Managers : mgr[m].pc = "idle"

\* When every event, scan and update was worked off, the manager runs with what is
\* in the file, however events, scans and management requests were interleaved,
\* except after one of five known gaps: a removal that was debounced, a removal of a
\* file without a hash, an event suppressed by a hash that is older than the belief,
\* a hook that stamped its clone over a change still on its way, and an update that the
\* service refused with no later one to decide, which is not tried again before the
\* file's next change or rescan.
Converged == Quiet /\ disk \notin Torn /\ gaps = {} => Shows(core, disk)

\* A credential whose file appeared and vanished again does not stay behind
\* (stampAuthUpdatesLocked: "a scan cannot resurrect an auth that appeared then
\* vanished"); claimed also when the removal met a file without a hash.
NoGhost == Quiet /\ disk = None /\ gaps \subseteq {"unknown"} => core = None

\* The service handles revisions in increasing order, and a batch changes the manager's
\* entry only with a newer one: the hook and the queue carry the same update, and an
\* old one is not applied over it.
AppliedForward ==
    [][/\ svcRev' >= svcRev
       /\ queue # <<>> /\ queue' = <<>> /\ core' # core => svcRev' > svcRev]_vars
=============================================================================
