--------------------------- MODULE AuthLifecycle ---------------------------
(***************************************************************************)
(* The life of one credential in the auth manager (sdk/cliproxy/auth):     *)
(* registration, update, removal, refresh and the bookkeeping of request   *)
(* results.  Three copies of the credential exist: the entry of m.auths,   *)
(* the saved record in the store, and the entry of the scheduler.  Only    *)
(* the first is changed under m.mu; the other two follow later, each       *)
(* operation writing them from its own snapshot outside m.mu, so writes    *)
(* arrive out of order.  The registration epoch, the generation and the    *)
(* per-credential persistence lock put them back in order.                 *)
(*                                                                         *)
(* A step of the model is one critical section of m.mu, of the scheduler's *)
(* mutex or of the store.  An operation that takes the persistence lock    *)
(* and then m.mu does both in one step.                                    *)
(***************************************************************************)
EXTENDS Integers

CONSTANTS
    Ops,           \* goroutines that call the manager
    Notes,         \* values of the settings management edits
    None,          \* no credential, no record, no holder
    MaxCalls,      \* bound: operations started
    MaxTokens      \* bound: tokens the upstream issues

VARIABLES
    auth,          \* m.auths[id], or None
    epochs,        \* m.authEpochs[id]
    pLock,         \* holder of the persistence lock, or None
    lastEpoch,     \* authPersistLock.lastEpoch
    lastGen,       \* authPersistLock.lastGeneration
    backend,       \* "file": the source file must exist to be written
    file,          \* what the store holds of the credential, or None
    schedEpoch,    \* scheduledGenerationMeta of the credential
    schedGen,
    sched,         \* its entry in the provider shards, or None
    locks,         \* holders of the refresh and the preparation lock
    pc,            \* control state of an operation
    job,           \* the kind of operation, which decides how it ends
    snap,          \* the snapshot an operation works with
    skip,          \* its context says WithSkipPersist
    out,           \* the clone it hands to Store.Save
    token,         \* tokens issued so far; a token is its number
    calls          \* operations started so far

(* History variables the properties speak about; no action reads them. *)
VARIABLES
    shownGen,      \* generation of the last change a scheduler must show
    dirty,         \* a durable change was not written, on purpose or by error
    gone,          \* the record was deleted and nobody registered since
    blame,         \* <<epoch, availability epoch>> of the snapshot whose
                   \* outcome caused the cooldown
    carried        \* the cooldown was carried over by a file reload

memVars == <<auth, epochs>>
storeVars == <<pLock, lastEpoch, lastGen, file>>
schedVars == <<schedEpoch, schedGen, sched>>
opVars == <<pc, job, snap, skip, out>>
history == <<shownGen, dirty, gone, blame, carried>>
vars == <<memVars, storeVars, schedVars, opVars, history,
          backend, locks, token, calls>>

-----------------------------------------------------------------------------
(* Data. *)

Auths == [epoch : Nat,            \* RegistrationEpoch
          gen : Nat,              \* Generation
          version : Nat,          \* CredentialVersion
          availability : Nat,     \* availabilityEpoch
          tok : Nat, note : Notes \cup {None}, off : BOOLEAN, cool : BOOLEAN]
Records == [tok : Nat, note : Notes \cup {None}, off : BOOLEAN]

ASSUME ConstantsAssumption ==
    /\ None \notin Ops \cup Auths \cup Records
    /\ Notes # {}
    /\ MaxCalls \in Nat
    /\ MaxTokens \in Nat \ {0}

LockNames == {"refresh", "prepare"}
Jobs == {"change", "neutral"} \cup LockNames
Controls == {"idle", "held", "wait", "persist", "save", "upsert",
             "delete", "drop", "tombstone", "upstream", "commit", "failed"}

\* What Store.Save writes: tokens, settings and the disabled flag.
Durable(a) == [tok |-> a.tok, note |-> a.note, off |-> a.off]

\* What a scheduler entry is built from.
View(a) == [epoch |-> a.epoch, tok |-> a.tok, note |-> a.note,
            off |-> a.off, cool |-> a.cool]

\* Stands for a local variable without a value.
Blank == [epoch |-> 0, gen |-> 0, version |-> 0, availability |-> 0, tok |-> 0,
          note |-> None, off |-> FALSE, cool |-> FALSE]

CredentialsChanged(a, t) == a.tok # t

\* The snapshot b and the current entry carry the same credentials.
sameCredentialSnapshot(b) ==
    /\ auth # None
    /\ b.epoch = auth.epoch
    /\ b.version = auth.version
    /\ b.tok = auth.tok

Flag(b) == IF b THEN 1 ELSE 0

\* The end of updateInternal: the merged content t, n, o, c replaces a.
Updated(a, t, n, o, c) ==
    LET cleared == Flag(o /\ c) IN
    [epoch |-> a.epoch, gen |-> a.gen + 1 + cleared,
     version |-> a.version + Flag(CredentialsChanged(a, t)),
     availability |-> a.availability + Flag(a.off # o) + cleared,
     tok |-> t, note |-> n, off |-> o, cool |-> c /\ ~o]

\* New credentials end the cooldown of a 401, of which cool may be one.
Recovered(a, t, c) ==
    IF CredentialsChanged(a, t) THEN {c, FALSE} ELSE {c}

-----------------------------------------------------------------------------
(* The scheduler. *)

\* A bug: the generation is not compared.
BugIsStaleScheduledAuth(e, g) == schedEpoch > e

isStaleScheduledAuth(e, g) ==
    \/ schedEpoch > e
    \/ schedEpoch = e /\ schedGen > g

\* A bug: disabled credentials stay in the shards.
BugUpsertAuth(a) ==
    IF isStaleScheduledAuth(a.epoch, a.gen)
    THEN UNCHANGED schedVars
    ELSE schedEpoch' = a.epoch /\ schedGen' = a.gen /\ sched' = a

upsertAuth(a) ==
    IF isStaleScheduledAuth(a.epoch, a.gen)
    THEN UNCHANGED schedVars
    ELSE /\ schedEpoch' = a.epoch
         /\ schedGen' = a.gen
         /\ sched' = IF a.off THEN None ELSE a

RecordRemovalTombstone(e) ==
    IF e < schedEpoch
    THEN UNCHANGED schedVars
    ELSE schedEpoch' = e /\ schedGen' = 0 /\ sched' = None

\* The shards are emptied but the generations kept, then every entry of
\* m.auths is upserted, all of it under the read lock of m.mu.
rebuild ==
    IF auth = None \/ isStaleScheduledAuth(auth.epoch, auth.gen)
    THEN sched' = None /\ UNCHANGED <<schedEpoch, schedGen>>
    ELSE upsertAuth(auth)

-----------------------------------------------------------------------------
Init ==
    /\ \E n \in Notes, o \in BOOLEAN :
         auth = [epoch |-> 1, gen |-> 1, version |-> 1, availability |-> 1,
                 tok |-> 1, note |-> n, off |-> o, cool |-> FALSE]
    /\ epochs = 1
    /\ pLock = None /\ lastEpoch = 0 /\ lastGen = 0
    /\ backend \in {"file", "other"}
    /\ file = Durable(auth)
    /\ schedEpoch = 1 /\ schedGen = 1
    /\ sched = IF auth.off THEN None ELSE auth
    /\ locks = [l \in LockNames |-> None]
    /\ pc = [p \in Ops |-> "idle"]
    /\ job = [p \in Ops |-> "change"]
    /\ snap = [p \in Ops |-> Blank]
    /\ skip = [p \in Ops |-> FALSE]
    /\ out = [p \in Ops |-> Blank]
    /\ token = 1 /\ calls = 0
    /\ shownGen = 1 /\ dirty = FALSE /\ gone = FALSE
    /\ blame = <<0, 0>> /\ carried = FALSE

\* An idle goroutine calls the manager.
Call(p) ==
    /\ pc[p] = "idle"
    /\ calls < MaxCalls
    /\ calls' = calls + 1

Goto(p, c) == pc' = [pc EXCEPT ![p] = c]

\* p continues at c as an operation of kind j with the snapshot s.
Become(p, c, j, s) ==
    /\ Goto(p, c)
    /\ job' = [job EXCEPT ![p] = j]
    /\ snap' = [snap EXCEPT ![p] = s]
    /\ out' = [out EXCEPT ![p] = Blank]

\* The operation is over; its local variables are gone.
Stop(p) ==
    /\ Goto(p, "idle")
    /\ job' = [job EXCEPT ![p] = "change"]
    /\ snap' = [snap EXCEPT ![p] = Blank]
    /\ skip' = [skip EXCEPT ![p] = FALSE]
    /\ out' = [out EXCEPT ![p] = Blank]

\* It also drops the lock its kind holds.
Return(p) ==
    /\ Stop(p)
    /\ locks' = [l \in LockNames |-> IF locks[l] = p THEN None ELSE locks[l]]

\* GetByID, currentRequestAuth: a snapshot that grows old while it is used.
Look(p) ==
    /\ Call(p)
    /\ auth # None
    /\ Become(p, "held", "change", auth)
    /\ UNCHANGED <<memVars, storeVars, schedVars, history, backend, locks,
                   token, skip>>

\* The entry of m.auths becomes a; why and kept are the history of its cooldown.
Install(a, why, kept) ==
    /\ auth' = a
    /\ shownGen' = IF auth # None /\ View(a) = View(auth)
                   THEN shownGen ELSE a.gen
    /\ blame' = why
    /\ carried' = kept
    /\ UNCHANGED <<dirty, gone>>

-----------------------------------------------------------------------------
(* Register and updateInternal.  Both hold the persistence lock from the   *)
(* change of m.auths to the end of Store.Save.                             *)

\* Tokens in the input are known ones or come from a new login.
Input(t) ==
    /\ t <= token + 1
    /\ token' = IF t > token THEN t ELSE token

Register(p) ==
    /\ Call(p)
    /\ pLock = None
    /\ \E t \in 1..MaxTokens, n \in Notes, o \in BOOLEAN, s \in BOOLEAN :
         LET a == [epoch |-> epochs + 1, gen |-> 1, version |-> 1,
                   availability |-> 1, tok |-> t, note |-> n, off |-> o,
                   cool |-> FALSE]
         IN /\ Input(t)
            /\ auth' = a
            /\ shownGen' = 1
            /\ Become(p, "persist", "change", a)
            /\ skip' = [skip EXCEPT ![p] = s]
    /\ epochs' = epochs + 1
    /\ pLock' = p
    /\ carried' = FALSE
    /\ gone' = FALSE
    /\ UNCHANGED <<lastEpoch, lastGen, file, schedVars, dirty, blame, backend,
                   locks>>

\* A bug: the persistence lock is not held between the change and the write.
BugCommit(p, j, a, kept) ==
    /\ Install(a, blame, kept)
    /\ Become(p, "persist", j, a)
    /\ UNCHANGED <<epochs, storeVars, schedVars, backend, locks>>

\* The part of updateInternal all modes share.
Commit(p, j, a, kept) ==
    /\ Install(a, blame, kept)
    /\ pLock' = p
    /\ Become(p, "persist", j, a)
    /\ UNCHANGED <<epochs, lastEpoch, lastGen, file, schedVars, backend, locks>>

\* Update with the content of an uploaded file, which carries no epoch.
Update(p) ==
    /\ Call(p)
    /\ pLock = None
    /\ auth # None
    /\ \E t \in 1..MaxTokens, n \in Notes, o \in BOOLEAN :
         /\ Input(t)
         /\ \E c \in Recovered(auth, t, auth.cool /\ ~o) :
              Commit(p, "change", Updated(auth, t, n, o, c), carried /\ c)
    /\ skip' = [skip EXCEPT ![p] = FALSE]

\* The cooldowns a reloaded entry can have: the model states are those of the
\* snapshot, the rest is kept from the entry (preserveIncomingAuthCooldown).
Reloaded(s, o) ==
    IF o THEN {FALSE}
    ELSE (IF s.off THEN {} ELSE {s.cool}) \cup
         (IF auth.off THEN {FALSE} ELSE {auth.cool})

\* Update from the watcher's queue: the service has looked at the entry, takes
\* its model states over and passes the content it read from the file.
Reload(p) ==
    /\ pc[p] = "held"
    /\ pLock = None
    /\ auth # None
    /\ \E t \in 1..MaxTokens, n \in Notes, o \in BOOLEAN :
         /\ Input(t)
         /\ \E k \in Reloaded(snap[p], o) : \E c \in Recovered(auth, t, k) :
              Commit(p, "change", Updated(auth, t, n, o, c),
                     c /\ (carried \/ snap[p].cool))
    /\ skip' = [skip EXCEPT ![p] = TRUE]
    /\ UNCHANGED calls

\* PatchAuth by a management handler that looked the credential up before.
PatchAuth(p) ==
    /\ pc[p] = "held"
    /\ pLock = None
    /\ auth # None /\ snap[p].epoch = auth.epoch
    /\ \E n \in Notes, o \in BOOLEAN :
         Commit(p, "change", Updated(auth, auth.tok, n, o, auth.cool),
                carried /\ auth.cool)
    /\ skip' = [skip EXCEPT ![p] = FALSE]
    /\ UNCHANGED <<token, calls>>

\* A snapshot holder gives up: the entry is gone or was registered again, the
\* patch callback failed, or the caller had nothing to do.
Leave(p) ==
    /\ pc[p] = "held"
    /\ Stop(p)
    /\ UNCHANGED <<memVars, storeVars, schedVars, history, backend, locks,
                   token, calls>>

-----------------------------------------------------------------------------
(* persist, persistAuthLocked, and the upsert that ends most operations.   *)

\* What follows the write: recordAvailabilityNeutralResult tells nobody.
Written(p) ==
    IF job[p] = "neutral"
    THEN Stop(p)
    ELSE /\ Goto(p, "upsert")
         /\ skip' = [skip EXCEPT ![p] = FALSE]
         /\ out' = [out EXCEPT ![p] = Blank]
         /\ UNCHANGED <<job, snap>>

\* A snapshot of a replaced registration is not written; one that bookkeeping
\* has overtaken is replaced by the current entry.
Latest(s) == IF auth.gen > s.gen THEN auth ELSE s

\* The snapshot must not be written: its registration is over, or a later
\* state was written before.
Late(s) ==
    IF auth = None THEN TRUE
    ELSE LET a == Latest(s) IN
         \/ auth.epoch # s.epoch
         \/ a.epoch < lastEpoch
         \/ a.epoch = lastEpoch /\ a.gen < lastGen

Persist(p) ==
    /\ \/ pc[p] = "persist"
       \/ pc[p] = "wait" /\ pLock = None
    /\ IF Late(snap[p])
       THEN /\ Written(p)
            /\ pLock' = None
            /\ UNCHANGED <<lastEpoch, lastGen, dirty>>
       ELSE /\ lastEpoch' = auth.epoch
            /\ lastGen' = Latest(snap[p]).gen
            /\ \/ /\ skip[p]
                  /\ Written(p)
                  /\ pLock' = None
                  /\ dirty' = TRUE
               \/ /\ ~skip[p]
                  /\ Goto(p, "save")
                  /\ out' = [out EXCEPT ![p] = Latest(snap[p])]
                  /\ pLock' = p
                  /\ UNCHANGED <<dirty, job, snap, skip>>
    /\ UNCHANGED <<memVars, file, schedVars, backend, locks, token, calls,
                   shownGen, gone, blame, carried>>

\* A bug: the persistence lock is kept when the write fails.
BugSave(p) ==
    /\ pc[p] = "save"
    /\ \/ file' = Durable(out[p]) /\ dirty' = FALSE /\ pLock' = None
       \/ dirty' = TRUE /\ UNCHANGED <<file, pLock>>
    /\ Written(p)
    /\ UNCHANGED <<memVars, lastEpoch, lastGen, schedVars, backend, locks,
                   token, calls, shownGen, gone, blame, carried>>

\* A file-backed credential whose file is missing is not written.
Save(p) ==
    /\ pc[p] = "save"
    /\ \/ /\ backend = "file" /\ file = None
          /\ UNCHANGED <<file, dirty>>
       \/ /\ backend = "file" => file # None
          /\ file' = Durable(out[p])
          /\ dirty' = FALSE
       \/ /\ dirty' = TRUE
          /\ UNCHANGED file
    /\ pLock' = None
    /\ Written(p)
    /\ UNCHANGED <<memVars, lastEpoch, lastGen, schedVars, backend, locks,
                   token, calls, shownGen, gone, blame, carried>>

Upsert(p) ==
    /\ pc[p] = "upsert"
    /\ upsertAuth(snap[p])
    /\ Return(p)
    /\ UNCHANGED <<memVars, storeVars, backend, token, calls, history>>

-----------------------------------------------------------------------------
(* RemoveWithPersistence holds the persistence lock throughout.            *)

\* The service removes a registration it looked up; the callback leaves the
\* store alone.
Remove(p) ==
    /\ pc[p] = "held"
    /\ pLock = None
    /\ auth # None /\ auth.epoch = snap[p].epoch
    /\ pLock' = p
    /\ Become(p, "drop", "change", Blank)
    /\ UNCHANGED <<memVars, lastEpoch, lastGen, file, schedVars, history,
                   backend, locks, token, calls, skip>>

\* A bug: the deletion does not wait for the persistence lock.
BugDelete(p) ==
    /\ Call(p)
    /\ pLock' = p
    /\ Goto(p, "delete")
    /\ UNCHANGED <<memVars, lastEpoch, lastGen, file, schedVars, history,
                   backend, locks, token, job, snap, skip, out>>

\* Management deletes a credential and its record, whatever its epoch.
Delete(p) ==
    /\ Call(p)
    /\ pLock = None
    /\ pLock' = p
    /\ Goto(p, "delete")
    /\ UNCHANGED <<memVars, lastEpoch, lastGen, file, schedVars, history,
                   backend, locks, token, job, snap, skip, out>>

\* The callback: it can fail before or after it removed the file.
DeleteRecord(p) ==
    /\ pc[p] = "delete"
    /\ \/ /\ file # None
          /\ Goto(p, "drop")
          /\ file' = None
          /\ UNCHANGED <<pLock, job, snap, skip, out>>
       \/ /\ Stop(p)
          /\ pLock' = None
          /\ file' \in {file, None}
    /\ UNCHANGED <<memVars, lastEpoch, lastGen, schedVars, history,
                   backend, locks, token, calls>>

\* The removal under m.mu, which leaves a tombstone epoch behind.
Drop(p) ==
    /\ pc[p] = "drop"
    /\ IF auth = None
       THEN /\ pLock' = None
            /\ Stop(p)
            /\ UNCHANGED <<memVars, lastEpoch, lastGen, gone>>
       ELSE /\ auth' = None
            /\ epochs' = epochs + 1
            /\ lastEpoch' = epochs + 1
            /\ lastGen' = 0
            /\ gone' = (file = None)
            /\ Goto(p, "tombstone")
            /\ UNCHANGED <<pLock, job, snap, skip, out>>
    /\ UNCHANGED <<file, schedVars, shownGen, dirty, blame, carried,
                   backend, locks, token, calls>>

Tombstone(p) ==
    /\ pc[p] = "tombstone"
    /\ RecordRemovalTombstone(lastEpoch)
    /\ pLock' = None
    /\ Stop(p)
    /\ UNCHANGED <<memVars, lastEpoch, lastGen, file, history,
                   backend, locks, token, calls>>

-----------------------------------------------------------------------------
(* Bookkeeping: m.auths is changed under m.mu alone, saved afterwards.     *)

\* The entry becomes a, and p goes on to c with a snapshot of it.
Record(p, c, j, a, why, kept) ==
    /\ Install(a, why, kept)
    /\ Become(p, c, j, a)
    /\ skip' = [skip EXCEPT ![p] = FALSE]
    /\ UNCHANGED <<epochs, storeVars, schedVars, backend, locks, token>>

resultMatchesCredential(s) ==
    auth # None /\ s.epoch = auth.epoch /\ s.version = auth.version

\* A bug: a result is applied although a reset came between.
BugResultMatchesAvailabilityEpoch(s) == TRUE

resultMatchesAvailabilityEpoch(s) == s.availability = auth.availability

\* The outcome of a request that ran with the snapshot.  A success may end the
\* cooldown, a failure may start one.
MarkResult(p) ==
    /\ pc[p] = "held"
    /\ resultMatchesCredential(snap[p])
    /\ LET a == [auth EXCEPT !.gen = @ + 1] IN
       \/ Record(p, "wait", "change", a, blame, carried)
       \/ /\ ~auth.off
          /\ resultMatchesAvailabilityEpoch(snap[p])
          /\ \/ Record(p, "wait", "change", [a EXCEPT !.cool = FALSE],
                       blame, FALSE)
             \/ Record(p, "wait", "change", [a EXCEPT !.cool = TRUE],
                       <<snap[p].epoch, snap[p].availability>>, FALSE)
    /\ UNCHANGED calls

\* An outcome that says nothing about availability is counted and saved.
RecordNeutralResult(p) ==
    /\ pc[p] = "held"
    /\ resultMatchesCredential(snap[p])
    /\ Record(p, "wait", "neutral", [auth EXCEPT !.gen = @ + 1], blame, carried)
    /\ UNCHANGED calls

ResetQuota(p) ==
    /\ Call(p)
    /\ auth # None
    /\ LET n == 1 + Flag(auth.cool) IN
       Record(p, "wait", "change",
              [auth EXCEPT !.gen = @ + n, !.availability = @ + n,
                           !.cool = FALSE], blame, FALSE)

\* States of models that left the registry are dropped.
ReconcileModelStates(p) ==
    /\ Call(p)
    /\ auth # None
    /\ \/ Record(p, "wait", "change", auth, blame, carried)
       \/ \E c \in {auth.cool, FALSE} :
            Record(p, "wait", "change",
                   [auth EXCEPT !.gen = @ + 1, !.cool = c],
                   blame, carried /\ c)

\* A configuration that disables cooldowns; nothing durable changes.
ClearCooldown(p) ==
    /\ Call(p)
    /\ auth # None /\ auth.cool
    /\ Record(p, "upsert", "change",
              [auth EXCEPT !.gen = @ + 1, !.availability = @ + 1,
                           !.cool = FALSE], blame, FALSE)

\* The auto-refresh loop queues the credential; the scheduler is not told.
MarkRefreshPending(p) ==
    /\ Call(p)
    /\ auth # None /\ ~auth.off
    /\ Install([auth EXCEPT !.gen = @ + 1], blame, carried)
    /\ UNCHANGED <<epochs, storeVars, schedVars, opVars, backend, locks, token>>

RefreshSchedulerEntry(p) ==
    /\ pc[p] = "held"
    /\ Goto(p, "upsert")
    /\ UNCHANGED <<memVars, storeVars, schedVars, history, backend, locks,
                   token, calls, job, snap, skip, out>>

SyncScheduler(p) ==
    /\ Call(p)
    /\ rebuild
    /\ UNCHANGED <<memVars, storeVars, opVars, history, backend, locks, token>>

-----------------------------------------------------------------------------
(* Refresh and request preparation: the upstream is called with a clone of *)
(* the entry, under a lock of their own but not under m.mu.                *)

\* The base is read once the lock is held.
Enter(p, l) ==
    /\ locks[l] = None
    /\ auth # None /\ ~auth.off
    /\ locks' = [locks EXCEPT ![l] = p]
    /\ Become(p, "upstream", l, auth)
    /\ UNCHANGED <<memVars, storeVars, schedVars, history, backend, token, skip>>

\* The auto-refresh loop.
AutoRefresh(p) == Call(p) /\ Enter(p, "refresh")

\* A request got 401 with the token of its snapshot; if the token was
\* exchanged in the meantime, it takes that one and refreshes nothing.
RefreshForRequest(p) ==
    /\ pc[p] = "held"
    /\ Enter(p, "refresh")
    /\ auth.epoch = snap[p].epoch
    /\ auth.tok = snap[p].tok
    /\ UNCHANGED calls

PrepareRequestAuth(p) ==
    /\ pc[p] = "held"
    /\ Enter(p, "prepare")
    /\ auth.epoch = snap[p].epoch
    /\ UNCHANGED calls

\* The upstream answers with a new token or with none, refuses, or the call
\* is cancelled.
Upstream(p) ==
    /\ pc[p] = "upstream"
    /\ \/ \E t \in {snap[p].tok, token + 1} :
            /\ t <= MaxTokens
            /\ Input(t)
            /\ out' = [out EXCEPT ![p] = [snap[p] EXCEPT !.tok = t]]
            /\ Goto(p, "commit")
            /\ UNCHANGED <<locks, job, snap, skip>>
       \/ /\ job[p] = "refresh"
          /\ Goto(p, "failed")
          /\ UNCHANGED <<locks, token, job, snap, skip, out>>
       \/ /\ Return(p)
          /\ UNCHANGED token
    /\ UNCHANGED <<memVars, storeVars, schedVars, history, backend, calls>>

\* The error path of refreshAuthForRequest: the entry is changed and the
\* scheduler told under m.mu; nothing is saved.
RefreshFailed(p) ==
    /\ pc[p] = "failed"
    /\ LET b == snap[p]
           a == [auth EXCEPT !.gen = @ + 1]
           preserve == \/ b.availability # auth.availability
                       \/ b.cool # auth.cool \/ auth.cool
       IN IF ~sameCredentialSnapshot(b) \/ auth.off
          THEN UNCHANGED <<auth, schedVars, history>>
          ELSE \/ /\ Install(a, blame, carried)
                  /\ upsertAuth(a)
               \/ /\ ~preserve
                  /\ Install([a EXCEPT !.cool = TRUE],
                             <<b.epoch, b.availability>>, FALSE)
                  /\ upsertAuth([a EXCEPT !.cool = TRUE])
    /\ Return(p)
    /\ UNCHANGED <<epochs, storeVars, backend, token, calls>>

\* MergeRefreshedAuth and MergePreparedAuth take the token of the answer and
\* keep what others changed since the base, a cooldown included.
Merged(p, a, b) ==
    LET t == out[p].tok
        quiet == b.availability = a.availability /\ b.cool = a.cool
    IN Recovered(a, t, a.cool)
       \cup (IF job[p] = "refresh" /\ quiet THEN {FALSE} ELSE {})

\* UpdateRefreshedAuth and UpdatePreparedAuth.
CommitAnswer(p) ==
    /\ pc[p] = "commit"
    /\ pLock = None
    /\ sameCredentialSnapshot(snap[p])
    /\ \E c \in Merged(p, auth, snap[p]) :
         Commit(p, job[p], Updated(auth, out[p].tok, auth.note, auth.off, c),
                carried /\ c)
    /\ skip' = [skip EXCEPT ![p] = FALSE]
    /\ UNCHANGED <<token, calls>>

\* The registration or its credentials changed: the answer is dropped.
DropAnswer(p) ==
    /\ pc[p] = "commit"
    /\ pLock = None
    /\ ~sameCredentialSnapshot(snap[p])
    /\ Return(p)
    /\ UNCHANGED <<memVars, storeVars, schedVars, history, backend, token,
                   calls>>

\* Somebody puts a credential file into the directory.
WriteFile ==
    /\ backend = "file" /\ file = None
    /\ \E t \in 1..MaxTokens, n \in Notes :
         Input(t) /\ file' = [tok |-> t, note |-> n, off |-> FALSE]
    /\ dirty' = TRUE
    /\ gone' = FALSE
    /\ UNCHANGED <<memVars, pLock, lastEpoch, lastGen, schedVars, opVars,
                   backend, locks, calls, shownGen, blame, carried>>

-----------------------------------------------------------------------------
\* The steps of an operation that is under way.
Step(p) ==
    \/ Persist(p) \/ Save(p) \/ Upsert(p)
    \/ DeleteRecord(p) \/ Drop(p) \/ Tombstone(p)
    \/ Upstream(p) \/ RefreshFailed(p) \/ CommitAnswer(p) \/ DropAnswer(p)

\* What a goroutine can start, or do with the snapshot it holds.
Begin(p) ==
    \/ Look(p) \/ Leave(p) \/ Register(p) \/ Update(p) \/ Reload(p)
    \/ PatchAuth(p) \/ Remove(p) \/ Delete(p)
    \/ MarkResult(p) \/ RecordNeutralResult(p) \/ ResetQuota(p)
    \/ ReconcileModelStates(p) \/ ClearCooldown(p) \/ MarkRefreshPending(p)
    \/ RefreshSchedulerEntry(p) \/ SyncScheduler(p)
    \/ AutoRefresh(p) \/ RefreshForRequest(p) \/ PrepareRequestAuth(p)

Next == WriteFile \/ \E p \in Ops : Begin(p) \/ Step(p)

Spec == Init /\ [][Next]_vars

-----------------------------------------------------------------------------
(* Properties. *)

\* Types; an operation under way holds the snapshot of an entry that existed.
TypeOK ==
    /\ auth \in Auths \cup {None}
    /\ epochs \in Nat
    /\ pLock \in Ops \cup {None}
    /\ lastEpoch \in Nat /\ lastGen \in Nat
    /\ backend \in {"file", "other"}
    /\ file \in Records \cup {None}
    /\ schedEpoch \in Nat /\ schedGen \in Nat
    /\ sched \in Auths \cup {None}
    /\ locks \in [LockNames -> Ops \cup {None}]
    /\ pc \in [Ops -> Controls]
    /\ job \in [Ops -> Jobs]
    /\ snap \in [Ops -> Auths]
    /\ skip \in [Ops -> BOOLEAN]
    /\ out \in [Ops -> Auths]
    /\ token \in Nat /\ calls \in Nat
    /\ shownGen \in Nat
    /\ dirty \in BOOLEAN /\ gone \in BOOLEAN /\ carried \in BOOLEAN
    /\ blame \in Nat \X Nat

\* An operation that still has to tell the scheduler about its change.
Telling(p) ==
    \/ pc[p] \in {"wait", "persist", "save"} /\ job[p] # "neutral"
    \/ pc[p] \in {"upsert", "tombstone"}

\* The scheduler selects what the manager holds: once every operation has told
\* it, its entry shows the current registration, token, settings and cooldown,
\* and a removed or disabled credential has none, although the snapshots
\* arrive in any order (scheduler.go:604).
SchedulerCurrent ==
    (\A p \in Ops : ~Telling(p)) =>
        IF auth = None \/ auth.off
        THEN sched = None
        ELSE sched # None /\ View(sched) = View(auth)

\* The scheduler never goes back to an older registration or generation
\* (isStaleScheduledAuth, RecordRemovalTombstone).
SchedulerForward ==
    [][\/ schedEpoch' > schedEpoch
       \/ schedEpoch' = schedEpoch /\ schedGen' >= schedGen]_vars

Writing(p) == pc[p] \in {"wait", "persist", "save", "delete", "drop"}

\* No durable change is lost: once every writer is done, the store holds the
\* tokens, settings and flag of the current entry, unless a write failed or
\* was left out on request (persistAuthLocked: "Persist the latest state of
\* this registration instead of losing a durable update").
StoreCurrent ==
    /\ \A p \in Ops : ~Writing(p)
    /\ auth # None /\ file # None /\ ~dirty
    => file = Durable(auth)

\* A deleted credential stays deleted: no save that was under way, and no
\* refresh that returns late, writes its record again
\* ("rejects snapshots of removed/replaced registrations").
NoResurrection == gone => auth = None /\ file = None

\* A cooldown is the work of a request that started in the current
\* registration and after the last reset or change of the disabled flag
\* (conductor_cooldown.go:781), unless a file reload carried it over.
ResetHolds ==
    auth # None /\ auth.cool /\ ~carried
        => blame = <<auth.epoch, auth.availability>>

Busy(p) == pc[p] \notin {"idle", "held"}

\* A goroutine that holds the persistence, refresh or preparation lock has not
\* returned.
HoldersBusy ==
    /\ pLock # None => Busy(pLock)
    /\ \A l \in LockNames : locks[l] # None => Busy(locks[l])

\* Nobody waits for ever: every lock is given back, and while operations are under
\* way one of them can go on, whatever the store and the upstream answer.
LocksGivenBack ==
    /\ HoldersBusy
    /\ (\E p \in Ops : Busy(p)) => \E p \in Ops : ENABLED Step(p)
=============================================================================
