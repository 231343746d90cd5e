----------------------- MODULE CredentialCooldownBlocks -----------------------
(***************************************************************************)
(* The cooldown a failure asks for is kept, for every set of models,       *)
(* requests and failures, and for all durations: through later results,    *)
(* new tokens, refreshes, resets, saves, restarts and reloads.             *)
(***************************************************************************)
EXTENDS CredentialCooldownProofs

-----------------------------------------------------------------------------
(* No cooldown is lost.  A state that rests as long as the history asks is *)
(* changed only by the steps that lift what is owed, and the store holds a *)
(* record for everything that would be owed after a restart.               *)

Resting(c, w) == \A m \in Models : Owes(w[m]) =>
    c.models[m] # None /\ c.models[m].unavailable /\ Covers(c.models[m], w[m])

\* A failure after a request was sent shows in the state of its model.
Dated(a, c, w) == \A r \in Requests : a[r] # None =>
    LET m == a[r].model
        t == a[r].started
    IN  w[m].at > t => c.models[m] # None /\ c.models[m].updated > t

Past(w) == \A m \in Models : w[m].at <= now

Started(a) == \A r \in Requests : a[r] # None => a[r].started <= now

\* The records D of the store cover what is owed.
Recorded(D, w) == \A m \in Models : Owes(w[m]) => \E r \in D : r.model = m /\ Covers(r, w[m])

RecordedAll(D, a) ==
    a > now => \E r \in D : r.model = None /\ Spans(r.retry, RestoredQuota(r), a)

\* A failure on record and a credential wide quota are in the store as they are here.
Mirrored(D, c) ==
    /\ \A m \in Known(c) : Waiting(c.models[m]) /\ c.models[m].err # None =>
          \E r \in D : r.model = m /\ r.retry = c.models[m].retry /\ r.indep = c.models[m].indep
    /\ CredentialQuota(c) /\ c.retry > now =>
          \E r \in D : r.model = None /\ r.retry = c.retry /\ RestoredQuota(r) = c.quota

\* A failure after a request was sent shows in the record of its model.
DatedRecords(a, D, w) == \A r \in Requests : a[r] # None /\ w[a[r].model].at > a[r].started =>
    \A x \in D : x.model = a[r].model => x.updated > a[r].started

\* The inductive invariant.  In memory: what is owed is there.
InMemory == /\ Resting(cred, owed) /\ RestingAll(cred, owedAll) /\ Sound(cred)
            /\ Dated(attempts, cred, owed) /\ Past(owed) /\ Started(attempts)

\* In the store: what was saved, and everything when no change is left to save.
InStore == /\ Recorded(disk, saved.owed) /\ RecordedAll(disk, saved.all) /\ OneRecord(disk)
           /\ DatedRecords(attempts, disk, saved.owed) /\ Past(saved.owed)
           /\ durable => Recorded(disk, owed) /\ Mirrored(disk, cred)

Honours == Typed /\ InMemory /\ InStore

\* A step that sends no request.
OnlyAnswers == \A r \in Requests : attempts'[r] = None \/ attempts'[r] = attempts[r]

\* A state is kept, or stamped with the time of the step.
Stamped(s, t) == \/ t = s
                 \/ t # None /\ (t.updated = now \/ (s # None /\ t.updated = s.updated))

\* The invariant after a step within one instant.
MemoryNext == /\ Resting(cred', owed') /\ RestingAll(cred', owedAll') /\ Sound(cred')
              /\ Dated(attempts', cred', owed') /\ Past(owed') /\ Started(attempts')

StoreNext == /\ Recorded(disk', saved'.owed) /\ RecordedAll(disk', saved'.all) /\ OneRecord(disk')
             /\ DatedRecords(attempts', disk', saved'.owed) /\ Past(saved'.owed)
             /\ durable' => Recorded(disk', owed') /\ Mirrored(disk', cred')

\* A step that keeps what is owed in memory, model by model.
MemoryKept ==
    /\ now' = now /\ OnlyAnswers /\ Sound(cred') /\ RestingAll(cred', owedAll')
    /\ \A m \in Models :
          /\ Owes(owed'[m]) => /\ cred'.models[m] # None /\ cred'.models[m].unavailable
                               /\ Covers(cred'.models[m], owed'[m])
          /\ \/ owed'[m].at = 0
             \/ owed'[m].at = owed[m].at /\ Stamped(cred.models[m], cred'.models[m])
             \/ owed'[m].at = now /\ cred'.models[m] # None /\ cred'.models[m].updated = now

\* A step that leaves the store alone and keeps it complete, if it was.
StoreKept ==
    /\ now' = now /\ disk' = disk /\ saved' = saved /\ OnlyAnswers
    /\ durable' => /\ durable /\ Mirrored(disk, cred')
                   /\ \A m \in Models :
                        \/ Less(owed'[m], owed[m])
                        \/ Owes(owed'[m]) => \E r \in disk : r.model = m /\ Covers(r, owed'[m])

\* A step that touches nothing of the credential.
Idles == /\ now' = now /\ cred' = cred /\ owed' = owed /\ owedAll' = owedAll
         /\ attempts' = attempts /\ disk' = disk /\ saved' = saved
         /\ durable' => durable

\* A step after which nothing is owed.
Forgives == /\ now' = now /\ owedAll' = 0 /\ owed' = [m \in Models |-> NothingOwed]
            /\ attempts' = attempts /\ Sound(cred')

\* The end of updateInternal, with the credential c and perhaps a new token.  Without one
\* only the models in paid differ.
Renews(c, changed, paid) ==
    /\ now' = now /\ attempts' = attempts /\ disk' = disk /\ saved' = saved
    /\ Updated(c, changed) /\ Renewed(paid)
    /\ Relieves(cred, c) /\ Wide(cred, c) /\ NoWider(cred, c) /\ Sound(c)
    /\ \A m \in Models : m \in paid \/ (~changed /\ c.models[m] = cred.models[m])

-----------------------------------------------------------------------------
(* Frames: what the invariant says after a step, from what it says of each model. *)

\* Every relation stamps.
LEMMA RelationsStamp ==
    /\ \A s, t : Eased(s, t) => Lasts(s, t) /\ Stamped(s, t)
    /\ \A s, t : Lasts(s, t) => Stamped(s, t)
    /\ \A s, t : Relieved(s, t) => Stamped(s, t)
    /\ \A s : Lasts(s, s) /\ Stamped(s, s)
BY Zenon DEF Eased, Lasts, Stamped, Relieved

\* A step within one instant.
LEMMA AtOnce ==
    ASSUME now' = now
    PROVE  (MemoryNext => InMemory') /\ (StoreNext => InStore')
<1>1. Resting(cred', owed') => Resting(cred, owed)'
  BY Zenon DEF Resting, Owes, Covers
<1>2. RestingAll(cred', owedAll') => RestingAll(cred, owedAll)'
  BY Zenon DEF RestingAll, Spans
<1>3. Sound(cred') => Sound(cred)'
  BY Zenon DEF Sound, CredentialQuota
<1>4. Dated(attempts', cred', owed') => Dated(attempts, cred, owed)'
  BY Zenon DEF Dated
<1>5. /\ Past(owed') => Past(owed)'
      /\ Past(saved'.owed) => Past(saved.owed)'
      /\ Started(attempts') => Started(attempts)'
  BY Zenon DEF Past, Started
<1>6. /\ Recorded(disk', saved'.owed) => Recorded(disk, saved.owed)'
      /\ Recorded(disk', owed') => Recorded(disk, owed)'
  BY Zenon DEF Recorded, Owes, Covers
<1>7. RecordedAll(disk', saved'.all) => RecordedAll(disk, saved.all)'
  BY Zenon DEF RecordedAll, Spans, RestoredQuota
<1>8. OneRecord(disk') => OneRecord(disk)'
  BY Zenon DEF OneRecord
<1>9. DatedRecords(attempts', disk', saved'.owed) => DatedRecords(attempts, disk, saved.owed)'
  BY Zenon DEF DatedRecords
<1>10. Mirrored(disk', cred') => Mirrored(disk, cred)'
  BY Zenon DEF Mirrored, Known, Waiting, CredentialQuota, RestoredQuota
<1> QED
  BY Zenon, <1>1, <1>2, <1>3, <1>4, <1>5, <1>6, <1>7, <1>8, <1>9, <1>10 DEF InMemory, InStore,
         MemoryNext, StoreNext

\* The dates of the states survive a step that ends requests and stamps states.
LEMMA StampedDated ==
    ASSUME Honours, Typed', MemoryKept
    PROVE  Dated(attempts', cred', owed') /\ Past(owed') /\ Started(attempts')
<1> SUFFICES ASSUME Clock, attempts \in [Requests -> Attempts \cup {None}], OnlyAnswers,
                    owed \in [Models -> Debts], owed' \in [Models -> Debts],
                    Past(owed), Dated(attempts, cred, owed), Started(attempts),
                    \A m \in Models :
                       \/ owed'[m].at = 0
                       \/ owed'[m].at = owed[m].at /\ Stamped(cred.models[m], cred'.models[m])
                       \/ /\ owed'[m].at = now
                          /\ cred'.models[m] # None /\ cred'.models[m].updated = now
             PROVE  Dated(attempts', cred', owed') /\ Past(owed') /\ Started(attempts')
  BY Zenon DEF Honours, Typed, InMemory, MemoryKept
<1>1. now \in Nat /\ now > 0 /\ now >= 0 /\ now <= now
  <2>1. now \in Nat /\ now > 0
    BY Zenon, ClockIsNumber
  <2> QED
    BY <2>1
<1> USE <1>1
<1>2. Past(owed')
  <2>1. 0 <= now
    OBVIOUS
  <2> QED
    BY Zenon, <2>1 DEF Past
<1>3. Started(attempts')
  BY Zenon DEF Started, OnlyAnswers
<1>4. ASSUME NEW r \in Requests, attempts'[r] # None, owed'[attempts'[r].model].at > attempts'[r].started
      PROVE  cred'.models[attempts'[r].model] # None /\ cred'.models[attempts'[r].model].updated > attempts'[r].started
  <2> DEFINE m == attempts'[r].model
             t == attempts'[r].started
  <2>1. attempts'[r] = attempts[r] /\ attempts[r] \in Attempts
    BY Zenon, <1>4 DEF OnlyAnswers
  <2>2. m \in Models /\ t \in Times
    BY <2>1 DEF Attempts
  <2> USE <2>2
  <2>3. t \in Nat /\ owed[m].at \in Nat
    BY Zenon, TimesAreNumbers, DebtsType
  <2>4. owed'[m].at > t /\ owed[m].at <= now /\ t <= now
    BY Zenon, <1>3, <1>4 DEF Past, Started
  <2> USE <2>4
  <2>5. owed[m].at > t => cred.models[m] # None /\ cred.models[m].updated > t
    BY Zenon, <1>4, <2>1 DEF Dated
  <2> HIDE DEF m, t
  <2>6. owed'[m].at # 0
    <3>1. owed'[m].at \in Nat
      BY Zenon, TimesAreNumbers, DebtsType
    <3> QED
      BY <2>3, <3>1
  <2>7. CASE owed'[m].at = owed[m].at /\ Stamped(cred.models[m], cred'.models[m])
    <3>1. owed[m].at > t /\ now > t
      BY <2>3, <2>7
    <3> QED
      BY Zenon, <2>5, <2>7, <3>1 DEF Stamped, m, t
  <2>8. CASE owed'[m].at = now /\ cred'.models[m] # None /\ cred'.models[m].updated = now
    BY Zenon, <2>8 DEF m, t
  <2> QED
    BY Zenon, <2>6, <2>7, <2>8
<1>5. Dated(attempts', cred', owed')
  BY Zenon, <1>4 DEF Dated
<1> QED
  BY Zenon, <1>2, <1>3, <1>5

\* What the invariant says in memory after a step, from what it says of each model.
LEMMA MemoryFrame == ASSUME Honours, Typed', MemoryKept
                     PROVE  InMemory'
<1>1. Dated(attempts', cred', owed') /\ Past(owed') /\ Started(attempts')
  BY Zenon, StampedDated
<1>2. Resting(cred', owed') /\ RestingAll(cred', owedAll') /\ Sound(cred') /\ now' = now
  BY Zenon DEF Resting, MemoryKept
<1> QED
  BY Zenon, <1>1, <1>2, AtOnce DEF MemoryNext

\* What it says of the store after a step that leaves the store alone.
LEMMA StoreFrame == ASSUME Honours, StoreKept
                    PROVE  InStore'
<1> USE DEF StoreKept
<1>1. /\ Recorded(disk, saved.owed) /\ RecordedAll(disk, saved.all) /\ OneRecord(disk)
      /\ DatedRecords(attempts, disk, saved.owed) /\ Past(saved.owed)
      /\ durable => Recorded(disk, owed)
  BY Zenon DEF Honours, InStore
<1>2. DatedRecords(attempts', disk, saved.owed)
  BY Zenon, <1>1 DEF DatedRecords, OnlyAnswers
<1>3. durable' => Recorded(disk, owed')
  <2> SUFFICES ASSUME durable', NEW m \in Models, Owes(owed'[m])
               PROVE  \E r \in disk : r.model = m /\ Covers(r, owed'[m])
    BY Zenon DEF Recorded
  <2>1. CASE Less(owed'[m], owed[m])
    <3>1. Clock
      BY Zenon DEF Honours, Typed
    <3>2. Owes(owed[m]) /\ \A s : Covers(s, owed[m]) => Covers(s, owed'[m])
      BY Zenon, <2>1, <3>1, LessCovers
    <3> QED
      BY Zenon, <1>1, <3>2 DEF Recorded
  <2> QED
    BY Zenon, <2>1
<1>4. durable' => Mirrored(disk', cred')
  BY Zenon
<1>5. /\ Recorded(disk', saved'.owed) /\ RecordedAll(disk', saved'.all) /\ OneRecord(disk')
      /\ DatedRecords(attempts', disk', saved'.owed) /\ Past(saved'.owed)
      /\ durable' => Recorded(disk', owed')
  BY Zenon, <1>1, <1>2, <1>3
<1> QED
  BY Zenon, <1>4, <1>5, AtOnce DEF StoreNext

\* A model whose state lasts, and that is owed no more, rests.
LEMMA LastsResting ==
    ASSUME Honours, Typed', NEW m \in Models, Less(owed'[m], owed[m]),
           Lasts(cred.models[m], cred'.models[m]), Owes(owed'[m])
    PROVE  /\ cred'.models[m] # None /\ cred'.models[m].unavailable
           /\ Covers(cred'.models[m], owed'[m])
<1>1. /\ Clock /\ cred \in Credentials /\ cred' \in Credentials /\ owed[m] \in Debts
  BY Zenon DEF Honours, Typed
<1> USE <1>1
<1>2. cred.models[m] \in States \cup {None} /\ cred'.models[m] \in States \cup {None}
  BY Zenon, CredentialFields
<1>3. Owes(owed[m]) /\ \A s : Covers(s, owed[m]) => Covers(s, owed'[m])
  BY Zenon, LessCovers
<1>4. cred.models[m] # None /\ cred.models[m].unavailable /\ Covers(cred.models[m], owed[m])
  BY Zenon, <1>3 DEF Honours, InMemory, Resting
<1>5. /\ cred'.models[m] # None /\ cred'.models[m].unavailable
      /\ Covers(cred'.models[m], owed[m])
  BY Zenon, <1>2, <1>3, <1>4, LastsCovers
<1> QED
  BY Zenon, <1>3, <1>5

\* A change that leaves the records as they were leaves them complete.
LEMMA StoreMirrors ==
    ASSUME Honours, NEW c \in Credentials, Store(c), Sound(c), durable'
    PROVE  durable /\ cooling /\ Mirrored(disk, c)
<1>1. /\ durable /\ cooling
      /\ cooldownStateRecordsForAuth(cred, cooling) = cooldownStateRecordsForAuth(c, cooling)
  BY Zenon DEF Store
<1> USE <1>1
<1>2. Mirrored(disk, cred) /\ cred \in Credentials
  BY Zenon DEF Honours, InStore, Typed
<1>3. \A d : /\ \A m \in Known(d) : Waiting(d.models[m])
                  => ModelRecord(m, d.models[m]) \in cooldownStateRecordsForAuth(d, cooling)
             /\ d.unavailable /\ d.retry > now
                  => AuthRecord(d) \in cooldownStateRecordsForAuth(d, cooling)
             /\ \A r \in cooldownStateRecordsForAuth(d, cooling) :
                   \/ \E m \in Known(d) : Waiting(d.models[m]) /\ r = ModelRecord(m, d.models[m])
                   \/ d.unavailable /\ d.retry > now /\ r = AuthRecord(d)
  BY Zenon DEF cooldownStateRecordsForAuth
<1>4. /\ \A m, s : /\ ModelRecord(m, s).model = m /\ ModelRecord(m, s).retry = s.retry
                   /\ ModelRecord(m, s).indep = s.indep /\ ModelRecord(m, s).err = s.err
      /\ \A d : /\ AuthRecord(d).model = None /\ AuthRecord(d).retry = d.retry
                /\ AuthRecord(d).quota = d.quota
  BY DEF ModelRecord, AuthRecord
<1>5. None \notin Models
  BY Zenon, ConstantsOK
<1>6. ASSUME NEW m \in Known(c), Waiting(c.models[m]), c.models[m].err # None
      PROVE  \E r \in disk : r.model = m /\ r.retry = c.models[m].retry /\ r.indep = c.models[m].indep
  <2> DEFINE r == ModelRecord(m, c.models[m])
  <2>1. m \in Models /\ r \in cooldownStateRecordsForAuth(cred, cooling)
    BY Zenon, <1>3, <1>6 DEF Known
  <2>2. /\ r.model = m /\ r.retry = c.models[m].retry /\ r.indep = c.models[m].indep
        /\ r.err = c.models[m].err
    <3>1. r.model = m /\ r.retry = c.models[m].retry
      BY Zenon, <1>4
    <3>2. r.indep = c.models[m].indep /\ r.err = c.models[m].err
      BY Zenon, <1>4
    <3> QED
      BY Zenon, <3>1, <3>2
  <2> HIDE DEF r
  <2>3. r # AuthRecord(cred)
    <3>1. AuthRecord(cred).model = None
      BY Zenon, <1>4
    <3> QED
      BY Zenon, <1>5, <2>1, <2>2, <3>1
  <2>4. PICK x \in Known(cred) : Waiting(cred.models[x]) /\ r = ModelRecord(x, cred.models[x])
    BY Zenon, <1>3, <2>1, <2>3
  <2>5. /\ x = m /\ cred.models[x].retry = c.models[m].retry
        /\ cred.models[x].indep = c.models[m].indep /\ cred.models[x].err = c.models[m].err
    <3> DEFINE y == ModelRecord(x, cred.models[x])
    <3>1. /\ y.model = x /\ y.retry = cred.models[x].retry /\ y.indep = cred.models[x].indep
          /\ y.err = cred.models[x].err
      BY Zenon, <1>4
    <3>2. r = y
      BY Zenon, <2>4
    <3> HIDE DEF y
    <3> QED
      BY Zenon, <2>2, <3>1, <3>2
  <2>6. \E y \in disk : y.model = x /\ y.retry = cred.models[x].retry
                         /\ y.indep = cred.models[x].indep
    BY Zenon, <1>2, <1>6, <2>4, <2>5 DEF Mirrored
  <2> QED
    BY Zenon, <2>5, <2>6
<1>7. ASSUME CredentialQuota(c), c.retry > now
      PROVE  \E r \in disk : r.model = None /\ r.retry = c.retry /\ RestoredQuota(r) = c.quota
  <2>1. AuthRecord(c) \in cooldownStateRecordsForAuth(cred, cooling)
    BY Zenon, <1>3, <1>7 DEF Sound
  <2>2. \A x \in Known(cred) : AuthRecord(c) # ModelRecord(x, cred.models[x])
    <3> TAKE x \in Known(cred)
    <3>1. x \in Models /\ ModelRecord(x, cred.models[x]).model = x /\ AuthRecord(c).model = None
      BY Zenon, <1>4 DEF Known
    <3> QED
      BY Zenon, <1>5, <3>1
  <2>3. AuthRecord(c) = AuthRecord(cred)
    BY Zenon, <1>3, <2>1, <2>2
  <2>4. c.retry = cred.retry /\ c.quota = cred.quota
    BY Zenon, <1>4, <2>3
  <2> QED
    BY Zenon, <1>2, <1>7, <2>4 DEF Mirrored, CredentialQuota
<1> QED
  BY Zenon, <1>6, <1>7 DEF Mirrored

-----------------------------------------------------------------------------
(* Steps that touch little. *)

\* The end of a request.
LEMMA DoneEnds == ASSUME Typed, NEW r \in Requests, Done(r)
                  PROVE  OnlyAnswers
BY Zenon DEF Done, Typed, OnlyAnswers

\* A result that counts for nothing.
LEMMA NeutralHonours ==
    ASSUME Honours, NEW r \in Requests, Neutral(r)
    PROVE  InMemory' /\ InStore'
<1> DEFINE c == IF Bound(r) THEN [cred EXCEPT !.updated = now] ELSE cred
<1>1. /\ Store(c) /\ Done(r) /\ now' = now /\ disk' = disk /\ owed' = owed
      /\ owedAll' = owedAll /\ saved' = saved
  BY Zenon DEF Neutral
<1> USE <1>1
<1>2. Typed /\ Typed' /\ Clock /\ cred \in Credentials /\ owedAll \in Times
  BY Zenon, NeutralTypes DEF Honours, Typed
<1> USE <1>2
<1>3. Alike(cred, c) /\ c \in Credentials
  BY Zenon, AlikeCredentials, TouchedType
<1> USE <1>3
<1> HIDE DEF c
<1>4. Sound(cred) /\ RestingAll(cred, owedAll)
  BY Zenon DEF Honours, InMemory
<1>5. cred' = c /\ Sound(c) /\ Wide(cred, c) /\ c.models = cred.models
  BY Zenon, <1>4, AlikeSteps, WideSteps DEF Store, Alike
<1> USE <1>5
<1>6. RestingAll(cred', owedAll')
  BY Zenon, <1>4, WideSpans
<1>7. OnlyAnswers
  BY Zenon, DoneEnds
<1>8. \A m \in Models : /\ Less(owed'[m], owed[m]) /\ owed'[m].at = owed[m].at
                        /\ Lasts(cred.models[m], cred'.models[m])
                        /\ Stamped(cred.models[m], cred'.models[m])
  BY Zenon, LessCovers, RelationsStamp
<1>9. InMemory'
  BY Zenon, <1>6, <1>7, <1>8, LastsResting, MemoryFrame DEF MemoryKept
<1>10. InStore'
  <2>1. durable' => durable /\ Mirrored(disk, cred')
    BY Zenon, StoreMirrors
  <2> QED
    BY Zenon, <1>7, <1>8, <2>1, StoreFrame DEF StoreKept
<1> QED
  BY Zenon, <1>9, <1>10

\* A step that touches nothing of the credential.
LEMMA IdleHonours == ASSUME Honours, Typed', Idles
                     PROVE  InMemory' /\ InStore'
<1> USE DEF Idles
<1>1. Clock /\ Sound(cred) /\ RestingAll(cred, owedAll) /\ Resting(cred, owed)
  BY Zenon DEF Honours, InMemory, Typed
<1> USE <1>1
<1>2. OnlyAnswers
  BY Zenon DEF OnlyAnswers
<1>3. \A m \in Models : Less(owed'[m], owed[m]) /\ Stamped(cred.models[m], cred'.models[m])
  BY Zenon, LessCovers, RelationsStamp
<1>4. Sound(cred') /\ RestingAll(cred', owedAll')
  BY Zenon
<1>5. \A m \in Models :
        /\ Owes(owed'[m]) => /\ cred'.models[m] # None /\ cred'.models[m].unavailable
                             /\ Covers(cred'.models[m], owed'[m])
        /\ owed'[m].at = owed[m].at
  BY Zenon DEF Resting
<1>6. InMemory'
  BY Zenon, <1>2, <1>3, <1>4, <1>5, MemoryFrame DEF MemoryKept
<1>7. durable => Mirrored(disk, cred')
  BY Zenon DEF Honours, InStore
<1>8. InStore'
  BY Zenon, <1>2, <1>3, <1>7, StoreFrame DEF StoreKept
<1> QED
  BY Zenon, <1>6, <1>8

\* Time passes.
LEMMA TickHonours ==
    ASSUME Honours, Tick
    PROVE  InMemory' /\ InStore'
<1>1. /\ now' = now + 1 /\ cred' = cred /\ owed' = owed /\ owedAll' = owedAll /\ saved' = saved
      /\ attempts' = attempts /\ disk' = disk /\ durable' = durable
  BY Zenon DEF Tick
<1> USE <1>1
<1>2. /\ Typed /\ Clock /\ cred \in Credentials /\ owed \in [Models -> Debts] /\ saved \in Ledgers
      /\ owedAll \in Times /\ attempts \in [Requests -> Attempts \cup {None}]
      /\ disk \subseteq Records
  BY Zenon DEF Honours, Typed
<1> USE <1>2
<1>3. \A x \in Times : (x > now' => x > now) /\ (x <= now => x <= now')
  <2>1. now \in Nat
    BY Zenon, ClockIsNumber
  <2>2. \A x \in Nat : (x > now + 1 => x > now) /\ (x <= now => x <= now + 1)
    BY <2>1
  <2> QED
    BY Zenon, <2>2, TimesAreNumbers
<1>4. saved.owed \in [Models -> Debts] /\ saved.all \in Times
  BY DEF Ledgers
<1> USE <1>4
<1>5. \A o \in Debts : /\ o.any > now' => o.any > now
                       /\ o.token > now' => o.token > now
                       /\ o.at <= now => o.at <= now'
  BY Zenon, <1>3, DebtsType
<1>6. Resting(cred, owed) /\ RestingAll(cred, owedAll) /\ Sound(cred)
  BY Zenon DEF Honours, InMemory
<1> USE <1>6
<1>7. Dated(attempts, cred, owed) /\ Past(owed) /\ Started(attempts)
  BY Zenon DEF Honours, InMemory
<1> USE <1>7
<1>8. Resting(cred, owed)'
  <2> SUFFICES ASSUME NEW m \in Models, owed[m].any > now' \/ owed[m].token > now'
               PROVE  /\ cred.models[m] # None /\ cred.models[m].unavailable
                      /\ owed[m].any > now' => /\ cred.models[m].retry >= owed[m].any
                                               /\ cred.models[m].indep >= owed[m].any
                      /\ owed[m].token > now' => cred.models[m].retry >= owed[m].token
    BY Zenon DEF Resting, Owes, Covers
  <2>1. owed[m] \in Debts
    BY Zenon
  <2> QED
    BY Zenon, <1>5, <2>1 DEF Resting, Owes, Covers
<1>9. RestingAll(cred, owedAll)'
  BY Zenon, <1>3 DEF RestingAll, Spans
<1>10. ASSUME CredentialQuota(cred)' PROVE CredentialQuota(cred)
  <2>1. cred.quota.recover \in Times
    BY Zenon, CredentialFields, QuotaFields
  <2> QED
    BY Zenon, <1>3, <1>10, <2>1 DEF CredentialQuota
<1>11. Sound(cred)'
  BY Zenon, <1>10 DEF Sound
<1>12. Dated(attempts, cred, owed)'
  BY Zenon DEF Dated
<1>13. Past(owed)' /\ Past(saved.owed)'
  <2>1. Past(saved.owed)
    BY Zenon DEF Honours, InStore
  <2> QED
    BY Zenon, <1>5, <2>1 DEF Past
<1>14. Started(attempts)'
  <2>1. \A a \in Attempts : a.started \in Times
    BY DEF Attempts
  <2> QED
    BY Zenon, <1>3, <2>1 DEF Started
<1>15. InMemory'
  BY Zenon, <1>8, <1>9, <1>11, <1>12, <1>13, <1>14 DEF InMemory
<1>16. ASSUME NEW w \in [Models -> Debts], Recorded(disk, w), NEW m \in Models,
              w[m].any > now' \/ w[m].token > now'
       PROVE  \E r \in disk : /\ r.model = m
                              /\ w[m].any > now' => r.retry >= w[m].any /\ r.indep >= w[m].any
                              /\ w[m].token > now' => r.retry >= w[m].token
  <2>1. w[m] \in Debts
    BY Zenon
  <2>2. Owes(w[m])
    BY Zenon, <1>5, <1>16, <2>1 DEF Owes
  <2>3. PICK r \in disk : r.model = m /\ Covers(r, w[m])
    BY Zenon, <1>16, <2>2 DEF Recorded
  <2> QED
    BY Zenon, <1>5, <2>1, <2>3 DEF Covers
<1>17. /\ Recorded(disk, saved.owed) /\ RecordedAll(disk, saved.all) /\ OneRecord(disk)
       /\ DatedRecords(attempts, disk, saved.owed)
       /\ durable => Recorded(disk, owed) /\ Mirrored(disk, cred)
  BY Zenon DEF Honours, InStore
<1>18. Recorded(disk, saved.owed)' /\ (durable => Recorded(disk, owed)')
  <2> DEFINE Later(w) == \A m \in Models : w[m].any > now' \/ w[m].token > now' =>
                \E r \in disk : /\ r.model = m
                                /\ w[m].any > now' => r.retry >= w[m].any /\ r.indep >= w[m].any
                                /\ w[m].token > now' => r.retry >= w[m].token
  <2>1. \A w \in [Models -> Debts] : Recorded(disk, w) => Later(w)
    BY Zenon, <1>16
  <2>2. Later(saved.owed) /\ (durable => Later(owed))
    <3> HIDE DEF Later
    <3> QED
      BY Zenon, <1>17, <2>1
  <2>3. Recorded(disk, saved.owed)'
    BY Zenon, <2>2 DEF Recorded, Owes, Covers
  <2>4. durable => Recorded(disk, owed)'
    BY Zenon, <2>2 DEF Recorded, Owes, Covers
  <2> QED
    BY Zenon, <2>3, <2>4
<1>19. RecordedAll(disk, saved.all)'
  BY Zenon, <1>3, <1>17 DEF RecordedAll, Spans, RestoredQuota
<1>20. OneRecord(disk)' /\ DatedRecords(attempts, disk, saved.owed)'
  BY Zenon, <1>17 DEF OneRecord, DatedRecords
<1>21. durable => Mirrored(disk, cred)'
  <2> SUFFICES ASSUME durable PROVE Mirrored(disk, cred)'
    BY Zenon
  <2>1. \A m \in Known(cred) : Waiting(cred.models[m])' => Waiting(cred.models[m])
    <3> SUFFICES ASSUME NEW m \in Known(cred), Waiting(cred.models[m])'
                 PROVE  Waiting(cred.models[m])
      BY Zenon
    <3>1. cred.models[m].retry \in Times
      BY Zenon, CredentialFields, StateFields
    <3> QED
      BY Zenon, <1>3, <3>1 DEF Waiting
  <2>2. cred.retry > now' => cred.retry > now
    BY Zenon, <1>3, CredentialFields
  <2>3. Known(cred)' = Known(cred)
    BY Zenon DEF Known
  <2>4. ASSUME NEW m \in Known(cred), Waiting(cred.models[m])', cred.models[m].err # None
        PROVE  \E r \in disk : /\ r.model = m /\ r.retry = cred.models[m].retry
                               /\ r.indep = cred.models[m].indep
    BY Zenon, <1>17, <2>1, <2>4 DEF Mirrored
  <2>5. CredentialQuota(cred)' /\ cred.retry > now' =>
          \E r \in disk : r.model = None /\ r.retry = cred.retry /\ RestoredQuota(r) = cred.quota
    BY Zenon, <1>10, <1>17, <2>2 DEF Mirrored
  <2> QED
    BY Zenon, <2>3, <2>4, <2>5 DEF Mirrored, RestoredQuota
<1>22. InStore'
  BY Zenon, <1>13, <1>18, <1>19, <1>20, <1>21 DEF InStore
<1> QED
  BY Zenon, <1>15, <1>22

\* A request is sent: no failure is later than now.
LEMMA SendHonours ==
    ASSUME Honours, NEW q \in Requests, NEW n \in Models, Send(q, n)
    PROVE  InMemory' /\ InStore'
<1> DEFINE a == [model |-> n, started |-> now, epoch |-> cred.epoch, version |-> cred.version]
<1>1. /\ now' = now /\ cred' = cred /\ owed' = owed /\ owedAll' = owedAll /\ saved' = saved
      /\ attempts' = [attempts EXCEPT ![q] = a] /\ disk' = disk /\ durable' = durable
  BY Zenon DEF Send
<1>2. Clock /\ attempts \in [Requests -> Attempts \cup {None}] /\ owed \in [Models -> Debts]
  BY Zenon DEF Honours, Typed
<1> USE <1>2
<1>3. \A r \in Requests : attempts'[r] = IF r = q THEN a ELSE attempts[r]
  BY Zenon, <1>1
<1>4. a.model = n /\ a.started = now
  OBVIOUS
<1> USE <1>4
<1> HIDE DEF a
<1>5. \A x \in Times : x <= now => ~ (x > now)
  <2>1. now \in Nat
    BY Zenon, ClockIsNumber
  <2>2. \A x \in Nat : x <= now => ~ (x > now)
    BY <2>1
  <2> QED
    BY Zenon, <2>2, TimesAreNumbers
<1>6. /\ Resting(cred, owed) /\ RestingAll(cred, owedAll) /\ Sound(cred)
      /\ Dated(attempts, cred, owed) /\ Past(owed) /\ Started(attempts)
  BY Zenon DEF Honours, InMemory
<1> USE <1>6
<1>7. /\ Recorded(disk, saved.owed) /\ RecordedAll(disk, saved.all) /\ OneRecord(disk)
      /\ DatedRecords(attempts, disk, saved.owed) /\ Past(saved.owed)
      /\ durable => Recorded(disk, owed) /\ Mirrored(disk, cred)
  BY Zenon DEF Honours, InStore
<1>8. ~ (owed[n].at > now) /\ ~ (saved.owed[n].at > now)
  <2>1. owed[n] \in Debts
    BY Zenon
  <2>2. saved.owed[n] \in Debts
    BY DEF Honours, Typed, Ledgers
  <2> QED
    BY Zenon, <1>5, <1>7, <2>1, <2>2, DebtsType DEF Past
<1>9. Dated(attempts', cred, owed) /\ DatedRecords(attempts', disk, saved.owed)
  <2>1. ASSUME NEW r \in Requests, attempts'[r] # None,
               owed[attempts'[r].model].at > attempts'[r].started
        PROVE  /\ cred.models[attempts'[r].model] # None
               /\ cred.models[attempts'[r].model].updated > attempts'[r].started
    <3>1. r # q
      BY Zenon, <1>3, <1>8, <2>1
    <3>2. attempts'[r] = attempts[r]
      BY Zenon, <1>3, <3>1
    <3> QED
      BY Zenon, <2>1, <3>2 DEF Dated
  <2>2. ASSUME NEW r \in Requests, attempts'[r] # None,
               saved.owed[attempts'[r].model].at > attempts'[r].started,
               NEW x \in disk, x.model = attempts'[r].model
        PROVE  x.updated > attempts'[r].started
    <3>1. r # q
      BY Zenon, <1>3, <1>8, <2>2
    <3>2. attempts'[r] = attempts[r]
      BY Zenon, <1>3, <3>1
    <3> QED
      BY Zenon, <1>7, <2>2, <3>2 DEF DatedRecords
  <2>3. Dated(attempts', cred, owed)
    BY Zenon, <2>1 DEF Dated
  <2>4. DatedRecords(attempts', disk, saved.owed)
    BY Zenon, <2>2 DEF DatedRecords
  <2> QED
    BY Zenon, <2>3, <2>4
<1>10. Started(attempts')
  <2>1. now <= now
    BY ClockIsNumber
  <2> QED
    BY Zenon, <1>3, <2>1 DEF Started
<1>11. InMemory'
  BY Zenon, <1>1, <1>9, <1>10, AtOnce DEF MemoryNext
<1>12. InStore'
  BY Zenon, <1>1, <1>7, <1>9, AtOnce DEF StoreNext
<1> QED
  BY Zenon, <1>11, <1>12

\* Nothing is owed after the step.
LEMMA NothingRests == ASSUME Honours, Typed', Forgives
                      PROVE  InMemory' /\ \A m \in Models : Less(owed'[m], owed[m])
<1> USE DEF Forgives
<1>1. Clock
  BY Zenon DEF Honours, Typed
<1>2. RestingAll(cred', owedAll')
  <2>1. now \in Nat /\ now > 0
    BY Zenon, <1>1, ClockIsNumber
  <2>2. ~ (0 > now)
    BY <2>1
  <2> QED
    BY Zenon, <2>2 DEF RestingAll
<1>3. \A m \in Models : owed'[m] = NothingOwed
  BY Zenon
<1>4. \A m \in Models : ~Owes(owed'[m]) /\ owed'[m].at = 0 /\ Less(owed'[m], owed[m])
  BY Zenon, <1>1, <1>3, LessCovers
<1>5. OnlyAnswers
  BY Zenon DEF OnlyAnswers
<1> QED
  BY Zenon, <1>2, <1>4, <1>5, MemoryFrame DEF MemoryKept

\* The quota of a credential is reset.
LEMMA ResetHonours ==
    ASSUME Honours, ResetQuota
    PROVE  InMemory' /\ InStore'
<1> DEFINE ms == [m \in Models |-> IF cred.models[m] = None THEN None ELSE Reset]
           c == [cred EXCEPT !.models = ms]
           e == clearCooldownStateForAuth(c)
           f == updateAggregatedAvailability(e)
           d == Settled(f)
           g == [d EXCEPT !.epoch = @ + 1, !.updated = now]
<1>1. /\ Store(g) /\ now' = now /\ owedAll' = 0 /\ owed' = [m \in Models |-> NothingOwed]
      /\ attempts' = attempts /\ disk' = disk /\ saved' = saved
  BY Zenon DEF ResetQuota
<1>2. Typed /\ Typed' /\ Clock /\ cred \in Credentials /\ cred' = g /\ cred' \in Credentials
  BY Zenon, <1>1, AdminTypes DEF Honours, Typed, Store
<1> USE <1>2
<1>3. c \in Credentials
  <2>1. ms \in [Models -> States \cup {None}]
    BY Zenon, ResetType
  <2> HIDE DEF ms
  <2> QED
    BY <2>1 DEF Credentials
<1> HIDE DEF c
<1>4. e \in Credentials
  BY Zenon, <1>3, ClearCooldownType
<1> HIDE DEF e
<1>5. f \in Credentials /\ Sound(f)
  BY Zenon, <1>4, AggregateType, AggregateRests
<1> HIDE DEF f
<1>6. d \in Credentials /\ Alike(f, d)
  BY Zenon, <1>5, SettledType, AlikeCredentials
<1> HIDE DEF d
<1>7. Alike(d, g)
  BY Zenon, <1>6, AlikeCredentials
<1> HIDE DEF g
<1>8. Sound(g)
  BY Zenon, <1>5, <1>6, <1>7, AlikeSteps
<1>9. InMemory' /\ \A m \in Models : Less(owed'[m], owed[m])
  BY Zenon, <1>1, <1>8, NothingRests DEF Forgives
<1>10. durable' => durable /\ Mirrored(disk, cred')
  BY Zenon, <1>1, <1>8, StoreMirrors
<1>11. OnlyAnswers
  BY Zenon, <1>1 DEF OnlyAnswers
<1>12. InStore'
  BY Zenon, <1>1, <1>9, <1>10, <1>11, StoreFrame DEF StoreKept
<1> QED
  BY Zenon, <1>9, <1>12

\* Cooldowns are switched on or off.
LEMMA ConfigHonours ==
    ASSUME Honours, NEW on \in BOOLEAN, SetConfig(on)
    PROVE  InMemory' /\ InStore'
<1> DEFINE c == clearCooldownStateForAuth(cred)
<1>1. /\ now' = now /\ attempts' = attempts /\ disk' = disk /\ saved' = saved
      /\ \/ cred' = cred /\ durable' = durable /\ owed' = owed /\ owedAll' = owedAll
         \/ /\ cred' = c /\ durable' = FALSE /\ owed' = [m \in Models |-> NothingOwed]
            /\ owedAll' = 0
  BY Zenon DEF SetConfig
<1>2. Typed /\ Typed' /\ Clock /\ cred \in Credentials
  BY Zenon, AdminTypes DEF Honours, Typed
<1> USE <1>2
<1>3. ~CredentialQuota(c)
  BY Zenon, ClearCooldownRests
<1> HIDE DEF c
<1>4. CASE cred' = cred /\ durable' = durable /\ owed' = owed /\ owedAll' = owedAll
  BY Zenon, <1>1, <1>4, IdleHonours DEF Idles
<1>5. CASE /\ cred' = c /\ durable' = FALSE /\ owed' = [m \in Models |-> NothingOwed]
           /\ owedAll' = 0
  <2>1. Sound(cred')
    BY Zenon, <1>3, <1>5 DEF Sound
  <2>2. InMemory'
    BY Zenon, <1>1, <1>5, <2>1, NothingRests DEF Forgives
  <2>3. OnlyAnswers
    BY Zenon, <1>1 DEF OnlyAnswers
  <2>4. InStore'
    BY Zenon, <1>1, <1>5, <2>3, StoreFrame DEF StoreKept
  <2> QED
    BY Zenon, <2>2, <2>4
<1> QED
  BY Zenon, <1>1, <1>4, <1>5

\* The models the registry knows: a state that rests is not an expired one.
LEMMA ReconcileHonours ==
    ASSUME Honours, NEW S \in SUBSET Models, Reconcile(S)
    PROVE  InMemory' /\ InStore'
<1> DEFINE Expired(s) == ~modelStateIsClean(s) /\ ~isModelStateActiveCooldown(s)
           ms == [m \in Models |->
                    IF m \notin Known(cred) \cap S THEN None
                    ELSE IF Expired(cred.models[m]) THEN Reset ELSE cred.models[m]]
           b == [cred EXCEPT !.models = ms]
           f == updateAggregatedAvailability(b)
           c == Settled(f)
           e == [c EXCEPT !.updated = now]
           g == IF ms = cred.models THEN cred ELSE e
<1>1. /\ Store(g) /\ now' = now /\ attempts' = attempts /\ disk' = disk /\ saved' = saved
      /\ owedAll' = owedAll /\ owed' = [m \in Models |-> IF m \in S THEN owed[m] ELSE NothingOwed]
  BY Zenon DEF Reconcile
<1>2. /\ Typed /\ Typed' /\ Clock /\ cred \in Credentials /\ cred' = g /\ cred' \in Credentials
      /\ owedAll \in Times
  BY Zenon, <1>1, AdminTypes DEF Honours, Typed, Store
<1> USE <1>2
<1>3. Sound(cred) /\ RestingAll(cred, owedAll)
  BY Zenon DEF Honours, InMemory
<1>4. ms \in [Models -> States \cup {None}]
  <2>1. Reset \in States
    BY Zenon, ResetType
  <2>2. \A m \in Models : cred.models[m] \in States \cup {None}
    BY Zenon, CredentialFields
  <2>3. \A m \in Models : ms[m] \in States \cup {None}
    BY Zenon, <2>1, <2>2
  <2> QED
    BY Zenon, <2>3
<1>5. \A m \in S : Eased(cred.models[m], ms[m])
  <2> SUFFICES ASSUME NEW m \in S PROVE Eased(cred.models[m], ms[m])
    BY Zenon
  <2>0. m \in Models
    BY Zenon
  <2> USE <2>0
  <2>1. CASE m \notin Known(cred)
    <3>1. ms[m] = None /\ cred.models[m] = None
      BY Zenon, <2>1 DEF Known
    <3> QED
      BY Zenon, <3>1 DEF Eased
  <2>2. CASE m \in Known(cred) /\ ~Expired(cred.models[m])
    <3>1. ms[m] = cred.models[m]
      BY Zenon, <2>2
    <3> QED
      BY Zenon, <3>1 DEF Eased
  <2>3. CASE m \in Known(cred) /\ Expired(cred.models[m])
    <3>1. ms[m] = Reset
      BY Zenon, <2>3
    <3>2. cred.models[m] # None /\ ~Waiting(cred.models[m])
      BY Zenon, <2>3 DEF Known, isModelStateActiveCooldown, Waiting
    <3>3. Reset # None /\ ~Reset.unavailable /\ Reset.updated = now
      BY Zenon, ResetRests
    <3> HIDE DEF ms
    <3> QED
      BY Zenon, <3>1, <3>2, <3>3 DEF Eased
  <2> QED
    BY Zenon, <2>1, <2>2, <2>3
<1> HIDE DEF ms
<1>6. /\ b \in Credentials /\ b.models = ms /\ b.quota = cred.quota /\ b.retry = cred.retry
      /\ b.unavailable = cred.unavailable
  BY <1>4 DEF Credentials
<1> USE <1>6
<1> HIDE DEF b
<1>7. f \in Credentials /\ Eases(b, f) /\ Wide(b, f) /\ Sound(f)
  BY Zenon, AggregateType, AggregateRests
<1> HIDE DEF f
<1>8. c \in Credentials /\ Alike(f, c)
  BY Zenon, <1>7, SettledType, AlikeCredentials
<1> HIDE DEF c
<1>9. e \in Credentials /\ Alike(c, e)
  BY Zenon, <1>8, AlikeCredentials, TouchedType
<1> HIDE DEF e
<1>10. Eases(b, e) /\ Wide(b, e) /\ Sound(e)
  BY Zenon, <1>7, <1>8, <1>9, AlikeSteps
<1> USE <1>10
<1>11. Wide(cred, e)
  BY Zenon DEF Wide, CredentialQuota
<1>12. \A m \in S : Eased(cred.models[m], e.models[m])
  BY Zenon, <1>5, EasedSteps DEF Eases
<1>13. /\ Sound(g) /\ Wide(cred, g)
       /\ \A m \in S : Lasts(cred.models[m], g.models[m]) /\ Stamped(cred.models[m], g.models[m])
  BY Zenon, <1>3, <1>11, <1>12, WideSteps, RelationsStamp
<1> HIDE DEF g
<1>14. RestingAll(cred', owedAll')
  BY Zenon, <1>1, <1>3, <1>13, WideSpans
<1>15. OnlyAnswers
  BY Zenon, <1>1 DEF OnlyAnswers
<1>16. \A m \in Models :
         /\ Less(owed'[m], owed[m])
         /\ m \in S => owed'[m] = owed[m]
         /\ m \notin S => ~Owes(owed'[m]) /\ owed'[m].at = 0
  <2> SUFFICES ASSUME NEW m \in Models
               PROVE  /\ Less(owed'[m], owed[m])
                      /\ m \in S => owed'[m] = owed[m]
                      /\ m \notin S => ~Owes(owed'[m]) /\ owed'[m].at = 0
    BY Zenon
  <2>1. owed'[m] = IF m \in S THEN owed[m] ELSE NothingOwed
    BY Zenon, <1>1
  <2> QED
    BY Zenon, <2>1, LessCovers
<1>17. InMemory'
  <2>1. \A m \in Models :
          /\ Owes(owed'[m]) => /\ cred'.models[m] # None /\ cred'.models[m].unavailable
                               /\ Covers(cred'.models[m], owed'[m])
          /\ owed'[m].at = 0 \/ (owed'[m].at = owed[m].at /\ Stamped(cred.models[m], cred'.models[m]))
    <3> TAKE m \in Models
    <3>1. CASE m \in S
      BY Zenon, <1>13, <1>16, <3>1, LastsResting
    <3>2. CASE m \notin S
      BY Zenon, <1>16, <3>2
    <3> QED
      BY Zenon, <3>1, <3>2
  <2> QED
    BY Zenon, <1>1, <1>13, <1>14, <1>15, <2>1, MemoryFrame DEF MemoryKept
<1>18. InStore'
  <2>1. durable' => durable /\ Mirrored(disk, cred')
    BY Zenon, <1>1, <1>13, StoreMirrors
  <2> QED
    BY Zenon, <1>1, <1>15, <1>16, <2>1, StoreFrame DEF StoreKept
<1> QED
  BY Zenon, <1>17, <1>18

\* A success: it resets the state of its model only if nothing is owed that is later than
\* its request.
LEMMA SuccessHonours ==
    ASSUME Honours, NEW r \in Requests, MarkSuccess(r)
    PROVE  InMemory' /\ InStore'
<1> DEFINE m == attempts[r].model
           t == attempts[r].started
           d == Succeeded(cred, m, t)
           c == [d EXCEPT !.updated = now]
           s == StateOf(cred, m)
<1>1. /\ Store(c) /\ Done(r) /\ now' = now /\ disk' = disk /\ saved' = saved
      /\ owedAll' = owedAll /\ attempts[r] # None
      /\ owed' = IF owedAll > now \/ owed[m].at > t THEN owed
                 ELSE [owed EXCEPT ![m] = Lifted(@, s, t)]
  BY Zenon DEF MarkSuccess
<1>2. /\ Typed /\ Typed' /\ Clock /\ cred \in Credentials /\ owedAll \in Times
      /\ attempts[r] \in Attempts /\ owed \in [Models -> Debts]
  BY Zenon, <1>1, NeutralTypes DEF Honours, Typed
<1> USE <1>2
<1>3. m \in Models /\ t \in Times
  BY DEF Attempts
<1> USE <1>3
<1>4. Sound(cred) /\ RestingAll(cred, owedAll) /\ Dated(attempts, cred, owed)
  BY Zenon DEF Honours, InMemory
<1> USE <1>4
<1>5. (owed[m].at > t) => cred.models[m] # None /\ cred.models[m].updated > t
  BY Zenon, <1>1 DEF Dated
<1> HIDE DEF m, t
<1>6. d \in Credentials
  BY Zenon, SucceededType
<1>7. /\ Wide(cred, d) /\ Sound(d)
      /\ \/ d = cred
         \/ /\ ~CredentialQuota(cred)
            /\ resultMayClearModelState(s, t)
            /\ \A x \in Models : x # m => Eased(cred.models[x], d.models[x])
            /\ d.models[m] # None /\ ~d.models[m].unavailable /\ d.models[m].updated = now
  BY Zenon, SucceededRests DEF SucceedsTo
<1> HIDE DEF d
<1>8. Alike(d, c) /\ c \in Credentials
  BY Zenon, <1>6, AlikeCredentials, TouchedType
<1> USE <1>8
<1> HIDE DEF c
<1>9. cred' = c /\ c.models = d.models /\ Sound(c) /\ Wide(cred, c)
  BY Zenon, <1>1, <1>7, AlikeSteps DEF Store, Alike
<1> USE <1>9
<1>10. RestingAll(cred', owedAll')
  BY Zenon, <1>1, WideSpans
<1>11. OnlyAnswers
  BY Zenon, <1>1, DoneEnds
<1>12. \A x \in Models : /\ Less(owed'[x], owed[x])
                         /\ x # m => owed'[x] = owed[x]
                         /\ owed'[x].at = 0 \/ owed'[x].at = owed[x].at
  <2>1. CASE owed' = owed
    BY Zenon, <2>1, LessCovers
  <2>2. CASE owed' = [owed EXCEPT ![m] = Lifted(@, s, t)]
    <3> DEFINE l == Lifted(owed[m], s, t)
    <3>1. l.any = 0 /\ l.token = 0 /\ l.at = 0
      BY Zenon, LiftedType
    <3> HIDE DEF l
    <3>2. \A x \in Models : owed'[x] = IF x = m THEN l ELSE owed[x]
      BY Zenon, <2>2 DEF l
    <3> QED
      BY Zenon, <3>1, <3>2, LessCovers DEF Less
  <2> QED
    BY Zenon, <1>1, <2>1, <2>2
<1>13. ASSUME d # cred PROVE ~Owes(owed'[m])
  <2>1. ~CredentialQuota(cred) /\ resultMayClearModelState(s, t)
    BY Zenon, <1>7, <1>13
  <2>2. ~ (owedAll > now)
    BY Zenon, <2>1, SpansQuota
  <2>3. CASE owed[m].at > t
    <3> SUFFICES ASSUME Owes(owed'[m]) PROVE FALSE
      BY Zenon
    <3>1. Owes(owed[m]) /\ owed[m] \in Debts
      BY Zenon, <1>1, <2>3
    <3>2. s = cred.models[m] /\ s \in States /\ s.updated > t
      BY Zenon, <1>5, <2>3, CredentialFields DEF StateOf
    <3> USE <3>2
    <3>3. s.unavailable /\ Covers(s, owed[m])
      BY Zenon, <3>1 DEF Honours, InMemory, Resting
    <3> HIDE DEF s
    <3>4. s.retry \in Times /\ s.quota.recover \in Times
      BY Zenon, StateFields, QuotaFields
    <3>5. s.retry > now
      BY Zenon, <3>1, <3>3, <3>4, CoversWaits
    <3>6. /\ Latest({s.retry, s.quota.recover}) >= s.retry /\ s.retry \in Nat /\ now \in Nat
          /\ Latest({s.retry, s.quota.recover}) \in Nat /\ now > 0
      BY Zenon, <3>4, LaterOfTwo, TimesAreNumbers, ClockIsNumber
    <3>7. Latest({s.retry, s.quota.recover}) > now /\ Latest({s.retry, s.quota.recover}) # 0
      <4> DEFINE l == Latest({s.retry, s.quota.recover})
      <4> HIDE DEF l
      <4>1. l >= s.retry /\ l \in Nat
        BY Zenon, <3>6 DEF l
      <4>2. l > now /\ l # 0
        BY <3>5, <3>6, <4>1
      <4> QED
        BY Zenon, <4>2 DEF l
    <3>8. modelAvailabilityBlock(s) # 0
      BY Zenon, <3>3, <3>7 DEF modelAvailabilityBlock, availabilityBlock
    <3>9. s.updated # 0 /\ ~ (s.updated <= t)
      <4>1. s.updated \in Nat /\ t \in Nat
        BY Zenon, StateNumbers, TimesAreNumbers
      <4> QED
        BY <4>1
    <3> QED
      BY Zenon, <2>1, <3>8, <3>9 DEF resultMayClearModelState
  <2>4. CASE ~ (owed[m].at > t)
    <3> DEFINE l == Lifted(owed[m], s, t)
    <3>1. l.any = 0 /\ l.token = 0
      BY Zenon, LiftedType
    <3> HIDE DEF l
    <3>2. owed'[m] = l
      BY Zenon, <1>1, <2>2, <2>4 DEF l
    <3> QED
      BY Zenon, <3>1, <3>2, LessCovers
  <2> QED
    BY Zenon, <2>3, <2>4
<1>14. \A x \in Models : /\ Stamped(cred.models[x], cred'.models[x])
                         /\ Lasts(cred.models[x], cred'.models[x]) \/ ~Owes(owed'[x])
  <2>1. CASE d = cred
    BY Zenon, <2>1, RelationsStamp
  <2>2. CASE d # cred
    BY Zenon, <1>7, <1>13, <2>2, RelationsStamp DEF Stamped
  <2> QED
    BY Zenon, <2>1, <2>2
<1>15. InMemory'
  BY Zenon, <1>1, <1>10, <1>11, <1>12, <1>14, LastsResting, MemoryFrame DEF MemoryKept
<1>16. InStore'
  <2>1. durable' => durable /\ Mirrored(disk, cred')
    BY Zenon, <1>1, StoreMirrors
  <2> QED
    BY Zenon, <1>1, <1>11, <1>12, <2>1, StoreFrame DEF StoreKept
<1> QED
  BY Zenon, <1>15, <1>16

-----------------------------------------------------------------------------
(* New tokens. *)

\* The end of updateInternal: a refreshed token pays for the 401s it was refused with.
LEMMA RenewHonours ==
    ASSUME Honours, Typed', NEW c \in Credentials, NEW changed \in BOOLEAN, NEW paid,
           Renews(c, changed, paid)
    PROVE  InMemory' /\ InStore'
<1> USE DEF Renews
<1> DEFINE e == IF changed THEN WithNewToken(c) ELSE [c EXCEPT !.updated = now]
<1>1. Typed /\ Clock /\ cred \in Credentials /\ cred' \in Credentials /\ owedAll \in Times
  BY Zenon DEF Honours, Typed
<1> USE <1>1
<1>2. RestingAll(cred, owedAll) /\ Resting(cred, owed) /\ (durable => Mirrored(disk, cred))
  BY Zenon DEF Honours, InMemory, InStore
<1>3. /\ e \in Credentials /\ Sound(e) /\ Wide(c, e) /\ Relieves(c, e)
      /\ ~changed \/ ~Recovers(c) => Alike(c, e)
  <2>1. WithNewToken(c) \in Credentials /\ [c EXCEPT !.updated = now] \in Credentials
    BY Zenon, NewTokenType, TouchedType
  <2>2. CASE changed
    BY Zenon, <2>1, <2>2, NewTokenRests
  <2>3. CASE ~changed
    <3> DEFINE d == [c EXCEPT !.updated = now]
    <3>1. e = d /\ d \in Credentials /\ Alike(c, d)
      BY Zenon, <2>1, <2>3, AlikeCredentials
    <3> USE <3>1
    <3> HIDE DEF d, e
    <3>2. Wide(c, d)
      BY Zenon, WideSteps
    <3>3. Sound(d) /\ Relieves(c, d)
      BY Zenon, AlikeSteps, EasedSteps
    <3> QED
      BY Zenon, <3>2, <3>3
  <2> QED
    BY Zenon, <2>2, <2>3
<1>4. \A m \in Models : m \in paid \/ e.models[m] = cred.models[m]
  BY Zenon, <1>3 DEF Alike
<1>5. /\ cred' = IF cooling THEN e ELSE clearCooldownStateForAuth(e)
      /\ durable' => durable /\ (~changed \/ ~Recovers(c))
  BY Zenon DEF Updated, Kept
<1> HIDE DEF e
<1>6. Wide(cred, e) /\ Relieves(cred, e)
  BY Zenon, <1>3, WideSteps, RelievedSteps
<1>7. OnlyAnswers
  BY Zenon DEF OnlyAnswers
<1> USE <1>7
<1>8. ASSUME NEW m \in Models
      PROVE  /\ Less(owed'[m], owed[m])
             /\ cooling => owed'[m].at = owed[m].at
             /\ cooling /\ m \notin paid => owed'[m] = owed[m]
             /\ cooling /\ m \in paid /\ StateOf(cred, m).err = "unauthorized" => owed'[m].token = 0
  <2> DEFINE o == owed[m]
             p == [o EXCEPT !.token = 0]
             hit == m \in paid /\ StateOf(cred, m).err = "unauthorized"
  <2>1. owed'[m] = IF ~cooling THEN NothingOwed ELSE IF hit THEN p ELSE o
    BY Zenon DEF Renewed
  <2>2. o \in Debts
    BY Zenon DEF Typed
  <2> HIDE DEF o, hit
  <2>3. p.any = o.any /\ p.token = 0 /\ p.at = o.at
    BY <2>2 DEF Debts
  <2> HIDE DEF p
  <2>4. Less(p, o) /\ Less(o, o) /\ Less(NothingOwed, o)
    BY Zenon, <2>2, <2>3, LessCovers DEF Less
  <2> QED
    BY Zenon, <2>1, <2>3, <2>4 DEF o, hit
<1>9. CASE ~cooling
  <2>1. /\ ~CredentialQuota(cred')
        /\ \A m \in Models : cred'.models[m] = None \/ ~cred'.models[m].unavailable
    BY Zenon, <1>3, <1>5, <1>9, ClearCooldownRests
  <2>2. owedAll' = 0 /\ Sound(cred')
    BY Zenon, <1>9, <2>1 DEF Renewed, Sound
  <2>3. owed' = [m \in Models |-> NothingOwed]
    BY Zenon, <1>9 DEF Renewed
  <2>4. InMemory'
    BY Zenon, <2>2, <2>3, NothingRests DEF Forgives
  <2>5. Mirrored(disk, cred')
    BY Zenon, <2>1 DEF Mirrored, Known, Waiting
  <2>6. InStore'
    BY Zenon, <1>5, <1>8, <2>5, StoreFrame DEF StoreKept
  <2> QED
    BY Zenon, <2>4, <2>6
<1>10. CASE cooling
  <2>1. cred' = e /\ owedAll' = owedAll
    BY Zenon, <1>5, <1>10 DEF Renewed
  <2> USE <2>1
  <2>2. RestingAll(cred', owedAll')
    BY Zenon, <1>2, <1>3, <1>6, WideSpans
  <2>3. ASSUME NEW m \in Models
        PROVE  /\ Owes(owed'[m]) => /\ cred'.models[m] # None /\ cred'.models[m].unavailable
                                    /\ Covers(cred'.models[m], owed'[m])
               /\ owed'[m].at = owed[m].at /\ Stamped(cred.models[m], cred'.models[m])
    <3> DEFINE s == cred.models[m]
               t == cred'.models[m]
               o == owed[m]
               p == owed'[m]
    <3>1. /\ s \in States \cup {None} /\ t \in States \cup {None} /\ o \in Debts /\ p \in Debts
          /\ Relieved(s, t) /\ Less(p, o) /\ p.at = o.at
      <4>1. s \in States \cup {None} /\ t \in States \cup {None}
        BY Zenon, CredentialFields
      <4>2. o \in Debts
        BY Zenon DEF Typed
      <4>3. p \in Debts
        BY Zenon DEF Typed
      <4>4. Relieved(s, t)
        BY Zenon, <1>6 DEF Relieves
      <4> QED
        BY Zenon, <1>10, <4>1, <4>2, <4>3, <4>4, <1>8
    <3> USE <3>1
    <3>2. Stamped(s, t)
      BY Zenon, RelationsStamp
    <3>3. Owes(o) => s # None /\ s.unavailable /\ Covers(s, o)
      BY Zenon, <1>2 DEF Resting
    <3>4. CASE m \in paid
      <4>1. s # None /\ s.err = "unauthorized" => p.token = 0
        BY Zenon, <1>10, <3>4, <1>8 DEF StateOf
      <4>2. Owes(p) => Owes(o)
        BY Zenon, LessCovers
      <4> HIDE DEF s, t, o, p
      <4>3. Owes(p) => t # None /\ t.unavailable /\ Covers(t, p)
        BY Zenon, <3>3, <4>1, <4>2, RelievedCovers
      <4> QED
        BY Zenon, <3>2, <4>3 DEF s, t, o, p
    <3>5. CASE m \notin paid
      <4>1. t = s
        BY Zenon, <1>4, <3>5
      <4>2. p = o
        BY Zenon, <1>10, <3>5, <1>8
      <4> QED
        BY Zenon, <3>2, <3>3, <4>1, <4>2
    <3> QED
      BY Zenon, <3>4, <3>5
  <2>4. InMemory'
    BY Zenon, <1>3, <2>2, <2>3, MemoryFrame DEF MemoryKept
  <2>5. ASSUME durable' PROVE durable /\ Mirrored(disk, cred')
    <3>1. durable /\ Alike(c, e) /\ Mirrored(disk, cred)
      BY Zenon, <1>2, <1>3, <1>5, <2>5
    <3> USE <3>1
    <3>2. ASSUME NEW m \in Known(e), Waiting(e.models[m]), e.models[m].err # None
          PROVE  \E r \in disk : /\ r.model = m /\ r.retry = e.models[m].retry
                                 /\ r.indep = e.models[m].indep
      <4>1. m \in Models /\ Relieved(cred.models[m], e.models[m]) /\ e.models[m] # None
        BY Zenon, <3>2 DEF Known, Alike, Relieves
      <4>2. e.models[m] = cred.models[m]
        BY Zenon, <3>2, <4>1 DEF Relieved, Waiting
      <4>3. m \in Known(cred) /\ Waiting(cred.models[m]) /\ cred.models[m].err # None
        BY Zenon, <3>2, <4>1, <4>2 DEF Known
      <4>4. \E r \in disk : /\ r.model = m /\ r.retry = cred.models[m].retry
                            /\ r.indep = cred.models[m].indep
        BY Zenon, <4>3 DEF Mirrored
      <4> QED
        BY Zenon, <4>2, <4>4
    <3>3. ASSUME CredentialQuota(e), e.retry > now
          PROVE  \E r \in disk : r.model = None /\ r.retry = e.retry /\ RestoredQuota(r) = e.quota
      <4>1. e.quota = cred.quota /\ e.retry = cred.retry
        <5>1. e.quota = c.quota /\ e.retry = c.retry
          BY Zenon DEF Alike
        <5>2. CredentialQuota(c)
          BY Zenon, <3>3, <5>1 DEF CredentialQuota
        <5> QED
          BY Zenon, <5>1, <5>2 DEF NoWider
      <4>2. CredentialQuota(cred) /\ cred.retry > now
        BY Zenon, <3>3, <4>1 DEF CredentialQuota
      <4>3. \E r \in disk : r.model = None /\ r.retry = cred.retry /\ RestoredQuota(r) = cred.quota
        BY Zenon, <4>2 DEF Mirrored
      <4> QED
        BY Zenon, <4>1, <4>3
    <3>4. Mirrored(disk, e)
      BY Zenon, <3>2, <3>3 DEF Mirrored
    <3> QED
      BY Zenon, <3>4
  <2>6. InStore'
    BY Zenon, <1>8, <2>5, StoreFrame DEF StoreKept
  <2> QED
    BY Zenon, <2>4, <2>6
<1> QED
  BY Zenon, <1>9, <1>10

\* The credential is replaced.
LEMMA ReplaceHonours ==
    ASSUME Honours, NEW changed \in BOOLEAN, Replace(changed)
    PROVE  InMemory' /\ InStore'
<1> DEFINE c == Incoming(cred)
           paid == IF changed THEN Models ELSE {}
<1>1. /\ now' = now /\ attempts' = attempts /\ disk' = disk /\ saved' = saved
      /\ Updated(c, changed) /\ Renewed(paid)
  BY Zenon DEF Replace
<1>2. Typed /\ Typed' /\ Clock /\ cred \in Credentials /\ Sound(cred)
  BY Zenon, AdminTypes DEF Honours, Typed, InMemory
<1> USE <1>2
<1>3. c \in Credentials
  BY Zenon, IncomingType
<1>4. c.models = cred.models /\ Wide(cred, c) /\ NoWider(cred, c) /\ Sound(c)
  BY Zenon, IncomingRests
<1>5. \A m \in Models : m \in paid \/ (~changed /\ c.models[m] = cred.models[m])
  BY Zenon, <1>4
<1> HIDE DEF c, paid
<1>6. Relieves(cred, c)
  BY Zenon, <1>4, EasedSteps
<1> QED
  BY Zenon, <1>1, <1>3, <1>4, <1>5, <1>6, RenewHonours DEF Renews

\* A refresh ends.
LEMMA RefreshHonours ==
    ASSUME Honours, NEW changed \in BOOLEAN, RefreshEnd(changed)
    PROVE  InMemory' /\ InStore'
<1> DEFINE c == MergeRefreshedAuth(refresh, cred)
           paid == {m \in Models : changed \/ Unaltered(refresh, cred, m)}
<1>1. /\ now' = now /\ attempts' = attempts /\ disk' = disk /\ saved' = saved
      /\ refresh # None
  BY Zenon DEF RefreshEnd
<1>2. /\ Typed /\ Typed' /\ Clock /\ cred \in Credentials /\ Sound(cred)
      /\ refresh \in Credentials
  BY Zenon, <1>1, RefreshTypes DEF Honours, Typed, InMemory
<1> USE <1>2
<1>3. CASE refresh.version # cred.version
  <2>1. cred' = cred /\ owed' = owed /\ owedAll' = owedAll /\ durable' = durable
    BY Zenon, <1>3 DEF RefreshEnd
  <2> QED
    BY Zenon, <1>1, <2>1, IdleHonours DEF Idles
<1>4. CASE ~ (refresh.version # cred.version)
  <2>1. Updated(c, changed) /\ Renewed(paid)
    BY Zenon, <1>4 DEF RefreshEnd
  <2>2. c \in Credentials
    BY Zenon, MergeRefreshedType
  <2>3. /\ Relieves(cred, c) /\ Wide(cred, c) /\ NoWider(cred, c) /\ Sound(c)
        /\ \A m \in Models : Unaltered(refresh, cred, m) \/ c.models[m] = cred.models[m]
    BY Zenon, MergeRefreshedRests
  <2>4. \A m \in Models : m \in paid \/ (~changed /\ c.models[m] = cred.models[m])
    BY Zenon, <2>3
  <2> HIDE DEF c, paid
  <2> QED
    BY Zenon, <1>1, <2>1, <2>2, <2>3, <2>4, RenewHonours DEF Renews
<1> QED
  BY Zenon, <1>3, <1>4

\* A refresh fails.
LEMMA RefreshFailHonours ==
    ASSUME Honours, NEW x \in Kinds \cup {None}, NEW valid \in BOOLEAN, RefreshFail(x, valid)
    PROVE  InMemory' /\ InStore'
<1>1. /\ now' = now /\ attempts' = attempts /\ disk' = disk /\ saved' = saved
      /\ owed' = owed /\ owedAll' = owedAll /\ durable' = durable
  BY Zenon DEF RefreshFail
<1>2. /\ cred'.models = cred.models /\ cred'.quota = cred.quota /\ cred'.retry = cred.retry
      /\ cred.unavailable => cred'.unavailable
  BY Zenon, RefreshFailTypes DEF Honours
<1>3. /\ Resting(cred, owed) /\ RestingAll(cred, owedAll) /\ Sound(cred)
      /\ Dated(attempts, cred, owed) /\ Past(owed) /\ Started(attempts)
  BY Zenon DEF Honours, InMemory
<1>4. Resting(cred', owed') /\ Dated(attempts', cred', owed')
  BY Zenon, <1>1, <1>2, <1>3 DEF Resting, Dated
<1>5. RestingAll(cred', owedAll') /\ Sound(cred')
  BY Zenon, <1>1, <1>2, <1>3 DEF RestingAll, Sound, CredentialQuota
<1>6. InMemory'
  BY Zenon, <1>1, <1>3, <1>4, <1>5, AtOnce DEF MemoryNext
<1>7. /\ Recorded(disk, saved.owed) /\ RecordedAll(disk, saved.all) /\ OneRecord(disk)
      /\ DatedRecords(attempts, disk, saved.owed) /\ Past(saved.owed)
      /\ durable => Recorded(disk, owed) /\ Mirrored(disk, cred)
  BY Zenon DEF Honours, InStore
<1>8. Mirrored(disk, cred) => Mirrored(disk, cred')
  <2> SUFFICES ASSUME Mirrored(disk, cred) PROVE Mirrored(disk, cred')
    BY Zenon
  <2>1. ASSUME NEW m \in Known(cred'), Waiting(cred'.models[m]), cred'.models[m].err # None
        PROVE  \E r \in disk : /\ r.model = m /\ r.retry = cred'.models[m].retry
                               /\ r.indep = cred'.models[m].indep
    <3>1. m \in Known(cred) /\ cred'.models[m] = cred.models[m]
      BY Zenon, <1>2 DEF Known
    <3>2. Waiting(cred.models[m]) /\ cred.models[m].err # None
      BY Zenon, <2>1, <3>1
    <3>3. \E r \in disk : /\ r.model = m /\ r.retry = cred.models[m].retry
                          /\ r.indep = cred.models[m].indep
      BY Zenon, <3>1, <3>2 DEF Mirrored
    <3> QED
      BY Zenon, <3>1, <3>3
  <2>2. ASSUME CredentialQuota(cred'), cred'.retry > now
        PROVE  \E r \in disk : r.model = None /\ r.retry = cred'.retry /\ RestoredQuota(r) = cred'.quota
    <3>1. CredentialQuota(cred) /\ cred.retry > now
      BY Zenon, <1>2, <2>2 DEF CredentialQuota
    <3>2. \E r \in disk : r.model = None /\ r.retry = cred.retry /\ RestoredQuota(r) = cred.quota
      BY Zenon, <3>1 DEF Mirrored
    <3> QED
      BY Zenon, <1>2, <3>2
  <2> QED
    BY Zenon, <2>1, <2>2 DEF Mirrored
<1>9. InStore'
  BY Zenon, <1>1, <1>7, <1>8, AtOnce DEF StoreNext
<1> QED
  BY Zenon, <1>6, <1>9

-----------------------------------------------------------------------------
(* Saves and failures. *)

\* The records are saved, or are not.
LEMMA SaveHonours ==
    ASSUME Honours, Save
    PROVE  InMemory' /\ InStore'
<1>1. /\ now' = now /\ cred' = cred /\ owed' = owed /\ owedAll' = owedAll /\ attempts' = attempts
      /\ \/ /\ disk' = cooldownStateRecordsForAuth(cred, cooling) /\ durable' = cooling
            /\ saved' = IF cooling THEN [owed |-> owed, all |-> owedAll] ELSE NothingSaved
         \/ durable' = FALSE /\ disk' = disk /\ saved' = saved
  BY Zenon DEF Save
<1>2. /\ Clock /\ cred \in Credentials /\ owed \in [Models -> Debts] /\ owedAll \in Times
      /\ cooling \in BOOLEAN /\ attempts \in [Requests -> Attempts \cup {None}]
  BY Zenon DEF Honours, Typed
<1> USE <1>2
<1>3. /\ Resting(cred, owed) /\ RestingAll(cred, owedAll) /\ Sound(cred)
      /\ Dated(attempts, cred, owed) /\ Past(owed) /\ Started(attempts)
  BY Zenon DEF Honours, InMemory
<1> USE <1>3
<1>4. InMemory'
  BY Zenon, <1>1, AtOnce DEF MemoryNext
<1> USE <1>4
<1>5. CASE durable' = FALSE /\ disk' = disk /\ saved' = saved
  <2>1. OnlyAnswers
    BY Zenon, <1>1 DEF OnlyAnswers
  <2>2. InStore'
    BY Zenon, <1>1, <1>5, <2>1, StoreFrame DEF StoreKept
  <2> QED
    BY Zenon, <2>2
<1>6. CASE disk' = cooldownStateRecordsForAuth(cred, cooling) /\ ~cooling /\ durable' = cooling
           /\ saved' = NothingSaved
  <2>1. disk' = {}
    BY Zenon, <1>6 DEF cooldownStateRecordsForAuth
  <2>2. saved'.all = 0 /\ \A m \in Models : saved'.owed[m] = NothingOwed
    BY <1>6 DEF NothingSaved
  <2>3. 0 <= now /\ ~ (0 > now)
    BY ClockIsNumber
  <2>4. \A m \in Models : ~Owes(saved'.owed[m]) /\ saved'.owed[m].at = 0
    BY Zenon, <2>2, LessCovers
  <2>5. Recorded(disk', saved'.owed) /\ RecordedAll(disk', saved'.all) /\ Past(saved'.owed)
    BY Zenon, <2>2, <2>3, <2>4 DEF Recorded, RecordedAll, Past
  <2>6. OneRecord(disk') /\ DatedRecords(attempts', disk', saved'.owed)
    BY Zenon, <2>1 DEF OneRecord, DatedRecords
  <2>7. InStore'
    BY Zenon, <1>1, <1>6, <2>5, <2>6, AtOnce DEF StoreNext
  <2> QED
    BY Zenon, <2>7
<1>7. CASE disk' = cooldownStateRecordsForAuth(cred, cooling) /\ cooling
           /\ saved' = [owed |-> owed, all |-> owedAll]
  <2> DEFINE D == cooldownStateRecordsForAuth(cred, TRUE)
  <2>1. /\ \A m \in Known(cred) : Waiting(cred.models[m]) => ModelRecord(m, cred.models[m]) \in D
        /\ cred.unavailable /\ cred.retry > now => AuthRecord(cred) \in D
        /\ \A r \in D : \/ r.model \in Models /\ r = ModelRecord(r.model, cred.models[r.model])
                        \/ r.model = None /\ r = AuthRecord(cred)
        /\ CredentialQuota(cred) => RestoredQuota(AuthRecord(cred)) = cred.quota
    BY Zenon, RecordsRest DEF Snapshot
  <2>2. disk' = D /\ saved'.owed = owed /\ saved'.all = owedAll
    <3>1. cooling = TRUE
      BY Zenon, <1>7
    <3>2. saved'.owed = owed /\ saved'.all = owedAll
      BY <1>7
    <3> QED
      BY Zenon, <1>7, <3>1, <3>2
  <2> HIDE DEF D
  <2>3. \A m, s : /\ ModelRecord(m, s).model = m /\ ModelRecord(m, s).retry = s.retry
                  /\ ModelRecord(m, s).indep = s.indep /\ ModelRecord(m, s).updated = s.updated
    BY DEF ModelRecord
  <2>4. AuthRecord(cred).model = None /\ AuthRecord(cred).retry = cred.retry
    BY DEF AuthRecord
  <2>5. OneRecord(D)
    <3>1. None \notin Models
      BY ConstantsOK
    <3> QED
      BY Zenon, <2>1, <3>1 DEF OneRecord
  <2>6. Recorded(D, owed)
    <3> SUFFICES ASSUME NEW m \in Models, Owes(owed[m])
                 PROVE  \E r \in D : r.model = m /\ Covers(r, owed[m])
      BY Zenon DEF Recorded
    <3> DEFINE s == cred.models[m]
    <3>1. s # None /\ s.unavailable /\ Covers(s, owed[m]) /\ m \in Known(cred)
      BY Zenon DEF Resting, Known
    <3> USE <3>1
    <3>2. s.retry \in Times /\ owed[m] \in Debts
      BY Zenon, CredentialFields, StateFields
    <3>3. s.retry > now
      BY Zenon, <3>2, CoversWaits
    <3>4. ModelRecord(m, s) \in D
      BY Zenon, <2>1, <3>3 DEF Waiting
    <3>5. Covers(ModelRecord(m, s), owed[m])
      BY Zenon, <2>3 DEF Covers
    <3> QED
      BY Zenon, <2>3, <3>4, <3>5
  <2>7. RecordedAll(D, owedAll)
    <3> SUFFICES ASSUME owedAll > now
                 PROVE  \E r \in D : r.model = None /\ Spans(r.retry, RestoredQuota(r), owedAll)
      BY Zenon DEF RecordedAll
    <3>1. CredentialQuota(cred) /\ cred.unavailable /\ cred.retry > now
      BY Zenon, SpansQuota
    <3>2. Spans(cred.retry, cred.quota, owedAll)
      BY Zenon DEF RestingAll
    <3> QED
      BY Zenon, <2>1, <2>4, <3>1, <3>2
  <2>8. DatedRecords(attempts, D, owed)
    <3> SUFFICES ASSUME NEW r \in Requests, attempts[r] # None,
                        owed[attempts[r].model].at > attempts[r].started,
                        NEW x \in D, x.model = attempts[r].model
                 PROVE  x.updated > attempts[r].started
      BY Zenon DEF DatedRecords
    <3>1. attempts[r] \in Attempts
      BY Zenon
    <3>2. attempts[r].model \in Models /\ None \notin Models
      BY <3>1, ConstantsOK DEF Attempts
    <3>3. x = ModelRecord(x.model, cred.models[x.model])
      BY Zenon, <2>1, <3>2
    <3>4. x.updated = cred.models[attempts[r].model].updated
      <4> DEFINE s == cred.models[x.model]
      <4>1. x = ModelRecord(x.model, s)
        BY Zenon, <3>3
      <4> HIDE DEF s
      <4>2. x.updated = s.updated
        BY Zenon, <2>3, <4>1
      <4> QED
        BY Zenon, <4>2 DEF s
    <3> QED
      BY Zenon, <3>4 DEF Dated
  <2>9. Mirrored(D, cred)
    <3>1. ASSUME NEW m \in Known(cred), Waiting(cred.models[m])
          PROVE  \E r \in D : /\ r.model = m /\ r.retry = cred.models[m].retry
                              /\ r.indep = cred.models[m].indep
      <4>1. ModelRecord(m, cred.models[m]) \in D
        BY Zenon, <2>1, <3>1
      <4>2. /\ ModelRecord(m, cred.models[m]).model = m
            /\ ModelRecord(m, cred.models[m]).retry = cred.models[m].retry
            /\ ModelRecord(m, cred.models[m]).indep = cred.models[m].indep
        BY Zenon, <2>3
      <4> QED
        BY Zenon, <4>1, <4>2
    <3>2. ASSUME CredentialQuota(cred), cred.retry > now
          PROVE  \E r \in D : /\ r.model = None /\ r.retry = cred.retry
                              /\ RestoredQuota(r) = cred.quota
      BY Zenon, <2>1, <2>4, <3>2 DEF Sound
    <3> QED
      BY Zenon, <3>1, <3>2 DEF Mirrored
  <2>10. InStore'
    BY Zenon, <1>1, <2>2, <2>5, <2>6, <2>7, <2>8, <2>9, AtOnce DEF StoreNext
  <2> QED
    BY Zenon, <2>10
<1> QED
  BY Zenon, <1>1, <1>5, <1>6, <1>7

\* A failure.
LEMMA FailureHonours ==
    ASSUME Honours, NEW r \in Requests, NEW kind \in Kinds, NEW hint \in Hints \cup {None},
           MarkFailure(r, kind, hint)
    PROVE  InMemory' /\ InStore'
<1> DEFINE m == attempts[r].model
           on == cooling \/ kind = "forced"
           d == Asked(m, kind, hint, on)
           f == Failed(cred, m, kind, hint, on)
           c == [f EXCEPT !.updated = now]
           s == StateOf(cred, m)
           q == QuotaForFailure(cred, m, kind)
           o == owed[m]
           p == Owing(o, kind, d)
           t == f.models[m]
<1>1. /\ Store(c) /\ Done(r) /\ now' = now /\ disk' = disk /\ saved' = saved /\ attempts[r] # None
      /\ owed' = [x \in Models |->
                    IF x = m THEN Owing(owed[x], kind, d)
                    ELSE IF kind = "credential" /\ x \in Known(cred) THEN Reached(owed[x], d)
                    ELSE owed[x]]
      /\ owedAll' = IF kind = "credential" THEN Latest({owedAll, d}) ELSE owedAll
  BY Zenon DEF MarkFailure
<1>2. Typed /\ Typed'
  BY Zenon, FailureTypes DEF Honours
<1> USE <1>2
<1>3. /\ Clock /\ cred \in Credentials /\ owedAll \in Times /\ attempts[r] \in Attempts
      /\ owed \in [Models -> Debts] /\ on \in BOOLEAN /\ owed' \in [Models -> Debts]
      /\ owedAll' \in Times
  BY Zenon, <1>1 DEF Typed
<1> USE <1>3
<1>4. m \in Models
  BY DEF Attempts
<1> USE <1>4
<1>5. Sound(cred) /\ RestingAll(cred, owedAll) /\ Resting(cred, owed)
  BY Zenon DEF Honours, InMemory
<1> USE <1>5
<1> HIDE DEF m, on
<1>6. f \in Credentials /\ d \in Times /\ s \in States /\ o \in Debts
  BY Zenon, FailedType, AskedType, CredentialFields
<1> USE <1>6
<1>7. /\ Sound(f)
      /\ t # None /\ t.updated = now
      /\ \A x \in Models : x # m => Lasts(cred.models[x], f.models[x])
      /\ d # 0 /\ (d > now \/ Waiting(s)) =>
           /\ t.unavailable /\ t.err = kind /\ t.retry >= d
           /\ Waiting(s) => t.retry >= s.retry
           /\ t.indep >= s.indep
           /\ kind # "unauthorized" => t.indep >= d
      /\ kind # "credential" \/ (d = 0 /\ ~on) => Wide(cred, f)
      /\ kind = "credential" /\ on =>
           \A a \in Times : a > now /\ (d >= a \/ q.recover >= a)
               => f.unavailable /\ Spans(f.retry, f.quota, a)
  <2>1. FailureRests(f, d, s, q, m, kind, on)
    BY Zenon, FailedRests
  <2> QED
    BY Zenon, <2>1 DEF FailureRests
<1>8. kind = "credential" /\ d # 0 => on
  <2>1. kind = "credential" => kind \in {"quota", "credential"}
    BY Zenon
  <2> QED
    BY Zenon, <2>1, AskedRests
<1> HIDE DEF f, d
<1>9. Alike(f, c) /\ c \in Credentials
  BY Zenon, AlikeCredentials, TouchedType
<1> USE <1>9
<1> HIDE DEF c
<1>10. cred' = c /\ c.models = f.models /\ c.quota = f.quota /\ c.retry = f.retry
       /\ c.unavailable = f.unavailable /\ Sound(c)
  BY Zenon, <1>1, <1>7, AlikeSteps DEF Store, Alike
<1> USE <1>10
<1>11. RestingAll(cred', owedAll')
  <2>1. Wide(cred, f) => RestingAll(c, owedAll)
    BY Zenon, AlikeSteps, WideSpans
  <2>2. CASE kind # "credential"
    <3>1. owedAll' = owedAll /\ Wide(cred, f)
      <4>1. owedAll' = owedAll
        BY Zenon, <1>1, <2>2
      <4>2. Wide(cred, f)
        BY <1>7, <2>2
      <4> QED
        BY Zenon, <4>1, <4>2
    <3> QED
      BY Zenon, <2>1, <3>1
  <2>3. CASE kind = "credential"
    <3> DEFINE a == owedAll'
    <3>1. a \in {owedAll, d} /\ a \in Times
      BY Zenon, <1>1, <2>3, LaterOfTwo
    <3> USE <3>1
    <3> HIDE DEF a
    <3> SUFFICES ASSUME a > now PROVE c.unavailable /\ Spans(c.retry, c.quota, a)
      BY Zenon DEF RestingAll, a
    <3>2. now \in Nat /\ now > 0 /\ a \in Nat
      BY Zenon, ClockIsNumber, TimesAreNumbers
    <3>3. a # 0 /\ a >= a
      BY <3>2
    <3>4. CASE on
      <4>1. a = owedAll => q.recover >= a
        <5> SUFFICES ASSUME a = owedAll PROVE q.recover >= a
          BY Zenon
        <5>1. CredentialQuota(cred) /\ cred.quota.recover >= a
          BY Zenon, SpansQuota
        <5>2. q = cred.quota
          BY Zenon, <2>3, <5>1 DEF QuotaForFailure, CredentialQuota
        <5> QED
          BY Zenon, <5>1, <5>2
      <4>2. d >= a \/ q.recover >= a
        BY Zenon, <3>3, <4>1
      <4> QED
        BY Zenon, <1>7, <2>3, <3>4, <4>2
    <3>5. CASE ~on
      <4>1. d = 0 /\ a = owedAll
        BY Zenon, <1>8, <2>3, <3>3, <3>5
      <4>2. RestingAll(c, a)
        BY Zenon, <1>7, <2>1, <3>5, <4>1
      <4> QED
        BY Zenon, <4>2 DEF RestingAll
    <3> QED
      BY Zenon, <3>4, <3>5
  <2> QED
    BY Zenon, <2>2, <2>3
<1>12. OnlyAnswers
  BY Zenon, <1>1, DoneEnds
<1>13. \A x \in Models : x # m => /\ Less(owed'[x], owed[x]) /\ owed'[x].at = owed[x].at
                                  /\ Lasts(cred.models[x], cred'.models[x])
                                  /\ Stamped(cred.models[x], cred'.models[x])
  <2> SUFFICES ASSUME NEW x \in Models, x # m
               PROVE  Less(owed'[x], owed[x]) /\ owed'[x].at = owed[x].at
    BY Zenon, <1>7, RelationsStamp
  <2>1. owed'[x] = Reached(owed[x], d) \/ owed'[x] = owed[x]
    BY Zenon, <1>1
  <2>2. /\ Reached(owed[x], d).any = owed[x].any /\ Reached(owed[x], d).token = owed[x].token
        /\ Reached(owed[x], d).at = owed[x].at
    BY Zenon, OwingType
  <2> QED
    BY Zenon, <2>1, <2>2 DEF Less
<1>14. owed'[m] = p /\ p.at = now /\ (d = 0 => p.any = 0 /\ p.token = 0)
  <2>1. owed'[m] = p
    BY Zenon, <1>1
  <2> HIDE DEF o
  <2>2. p.at = now /\ (d = 0 => p.any = 0 /\ p.token = 0)
    BY Zenon, OwingNow
  <2> QED
    BY Zenon, <2>1, <2>2
<1>15. ASSUME Owes(p) PROVE t.unavailable /\ t.err = kind /\ Covers(t, p)
  <2>1. d # 0
    BY Zenon, <1>14, <1>15, LessCovers
  <2>2. Owes(o) => Waiting(s) /\ Covers(s, o)
    <3> SUFFICES ASSUME Owes(o) PROVE Waiting(s) /\ Covers(s, o)
      BY Zenon
    <3>1. /\ cred.models[m] # None /\ cred.models[m].unavailable
          /\ Covers(cred.models[m], o)
      BY Zenon DEF Resting
    <3> USE <3>1
    <3>2. s = cred.models[m]
      BY Zenon DEF StateOf
    <3>3. s.retry \in Times
      BY Zenon, StateFields
    <3> HIDE DEF s, o
    <3>4. s.retry > now
      BY Zenon, <3>2, <3>3, CoversWaits
    <3> QED
      BY Zenon, <3>2, <3>4 DEF Waiting
  <2>3. Owes(o) \/ d > now
    <3>1. p.token \in {o.token, d, 0} /\ (p.any = o.any \/ p.any = 0 \/ p.any = d)
      <4> HIDE DEF o
      <4> QED
        BY Zenon, OwingNow
    <3>2. ~ (0 > now)
      <4>1. now \in Nat /\ now > 0
        BY Zenon, ClockIsNumber
      <4> QED
        BY <4>1
    <3> QED
      BY Zenon, <1>15, <3>1, <3>2 DEF Owes
  <2>4. /\ t.unavailable /\ t.err = kind /\ t.retry >= d
        /\ Waiting(s) => t.retry >= s.retry
        /\ t.indep >= s.indep
        /\ kind # "unauthorized" => t.indep >= d
    BY Zenon, <1>7, <2>1, <2>2, <2>3
  <2>5. t \in States
    BY Zenon, <1>7, CredentialFields
  <2> HIDE DEF s, o, t
  <2>6. Covers(t, p)
    BY Zenon, <2>1, <2>2, <2>4, <2>5, OwingCovers
  <2> QED
    BY Zenon, <2>4, <2>6
<1>16. cred'.models[m] = t /\ t \in States
  BY Zenon, <1>7, CredentialFields
<1> USE <1>16
<1> HIDE DEF t, p
<1>17. InMemory'
  <2>1. \A x \in Models :
          /\ Owes(owed'[x]) => /\ cred'.models[x] # None /\ cred'.models[x].unavailable
                               /\ Covers(cred'.models[x], owed'[x])
          /\ \/ owed'[x].at = 0
             \/ owed'[x].at = owed[x].at /\ Stamped(cred.models[x], cred'.models[x])
             \/ owed'[x].at = now /\ cred'.models[x] # None /\ cred'.models[x].updated = now
    <3> TAKE x \in Models
    <3>1. CASE x = m
      BY Zenon, <1>7, <1>14, <1>15, <3>1 DEF t
    <3>2. CASE x # m
      BY Zenon, <1>13, <3>2, LastsResting
    <3> QED
      BY Zenon, <3>1, <3>2
  <2> QED
    BY Zenon, <1>1, <1>11, <1>12, <2>1, MemoryFrame DEF MemoryKept
<1>18. InStore'
  <2> SUFFICES ASSUME durable'
               PROVE  /\ durable /\ Mirrored(disk, cred')
                      /\ \A x \in Models :
                            \/ Less(owed'[x], owed[x])
                            \/ Owes(owed'[x]) => \E y \in disk : y.model = x /\ Covers(y, owed'[x])
    BY Zenon, <1>1, <1>12, StoreFrame DEF StoreKept
  <2>1. durable /\ Mirrored(disk, cred')
    BY Zenon, <1>1, StoreMirrors
  <2>2. ASSUME Owes(p) PROVE \E y \in disk : y.model = m /\ Covers(y, p)
    <3>1. t.unavailable /\ t.err = kind /\ Covers(t, p) /\ t # None /\ kind # None
      BY Zenon, <1>15, <2>2, NotNil
    <3> USE <3>1
    <3>2. p \in Debts /\ t.retry \in Times
      BY Zenon, <1>14, StateFields
    <3>3. Waiting(t)
      BY Zenon, <2>2, <3>2, CoversWaits DEF Waiting
    <3>4. PICK y \in disk : y.model = m /\ y.retry = t.retry /\ y.indep = t.indep
      BY Zenon, <2>1, <3>3 DEF Mirrored, Known
    <3> QED
      BY Zenon, <3>4 DEF Covers
  <2> QED
    BY Zenon, <1>13, <1>14, <2>1, <2>2
<1> QED
  BY Zenon, <1>17, <1>18

-----------------------------------------------------------------------------
(* The records come back. *)

\* The store covers what a restart leaves owed.
LEMMA RestartRecorded ==
    ASSUME Honours, Typed', Restart, cooling
    PROVE  Recorded(disk, owed') /\ RecordedAll(disk, owedAll') /\ Past(owed')
<1>1. /\ owed' = [m \in Models |-> IF ~cooling THEN NothingOwed
                                   ELSE IF durable THEN Together(owed[m], saved.owed[m])
                                   ELSE saved.owed[m]]
      /\ owedAll' = IF durable THEN Latest({owedAll, saved.all}) ELSE saved.all
  BY Zenon DEF Restart
<1>2. /\ Clock /\ cred \in Credentials /\ owed \in [Models -> Debts] /\ owedAll \in Times
      /\ saved \in Ledgers
  BY Zenon DEF Honours, Typed
<1> USE <1>2
<1>3. saved.owed \in [Models -> Debts] /\ saved.all \in Times
  BY DEF Ledgers
<1>4. RestingAll(cred, owedAll) /\ Past(owed)
  BY Zenon DEF Honours, InMemory
<1> USE <1>4
<1>5. /\ Recorded(disk, saved.owed) /\ RecordedAll(disk, saved.all) /\ OneRecord(disk)
      /\ Past(saved.owed)
      /\ durable => Recorded(disk, owed) /\ Mirrored(disk, cred)
  BY Zenon DEF Honours, InStore
<1>6. ASSUME NEW m \in Models
      PROVE  /\ Owes(owed'[m]) => \E r \in disk : r.model = m /\ Covers(r, owed'[m])
             /\ owed'[m].at <= now
  <2> DEFINE o == owed[m]
             p == saved.owed[m]
  <2>1. owed'[m] = IF durable THEN Together(o, p) ELSE p
    BY Zenon, <1>1
  <2>2. /\ o \in Debts /\ p \in Debts /\ o.at <= now /\ p.at <= now
        /\ Owes(p) => \E r \in disk : r.model = m /\ Covers(r, p)
        /\ durable /\ Owes(o) => \E r \in disk : r.model = m /\ Covers(r, o)
    BY Zenon, <1>3, <1>5 DEF Past, Recorded
  <2> HIDE DEF o, p
  <2>3. CASE ~durable
    BY Zenon, <2>1, <2>2, <2>3
  <2>4. CASE durable
    <3>1. owed'[m] = Together(o, p)
      BY Zenon, <2>1, <2>4
    <3>2. Together(o, p).at <= now
      BY Zenon, <2>2, TogetherCovers
    <3>3. ASSUME Owes(Together(o, p))
          PROVE  \E r \in disk : r.model = m /\ Covers(r, Together(o, p))
      <4>1. PICK r \in disk : r.model = m /\ (Covers(r, o) \/ Covers(r, p))
        BY Zenon, <2>2, <2>4, <3>3, TogetherCovers
      <4>2. Covers(r, o)
        <5>1. CASE Owes(o)
          BY Zenon, <1>5, <2>2, <2>4, <4>1, <5>1 DEF OneRecord
        <5> QED
          BY Zenon, <2>2, <5>1, TogetherCovers
      <4>3. Covers(r, p)
        <5>1. CASE Owes(p)
          BY Zenon, <1>5, <2>2, <4>1, <5>1 DEF OneRecord
        <5> QED
          BY Zenon, <2>2, <5>1, TogetherCovers
      <4> QED
        BY Zenon, <2>2, <4>1, <4>2, <4>3, TogetherCovers
    <3> QED
      BY Zenon, <3>1, <3>2, <3>3
  <2> QED
    BY Zenon, <2>3, <2>4
<1>7. RecordedAll(disk, owedAll')
  <2>1. CASE owedAll' = saved.all
    BY Zenon, <1>5, <2>1
  <2>2. CASE durable /\ owedAll' = owedAll
    <3> SUFFICES ASSUME owedAll > now
                 PROVE  \E r \in disk : r.model = None /\ Spans(r.retry, RestoredQuota(r), owedAll)
      BY Zenon, <2>2 DEF RecordedAll
    <3>1. CredentialQuota(cred) /\ cred.retry > now
      BY Zenon, SpansQuota
    <3>2. PICK r \in disk : /\ r.model = None /\ r.retry = cred.retry
                            /\ RestoredQuota(r) = cred.quota
      BY Zenon, <1>5, <2>2, <3>1 DEF Mirrored
    <3>3. Spans(cred.retry, cred.quota, owedAll)
      BY Zenon DEF RestingAll
    <3> QED
      BY Zenon, <3>2, <3>3
  <2>3. owedAll' = saved.all \/ (durable /\ owedAll' = owedAll)
    BY Zenon, <1>1, <1>3, LaterOfTwo
  <2> QED
    BY Zenon, <2>1, <2>2, <2>3
<1>8. Recorded(disk, owed') /\ Past(owed')
  BY Zenon, <1>6 DEF Recorded, Past
<1> QED
  BY Zenon, <1>7, <1>8

\* The process ends and starts again with what was saved.
LEMMA RestartHonours ==
    ASSUME Honours, Restart
    PROVE  InMemory' /\ InStore'
<1> DEFINE c == [Clean EXCEPT !.version = cred.version + 1]
           d == RestoreCooldownStates(c, disk, cooling)
           Live(r) == cooling /\ r.retry > now
<1>1. /\ now' = now /\ disk' = disk /\ saved' = saved /\ cred' = d
      /\ attempts' = [r \in Requests |-> None]
      /\ ~cooling => owed' = [m \in Models |-> NothingOwed] /\ owedAll' = 0
  BY Zenon DEF Restart
<1>2. /\ Typed /\ Typed' /\ Clock /\ cred \in Credentials /\ cred' \in Credentials
      /\ disk \subseteq Records /\ cooling \in BOOLEAN /\ owed' \in [Models -> Debts]
      /\ owedAll' \in Times
  BY Zenon, RestoreTypes DEF Honours, Typed
<1> USE <1>2
<1>3. c \in Credentials /\ c.quota = NoQuota /\ \A m \in Models : c.models[m] = None
  <2>1. 0 \in Times /\ NoQuota \in Quotas /\ None \in Errs /\ cred.version \in Nat
    BY Zenon, TimesClosed, QuotaFields, CredentialFields DEF Errs
  <2>2. Clean \in Credentials /\ Clean.quota = NoQuota /\ \A m \in Models : Clean.models[m] = None
    BY <2>1 DEF Clean, Credentials, Errs
  <2> QED
    BY <2>1, <2>2 DEF Credentials
<1>4. OneRecord(disk) /\ Recorded(disk, saved.owed) /\ RecordedAll(disk, saved.all)
      /\ Past(saved.owed)
  BY Zenon DEF Honours, InStore
<1> HIDE DEF c
<1>5. ~NoQuota.exceeded /\ \A x : ~CredentialQuota(x) \/ x.quota # NoQuota
  <2>1. ~NoQuota.exceeded
    BY DEF NoQuota
  <2> QED
    BY Zenon, <2>1 DEF CredentialQuota
<1>6. /\ \A r \in disk : Live(r) /\ r.model \in Models
            => d.models[r.model] = RestoredState(StateOf(c, r.model), r)
      /\ \A m \in Models : (\A r \in disk : Live(r) => r.model # m) => Eased(c.models[m], d.models[m])
      /\ \A r \in disk : Live(r) /\ r.model = None
            => d.unavailable /\ d.retry = r.retry /\ d.quota = RestoredQuota(r)
      /\ (\A r \in disk : Live(r) => r.model # None) => Wide(c, d) /\ NoWider(c, d)
      /\ Sound(c) => Sound(d)
  <2>1. Clock /\ c \in Credentials /\ disk \subseteq Records /\ OneRecord(disk) /\ cooling \in BOOLEAN
    BY Zenon, <1>3, <1>4
  <2> QED
    BY <2>1, RestoreRests DEF Restores
<1> HIDE DEF d
<1>7. ASSUME NEW r \in disk, Live(r), r.model \in Models
      PROVE  /\ d.models[r.model] # None /\ d.models[r.model].unavailable
             /\ d.models[r.model].retry = r.retry /\ d.models[r.model].indep = r.indep
  <2>1. Fresh \in States /\ Fresh.retry = 0 /\ Fresh.indep = 0 /\ StateOf(c, r.model) = Fresh
    <3>1. Fresh.retry = 0 /\ Fresh.indep = 0
      BY DEF Fresh
    <3> QED
      BY Zenon, <1>3, <1>7, <3>1, StateFields DEF StateOf
  <2> USE <2>1
  <2>2. r \in Records /\ r.retry \in Times /\ r.indep \in Times
    BY Zenon, RecordFields
  <2>3. \A x \in Times : Latest({0, x}) = x
    <3> TAKE x \in Times
    <3>1. Latest({0, x}) \in {0, x} /\ Latest({0, x}) >= x
      BY Zenon, TimesClosed, LaterOfTwo
    <3>2. x \in Nat
      BY Zenon, TimesAreNumbers
    <3> QED
      BY <3>1, <3>2
  <2>4. d.models[r.model] = RestoredState(Fresh, r)
    BY Zenon, <1>6, <1>7
  <2>5. /\ RestoredState(Fresh, r) # None /\ RestoredState(Fresh, r).unavailable
        /\ RestoredState(Fresh, r).retry = Latest({Fresh.retry, r.retry})
        /\ RestoredState(Fresh, r).indep = Latest({Fresh.indep, r.indep})
    BY Zenon, <2>2, RestoredStateRests
  <2> QED
    BY Zenon, <2>2, <2>3, <2>4, <2>5
<1>8. ASSUME NEW m \in Models, d.models[m] # None
      PROVE  \E r \in disk : Live(r) /\ r.model = m
  BY Zenon, <1>3, <1>6, <1>8 DEF Eased
<1>9. Mirrored(disk, d)
  <2>1. ASSUME NEW m \in Known(d)
        PROVE  \E r \in disk : r.model = m /\ r.retry = d.models[m].retry /\ r.indep = d.models[m].indep
    <3>1. m \in Models /\ d.models[m] # None
      BY Zenon DEF Known
    <3>2. PICK r \in disk : Live(r) /\ r.model = m
      BY Zenon, <1>8, <3>1
    <3> QED
      BY Zenon, <1>7, <3>1, <3>2
  <2>2. ASSUME CredentialQuota(d)
        PROVE  \E r \in disk : r.model = None /\ r.retry = d.retry /\ RestoredQuota(r) = d.quota
    <3>1. \E r \in disk : Live(r) /\ r.model = None
      <4> SUFFICES ASSUME \A r \in disk : Live(r) => r.model # None PROVE FALSE
        BY Zenon
      <4>1. d.quota = c.quota
        BY Zenon, <1>6, <2>2 DEF NoWider
      <4> QED
        BY Zenon, <1>3, <1>5, <2>2, <4>1
    <3> QED
      BY Zenon, <1>6, <3>1
  <2> QED
    BY Zenon, <2>1, <2>2 DEF Mirrored
<1>10. Sound(d)
  BY Zenon, <1>3, <1>5, <1>6 DEF Sound
<1>11. /\ Dated(attempts', cred', owed') /\ Started(attempts')
       /\ DatedRecords(attempts', disk', saved'.owed)
  <2>1. \A r \in Requests : attempts'[r] = None
    BY Zenon, <1>1
  <2> QED
    BY Zenon, <2>1 DEF Dated, Started, DatedRecords
<1>12. Recorded(disk, owed') /\ RecordedAll(disk, owedAll') /\ Past(owed')
       /\ (~cooling => ~ (owedAll' > now) /\ \A m \in Models : ~Owes(owed'[m]))
  <2>1. CASE cooling
    BY Zenon, <2>1, RestartRecorded
  <2>2. CASE ~cooling
    <3>1. 0 <= now /\ ~ (0 > now)
      BY ClockIsNumber
    <3>2. \A m \in Models : owed'[m] = NothingOwed
      BY Zenon, <1>1, <2>2
    <3>3. \A m \in Models : ~Owes(owed'[m]) /\ owed'[m].at = 0
      BY Zenon, <3>2, LessCovers
    <3>4. owedAll' = 0
      BY Zenon, <1>1, <2>2
    <3> QED
      BY Zenon, <3>1, <3>3, <3>4 DEF Recorded, RecordedAll, Past
  <2> QED
    BY Zenon, <2>1, <2>2
<1>13. Resting(d, owed')
  <2> SUFFICES ASSUME NEW m \in Models, Owes(owed'[m])
               PROVE  d.models[m] # None /\ d.models[m].unavailable /\ Covers(d.models[m], owed'[m])
    BY Zenon DEF Resting
  <2>1. PICK r \in disk : r.model = m /\ Covers(r, owed'[m])
    BY Zenon, <1>12 DEF Recorded
  <2>2. r.retry \in Times /\ owed'[m] \in Debts
    BY Zenon, RecordFields
  <2>3. r.retry > now /\ cooling
    BY Zenon, <1>12, <2>1, <2>2, CoversWaits
  <2>4. /\ d.models[m] # None /\ d.models[m].unavailable
        /\ d.models[m].retry = r.retry /\ d.models[m].indep = r.indep
    BY Zenon, <1>7, <2>1, <2>3
  <2>5. Covers(d.models[m], owed'[m])
    BY Zenon, <2>1, <2>4 DEF Covers
  <2> QED
    BY Zenon, <2>4, <2>5
<1>14. RestingAll(d, owedAll')
  <2> SUFFICES ASSUME owedAll' > now PROVE d.unavailable /\ Spans(d.retry, d.quota, owedAll')
    BY Zenon DEF RestingAll
  <2>1. PICK r \in disk : r.model = None /\ Spans(r.retry, RestoredQuota(r), owedAll')
    BY Zenon, <1>12 DEF RecordedAll
  <2>2. r.retry > now /\ cooling
    <3>1. r.retry \in Nat /\ owedAll' \in Nat /\ now \in Nat
      BY Zenon, RecordFields, TimesAreNumbers, ClockIsNumber
    <3>2. r.retry >= owedAll' /\ cooling
      BY Zenon, <1>12, <2>1 DEF Spans
    <3> QED
      BY <3>1, <3>2
  <2> QED
    BY Zenon, <1>6, <2>1, <2>2
<1>15. InMemory'
  BY Zenon, <1>1, <1>10, <1>11, <1>12, <1>13, <1>14, AtOnce DEF MemoryNext
<1>16. InStore'
  BY Zenon, <1>1, <1>4, <1>9, <1>11, <1>12, AtOnce DEF StoreNext
<1> QED
  BY Zenon, <1>15, <1>16

\* A reload brings the saved records into the running credential.
LEMMA ReloadHonours ==
    ASSUME Honours, Reload
    PROVE  InMemory' /\ InStore'
<1> DEFINE d == RestoreCooldownStates(cred, disk, cooling)
           Live(r) == cooling /\ r.retry > now
<1>1. /\ now' = now /\ disk' = disk /\ saved' = saved /\ cred' = d /\ attempts' = attempts
      /\ durable' = FALSE /\ owedAll' = IF Restorable(None) THEN saved.all ELSE owedAll
      /\ owed' = [m \in Models |-> IF Restorable(m) THEN Together(owed[m], saved.owed[m])
                                   ELSE owed[m]]
  BY Zenon DEF Reload
<1>2. /\ Typed /\ Typed' /\ Clock /\ cred \in Credentials /\ cred' \in Credentials
      /\ disk \subseteq Records /\ cooling \in BOOLEAN /\ owed' \in [Models -> Debts]
      /\ owed \in [Models -> Debts] /\ owedAll \in Times /\ saved \in Ledgers
      /\ attempts \in [Requests -> Attempts \cup {None}]
  BY Zenon, RestoreTypes DEF Honours, Typed
<1> USE <1>2
<1>3. saved.owed \in [Models -> Debts] /\ saved.all \in Times
  BY DEF Ledgers
<1> USE <1>3
<1>4. /\ Resting(cred, owed) /\ RestingAll(cred, owedAll) /\ Sound(cred)
      /\ Dated(attempts, cred, owed) /\ Past(owed) /\ Started(attempts)
  BY Zenon DEF Honours, InMemory
<1> USE <1>4
<1>5. /\ OneRecord(disk) /\ Recorded(disk, saved.owed) /\ RecordedAll(disk, saved.all)
      /\ Past(saved.owed) /\ DatedRecords(attempts, disk, saved.owed)
  <2>1. InStore
    BY Zenon DEF Honours
  <2> QED
    BY Zenon, <2>1 DEF InStore
<1> USE <1>5
<1>6. /\ \A r \in disk : Live(r) /\ r.model \in Models
            => d.models[r.model] = RestoredState(StateOf(cred, r.model), r)
      /\ \A m \in Models : (\A r \in disk : Live(r) => r.model # m)
            => Eased(cred.models[m], d.models[m])
      /\ \A r \in disk : Live(r) /\ r.model = None
            => d.unavailable /\ d.retry = r.retry /\ d.quota = RestoredQuota(r)
      /\ (\A r \in disk : Live(r) => r.model # None) => Wide(cred, d) /\ NoWider(cred, d)
      /\ Sound(cred) => Sound(d)
  <2>1. /\ Clock /\ cred \in Credentials /\ disk \subseteq Records /\ OneRecord(disk)
        /\ cooling \in BOOLEAN
    BY Zenon
  <2> QED
    BY <2>1, RestoreRests DEF Restores
<1> HIDE DEF d
<1>7. RestingAll(d, owedAll')
  <2>1. CASE Restorable(None)
    <3> SUFFICES ASSUME saved.all > now PROVE d.unavailable /\ Spans(d.retry, d.quota, saved.all)
      BY Zenon, <1>1, <2>1 DEF RestingAll
    <3>1. PICK r \in disk : r.model = None /\ Live(r)
      BY Zenon, <2>1 DEF Restorable
    <3>2. Spans(r.retry, RestoredQuota(r), saved.all)
      BY Zenon, <3>1 DEF RecordedAll, OneRecord
    <3> QED
      BY Zenon, <1>6, <3>1, <3>2
  <2>2. CASE ~Restorable(None)
    <3>1. Wide(cred, d)
      BY Zenon, <1>6, <2>2 DEF Restorable
    <3> QED
      BY Zenon, <1>1, <2>2, <3>1, WideSpans
  <2> QED
    BY Zenon, <2>1, <2>2
<1>8. ASSUME NEW m \in Models, ~Restorable(m)
      PROVE  /\ owed'[m] = owed[m] /\ Stamped(cred.models[m], d.models[m])
             /\ Owes(owed'[m]) => /\ d.models[m] # None /\ d.models[m].unavailable
                                  /\ Covers(d.models[m], owed'[m])
  <2>1. owed'[m] = owed[m]
    BY Zenon, <1>1, <1>8
  <2>2. Eased(cred.models[m], d.models[m])
    BY Zenon, <1>6, <1>8 DEF Restorable
  <2>3. Lasts(cred.models[m], d.models[m]) /\ Stamped(cred.models[m], d.models[m])
    BY Zenon, <2>2, RelationsStamp
  <2>4. Clock /\ Less(owed'[m], owed[m])
    BY Zenon, <2>1, LessCovers
  <2> QED
    BY Zenon, <1>1, <2>1, <2>3, <2>4, LastsResting
<1>9. ASSUME NEW m \in Models, Restorable(m)
      PROVE  \E r \in disk :
                LET s == StateOf(cred, m)
                    t == d.models[m]
                IN  /\ r.model = m /\ t # None /\ t.unavailable /\ s \in States /\ t \in States
                    /\ t.retry >= s.retry /\ t.indep >= s.indep /\ t.updated >= s.updated
                    /\ t.retry >= r.retry /\ t.indep >= r.indep /\ t.updated >= r.updated
  <2>1. PICK r \in disk : r.model = m /\ Live(r)
    BY Zenon, <1>9 DEF Restorable
  <2> DEFINE s == StateOf(cred, m)
             t == d.models[m]
  <2>2. t = RestoredState(s, r)
    BY Zenon, <1>6, <2>1
  <2>3. s \in States /\ r \in Records
    BY Zenon, CredentialFields
  <2> USE <2>3
  <2>4. /\ s.retry \in Times /\ s.indep \in Times /\ s.updated \in Times
        /\ r.retry \in Times /\ r.indep \in Times /\ r.updated \in Times
    BY Zenon, StateFields, RecordFields
  <2> HIDE DEF s
  <2>5. /\ t # None /\ t.unavailable
        /\ t.retry = Latest({s.retry, r.retry}) /\ t.indep = Latest({s.indep, r.indep})
        /\ t.updated = Latest({s.updated, r.updated})
    <3> HIDE DEF t
    <3>1. /\ RestoredState(s, r) # None /\ RestoredState(s, r).unavailable
          /\ RestoredState(s, r).retry = Latest({s.retry, r.retry})
          /\ RestoredState(s, r).indep = Latest({s.indep, r.indep})
          /\ RestoredState(s, r).updated = Latest({s.updated, r.updated})
      BY Zenon, RestoredStateRests
    <3> QED
      BY Zenon, <2>2, <3>1
  <2> USE <2>5
  <2>6. t \in States
    BY Zenon, <1>1, CredentialFields
  <2> HIDE DEF t
  <2>7. /\ t.retry >= s.retry /\ t.indep >= s.indep /\ t.updated >= s.updated
        /\ t.retry >= r.retry /\ t.indep >= r.indep /\ t.updated >= r.updated
    <3>1. /\ Latest({s.retry, r.retry}) >= s.retry /\ Latest({s.retry, r.retry}) >= r.retry
          /\ Latest({s.indep, r.indep}) >= s.indep /\ Latest({s.indep, r.indep}) >= r.indep
          /\ Latest({s.updated, r.updated}) >= s.updated
          /\ Latest({s.updated, r.updated}) >= r.updated
      BY Zenon, <2>4, LaterOfTwo
    <3> QED
      BY Zenon, <3>1
  <2> QED
    BY Zenon, <2>1, <2>6, <2>7 DEF s, t
<1>10. ASSUME NEW m \in Models, Restorable(m), Owes(owed'[m])
       PROVE  d.models[m] # None /\ d.models[m].unavailable /\ Covers(d.models[m], owed'[m])
  <2> DEFINE s == StateOf(cred, m)
             t == d.models[m]
             o == owed[m]
             p == saved.owed[m]
  <2>1. PICK r \in disk : /\ r.model = m /\ t # None /\ t.unavailable /\ s \in States /\ t \in States
                          /\ t.retry >= s.retry /\ t.indep >= s.indep
                          /\ t.retry >= r.retry /\ t.indep >= r.indep
    BY Zenon, <1>9, <1>10
  <2>2. o \in Debts /\ p \in Debts /\ owed'[m] = Together(o, p)
    BY Zenon, <1>1, <1>10
  <2> USE <2>2
  <2>3. Covers(s, o)
    <3>1. CASE Owes(o)
      <4>1. cred.models[m] # None /\ Covers(cred.models[m], o)
        BY Zenon, <3>1 DEF Resting
      <4> QED
        BY Zenon, <4>1 DEF StateOf
    <3> QED
      BY Zenon, <3>1, TogetherCovers
  <2>4. Covers(r, p)
    <3>1. CASE Owes(p)
      BY Zenon, <2>1, <3>1 DEF Recorded, OneRecord
    <3> QED
      BY Zenon, <3>1, TogetherCovers
  <2>5. /\ s.retry \in Nat /\ s.indep \in Nat /\ t.retry \in Nat /\ t.indep \in Nat
        /\ r.retry \in Nat /\ r.indep \in Nat
    BY Zenon, <2>1, StateNumbers, RecordFields, TimesAreNumbers
  <2> HIDE DEF s, t, o, p
  <2>6. Covers(t, o)
    BY Zenon, <2>1, <2>3, <2>5, LaterCovers
  <2>7. Covers(t, p)
    BY Zenon, <2>1, <2>4, <2>5, LaterCovers
  <2> QED
    BY Zenon, <2>1, <2>6, <2>7, TogetherCovers DEF t
<1>11. Resting(d, owed')
  BY Zenon, <1>8, <1>10 DEF Resting
<1>12. Past(owed')
  <2> SUFFICES ASSUME NEW m \in Models PROVE owed'[m].at <= now
    BY Zenon DEF Past
  <2>1. /\ owed[m] \in Debts /\ saved.owed[m] \in Debts
        /\ owed[m].at <= now /\ saved.owed[m].at <= now
    BY Zenon DEF Past
  <2>2. Together(owed[m], saved.owed[m]).at \in {owed[m].at, saved.owed[m].at}
    BY Zenon, <2>1, TogetherCovers
  <2>3. owed'[m] = owed[m] \/ owed'[m] = Together(owed[m], saved.owed[m])
    BY Zenon, <1>1
  <2> QED
    BY Zenon, <2>1, <2>2, <2>3
<1>13. Dated(attempts, d, owed')
  <2> SUFFICES ASSUME NEW q \in Requests, attempts[q] # None,
                      owed'[attempts[q].model].at > attempts[q].started
               PROVE  /\ d.models[attempts[q].model] # None
                      /\ d.models[attempts[q].model].updated > attempts[q].started
    BY Zenon DEF Dated
  <2> DEFINE m == attempts[q].model
             b == attempts[q].started
             t == d.models[m]
  <2>1. m \in Models /\ b \in Times
    <3>1. attempts[q] \in Attempts
      BY Zenon
    <3> QED
      BY <3>1 DEF Attempts
  <2> USE <2>1
  <2>2. /\ owed[m].at > b => cred.models[m] # None /\ cred.models[m].updated > b
        /\ saved.owed[m].at > b => \A x \in disk : x.model = m => x.updated > b
        /\ b <= now /\ owed'[m].at > b /\ owed'[m].at <= now
    BY Zenon, <1>12 DEF Dated, DatedRecords, Started, Past
  <2>3. b \in Nat /\ now \in Nat /\ owed'[m].at \in Nat
    BY Zenon, TimesAreNumbers, DebtsType, ClockIsNumber
  <2>4. now > b
    <3> HIDE DEF m, b
    <3> QED
      BY <2>2, <2>3
  <2>5. CASE ~Restorable(m)
    <3>1. owed'[m] = owed[m] /\ Stamped(cred.models[m], t)
      BY Zenon, <1>8, <2>5
    <3> QED
      BY Zenon, <2>2, <2>4, <3>1 DEF Stamped
  <2>6. CASE Restorable(m)
    <3> DEFINE s == StateOf(cred, m)
    <3>1. PICK r \in disk : /\ r.model = m /\ t # None /\ s \in States /\ t \in States
                            /\ t.updated >= s.updated /\ t.updated >= r.updated
      BY Zenon, <1>9, <2>6
    <3>2. owed'[m] = Together(owed[m], saved.owed[m])
      BY Zenon, <1>1, <2>6
    <3>3. owed[m] \in Debts /\ saved.owed[m] \in Debts
      BY Zenon
    <3>4. owed'[m].at \in {owed[m].at, saved.owed[m].at}
      BY Zenon, <3>2, <3>3, TogetherCovers
    <3>5. s.updated > b \/ r.updated > b
      <4>1. CASE owed'[m].at = owed[m].at
        <5>1. cred.models[m] # None /\ cred.models[m].updated > b
          BY Zenon, <2>2, <4>1
        <5>2. s = cred.models[m]
          BY Zenon, <5>1 DEF StateOf
        <5> QED
          BY Zenon, <5>1, <5>2
      <4>2. CASE owed'[m].at = saved.owed[m].at
        BY Zenon, <2>2, <3>1, <4>2
      <4> QED
        BY Zenon, <3>4, <4>1, <4>2
    <3>6. s.updated \in Nat /\ t.updated \in Nat /\ r.updated \in Nat
      BY Zenon, <3>1, StateNumbers, RecordFields, TimesAreNumbers
    <3> HIDE DEF s, t, b
    <3>7. t.updated > b
      BY <2>3, <3>1, <3>5, <3>6
    <3> QED
      BY Zenon, <3>1, <3>7 DEF t, b
  <2> QED
    BY Zenon, <2>5, <2>6
<1>14. InMemory'
  BY Zenon, <1>1, <1>6, <1>7, <1>11, <1>12, <1>13, AtOnce DEF MemoryNext
<1>15. OnlyAnswers
  BY Zenon, <1>1 DEF OnlyAnswers
<1>16. InStore'
  BY Zenon, <1>1, <1>15, StoreFrame DEF StoreKept
<1> QED
  BY Zenon, <1>14, <1>16

-----------------------------------------------------------------------------
(* The theorem. *)

\* The first state owes nothing.
LEMMA InitHonours == Init => Honours
<1> SUFFICES ASSUME Init PROVE Honours
  BY Zenon
<1>1. Typed /\ Clock
  BY Zenon, InitType DEF Typed
<1> USE <1>1
<1>2. /\ cred = Clean /\ attempts = [r \in Requests |-> None] /\ disk = {} /\ owedAll = 0
      /\ owed = [m \in Models |-> NothingOwed] /\ saved = NothingSaved
  BY Zenon DEF Init
<1>3. 0 <= now /\ ~ (0 > now)
  BY ClockIsNumber
<1>4. saved.owed = owed /\ saved.all = 0
  BY <1>2 DEF NothingSaved
<1>5. \A m \in Models : owed[m] = NothingOwed
  BY Zenon, <1>2
<1>6. \A m \in Models : ~Owes(owed[m]) /\ owed[m].at = 0
  BY Zenon, <1>5, LessCovers
<1>7. \A r \in Requests : attempts[r] = None
  BY Zenon, <1>2
<1>8. (\A m \in Models : Clean.models[m] = None) /\ ~Clean.quota.exceeded
  BY Zenon DEF Clean, NoQuota
<1>9. InMemory
  BY Zenon, <1>2, <1>3, <1>6, <1>7, <1>8
  DEF InMemory, Resting, RestingAll, Sound, CredentialQuota, Dated, Past, Started
<1>10. Mirrored(disk, cred)
  BY Zenon, <1>2, <1>8 DEF Mirrored, Known, CredentialQuota
<1>11. InStore
  BY Zenon, <1>2, <1>3, <1>4, <1>6, <1>7, <1>10
  DEF InStore, Recorded, RecordedAll, OneRecord, DatedRecords, Past
<1> QED
  BY Zenon, <1>9, <1>11 DEF Honours

\* Every step keeps the invariant.
LEMMA NextHonours == ASSUME Honours, [Next]_vars PROVE Honours'
<1>1. Typed' /\ Typed
  BY Zenon, NextTypes DEF Honours
<1> USE <1>1
<1>2. CASE UNCHANGED vars \/ RefreshBegin
  <2>1. /\ now' = now /\ cred' = cred /\ owed' = owed /\ owedAll' = owedAll
        /\ attempts' = attempts /\ disk' = disk /\ saved' = saved /\ durable' = durable
    BY Zenon, <1>2 DEF vars, RefreshBegin
  <2>2. InMemory' /\ InStore'
    BY Zenon, <2>1, IdleHonours DEF Idles
  <2> QED
    BY Zenon, <2>2 DEF Honours
<1>3. CASE Tick
  BY Zenon, <1>3, TickHonours DEF Honours
<1>4. ASSUME NEW r \in Requests, NEW m \in Models, Send(r, m) PROVE Honours'
  BY Zenon, <1>4, SendHonours DEF Honours
<1>5. ASSUME NEW r \in Requests, Neutral(r) PROVE Honours'
  BY Zenon, <1>5, NeutralHonours DEF Honours
<1>6. ASSUME NEW r \in Requests, MarkSuccess(r) PROVE Honours'
  BY Zenon, <1>6, SuccessHonours DEF Honours
<1>7. ASSUME NEW r \in Requests, NEW k \in Kinds, NEW h \in Hints \cup {None}, MarkFailure(r, k, h)
      PROVE  Honours'
  BY Zenon, <1>7, FailureHonours DEF Honours
<1>8. CASE ResetQuota
  BY Zenon, <1>8, ResetHonours DEF Honours
<1>9. ASSUME NEW on \in BOOLEAN, SetConfig(on) PROVE Honours'
  BY Zenon, <1>9, ConfigHonours DEF Honours
<1>10. ASSUME NEW changed \in BOOLEAN, Replace(changed) PROVE Honours'
  BY Zenon, <1>10, ReplaceHonours DEF Honours
<1>11. ASSUME NEW changed \in BOOLEAN, RefreshEnd(changed) PROVE Honours'
  BY Zenon, <1>11, RefreshHonours DEF Honours
<1>12. ASSUME NEW S \in SUBSET Models, Reconcile(S) PROVE Honours'
  BY Zenon, <1>12, ReconcileHonours DEF Honours
<1>13. CASE Save
  BY Zenon, <1>13, SaveHonours DEF Honours
<1>14. CASE Restart
  BY Zenon, <1>14, RestartHonours DEF Honours
<1>15. CASE Reload
  BY Zenon, <1>15, ReloadHonours DEF Honours
<1>16. ASSUME NEW x \in Kinds \cup {None}, NEW valid \in BOOLEAN, RefreshFail(x, valid)
       PROVE  Honours'
  BY Zenon, <1>16, RefreshFailHonours DEF Honours
<1> QED
  BY Zenon, <1>2, <1>3, <1>4, <1>5, <1>6, <1>7, <1>8, <1>9, <1>10, <1>11, <1>12, <1>13, <1>14,
     <1>15, <1>16 DEF Next

\* What rests is blocked.
LEMMA RestingBlocks == Honours => BlockHonoured
<1> SUFFICES ASSUME Honours, NEW m \in Models, Deadline(m) > now
             PROVE  isAuthBlockedForModel(cred, m) # 0
  BY Zenon DEF BlockHonoured
<1>1. /\ Clock /\ cred \in Credentials /\ owed \in [Models -> Debts] /\ owedAll \in Times
      /\ Resting(cred, owed) /\ RestingAll(cred, owedAll)
  BY Zenon DEF Honours, Typed, InMemory
<1> USE <1>1
<1>2. now \in Nat /\ now > 0
  BY Zenon, ClockIsNumber
<1> USE <1>2
<1>3. CASE CredentialQuota(cred)
  <2>1. isAuthBlockedForModel(cred, m) = cred.quota.recover /\ cred.quota.recover > now
    BY Zenon, <1>3 DEF isAuthBlockedForModel, CredentialQuota
  <2>2. cred.quota.recover \in Nat
    BY Zenon, CredentialFields, QuotaFields, TimesAreNumbers
  <2> QED
    BY <2>1, <2>2
<1>4. CASE ~CredentialQuota(cred)
  <2> DEFINE s == cred.models[m]
             o == owed[m]
             l == Latest({s.retry, s.quota.recover})
  <2>1. o \in Debts /\ o.any \in Times /\ o.token \in Times
    BY Zenon, DebtsType
  <2>2. Deadline(m) \in {o.any, o.token, owedAll, 0}
    <3>1. Latest({o.any, o.token, owedAll}) \in {o.any, o.token, owedAll} \cup {0}
      BY Zenon, ChosenOf
    <3> QED
      BY Zenon, <3>1 DEF Deadline
  <2>3. ~ (owedAll > now) /\ ~ (0 > now)
    <3>1. ~ (0 > now)
      OBVIOUS
    <3> QED
      BY Zenon, <1>4, <3>1, SpansQuota
  <2>4. Owes(o)
    BY Zenon, <2>2, <2>3 DEF Owes
  <2>5. s # None /\ s.unavailable /\ Covers(s, o)
    BY Zenon, <2>4 DEF Resting
  <2> USE <2>5
  <2>6. s \in States /\ s.retry \in Times /\ s.quota.recover \in Times
    <3>1. s \in States
      BY Zenon, CredentialFields
    <3> HIDE DEF s
    <3> QED
      BY Zenon, <3>1, StateFields, QuotaFields
  <2> USE <2>6
  <2>7. s.retry > now
    BY Zenon, <2>1, <2>4, CoversWaits
  <2>8. isAuthBlockedForModel(cred, m) = modelAvailabilityBlock(s)
    BY Zenon, <1>4 DEF isAuthBlockedForModel, Known
  <2> HIDE DEF s
  <2>9. l \in Times /\ l >= s.retry
    BY Zenon, LaterOfTwo
  <2>10. modelAvailabilityBlock(s) = IF l > now THEN l ELSE IF s.retry # 0 \/ s.quota.recover # 0
                                     THEN 0 ELSE Forever
    BY Zenon DEF modelAvailabilityBlock, availabilityBlock
  <2> HIDE DEF l
  <2>11. l \in Nat /\ s.retry \in Nat
    BY Zenon, <2>9, TimesAreNumbers
  <2>12. l > now /\ l # 0
    BY <2>7, <2>9, <2>11
  <2> QED
    BY Zenon, <2>8, <2>10, <2>12
<1> QED
  BY Zenon, <1>3, <1>4

\* No cooldown is lost: while the failures that MarkResult counted ask a model to rest,
\* isAuthBlockedForModel blocks it, whatever results, refreshes, replacements, registry
\* changes, saves, restarts and reloads come in between, in any number and any order.
THEOREM BlocksLast == Spec => []BlockHonoured
<1>1. Init => Honours
  BY InitHonours
<1>2. Honours /\ [Next]_vars => Honours'
  BY NextHonours
<1>3. Honours => BlockHonoured
  BY RestingBlocks
<1> QED
  BY <1>1, <1>2, <1>3, PTL DEF Spec

===============================================================================
