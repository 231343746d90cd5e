------------------------- MODULE AuthLifecycleProofs ------------------------
(***************************************************************************)
(* Theorems about AuthLifecycle, for every set of concurrent operations    *)
(* and every bound on their calls and on the tokens: m.auths, the store    *)
(* and the scheduler follow each other, the scheduler never goes back, a   *)
(* cooldown that was lifted stays lifted, and every lock is given back.    *)
(***************************************************************************)
EXTENDS AuthLifecycle, TLAPS

(* The inductive invariant, in parts. *)

\* Where an operation holds the persistence lock.
Locked == {"persist", "save", "delete", "drop", "tombstone"}

\* One operation at a time is between its change and the end of its write, and
\* only refreshes and preparations call the upstream.
LockInv ==
    \A p \in Ops : /\ pc[p] \in Locked => pLock = p
                   /\ pc[p] \in {"upstream", "failed", "commit"} => job[p] \in LockNames

\* Epochs and generations only grow: no copy of a credential is ahead of
\* m.auths, and a removal leaves every copy behind.
OrderInv ==
    /\ epochs > 0
    /\ lastEpoch <= epochs /\ schedEpoch <= epochs
    /\ \A p \in Ops : snap[p].epoch <= epochs
    /\ auth = None => \A p \in Ops : snap[p].epoch < epochs
    /\ auth # None => /\ auth.epoch = epochs
                      /\ shownGen <= auth.gen
                      /\ lastEpoch = epochs => lastGen <= auth.gen
                      /\ schedEpoch = epochs => schedGen <= auth.gen
                      /\ \A p \in Ops : snap[p].epoch = epochs => snap[p].gen <= auth.gen

\* The epoch of a tombstone is new to the scheduler.
TombInv ==
    \A p \in Ops : pc[p] = "tombstone" =>
        auth = None /\ lastEpoch = epochs /\ schedEpoch < epochs

\* From the last visible change on, every snapshot looks like the entry.
ViewInv ==
    auth # None =>
        \A p \in Ops : snap[p].epoch = epochs /\ snap[p].gen >= shownGen
                           => View(snap[p]) = View(auth)

\* So does an entry of the scheduler that is recent enough.
EntryInv ==
    auth # None /\ schedEpoch = epochs /\ schedGen >= shownGen =>
        IF auth.off THEN sched = None
        ELSE sched # None /\ View(sched) = View(auth)

\* An operation that will show the scheduler the last visible change.
Tells(p) ==
    /\ Telling(p) /\ pc[p] # "tombstone"
    /\ snap[p].epoch = epochs /\ snap[p].gen >= shownGen

\* The scheduler knows of the last visible change, or somebody will tell it.
ToldInv ==
    /\ auth # None => \/ schedEpoch = epochs /\ schedGen >= shownGen
                      \/ \E p \in Ops : Tells(p)
    /\ auth = None => \/ schedEpoch = epochs /\ sched = None
                      \/ \E p \in Ops : pc[p] = "tombstone"

\* What is being saved is what m.auths holds.
SaveInv ==
    \A p \in Ops : pc[p] = "save" => auth # None /\ Durable(out[p]) = Durable(auth)

\* An operation that will write the current registration.
Writes(p) ==
    \/ pc[p] \in {"wait", "persist"} /\ snap[p].epoch = epochs
    \/ pc[p] = "save"

\* The store has the last durable change, or somebody will write it.
StoreInv ==
    auth # None /\ file # None /\ ~dirty =>
        file = Durable(auth) \/ \E p \in Ops : Writes(p)

\* The three copies agree, or an operation under way will make them agree.
CopiesInv ==
    /\ LockInv /\ OrderInv /\ TombInv /\ ViewInv /\ EntryInv /\ ToldInv
    /\ SaveInv /\ StoreInv /\ NoResurrection

\* A disabled credential has no cooldown.
OffInv == auth # None /\ auth.off => ~auth.cool

-----------------------------------------------------------------------------
(* The data. *)

\* The fields of an entry have the types of the fields of Auth.
LEMMA Fields ==
    ASSUME NEW a \in Auths
    PROVE  /\ a.epoch \in Nat /\ a.gen \in Nat /\ a.version \in Nat
           /\ a.availability \in Nat /\ a.tok \in Nat
           /\ a.note \in Notes \cup {None} /\ a.off \in BOOLEAN /\ a.cool \in BOOLEAN
           /\ a # None
BY Zenon, ConstantsAssumption DEF Auths

\* Nothing is an entry whose fields are all empty.
LEMMA BlankType == Blank \in Auths /\ Blank.epoch = 0
BY Zenon DEF Blank, Auths

\* The record of an entry is a record.
LEMMA DurableType == ASSUME NEW a \in Auths PROVE Durable(a) \in Records /\ Durable(a) # None
BY ConstantsAssumption DEF Durable, Auths, Records

\* updateInternal keeps the epoch and advances the generation.
LEMMA UpdatedType ==
    ASSUME NEW a \in Auths, NEW t \in Nat, NEW n \in Notes \cup {None},
           NEW o \in BOOLEAN, NEW c \in BOOLEAN
    PROVE  LET u == Updated(a, t, n, o, c) IN
           /\ u \in Auths /\ u.epoch = a.epoch /\ u.gen > a.gen
           /\ u.off = o /\ u.cool = (c /\ ~o)
           /\ ~o /\ ~a.off => u.availability = a.availability
<1>1. Flag(o /\ c) \in 0..1 /\ Flag(CredentialsChanged(a, t)) \in 0..1 /\ Flag(a.off # o) \in 0..1
  BY DEF Flag
<1>2. ~o /\ ~a.off => Flag(o /\ c) = 0 /\ Flag(a.off # o) = 0
  BY Zenon, Fields DEF Flag
<1>3. (c /\ ~o) \in BOOLEAN
  BY Zenon
<1> QED BY <1>1, <1>2, <1>3, Fields DEF Updated, Auths

\* What that means for the copies.
LEMMA UpdatedGrows ==
    ASSUME NEW a \in Auths, NEW t \in Nat, NEW n \in Notes \cup {None},
           NEW o, o \in BOOLEAN, NEW c, c \in BOOLEAN
    PROVE  /\ Updated(a, t, n, o, c) \in Auths
           /\ Updated(a, t, n, o, c).epoch = a.epoch
           /\ Updated(a, t, n, o, c).gen > a.gen
BY UpdatedType

\* A counted result changes the generation alone.
LEMMA CountedType ==
    ASSUME NEW a \in Auths, NEW n \in Nat
    PROVE  LET u == [a EXCEPT !.gen = @ + n] IN
           /\ u \in Auths /\ u.epoch = a.epoch /\ u.gen = a.gen + n
           /\ u.availability = a.availability /\ u.off = a.off /\ u.cool = a.cool
           /\ Durable(u) = Durable(a) /\ View(u) = View(a)
BY DEF Auths, Durable, View

\* The cooldown is not durable.
LEMMA CooledType ==
    ASSUME NEW a \in Auths, NEW c \in BOOLEAN
    PROVE  LET u == [a EXCEPT !.cool = c] IN
           /\ u \in Auths /\ u.epoch = a.epoch /\ u.gen = a.gen
           /\ u.availability = a.availability /\ u.off = a.off /\ u.cool = c
           /\ Durable(u) = Durable(a)
BY Zenon DEF Auths, Durable

\* Nor is the availability epoch.
LEMMA AdvancedType ==
    ASSUME NEW a \in Auths, NEW n \in Nat
    PROVE  LET u == [a EXCEPT !.availability = @ + n] IN
           /\ u \in Auths /\ u.epoch = a.epoch /\ u.gen = a.gen
           /\ u.off = a.off /\ u.cool = a.cool
           /\ Durable(u) = Durable(a)
BY DEF Auths, Durable

\* Bookkeeping: the generation advances and the cooldown may change.
Booked(a, n, c) == [[a EXCEPT !.gen = @ + n] EXCEPT !.cool = c]

\* It leaves the registration and what is durable alone.
LEMMA BookedType ==
    ASSUME NEW a \in Auths, NEW n \in Nat, NEW c \in BOOLEAN
    PROVE  /\ Booked(a, n, c) \in Auths /\ Booked(a, n, c).epoch = a.epoch
           /\ Booked(a, n, c).gen = a.gen + n
           /\ Booked(a, n, c).availability = a.availability
           /\ Booked(a, n, c).off = a.off /\ Booked(a, n, c).cool = c
           /\ Durable(Booked(a, n, c)) = Durable(a)
<1> DEFINE v == [a EXCEPT !.gen = @ + n]
<1>1. v \in Auths /\ v.epoch = a.epoch /\ v.gen = a.gen + n
      /\ v.availability = a.availability /\ v.off = a.off /\ Durable(v) = Durable(a)
  BY Zenon, CountedType
<1>2. LET u == [v EXCEPT !.cool = c] IN
         /\ u \in Auths /\ u.epoch = a.epoch /\ u.gen = a.gen + n
         /\ u.availability = a.availability /\ u.off = a.off /\ u.cool = c
         /\ Durable(u) = Durable(a)
  <2> HIDE DEF v
  <2> QED BY Zenon, <1>1, CooledType
<1> QED BY Zenon, <1>2 DEF Booked

\* A reset ends the cooldown and starts a new availability epoch.
LEMMA ResetType ==
    ASSUME NEW a \in Auths, NEW n \in Nat
    PROVE  LET u == [a EXCEPT !.gen = @ + n, !.availability = @ + n, !.cool = FALSE] IN
           /\ u \in Auths /\ u.epoch = a.epoch /\ u.gen = a.gen + n
           /\ u.off = a.off /\ u.cool = FALSE
           /\ Durable(u) = Durable(a)
<1> DEFINE v == [a EXCEPT !.gen = @ + n]
           w == [v EXCEPT !.availability = @ + n]
<1>1. [a EXCEPT !.gen = @ + n, !.availability = @ + n, !.cool = FALSE] = [w EXCEPT !.cool = FALSE]
  BY Zenon DEF Auths
<1>2. v \in Auths /\ v.epoch = a.epoch /\ v.gen = a.gen + n /\ v.off = a.off /\ Durable(v) = Durable(a)
  BY Zenon, CountedType
<1>3. w \in Auths /\ w.epoch = a.epoch /\ w.gen = a.gen + n /\ w.off = a.off /\ Durable(w) = Durable(a)
  <2> HIDE DEF v
  <2> QED BY Zenon, <1>2, AdvancedType
<1>4. LET u == [w EXCEPT !.cool = FALSE] IN
         /\ u \in Auths /\ u.epoch = a.epoch /\ u.gen = a.gen + n
         /\ u.off = a.off /\ u.cool = FALSE
         /\ Durable(u) = Durable(a)
  <2> HIDE DEF w
  <2> QED BY Zenon, <1>3, CooledType
<1> QED BY Zenon, <1>1, <1>4

\* The usual case: one more generation.
LEMMA BookedOnce ==
    ASSUME NEW a \in Auths, NEW c \in BOOLEAN
    PROVE  /\ Booked(a, 1, c) \in Auths /\ Booked(a, 1, c).epoch = a.epoch
           /\ Booked(a, 1, c).gen = a.gen + 1
           /\ Booked(a, 1, c).availability = a.availability
           /\ Booked(a, 1, c).off = a.off /\ Booked(a, 1, c).cool = c
           /\ Durable(Booked(a, 1, c)) = Durable(a)
<1>1. 1 \in Nat
  BY Zenon
<1> QED BY <1>1, BookedType, Zenon

\* A reconciliation books in one EXCEPT.
LEMMA Reconciled ==
    ASSUME NEW a \in Auths, NEW c \in BOOLEAN
    PROVE  [a EXCEPT !.gen = @ + 1, !.cool = c] = Booked(a, 1, c)
BY Zenon DEF Auths, Booked

\* It starts or ends a cooldown.
LEMMA BookedEither ==
    ASSUME NEW a \in Auths
    PROVE  /\ LET u == Booked(a, 1, TRUE) IN
              /\ u \in Auths /\ u.epoch = a.epoch /\ u.gen = a.gen + 1
              /\ u.availability = a.availability /\ u.off = a.off /\ u.cool
              /\ Durable(u) = Durable(a)
           /\ LET u == Booked(a, 1, FALSE) IN
              /\ u \in Auths /\ u.epoch = a.epoch /\ u.gen = a.gen + 1
              /\ u.availability = a.availability /\ u.off = a.off /\ ~u.cool
              /\ Durable(u) = Durable(a)
BY BookedOnce, Zenon

\* The cooldowns an update can leave.
LEMMA RecoveredType ==
    ASSUME NEW a, NEW t, NEW k \in BOOLEAN, NEW c \in Recovered(a, t, k)
    PROVE  c \in BOOLEAN /\ (c => k)
BY Zenon DEF Recovered

-----------------------------------------------------------------------------
(* Types. *)

\* p goes on with values of the right types.
LEMMA Becomes ==
    ASSUME TypeOK, NEW p \in Ops, NEW c \in Controls, NEW j \in Jobs, NEW s \in Auths,
           Become(p, c, j, s)
    PROVE  /\ pc' \in [Ops -> Controls] /\ job' \in [Ops -> Jobs]
           /\ snap' \in [Ops -> Auths] /\ out' \in [Ops -> Auths]
           /\ pc'[p] = c /\ job'[p] = j /\ snap'[p] = s
BY Zenon, BlankType DEF TypeOK, Become, Goto

\* p is over.
LEMMA Stops ==
    ASSUME TypeOK, NEW p \in Ops, Stop(p)
    PROVE  /\ pc' \in [Ops -> Controls] /\ job' \in [Ops -> Jobs]
           /\ snap' \in [Ops -> Auths] /\ out' \in [Ops -> Auths]
           /\ skip' \in [Ops -> BOOLEAN]
           /\ pc'[p] = "idle" /\ snap'[p] = Blank
BY Zenon, BlankType DEF TypeOK, Stop, Goto, Controls, Jobs

\* p has written.
LEMMA Writtens ==
    ASSUME TypeOK, NEW p \in Ops, Written(p)
    PROVE  /\ pc' \in [Ops -> Controls] /\ job' \in [Ops -> Jobs]
           /\ snap' \in [Ops -> Auths] /\ out' \in [Ops -> Auths]
           /\ skip' \in [Ops -> BOOLEAN]
           /\ IF job[p] = "neutral" THEN pc'[p] = "idle" /\ snap'[p] = Blank
              ELSE pc'[p] = "upsert" /\ snap'[p] = snap[p]
<1>1. CASE job[p] = "neutral"
  BY Zenon, <1>1, Stops DEF Written
<1>2. CASE job[p] # "neutral"
  BY <1>2, BlankType DEF TypeOK, Written, Goto, Controls
<1> QED BY Zenon, <1>1, <1>2

\* p is over and its lock free.
LEMMA Returns ==
    ASSUME TypeOK, NEW p \in Ops, Return(p)
    PROVE  locks' \in [LockNames -> Ops \cup {None}]
BY Zenon DEF TypeOK, Return

\* The entry changes.
LEMMA Installs ==
    ASSUME TypeOK, NEW a \in Auths, NEW why \in Nat \X Nat, NEW kept \in BOOLEAN,
           Install(a, why, kept)
    PROVE  /\ auth' \in Auths \cup {None} /\ shownGen' \in Nat
           /\ dirty' \in BOOLEAN /\ gone' \in BOOLEAN /\ carried' \in BOOLEAN
           /\ blame' \in Nat \X Nat
BY Zenon, Fields DEF TypeOK, Install

\* The scheduler takes an entry.
LEMMA Upserts ==
    ASSUME TypeOK, NEW a \in Auths, upsertAuth(a)
    PROVE  schedEpoch' \in Nat /\ schedGen' \in Nat /\ sched' \in Auths \cup {None}
BY Zenon, Fields DEF TypeOK, upsertAuth, schedVars

\* A new token.
LEMMA Inputs ==
    ASSUME TypeOK, NEW t \in Nat, Input(t)
    PROVE  token' \in Nat
BY Zenon DEF TypeOK, Input

\* An update, committed under the persistence lock.
LEMMA Commits ==
    ASSUME TypeOK, NEW p \in Ops, NEW j \in Jobs, NEW a \in Auths, NEW kept \in BOOLEAN,
           Commit(p, j, a, kept), skip' \in [Ops -> BOOLEAN], token' \in Nat, calls' \in Nat
    PROVE  TypeOK'
<1>1. blame \in Nat \X Nat
  BY Zenon DEF TypeOK
<1>2. /\ auth' \in Auths \cup {None} /\ shownGen' \in Nat
      /\ dirty' \in BOOLEAN /\ gone' \in BOOLEAN /\ carried' \in BOOLEAN
      /\ blame' \in Nat \X Nat
  BY Zenon, <1>1, Installs DEF Commit
<1>3. /\ pc' \in [Ops -> Controls] /\ job' \in [Ops -> Jobs]
      /\ snap' \in [Ops -> Auths] /\ out' \in [Ops -> Auths]
  <2>1. "persist" \in Controls
    BY Zenon DEF Controls
  <2> QED BY Zenon, <2>1, Becomes DEF Commit
<1> QED BY Zenon, <1>2, <1>3 DEF TypeOK, Commit, schedVars

\* Bookkeeping.
LEMMA Books ==
    ASSUME TypeOK, NEW p \in Ops, NEW c \in Controls, NEW j \in Jobs, NEW a \in Auths,
           NEW why \in Nat \X Nat, NEW kept \in BOOLEAN,
           Record(p, c, j, a, why, kept), calls' \in Nat
    PROVE  TypeOK'
<1>2. /\ auth' \in Auths \cup {None} /\ shownGen' \in Nat
      /\ dirty' \in BOOLEAN /\ gone' \in BOOLEAN /\ carried' \in BOOLEAN
      /\ blame' \in Nat \X Nat
  BY Zenon, Installs DEF Record
<1>3. /\ pc' \in [Ops -> Controls] /\ job' \in [Ops -> Jobs]
      /\ snap' \in [Ops -> Auths] /\ out' \in [Ops -> Auths]
  BY Zenon, Becomes DEF Record
<1>4. skip' \in [Ops -> BOOLEAN]
  BY Zenon DEF TypeOK, Record
<1> QED BY Zenon, <1>2, <1>3, <1>4 DEF TypeOK, Record, schedVars, storeVars

\* The steps of an operation keep the types.
LEMMA StepType == ASSUME TypeOK, NEW p \in Ops, Step(p) PROVE TypeOK'
<1> USE DEF memVars, storeVars, schedVars, history
<1>0. /\ snap[p] \in Auths /\ out[p] \in Auths /\ job[p] \in Jobs /\ blame \in Nat \X Nat
      /\ carried \in BOOLEAN /\ token \in Nat /\ calls \in Nat
      /\ auth # None => auth \in Auths
  BY Zenon DEF TypeOK
<1>1. CASE Persist(p)
  <2>1. CASE Late(snap[p])
    BY Zenon, <1>1, <2>1, Writtens DEF TypeOK, Persist
  <2>2. CASE ~Late(snap[p])
    <3>1. auth \in Auths /\ Latest(snap[p]) \in Auths /\ auth.epoch \in Nat /\ Latest(snap[p]).gen \in Nat
      BY Zenon, <1>0, <2>2, Fields DEF Late, Latest
    <3>2. lastEpoch' = auth.epoch /\ lastGen' = Latest(snap[p]).gen
      BY Zenon, <1>1, <2>2 DEF Persist
    <3>3. CASE skip[p] /\ Written(p) /\ pLock' = None /\ dirty' = TRUE
      BY Zenon, <1>1, <3>1, <3>2, <3>3, Writtens DEF TypeOK, Persist
    <3>4. CASE /\ ~skip[p] /\ Goto(p, "save") /\ out' = [out EXCEPT ![p] = Latest(snap[p])]
               /\ pLock' = p /\ UNCHANGED <<dirty, job, snap, skip>>
      <4>1. pc' \in [Ops -> Controls] /\ out' \in [Ops -> Auths]
        BY Zenon, <3>1, <3>4 DEF TypeOK, Goto, Controls
      <4> QED BY Zenon, <1>1, <3>1, <3>2, <3>4, <4>1 DEF TypeOK, Persist
    <3> QED BY Zenon, <1>1, <2>2, <3>3, <3>4 DEF Persist
  <2> QED BY Zenon, <2>1, <2>2
<1>2. CASE Save(p)
  <2>1. file' \in Records \cup {None} /\ dirty' \in BOOLEAN
    BY Zenon, <1>0, <1>2, DurableType DEF TypeOK, Save
  <2> QED BY Zenon, <1>2, <2>1, Writtens DEF TypeOK, Save
<1>3. CASE Upsert(p)
  <2>1. schedEpoch' \in Nat /\ schedGen' \in Nat /\ sched' \in Auths \cup {None}
    BY Zenon, <1>0, <1>3, Upserts DEF Upsert
  <2>2. Return(p) /\ Stop(p)
    BY Zenon, <1>3 DEF Upsert, Return
  <2> QED BY Zenon, <1>3, <2>1, <2>2, Stops, Returns DEF TypeOK, Upsert
<1>4. CASE DeleteRecord(p)
  <2>1. CASE Stop(p) /\ pLock' = None /\ file' \in {file, None}
    BY <1>4, <2>1, Stops DEF TypeOK, DeleteRecord
  <2>2. CASE Goto(p, "drop") /\ file' = None /\ UNCHANGED <<pLock, job, snap, skip, out>>
    BY Zenon, <1>4, <2>2 DEF TypeOK, DeleteRecord, Goto, Controls
  <2> QED BY Zenon, <1>4, <2>1, <2>2 DEF DeleteRecord
<1>5. CASE Drop(p)
  <2>1. CASE auth = None
    BY Zenon, <1>5, <2>1, Stops DEF TypeOK, Drop
  <2>2. CASE auth # None
    BY <1>5, <2>2 DEF TypeOK, Drop, Goto, Controls
  <2> QED BY Zenon, <2>1, <2>2
<1>6. CASE Tombstone(p)
  <2>1. schedEpoch' \in Nat /\ schedGen' \in Nat /\ sched' \in Auths \cup {None}
    BY <1>6 DEF TypeOK, Tombstone, RecordRemovalTombstone
  <2> QED BY Zenon, <1>6, <2>1, Stops DEF TypeOK, Tombstone
<1>7. CASE Upstream(p)
  <2>1. CASE \E t \in {snap[p].tok, token + 1} :
            /\ t <= MaxTokens
            /\ Input(t)
            /\ out' = [out EXCEPT ![p] = [snap[p] EXCEPT !.tok = t]]
            /\ Goto(p, "commit")
            /\ UNCHANGED <<locks, job, snap, skip>>
    <3>0. snap[p].tok \in Nat /\ token + 1 \in Nat
      BY <1>0, Fields
    <3>1. PICK t \in Nat :
            /\ Input(t)
            /\ out' = [out EXCEPT ![p] = [snap[p] EXCEPT !.tok = t]]
            /\ Goto(p, "commit")
            /\ UNCHANGED <<locks, job, snap, skip>>
      BY Zenon, <2>1, <3>0
    <3>2. [snap[p] EXCEPT !.tok = t] \in Auths
      BY Zenon, <1>0 DEF Auths
    <3>3. pc' \in [Ops -> Controls] /\ out' \in [Ops -> Auths]
      BY Zenon, <3>1, <3>2 DEF TypeOK, Goto, Controls
    <3> QED BY <1>7, <3>1, <3>3, Inputs DEF TypeOK, Upstream
  <2>2. CASE Goto(p, "failed") /\ UNCHANGED <<locks, token, job, snap, skip, out>>
    BY <1>7, <2>2 DEF TypeOK, Upstream, Goto, Controls
  <2>3. CASE Return(p) /\ UNCHANGED token
    <3>1. Stop(p)
      BY Zenon, <2>3 DEF Return
    <3> QED BY <1>7, <2>3, <3>1, Stops, Returns DEF TypeOK, Upstream
  <2> QED BY Zenon, <1>7, <2>1, <2>2, <2>3 DEF Upstream
<1>8. CASE RefreshFailed(p)
  <2>1. Return(p) /\ Stop(p)
    BY Zenon, <1>8 DEF RefreshFailed, Return
  <2>2. \/ UNCHANGED <<auth, schedVars, history>>
        \/ \E a \in Auths, why \in Nat \X Nat, kept \in BOOLEAN : Install(a, why, kept) /\ upsertAuth(a)
    <3>1. CASE ~sameCredentialSnapshot(snap[p]) \/ auth.off
      BY Zenon, <1>8, <3>1 DEF RefreshFailed
    <3>2. CASE ~(~sameCredentialSnapshot(snap[p]) \/ auth.off)
      <4> DEFINE a == [auth EXCEPT !.gen = @ + 1]
                 b == Booked(auth, 1, TRUE)
                 why == <<snap[p].epoch, snap[p].availability>>
      <4>1. auth \in Auths
        BY Zenon, <1>0, <3>2 DEF sameCredentialSnapshot
      <4>2. a \in Auths /\ b \in Auths
        BY Zenon, <4>1, CountedType, BookedEither
      <4>3. why \in Nat \X Nat
        BY Zenon, <1>0, Fields
      <4>4. \/ Install(a, blame, carried) /\ upsertAuth(a)
            \/ Install(b, why, FALSE) /\ upsertAuth(b)
        BY Zenon, <1>8, <3>2 DEF RefreshFailed, Booked
      <4> HIDE DEF a, b, why
      <4> QED BY Zenon, <1>0, <4>2, <4>3, <4>4
    <3> QED BY Zenon, <3>1, <3>2
  <2>3. /\ auth' \in Auths \cup {None} /\ shownGen' \in Nat
        /\ dirty' \in BOOLEAN /\ gone' \in BOOLEAN /\ carried' \in BOOLEAN
        /\ blame' \in Nat \X Nat
        /\ schedEpoch' \in Nat /\ schedGen' \in Nat /\ sched' \in Auths \cup {None}
    <3>1. CASE UNCHANGED <<auth, schedVars, history>>
      BY Zenon, <3>1 DEF TypeOK
    <3>2. CASE \E a \in Auths, why \in Nat \X Nat, kept \in BOOLEAN : Install(a, why, kept) /\ upsertAuth(a)
      BY Zenon, <3>2, Installs, Upserts
    <3> QED BY Zenon, <2>2, <3>1, <3>2
  <2> QED BY Zenon, <1>8, <2>1, <2>3, Stops, Returns DEF TypeOK, RefreshFailed
<1>9. CASE CommitAnswer(p)
  <2>1. auth \in Auths /\ auth.note \in Notes \cup {None} /\ auth.off \in BOOLEAN /\ auth.cool \in BOOLEAN
    BY Zenon, <1>0, <1>9, Fields DEF CommitAnswer, sameCredentialSnapshot
  <2>2. PICK c \in Merged(p, auth, snap[p]) :
          Commit(p, job[p], Updated(auth, out[p].tok, auth.note, auth.off, c), carried /\ c)
    BY Zenon, <1>9 DEF CommitAnswer
  <2>3. c \in BOOLEAN
    BY Zenon, <2>1, <2>2, RecoveredType DEF Merged
  <2>4. Updated(auth, out[p].tok, auth.note, auth.off, c) \in Auths /\ (carried /\ c) \in BOOLEAN
    BY Zenon, <1>0, <2>1, <2>3, UpdatedType, Fields
  <2>5. skip' \in [Ops -> BOOLEAN] /\ token' \in Nat /\ calls' \in Nat
    BY Zenon, <1>9 DEF TypeOK, CommitAnswer
  <2> QED BY Zenon, <1>0, <2>2, <2>4, <2>5, Commits
<1>10. CASE DropAnswer(p)
  <2>1. Return(p) /\ Stop(p)
    BY Zenon, <1>10 DEF DropAnswer, Return
  <2> QED BY <1>10, <2>1, Stops, Returns DEF TypeOK, DropAnswer
<1> QED BY Zenon, <1>1, <1>2, <1>3, <1>4, <1>5, <1>6, <1>7, <1>8, <1>9, <1>10 DEF Step

\* So do the calls an operation can make, and the uses of a snapshot.
LEMMA BeginType == ASSUME TypeOK, NEW p \in Ops, Begin(p) PROVE TypeOK'
<1> USE DEF memVars, storeVars, schedVars, history
<1>0. /\ snap[p] \in Auths /\ blame \in Nat \X Nat
      /\ carried \in BOOLEAN /\ token \in Nat /\ calls \in Nat
      /\ auth # None => auth \in Auths
      /\ "change" \in Jobs /\ "neutral" \in Jobs /\ "refresh" \in Jobs /\ "prepare" \in Jobs
      /\ 1..MaxTokens \subseteq Nat
  BY ConstantsAssumption DEF TypeOK, Jobs, LockNames
<1>c. /\ "held" \in Controls /\ "persist" \in Controls /\ "wait" \in Controls
      /\ "upsert" \in Controls /\ "drop" \in Controls /\ "upstream" \in Controls
  BY Zenon DEF Controls
<1>n. Call(p) => calls' \in Nat
  BY <1>0 DEF Call
<1>s. \A b \in BOOLEAN : [skip EXCEPT ![p] = b] \in [Ops -> BOOLEAN]
  BY Zenon DEF TypeOK
<1>1. CASE Look(p)
  <2>1. auth \in Auths /\ Become(p, "held", "change", auth)
    BY Zenon, <1>0, <1>1 DEF Look
  <2>2. /\ pc' \in [Ops -> Controls] /\ job' \in [Ops -> Jobs]
        /\ snap' \in [Ops -> Auths] /\ out' \in [Ops -> Auths]
    BY Zenon, <1>0, <1>c, <2>1, Becomes
  <2> QED BY Zenon, <1>1, <1>n, <2>2 DEF TypeOK, Look
<1>2. CASE Leave(p)
  BY <1>2, Stops DEF TypeOK, Leave
<1>3. CASE Register(p)
  <2>1. PICK t \in 1..MaxTokens, n \in Notes, o \in BOOLEAN, s \in BOOLEAN :
          LET a == [epoch |-> epochs + 1, gen |-> 1, version |-> 1,
                   availability |-> 1, tok |-> t, note |-> n, off |-> o,
                   cool |-> FALSE]
          IN /\ Input(t)
             /\ auth' = a
             /\ shownGen' = 1
             /\ Become(p, "persist", "change", a)
             /\ skip' = [skip EXCEPT ![p] = s]
    BY Zenon, <1>3 DEF Register
  <2> DEFINE a == [epoch |-> epochs + 1, gen |-> 1, version |-> 1,
                   availability |-> 1, tok |-> t, note |-> n, off |-> o,
                   cool |-> FALSE]
  <2>2. a \in Auths
    BY <1>0 DEF TypeOK, Auths
  <2>3. /\ Input(t) /\ auth' = a /\ shownGen' = 1 /\ Become(p, "persist", "change", a)
        /\ skip' = [skip EXCEPT ![p] = s]
    BY Zenon, <2>1
  <2> HIDE DEF a
  <2>4. /\ pc' \in [Ops -> Controls] /\ job' \in [Ops -> Jobs]
        /\ snap' \in [Ops -> Auths] /\ out' \in [Ops -> Auths]
    BY Zenon, <1>0, <1>c, <2>2, <2>3, Becomes
  <2>5. token' \in Nat /\ skip' \in [Ops -> BOOLEAN] /\ calls' \in Nat
    BY Zenon, <1>0, <1>3, <1>n, <1>s, <2>3, Inputs DEF Register
  <2>6. /\ epochs' = epochs + 1 /\ pLock' = p /\ carried' = FALSE /\ gone' = FALSE
        /\ UNCHANGED <<lastEpoch, lastGen, file, schedVars, dirty, blame, backend, locks>>
    BY Zenon, <1>3 DEF Register
  <2>7. auth' \in Auths \cup {None} /\ shownGen' \in Nat
    BY Zenon, <2>2, <2>3
  <2>8. schedEpoch' \in Nat /\ schedGen' \in Nat /\ sched' \in Auths \cup {None}
    BY Zenon, <2>6 DEF TypeOK
  <2>9. file' \in Records \cup {None} /\ blame' \in Nat \X Nat /\ locks' \in [LockNames -> Ops \cup {None}]
    BY Zenon, <2>6 DEF TypeOK
  <2>10. carried' \in BOOLEAN /\ gone' \in BOOLEAN /\ dirty' \in BOOLEAN
    BY Zenon, <2>6 DEF TypeOK
  <2>11. epochs' \in Nat /\ lastEpoch' \in Nat /\ lastGen' \in Nat
    BY <2>6 DEF TypeOK
  <2>12. backend' \in {"file", "other"} /\ pLock' \in Ops \cup {None}
    BY Zenon, <2>6 DEF TypeOK
  <2> QED BY Zenon, <2>4, <2>5, <2>7, <2>8, <2>9, <2>10, <2>11, <2>12 DEF TypeOK
<1>4. CASE Update(p)
  <2>1. auth \in Auths /\ auth.cool \in BOOLEAN
    BY Zenon, <1>0, <1>4, Fields DEF Update
  <2>2. PICK t \in 1..MaxTokens, n \in Notes, o \in BOOLEAN :
         /\ Input(t)
         /\ \E c \in Recovered(auth, t, auth.cool /\ ~o) :
              Commit(p, "change", Updated(auth, t, n, o, c), carried /\ c)
    BY Zenon, <1>4 DEF Update
  <2>3. PICK c \in Recovered(auth, t, auth.cool /\ ~o) :
              Commit(p, "change", Updated(auth, t, n, o, c), carried /\ c)
    BY Zenon, <2>2
  <2>4. c \in BOOLEAN
    BY Zenon, <2>1, RecoveredType
  <2>5. Updated(auth, t, n, o, c) \in Auths /\ (carried /\ c) \in BOOLEAN
    BY Zenon, <1>0, <2>1, <2>4, UpdatedType
  <2>6. skip' \in [Ops -> BOOLEAN] /\ token' \in Nat /\ calls' \in Nat
    BY Zenon, <1>0, <1>4, <1>n, <1>s, <2>2, Inputs DEF Update
  <2> QED BY Zenon, <1>0, <2>3, <2>5, <2>6, Commits
<1>5. CASE Reload(p)
  <2>1. auth \in Auths /\ auth.cool \in BOOLEAN /\ snap[p].cool \in BOOLEAN
    BY Zenon, <1>0, <1>5, Fields DEF Reload
  <2>2. PICK t \in 1..MaxTokens, n \in Notes, o \in BOOLEAN :
         /\ Input(t)
         /\ \E k \in Reloaded(snap[p], o) : \E c \in Recovered(auth, t, k) :
              Commit(p, "change", Updated(auth, t, n, o, c),
                     c /\ (carried \/ snap[p].cool))
    BY Zenon, <1>5 DEF Reload
  <2>k. PICK k \in Reloaded(snap[p], o) : \E c \in Recovered(auth, t, k) :
              Commit(p, "change", Updated(auth, t, n, o, c),
                     c /\ (carried \/ snap[p].cool))
    BY Zenon, <2>2
  <2>3. PICK c \in Recovered(auth, t, k) :
              Commit(p, "change", Updated(auth, t, n, o, c),
                     c /\ (carried \/ snap[p].cool))
    BY Zenon, <2>k
  <2>4. k \in BOOLEAN
    BY Zenon, <2>1 DEF Reloaded
  <2>5. c \in BOOLEAN
    BY Zenon, <2>4, RecoveredType
  <2>6. Updated(auth, t, n, o, c) \in Auths /\ (c /\ (carried \/ snap[p].cool)) \in BOOLEAN
    BY Zenon, <1>0, <2>1, <2>5, UpdatedType
  <2>7. skip' \in [Ops -> BOOLEAN] /\ token' \in Nat /\ calls' \in Nat
    BY Zenon, <1>0, <1>5, <1>s, <2>2, Inputs DEF Reload
  <2> QED BY Zenon, <1>0, <2>3, <2>6, <2>7, Commits
<1>6. CASE PatchAuth(p)
  <2>1. auth \in Auths /\ auth.cool \in BOOLEAN /\ auth.tok \in Nat
    BY Zenon, <1>0, <1>6, Fields DEF PatchAuth
  <2>2. PICK n \in Notes, o \in BOOLEAN :
          Commit(p, "change", Updated(auth, auth.tok, n, o, auth.cool), carried /\ auth.cool)
    BY Zenon, <1>6 DEF PatchAuth
  <2>3. Updated(auth, auth.tok, n, o, auth.cool) \in Auths /\ (carried /\ auth.cool) \in BOOLEAN
    BY Zenon, <1>0, <2>1, UpdatedType
  <2>4. skip' \in [Ops -> BOOLEAN] /\ token' \in Nat /\ calls' \in Nat
    BY Zenon, <1>0, <1>6, <1>s DEF PatchAuth
  <2> QED BY Zenon, <1>0, <2>2, <2>3, <2>4, Commits
<1>7. CASE Remove(p)
  <2>1. /\ pc' \in [Ops -> Controls] /\ job' \in [Ops -> Jobs]
        /\ snap' \in [Ops -> Auths] /\ out' \in [Ops -> Auths]
    BY Zenon, <1>0, <1>c, <1>7, Becomes, BlankType DEF Remove
  <2> QED BY Zenon, <1>7, <2>1 DEF TypeOK, Remove
<1>8. CASE Delete(p)
  <2>1. pc' \in [Ops -> Controls]
    BY Zenon, <1>8 DEF TypeOK, Delete, Goto, Controls
  <2> QED BY Zenon, <1>8, <1>n, <2>1 DEF TypeOK, Delete
<1>9. CASE MarkResult(p)
  <2> DEFINE a == [auth EXCEPT !.gen = @ + 1]
             why == <<snap[p].epoch, snap[p].availability>>
  <2>1. auth \in Auths
    BY Zenon, <1>0, <1>9 DEF MarkResult, resultMatchesCredential
  <2>2. /\ a \in Auths /\ Booked(auth, 1, FALSE) \in Auths /\ Booked(auth, 1, TRUE) \in Auths
        /\ why \in Nat \X Nat
    BY Zenon, <1>0, <2>1, CountedType, BookedEither, Fields
  <2>3. \/ Record(p, "wait", "change", a, blame, carried)
        \/ Record(p, "wait", "change", Booked(auth, 1, FALSE), blame, FALSE)
        \/ Record(p, "wait", "change", Booked(auth, 1, TRUE), why, FALSE)
    BY Zenon, <1>9 DEF MarkResult, Booked
  <2>4. calls' \in Nat
    BY Zenon, <1>0, <1>9 DEF MarkResult
  <2> HIDE DEF a, why
  <2> QED BY Zenon, <1>0, <1>c, <2>2, <2>3, <2>4, Books
<1>10. CASE RecordNeutralResult(p)
  <2>1. auth \in Auths
    BY Zenon, <1>0, <1>10 DEF RecordNeutralResult, resultMatchesCredential
  <2>2. [auth EXCEPT !.gen = @ + 1] \in Auths
    BY Zenon, <2>1, CountedType
  <2> QED BY Zenon, <1>0, <1>c, <1>10, <2>2, Books DEF RecordNeutralResult
<1>11. CASE ResetQuota(p)
  <2> DEFINE n == 1 + Flag(auth.cool)
             a == [auth EXCEPT !.gen = @ + n, !.availability = @ + n, !.cool = FALSE]
  <2>1. auth \in Auths
    BY Zenon, <1>0, <1>11 DEF ResetQuota
  <2>2. n \in Nat
    BY DEF Flag
  <2>3. a \in Auths
    <3> HIDE DEF n
    <3> QED BY Zenon, <2>1, <2>2, ResetType
  <2>4. Record(p, "wait", "change", a, blame, FALSE) /\ calls' \in Nat
    BY Zenon, <1>11, <1>n DEF ResetQuota
  <2> HIDE DEF a
  <2> QED BY Zenon, <1>0, <1>c, <2>3, <2>4, Books
<1>12. CASE ReconcileModelStates(p)
  <2>1. auth \in Auths /\ auth.cool \in BOOLEAN /\ calls' \in Nat
    BY Zenon, <1>0, <1>12, <1>n, Fields DEF ReconcileModelStates
  <2>2. CASE Record(p, "wait", "change", auth, blame, carried)
    BY Zenon, <1>0, <1>c, <2>1, <2>2, Books
  <2>3. ASSUME NEW c \in {auth.cool, FALSE},
               Record(p, "wait", "change", [auth EXCEPT !.gen = @ + 1, !.cool = c], blame, carried /\ c)
        PROVE  TypeOK'
    <3>1. c \in BOOLEAN /\ (carried /\ c) \in BOOLEAN
      BY Zenon, <2>1
    <3>2. Booked(auth, 1, c) \in Auths
      <4>1. auth \in Auths /\ c \in BOOLEAN
        BY Zenon, <2>1, <3>1
      <4> QED BY <4>1, BookedOnce, Zenon
    <3>3. Record(p, "wait", "change", Booked(auth, 1, c), blame, carried /\ c)
      <4>1. [auth EXCEPT !.gen = @ + 1, !.cool = c] = Booked(auth, 1, c)
        BY Zenon, <2>1, <3>1, Reconciled
      <4> QED BY Zenon, <2>3, <4>1
    <3> QED BY Zenon, <1>0, <1>c, <2>1, <3>1, <3>2, <3>3, Books
  <2> QED BY Zenon, <1>12, <2>2, <2>3 DEF ReconcileModelStates
<1>13. CASE ClearCooldown(p)
  <2>1. auth \in Auths /\ calls' \in Nat
    BY Zenon, <1>0, <1>13, <1>n DEF ClearCooldown
  <2>2. [auth EXCEPT !.gen = @ + 1, !.availability = @ + 1, !.cool = FALSE] \in Auths
    BY Zenon, <2>1, ResetType
  <2> QED BY Zenon, <1>0, <1>c, <1>13, <2>1, <2>2, Books DEF ClearCooldown
<1>14. CASE MarkRefreshPending(p)
  <2>1. auth \in Auths /\ calls' \in Nat
    BY Zenon, <1>0, <1>14, <1>n DEF MarkRefreshPending
  <2>2. [auth EXCEPT !.gen = @ + 1] \in Auths
    BY Zenon, <2>1, CountedType
  <2>3. /\ auth' \in Auths \cup {None} /\ shownGen' \in Nat
        /\ dirty' \in BOOLEAN /\ gone' \in BOOLEAN /\ carried' \in BOOLEAN
        /\ blame' \in Nat \X Nat
    BY Zenon, <1>0, <1>14, <2>2, Installs DEF MarkRefreshPending
  <2> QED BY Zenon, <1>14, <2>1, <2>3 DEF TypeOK, MarkRefreshPending, opVars
<1>15. CASE RefreshSchedulerEntry(p)
  <2>1. pc' \in [Ops -> Controls]
    BY Zenon, <1>15 DEF TypeOK, RefreshSchedulerEntry, Goto, Controls
  <2> QED BY Zenon, <1>15, <2>1 DEF TypeOK, RefreshSchedulerEntry
<1>16. CASE SyncScheduler(p)
  <2>1. schedEpoch' \in Nat /\ schedGen' \in Nat /\ sched' \in Auths \cup {None}
    BY Zenon, <1>0, <1>16, Upserts DEF TypeOK, SyncScheduler, rebuild
  <2> QED BY Zenon, <1>16, <1>n, <2>1 DEF TypeOK, SyncScheduler, opVars
<1>17. ASSUME NEW l \in LockNames, Enter(p, l), calls' \in Nat
       PROVE  TypeOK'
  <2>1. auth \in Auths /\ l \in Jobs
    BY Zenon, <1>0, <1>17 DEF Enter, Jobs
  <2>2. /\ pc' \in [Ops -> Controls] /\ job' \in [Ops -> Jobs]
        /\ snap' \in [Ops -> Auths] /\ out' \in [Ops -> Auths]
    BY Zenon, <1>c, <1>17, <2>1, Becomes DEF Enter
  <2>3. locks' \in [LockNames -> Ops \cup {None}]
    BY Zenon, <1>17 DEF TypeOK, Enter
  <2> QED BY Zenon, <1>17, <2>2, <2>3 DEF TypeOK, Enter
<1>18. AutoRefresh(p) \/ RefreshForRequest(p) \/ PrepareRequestAuth(p) => TypeOK'
  <2>1. AutoRefresh(p) \/ RefreshForRequest(p) \/ PrepareRequestAuth(p)
          => calls' \in Nat /\ (Enter(p, "refresh") \/ Enter(p, "prepare"))
    BY Zenon, <1>0, <1>n DEF AutoRefresh, RefreshForRequest, PrepareRequestAuth
  <2> QED BY Zenon, <1>17, <2>1 DEF LockNames
<1> QED BY Zenon, <1>1, <1>2, <1>3, <1>4, <1>5, <1>6, <1>7, <1>8, <1>9, <1>10, <1>11, <1>12, <1>13,
           <1>14, <1>15, <1>16, <1>18 DEF Begin

\* Every step keeps the types.
LEMMA NextType == TypeOK /\ [Next]_vars => TypeOK'
<1> SUFFICES ASSUME TypeOK, [Next]_vars PROVE TypeOK'
  BY Zenon
<1>1. CASE WriteFile
  <2>1. PICK t \in 1..MaxTokens, n \in Notes :
          Input(t) /\ file' = [tok |-> t, note |-> n, off |-> FALSE]
    BY Zenon, <1>1 DEF WriteFile
  <2>2. t \in Nat /\ file' \in Records
    BY <2>1, ConstantsAssumption DEF Records
  <2>3. token' \in Nat
    BY Zenon, <2>1, <2>2, Inputs
  <2> QED BY Zenon, <1>1, <2>2, <2>3 DEF TypeOK, WriteFile, memVars, schedVars, opVars
<1>2. CASE UNCHANGED vars
  BY Zenon, <1>2 DEF TypeOK, vars, memVars, storeVars, schedVars, opVars, history
<1> QED BY Zenon, <1>1, <1>2, BeginType, StepType DEF Next

\* The manager starts with values of the right types.
LEMMA InitType == Init => TypeOK
<1> SUFFICES ASSUME Init PROVE TypeOK
  BY Zenon
<1>1. auth \in Auths
  BY DEF Init, Auths
<1>2. file \in Records /\ sched \in Auths \cup {None}
  BY Zenon, <1>1, DurableType DEF Init
<1>3. /\ pc \in [Ops -> Controls] /\ job \in [Ops -> Jobs]
      /\ snap \in [Ops -> Auths] /\ out \in [Ops -> Auths]
  BY Zenon, BlankType DEF Init, Controls, Jobs
<1> QED BY Zenon, <1>1, <1>2, <1>3 DEF Init, TypeOK

\* Entries, records, snapshots, locks and counters keep their types, whatever the
\* operations of the manager do.
THEOREM TypeCorrect == Spec => []TypeOK
BY InitType, NextType, PTL DEF Spec

-----------------------------------------------------------------------------
(* What the actions do, by kind.  Most actions are one of four: they leave *)
(* the copies alone, commit an update, book a result, or fail a refresh.   *)

\* An action of p leaves the other operations alone.
OthersKept(p) ==
    \A q \in Ops \ {p} : /\ pc'[q] = pc[q] /\ job'[q] = job[q]
                         /\ snap'[q] = snap[q] /\ out'[q] = out[q]

\* p looks at the credential, or talks to the upstream.
Quiet(p) ==
    /\ OthersKept(p)
    /\ UNCHANGED <<memVars, storeVars, schedVars, history>>
    /\ pc[p] \in {"idle", "held", "upstream", "commit", "failed"}
    /\ pc'[p] \in {"idle", "held", "upsert", "upstream", "commit", "failed"}
    /\ pc'[p] \in {"upstream", "failed", "commit"} => job'[p] \in LockNames
    /\ snap'[p] = snap[p] \/ snap'[p] = Blank \/ (auth # None /\ snap'[p] = auth)

\* The entry becomes a in the same registration.
Changes(a) ==
    /\ auth # None /\ auth' = a
    /\ a \in Auths /\ a.epoch = auth.epoch
    /\ a.gen > auth.gen \/ a = auth
    /\ shownGen' = IF View(a) = View(auth) THEN shownGen ELSE a.gen
    /\ UNCHANGED <<epochs, lastEpoch, lastGen, file, dirty, gone>>

\* An update under the persistence lock.
Committing(p, a) ==
    /\ Changes(a) /\ OthersKept(p) /\ UNCHANGED schedVars
    /\ pLock = None /\ pLock' = p
    /\ pc[p] \in {"idle", "held", "commit"}
    /\ pc'[p] = "persist" /\ snap'[p] = a /\ job'[p] # "neutral"

\* Bookkeeping.
Recording(p, a) ==
    /\ Changes(a) /\ OthersKept(p) /\ UNCHANGED <<pLock, schedVars>>
    /\ Durable(a) = Durable(auth)
    /\ pc[p] \in {"idle", "held"}
    /\ \/ /\ pc'[p] \in {"wait", "upsert"} /\ snap'[p] = a
          /\ View(a) = View(auth) \/ job'[p] # "neutral"
       \/ pc'[p] = pc[p] /\ snap'[p] = snap[p] /\ View(a) = View(auth)

\* A failed refresh.
Failing(p, a) ==
    /\ Changes(a) /\ OthersKept(p) /\ UNCHANGED pLock
    /\ Durable(a) = Durable(auth)
    /\ pc[p] = "failed" /\ pc'[p] = "idle" /\ snap'[p] = Blank
    /\ upsertAuth(a)

\* The other operations are not touched by what p becomes.
LEMMA OthersBecome ==
    ASSUME TypeOK, NEW p \in Ops, NEW c, NEW j, NEW s, Become(p, c, j, s)
    PROVE  OthersKept(p) /\ pc'[p] = c /\ job'[p] = j /\ snap'[p] = s
BY Zenon DEF TypeOK, Become, Goto, OthersKept

\* Nor by the end of p.
LEMMA OthersStop ==
    ASSUME TypeOK, NEW p \in Ops, Stop(p)
    PROVE  OthersKept(p) /\ pc'[p] = "idle" /\ snap'[p] = Blank
BY Zenon DEF TypeOK, Stop, Goto, OthersKept

\* Nor by the end of its write.
LEMMA OthersWritten ==
    ASSUME TypeOK, NEW p \in Ops, Written(p)
    PROVE  /\ OthersKept(p)
           /\ IF job[p] = "neutral" THEN pc'[p] = "idle" /\ snap'[p] = Blank
              ELSE pc'[p] = "upsert" /\ snap'[p] = snap[p]
<1>1. CASE job[p] = "neutral"
  BY Zenon, <1>1, OthersStop DEF Written
<1>2. CASE job[p] # "neutral"
  BY Zenon, <1>2 DEF TypeOK, Written, Goto, OthersKept
<1> QED BY Zenon, <1>1, <1>2

\* Nor by a move of p alone.
LEMMA OthersGoto ==
    ASSUME TypeOK, NEW p \in Ops, NEW c, Goto(p, c), UNCHANGED <<job, snap>>,
           \A q \in Ops \ {p} : out'[q] = out[q]
    PROVE  OthersKept(p) /\ pc'[p] = c /\ job'[p] = job[p] /\ snap'[p] = snap[p]
BY Zenon DEF TypeOK, Goto, OthersKept

\* A commit of updateInternal.
LEMMA CommitIsCommitting ==
    ASSUME TypeOK, NEW p \in Ops, NEW j, NEW a \in Auths, NEW kept,
           auth # None, a.epoch = auth.epoch, a.gen > auth.gen,
           Commit(p, j, a, kept), pLock = None, j # "neutral",
           pc[p] \in {"idle", "held", "commit"}
    PROVE  Committing(p, a)
<1>1. OthersKept(p) /\ pc'[p] = "persist" /\ job'[p] = j /\ snap'[p] = a
  BY Zenon, OthersBecome DEF Commit
<1>2. Changes(a)
  BY Zenon DEF Commit, Install, Changes
<1> QED BY Zenon, <1>1, <1>2 DEF Commit, Committing

\* A bookkeeping operation.
LEMMA RecordIsRecording ==
    ASSUME TypeOK, NEW p \in Ops, NEW c \in {"wait", "upsert"}, NEW j, NEW a \in Auths,
           NEW why, NEW kept,
           auth # None, a.epoch = auth.epoch, a.gen > auth.gen \/ a = auth,
           Durable(a) = Durable(auth), View(a) = View(auth) \/ j # "neutral",
           Record(p, c, j, a, why, kept), pc[p] \in {"idle", "held"}
    PROVE  Recording(p, a)
<1>1. OthersKept(p) /\ pc'[p] = c /\ job'[p] = j /\ snap'[p] = a
  BY Zenon, OthersBecome DEF Record
<1>2. Changes(a) /\ UNCHANGED <<pLock, schedVars>>
  BY Zenon DEF Record, Install, Changes, storeVars
<1> QED BY Zenon, <1>1, <1>2 DEF Recording

\* The kinds of the calls and of the uses of a snapshot.
LEMMA BeginKinds ==
    ASSUME TypeOK, NEW p \in Ops, Begin(p)
    PROVE  \/ Quiet(p)
           \/ \E a \in Auths : Committing(p, a) \/ Recording(p, a)
           \/ Register(p) \/ Remove(p) \/ Delete(p) \/ SyncScheduler(p)
<1>0. /\ auth # None => auth \in Auths
      /\ carried \in BOOLEAN /\ 1..MaxTokens \subseteq Nat
      /\ snap[p] \in Auths /\ job[p] \in Jobs
  BY ConstantsAssumption DEF TypeOK
<1>i. Call(p) => pc[p] = "idle"
  BY Zenon DEF Call
<1>1. CASE Look(p)
  <2>1. auth # None /\ Become(p, "held", "change", auth)
    BY Zenon, <1>1 DEF Look
  <2>2. OthersKept(p) /\ pc'[p] = "held" /\ snap'[p] = auth
    BY Zenon, <2>1, OthersBecome
  <2> QED BY Zenon, <1>1, <1>i, <2>1, <2>2 DEF Look, Quiet
<1>2. CASE Leave(p)
  BY Zenon, <1>2, OthersStop DEF Leave, Quiet
<1>4. CASE Update(p)
  <2>1. auth # None /\ auth \in Auths /\ auth.cool \in BOOLEAN /\ pc[p] = "idle" /\ pLock = None
    BY Zenon, <1>0, <1>i, <1>4, Fields DEF Update
  <2>2. PICK t \in 1..MaxTokens, n \in Notes, o \in BOOLEAN :
         \E c \in Recovered(auth, t, auth.cool /\ ~o) :
              Commit(p, "change", Updated(auth, t, n, o, c), carried /\ c)
    BY Zenon, <1>4 DEF Update
  <2>3. PICK c \in Recovered(auth, t, auth.cool /\ ~o) :
              Commit(p, "change", Updated(auth, t, n, o, c), carried /\ c)
    BY Zenon, <2>2
  <2>4. c \in BOOLEAN
    BY Zenon, <2>1, RecoveredType
  <2> DEFINE u == Updated(auth, t, n, o, c)
  <2>5. u \in Auths /\ u.epoch = auth.epoch /\ u.gen > auth.gen
    BY <1>0, <2>1, <2>4, UpdatedType
  <2> HIDE DEF u
  <2>6. Commit(p, "change", u, carried /\ c)
    BY Zenon, <2>3 DEF u
  <2> QED BY Zenon, <2>1, <2>5, <2>6, CommitIsCommitting
<1>5. CASE Reload(p)
  <2>1. auth # None /\ auth \in Auths /\ auth.cool \in BOOLEAN /\ snap[p].cool \in BOOLEAN
        /\ pc[p] = "held" /\ pLock = None
    BY Zenon, <1>0, <1>5, Fields DEF Reload
  <2>2. PICK t \in 1..MaxTokens, n \in Notes, o \in BOOLEAN :
         \E k \in Reloaded(snap[p], o) : \E c \in Recovered(auth, t, k) :
              Commit(p, "change", Updated(auth, t, n, o, c),
                     c /\ (carried \/ snap[p].cool))
    BY Zenon, <1>5 DEF Reload
  <2>k. PICK k \in Reloaded(snap[p], o) : \E c \in Recovered(auth, t, k) :
              Commit(p, "change", Updated(auth, t, n, o, c),
                     c /\ (carried \/ snap[p].cool))
    BY Zenon, <2>2
  <2>3. PICK c \in Recovered(auth, t, k) :
              Commit(p, "change", Updated(auth, t, n, o, c),
                     c /\ (carried \/ snap[p].cool))
    BY Zenon, <2>k
  <2>4. k \in BOOLEAN
    BY Zenon, <2>1 DEF Reloaded
  <2>5. c \in BOOLEAN
    BY Zenon, <2>4, RecoveredType
  <2> DEFINE u == Updated(auth, t, n, o, c)
  <2>6. u \in Auths /\ u.epoch = auth.epoch /\ u.gen > auth.gen
    BY <1>0, <2>1, <2>5, UpdatedType
  <2> HIDE DEF u
  <2>7. Commit(p, "change", u, c /\ (carried \/ snap[p].cool))
    BY Zenon, <2>3 DEF u
  <2> QED BY Zenon, <2>1, <2>6, <2>7, CommitIsCommitting
<1>6. CASE PatchAuth(p)
  <2>1. auth # None /\ auth \in Auths /\ auth.cool \in BOOLEAN /\ auth.tok \in Nat
        /\ pc[p] = "held" /\ pLock = None
    BY Zenon, <1>0, <1>6, Fields DEF PatchAuth
  <2>2. PICK n \in Notes, o \in BOOLEAN :
          Commit(p, "change", Updated(auth, auth.tok, n, o, auth.cool), carried /\ auth.cool)
    BY Zenon, <1>6 DEF PatchAuth
  <2> DEFINE u == Updated(auth, auth.tok, n, o, auth.cool)
  <2>3. u \in Auths /\ u.epoch = auth.epoch /\ u.gen > auth.gen
    BY <2>1, UpdatedType
  <2> HIDE DEF u
  <2>4. Commit(p, "change", u, carried /\ auth.cool)
    BY Zenon, <2>2 DEF u
  <2> QED BY Zenon, <2>1, <2>3, <2>4, CommitIsCommitting
<1>9. CASE MarkResult(p)
  <2> DEFINE a == [auth EXCEPT !.gen = @ + 1]
             on == Booked(auth, 1, TRUE)
             off == Booked(auth, 1, FALSE)
  <2>1. auth # None /\ auth \in Auths /\ auth.gen \in Nat /\ pc[p] = "held"
    BY Zenon, <1>0, <1>9, Fields DEF MarkResult, resultMatchesCredential
  <2>a. a \in Auths /\ a.epoch = auth.epoch /\ a.gen = auth.gen + 1 /\ Durable(a) = Durable(auth)
    BY Zenon, <2>1, CountedType
  <2>b. on \in Auths /\ on.epoch = auth.epoch /\ on.gen = auth.gen + 1 /\ Durable(on) = Durable(auth)
    BY <2>1, BookedEither, Zenon
  <2>c. off \in Auths /\ off.epoch = auth.epoch /\ off.gen = auth.gen + 1 /\ Durable(off) = Durable(auth)
    BY <2>1, BookedEither, Zenon
  <2>3. \E u \in {a, on, off} : \E why, kept : Record(p, "wait", "change", u, why, kept)
    BY Zenon, <1>9 DEF MarkResult, Booked
  <2> HIDE DEF a, on, off
  <2>2. \A u \in {a, on, off} : u \in Auths /\ u.epoch = auth.epoch /\ u.gen = auth.gen + 1
                               /\ Durable(u) = Durable(auth)
    BY Zenon, <2>a, <2>b, <2>c
  <2>4. PICK u \in {a, on, off} : \E why, kept : Record(p, "wait", "change", u, why, kept)
    BY Zenon, <2>3
  <2>5. u.gen > auth.gen
    BY <2>1, <2>2
  <2> QED BY Zenon, <2>1, <2>2, <2>4, <2>5, RecordIsRecording
<1>10. CASE RecordNeutralResult(p)
  <2> DEFINE a == [auth EXCEPT !.gen = @ + 1]
  <2>1. auth # None /\ auth \in Auths /\ auth.gen \in Nat /\ pc[p] = "held"
    BY Zenon, <1>0, <1>10, Fields DEF RecordNeutralResult, resultMatchesCredential
  <2>2. /\ a \in Auths /\ a.epoch = auth.epoch /\ a.gen = auth.gen + 1
        /\ Durable(a) = Durable(auth) /\ View(a) = View(auth)
    BY Zenon, <2>1, CountedType
  <2>3. Record(p, "wait", "neutral", a, blame, carried)
    BY Zenon, <1>10 DEF RecordNeutralResult
  <2> HIDE DEF a
  <2>4. a.gen > auth.gen
    BY <2>1, <2>2
  <2> QED BY Zenon, <2>1, <2>2, <2>3, <2>4, RecordIsRecording
<1>11. CASE ResetQuota(p)
  <2> DEFINE n == 1 + Flag(auth.cool)
             a == [auth EXCEPT !.gen = @ + n, !.availability = @ + n, !.cool = FALSE]
  <2>1. auth # None /\ auth \in Auths /\ auth.gen \in Nat /\ pc[p] = "idle"
    BY Zenon, <1>0, <1>i, <1>11, Fields DEF ResetQuota
  <2>2. n \in Nat /\ n > 0
    BY DEF Flag
  <2>3. a \in Auths /\ a.epoch = auth.epoch /\ a.gen = auth.gen + n /\ Durable(a) = Durable(auth)
    <3> HIDE DEF n
    <3> QED BY Zenon, <2>1, <2>2, ResetType
  <2>4. Record(p, "wait", "change", a, blame, FALSE)
    BY Zenon, <1>11 DEF ResetQuota
  <2> HIDE DEF a, n
  <2>5. a.gen > auth.gen
    BY <2>1, <2>2, <2>3
  <2> QED BY Zenon, <2>1, <2>3, <2>4, <2>5, RecordIsRecording
<1>12. CASE ReconcileModelStates(p)
  <2>1. auth # None /\ auth \in Auths /\ auth.gen \in Nat /\ auth.cool \in BOOLEAN /\ pc[p] = "idle"
    BY Zenon, <1>0, <1>i, <1>12, Fields DEF ReconcileModelStates
  <2>2. CASE Record(p, "wait", "change", auth, blame, carried)
    BY Zenon, <2>1, <2>2, RecordIsRecording
  <2>3. CASE \E c \in {auth.cool, FALSE} :
            Record(p, "wait", "change", [auth EXCEPT !.gen = @ + 1, !.cool = c], blame, carried /\ c)
    <3>1. PICK c \in {auth.cool, FALSE} :
            Record(p, "wait", "change", [auth EXCEPT !.gen = @ + 1, !.cool = c], blame, carried /\ c)
      BY Zenon, <2>3
    <3> DEFINE a == Booked(auth, 1, c)
    <3>2. c \in BOOLEAN
      BY Zenon, <2>1
    <3>3. a \in Auths /\ a.epoch = auth.epoch /\ a.gen = auth.gen + 1 /\ Durable(a) = Durable(auth)
      <4>1. auth \in Auths
        BY Zenon, <2>1
      <4> QED BY <3>2, <4>1, BookedOnce, Zenon
    <3>4. Record(p, "wait", "change", a, blame, carried /\ c)
      <4>1. [auth EXCEPT !.gen = @ + 1, !.cool = c] = a
        BY Zenon, <2>1, <3>2, Reconciled
      <4> QED BY Zenon, <3>1, <4>1
    <3> HIDE DEF a
    <3>5. a.gen > auth.gen
      BY <2>1, <3>3
    <3> QED BY Zenon, <2>1, <3>3, <3>4, <3>5, RecordIsRecording
  <2> QED BY Zenon, <1>12, <2>2, <2>3 DEF ReconcileModelStates
<1>13. CASE ClearCooldown(p)
  <2> DEFINE a == [auth EXCEPT !.gen = @ + 1, !.availability = @ + 1, !.cool = FALSE]
  <2>1. auth # None /\ auth \in Auths /\ auth.gen \in Nat /\ pc[p] = "idle"
    BY Zenon, <1>0, <1>i, <1>13, Fields DEF ClearCooldown
  <2>2. a \in Auths /\ a.epoch = auth.epoch /\ a.gen = auth.gen + 1 /\ Durable(a) = Durable(auth)
    BY Zenon, <2>1, ResetType
  <2>3. Record(p, "upsert", "change", a, blame, FALSE)
    BY Zenon, <1>13 DEF ClearCooldown
  <2> HIDE DEF a
  <2>4. a.gen > auth.gen
    BY <2>1, <2>2
  <2> QED BY Zenon, <2>1, <2>2, <2>3, <2>4, RecordIsRecording
<1>14. CASE MarkRefreshPending(p)
  <2> DEFINE a == [auth EXCEPT !.gen = @ + 1]
  <2>1. auth # None /\ auth \in Auths /\ auth.gen \in Nat /\ pc[p] = "idle"
    BY Zenon, <1>0, <1>i, <1>14, Fields DEF MarkRefreshPending
  <2>2. /\ a \in Auths /\ a.epoch = auth.epoch /\ a.gen = auth.gen + 1
        /\ Durable(a) = Durable(auth) /\ View(a) = View(auth)
    BY Zenon, <2>1, CountedType
  <2>3. Install(a, blame, carried) /\ UNCHANGED <<epochs, storeVars, schedVars, opVars>>
    BY Zenon, <1>14 DEF MarkRefreshPending
  <2> HIDE DEF a
  <2>4. a.gen > auth.gen
    BY <2>1, <2>2
  <2>5. Changes(a)
    BY Zenon, <2>1, <2>2, <2>3, <2>4 DEF Changes, Install, storeVars
  <2>6. OthersKept(p) /\ pc'[p] = pc[p] /\ snap'[p] = snap[p] /\ UNCHANGED <<pLock, schedVars>>
    BY Zenon, <2>3 DEF OthersKept, opVars, storeVars
  <2> QED BY Zenon, <2>1, <2>2, <2>5, <2>6 DEF Recording
<1>15. CASE RefreshSchedulerEntry(p)
  <2>1. OthersKept(p) /\ pc'[p] = "upsert" /\ snap'[p] = snap[p]
    BY Zenon, <1>15, OthersGoto DEF RefreshSchedulerEntry
  <2> QED BY Zenon, <1>15, <2>1 DEF RefreshSchedulerEntry, Quiet
<1>17. ASSUME NEW l \in LockNames, Enter(p, l), pc[p] \in {"idle", "held"}
       PROVE  Quiet(p)
  <2>1. auth # None /\ Become(p, "upstream", l, auth)
    BY Zenon, <1>17 DEF Enter
  <2>2. OthersKept(p) /\ pc'[p] = "upstream" /\ snap'[p] = auth /\ job'[p] = l
    BY Zenon, <2>1, OthersBecome
  <2> QED BY Zenon, <1>17, <2>1, <2>2 DEF Enter, Quiet
<1>18. AutoRefresh(p) \/ RefreshForRequest(p) \/ PrepareRequestAuth(p) => Quiet(p)
  <2>1. AutoRefresh(p) \/ RefreshForRequest(p) \/ PrepareRequestAuth(p)
          => pc[p] \in {"idle", "held"} /\ (Enter(p, "refresh") \/ Enter(p, "prepare"))
    BY Zenon, <1>i DEF AutoRefresh, RefreshForRequest, PrepareRequestAuth
  <2> QED BY Zenon, <1>17, <2>1 DEF LockNames
<1> QED BY Zenon, <1>1, <1>2, <1>4, <1>5, <1>6, <1>9, <1>10, <1>11, <1>12, <1>13,
           <1>14, <1>15, <1>18 DEF Begin

\* The kinds of the steps of an operation.
LEMMA StepKinds ==
    ASSUME TypeOK, LockInv, NEW p \in Ops, Step(p)
    PROVE  \/ Quiet(p)
           \/ \E a \in Auths : Committing(p, a) \/ Failing(p, a)
           \/ Persist(p) \/ Save(p) \/ Upsert(p)
           \/ DeleteRecord(p) \/ Drop(p) \/ Tombstone(p)
<1>0. /\ auth # None => auth \in Auths
      /\ snap[p] \in Auths /\ out[p] \in Auths /\ carried \in BOOLEAN
      /\ pc[p] \in {"upstream", "failed", "commit"} => job[p] \in LockNames
  BY Zenon DEF TypeOK, LockInv
<1>r. Return(p) => OthersKept(p) /\ pc'[p] = "idle" /\ snap'[p] = Blank
  BY Zenon, OthersStop DEF Return
<1>7. CASE Upstream(p)
  <2>0. pc[p] = "upstream" /\ UNCHANGED <<memVars, storeVars, schedVars, history>>
    BY Zenon, <1>7 DEF Upstream
  <2>1. CASE \E t : /\ out' = [out EXCEPT ![p] = [snap[p] EXCEPT !.tok = t]]
                    /\ Goto(p, "commit") /\ UNCHANGED <<job, snap>>
    <3>1. \A q \in Ops \ {p} : out'[q] = out[q]
      BY Zenon, <2>1 DEF TypeOK
    <3>2. OthersKept(p) /\ pc'[p] = "commit" /\ job'[p] = job[p] /\ snap'[p] = snap[p]
      BY Zenon, <2>1, <3>1, OthersGoto
    <3> QED BY Zenon, <1>0, <2>0, <3>2 DEF Quiet
  <2>2. CASE Goto(p, "failed") /\ UNCHANGED <<job, snap, out>>
    <3>2. OthersKept(p) /\ pc'[p] = "failed" /\ job'[p] = job[p] /\ snap'[p] = snap[p]
      BY Zenon, <2>2, OthersGoto
    <3> QED BY Zenon, <1>0, <2>0, <3>2 DEF Quiet
  <2>3. CASE Return(p)
    BY Zenon, <1>r, <2>0, <2>3 DEF Quiet
  <2> QED BY Zenon, <1>7, <2>1, <2>2, <2>3 DEF Upstream
<1>8. CASE RefreshFailed(p)
  <2>0. OthersKept(p) /\ pc[p] = "failed" /\ pc'[p] = "idle" /\ snap'[p] = Blank
        /\ UNCHANGED <<epochs, storeVars>>
    BY Zenon, <1>8, <1>r DEF RefreshFailed
  <2>1. CASE ~sameCredentialSnapshot(snap[p]) \/ auth.off
    <3>1. UNCHANGED <<auth, schedVars, history>>
      BY Zenon, <1>8, <2>1 DEF RefreshFailed
    <3> QED BY Zenon, <2>0, <3>1 DEF Quiet, memVars
  <2>2. CASE ~(~sameCredentialSnapshot(snap[p]) \/ auth.off)
    <3> DEFINE a == [auth EXCEPT !.gen = @ + 1]
               b == Booked(auth, 1, TRUE)
    <3>1. auth # None /\ auth \in Auths /\ auth.gen \in Nat
      BY Zenon, <1>0, <2>2, Fields DEF sameCredentialSnapshot
    <3>a. a \in Auths /\ a.epoch = auth.epoch /\ a.gen = auth.gen + 1 /\ Durable(a) = Durable(auth)
      BY Zenon, <3>1, CountedType
    <3>b. b \in Auths /\ b.epoch = auth.epoch /\ b.gen = auth.gen + 1 /\ Durable(b) = Durable(auth)
      BY <3>1, BookedEither, Zenon
    <3>3. \E u \in {a, b} : \E why, kept : Install(u, why, kept) /\ upsertAuth(u)
      BY Zenon, <1>8, <2>2 DEF RefreshFailed, Booked
    <3> HIDE DEF a, b
    <3>2. \A u \in {a, b} : u \in Auths /\ u.epoch = auth.epoch /\ u.gen = auth.gen + 1
                            /\ Durable(u) = Durable(auth)
      BY Zenon, <3>a, <3>b
    <3>4. PICK u \in {a, b} : \E why, kept : Install(u, why, kept) /\ upsertAuth(u)
      BY Zenon, <3>3
    <3>5. u.gen > auth.gen
      BY <3>1, <3>2
    <3>6. Changes(u)
      BY Zenon, <2>0, <3>1, <3>2, <3>4, <3>5 DEF Install, Changes, storeVars
    <3> QED BY Zenon, <2>0, <3>2, <3>4, <3>6 DEF Failing, storeVars
  <2> QED BY Zenon, <2>1, <2>2
<1>9. CASE CommitAnswer(p)
  <2>1. auth # None /\ auth \in Auths /\ auth.note \in Notes \cup {None} /\ auth.off \in BOOLEAN
        /\ auth.cool \in BOOLEAN /\ out[p].tok \in Nat /\ pc[p] = "commit" /\ pLock = None
    BY Zenon, <1>0, <1>9, Fields DEF CommitAnswer, sameCredentialSnapshot
  <2>2. PICK c \in Merged(p, auth, snap[p]) :
          Commit(p, job[p], Updated(auth, out[p].tok, auth.note, auth.off, c), carried /\ c)
    BY Zenon, <1>9 DEF CommitAnswer
  <2>3. c \in BOOLEAN
    BY Zenon, <2>1, <2>2, RecoveredType DEF Merged
  <2> DEFINE u == Updated(auth, out[p].tok, auth.note, auth.off, c)
  <2>4. u \in Auths /\ u.epoch = auth.epoch /\ u.gen > auth.gen
    <3>1. auth \in Auths /\ out[p].tok \in Nat /\ auth.note \in Notes \cup {None} /\ auth.off \in BOOLEAN
      BY Zenon, <2>1
    <3>2. u \in Auths
      BY Zenon, <2>3, <3>1, UpdatedGrows
    <3>3. u.epoch = auth.epoch
      BY <2>3, <3>1, UpdatedGrows
    <3>4. u.gen > auth.gen
      BY Zenon, <2>3, <3>1, UpdatedGrows
    <3> QED BY Zenon, <3>2, <3>3, <3>4
  <2>5. job[p] # "neutral"
    BY Zenon, <1>0, <2>1 DEF LockNames
  <2> HIDE DEF u
  <2>6. Commit(p, job[p], u, carried /\ c)
    BY Zenon, <2>2 DEF u
  <2> QED BY Zenon, <2>1, <2>4, <2>5, <2>6, CommitIsCommitting
<1>10. CASE DropAnswer(p)
  BY Zenon, <1>10, <1>r DEF DropAnswer, Quiet
<1> QED BY Zenon, <1>7, <1>8, <1>9, <1>10 DEF Step

-----------------------------------------------------------------------------
(* The copies, one kind of action at a time. *)

\* Looking and calling the upstream.
LEMMA QuietKeeps ==
    ASSUME TypeOK, TypeOK', CopiesInv, NEW p \in Ops, Quiet(p)
    PROVE  CopiesInv'
<1> USE DEF CopiesInv
<1>0. /\ \A q \in Ops \ {p} : /\ pc'[q] = pc[q] /\ job'[q] = job[q]
                              /\ snap'[q] = snap[q] /\ out'[q] = out[q]
      /\ UNCHANGED <<memVars, storeVars, schedVars, history>>
      /\ pc[p] \in {"idle", "held", "upstream", "commit", "failed"}
      /\ pc'[p] \in {"idle", "held", "upsert", "upstream", "commit", "failed"}
      /\ pc'[p] \in {"upstream", "failed", "commit"} => job'[p] \in LockNames
      /\ snap'[p] = snap[p] \/ snap'[p] = Blank \/ (auth # None /\ snap'[p] = auth)
  BY Zenon DEF Quiet, OthersKept
<1>t. /\ epochs \in Nat /\ shownGen \in Nat
      /\ \A q \in Ops : snap[q].epoch \in Nat /\ snap[q].gen \in Nat
      /\ auth # None => auth.gen \in Nat
  BY Zenon, Fields DEF TypeOK
<1>1. LockInv'
  BY Zenon, <1>0 DEF LockInv, Locked, storeVars
<1>2. OrderInv'
  <2>1. snap'[p].epoch <= epochs /\ (auth = None => snap'[p].epoch < epochs)
        /\ (auth # None /\ snap'[p].epoch = epochs => snap'[p].gen <= auth.gen)
    BY <1>0, <1>t, BlankType DEF OrderInv
  <2>2. \A q \in Ops : snap'[q].epoch <= epochs /\ (auth = None => snap'[q].epoch < epochs)
        /\ (auth # None /\ snap'[q].epoch = epochs => snap'[q].gen <= auth.gen)
    BY Zenon, <1>0, <2>1 DEF OrderInv
  <2>3. UNCHANGED <<auth, epochs, lastEpoch, lastGen, schedEpoch, schedGen, shownGen>>
    BY Zenon, <1>0 DEF memVars, storeVars, schedVars, history
  <2> QED BY Zenon, <2>2, <2>3 DEF OrderInv
<1>3. TombInv'
  BY Zenon, <1>0 DEF TombInv, memVars, storeVars, schedVars
<1>4. ViewInv'
  <2>1. auth # None /\ snap'[p].epoch = epochs /\ snap'[p].gen >= shownGen => View(snap'[p]) = View(auth)
    BY <1>0, <1>t, BlankType DEF ViewInv, OrderInv
  <2>2. UNCHANGED <<auth, epochs, shownGen>>
    BY Zenon, <1>0 DEF memVars, history
  <2> QED BY Zenon, <1>0, <2>1, <2>2 DEF ViewInv
<1>5. EntryInv'
  BY Zenon, <1>0 DEF EntryInv, memVars, schedVars, history
<1>6. ToldInv'
  <2>1. \A q \in Ops : Tells(q) => Tells(q)'
    BY Zenon, <1>0 DEF Tells, Telling, memVars, history
  <2>2. \A q \in Ops : pc[q] = "tombstone" => pc'[q] = "tombstone"
    BY Zenon, <1>0
  <2>3. UNCHANGED <<auth, epochs, schedEpoch, schedGen, sched, shownGen>>
    BY Zenon, <1>0 DEF memVars, schedVars, history
  <2> QED BY Zenon, <2>1, <2>2, <2>3 DEF ToldInv
<1>7. SaveInv'
  BY Zenon, <1>0 DEF SaveInv, memVars
<1>8. StoreInv'
  <2>1. \A q \in Ops : Writes(q) => Writes(q)'
    BY Zenon, <1>0 DEF Writes, memVars
  <2>2. UNCHANGED <<auth, file, dirty>>
    BY Zenon, <1>0 DEF memVars, storeVars, history
  <2> QED BY Zenon, <2>1, <2>2 DEF StoreInv
<1>9. NoResurrection'
  BY Zenon, <1>0 DEF NoResurrection, memVars, storeVars, history
<1> QED BY Zenon, <1>1, <1>2, <1>3, <1>4, <1>5, <1>6, <1>7, <1>8, <1>9

\* A change of the entry in its registration.
LEMMA ChangeFacts ==
    ASSUME TypeOK, CopiesInv, NEW a, Changes(a)
    PROVE  /\ auth \in Auths /\ a # None /\ a \in Auths /\ a.epoch = epochs /\ a.gen \in Nat
           /\ auth.gen \in Nat /\ a.gen >= auth.gen
           /\ auth.epoch = epochs /\ epochs \in Nat /\ epochs > 0
           /\ shownGen \in Nat /\ shownGen <= auth.gen
           /\ shownGen' \in Nat /\ shownGen' <= a.gen /\ shownGen' >= shownGen
           /\ View(a) = View(auth) => shownGen' = shownGen
           /\ View(a) # View(auth) => shownGen' = a.gen /\ a.gen > auth.gen
<1>1. auth \in Auths /\ a \in Auths
  BY Zenon DEF TypeOK, Changes
<1>2. a # None /\ a.gen \in Nat /\ auth.gen \in Nat /\ epochs \in Nat /\ shownGen \in Nat
  BY Zenon, <1>1, Fields DEF TypeOK
<1>3. auth.epoch = epochs /\ epochs > 0 /\ shownGen <= auth.gen
  BY Zenon DEF Changes, CopiesInv, OrderInv
<1>4. a.epoch = epochs /\ (a.gen > auth.gen \/ a = auth)
      /\ shownGen' = IF View(a) = View(auth) THEN shownGen ELSE a.gen
  BY Zenon, <1>3 DEF Changes
<1>5. a.gen >= auth.gen
  BY <1>2, <1>4
<1>6. View(a) = View(auth) => shownGen' = shownGen
  BY Zenon, <1>4
<1>7. View(a) # View(auth) => shownGen' = a.gen /\ a.gen > auth.gen
  BY Zenon, <1>4
<1>8. shownGen' \in Nat /\ shownGen' <= a.gen /\ shownGen' >= shownGen
  BY <1>2, <1>3, <1>5, <1>6, <1>7
<1> QED BY Zenon, <1>1, <1>2, <1>3, <1>4, <1>5, <1>6, <1>7, <1>8

\* It leaves the order, the snapshots and the scheduler's entry as they should be.
LEMMA ChangeKeeps ==
    ASSUME TypeOK, CopiesInv, NEW p \in Ops, NEW a, Changes(a), OthersKept(p),
           snap'[p] = a \/ snap'[p] = snap[p] \/ snap'[p] = Blank
    PROVE  /\ UNCHANGED <<schedEpoch, schedGen>> => OrderInv'
           /\ ViewInv'
           /\ UNCHANGED schedVars => EntryInv'
<1> USE DEF CopiesInv
<1>0. /\ \A q \in Ops \ {p} : snap'[q] = snap[q]
      /\ auth # None /\ auth' = a /\ UNCHANGED <<epochs, lastEpoch, lastGen>>
  BY Zenon DEF Changes, OthersKept
<1>f. /\ a # None /\ a.epoch = epochs /\ a.gen \in Nat
      /\ auth.gen \in Nat /\ a.gen >= auth.gen
      /\ epochs \in Nat /\ epochs > 0
      /\ shownGen \in Nat /\ shownGen <= auth.gen
      /\ shownGen' \in Nat /\ shownGen' <= a.gen
      /\ View(a) = View(auth) => shownGen' = shownGen
      /\ View(a) # View(auth) => shownGen' = a.gen /\ a.gen > auth.gen
  BY Zenon, ChangeFacts
<1>t. /\ \A q \in Ops : snap[q].epoch \in Nat /\ snap[q].gen \in Nat
      /\ lastGen \in Nat /\ schedGen \in Nat
  BY Zenon, Fields DEF TypeOK
<1>1. \A q \in Ops : snap'[q].epoch <= epochs /\ (snap'[q].epoch = epochs => snap'[q].gen <= a.gen)
  <2>1. \A q \in Ops : snap[q].epoch <= epochs /\ (snap[q].epoch = epochs => snap[q].gen <= auth.gen)
    BY Zenon, <1>0 DEF OrderInv
  <2>2. \A q \in Ops : snap[q].epoch <= epochs /\ (snap[q].epoch = epochs => snap[q].gen <= a.gen)
    BY <1>f, <1>t, <2>1
  <2>3. Blank.epoch <= epochs /\ Blank.epoch # epochs /\ a.epoch <= epochs /\ a.gen <= a.gen
    BY <1>f, BlankType
  <2> QED BY Zenon, <1>0, <2>2, <2>3
<1>2. ASSUME UNCHANGED <<schedEpoch, schedGen>> PROVE OrderInv'
  <2>1. lastEpoch = epochs => lastGen <= a.gen
    BY <1>0, <1>f, <1>t DEF OrderInv
  <2>2. schedEpoch = epochs => schedGen <= a.gen
    BY <1>0, <1>f, <1>t DEF OrderInv
  <2>3. lastEpoch <= epochs /\ schedEpoch <= epochs
    BY Zenon DEF OrderInv
  <2> QED BY Zenon, <1>0, <1>1, <1>2, <1>f, <2>1, <2>2, <2>3 DEF OrderInv
<1>3. ViewInv'
  <2>1. ASSUME NEW q \in Ops, snap'[q].epoch = epochs, snap'[q].gen >= shownGen'
        PROVE  View(snap'[q]) = View(a)
    <3>1. CASE snap'[q] = a
      BY Zenon, <3>1
    <3>2. CASE snap'[q] = Blank
      BY <2>1, <3>2, <1>f, BlankType
    <3>3. CASE snap'[q] = snap[q]
      <4>1. snap[q].gen <= auth.gen
        BY Zenon, <1>0, <2>1, <3>3 DEF OrderInv
      <4>2. View(a) = View(auth)
        BY <1>f, <1>t, <2>1, <3>3, <4>1
      <4> QED BY Zenon, <1>0, <1>f, <2>1, <3>3, <4>2 DEF ViewInv
    <3> QED BY Zenon, <1>0, <3>1, <3>2, <3>3
  <2> QED BY Zenon, <1>0, <2>1 DEF ViewInv
<1>4. ASSUME UNCHANGED schedVars PROVE EntryInv'
  <2>0. UNCHANGED <<schedEpoch, schedGen, sched>>
    BY Zenon, <1>4 DEF schedVars
  <2>1. ASSUME schedEpoch = epochs, schedGen >= shownGen'
        PROVE  IF a.off THEN sched = None ELSE sched # None /\ View(sched) = View(a)
    <3>1. schedGen <= auth.gen
      BY Zenon, <1>0, <2>1 DEF OrderInv
    <3>2. View(a) = View(auth)
      BY <1>f, <1>t, <2>1, <3>1
    <3>3. a.off = auth.off
      BY Zenon, <3>2 DEF View
    <3> QED BY Zenon, <1>0, <1>f, <2>1, <3>2, <3>3 DEF EntryInv
  <2> QED BY Zenon, <1>0, <2>0, <2>1 DEF EntryInv
<1> QED BY Zenon, <1>2, <1>3, <1>4

\* What somebody was going to tell the scheduler stays told or to be told.
LEMMA ChangeTold ==
    ASSUME TypeOK, CopiesInv, NEW p \in Ops, NEW a, Changes(a), OthersKept(p),
           UNCHANGED schedVars, ~Telling(p),
           \/ View(a) = View(auth)
           \/ Telling(p)' /\ pc'[p] # "tombstone" /\ snap'[p] = a
    PROVE  ToldInv'
<1> USE DEF CopiesInv
<1>0. /\ \A q \in Ops \ {p} : pc'[q] = pc[q] /\ job'[q] = job[q] /\ snap'[q] = snap[q]
      /\ auth # None /\ auth' = a /\ epochs' = epochs
      /\ UNCHANGED <<schedEpoch, schedGen, sched>>
  BY Zenon DEF Changes, OthersKept, schedVars
<1>f. a # None /\ a.epoch = epochs /\ a.gen \in Nat /\ shownGen' \in Nat /\ shownGen' <= a.gen
      /\ (View(a) = View(auth) => shownGen' = shownGen)
  BY Zenon, ChangeFacts
<1>1. CASE View(a) = View(auth)
  <2>1. \A q \in Ops : Tells(q) => Tells(q)'
    BY Zenon, <1>0, <1>1, <1>f DEF Tells, Telling
  <2> QED BY Zenon, <1>0, <1>1, <1>f, <2>1 DEF ToldInv
<1>2. CASE Telling(p)' /\ pc'[p] # "tombstone" /\ snap'[p] = a
  <2>1. Tells(p)'
    BY Zenon, <1>0, <1>2, <1>f DEF Tells
  <2> QED BY Zenon, <1>0, <1>f, <2>1 DEF ToldInv
<1> QED BY Zenon, <1>1, <1>2

\* An update under the persistence lock.
LEMMA CommittingKeeps ==
    ASSUME TypeOK, TypeOK', CopiesInv, NEW p \in Ops, NEW a, Committing(p, a)
    PROVE  CopiesInv'
<1> USE DEF CopiesInv
<1>0. /\ Changes(a) /\ OthersKept(p) /\ UNCHANGED schedVars
      /\ pLock = None /\ pLock' = p
      /\ pc[p] \in {"idle", "held", "commit"}
      /\ pc'[p] = "persist" /\ snap'[p] = a /\ job'[p] # "neutral"
  BY Zenon DEF Committing
<1>k. /\ \A q \in Ops \ {p} : pc'[q] = pc[q] /\ job'[q] = job[q] /\ out'[q] = out[q]
      /\ auth # None /\ auth' = a /\ epochs' = epochs /\ UNCHANGED <<file, gone>>
  BY Zenon, <1>0 DEF Changes, OthersKept
<1>u. \A q \in Ops : pc[q] \notin Locked
  BY Zenon, <1>0, ConstantsAssumption DEF LockInv
<1>f. a # None /\ a.epoch = epochs
  BY Zenon, <1>0, ChangeFacts
<1>1. LockInv'
  BY Zenon, <1>0, <1>k, <1>u DEF LockInv, Locked
<1>2. OrderInv' /\ ViewInv' /\ EntryInv'
  BY Zenon, <1>0, ChangeKeeps DEF schedVars
<1>3. TombInv'
  BY Zenon, <1>0, <1>k, <1>u DEF TombInv, Locked
<1>6. ToldInv'
  <2>1. ~Telling(p) /\ Telling(p)'
    BY Zenon, <1>0 DEF Telling
  <2> QED BY Zenon, <1>0, <2>1, ChangeTold
<1>7. SaveInv'
  BY Zenon, <1>0, <1>k, <1>u DEF SaveInv, Locked
<1>8. StoreInv'
  <2>1. Writes(p)'
    BY Zenon, <1>0, <1>k, <1>f DEF Writes
  <2> QED BY Zenon, <2>1 DEF StoreInv
<1>9. NoResurrection'
  BY Zenon, <1>k DEF NoResurrection
<1> QED BY Zenon, <1>1, <1>2, <1>3, <1>6, <1>7, <1>8, <1>9

\* A change that nothing durable depends on leaves the writes as they are.
LEMMA BookKeeps ==
    ASSUME TypeOK, CopiesInv, NEW p \in Ops, NEW a, Changes(a), OthersKept(p),
           Durable(a) = Durable(auth), UNCHANGED pLock,
           pc[p] \in {"idle", "held", "failed"}, pc'[p] \in {"idle", "held", "wait", "upsert"}
    PROVE  LockInv' /\ TombInv' /\ SaveInv' /\ StoreInv' /\ NoResurrection'
<1> USE DEF CopiesInv
<1>k. /\ \A q \in Ops \ {p} : pc'[q] = pc[q] /\ job'[q] = job[q] /\ out'[q] = out[q] /\ snap'[q] = snap[q]
      /\ auth # None /\ auth' = a /\ epochs' = epochs /\ UNCHANGED <<file, gone, dirty>>
  BY Zenon DEF Changes, OthersKept
<1>f. a # None
  BY Zenon, ChangeFacts
<1>1. LockInv'
  BY Zenon, <1>k DEF LockInv, Locked
<1>2. TombInv'
  BY Zenon, <1>k DEF TombInv
<1>3. SaveInv'
  BY Zenon, <1>k, <1>f DEF SaveInv
<1>4. StoreInv'
  <2>1. \A q \in Ops : Writes(q) => Writes(q)'
    BY Zenon, <1>k DEF Writes
  <2> QED BY Zenon, <1>k, <2>1 DEF StoreInv
<1>5. NoResurrection'
  BY Zenon, <1>k DEF NoResurrection
<1> QED BY Zenon, <1>1, <1>2, <1>3, <1>4, <1>5

\* Bookkeeping.
LEMMA RecordingKeeps ==
    ASSUME TypeOK, TypeOK', CopiesInv, NEW p \in Ops, NEW a, Recording(p, a)
    PROVE  CopiesInv'
<1> USE DEF CopiesInv
<1>0. /\ Changes(a) /\ OthersKept(p) /\ UNCHANGED <<pLock, schedVars>>
      /\ Durable(a) = Durable(auth)
      /\ pc[p] \in {"idle", "held"}
      /\ \/ /\ pc'[p] \in {"wait", "upsert"} /\ snap'[p] = a
            /\ View(a) = View(auth) \/ job'[p] # "neutral"
         \/ pc'[p] = pc[p] /\ snap'[p] = snap[p] /\ View(a) = View(auth)
  BY Zenon DEF Recording
<1>1. LockInv' /\ TombInv' /\ SaveInv' /\ StoreInv' /\ NoResurrection'
  BY Zenon, <1>0, BookKeeps
<1>2. OrderInv' /\ ViewInv' /\ EntryInv'
  BY Zenon, <1>0, ChangeKeeps DEF schedVars
<1>3. ToldInv'
  <2>1. ~Telling(p)
    BY Zenon, <1>0 DEF Telling
  <2>2. \/ View(a) = View(auth)
        \/ Telling(p)' /\ pc'[p] # "tombstone" /\ snap'[p] = a
    BY Zenon, <1>0 DEF Telling
  <2> QED BY Zenon, <1>0, <2>1, <2>2, ChangeTold
<1> QED BY Zenon, <1>1, <1>2, <1>3

\* The scheduler takes the entry itself: it is up to date.
LEMMA UpsertCurrent ==
    ASSUME TypeOK, NEW a \in Auths, upsertAuth(a), a.epoch = epochs,
           schedEpoch <= epochs, schedEpoch = epochs => schedGen <= a.gen
    PROVE  /\ schedEpoch' = epochs /\ schedGen' = a.gen
           /\ sched' = IF a.off THEN None ELSE a
<1>1. /\ schedEpoch \in Nat /\ schedGen \in Nat /\ epochs \in Nat /\ a.gen \in Nat
  BY Zenon, Fields DEF TypeOK
<1>2. ~isStaleScheduledAuth(a.epoch, a.gen)
  BY <1>1 DEF isStaleScheduledAuth
<1> QED BY Zenon, <1>2 DEF upsertAuth

\* A failed refresh tells the scheduler at once.
LEMMA FailingKeeps ==
    ASSUME TypeOK, TypeOK', CopiesInv, NEW p \in Ops, NEW a, Failing(p, a)
    PROVE  CopiesInv'
<1> USE DEF CopiesInv
<1>0. /\ Changes(a) /\ OthersKept(p) /\ UNCHANGED pLock
      /\ Durable(a) = Durable(auth)
      /\ pc[p] = "failed" /\ pc'[p] = "idle" /\ snap'[p] = Blank
      /\ upsertAuth(a)
  BY Zenon DEF Failing
<1>k. auth # None /\ auth' = a /\ UNCHANGED <<epochs, lastEpoch, lastGen>>
  BY Zenon, <1>0 DEF Changes
<1>f. /\ a # None /\ a \in Auths /\ a.epoch = epochs /\ a.gen \in Nat /\ auth.gen \in Nat /\ a.gen >= auth.gen
      /\ shownGen' \in Nat /\ shownGen' <= a.gen /\ epochs \in Nat /\ epochs > 0
  BY Zenon, <1>0, ChangeFacts
<1>g. schedEpoch <= epochs /\ (schedEpoch = epochs => schedGen <= a.gen)
  <2>1. schedGen \in Nat
    BY Zenon DEF TypeOK
  <2> QED BY <1>k, <1>f, <2>1 DEF OrderInv
<1>s. /\ schedEpoch' = epochs /\ schedGen' = a.gen
      /\ sched' = IF a.off THEN None ELSE a
  BY Zenon, <1>0, <1>f, <1>g, UpsertCurrent
<1>1. LockInv' /\ TombInv' /\ SaveInv' /\ StoreInv' /\ NoResurrection'
  BY Zenon, <1>0, BookKeeps
<1>2. ViewInv'
  BY Zenon, <1>0, ChangeKeeps
<1>3. OrderInv'
  <2>1. \A q \in Ops : snap'[q] = snap[q] \/ snap'[q] = Blank
    BY Zenon, <1>0 DEF OthersKept
  <2>2. \A q \in Ops : snap'[q].epoch <= epochs /\ (snap'[q].epoch = epochs => snap'[q].gen <= a.gen)
    <3>1. \A q \in Ops : snap[q].epoch \in Nat /\ snap[q].gen \in Nat
      BY Zenon, Fields DEF TypeOK
    <3>2. \A q \in Ops : snap[q].epoch <= epochs /\ (snap[q].epoch = epochs => snap[q].gen <= a.gen)
      BY <1>k, <1>f, <3>1 DEF OrderInv
    <3>3. Blank.epoch <= epochs /\ Blank.epoch # epochs
      BY <1>f, BlankType
    <3> QED BY Zenon, <2>1, <3>2, <3>3
  <2>3. lastEpoch <= epochs /\ (lastEpoch = epochs => lastGen <= a.gen)
    <3>1. lastGen \in Nat
      BY Zenon DEF TypeOK
    <3> QED BY <1>k, <1>f, <3>1 DEF OrderInv
  <2>4. schedEpoch' <= epochs /\ schedGen' <= a.gen
    BY <1>s, <1>f
  <2> QED BY Zenon, <1>k, <1>f, <2>2, <2>3, <2>4 DEF OrderInv
<1>4. EntryInv'
  BY Zenon, <1>k, <1>f, <1>s DEF EntryInv
<1>5. ToldInv'
  BY Zenon, <1>k, <1>f, <1>s DEF ToldInv
<1> QED BY Zenon, <1>1, <1>2, <1>3, <1>4, <1>5

\* A registration makes every copy that exists one of an older epoch.
LEMMA RegisterKeeps ==
    ASSUME TypeOK, TypeOK', CopiesInv, NEW p \in Ops, Register(p)
    PROVE  CopiesInv'
<1> USE DEF CopiesInv
<1>r. PICK t \in 1..MaxTokens, n \in Notes, o \in BOOLEAN :
        LET a == [epoch |-> epochs + 1, gen |-> 1, version |-> 1,
                  availability |-> 1, tok |-> t, note |-> n, off |-> o,
                  cool |-> FALSE]
        IN auth' = a /\ Become(p, "persist", "change", a)
  BY Zenon DEF Register
<1> DEFINE a == [epoch |-> epochs + 1, gen |-> 1, version |-> 1,
                 availability |-> 1, tok |-> t, note |-> n, off |-> o,
                 cool |-> FALSE]
<1>0. /\ a.epoch = epochs + 1 /\ a.gen = 1 /\ auth' = a /\ a \in Auths
      /\ Become(p, "persist", "change", a)
  <2>1. t \in Nat /\ epochs \in Nat
    BY ConstantsAssumption DEF TypeOK
  <2> QED BY <1>r, <2>1 DEF Auths
<1> HIDE DEF a
<1>k. /\ pLock = None /\ pLock' = p /\ shownGen' = 1 /\ epochs' = epochs + 1 /\ ~gone'
      /\ UNCHANGED <<lastEpoch, lastGen, file, schedVars, dirty>> /\ pc[p] = "idle"
  BY Zenon DEF Register, Call
<1>p. OthersKept(p) /\ pc'[p] = "persist" /\ job'[p] = "change" /\ snap'[p] = a
  BY Zenon, <1>0, OthersBecome
<1>q. \A q \in Ops \ {p} : pc'[q] = pc[q] /\ job'[q] = job[q] /\ out'[q] = out[q] /\ snap'[q] = snap[q]
  BY Zenon, <1>p DEF OthersKept
<1>u. \A q \in Ops : pc[q] \notin Locked
  BY Zenon, <1>k, ConstantsAssumption DEF LockInv
<1>t. /\ epochs \in Nat /\ lastEpoch \in Nat /\ schedEpoch \in Nat /\ a # None
      /\ \A q \in Ops : snap[q].epoch \in Nat
  BY Zenon, <1>0, Fields DEF TypeOK
<1>e. \A q \in Ops \ {p} : snap'[q].epoch < epochs + 1
  BY <1>q, <1>t DEF OrderInv
<1>l. lastEpoch < epochs + 1 /\ schedEpoch < epochs + 1
  BY <1>t DEF OrderInv
<1>1. LockInv'
  BY Zenon, <1>k, <1>p, <1>q, <1>u DEF LockInv, Locked
<1>2. OrderInv'
  <2>1. \A q \in Ops : /\ snap'[q].epoch <= epochs + 1
                       /\ snap'[q].epoch = epochs + 1 => snap'[q].gen <= 1
    <3>1. ASSUME NEW q \in Ops \ {p}
          PROVE  snap'[q].epoch <= epochs + 1 /\ snap'[q].epoch # epochs + 1
      BY <1>e, <1>q, <1>t
    <3>2. a.epoch <= epochs + 1 /\ a.gen <= 1
      BY <1>0, <1>t
    <3> QED BY Zenon, <1>p, <3>1, <3>2
  <2>2. /\ lastEpoch <= epochs + 1 /\ lastEpoch # epochs + 1
        /\ schedEpoch <= epochs + 1 /\ schedEpoch # epochs + 1 /\ epochs + 1 > 0
    BY <1>l, <1>t
  <2> QED BY <1>0, <1>k, <1>t, <2>1, <2>2 DEF OrderInv, schedVars
<1>3. TombInv'
  BY Zenon, <1>p, <1>q, <1>u DEF TombInv, Locked
<1>4. ViewInv'
  BY <1>0, <1>k, <1>p, <1>q, <1>e, <1>t DEF ViewInv
<1>5. EntryInv'
  BY <1>k, <1>l, <1>t DEF EntryInv, schedVars
<1>6. ToldInv'
  <2>1. Tells(p)'
    BY <1>0, <1>k, <1>p DEF Tells, Telling
  <2> QED BY Zenon, <1>0, <1>t, <2>1 DEF ToldInv
<1>7. SaveInv'
  BY Zenon, <1>p, <1>q, <1>u DEF SaveInv, Locked
<1>8. StoreInv'
  <2>1. Writes(p)'
    BY Zenon, <1>0, <1>k, <1>p DEF Writes
  <2> QED BY Zenon, <2>1 DEF StoreInv
<1>9. NoResurrection'
  BY Zenon, <1>k DEF NoResurrection
<1> QED BY Zenon, <1>1, <1>2, <1>3, <1>4, <1>5, <1>6, <1>7, <1>8, <1>9

\* A removal or a deletion takes the persistence lock.
LEMMA RemoveKeeps ==
    ASSUME TypeOK, TypeOK', CopiesInv, NEW p \in Ops, Remove(p) \/ Delete(p)
    PROVE  CopiesInv'
<1> USE DEF CopiesInv
<1>k. /\ pLock = None /\ pLock' = p /\ pc[p] \in {"idle", "held"}
      /\ UNCHANGED <<memVars, lastEpoch, lastGen, file, schedVars, history>>
  BY Zenon DEF Remove, Delete, Call
<1>p. OthersKept(p) /\ pc'[p] \in {"drop", "delete"} /\ (snap'[p] = snap[p] \/ snap'[p] = Blank)
  <2>1. CASE Remove(p)
    BY Zenon, <2>1, OthersBecome DEF Remove
  <2>2. CASE Delete(p)
    BY Zenon, <2>2, OthersGoto DEF Delete
  <2> QED BY Zenon, <2>1, <2>2
<1>q. \A q \in Ops \ {p} : pc'[q] = pc[q] /\ job'[q] = job[q] /\ out'[q] = out[q] /\ snap'[q] = snap[q]
  BY Zenon, <1>p DEF OthersKept
<1>u. \A q \in Ops : pc[q] \notin Locked
  BY Zenon, <1>k, ConstantsAssumption DEF LockInv
<1>m. UNCHANGED <<auth, epochs, lastEpoch, lastGen, file, schedEpoch, schedGen, sched, shownGen, dirty, gone>>
  BY Zenon, <1>k DEF memVars, schedVars, history
<1>t. /\ epochs \in Nat /\ epochs > 0 /\ Blank.epoch = 0
      /\ \A q \in Ops : snap[q].epoch \in Nat
  BY Zenon, Fields, BlankType DEF TypeOK, OrderInv
<1>s. \A q \in Ops : snap'[q] = snap[q] \/ (snap'[q] = Blank /\ Blank.epoch < epochs)
  BY Zenon, <1>p, <1>q, <1>t
<1>1. LockInv'
  BY Zenon, <1>k, <1>p, <1>q, <1>u DEF LockInv, Locked
<1>2. OrderInv'
  <2>1. \A q \in Ops : /\ snap'[q].epoch <= epochs
                       /\ auth = None => snap'[q].epoch < epochs
                       /\ auth # None /\ snap'[q].epoch = epochs => snap'[q].gen <= auth.gen
    <3>1. Blank.epoch <= epochs /\ Blank.epoch < epochs /\ Blank.epoch # epochs
      BY <1>t
    <3> QED BY Zenon, <1>s, <3>1 DEF OrderInv
  <2> QED BY Zenon, <1>m, <2>1 DEF OrderInv
<1>3. TombInv'
  BY Zenon, <1>p, <1>q, <1>u DEF TombInv, Locked
<1>4. ViewInv'
  BY <1>m, <1>s, <1>t DEF ViewInv
<1>5. EntryInv'
  BY Zenon, <1>m DEF EntryInv
<1>6. ToldInv'
  <2>1. \A q \in Ops : Tells(q) => Tells(q)'
    BY Zenon, <1>k, <1>q, <1>m DEF Tells, Telling
  <2>2. \A q \in Ops : pc[q] # "tombstone"
    BY Zenon, <1>u DEF Locked
  <2> QED BY Zenon, <1>m, <2>1, <2>2 DEF ToldInv
<1>7. SaveInv'
  BY Zenon, <1>p, <1>q, <1>u DEF SaveInv, Locked
<1>8. StoreInv'
  <2>1. \A q \in Ops : Writes(q) => Writes(q)'
    BY Zenon, <1>k, <1>q, <1>m DEF Writes
  <2> QED BY Zenon, <1>m, <2>1 DEF StoreInv
<1>9. NoResurrection'
  BY Zenon, <1>m DEF NoResurrection
<1> QED BY Zenon, <1>1, <1>2, <1>3, <1>4, <1>5, <1>6, <1>7, <1>8, <1>9

\* A rebuild of the scheduler takes the entry of m.auths.
LEMMA SyncKeeps ==
    ASSUME TypeOK, TypeOK', CopiesInv, NEW p \in Ops, SyncScheduler(p)
    PROVE  CopiesInv'
<1> USE DEF CopiesInv
<1>0. rebuild /\ UNCHANGED <<memVars, storeVars, opVars, history>>
  BY Zenon DEF SyncScheduler
<1>m. UNCHANGED <<auth, epochs, pLock, lastEpoch, lastGen, file, shownGen, dirty, gone, pc, job, snap, out>>
  BY Zenon, <1>0 DEF memVars, storeVars, opVars, history
<1>t. /\ schedEpoch \in Nat /\ schedGen \in Nat /\ epochs \in Nat /\ shownGen \in Nat
      /\ auth # None => auth \in Auths /\ auth.gen \in Nat /\ auth.epoch = epochs /\ shownGen <= auth.gen
  BY Zenon, Fields DEF TypeOK, OrderInv
<1>1. CASE auth = None
  <2>1. sched' = None /\ UNCHANGED <<schedEpoch, schedGen>>
    BY Zenon, <1>0, <1>1 DEF rebuild
  <2> QED BY Zenon, <1>m, <1>1, <2>1 DEF LockInv, OrderInv, TombInv, ViewInv, EntryInv, ToldInv, Tells, Telling,
                SaveInv, StoreInv, Writes, NoResurrection
<1>2. CASE auth # None
  <2>1. ~isStaleScheduledAuth(auth.epoch, auth.gen)
    BY <1>2, <1>t DEF isStaleScheduledAuth, OrderInv
  <2>2. upsertAuth(auth)
    BY Zenon, <1>0, <1>2, <2>1 DEF rebuild
  <2>3. schedEpoch' = epochs /\ schedGen' = auth.gen /\ sched' = IF auth.off THEN None ELSE auth
    BY Zenon, <1>2, <1>t, <2>2, UpsertCurrent DEF OrderInv
  <2>4. OrderInv'
    <3>1. schedEpoch' <= epochs /\ schedGen' <= auth.gen
      BY <1>2, <1>t, <2>3
    <3> QED BY Zenon, <1>m, <1>2, <3>1 DEF OrderInv
  <2>5. TombInv'
    BY Zenon, <1>m, <1>2 DEF TombInv
  <2>6. EntryInv' /\ ToldInv'
    BY Zenon, <1>m, <1>2, <1>t, <2>3 DEF EntryInv, ToldInv
  <2>7. LockInv' /\ ViewInv' /\ SaveInv' /\ StoreInv' /\ NoResurrection'
    BY Zenon, <1>m DEF LockInv, ViewInv, SaveInv, StoreInv, Writes, NoResurrection
  <2> QED BY Zenon, <2>4, <2>5, <2>6, <2>7
<1> QED BY Zenon, <1>1, <1>2

\* Somebody puts a file into the directory: the store is dirty.
LEMMA WriteFileKeeps ==
    ASSUME TypeOK, TypeOK', CopiesInv, WriteFile
    PROVE  CopiesInv'
<1> USE DEF CopiesInv
<1>m. /\ UNCHANGED <<auth, epochs, pLock, lastEpoch, lastGen, schedEpoch, schedGen, sched, shownGen,
                     pc, job, snap, out>>
      /\ dirty' /\ ~gone'
  BY Zenon DEF WriteFile, memVars, schedVars, opVars
<1> QED BY Zenon, <1>m DEF LockInv, OrderInv, TombInv, ViewInv, EntryInv, ToldInv, Tells, Telling,
                SaveInv, StoreInv, Writes, NoResurrection

\* A snapshot is written in the current registration only, and then it is the
\* entry itself or equal to it in what is durable.
LEMMA LateIsOld ==
    ASSUME TypeOK, CopiesInv, NEW p \in Ops, auth # None
    PROVE  Late(snap[p]) <=> snap[p].epoch # epochs
<1> USE DEF CopiesInv
<1>1. /\ auth.epoch = epochs /\ auth.gen \in Nat /\ snap[p].gen \in Nat /\ snap[p].epoch \in Nat
      /\ epochs \in Nat /\ lastEpoch \in Nat /\ lastGen \in Nat
      /\ lastEpoch <= epochs /\ (lastEpoch = epochs => lastGen <= auth.gen)
  BY Zenon, Fields DEF TypeOK, OrderInv
<1>2. CASE snap[p].epoch # epochs
  BY Zenon, <1>1, <1>2 DEF Late
<1>3. CASE snap[p].epoch = epochs
  <2>1. snap[p].gen <= auth.gen
    BY Zenon, <1>3 DEF OrderInv
  <2>2. Latest(snap[p]).epoch = epochs /\ Latest(snap[p]).gen = auth.gen
    BY <1>1, <1>3, <2>1 DEF Latest
  <2> QED BY <1>1, <1>3, <2>2 DEF Late
<1> QED BY Zenon, <1>2, <1>3

\* What is written is equal to the entry in what is durable.
LEMMA LatestIsCurrent ==
    ASSUME TypeOK, CopiesInv, NEW p \in Ops, ~Late(snap[p])
    PROVE  /\ auth # None /\ snap[p].epoch = epochs
           /\ Latest(snap[p]).gen = auth.gen
           /\ Durable(Latest(snap[p])) = Durable(auth)
<1> USE DEF CopiesInv
<1>1. auth # None
  BY Zenon DEF Late
<1>2. snap[p].epoch = epochs
  BY Zenon, <1>1, LateIsOld
<1>3. /\ auth.gen \in Nat /\ snap[p].gen \in Nat /\ shownGen \in Nat
      /\ snap[p].gen <= auth.gen /\ shownGen <= auth.gen
  BY Zenon, <1>1, <1>2, Fields DEF TypeOK, OrderInv
<1>4. CASE auth.gen > snap[p].gen
  BY Zenon, <1>1, <1>2, <1>4 DEF Latest
<1>5. CASE ~(auth.gen > snap[p].gen)
  <2>1. snap[p].gen = auth.gen /\ snap[p].gen >= shownGen
    BY <1>3, <1>5
  <2>2. View(snap[p]) = View(auth)
    BY Zenon, <1>1, <1>2, <2>1 DEF ViewInv
  <2>3. Durable(snap[p]) = Durable(auth)
    BY Zenon, <2>2 DEF View, Durable
  <2> QED BY Zenon, <1>1, <1>2, <1>5, <2>1, <2>3 DEF Latest
<1> QED BY Zenon, <1>4, <1>5

\* The end of a write leaves the entry and the scheduler alone.
LEMMA EndKeeps ==
    ASSUME TypeOK, TypeOK', CopiesInv, NEW p \in Ops, Written(p), pLock' = None,
           pc[p] = "save" \/ pc[p] = "persist" \/ (pc[p] = "wait" /\ pLock = None),
           UNCHANGED <<memVars, schedVars, shownGen>>,
           lastEpoch' <= epochs,
           auth # None /\ lastEpoch' = epochs => lastGen' <= auth.gen
    PROVE  LockInv' /\ OrderInv' /\ TombInv' /\ ViewInv' /\ EntryInv' /\ ToldInv' /\ SaveInv'
<1> USE DEF CopiesInv
<1>m. UNCHANGED <<auth, epochs, schedEpoch, schedGen, sched, shownGen>>
  BY Zenon DEF memVars, schedVars
<1>p. /\ OthersKept(p)
      /\ IF job[p] = "neutral" THEN pc'[p] = "idle" /\ snap'[p] = Blank
         ELSE pc'[p] = "upsert" /\ snap'[p] = snap[p]
  BY Zenon, OthersWritten
<1>q. \A q \in Ops \ {p} : pc'[q] = pc[q] /\ job'[q] = job[q] /\ out'[q] = out[q] /\ snap'[q] = snap[q]
  BY Zenon, <1>p DEF OthersKept
<1>u. \A q \in Ops \ {p} : pc[q] \notin Locked
  BY Zenon, ConstantsAssumption DEF LockInv, Locked
<1>t. epochs \in Nat /\ epochs > 0 /\ Blank.epoch = 0
  BY Zenon, BlankType DEF TypeOK, OrderInv
<1>s. \A q \in Ops : snap'[q] = snap[q] \/ snap'[q] = Blank
  BY Zenon, <1>p, <1>q
<1>b. Blank.epoch <= epochs /\ Blank.epoch < epochs /\ Blank.epoch # epochs
  BY <1>t
<1>c. pc'[p] \in {"idle", "upsert"}
  BY Zenon, <1>p
<1>1. LockInv'
  BY Zenon, <1>q, <1>u, <1>c DEF LockInv, Locked
<1>2. OrderInv'
  <2>1. \A q \in Ops : /\ snap'[q].epoch <= epochs
                       /\ auth = None => snap'[q].epoch < epochs
                       /\ auth # None /\ snap'[q].epoch = epochs => snap'[q].gen <= auth.gen
    BY Zenon, <1>s, <1>b DEF OrderInv
  <2> QED BY Zenon, <1>m, <2>1 DEF OrderInv
<1>3. TombInv'
  BY Zenon, <1>q, <1>u, <1>c DEF TombInv, Locked
<1>4. ViewInv'
  BY Zenon, <1>m, <1>s, <1>b DEF ViewInv
<1>5. EntryInv'
  BY Zenon, <1>m DEF EntryInv
<1>6. ToldInv'
  <2>1. \A q \in Ops : Tells(q) => Tells(q)'
    <3>1. ASSUME NEW q \in Ops \ {p}, Tells(q) PROVE Tells(q)'
      BY Zenon, <1>m, <1>q, <3>1 DEF Tells, Telling
    <3>2. ASSUME Tells(p) PROVE Tells(p)'
      <4>1. job[p] # "neutral"
        BY Zenon, <3>2 DEF Tells, Telling
      <4> QED BY Zenon, <1>m, <1>p, <3>2, <4>1 DEF Tells, Telling
    <3> QED BY Zenon, <3>1, <3>2
  <2>2. \A q \in Ops : pc[q] # "tombstone"
    BY Zenon, <1>u DEF Locked
  <2> QED BY Zenon, <1>m, <2>1, <2>2 DEF ToldInv
<1>7. SaveInv'
  BY Zenon, <1>q, <1>u, <1>c DEF SaveInv, Locked
<1> QED BY Zenon, <1>1, <1>2, <1>3, <1>4, <1>5, <1>6, <1>7

\* The decision what to write.
LEMMA PersistKeeps ==
    ASSUME TypeOK, TypeOK', CopiesInv, NEW p \in Ops, Persist(p)
    PROVE  CopiesInv'
<1> USE DEF CopiesInv
<1>0. /\ pc[p] = "persist" \/ (pc[p] = "wait" /\ pLock = None)
      /\ UNCHANGED <<memVars, file, schedVars, shownGen, gone>>
  BY Zenon DEF Persist
<1>m. UNCHANGED <<auth, epochs, file, schedEpoch, schedGen, sched, shownGen, gone>>
  BY Zenon, <1>0 DEF memVars, schedVars
<1>9. NoResurrection'
  BY Zenon, <1>m DEF NoResurrection
<1>t. epochs \in Nat /\ (auth # None => auth.gen \in Nat /\ auth.epoch = epochs)
  BY Zenon, Fields DEF TypeOK, OrderInv
<1>1. CASE Late(snap[p])
  <2>1. Written(p) /\ pLock' = None /\ UNCHANGED <<lastEpoch, lastGen, dirty>>
    BY Zenon, <1>1 DEF Persist
  <2>2. lastEpoch' <= epochs /\ (auth # None /\ lastEpoch' = epochs => lastGen' <= auth.gen)
    BY Zenon, <2>1 DEF OrderInv
  <2>3. LockInv' /\ OrderInv' /\ TombInv' /\ ViewInv' /\ EntryInv' /\ ToldInv' /\ SaveInv'
    BY Zenon, <1>0, <2>1, <2>2, EndKeeps
  <2>4. StoreInv'
    <3>1. OthersKept(p)
      BY Zenon, <2>1, OthersWritten
    <3>2. \A q \in Ops \ {p} : Writes(q) => Writes(q)'
      BY Zenon, <1>m, <3>1 DEF Writes, OthersKept
    <3>3. auth # None => ~Writes(p)
      BY Zenon, <1>0, <1>1, LateIsOld DEF Writes
    <3> QED BY Zenon, <1>m, <2>1, <3>2, <3>3 DEF StoreInv
  <2> QED BY Zenon, <1>9, <2>3, <2>4
<1>2. CASE ~Late(snap[p])
  <2>0. /\ auth # None /\ snap[p].epoch = epochs
        /\ Latest(snap[p]).gen = auth.gen
        /\ Durable(Latest(snap[p])) = Durable(auth)
    BY Zenon, <1>2, LatestIsCurrent
  <2>1. lastEpoch' = auth.epoch /\ lastGen' = Latest(snap[p]).gen
    BY Zenon, <1>2 DEF Persist
  <2>2. lastEpoch' <= epochs /\ (auth # None /\ lastEpoch' = epochs => lastGen' <= auth.gen)
    BY <1>t, <2>0, <2>1
  <2>3. CASE skip[p] /\ Written(p) /\ pLock' = None /\ dirty' = TRUE
    <3>1. LockInv' /\ OrderInv' /\ TombInv' /\ ViewInv' /\ EntryInv' /\ ToldInv' /\ SaveInv'
      BY Zenon, <1>0, <2>2, <2>3, EndKeeps
    <3>2. StoreInv'
      BY Zenon, <2>3 DEF StoreInv
    <3> QED BY Zenon, <1>9, <3>1, <3>2
  <2>4. CASE /\ Goto(p, "save") /\ out' = [out EXCEPT ![p] = Latest(snap[p])]
             /\ pLock' = p /\ UNCHANGED <<dirty, job, snap, skip>>
    <3>o. (\A q \in Ops \ {p} : out'[q] = out[q]) /\ out'[p] = Latest(snap[p])
      BY Zenon, <2>4 DEF TypeOK
    <3>p. OthersKept(p) /\ pc'[p] = "save" /\ job'[p] = job[p] /\ snap'[p] = snap[p]
      BY Zenon, <2>4, <3>o, OthersGoto
    <3>q. \A q \in Ops \ {p} : pc'[q] = pc[q] /\ out'[q] = out[q]
      BY Zenon, <3>p DEF OthersKept
    <3>u. \A q \in Ops \ {p} : pc[q] \notin Locked
      BY Zenon, <1>0, ConstantsAssumption DEF LockInv, Locked
    <3>1. LockInv'
      BY Zenon, <2>4, <3>p, <3>q, <3>u DEF LockInv, Locked
    <3>2. OrderInv'
      BY Zenon, <1>m, <2>2, <2>4 DEF OrderInv
    <3>3. TombInv'
      BY Zenon, <3>p, <3>q, <3>u DEF TombInv, Locked
    <3>4. ViewInv' /\ EntryInv'
      BY Zenon, <1>m, <2>4 DEF ViewInv, EntryInv
    <3>5. ToldInv'
      <4>1. \A q \in Ops : Tells(q) => Tells(q)'
        BY Zenon, <1>0, <1>m, <2>4, <3>p, <3>q DEF Tells, Telling
      <4> QED BY Zenon, <1>m, <2>0, <4>1 DEF ToldInv
    <3>6. SaveInv'
      <4>1. \A q \in Ops \ {p} : pc'[q] # "save"
        BY Zenon, <3>q, <3>u DEF Locked
      <4> QED BY Zenon, <1>m, <2>0, <3>o, <4>1 DEF SaveInv
    <3>7. StoreInv'
      <4>1. Writes(p)'
        BY Zenon, <3>p DEF Writes
      <4> QED BY Zenon, <4>1 DEF StoreInv
    <3> QED BY Zenon, <1>9, <3>1, <3>2, <3>3, <3>4, <3>5, <3>6, <3>7
  <2> QED BY Zenon, <1>2, <2>3, <2>4 DEF Persist
<1> QED BY Zenon, <1>1, <1>2

\* The write itself: it may fail.
LEMMA SaveKeeps ==
    ASSUME TypeOK, TypeOK', CopiesInv, NEW p \in Ops, Save(p)
    PROVE  CopiesInv'
<1> USE DEF CopiesInv
<1>0. /\ pc[p] = "save" /\ Written(p) /\ pLock' = None
      /\ UNCHANGED <<memVars, lastEpoch, lastGen, schedVars, shownGen, gone>>
      /\ \/ file = None /\ UNCHANGED file
         \/ file' = Durable(out[p])
         \/ dirty' = TRUE /\ UNCHANGED file
  BY Zenon DEF Save
<1>1. auth # None /\ Durable(out[p]) = Durable(auth)
  BY Zenon, <1>0 DEF SaveInv
<1>2. lastEpoch' <= epochs /\ (auth # None /\ lastEpoch' = epochs => lastGen' <= auth.gen)
  BY Zenon, <1>0 DEF OrderInv
<1>3. LockInv' /\ OrderInv' /\ TombInv' /\ ViewInv' /\ EntryInv' /\ ToldInv' /\ SaveInv'
  BY Zenon, <1>0, <1>2, EndKeeps
<1>4. auth' = auth
  BY Zenon, <1>0 DEF memVars
<1>5. StoreInv'
  BY Zenon, <1>0, <1>1, <1>4 DEF StoreInv
<1>6. NoResurrection'
  BY Zenon, <1>0, <1>1 DEF NoResurrection
<1> QED BY Zenon, <1>3, <1>5, <1>6

\* The scheduler takes a snapshot, unless it knows of a later state.
LEMMA UpsertKeeps ==
    ASSUME TypeOK, TypeOK', CopiesInv, NEW p \in Ops, Upsert(p)
    PROVE  CopiesInv'
<1> USE DEF CopiesInv
<1>0. /\ pc[p] = "upsert" /\ upsertAuth(snap[p]) /\ Stop(p)
      /\ UNCHANGED <<memVars, storeVars, history>>
  BY Zenon DEF Upsert, Return
<1>m. UNCHANGED <<auth, epochs, pLock, lastEpoch, lastGen, file, shownGen, dirty, gone>>
  BY Zenon, <1>0 DEF memVars, storeVars, history
<1>p. OthersKept(p) /\ pc'[p] = "idle" /\ snap'[p] = Blank
  BY Zenon, <1>0, OthersStop
<1>q. \A q \in Ops \ {p} : pc'[q] = pc[q] /\ job'[q] = job[q] /\ out'[q] = out[q] /\ snap'[q] = snap[q]
  BY Zenon, <1>p DEF OthersKept
<1>t. /\ epochs \in Nat /\ epochs > 0 /\ Blank.epoch = 0 /\ schedEpoch \in Nat /\ schedGen \in Nat
      /\ snap[p] \in Auths /\ snap[p].epoch \in Nat /\ snap[p].gen \in Nat /\ shownGen \in Nat
      /\ snap[p].epoch <= epochs /\ schedEpoch <= epochs
  BY Zenon, BlankType, Fields DEF TypeOK, OrderInv
<1>a. auth # None => /\ auth.gen \in Nat
                     /\ snap[p].epoch = epochs => snap[p].gen <= auth.gen
                     /\ schedEpoch = epochs => schedGen <= auth.gen
  BY Zenon, Fields DEF TypeOK, OrderInv
<1>s. \A q \in Ops : snap'[q] = snap[q] \/ snap'[q] = Blank
  BY Zenon, <1>p, <1>q
<1>b. Blank.epoch <= epochs /\ Blank.epoch < epochs /\ Blank.epoch # epochs
  BY <1>t
<1>u. \/ isStaleScheduledAuth(snap[p].epoch, snap[p].gen) /\ UNCHANGED <<schedEpoch, schedGen, sched>>
      \/ /\ ~isStaleScheduledAuth(snap[p].epoch, snap[p].gen)
         /\ schedEpoch' = snap[p].epoch /\ schedGen' = snap[p].gen
         /\ sched' = IF snap[p].off THEN None ELSE snap[p]
  BY Zenon, <1>0 DEF upsertAuth, schedVars
<1>1. LockInv'
  BY Zenon, <1>m, <1>p, <1>q DEF LockInv, Locked
<1>2. OrderInv'
  <2>1. \A q \in Ops : /\ snap'[q].epoch <= epochs
                       /\ auth = None => snap'[q].epoch < epochs
                       /\ auth # None /\ snap'[q].epoch = epochs => snap'[q].gen <= auth.gen
    BY Zenon, <1>s, <1>b DEF OrderInv
  <2>2. schedEpoch' <= epochs /\ (auth # None /\ schedEpoch' = epochs => schedGen' <= auth.gen)
    BY Zenon, <1>t, <1>a, <1>u
  <2> QED BY Zenon, <1>m, <2>1, <2>2 DEF OrderInv
<1>3. TombInv'
  <2>1. ASSUME NEW q \in Ops, pc'[q] = "tombstone"
        PROVE  auth = None /\ lastEpoch = epochs /\ schedEpoch' < epochs
    <3>1. auth = None /\ lastEpoch = epochs /\ schedEpoch < epochs
      BY Zenon, <1>p, <1>q, <2>1 DEF TombInv
    <3>2. snap[p].epoch < epochs
      BY Zenon, <3>1 DEF OrderInv
    <3> QED BY Zenon, <1>u, <3>1, <3>2
  <2> QED BY Zenon, <1>m, <2>1 DEF TombInv
<1>4. ViewInv'
  BY Zenon, <1>m, <1>s, <1>b DEF ViewInv
<1>5. EntryInv'
  <2>1. CASE UNCHANGED <<schedEpoch, schedGen, sched>>
    BY Zenon, <1>m, <2>1 DEF EntryInv
  <2>2. CASE /\ schedEpoch' = snap[p].epoch /\ schedGen' = snap[p].gen
             /\ sched' = IF snap[p].off THEN None ELSE snap[p]
    <3>1. ASSUME auth # None, schedEpoch' = epochs, schedGen' >= shownGen
          PROVE  IF auth.off THEN sched' = None ELSE sched' # None /\ View(sched') = View(auth)
      <4>1. View(snap[p]) = View(auth)
        BY Zenon, <2>2, <3>1 DEF ViewInv
      <4>2. snap[p].off = auth.off
        BY Zenon, <4>1 DEF View
      <4>3. snap[p] # None
        BY Zenon, <1>t, Fields
      <4> QED BY Zenon, <2>2, <4>1, <4>2, <4>3
    <3> QED BY Zenon, <1>m, <3>1 DEF EntryInv
  <2> QED BY Zenon, <1>u, <2>1, <2>2
<1>6. ToldInv'
  <2>1. ASSUME auth # None
        PROVE  \/ schedEpoch' = epochs /\ schedGen' >= shownGen
               \/ \E q \in Ops : Tells(q)'
    <3>1. CASE schedEpoch = epochs /\ schedGen >= shownGen
      <4>1. schedEpoch' = epochs /\ schedGen' >= shownGen
        BY <1>t, <1>u, <3>1 DEF isStaleScheduledAuth
      <4> QED BY Zenon, <4>1
    <3>2. CASE Tells(p)
      <4>1. snap[p].epoch = epochs /\ snap[p].gen >= shownGen
        BY Zenon, <3>2 DEF Tells
      <4>2. schedEpoch' = epochs /\ schedGen' >= shownGen
        BY <1>t, <1>u, <4>1 DEF isStaleScheduledAuth
      <4> QED BY Zenon, <4>2
    <3>3. ASSUME NEW q \in Ops \ {p}, Tells(q) PROVE Tells(q)'
      BY Zenon, <1>m, <1>q, <3>3 DEF Tells, Telling
    <3> QED BY Zenon, <2>1, <3>1, <3>2, <3>3 DEF ToldInv
  <2>2. ASSUME auth = None
        PROVE  \/ schedEpoch' = epochs /\ sched' = None
               \/ \E q \in Ops : pc'[q] = "tombstone"
    <3>1. CASE schedEpoch = epochs /\ sched = None
      <4>1. snap[p].epoch < epochs
        BY Zenon, <2>2 DEF OrderInv
      <4>2. isStaleScheduledAuth(snap[p].epoch, snap[p].gen)
        BY Zenon, <1>t, <3>1, <4>1 DEF isStaleScheduledAuth
      <4> QED BY Zenon, <1>u, <3>1, <4>2
    <3>2. CASE \E q \in Ops : pc[q] = "tombstone"
      BY Zenon, <1>0, <1>q, <3>2
    <3> QED BY Zenon, <2>2, <3>1, <3>2 DEF ToldInv
  <2> QED BY Zenon, <1>m, <2>1, <2>2 DEF ToldInv
<1>7. SaveInv'
  BY Zenon, <1>m, <1>p, <1>q DEF SaveInv
<1>8. StoreInv'
  <2>1. \A q \in Ops : Writes(q) => Writes(q)'
    BY Zenon, <1>0, <1>m, <1>q DEF Writes
  <2> QED BY Zenon, <1>m, <2>1 DEF StoreInv
<1>9. NoResurrection'
  BY Zenon, <1>m DEF NoResurrection
<1> QED BY Zenon, <1>1, <1>2, <1>3, <1>4, <1>5, <1>6, <1>7, <1>8, <1>9

\* A step of a removal that leaves the entry and the scheduler alone.
LEMMA RemovalKeeps ==
    ASSUME TypeOK, TypeOK', CopiesInv, NEW p \in Ops, OthersKept(p),
           pc[p] \in {"delete", "drop"},
           (pc'[p] = "drop" /\ pLock' = pLock) \/ (pc'[p] = "idle" /\ pLock' = None),
           snap'[p] = snap[p] \/ snap'[p] = Blank,
           UNCHANGED <<memVars, lastEpoch, lastGen, schedVars, history>>,
           file' = file \/ file' = None
    PROVE  CopiesInv'
<1> USE DEF CopiesInv
<1>m. UNCHANGED <<auth, epochs, lastEpoch, lastGen, schedEpoch, schedGen, sched, shownGen, dirty, gone>>
  BY Zenon DEF memVars, schedVars, history
<1>q. \A q \in Ops \ {p} : pc'[q] = pc[q] /\ job'[q] = job[q] /\ out'[q] = out[q] /\ snap'[q] = snap[q]
  BY Zenon DEF OthersKept
<1>u. pLock = p /\ \A q \in Ops \ {p} : pc[q] \notin Locked
  BY Zenon DEF LockInv, Locked
<1>t. epochs \in Nat /\ epochs > 0 /\ Blank.epoch = 0
  BY Zenon, BlankType DEF TypeOK, OrderInv
<1>s. \A q \in Ops : snap'[q] = snap[q] \/ snap'[q] = Blank
  BY Zenon, <1>q
<1>b. Blank.epoch <= epochs /\ Blank.epoch < epochs /\ Blank.epoch # epochs
  BY <1>t
<1>1. LockInv'
  BY Zenon, <1>q, <1>u DEF LockInv, Locked
<1>2. OrderInv'
  <2>1. \A q \in Ops : /\ snap'[q].epoch <= epochs
                       /\ auth = None => snap'[q].epoch < epochs
                       /\ auth # None /\ snap'[q].epoch = epochs => snap'[q].gen <= auth.gen
    BY Zenon, <1>s, <1>b DEF OrderInv
  <2> QED BY Zenon, <1>m, <2>1 DEF OrderInv
<1>3. TombInv'
  BY <1>q, <1>u DEF TombInv, Locked
<1>4. ViewInv'
  BY Zenon, <1>m, <1>s, <1>b DEF ViewInv
<1>5. EntryInv'
  BY Zenon, <1>m DEF EntryInv
<1>6. ToldInv'
  <2>1. \A q \in Ops : Tells(q) => Tells(q)'
    BY Zenon, <1>m, <1>q DEF Tells, Telling
  <2>2. \A q \in Ops : pc[q] # "tombstone"
    BY Zenon, <1>u DEF Locked
  <2> QED BY Zenon, <1>m, <2>1, <2>2 DEF ToldInv
<1>7. SaveInv'
  BY <1>q, <1>u DEF SaveInv, Locked
<1>8. StoreInv'
  <2>1. \A q \in Ops : Writes(q) => Writes(q)'
    BY Zenon, <1>m, <1>q DEF Writes
  <2> QED BY Zenon, <1>m, <2>1 DEF StoreInv
<1>9. NoResurrection'
  BY Zenon, <1>m DEF NoResurrection
<1> QED BY Zenon, <1>1, <1>2, <1>3, <1>4, <1>5, <1>6, <1>7, <1>8, <1>9

\* The deletion of the record.
LEMMA DeleteRecordKeeps ==
    ASSUME TypeOK, TypeOK', CopiesInv, NEW p \in Ops, DeleteRecord(p)
    PROVE  CopiesInv'
<1>0. pc[p] = "delete" /\ UNCHANGED <<memVars, lastEpoch, lastGen, schedVars, history>>
  BY Zenon DEF DeleteRecord
<1>1. CASE Goto(p, "drop") /\ file' = None /\ UNCHANGED <<pLock, job, snap, skip, out>>
  <2>1. OthersKept(p) /\ pc'[p] = "drop" /\ snap'[p] = snap[p]
    BY Zenon, <1>1, OthersGoto
  <2> QED BY Zenon, <1>0, <1>1, <2>1, RemovalKeeps
<1>2. CASE Stop(p) /\ pLock' = None /\ file' \in {file, None}
  <2>1. OthersKept(p) /\ pc'[p] = "idle" /\ snap'[p] = Blank
    BY Zenon, <1>2, OthersStop
  <2> QED BY Zenon, <1>0, <1>2, <2>1, RemovalKeeps
<1> QED BY Zenon, <1>1, <1>2 DEF DeleteRecord

\* The removal of the entry.
LEMMA DropKeeps ==
    ASSUME TypeOK, TypeOK', CopiesInv, NEW p \in Ops, Drop(p)
    PROVE  CopiesInv'
<1> USE DEF CopiesInv
<1>0. pc[p] = "drop" /\ UNCHANGED <<file, schedVars, shownGen, dirty, blame, carried>>
  BY Zenon DEF Drop
<1>1. CASE auth = None
  <2>1. pLock' = None /\ Stop(p) /\ UNCHANGED <<memVars, lastEpoch, lastGen, gone>>
    BY Zenon, <1>1 DEF Drop
  <2>2. OthersKept(p) /\ pc'[p] = "idle" /\ snap'[p] = Blank
    BY Zenon, <2>1, OthersStop
  <2> QED BY Zenon, <1>0, <2>1, <2>2, RemovalKeeps DEF history
<1>2. CASE auth # None
  <2>1. /\ auth' = None /\ epochs' = epochs + 1 /\ lastEpoch' = epochs + 1 /\ lastGen' = 0
        /\ gone' = (file = None) /\ Goto(p, "tombstone") /\ UNCHANGED <<pLock, job, snap, skip, out>>
    BY Zenon, <1>2 DEF Drop
  <2>2. OthersKept(p) /\ pc'[p] = "tombstone"
    BY Zenon, <2>1, OthersGoto
  <2>q. \A q \in Ops \ {p} : pc'[q] = pc[q]
    BY Zenon, <2>2 DEF OthersKept
  <2>u. pLock = p /\ \A q \in Ops \ {p} : pc[q] \notin Locked
    BY Zenon, <1>0 DEF LockInv, Locked
  <2>t. /\ epochs \in Nat /\ schedEpoch \in Nat /\ schedEpoch <= epochs
        /\ \A q \in Ops : snap[q].epoch \in Nat /\ snap[q].epoch <= epochs
    BY Zenon, Fields DEF TypeOK, OrderInv
  <2>e. /\ epochs + 1 > 0 /\ epochs + 1 <= epochs + 1
        /\ schedEpoch < epochs + 1 /\ schedEpoch <= epochs + 1
        /\ \A q \in Ops : snap[q].epoch < epochs + 1 /\ snap[q].epoch <= epochs + 1
    BY <2>t
  <2>3. LockInv'
    BY Zenon, <2>1, <2>2, <2>q, <2>u DEF LockInv, Locked
  <2>4. OrderInv'
    BY Zenon, <1>0, <2>1, <2>e DEF OrderInv, schedVars
  <2>5. TombInv'
    BY Zenon, <1>0, <2>1, <2>2, <2>q, <2>u, <2>e DEF TombInv, Locked, schedVars
  <2>6. ViewInv' /\ EntryInv' /\ StoreInv'
    BY Zenon, <2>1 DEF ViewInv, EntryInv, StoreInv
  <2>7. ToldInv'
    BY Zenon, <2>1, <2>2 DEF ToldInv
  <2>8. SaveInv'
    BY Zenon, <2>2, <2>q, <2>u DEF SaveInv, Locked
  <2>9. NoResurrection'
    BY Zenon, <1>0, <2>1 DEF NoResurrection
  <2> QED BY Zenon, <2>3, <2>4, <2>5, <2>6, <2>7, <2>8, <2>9
<1> QED BY Zenon, <1>1, <1>2

\* The scheduler learns of the removal.
LEMMA TombstoneKeeps ==
    ASSUME TypeOK, TypeOK', CopiesInv, NEW p \in Ops, Tombstone(p)
    PROVE  CopiesInv'
<1> USE DEF CopiesInv
<1>0. /\ pc[p] = "tombstone" /\ RecordRemovalTombstone(lastEpoch) /\ pLock' = None /\ Stop(p)
      /\ UNCHANGED <<memVars, lastEpoch, lastGen, file, history>>
  BY Zenon DEF Tombstone
<1>m. UNCHANGED <<auth, epochs, lastEpoch, lastGen, file, shownGen, dirty, gone>>
  BY Zenon, <1>0 DEF memVars, history
<1>p. OthersKept(p) /\ pc'[p] = "idle" /\ snap'[p] = Blank
  BY Zenon, <1>0, OthersStop
<1>q. \A q \in Ops \ {p} : pc'[q] = pc[q] /\ snap'[q] = snap[q]
  BY Zenon, <1>p DEF OthersKept
<1>u. pLock = p /\ \A q \in Ops \ {p} : pc[q] \notin Locked
  BY Zenon, <1>0 DEF LockInv, Locked
<1>a. auth = None /\ lastEpoch = epochs /\ schedEpoch < epochs
  BY Zenon, <1>0 DEF TombInv
<1>t. epochs \in Nat /\ epochs > 0 /\ Blank.epoch = 0 /\ schedEpoch \in Nat
  BY Zenon, BlankType DEF TypeOK, OrderInv
<1>e. schedEpoch' = epochs /\ sched' = None
  BY <1>0, <1>a, <1>t DEF RecordRemovalTombstone
<1>1. LockInv'
  <2>1. \A q \in Ops \ {p} : job'[q] = job[q]
    BY Zenon, <1>p DEF OthersKept
  <2> QED BY Zenon, <1>p, <1>q, <1>u, <2>1 DEF LockInv, Locked
<1>2. OrderInv'
  <2>1. \A q \in Ops : snap'[q].epoch <= epochs /\ snap'[q].epoch < epochs
    BY <1>a, <1>p, <1>q, <1>t DEF OrderInv
  <2>2. epochs <= epochs
    BY <1>t
  <2> QED BY Zenon, <1>a, <1>e, <1>m, <1>t, <2>1, <2>2 DEF OrderInv
<1>3. TombInv'
  BY Zenon, <1>p, <1>q, <1>u DEF TombInv, Locked
<1>4. ViewInv' /\ EntryInv' /\ StoreInv'
  BY Zenon, <1>a, <1>m DEF ViewInv, EntryInv, StoreInv
<1>5. ToldInv'
  BY Zenon, <1>a, <1>e, <1>m DEF ToldInv
<1>6. SaveInv'
  BY Zenon, <1>p, <1>q, <1>u DEF SaveInv, Locked
<1>7. NoResurrection'
  BY Zenon, <1>m DEF NoResurrection
<1> QED BY Zenon, <1>1, <1>2, <1>3, <1>4, <1>5, <1>6, <1>7

\* The copies agree when the manager starts.
LEMMA InitCopies == Init => CopiesInv
<1> SUFFICES ASSUME Init PROVE CopiesInv
  BY Zenon
<1>0. TypeOK
  BY Zenon, InitType
<1>1. /\ auth # None /\ auth.epoch = 1 /\ auth.gen = 1 /\ epochs = 1 /\ shownGen = 1
      /\ lastEpoch = 0 /\ schedEpoch = 1 /\ schedGen = 1
      /\ sched = IF auth.off THEN None ELSE auth
      /\ pc = [q \in Ops |-> "idle"] /\ snap = [q \in Ops |-> Blank]
      /\ file = Durable(auth) /\ ~gone
  <2>1. auth \in Auths /\ auth.epoch = 1 /\ auth.gen = 1
    BY DEF Init, Auths
  <2> QED BY Zenon, <2>1, Fields DEF Init
<1>2. LockInv /\ TombInv /\ SaveInv
  BY Zenon, <1>1 DEF LockInv, TombInv, SaveInv, Locked
<1>3. OrderInv
  BY <1>1, BlankType DEF OrderInv
<1>4. ViewInv
  BY <1>1, BlankType DEF ViewInv
<1>5. EntryInv /\ ToldInv
  BY <1>1 DEF EntryInv, ToldInv
<1>6. StoreInv /\ NoResurrection
  BY Zenon, <1>1 DEF StoreInv, NoResurrection
<1> QED BY Zenon, <1>2, <1>3, <1>4, <1>5, <1>6 DEF CopiesInv

\* Every step keeps the copies in agreement.
LEMMA NextCopies == TypeOK /\ CopiesInv /\ [Next]_vars => CopiesInv'
<1> SUFFICES ASSUME TypeOK, CopiesInv, [Next]_vars PROVE CopiesInv'
  BY Zenon
<1>0. TypeOK'
  BY Zenon, NextType
<1>1. ASSUME NEW p \in Ops, Begin(p) PROVE CopiesInv'
  <2>1. \/ Quiet(p)
        \/ \E a \in Auths : Committing(p, a) \/ Recording(p, a)
        \/ Register(p) \/ Remove(p) \/ Delete(p) \/ SyncScheduler(p)
    BY Zenon, <1>1, BeginKinds
  <2> QED BY Zenon, <1>0, <2>1, QuietKeeps, CommittingKeeps, RecordingKeeps, RegisterKeeps,
             RemoveKeeps, SyncKeeps
<1>2. ASSUME NEW p \in Ops, Step(p) PROVE CopiesInv'
  <2>1. \/ Quiet(p)
        \/ \E a \in Auths : Committing(p, a) \/ Failing(p, a)
        \/ Persist(p) \/ Save(p) \/ Upsert(p)
        \/ DeleteRecord(p) \/ Drop(p) \/ Tombstone(p)
    BY Zenon, <1>2, StepKinds DEF CopiesInv
  <2> QED BY Zenon, <1>0, <2>1, QuietKeeps, CommittingKeeps, FailingKeeps, PersistKeeps, SaveKeeps,
             UpsertKeeps, DeleteRecordKeeps, DropKeeps, TombstoneKeeps
<1>3. CASE WriteFile
  BY Zenon, <1>0, <1>3, WriteFileKeeps
<1>4. CASE UNCHANGED vars
  <2>1. /\ UNCHANGED <<auth, epochs, file, lastEpoch, lastGen, pLock, sched, schedEpoch, schedGen>>
        /\ UNCHANGED <<pc, job, snap, skip, out, shownGen, dirty, gone>>
    BY Zenon, <1>4 DEF vars, memVars, storeVars, schedVars, opVars, history
  <2>2. LockInv' /\ TombInv' /\ SaveInv' /\ NoResurrection'
    BY <2>1 DEF CopiesInv, LockInv, TombInv, SaveInv, NoResurrection
  <2>3. OrderInv' /\ ViewInv'
    BY <2>1 DEF CopiesInv, OrderInv, ViewInv
  <2>4. EntryInv' /\ ToldInv'
    BY <2>1 DEF CopiesInv, EntryInv, ToldInv, Tells, Telling
  <2>5. StoreInv'
    BY <2>1 DEF CopiesInv, StoreInv, Writes
  <2> QED BY Zenon, <2>2, <2>3, <2>4, <2>5 DEF CopiesInv
<1> QED BY Zenon, <1>1, <1>2, <1>3, <1>4 DEF Next

\* The agreement of the copies is an invariant.
LEMMA Copies == Spec => [](TypeOK /\ CopiesInv)
<1>1. Init => TypeOK /\ CopiesInv
  BY Zenon, InitType, InitCopies
<1>2. TypeOK /\ CopiesInv /\ [Next]_vars => (TypeOK /\ CopiesInv)'
  BY Zenon, NextType, NextCopies
<1> QED BY <1>1, <1>2, PTL DEF Spec

\* Once every operation has told the scheduler, it selects what m.auths holds:
\* a snapshot that arrives late never hides a later change (upsertAuth,
\* isStaleScheduledAuth), for any number of concurrent operations.
THEOREM SchedulerFollows == Spec => []SchedulerCurrent
<1>1. TypeOK /\ CopiesInv => SchedulerCurrent
  <2> SUFFICES ASSUME TypeOK, CopiesInv, \A p \in Ops : ~Telling(p)
               PROVE  IF auth = None \/ auth.off THEN sched = None
                      ELSE sched # None /\ View(sched) = View(auth)
    BY Zenon DEF SchedulerCurrent
  <2>1. \A p \in Ops : ~Tells(p) /\ pc[p] # "tombstone"
    BY Zenon DEF Tells, Telling
  <2> QED BY Zenon, <2>1 DEF CopiesInv, ToldInv, EntryInv
<1> QED BY <1>1, Copies, PTL

\* Once every writer is done, the store holds what m.auths holds, unless a write
\* failed or was left out on request (persistAuthLocked).
THEOREM StoreFollows == Spec => []StoreCurrent
<1>1. CopiesInv => StoreCurrent
  BY Zenon DEF CopiesInv, StoreInv, StoreCurrent, Writes, Writing
<1> QED BY <1>1, Copies, PTL

\* No save and no refresh that was under way when the credential was deleted
\* brings its record back.
THEOREM DeletedStaysDeleted == Spec => []NoResurrection
<1>1. CopiesInv => NoResurrection
  BY Zenon DEF CopiesInv
<1> QED BY <1>1, Copies, PTL

-----------------------------------------------------------------------------
(* The scheduler never goes back. *)

\* A step of the scheduler's generation of the credential.
Forward ==
    \/ schedEpoch' > schedEpoch
    \/ schedEpoch' = schedEpoch /\ schedGen' >= schedGen

\* An upsert goes forward or does nothing.
LEMMA UpsertForward ==
    ASSUME TypeOK, NEW a \in Auths, upsertAuth(a)
    PROVE  Forward
<1>1. /\ schedEpoch \in Nat /\ schedGen \in Nat /\ a.epoch \in Nat /\ a.gen \in Nat
  BY Zenon, Fields DEF TypeOK
<1>2. CASE isStaleScheduledAuth(a.epoch, a.gen)
  BY <1>1, <1>2 DEF upsertAuth, schedVars, Forward
<1>3. CASE ~isStaleScheduledAuth(a.epoch, a.gen)
  <2>1. schedEpoch' = a.epoch /\ schedGen' = a.gen
    BY Zenon, <1>3 DEF upsertAuth
  <2>2. ~(schedEpoch > a.epoch) /\ ~(schedEpoch = a.epoch /\ schedGen > a.gen)
    BY Zenon, <1>3 DEF isStaleScheduledAuth
  <2> QED BY <1>1, <2>1, <2>2 DEF Forward
<1> QED BY Zenon, <1>2, <1>3

\* The scheduler's epoch and generation never decrease, although the snapshots it
\* is given arrive in any order: not by an upsert, not by a rebuild, and not by a
\* removal, whose tombstone epoch is newer than all it has seen.
THEOREM SchedulerNeverBack == Spec => SchedulerForward
<1>1. ASSUME TypeOK, CopiesInv, [Next]_vars PROVE [Forward]_vars
  <2>t. schedEpoch \in Nat /\ schedGen \in Nat
    BY Zenon, <1>1 DEF TypeOK
  <2>u. UNCHANGED schedVars => Forward
    BY <2>t DEF schedVars, Forward
  <2>1. ASSUME NEW p \in Ops, Begin(p) PROVE Forward
    <3>1. \/ Quiet(p)
          \/ \E a \in Auths : Committing(p, a) \/ Recording(p, a)
          \/ Register(p) \/ Remove(p) \/ Delete(p) \/ SyncScheduler(p)
      BY Zenon, <1>1, <2>1, BeginKinds
    <3>2. CASE SyncScheduler(p)
      <4>1. (UNCHANGED <<schedEpoch, schedGen>>) \/ (auth # None /\ upsertAuth(auth))
        BY Zenon, <3>2 DEF SyncScheduler, rebuild
      <4>2. UNCHANGED <<schedEpoch, schedGen>> => Forward
        BY <2>t DEF Forward
      <4>3. auth # None => auth \in Auths
        BY Zenon, <1>1 DEF TypeOK
      <4> QED BY Zenon, <1>1, <4>1, <4>2, <4>3, UpsertForward
    <3>3. CASE ~SyncScheduler(p)
      <4>1. UNCHANGED schedVars
        BY Zenon, <3>1, <3>3 DEF Quiet, Committing, Recording, Register, Remove, Delete
      <4> QED BY Zenon, <2>u, <4>1
    <3> QED BY Zenon, <3>2, <3>3
  <2>2. ASSUME NEW p \in Ops, Step(p) PROVE Forward
    <3>1. \/ Quiet(p)
          \/ \E a \in Auths : Committing(p, a) \/ Failing(p, a)
          \/ Persist(p) \/ Save(p) \/ Upsert(p)
          \/ DeleteRecord(p) \/ Drop(p) \/ Tombstone(p)
      BY Zenon, <1>1, <2>2, StepKinds DEF CopiesInv
    <3>2. CASE Tombstone(p)
      <4>1. lastEpoch = epochs /\ schedEpoch < epochs /\ RecordRemovalTombstone(lastEpoch)
        BY Zenon, <1>1, <3>2 DEF Tombstone, CopiesInv, TombInv
      <4>2. epochs \in Nat
        BY Zenon, <1>1 DEF TypeOK
      <4> QED BY <2>t, <4>1, <4>2 DEF RecordRemovalTombstone, Forward
    <3>3. CASE Upsert(p)
      <4>1. snap[p] \in Auths /\ upsertAuth(snap[p])
        BY Zenon, <1>1, <3>3 DEF TypeOK, Upsert
      <4> QED BY Zenon, <1>1, <4>1, UpsertForward
    <3>4. ASSUME NEW a \in Auths, Failing(p, a) PROVE Forward
      <4>1. upsertAuth(a)
        BY Zenon, <3>4 DEF Failing
      <4> QED BY Zenon, <1>1, <4>1, UpsertForward
    <3>5. CASE Quiet(p) \/ (\E a \in Auths : Committing(p, a)) \/ Persist(p) \/ Save(p)
               \/ DeleteRecord(p) \/ Drop(p)
      <4>1. UNCHANGED schedVars
        BY Zenon, <3>5 DEF Quiet, Committing, Persist, Save, DeleteRecord, Drop
      <4> QED BY Zenon, <2>u, <4>1
    <3> QED BY Zenon, <3>1, <3>2, <3>3, <3>4, <3>5
  <2>3. CASE WriteFile
    <3>1. UNCHANGED schedVars
      BY Zenon, <2>3 DEF WriteFile
    <3> QED BY Zenon, <2>u, <3>1
  <2> QED BY Zenon, <1>1, <2>1, <2>2, <2>3 DEF Next
<1>2. Spec => [][Forward]_vars
  BY <1>1, Copies, PTL DEF Spec
<1>3. SchedulerForward <=> [][Forward]_vars
  BY Zenon DEF SchedulerForward, Forward
<1> QED BY Zenon, <1>2, <1>3

-----------------------------------------------------------------------------
(* Cooldowns and resets. *)

\* A cooldown is the work of a request of the current registration and
\* availability epoch; a disabled credential has none.
ResetInv == ResetHolds /\ OffInv

\* Nothing that matters to the cooldown changes.
LEMMA ResetSame ==
    ASSUME ResetInv, UNCHANGED <<auth, blame, carried>>
    PROVE  ResetInv'
BY Zenon DEF ResetInv, ResetHolds, OffInv

\* The entry changes, and with it the history of its cooldown.
LEMMA ResetInstall ==
    ASSUME NEW a, NEW why, NEW kept, Install(a, why, kept), ~(a.off /\ a.cool),
           a.cool /\ ~kept => why = <<a.epoch, a.availability>>
    PROVE  ResetInv'
BY Zenon DEF Install, ResetInv, ResetHolds, OffInv

\* An update keeps a cooldown or ends it; what it keeps, it keeps with its
\* availability epoch, unless a reload carries it over.
LEMMA ResetUpdated ==
    ASSUME ResetInv, auth \in Auths, NEW t \in Nat, NEW n \in Notes \cup {None},
           NEW o \in BOOLEAN, NEW c \in BOOLEAN, NEW kept \in BOOLEAN,
           c /\ ~kept => auth.cool /\ ~carried,
           Install(Updated(auth, t, n, o, c), blame, kept)
    PROVE  ResetInv'
<1> DEFINE u == Updated(auth, t, n, o, c)
<1>1. /\ u.epoch = auth.epoch /\ u.off = o /\ u.cool = (c /\ ~o)
      /\ ~o /\ ~auth.off => u.availability = auth.availability
  <2>1. u.epoch = auth.epoch /\ u.off = o /\ u.cool = (c /\ ~o)
        /\ u.availability = auth.availability + Flag(auth.off # o) + Flag(o /\ c)
    BY Zenon DEF Updated
  <2>2. auth.availability \in Nat /\ auth.off \in BOOLEAN
    BY Zenon, Fields
  <2>3. ~o /\ ~auth.off => Flag(auth.off # o) = 0 /\ Flag(o /\ c) = 0
    BY Zenon, <2>2 DEF Flag
  <2> QED BY <2>1, <2>2, <2>3
<1>2. Install(u, blame, kept)
  BY Zenon
<1>3. auth # None /\ auth.off \in BOOLEAN
  BY Zenon, Fields
<1> HIDE DEF u
<1>4. ~(u.off /\ u.cool)
  BY Zenon, <1>1
<1>5. ASSUME u.cool, ~kept PROVE blame = <<u.epoch, u.availability>>
  <2>1. auth.cool /\ ~carried /\ ~o
    BY Zenon, <1>1, <1>5
  <2>2. ~auth.off
    BY Zenon, <1>3, <2>1 DEF ResetInv, OffInv
  <2> QED BY Zenon, <1>1, <1>3, <2>1, <2>2 DEF ResetInv, ResetHolds
<1> QED BY Zenon, <1>2, <1>4, <1>5, ResetInstall

\* The calls and the uses of a snapshot.
LEMMA ResetBegin ==
    ASSUME TypeOK, ResetInv, NEW p \in Ops, Begin(p)
    PROVE  ResetInv'
<1>0. /\ auth # None => auth \in Auths /\ auth.cool \in BOOLEAN /\ auth.off \in BOOLEAN /\ auth.tok \in Nat
      /\ carried \in BOOLEAN /\ 1..MaxTokens \subseteq Nat
      /\ snap[p] \in Auths /\ snap[p].cool \in BOOLEAN
  BY ConstantsAssumption, Fields DEF TypeOK
<1>c. auth # None => /\ ~(auth.off /\ auth.cool)
                     /\ auth.cool /\ ~carried => blame = <<auth.epoch, auth.availability>>
  BY Zenon DEF ResetInv, ResetHolds, OffInv
<1>1. CASE \/ Look(p) \/ Leave(p) \/ Remove(p) \/ Delete(p) \/ RefreshSchedulerEntry(p) \/ SyncScheduler(p)
           \/ AutoRefresh(p) \/ RefreshForRequest(p) \/ PrepareRequestAuth(p)
  <2>1. UNCHANGED <<memVars, history>>
    BY Zenon, <1>1 DEF Look, Leave, Remove, Delete, RefreshSchedulerEntry, SyncScheduler,
                AutoRefresh, RefreshForRequest, PrepareRequestAuth, Enter
  <2> QED BY Zenon, <2>1, ResetSame DEF memVars, history
<1>3. CASE Register(p)
  <2>1. auth' # None => ~auth'.cool
    BY <1>3 DEF Register
  <2> QED BY Zenon, <2>1 DEF ResetInv, ResetHolds, OffInv
<1>4. CASE Update(p)
  <2>1. auth # None /\ auth \in Auths /\ auth.cool \in BOOLEAN
    BY Zenon, <1>0, <1>4 DEF Update
  <2>2. PICK t \in 1..MaxTokens, n \in Notes, o \in BOOLEAN :
         \E c \in Recovered(auth, t, auth.cool /\ ~o) :
              Commit(p, "change", Updated(auth, t, n, o, c), carried /\ c)
    BY Zenon, <1>4 DEF Update
  <2>3. PICK c \in Recovered(auth, t, auth.cool /\ ~o) :
              Commit(p, "change", Updated(auth, t, n, o, c), carried /\ c)
    BY Zenon, <2>2
  <2>4. c \in BOOLEAN /\ (c => auth.cool)
    BY Zenon, <2>1, RecoveredType
  <2>5. Install(Updated(auth, t, n, o, c), blame, carried /\ c)
    BY Zenon, <2>3 DEF Commit
  <2>6. (carried /\ c) \in BOOLEAN /\ (c /\ ~(carried /\ c) => auth.cool /\ ~carried)
    BY Zenon, <1>0, <2>4
  <2>7. t \in Nat /\ n \in Notes \cup {None}
    BY Zenon, <1>0
  <2> QED BY Zenon, <2>1, <2>4, <2>5, <2>6, <2>7, ResetUpdated
<1>5. CASE Reload(p)
  <2>1. auth # None /\ auth \in Auths /\ auth.cool \in BOOLEAN /\ auth.off \in BOOLEAN
    BY Zenon, <1>0, <1>5 DEF Reload
  <2>2. PICK t \in 1..MaxTokens, n \in Notes, o \in BOOLEAN :
         \E k \in Reloaded(snap[p], o) : \E c \in Recovered(auth, t, k) :
              Commit(p, "change", Updated(auth, t, n, o, c),
                     c /\ (carried \/ snap[p].cool))
    BY Zenon, <1>5 DEF Reload
  <2>k. PICK k \in Reloaded(snap[p], o) : \E c \in Recovered(auth, t, k) :
              Commit(p, "change", Updated(auth, t, n, o, c),
                     c /\ (carried \/ snap[p].cool))
    BY Zenon, <2>2
  <2>3. PICK c \in Recovered(auth, t, k) :
              Commit(p, "change", Updated(auth, t, n, o, c),
                     c /\ (carried \/ snap[p].cool))
    BY Zenon, <2>k
  <2> DEFINE kept == c /\ (carried \/ snap[p].cool)
  <2>4. k \in BOOLEAN /\ (k => auth.cool \/ snap[p].cool)
    BY Zenon, <1>0, <2>1 DEF Reloaded
  <2>5. c \in BOOLEAN /\ (c => k)
    BY Zenon, <2>4, RecoveredType
  <2>6. kept \in BOOLEAN /\ (c /\ ~kept => auth.cool /\ ~carried)
    BY Zenon, <1>0, <2>4, <2>5
  <2>7. Install(Updated(auth, t, n, o, c), blame, kept)
    BY Zenon, <2>3 DEF Commit
  <2>8. t \in Nat /\ n \in Notes \cup {None}
    BY Zenon, <1>0
  <2> HIDE DEF kept
  <2> QED BY Zenon, <2>1, <2>5, <2>6, <2>7, <2>8, ResetUpdated
<1>6. CASE PatchAuth(p)
  <2>1. auth # None /\ auth \in Auths /\ auth.cool \in BOOLEAN /\ auth.tok \in Nat
    BY Zenon, <1>0, <1>6 DEF PatchAuth
  <2>2. PICK n \in Notes, o \in BOOLEAN :
          Commit(p, "change", Updated(auth, auth.tok, n, o, auth.cool), carried /\ auth.cool)
    BY Zenon, <1>6 DEF PatchAuth
  <2>3. PICK c \in BOOLEAN : c = auth.cool
    BY Zenon, <2>1
  <2>4. Install(Updated(auth, auth.tok, n, o, c), blame, carried /\ c)
    BY Zenon, <2>2, <2>3 DEF Commit
  <2>5. (carried /\ c) \in BOOLEAN /\ (c /\ ~(carried /\ c) => auth.cool /\ ~carried)
    BY Zenon, <1>0, <2>3
  <2>6. n \in Notes \cup {None}
    BY Zenon
  <2> QED BY Zenon, <2>1, <2>4, <2>5, <2>6, ResetUpdated
<1>9. CASE MarkResult(p)
  <2> DEFINE a == [auth EXCEPT !.gen = @ + 1]
             on == Booked(auth, 1, TRUE)
             off == Booked(auth, 1, FALSE)
             why == <<snap[p].epoch, snap[p].availability>>
  <2>1. auth # None /\ auth \in Auths
    BY Zenon, <1>0, <1>9 DEF MarkResult, resultMatchesCredential
  <2>a. a.epoch = auth.epoch /\ a.availability = auth.availability /\ a.off = auth.off /\ a.cool = auth.cool
    BY Zenon, <2>1, CountedType
  <2>b. on.epoch = auth.epoch /\ on.availability = auth.availability /\ on.off = auth.off
    BY <2>1, BookedEither, Zenon
  <2>d. ~off.cool
    BY <2>1, BookedEither, Zenon
  <2>2. \/ Install(a, blame, carried)
        \/ Install(off, blame, FALSE)
        \/ /\ ~auth.off /\ snap[p].epoch = auth.epoch /\ snap[p].availability = auth.availability
           /\ Install(on, why, FALSE)
    BY Zenon, <1>9 DEF MarkResult, Record, Booked, resultMatchesCredential, resultMatchesAvailabilityEpoch
  <2>w. snap[p].epoch = auth.epoch /\ snap[p].availability = auth.availability
          => why = <<auth.epoch, auth.availability>>
    BY Zenon
  <2> HIDE DEF a, on, off, why
  <2>3. CASE Install(a, blame, carried)
    BY Zenon, <1>c, <2>1, <2>3, <2>a, ResetInstall
  <2>4. CASE Install(off, blame, FALSE)
    BY Zenon, <2>4, <2>d, ResetInstall
  <2>5. CASE /\ ~auth.off /\ snap[p].epoch = auth.epoch /\ snap[p].availability = auth.availability
             /\ Install(on, why, FALSE)
    BY Zenon, <2>5, <2>b, <2>w, ResetInstall
  <2> QED BY Zenon, <2>2, <2>3, <2>4, <2>5
<1>10. CASE RecordNeutralResult(p) \/ MarkRefreshPending(p)
  <2> DEFINE a == [auth EXCEPT !.gen = @ + 1]
  <2>1. auth # None /\ auth \in Auths
    BY Zenon, <1>0, <1>10 DEF RecordNeutralResult, resultMatchesCredential, MarkRefreshPending
  <2>a. a.epoch = auth.epoch /\ a.availability = auth.availability /\ a.off = auth.off /\ a.cool = auth.cool
    BY Zenon, <2>1, CountedType
  <2>2. Install(a, blame, carried)
    BY Zenon, <1>10 DEF RecordNeutralResult, MarkRefreshPending, Record
  <2> HIDE DEF a
  <2> QED BY Zenon, <1>c, <2>1, <2>2, <2>a, ResetInstall
<1>11. CASE ResetQuota(p)
  <2> DEFINE n == 1 + Flag(auth.cool)
             a == [auth EXCEPT !.gen = @ + n, !.availability = @ + n, !.cool = FALSE]
  <2>1. auth \in Auths
    BY Zenon, <1>0, <1>11 DEF ResetQuota
  <2>2. n \in Nat
    BY DEF Flag
  <2>3. ~a.cool
    <3> HIDE DEF n
    <3> QED BY Zenon, <2>1, <2>2, ResetType
  <2>4. Install(a, blame, FALSE)
    BY Zenon, <1>11 DEF ResetQuota, Record
  <2> HIDE DEF a
  <2> QED BY Zenon, <2>3, <2>4, ResetInstall
<1>12. CASE ReconcileModelStates(p)
  <2>1. auth # None /\ auth \in Auths /\ auth.cool \in BOOLEAN
    BY Zenon, <1>0, <1>12 DEF ReconcileModelStates
  <2>2. CASE Record(p, "wait", "change", auth, blame, carried)
    BY Zenon, <1>c, <2>1, <2>2, ResetInstall DEF Record
  <2>3. ASSUME NEW c \in {auth.cool, FALSE},
               Record(p, "wait", "change", [auth EXCEPT !.gen = @ + 1, !.cool = c], blame, carried /\ c)
        PROVE  ResetInv'
    <3> DEFINE a == Booked(auth, 1, c)
    <3>1. c \in BOOLEAN
      BY Zenon, <2>1
    <3>2. a.epoch = auth.epoch /\ a.availability = auth.availability /\ a.off = auth.off /\ a.cool = c
      <4>1. auth \in Auths
        BY Zenon, <2>1
      <4> QED BY <3>1, <4>1, BookedOnce, Zenon
    <3>3. Install(a, blame, carried /\ c)
      <4>1. [auth EXCEPT !.gen = @ + 1, !.cool = c] = a
        BY Zenon, <2>1, <3>1, Reconciled
      <4> QED BY Zenon, <2>3, <4>1 DEF Record
    <3> HIDE DEF a
    <3>4. c => auth.cool
      BY Zenon, <2>3
    <3> QED BY Zenon, <1>c, <2>1, <3>2, <3>3, <3>4, ResetInstall
  <2> QED BY Zenon, <1>12, <2>2, <2>3 DEF ReconcileModelStates
<1>13. CASE ClearCooldown(p)
  <2> DEFINE a == [auth EXCEPT !.gen = @ + 1, !.availability = @ + 1, !.cool = FALSE]
  <2>1. auth \in Auths
    BY Zenon, <1>0, <1>13 DEF ClearCooldown
  <2>2. ~a.cool
    BY Zenon, <2>1, ResetType
  <2>3. Install(a, blame, FALSE)
    BY Zenon, <1>13 DEF ClearCooldown, Record
  <2> HIDE DEF a
  <2> QED BY Zenon, <2>2, <2>3, ResetInstall
<1> QED BY Zenon, <1>1, <1>3, <1>4, <1>5, <1>6, <1>9, <1>10, <1>11, <1>12, <1>13 DEF Begin

\* The steps of an operation.
LEMMA ResetStep ==
    ASSUME TypeOK, ResetInv, NEW p \in Ops, Step(p)
    PROVE  ResetInv'
<1>0. /\ auth # None => auth \in Auths /\ auth.cool \in BOOLEAN /\ auth.off \in BOOLEAN
                        /\ auth.note \in Notes \cup {None}
      /\ carried \in BOOLEAN /\ out[p].tok \in Nat
  BY Zenon, Fields DEF TypeOK
<1>c. auth # None => /\ ~(auth.off /\ auth.cool)
                     /\ auth.cool /\ ~carried => blame = <<auth.epoch, auth.availability>>
  BY Zenon DEF ResetInv, ResetHolds, OffInv
<1>1. CASE Persist(p) \/ Save(p) \/ Upsert(p) \/ DeleteRecord(p) \/ Tombstone(p)
           \/ Upstream(p) \/ DropAnswer(p)
  <2>1. UNCHANGED <<auth, blame, carried>>
    BY Zenon, <1>1 DEF Persist, Save, Upsert, DeleteRecord, Tombstone, Upstream, DropAnswer, memVars, history
  <2> QED BY Zenon, <2>1, ResetSame
<1>2. CASE Drop(p)
  <2>1. auth' = None \/ UNCHANGED <<auth, blame, carried>>
    BY Zenon, <1>2 DEF Drop, memVars
  <2>2. auth' = None => ResetInv'
    BY Zenon DEF ResetInv, ResetHolds, OffInv
  <2> QED BY Zenon, <2>1, <2>2, ResetSame
<1>8. CASE RefreshFailed(p)
  <2>1. CASE ~sameCredentialSnapshot(snap[p]) \/ auth.off
    <3>1. UNCHANGED <<auth, blame, carried>>
      BY Zenon, <1>8, <2>1 DEF RefreshFailed, history
    <3> QED BY Zenon, <3>1, ResetSame
  <2>2. CASE ~(~sameCredentialSnapshot(snap[p]) \/ auth.off)
    <3> DEFINE a == [auth EXCEPT !.gen = @ + 1]
               on == Booked(auth, 1, TRUE)
               why == <<snap[p].epoch, snap[p].availability>>
    <3>1. auth # None /\ auth \in Auths /\ ~auth.off /\ snap[p].epoch = auth.epoch
      BY Zenon, <1>0, <2>2 DEF sameCredentialSnapshot
    <3>a. a.epoch = auth.epoch /\ a.availability = auth.availability /\ a.off = auth.off /\ a.cool = auth.cool
      BY Zenon, <3>1, CountedType
    <3>b. on.epoch = auth.epoch /\ on.availability = auth.availability /\ on.off = auth.off
      <4>1. auth \in Auths
        BY Zenon, <3>1
      <4> QED BY <4>1, BookedEither, Zenon
    <3>2. \/ Install(a, blame, carried)
          \/ snap[p].availability = auth.availability /\ Install(on, why, FALSE)
      BY Zenon, <1>8, <2>2 DEF RefreshFailed, Booked
    <3>w. snap[p].availability = auth.availability => why = <<auth.epoch, auth.availability>>
      BY Zenon, <3>1
    <3> HIDE DEF a, on, why
    <3>3. CASE Install(a, blame, carried)
      BY Zenon, <1>c, <3>1, <3>3, <3>a, ResetInstall
    <3>4. CASE snap[p].availability = auth.availability /\ Install(on, why, FALSE)
      BY Zenon, <3>1, <3>4, <3>b, <3>w, ResetInstall
    <3> QED BY Zenon, <3>2, <3>3, <3>4
  <2> QED BY Zenon, <2>1, <2>2
<1>9. CASE CommitAnswer(p)
  <2>1. auth # None /\ auth \in Auths /\ auth.note \in Notes \cup {None} /\ auth.cool \in BOOLEAN
        /\ auth.off \in BOOLEAN
    BY Zenon, <1>0, <1>9 DEF CommitAnswer, sameCredentialSnapshot
  <2>2. PICK c \in Merged(p, auth, snap[p]) :
          Commit(p, job[p], Updated(auth, out[p].tok, auth.note, auth.off, c), carried /\ c)
    BY Zenon, <1>9 DEF CommitAnswer
  <2>3. c \in BOOLEAN /\ (c => auth.cool)
    BY Zenon, <2>1, <2>2, RecoveredType DEF Merged
  <2>4. PICK o \in BOOLEAN : o = auth.off
    BY Zenon, <2>1
  <2>5. Install(Updated(auth, out[p].tok, auth.note, o, c), blame, carried /\ c)
    BY Zenon, <2>2, <2>4 DEF Commit
  <2>6. (carried /\ c) \in BOOLEAN /\ (c /\ ~(carried /\ c) => auth.cool /\ ~carried)
    BY Zenon, <1>0, <2>3
  <2> QED BY Zenon, <1>0, <2>1, <2>3, <2>5, <2>6, ResetUpdated
<1> QED BY Zenon, <1>1, <1>2, <1>8, <1>9 DEF Step

\* A cooldown always stems from a request that started in the current
\* registration and after the last reset or change of the disabled flag, unless
\* a file reload carried it over: results that come late are not applied.
THEOREM ResetsHold == Spec => []ResetHolds
<1>1. Init => ResetInv
  BY DEF Init, ResetInv, ResetHolds, OffInv
<1>2. TypeOK /\ ResetInv /\ [Next]_vars => ResetInv'
  <2> SUFFICES ASSUME TypeOK, ResetInv, [Next]_vars PROVE ResetInv'
    BY Zenon
  <2>1. CASE WriteFile
    BY Zenon, <2>1, ResetSame DEF WriteFile, memVars
  <2>2. CASE UNCHANGED vars
    BY Zenon, <2>2, ResetSame DEF vars, memVars, history
  <2> QED BY Zenon, <2>1, <2>2, ResetBegin, ResetStep DEF Next
<1>3. ResetInv => ResetHolds
  BY Zenon DEF ResetInv
<1> QED BY <1>1, <1>2, <1>3, TypeCorrect, PTL DEF Spec
-----------------------------------------------------------------------------
(* Every lock is given back. *)

\* Where an operation holds the refresh or the preparation lock.
Answering == {"upstream", "failed", "commit", "persist", "save", "upsert"}

\* A lock is held by an operation that will give it back.
HolderInv ==
    /\ pLock # None => pc[pLock] \in Locked
    /\ \A l \in LockNames : locks[l] # None => /\ pc[locks[l]] \in Answering
                                               /\ job[locks[l]] = l

\* p takes the persistence lock, drops it or keeps it.
HandlesLock(p) ==
    \/ pLock' = None
    \/ pLock' = p /\ pc'[p] \in Locked
    \/ pLock' = pLock /\ (pc[p] \in Locked => pc'[p] \in Locked)

\* So it does with the lock of its kind.
HandlesLocks(p) ==
    \A l \in LockNames :
        \/ locks'[l] \in {locks[l], None} \ {p}
        \/ locks'[l] = p /\ pc'[p] \in Answering /\ job'[p] = l
        \/ locks'[l] = locks[l] /\ ~(pc[p] \in Answering /\ job[p] = l)

\* Who handles its locks so keeps the invariant.
LEMMA HandlersKeep ==
    ASSUME TypeOK, HolderInv, NEW p \in Ops, OthersKept(p), HandlesLock(p), HandlesLocks(p)
    PROVE  HolderInv'
<1>1. pLock \in Ops \cup {None} /\ \A l \in LockNames : locks[l] \in Ops \cup {None}
  BY Zenon DEF TypeOK
<1>2. pLock' # None => pc'[pLock'] \in Locked
  BY Zenon, <1>1 DEF HolderInv, HandlesLock, OthersKept
<1>3. ASSUME NEW l \in LockNames, locks'[l] # None
      PROVE  pc'[locks'[l]] \in Answering /\ job'[locks'[l]] = l
  <2>1. CASE locks'[l] \in {locks[l], None} \ {p}
    BY Zenon, <1>1, <1>3, <2>1 DEF HolderInv, OthersKept
  <2>2. CASE locks'[l] = p /\ pc'[p] \in Answering /\ job'[p] = l
    BY Zenon, <2>2
  <2>3. CASE locks'[l] = locks[l] /\ ~(pc[p] \in Answering /\ job[p] = l)
    <3>1. pc[locks[l]] \in Answering /\ job[locks[l]] = l
      BY Zenon, <1>3, <2>3 DEF HolderInv
    <3>2. locks[l] \in Ops \ {p}
      BY Zenon, <1>1, <1>3, <2>3, <3>1
    <3> QED BY Zenon, <2>3, <3>1, <3>2 DEF OthersKept
  <2> QED BY Zenon, <2>1, <2>2, <2>3 DEF HandlesLocks
<1> QED BY Zenon, <1>2, <1>3 DEF HolderInv

\* An operation that begins holds no lock.
LEMMA BeginHolders == ASSUME TypeOK, HolderInv, NEW p \in Ops, Begin(p) PROVE HolderInv'
<1>i. pc[p] \in {"idle", "held"}
  BY Zenon DEF Begin, Call, Look, Leave, Register, Update, Reload, PatchAuth, Remove, Delete,
     MarkResult, RecordNeutralResult, ResetQuota, ReconcileModelStates, ClearCooldown,
     MarkRefreshPending, RefreshSchedulerEntry, SyncScheduler, AutoRefresh,
     RefreshForRequest, PrepareRequestAuth
<1>f. pc[p] \notin Locked /\ pc[p] \notin Answering
  BY <1>i DEF Locked, Answering
<1>1. ASSUME NEW c, NEW j, NEW s, Become(p, c, j, s) PROVE OthersKept(p) /\ pc'[p] = c /\ job'[p] = j
  BY Zenon, <1>1, OthersBecome
<1>2. ASSUME OthersKept(p), locks' = locks, pLock' = pLock PROVE HolderInv'
  BY Zenon, <1>f, <1>2, HandlersKeep DEF HandlesLock, HandlesLocks
<1>3. ASSUME OthersKept(p), locks' = locks, pLock' = p, pc'[p] \in {"persist", "drop", "delete"}
      PROVE  HolderInv'
  <2>1. pc'[p] \in Locked
    BY Zenon, <1>3 DEF Locked
  <2> QED BY Zenon, <1>f, <1>3, <2>1, HandlersKeep DEF HandlesLock, HandlesLocks
<1>4. ASSUME NEW j, NEW a, NEW kept, Commit(p, j, a, kept) PROVE HolderInv'
  BY Zenon, <1>1, <1>3, <1>4 DEF Commit
<1>5. ASSUME NEW c, NEW j, NEW a, NEW why, NEW kept, Record(p, c, j, a, why, kept)
      PROVE  HolderInv'
  BY Zenon, <1>1, <1>2, <1>5 DEF Record, storeVars
<1>6. ASSUME NEW l \in LockNames, Enter(p, l) PROVE HolderInv'
  <2>1. /\ Become(p, "upstream", l, auth) /\ locks' = [locks EXCEPT ![l] = p]
        /\ pLock' = pLock
    BY Zenon, <1>6 DEF Enter, storeVars
  <2>2. OthersKept(p) /\ pc'[p] = "upstream" /\ job'[p] = l
    BY Zenon, <1>1, <2>1
  <2>3. locks'[l] = p /\ \A k \in LockNames \ {l} : locks'[k] = locks[k]
    BY Zenon, <2>1 DEF TypeOK
  <2>4. pc'[p] \in Answering
    BY Zenon, <2>2 DEF Answering
  <2> QED BY Zenon, <1>f, <2>1, <2>2, <2>3, <2>4, HandlersKeep DEF HandlesLock, HandlesLocks
<1>7. ASSUME UNCHANGED opVars PROVE OthersKept(p)
  BY Zenon, <1>7 DEF opVars, OthersKept
<1>8. CASE Look(p)
  BY Zenon, <1>1, <1>2, <1>8 DEF Look, storeVars
<1>9. CASE Leave(p)
  BY Zenon, OthersStop, <1>2, <1>9 DEF Leave, storeVars
<1>10. CASE Register(p)
  BY Zenon, <1>1, <1>3, <1>10 DEF Register
<1>11. CASE Update(p) \/ Reload(p) \/ PatchAuth(p)
  BY Zenon, <1>4, <1>11 DEF Update, Reload, PatchAuth
<1>12. CASE Remove(p)
  BY Zenon, <1>1, <1>3, <1>12 DEF Remove
<1>13. CASE Delete(p)
  <2>1. OthersKept(p) /\ pc'[p] = "delete"
    BY Zenon, <1>13, OthersGoto DEF Delete
  <2> QED BY Zenon, <1>3, <1>13, <2>1 DEF Delete
<1>14. CASE MarkResult(p) \/ RecordNeutralResult(p)
  BY Zenon, <1>5, <1>14 DEF MarkResult, RecordNeutralResult
<1>15. CASE ResetQuota(p) \/ ReconcileModelStates(p) \/ ClearCooldown(p)
  BY Zenon, <1>5, <1>15 DEF ResetQuota, ReconcileModelStates, ClearCooldown
<1>16. CASE MarkRefreshPending(p) \/ SyncScheduler(p)
  BY Zenon, <1>2, <1>7, <1>16 DEF MarkRefreshPending, SyncScheduler, storeVars
<1>17. CASE RefreshSchedulerEntry(p)
  BY Zenon, <1>2, <1>17, OthersGoto DEF RefreshSchedulerEntry, storeVars
<1>18. CASE AutoRefresh(p) \/ RefreshForRequest(p) \/ PrepareRequestAuth(p)
  BY Zenon, <1>6, <1>18 DEF AutoRefresh, RefreshForRequest, PrepareRequestAuth, LockNames
<1> QED
  BY Zenon, <1>8, <1>9, <1>10, <1>11, <1>12, <1>13, <1>14, <1>15, <1>16, <1>17, <1>18 DEF Begin

\* An operation that ends has given its locks back.
LEMMA StepHolders ==
    ASSUME TypeOK, HolderInv, NEW p \in Ops, Step(p)
    PROVE  HolderInv'
<1>1. ASSUME Return(p) PROVE OthersKept(p) /\ HandlesLocks(p)
  <2>1. OthersKept(p)
    BY Zenon, <1>1, OthersStop DEF Return
  <2>2. \A l \in LockNames : locks'[l] = IF locks[l] = p THEN None ELSE locks[l]
    BY Zenon, <1>1 DEF Return
  <2>3. None # p
    BY Zenon, ConstantsAssumption
  <2> QED BY Zenon, <2>1, <2>2, <2>3 DEF HandlesLocks
<1>2. ASSUME Written(p), locks' = locks PROVE OthersKept(p) /\ HandlesLocks(p)
  <2>1. CASE job[p] = "neutral"
    <3>1. \A l \in LockNames : job[p] # l
      BY <2>1 DEF LockNames
    <3> QED BY Zenon, <1>2, <3>1, OthersWritten DEF HandlesLocks
  <2>2. CASE job[p] # "neutral"
    <3>1. OthersKept(p) /\ pc'[p] = "upsert"
      BY Zenon, <1>2, <2>2, OthersWritten
    <3>2. job'[p] = job[p]
      BY Zenon, <1>2, <2>2 DEF Written
    <3> QED BY Zenon, <1>2, <3>1, <3>2 DEF HandlesLocks, HolderInv, Answering
  <2> QED BY Zenon, <2>1, <2>2
<1>3. ASSUME OthersKept(p), locks' = locks, pc'[p] \in Answering, job'[p] = job[p]
      PROVE  HandlesLocks(p)
  BY Zenon, <1>3 DEF HandlesLocks, HolderInv
<1>4. ASSUME locks' = locks, pc[p] \notin Answering PROVE HandlesLocks(p)
  BY Zenon, <1>4 DEF HandlesLocks
<1>5. ASSUME pLock' = pLock, pc[p] \notin Locked PROVE HandlesLock(p)
  BY Zenon, <1>5 DEF HandlesLock
<1>6. ASSUME Persist(p) PROVE HolderInv'
  <2>1. locks' = locks
    BY Zenon, <1>6 DEF Persist
  <2>2. CASE Written(p) /\ pLock' = None
    BY Zenon, <1>2, <2>1, <2>2, HandlersKeep DEF HandlesLock
  <2>3. CASE Goto(p, "save") /\ pLock' = p /\ UNCHANGED <<job, snap>>
             /\ out' = [out EXCEPT ![p] = Latest(snap[p])]
    <3>1. OthersKept(p) /\ pc'[p] = "save" /\ job'[p] = job[p]
      <4>1. \A q \in Ops \ {p} : out'[q] = out[q]
        BY Zenon, <2>3 DEF TypeOK
      <4> QED BY Zenon, <2>3, <4>1, OthersGoto
    <3>2. pc'[p] \in Answering /\ pc'[p] \in Locked
      BY Zenon, <3>1 DEF Answering, Locked
    <3> QED BY Zenon, <1>3, <2>1, <2>3, <3>1, <3>2, HandlersKeep DEF HandlesLock
  <2> QED BY Zenon, <1>6, <2>2, <2>3 DEF Persist
<1>7. ASSUME Save(p) PROVE HolderInv'
  BY Zenon, <1>2, <1>7, HandlersKeep DEF Save, HandlesLock
<1>8. ASSUME Upsert(p) PROVE HolderInv'
  <2>1. pLock' = pLock /\ Return(p) /\ pc[p] \notin Locked
    BY <1>8 DEF Upsert, storeVars, Locked
  <2> QED BY Zenon, <1>1, <1>5, <2>1, HandlersKeep
<1>9. ASSUME DeleteRecord(p) PROVE HolderInv'
  <2>1. locks' = locks /\ pc[p] \notin Answering
    BY <1>9 DEF DeleteRecord, Answering
  <2>2. CASE Stop(p) /\ pLock' = None
    BY Zenon, <1>4, <2>1, <2>2, OthersStop, HandlersKeep DEF HandlesLock
  <2>3. CASE Goto(p, "drop") /\ UNCHANGED <<pLock, job, snap, out>>
    <3>1. OthersKept(p) /\ pc'[p] = "drop"
      BY Zenon, <2>3, OthersGoto
    <3> QED BY Zenon, <1>4, <2>1, <2>3, <3>1, HandlersKeep DEF HandlesLock, Locked
  <2> QED BY Zenon, <1>9, <2>2, <2>3 DEF DeleteRecord
<1>10. ASSUME Drop(p) PROVE HolderInv'
  <2>1. locks' = locks /\ pc[p] \notin Answering
    BY <1>10 DEF Drop, Answering
  <2>2. CASE Stop(p) /\ pLock' = None
    BY Zenon, <1>4, <2>1, <2>2, OthersStop, HandlersKeep DEF HandlesLock
  <2>3. CASE Goto(p, "tombstone") /\ UNCHANGED <<pLock, job, snap, out>>
    <3>1. OthersKept(p) /\ pc'[p] = "tombstone"
      BY Zenon, <2>3, OthersGoto
    <3> QED BY Zenon, <1>4, <2>1, <2>3, <3>1, HandlersKeep DEF HandlesLock, Locked
  <2> QED BY Zenon, <1>10, <2>2, <2>3 DEF Drop
<1>11. ASSUME Tombstone(p) PROVE HolderInv'
  <2>1. locks' = locks /\ pc[p] \notin Answering /\ Stop(p) /\ pLock' = None
    BY <1>11 DEF Tombstone, Answering
  <2> QED BY Zenon, <1>4, <2>1, OthersStop, HandlersKeep DEF HandlesLock
<1>12. ASSUME Upstream(p) PROVE HolderInv'
  <2>1. pLock' = pLock /\ pc[p] \notin Locked
    BY <1>12 DEF Upstream, storeVars, Locked
  <2>2. CASE Return(p)
    BY Zenon, <1>1, <1>5, <2>1, <2>2, HandlersKeep
  <2>3. ASSUME NEW c \in {"commit", "failed"}, Goto(p, c), UNCHANGED <<locks, job, snap>>,
               \A q \in Ops \ {p} : out'[q] = out[q]
        PROVE  HolderInv'
    <3>1. OthersKept(p) /\ pc'[p] = c /\ job'[p] = job[p]
      BY Zenon, <2>3, OthersGoto
    <3>2. pc'[p] \in Answering
      BY Zenon, <3>1 DEF Answering
    <3> QED BY Zenon, <1>3, <1>5, <2>1, <2>3, <3>1, <3>2, HandlersKeep
  <2>4. ASSUME NEW t, out' = [out EXCEPT ![p] = [snap[p] EXCEPT !.tok = t]]
        PROVE  \A q \in Ops \ {p} : out'[q] = out[q]
    BY Zenon, <2>4 DEF TypeOK
  <2> QED BY Zenon, <1>12, <2>2, <2>3, <2>4 DEF Upstream
<1>13. ASSUME RefreshFailed(p) \/ DropAnswer(p) PROVE HolderInv'
  <2>1. pLock' = pLock /\ Return(p) /\ pc[p] \in {"failed", "commit"}
    BY Zenon, <1>13 DEF RefreshFailed, DropAnswer, storeVars
  <2>2. pc[p] \notin Locked
    BY <2>1 DEF Locked
  <2> QED BY Zenon, <1>1, <1>5, <2>1, <2>2, HandlersKeep
<1>14. ASSUME CommitAnswer(p) PROVE HolderInv'
  <2>1. PICK a, kept : Commit(p, job[p], a, kept)
    BY Zenon, <1>14 DEF CommitAnswer
  <2>2. OthersKept(p) /\ pc'[p] = "persist" /\ job'[p] = job[p] /\ pLock' = p /\ locks' = locks
    BY Zenon, <2>1, OthersBecome DEF Commit
  <2>3. pc'[p] \in Answering /\ pc'[p] \in Locked
    BY Zenon, <2>2 DEF Answering, Locked
  <2> QED BY Zenon, <1>3, <2>2, <2>3, HandlersKeep DEF HandlesLock
<1> QED
  BY Zenon, <1>6, <1>7, <1>8, <1>9, <1>10, <1>11, <1>12, <1>13, <1>14 DEF Step

\* An operation that waits for the persistence lock.
Waits(p) == pc[p] \in {"wait", "commit"} /\ pLock # None

\* No goroutine returns with the persistence, refresh or preparation lock, on any path
\* out of an operation, and while operations are under way one of them waits for no
\* lock: whoever has the persistence lock asks for no other (persistAuthLocked,
\* RemoveWithPersistence, refreshAuthForRequest, prepareRequestAuth).
THEOREM LocksReturned ==
    Spec => [](HoldersBusy /\ ((\E p \in Ops : Busy(p)) => \E p \in Ops : Busy(p) /\ ~Waits(p)))
<1> DEFINE Runs == (\E p \in Ops : Busy(p)) => \E p \in Ops : Busy(p) /\ ~Waits(p)
<1>1. Init => HolderInv
  BY Zenon DEF Init, HolderInv
<1>2. TypeOK /\ HolderInv /\ [Next]_vars => HolderInv'
  <2> SUFFICES ASSUME TypeOK, HolderInv, [Next]_vars PROVE HolderInv'
    BY Zenon
  <2>1. CASE WriteFile
    BY Zenon, <2>1 DEF WriteFile, opVars, HolderInv
  <2>2. CASE UNCHANGED vars
    BY Zenon, <2>2 DEF vars, opVars, storeVars, HolderInv
  <2> QED BY Zenon, <2>1, <2>2, BeginHolders, StepHolders DEF Next
<1>3. TypeOK /\ HolderInv => HoldersBusy /\ Runs
  <2> SUFFICES ASSUME TypeOK, HolderInv PROVE HoldersBusy /\ Runs
    BY Zenon
  <2>1. \A p : pc[p] \in Locked \cup Answering => Busy(p)
    BY DEF Locked, Answering, Busy
  <2>2. \A p : pc[p] \in Locked => ~Waits(p)
    BY DEF Locked, Waits
  <2>3. HoldersBusy
    BY Zenon, <2>1 DEF HolderInv, HoldersBusy
  <2>4. Runs
    BY Zenon, <2>1, <2>2 DEF HolderInv, Waits, TypeOK
  <2> QED BY Zenon, <2>3, <2>4
<1> HIDE DEF Runs
<1>4. Spec => [](HoldersBusy /\ Runs)
  BY <1>1, <1>2, <1>3, TypeCorrect, PTL DEF Spec
<1> QED BY <1>4 DEF Runs
=============================================================================
