-------------------------- MODULE AuthWatcherProofs --------------------------
(***************************************************************************)
(* NoUpdateLost, AppliedForward and Converged for every number of scans,   *)
(* management requests, contents and changes.                              *)
(*                                                                         *)
(* The newest revision is followed from the stamp to the service: it is    *)
(* always with one of its carriers.  Enqueue drops an update only when a   *)
(* newer one was stamped, which another carrier has, and replaces a        *)
(* pending one only by the newest.                                         *)
(*                                                                         *)
(* For Converged the file is followed too: the last notification tells     *)
(* whether it is there, a scan that was not disturbed found what is in it, *)
(* and once nobody is going to look at it again the newest update in       *)
(* flight, or the manager's entry when there is none, is that of the file. *)
(***************************************************************************)
EXTENDS AuthWatcher, TLAPS

Types == ManagerType /\ HookType /\ PipeType /\ BeliefType /\ EventType /\ ScanType

\* u is an update of revision r.
Is(u, r) == u # None /\ u.rev = r

\* Somebody carries the revision r.
Carries(r) ==
    \/ Is(ev.upd, r) \/ Is(pend, r) \/ Is(batch, r)
    \/ \E s \in Scanners : Is(scan[s].upd, r)
    \/ \E m \in Managers : Is(mgr[m].upd, r)
    \/ \E i \in 1..Len(queue) : Is(queue[i], r)

\* u is no newer than the watcher.
Old(u) == u # None => u.rev <= rev

Below ==
    /\ svcRev <= rev
    /\ Old(ev.upd) /\ Old(pend) /\ Old(batch)
    /\ \A s \in Scanners : Old(scan[s].upd)
    /\ \A m \in Managers : Old(mgr[m].upd)
    /\ \A i \in 1..Len(queue) : Old(queue[i])

Carried == svcRev < rev => Carries(rev)

Inv == Types /\ Below /\ Carried

-----------------------------------------------------------------------------
(* Data.                                                                    *)

\* What the synthesizer makes of a content is an entry or nothing.
LEMMA SynthesizedType == \A c : Synthesized(c) \in Entries \cup {None}
  BY Zenon DEF Synthesized, Entry, Entries

\* An entry is not None.
LEMMA EntryType == \A c \in Contents \ Alien, by \in {"file", "core"} :
                       Entry(c, by) \in Entries /\ Entry(c, by) # None
  <1>1. \A c \in Contents \ Alien, by \in {"file", "core"} : Entry(c, by) \in Entries
    BY Zenon DEF Entry, Entries
  <1> QED
    BY Zenon, <1>1, NoneAssumption

\* An update is typed and carries the revision it was made from.
LEMMA UpdateType ==
    \A e \in Entries \cup {None}, r \in Nat :
        /\ Update(e, r) \in Updates
        /\ Update(e, r) # None
        /\ Update(e, r).rev = r
  <1> SUFFICES ASSUME NEW e \in Entries \cup {None}, NEW r \in Nat
               PROVE /\ Update(e, r) \in Updates
                     /\ Update(e, r).rev = r
    BY Zenon, NoneAssumption
  <1> QED
    BY Zenon DEF Update, Updates, Entries

-----------------------------------------------------------------------------
(* Types.                                                                   *)

\* The initial state is typed.
LEMMA InitTypes == Init => Types
  <1> SUFFICES ASSUME Init PROVE Types
    BY Zenon
  <1>1. ManagerType /\ HookType
    BY Zenon DEF Init, ManagerType, Auths, HookType, IdleManager
  <1>2. PipeType
    BY DEF Init, PipeType
  <1>3. cur \in Entries \cup {None}
    BY Zenon, SynthesizedType DEF Init
  <1>4. BeliefType /\ EventType /\ ScanType
    BY Zenon, <1>3 DEF Init, BeliefType, EventType, ScanType, IdleEvent, IdleScan
  <1> QED
    BY Zenon, <1>1, <1>2, <1>4 DEF Types

\* One scan changes.
LEMMA ScanSlot ==
    ASSUME ScanType, NEW s \in Scanners,
           NEW x \in [pc : {"idle", "begin", "scan", "finish", "send"}, force : BOOLEAN,
                      rev : Nat, obs : Nat, found : Entries \cup {None},
                      upd : Updates \cup {None}],
           x.pc = "send" <=> x.upd # None,
           scan' = [scan EXCEPT ![s] = x]
    PROVE  ScanType'
  BY Zenon DEF ScanType

\* One management request changes.
LEMMA HookSlot ==
    ASSUME HookType, NEW m \in Managers,
           NEW x \in [pc : {"idle", "hook", "stamp", "send", "apply"}, epoch : Nat,
                      c : (Contents \ Alien) \cup {None}, upd : Updates \cup {None}],
           x.pc \in {"send", "apply"} <=> x.upd # None,
           x.pc = "stamp" => x.c # None,
           mgr' = [mgr EXCEPT ![m] = x]
    PROVE  HookType'
  BY Zenon DEF HookType

\* Publish keeps the types of the belief and of the event goroutine.
LEMMA PublishTypes ==
    ASSUME BeliefType, NEW e \in Entries \cup {None}, NEW had, Publish(e, had)
    PROVE  /\ cur' \in Entries \cup {None} /\ rev' \in Nat
           /\ EventType'
  <1>1. CASE ev' = IdleEvent /\ UNCHANGED <<cur, rev>>
    BY Zenon, <1>1 DEF IdleEvent, BeliefType, EventType
  <1>2. CASE Stamp(e) /\ ev' = [IdleEvent EXCEPT !.pc = "send", !.upd = Update(e, rev + 1)]
    <2>1. rev + 1 \in Nat
      BY DEF BeliefType
    <2>2. Update(e, rev + 1) \in Updates /\ Update(e, rev + 1) # None
      BY <2>1, UpdateType, Zenon
    <2> QED
      BY Zenon, <1>2, <2>1, <2>2 DEF Stamp, IdleEvent, EventType
  <1> QED
    BY Zenon, <1>1, <1>2 DEF Publish

\* Examine, too.
LEMMA ExamineTypes ==
    ASSUME BeliefType, EventType, Examine, ev.pc # "send"
    PROVE  obs' \in Nat /\ EventType'
  <1>1. obs' \in Nat
    BY DEF Examine, Observe, BeliefType
  <1>2. CASE ev' = IdleEvent
    BY Zenon, <1>1, <1>2 DEF IdleEvent, EventType
  <1>3. CASE ev' = [ev EXCEPT !.pc = "read"]
    BY Zenon, <1>1, <1>3 DEF EventType
  <1> QED
    BY Zenon, <1>2, <1>3 DEF Examine

\* Handling a batch of updates keeps the type of the manager's entry.
LEMMA HandleTypes ==
    ASSUME ManagerType, NEW us \in SUBSET Updates, HandleAuthUpdates(us)
    PROVE  ManagerType' /\ svcRev' >= svcRev
  <1>1. CASE UNCHANGED service
    BY <1>1 DEF service, ManagerType
  <1>2. ASSUME NEW u \in us, u.rev > svcRev, svcRev' = u.rev, Apply(u) \/ Refuse(u)
        PROVE  ManagerType' /\ svcRev' >= svcRev
    <2>1. svcRev \in Nat /\ epochs \in Nat /\ u.rev \in Nat
      BY Zenon DEF Updates, ManagerType
    <2>2. u.kind # "delete" => u.c \in Contents \ Alien
      BY Zenon DEF Updates
    <2>3. core' \in Auths \cup {None} /\ epochs' \in Nat
      <3>1. CASE Apply(u)
        BY <3>1, <2>1, <2>2 DEF Apply, Updates, ManagerType, Auths
      <3>2. CASE Refuse(u)
        BY Zenon, <2>1, <3>2 DEF Refuse, ManagerType
      <3> QED
        BY Zenon, <1>2, <3>1, <3>2
    <2> QED
      BY <1>2, <2>1, <2>3 DEF ManagerType, Auths
  <1> QED
    BY Zenon, <1>1, <1>2 DEF HandleAuthUpdates, ApplyLast

\* The event goroutine.
LEMMA EventTypes ==
    ASSUME Types, Take \/ EventStep \/ Elapse
    PROVE  Types'
  <1> USE DEF Types
  <1>1. CASE Take
    <2>1. ManagerType' /\ HookType' /\ PipeType' /\ ScanType'
      BY Zenon, <1>1 DEF Take, service, pipe, ManagerType, HookType, PipeType, ScanType
    <2>2. BeliefType'
      BY <1>1 DEF Take, Observe, BeliefType
    <2>3. EventType'
      BY Zenon, <1>1 DEF Take, IdleEvent, EventType
    <2> QED
      BY Zenon, <2>1, <2>2, <2>3
  <1>2. CASE Check
    <2>1. ManagerType' /\ HookType' /\ PipeType' /\ ScanType'
      BY Zenon, <1>2 DEF Check, service, pipe, ManagerType, HookType, PipeType, ScanType
    <2>2. obs' \in Nat /\ EventType'
      BY Zenon, <1>2, ExamineTypes DEF Check
    <2>3. BeliefType'
      BY Zenon, <1>2, <2>2 DEF Check, BeliefType
    <2> QED
      BY Zenon, <2>1, <2>2, <2>3
  <1>3. CASE Settle
    <2>1. ManagerType' /\ HookType' /\ PipeType' /\ ScanType'
      BY Zenon, <1>3 DEF Settle, service, pipe, ManagerType, HookType, PipeType, ScanType
    <2>2. obs' \in Nat /\ EventType'
      <3>1. ev.pc = "settle" /\ ev.upd = None
        BY Zenon, <1>3 DEF Settle, EventType
      <3>2. CASE Examine
        BY Zenon, <3>1, <3>2, ExamineTypes
      <3>3. CASE ev' = IdleEvent /\ UNCHANGED obs
        BY Zenon, <3>3 DEF IdleEvent, EventType, BeliefType
      <3>4. CASE ev' = [ev EXCEPT !.pc = "remove"] /\ Observe
        BY <3>1, <3>4 DEF Observe, EventType, BeliefType
      <3> QED
        BY Zenon, <1>3, <3>2, <3>3, <3>4 DEF Settle
    <2>3. BeliefType'
      BY Zenon, <1>3, <2>2 DEF Settle, BeliefType
    <2> QED
      BY Zenon, <2>1, <2>2, <2>3
  <1>4. CASE Read
    <2>1. ManagerType' /\ HookType' /\ PipeType' /\ ScanType' /\ BeliefType'
      BY Zenon, <1>4 DEF Read, service, pipe, ManagerType, HookType, PipeType, ScanType, BeliefType
    <2>2. EventType'
      <3>1. ev.upd = None
        BY Zenon, <1>4 DEF Read, EventType
      <3>2. CASE ev' = IdleEvent
        BY Zenon, <3>2 DEF IdleEvent, EventType
      <3>3. CASE disk \in Contents /\ ev' = [ev EXCEPT !.pc = "publish", !.c = disk, !.had = owned]
        BY Zenon, <3>1, <3>3 DEF EventType, BeliefType
      <3> QED
        BY Zenon, <1>4, <3>2, <3>3 DEF Read
    <2> QED
      BY Zenon, <2>1, <2>2
  <1>5. CASE AddOrUpdate
    <2>1. ManagerType' /\ HookType' /\ PipeType' /\ ScanType'
      BY Zenon, <1>5 DEF AddOrUpdate, service, pipe, ManagerType, HookType, PipeType, ScanType
    <2>2. Synthesized(ev.c) \in Entries \cup {None}
      BY Zenon, SynthesizedType
    <2>3. cur' \in Entries \cup {None} /\ rev' \in Nat /\ EventType'
      BY Zenon, <1>5, <2>2, PublishTypes DEF AddOrUpdate
    <2>4. BeliefType'
      BY Zenon, <1>5, <2>3 DEF AddOrUpdate, BeliefType
    <2> QED
      BY Zenon, <2>1, <2>3, <2>4
  <1>6. CASE RemoveClient
    <2>1. ManagerType' /\ HookType' /\ PipeType' /\ ScanType'
      BY Zenon, <1>6 DEF RemoveClient, service, pipe, ManagerType, HookType, PipeType, ScanType
    <2>2. cur' \in Entries \cup {None} /\ rev' \in Nat /\ EventType'
      BY Zenon, <1>6, PublishTypes DEF RemoveClient
    <2>3. BeliefType'
      BY Zenon, <1>6, <2>2 DEF RemoveClient, BeliefType
    <2> QED
      BY Zenon, <2>1, <2>2, <2>3
  <1>7. CASE EventSend
    <2>1. ManagerType' /\ HookType' /\ ScanType' /\ BeliefType'
      BY Zenon, <1>7 DEF EventSend, service, believed, ManagerType, HookType, ScanType, BeliefType
    <2>2. PipeType'
      BY Zenon, <1>7 DEF EventSend, Enqueue, PipeType, EventType
    <2>3. EventType'
      BY Zenon, <1>7 DEF EventSend, IdleEvent, EventType
    <2> QED
      BY Zenon, <2>1, <2>2, <2>3
  <1>8. CASE Elapse
    BY <1>8 DEF Elapse, service, pipe, believed, ManagerType, HookType, PipeType, BeliefType,
                EventType, ScanType
  <1> QED
    BY Zenon, <1>1, <1>2, <1>3, <1>4, <1>5, <1>6, <1>7, <1>8 DEF EventStep

\* The scans.
LEMMA ScanTypes ==
    ASSUME Types, NEW s \in Scanners, Forget(s) \/ Reload(s) \/ ScanStep(s)
    PROVE  Types'
  <1> USE DEF Types
  <1>1. CASE Forget(s) \/ Reload(s)
    <2>1. ManagerType' /\ HookType' /\ PipeType' /\ EventType'
      BY <1>1 DEF Forget, Reload, service, pipe, ManagerType, HookType, PipeType, EventType
    <2>2. BeliefType'
      BY Zenon, <1>1 DEF Forget, Reload, believed, BeliefType
    <2>3. ScanType'
      <3>1. /\ [scan[s] EXCEPT !.pc = "begin"] \in
                 [pc : {"idle", "begin", "scan", "finish", "send"}, force : BOOLEAN, rev : Nat,
                  obs : Nat, found : Entries \cup {None}, upd : Updates \cup {None}]
            /\ [scan[s] EXCEPT !.pc = "begin"].upd = None
        BY <1>1 DEF Forget, Reload, ScanType
      <3>2. scan' = [scan EXCEPT ![s] = [scan[s] EXCEPT !.pc = "begin"]]
        BY Zenon, <1>1 DEF Forget, Reload, ScanType
      <3> QED
        BY Zenon, <3>1, <3>2, ScanSlot
    <2> QED
      BY Zenon, <2>1, <2>2, <2>3
  <1>2. CASE ScanBegin(s)
    <2>1. ManagerType' /\ HookType' /\ PipeType' /\ EventType' /\ BeliefType'
      BY <1>2 DEF ScanBegin, service, pipe, ManagerType, HookType, PipeType, EventType, BeliefType
    <2>2. PICK force \in BOOLEAN :
            scan' = [scan EXCEPT ![s] = [IdleScan EXCEPT !.pc = "scan", !.force = force,
                                                         !.rev = rev, !.obs = obs]]
      BY Zenon, <1>2 DEF ScanBegin
    <2>3. ScanType'
      BY Zenon, <2>2, ScanSlot DEF IdleScan, BeliefType
    <2> QED
      BY Zenon, <2>1, <2>3
  <1>3. CASE ScanRead(s)
    <2>1. ManagerType' /\ HookType' /\ PipeType' /\ EventType' /\ BeliefType'
      BY <1>3 DEF ScanRead, service, pipe, believed, ManagerType, HookType, PipeType, EventType,
                  BeliefType
    <2>2. Synthesized(disk) \in Entries \cup {None}
      BY Zenon, SynthesizedType
    <2>3. /\ [scan[s] EXCEPT !.pc = "finish", !.found = Synthesized(disk)] \in
               [pc : {"idle", "begin", "scan", "finish", "send"}, force : BOOLEAN, rev : Nat,
                obs : Nat, found : Entries \cup {None}, upd : Updates \cup {None}]
          /\ [scan[s] EXCEPT !.pc = "finish", !.found = Synthesized(disk)].upd = None
      BY Zenon, <1>3, <2>2 DEF ScanRead, ScanType
    <2>4. scan' = [scan EXCEPT ![s] = [scan[s] EXCEPT !.pc = "finish",
                                                      !.found = Synthesized(disk)]]
      BY Zenon, <1>3 DEF ScanRead, ScanType
    <2>5. ScanType'
      BY Zenon, <2>3, <2>4, ScanSlot
    <2> QED
      BY Zenon, <2>1, <2>5
  <1>4. CASE ScanFinish(s)
    <2> DEFINE e == IF ChangedDuringScan(s) THEN cur ELSE scan[s].found
    <2>1. ManagerType' /\ HookType' /\ PipeType' /\ EventType'
      BY Zenon, <1>4 DEF ScanFinish, service, pipe, ManagerType, HookType, PipeType, EventType
    <2>2. e \in Entries \cup {None} /\ rev + 1 \in Nat
      BY DEF BeliefType, ScanType
    <2>3. Update(e, rev + 1) \in Updates /\ Update(e, rev + 1) # None
      BY <2>2, UpdateType, Zenon
    <2>4. \/ /\ Stamp(e)
             /\ scan' = [scan EXCEPT ![s] = [IdleScan EXCEPT !.pc = "send",
                                                             !.upd = Update(e, rev + 1)]]
          \/ scan' = [scan EXCEPT ![s] = IdleScan] /\ UNCHANGED <<cur, rev>>
      BY Zenon, <1>4 DEF ScanFinish
    <2> HIDE DEF e
    <2>5. BeliefType'
      BY Zenon, <1>4, <2>2, <2>4 DEF ScanFinish, Stamp, BeliefType
    <2>6. CASE scan' = [scan EXCEPT ![s] = [IdleScan EXCEPT !.pc = "send",
                                                            !.upd = Update(e, rev + 1)]]
      <3> DEFINE x == [IdleScan EXCEPT !.pc = "send", !.upd = Update(e, rev + 1)]
      <3>1. /\ x \in [pc : {"idle", "begin", "scan", "finish", "send"}, force : BOOLEAN,
                       rev : Nat, obs : Nat, found : Entries \cup {None},
                       upd : Updates \cup {None}]
            /\ x.pc = "send" /\ x.upd # None
        BY Zenon, <2>3 DEF IdleScan
      <3>2. scan' = [scan EXCEPT ![s] = x]
        BY Zenon, <2>6
      <3> HIDE DEF x
      <3>3. ScanType'
        BY Zenon, <3>1, <3>2, ScanSlot
      <3> QED
        BY Zenon, <2>1, <2>5, <3>3
    <2>7. CASE scan' = [scan EXCEPT ![s] = IdleScan]
      <3>1. ScanType'
        BY Zenon, <2>7, ScanSlot DEF IdleScan
      <3> QED
        BY Zenon, <2>1, <2>5, <3>1
    <2> QED
      BY Zenon, <2>4, <2>6, <2>7
  <1>5. CASE ScanSend(s)
    <2>1. ManagerType' /\ HookType' /\ EventType' /\ BeliefType'
      BY Zenon, <1>5 DEF ScanSend, service, believed, ManagerType, HookType, EventType, BeliefType
    <2>2. scan[s].upd \in Updates
      BY Zenon, <1>5 DEF ScanSend, ScanType
    <2>3. PipeType'
      BY Zenon, <1>5, <2>2 DEF ScanSend, Enqueue, PipeType
    <2>4. ScanType'
      BY Zenon, <1>5, ScanSlot DEF ScanSend, IdleScan
    <2> QED
      BY Zenon, <2>1, <2>3, <2>4
  <1> QED
    BY Zenon, <1>1, <1>2, <1>3, <1>4, <1>5 DEF ScanStep

\* The dispatcher and the consumer.
LEMMA PipeTypes ==
    ASSUME Types, NextPendingBatch \/ DispatchSend \/ Consume
    PROVE  Types'
  <1> USE DEF Types
  <1>1. HookType' /\ BeliefType' /\ EventType' /\ ScanType'
    <2>1. UNCHANGED <<believed, ev, scan, mgr>>
      BY Zenon DEF NextPendingBatch, DispatchSend, Consume
    <2> QED
      BY Zenon, <2>1 DEF believed, HookType, BeliefType, EventType, ScanType
  <1>2. CASE NextPendingBatch
    <2>1. ManagerType'
      BY Zenon, <1>2 DEF NextPendingBatch, service, ManagerType
    <2>2. PipeType'
      BY Zenon, <1>2 DEF NextPendingBatch, PipeType
    <2> QED
      BY Zenon, <1>1, <2>1, <2>2
  <1>3. CASE DispatchSend
    <2>1. ManagerType'
      BY Zenon, <1>3 DEF DispatchSend, service, ManagerType
    <2>2. batch \in Updates /\ queue \in Seq(Updates) /\ queue' = Append(queue, batch)
      BY Zenon, <1>3 DEF DispatchSend, PipeType
    <2>3. queue' \in Seq(Updates)
      BY <2>2
    <2>4. PipeType'
      BY Zenon, <1>3, <2>3 DEF DispatchSend, PipeType
    <2> QED
      BY Zenon, <1>1, <2>1, <2>4
  <1>4. CASE Consume
    <2>1. Queued \in SUBSET Updates
      BY DEF Queued, PipeType
    <2>2. ManagerType'
      BY Zenon, <1>4, <2>1, HandleTypes DEF Consume
    <2>3. PipeType'
      BY <1>4 DEF Consume, PipeType
    <2> QED
      BY Zenon, <1>1, <2>2, <2>3
  <1> QED
    BY Zenon, <1>2, <1>3, <1>4

\* The manager.
LEMMA ManagerTypes ==
    ASSUME Types, NEW m \in Managers, Save(m) \/ Delete(m) \/ ManagerStep(m)
    PROVE  Types'
  <1> USE DEF Types
  <1> DEFINE Requests == [pc : {"idle", "hook", "stamp", "send", "apply"}, epoch : Nat,
                          c : (Contents \ Alien) \cup {None}, upd : Updates \cup {None}]
  <1>1. EventType' /\ ScanType'
    BY DEF Save, Delete, ManagerStep, Hook, StampPersisted, ManagerSend, ManagerApply,
           EventType, ScanType
  <1>2. CASE Save(m)
    <2>1. PipeType' /\ BeliefType'
      BY Zenon, <1>2 DEF Save, pipe, believed, PipeType, BeliefType
    <2>2. PICK c \in Contents \ Alien, hooked \in BOOLEAN :
            /\ core' = [core EXCEPT !.c = c]
            /\ mgr' = [mgr EXCEPT ![m].pc = IF hooked THEN "hook" ELSE "idle",
                                  ![m].epoch = IF hooked THEN core.epoch ELSE 0]
      BY Zenon, <1>2 DEF Save
    <2>3. core # None /\ mgr[m].pc = "idle"
      BY Zenon, <1>2 DEF Save
    <2>4. ManagerType'
      BY Zenon, <1>2, <2>2, <2>3 DEF Save, ManagerType, Auths
    <2> DEFINE x == [mgr[m] EXCEPT !.pc = IF hooked THEN "hook" ELSE "idle",
                                   !.epoch = IF hooked THEN core.epoch ELSE 0]
    <2>5. x \in Requests /\ x.upd = None /\ x.pc \in {"hook", "idle"}
      BY Zenon, <2>3 DEF ManagerType, Auths, HookType
    <2>6. mgr' = [mgr EXCEPT ![m] = x]
      BY Zenon, <2>2 DEF HookType
    <2> HIDE DEF x
    <2>7. HookType'
      BY Zenon, <2>5, <2>6, HookSlot
    <2> QED
      BY Zenon, <1>1, <2>1, <2>4, <2>7
  <1>3. CASE Delete(m)
    BY Zenon, <1>1, <1>3 DEF Delete, pipe, believed, PipeType, BeliefType, ManagerType, HookType
  <1>4. CASE Hook(m)
    <2>1. PipeType' /\ BeliefType' /\ ManagerType'
      BY Zenon, <1>4 DEF Hook, pipe, believed, service, PipeType, BeliefType, ManagerType
    <2>2. CASE mgr' = [mgr EXCEPT ![m] = IdleManager]
      <3>1. HookType'
        BY Zenon, <2>2, HookSlot DEF IdleManager
      <3> QED
        BY Zenon, <1>1, <2>1, <3>1
    <2>3. CASE core # None /\ mgr' = [mgr EXCEPT ![m] = [IdleManager EXCEPT !.pc = "stamp",
                                                                           !.c = core.c]]
      <3>1. core.c \in Contents \ Alien /\ core.c # None
        BY Zenon, <2>3, ContentsAssumption DEF ManagerType, Auths
      <3>2. HookType'
        BY Zenon, <2>3, <3>1, HookSlot DEF IdleManager
      <3> QED
        BY Zenon, <1>1, <2>1, <3>2
    <2> QED
      BY Zenon, <1>4, <2>2, <2>3 DEF Hook
  <1>5. CASE StampPersisted(m)
    <2> DEFINE e == Entry(mgr[m].c, "core")
    <2>1. PipeType' /\ ManagerType'
      BY Zenon, <1>5 DEF StampPersisted, pipe, service, PipeType, ManagerType
    <2>2. e \in Entries /\ rev + 1 \in Nat
      BY <1>5 DEF StampPersisted, HookType, Entry, Entries, BeliefType
    <2>3. Update(e, rev + 1) \in Updates /\ Update(e, rev + 1) # None
      BY <2>2, UpdateType, Zenon
    <2>4. /\ Stamp(e)
          /\ mgr' = [mgr EXCEPT ![m] = [IdleManager EXCEPT !.pc = "send",
                                                           !.upd = Update(e, rev + 1)]]
      BY Zenon, <1>5 DEF StampPersisted
    <2> HIDE DEF e
    <2>5. BeliefType'
      BY Zenon, <1>5, <2>2, <2>4 DEF StampPersisted, Stamp, BeliefType
    <2> DEFINE x == [IdleManager EXCEPT !.pc = "send", !.upd = Update(e, rev + 1)]
    <2>6. x \in Requests /\ x.pc = "send" /\ x.upd # None
      BY Zenon, <2>3 DEF IdleManager
    <2>7. mgr' = [mgr EXCEPT ![m] = x]
      BY Zenon, <2>4
    <2> HIDE DEF x
    <2>8. HookType'
      BY Zenon, <2>6, <2>7, HookSlot
    <2> QED
      BY Zenon, <1>1, <2>1, <2>5, <2>8
  <1>6. CASE ManagerSend(m)
    <2>1. BeliefType' /\ ManagerType'
      BY Zenon, <1>6 DEF ManagerSend, believed, service, BeliefType, ManagerType
    <2>2. mgr[m].upd \in Updates /\ mgr[m].upd # None
      BY Zenon, <1>6 DEF ManagerSend, HookType
    <2>3. PipeType'
      BY Zenon, <1>6, <2>2 DEF ManagerSend, Enqueue, PipeType
    <2> DEFINE x == [mgr[m] EXCEPT !.pc = "apply"]
    <2>4. x \in Requests /\ x.pc = "apply" /\ x.upd # None
      BY Zenon, <2>2 DEF HookType
    <2>5. mgr' = [mgr EXCEPT ![m] = x]
      BY Zenon, <1>6 DEF ManagerSend, HookType
    <2> HIDE DEF x
    <2>6. HookType'
      BY Zenon, <2>4, <2>5, HookSlot
    <2> QED
      BY Zenon, <1>1, <2>1, <2>3, <2>6
  <1>7. CASE ManagerApply(m)
    <2>1. BeliefType' /\ PipeType'
      BY Zenon, <1>7 DEF ManagerApply, believed, pipe, BeliefType, PipeType
    <2>2. {mgr[m].upd} \in SUBSET Updates
      BY Zenon, <1>7 DEF ManagerApply, HookType
    <2>3. ManagerType'
      BY Zenon, <1>7, <2>2, HandleTypes DEF ManagerApply
    <2>4. HookType'
      BY Zenon, <1>7, HookSlot DEF ManagerApply, IdleManager
    <2> QED
      BY Zenon, <1>1, <2>1, <2>3, <2>4
  <1> QED
    BY Zenon, <1>2, <1>3, <1>4, <1>5, <1>6, <1>7 DEF ManagerStep

\* Every step keeps the types.
LEMMA NextTypes == Types /\ [Next]_vars => Types'
  <1> SUFFICES ASSUME Types, [Next]_vars PROVE Types'
    BY Zenon
  <1>1. CASE External
    BY <1>1 DEF External, believed, pipe, service, Types, ManagerType, HookType, PipeType,
                BeliefType, EventType, ScanType
  <1>2. CASE UNCHANGED vars
    BY <1>2 DEF vars, believed, pipe, service, Types, ManagerType, HookType, PipeType,
                BeliefType, EventType, ScanType
  <1> QED
    BY Zenon, <1>1, <1>2, EventTypes, ScanTypes, PipeTypes, ManagerTypes DEF Next

-----------------------------------------------------------------------------
(* The carriers of the newest revision.                                     *)

\* The service has a revision at least as new as all it was given, and made up none.
LEMMA HandleNewest ==
    ASSUME ManagerType, NEW us \in SUBSET Updates, HandleAuthUpdates(us)
    PROVE  /\ \A u \in us : u.rev <= svcRev'
           /\ svcRev' = svcRev \/ \E u \in us : svcRev' = u.rev
  <1>1. svcRev \in Nat /\ \A u \in us : u.rev \in Nat
    BY Zenon DEF ManagerType, Updates
  <1>2. CASE {u \in us : u.rev > svcRev} = {}
    <2>1. svcRev' = svcRev
      BY Zenon, <1>2 DEF HandleAuthUpdates, service
    <2> QED
      BY <1>1, <1>2, <2>1
  <1>3. CASE {u \in us : u.rev > svcRev} # {}
    <2>1. PICK u \in us : /\ u.rev > svcRev /\ svcRev' = u.rev
                          /\ \A v \in us : v.rev > svcRev => v.rev <= u.rev
      BY Zenon, <1>3 DEF HandleAuthUpdates, ApplyLast
    <2> QED
      BY <1>1, <2>1
  <1> QED
    BY Zenon, <1>2, <1>3

\* Nothing is stamped, moved or handled.
Still ==
    /\ UNCHANGED <<rev, svcRev, pend, batch, queue>>
    /\ ev'.upd = ev.upd
    /\ \A s \in Scanners : scan'[s].upd = scan[s].upd
    /\ \A m \in Managers : mgr'[m].upd = mgr[m].upd

\* A step that leaves the pipeline alone keeps the order and the carriers.
LEMMA StillKeeps ==
    ASSUME Inv, Still
    PROVE  Below' /\ Carried'
  BY Zenon DEF Inv, Still, Below, Carried, Old, Carries, Is

\* The actions that leave the pipeline alone.
LEMMA StillSteps ==
    ASSUME Types
    PROVE  \/ External \/ Take \/ Check \/ Settle \/ Read \/ Elapse
           \/ \E s \in Scanners : Forget(s) \/ Reload(s) \/ ScanBegin(s) \/ ScanRead(s)
           \/ \E m \in Managers : Save(m) \/ Delete(m) \/ Hook(m)
           \/ UNCHANGED vars
           => Still
  <1> USE DEF Types, Still, pipe, believed, service
  <1>1. ASSUME External \/ Elapse \/ UNCHANGED vars PROVE Still
    BY Zenon, <1>1 DEF External, Elapse, vars
  <1>2. ASSUME Take PROVE Still
    BY Zenon, <1>2 DEF Take, IdleEvent, EventType
  <1>3. ASSUME Examine, ev.pc # "send" PROVE ev'.upd = ev.upd
    BY <1>3 DEF Examine, IdleEvent, EventType
  <1>4. ASSUME Check PROVE Still
    BY Zenon, <1>3, <1>4 DEF Check
  <1>5. ASSUME Settle PROVE Still
    <2>1. ev'.upd = ev.upd
      <3>1. CASE disk # None
        BY Zenon, <1>3, <1>5, <3>1 DEF Settle
      <3>2. CASE disk = None
        BY <1>5, <3>2 DEF Settle, IdleEvent, EventType
      <3> QED
        BY Zenon, <3>1, <3>2
    <2> QED
      BY Zenon, <1>5, <2>1 DEF Settle
  <1>6. ASSUME Read PROVE Still
    <2>1. ev.upd = None
      BY Zenon, <1>6 DEF Read, EventType
    <2>2. CASE ev' = IdleEvent
      BY Zenon, <1>6, <2>1, <2>2 DEF Read, IdleEvent
    <2>3. CASE ev' = [ev EXCEPT !.pc = "publish", !.c = disk, !.had = owned]
      BY Zenon, <1>6, <2>3 DEF Read, EventType
    <2> QED
      BY Zenon, <1>6, <2>2, <2>3 DEF Read
  <1>7. ASSUME NEW s \in Scanners, Forget(s) \/ Reload(s) \/ ScanBegin(s) \/ ScanRead(s)
        PROVE  Still
    <2>1. \A t \in Scanners : scan'[t].upd = scan[t].upd
      <3>1. CASE Forget(s) \/ Reload(s)
        BY <3>1 DEF Forget, Reload, ScanType
      <3>2. CASE ScanBegin(s)
        BY <3>2 DEF ScanBegin, IdleScan, ScanType
      <3>3. CASE ScanRead(s)
        BY Zenon, <3>3 DEF ScanRead, ScanType
      <3> QED
        BY Zenon, <1>7, <3>1, <3>2, <3>3
    <2> QED
      BY Zenon, <1>7, <2>1 DEF Forget, Reload, ScanBegin, ScanRead
  <1>8. ASSUME NEW m \in Managers, Save(m) \/ Delete(m) \/ Hook(m)
        PROVE  Still
    <2>1. \A n \in Managers : mgr'[n].upd = mgr[n].upd
      <3>1. CASE Save(m)
        BY <3>1 DEF Save, HookType
      <3>2. CASE Delete(m)
        BY Zenon, <3>2 DEF Delete
      <3>3. CASE Hook(m)
        BY Zenon, <3>3 DEF Hook, IdleManager, HookType
      <3> QED
        BY Zenon, <1>8, <3>1, <3>2, <3>3
    <2> QED
      BY Zenon, <1>8, <2>1 DEF Save, Delete, Hook
  <1> QED
    BY Zenon, <1>1, <1>2, <1>4, <1>5, <1>6, <1>7, <1>8

\* A change is stamped: every carrier is older than it but the one that took it.
LEMMA StampKeeps ==
    ASSUME Inv, Types',
           rev' = rev + 1, UNCHANGED <<svcRev, pend, batch, queue>>,
           Is(ev'.upd, rev + 1) \/ ev'.upd = ev.upd,
           \A s \in Scanners : Is(scan'[s].upd, rev + 1) \/ scan'[s].upd = scan[s].upd,
           \A m \in Managers : Is(mgr'[m].upd, rev + 1) \/ mgr'[m].upd = mgr[m].upd,
           \/ Is(ev'.upd, rev + 1)
           \/ \E s \in Scanners : Is(scan'[s].upd, rev + 1)
           \/ \E m \in Managers : Is(mgr'[m].upd, rev + 1)
    PROVE  Below' /\ Carried'
  <1>1. rev \in Nat /\ svcRev \in Nat
    BY Zenon DEF Inv, Types, BeliefType, ManagerType
  <1>2. \A u \in Updates : u.rev \in Nat
    BY Zenon DEF Updates
  <1> DEFINE Older(u) == u # None => u.rev <= rev + 1
  <1>3. ASSUME NEW u \in Updates \cup {None}, Old(u) PROVE Older(u)
    BY <1>1, <1>2, <1>3 DEF Old
  <1>4. ASSUME NEW u, Is(u, rev + 1) PROVE Older(u)
    BY <1>1, <1>4 DEF Is
  <1> HIDE DEF Older
  <1>5. /\ Older(ev'.upd) /\ Older(pend) /\ Older(batch)
        /\ \A s \in Scanners : Older(scan'[s].upd)
        /\ \A m \in Managers : Older(mgr'[m].upd)
        /\ \A i \in 1..Len(queue) : Older(queue[i])
    <2>1. Older(pend) /\ Older(batch)
      BY Zenon, <1>3 DEF Inv, Below, Types, PipeType
    <2>2. Older(ev'.upd)
      BY Zenon, <1>3, <1>4 DEF Inv, Below, Types, EventType
    <2>3. \A s \in Scanners : Older(scan'[s].upd)
      BY Zenon, <1>3, <1>4 DEF Inv, Below, Types, ScanType
    <2>4. \A m \in Managers : Older(mgr'[m].upd)
      BY Zenon, <1>3, <1>4 DEF Inv, Below, Types, HookType
    <2>5. \A i \in 1..Len(queue) : Older(queue[i])
      BY <1>3 DEF Inv, Below, Types, PipeType
    <2> QED
      BY Zenon, <2>1, <2>2, <2>3, <2>4, <2>5
  <1>6. svcRev' <= rev'
    BY <1>1 DEF Inv, Below
  <1>7. Below'
    BY Zenon, <1>5, <1>6 DEF Older, Below, Old
  <1>8. Carried'
    BY Zenon DEF Carried, Carries, Is
  <1> QED
    BY Zenon, <1>7, <1>8

\* An update is enqueued, and its sender may keep it: it is dropped only when another
\* one is the newest, and replaces none that is.
LEMMA EnqueueKeeps ==
    ASSUME Inv, Types',
           NEW u \in Updates, Old(u), Enqueue(u),
           UNCHANGED <<rev, svcRev, batch, queue>>,
           ev'.upd = ev.upd \/ (ev.upd = u /\ ev'.upd = None),
           \A s \in Scanners : \/ scan'[s].upd = scan[s].upd
                               \/ scan[s].upd = u /\ scan'[s].upd = None,
           \A m \in Managers : mgr'[m].upd = mgr[m].upd
    PROVE  Below' /\ Carried'
  <1>1. rev \in Nat /\ u.rev \in Nat /\ u.rev <= rev /\ u # None
    BY Zenon, NoneAssumption DEF Inv, Types, BeliefType, Updates, Old
  <1>2. \/ u.rev < rev /\ pend' = pend
        \/ u.rev = rev /\ pend' = u
    BY <1>1 DEF Enqueue
  <1>3. Below'
    BY Zenon, <1>1, <1>2 DEF Inv, Below, Old
  <1>4. Carries(rev) => Carries(rev)'
    <2>1. CASE u.rev = rev /\ pend' = u
      BY Zenon, <1>1, <2>1 DEF Carries, Is
    <2>2. CASE u.rev < rev /\ pend' = pend
      BY <1>1, <2>2 DEF Carries, Is
    <2> QED
      BY Zenon, <1>2, <2>1, <2>2
  <1> QED
    BY Zenon, <1>3, <1>4 DEF Inv, Carried

\* Updates that are handled may go: the service is as new as they are.
LEMMA HandleKeeps ==
    ASSUME Inv, Types', NEW us \in SUBSET Updates, HandleAuthUpdates(us),
           \A u \in us : Old(u),
           UNCHANGED <<rev, pend, batch>>, ev'.upd = ev.upd,
           \A s \in Scanners : scan'[s].upd = scan[s].upd,
           \A m \in Managers : \/ mgr'[m].upd = mgr[m].upd
                               \/ mgr[m].upd \in us /\ mgr'[m].upd = None,
           \/ queue' = queue
           \/ Queued \subseteq us /\ queue' = <<>>
    PROVE  Below' /\ Carried'
  <1>1. rev \in Nat /\ svcRev \in Nat /\ svcRev' \in Nat /\ svcRev <= rev
    BY Zenon DEF Inv, Below, Types, BeliefType, ManagerType
  <1>2. \A u \in us : u # None /\ u.rev \in Nat /\ u.rev <= rev
    BY Zenon, NoneAssumption DEF Updates, Old
  <1>3. \A u \in us : u.rev <= svcRev'
    BY Zenon, HandleNewest DEF Inv, Types
  <1>4. svcRev' <= rev
    BY Zenon, <1>1, <1>2, HandleNewest DEF Inv, Types
  <1>5. \A i \in 1..Len(queue') : Old(queue'[i])
    BY DEF Inv, Below
  <1>6. Below'
    BY Zenon, <1>4, <1>5 DEF Inv, Below, Old
  <1>7. CASE svcRev' = rev
    BY <1>1, <1>6, <1>7 DEF Carried
  <1>8. CASE svcRev' # rev
    <2>1. svcRev' < rev /\ svcRev < rev
      BY <1>1, <1>4, <1>8, HandleTypes DEF Inv, Types
    <2>2. \A u \in us : ~Is(u, rev)
      BY <1>1, <1>2, <1>3, <2>1 DEF Is
    <2>3. Carries(rev)
      BY Zenon, <2>1 DEF Inv, Carried
    <2>4. ASSUME NEW i \in 1..Len(queue), Is(queue[i], rev) PROVE Carries(rev)'
      <3>1. queue[i] \in Queued
        BY Zenon DEF Queued
      <3>2. queue' = queue
        BY Zenon, <2>2, <2>4, <3>1
      <3> QED
        BY Zenon, <2>4, <3>2 DEF Carries, Is
    <2>5. ASSUME NEW m \in Managers, Is(mgr[m].upd, rev) PROVE Carries(rev)'
      BY Zenon, <2>2, <2>5 DEF Carries, Is
    <2>6. ASSUME Is(ev.upd, rev) \/ Is(pend, rev) \/ Is(batch, rev) PROVE Carries(rev)'
      <3>1. Is(ev.upd, rev)' \/ Is(pend, rev)' \/ Is(batch, rev)'
        BY Zenon, <2>6 DEF Is
      <3> QED
        BY Zenon, <3>1 DEF Carries
    <2>7. ASSUME NEW s \in Scanners, Is(scan[s].upd, rev) PROVE Carries(rev)'
      BY Zenon, <2>7 DEF Carries, Is
    <2>8. Carries(rev)'
      BY Zenon, <2>3, <2>4, <2>5, <2>6, <2>7 DEF Carries
    <2> QED
      BY Zenon, <1>6, <2>8 DEF Carried
  <1> QED
    BY Zenon, <1>7, <1>8

\* The steps of the watcher that stamp or enqueue.
LEMMA WatcherKeeps ==
    ASSUME Inv, Types'
    PROVE  \/ AddOrUpdate \/ RemoveClient \/ EventSend
           \/ \E s \in Scanners : ScanFinish(s) \/ ScanSend(s)
           => Below' /\ Carried'
  <1>1. rev + 1 \in Nat
    BY DEF Inv, Types, BeliefType
  <1>2. ASSUME NEW e \in Entries \cup {None}, NEW had, Publish(e, had), ev.upd = None,
               UNCHANGED <<svcRev, pend, batch, queue, scan, mgr>>
        PROVE  Below' /\ Carried'
    <2>1. Is(Update(e, rev + 1), rev + 1)
      BY <1>1, UpdateType, Zenon DEF Is
    <2>2. CASE ev' = IdleEvent /\ UNCHANGED <<cur, rev>>
      <3>1. Still
        BY Zenon, <1>2, <2>2 DEF Still, IdleEvent
      <3> QED
        BY Zenon, <3>1, StillKeeps
    <2>3. CASE Stamp(e) /\ ev' = [IdleEvent EXCEPT !.pc = "send", !.upd = Update(e, rev + 1)]
      <3>1. ev'.upd = Update(e, rev + 1) /\ rev' = rev + 1
        BY Zenon, <2>3 DEF Stamp, IdleEvent
      <3> QED
        BY Zenon, <1>2, <2>1, <3>1, StampKeeps
    <2> QED
      BY Zenon, <1>2, <2>2, <2>3 DEF Publish
  <1>3. ASSUME AddOrUpdate PROVE Below' /\ Carried'
    <2>1. Synthesized(ev.c) \in Entries \cup {None} /\ ev.upd = None
      BY Zenon, <1>3, SynthesizedType DEF AddOrUpdate, Inv, Types, EventType
    <2> QED
      BY Zenon, <1>2, <1>3, <2>1 DEF AddOrUpdate, pipe, service
  <1>4. ASSUME RemoveClient PROVE Below' /\ Carried'
    <2>1. ev.upd = None
      BY Zenon, <1>4 DEF RemoveClient, Inv, Types, EventType
    <2> QED
      BY Zenon, <1>2, <1>4, <2>1 DEF RemoveClient, pipe, service
  <1>5. ASSUME EventSend PROVE Below' /\ Carried'
    <2>1. ev.upd \in Updates /\ Old(ev.upd)
      BY Zenon, <1>5 DEF EventSend, Inv, Below, Types, EventType
    <2>2. ev'.upd = None
      BY Zenon, <1>5 DEF EventSend, IdleEvent
    <2>3. Enqueue(ev.upd) /\ UNCHANGED <<rev, svcRev, batch, queue, scan, mgr>>
      BY Zenon, <1>5 DEF EventSend, believed, service
    <2> QED
      BY Zenon, <2>1, <2>2, <2>3, EnqueueKeeps
  <1>6. ASSUME NEW s \in Scanners, ScanFinish(s)
        PROVE  Below' /\ Carried'
    <2> DEFINE e == IF ChangedDuringScan(s) THEN cur ELSE scan[s].found
               x == [IdleScan EXCEPT !.pc = "send", !.upd = Update(e, rev + 1)]
    <2>1. e \in Entries \cup {None}
      BY Zenon DEF Inv, Types, BeliefType, ScanType
    <2>2. \/ rev' = rev + 1 /\ scan' = [scan EXCEPT ![s] = x]
          \/ scan' = [scan EXCEPT ![s] = IdleScan] /\ rev' = rev
      BY Zenon, <1>6 DEF ScanFinish, Stamp
    <2>3. UNCHANGED <<svcRev, pend, batch, queue, ev, mgr>>
      BY Zenon, <1>6 DEF ScanFinish, pipe, service
    <2>4. scan[s].upd = None
      BY Zenon, <1>6 DEF ScanFinish, Inv, Types, ScanType
    <2> HIDE DEF e
    <2>5. Is(Update(e, rev + 1), rev + 1)
      BY <1>1, <2>1, UpdateType, Zenon DEF Is
    <2>6. Is(x.upd, rev + 1)
      BY Zenon, <2>5 DEF IdleScan
    <2> HIDE DEF x
    <2>7. CASE rev' = rev + 1 /\ scan' = [scan EXCEPT ![s] = x]
      <3>1. /\ scan'[s] = x
            /\ \A t \in Scanners : t # s => scan'[t] = scan[t]
        BY Zenon, <2>7 DEF Inv, Types, ScanType
      <3>2. Is(scan'[s].upd, rev + 1)
        BY Zenon, <2>6, <3>1
      <3>3. \A t \in Scanners : Is(scan'[t].upd, rev + 1) \/ scan'[t].upd = scan[t].upd
        BY Zenon, <3>1, <3>2
      <3> QED
        BY Zenon, <2>3, <2>7, <3>2, <3>3, StampKeeps
    <2>8. CASE scan' = [scan EXCEPT ![s] = IdleScan] /\ rev' = rev
      <3>1. \A t \in Scanners : scan'[t].upd = scan[t].upd
        BY Zenon, <2>4, <2>8 DEF IdleScan, Inv, Types, ScanType
      <3>2. Still
        BY Zenon, <2>3, <2>8, <3>1 DEF Still
      <3> QED
        BY Zenon, <3>2, StillKeeps
    <2> QED
      BY Zenon, <2>2, <2>7, <2>8
  <1>7. ASSUME NEW s \in Scanners, ScanSend(s)
        PROVE  Below' /\ Carried'
    <2> DEFINE u == scan[s].upd
    <2>1. u \in Updates /\ Old(u)
      BY Zenon, <1>7 DEF ScanSend, Inv, Below, Types, ScanType
    <2>2. \A t \in Scanners : \/ scan'[t].upd = scan[t].upd
                              \/ scan[t].upd = u /\ scan'[t].upd = None
      <3>1. /\ scan'[s] = IdleScan
            /\ \A t \in Scanners : t # s => scan'[t] = scan[t]
        BY Zenon, <1>7 DEF ScanSend, Inv, Types, ScanType
      <3>2. scan'[s].upd = None
        BY <3>1 DEF IdleScan
      <3> QED
        BY Zenon, <3>1, <3>2
    <2>3. Enqueue(u) /\ UNCHANGED <<rev, svcRev, batch, queue, ev, mgr>>
      BY Zenon, <1>7 DEF ScanSend, believed, service
    <2> HIDE DEF u
    <2>4. ev'.upd = ev.upd /\ \A m \in Managers : mgr'[m].upd = mgr[m].upd
      BY Zenon, <2>3
    <2> QED
      BY Zenon, <2>1, <2>2, <2>3, <2>4, EnqueueKeeps
  <1> QED
    BY Zenon, <1>3, <1>4, <1>5, <1>6, <1>7

\* The steps of the dispatcher, the consumer and the manager.
LEMMA ServiceKeeps ==
    ASSUME Inv, Types'
    PROVE  \/ NextPendingBatch \/ DispatchSend \/ Consume
           \/ \E m \in Managers : StampPersisted(m) \/ ManagerSend(m) \/ ManagerApply(m)
           => Below' /\ Carried'
  <1>1. ASSUME NextPendingBatch PROVE Below' /\ Carried'
    <2>1. /\ batch = None /\ batch' = pend /\ pend' = None
          /\ UNCHANGED <<rev, svcRev, queue, ev, scan, mgr>>
      BY Zenon, <1>1 DEF NextPendingBatch, believed, service
    <2>2. Below'
      BY Zenon, <2>1 DEF Inv, Below, Old
    <2>3. Carries(rev) => Carries(rev)'
      BY Zenon, <2>1 DEF Carries, Is
    <2> QED
      BY Zenon, <2>1, <2>2, <2>3 DEF Inv, Carried
  <1>2. ASSUME DispatchSend PROVE Below' /\ Carried'
    <2>1. /\ queue' = Append(queue, batch) /\ batch' = None /\ batch \in Updates
          /\ UNCHANGED <<rev, svcRev, pend, ev, scan, mgr>>
      BY Zenon, <1>2 DEF DispatchSend, believed, service, Inv, Types, PipeType
    <2>2. /\ Len(queue) \in Nat /\ Len(queue') = Len(queue) + 1
          /\ \A i \in 1..Len(queue) : queue'[i] = queue[i]
          /\ queue'[Len(queue) + 1] = batch
      BY <2>1 DEF Inv, Types, PipeType
    <2>3. \A i \in 1..Len(queue') : Old(queue'[i])
      <3> SUFFICES ASSUME NEW i \in 1..Len(queue') PROVE Old(queue'[i])
        BY Zenon
      <3>1. CASE i = Len(queue) + 1
        BY Zenon, <2>2, <3>1 DEF Inv, Below
      <3>2. CASE i \in 1..Len(queue)
        BY Zenon, <2>2, <3>2 DEF Inv, Below
      <3> QED
        BY <2>2, <3>1, <3>2
    <2>4. Below'
      BY Zenon, <2>1, <2>3 DEF Inv, Below, Old
    <2>5. Carries(rev) => Carries(rev)'
      <3>1. ASSUME Is(batch, rev) PROVE Carries(rev)'
        <4>1. Len(queue) + 1 \in 1..Len(queue') /\ Is(queue'[Len(queue) + 1], rev')
          BY <2>1, <2>2, <3>1
        <4> QED
          BY Zenon, <4>1 DEF Carries
      <3>2. ASSUME NEW i \in 1..Len(queue), Is(queue[i], rev) PROVE Carries(rev)'
        <4>1. i \in 1..Len(queue') /\ Is(queue'[i], rev')
          BY <2>1, <2>2, <3>2
        <4> QED
          BY Zenon, <4>1 DEF Carries
      <3>3. CASE \/ Is(ev.upd, rev) \/ Is(pend, rev)
                 \/ \E s \in Scanners : Is(scan[s].upd, rev)
                 \/ \E m \in Managers : Is(mgr[m].upd, rev)
        BY Zenon, <2>1, <3>3 DEF Carries
      <3> QED
        BY Zenon, <3>1, <3>2, <3>3 DEF Carries
    <2> QED
      BY Zenon, <2>1, <2>4, <2>5 DEF Inv, Carried
  <1>3. ASSUME Consume PROVE Below' /\ Carried'
    <2>1. Queued \in SUBSET Updates /\ \A u \in Queued : Old(u)
      BY DEF Queued, Inv, Below, Types, PipeType
    <2>2. /\ HandleAuthUpdates(Queued) /\ queue' = <<>>
          /\ UNCHANGED <<rev, pend, batch, ev, scan, mgr>>
      BY Zenon, <1>3 DEF Consume, believed
    <2> QED
      BY Zenon, <2>1, <2>2, HandleKeeps
  <1>4. ASSUME NEW m \in Managers, StampPersisted(m)
        PROVE  Below' /\ Carried'
    <2> DEFINE e == Entry(mgr[m].c, "core")
               x == [IdleManager EXCEPT !.pc = "send", !.upd = Update(e, rev + 1)]
    <2>1. e \in Entries /\ rev + 1 \in Nat
      <3>1. mgr[m].c \in Contents \ Alien
        BY Zenon, <1>4 DEF StampPersisted, Inv, Types, HookType
      <3> QED
        BY <3>1 DEF Entry, Entries, Inv, Types, BeliefType
    <2>2. /\ rev' = rev + 1 /\ mgr' = [mgr EXCEPT ![m] = x]
          /\ UNCHANGED <<svcRev, pend, batch, queue, ev, scan>>
      BY Zenon, <1>4 DEF StampPersisted, Stamp, pipe, service
    <2> HIDE DEF e
    <2>3. Is(Update(e, rev + 1), rev + 1)
      BY <2>1, UpdateType, Zenon DEF Is
    <2>4. Is(x.upd, rev + 1)
      BY Zenon, <2>3 DEF IdleManager
    <2> HIDE DEF x
    <2>5. /\ mgr'[m] = x
          /\ \A n \in Managers : n # m => mgr'[n] = mgr[n]
      BY Zenon, <2>2 DEF Inv, Types, HookType
    <2>6. Is(mgr'[m].upd, rev + 1)
      BY Zenon, <2>4, <2>5
    <2>7. \A n \in Managers : Is(mgr'[n].upd, rev + 1) \/ mgr'[n].upd = mgr[n].upd
      BY Zenon, <2>5, <2>6
    <2> QED
      BY Zenon, <2>2, <2>6, <2>7, StampKeeps
  <1>5. ASSUME NEW m \in Managers, ManagerSend(m)
        PROVE  Below' /\ Carried'
    <2> DEFINE u == mgr[m].upd
    <2>1. u \in Updates /\ Old(u)
      BY Zenon, <1>5 DEF ManagerSend, Inv, Below, Types, HookType
    <2>2. \A n \in Managers : mgr'[n].upd = mgr[n].upd
      BY <1>5 DEF ManagerSend, Inv, Types, HookType
    <2>3. Enqueue(u) /\ UNCHANGED <<rev, svcRev, batch, queue, ev, scan>>
      BY Zenon, <1>5 DEF ManagerSend, believed, service
    <2> HIDE DEF u
    <2>4. ev'.upd = ev.upd /\ \A s \in Scanners : scan'[s].upd = scan[s].upd
      BY Zenon, <2>3
    <2> QED
      BY Zenon, <2>1, <2>2, <2>3, <2>4, EnqueueKeeps
  <1>6. ASSUME NEW m \in Managers, ManagerApply(m)
        PROVE  Below' /\ Carried'
    <2>1. {mgr[m].upd} \in SUBSET Updates /\ Old(mgr[m].upd)
      <3>1. mgr[m].upd \in Updates
        BY Zenon, <1>6 DEF ManagerApply, Inv, Types, HookType
      <3> QED
        BY Zenon, <3>1 DEF Inv, Below
    <2>2. \A n \in Managers : \/ mgr'[n].upd = mgr[n].upd
                              \/ mgr[n].upd \in {mgr[m].upd} /\ mgr'[n].upd = None
      <3>1. /\ mgr'[m] = IdleManager
            /\ \A n \in Managers : n # m => mgr'[n] = mgr[n]
        BY Zenon, <1>6 DEF ManagerApply, Inv, Types, HookType
      <3>2. mgr'[m].upd = None
        BY <3>1 DEF IdleManager
      <3> QED
        BY Zenon, <3>1, <3>2
    <2>3. HandleAuthUpdates({mgr[m].upd}) /\ UNCHANGED <<rev, pend, batch, queue, ev, scan>>
      BY Zenon, <1>6 DEF ManagerApply, believed, pipe
    <2> QED
      BY Zenon, <2>1, <2>2, <2>3, HandleKeeps
  <1> QED
    BY Zenon, <1>1, <1>2, <1>3, <1>4, <1>5, <1>6

-----------------------------------------------------------------------------
(* The theorems.                                                            *)

\* The inductive invariant holds initially.
LEMMA InitInv == Init => Inv
  <1> SUFFICES ASSUME Init PROVE Inv
    BY Zenon
  <1>1. Types
    BY Zenon, InitTypes
  <1>2. /\ ev.upd = None /\ pend = None /\ batch = None /\ queue = <<>>
        /\ \A s \in Scanners : scan[s].upd = None
        /\ \A m \in Managers : mgr[m].upd = None
        /\ svcRev = 1 /\ rev = 1
    BY Zenon DEF Init, IdleEvent, IdleScan, IdleManager
  <1>3. Below /\ Carried
    BY <1>2 DEF Below, Carried, Old
  <1> QED
    BY Zenon, <1>1, <1>3 DEF Inv

\* The steps that stamp, move or handle an update, and the others.
LEMMA Steps ==
    ASSUME Types, [Next]_vars
    PROVE  \/ Still
           \/ AddOrUpdate \/ RemoveClient \/ EventSend
           \/ \E s \in Scanners : ScanFinish(s) \/ ScanSend(s)
           \/ NextPendingBatch \/ DispatchSend \/ Consume
           \/ \E m \in Managers : StampPersisted(m) \/ ManagerSend(m) \/ ManagerApply(m)
  BY Zenon, StillSteps DEF Next, EventStep, ScanStep, ManagerStep

\* Every step keeps the inductive invariant.
LEMMA NextInv == Inv /\ [Next]_vars => Inv'
  <1> SUFFICES ASSUME Inv, [Next]_vars PROVE Inv'
    BY Zenon
  <1>1. Types /\ Types'
    BY Zenon, NextTypes DEF Inv
  <1>2. Below' /\ Carried'
    BY Zenon, <1>1, Steps, StillKeeps, WatcherKeeps, ServiceKeeps
  <1> QED
    BY Zenon, <1>1, <1>2 DEF Inv

\* A carrier is one of the updates in flight.
LEMMA CarriedInFlight == Inv => NoUpdateLost
  <1> SUFFICES ASSUME Inv, svcRev < rev PROVE \E u \in InFlight : u.rev = rev
    BY Zenon DEF Inv, Below, NoUpdateLost
  <1>1. Carries(rev)
    BY Zenon DEF Inv, Carried
  <1>2. CASE Is(ev.upd, rev) \/ Is(pend, rev) \/ Is(batch, rev)
    BY Zenon, <1>2 DEF InFlight, Is
  <1>3. CASE \E s \in Scanners : Is(scan[s].upd, rev)
    BY Zenon, <1>3 DEF InFlight, Is
  <1>4. CASE \E m \in Managers : Is(mgr[m].upd, rev)
    BY Zenon, <1>4 DEF InFlight, Is
  <1>5. CASE \E i \in 1..Len(queue) : Is(queue[i], rev)
    BY Zenon, <1>5 DEF InFlight, Queued, Is
  <1> QED
    BY Zenon, <1>1, <1>2, <1>3, <1>4, <1>5 DEF Carries

\* The newest change that was stamped (stampAuthUpdatesLocked) is never lost between
\* the map of pending updates, the dispatcher, the channel and the hook.
THEOREM NewestUpdateKept == Spec => []NoUpdateLost
  <1>1. Inv => NoUpdateLost
    BY Zenon, CarriedInFlight
  <1> QED
    BY <1>1, InitInv, NextInv, PTL DEF Spec

\* The service (handleAuthUpdates) never goes back to an older revision, and a batch
\* changes the manager's entry only with a newer one.
THEOREM ServiceForward == Spec => AppliedForward
  <1>1. ASSUME Inv, [Next]_vars
        PROVE  [/\ svcRev' >= svcRev
                /\ queue # <<>> /\ queue' = <<>> /\ core' # core => svcRev' > svcRev]_vars
    <2>1. svcRev \in Nat
      BY Zenon, <1>1 DEF Inv, Types, ManagerType
    <2>2. CASE Consume
      <3>1. Queued \in SUBSET Updates
        BY <1>1 DEF Queued, Inv, Types, PipeType
      <3>2. \/ svcRev' = svcRev /\ core' = core
            \/ svcRev' > svcRev
        BY Zenon, <2>2, <3>1 DEF Consume, HandleAuthUpdates, ApplyLast, service
      <3>3. svcRev' \in Nat
        BY Zenon, <1>1, <2>2, <3>1, HandleTypes DEF Consume, ManagerType, Inv, Types
      <3> QED
        BY <2>1, <3>2, <3>3
    <2>3. ASSUME NEW m \in Managers, ManagerApply(m)
          PROVE  svcRev' >= svcRev /\ queue' = queue
      <3>1. {mgr[m].upd} \in SUBSET Updates
        BY Zenon, <1>1, <2>3 DEF ManagerApply, Inv, Types, HookType
      <3> QED
        BY Zenon, <1>1, <2>3, <3>1, HandleTypes DEF ManagerApply, pipe, Inv, Types
    <2>4. CASE ~Consume /\ ~(\E m \in Managers : ManagerApply(m))
      <3>1. CASE DispatchSend
        BY <1>1, <2>1, <3>1 DEF DispatchSend, service, Inv, Types, PipeType
      <3>2. CASE ~DispatchSend
        <4>1. Types
          BY Zenon, <1>1 DEF Inv
        <4>2. CASE Still
          BY <2>1, <4>2 DEF Still
        <4>3. CASE \/ AddOrUpdate \/ RemoveClient \/ EventSend \/ NextPendingBatch
                   \/ \E s \in Scanners : ScanFinish(s) \/ ScanSend(s)
                   \/ \E m \in Managers : StampPersisted(m) \/ ManagerSend(m)
          <5>1. UNCHANGED <<svcRev, queue>>
            BY Zenon, <4>3 DEF AddOrUpdate, RemoveClient, EventSend, NextPendingBatch, ScanFinish,
                        ScanSend, StampPersisted, ManagerSend, pipe, service
          <5> QED
            BY <2>1, <5>1
        <4> QED
          BY Zenon, <1>1, <2>4, <3>2, <4>1, <4>2, <4>3, Steps
      <3> QED
        BY Zenon, <3>1, <3>2
    <2> QED
      BY Zenon, <2>2, <2>3, <2>4
  <1> QED
    BY <1>1, InitInv, NextInv, PTL DEF Spec, AppliedForward

-----------------------------------------------------------------------------
(* Convergence.  The inductive invariant follows a change of the file from  *)
(* the notification to the manager's entry.                                 *)

FileType == disk \in Files /\ events \in Seq({"write", "remove"})

\* Somebody is still going to compare the belief with the file.
Looking == events # <<>> \/ ev.pc \in {"check", "settle", "read", "publish", "remove"}

\* The last notification tells whether the file is there, and the event goroutine that
\* took it works on the file as it is.
Notified ==
    /\ events # <<>> => (events[Len(events)] = "remove" <=> disk = None)
    /\ events = <<>> => /\ ev.pc \in {"check", "read"} => disk # None
                        /\ ev.pc \in {"settle", "remove"} => disk = None
                        /\ ev.pc = "publish" => ev.c = disk

\* A scan during which nothing was observed found what is in the file, and a scan finds
\* entries of the file only.
FoundCurrent ==
    \A s \in Scanners :
        /\ scan[s].obs <= obs
        /\ scan[s].found # None => scan[s].found.by = "file"
        /\ scan[s].pc = "finish" /\ scan[s].obs = obs /\ events = <<>>
              => scan[s].found = Synthesized(disk)

\* A revision is given to one update only.
OneNewest == \A u, v \in InFlight : u.rev = rev /\ v.rev = rev => u = v

\* Without a gap, a clone of the manager's entry overtakes no other update.
ClonesAlone ==
    gaps = {} =>
        /\ cur # None /\ cur.by = "core" => \A u \in InFlight : u.kind = "noted"
        /\ (\E u \in InFlight : u.kind = "noted" /\ u.rev = rev)
              => \A u \in InFlight : u.kind = "noted"

\* Without a gap, and once nobody is going to look, the watcher believes in the file or
\* in nothing, and the manager ends with the file.
Reaches ==
    gaps = {} /\ ~Looking /\ disk \notin Torn =>
        (cur # None => cur.c = disk) /\ Ends(disk)

Conv == Inv /\ FileType /\ Notified /\ FoundCurrent /\ OneNewest /\ ClonesAlone /\ Reaches

\* The updates in flight are updates that are no newer than the watcher.
LEMMA InFlightOld == ASSUME Inv PROVE \A u \in InFlight : u \in Updates /\ u.rev \in Nat /\ u.rev <= rev
  <1> SUFFICES ASSUME NEW u \in InFlight PROVE u \in Updates /\ u.rev <= rev
    BY Zenon DEF Updates
  <1>1. u # None
    BY Zenon DEF InFlight
  <1>2. CASE u \in {ev.upd, pend, batch}
    BY Zenon, <1>1, <1>2 DEF Inv, Types, EventType, PipeType, Below, Old
  <1>3. CASE \E s \in Scanners : u = scan[s].upd
    BY Zenon, <1>1, <1>3 DEF Inv, Types, ScanType, Below, Old
  <1>4. CASE \E m \in Managers : u = mgr[m].upd
    BY Zenon, <1>1, <1>4 DEF Inv, Types, HookType, Below, Old
  <1>5. CASE \E i \in 1..Len(queue) : u = queue[i]
    <2>1. PICK i \in 1..Len(queue) : u = queue[i]
      BY <1>5
    <2>2. queue[i] \in Updates
      BY DEF Inv, Types, PipeType
    <2> QED
      BY Zenon, <1>1, <2>1, <2>2 DEF Inv, Below, Old
  <1> QED
    BY Zenon, <1>2, <1>3, <1>4, <1>5 DEF InFlight, Queued

\* A gap that was seen stays on record.
LEMMA NoGap ==
    ASSUME NEW name, NEW seen, gaps' = gaps \cup Gap(name, seen), gaps' = {}
    PROVE  gaps = {} /\ ~seen
  BY Zenon DEF Gap

\* No update is stamped or handled, and the newest one is not dropped.
LEMMA MoveKeeps ==
    ASSUME OneNewest, ClonesAlone, UNCHANGED <<rev, svcRev>>,
           cur' \in {cur, None}, gaps' = {} => gaps = {},
           InFlight' \subseteq InFlight, \A u \in InFlight : u.rev = rev => u \in InFlight'
    PROVE  OneNewest' /\ ClonesAlone' /\ Deciding' = Deciding
  <1>1. OneNewest'
    BY Zenon DEF OneNewest
  <1>2. ClonesAlone'
    BY Zenon DEF ClonesAlone
  <1>3. Deciding' = Deciding
    BY Zenon DEF Deciding
  <1> QED
    BY Zenon, <1>1, <1>2, <1>3

\* What decides is the same, and so is what it decides about.
LEMMA ReachesKept ==
    ASSUME Reaches, Deciding' = Deciding, UNCHANGED <<core, disk>>,
           cur' \in {cur, None}, gaps' = {} => gaps = {}, ~Looking' => ~Looking
    PROVE  Reaches'
  BY Zenon DEF Reaches, Ends, Shows

\* The entry e is stamped: its update decides, unless it is a clone.
LEMMA StampDecides ==
    ASSUME Inv, NEW e \in Entries \cup {None}, cur' = e, rev' = rev + 1, svcRev' = svcRev,
           InFlight' = InFlight \cup {Update(e, rev + 1)},
           gaps' = {} /\ e # None /\ e.by = "core" => \A u \in InFlight : u.kind = "noted"
    PROVE  /\ OneNewest' /\ ClonesAlone'
           /\ Deciding' = IF e # None /\ e.by = "core" THEN {} ELSE {Update(e, rev + 1)}
  <1> DEFINE n == Update(e, rev + 1)
  <1>1. rev \in Nat /\ rev + 1 \in Nat /\ svcRev \in Nat /\ svcRev <= rev
    BY DEF Inv, Below, Types, BeliefType, ManagerType
  <1>2. n.rev = rev + 1 /\ n # None
    BY <1>1, UpdateType, Zenon
  <1>3. /\ e # None /\ e.by = "core" => n.kind = "noted"
        /\ ~(e # None /\ e.by = "core") => n.kind # "noted"
    <2>1. e # None => e.by \in {"file", "core"}
      BY Zenon DEF Entries
    <2> QED
      BY <2>1 DEF Update
  <1>4. n.rev > svcRev
    BY <1>1, <1>2
  <1>5. \A u \in InFlight : u.rev # rev + 1
    BY <1>1, InFlightOld
  <1>6. InFlight' = InFlight \cup {n}
    BY Zenon
  <1> HIDE DEF n
  <1>7. \A u \in InFlight' : u.rev = rev' => u = n
    BY Zenon, <1>5, <1>6
  <1>8. OneNewest'
    BY Zenon, <1>7 DEF OneNewest
  <1>9. ClonesAlone'
    BY Zenon, <1>3, <1>6, <1>7 DEF ClonesAlone
  <1>10. Deciding' = IF e # None /\ e.by = "core" THEN {} ELSE {n}
    BY Zenon, <1>2, <1>3, <1>4, <1>6, <1>7 DEF Deciding
  <1> QED
    BY Zenon, <1>8, <1>9, <1>10 DEF n

\* u is with one of the carriers.
Has(u) ==
    \/ u = ev.upd \/ u = pend \/ u = batch \/ u \in Queued
    \/ \E s \in Scanners : u = scan[s].upd
    \/ \E m \in Managers : u = mgr[m].upd

\* What is in flight is with a carrier, before a step and after it.
LEMMA InFlightHas ==
    /\ \A u : u \in InFlight <=> u # None /\ Has(u)
    /\ \A u : u \in InFlight' <=> u # None /\ Has(u)'
  <1>1. \A u : u \in InFlight <=> u # None /\ Has(u)
    BY Zenon DEF InFlight, Has
  <1>2. \A u : u \in InFlight' <=> u # None /\ Has(u)'
    BY Zenon DEF InFlight, Has
  <1> QED
    BY Zenon, <1>1, <1>2

\* Nothing moves.
LEMMA StillInFlight == ASSUME Still PROVE InFlight' = InFlight
  <1>1. Queued' = Queued
    BY Zenon DEF Still, Queued
  <1>2. \A u : Has(u)' <=> Has(u)
    BY Zenon, <1>1 DEF Still, Has
  <1> QED
    BY Zenon, <1>2, InFlightHas

\* One carrier takes an update; it had none.
LEMMA TakenInFlight ==
    ASSUME NEW u, u # None, UNCHANGED <<pend, batch, queue>>,
           \/ /\ ev.upd = None /\ ev'.upd = u
              /\ UNCHANGED <<scan, mgr>>
           \/ /\ UNCHANGED <<ev, mgr>>
              /\ \E s \in Scanners :
                    /\ scan[s].upd = None /\ scan'[s].upd = u
                    /\ \A t \in Scanners \ {s} : scan'[t] = scan[t]
           \/ /\ UNCHANGED <<ev, scan>>
              /\ \E m \in Managers :
                    /\ mgr[m].upd = None /\ mgr'[m].upd = u
                    /\ \A n \in Managers \ {m} : mgr'[n] = mgr[n]
    PROVE  InFlight' = InFlight \cup {u}
  <1>1. Queued' = Queued
    BY Zenon DEF Queued
  <1>2. CASE ev.upd = None /\ ev'.upd = u /\ UNCHANGED <<scan, mgr>>
    <2>1. \A v : v # None => (Has(v)' <=> Has(v) \/ v = u)
      BY Zenon, <1>1, <1>2 DEF Has
    <2> QED
      BY Zenon, <2>1, InFlightHas
  <1>3. ASSUME UNCHANGED <<ev, mgr>>, NEW s \in Scanners, scan[s].upd = None, scan'[s].upd = u,
               \A t \in Scanners \ {s} : scan'[t] = scan[t]
        PROVE  InFlight' = InFlight \cup {u}
    <2>1. \A v : v # None => ((\E t \in Scanners : v = scan'[t].upd)
                                 <=> (\E t \in Scanners : v = scan[t].upd) \/ v = u)
      BY Zenon, <1>3
    <2>2. \A v : v # None => (Has(v)' <=> Has(v) \/ v = u)
      BY Zenon, <1>1, <1>3, <2>1 DEF Has
    <2> QED
      BY Zenon, <2>2, InFlightHas
  <1>4. ASSUME UNCHANGED <<ev, scan>>, NEW m \in Managers, mgr[m].upd = None, mgr'[m].upd = u,
               \A n \in Managers \ {m} : mgr'[n] = mgr[n]
        PROVE  InFlight' = InFlight \cup {u}
    <2>1. \A v : v # None => ((\E n \in Managers : v = mgr'[n].upd)
                                 <=> (\E n \in Managers : v = mgr[n].upd) \/ v = u)
      BY Zenon, <1>4
    <2>2. \A v : v # None => (Has(v)' <=> Has(v) \/ v = u)
      BY Zenon, <1>1, <1>4, <2>1 DEF Has
    <2> QED
      BY Zenon, <2>2, InFlightHas
  <1> QED
    BY Zenon, <1>2, <1>3, <1>4

\* An update is enqueued: none appears, and the newest stays.
LEMMA EnqueuedInFlight ==
    ASSUME Inv, OneNewest, NEW u \in InFlight, Enqueue(u), UNCHANGED <<batch, queue>>,
           ev'.upd = ev.upd \/ (ev.upd = u /\ ev'.upd = None),
           \A s \in Scanners : \/ scan'[s].upd = scan[s].upd
                               \/ scan[s].upd = u /\ scan'[s].upd = None,
           \A m \in Managers : mgr'[m].upd = mgr[m].upd
    PROVE  InFlight' \subseteq InFlight /\ \A v \in InFlight : v.rev = rev => v \in InFlight'
  <1>1. rev \in Nat /\ u.rev \in Nat /\ u.rev <= rev /\ u # None
    BY Zenon, InFlightOld, NoneAssumption DEF Inv, Types, BeliefType
  <1>2. \/ u.rev < rev /\ u.rev # rev /\ pend' = pend
        \/ u.rev = rev /\ pend' = u
    BY <1>1 DEF Enqueue
  <1>3. Queued' = Queued
    BY Zenon DEF Queued
  <1>4. ASSUME NEW v, v # None, Has(v)' PROVE Has(v)
    <2>1. Has(u)
      BY Zenon, InFlightHas
    <2>2. CASE v = u
      BY Zenon, <2>1, <2>2
    <2>3. CASE v # u
      <3>1. v = pend' => v = pend
        BY Zenon, <1>2, <2>3
      <3> QED
        BY Zenon, <1>3, <1>4, <3>1 DEF Has
    <2> QED
      BY Zenon, <2>2, <2>3
  <1>5. ASSUME NEW v, v # None, Has(v), v.rev = rev PROVE Has(v)'
    <2>1. CASE u.rev = rev /\ pend' = u
      <3>1. v = u
        BY Zenon, <1>5, <2>1, InFlightHas DEF OneNewest
      <3> QED
        BY Zenon, <2>1, <3>1 DEF Has
    <2>2. CASE u.rev # rev /\ pend' = pend
      <3>1. v # u
        BY Zenon, <1>5, <2>2
      <3> QED
        BY Zenon, <1>3, <1>5, <2>2, <3>1 DEF Has
    <2> QED
      BY Zenon, <1>2, <2>1, <2>2
  <1> QED
    BY Zenon, <1>4, <1>5, InFlightHas

\* The dispatcher moves updates and drops none.
LEMMA DispatchedInFlight ==
    ASSUME Inv, NextPendingBatch \/ DispatchSend
    PROVE  InFlight' = InFlight
  <1>1. CASE NextPendingBatch
    BY Zenon, <1>1 DEF NextPendingBatch, InFlight, Queued
  <1>2. CASE DispatchSend
    <2>1. /\ queue' = Append(queue, batch) /\ batch' = None /\ batch # None
          /\ UNCHANGED <<pend, ev, scan, mgr>>
      BY Zenon, <1>2 DEF DispatchSend
    <2>2. Queued' = Queued \cup {batch}
      <3>1. /\ Len(queue) \in Nat /\ Len(queue') = Len(queue) + 1
            /\ \A i \in 1..Len(queue) : queue'[i] = queue[i]
            /\ queue'[Len(queue) + 1] = batch
        BY <2>1 DEF Inv, Types, PipeType
      <3>2. 1..Len(queue') = 1..Len(queue) \cup {Len(queue) + 1}
        BY <3>1
      <3>3. ASSUME NEW u \in Queued' PROVE u \in Queued \cup {batch}
        <4>1. PICK i \in 1..Len(queue') : u = queue'[i]
          BY Zenon DEF Queued
        <4> QED
          BY Zenon, <3>1, <3>2, <4>1 DEF Queued
      <3>4. ASSUME NEW u \in Queued PROVE u \in Queued'
        <4>1. PICK i \in 1..Len(queue) : u = queue[i]
          BY Zenon DEF Queued
        <4>2. i \in 1..Len(queue') /\ u = queue'[i]
          BY Zenon, <3>1, <3>2, <4>1
        <4> QED
          BY Zenon, <4>2 DEF Queued
      <3>5. batch \in Queued'
        BY Zenon, <3>1, <3>2 DEF Queued
      <3> QED
        BY Zenon, <3>3, <3>4, <3>5
    <2> QED
      BY Zenon, <2>1, <2>2 DEF InFlight
  <1> QED
    BY Zenon, <1>1, <1>2

-----------------------------------------------------------------------------
(* The notifications and the scans.                                         *)

Watched == FileType /\ Notified /\ FoundCurrent

\* The file changes and the watcher is notified.
LEMMA ChangeWatched ==
    ASSUME Watched, NEW c \in Files, Change(c), UNCHANGED <<ev, scan, obs>>
    PROVE  Watched' /\ Looking'
  <1> DEFINE e == IF c = None THEN "remove" ELSE "write"
  <1>1. events' = Append(events, e) /\ disk' = c /\ events \in Seq({"write", "remove"})
    BY Zenon DEF Change, Watched, FileType
  <1>2. e \in {"write", "remove"} /\ (e = "remove" <=> c = None)
    OBVIOUS
  <1> HIDE DEF e
  <1>3. /\ events' \in Seq({"write", "remove"}) /\ events' # <<>>
        /\ events'[Len(events')] = e
    BY <1>1, <1>2
  <1>4. FileType' /\ Notified' /\ Looking'
    BY Zenon, <1>1, <1>2, <1>3 DEF FileType, Notified, Looking
  <1>5. FoundCurrent'
    BY Zenon, <1>3 DEF Watched, FoundCurrent
  <1> QED
    BY Zenon, <1>4, <1>5 DEF Watched

\* Something was observed: no scan under way publishes what it found.
LEMMA ObservedScans ==
    ASSUME Types, FoundCurrent, obs' = obs + 1, scan' = scan
    PROVE  FoundCurrent'
  <1>1. \A s \in Scanners : scan[s].obs \in Nat /\ scan[s].obs <= obs
    BY Zenon DEF Types, ScanType, FoundCurrent
  <1>2. obs \in Nat
    BY Zenon DEF Types, BeliefType
  <1>3. \A s \in Scanners : scan[s].obs <= obs + 1 /\ scan[s].obs # obs + 1
    BY <1>1, <1>2
  <1> QED
    BY Zenon, <1>3 DEF FoundCurrent

\* The event goroutine takes a notification.  If it ignores a removal while the file
\* is there, another notification follows.
LEMMA TakeWatched ==
    ASSUME Types, Watched, Take
    PROVE  /\ Watched'
           /\ Looking' \/ (disk = None /\ Head(events) = "remove" /\ recent)
  <1> DEFINE removal == Head(events) = "remove"
  <1>1. /\ events \in Seq({"write", "remove"}) /\ events # <<>>
        /\ events' = Tail(events) /\ obs' = obs + 1
        /\ UNCHANGED <<disk, scan>>
    BY Zenon DEF Take, Observe, Watched, FileType
  <1>2. FoundCurrent'
    BY Zenon, <1>1, ObservedScans DEF Watched
  <1>3. FileType'
    BY <1>1 DEF Watched, FileType
  <1>4. ev'.pc = IF removal /\ recent THEN "idle" ELSE IF removal THEN "settle" ELSE "check"
    BY Zenon DEF Take, IdleEvent
  <1>5. CASE events' # <<>>
    <2>1. events'[Len(events')] = events[Len(events)]
      BY <1>1, <1>5
    <2>2. Notified'
      BY Zenon, <1>1, <1>5, <2>1 DEF Watched, Notified
    <2> QED
      BY Zenon, <1>2, <1>3, <1>5, <2>2 DEF Watched, Looking
  <1>6. CASE events' = <<>>
    <2>1. Head(events) = events[Len(events)]
      <3>1. Len(events) \in Nat /\ Len(Tail(events)) = Len(events) - 1
        BY <1>1
      <3>2. Len(Tail(events)) = 0
        <4>1. Len(<<>>) = 0
          OBVIOUS
        <4> QED
          BY Zenon, <1>1, <1>6, <4>1
      <3>3. Len(events) = 1
        BY <3>1, <3>2
      <3> QED
        BY <1>1, <3>3
    <2>2. removal <=> disk = None
      BY Zenon, <1>1, <2>1 DEF Watched, Notified
    <2> HIDE DEF removal
    <2>3. Notified'
      BY <1>1, <1>4, <1>6, <2>2 DEF Notified
    <2>4. Looking' \/ (disk = None /\ removal /\ recent)
      BY <1>4, <2>2 DEF Looking
    <2> QED
      BY Zenon, <1>2, <1>3, <2>3, <2>4 DEF Watched, removal
  <1> QED
    BY Zenon, <1>5, <1>6

\* The event goroutine looks at the file and is done, or goes on.
LEMMA EventWatched ==
    ASSUME Types, Watched, EventStep
    PROVE  Watched'
  <1>1. UNCHANGED <<disk, events, scan>>
    BY Zenon DEF EventStep, Check, Settle, Read, AddOrUpdate, RemoveClient, EventSend, fileVars
  <1>2. obs' = obs \/ obs' = obs + 1
    BY Zenon DEF EventStep, Check, Settle, Examine, Observe, Read, AddOrUpdate, RemoveClient,
                 EventSend, believed
  <1>3. FoundCurrent'
    <2>1. CASE obs' = obs
      BY Zenon, <1>1, <2>1 DEF Watched, FoundCurrent
    <2> QED
      BY Zenon, <1>1, <1>2, <2>1, ObservedScans DEF Watched
  <1>4. FileType'
    BY Zenon, <1>1 DEF Watched, FileType
  <1>5. CASE ev'.pc \in {"idle", "send"}
    <2>1. Notified'
      BY <1>1, <1>5 DEF Watched, Notified
    <2> QED
      BY Zenon, <1>3, <1>4, <2>1 DEF Watched
  <1>6. CASE ev'.pc = "read" /\ (ev.pc = "check" \/ disk # None)
    <2>1. Notified'
      BY <1>1, <1>6 DEF Watched, Notified
    <2> QED
      BY Zenon, <1>3, <1>4, <2>1 DEF Watched
  <1>7. CASE ev'.pc = "remove" /\ disk = None
    <2>1. Notified'
      BY <1>1, <1>7 DEF Watched, Notified
    <2> QED
      BY Zenon, <1>3, <1>4, <2>1 DEF Watched
  <1>8. CASE ev'.pc = "publish" /\ ev'.c = disk
    <2>1. Notified'
      BY <1>1, <1>8 DEF Watched, Notified
    <2> QED
      BY Zenon, <1>3, <1>4, <2>1 DEF Watched
  <1>9. ASSUME Examine PROVE ev'.pc \in {"idle", "read"}
    BY <1>9 DEF Examine, IdleEvent, Types, EventType
  <1>10. CASE Check
    BY Zenon, <1>5, <1>6, <1>9, <1>10 DEF Check
  <1>11. CASE Settle
    <2>1. CASE disk # None
      BY Zenon, <1>5, <1>6, <1>9, <1>11, <2>1 DEF Settle
    <2>2. CASE disk = None
      <3>1. ev'.pc \in {"idle", "remove"}
        BY <1>11, <2>2 DEF Settle, IdleEvent, Types, EventType
      <3> QED
        BY Zenon, <1>5, <1>7, <2>2, <3>1
    <2> QED
      BY Zenon, <2>1, <2>2
  <1>12. CASE Read
    <2>1. ev'.pc = "idle" \/ (ev'.pc = "publish" /\ ev'.c = disk)
      <3>1. CASE ev' = IdleEvent
        BY <3>1 DEF IdleEvent
      <3>2. CASE ev' = [ev EXCEPT !.pc = "publish", !.c = disk, !.had = owned]
        BY <3>2 DEF Types, EventType
      <3> QED
        BY Zenon, <1>12, <3>1, <3>2 DEF Read
    <2> QED
      BY Zenon, <1>5, <1>8, <2>1
  <1>13. CASE AddOrUpdate \/ RemoveClient
    <2>1. ASSUME NEW e, NEW had, Publish(e, had) PROVE ev'.pc \in {"idle", "send"}
      <3>1. CASE ev' = IdleEvent
        BY <3>1 DEF IdleEvent
      <3>2. CASE ev' = [IdleEvent EXCEPT !.pc = "send", !.upd = Update(e, rev + 1)]
        BY Zenon, <3>2 DEF IdleEvent
      <3> QED
        BY Zenon, <2>1, <3>1, <3>2 DEF Publish
    <2>2. ev'.pc \in {"idle", "send"}
      BY Zenon, <1>13, <2>1 DEF AddOrUpdate, RemoveClient
    <2> QED
      BY Zenon, <1>5, <2>2
  <1>14. CASE EventSend
    BY Zenon, <1>5, <1>14 DEF EventSend, IdleEvent
  <1> QED
    BY Zenon, <1>10, <1>11, <1>12, <1>13, <1>14 DEF EventStep

\* The scans.
LEMMA ScanWatched ==
    ASSUME Types, Watched, NEW s \in Scanners, Forget(s) \/ Reload(s) \/ ScanStep(s)
    PROVE  Watched' /\ UNCHANGED <<disk, events, ev>>
  <1>1. UNCHANGED <<disk, events, ev, obs>>
    BY Zenon DEF Forget, Reload, ScanStep, ScanBegin, ScanRead, ScanFinish, ScanSend, fileVars, believed
  <1>2. FileType' /\ Notified'
    BY Zenon, <1>1 DEF Watched, FileType, Notified
  <1>3. /\ \A t \in Scanners : t # s => scan'[t] = scan[t]
        /\ \/ /\ scan'[s].pc # "finish" /\ scan'[s].obs \in {0, obs, scan[s].obs}
              /\ scan'[s].found \in {None, scan[s].found}
           \/ scan'[s].obs = scan[s].obs /\ scan'[s].found = Synthesized(disk)
    <2>1. CASE Forget(s) \/ Reload(s)
      BY <2>1 DEF Forget, Reload, Types, ScanType
    <2>2. CASE ScanBegin(s)
      BY <2>2 DEF ScanBegin, IdleScan, Types, ScanType
    <2>3. CASE ScanRead(s)
      BY Zenon, <2>3 DEF ScanRead, Types, ScanType
    <2>4. CASE ScanFinish(s)
      <3>0. \E e : \/ scan' = [scan EXCEPT ![s] = IdleScan]
                   \/ scan' = [scan EXCEPT ![s] = [IdleScan EXCEPT !.pc = "send",
                                                                   !.upd = Update(e, rev + 1)]]
        BY Zenon, <2>4 DEF ScanFinish
      <3>1. /\ \A t \in Scanners : t # s => scan'[t] = scan[t]
            /\ \/ scan'[s] = IdleScan
               \/ \E e : scan'[s] = [IdleScan EXCEPT !.pc = "send", !.upd = Update(e, rev + 1)]
        <4>1. DOMAIN scan = Scanners
          BY Zenon DEF Types, ScanType
        <4>2. \A x : scan' = [scan EXCEPT ![s] = x] =>
                      scan'[s] = x /\ \A t \in Scanners : t # s => scan'[t] = scan[t]
          BY Zenon, <4>1
        <4> QED
          BY Zenon, <3>0, <4>2
      <3>2. scan'[s].pc # "finish" /\ scan'[s].obs = 0 /\ scan'[s].found = None
        <4>1. CASE scan'[s] = IdleScan
          BY <4>1 DEF IdleScan
        <4>2. ASSUME NEW e, scan'[s] = [IdleScan EXCEPT !.pc = "send", !.upd = Update(e, rev + 1)]
              PROVE  scan'[s].pc = "send" /\ scan'[s].obs = 0 /\ scan'[s].found = None
          BY Zenon, <4>2 DEF IdleScan
        <4> QED
          BY Zenon, <3>1, <4>1, <4>2
      <3> QED
        BY Zenon, <3>1, <3>2
    <2>5. CASE ScanSend(s)
      BY Zenon, <2>5 DEF ScanSend, IdleScan, Types, ScanType
    <2> QED
      BY Zenon, <2>1, <2>2, <2>3, <2>4, <2>5 DEF ScanStep
  <1>4. obs \in Nat /\ scan[s].obs \in Nat /\ scan[s].obs <= obs
    BY Zenon DEF Types, BeliefType, ScanType, Watched, FoundCurrent
  <1>5. scan'[s].obs <= obs
    BY <1>3, <1>4
  <1>6. Synthesized(disk) # None => Synthesized(disk).by = "file"
    BY Zenon DEF Synthesized, Entry
  <1>7. scan'[s].found # None => scan'[s].found.by = "file"
    BY Zenon, <1>3, <1>6 DEF Watched, FoundCurrent
  <1>8. FoundCurrent'
    BY Zenon, <1>1, <1>3, <1>5, <1>7 DEF Watched, FoundCurrent
  <1> QED
    BY Zenon, <1>1, <1>2, <1>8 DEF Watched

\* Every step.
LEMMA NextWatched == ASSUME Types, Watched, [Next]_vars PROVE Watched'
  <1>1. ASSUME UNCHANGED <<disk, events, ev, scan, obs>> PROVE Watched'
    BY Zenon, <1>1 DEF Watched, FileType, Notified, FoundCurrent
  <1>2. CASE External
    BY Zenon, <1>2, ChangeWatched DEF External, Files, believed
  <1>3. ASSUME NEW m \in Managers, Save(m) PROVE Watched'
    <2>1. PICK c \in Contents : Change(c) \/ UNCHANGED <<disk, events>>
      BY Zenon, <1>3 DEF Save
    <2>2. UNCHANGED <<ev, scan, obs>> /\ c \in Files
      BY Zenon, <1>3 DEF Save, believed, Files
    <2> QED
      BY Zenon, <1>1, <2>1, <2>2, ChangeWatched
  <1>4. ASSUME NEW m \in Managers, Delete(m) PROVE Watched'
    BY Zenon, <1>4, ChangeWatched DEF Delete, Files, believed
  <1>5. ASSUME NEW m \in Managers, ManagerStep(m) PROVE Watched'
    BY Zenon, <1>1, <1>5 DEF ManagerStep, Hook, StampPersisted, ManagerSend, ManagerApply,
                             fileVars, believed
  <1>6. CASE NextPendingBatch \/ DispatchSend \/ Consume \/ Elapse \/ UNCHANGED vars
    BY Zenon, <1>1, <1>6 DEF NextPendingBatch, DispatchSend, Consume, Elapse, vars, fileVars, believed
  <1> QED
    BY Zenon, <1>2, <1>3, <1>4, <1>5, <1>6, TakeWatched, EventWatched, ScanWatched DEF Next

-----------------------------------------------------------------------------
(* The steps that keep what the manager ends with.                          *)

Kept == OneNewest /\ ClonesAlone /\ Reaches

\* Nothing is stamped, handled or changed, and nobody stops looking.
LEMMA CalmKeeps ==
    ASSUME Kept, UNCHANGED <<rev, svcRev, core, disk>>,
           cur' \in {cur, None}, gaps' = {} => gaps = {}, ~Looking' => ~Looking,
           InFlight' \subseteq InFlight, \A u \in InFlight : u.rev = rev => u \in InFlight'
    PROVE  Kept'
  <1>1. OneNewest' /\ ClonesAlone' /\ Deciding' = Deciding
    BY Zenon, MoveKeeps DEF Kept
  <1>2. Reaches'
    BY Zenon, <1>1, ReachesKept DEF Kept
  <1> QED
    BY Zenon, <1>1, <1>2 DEF Kept

\* The steps of this kind that leave the pipeline alone.
LEMMA CalmSteps ==
    ASSUME Conv, \/ Elapse \/ UNCHANGED vars
                 \/ \E s \in Scanners : Forget(s) \/ Reload(s) \/ ScanBegin(s) \/ ScanRead(s)
                 \/ \E m \in Managers : Hook(m)
    PROVE  Kept'
  <1>1. Still
    BY Zenon, StillSteps DEF Conv, Inv
  <1>2. InFlight' = InFlight
    BY Zenon, <1>1, StillInFlight
  <1>3. /\ UNCHANGED <<rev, svcRev, core, disk, events, ev, gaps>>
        /\ cur' \in {cur, None}
    BY Zenon DEF Elapse, vars, Forget, Reload, ScanBegin, ScanRead, Hook, fileVars, believed, service
  <1>4. ~Looking' => ~Looking
    BY Zenon, <1>3 DEF Looking
  <1> QED
    BY Zenon, <1>2, <1>3, <1>4, CalmKeeps DEF Conv, Kept

\* The steps that enqueue an update or pass one on.
LEMMA SendSteps ==
    ASSUME Conv, \/ EventSend \/ NextPendingBatch \/ DispatchSend
                 \/ \E s \in Scanners : ScanSend(s)
                 \/ \E m \in Managers : ManagerSend(m)
    PROVE  Kept'
  <1>1. /\ UNCHANGED <<rev, svcRev, core, disk, events, gaps, cur>>
    BY Zenon DEF EventSend, NextPendingBatch, DispatchSend, ScanSend, ManagerSend, fileVars, believed,
                 service
  <1>2. ~Looking' => ~Looking
    <2>1. CASE EventSend
      <3>1. ev.pc = "send"
        BY Zenon, <2>1 DEF EventSend
      <3> QED
        BY <1>1, <3>1 DEF Looking
    <2>2. CASE ~EventSend
      <3>1. ev' = ev
        BY Zenon, <2>2 DEF NextPendingBatch, DispatchSend, ScanSend, ManagerSend
      <3> QED
        BY Zenon, <1>1, <3>1 DEF Looking
    <2> QED
      BY Zenon, <2>1, <2>2
  <1>3. InFlight' \subseteq InFlight /\ \A u \in InFlight : u.rev = rev => u \in InFlight'
    <2> DEFINE Goal == /\ InFlight' \subseteq InFlight
                       /\ \A u \in InFlight : u.rev = rev => u \in InFlight'
    <2> SUFFICES Goal
      BY Zenon
    <2>1. CASE NextPendingBatch \/ DispatchSend
      BY Zenon, <2>1, DispatchedInFlight DEF Conv
    <2>2. CASE EventSend
      <3>1. ev.upd \in InFlight
        BY Zenon, <2>2, InFlightHas DEF EventSend, Has, Conv, Inv, Types, EventType
      <3>2. ev'.upd = None /\ Enqueue(ev.upd) /\ UNCHANGED <<batch, queue, scan, mgr>>
        BY Zenon, <2>2 DEF EventSend, IdleEvent
      <3> QED
        BY Zenon, <3>1, <3>2, EnqueuedInFlight DEF Conv
    <2>3. ASSUME NEW s \in Scanners, ScanSend(s) PROVE Goal
      <3>1. scan[s].upd \in InFlight
        BY Zenon, <2>3, InFlightHas DEF ScanSend, Has, Conv, Inv, Types, ScanType
      <3>2. /\ scan'[s] = IdleScan
            /\ \A t \in Scanners : t # s => scan'[t] = scan[t]
        BY Zenon, <2>3 DEF ScanSend, Conv, Inv, Types, ScanType
      <3>3. scan'[s].upd = None
        BY <3>2 DEF IdleScan
      <3>4. Enqueue(scan[s].upd) /\ UNCHANGED <<batch, queue, ev, mgr>>
        BY Zenon, <2>3 DEF ScanSend
      <3>5. \A t \in Scanners : \/ scan'[t].upd = scan[t].upd
                                \/ scan[t].upd = scan[s].upd /\ scan'[t].upd = None
        BY Zenon, <3>2, <3>3
      <3> DEFINE u == scan[s].upd
      <3>6. /\ u \in InFlight /\ Enqueue(u)
            /\ \A t \in Scanners : scan'[t].upd = scan[t].upd \/ (scan[t].upd = u /\ scan'[t].upd = None)
        BY Zenon, <3>1, <3>4, <3>5
      <3> HIDE DEF u
      <3> QED
        BY Zenon, <3>4, <3>6, EnqueuedInFlight DEF Conv
    <2>4. ASSUME NEW m \in Managers, ManagerSend(m) PROVE Goal
      <3> DEFINE u == mgr[m].upd
      <3>1. u \in InFlight
        BY Zenon, <2>4, InFlightHas DEF ManagerSend, Has, Conv, Inv, Types, HookType
      <3>2. \A n \in Managers : mgr'[n].upd = mgr[n].upd
        BY <2>4 DEF ManagerSend, Conv, Inv, Types, HookType
      <3>3. Enqueue(u) /\ UNCHANGED <<batch, queue, ev, scan>>
        BY Zenon, <2>4 DEF ManagerSend
      <3> HIDE DEF u
      <3> QED
        BY Zenon, <3>1, <3>2, <3>3, EnqueuedInFlight DEF Conv
    <2> QED
      BY Zenon, <2>1, <2>2, <2>3, <2>4
  <1> QED
    BY Zenon, <1>1, <1>2, <1>3, CalmKeeps DEF Conv, Kept

\* The file changes, or the manager's entry alone: somebody is going to look, or there
\* was no entry that could change.
LEMMA ChangeSteps ==
    ASSUME Conv, External \/ \E m \in Managers : Save(m) \/ Delete(m)
    PROVE  Kept'
  <1>1. Still
    BY Zenon, StillSteps DEF Conv, Inv
  <1>2. InFlight' = InFlight
    BY Zenon, <1>1, StillInFlight
  <1>3. UNCHANGED <<rev, svcRev, cur, gaps, ev, scan, obs>>
    BY Zenon DEF External, Save, Delete, believed, service
  <1>4. OneNewest' /\ ClonesAlone' /\ Deciding' = Deciding
    BY Zenon, <1>2, <1>3, MoveKeeps DEF Conv
  <1>5. ASSUME NEW c \in Files, Change(c) PROVE Kept'
    <2>1. Looking'
      BY Zenon, <1>3, <1>5, ChangeWatched DEF Conv, Watched
    <2>2. Reaches'
      BY Zenon, <2>1 DEF Reaches
    <2> QED
      BY Zenon, <1>4, <2>2 DEF Kept
  <1>6. ASSUME NEW m \in Managers, Save(m), disk = None PROVE Kept'
    <2>1. core # None /\ disk' = disk /\ events' = events
      BY Zenon, <1>6 DEF Save
    <2>2. core.c # None
      BY Zenon, <2>1, ContentsAssumption DEF Conv, Inv, Types, ManagerType, Auths
    <2>3. Credential(None) = None
      BY Zenon, ContentsAssumption DEF Credential
    <2>4. ~Shows(core, disk)
      BY Zenon, <1>6, <2>1, <2>2, <2>3 DEF Shows
    <2>5. Looking' <=> Looking
      BY Zenon, <1>3, <2>1 DEF Looking
    <2>6. Ends(disk) => Ends(disk)'
      BY Zenon, <1>4, <2>1, <2>4 DEF Ends
    <2>7. Reaches'
      BY Zenon, <1>3, <2>1, <2>5, <2>6 DEF Conv, Reaches
    <2> QED
      BY Zenon, <1>4, <2>7 DEF Kept
  <1>7. CASE External
    BY Zenon, <1>5, <1>7 DEF External, Files
  <1>8. ASSUME NEW m \in Managers, Delete(m) PROVE Kept'
    BY Zenon, <1>5, <1>8 DEF Delete, Files
  <1>9. ASSUME NEW m \in Managers, Save(m), disk # None PROVE Kept'
    <2>1. PICK c \in Contents : Change(c)
      BY Zenon, <1>9 DEF Save
    <2> QED
      BY Zenon, <1>5, <2>1 DEF Files
  <1> QED
    BY Zenon, <1>6, <1>7, <1>8, <1>9

\* The event goroutine takes a notification, or finds that there is nothing to do.
LEMMA LookSteps ==
    ASSUME Conv, Take \/ Check \/ Settle \/ Read
    PROVE  Kept'
  <1>1. Still
    BY Zenon, StillSteps DEF Conv, Inv
  <1>2. InFlight' = InFlight
    BY Zenon, <1>1, StillInFlight
  <1>3. UNCHANGED <<rev, svcRev, cur, core, disk>>
    BY Zenon DEF Take, Check, Settle, Read, fileVars, service
  <1>4. gaps' = {} => gaps = {}
    <2>1. CASE gaps' = gaps
      BY Zenon, <2>1
    <2>2. CASE \E name, seen : gaps' = gaps \cup Gap(name, seen)
      BY Zenon, <2>2, NoGap
    <2> QED
      BY Zenon, <2>1, <2>2 DEF Take, Check, Settle, Read, Examine
  <1>5. OneNewest' /\ ClonesAlone' /\ Deciding' = Deciding
    BY Zenon, <1>2, <1>3, <1>4, MoveKeeps DEF Conv
  <1>6. ASSUME Settled(disk) PROVE Reaches'
    <2>1. Ends(disk)'
      BY Zenon, <1>3, <1>5, <1>6 DEF Settled, Ends, Shows
    <2>2. cur # None => cur.c = disk
      <3>1. cur # None => cur.c # None
        BY Zenon, ContentsAssumption DEF Conv, Inv, Types, BeliefType, Entries
      <3> QED
        BY Zenon, <1>6, <3>1 DEF Settled, Shows, Credential
    <2> QED
      BY Zenon, <1>3, <2>1, <2>2 DEF Reaches
  <1>7. CASE Looking'
    BY Zenon, <1>5, <1>7 DEF Kept, Reaches
  <1>8. CASE gaps' # {}
    BY Zenon, <1>5, <1>8 DEF Kept, Reaches
  <1>9. CASE disk \in Torn
    BY Zenon, <1>3, <1>5, <1>9 DEF Kept, Reaches
  <1>10. CASE Take
    <2>1. Looking' \/ (disk = None /\ Head(events) = "remove" /\ recent)
      BY Zenon, <1>10, TakeWatched DEF Conv, Inv, Watched
    <2>2. (disk = None /\ Head(events) = "remove" /\ recent) => gaps' # {}
      BY Zenon, <1>10 DEF Take, Gap
    <2> QED
      BY Zenon, <1>7, <1>8, <2>1, <2>2
  <1>11. ASSUME Examine PROVE Kept'
    <2>1. CASE disk \in Contents /\ disk = hash
      <3>1. gaps' = gaps \cup Gap("suppressed", ~Settled(disk))
        BY Zenon, <1>11, <2>1 DEF Examine
      <3>2. gaps' = {} => Settled(disk)
        BY Zenon, <3>1, NoGap
      <3> QED
        BY Zenon, <1>5, <1>6, <1>8, <3>2 DEF Kept
    <2>2. CASE ~(disk \in Contents /\ disk = hash)
      <3>1. ev'.pc = "read"
        BY <1>11, <2>2 DEF Examine, Conv, Inv, Types, EventType
      <3> QED
        BY <1>7, <3>1 DEF Looking
    <2> QED
      BY Zenon, <2>1, <2>2
  <1>12. CASE Check
    BY Zenon, <1>11, <1>12 DEF Check
  <1>13. CASE Settle
    <2>1. CASE disk = None /\ hash = None
      <3>1. gaps' = {} => Settled(disk)
        BY Zenon, <1>13, <2>1, NoGap DEF Settle
      <3> QED
        BY Zenon, <1>5, <1>6, <1>8, <3>1 DEF Kept
    <2>2. CASE disk = None /\ hash # None
      <3>1. ev'.pc = "remove"
        BY <1>13, <2>2 DEF Settle, Conv, Inv, Types, EventType
      <3> QED
        BY <1>7, <3>1 DEF Looking
    <2> QED
      BY Zenon, <1>11, <1>13, <2>1, <2>2 DEF Settle
  <1>14. CASE Read
    <2>1. CASE disk \notin Contents \/ disk = hash
      <3>1. CASE disk \in Contents
        <4>1. gaps' = {} => Settled(disk)
          BY Zenon, <1>14, <2>1, <3>1, NoGap DEF Read
        <4> QED
          BY Zenon, <1>5, <1>6, <1>8, <4>1 DEF Kept
      <3>2. CASE disk = None
        <4>1. events # <<>> /\ events' = events
          BY Zenon, <1>14, <3>2 DEF Read, fileVars, Conv, Notified
        <4> QED
          BY Zenon, <1>7, <4>1 DEF Looking
      <3> QED
        BY Zenon, <1>9, <3>1, <3>2 DEF Conv, FileType, Files
    <2>2. CASE ~(disk \notin Contents \/ disk = hash)
      <3>1. ev' = [ev EXCEPT !.pc = "publish", !.c = disk, !.had = owned]
        BY Zenon, <1>14, <2>2 DEF Read
      <3>2. ev'.pc = "publish"
        BY <3>1 DEF Conv, Inv, Types, EventType
      <3> QED
        BY <1>7, <3>2 DEF Looking
    <2> QED
      BY Zenon, <2>1, <2>2
  <1> QED
    BY Zenon, <1>10, <1>12, <1>13, <1>14

-----------------------------------------------------------------------------
(* The steps that stamp and the steps that handle.                          *)

\* What is in the file is stamped.
LEMMA StampReaches ==
    ASSUME Conv, NEW e \in Entries \cup {None}, cur' = e, disk' = disk,
           e = Synthesized(disk), Deciding' = {Update(e, rev + 1)}
    PROVE  Reaches'
  <1>1. Update(e, rev + 1).c = Credential(disk)
    <2>1. CASE disk \in Contents \ Alien
      <3>1. e # None /\ e.c = disk
        BY Zenon, <2>1, EntryType DEF Synthesized, Entry
      <3> QED
        BY Zenon, <2>1, <3>1 DEF Update, Credential
    <2>2. CASE disk \notin Contents \ Alien
      BY Zenon, <2>2 DEF Update, Synthesized, Credential
    <2> QED
      BY Zenon, <2>1, <2>2
  <1>2. Ends(disk)'
    BY Zenon, <1>1 DEF Ends
  <1>3. e # None => e.c = disk
    BY Zenon DEF Synthesized, Entry
  <1> QED
    BY Zenon, <1>2, <1>3 DEF Reaches

\* The event goroutine publishes what it read, which is in the file unless another
\* notification waits.
LEMMA PublishSteps ==
    ASSUME Conv, AddOrUpdate \/ RemoveClient
    PROVE  Kept'
  <1> DEFINE e == IF ev.pc = "publish" THEN Synthesized(ev.c) ELSE None
             had == IF ev.pc = "publish" THEN ev.had ELSE owned
             u == Update(e, rev + 1)
  <1>1. /\ Publish(e, had) /\ ev.upd = None
        /\ UNCHANGED <<svcRev, core, disk, events, pend, batch, queue, scan, mgr>>
    <2>1. CASE AddOrUpdate
      BY Zenon, <2>1 DEF AddOrUpdate, fileVars, pipe, service, Conv, Inv, Types, EventType
    <2>2. CASE RemoveClient
      <3>1. ev.pc = "remove" /\ ev.pc # "publish"
        BY <2>2 DEF RemoveClient
      <3> QED
        BY Zenon, <2>2, <3>1 DEF RemoveClient, fileVars, pipe, service, Conv, Inv, Types, EventType
    <2> QED
      BY Zenon, <2>1, <2>2
  <1>2. e \in Entries \cup {None}
    BY Zenon, SynthesizedType
  <1>3. events = <<>> => e = Synthesized(disk)
    <2>1. CASE ev.pc = "publish"
      BY Zenon, <2>1 DEF Conv, Notified
    <2>2. CASE ev.pc = "remove"
      <3>1. Synthesized(None) = None
        BY Zenon, ContentsAssumption DEF Synthesized
      <3> QED
        BY <2>2, <3>1 DEF Conv, Notified
    <2> QED
      BY Zenon, <2>1, <2>2 DEF AddOrUpdate, RemoveClient
  <1> HIDE DEF e, had
  <1>4. CASE /\ ev' = IdleEvent /\ UNCHANGED <<cur, rev>>
             /\ gaps' = gaps \cup Gap("suppressed", ~Settled(IF e = None THEN None ELSE e.c))
    <2>1. Still
      BY Zenon, <1>1, <1>4 DEF Still, IdleEvent
    <2>2. InFlight' = InFlight
      BY Zenon, <2>1, StillInFlight
    <2>3. gaps' = {} => gaps = {} /\ Settled(IF e = None THEN None ELSE e.c)
      BY Zenon, <1>4, NoGap
    <2>4. OneNewest' /\ ClonesAlone' /\ Deciding' = Deciding
      BY Zenon, <1>1, <1>4, <2>2, <2>3, MoveKeeps DEF Conv
    <2>5. CASE events # <<>>
      BY Zenon, <1>1, <2>4, <2>5 DEF Kept, Reaches, Looking
    <2>6. CASE events = <<>>
      <3>1. Credential(IF e = None THEN None ELSE e.c) = Credential(disk)
        <4>1. e = Synthesized(disk)
          BY Zenon, <1>3, <2>6
        <4> HIDE DEF e
        <4>2. CASE disk \in Contents \ Alien
          <5>1. e # None /\ e.c = disk
            BY Zenon, <4>1, <4>2, EntryType DEF Synthesized, Entry
          <5> QED
            BY Zenon, <5>1
        <4>3. CASE disk \notin Contents \ Alien
          <5>1. e = None /\ None \notin Contents
            BY Zenon, <4>1, <4>3, ContentsAssumption DEF Synthesized
          <5> QED
            BY Zenon, <4>3, <5>1 DEF Credential
        <4> QED
          BY Zenon, <4>2, <4>3
      <3>2. gaps' = {} => Settled(disk)
        BY Zenon, <2>3, <3>1 DEF Settled, Ends, Shows
      <3>3. gaps' = {} => Ends(disk)'
        BY Zenon, <1>1, <2>4, <3>2 DEF Settled, Ends, Shows
      <3>4. gaps' = {} => (cur # None => cur.c = disk)
        <4>1. cur # None => cur.c # None
          BY Zenon, ContentsAssumption DEF Conv, Inv, Types, BeliefType, Entries
        <4> QED
          BY Zenon, <3>2, <4>1 DEF Settled, Shows, Credential
      <3> QED
        BY Zenon, <1>1, <1>4, <2>4, <3>3, <3>4 DEF Kept, Reaches
    <2> QED
      BY Zenon, <2>5, <2>6
  <1>5. CASE Stamp(e) /\ ev' = [IdleEvent EXCEPT !.pc = "send", !.upd = u]
    <2>1. ev'.upd = u /\ cur' = e /\ rev' = rev + 1
      BY Zenon, <1>5 DEF Stamp, IdleEvent
    <2>2. u # None
      <3>1. rev + 1 \in Nat
        BY DEF Conv, Inv, Types, BeliefType
      <3> QED
        BY <1>2, <3>1, UpdateType, Zenon
    <2>3. InFlight' = InFlight \cup {u}
      BY Zenon, <1>1, <2>1, <2>2, TakenInFlight
    <2>4. e # None => e.by # "core"
      <3>1. e # None => e.by = "file"
        BY Zenon DEF e, Synthesized, Entry
      <3> QED
        BY <3>1
    <2>5. OneNewest' /\ ClonesAlone' /\ Deciding' = {u}
      BY Zenon, <1>1, <1>2, <2>1, <2>3, <2>4, StampDecides DEF Conv
    <2>6. CASE events # <<>>
      BY Zenon, <1>1, <2>5, <2>6 DEF Kept, Reaches, Looking
    <2>7. CASE events = <<>>
      BY Zenon, <1>1, <1>2, <1>3, <2>1, <2>5, <2>7, StampReaches DEF Kept
    <2> QED
      BY Zenon, <2>6, <2>7
  <1> QED
    BY Zenon, <1>1, <1>4, <1>5 DEF Publish

\* A scan publishes what it found, which is in the file if nothing was observed, or
\* stamps the belief again.
LEMMA FinishSteps ==
    ASSUME Conv, NEW s \in Scanners, ScanFinish(s)
    PROVE  Kept'
  <1> DEFINE e == IF ChangedDuringScan(s) THEN cur ELSE scan[s].found
             u == Update(e, rev + 1)
             x == [IdleScan EXCEPT !.pc = "send", !.upd = u]
             update == e # cur \/ (scan[s].force /\ e # None)
  <1>1. /\ UNCHANGED <<svcRev, core, disk, events, pend, batch, queue, ev, mgr>>
        /\ scan[s].upd = None /\ scan[s].pc = "finish"
    BY Zenon DEF ScanFinish, fileVars, pipe, service, Conv, Inv, Types, ScanType
  <1>2. Looking' <=> Looking
    BY Zenon, <1>1 DEF Looking
  <1>3. e \in Entries \cup {None}
    BY Zenon DEF Conv, Inv, Types, BeliefType, ScanType
  <1>4. CASE ~update
    <2>1. scan' = [scan EXCEPT ![s] = IdleScan] /\ UNCHANGED <<cur, rev, gaps>>
      BY Zenon, <1>4 DEF ScanFinish
    <2>2. \A t \in Scanners : scan'[t].upd = scan[t].upd
      BY Zenon, <1>1, <2>1 DEF IdleScan, Conv, Inv, Types, ScanType
    <2>3. Still
      BY Zenon, <1>1, <2>1, <2>2 DEF Still
    <2>4. InFlight' = InFlight
      BY Zenon, <2>3, StillInFlight
    <2> QED
      BY Zenon, <1>1, <1>2, <2>1, <2>4, CalmKeeps DEF Conv, Kept
  <1>5. CASE update
    <2>1. /\ cur' = e /\ rev' = rev + 1
          /\ scan' = [scan EXCEPT ![s] = x]
          /\ gaps' = IF ~ChangedDuringScan(s) THEN {} ELSE gaps
      BY Zenon, <1>5 DEF ScanFinish, Stamp
    <2>2. u # None
      <3>1. rev + 1 \in Nat
        BY DEF Conv, Inv, Types, BeliefType
      <3> QED
        BY <1>3, <3>1, UpdateType, Zenon
    <2>3. x.upd = u
      BY Zenon DEF IdleScan
    <2> HIDE DEF x
    <2>4. /\ scan'[s].upd = u
          /\ \A t \in Scanners \ {s} : scan'[t] = scan[t]
      BY Zenon, <2>1, <2>3 DEF Conv, Inv, Types, ScanType
    <2> HIDE DEF u
    <2>5. InFlight' = InFlight \cup {u}
      BY Zenon, <1>1, <2>2, <2>4, TakenInFlight
    <2>6. CASE ~ChangedDuringScan(s)
      <3>1. e = scan[s].found /\ (e # None => e.by = "file")
        BY Zenon, <2>6 DEF Conv, FoundCurrent
      <3>2. e # None => e.by # "core"
        BY <3>1
      <3>3. ~Looking => e = Synthesized(disk)
        BY Zenon, <1>1, <2>6, <3>1 DEF Looking, ChangedDuringScan, Conv, FoundCurrent
      <3> HIDE DEF e
      <3>4. OneNewest' /\ ClonesAlone' /\ Deciding' = {u}
        BY Zenon, <1>1, <1>3, <2>1, <2>5, <3>2, StampDecides DEF Conv, u
      <3>5. CASE Looking
        BY Zenon, <1>2, <3>4, <3>5 DEF Kept, Reaches
      <3>6. CASE ~Looking
        BY Zenon, <1>1, <1>3, <2>1, <3>3, <3>4, <3>6, StampReaches DEF Kept, u
      <3> QED
        BY Zenon, <3>5, <3>6
    <2>7. CASE ChangedDuringScan(s)
      <3>1. e = cur /\ cur # None /\ gaps' = gaps
        BY Zenon, <1>5, <2>1, <2>7
      <3> HIDE DEF e
      <3>2. gaps' = {} /\ e.by = "core" => \A v \in InFlight : v.kind = "noted"
        BY Zenon, <3>1 DEF Conv, ClonesAlone
      <3>3. /\ OneNewest' /\ ClonesAlone'
            /\ Deciding' = IF e.by = "core" THEN {} ELSE {u}
        BY Zenon, <1>1, <1>3, <2>1, <2>5, <3>1, <3>2, StampDecides DEF Conv, u
      <3>4. ASSUME gaps = {}, ~Looking, disk \notin Torn PROVE cur.c = disk /\ Ends(disk)'
        <4>1. cur.c = disk /\ Ends(disk)
          BY Zenon, <3>1, <3>4 DEF Conv, Reaches
        <4>2. CASE e.by = "core"
          <5>1. Deciding = {}
            BY Zenon, <3>1, <3>2, <3>4, <4>2 DEF Deciding
          <5> QED
            BY Zenon, <1>1, <3>3, <4>1, <4>2, <5>1 DEF Ends, Shows
        <4>3. CASE e.by # "core"
          <5>1. u.c = disk
            BY Zenon, <3>1, <4>1 DEF u, Update
          <5>2. Credential(disk) = disk
            BY Zenon, <3>1, <4>1 DEF Credential, Conv, Inv, Types, BeliefType, Entries
          <5> QED
            BY Zenon, <1>1, <3>3, <4>1, <4>3, <5>1, <5>2 DEF Ends
        <4> QED
          BY Zenon, <4>2, <4>3
      <3>5. Reaches'
        BY Zenon, <1>1, <1>2, <2>1, <3>1, <3>4 DEF Reaches
      <3> QED
        BY Zenon, <3>3, <3>5 DEF Kept
    <2> QED
      BY Zenon, <2>6, <2>7
  <1> QED
    BY Zenon, <1>4, <1>5

\* The hook stamps a clone of the manager's entry: without a gap, the watcher believed
\* in that entry and nothing was on its way.
LEMMA HookSteps ==
    ASSUME Conv, NEW m \in Managers, StampPersisted(m)
    PROVE  Kept'
  <1> DEFINE e == Entry(mgr[m].c, "core")
             u == Update(e, rev + 1)
             x == [IdleManager EXCEPT !.pc = "send", !.upd = u]
  <1>1. /\ UNCHANGED <<svcRev, core, disk, events, pend, batch, queue, ev, scan>>
        /\ cur' = e /\ rev' = rev + 1 /\ mgr' = [mgr EXCEPT ![m] = x]
        /\ gaps' = gaps \cup Gap("overtaken", InFlight # {} \/ ~Shows(cur, mgr[m].c))
        /\ mgr[m].upd = None
    BY Zenon DEF StampPersisted, Stamp, fileVars, pipe, service, Conv, Inv, Types, HookType
  <1>2. mgr[m].c \in Contents \ Alien
    BY Zenon DEF StampPersisted, Conv, Inv, Types, HookType
  <1>3. e \in Entries /\ e.by = "core" /\ e.c = mgr[m].c
    BY Zenon, <1>2 DEF Entry, Entries
  <1>4. u # None
    <2>1. rev + 1 \in Nat
      BY DEF Conv, Inv, Types, BeliefType
    <2> QED
      BY <1>3, <2>1, UpdateType, Zenon
  <1>5. x.upd = u
    BY Zenon DEF IdleManager
  <1> HIDE DEF x, u, e
  <1>6. /\ mgr'[m].upd = u
        /\ \A n \in Managers \ {m} : mgr'[n] = mgr[n]
    BY Zenon, <1>1, <1>5 DEF Conv, Inv, Types, HookType
  <1>7. InFlight' = InFlight \cup {u}
    BY Zenon, <1>1, <1>4, <1>6, TakenInFlight
  <1>8. gaps' = {} => gaps = {} /\ InFlight = {} /\ Shows(cur, mgr[m].c)
    BY Zenon, <1>1, NoGap
  <1>9. e # None
    BY Zenon, <1>2, EntryType DEF e
  <1>10. OneNewest' /\ ClonesAlone' /\ Deciding' = {}
    BY Zenon, <1>1, <1>3, <1>7, <1>8, <1>9, StampDecides DEF Conv, u
  <1>11. ASSUME gaps' = {}, ~Looking, disk \notin Torn PROVE e.c = disk /\ Ends(disk)'
    <2>1. (cur # None => cur.c = disk) /\ Ends(disk)
      BY Zenon, <1>8, <1>11 DEF Conv, Reaches
    <2>2. cur # None /\ cur.c = mgr[m].c
      BY Zenon, <1>2, <1>8, <1>11, ContentsAssumption DEF Shows, Credential
    <2>3. Deciding = {}
      BY Zenon, <1>8, <1>11 DEF Deciding
    <2> QED
      BY Zenon, <1>1, <1>3, <1>10, <2>1, <2>2, <2>3 DEF Ends, Shows
  <1>12. Reaches'
    <2>1. Looking' <=> Looking
      BY Zenon, <1>1 DEF Looking
    <2> QED
      BY Zenon, <1>1, <1>11, <2>1 DEF Reaches
  <1> QED
    BY Zenon, <1>10, <1>12 DEF Kept

\* Updates are handled: the newest decides, or an older one that it overtakes.
LEMMA HandleReaches ==
    ASSUME Conv, NEW us, us \subseteq InFlight, HandleAuthUpdates(us),
           UNCHANGED <<rev, cur, disk, events, ev>>,
           InFlight' \subseteq InFlight, \A u \in InFlight : u \in us \/ u \in InFlight'
    PROVE  Kept'
  <1>1. rev \in Nat /\ svcRev \in Nat /\ svcRev <= rev
    BY Zenon DEF Conv, Inv, Below, Types, BeliefType, ManagerType
  <1>2. \A u \in InFlight : u \in Updates /\ u.rev \in Nat /\ u.rev <= rev
    BY Zenon, InFlightOld DEF Conv
  <1>3. OneNewest'
    BY Zenon DEF Conv, OneNewest
  <1>0. gaps' = {} => gaps = {}
    <2>1. CASE gaps' = gaps
      BY Zenon, <2>1
    <2>2. ASSUME NEW u, Refuse(u), gaps' = {} PROVE gaps = {}
      BY Zenon, <2>2, NoGap DEF Refuse
    <2> QED
      BY Zenon, <2>1, <2>2 DEF HandleAuthUpdates, ApplyLast
  <1>4. ClonesAlone'
    BY Zenon, <1>0 DEF Conv, ClonesAlone
  <1>5. ASSUME gaps' = {}, gaps = {}, Ends(disk) PROVE Ends(disk)'
    <2>1. CASE {u \in us : u.rev > svcRev} = {}
      <3>1. UNCHANGED <<svcRev, core>>
        BY Zenon, <2>1 DEF HandleAuthUpdates, service
      <3>2. Deciding' = Deciding
        BY Zenon, <2>1, <3>1 DEF Deciding
      <3> QED
        BY Zenon, <1>5, <3>1, <3>2 DEF Ends, Shows
    <2>2. CASE {u \in us : u.rev > svcRev} # {}
      <3>1. PICK u \in us : /\ u.rev > svcRev /\ svcRev' = u.rev
                            /\ Apply(u) \/ Refuse(u)
                            /\ \A v \in us : v.rev > svcRev => v.rev <= u.rev
        BY Zenon, <2>2 DEF HandleAuthUpdates, ApplyLast
      <3>2. u \in InFlight /\ u.rev \in Nat /\ u.rev <= rev /\ u \in Updates
        BY Zenon, <1>2, <3>1
      <3>3. ASSUME Deciding \subseteq {u}
            PROVE  Apply(u) /\ (u.kind = "noted" => core' = core)
        <4>1. ~Refuse(u)
          BY Zenon, <1>5, <3>3, NoGap DEF Refuse
        <4>2. Apply(u)
          BY Zenon, <3>1, <4>1
        <4> QED
          BY <4>2 DEF Apply
      <3>4. CASE u.rev = rev
        <4>1. Deciding' = {}
          <5>1. \A v \in InFlight' : ~(v.rev > svcRev')
            BY <1>1, <1>2, <3>1, <3>4
          <5> QED
            BY Zenon, <5>1 DEF Deciding
        <4>2. CASE u.kind = "noted"
          <5>1. Deciding = {}
            BY Zenon, <3>2, <3>4, <4>2 DEF Deciding, Conv, OneNewest
          <5>2. core' = core
            BY Zenon, <3>3, <4>2, <5>1
          <5> QED
            BY Zenon, <1>5, <4>1, <5>1, <5>2 DEF Ends, Shows
        <4>3. CASE u.kind # "noted"
          <5>1. u \in Deciding
            BY Zenon, <3>1, <3>2, <3>4, <4>3 DEF Deciding
          <5>2. u.c = Credential(disk)
            BY Zenon, <1>5, <5>1 DEF Ends
          <5>0. Apply(u)
            <6>1. Deciding \subseteq {u}
              BY Zenon, <3>2, <3>4 DEF Deciding, Conv, OneNewest
            <6> QED
              BY Zenon, <3>3, <6>1
          <5>3. CASE u.kind = "delete"
            <6>1. u.c = None
              BY <3>2, <5>3 DEF Updates
            <6>2. core' = None
              BY <5>0, <5>3 DEF Apply
            <6> QED
              BY Zenon, <4>1, <5>2, <6>1, <6>2 DEF Ends, Shows
          <5>4. CASE u.kind = "set"
            <6>1. core' # None /\ core'.c = u.c
              <7>1. u.c # None /\ u.c \in Contents \ Alien
                BY <3>2, <5>4, ContentsAssumption DEF Updates
              <7>2. CASE core # None
                <8>1. core' = [core EXCEPT !.c = u.c]
                  BY <5>0, <5>4, <7>2 DEF Apply
                <8> QED
                  BY <7>1, <7>2, <8>1, NoneAssumption DEF Conv, Inv, Types, ManagerType, Auths
              <7>3. CASE core = None
                <8>1. core' = [c |-> u.c, epoch |-> epochs + 1]
                  BY <5>0, <5>4, <7>3 DEF Apply
                <8>2. core' \in Auths /\ core'.c = u.c
                  BY <7>1, <8>1 DEF Conv, Inv, Types, ManagerType, Auths
                <8> QED
                  BY Zenon, <8>2, NoneAssumption
              <7> QED
                BY Zenon, <7>2, <7>3
            <6> QED
              BY Zenon, <4>1, <5>2, <6>1 DEF Ends, Shows
          <5> QED
            BY Zenon, <3>2, <4>3, <5>3, <5>4 DEF Updates
        <4> QED
          BY Zenon, <4>2, <4>3
      <3>5. CASE u.rev # rev
        <4>1. svcRev < rev /\ u.rev < rev
          BY <1>1, <3>1, <3>2, <3>5
        <4>2. PICK v \in InFlight : v.rev = rev
          BY Zenon, <4>1, CarriedInFlight DEF NoUpdateLost, Conv
        <4>3. v \in InFlight'
          <5>1. v \notin us
            <6>1. \A w \in us : w.rev > svcRev => w.rev <= u.rev
              BY Zenon, <3>1
            <6> QED
              BY <1>1, <3>2, <4>1, <4>2, <6>1
          <5> QED
            BY Zenon, <4>2, <5>1
        <4>4. v.rev > svcRev /\ v.rev > svcRev'
          BY <1>1, <3>1, <4>1, <4>2
        <4>5. CASE v.kind = "noted"
          <5>1. u.kind = "noted" /\ Deciding = {}
            BY Zenon, <1>5, <3>2, <4>2, <4>5 DEF Deciding, Conv, ClonesAlone
          <5>2. Deciding' = {}
            BY Zenon, <1>5, <4>2, <4>5 DEF Deciding, Conv, ClonesAlone
          <5>3. core' = core
            BY Zenon, <3>3, <5>1
          <5> QED
            BY Zenon, <1>5, <5>1, <5>2, <5>3 DEF Ends, Shows
        <4>6. CASE v.kind # "noted"
          <5>1. v \in Deciding /\ v \in Deciding'
            BY Zenon, <4>2, <4>3, <4>4, <4>6 DEF Deciding
          <5>2. \A w \in Deciding' : w = v
            BY Zenon, <4>2 DEF Deciding, Conv, OneNewest
          <5> QED
            BY Zenon, <1>5, <5>1, <5>2 DEF Ends
        <4> QED
          BY Zenon, <4>5, <4>6
      <3> QED
        BY Zenon, <3>4, <3>5
    <2> QED
      BY Zenon, <2>1, <2>2
  <1>6. Reaches'
    <2>1. Looking' <=> Looking
      BY Zenon DEF Looking
    <2> QED
      BY Zenon, <1>0, <1>5, <2>1 DEF Conv, Reaches
  <1> QED
    BY Zenon, <1>3, <1>4, <1>6 DEF Kept

\* The consumer takes what is queued; the hook applies its own update.
LEMMA HandleSteps ==
    ASSUME Conv, Consume \/ \E m \in Managers : ManagerApply(m)
    PROVE  Kept'
  <1>1. UNCHANGED <<rev, cur, disk, events, ev, pend, batch, scan>>
    BY Zenon DEF Consume, ManagerApply, fileVars, believed, pipe
  <1>2. CASE Consume
    <2>1. HandleAuthUpdates(Queued) /\ mgr' = mgr /\ queue' = <<>>
      BY Zenon, <1>2 DEF Consume
    <2>2. Queued \subseteq InFlight
      <3>1. None \notin Queued
        BY NoneAssumption DEF Queued, Conv, Inv, Types, PipeType
      <3> QED
        BY Zenon, <3>1, InFlightHas DEF Has
    <2>3. Queued' = {}
      BY <2>1 DEF Queued
    <2>4. InFlight' \subseteq InFlight /\ \A u \in InFlight : u \in Queued \/ u \in InFlight'
      BY Zenon, <1>1, <2>1, <2>3, InFlightHas DEF Has
    <2> QED
      BY Zenon, <1>1, <2>1, <2>2, <2>4, HandleReaches
  <1>3. ASSUME NEW m \in Managers, ManagerApply(m) PROVE Kept'
    <2> DEFINE u == mgr[m].upd
    <2>1. HandleAuthUpdates({u}) /\ queue' = queue
      BY Zenon, <1>3 DEF ManagerApply, pipe
    <2>2. u # None
      BY Zenon, <1>3 DEF ManagerApply, Conv, Inv, Types, HookType
    <2>3. {u} \subseteq InFlight
      BY Zenon, <2>2, InFlightHas DEF Has
    <2>4. /\ mgr'[m].upd = None
          /\ \A n \in Managers : n # m => mgr'[n] = mgr[n]
      BY Zenon, <1>3 DEF ManagerApply, IdleManager, Conv, Inv, Types, HookType
    <2>5. Queued' = Queued
      BY Zenon, <2>1 DEF Queued
    <2>6. \A v : v # None => (Has(v)' => Has(v)) /\ (Has(v) => v = u \/ Has(v)')
      BY Zenon, <1>1, <2>1, <2>4, <2>5 DEF Has
    <2> HIDE DEF u
    <2>7. InFlight' \subseteq InFlight /\ \A v \in InFlight : v \in {u} \/ v \in InFlight'
      BY Zenon, <2>6, InFlightHas
    <2> QED
      BY Zenon, <1>1, <2>1, <2>3, <2>7, HandleReaches
  <1> QED
    BY Zenon, <1>2, <1>3

-----------------------------------------------------------------------------
\* The inductive invariant of convergence holds initially.
LEMMA InitConv == Init => Conv
  <1> SUFFICES ASSUME Init PROVE Conv
    BY Zenon
  <1>1. Inv
    BY Zenon, InitInv
  <1>2. FileType
    BY DEF Init, FileType, Files
  <1>3. events = <<>> /\ ev.pc = "idle" /\ pend = None /\ batch = None /\ queue = <<>>
    BY Zenon DEF Init, IdleEvent
  <1>4. Notified
    BY <1>3 DEF Notified
  <1>5. \A s \in Scanners : scan[s].pc = "idle" /\ scan[s].obs = 0 /\ scan[s].found = None
    BY Zenon DEF Init, IdleScan
  <1>6. FoundCurrent
    <2>1. obs = 0
      BY Zenon DEF Init
    <2> QED
      BY <1>5, <2>1 DEF FoundCurrent
  <1>7. InFlight = {}
    <2>1. Queued = {}
      BY <1>3 DEF Queued
    <2> QED
      BY Zenon, <1>3, <2>1 DEF Init, InFlight, IdleEvent, IdleScan, IdleManager
  <1>8. OneNewest /\ ClonesAlone
    BY Zenon, <1>7 DEF OneNewest, ClonesAlone
  <1>9. Ends(disk)
    <2>1. Deciding = {}
      BY Zenon, <1>7 DEF Deciding
    <2>2. Shows(core, disk)
      <3>1. CASE disk = None
        BY Zenon, <3>1, ContentsAssumption DEF Init, Shows, Credential
      <3>2. CASE disk # None
        <4>1. core = [c |-> disk, epoch |-> 1] /\ disk \in Contents \ Alien
          BY Zenon, <3>2 DEF Init
        <4>2. core # None
          BY <4>1, NoneAssumption DEF Auths
        <4> QED
          BY Zenon, <4>1, <4>2 DEF Shows, Credential
      <3> QED
        BY Zenon, <3>1, <3>2
    <2> QED
      BY Zenon, <2>1, <2>2 DEF Ends
  <1>10. cur # None => cur.c = disk
    BY Zenon DEF Init, Synthesized, Entry
  <1> QED
    BY Zenon, <1>1, <1>2, <1>4, <1>6, <1>8, <1>9, <1>10 DEF Conv, Reaches

\* Every step keeps it.
LEMMA NextConv == Conv /\ [Next]_vars => Conv'
  <1> SUFFICES ASSUME Conv, [Next]_vars PROVE Conv'
    BY Zenon
  <1>1. Inv'
    BY Zenon, NextInv DEF Conv
  <1>2. Watched'
    BY Zenon, NextWatched DEF Conv, Inv, Watched
  <1>3. Kept'
    BY Zenon, CalmSteps, SendSteps, ChangeSteps, LookSteps, PublishSteps, FinishSteps, HookSteps,
       HandleSteps DEF Next, EventStep, ScanStep, ManagerStep
  <1> QED
    BY Zenon, <1>1, <1>2, <1>3 DEF Conv, Watched, Kept

\* When all is worked off and none of the five gaps is open, the manager runs with what
\* is in the file, for every number of scans, management requests, changes and contents
\* (handleEvent, refreshAuthState, dispatchAuthUpdates, handleAuthUpdates).
THEOREM Convergence == Spec => []Converged
  <1>1. ASSUME Conv PROVE Converged
    <2> SUFFICES ASSUME Quiet, disk \notin Torn, gaps = {} PROVE Shows(core, disk)
      BY Zenon DEF Converged
    <2>1. ~Looking
      <3>1. ev.pc = "idle" /\ events = <<>>
        BY Zenon DEF Quiet, IdleEvent
      <3> QED
        BY <3>1 DEF Looking
    <2>2. Ends(disk)
      BY Zenon, <1>1, <2>1 DEF Conv, Reaches
    <2>3. Deciding = {}
      BY Zenon DEF Quiet, Deciding
    <2> QED
      BY Zenon, <2>2, <2>3 DEF Ends
  <1> QED
    BY <1>1, InitConv, NextConv, PTL DEF Spec
=============================================================================
