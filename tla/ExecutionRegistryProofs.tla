---------------------- MODULE ExecutionRegistryProofs -----------------------
(***************************************************************************)
(* Theorems about ExecutionRegistry, for every number of dispatches,       *)
(* groups, sinks, barriers and concurrent callers: type correctness, the   *)
(* life of a dispatch id, the wake-ups of Drain and WaitPending, what      *)
(* holds when a scope is released and when Drain and Close have returned,  *)
(* the refinement of AtomicRegistry, and what the registry tells Home:     *)
(* observation barriers and releases.                                      *)
(***************************************************************************)
EXTENDS ExecutionRegistryRefinement, FiniteSetTheorems, TLAPS

\* A dispatch id is unused, pending, a scope or ended, in this order.
IdInv ==
    /\ \A i \in pending : i <= next /\ ending[i] = "absent"
    /\ \A i \in Ids : i \in scopes <=> ending[i] \notin {"absent", "ended"}
    /\ \A i \in Ids : i > next => ending[i] = "absent"
    /\ \A i \in Ids : ending[i] = "absent" => resource[i] = "none"

\* What the holder of mu found out stays true until it acts.
MuInv ==
    /\ mu = "begin" => next < MaxDispatch
    /\ mu = "install" => muId \in pending
    /\ mu = "bind" => muId \in Ids /\ ending[muId] = "active"

-----------------------------------------------------------------------------
(* Type correctness *)

\* The ids and their neighbours are within their ranges.
LEMMA IdRange == /\ 0 \in 0..MaxDispatch /\ 0 \in 0..MaxBarrier
                 /\ \A i \in Ids : i \in 0..MaxDispatch /\ i \in Nat
                 /\ \A n \in 0..MaxDispatch : n < MaxDispatch => n + 1 \in Ids
                 /\ \A b \in 1..MaxBarrier : b \in 0..MaxBarrier
                 /\ \A n \in 0..MaxDispatch : n # 0 => n \in Ids
  BY BoundsAssumption DEF Ids

\* What the steps outside mu carry over from their critical section.
CarriedInv ==
    /\ mu = "begin" => next < MaxDispatch
    /\ mu \in {"install", "bind"} => muId \in Ids
    /\ replay # {} => releaseSink \in Sinks
    /\ \A i \in Ids : ending[i] = "sink" =>
           group[i] \in Groups /\ announcing[i].sink \in Sinks

\* What a sink knows after it was called, and that the others are not concerned.
LEMMA AnnounceEffect ==
    ASSUME announced \in [Sinks -> [Groups -> Nat]],
           NEW s \in Sinks, NEW g \in Groups, NEW n \in Nat, Announce(s, g, n)
    PROVE  /\ announced' \in [Sinks -> [Groups -> Nat]]
           /\ \A t \in Sinks, h \in Groups :
                 announced'[t][h] = IF t = s /\ h = g /\ n > announced[s][g]
                                      THEN n ELSE announced[t][h]
<1> DEFINE row == [announced[s] EXCEPT ![g] = IF n > @ THEN n ELSE @]
<1>1. announced[s] \in [Groups -> Nat]
  BY Zenon
<1>2. row \in [Groups -> Nat]
  BY Zenon, <1>1
<1>3. announced' = [announced EXCEPT ![s] = row]
  BY Zenon DEF Announce
<1>4. \A h \in Groups : row[h] = IF h = g /\ n > announced[s][g] THEN n ELSE announced[s][h]
  BY Zenon, <1>1
<1> QED
  BY Zenon, <1>2, <1>3, <1>4

\* Every variable of the registry keeps its type, whatever the callers do.
THEOREM TypeCorrect == Spec => [](TypeOK /\ CarriedInv)
<1>1. Init => TypeOK /\ CarriedInv
  BY IdRange DEF Init, TypeOK, CarriedInv, NoAnnouncement, ResourceState, EndState,
     CallState, ClosePhase
<1>2. TypeOK /\ CarriedInv /\ [Next]_vars => TypeOK'
  <2> SUFFICES ASSUME TypeOK, CarriedInv, [Next]_vars
               PROVE  TypeOK'
    BY Zenon
  <2> USE IdRange DEF TypeOK, Callers, ResourceState, EndState, CallState, ClosePhase,
      lifecycle, slots, dispatchVars, reports, releaseVars, barrierVars, calls, closeVars
  <2>1. CASE BeginCheck
    BY Zenon, <2>1 DEF BeginCheck, Lock
  <2>2. CASE BeginCommit
    BY Zenon, <2>2 DEF CarriedInv, BeginCommit, Unlock, NextId
  <2>3. CASE BindCommit
    BY Zenon, <2>3 DEF BindCommit, Unlock
  <2>4. CASE FreezeInFlight
    BY Zenon, <2>4 DEF FreezeInFlight, Blocks
  <2>5. ASSUME NEW i \in Ids, PendingEnd(i)
        PROVE  TypeOK'
    BY Zenon, <2>5 DEF PendingEnd, Signal
  <2>6. ASSUME NEW i \in Ids, InstallReject(i)
        PROVE  TypeOK'
    BY Zenon, <2>6 DEF InstallReject, Signal, InstallAllowed
  <2>7. ASSUME NEW i \in Ids, InstallCheck(i)
        PROVE  TypeOK'
    BY Zenon, <2>7 DEF InstallCheck, Lock, InstallAllowed
  <2>8. ASSUME NEW i \in Ids, BindCheck(i)
        PROVE  TypeOK'
    BY Zenon, <2>8 DEF BindCheck, Lock, BindAllowed
  <2>9. ASSUME NEW i \in Ids, EndDeactivate(i)
        PROVE  TypeOK'
    BY Zenon, <2>9 DEF EndDeactivate
  <2>10. ASSUME NEW i \in Ids, EndStartClose(i)
        PROVE  TypeOK'
    BY Zenon, <2>10 DEF EndStartClose, StartClose, AfterStartClose
  <2>11. ASSUME NEW i \in Ids, EndWaitClosed(i)
        PROVE  TypeOK'
    BY Zenon, <2>11 DEF EndWaitClosed
  <2>12. ASSUME NEW i \in Ids, EndMark(i)
        PROVE  TypeOK'
    <3> USE <2>12 DEF EndMark
    <3>1. CASE Counted(i)
      <4>1. group[i] \in Groups
        BY Zenon, <3>1 DEF Counted
      <4>2. releaseSequences' \in [Groups -> Nat]
        <5>1. releaseSequences' = [releaseSequences EXCEPT ![group[i]] = @ + 1]
          BY Zenon, <3>1
        <5>2. releaseSequences[group[i]] + 1 \in Nat
          BY <4>1
        <5> QED
          BY Zenon, <5>1, <5>2
      <4>3. ReleaseSequence(group[i]) \in Nat
        BY SMTT(60), <4>1 DEF ReleaseSequence
      <4>4. announcing' \in [Ids -> [sink : Sinks \cup {NoSink}, seq : Nat]]
        BY SMTT(60), <3>1, <4>3
      <4>5. ending' \in [Ids -> EndState]
        <5>1. \E e \in EndState : ending' = [ending EXCEPT ![i] = e]
          BY Zenon, <3>1
        <5> QED
          BY SMTT(60), <5>1
      <4> QED
        BY Zenon, <4>2, <4>4, <4>5
    <3>2. CASE ~ Counted(i)
      BY Zenon, <3>2
    <3> QED
      BY Zenon, <3>1, <3>2
  <2>13. ASSUME NEW i \in Ids, EndCallSink(i)
        PROVE  TypeOK'
    <3>1. announced' \in [Sinks -> [Groups -> Nat]]
      BY Zenon, <2>13, AnnounceEffect DEF EndCallSink, CarriedInv
    <3> QED
      BY Zenon, <2>13, <3>1 DEF EndCallSink
  <2>14. ASSUME NEW i \in Ids, EndDelete(i)
        PROVE  TypeOK'
    BY Zenon, <2>14 DEF EndDelete, Signal
  <2>15. ASSUME NEW i \in Ids, ResourceClosed(i)
        PROVE  TypeOK'
    BY SMTT(60), <2>15 DEF ResourceClosed
  <2>16. ASSUME NEW g \in Groups \cup {Unaccounted}, InstallCommit(g)
        PROVE  TypeOK'
    BY Zenon, <2>16 DEF CarriedInv, InstallCommit, Signal, Unlock
  <2>17. ASSUME NEW s \in Sinks \cup {NoSink}, SetReleaseSink(s)
        PROVE  TypeOK'
    BY SMTT(60), <2>17 DEF SetReleaseSink
  <2>18. ASSUME NEW r \in replay, ReplaySink(r)
        PROVE  TypeOK'
    <3>1. announced' \in [Sinks -> [Groups -> Nat]]
      BY Zenon, <2>18, AnnounceEffect DEF ReplaySink, CarriedInv
    <3> QED
      BY Zenon, <2>18, <3>1 DEF ReplaySink
  <2>19. ASSUME NEW b \in 1..MaxBarrier, ObserveBarrier(b)
        PROVE  TypeOK'
    BY Zenon, <2>19 DEF ObserveBarrier
  <2>20. ASSUME NEW d \in Drainers, DrainStart(d)
        PROVE  TypeOK'
    BY Zenon, <2>20 DEF DrainStart
  <2>21. ASSUME NEW c \in Drainers \cup Closers, TakeSnapshot(c)
        PROVE  TypeOK'
    BY Zenon, <2>21 DEF TakeSnapshot
  <2>22. ASSUME NEW d \in Drainers, NEW i \in Ids, DrainStartClose(d, i)
        PROVE  TypeOK'
    BY SMTT(60), <2>22 DEF DrainStartClose, StartClose
  <2>23. ASSUME NEW d \in Drainers, DrainCheck(d)
        PROVE  TypeOK'
    BY ZenonT(60), <2>23 DEF DrainCheck, Busy
  <2>24. ASSUME NEW c \in Drainers \cup Waiters, Timeout(c)
        PROVE  TypeOK'
    BY SMTT(60), <2>24 DEF Timeout
  <2>25. ASSUME NEW c \in Closers, CloseEnter(c)
        PROVE  TypeOK'
    BY SMTT(60), <2>25 DEF CloseEnter, CloseTarget
  <2>26. ASSUME NEW c \in Closers, CloseForce(c)
        PROVE  TypeOK'
    BY Zenon, <2>26 DEF CloseForce
  <2>27. ASSUME NEW c \in Closers, NEW i \in Ids, CloseStartClose(c, i)
        PROVE  TypeOK'
    BY SMTT(60), <2>27 DEF CloseStartClose, StartClose
  <2>28. ASSUME NEW c \in Closers, CloseWaited(c)
        PROVE  TypeOK'
    BY SMTT(60), <2>28 DEF CloseWaited
  <2>29. ASSUME NEW c \in Closers, CloseFinish(c)
        PROVE  TypeOK'
    BY Zenon, <2>29 DEF CloseFinish, CompleteClose
  <2>30. ASSUME NEW c \in Closers, CloseJoin(c)
        PROVE  TypeOK'
    BY Zenon, <2>30 DEF CloseJoin
  <2>31. ASSUME NEW w \in Waiters, WaitPendingStart(w)
        PROVE  TypeOK'
    BY SMTT(60), <2>31 DEF WaitPendingStart
  <2>32. ASSUME NEW w \in Waiters, WaitPendingCheck(w)
        PROVE  TypeOK'
    BY Zenon, <2>32 DEF WaitPendingCheck
  <2>33. CASE UNCHANGED vars
    BY Zenon, <2>33 DEF vars
  <2> QED
    BY Zenon, <2>1, <2>2, <2>3, <2>4, <2>5, <2>6, <2>7, <2>8, <2>9, <2>10, <2>11,
       <2>12, <2>13, <2>14, <2>15, <2>16, <2>17, <2>18, <2>19, <2>20, <2>21,
       <2>22, <2>23, <2>24, <2>25, <2>26, <2>27, <2>28, <2>29, <2>30, <2>31,
       <2>32, <2>33
       DEF Next, Request, Drain, Close, WaitPending
<1>3. TypeOK /\ CarriedInv /\ [Next]_vars => CarriedInv'
  <2> SUFFICES ASSUME TypeOK, CarriedInv, [Next]_vars
               PROVE  CarriedInv'
    BY Zenon
  <2> USE IdRange DEF TypeOK, CarriedInv,
      lifecycle, slots, dispatchVars, reports, releaseVars, barrierVars, calls, closeVars
  <2>1. CASE BeginCheck
    BY Zenon, <2>1 DEF BeginCheck, Lock
  <2>2. CASE BeginCommit
    BY Zenon, <2>2 DEF BeginCommit, Unlock, NextId
  <2>3. CASE BindCommit
    BY Zenon, <2>3 DEF BindCommit, Unlock
  <2>4. CASE FreezeInFlight
    BY Zenon, <2>4 DEF FreezeInFlight, Blocks
  <2>5. ASSUME NEW i \in Ids, PendingEnd(i)
        PROVE  CarriedInv'
    BY Zenon, <2>5 DEF PendingEnd, Signal
  <2>6. ASSUME NEW i \in Ids, InstallReject(i)
        PROVE  CarriedInv'
    BY Zenon, <2>6 DEF InstallReject, Signal, InstallAllowed
  <2>7. ASSUME NEW i \in Ids, InstallCheck(i)
        PROVE  CarriedInv'
    BY Zenon, <2>7 DEF InstallCheck, Lock, InstallAllowed
  <2>8. ASSUME NEW i \in Ids, BindCheck(i)
        PROVE  CarriedInv'
    BY Zenon, <2>8 DEF BindCheck, Lock, BindAllowed
  <2>9. ASSUME NEW i \in Ids, EndDeactivate(i)
        PROVE  CarriedInv'
    BY Zenon, <2>9 DEF EndDeactivate
  <2>10. ASSUME NEW i \in Ids, EndStartClose(i)
        PROVE  CarriedInv'
    BY Zenon, <2>10 DEF EndStartClose, StartClose, AfterStartClose
  <2>11. ASSUME NEW i \in Ids, EndWaitClosed(i)
        PROVE  CarriedInv'
    BY Zenon, <2>11 DEF EndWaitClosed
  <2>12. ASSUME NEW i \in Ids, EndMark(i)
        PROVE  CarriedInv'
    BY SMTT(60), <2>12 DEF EndMark, Counted, ReleaseSequence
  <2>13. ASSUME NEW i \in Ids, EndCallSink(i)
        PROVE  CarriedInv'
    BY Zenon, <2>13 DEF EndCallSink, Announce
  <2>14. ASSUME NEW i \in Ids, EndDelete(i)
        PROVE  CarriedInv'
    BY Zenon, <2>14 DEF EndDelete, Signal
  <2>15. ASSUME NEW i \in Ids, ResourceClosed(i)
        PROVE  CarriedInv'
    BY Zenon, <2>15 DEF ResourceClosed
  <2>16. ASSUME NEW g \in Groups \cup {Unaccounted}, InstallCommit(g)
        PROVE  CarriedInv'
    BY Zenon, <2>16 DEF InstallCommit, Signal, Unlock
  <2>17. ASSUME NEW s \in Sinks \cup {NoSink}, SetReleaseSink(s)
        PROVE  CarriedInv'
    BY Zenon, <2>17 DEF SetReleaseSink
  <2>18. ASSUME NEW r \in replay, ReplaySink(r)
        PROVE  CarriedInv'
    BY Zenon, <2>18 DEF ReplaySink, Announce
  <2>19. ASSUME NEW b \in 1..MaxBarrier, ObserveBarrier(b)
        PROVE  CarriedInv'
    BY Zenon, <2>19 DEF ObserveBarrier
  <2>20. ASSUME NEW d \in Drainers, DrainStart(d)
        PROVE  CarriedInv'
    BY Zenon, <2>20 DEF DrainStart
  <2>21. ASSUME NEW c \in Drainers \cup Closers, TakeSnapshot(c)
        PROVE  CarriedInv'
    BY Zenon, <2>21 DEF TakeSnapshot
  <2>22. ASSUME NEW d \in Drainers, NEW i \in Ids, DrainStartClose(d, i)
        PROVE  CarriedInv'
    BY Zenon, <2>22 DEF DrainStartClose, StartClose
  <2>23. ASSUME NEW d \in Drainers, DrainCheck(d)
        PROVE  CarriedInv'
    BY Zenon, <2>23 DEF DrainCheck, Busy
  <2>24. ASSUME NEW c \in Drainers \cup Waiters, Timeout(c)
        PROVE  CarriedInv'
    BY Zenon, <2>24 DEF Timeout
  <2>25. ASSUME NEW c \in Closers, CloseEnter(c)
        PROVE  CarriedInv'
    BY Zenon, <2>25 DEF CloseEnter, CloseTarget
  <2>26. ASSUME NEW c \in Closers, CloseForce(c)
        PROVE  CarriedInv'
    BY Zenon, <2>26 DEF CloseForce
  <2>27. ASSUME NEW c \in Closers, NEW i \in Ids, CloseStartClose(c, i)
        PROVE  CarriedInv'
    BY Zenon, <2>27 DEF CloseStartClose, StartClose
  <2>28. ASSUME NEW c \in Closers, CloseWaited(c)
        PROVE  CarriedInv'
    BY Zenon, <2>28 DEF CloseWaited
  <2>29. ASSUME NEW c \in Closers, CloseFinish(c)
        PROVE  CarriedInv'
    BY Zenon, <2>29 DEF CloseFinish, CompleteClose
  <2>30. ASSUME NEW c \in Closers, CloseJoin(c)
        PROVE  CarriedInv'
    BY Zenon, <2>30 DEF CloseJoin
  <2>31. ASSUME NEW w \in Waiters, WaitPendingStart(w)
        PROVE  CarriedInv'
    BY Zenon, <2>31 DEF WaitPendingStart
  <2>32. ASSUME NEW w \in Waiters, WaitPendingCheck(w)
        PROVE  CarriedInv'
    BY Zenon, <2>32 DEF WaitPendingCheck
  <2>33. CASE UNCHANGED vars
    BY Zenon, <2>33 DEF vars
  <2> QED
    BY Zenon, <2>1, <2>2, <2>3, <2>4, <2>5, <2>6, <2>7, <2>8, <2>9, <2>10, <2>11,
       <2>12, <2>13, <2>14, <2>15, <2>16, <2>17, <2>18, <2>19, <2>20, <2>21,
       <2>22, <2>23, <2>24, <2>25, <2>26, <2>27, <2>28, <2>29, <2>30, <2>31,
       <2>32, <2>33
       DEF Next, Request, Drain, Close, WaitPending
<1> QED
  BY <1>1, <1>2, <1>3, PTL DEF Spec

-----------------------------------------------------------------------------
(* Steps by kind: who takes them and what they leave alone *)

RequestStep ==
    \/ BeginCheck \/ BeginCommit \/ BindCommit
    \/ \E i \in Ids : Request(i)
    \/ \E g \in Groups \cup {Unaccounted} : InstallCommit(g)

CallerStep ==
    \/ \E d \in Drainers : Drain(d)
    \/ \E c \in Closers : Close(c)
    \/ \E w \in Waiters : WaitPending(w)

ReportStep ==
    \/ FreezeInFlight
    \/ \E s \in Sinks \cup {NoSink} : SetReleaseSink(s)
    \/ \E r \in replay : ReplaySink(r)
    \/ \E b \in 1..MaxBarrier : ObserveBarrier(b)

\* Freezes, barriers and sink changes touch neither scopes nor callers.
LEMMA StepKinds ==
    [Next]_vars => \/ RequestStep
                   \/ CallerStep
                   \/ UNCHANGED <<lifecycle, slots, calls>>
<1>1. ReportStep => UNCHANGED <<lifecycle, slots, calls>>
  BY Zenon DEF ReportStep, FreezeInFlight, SetReleaseSink, ReplaySink, ObserveBarrier,
     slots, calls
<1>2. UNCHANGED vars => UNCHANGED <<lifecycle, slots, calls>>
  BY Zenon DEF vars
<1>3. Next => RequestStep \/ CallerStep \/ ReportStep
  BY Zenon DEF Next, RequestStep, CallerStep, ReportStep
<1> QED
  BY Zenon, <1>1, <1>2, <1>3

\* Drain, Close and WaitPending leave the dispatches alone and move resources
\* only from bound to closing.
CallerFrame ==
    /\ UNCHANGED <<mu, muId, dispatchVars, ending>>
    /\ \A i \in Ids : \/ resource'[i] = resource[i]
                      \/ resource[i] = "bound" /\ resource'[i] = "closing"

\* Requests leave the state and the progress of Close alone and wake callers.
RequestFrame ==
    /\ UNCHANGED <<state, snapshot, closeVars>>
    /\ \A c \in Callers : \/ call'[c] = call[c]
                          \/ call[c] = "parked" /\ call'[c] = "woken"

SlotType ==
    /\ next \in 0..MaxDispatch /\ muId \in 0..MaxDispatch
    /\ pending \subseteq Ids /\ scopes \subseteq Ids
    /\ resource \in [Ids -> ResourceState]
    /\ ending \in [Ids -> EndState]

CallType ==
    /\ call \in [Callers -> CallState]
    /\ snapshot \in [Callers -> SUBSET Ids]
    /\ closeWait \in 0..MaxDispatch

\* TypeOK has the parts the frames are about.
LEMMA TypeParts == TypeOK => SlotType /\ CallType
  BY Zenon DEF TypeOK, SlotType, CallType

\* What Drain, Close and WaitPending leave alone.
LEMMA CallerSteps == SlotType /\ CallerStep => CallerFrame
<1> SUFFICES ASSUME SlotType, CallerStep
             PROVE  CallerFrame
  BY Zenon
<1>1. CASE CallerStep
  <2> USE DEF SlotType, CallerFrame, lifecycle, slots
  <2>1. ASSUME NEW d \in Drainers, DrainStart(d)
        PROVE  CallerFrame
    BY Zenon, <2>1 DEF DrainStart
  <2>2. ASSUME NEW c \in Drainers \cup Closers, TakeSnapshot(c)
        PROVE  CallerFrame
    BY Zenon, <2>2 DEF TakeSnapshot
  <2>3. ASSUME NEW d \in Drainers, NEW i \in Ids, DrainStartClose(d, i)
        PROVE  CallerFrame
    BY Zenon, <2>3 DEF DrainStartClose, StartClose
  <2>4. ASSUME NEW d \in Drainers, DrainCheck(d)
        PROVE  CallerFrame
    BY Zenon, <2>4 DEF DrainCheck, Busy
  <2>5. ASSUME NEW c \in Drainers \cup Waiters, Timeout(c)
        PROVE  CallerFrame
    BY Zenon, <2>5 DEF Timeout
  <2>6. ASSUME NEW c \in Closers, CloseEnter(c)
        PROVE  CallerFrame
    BY Zenon, <2>6 DEF CloseEnter, CloseTarget
  <2>7. ASSUME NEW c \in Closers, CloseForce(c)
        PROVE  CallerFrame
    BY Zenon, <2>7 DEF CloseForce
  <2>8. ASSUME NEW c \in Closers, NEW i \in Ids, CloseStartClose(c, i)
        PROVE  CallerFrame
    BY Zenon, <2>8 DEF CloseStartClose, StartClose
  <2>9. ASSUME NEW c \in Closers, CloseWaited(c)
        PROVE  CallerFrame
    BY Zenon, <2>9 DEF CloseWaited
  <2>10. ASSUME NEW c \in Closers, CloseFinish(c)
        PROVE  CallerFrame
    BY Zenon, <2>10 DEF CloseFinish, CompleteClose
  <2>11. ASSUME NEW c \in Closers, CloseJoin(c)
        PROVE  CallerFrame
    BY Zenon, <2>11 DEF CloseJoin
  <2>12. ASSUME NEW w \in Waiters, WaitPendingStart(w)
        PROVE  CallerFrame
    BY Zenon, <2>12 DEF WaitPendingStart
  <2>13. ASSUME NEW w \in Waiters, WaitPendingCheck(w)
        PROVE  CallerFrame
    BY Zenon, <2>13 DEF WaitPendingCheck
  <2> QED
    BY Zenon, <1>1, <2>1, <2>2, <2>3, <2>4, <2>5, <2>6, <2>7, <2>8, <2>9, <2>10,
       <2>11, <2>12, <2>13
       DEF CallerStep, Drain, Close, WaitPending
<1> QED
  BY Zenon, <1>1

\* What the steps of the requests leave alone.
LEMMA RequestSteps == CallType /\ RequestStep => RequestFrame
<1> SUFFICES ASSUME CallType, RequestStep
             PROVE  RequestFrame
  BY Zenon
<1>1. CASE RequestStep
  <2> USE DEF CallType, RequestFrame, lifecycle, calls
  <2>1. CASE BeginCheck
    BY Zenon, <2>1 DEF BeginCheck, Lock
  <2>2. CASE BeginCommit
    BY Zenon, <2>2 DEF BeginCommit, Unlock, NextId
  <2>3. CASE BindCommit
    BY Zenon, <2>3 DEF BindCommit, Unlock
  <2>4. ASSUME NEW i \in Ids, PendingEnd(i)
        PROVE  RequestFrame
    BY Zenon, <2>4 DEF PendingEnd, Signal
  <2>5. ASSUME NEW i \in Ids, InstallReject(i)
        PROVE  RequestFrame
    BY Zenon, <2>5 DEF InstallReject, Signal, InstallAllowed
  <2>6. ASSUME NEW i \in Ids, InstallCheck(i)
        PROVE  RequestFrame
    BY Zenon, <2>6 DEF InstallCheck, Lock, InstallAllowed
  <2>7. ASSUME NEW i \in Ids, BindCheck(i)
        PROVE  RequestFrame
    BY Zenon, <2>7 DEF BindCheck, Lock, BindAllowed
  <2>8. ASSUME NEW i \in Ids, EndDeactivate(i)
        PROVE  RequestFrame
    BY Zenon, <2>8 DEF EndDeactivate
  <2>9. ASSUME NEW i \in Ids, EndStartClose(i)
        PROVE  RequestFrame
    BY Zenon, <2>9 DEF EndStartClose, StartClose, AfterStartClose
  <2>10. ASSUME NEW i \in Ids, EndWaitClosed(i)
        PROVE  RequestFrame
    BY Zenon, <2>10 DEF EndWaitClosed
  <2>11. ASSUME NEW i \in Ids, EndMark(i)
        PROVE  RequestFrame
    BY Zenon, <2>11 DEF EndMark, Counted, ReleaseSequence
  <2>12. ASSUME NEW i \in Ids, EndCallSink(i)
        PROVE  RequestFrame
    BY Zenon, <2>12 DEF EndCallSink, Announce
  <2>13. ASSUME NEW i \in Ids, EndDelete(i)
        PROVE  RequestFrame
    BY Zenon, <2>13 DEF EndDelete, Signal
  <2>14. ASSUME NEW i \in Ids, ResourceClosed(i)
        PROVE  RequestFrame
    BY Zenon, <2>14 DEF ResourceClosed
  <2>15. ASSUME NEW g \in Groups \cup {Unaccounted}, InstallCommit(g)
        PROVE  RequestFrame
    BY Zenon, <2>15 DEF InstallCommit, Signal, Unlock
  <2> QED
    BY Zenon, <1>1, <2>1, <2>2, <2>3, <2>4, <2>5, <2>6, <2>7, <2>8, <2>9, <2>10,
       <2>11, <2>12, <2>13, <2>14, <2>15
       DEF RequestStep, Request
<1> QED
  BY Zenon, <1>1

-----------------------------------------------------------------------------
(* Dispatch ids and the mutex *)

\* End goes on to its sink or straight to the deletion.
LEMMA EndMarkEffect ==
    ASSUME NEW i \in Ids, EndMark(i)
    PROVE  \E e \in {"sink", "delete"} : ending' = [ending EXCEPT ![i] = e]
  BY Zenon DEF EndMark

\* Dispatch ids move in one direction, whoever moves them.
LEMMA IdInvStep == TypeOK /\ IdInv /\ MuInv /\ [Next]_vars => IdInv'
<1> SUFFICES ASSUME SlotType, CallType, IdInv, MuInv, [Next]_vars
             PROVE  IdInv'
  BY Zenon, TypeParts
<1> USE IdRange, CallersAssumption DEF IdInv, MuInv, SlotType,
    lifecycle, slots, dispatchVars, reports, releaseVars, barrierVars, calls, closeVars
<1>1. CASE RequestStep
  <2>1. CASE BeginCheck
    BY Zenon, <2>1 DEF BeginCheck, Lock
  <2>2. CASE BeginCommit
    BY SMTT(60), <2>2 DEF BeginCommit, Unlock, NextId
  <2>3. CASE BindCommit
    BY Zenon, <2>3 DEF BindCommit, Unlock
  <2>4. ASSUME NEW i \in Ids, PendingEnd(i)
        PROVE  IdInv'
    BY Zenon, <2>4 DEF PendingEnd, Signal
  <2>5. ASSUME NEW i \in Ids, InstallReject(i)
        PROVE  IdInv'
    BY Zenon, <2>5 DEF InstallReject, Signal, InstallAllowed
  <2>6. ASSUME NEW i \in Ids, InstallCheck(i)
        PROVE  IdInv'
    BY Zenon, <2>6 DEF InstallCheck, Lock, InstallAllowed
  <2>7. ASSUME NEW i \in Ids, BindCheck(i)
        PROVE  IdInv'
    BY Zenon, <2>7 DEF BindCheck, Lock, BindAllowed
  <2>8. ASSUME NEW i \in Ids, EndDeactivate(i)
        PROVE  IdInv'
    BY Zenon, <2>8 DEF EndDeactivate
  <2>9. ASSUME NEW i \in Ids, EndStartClose(i)
        PROVE  IdInv'
    BY Zenon, <2>9 DEF EndStartClose, StartClose, AfterStartClose
  <2>10. ASSUME NEW i \in Ids, EndWaitClosed(i)
        PROVE  IdInv'
    BY Zenon, <2>10 DEF EndWaitClosed
  <2>11. ASSUME NEW i \in Ids, EndMark(i)
        PROVE  IdInv'
    <3>1. PICK e \in {"sink", "delete"} : ending' = [ending EXCEPT ![i] = e]
      BY Zenon, <2>11, EndMarkEffect
    <3>2. ending[i] = "mark" /\ UNCHANGED <<lifecycle, dispatchVars, resource>>
      BY Zenon, <2>11 DEF EndMark
    <3> QED
      BY Zenon, <3>1, <3>2
  <2>12. ASSUME NEW i \in Ids, EndCallSink(i)
        PROVE  IdInv'
    BY Zenon, <2>12 DEF EndCallSink, Announce
  <2>13. ASSUME NEW i \in Ids, EndDelete(i)
        PROVE  IdInv'
    BY Zenon, <2>13 DEF EndDelete, Signal
  <2>14. ASSUME NEW i \in Ids, ResourceClosed(i)
        PROVE  IdInv'
    BY Zenon, <2>14 DEF ResourceClosed
  <2>15. ASSUME NEW g \in Groups \cup {Unaccounted}, InstallCommit(g)
        PROVE  IdInv'
    BY SMTT(60), <2>15 DEF InstallCommit, Signal, Unlock
  <2> QED
    BY Zenon, <1>1, <2>1, <2>2, <2>3, <2>4, <2>5, <2>6, <2>7, <2>8, <2>9, <2>10,
       <2>11, <2>12, <2>13, <2>14, <2>15
       DEF RequestStep, Request
<1>2. CASE CallerStep
  BY SMTT(60), <1>2, CallerSteps DEF CallerFrame
<1>3. CASE UNCHANGED <<lifecycle, slots, calls>>
  BY Zenon, <1>3
<1> QED
  BY Zenon, <1>1, <1>2, <1>3, StepKinds

\* What a request checked under mu still holds when it acts.
LEMMA MuInvStep == TypeOK /\ IdInv /\ MuInv /\ [Next]_vars => MuInv'
<1> SUFFICES ASSUME SlotType, CallType, IdInv, MuInv, [Next]_vars
             PROVE  MuInv'
  BY Zenon, TypeParts
<1> USE IdRange, CallersAssumption DEF IdInv, MuInv, SlotType,
    lifecycle, slots, dispatchVars, reports, releaseVars, barrierVars, calls, closeVars
<1>1. CASE RequestStep
  <2>1. CASE BeginCheck
    BY Zenon, <2>1 DEF BeginCheck, Lock
  <2>2. CASE BeginCommit
    BY Zenon, <2>2 DEF BeginCommit, Unlock, NextId
  <2>3. CASE BindCommit
    BY Zenon, <2>3 DEF BindCommit, Unlock
  <2>4. ASSUME NEW i \in Ids, PendingEnd(i)
        PROVE  MuInv'
    BY SMTT(60), <2>4 DEF PendingEnd, Signal
  <2>5. ASSUME NEW i \in Ids, InstallReject(i)
        PROVE  MuInv'
    BY Zenon, <2>5 DEF InstallReject, Signal, InstallAllowed
  <2>6. ASSUME NEW i \in Ids, InstallCheck(i)
        PROVE  MuInv'
    BY Zenon, <2>6 DEF InstallCheck, Lock, InstallAllowed
  <2>7. ASSUME NEW i \in Ids, BindCheck(i)
        PROVE  MuInv'
    BY Zenon, <2>7 DEF BindCheck, Lock, BindAllowed
  <2>8. ASSUME NEW i \in Ids, EndDeactivate(i)
        PROVE  MuInv'
    BY Zenon, <2>8 DEF EndDeactivate
  <2>9. ASSUME NEW i \in Ids, EndStartClose(i)
        PROVE  MuInv'
    BY Zenon, <2>9 DEF EndStartClose, StartClose, AfterStartClose
  <2>10. ASSUME NEW i \in Ids, EndWaitClosed(i)
        PROVE  MuInv'
    BY Zenon, <2>10 DEF EndWaitClosed
  <2>11. ASSUME NEW i \in Ids, EndMark(i)
        PROVE  MuInv'
    <3>1. PICK e \in {"sink", "delete"} : ending' = [ending EXCEPT ![i] = e]
      BY Zenon, <2>11, EndMarkEffect
    <3>2. ending[i] = "mark" /\ UNCHANGED <<lifecycle, dispatchVars, resource>>
      BY Zenon, <2>11 DEF EndMark
    <3> QED
      BY Zenon, <3>1, <3>2
  <2>12. ASSUME NEW i \in Ids, EndCallSink(i)
        PROVE  MuInv'
    BY Zenon, <2>12 DEF EndCallSink, Announce
  <2>13. ASSUME NEW i \in Ids, EndDelete(i)
        PROVE  MuInv'
    BY Zenon, <2>13 DEF EndDelete, Signal
  <2>14. ASSUME NEW i \in Ids, ResourceClosed(i)
        PROVE  MuInv'
    BY Zenon, <2>14 DEF ResourceClosed
  <2>15. ASSUME NEW g \in Groups \cup {Unaccounted}, InstallCommit(g)
        PROVE  MuInv'
    BY Zenon, <2>15 DEF InstallCommit, Signal, Unlock
  <2> QED
    BY Zenon, <1>1, <2>1, <2>2, <2>3, <2>4, <2>5, <2>6, <2>7, <2>8, <2>9, <2>10,
       <2>11, <2>12, <2>13, <2>14, <2>15
       DEF RequestStep, Request
<1>2. CASE CallerStep
  BY SMTT(60), <1>2, CallerSteps DEF CallerFrame
<1>3. CASE UNCHANGED <<lifecycle, slots, calls>>
  BY Zenon, <1>3
<1> QED
  BY Zenon, <1>1, <1>2, <1>3, StepKinds

\* A dispatch is in one place at a time, also while a request holds mu.
LEMMA DispatchIds == Spec => [](IdInv /\ MuInv)
<1>1. Init => IdInv /\ MuInv
  BY Zenon DEF Init, IdInv, MuInv
<1> QED
  BY <1>1, IdInvStep, MuInvStep, TypeCorrect, PTL DEF Spec

-----------------------------------------------------------------------------
(* Wake-ups *)

\* Every step keeps NoLostWakeup.
LEMMA NoLostWakeupStep == TypeOK /\ NoLostWakeup /\ [Next]_vars => NoLostWakeup'
<1> SUFFICES ASSUME SlotType, CallType, NoLostWakeup, [Next]_vars
             PROVE  NoLostWakeup'
  BY Zenon, TypeParts
<1> USE CallersAssumption DEF SlotType, CallType, Callers, NoLostWakeup,
    lifecycle, slots, dispatchVars, reports, releaseVars, barrierVars, calls, closeVars
<1>1. CASE RequestStep
  <2>1. CASE BeginCheck
    BY Zenon, <2>1 DEF BeginCheck, Lock
  <2>2. CASE BeginCommit
    BY Zenon, <2>2 DEF BeginCommit, Unlock, NextId
  <2>3. CASE BindCommit
    BY Zenon, <2>3 DEF BindCommit, Unlock
  <2>4. ASSUME NEW i \in Ids, PendingEnd(i)
        PROVE  NoLostWakeup'
    BY Zenon, <2>4 DEF PendingEnd, Signal
  <2>5. ASSUME NEW i \in Ids, InstallReject(i)
        PROVE  NoLostWakeup'
    BY Zenon, <2>5 DEF InstallReject, Signal, InstallAllowed
  <2>6. ASSUME NEW i \in Ids, InstallCheck(i)
        PROVE  NoLostWakeup'
    BY Zenon, <2>6 DEF InstallCheck, Lock, InstallAllowed
  <2>7. ASSUME NEW i \in Ids, BindCheck(i)
        PROVE  NoLostWakeup'
    BY Zenon, <2>7 DEF BindCheck, Lock, BindAllowed
  <2>8. ASSUME NEW i \in Ids, EndDeactivate(i)
        PROVE  NoLostWakeup'
    BY Zenon, <2>8 DEF EndDeactivate
  <2>9. ASSUME NEW i \in Ids, EndStartClose(i)
        PROVE  NoLostWakeup'
    BY Zenon, <2>9 DEF EndStartClose, StartClose, AfterStartClose
  <2>10. ASSUME NEW i \in Ids, EndWaitClosed(i)
        PROVE  NoLostWakeup'
    BY Zenon, <2>10 DEF EndWaitClosed
  <2>11. ASSUME NEW i \in Ids, EndMark(i)
        PROVE  NoLostWakeup'
    BY Zenon, <2>11 DEF EndMark, Counted, ReleaseSequence
  <2>12. ASSUME NEW i \in Ids, EndCallSink(i)
        PROVE  NoLostWakeup'
    BY Zenon, <2>12 DEF EndCallSink, Announce
  <2>13. ASSUME NEW i \in Ids, EndDelete(i)
        PROVE  NoLostWakeup'
    BY Zenon, <2>13 DEF EndDelete, Signal
  <2>14. ASSUME NEW i \in Ids, ResourceClosed(i)
        PROVE  NoLostWakeup'
    BY Zenon, <2>14 DEF ResourceClosed
  <2>15. ASSUME NEW g \in Groups \cup {Unaccounted}, InstallCommit(g)
        PROVE  NoLostWakeup'
    BY Zenon, <2>15 DEF InstallCommit, Signal, Unlock
  <2> QED
    BY Zenon, <1>1, <2>1, <2>2, <2>3, <2>4, <2>5, <2>6, <2>7, <2>8, <2>9, <2>10,
       <2>11, <2>12, <2>13, <2>14, <2>15
       DEF RequestStep, Request
<1>2. CASE CallerStep
  <2>1. ASSUME NEW d \in Drainers, DrainStart(d)
        PROVE  NoLostWakeup'
    BY Zenon, <2>1 DEF DrainStart
  <2>2. ASSUME NEW c \in Drainers \cup Closers, TakeSnapshot(c)
        PROVE  NoLostWakeup'
    BY Zenon, <2>2 DEF TakeSnapshot
  <2>3. ASSUME NEW d \in Drainers, NEW i \in Ids, DrainStartClose(d, i)
        PROVE  NoLostWakeup'
    BY Zenon, <2>3 DEF DrainStartClose, StartClose
  <2>4. ASSUME NEW d \in Drainers, DrainCheck(d)
        PROVE  NoLostWakeup'
    BY Zenon, <2>4 DEF DrainCheck, Busy
  <2>5. ASSUME NEW c \in Drainers \cup Waiters, Timeout(c)
        PROVE  NoLostWakeup'
    BY Zenon, <2>5 DEF Timeout
  <2>6. ASSUME NEW c \in Closers, CloseEnter(c)
        PROVE  NoLostWakeup'
    BY Zenon, <2>6 DEF CloseEnter, CloseTarget
  <2>7. ASSUME NEW c \in Closers, CloseForce(c)
        PROVE  NoLostWakeup'
    BY Zenon, <2>7 DEF CloseForce
  <2>8. ASSUME NEW c \in Closers, NEW i \in Ids, CloseStartClose(c, i)
        PROVE  NoLostWakeup'
    BY Zenon, <2>8 DEF CloseStartClose, StartClose
  <2>9. ASSUME NEW c \in Closers, CloseWaited(c)
        PROVE  NoLostWakeup'
    BY Zenon, <2>9 DEF CloseWaited
  <2>10. ASSUME NEW c \in Closers, CloseFinish(c)
        PROVE  NoLostWakeup'
    BY Zenon, <2>10 DEF CloseFinish, CompleteClose
  <2>11. ASSUME NEW c \in Closers, CloseJoin(c)
        PROVE  NoLostWakeup'
    BY Zenon, <2>11 DEF CloseJoin
  <2>12. ASSUME NEW w \in Waiters, WaitPendingStart(w)
        PROVE  NoLostWakeup'
    BY Zenon, <2>12 DEF WaitPendingStart
  <2>13. ASSUME NEW w \in Waiters, WaitPendingCheck(w)
        PROVE  NoLostWakeup'
    BY Zenon, <2>13 DEF WaitPendingCheck
  <2> QED
    BY Zenon, <1>2, <2>1, <2>2, <2>3, <2>4, <2>5, <2>6, <2>7, <2>8, <2>9, <2>10,
       <2>11, <2>12, <2>13
       DEF CallerStep, Drain, Close, WaitPending
<1>3. CASE UNCHANGED <<lifecycle, slots, calls>>
  BY Zenon, <1>3
<1> QED
  BY Zenon, <1>1, <1>2, <1>3, StepKinds

\* Nobody stays parked on the changed channel when its condition holds.
THEOREM WakeupsArrive == Spec => []NoLostWakeup
<1>1. Init => NoLostWakeup
  BY Zenon DEF Init, NoLostWakeup, Callers
<1> QED
  BY <1>1, NoLostWakeupStep, TypeCorrect, PTL DEF Spec

-----------------------------------------------------------------------------
(* Releases, Drain and Close.  The inductive invariant, in parts; it rests on
   IdInv and MuInv. *)

\* A scope past its wait has no open resource.
EndInv ==
    \A i \in Ids :
        /\ ending[i] \in {"mark", "sink", "delete", "ended"} => Quiet(i)
        /\ ending[i] = "closing" => resource[i] \in {"closing", "closed"}

\* A Drain or Close beyond its snapshot.
Past(c) == call[c] \in {"close", "parked", "woken", "timeout", "done"}

\* The state is monotone, and a snapshot taken after it changed is complete:
\* no request is between its check and its effect any more.
StateInv ==
    /\ \A d \in Drainers : call[d] # "idle" => state # "accepting"
    /\ \A d \in Drainers : Past(d) => mu = "free"
    /\ \A d \in Drainers : call[d] = "done" =>
           state = "closed" /\ pending = {} /\ scopes = {}
    /\ \A c \in Closers : call[c] \in {"snapshot", "close"} => state = "closed"
    /\ \A c \in Closers : call[c] = "close" => mu = "free"

\* What a Drain has still to cancel is in its snapshot.
DrainInv ==
    \A d \in Drainers, i \in Ids :
        Past(d) /\ resource[i] = "bound" => call[d] = "close" /\ i \in snapshot[d]

\* Close runs once, and is over when closeDone is closed.
FlightInv ==
    /\ \A c \in Closers : call[c] \in {"force", "snapshot", "close", "join"}
                              => closePhase # "none"
    /\ \A b, c \in Closers : /\ call[b] \in {"force", "snapshot", "close"}
                             /\ call[c] \in {"force", "snapshot", "close"}
                             => b = c
    /\ (\E c \in Closers : call[c] \in {"force", "snapshot", "close"})
           => closePhase = "started"
    /\ state = "closed" => closePhase # "none" \/ \E d \in Drainers : call[d] = "done"
    /\ \A c \in Closers : call[c] = "done" =>
           closePhase = "done" \/ \E d \in Drainers : call[d] = "done"
    /\ \A c \in Closers : call[c] \notin {"parked", "woken", "timeout"}

\* What Close has still to close it knows of, and nothing can be added.
CloseInv ==
    /\ \A c \in Closers, i \in Ids :
           call[c] = "close" /\ ~ Quiet(i) => i \in snapshot[c] \/ i = closeWait
    /\ closePhase = "done" => /\ state = "closed" /\ mu = "free"
                              /\ \A i \in Ids : Quiet(i)

LifecycleInv == EndInv /\ StateInv /\ DrainInv /\ FlightInv /\ CloseInv

-----------------------------------------------------------------------------
\* EndWithRelease passes its wait only with a closed resource.
LEMMA EndInvStep == TypeOK /\ IdInv /\ MuInv /\ EndInv /\ [Next]_vars => EndInv'
<1> SUFFICES ASSUME SlotType, CallType, IdInv, MuInv, EndInv, [Next]_vars
             PROVE  EndInv'
  BY Zenon, TypeParts
<1> USE IdRange, CallersAssumption DEF IdInv, MuInv, EndInv, SlotType, Quiet,
    lifecycle, slots, dispatchVars, reports, releaseVars, barrierVars, calls, closeVars
<1>1. CASE RequestStep
  <2>1. CASE BeginCheck
    BY Zenon, <2>1 DEF BeginCheck, Lock
  <2>2. CASE BeginCommit
    BY Zenon, <2>2 DEF BeginCommit, Unlock, NextId
  <2>3. CASE BindCommit
    BY Zenon, <2>3 DEF BindCommit, Unlock
  <2>4. ASSUME NEW i \in Ids, PendingEnd(i)
        PROVE  EndInv'
    BY Zenon, <2>4 DEF PendingEnd, Signal
  <2>5. ASSUME NEW i \in Ids, InstallReject(i)
        PROVE  EndInv'
    BY Zenon, <2>5 DEF InstallReject, Signal, InstallAllowed
  <2>6. ASSUME NEW i \in Ids, InstallCheck(i)
        PROVE  EndInv'
    BY Zenon, <2>6 DEF InstallCheck, Lock, InstallAllowed
  <2>7. ASSUME NEW i \in Ids, BindCheck(i)
        PROVE  EndInv'
    BY Zenon, <2>7 DEF BindCheck, Lock, BindAllowed
  <2>8. ASSUME NEW i \in Ids, EndDeactivate(i)
        PROVE  EndInv'
    BY <2>8 DEF EndDeactivate
  <2>9. ASSUME NEW i \in Ids, EndStartClose(i)
        PROVE  EndInv'
    <3>1. CASE resource[i] = "none"
      BY Zenon, <2>9, <3>1 DEF EndStartClose, StartClose, AfterStartClose
    <3>2. CASE resource[i] # "none"
      <4>1. resource'[i] \in {"closing", "closed"} /\ ending'[i] = "closing"
        BY Zenon, <2>9, <3>2 DEF EndStartClose, StartClose, AfterStartClose, ResourceState
      <4>2. \A j \in Ids \ {i} : resource'[j] = resource[j] /\ ending'[j] = ending[j]
        BY Zenon, <2>9 DEF EndStartClose, StartClose
      <4> QED
        BY Zenon, <4>1, <4>2
    <3> QED
      BY Zenon, <3>1, <3>2
  <2>10. ASSUME NEW i \in Ids, EndWaitClosed(i)
        PROVE  EndInv'
    BY Zenon, <2>10 DEF EndWaitClosed
  <2>11. ASSUME NEW i \in Ids, EndMark(i)
        PROVE  EndInv'
    <3>1. PICK e \in {"sink", "delete"} : ending' = [ending EXCEPT ![i] = e]
      BY Zenon, <2>11, EndMarkEffect
    <3>2. ending[i] = "mark" /\ UNCHANGED <<lifecycle, dispatchVars, resource>>
      BY Zenon, <2>11 DEF EndMark
    <3> QED
      BY Zenon, <3>1, <3>2
  <2>12. ASSUME NEW i \in Ids, EndCallSink(i)
        PROVE  EndInv'
    BY <2>12 DEF EndCallSink, Announce
  <2>13. ASSUME NEW i \in Ids, EndDelete(i)
        PROVE  EndInv'
    BY Zenon, <2>13 DEF EndDelete, Signal
  <2>14. ASSUME NEW i \in Ids, ResourceClosed(i)
        PROVE  EndInv'
    BY Zenon, <2>14 DEF ResourceClosed
  <2>15. ASSUME NEW g \in Groups \cup {Unaccounted}, InstallCommit(g)
        PROVE  EndInv'
    BY Zenon, <2>15 DEF InstallCommit, Signal, Unlock
  <2> HIDE IdRange, CallersAssumption DEF IdInv, MuInv, EndInv, SlotType, Quiet,
      lifecycle, slots, dispatchVars, reports, releaseVars, barrierVars, calls, closeVars
  <2> QED
    BY Zenon, <1>1, <2>1, <2>2, <2>3, <2>4, <2>5, <2>6, <2>7, <2>8, <2>9, <2>10,
       <2>11, <2>12, <2>13, <2>14, <2>15
       DEF RequestStep, Request
<1>2. CASE CallerStep
  BY Zenon, <1>2, CallerSteps DEF CallerFrame
<1>3. CASE UNCHANGED <<lifecycle, slots, calls>>
  BY Zenon, <1>3
<1> QED
  BY Zenon, <1>1, <1>2, <1>3, StepKinds

\* After a snapshot nothing enters the registry any more.
LEMMA StateInvStep == TypeOK /\ StateInv /\ [Next]_vars => StateInv'
<1> SUFFICES ASSUME SlotType, CallType, StateInv, [Next]_vars
             PROVE  StateInv'
  BY Zenon, TypeParts
<1> USE IdRange, CallersAssumption DEF StateInv, CallType, Callers, Past,
    lifecycle, slots, dispatchVars, reports, releaseVars, barrierVars, calls, closeVars
<1>1. CASE RequestStep
  <2>1. CASE BeginCheck
    BY Zenon, <2>1 DEF BeginCheck, Lock
  <2>2. CASE BeginCommit
    BY Zenon, <2>2 DEF BeginCommit, Unlock, NextId
  <2>3. CASE BindCommit
    BY Zenon, <2>3 DEF BindCommit, Unlock
  <2>4. ASSUME NEW i \in Ids, PendingEnd(i)
        PROVE  StateInv'
    BY Zenon, <2>4 DEF PendingEnd, Signal
  <2>5. ASSUME NEW i \in Ids, InstallReject(i)
        PROVE  StateInv'
    BY Zenon, <2>5 DEF InstallReject, Signal, InstallAllowed
  <2>6. ASSUME NEW i \in Ids, InstallCheck(i)
        PROVE  StateInv'
    BY Zenon, <2>6 DEF InstallCheck, Lock, InstallAllowed
  <2>7. ASSUME NEW i \in Ids, BindCheck(i)
        PROVE  StateInv'
    BY Zenon, <2>7 DEF BindCheck, Lock, BindAllowed
  <2>8. ASSUME NEW i \in Ids, EndDeactivate(i)
        PROVE  StateInv'
    BY Zenon, <2>8 DEF EndDeactivate
  <2>9. ASSUME NEW i \in Ids, EndStartClose(i)
        PROVE  StateInv'
    BY Zenon, <2>9 DEF EndStartClose, StartClose, AfterStartClose
  <2>10. ASSUME NEW i \in Ids, EndWaitClosed(i)
        PROVE  StateInv'
    BY Zenon, <2>10 DEF EndWaitClosed
  <2>11. ASSUME NEW i \in Ids, EndMark(i)
        PROVE  StateInv'
    BY Zenon, <2>11 DEF EndMark, Counted, ReleaseSequence
  <2>12. ASSUME NEW i \in Ids, EndCallSink(i)
        PROVE  StateInv'
    BY Zenon, <2>12 DEF EndCallSink, Announce
  <2>13. ASSUME NEW i \in Ids, EndDelete(i)
        PROVE  StateInv'
    BY Zenon, <2>13 DEF EndDelete, Signal
  <2>14. ASSUME NEW i \in Ids, ResourceClosed(i)
        PROVE  StateInv'
    BY Zenon, <2>14 DEF ResourceClosed
  <2>15. ASSUME NEW g \in Groups \cup {Unaccounted}, InstallCommit(g)
        PROVE  StateInv'
    BY Zenon, <2>15 DEF InstallCommit, Signal, Unlock
  <2> HIDE IdRange, CallersAssumption DEF StateInv, CallType, Callers, Past,
      lifecycle, slots, dispatchVars, reports, releaseVars, barrierVars, calls, closeVars
  <2> QED
    BY Zenon, <1>1, <2>1, <2>2, <2>3, <2>4, <2>5, <2>6, <2>7, <2>8, <2>9, <2>10,
       <2>11, <2>12, <2>13, <2>14, <2>15
       DEF RequestStep, Request
<1>2. CASE CallerStep
  <2>1. ASSUME NEW d \in Drainers, DrainStart(d)
        PROVE  StateInv'
    BY Zenon, <2>1 DEF DrainStart
  <2>2. ASSUME NEW c \in Drainers \cup Closers, TakeSnapshot(c)
        PROVE  StateInv'
    BY Zenon, <2>2 DEF TakeSnapshot
  <2>3. ASSUME NEW d \in Drainers, NEW i \in Ids, DrainStartClose(d, i)
        PROVE  StateInv'
    BY Zenon, <2>3 DEF DrainStartClose, StartClose
  <2>4. ASSUME NEW d \in Drainers, DrainCheck(d)
        PROVE  StateInv'
    BY Zenon, <2>4 DEF DrainCheck, Busy
  <2>5. ASSUME NEW c \in Drainers \cup Waiters, Timeout(c)
        PROVE  StateInv'
    BY Zenon, <2>5 DEF Timeout
  <2>6. ASSUME NEW c \in Closers, CloseEnter(c)
        PROVE  StateInv'
    BY Zenon, <2>6 DEF CloseEnter, CloseTarget
  <2>7. ASSUME NEW c \in Closers, CloseForce(c)
        PROVE  StateInv'
    BY Zenon, <2>7 DEF CloseForce
  <2>8. ASSUME NEW c \in Closers, NEW i \in Ids, CloseStartClose(c, i)
        PROVE  StateInv'
    BY Zenon, <2>8 DEF CloseStartClose, StartClose
  <2>9. ASSUME NEW c \in Closers, CloseWaited(c)
        PROVE  StateInv'
    BY Zenon, <2>9 DEF CloseWaited
  <2>10. ASSUME NEW c \in Closers, CloseFinish(c)
        PROVE  StateInv'
    BY Zenon, <2>10 DEF CloseFinish, CompleteClose
  <2>11. ASSUME NEW c \in Closers, CloseJoin(c)
        PROVE  StateInv'
    BY Zenon, <2>11 DEF CloseJoin
  <2>12. ASSUME NEW w \in Waiters, WaitPendingStart(w)
        PROVE  StateInv'
    BY Zenon, <2>12 DEF WaitPendingStart
  <2>13. ASSUME NEW w \in Waiters, WaitPendingCheck(w)
        PROVE  StateInv'
    BY Zenon, <2>13 DEF WaitPendingCheck
  <2> HIDE IdRange, CallersAssumption DEF StateInv, CallType, Callers, Past,
      lifecycle, slots, dispatchVars, reports, releaseVars, barrierVars, calls, closeVars
  <2> QED
    BY Zenon, <1>2, <2>1, <2>2, <2>3, <2>4, <2>5, <2>6, <2>7, <2>8, <2>9, <2>10,
       <2>11, <2>12, <2>13
       DEF CallerStep, Drain, Close, WaitPending
<1>3. CASE UNCHANGED <<lifecycle, slots, calls>>
  BY Zenon, <1>3
<1> QED
  BY Zenon, <1>1, <1>2, <1>3, StepKinds

\* A Drain misses no bound resource.
LEMMA DrainInvStep == TypeOK /\ IdInv /\ EndInv /\ StateInv /\ DrainInv /\ [Next]_vars => DrainInv'
<1> SUFFICES ASSUME SlotType, CallType, IdInv, EndInv, StateInv, DrainInv, [Next]_vars
             PROVE  DrainInv'
  BY Zenon, TypeParts
<1> USE IdRange, CallersAssumption DEF IdInv, EndInv, StateInv, DrainInv, SlotType, CallType, Callers, Past, Quiet,
    lifecycle, slots, dispatchVars, reports, releaseVars, barrierVars, calls, closeVars
<1>1. CASE RequestStep
  <2>1. CASE BeginCheck
    BY Zenon, <2>1 DEF BeginCheck, Lock
  <2>2. CASE BeginCommit
    BY Zenon, <2>2 DEF BeginCommit, Unlock, NextId
  <2>3. CASE BindCommit
    BY Zenon, <2>3 DEF BindCommit, Unlock
  <2>4. ASSUME NEW i \in Ids, PendingEnd(i)
        PROVE  DrainInv'
    BY <2>4 DEF PendingEnd, Signal
  <2>5. ASSUME NEW i \in Ids, InstallReject(i)
        PROVE  DrainInv'
    BY <2>5 DEF InstallReject, Signal, InstallAllowed
  <2>6. ASSUME NEW i \in Ids, InstallCheck(i)
        PROVE  DrainInv'
    BY Zenon, <2>6 DEF InstallCheck, Lock, InstallAllowed
  <2>7. ASSUME NEW i \in Ids, BindCheck(i)
        PROVE  DrainInv'
    BY Zenon, <2>7 DEF BindCheck, Lock, BindAllowed
  <2>8. ASSUME NEW i \in Ids, EndDeactivate(i)
        PROVE  DrainInv'
    BY <2>8 DEF EndDeactivate
  <2>9. ASSUME NEW i \in Ids, EndStartClose(i)
        PROVE  DrainInv'
    BY <2>9 DEF EndStartClose, StartClose, AfterStartClose
  <2>10. ASSUME NEW i \in Ids, EndWaitClosed(i)
        PROVE  DrainInv'
    BY <2>10 DEF EndWaitClosed
  <2>11. ASSUME NEW i \in Ids, EndMark(i)
        PROVE  DrainInv'
    BY <2>11 DEF EndMark, Counted, ReleaseSequence
  <2>12. ASSUME NEW i \in Ids, EndCallSink(i)
        PROVE  DrainInv'
    BY SMTT(60), <2>12 DEF EndCallSink, Announce
  <2>13. ASSUME NEW i \in Ids, EndDelete(i)
        PROVE  DrainInv'
    BY <2>13 DEF EndDelete, Signal
  <2>14. ASSUME NEW i \in Ids, ResourceClosed(i)
        PROVE  DrainInv'
    BY <2>14 DEF ResourceClosed
  <2>15. ASSUME NEW g \in Groups \cup {Unaccounted}, InstallCommit(g)
        PROVE  DrainInv'
    BY Zenon, <2>15 DEF InstallCommit, Signal, Unlock
  <2> HIDE IdRange, CallersAssumption DEF IdInv, EndInv, StateInv, DrainInv, SlotType, CallType, Callers, Past, Quiet,
      lifecycle, slots, dispatchVars, reports, releaseVars, barrierVars, calls, closeVars
  <2> QED
    BY Zenon, <1>1, <2>1, <2>2, <2>3, <2>4, <2>5, <2>6, <2>7, <2>8, <2>9, <2>10,
       <2>11, <2>12, <2>13, <2>14, <2>15
       DEF RequestStep, Request
<1>2. CASE CallerStep
  <2>1. ASSUME NEW d \in Drainers, DrainStart(d)
        PROVE  DrainInv'
    BY <2>1 DEF DrainStart
  <2>2. ASSUME NEW c \in Drainers \cup Closers, TakeSnapshot(c)
        PROVE  DrainInv'
    <3>1. \A j \in Ids : resource[j] = "bound" => j \in scopes
      BY Zenon
    <3>2. CASE c \in Drainers
      BY SMTT(60), <2>2, <3>1, <3>2 DEF TakeSnapshot
    <3>3. CASE c \in Closers
      <4>1. \A d \in Drainers : call'[d] = call[d] /\ snapshot'[d] = snapshot[d]
        BY SMTT(60), <2>2, <3>3 DEF TakeSnapshot
      <4> QED
        BY SMTT(60), <2>2, <4>1 DEF TakeSnapshot
    <3> QED
      BY Zenon, <3>2, <3>3
  <2>3. ASSUME NEW d \in Drainers, NEW i \in Ids, DrainStartClose(d, i)
        PROVE  DrainInv'
    BY SMTT(60), <2>3 DEF DrainStartClose, StartClose
  <2>4. ASSUME NEW d \in Drainers, DrainCheck(d)
        PROVE  DrainInv'
    BY SMTT(60), <2>4 DEF DrainCheck, Busy
  <2>5. ASSUME NEW c \in Drainers \cup Waiters, Timeout(c)
        PROVE  DrainInv'
    BY SMTT(60), <2>5 DEF Timeout
  <2>6. ASSUME NEW c \in Closers, CloseEnter(c)
        PROVE  DrainInv'
    BY SMTT(60), <2>6 DEF CloseEnter, CloseTarget
  <2>7. ASSUME NEW c \in Closers, CloseForce(c)
        PROVE  DrainInv'
    BY SMTT(60), <2>7 DEF CloseForce
  <2>8. ASSUME NEW c \in Closers, NEW i \in Ids, CloseStartClose(c, i)
        PROVE  DrainInv'
    BY SMTT(60), <2>8 DEF CloseStartClose, StartClose
  <2>9. ASSUME NEW c \in Closers, CloseWaited(c)
        PROVE  DrainInv'
    BY SMTT(60), <2>9 DEF CloseWaited
  <2>10. ASSUME NEW c \in Closers, CloseFinish(c)
        PROVE  DrainInv'
    BY SMTT(60), <2>10 DEF CloseFinish, CompleteClose
  <2>11. ASSUME NEW c \in Closers, CloseJoin(c)
        PROVE  DrainInv'
    BY SMTT(60), <2>11 DEF CloseJoin
  <2>12. ASSUME NEW w \in Waiters, WaitPendingStart(w)
        PROVE  DrainInv'
    BY SMTT(60), <2>12 DEF WaitPendingStart
  <2>13. ASSUME NEW w \in Waiters, WaitPendingCheck(w)
        PROVE  DrainInv'
    BY SMTT(60), <2>13 DEF WaitPendingCheck
  <2> HIDE IdRange, CallersAssumption DEF IdInv, EndInv, StateInv, DrainInv, SlotType, CallType, Callers, Past, Quiet,
      lifecycle, slots, dispatchVars, reports, releaseVars, barrierVars, calls, closeVars
  <2> QED
    BY Zenon, <1>2, <2>1, <2>2, <2>3, <2>4, <2>5, <2>6, <2>7, <2>8, <2>9, <2>10,
       <2>11, <2>12, <2>13
       DEF CallerStep, Drain, Close, WaitPending
<1>3. CASE UNCHANGED <<lifecycle, slots, calls>>
  BY SMTT(60), <1>3
<1> QED
  BY Zenon, <1>1, <1>2, <1>3, StepKinds

\* Close is single-flight.
LEMMA FlightInvStep == TypeOK /\ StateInv /\ FlightInv /\ [Next]_vars => FlightInv'
<1> SUFFICES ASSUME SlotType, CallType, StateInv, FlightInv, [Next]_vars
             PROVE  FlightInv'
  BY Zenon, TypeParts
<1> USE IdRange, CallersAssumption DEF StateInv, FlightInv, CallType, Callers,
    lifecycle, slots, dispatchVars, reports, releaseVars, barrierVars, calls, closeVars
<1>1. CASE RequestStep
  BY SMTT(60), <1>1, RequestSteps DEF RequestFrame
<1>2. CASE CallerStep
  <2>1. ASSUME NEW d \in Drainers, DrainStart(d)
        PROVE  FlightInv'
    BY SMTT(60), <2>1 DEF DrainStart
  <2>2. ASSUME NEW c \in Drainers \cup Closers, TakeSnapshot(c)
        PROVE  FlightInv'
    BY SMTT(60), <2>2 DEF TakeSnapshot
  <2>3. ASSUME NEW d \in Drainers, NEW i \in Ids, DrainStartClose(d, i)
        PROVE  FlightInv'
    BY Zenon, <2>3 DEF DrainStartClose, StartClose
  <2>4. ASSUME NEW d \in Drainers, DrainCheck(d)
        PROVE  FlightInv'
    BY SMTT(60), <2>4 DEF DrainCheck, Busy
  <2>5. ASSUME NEW c \in Drainers \cup Waiters, Timeout(c)
        PROVE  FlightInv'
    BY Zenon, <2>5 DEF Timeout
  <2>6. ASSUME NEW c \in Closers, CloseEnter(c)
        PROVE  FlightInv'
    BY SMTT(60), <2>6 DEF CloseEnter, CloseTarget
  <2>7. ASSUME NEW c \in Closers, CloseForce(c)
        PROVE  FlightInv'
    BY SMTT(60), <2>7 DEF CloseForce
  <2>8. ASSUME NEW c \in Closers, NEW i \in Ids, CloseStartClose(c, i)
        PROVE  FlightInv'
    BY Zenon, <2>8 DEF CloseStartClose, StartClose
  <2>9. ASSUME NEW c \in Closers, CloseWaited(c)
        PROVE  FlightInv'
    BY Zenon, <2>9 DEF CloseWaited
  <2>10. ASSUME NEW c \in Closers, CloseFinish(c)
        PROVE  FlightInv'
    BY Zenon, <2>10 DEF CloseFinish, CompleteClose
  <2>11. ASSUME NEW c \in Closers, CloseJoin(c)
        PROVE  FlightInv'
    BY Zenon, <2>11 DEF CloseJoin
  <2>12. ASSUME NEW w \in Waiters, WaitPendingStart(w)
        PROVE  FlightInv'
    <3>1. \A c \in Drainers \cup Closers : call'[c] = call[c]
      BY Zenon, <2>12 DEF WaitPendingStart
    <3> QED
      BY SMTT(60), <2>12, <3>1 DEF WaitPendingStart
  <2>13. ASSUME NEW w \in Waiters, WaitPendingCheck(w)
        PROVE  FlightInv'
    BY SMTT(60), <2>13 DEF WaitPendingCheck
  <2> HIDE IdRange, CallersAssumption DEF StateInv, FlightInv, CallType, Callers,
      lifecycle, slots, dispatchVars, reports, releaseVars, barrierVars, calls, closeVars
  <2> QED
    BY Zenon, <1>2, <2>1, <2>2, <2>3, <2>4, <2>5, <2>6, <2>7, <2>8, <2>9, <2>10,
       <2>11, <2>12, <2>13
       DEF CallerStep, Drain, Close, WaitPending
<1>3. CASE UNCHANGED <<lifecycle, slots, calls>>
  BY Zenon, <1>3
<1> QED
  BY Zenon, <1>1, <1>2, <1>3, StepKinds

\* Close misses no resource.
LEMMA CloseInvStep == TypeOK /\ IdInv /\ EndInv /\ StateInv /\ FlightInv /\ CloseInv /\ [Next]_vars => CloseInv'
<1> SUFFICES ASSUME SlotType, CallType, IdInv, EndInv, StateInv, FlightInv, CloseInv, [Next]_vars
             PROVE  CloseInv'
  BY Zenon, TypeParts
<1> USE IdRange, CallersAssumption DEF IdInv, EndInv, StateInv, FlightInv, CloseInv, SlotType, CallType, Callers, Quiet,
    lifecycle, slots, dispatchVars, reports, releaseVars, barrierVars, calls, closeVars
<1>1. CASE RequestStep
  <2>1. CASE BeginCheck
    BY Zenon, <2>1 DEF BeginCheck, Lock
  <2>2. CASE BeginCommit
    BY Zenon, <2>2 DEF BeginCommit, Unlock, NextId
  <2>3. CASE BindCommit
    BY Zenon, <2>3 DEF BindCommit, Unlock
  <2>4. ASSUME NEW i \in Ids, PendingEnd(i)
        PROVE  CloseInv'
    BY Zenon, <2>4 DEF PendingEnd, Signal
  <2>5. ASSUME NEW i \in Ids, InstallReject(i)
        PROVE  CloseInv'
    BY Zenon, <2>5 DEF InstallReject, Signal, InstallAllowed
  <2>6. ASSUME NEW i \in Ids, InstallCheck(i)
        PROVE  CloseInv'
    BY Zenon, <2>6 DEF InstallCheck, Lock, InstallAllowed
  <2>7. ASSUME NEW i \in Ids, BindCheck(i)
        PROVE  CloseInv'
    BY Zenon, <2>7 DEF BindCheck, Lock, BindAllowed
  <2>8. ASSUME NEW i \in Ids, EndDeactivate(i)
        PROVE  CloseInv'
    BY Zenon, <2>8 DEF EndDeactivate
  <2>9. ASSUME NEW i \in Ids, EndStartClose(i)
        PROVE  CloseInv'
    BY SMTT(60), <2>9 DEF EndStartClose, StartClose, AfterStartClose
  <2>10. ASSUME NEW i \in Ids, EndWaitClosed(i)
        PROVE  CloseInv'
    BY Zenon, <2>10 DEF EndWaitClosed
  <2>11. ASSUME NEW i \in Ids, EndMark(i)
        PROVE  CloseInv'
    BY Zenon, <2>11 DEF EndMark, Counted, ReleaseSequence
  <2>12. ASSUME NEW i \in Ids, EndCallSink(i)
        PROVE  CloseInv'
    BY Zenon, <2>12 DEF EndCallSink, Announce
  <2>13. ASSUME NEW i \in Ids, EndDelete(i)
        PROVE  CloseInv'
    BY Zenon, <2>13 DEF EndDelete, Signal
  <2>14. ASSUME NEW i \in Ids, ResourceClosed(i)
        PROVE  CloseInv'
    BY SMTT(60), <2>14 DEF ResourceClosed
  <2>15. ASSUME NEW g \in Groups \cup {Unaccounted}, InstallCommit(g)
        PROVE  CloseInv'
    BY Zenon, <2>15 DEF InstallCommit, Signal, Unlock
  <2> HIDE IdRange, CallersAssumption DEF IdInv, EndInv, StateInv, FlightInv, CloseInv, SlotType, CallType, Callers, Quiet,
      lifecycle, slots, dispatchVars, reports, releaseVars, barrierVars, calls, closeVars
  <2> QED
    BY Zenon, <1>1, <2>1, <2>2, <2>3, <2>4, <2>5, <2>6, <2>7, <2>8, <2>9, <2>10,
       <2>11, <2>12, <2>13, <2>14, <2>15
       DEF RequestStep, Request
<1>2. CASE CallerStep
  <2>1. ASSUME NEW d \in Drainers, DrainStart(d)
        PROVE  CloseInv'
    BY Zenon, <2>1 DEF DrainStart
  <2>2. ASSUME NEW c \in Drainers \cup Closers, TakeSnapshot(c)
        PROVE  CloseInv'
    BY Zenon, <2>2 DEF TakeSnapshot
  <2>3. ASSUME NEW d \in Drainers, NEW i \in Ids, DrainStartClose(d, i)
        PROVE  CloseInv'
    BY SMTT(60), <2>3 DEF DrainStartClose, StartClose
  <2>4. ASSUME NEW d \in Drainers, DrainCheck(d)
        PROVE  CloseInv'
    BY SMTT(60), <2>4 DEF DrainCheck, Busy
  <2>5. ASSUME NEW c \in Drainers \cup Waiters, Timeout(c)
        PROVE  CloseInv'
    BY Zenon, <2>5 DEF Timeout
  <2>6. ASSUME NEW c \in Closers, CloseEnter(c)
        PROVE  CloseInv'
    BY Zenon, <2>6 DEF CloseEnter, CloseTarget
  <2>7. ASSUME NEW c \in Closers, CloseForce(c)
        PROVE  CloseInv'
    BY Zenon, <2>7 DEF CloseForce
  <2>8. ASSUME NEW c \in Closers, NEW i \in Ids, CloseStartClose(c, i)
        PROVE  CloseInv'
    <3>1. UNCHANGED <<lifecycle, dispatchVars, ending, call, closePhase>>
      BY Zenon, <2>8 DEF CloseStartClose
    <3>2. \A j \in Ids : Quiet(j) => Quiet(j)'
      BY SMTT(60), <2>8 DEF CloseStartClose, StartClose
    <3>3. \A b \in Closers, j \in Ids : call[b] = "close" /\ ~ Quiet(j)' =>
              j \in snapshot'[b] \/ j = closeWait'
      <4> SUFFICES ASSUME NEW b \in Closers, NEW j \in Ids, call[b] = "close", ~ Quiet(j)'
                   PROVE  j \in snapshot'[b] \/ j = closeWait'
        BY Zenon
      <4>1. b = c
        BY SMTT(60), <2>8 DEF CloseStartClose
      <4>2. j \in snapshot[b]
        <5>1. ~ Quiet(j) /\ closeWait = 0
          BY Zenon, <2>8, <3>2 DEF CloseStartClose
        <5>2. j # 0
          BY SMTT(60), BoundsAssumption DEF Ids
        <5> QED
          BY Zenon, <5>1, <5>2
      <4>3. CASE j = i
        BY SMTT(60), <2>8, <4>3 DEF CloseStartClose, StartClose
      <4>4. CASE j # i
        BY Zenon, <2>8, <4>1, <4>2, <4>4 DEF CloseStartClose
      <4> QED
        BY Zenon, <4>3, <4>4
    <3> QED
      BY Zenon, <3>1, <3>2, <3>3
  <2>9. ASSUME NEW c \in Closers, CloseWaited(c)
        PROVE  CloseInv'
    BY Zenon, <2>9 DEF CloseWaited
  <2>10. ASSUME NEW c \in Closers, CloseFinish(c)
        PROVE  CloseInv'
    <3>1. \A j \in Ids : j # 0
      BY SMTT(60), BoundsAssumption DEF Ids
    <3>2. \A j \in Ids : Quiet(j)
      BY SMTT(60), <2>10, <3>1 DEF CloseFinish
    <3>3. state = "closed" /\ mu = "free"
      BY Zenon, <2>10 DEF CloseFinish
    <3>4. UNCHANGED <<lifecycle, resource>>
      BY Zenon, <2>10 DEF CloseFinish
    <3> QED
      BY Zenon, <3>2, <3>3, <3>4
  <2>11. ASSUME NEW c \in Closers, CloseJoin(c)
        PROVE  CloseInv'
    BY Zenon, <2>11 DEF CloseJoin
  <2>12. ASSUME NEW w \in Waiters, WaitPendingStart(w)
        PROVE  CloseInv'
    BY Zenon, <2>12 DEF WaitPendingStart
  <2>13. ASSUME NEW w \in Waiters, WaitPendingCheck(w)
        PROVE  CloseInv'
    BY SMTT(60), <2>13 DEF WaitPendingCheck
  <2> HIDE IdRange, CallersAssumption DEF IdInv, EndInv, StateInv, FlightInv, CloseInv, SlotType, CallType, Callers, Quiet,
      lifecycle, slots, dispatchVars, reports, releaseVars, barrierVars, calls, closeVars
  <2> QED
    BY Zenon, <1>2, <2>1, <2>2, <2>3, <2>4, <2>5, <2>6, <2>7, <2>8, <2>9, <2>10,
       <2>11, <2>12, <2>13
       DEF CallerStep, Drain, Close, WaitPending
<1>3. CASE UNCHANGED <<lifecycle, slots, calls>>
  BY Zenon, <1>3
<1> QED
  BY Zenon, <1>1, <1>2, <1>3, StepKinds

\* Init establishes the invariant, every step preserves it.
LEMMA Lifecycle == Spec => []LifecycleInv
<1>1. Init => LifecycleInv
  BY Zenon DEF Init, LifecycleInv, EndInv, StateInv, DrainInv, FlightInv,
     CloseInv, Past, Callers
<1>2. TypeOK /\ IdInv /\ MuInv /\ LifecycleInv /\ [Next]_vars => LifecycleInv'
  BY Zenon, EndInvStep, StateInvStep, DrainInvStep, FlightInvStep,
     CloseInvStep DEF LifecycleInv
<1> QED
  BY <1>1, <1>2, TypeCorrect, DispatchIds, PTL DEF Spec

\* EndWithRelease never releases a scope whose resource is still open.
THEOREM ReleaseFollowsClose == Spec => []ReleasedAfterClose
<1>1. LifecycleInv => ReleasedAfterClose
  BY Zenon DEF LifecycleInv, EndInv, ReleasedAfterClose, Released
<1> QED
  BY <1>1, Lifecycle, DispatchIds, PTL

\* A Drain that returned nil leaves a registry that is empty for good.
THEOREM DrainEmpties == Spec => []DrainedIsEmpty
<1>1. IdInv /\ LifecycleInv => DrainedIsEmpty
  <2> SUFFICES ASSUME IdInv, LifecycleInv, NEW d \in Drainers, call[d] = "done"
               PROVE  /\ state = "closed" /\ pending = {} /\ scopes = {}
                      /\ \A i \in Ids : Quiet(i)
    BY Zenon DEF DrainedIsEmpty
  <2>1. state = "closed" /\ pending = {} /\ scopes = {}
    BY Zenon DEF LifecycleInv, StateInv
  <2>2. \A i \in Ids : ending[i] \in {"absent", "ended"}
    BY Zenon, <2>1 DEF LifecycleInv, IdInv
  <2> QED
    BY Zenon, <2>1, <2>2 DEF LifecycleInv, IdInv, EndInv, Quiet
<1> QED
  BY <1>1, Lifecycle, DispatchIds, PTL

\* Drain cancels every execution, also those that were being bound meanwhile.
THEOREM DrainCancels == Spec => []DrainCancelsAll
<1>1. LifecycleInv => DrainCancelsAll
  BY Zenon DEF LifecycleInv, DrainInv, DrainCancelsAll, Past
<1> QED
  BY <1>1, Lifecycle, DispatchIds, PTL

\* No Close call, early, first or joined, returns before everything is closed.
THEOREM CloseCloses == Spec => []CloseReturnsClosed
<1>1. IdInv /\ LifecycleInv => CloseReturnsClosed
  <2> SUFFICES ASSUME IdInv, LifecycleInv, NEW c \in Closers, call[c] = "done", NEW i \in Ids
               PROVE  Quiet(i)
    BY Zenon DEF CloseReturnsClosed
  <2>1. CASE closePhase = "done"
    BY Zenon, <2>1 DEF LifecycleInv, CloseInv
  <2>2. CASE \E d \in Drainers : call[d] = "done"
    BY Zenon, <2>2 DEF LifecycleInv, StateInv, IdInv, EndInv, Quiet
  <2> QED
    BY Zenon, <2>1, <2>2 DEF LifecycleInv, FlightInv
<1> QED
  BY <1>1, Lifecycle, DispatchIds, PTL

-----------------------------------------------------------------------------
(* Refinement *)

\* The id BeginDispatch is about to hand out.
BeginInv == mu = "begin" => muId = next + 1

\* Nobody else moves r.next while BeginDispatch holds mu.
LEMMA BeginInvStep == TypeOK /\ BeginInv /\ [Next]_vars => BeginInv'
<1> SUFFICES ASSUME SlotType, BeginInv, [Next]_vars
             PROVE  BeginInv'
  BY Zenon, TypeParts
<1> USE DEF BeginInv, lifecycle, slots, dispatchVars, calls
<1>1. CASE RequestStep
  <2>1. CASE BeginCheck \/ BeginCommit \/ BindCommit
    BY Zenon, <2>1 DEF BeginCheck, BeginCommit, BindCommit, Lock, Unlock
  <2>2. ASSUME NEW i \in Ids, Request(i)
        PROVE  UNCHANGED next /\ (UNCHANGED <<mu, muId>> \/ mu' # "begin")
    BY Zenon, <2>2 DEF Request, PendingEnd, InstallReject, InstallCheck, BindCheck, Lock,
       EndDeactivate, EndStartClose, EndWaitClosed, EndMark, EndCallSink, EndDelete,
       ResourceClosed
  <2>3. ASSUME NEW g \in Groups \cup {Unaccounted}, InstallCommit(g)
        PROVE  mu' # "begin"
    BY Zenon, <2>3 DEF InstallCommit, Unlock
  <2> QED
    BY Zenon, <1>1, <2>1, <2>2, <2>3 DEF RequestStep
<1>2. CASE CallerStep
  BY Zenon, <1>2, CallerSteps DEF CallerFrame
<1>3. CASE UNCHANGED <<lifecycle, slots, calls>>
  BY Zenon, <1>3
<1> QED
  BY Zenon, <1>1, <1>2, <1>3, StepKinds

\* A stuttering step of the atomic registry.
AtomicStutter == UNCHANGED <<state, BegunIds, WaitingIds, RunningIds, OpenIds>>

\* What leaves the mapped variables alone stutters in AtomicRegistry.
LEMMA StutterIsAtomic == AtomicStutter => UNCHANGED A!vars
  BY Zenon DEF AtomicStutter, A!vars

\* A close that only starts leaves the resource open.
LEMMA SlotsStutter ==
    ASSUME SlotType, UNCHANGED <<lifecycle, next, pending, scopes>>,
           \A i \in Ids : \/ resource'[i] = resource[i]
                          \/ resource[i] = "bound" /\ resource'[i] = "closing",
           mu = "bind" => muId \in Ids
    PROVE  AtomicStutter
<1> USE DEF lifecycle, Holding
<1>1. UNCHANGED <<state, BegunIds, WaitingIds, RunningIds>>
  BY Zenon DEF BegunIds, WaitingIds, RunningIds
<1>2. {i \in Ids : resource'[i] \in {"bound", "closing"}}
        = {i \in Ids : resource[i] \in {"bound", "closing"}}
  BY Zenon
<1>3. {i \in Holding("bind") : resource'[i] = "none"}
        = {i \in Holding("bind") : resource[i] = "none"}
  BY Zenon
<1> QED
  BY Zenon, <1>1, <1>2, <1>3 DEF AtomicStutter, OpenIds

\* The steps of a request, one step or none of the atomic registry.
LEMMA RequestsAtomic ==
    SlotType /\ IdInv /\ MuInv /\ BeginInv /\ EndInv /\ RequestStep => [A!Next]_(A!vars)
<1> SUFFICES ASSUME SlotType, IdInv, MuInv, BeginInv, EndInv, RequestStep
             PROVE  A!Next \/ AtomicStutter
  BY Zenon, StutterIsAtomic
<1> USE DEF lifecycle, slots, dispatchVars, Holding, A!Ids, Ids
<1>1. ASSUME BeginCheck
      PROVE  A!Begin
  <2>1. mu = "free" /\ mu' = "begin" /\ muId' = next + 1
    BY Zenon, <1>1 DEF BeginCheck, Lock
  <2>2. state = "accepting" /\ UNCHANGED <<state, slots>>
    BY Zenon, <1>1 DEF BeginCheck
  <2>3. BegunIds' = BegunIds + 1 /\ WaitingIds' = WaitingIds \cup {BegunIds'}
    BY Zenon, <2>1, <2>2 DEF BegunIds, WaitingIds
  <2>4. UNCHANGED <<RunningIds, OpenIds>>
    BY Zenon, <2>1, <2>2 DEF RunningIds, OpenIds
  <2> QED
    BY Zenon, <2>2, <2>3, <2>4 DEF A!Begin
<1>2. ASSUME BeginCommit
      PROVE  AtomicStutter
  <2>1. mu = "begin" /\ mu' = "free" /\ muId = next + 1 /\ next' = next + 1
    BY Zenon, <1>2 DEF BeginCommit, Unlock, NextId, BeginInv
  <2>2. pending' = pending \cup {next + 1} /\ UNCHANGED <<state, scopes, resource>>
    BY Zenon, <1>2, <2>1 DEF BeginCommit
  <2>3. UNCHANGED <<BegunIds, WaitingIds>>
    BY Zenon, <2>1, <2>2 DEF BegunIds, WaitingIds
  <2>4. UNCHANGED <<RunningIds, OpenIds>>
    BY Zenon, <2>1, <2>2 DEF RunningIds, OpenIds
  <2> QED
    BY Zenon, <2>2, <2>3, <2>4 DEF AtomicStutter
<1>3. ASSUME BindCommit
      PROVE  AtomicStutter
  <2>1. mu = "bind" /\ mu' = "free" /\ muId \in Ids
    BY Zenon, <1>3 DEF BindCommit, Unlock, MuInv
  <2>2. /\ resource' = [resource EXCEPT ![muId] = IF @ = "none" THEN "bound" ELSE @]
        /\ UNCHANGED <<state, next, pending, scopes>>
    BY Zenon, <1>3 DEF BindCommit
  <2>3. UNCHANGED <<BegunIds, WaitingIds, RunningIds>>
    BY Zenon, <2>1, <2>2 DEF BegunIds, WaitingIds, RunningIds
  <2>4. OpenIds' = {i \in Ids : resource'[i] \in {"bound", "closing"}}
    BY Zenon, <2>1 DEF OpenIds
  <2>5. OpenIds = {i \in Ids : resource[i] \in {"bound", "closing"}}
                    \cup {i \in {muId} : resource[i] = "none"}
    BY Zenon, <2>1 DEF OpenIds
  <2>6. UNCHANGED OpenIds
    BY Zenon, <2>1, <2>2, <2>4, <2>5 DEF SlotType
  <2> QED
    BY Zenon, <2>2, <2>3, <2>6 DEF AtomicStutter
<1>4. ASSUME NEW i \in Ids, PendingEnd(i) \/ InstallReject(i)
      PROVE  A!Resolve(i)
  <2>1. /\ mu = "free" /\ mu' = "free" /\ i \in pending /\ pending' = pending \ {i}
        /\ UNCHANGED <<state, next, scopes, resource>>
    BY Zenon, <1>4 DEF PendingEnd, InstallReject
  <2>2. i \in WaitingIds /\ WaitingIds' = WaitingIds \ {i}
    BY Zenon, <2>1 DEF WaitingIds
  <2>3. UNCHANGED <<state, BegunIds, RunningIds, OpenIds>>
    BY Zenon, <2>1 DEF BegunIds, RunningIds, OpenIds
  <2> QED
    BY Zenon, <2>2, <2>3 DEF A!Resolve
<1>5. ASSUME NEW i \in Ids, InstallCheck(i)
      PROVE  A!Install(i)
  <2>1. /\ mu = "free" /\ mu' = "install" /\ muId' = i /\ i \in pending
        /\ state = "accepting" /\ UNCHANGED <<state, slots>>
    BY Zenon, <1>5 DEF InstallCheck, InstallAllowed, Lock
  <2>2. /\ i \in WaitingIds /\ WaitingIds' = WaitingIds \ {i}
        /\ RunningIds' = RunningIds \cup {i}
    BY Zenon, <2>1 DEF WaitingIds, RunningIds
  <2>3. UNCHANGED <<state, BegunIds, OpenIds>>
    BY Zenon, <2>1 DEF BegunIds, OpenIds
  <2> QED
    BY Zenon, <2>1, <2>2, <2>3 DEF A!Install
<1>6. ASSUME NEW g \in Groups \cup {Unaccounted}, InstallCommit(g)
      PROVE  AtomicStutter
  <2>1. /\ mu = "install" /\ mu' = "free" /\ UNCHANGED <<state, next, resource>>
        /\ pending' = pending \ {muId} /\ scopes' = scopes \cup {muId}
    BY Zenon, <1>6 DEF InstallCommit, Unlock
  <2>2. UNCHANGED <<BegunIds, WaitingIds, RunningIds>>
    BY Zenon, <2>1 DEF BegunIds, WaitingIds, RunningIds
  <2>3. UNCHANGED OpenIds
    BY Zenon, <2>1 DEF OpenIds
  <2> QED
    BY Zenon, <2>1, <2>2, <2>3 DEF AtomicStutter
<1>7. ASSUME NEW i \in Ids, BindCheck(i)
      PROVE  A!Open(i) \/ AtomicStutter
  <2>1. /\ mu = "free" /\ mu' = "bind" /\ muId' = i /\ ending[i] = "active"
        /\ state = "accepting" /\ UNCHANGED <<state, slots>>
    BY Zenon, <1>7 DEF BindCheck, BindAllowed, Lock
  <2>2. UNCHANGED <<state, BegunIds, WaitingIds, RunningIds>>
    BY Zenon, <2>1 DEF BegunIds, WaitingIds, RunningIds
  <2>3. i \in RunningIds
    BY Zenon, <2>1 DEF RunningIds, IdInv
  <2>4. CASE resource[i] = "none"
    <3>1. OpenIds' = OpenIds \cup {i}
      BY Zenon, <2>1, <2>4 DEF OpenIds
    <3> QED
      BY Zenon, <2>1, <2>2, <2>3, <3>1 DEF A!Open
  <2>5. CASE resource[i] # "none"
    <3>1. UNCHANGED OpenIds
      BY Zenon, <2>1, <2>5 DEF OpenIds
    <3> QED
      BY Zenon, <2>2, <3>1 DEF AtomicStutter
  <2> QED
    BY Zenon, <2>4, <2>5
<1>8. ASSUME NEW i \in Ids, EndDelete(i)
      PROVE  A!Leave(i)
  <2>1. /\ mu = "free" /\ mu' = "free" /\ ending[i] = "delete" /\ scopes' = scopes \ {i}
        /\ UNCHANGED <<state, next, pending, resource>>
    BY Zenon, <1>8 DEF EndDelete
  <2>2. i \in scopes /\ resource[i] \in {"none", "closed"}
    BY Zenon, <2>1 DEF IdInv, EndInv, Quiet
  <2>3. i \in RunningIds /\ RunningIds' = RunningIds \ {i}
    BY Zenon, <2>1, <2>2 DEF RunningIds
  <2>4. i \notin OpenIds
    BY Zenon, <2>1, <2>2 DEF OpenIds
  <2>5. UNCHANGED <<state, BegunIds, WaitingIds, OpenIds>>
    BY Zenon, <2>1 DEF BegunIds, WaitingIds, OpenIds
  <2> QED
    BY Zenon, <2>3, <2>4, <2>5 DEF A!Leave
<1>9. ASSUME NEW i \in Ids, ResourceClosed(i)
      PROVE  A!Shut(i)
  <2>1. /\ resource[i] = "closing" /\ resource' = [resource EXCEPT ![i] = "closed"]
        /\ UNCHANGED <<state, mu, muId, next, pending, scopes>>
    BY Zenon, <1>9 DEF ResourceClosed
  <2>2. UNCHANGED <<state, BegunIds, WaitingIds, RunningIds>>
    BY Zenon, <2>1 DEF BegunIds, WaitingIds, RunningIds
  <2>3. /\ resource'[i] = "closed"
        /\ \A j : j # i /\ j \in Ids => resource'[j] = resource[j]
    BY Zenon, <2>1 DEF SlotType
  <2>4. mu = "bind" => muId \in Ids
    BY Zenon DEF MuInv
  <2>5. i \in OpenIds /\ OpenIds' = OpenIds \ {i}
    BY <2>1, <2>3, <2>4 DEF OpenIds
  <2> QED
    BY Zenon, <2>2, <2>5 DEF A!Shut
<1>10. ASSUME NEW i \in Ids,
              EndDeactivate(i) \/ EndWaitClosed(i) \/ EndMark(i) \/ EndCallSink(i)
       PROVE  AtomicStutter
  <2>1. UNCHANGED <<lifecycle, next, pending, scopes, resource>>
    BY Zenon, <1>10 DEF EndDeactivate, EndWaitClosed, EndMark, EndCallSink
  <2> QED
    BY Zenon, <2>1, SlotsStutter DEF MuInv
<1>11. ASSUME NEW i \in Ids, EndStartClose(i)
       PROVE  AtomicStutter
  <2>1. UNCHANGED <<lifecycle, next, pending, scopes>>
    BY Zenon, <1>11 DEF EndStartClose
  <2>2. \A j \in Ids : \/ resource'[j] = resource[j]
                       \/ resource[j] = "bound" /\ resource'[j] = "closing"
    BY Zenon, <1>11 DEF EndStartClose, StartClose, SlotType
  <2> QED
    BY Zenon, <2>1, <2>2, SlotsStutter DEF MuInv
<1> HIDE DEF lifecycle, slots, dispatchVars, Holding
<1> QED
  BY Zenon, <1>1, <1>2, <1>3, <1>4, <1>5, <1>6, <1>7, <1>8, <1>9, <1>10, <1>11
     DEF RequestStep, Request, A!Next

\* The steps of Drain, Close and WaitPending.
LEMMA CallersAtomic == SlotType /\ MuInv /\ CallerStep => [A!Next]_(A!vars)
<1> SUFFICES ASSUME SlotType, MuInv, CallerStep
             PROVE  A!Next \/ AtomicStutter
  BY Zenon, StutterIsAtomic
<1>1. CallerFrame
  BY Zenon, CallerSteps
<1>2. CASE UNCHANGED state
  BY Zenon, <1>1, <1>2, SlotsStutter DEF CallerFrame, MuInv, dispatchVars, lifecycle
<1>3. CASE state' # state
  <2>1. /\ UNCHANGED <<mu, muId, slots>>
        /\ \/ state = "accepting" /\ state' = "draining"
           \/ state' = "closed"
    BY Zenon, <1>3 DEF CallerStep, Drain, Close, WaitPending, DrainStart, TakeSnapshot,
       DrainStartClose, DrainCheck, Timeout, CloseEnter, CloseForce, CloseStartClose,
       CloseWaited, CloseFinish, CloseJoin, WaitPendingStart, WaitPendingCheck, lifecycle
  <2>2. UNCHANGED <<BegunIds, WaitingIds, RunningIds, OpenIds>>
    BY Zenon, <2>1 DEF BegunIds, WaitingIds, RunningIds, OpenIds, Holding, slots, dispatchVars
  <2> QED
    BY Zenon, <2>1, <2>2 DEF A!Next, A!Refuse, A!Seal
<1> QED
  BY Zenon, <1>2, <1>3

\* BeginDispatch, Install and Bind are atomic for their users, although Drain and
\* Close change the state between their check and their effect.
THEOREM RegistryIsAtomic == Spec => AtomicSpec
<1>1. Init => A!Init /\ BeginInv
  BY Zenon DEF Init, A!Init, BeginInv, BegunIds, WaitingIds, RunningIds, OpenIds, Holding
<1>2. TypeOK /\ IdInv /\ MuInv /\ LifecycleInv /\ BeginInv /\ [Next]_vars
          => [A!Next]_(A!vars)
  <2> SUFFICES ASSUME SlotType, IdInv, MuInv, LifecycleInv, BeginInv, [Next]_vars
               PROVE  [A!Next]_(A!vars)
    BY Zenon, TypeParts
  <2>1. CASE RequestStep
    BY Zenon, <2>1, RequestsAtomic DEF LifecycleInv
  <2>2. CASE CallerStep
    BY Zenon, <2>2, CallersAtomic
  <2>3. CASE UNCHANGED <<lifecycle, slots, calls>>
    BY Zenon, <2>3, SlotsStutter, StutterIsAtomic DEF slots, dispatchVars, MuInv
  <2> QED
    BY Zenon, <2>1, <2>2, <2>3, StepKinds
<1> QED
  BY <1>1, <1>2, BeginInvStep, TypeCorrect, DispatchIds, Lifecycle, PTL
     DEF Spec, AtomicSpec, A!Spec

-----------------------------------------------------------------------------
(* Observation barriers *)

\* The published barrier is the last freeze's, and what was begun before it
\* is no longer pending.
BarrierInv ==
    /\ freeze.barrier = publishedBarrier
    /\ publishedBarrier <= observedBarrier
    /\ begunBefore[0] = 0
    /\ begunBefore[observedBarrier] = pendingBarrierSequence
    /\ \A b \in 0..MaxBarrier : begunBefore[b] <= next

\* Requests leave the barriers alone, and only a new id becomes pending.
LEMMA RequestMoves ==
    ASSUME SlotType, MuInv, RequestStep
    PROVE  /\ UNCHANGED barrierVars
           /\ next' \in {next, next + 1}
           /\ \A i \in pending' : i \in pending \/ i = next + 1
           /\ \A i \in scopes' : i \in scopes \/ i \in pending
<1> DEFINE Goal == /\ UNCHANGED barrierVars
                   /\ next' \in {next, next + 1}
                   /\ \A i \in pending' : i \in pending \/ i = next + 1
                   /\ \A i \in scopes' : i \in scopes \/ i \in pending
<1>1. CASE RequestStep
  <2> USE DEF SlotType, MuInv, lifecycle, slots, dispatchVars, reports
  <2>1. CASE BeginCheck
    BY Zenon, <2>1 DEF BeginCheck, Lock
  <2>2. CASE BeginCommit
    BY Zenon, <2>2 DEF BeginCommit, Unlock, NextId
  <2>3. CASE BindCommit
    BY Zenon, <2>3 DEF BindCommit, Unlock
  <2>4. ASSUME NEW i \in Ids, PendingEnd(i)
        PROVE  Goal
    BY Zenon, <2>4 DEF PendingEnd, Signal
  <2>5. ASSUME NEW i \in Ids, InstallReject(i)
        PROVE  Goal
    BY Zenon, <2>5 DEF InstallReject, Signal, InstallAllowed
  <2>6. ASSUME NEW i \in Ids, InstallCheck(i)
        PROVE  Goal
    BY Zenon, <2>6 DEF InstallCheck, Lock, InstallAllowed
  <2>7. ASSUME NEW i \in Ids, BindCheck(i)
        PROVE  Goal
    BY Zenon, <2>7 DEF BindCheck, Lock, BindAllowed
  <2>8. ASSUME NEW i \in Ids, EndDeactivate(i)
        PROVE  Goal
    BY Zenon, <2>8 DEF EndDeactivate
  <2>9. ASSUME NEW i \in Ids, EndStartClose(i)
        PROVE  Goal
    BY Zenon, <2>9 DEF EndStartClose, StartClose, AfterStartClose
  <2>10. ASSUME NEW i \in Ids, EndWaitClosed(i)
        PROVE  Goal
    BY Zenon, <2>10 DEF EndWaitClosed
  <2>11. ASSUME NEW i \in Ids, EndMark(i)
        PROVE  Goal
    BY Zenon, <2>11 DEF EndMark, Counted, ReleaseSequence
  <2>12. ASSUME NEW i \in Ids, EndCallSink(i)
        PROVE  Goal
    BY Zenon, <2>12 DEF EndCallSink, Announce
  <2>13. ASSUME NEW i \in Ids, EndDelete(i)
        PROVE  Goal
    BY Zenon, <2>13 DEF EndDelete, Signal
  <2>14. ASSUME NEW i \in Ids, ResourceClosed(i)
        PROVE  Goal
    BY Zenon, <2>14 DEF ResourceClosed
  <2>15. ASSUME NEW g \in Groups \cup {Unaccounted}, InstallCommit(g)
        PROVE  Goal
    BY Zenon, <2>15 DEF InstallCommit, Signal, Unlock
  <2> QED
    BY Zenon, <1>1, <2>1, <2>2, <2>3, <2>4, <2>5, <2>6, <2>7, <2>8, <2>9, <2>10,
       <2>11, <2>12, <2>13, <2>14, <2>15
       DEF RequestStep, Request
<1> QED
  BY Zenon, <1>1

\* Drain, Close and WaitPending take no part in the reports.
LEMMA CallersObserve == CallerStep => UNCHANGED <<dispatchVars, barrierVars>>
<1> SUFFICES ASSUME CallerStep
             PROVE  UNCHANGED <<dispatchVars, barrierVars>>
  BY Zenon
<1>1. CASE CallerStep
  <2> USE DEF slots, reports
  <2>1. ASSUME NEW d \in Drainers, DrainStart(d)
        PROVE  UNCHANGED <<dispatchVars, barrierVars>>
    BY Zenon, <2>1 DEF DrainStart
  <2>2. ASSUME NEW c \in Drainers \cup Closers, TakeSnapshot(c)
        PROVE  UNCHANGED <<dispatchVars, barrierVars>>
    BY Zenon, <2>2 DEF TakeSnapshot
  <2>3. ASSUME NEW d \in Drainers, NEW i \in Ids, DrainStartClose(d, i)
        PROVE  UNCHANGED <<dispatchVars, barrierVars>>
    BY Zenon, <2>3 DEF DrainStartClose, StartClose
  <2>4. ASSUME NEW d \in Drainers, DrainCheck(d)
        PROVE  UNCHANGED <<dispatchVars, barrierVars>>
    BY Zenon, <2>4 DEF DrainCheck, Busy
  <2>5. ASSUME NEW c \in Drainers \cup Waiters, Timeout(c)
        PROVE  UNCHANGED <<dispatchVars, barrierVars>>
    BY Zenon, <2>5 DEF Timeout
  <2>6. ASSUME NEW c \in Closers, CloseEnter(c)
        PROVE  UNCHANGED <<dispatchVars, barrierVars>>
    BY Zenon, <2>6 DEF CloseEnter, CloseTarget
  <2>7. ASSUME NEW c \in Closers, CloseForce(c)
        PROVE  UNCHANGED <<dispatchVars, barrierVars>>
    BY Zenon, <2>7 DEF CloseForce
  <2>8. ASSUME NEW c \in Closers, NEW i \in Ids, CloseStartClose(c, i)
        PROVE  UNCHANGED <<dispatchVars, barrierVars>>
    BY Zenon, <2>8 DEF CloseStartClose, StartClose
  <2>9. ASSUME NEW c \in Closers, CloseWaited(c)
        PROVE  UNCHANGED <<dispatchVars, barrierVars>>
    BY Zenon, <2>9 DEF CloseWaited
  <2>10. ASSUME NEW c \in Closers, CloseFinish(c)
        PROVE  UNCHANGED <<dispatchVars, barrierVars>>
    BY Zenon, <2>10 DEF CloseFinish, CompleteClose
  <2>11. ASSUME NEW c \in Closers, CloseJoin(c)
        PROVE  UNCHANGED <<dispatchVars, barrierVars>>
    BY Zenon, <2>11 DEF CloseJoin
  <2>12. ASSUME NEW w \in Waiters, WaitPendingStart(w)
        PROVE  UNCHANGED <<dispatchVars, barrierVars>>
    BY Zenon, <2>12 DEF WaitPendingStart
  <2>13. ASSUME NEW w \in Waiters, WaitPendingCheck(w)
        PROVE  UNCHANGED <<dispatchVars, barrierVars>>
    BY Zenon, <2>13 DEF WaitPendingCheck
  <2> QED
    BY Zenon, <1>1, <2>1, <2>2, <2>3, <2>4, <2>5, <2>6, <2>7, <2>8, <2>9, <2>10,
       <2>11, <2>12, <2>13
       DEF CallerStep, Drain, Close, WaitPending
<1> QED
  BY Zenon, <1>1

BarrierType ==
    /\ observedBarrier \in 0..MaxBarrier /\ publishedBarrier \in 0..MaxBarrier
    /\ pendingBarrierSequence \in 0..MaxDispatch
    /\ begunBefore \in [0..MaxBarrier -> 0..MaxDispatch]
    /\ next \in 0..MaxDispatch

\* The part of TypeOK the barriers need.
LEMMA BarrierTyped == TypeOK => BarrierType
  BY Zenon DEF TypeOK, BarrierType

\* Every step keeps the barriers complete.
LEMMA BarrierStep ==
    TypeOK /\ MuInv /\ IdInv /\ BarrierInv /\ BarrierComplete /\ [Next]_vars
        => BarrierInv' /\ BarrierComplete'
<1> SUFFICES ASSUME TypeOK, SlotType, BarrierType, MuInv, IdInv, BarrierInv,
                    BarrierComplete, [Next]_vars
             PROVE  BarrierInv' /\ BarrierComplete'
  BY Zenon, TypeParts, BarrierTyped
<1>1. CASE RequestStep
  <2>1. /\ UNCHANGED barrierVars
        /\ next' \in {next, next + 1}
        /\ \A i \in pending' : i \in pending \/ i = next + 1
        /\ \A i \in scopes' : i \in scopes \/ i \in pending
    BY Zenon, <1>1, RequestMoves
  <2>2. BarrierInv'
    BY <2>1, BoundsAssumption DEF BarrierInv, BarrierType, barrierVars
  <2>3. BarrierComplete'
    <3>1. begunBefore[freeze.barrier] <= next
      BY Zenon DEF BarrierInv, BarrierType
    <3>2. \A i \in Ids : i <= begunBefore[freeze.barrier] => i # next + 1
      BY <3>1, BoundsAssumption DEF BarrierInv, BarrierType, Ids
    <3> QED
      BY Zenon, <2>1, <3>2 DEF BarrierComplete, barrierVars
  <2> QED
    BY Zenon, <2>2, <2>3
<1>2. CASE CallerStep \/ UNCHANGED vars
  BY Zenon, <1>2, CallersObserve
     DEF BarrierInv, BarrierComplete, dispatchVars, barrierVars, vars, slots, reports
<1>3. ASSUME NEW b \in 1..MaxBarrier, ObserveBarrier(b)
      PROVE  BarrierInv' /\ BarrierComplete'
  <2>1. BarrierInv'
    BY <1>3, BoundsAssumption DEF ObserveBarrier, BarrierInv, BarrierType, slots, dispatchVars
  <2>2. freeze' = freeze /\ begunBefore'[freeze.barrier] = begunBefore[freeze.barrier]
    BY <1>3, BoundsAssumption DEF ObserveBarrier, BarrierInv, BarrierType
  <2> QED
    BY Zenon, <1>3, <2>1, <2>2 DEF ObserveBarrier, BarrierComplete, slots, dispatchVars
<1>4. CASE FreezeInFlight
  <2>1. CASE publishedBarrier' = publishedBarrier
    BY Zenon, <1>4, <2>1 DEF FreezeInFlight, BarrierInv, BarrierComplete, slots, dispatchVars
  <2>2. CASE publishedBarrier' # publishedBarrier
    <3>1. /\ publishedBarrier' = observedBarrier
          /\ \A i \in pending : ~ (i <= pendingBarrierSequence)
      BY Zenon, <1>4, <2>2 DEF FreezeInFlight, Blocks
    <3> QED
      BY <1>4, <3>1 DEF FreezeInFlight, BarrierInv, BarrierType, BarrierComplete, slots, dispatchVars
  <2> QED
    BY Zenon, <2>1, <2>2
<1>5. CASE ReportStep
  <2>1. ASSUME NEW s \in Sinks \cup {NoSink}, SetReleaseSink(s)
        PROVE  BarrierInv' /\ BarrierComplete'
    BY Zenon, <2>1 DEF SetReleaseSink, BarrierInv, BarrierComplete, slots, dispatchVars, barrierVars
  <2>2. ASSUME NEW r \in replay, ReplaySink(r)
        PROVE  BarrierInv' /\ BarrierComplete'
    BY Zenon, <2>2 DEF ReplaySink, BarrierInv, BarrierComplete, slots, dispatchVars, barrierVars
  <2> QED
    BY Zenon, <1>3, <1>4, <1>5, <2>1, <2>2 DEF ReportStep
<1> QED
  BY Zenon, <1>1, <1>2, <1>5 DEF Next, RequestStep, CallerStep, ReportStep

\* A published barrier leaves out no dispatch begun before it was observed.
THEOREM BarriersComplete == Spec => []BarrierComplete
<1>1. Init => BarrierInv /\ BarrierComplete
  BY BoundsAssumption DEF Init, BarrierInv, BarrierComplete, Ids
<1> QED
  BY <1>1, BarrierStep, DispatchIds, TypeCorrect, PTL DEF Spec

-----------------------------------------------------------------------------
(* Releases *)

\* A step that neither counts nor announces a release.
ReleaseFrame ==
    /\ UNCHANGED releaseVars
    /\ \A i \in Ids :
         /\ (ending'[i] = "sink") <=> (ending[i] = "sink")
         /\ (ending'[i] \in Released) <=> (ending[i] \in Released)
         /\ (ending[i] \in Released) => group'[i] = group[i]

ReleaseStep ==
    \/ \E i \in Ids : EndMark(i) \/ EndCallSink(i)
    \/ \E s \in Sinks \cup {NoSink} : SetReleaseSink(s)
    \/ \E r \in replay : ReplaySink(r)

GroupType == group \in [Ids -> Groups \cup {Unaccounted}]

\* A step that is no release step leaves the release state alone.
LEMMA OtherSteps ==
    ASSUME TypeOK, IdInv, MuInv, CarriedInv, [Next]_vars
    PROVE  ReleaseStep \/ ReleaseFrame
<1>0. SlotType /\ GroupType
  BY Zenon, TypeParts DEF TypeOK, GroupType
<1> USE <1>0 DEF ReleaseFrame, Released
<1>1. CASE RequestStep
  <2> USE DEF SlotType, GroupType, lifecycle, slots, dispatchVars, reports
  <2>1. CASE BeginCheck
    BY Zenon, <2>1 DEF BeginCheck, Lock
  <2>2. CASE BeginCommit
    BY Zenon, <2>2 DEF BeginCommit, Unlock, NextId
  <2>3. CASE BindCommit
    BY Zenon, <2>3 DEF BindCommit, Unlock
  <2>4. ASSUME NEW i \in Ids, PendingEnd(i)
        PROVE  ReleaseStep \/ ReleaseFrame
    BY Zenon, <2>4 DEF PendingEnd, Signal
  <2>5. ASSUME NEW i \in Ids, InstallReject(i)
        PROVE  ReleaseStep \/ ReleaseFrame
    BY Zenon, <2>5 DEF InstallReject, Signal, InstallAllowed
  <2>6. ASSUME NEW i \in Ids, InstallCheck(i)
        PROVE  ReleaseStep \/ ReleaseFrame
    BY Zenon, <2>6 DEF InstallCheck, Lock, InstallAllowed
  <2>7. ASSUME NEW i \in Ids, BindCheck(i)
        PROVE  ReleaseStep \/ ReleaseFrame
    BY Zenon, <2>7 DEF BindCheck, Lock, BindAllowed
  <2>8. ASSUME NEW i \in Ids, EndDeactivate(i)
        PROVE  ReleaseStep \/ ReleaseFrame
    BY Zenon, <2>8 DEF EndDeactivate
  <2>9. ASSUME NEW i \in Ids, EndStartClose(i)
        PROVE  ReleaseStep \/ ReleaseFrame
    BY Zenon, <2>9 DEF EndStartClose, StartClose, AfterStartClose
  <2>10. ASSUME NEW i \in Ids, EndWaitClosed(i)
        PROVE  ReleaseStep \/ ReleaseFrame
    BY Zenon, <2>10 DEF EndWaitClosed
  <2>11. ASSUME NEW i \in Ids, EndMark(i)
        PROVE  ReleaseStep \/ ReleaseFrame
    BY Zenon, <2>11 DEF ReleaseStep
  <2>12. ASSUME NEW i \in Ids, EndCallSink(i)
        PROVE  ReleaseStep \/ ReleaseFrame
    BY Zenon, <2>12 DEF ReleaseStep
  <2>13. ASSUME NEW i \in Ids, EndDelete(i)
        PROVE  ReleaseStep \/ ReleaseFrame
    BY Zenon, <2>13 DEF EndDelete, Signal
  <2>14. ASSUME NEW i \in Ids, ResourceClosed(i)
        PROVE  ReleaseStep \/ ReleaseFrame
    BY Zenon, <2>14 DEF ResourceClosed
  <2>15. ASSUME NEW g \in Groups \cup {Unaccounted}, InstallCommit(g)
        PROVE  ReleaseStep \/ ReleaseFrame
    <3>1. muId \in Ids /\ ending[muId] = "absent"
      BY Zenon, <2>15 DEF InstallCommit, MuInv, IdInv
    <3> QED
      BY Zenon, <2>15, <3>1 DEF InstallCommit
  <2> QED
    BY Zenon, <1>1, <2>1, <2>2, <2>3, <2>4, <2>5, <2>6, <2>7, <2>8, <2>9, <2>10,
       <2>11, <2>12, <2>13, <2>14, <2>15
       DEF RequestStep, Request
<1>2. CASE CallerStep
  <2> USE DEF slots, dispatchVars, reports
  <2>1. ASSUME NEW d \in Drainers, DrainStart(d)
        PROVE  ReleaseStep \/ ReleaseFrame
    BY Zenon, <2>1 DEF DrainStart
  <2>2. ASSUME NEW c \in Drainers \cup Closers, TakeSnapshot(c)
        PROVE  ReleaseStep \/ ReleaseFrame
    BY Zenon, <2>2 DEF TakeSnapshot
  <2>3. ASSUME NEW d \in Drainers, NEW i \in Ids, DrainStartClose(d, i)
        PROVE  ReleaseStep \/ ReleaseFrame
    BY Zenon, <2>3 DEF DrainStartClose, StartClose
  <2>4. ASSUME NEW d \in Drainers, DrainCheck(d)
        PROVE  ReleaseStep \/ ReleaseFrame
    BY Zenon, <2>4 DEF DrainCheck, Busy
  <2>5. ASSUME NEW c \in Drainers \cup Waiters, Timeout(c)
        PROVE  ReleaseStep \/ ReleaseFrame
    BY Zenon, <2>5 DEF Timeout
  <2>6. ASSUME NEW c \in Closers, CloseEnter(c)
        PROVE  ReleaseStep \/ ReleaseFrame
    BY Zenon, <2>6 DEF CloseEnter, CloseTarget
  <2>7. ASSUME NEW c \in Closers, CloseForce(c)
        PROVE  ReleaseStep \/ ReleaseFrame
    BY Zenon, <2>7 DEF CloseForce
  <2>8. ASSUME NEW c \in Closers, NEW i \in Ids, CloseStartClose(c, i)
        PROVE  ReleaseStep \/ ReleaseFrame
    BY Zenon, <2>8 DEF CloseStartClose, StartClose
  <2>9. ASSUME NEW c \in Closers, CloseWaited(c)
        PROVE  ReleaseStep \/ ReleaseFrame
    BY Zenon, <2>9 DEF CloseWaited
  <2>10. ASSUME NEW c \in Closers, CloseFinish(c)
        PROVE  ReleaseStep \/ ReleaseFrame
    BY Zenon, <2>10 DEF CloseFinish, CompleteClose
  <2>11. ASSUME NEW c \in Closers, CloseJoin(c)
        PROVE  ReleaseStep \/ ReleaseFrame
    BY Zenon, <2>11 DEF CloseJoin
  <2>12. ASSUME NEW w \in Waiters, WaitPendingStart(w)
        PROVE  ReleaseStep \/ ReleaseFrame
    BY Zenon, <2>12 DEF WaitPendingStart
  <2>13. ASSUME NEW w \in Waiters, WaitPendingCheck(w)
        PROVE  ReleaseStep \/ ReleaseFrame
    BY Zenon, <2>13 DEF WaitPendingCheck
  <2> QED
    BY Zenon, <1>2, <2>1, <2>2, <2>3, <2>4, <2>5, <2>6, <2>7, <2>8, <2>9, <2>10,
       <2>11, <2>12, <2>13
       DEF CallerStep, Drain, Close, WaitPending
<1>3. CASE ReportStep
  BY Zenon, <1>3 DEF ReportStep, ReleaseStep, FreezeInFlight, ObserveBarrier, slots, dispatchVars
<1>4. CASE UNCHANGED vars
  BY Zenon, <1>4 DEF vars, slots, dispatchVars, reports
<1> QED
  BY Zenon, <1>1, <1>2, <1>3, <1>4 DEF Next, RequestStep, CallerStep, ReportStep

ReleaseType ==
    /\ group \in [Ids -> Groups \cup {Unaccounted}]
    /\ ending \in [Ids -> EndState]
    /\ releaseSink \in Sinks \cup {NoSink}
    /\ releaseSequences \in [Groups -> Nat]
    /\ announcing \in [Ids -> [sink : Sinks \cup {NoSink}, seq : Nat]]
    /\ replay \in SUBSET [group : Groups, seq : Nat]
    /\ announced \in [Sinks -> [Groups -> Nat]]

\* The part of TypeOK the releases need.
LEMMA ReleaseTyped == TypeOK => ReleaseType
  BY Zenon DEF TypeOK, ReleaseType

\* EndMark counts one release of the scope's group and captures the sink.
LEMMA MarkEffect ==
    ASSUME ReleaseType, NEW i \in Ids, EndMark(i)
    PROVE  /\ UNCHANGED <<group, releaseSink, replay, announced>>
           /\ ending[i] = "mark" /\ ending'[i] \in {"sink", "delete"}
           /\ \A j \in Ids \ {i} : ending'[j] = ending[j] /\ announcing'[j] = announcing[j]
           /\ IF Counted(i)
                THEN /\ group[i] \in Groups
                     /\ releaseSequences'[group[i]] = releaseSequences[group[i]] + 1
                     /\ \A g \in Groups \ {group[i]} : releaseSequences'[g] = releaseSequences[g]
                     /\ announcing'[i] = [sink |-> releaseSink,
                                          seq |-> releaseSequences[group[i]] + 1]
                     /\ ending'[i] = IF releaseSink = NoSink THEN "delete" ELSE "sink"
                ELSE ending'[i] = "delete" /\ UNCHANGED releaseSequences
<1> USE DEF EndMark, ReleaseType
<1>1. UNCHANGED <<group, releaseSink, replay, announced>> /\ ending[i] = "mark"
  BY Zenon DEF dispatchVars
<1>2. CASE Counted(i)
  <2>1. group[i] \in Groups
    BY Zenon, <1>2 DEF Counted
  <2>2. \E e \in {"sink", "delete"} : /\ ending' = [ending EXCEPT ![i] = e]
                                     /\ e = IF releaseSink = NoSink THEN "delete" ELSE "sink"
    BY Zenon, <1>2
  <2>3. releaseSequences' = [releaseSequences EXCEPT ![group[i]] = @ + 1]
    BY Zenon, <1>2
  <2>4. announcing' = [announcing EXCEPT ![i] =
            [sink |-> releaseSink, seq |-> releaseSequences[group[i]] + 1]]
    BY Zenon, <1>2 DEF ReleaseSequence
  <2> QED
    BY Zenon, <1>1, <1>2, <2>1, <2>2, <2>3, <2>4
<1>3. CASE ~ Counted(i)
  BY Zenon, <1>1, <1>3
<1> QED
  BY Zenon, <1>2, <1>3

\* No sequence anyone carries to a sink is ahead of the count.
SequenceInv ==
    /\ \A r \in replay : r.seq <= releaseSequences[r.group]
    /\ \A i \in Ids : ending[i] = "sink" =>
           announcing[i].seq <= releaseSequences[group[i]]

Announced == SequenceInv /\ NeverOverAnnounced /\ NoReleaseLost

\* Every step keeps the announced counts covered.
LEMMA AnnouncedStep ==
    ASSUME TypeOK, CarriedInv, IdInv, MuInv, Announced, [Next]_vars
    PROVE  Announced'
<1>0. ReleaseType
  BY Zenon, ReleaseTyped
<1> USE <1>0
<1>1. CASE ReleaseFrame
  <2>1. UNCHANGED releaseVars
    BY Zenon, <1>1 DEF ReleaseFrame
  <2>2. \A i \in Ids : /\ (ending'[i] = "sink") <=> (ending[i] = "sink")
                       /\ (ending[i] = "sink") => group'[i] = group[i]
    BY Zenon, <1>1 DEF ReleaseFrame, Released
  <2> QED
    BY SMTT(60), <2>1, <2>2 DEF Announced, SequenceInv, NeverOverAnnounced, NoReleaseLost, releaseVars
<1>2. ASSUME NEW i \in Ids, EndMark(i)
      PROVE  Announced'
  <2>1. CASE Counted(i)
    <3> DEFINE gi == group[i]
    <3>1. /\ UNCHANGED <<group, releaseSink, replay, announced>>
          /\ gi \in Groups
          /\ ending[i] = "mark" /\ ending'[i] \in {"sink", "delete"}
          /\ releaseSequences'[gi] = releaseSequences[gi] + 1
          /\ \A g \in Groups \ {gi} : releaseSequences'[g] = releaseSequences[g]
          /\ announcing'[i] = [sink |-> releaseSink, seq |-> releaseSequences[gi] + 1]
          /\ \A j \in Ids \ {i} : ending'[j] = ending[j] /\ announcing'[j] = announcing[j]
          /\ ending'[i] = IF releaseSink = NoSink THEN "delete" ELSE "sink"
      BY Zenon, <1>2, <2>1, MarkEffect
    <3>2. \A g \in Groups : /\ releaseSequences[g] \in Nat /\ releaseSequences'[g] \in Nat
                            /\ releaseSequences[g] <= releaseSequences'[g]
      BY SMTT(60), <3>1 DEF ReleaseType
    <3>3. SequenceInv'
      <4>1. ASSUME NEW r \in replay
            PROVE  r.seq <= releaseSequences'[r.group]
        <5>1. r.group \in Groups /\ r.seq \in Nat
          BY Zenon DEF ReleaseType
        <5> QED
          BY SMTT(60), <3>2, <5>1 DEF Announced, SequenceInv
      <4>2. ASSUME NEW j \in Ids, ending'[j] = "sink"
            PROVE  announcing'[j].seq <= releaseSequences'[group'[j]]
        <5>1. CASE j = i
          <6>0. announcing'[i] = [sink |-> releaseSink, seq |-> releaseSequences[gi] + 1]
            BY Zenon, <3>1
          <6>1. announcing'[i].seq = releaseSequences[gi] + 1
            BY <6>0
          <6>2. announcing'[j].seq = releaseSequences'[gi] /\ group'[j] = gi
            BY Zenon, <3>1, <5>1, <6>1
          <6>3. releaseSequences'[gi] \in Nat
            BY Zenon, <3>1, <3>2
          <6> HIDE DEF gi
          <6>4. releaseSequences'[gi] <= releaseSequences'[gi]
            BY <6>3
          <6> QED
            BY Zenon, <6>2, <6>4
        <5>2. CASE j # i
          <6>1. ending[j] = "sink" /\ announcing'[j] = announcing[j] /\ group'[j] = group[j]
            BY Zenon, <3>1, <4>2, <5>2
          <6>2. group[j] \in Groups /\ announcing[j].seq \in Nat
            BY Zenon, <6>1 DEF CarriedInv, ReleaseType
          <6>3. announcing[j].seq <= releaseSequences[group[j]]
            BY Zenon, <6>1 DEF Announced, SequenceInv
          <6> QED
            BY SMTT(60), <3>2, <6>1, <6>2, <6>3
        <5> QED
          BY Zenon, <5>1, <5>2
      <4> QED
        BY Zenon, <3>1, <4>1, <4>2 DEF SequenceInv
    <3>4. NeverOverAnnounced'
      <4> SUFFICES ASSUME NEW s \in Sinks, NEW g \in Groups
                   PROVE  announced[s][g] <= releaseSequences'[g]
        BY Zenon, <3>1 DEF NeverOverAnnounced
      <4>1. announced[s][g] \in Nat /\ announced[s][g] <= releaseSequences[g]
        BY Zenon DEF Announced, NeverOverAnnounced, ReleaseType
      <4> QED
        BY SMTT(60), <3>2, <4>1
    <3>5. NoReleaseLost'
      <4> SUFFICES ASSUME releaseSink # NoSink, NEW g \in Groups
                   PROVE  \/ announced[releaseSink][g] = releaseSequences'[g]
                          \/ [group |-> g, seq |-> releaseSequences'[g]] \in replay
                          \/ \E j \in Ids : /\ ending'[j] = "sink" /\ group[j] = g
                                            /\ announcing'[j] = [sink |-> releaseSink,
                                                    seq |-> releaseSequences'[g]]
        BY ZenonT(60), <3>1 DEF NoReleaseLost
      <4>1. CASE g = gi
        BY Zenon, <3>1, <4>1
      <4>2. CASE g # gi
        <5>1. releaseSequences'[g] = releaseSequences[g]
          BY Zenon, <3>1, <4>2
        <5>2. \A j \in Ids : group[j] = g => j # i
          BY Zenon, <4>2
        <5> QED
          BY SMTT(60), <3>1, <5>1, <5>2 DEF Announced, NoReleaseLost
      <4> QED
        BY Zenon, <4>1, <4>2
    <3> QED
      BY Zenon, <3>3, <3>4, <3>5 DEF Announced
  <2>2. CASE ~ Counted(i)
    <3>1. /\ UNCHANGED <<group, releaseSink, replay, announced, releaseSequences>>
          /\ ending[i] = "mark" /\ ending'[i] = "delete"
          /\ \A j \in Ids \ {i} : ending'[j] = ending[j] /\ announcing'[j] = announcing[j]
      BY Zenon, <1>2, <2>2, MarkEffect
    <3> QED
      BY SMTT(60), <3>1 DEF Announced, SequenceInv, NeverOverAnnounced, NoReleaseLost
  <2> QED
    BY Zenon, <2>1, <2>2
<1>3. ASSUME NEW i \in Ids, EndCallSink(i)
      PROVE  Announced'
  <2> DEFINE si == announcing[i].sink
             gi == group[i]
             ni == announcing[i].seq
  <2>1. /\ UNCHANGED <<group, releaseSink, releaseSequences, announcing, replay>>
        /\ ending[i] = "sink" /\ ending'[i] = "delete"
        /\ \A j \in Ids \ {i} : ending'[j] = ending[j]
    BY Zenon, <1>3 DEF EndCallSink, ReleaseType, dispatchVars
  <2>2. si \in Sinks /\ gi \in Groups /\ ni \in Nat
    BY Zenon, <2>1 DEF CarriedInv, ReleaseType
  <2>3. Announce(si, gi, ni)
    BY Zenon, <1>3 DEF EndCallSink
  <2>4. \A t \in Sinks, h \in Groups :
            announced'[t][h] = IF t = si /\ h = gi /\ ni > announced[si][gi]
                                 THEN ni ELSE announced[t][h]
    BY Zenon, <2>2, <2>3, AnnounceEffect DEF ReleaseType
  <2>5. ni <= releaseSequences[gi] /\ releaseSequences[gi] \in Nat
    BY Zenon, <2>1, <2>2 DEF Announced, SequenceInv, ReleaseType
  <2>6. SequenceInv'
    BY Zenon, <2>1 DEF Announced, SequenceInv
  <2>7. NeverOverAnnounced'
    BY SMTT(60), <2>1, <2>4, <2>5 DEF Announced, NeverOverAnnounced
  <2>8. NoReleaseLost'
    <3> SUFFICES ASSUME releaseSink # NoSink, NEW g \in Groups
                 PROVE  \/ announced'[releaseSink][g] = releaseSequences[g]
                        \/ [group |-> g, seq |-> releaseSequences[g]] \in replay
                        \/ \E j \in Ids : /\ ending'[j] = "sink" /\ group[j] = g
                                          /\ announcing[j] = [sink |-> releaseSink,
                                                  seq |-> releaseSequences[g]]
      BY SMTT(60), <2>1 DEF NoReleaseLost
    <3>1. releaseSink \in Sinks
      BY Zenon DEF ReleaseType
    <3>2. announced[releaseSink][g] \in Nat /\ releaseSequences[g] \in Nat
      BY Zenon, <3>1 DEF ReleaseType
    <3>3. announced[releaseSink][g] <= releaseSequences[g]
      BY Zenon, <3>1 DEF Announced, NeverOverAnnounced
    <3>4. CASE announced[releaseSink][g] = releaseSequences[g]
      BY SMTT(60), <2>2, <2>4, <2>5, <3>1, <3>2, <3>4
    <3>5. CASE announcing[i] = [sink |-> releaseSink, seq |-> releaseSequences[g]] /\ gi = g
      BY SMTT(60), <2>2, <2>4, <3>1, <3>2, <3>3, <3>5
    <3>6. CASE /\ announced[releaseSink][g] # releaseSequences[g]
               /\ ~ (announcing[i] = [sink |-> releaseSink, seq |-> releaseSequences[g]]
                     /\ gi = g)
      BY SMTT(60), <2>1, <3>6 DEF Announced, NoReleaseLost
    <3> QED
      BY Zenon, <3>4, <3>5, <3>6
  <2> QED
    BY Zenon, <2>6, <2>7, <2>8 DEF Announced
<1>4. ASSUME NEW s \in Sinks \cup {NoSink}, SetReleaseSink(s)
      PROVE  Announced'
  <2>1. /\ UNCHANGED <<group, ending, releaseSequences, announcing, announced>>
        /\ releaseSink' = s
        /\ replay' = IF s = NoSink THEN {}
                     ELSE {[group |-> g, seq |-> releaseSequences[g]] :
                              g \in {h \in Groups : releaseSequences[h] > 0}}
    BY Zenon, <1>4 DEF SetReleaseSink, slots, dispatchVars
  <2>2. SequenceInv'
    <3>1. \A r \in replay' : r.seq <= releaseSequences[r.group]
      BY SMTT(60), <2>1 DEF ReleaseType
    <3> QED
      BY Zenon, <2>1, <3>1 DEF Announced, SequenceInv
  <2>3. NeverOverAnnounced'
    BY Zenon, <2>1 DEF Announced, NeverOverAnnounced
  <2>4. NoReleaseLost'
    <3> SUFFICES ASSUME s # NoSink, NEW g \in Groups
                 PROVE  \/ announced[s][g] = releaseSequences[g]
                        \/ [group |-> g, seq |-> releaseSequences[g]] \in replay'
      BY Zenon, <2>1 DEF NoReleaseLost
    <3>1. CASE releaseSequences[g] > 0
      BY Zenon, <2>1, <3>1
    <3>2. CASE ~ (releaseSequences[g] > 0)
      <4>1. announced[s][g] <= releaseSequences[g]
        BY Zenon DEF Announced, NeverOverAnnounced
      <4> QED
        BY SMTT(60), <3>2, <4>1 DEF ReleaseType
    <3> QED
      BY Zenon, <3>1, <3>2
  <2> QED
    BY Zenon, <2>2, <2>3, <2>4 DEF Announced
<1>5. ASSUME NEW r \in replay, ReplaySink(r)
      PROVE  Announced'
  <2>1. /\ UNCHANGED <<group, ending, releaseSink, releaseSequences, announcing>>
        /\ replay' = replay \ {r}
        /\ Announce(releaseSink, r.group, r.seq)
    BY Zenon, <1>5 DEF ReplaySink, slots, dispatchVars
  <2>2. releaseSink \in Sinks /\ r.group \in Groups /\ r.seq \in Nat
    BY Zenon DEF CarriedInv, ReleaseType
  <2>3. \A t \in Sinks, h \in Groups :
            announced'[t][h] = IF t = releaseSink /\ h = r.group
                                  /\ r.seq > announced[releaseSink][r.group]
                                 THEN r.seq ELSE announced[t][h]
    BY Zenon, <2>1, <2>2, AnnounceEffect DEF ReleaseType
  <2>4. r.seq <= releaseSequences[r.group]
    BY Zenon DEF Announced, SequenceInv
  <2>5. SequenceInv'
    BY Zenon, <2>1 DEF Announced, SequenceInv
  <2>6. NeverOverAnnounced'
    BY Zenon, <2>1, <2>3, <2>4 DEF Announced, NeverOverAnnounced
  <2>7. NoReleaseLost'
    <3> SUFFICES ASSUME releaseSink # NoSink, NEW g \in Groups
                 PROVE  \/ announced'[releaseSink][g] = releaseSequences[g]
                        \/ [group |-> g, seq |-> releaseSequences[g]] \in replay'
                        \/ \E j \in Ids : /\ ending[j] = "sink" /\ group[j] = g
                                          /\ announcing[j] = [sink |-> releaseSink,
                                                  seq |-> releaseSequences[g]]
      BY SMTT(60), <2>1 DEF NoReleaseLost
    <3>1. announced[releaseSink][g] \in Nat /\ releaseSequences[g] \in Nat
      BY Zenon, <2>2 DEF ReleaseType
    <3>2. announced[releaseSink][g] <= releaseSequences[g]
      BY Zenon, <2>2 DEF Announced, NeverOverAnnounced
    <3>3. CASE announced[releaseSink][g] = releaseSequences[g]
      BY SMTT(60), <2>2, <2>3, <2>4, <3>1, <3>3
    <3>4. CASE r = [group |-> g, seq |-> releaseSequences[g]]
      BY SMTT(60), <2>2, <2>3, <3>1, <3>2, <3>4
    <3>5. CASE /\ announced[releaseSink][g] # releaseSequences[g]
               /\ r # [group |-> g, seq |-> releaseSequences[g]]
      BY Zenon, <2>1, <3>5 DEF Announced, NoReleaseLost
    <3> QED
      BY Zenon, <3>3, <3>4, <3>5
  <2> QED
    BY Zenon, <2>5, <2>6, <2>7 DEF Announced
<1> QED
  BY Zenon, <1>1, <1>2, <1>3, <1>4, <1>5, OtherSteps DEF ReleaseStep

\* What is carried to the sinks, what they know and what was released.
LEMMA Announcements == Spec => []Announced
<1>1. Init => Announced
  BY SMTT(60) DEF Init, Announced, SequenceInv, NeverOverAnnounced, NoReleaseLost
<1>2. TypeOK /\ CarriedInv /\ IdInv /\ MuInv /\ Announced /\ [Next]_vars => Announced'
  BY Zenon, AnnouncedStep
<1> QED
  BY <1>1, <1>2, DispatchIds, TypeCorrect, PTL DEF Spec

\* No release is lost over any history of sinks.
THEOREM ReleasesArrive == Spec => []NoReleaseLost
<1>1. Announced => NoReleaseLost
  BY Zenon DEF Announced
<1> QED
  BY <1>1, Announcements, PTL

\* No release is invented: a sink knows of no more than were counted.
THEOREM NoneInvented == Spec => []NeverOverAnnounced
<1>1. Announced => NeverOverAnnounced
  BY Zenon DEF Announced
<1> QED
  BY <1>1, Announcements, PTL

ReleasedOf(g) == {i \in Ids : group[i] = g /\ ending[i] \in Released}

\* Each cumulative sequence is exactly the number of releases of its group.
THEOREM ReleasesCounted == Spec => []ReleaseCount
<1>1. Init => ReleaseCount
  <2> SUFFICES ASSUME Init, NEW g \in Groups
               PROVE  releaseSequences[g] = Cardinality(ReleasedOf(g))
    BY Zenon DEF ReleaseCount, ReleasedOf
  <2>1. ReleasedOf(g) = {}
    BY Zenon DEF Init, ReleasedOf, Released
  <2> QED
    BY Zenon, <2>1, FS_EmptySet DEF Init
<1>2. TypeOK /\ CarriedInv /\ IdInv /\ MuInv /\ ReleaseCount /\ [Next]_vars => ReleaseCount'
  <2> SUFFICES ASSUME TypeOK, CarriedInv, IdInv, MuInv, ReleaseCount, [Next]_vars,
                      NEW g \in Groups
               PROVE  releaseSequences'[g] = Cardinality(ReleasedOf(g)')
    BY Zenon DEF ReleaseCount, ReleasedOf
  <2>0. ReleaseType /\ releaseSequences[g] = Cardinality(ReleasedOf(g))
    BY Zenon, ReleaseTyped DEF ReleaseCount, ReleasedOf
  <2>1. CASE ReleaseFrame
    <3>1. releaseSequences' = releaseSequences
      BY Zenon, <2>1 DEF ReleaseFrame, releaseVars
    <3>2. ReleasedOf(g)' = ReleasedOf(g)
      BY Zenon, <2>1 DEF ReleaseFrame, ReleasedOf
    <3> QED
      BY Zenon, <2>0, <3>1, <3>2
  <2>2. ASSUME NEW i \in Ids, EndMark(i)
        PROVE  releaseSequences'[g] = Cardinality(ReleasedOf(g)')
    <3>1. CASE Counted(i) /\ group[i] = g
      <4>1. releaseSequences'[g] = releaseSequences[g] + 1
        BY Zenon, <2>0, <2>2, <3>1, MarkEffect
      <4>2. ReleasedOf(g)' = ReleasedOf(g) \cup {i}
        BY ZenonT(60), <2>0, <2>2, <3>1, MarkEffect DEF ReleasedOf, Released
      <4>3. i \notin ReleasedOf(g)
        BY Zenon, <2>0, <2>2, MarkEffect DEF ReleasedOf, Released
      <4>4. IsFiniteSet(ReleasedOf(g))
        <5>1. IsFiniteSet(Ids)
          BY SMTT(60), FS_Interval, BoundsAssumption DEF Ids
        <5> QED
          BY Zenon, <5>1, FS_Subset DEF ReleasedOf
      <4> QED
        BY Zenon, <2>0, <4>1, <4>2, <4>3, <4>4, FS_AddElement
    <3>2. CASE ~ (Counted(i) /\ group[i] = g)
      <4>1. releaseSequences'[g] = releaseSequences[g]
        BY Zenon, <2>0, <2>2, <3>2, MarkEffect
      <4>2. group[i] # g
        BY Zenon, <3>2, NamesAssumption DEF Counted
      <4>3. ReleasedOf(g)' = ReleasedOf(g)
        BY Zenon, <2>0, <2>2, <4>2, MarkEffect DEF ReleasedOf
      <4> QED
        BY Zenon, <2>0, <4>1, <4>3
    <3> QED
      BY Zenon, <3>1, <3>2
  <2>3. ASSUME NEW i \in Ids, EndCallSink(i)
        PROVE  releaseSequences'[g] = Cardinality(ReleasedOf(g)')
    <3>1. ReleasedOf(g)' = ReleasedOf(g)
      BY Zenon, <2>0, <2>3 DEF EndCallSink, ReleasedOf, Released, ReleaseType, dispatchVars
    <3> QED
      BY Zenon, <2>0, <2>3, <3>1 DEF EndCallSink
  <2>4. ASSUME NEW s \in Sinks \cup {NoSink}, SetReleaseSink(s)
        PROVE  releaseSequences'[g] = Cardinality(ReleasedOf(g)')
    BY Zenon, <2>0, <2>4 DEF SetReleaseSink, ReleasedOf, slots, dispatchVars
  <2>5. ASSUME NEW r \in replay, ReplaySink(r)
        PROVE  releaseSequences'[g] = Cardinality(ReleasedOf(g)')
    BY Zenon, <2>0, <2>5 DEF ReplaySink, ReleasedOf, slots, dispatchVars
  <2> QED
    BY Zenon, <2>1, <2>2, <2>3, <2>4, <2>5, OtherSteps DEF ReleaseStep
<1> QED
  BY <1>1, <1>2, DispatchIds, TypeCorrect, PTL DEF Spec
=============================================================================
