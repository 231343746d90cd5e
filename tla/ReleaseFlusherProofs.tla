------------------------ MODULE ReleaseFlusherProofs ------------------------
(***************************************************************************)
(* Theorems about ReleaseFlusher, for every set of groups, every bound on  *)
(* the sequences and every set of Flush callers.                           *)
(***************************************************************************)
EXTENDS ReleaseFlusher, TLAPS

\* What flush is about to send was marked, what is acknowledged has reached
\* Home, and Home was never sent more than was marked.
DeliveryInv ==
    /\ \A g \in Groups : acked[g] <= home[g] /\ acked[g] <= latest[g]
    /\ \A g \in Groups : pending[g] <= latest[g]
    /\ \A c \in Flushers, g \in Groups : marked[c][g] <= latest[g]

\* The sequences and the larger of two.
LEMMA SeqRange == /\ 0 \in Seqs /\ Seqs \subseteq Nat
                  /\ \A n \in 1..MaxSeq : n \in Seqs
                  /\ \A n \in Seqs : n # 0 => n \in 1..MaxSeq
                  /\ \A m, n \in Seqs : Larger(m, n) \in Seqs
  BY FlusherAssumption DEF Seqs, Larger

\* The fields of a ticket.
LEMMA TicketType ==
    /\ \A t \in Tickets : t.group \in Groups /\ t.seq \in 1..MaxSeq /\ t.seq \in Seqs
    /\ \A g \in Groups, n \in Seqs : n # 0 => Ticket(g, n) \in Tickets
  BY Zenon, SeqRange DEF Tickets, Ticket

\* Every variable keeps its type; the channels never hold more than one element.
THEOREM TypeCorrect == Spec => []TypeOK
<1>1. Init => TypeOK
  BY SeqRange DEF Init, TypeOK, Zeros, RunState
<1>2. TypeOK /\ [Next]_vars => TypeOK'
  <2> SUFFICES ASSUME TypeOK, [Next]_vars
               PROVE  TypeOK'
    BY Zenon
  <2> USE SeqRange, TicketType DEF TypeOK, RunState, flusherState, runVars, flushVars, homeVars
  <2>1. ASSUME NEW g \in Groups, NEW n \in 1..MaxSeq, MarkDirty(g, n)
        PROVE  TypeOK'
    <3>1. CASE n <= acked[g]
      BY <2>1, <3>1 DEF MarkDirty, Signal
    <3>2. CASE ~ (n <= acked[g])
      <4>1. n \in Seqs /\ Ticket(g, n) \in Tickets /\ Larger(n, latest[g]) \in Seqs
        BY Zenon, FlusherAssumption DEF Seqs, Tickets, Ticket, Larger
      <4> QED
        BY <2>1, <3>2, <4>1 DEF MarkDirty, Signal, Advance
    <3> QED
      BY Zenon, <3>1, <3>2
  <2>2. CASE RunStart
    BY <2>2 DEF RunStart, Signal
  <2>3. CASE RunDone
    BY Zenon, <2>3 DEF RunDone
  <2>4. CASE RunWake
    BY <2>4 DEF RunWake
  <2>5. CASE RunTimer
    BY Zenon, <2>5 DEF RunTimer, BeginFlush, Dirty
  <2>6. CASE RunForce
    BY <2>6 DEF RunForce, BeginFlush, Dirty
  <2>7. ASSUME NEW g \in Groups, SendOk(g)
        PROVE  TypeOK'
    BY Zenon, <2>7 DEF SendOk, Acknowledge, Acknowledged
  <2>8. ASSUME NEW g \in Groups, SendFail(g)
        PROVE  TypeOK'
    BY Zenon, <2>8 DEF SendFail, GiveUp
  <2>9. CASE EndFlush
    BY Zenon, <2>9 DEF EndFlush
  <2>10. ASSUME NEW t \in wire, LateArrival(t)
         PROVE  TypeOK'
    BY Zenon, <2>10 DEF LateArrival
  <2>11. ASSUME NEW c \in Flushers, FlushCall(c)
         PROVE  TypeOK'
    BY <2>11 DEF FlushCall
  <2>12. ASSUME NEW c \in Flushers, FlushPoll(c)
         PROVE  TypeOK'
    BY Zenon, <2>12 DEF FlushPoll
  <2>13. ASSUME NEW c \in Flushers, FlushExpire(c)
         PROVE  TypeOK'
    BY Zenon, <2>13 DEF FlushExpire
  <2>14. CASE UNCHANGED vars
    BY Zenon, <2>14 DEF vars
  <2> QED
    BY Zenon, <2>1, <2>2, <2>3, <2>4, <2>5, <2>6, <2>7, <2>8, <2>9, <2>10, <2>11,
       <2>12, <2>13, <2>14 DEF Next, RunStep
<1> QED
  BY <1>1, <1>2, PTL DEF Spec

\* The order of what was marked, sent, received and acknowledged.
LEMMA DeliveryStep == TypeOK /\ DeliveryInv /\ [Next]_vars => DeliveryInv'
<1> SUFFICES ASSUME TypeOK, DeliveryInv, [Next]_vars
             PROVE  DeliveryInv'
  BY Zenon
<1>0. /\ latest \in [Groups -> Nat] /\ acked \in [Groups -> Nat]
      /\ home \in [Groups -> Nat] /\ pending \in [Groups -> Nat]
      /\ marked \in [Flushers -> [Groups -> Nat]]
      /\ \A t \in wire : t.group \in Groups /\ t.seq \in Nat
  BY Zenon, SeqRange, TicketType DEF TypeOK
<1> USE <1>0 DEF DeliveryInv, Larger, flusherState, runVars, flushVars, homeVars
<1>1. ASSUME NEW g \in Groups, NEW n \in 1..MaxSeq, MarkDirty(g, n)
      PROVE  DeliveryInv'
  <2>1. CASE n <= acked[g]
    BY Zenon, <1>1, <2>1 DEF MarkDirty
  <2>2. CASE ~ (n <= acked[g])
    <3>1. /\ UNCHANGED <<acked, home, pending, marked>>
          /\ latest' = [latest EXCEPT ![g] = IF n > @ THEN n ELSE @]
      BY Zenon, <1>1, <2>2 DEF MarkDirty, Advance
    <3>2. \A h \in Groups : latest'[h] \in Nat /\ latest[h] <= latest'[h]
      BY <3>1
    <3>3. \A h \in Groups : acked[h] <= latest'[h] /\ pending[h] <= latest'[h]
      BY <3>2
    <3>4. \A c \in Flushers, h \in Groups : marked[c][h] <= latest'[h]
      BY <3>2
    <3> QED
      BY Zenon, <3>1, <3>3, <3>4
  <2> QED
    BY Zenon, <2>1, <2>2
<1>2. CASE RunStart \/ RunDone \/ RunWake \/ EndFlush
  BY Zenon, <1>2 DEF RunStart, RunDone, RunWake, EndFlush
<1>3. CASE RunTimer \/ RunForce
  BY <1>3 DEF RunTimer, RunForce, BeginFlush, Dirty
<1>4. ASSUME NEW g \in Groups, SendOk(g)
      PROVE  DeliveryInv'
  BY <1>4 DEF SendOk, Acknowledge
<1>5. ASSUME NEW g \in Groups, SendFail(g)
      PROVE  DeliveryInv'
  BY <1>5 DEF SendFail, GiveUp
<1>6. ASSUME NEW t \in wire, LateArrival(t)
      PROVE  DeliveryInv'
  BY <1>6 DEF LateArrival
<1>7. ASSUME NEW c \in Flushers, FlushCall(c)
      PROVE  DeliveryInv'
  BY <1>7 DEF FlushCall
<1>8. ASSUME NEW c \in Flushers, FlushPoll(c) \/ FlushExpire(c)
      PROVE  DeliveryInv'
  BY Zenon, <1>8 DEF FlushPoll, FlushExpire
<1>9. CASE UNCHANGED vars
  BY Zenon, <1>9 DEF vars
<1> QED
  BY Zenon, <1>1, <1>2, <1>3, <1>4, <1>5, <1>6, <1>7, <1>8, <1>9 DEF Next, RunStep

\* The steps that leave tickets and sequences alone.
Elsewhere ==
    \/ RunStart \/ RunDone \/ RunWake \/ EndFlush \/ RunTimer \/ RunForce
    \/ \E g \in Groups : SendFail(g)
    \/ \E c \in Flushers : FlushCall(c)
    \/ UNCHANGED vars

\* The steps that touch neither the groups nor Home.
LEMMA ElsewhereFrame == Elsewhere => UNCHANGED <<flusherState, home>>
  BY Zenon DEF Elsewhere, RunStart, RunDone, RunWake, EndFlush, RunTimer, RunForce, BeginFlush,
     SendFail, GiveUp, FlushCall, vars, homeVars

\* What a step is.
LEMMA StepKinds ==
    ASSUME [Next]_vars
    PROVE  \/ \E g \in Groups, n \in 1..MaxSeq : MarkDirty(g, n)
           \/ \E g \in Groups : SendOk(g)
           \/ \E t \in wire : LateArrival(t)
           \/ \E c \in Flushers : FlushPoll(c) \/ FlushExpire(c)
           \/ Elsewhere
  BY Zenon DEF Next, RunStep, Elsewhere

\* The numbers behind TypeOK.
Numbers ==
    /\ latest \in [Groups -> Nat] /\ acked \in [Groups -> Nat]
    /\ home \in [Groups -> Nat] /\ pending \in [Groups -> Nat]
    /\ marked \in [Flushers -> [Groups -> Nat]]
    /\ flushing \in [Flushers -> {"idle", "poll", "done", "expired"}]
    /\ \A t \in wire \cup waiters \cup completed : t.group \in Groups /\ t.seq \in Nat

\* The sequences are numbers.
LEMMA Numbered == TypeOK => Numbers
  BY ZenonT(60), SeqRange, TicketType DEF TypeOK, Numbers

\* The fields of a new ticket.
LEMMA TicketFields == \A g, n : Ticket(g, n).group = g /\ Ticket(g, n).seq = n
  BY Zenon DEF Ticket

\* Every step keeps TicketsHonest.
LEMMA HonestStep == TypeOK /\ DeliveryInv /\ TicketsHonest /\ [Next]_vars => TicketsHonest'
<1> SUFFICES ASSUME Numbers, DeliveryInv, TicketsHonest, [Next]_vars
             PROVE  TicketsHonest'
  BY Zenon, Numbered
<1> USE DEF TicketsHonest, Numbers, DeliveryInv
<1>1. ASSUME NEW g \in Groups, NEW n \in 1..MaxSeq, MarkDirty(g, n)
      PROVE  TicketsHonest'
  <2>1. home' = home /\ n \in Nat
    BY <1>1, FlusherAssumption DEF MarkDirty, homeVars
  <2>2. CASE n <= acked[g]
    <3>1. completed' = completed \cup {Ticket(g, n)}
      BY Zenon, <1>1, <2>2 DEF MarkDirty
    <3>2. n <= home[g]
      BY <2>1, <2>2
    <3> QED
      BY <2>1, <3>1, <3>2, TicketFields
  <2>3. CASE ~ (n <= acked[g])
    BY Zenon, <1>1, <2>1, <2>3 DEF MarkDirty
  <2> QED
    BY Zenon, <2>2, <2>3
<1>2. ASSUME NEW g \in Groups, SendOk(g)
      PROVE  TicketsHonest'
  <2>1. completed' = completed \cup Acknowledged(g)
    BY Zenon, <1>2 DEF SendOk, Acknowledge
  <2>2. \A h \in Groups : home'[h] \in Nat /\ home[h] <= home'[h]
    BY <1>2 DEF SendOk, Larger
  <2>3. pending[g] <= home'[g]
    BY <1>2 DEF SendOk, Larger
  <2>4. \A t \in Acknowledged(g) : t.group = g /\ t.seq \in Nat /\ t.seq <= pending[g]
    BY Zenon DEF Acknowledged
  <2>5. \A t \in Acknowledged(g) : t.seq <= home'[t.group]
    BY <2>2, <2>3, <2>4
  <2>6. \A t \in completed : t.seq <= home'[t.group]
    BY <2>2
  <2> QED
    BY Zenon, <2>1, <2>5, <2>6
<1>3. ASSUME NEW u \in wire, LateArrival(u)
      PROVE  TicketsHonest'
  <2>1. completed' = completed
    BY Zenon, <1>3 DEF LateArrival, flusherState
  <2>2. \A h \in Groups : home'[h] \in Nat /\ home[h] <= home'[h]
    BY <1>3 DEF LateArrival, Larger
  <2> QED
    BY <2>1, <2>2
<1>4. ASSUME NEW c \in Flushers, FlushPoll(c) \/ FlushExpire(c)
      PROVE  TicketsHonest'
  BY Zenon, <1>4 DEF FlushPoll, FlushExpire, flusherState, homeVars
<1>5. CASE Elsewhere
  BY Zenon, <1>5, ElsewhereFrame DEF flusherState
<1> QED
  BY Zenon, <1>1, <1>2, <1>3, <1>4, <1>5, StepKinds

\* Every step keeps NoTicketStuck.
LEMMA StuckStep == TypeOK /\ DeliveryInv /\ NoTicketStuck /\ [Next]_vars => NoTicketStuck'
<1> SUFFICES ASSUME Numbers, DeliveryInv, NoTicketStuck, [Next]_vars
             PROVE  NoTicketStuck'
  BY Zenon, Numbered
<1> USE DEF NoTicketStuck, Numbers, DeliveryInv
<1>1. ASSUME NEW g \in Groups, NEW n \in 1..MaxSeq, MarkDirty(g, n)
      PROVE  NoTicketStuck'
  <2>1. acked' = acked /\ n \in Nat
    BY <1>1, FlusherAssumption DEF MarkDirty
  <2>2. CASE n <= acked[g]
    BY Zenon, <1>1, <2>1, <2>2 DEF MarkDirty
  <2>3. CASE ~ (n <= acked[g])
    <3>1. waiters' = waiters \cup {Ticket(g, n)}
      BY Zenon, <1>1, <2>3 DEF MarkDirty
    <3>2. /\ \A h \in Groups : latest'[h] \in Nat /\ latest[h] <= latest'[h]
          /\ n <= latest'[g]
      BY SMTT(60), <1>1, <2>1, <2>3 DEF MarkDirty, Advance, Larger
    <3>3. acked[g] < n
      BY <2>1, <2>3
    <3>4. \A t \in waiters : acked[t.group] < t.seq /\ t.seq <= latest'[t.group]
      BY <3>2
    <3> QED
      BY <2>1, <3>1, <3>2, <3>3, <3>4, TicketFields
  <2> QED
    BY Zenon, <2>2, <2>3
<1>2. ASSUME NEW g \in Groups, SendOk(g)
      PROVE  NoTicketStuck'
  <2>1. latest' = latest /\ waiters' = waiters \ Acknowledged(g)
    BY Zenon, <1>2 DEF SendOk, Acknowledge
  <2>2. acked' = [acked EXCEPT ![g] = IF pending[g] > @ THEN pending[g] ELSE @]
    BY Zenon, <1>2 DEF SendOk, Acknowledge, Larger
  <2>3. \A t \in waiters' : t.group = g => t.seq > pending[g]
    BY <2>1 DEF Acknowledged
  <2> QED
    BY Zenon, <2>1, <2>2, <2>3
<1>3. ASSUME NEW u \in wire, LateArrival(u)
      PROVE  NoTicketStuck'
  BY Zenon, <1>3 DEF LateArrival, flusherState
<1>4. ASSUME NEW c \in Flushers, FlushPoll(c) \/ FlushExpire(c)
      PROVE  NoTicketStuck'
  BY Zenon, <1>4 DEF FlushPoll, FlushExpire, flusherState
<1>5. CASE Elsewhere
  BY Zenon, <1>5, ElsewhereFrame DEF flusherState
<1> QED
  BY Zenon, <1>1, <1>2, <1>3, <1>4, <1>5, StepKinds

\* Every step keeps FlushDelivers.
LEMMA FlushStep == TypeOK /\ DeliveryInv /\ FlushDelivers /\ [Next]_vars => FlushDelivers'
<1> SUFFICES ASSUME Numbers, DeliveryInv, FlushDelivers, [Next]_vars
             PROVE  FlushDelivers'
  BY Zenon, Numbered
<1> USE DEF FlushDelivers, Numbers, DeliveryInv
<1>1. ASSUME NEW g \in Groups, NEW n \in 1..MaxSeq, MarkDirty(g, n)
      PROVE  FlushDelivers'
  BY Zenon, <1>1 DEF MarkDirty, flushVars, homeVars
<1>2. ASSUME NEW g \in Groups, SendOk(g)
      PROVE  FlushDelivers'
  <2>1. \A h \in Groups : home'[h] \in Nat /\ home[h] <= home'[h]
    BY <1>2 DEF SendOk, Larger
  <2>2. UNCHANGED <<flushing, marked>>
    BY Zenon, <1>2 DEF SendOk, flushVars
  <2> QED
    BY SMTT(60), <2>1, <2>2
<1>3. ASSUME NEW u \in wire, LateArrival(u)
      PROVE  FlushDelivers'
  <2>1. \A h \in Groups : home'[h] \in Nat /\ home[h] <= home'[h]
    BY <1>3 DEF LateArrival, Larger
  <2>2. UNCHANGED <<flushing, marked>>
    BY Zenon, <1>3 DEF LateArrival, flushVars
  <2> QED
    BY SMTT(60), <2>1, <2>2
<1>4. ASSUME NEW c \in Flushers, FlushPoll(c)
      PROVE  FlushDelivers'
  <2>1. UNCHANGED <<home, marked>> /\ flushing' = [flushing EXCEPT ![c] = "done"]
    BY Zenon, <1>4 DEF FlushPoll, homeVars
  <2>2. \A g \in Groups : latest[g] <= acked[g]
    BY Zenon, <1>4 DEF FlushPoll, Idle
  <2>3. \A g \in Groups : marked[c][g] <= home[g]
    BY <2>2
  <2> QED
    BY Zenon, <2>1, <2>3
<1>5. ASSUME NEW c \in Flushers, FlushExpire(c)
      PROVE  FlushDelivers'
  BY Zenon, <1>5 DEF FlushExpire, homeVars
<1>6. ASSUME NEW c \in Flushers, FlushCall(c)
      PROVE  FlushDelivers'
  BY Zenon, <1>6 DEF FlushCall, homeVars
<1>7. CASE Elsewhere /\ ~ \E c \in Flushers : FlushCall(c)
  <2>1. UNCHANGED <<flushing, marked, home>>
    BY Zenon, <1>7 DEF Elsewhere, RunStart, RunDone, RunWake, EndFlush, RunTimer, RunForce,
       BeginFlush, SendFail, vars, flushVars, homeVars
  <2> QED
    BY Zenon, <2>1
<1> QED
  BY Zenon, <1>1, <1>2, <1>3, <1>4, <1>5, <1>6, <1>7, StepKinds

\* Every step keeps the order of the sequences.
LEMMA Delivery == Spec => []DeliveryInv
<1>1. Init => DeliveryInv
  BY DEF Init, DeliveryInv, Zeros
<1> QED
  BY <1>1, DeliveryStep, TypeCorrect, PTL DEF Spec

\* A ticket completes only when Home has its sequence.
THEOREM TicketsTrue == Spec => []TicketsHonest
<1>1. Init => TicketsHonest
  BY Zenon DEF Init, TicketsHonest
<1> QED
  BY <1>1, HonestStep, Delivery, TypeCorrect, PTL DEF Spec

\* No ticket is left behind an acknowledgement or beyond what will be sent.
THEOREM TicketsServed == Spec => []NoTicketStuck
<1>1. Init => NoTicketStuck
  BY Zenon DEF Init, NoTicketStuck
<1> QED
  BY <1>1, StuckStep, Delivery, TypeCorrect, PTL DEF Spec

\* Flush returns nil only when Home has all that was marked before.
THEOREM FlushWaits == Spec => []FlushDelivers
<1>1. Init => FlushDelivers
  BY Zenon DEF Init, FlushDelivers
<1> QED
  BY <1>1, FlushStep, Delivery, TypeCorrect, PTL DEF Spec
\* Only RunStart and RunWake arm the timer to fire at once, and neither does
\* while Run backs off.
THEOREM BackoffKept == Spec => []BackoffHolds
<1>1. Init => BackoffHolds
  BY Zenon DEF Init, BackoffHolds
<1>2. BackoffHolds /\ [Next]_vars => BackoffHolds'
  <2> SUFFICES ASSUME BackoffHolds, [Next]_vars
               PROVE  BackoffHolds'
    BY Zenon
  <2> USE DEF BackoffHolds, runVars
  <2>1. ASSUME NEW g \in Groups, NEW n \in 1..MaxSeq, MarkDirty(g, n)
        PROVE  BackoffHolds'
    BY Zenon, <2>1 DEF MarkDirty
  <2>2. CASE RunStart \/ RunDone
    BY Zenon, <2>2 DEF RunStart, RunDone
  <2>3. CASE RunWake
    BY Zenon, <2>3 DEF RunWake, Hastens
  <2>4. CASE RunTimer \/ RunForce
    BY Zenon, <2>4 DEF RunTimer, RunForce, BeginFlush
  <2>5. ASSUME NEW g \in Groups, SendOk(g) \/ SendFail(g)
        PROVE  BackoffHolds'
    BY Zenon, <2>5 DEF SendOk, SendFail
  <2>6. CASE EndFlush
    BY Zenon, <2>6 DEF EndFlush
  <2>7. ASSUME NEW t \in wire, LateArrival(t)
        PROVE  BackoffHolds'
    BY Zenon, <2>7 DEF LateArrival
  <2>8. ASSUME NEW c \in Flushers, FlushCall(c) \/ FlushPoll(c) \/ FlushExpire(c)
        PROVE  BackoffHolds'
    BY Zenon, <2>8 DEF FlushCall, FlushPoll, FlushExpire
  <2>9. CASE UNCHANGED vars
    BY Zenon, <2>9 DEF vars
  <2> QED
    BY Zenon, <2>1, <2>2, <2>3, <2>4, <2>5, <2>6, <2>7, <2>8, <2>9 DEF Next, RunStep
<1> QED
  BY <1>1, <1>2, PTL DEF Spec
=============================================================================
