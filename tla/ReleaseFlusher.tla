--------------------------- MODULE ReleaseFlusher ---------------------------
(***************************************************************************)
(* The release flusher (internal/home/concurrency_release.go), which       *)
(* delivers the cumulative release sequence of every (credential, model)   *)
(* group to Home and completes the tickets of those who wait for it.       *)
(*                                                                         *)
(* MarkDirty is called by request goroutines, Flush by the subscriber; one *)
(* Run goroutine sends.  Every critical section of the flusher's mutex is  *)
(* one step and so is every send, which happens with no mutex held.  Home  *)
(* is external: it keeps the highest sequence that reaches it, and a send  *)
(* that failed may still reach it, at once or much later.                  *)
(*                                                                         *)
(* Time is left out: a timer that is armed may fire.  What is kept of the  *)
(* delays is whether the timer was armed to fire at once or to wait.       *)
(*                                                                         *)
(* An operator BugX is a faulty variant of the definition X that follows   *)
(* it; no action uses it.  Replacing X by BugX must break a property.      *)
(***************************************************************************)
EXTENDS Naturals

CONSTANTS
    Groups,      \* release groups (credential, model)
    MaxSeq,      \* bound on the sequences MarkDirty is called with
    Flushers     \* goroutines that call Flush

Seqs == 0..MaxSeq
Tickets == [group : Groups, seq : 1..MaxSeq]

ASSUME FlusherAssumption == MaxSeq \in Nat

VARIABLES
    latest, acked,   \* releaseState.Latest and Acked, per group
    waiters,         \* tickets in releaseState.waiters
    completed,       \* tickets whose done channel is closed
    wake,            \* what the wake channel of capacity one holds
    force,           \* the force channel of capacity one, likewise
    run,             \* the Run goroutine: see RunState
    pending,         \* flush: the sequences still to send, 0 for none
    failed,          \* flush: "yes" when a send has failed
    timer,           \* how the timer is armed: "now" or "delay"
    backingOff,      \* Run: "yes" after a flush that failed
    flushing,        \* control state of the Flush callers
    marked,          \* history: latest when the caller entered Flush
    home, wire       \* Home's sequences, and frames still on their way to it

flusherState == <<latest, acked, waiters, completed>>
runVars == <<run, pending, failed, timer, backingOff>>
flushVars == <<flushing, marked>>
homeVars == <<home, wire>>
vars == <<flusherState, wake, force, runVars, flushVars, homeVars>>

\* "off": not started or ended; "select": at the select; "flush": in flush.
RunState == {"off", "select", "flush"}

\* Types; the channels wake and force hold at most one element.
TypeOK ==
    /\ latest \in [Groups -> Seqs] /\ acked \in [Groups -> Seqs]
    /\ waiters \subseteq Tickets /\ completed \subseteq Tickets
    /\ wake \in 0..1 /\ force \in 0..1
    /\ run \in RunState
    /\ pending \in [Groups -> Seqs]
    /\ failed \in {"yes", "no"}
    /\ timer \in {"now", "delay"}
    /\ backingOff \in {"yes", "no"}
    /\ flushing \in [Flushers -> {"idle", "poll", "done", "expired"}]
    /\ marked \in [Flushers -> [Groups -> Seqs]]
    /\ home \in [Groups -> Seqs]
    /\ wire \subseteq Tickets

Zeros == [g \in Groups |-> 0]

Init ==
    /\ latest = Zeros /\ acked = Zeros
    /\ waiters = {} /\ completed = {}
    /\ wake = 0 /\ force = 0
    /\ run = "off" /\ pending = Zeros /\ failed = "no"
    /\ timer = "now" /\ backingOff = "no"
    /\ flushing = [c \in Flushers |-> "idle"]
    /\ marked = [c \in Flushers |-> Zeros]
    /\ home = Zeros /\ wire = {}

-----------------------------------------------------------------------------

Ticket(g, n) == [group |-> g, seq |-> n]
Larger(m, n) == IF m > n THEN m ELSE n

\* signal: a full wake channel already carries the news.
Signal == wake' = 1

\* MarkDirty keeps the highest sequence, in whatever order the calls come.
Advance(g, n) == latest' = [latest EXCEPT ![g] = Larger(n, @)]

\* MarkDirty: a ticket for a sequence that is acknowledged is complete.
MarkDirty(g, n) ==
    /\ n > 0
    /\ IF n <= acked[g]
         THEN /\ completed' = completed \cup {Ticket(g, n)}
              /\ UNCHANGED <<latest, waiters>>
         ELSE /\ waiters' = waiters \cup {Ticket(g, n)}
              /\ Advance(g, n)
              /\ UNCHANGED completed
    /\ Signal
    /\ UNCHANGED <<acked, force, runVars, flushVars, homeVars>>

-----------------------------------------------------------------------------
(* The Run goroutine *)

\* The subscriber gives the flusher the configuration and the sender of a new
\* Home lifetime, which signals, and starts Run.  There is always a sender.
RunStart ==
    /\ run = "off"
    /\ run' = "select"
    /\ timer' = "now" /\ backingOff' = "no"
    /\ Signal
    /\ UNCHANGED <<flusherState, force, pending, failed, flushVars, homeVars>>

\* The release context is cancelled.
RunDone ==
    /\ run = "select"
    /\ run' = "off"
    /\ UNCHANGED <<flusherState, wake, force, pending, failed,
                   timer, backingOff, flushVars, homeVars>>

BugHastens == TRUE
\* A wake-up hastens the next flush unless Run is backing off.
Hastens == backingOff = "no"

RunWake ==
    /\ run = "select" /\ wake = 1
    /\ wake' = 0
    /\ timer' = IF Hastens THEN "now" ELSE timer
    /\ UNCHANGED <<flusherState, force, run, pending, failed,
                   backingOff, flushVars, homeVars>>

BugDirty == [g \in Groups |-> IF latest[g] > acked[g] + 1 THEN latest[g] ELSE 0]
\* What the first critical section of flush copies.
Dirty == [g \in Groups |-> IF latest[g] > acked[g] THEN latest[g] ELSE 0]

BeginFlush ==
    /\ run = "select"
    /\ run' = "flush"
    /\ pending' = Dirty
    /\ failed' = "no"
    /\ UNCHANGED <<flusherState, wake, timer, backingOff, flushVars, homeVars>>

RunTimer == BeginFlush /\ UNCHANGED force
RunForce ==
    /\ force = 1
    /\ BeginFlush
    /\ force' = 0

BugAcknowledged(g) == {t \in waiters : t.group = g /\ t.seq = pending[g]}
\* The waiters that an acknowledgement completes.
Acknowledged(g) == {t \in waiters : t.group = g /\ t.seq <= pending[g]}

\* The second critical section of flush, after a send without error.
Acknowledge(g) ==
    /\ acked' = [acked EXCEPT ![g] = Larger(pending[g], @)]
    /\ completed' = completed \cup Acknowledged(g)
    /\ waiters' = waiters \ Acknowledged(g)
    /\ UNCHANGED latest

SendOk(g) ==
    /\ run = "flush" /\ pending[g] # 0
    /\ home' = [home EXCEPT ![g] = Larger(pending[g], @)]
    /\ Acknowledge(g)
    /\ pending' = [pending EXCEPT ![g] = 0]
    /\ UNCHANGED <<wake, force, run, failed, timer, backingOff, flushVars, wire>>

BugGiveUp(g) == Acknowledge(g)
\* After a send with an error nothing is acknowledged.
GiveUp(g) == UNCHANGED flusherState

\* The send fails, be it that its context ended or that Home did not answer;
\* its frame is lost or still on its way.
SendFail(g) ==
    /\ run = "flush" /\ pending[g] # 0
    /\ wire' \in {wire, wire \cup {Ticket(g, pending[g])}}
    /\ GiveUp(g)
    /\ failed' = "yes"
    /\ pending' = [pending EXCEPT ![g] = 0]
    /\ UNCHANGED <<wake, force, run, timer, backingOff, flushVars, home>>

\* Home receives a frame whose sender gave up on it.
LateArrival(t) ==
    /\ t \in wire
    /\ home' = [home EXCEPT ![t.group] = Larger(t.seq, @)]
    /\ wire' = wire \ {t}
    /\ UNCHANGED <<flusherState, wake, force, runVars, flushVars>>

\* The loop is over: nextDelay, and the timer is armed with the delay.
EndFlush ==
    /\ run = "flush" /\ pending = Zeros
    /\ run' = "select"
    /\ backingOff' = failed
    /\ timer' = "delay"
    /\ UNCHANGED <<flusherState, wake, force, pending, failed, flushVars,
                   homeVars>>

-----------------------------------------------------------------------------
(* Flush *)

\* forceFlush: a full force channel drops the request.  The context that goes
\* through it only bounds the sends, and every send may fail.
FlushCall(c) ==
    /\ flushing[c] = "idle"
    /\ flushing' = [flushing EXCEPT ![c] = "poll"]
    /\ marked' = [marked EXCEPT ![c] = latest]
    /\ force' = 1
    /\ UNCHANGED <<flusherState, wake, runVars, homeVars>>

BugIdle == pending = Zeros
Idle == \A g \in Groups : latest[g] <= acked[g]

FlushPoll(c) ==
    /\ flushing[c] = "poll" /\ Idle
    /\ flushing' = [flushing EXCEPT ![c] = "done"]
    /\ UNCHANGED <<flusherState, wake, force, runVars, marked, homeVars>>

FlushExpire(c) ==
    /\ flushing[c] = "poll"
    /\ flushing' = [flushing EXCEPT ![c] = "expired"]
    /\ UNCHANGED <<flusherState, wake, force, runVars, marked, homeVars>>

-----------------------------------------------------------------------------

RunStep ==
    \/ RunWake \/ RunTimer \/ RunForce \/ EndFlush
    \/ \E g \in Groups : SendOk(g) \/ SendFail(g)

Next ==
    \/ \E g \in Groups, n \in 1..MaxSeq : MarkDirty(g, n)
    \/ RunStart \/ RunDone \/ RunStep
    \/ \E t \in wire : LateArrival(t)
    \/ \E c \in Flushers : FlushCall(c) \/ FlushPoll(c) \/ FlushExpire(c)

Spec == Init /\ [][Next]_vars

(* Fairness.  Run takes its steps; the subscriber starts it again after it has
   ended, and does not end it for ever before its first flush, whose timer is
   armed with no delay.  Home does not refuse a group for ever. *)
Fairness ==
    /\ WF_vars(RunStart) /\ SF_vars(RunTimer) /\ WF_vars(EndFlush)
    /\ \A g \in Groups : WF_vars(SendOk(g) \/ SendFail(g)) /\ SF_vars(SendOk(g))

FairSpec == Spec /\ Fairness

-----------------------------------------------------------------------------
(* Properties *)

\* "a ticket completed when Home acknowledges that sequence" (line 76): a ticket
\* completes only when Home has its sequence, however sends fail and are retried.
TicketsHonest == \A t \in completed : t.seq <= home[t.group]

\* MarkDirty and the acknowledgement in flush (lines 85 and 218) race for the
\* mutex: no ticket is left among the waiters of a sequence that is acknowledged,
\* nor beyond the sequence that flush will send.
NoTicketStuck == \A t \in waiters : acked[t.group] < t.seq /\ t.seq <= latest[t.group]

\* "Flush waits for all currently dirty groups to be acknowledged" (line 235):
\* when Flush has returned nil, Home has all that was marked before the call.
FlushDelivers == \A c \in Flushers, g \in Groups :
    flushing[c] = "done" => marked[c][g] <= home[g]

\* While Run backs off (line 120), no wake-up makes it retry at once: releases
\* that end quickly do not turn into a storm of sends to a failing Home.
BackoffHolds == backingOff = "yes" => timer = "delay"

\* Every ticket is completed once Home answers, although wake-ups are dropped,
\* consumed during a backoff, and sequences are overtaken by later ones.
TicketsComplete == \A t \in Tickets : t \in waiters ~> t \in completed
=============================================================================
