------------------------- MODULE RequestRoundsProofs -------------------------
(***************************************************************************)
(* Theorems about RequestRounds, for every pool of credentials, every set  *)
(* of concurrent calls and every setting.                                  *)
(***************************************************************************)
EXTENDS RequestRounds, FiniteSetTheorems, WellFoundedInduction, TLAPS

-----------------------------------------------------------------------------
(* Maxima and minima. *)

\* The larger of two numbers is a number.
LEMMA MaxNat == \A a, b \in Nat : Max({a, b}) \in Nat
<1> TAKE a, b \in Nat
<1>1. \E x \in {a, b} : \A y \in {a, b} : x >= y
  OBVIOUS
<1> QED
  BY Zenon, <1>1 DEF Max

\* A set of numbers that is not empty has a least element.
LEMMA MinNat == ASSUME NEW S, S \subseteq Nat, S # {}
                PROVE  Min(S) \in S
<1> DEFINE R == OpToRel(<, Nat)
<1>1. IsWellFoundedOn(R, Nat)
  BY NatLessThanWellFounded, Zenon
<1>2. \A x, y \in Nat : y < x => <<y, x>> \in R
  BY Zenon DEF OpToRel
<1> HIDE DEF R
<1>3. PICK x \in S : \A y \in S : ~ (<<y, x>> \in R)
  BY <1>1, WFMin, Zenon
<1>4. ASSUME NEW y \in S PROVE x =< y
  <2>1. x \in Nat /\ y \in Nat
    BY Zenon
  <2>2. ~ (y < x)
    BY <1>2, <1>3, <2>1, Zenon
  <2> QED
    BY <2>1, <2>2
<1> QED
  BY Zenon, <1>4 DEF Min

\* What closestCooldownWait finds is a length of time.
LEMMA DelayType == ASSUME TypeOK, NEW r \in Requests
                   PROVE  RetryDelay(r) \in Nat
<1> DEFINE n == round[r]
           tooMany == TooMany(last[r])
           usable == {c \in Creds : n < Limit[c] /\ RoundEligible(c)}
           waits == {WaitFor(c, tooMany, picked[r]) : c \in usable}
<1>1. ASSUME NEW c \in Creds
      PROVE  WaitFor(c, tooMany, picked[r]) \in Nat
  <2>1. left[c] \in Nat /\ Floor \in Nat
    BY Zenon, TimeAssumption DEF TypeOK, PoolType, PassType, WaitType, HistoryType
  <2>2. Max({left[c], Floor}) \in Nat
    BY <2>1, MaxNat, Zenon
  <2> QED
    BY Zenon, <2>1, <2>2 DEF WaitFor
<1>2. waits \subseteq Nat
  BY Zenon, <1>1
<1>3. closestCooldownWait(n, tooMany, picked[r]) \in Nat \cup {None}
  <2>1. CASE usable = {}
    BY Zenon, <2>1 DEF closestCooldownWait
  <2>2. CASE usable # {}
    <3>1. waits # {}
      BY Zenon, <2>2
    <3>2. Min(waits) \in Nat
      <4> HIDE DEF waits
      <4> QED
        BY Zenon, <1>2, <3>1, MinNat
    <3> QED
      BY Zenon, <2>2, <3>2 DEF closestCooldownWait
  <2> QED
    BY Zenon, <2>1, <2>2
<1>4. after[r] \in Nat \cup {None}
  BY Zenon DEF TypeOK, PoolType, PassType, WaitType, HistoryType
<1> QED
  BY Zenon, <1>3, <1>4, TimeAssumption DEF RetryDelay

\* A wait that may be slept through stays within max-retry-interval, jitter included.
LEMMA JitterBounded == ASSUME NEW w \in Nat, ~ TooLong(w), NEW d \in Jittered(w)
                       PROVE  d \in Nat /\ d <= MaxWait
<1>1. MaxWait \in Nat /\ (w > 0 => w <= MaxWait)
  BY TimeAssumption DEF TooLong
<1>2. d \in w..(w + w) /\ (d > w => d <= MaxWait)
  BY Zenon DEF Jittered
<1> QED
  BY <1>1, <1>2

-----------------------------------------------------------------------------
(* A step of one call leaves the other calls alone. *)

Step(r) == Begin(r) \/ Proceed(r) \/ Answer(r) \/ Cancel(r)

Kept(q) ==
    /\ pc'[q] = pc[q] /\ round'[q] = round[q] /\ tried'[q] = tried[q]
    /\ attempted'[q] = attempted[q] /\ busy'[q] = busy[q] /\ cur'[q] = cur[q]
    /\ budget'[q] = budget[q] /\ tries'[q] = tries[q] /\ queued'[q] = queued[q]
    /\ slept'[q] = slept[q]

\* Who takes a step.
LEMMA NextCases == [Next]_vars <=> (\E r \in Requests : Step(r)) \/ Tick \/ (\E c \in Creds : Lift(c))
                                   \/ UNCHANGED vars
  BY Zenon DEF Next, Step

\* A request that returns leaves the others alone.
LEMMA ReturnKeeps == ASSUME TypeOK, NEW r \in Requests, NEW q \in Requests \ {r}, Return(r)
                     PROVE  Kept(q)
  BY Zenon DEF TypeOK, PoolType, PassType, WaitType, HistoryType, Return, Goto, Kept

\* A step of a request leaves the others alone.
LEMMA OthersKept == ASSUME TypeOK, NEW r \in Requests, NEW q \in Requests \ {r}, Step(r)
                    PROVE  Kept(q)
<1>1. ASSUME Return(r) PROVE Kept(q)
  BY Zenon, <1>1, ReturnKeeps
<1>2. ASSUME LookAgain(r), UNCHANGED <<budget, history>> PROVE Kept(q)
  BY Zenon, <1>2 DEF LookAgain, Goto, history, Kept, TypeOK, PoolType, PassType, WaitType, HistoryType
<1> USE DEF Kept, Goto
<1>3. CASE Begin(r)
  BY Zenon, <1>3 DEF Begin, RoundOf, wait, history, TypeOK, PoolType, PassType, WaitType, HistoryType
<1>4. ASSUME NEW c \in Creds, Pick(r, c) PROVE Kept(q)
  BY Zenon, <1>4 DEF Pick, wait, history, TypeOK, PoolType, PassType, WaitType, HistoryType
<1>5. CASE Admit(r)
  BY Zenon, <1>5 DEF Admit, wait, TypeOK, PoolType, PassType, WaitType, HistoryType
<1>6. CASE Refuse(r)
  BY Zenon, <1>6 DEF Refuse, wait, history, TypeOK, PoolType, PassType, WaitType, HistoryType
<1>7. CASE Queue(r)
  <2>1. CASE LookAgain(r) /\ UNCHANGED budget
    BY Zenon, <1>2, <1>7, <2>1 DEF Queue
  <2>2. CASE ~ (LookAgain(r) /\ UNCHANGED budget)
    BY Zenon, <1>7, <2>2 DEF Queue, pass, history, TypeOK, PoolType, PassType, WaitType, HistoryType
  <2> QED
    BY Zenon, <2>1, <2>2
<1>8. CASE Wake(r)
  BY Zenon, <1>2, <1>8 DEF Wake
<1>9. CASE Expire(r)
  BY Zenon, <1>1, <1>2, <1>9 DEF Expire
<1>10. CASE QueueRefuses(r) \/ GiveUp(r) \/ Cancel(r) \/ Leave(r)
  BY Zenon, <1>1, <1>10 DEF QueueRefuses, GiveUp, Cancel, Leave
<1>11. CASE RoundOver(r)
  BY Zenon, <1>11 DEF RoundOver, wait, history, TypeOK, PoolType, PassType, WaitType, HistoryType
<1>12. CASE Decide(r)
  BY Zenon, <1>1, <1>12 DEF Decide, pass, history, TypeOK, PoolType, PassType, WaitType, HistoryType
<1>13. CASE Sleep(r)
  BY <1>13 DEF Sleep, pass, TypeOK, PoolType, PassType, WaitType, HistoryType
<1>14. CASE NextRound(r)
  BY Zenon, <1>14 DEF NextRound, RoundOf, wait, TypeOK, PoolType, PassType, WaitType, HistoryType
<1>15. ASSUME NEW k, NEW h, Fail(r, k, h) PROVE Kept(q)
  BY Zenon, <1>15 DEF Fail, Release, history, TypeOK, PoolType, PassType, WaitType, HistoryType
<1>16. ASSUME NEW l, NEW b, Succeed(r, l, b) PROVE Kept(q)
  BY Zenon, <1>1, <1>16 DEF Succeed, pass, wait, history, TypeOK, PoolType, PassType, WaitType, HistoryType
<1> QED
  BY Zenon, <1>3, <1>4, <1>5, <1>6, <1>7, <1>8, <1>9, <1>10, <1>11, <1>12, <1>13, <1>14, <1>15, <1>16
     DEF Step, Proceed, Answer

-----------------------------------------------------------------------------
(* What a call knows in a round. *)

Holding == {"exec", "stream"}

Excluded(r) == requestRetryRoundExclusions(round[r])

\* Every credential a round has tried is accounted for: attempted, set aside, without a
\* model, excluded from a round this late, or the current one.
Accounted(r) ==
    /\ attempted[r] \cup busy[r] \cup Excluded(r) \subseteq tried[r]
    /\ tried[r] \subseteq attempted[r] \cup busy[r] \cup Excluded(r) \cup Bare \cup {cur[r]}
    /\ busy[r] \cap (attempted[r] \cup Excluded(r)) = {}
    /\ pc[r] = "admit" => /\ cur[r] \in tried[r]
                          /\ cur[r] \notin attempted[r] \cup busy[r] \cup Excluded(r)
    /\ pc[r] \in Holding => cur[r] \in attempted[r]
    /\ pc[r] \notin Holding \cup {"admit"} => cur[r] = None

\* The attempts of the rounds so far, and of this one.
TriesCounted(r) ==
    \A c \in Creds : /\ tries[r][c] <= round[r] + (IF c \in attempted[r] THEN 1 ELSE 0)
                     /\ tries[r][c] <= Limit[c] + 1

\* The credentials a round leaves out are credentials.
LEMMA ExclusionsType == /\ requestRetryRoundExclusions(0) = {}
                        /\ \A n \in Nat : requestRetryRoundExclusions(n) \subseteq Creds
  BY DEF requestRetryRoundExclusions

\* A request that returns holds nothing.
LEMMA ReturnAccounted == ASSUME TypeOK, NEW r \in Requests, Return(r)
                         PROVE  Accounted(r)'
<1>1. /\ pc'[r] = "done" /\ tried'[r] = {} /\ attempted'[r] = {} /\ busy'[r] = {}
      /\ cur'[r] = None /\ round'[r] = 0
  BY Zenon DEF TypeOK, PassType, Return, Goto
<1> QED
  BY Zenon, <1>1, ExclusionsType DEF Accounted, Excluded, Holding

\* A request that begins a round holds nothing.
LEMMA RoundAccounted ==
    ASSUME TypeOK, NEW r \in Requests, NEW n \in Nat, RoundOf(r, n), Goto(r, "pick"),
           cur[r] = None, UNCHANGED cur
    PROVE  Accounted(r)'
<1>1. /\ pc'[r] = "pick" /\ tried'[r] = requestRetryRoundExclusions(n) /\ attempted'[r] = {}
      /\ busy'[r] = {} /\ cur'[r] = None /\ round'[r] = n
  BY Zenon DEF TypeOK, PassType, RoundOf, Goto
<1> QED
  BY Zenon, <1>1 DEF Accounted, Excluded, Holding

\* A request that looks for another credential holds nothing.
LEMMA LookAgainAccounted == ASSUME TypeOK, NEW r \in Requests, Accounted(r), LookAgain(r),
                                   pc[r] \in {"pick", "full"}
                            PROVE  Accounted(r)'
<1>1. /\ pc'[r] = "pick" /\ tried'[r] = tried[r] \ busy[r] /\ attempted'[r] = attempted[r]
      /\ busy'[r] = {} /\ cur'[r] = cur[r] /\ round'[r] = round[r]
  BY Zenon DEF TypeOK, PassType, LookAgain, Goto
<1> QED
  BY Zenon, <1>1 DEF Accounted, Excluded, Holding

\* A request that stays among its holding states keeps what it holds.
LEMMA StaysAccounted == ASSUME NEW r \in Requests, Accounted(r), Kept(r) \/ UNCHANGED pass,
                               pc'[r] = pc[r] \/ {pc[r], pc'[r]} \cap (Holding \cup {"admit"}) = {}
                                              \/ {pc[r], pc'[r]} \subseteq Holding
                        PROVE  Accounted(r)'
  BY Zenon DEF Accounted, Excluded, Holding, Kept, pass

\* Every step of a request keeps its account.
LEMMA StepAccounted == ASSUME TypeOK, NEW r \in Requests, Accounted(r), Step(r)
                       PROVE  Accounted(r)'
<1>1. ASSUME Return(r) PROVE Accounted(r)'
  BY Zenon, <1>1, ReturnAccounted
<1>2. ASSUME pc[r] \notin Holding \cup {"admit"}, NEW l \in Labels \ (Holding \cup {"admit"}), Goto(r, l),
             UNCHANGED pass
      PROVE  Accounted(r)'
  BY Zenon, <1>2, StaysAccounted DEF Goto, TypeOK, PassType
<1>3. CASE Begin(r)
  <2>1. cur[r] = None
    BY Zenon, <1>3 DEF Begin, Accounted, Holding
  <2> QED
    BY Zenon, <1>3, <2>1, RoundAccounted DEF Begin
<1>4. ASSUME NEW c \in Creds, Pick(r, c) PROVE Accounted(r)'
  <2>1. /\ tried'[r] = tried[r] \cup {c} /\ c \notin tried[r] /\ pc[r] = "pick"
        /\ pc'[r] = IF c \in Bare THEN "pick" ELSE "admit"
        /\ cur'[r] = IF c \in Bare THEN None ELSE c
        /\ UNCHANGED <<attempted, busy, round>>
    BY Zenon, <1>4 DEF Pick, Candidates, Goto, TypeOK, PassType
  <2>2. CASE c \in Bare
    BY Zenon, <2>1, <2>2 DEF Accounted, Excluded, Holding
  <2>3. CASE c \notin Bare
    <3>1. None \notin tried[r]
      BY Zenon, PoolAssumption DEF TypeOK, PassType
    <3> QED
      BY <2>1, <2>3, <3>1 DEF Accounted, Excluded, Holding
  <2> QED
    BY Zenon, <2>2, <2>3
<1>5. CASE Admit(r)
  <2>1. /\ attempted'[r] = attempted[r] \cup {cur[r]} /\ pc[r] = "admit" /\ pc'[r] = "exec"
        /\ UNCHANGED <<tried, busy, round, cur>>
    BY Zenon, <1>5 DEF Admit, Goto, TypeOK, PassType
  <2> QED
    BY Zenon, <2>1 DEF Accounted, Excluded, Holding
<1>6. CASE Refuse(r)
  <2>1. /\ busy'[r] = busy[r] \cup {cur[r]} /\ pc[r] = "admit" /\ pc'[r] = "pick" /\ cur'[r] = None
        /\ UNCHANGED <<tried, attempted, round>>
    BY Zenon, <1>6 DEF Refuse, Goto, TypeOK, PassType
  <2> QED
    BY Zenon, <2>1 DEF Accounted, Excluded, Holding
<1>7. CASE Queue(r)
  <2>1. pc[r] = "pick"
    BY Zenon, <1>7 DEF Queue, NothingLeft
  <2>2. CASE LookAgain(r)
    BY Zenon, <2>1, <2>2, LookAgainAccounted
  <2>3. CASE Goto(r, "full") /\ UNCHANGED pass
    BY Zenon, <1>2, <2>1, <2>3 DEF Holding, Labels
  <2> QED
    BY Zenon, <1>7, <2>2, <2>3 DEF Queue
<1>8. CASE Wake(r)
  BY Zenon, <1>8, LookAgainAccounted DEF Wake
<1>9. CASE Expire(r)
  BY Zenon, <1>1, <1>9, LookAgainAccounted DEF Expire
<1>10. CASE QueueRefuses(r) \/ GiveUp(r) \/ Cancel(r) \/ Leave(r)
  BY Zenon, <1>1, <1>10 DEF QueueRefuses, GiveUp, Cancel, Leave
<1>11. CASE RoundOver(r)
  <2>1. /\ pc[r] = "pick" /\ pc'[r] = "decide"
        /\ UNCHANGED <<tried, attempted, busy, round, cur>>
    BY Zenon, <1>11 DEF RoundOver, Goto, TypeOK, PassType
  <2> QED
    BY Zenon, <2>1 DEF Accounted, Excluded, Holding
<1>12. CASE Decide(r)
  BY Zenon, <1>1, <1>2, <1>12 DEF Decide, Holding, Labels
<1>13. CASE Sleep(r)
  BY Zenon, <1>2, <1>13 DEF Sleep, Holding, Labels
<1>14. CASE NextRound(r)
  <2>1. cur[r] = None /\ round[r] + 1 \in Nat
    BY <1>14 DEF NextRound, Accounted, Holding, TypeOK, PassType
  <2> QED
    BY Zenon, <1>14, <2>1, RoundAccounted DEF NextRound
<1>15. ASSUME NEW k, NEW h, Fail(r, k, h) PROVE Accounted(r)'
  <2>1. /\ pc[r] = "exec" /\ pc'[r] = "pick" /\ cur'[r] = None
        /\ UNCHANGED <<tried, attempted, busy, round>>
    BY Zenon, <1>15 DEF Fail, Goto, TypeOK, PassType
  <2> QED
    BY Zenon, <2>1 DEF Accounted, Excluded, Holding
<1>16. ASSUME NEW l, NEW b, Succeed(r, l, b) PROVE Accounted(r)'
  <2>1. CASE Return(r)
    BY Zenon, <1>1, <2>1
  <2>2. CASE pc[r] = "exec" /\ Goto(r, "stream") /\ UNCHANGED pass
    BY Zenon, <2>2, StaysAccounted DEF Goto, Holding, TypeOK, PassType
  <2> QED
    BY Zenon, <1>16, <2>1, <2>2 DEF Succeed
<1> QED
  BY Zenon, <1>3, <1>4, <1>5, <1>6, <1>7, <1>8, <1>9, <1>10, <1>11, <1>12, <1>13, <1>14, <1>15, <1>16
     DEF Step, Proceed, Answer

\* Every step keeps the accounts.
LEMMA AccountedStep == ASSUME TypeOK, \A r \in Requests : Accounted(r), [Next]_vars
                       PROVE  \A r \in Requests : Accounted(r)'
<1> SUFFICES ASSUME NEW q \in Requests PROVE Accounted(q)'
  BY Zenon
<1>1. ASSUME NEW r \in Requests, Step(r) PROVE Accounted(q)'
  <2>1. CASE q = r
    BY Zenon, <1>1, <2>1, StepAccounted
  <2>2. CASE q # r
    BY Zenon, <1>1, <2>2, OthersKept, StaysAccounted DEF Kept
  <2> QED
    BY Zenon, <2>1, <2>2
<1>2. CASE Tick \/ (\E c \in Creds : Lift(c)) \/ UNCHANGED vars
  BY Zenon, <1>2, StaysAccounted DEF Tick, Lift, vars
<1> QED
  BY Zenon, <1>1, <1>2, NextCases

-----------------------------------------------------------------------------
(* Attempts. *)

Fresh(r) == pc[r] = "idle" => round[r] = 0 /\ attempted[r] = {}

\* A request starts once.
LEMMA NeverIdleAgain == ASSUME TypeOK, NEW r \in Requests, Step(r)
                        PROVE  pc'[r] # "idle"
<1> USE DEF Goto, Return, TypeOK, PassType
<1>1. CASE Begin(r) \/ (\E c \in Creds : Pick(r, c)) \/ Admit(r) \/ Refuse(r)
  BY Zenon, <1>1 DEF Begin, Pick, Admit, Refuse
<1>2. CASE Queue(r) \/ QueueRefuses(r) \/ Wake(r) \/ Expire(r) \/ Cancel(r)
  BY Zenon, <1>2 DEF Queue, QueueRefuses, Wake, Expire, Cancel, LookAgain
<1>3. CASE RoundOver(r) \/ Decide(r) \/ Sleep(r) \/ GiveUp(r) \/ NextRound(r)
  BY Zenon, <1>3 DEF RoundOver, Decide, Sleep, GiveUp, NextRound
<1>4. CASE Answer(r)
  BY Zenon, <1>4 DEF Answer, Fail, Succeed, Leave
<1> QED
  BY Zenon, <1>1, <1>2, <1>3, <1>4 DEF Step, Proceed

\* Every step keeps the requests that have not started fresh.
LEMMA FreshStep == ASSUME TypeOK, \A r \in Requests : Fresh(r), [Next]_vars
                   PROVE  \A r \in Requests : Fresh(r)'
<1> SUFFICES ASSUME NEW q \in Requests PROVE Fresh(q)'
  BY Zenon
<1>1. ASSUME NEW r \in Requests, Step(r) PROVE Fresh(q)'
  BY Zenon, <1>1, NeverIdleAgain, OthersKept DEF Kept, Fresh
<1>2. CASE Tick \/ (\E c \in Creds : Lift(c)) \/ UNCHANGED vars
  BY Zenon, <1>2 DEF Tick, Lift, vars, pass, Fresh
<1> QED
  BY Zenon, <1>1, <1>2, NextCases

\* Every step of a request keeps its tries counted.
LEMMA StepTries == ASSUME TypeOK, NEW r \in Requests, Accounted(r), TriesCounted(r), Fresh(r), Step(r)
                   PROVE  TriesCounted(r)'
<1> USE LimitAssumption
<1>1. ASSUME Return(r) PROVE TriesCounted(r)'
  <2>1. round'[r] = 0 /\ \A c \in Creds : tries'[r][c] = 0
    BY Zenon, <1>1 DEF Return, TypeOK, PassType, HistoryType
  <2> QED
    BY <2>1 DEF TriesCounted
<1>2. ASSUME UNCHANGED <<tries, round, attempted>> PROVE TriesCounted(r)'
  BY Zenon, <1>2 DEF TriesCounted
<1>3. CASE Begin(r)
  <2>1. pc[r] = "idle" /\ round'[r] = 0 /\ attempted'[r] = {} /\ UNCHANGED tries
    BY Zenon, <1>3 DEF Begin, RoundOf, history, TypeOK, PassType
  <2> QED
    BY Zenon, <2>1 DEF TriesCounted, Fresh
<1>4. CASE Admit(r)
  <2> DEFINE c == cur[r]
  <2>1. /\ c \in Creds /\ c \notin attempted[r] /\ c \notin Excluded(r)
    BY Zenon, <1>4 DEF Admit, Accounted, TypeOK, PassType
  <2>2. /\ attempted'[r] = attempted[r] \cup {c} /\ round' = round
        /\ tries'[r] = [tries[r] EXCEPT ![c] = @ + 1]
    BY Zenon, <1>4 DEF Admit, TypeOK, PassType, HistoryType
  <2>3. round[r] \in Nat /\ tries[r] \in [Creds -> Nat]
    BY Zenon DEF TypeOK, PassType, HistoryType
  <2>4. round[r] <= Limit[c]
    <3>1. Limit[c] \in Nat
      BY Zenon, <2>1
    <3>2. ~(round[r] > 0 /\ Limit[c] < round[r])
      BY Zenon, <2>1 DEF Excluded, requestRetryRoundExclusions
    <3> QED
      BY <2>3, <3>1, <3>2
  <2> QED
    BY <2>1, <2>2, <2>3, <2>4 DEF TriesCounted
<1>5. CASE NextRound(r)
  <2>1. round'[r] = round[r] + 1 /\ attempted'[r] = {} /\ UNCHANGED tries
    BY Zenon, <1>5 DEF NextRound, RoundOf, TypeOK, PassType
  <2>2. round[r] \in Nat /\ tries[r] \in [Creds -> Nat]
    BY Zenon DEF TypeOK, PassType, HistoryType
  <2> QED
    BY <2>1, <2>2 DEF TriesCounted
<1>6. CASE (\E c \in Creds : Pick(r, c)) \/ Refuse(r) \/ Wake(r) \/ RoundOver(r) \/ Sleep(r)
  BY Zenon, <1>2, <1>6 DEF Pick, Refuse, Wake, LookAgain, RoundOver, Sleep, pass, history
<1>7. CASE Queue(r) \/ Expire(r)
  BY Zenon, <1>1, <1>2, <1>7 DEF Queue, Expire, LookAgain, pass, history
<1>8. CASE QueueRefuses(r) \/ GiveUp(r) \/ Cancel(r) \/ Leave(r) \/ Decide(r)
  BY Zenon, <1>1, <1>2, <1>8 DEF QueueRefuses, GiveUp, Cancel, Leave, Decide, pass, history
<1>9. ASSUME NEW k, NEW h, Fail(r, k, h) PROVE TriesCounted(r)'
  BY Zenon, <1>2, <1>9 DEF Fail, history
<1>10. ASSUME NEW l, NEW b, Succeed(r, l, b) PROVE TriesCounted(r)'
  BY Zenon, <1>1, <1>2, <1>10 DEF Succeed, pass, history
<1> QED
  BY Zenon, <1>3, <1>4, <1>5, <1>6, <1>7, <1>8, <1>9, <1>10 DEF Step, Proceed, Answer

\* Every step keeps the tries counted.
LEMMA TriesStep == ASSUME TypeOK, [Next]_vars,
                          \A r \in Requests : Accounted(r) /\ TriesCounted(r) /\ Fresh(r)
                   PROVE  \A r \in Requests : TriesCounted(r)'
<1> SUFFICES ASSUME NEW q \in Requests PROVE TriesCounted(q)'
  BY Zenon
<1>1. ASSUME NEW r \in Requests, Step(r) PROVE TriesCounted(q)'
  <2>1. CASE q = r
    BY Zenon, <1>1, <2>1, StepTries
  <2>2. CASE q # r
    BY <1>1, <2>2, OthersKept DEF Kept, TriesCounted
  <2> QED
    BY Zenon, <2>1, <2>2
<1>2. CASE Tick \/ (\E c \in Creds : Lift(c)) \/ UNCHANGED vars
  BY Zenon, <1>2 DEF Tick, Lift, vars, pass, history, TriesCounted
<1> QED
  BY Zenon, <1>1, <1>2, NextCases

-----------------------------------------------------------------------------
(* Slots. *)

\* Finitely many requests execute.
LEMMA ExecutingFinite == ASSUME NEW c PROVE IsFiniteSet(Executing(c))
  BY Zenon, PoolAssumption, FS_Subset DEF Executing

\* A step that keeps the call inside its execution, or outside of one.
LEMMA SlotsSame == ASSUME SlotsReturned, UNCHANGED slots,
                          \A q \in Requests : \/ {pc[q], pc'[q]} \cap Holding = {}
                                              \/ {pc[q], pc'[q]} \subseteq Holding /\ cur'[q] = cur[q]
                   PROVE  SlotsReturned'
<1>1. ASSUME NEW c \in Creds PROVE Executing(c)' = Executing(c)
  BY Zenon, <1>1 DEF Executing, Holding
<1> QED
  BY Zenon, <1>1 DEF SlotsReturned

\* Taking a slot counts the request that takes it.
LEMMA SlotTaken == ASSUME TypeOK, SlotsReturned, NEW r \in Requests, NEW c \in Creds,
                          \A q \in Requests \ {r} : Kept(q), pc[r] \notin Holding,
                          pc'[r] \in Holding, cur'[r] = c,
                          slots' = [slots EXCEPT ![c] = @ + 1]
                   PROVE  SlotsReturned'
<1>1. ASSUME NEW d \in Creds, d # c PROVE Executing(d)' = Executing(d) /\ slots'[d] = slots[d]
  BY Zenon, <1>1 DEF Executing, Holding, Kept, TypeOK, PoolType
<1>2. Executing(c)' = Executing(c) \cup {r} /\ r \notin Executing(c)
  BY DEF Executing, Holding, Kept
<1>3. Cardinality(Executing(c) \cup {r}) = Cardinality(Executing(c)) + 1
  BY Zenon, <1>2, ExecutingFinite, FS_AddElement
<1>4. slots'[c] = slots[c] + 1
  BY Zenon DEF TypeOK, PoolType
<1> QED
  BY Zenon, <1>1, <1>2, <1>3, <1>4 DEF SlotsReturned

\* Returning a slot discounts the request that held it.
LEMMA SlotFreed == ASSUME TypeOK, SlotsReturned, NEW r \in Requests, NEW c \in Creds,
                          \A q \in Requests \ {r} : Kept(q), pc[r] \in Holding, cur[r] = c,
                          pc'[r] \notin Holding, Release(c)
                   PROVE  SlotsReturned' /\ slots' \in [Creds -> Nat]
<1>0. slots' = [slots EXCEPT ![c] = @ - 1]
  BY Zenon DEF Release
<1>1. ASSUME NEW d \in Creds, d # c PROVE Executing(d)' = Executing(d) /\ slots'[d] = slots[d]
  BY Zenon, <1>0, <1>1 DEF Executing, Holding, Kept, TypeOK, PoolType
<1>2. Executing(c)' = Executing(c) \ {r} /\ r \in Executing(c)
  BY Zenon DEF Executing, Holding, Kept
<1>3. Cardinality(Executing(c) \ {r}) = Cardinality(Executing(c)) - 1
  BY Zenon, <1>2, ExecutingFinite, FS_RemoveElement
<1>4. Cardinality(Executing(c) \ {r}) \in Nat
  BY Zenon, ExecutingFinite, FS_CardinalityType, FS_RemoveElement
<1>5. slots'[c] = slots[c] - 1
  BY Zenon, <1>0 DEF TypeOK, PoolType
<1>6. SlotsReturned'
  BY Zenon, <1>1, <1>2, <1>3, <1>5 DEF SlotsReturned
<1>7. slots'[c] \in Nat
  BY Zenon, <1>3, <1>4, <1>5 DEF SlotsReturned
<1> QED
  BY Zenon, <1>0, <1>6, <1>7 DEF TypeOK, PoolType

\* A request that returns is done.
LEMMA ReturnsDone == ASSUME TypeOK, NEW r \in Requests, Return(r)
                     PROVE  pc'[r] = "done"
  BY Zenon DEF Return, Goto, TypeOK, PassType

\* Every step of a request keeps the slots counted.
LEMMA StepSlots == ASSUME TypeOK, SlotsReturned, NEW r \in Requests, Accounted(r), Step(r)
                   PROVE  SlotsReturned' /\ slots' \in [Creds -> Nat]
<1>0. \A q \in Requests \ {r} : Kept(q)
  BY Zenon, OthersKept
<1>1. ASSUME UNCHANGED slots, {pc[r], pc'[r]} \cap Holding = {}
      PROVE  SlotsReturned' /\ slots' \in [Creds -> Nat]
  <2>1. ASSUME NEW q \in Requests
        PROVE  \/ {pc[q], pc'[q]} \cap Holding = {}
               \/ {pc[q], pc'[q]} \subseteq Holding /\ cur'[q] = cur[q]
    BY <1>0, <1>1 DEF Kept
  <2> QED
    BY Zenon, <1>1, <2>1, SlotsSame DEF TypeOK, PoolType
<1>2. ASSUME pc[r] \in Holding, pc'[r] \notin Holding, Release(cur[r])
      PROVE  SlotsReturned' /\ slots' \in [Creds -> Nat]
  <2>1. cur[r] \in Creds
    BY Zenon, <1>2 DEF Accounted, TypeOK, PassType
  <2> QED
    BY Zenon, <1>0, <1>2, <2>1, SlotFreed
<1>3. CASE Admit(r)
  <2>1. cur[r] \in Creds
    BY Zenon, <1>3 DEF Admit, Accounted, TypeOK, PassType
  <2>2. pc[r] \notin Holding /\ pc'[r] \in Holding /\ cur'[r] = cur[r]
    BY Zenon, <1>3 DEF Admit, Goto, Holding, TypeOK, PassType
  <2>3. slots' = [slots EXCEPT ![cur[r]] = @ + 1]
    BY Zenon, <1>3 DEF Admit
  <2> QED
    <3>1. SlotsReturned'
      BY Zenon, <1>0, <2>1, <2>2, <2>3, SlotTaken
    <3>2. slots' \in [Creds -> Nat]
      BY <2>1, <2>3 DEF TypeOK, PoolType
    <3> QED
      BY Zenon, <3>1, <3>2
<1>4. ASSUME NEW k, NEW h, Fail(r, k, h) PROVE SlotsReturned' /\ slots' \in [Creds -> Nat]
  <2>1. pc[r] \in Holding /\ pc'[r] \notin Holding
    BY Zenon, <1>4 DEF Fail, Goto, Holding, TypeOK, PassType
  <2> QED
    BY Zenon, <1>2, <1>4, <2>1 DEF Fail
<1>5. CASE Leave(r)
  BY Zenon, <1>2, <1>5, ReturnsDone DEF Leave, Holding
<1>6. ASSUME NEW l, NEW b, Succeed(r, l, b) PROVE SlotsReturned' /\ slots' \in [Creds -> Nat]
  <2>1. CASE Return(r) /\ Release(cur[r])
    BY Zenon, <1>2, <1>6, <2>1, ReturnsDone DEF Succeed, Holding
  <2>2. CASE Goto(r, "stream") /\ UNCHANGED <<slots, pass>>
    <3>1. pc[r] = "exec" /\ pc'[r] = "stream" /\ UNCHANGED cur
      BY Zenon, <1>6, <2>2 DEF Succeed, Goto, pass, TypeOK, PassType
    <3>2. ASSUME NEW q \in Requests
          PROVE  \/ {pc[q], pc'[q]} \cap Holding = {}
                 \/ {pc[q], pc'[q]} \subseteq Holding /\ cur'[q] = cur[q]
      BY Zenon, <1>0, <3>1 DEF Kept, Holding
    <3> QED
      BY Zenon, <2>2, <3>2, SlotsSame DEF TypeOK, PoolType
  <2> QED
    BY Zenon, <1>6, <2>1, <2>2 DEF Succeed
<1>7. CASE Begin(r) \/ (\E c \in Creds : Pick(r, c)) \/ Refuse(r)
  BY Zenon, <1>1, <1>7 DEF Begin, Pick, Refuse, Goto, Holding, pool, TypeOK, PassType
<1>8. CASE Queue(r) \/ Wake(r)
  BY Zenon, <1>1, <1>8 DEF Queue, NothingLeft, Wake, LookAgain, Goto, Holding, pool, TypeOK, PassType
<1>9. CASE Expire(r) \/ QueueRefuses(r) \/ Cancel(r)
  <2>1. pc'[r] \in {"pick", "done"}
    BY Zenon, <1>9, ReturnsDone DEF Expire, QueueRefuses, Cancel, LookAgain, Goto, TypeOK, PassType
  <2>2. pc[r] \notin Holding /\ UNCHANGED slots
    BY Zenon, <1>9 DEF Expire, QueueRefuses, Cancel, NothingLeft, Holding, pool
  <2> QED
    BY Zenon, <1>1, <2>1, <2>2 DEF Holding
<1>10. CASE RoundOver(r) \/ Sleep(r) \/ NextRound(r)
  BY Zenon, <1>1, <1>10 DEF RoundOver, Sleep, NextRound, Goto, Holding, pool, TypeOK, PassType
<1>11. CASE Decide(r) \/ GiveUp(r)
  BY Zenon, <1>1, <1>11, ReturnsDone DEF Decide, GiveUp, Goto, Holding, pool, TypeOK, PassType
<1> QED
  BY Zenon, <1>3, <1>4, <1>5, <1>6, <1>7, <1>8, <1>9, <1>10, <1>11 DEF Step, Proceed, Answer

\* Every step keeps the slots counted.
LEMMA SlotsStep == ASSUME TypeOK, SlotsReturned, \A r \in Requests : Accounted(r), [Next]_vars
                   PROVE  SlotsReturned' /\ slots' \in [Creds -> Nat]
<1>1. CASE \E r \in Requests : Step(r)
  BY Zenon, <1>1, StepSlots
<1>2. CASE Tick \/ (\E c \in Creds : Lift(c)) \/ UNCHANGED vars
  <2>1. UNCHANGED <<slots, pc, cur>>
    BY Zenon, <1>2 DEF Tick, Lift, vars, pool, pass
  <2>2. \A q \in Requests : \/ {pc[q], pc'[q]} \cap Holding = {}
                            \/ {pc[q], pc'[q]} \subseteq Holding /\ cur'[q] = cur[q]
    BY Zenon, <2>1
  <2> QED
    BY Zenon, <2>1, <2>2, SlotsSame DEF TypeOK, PoolType
<1> QED
  BY Zenon, <1>1, <1>2, NextCases

-----------------------------------------------------------------------------
(* The queueing deadline, and sleeps. *)

Budgeted(r) ==
    /\ budget[r] = None => queued[r] = 0
    /\ budget[r] # None => queued[r] + budget[r] <= QueueTimeout
    /\ pc[r] = "full" => budget[r] # None

Rests(r) == slept[r] <= MaxWait

\* A request that returns waits no longer.
LEMMA ReturnWaits == ASSUME TypeOK, NEW r \in Requests, Return(r)
                     PROVE  Budgeted(r)' /\ Rests(r)'
<1>1. pc'[r] = "done" /\ budget'[r] = None /\ queued'[r] = 0 /\ slept'[r] = 0
  BY Zenon DEF Return, Goto, TypeOK, PassType, WaitType, HistoryType
<1> QED
  BY <1>1, TimeAssumption DEF Budgeted, Rests

\* Every step of a request keeps its wait within its budget.
LEMMA StepWaits == ASSUME TypeOK, NEW r \in Requests, Budgeted(r), Rests(r), Step(r)
                   PROVE  Budgeted(r)' /\ Rests(r)'
<1>1. ASSUME Return(r) PROVE Budgeted(r)' /\ Rests(r)'
  BY Zenon, <1>1, ReturnWaits
<1>2. ASSUME NEW l \in Labels \ {"full"}, Goto(r, l), UNCHANGED <<budget, queued>>,
             slept'[r] = slept[r] \/ slept'[r] <= MaxWait
      PROVE  Budgeted(r)' /\ Rests(r)'
  BY Zenon, <1>2 DEF Budgeted, Rests, Goto, TypeOK, PassType
<1> USE DEF Labels
<1>3. CASE Begin(r) \/ (\E c \in Creds : Pick(r, c)) \/ Admit(r) \/ Refuse(r)
  <2>1. CASE Begin(r)
    BY Zenon, <1>2, <2>1 DEF Begin, wait, history
  <2>2. ASSUME NEW c \in Creds, Pick(r, c) PROVE Budgeted(r)' /\ Rests(r)'
    BY Zenon, <1>2, <2>2 DEF Pick, wait, history
  <2>3. CASE Admit(r)
    BY Zenon, <1>2, <2>3 DEF Admit, wait
  <2>4. CASE Refuse(r)
    BY Zenon, <1>2, <2>4 DEF Refuse, wait, history
  <2> QED
    BY Zenon, <1>3, <2>1, <2>2, <2>3, <2>4
<1>4. CASE Queue(r)
  <2>1. CASE LookAgain(r) /\ UNCHANGED <<budget, history>>
    BY Zenon, <1>2, <2>1 DEF LookAgain, history
  <2>2. CASE budget' = [budget EXCEPT ![r] = remaining(r)] /\ UNCHANGED history
    <3>1. budget'[r] = remaining(r) /\ queued'[r] = queued[r] /\ Rests(r)'
      BY Zenon, <2>2 DEF history, Rests, TypeOK, WaitType
    <3> QED
      BY <3>1, TimeAssumption DEF Budgeted, remaining, TypeOK, WaitType, HistoryType
  <2> QED
    BY Zenon, <1>4, <2>1, <2>2 DEF Queue
<1>5. CASE Wake(r)
  BY Zenon, <1>2, <1>5 DEF Wake, LookAgain, history
<1>6. CASE Expire(r)
  BY Zenon, <1>1, <1>2, <1>6 DEF Expire, LookAgain, history
<1>7. CASE QueueRefuses(r) \/ GiveUp(r) \/ Cancel(r) \/ Leave(r)
  BY Zenon, <1>1, <1>7 DEF QueueRefuses, GiveUp, Cancel, Leave
<1>8. CASE RoundOver(r)
  BY Zenon, <1>2, <1>8 DEF RoundOver, wait, history
<1>9. CASE Decide(r)
  BY Zenon, <1>1, <1>2, <1>9 DEF Decide, history
<1>10. CASE Sleep(r)
  <2>1. slept'[r] <= MaxWait
    <3>1. PICK d \in Jittered(RetryDelay(r)) : slept' = [slept EXCEPT ![r] = d]
      BY Zenon, <1>10 DEF Sleep
    <3>2. d <= MaxWait
      BY Zenon, <1>10, DelayType, JitterBounded DEF Sleep
    <3> QED
      BY Zenon, <3>1, <3>2 DEF TypeOK, HistoryType
  <2> QED
    BY Zenon, <1>2, <1>10, <2>1 DEF Sleep
<1>11. CASE NextRound(r)
  <2>1. slept'[r] <= MaxWait
    <3>1. slept'[r] = 0
      BY Zenon, <1>11 DEF NextRound, TypeOK, HistoryType
    <3> QED
      BY <3>1, TimeAssumption
  <2> QED
    BY Zenon, <1>2, <1>11, <2>1 DEF NextRound, wait
<1>12. ASSUME NEW k, NEW h, Fail(r, k, h) PROVE Budgeted(r)' /\ Rests(r)'
  BY Zenon, <1>2, <1>12 DEF Fail, history
<1>13. ASSUME NEW l, NEW b, Succeed(r, l, b) PROVE Budgeted(r)' /\ Rests(r)'
  BY Zenon, <1>1, <1>2, <1>13 DEF Succeed, wait, history
<1> QED
  BY Zenon, <1>3, <1>4, <1>5, <1>6, <1>7, <1>8, <1>9, <1>10, <1>11, <1>12, <1>13 DEF Step, Proceed, Answer

\* The passing of time keeps the waits within their budgets.
LEMMA TickWaits == ASSUME TypeOK, NEW q \in Requests, Budgeted(q), Rests(q), Tick
                   PROVE  Budgeted(q)' /\ Rests(q)'
<1>1. /\ budget'[q] = IF budget[q] = None THEN None ELSE Less(budget[q])
      /\ queued'[q] = queued[q] + (IF pc[q] = "full" THEN 1 ELSE 0)
      /\ pc' = pc /\ slept' = slept /\ (pc[q] = "full" => budget[q] > 0)
  BY Zenon DEF Tick, pass
<1>2. queued[q] \in Nat /\ budget[q] \in Nat \cup {None} /\ None \notin Nat
  BY Zenon, TimeAssumption DEF TypeOK, HistoryType, WaitType
<1>3. CASE budget[q] = None
  <2>1. pc[q] # "full" /\ queued[q] = 0 /\ slept[q] <= MaxWait
    BY Zenon, <1>3 DEF Budgeted, Rests
  <2>2. budget'[q] = None /\ pc'[q] = pc[q] /\ slept'[q] = slept[q]
    BY Zenon, <1>1, <1>3
  <2>3. queued'[q] = 0
    BY <1>1, <2>1
  <2> QED
    BY Zenon, <2>1, <2>2, <2>3 DEF Budgeted, Rests
<1>4. CASE budget[q] \in Nat
  BY <1>1, <1>2, <1>4, TimeAssumption DEF Budgeted, Rests, Less
<1> QED
  BY Zenon, <1>2, <1>3, <1>4

\* Every step keeps the waits within their budgets.
LEMMA WaitsStep == ASSUME TypeOK, \A r \in Requests : Budgeted(r) /\ Rests(r), [Next]_vars
                   PROVE  \A r \in Requests : Budgeted(r)' /\ Rests(r)'
<1> SUFFICES ASSUME NEW q \in Requests PROVE Budgeted(q)' /\ Rests(q)'
  BY Zenon
<1>1. ASSUME NEW r \in Requests, Step(r) PROVE Budgeted(q)' /\ Rests(q)'
  <2>1. CASE q = r
    BY Zenon, <1>1, <2>1, StepWaits
  <2>2. CASE q # r
    BY <1>1, <2>2, OthersKept DEF Kept, Budgeted, Rests
  <2> QED
    BY Zenon, <2>1, <2>2
<1>2. CASE (\E c \in Creds : Lift(c)) \/ UNCHANGED vars
  BY Zenon, <1>2 DEF Lift, vars, wait, history, Budgeted, Rests
<1> QED
  BY Zenon, <1>1, <1>2, TickWaits, NextCases

-----------------------------------------------------------------------------
(* Types. *)

\* A request that returns has typed variables.
LEMMA ReturnTypes == ASSUME TypeOK, NEW r \in Requests, Return(r)
                     PROVE  PassType' /\ timer' \in [Requests -> Nat]
                            /\ budget' \in [Requests -> Nat \cup {None}] /\ HistoryType'
  BY Zenon DEF Return, Goto, TypeOK, PassType, WaitType, HistoryType, Labels, Errors

\* So has one that begins a round,
LEMMA RoundTypes == ASSUME TypeOK, NEW r \in Requests, NEW n \in Nat, RoundOf(r, n),
                           NEW l \in Labels, Goto(r, l), UNCHANGED cur
                    PROVE  PassType'
<1>1. requestRetryRoundExclusions(n) \in SUBSET Creds
  BY Zenon, ExclusionsType
<1> QED
  BY Zenon, <1>1 DEF RoundOf, Goto, TypeOK, PassType, Errors

\* one that moves on with what it has,
LEMMA MoveTypes == ASSUME TypeOK, NEW r \in Requests, NEW l \in Labels, Goto(r, l), UNCHANGED pass
                   PROVE  PassType'
  BY Zenon DEF Goto, pass, TypeOK, PassType

\* and one that looks for another credential.
LEMMA LookAgainTypes == ASSUME TypeOK, NEW r \in Requests, LookAgain(r)
                        PROVE  PassType' /\ woken' \subseteq Requests /\ UNCHANGED timer
  BY Zenon DEF LookAgain, Goto, TypeOK, PassType, WaitType, Labels

\* What the scheduler answers when it has no credential.
LEMMA PickErrorType == ASSUME TypeOK, NEW r \in Requests
                       PROVE  PickError(r).err \in Errors /\ PickError(r).after \in Nat \cup {None}
<1> DEFINE untried == Creds \ tried[r]
           lefts == {left[c] : c \in untried}
<1>1. lefts \subseteq Nat
  BY Zenon DEF TypeOK, PoolType
<1>2. untried # {} => lefts # {}
  BY Zenon
<1>3. untried # {} => Min(lefts) \in Nat
  <2> HIDE DEF lefts
  <2> QED
    BY Zenon, <1>1, <1>2, MinNat
<1> QED
  BY Zenon, <1>3 DEF PickError, Errors

\* Every step of a request keeps the types of its pass,
LEMMA StepPass == ASSUME TypeOK, NEW r \in Requests, Accounted(r), Step(r)
                  PROVE  PassType'
<1> USE DEF Labels
<1>1. ASSUME Return(r) PROVE PassType'
  BY Zenon, <1>1, ReturnTypes
<1>2. ASSUME NEW l \in Labels, Goto(r, l), UNCHANGED pass PROVE PassType'
  BY Zenon, <1>2, MoveTypes
<1>3. CASE Begin(r)
  BY Zenon, <1>3, RoundTypes DEF Begin
<1>4. ASSUME NEW c \in Creds, Pick(r, c) PROVE PassType'
  BY Zenon, <1>4 DEF Pick, Goto, TypeOK, PassType
<1>5. CASE Admit(r)
  <2>1. cur[r] \in Creds
    BY Zenon, <1>5 DEF Admit, Accounted, TypeOK, PassType
  <2> QED
    BY Zenon, <1>5, <2>1 DEF Admit, Goto, TypeOK, PassType
<1>6. CASE Refuse(r)
  <2>1. cur[r] \in Creds
    BY Zenon, <1>6 DEF Refuse, Accounted, TypeOK, PassType
  <2> QED
    BY Zenon, <1>6, <2>1 DEF Refuse, Goto, TypeOK, PassType
<1>7. CASE Queue(r) \/ Wake(r) \/ Expire(r)
  BY Zenon, <1>1, <1>2, <1>7, LookAgainTypes DEF Queue, Wake, Expire
<1>8. CASE QueueRefuses(r) \/ GiveUp(r) \/ Cancel(r) \/ Leave(r)
  BY Zenon, <1>1, <1>8 DEF QueueRefuses, GiveUp, Cancel, Leave
<1>9. CASE RoundOver(r)
  <2>1. PICK e, a : /\ e \in Errors /\ a \in Nat \cup {None}
                    /\ last' = [last EXCEPT ![r] = e] /\ after' = [after EXCEPT ![r] = a]
    <3>1. CASE last[r] # None
      BY Zenon, <1>9, <3>1 DEF RoundOver, TypeOK, PassType
    <3>2. CASE last[r] = None /\ CapReached(r)
      BY Zenon, <1>9, <3>2 DEF RoundOver, Errors
    <3>3. CASE last[r] = None /\ ~ CapReached(r)
      BY Zenon, <1>9, <3>3, PickErrorType DEF RoundOver
    <3> QED
      BY Zenon, <3>1, <3>2, <3>3
  <2> QED
    <3>1. last' \in [Requests -> Errors] /\ after' \in [Requests -> Nat \cup {None}]
      BY Zenon, <2>1 DEF TypeOK, PassType
    <3>2. pc' \in [Requests -> Labels]
      BY Zenon, <1>9 DEF RoundOver, Goto, TypeOK, PassType
    <3>3. UNCHANGED <<round, tried, attempted, picked, busy, cur>>
      BY Zenon, <1>9 DEF RoundOver
    <3> QED
      BY Zenon, <3>1, <3>2, <3>3 DEF TypeOK, PassType
<1>10. CASE Decide(r) \/ Sleep(r)
  BY Zenon, <1>1, <1>2, <1>10 DEF Decide, Sleep
<1>11. CASE NextRound(r)
  <2>1. round[r] + 1 \in Nat
    BY DEF TypeOK, PassType
  <2> QED
    BY Zenon, <1>11, <2>1, RoundTypes DEF NextRound
<1>12. ASSUME NEW k \in Kinds, NEW h \in Hints \cup {None}, Fail(r, k, h) PROVE PassType'
  <2>1. k \in Errors /\ h \in Nat \cup {None}
    BY Zenon, KindAssumption, TimeAssumption DEF Errors
  <2> QED
    BY Zenon, <1>12, <2>1 DEF Fail, Goto, TypeOK, PassType
<1>13. ASSUME NEW l, NEW b, Succeed(r, l, b) PROVE PassType'
  BY Zenon, <1>1, <1>2, <1>13 DEF Succeed
<1> QED
  BY Zenon, <1>3, <1>4, <1>5, <1>6, <1>7, <1>8, <1>9, <1>10, <1>11, <1>12, <1>13 DEF Step, Proceed, Answer

\* of its waits and of its history.
LEMMA StepWaitTypes == ASSUME TypeOK, NEW r \in Requests, Accounted(r), Step(r)
                       PROVE  WaitType' /\ HistoryType'
<1>0. WaitType /\ HistoryType
  BY Zenon DEF TypeOK
<1>1. ASSUME Return(r), woken' \subseteq Requests PROVE WaitType' /\ HistoryType'
  BY Zenon, <1>1, ReturnTypes DEF WaitType
<1>2. ASSUME UNCHANGED <<timer, budget, history>>, woken' \subseteq Requests PROVE WaitType' /\ HistoryType'
  BY Zenon, <1>0, <1>2 DEF WaitType, HistoryType, history
<1>3. ASSUME UNCHANGED woken PROVE woken' \subseteq Requests
  BY Zenon, <1>0, <1>3 DEF WaitType
<1>4. ASSUME NEW c, Release(c) PROVE woken' \subseteq Requests
  BY Zenon, <1>0, <1>4 DEF Release, WaitType
<1>5. CASE Begin(r) \/ (\E c \in Creds : Pick(r, c)) \/ Refuse(r) \/ RoundOver(r)
  BY Zenon, <1>2, <1>3, <1>5 DEF Begin, Pick, Refuse, RoundOver, wait
<1>6. CASE Admit(r)
  <2>1. cur[r] \in Creds
    BY Zenon, <1>6 DEF Admit, Accounted, TypeOK, PassType
  <2>2. HistoryType'
    <3>1. tries[r] \in [Creds -> Nat] /\ tries[r][cur[r]] + 1 \in Nat
      BY <1>0, <2>1 DEF HistoryType
    <3>2. tries' \in [Requests -> [Creds -> Nat]]
      BY Zenon, <1>0, <1>6, <2>1, <3>1 DEF Admit, HistoryType
    <3> QED
      BY Zenon, <1>0, <1>6, <3>2 DEF Admit, HistoryType
  <2>3. WaitType'
    BY Zenon, <1>0, <1>6 DEF Admit, wait, WaitType
  <2> QED
    BY Zenon, <2>2, <2>3
<1>7. CASE Queue(r)
  <2>1. CASE LookAgain(r) /\ UNCHANGED budget
    BY Zenon, <1>2, <1>7, <2>1, LookAgainTypes DEF Queue
  <2>2. CASE budget' = [budget EXCEPT ![r] = remaining(r)] /\ UNCHANGED <<timer, woken>>
    <3>1. remaining(r) \in Nat \cup {None}
      BY Zenon, <1>0, TimeAssumption DEF remaining, WaitType
    <3> QED
      BY Zenon, <1>0, <1>7, <2>2, <3>1 DEF Queue, WaitType, HistoryType, history
  <2> QED
    BY Zenon, <1>7, <2>1, <2>2 DEF Queue
<1>8. CASE Wake(r)
  BY Zenon, <1>2, <1>8, LookAgainTypes DEF Wake
<1>9. CASE Expire(r) \/ Cancel(r)
  <2>1. CASE LookAgain(r) /\ UNCHANGED <<budget, history>>
    BY Zenon, <1>2, <2>1, LookAgainTypes
  <2>2. CASE Return(r) /\ woken' = woken \ {r}
    BY Zenon, <1>0, <1>1, <2>2 DEF WaitType
  <2> QED
    BY Zenon, <1>9, <2>1, <2>2 DEF Expire, Cancel
<1>10. CASE QueueRefuses(r) \/ GiveUp(r)
  BY Zenon, <1>1, <1>3, <1>10 DEF QueueRefuses, GiveUp
<1>11. CASE Leave(r)
  BY Zenon, <1>1, <1>4, <1>11 DEF Leave
<1>12. CASE Decide(r)
  BY Zenon, <1>1, <1>2, <1>3, <1>12 DEF Decide
<1>13. CASE Sleep(r)
  <2>1. PICK d \in Jittered(RetryDelay(r)) : /\ timer' = [timer EXCEPT ![r] = d]
                                            /\ slept' = [slept EXCEPT ![r] = d]
    BY Zenon, <1>13 DEF Sleep
  <2>2. d \in Nat
    BY Zenon, <1>13, DelayType, JitterBounded DEF Sleep
  <2> QED
    BY Zenon, <1>0, <1>13, <2>1, <2>2 DEF Sleep, WaitType, HistoryType
<1>14. CASE NextRound(r)
  BY Zenon, <1>0, <1>14 DEF NextRound, wait, WaitType, HistoryType
<1>15. ASSUME NEW k, NEW h, Fail(r, k, h) PROVE WaitType' /\ HistoryType'
  BY Zenon, <1>2, <1>4, <1>15 DEF Fail
<1>16. ASSUME NEW l, NEW b, Succeed(r, l, b) PROVE WaitType' /\ HistoryType'
  BY Zenon, <1>1, <1>2, <1>3, <1>4, <1>16 DEF Succeed, wait
<1> QED
  BY Zenon, <1>5, <1>6, <1>7, <1>8, <1>9, <1>10, <1>11, <1>12, <1>13, <1>14, <1>15, <1>16
     DEF Step, Proceed, Answer

\* A credential that rests has a typed block.
LEMMA RestedType == ASSUME TypeOK, NEW l \in [Creds -> Nat], Rested(l)
                    PROVE  left' \in [Creds -> Nat] /\ why' \in [Creds -> AllKinds \cup {None}]
  BY Zenon DEF Rested, TypeOK, PoolType

\* Every step of a request keeps the blocks typed.
LEMMA StepBlocks == ASSUME TypeOK, NEW r \in Requests, Accounted(r), Step(r)
                    PROVE  left' \in [Creds -> Nat] /\ why' \in [Creds -> AllKinds \cup {None}]
<1>0. left \in [Creds -> Nat] /\ why \in [Creds -> AllKinds \cup {None}]
  BY Zenon DEF TypeOK, PoolType
<1>1. ASSUME NEW k \in Kinds, NEW h, Fail(r, k, h)
      PROVE  left' \in [Creds -> Nat] /\ why' \in [Creds -> AllKinds \cup {None}]
  <2> DEFINE c == cur[r]
             rest == IF c \in Uncooled THEN 0 ELSE Rest[k]
  <2>1. c \in Creds
    BY Zenon, <1>1 DEF Fail, Accounted, Holding, TypeOK, PassType
  <2>2. rest \in Nat /\ left[c] \in Nat
    BY Zenon, <1>0, <2>1, KindAssumption
  <2>3. Max({left[c], rest}) \in Nat
    BY <2>2, MaxNat, Zenon
  <2>4. /\ left' = [left EXCEPT ![c] = IF rest = 0 THEN 0 ELSE Max({left[c], rest})]
        /\ why' = [why EXCEPT ![c] = IF rest = 0 THEN None ELSE k]
    BY <1>1, Zenon DEF Fail
  <2> HIDE DEF c, rest
  <2> QED
    BY Zenon, <1>0, <2>1, <2>2, <2>3, <2>4, KindAssumption
<1>2. ASSUME NEW lifts, NEW b, Succeed(r, lifts, b)
      PROVE  left' \in [Creds -> Nat] /\ why' \in [Creds -> AllKinds \cup {None}]
  <2> DEFINE l == IF lifts THEN [left EXCEPT ![cur[r]] = 0] ELSE left
  <2>1. l \in [Creds -> Nat]
    BY Zenon, <1>0
  <2>2. Rested(l)
    BY Zenon, <1>2 DEF Succeed
  <2> HIDE DEF l
  <2> QED
    BY Zenon, <2>1, <2>2, RestedType
<1>3. CASE Begin(r) \/ (\E c \in Creds : Pick(r, c)) \/ Refuse(r) \/ RoundOver(r) \/ Cancel(r) \/ Leave(r)
  BY Zenon, <1>0, <1>3 DEF Begin, Pick, Refuse, RoundOver, Cancel, Leave, pool
<1>4. CASE Admit(r) \/ Queue(r) \/ QueueRefuses(r) \/ Wake(r) \/ Expire(r)
  BY Zenon, <1>0, <1>4 DEF Admit, Queue, QueueRefuses, Wake, Expire, pool
<1>5. CASE Decide(r) \/ Sleep(r) \/ GiveUp(r) \/ NextRound(r)
  BY Zenon, <1>0, <1>5 DEF Decide, Sleep, GiveUp, NextRound, pool
<1> QED
  BY Zenon, <1>1, <1>2, <1>3, <1>4, <1>5 DEF Step, Proceed, Answer

\* The passing of time keeps the types.
LEMMA TickTypes == ASSUME TypeOK, Tick
                   PROVE  TypeOK'
<1>1. /\ left' \in [Creds -> Nat] /\ why' \in [Creds -> AllKinds \cup {None}]
  <2> DEFINE l == [c \in Creds |-> Less(left[c])]
  <2>1. l \in [Creds -> Nat]
    BY DEF Less, TypeOK, PoolType
  <2>2. Rested(l)
    BY Zenon DEF Tick
  <2> HIDE DEF l
  <2> QED
    BY Zenon, <2>1, <2>2, RestedType
<1>2. WaitType'
  <2>1. \A n \in Nat : Less(n) \in Nat
    BY DEF Less
  <2>2. timer' \in [Requests -> Nat]
    BY Zenon, <2>1 DEF Tick, TypeOK, WaitType
  <2>3. budget' \in [Requests -> Nat \cup {None}]
    BY Zenon, <2>1 DEF Tick, TypeOK, WaitType
  <2> QED
    BY Zenon, <2>2, <2>3 DEF Tick, TypeOK, WaitType
<1>3. HistoryType'
  <2>1. queued' \in [Requests -> Nat]
    BY DEF Tick, TypeOK, HistoryType
  <2> QED
    BY Zenon, <2>1 DEF Tick, TypeOK, HistoryType
<1>4. PassType' /\ slots' \in [Creds -> Nat]
  BY Zenon DEF Tick, pass, TypeOK, PassType, PoolType
<1> QED
  BY Zenon, <1>1, <1>2, <1>3, <1>4 DEF TypeOK, PoolType

\* Lifting a block keeps the types.
LEMMA LiftTypes == ASSUME TypeOK, NEW c \in Creds, Lift(c)
                   PROVE  TypeOK'
<1>1. /\ left' \in [Creds -> Nat] /\ why' \in [Creds -> AllKinds \cup {None}]
  <2>1. [left EXCEPT ![c] = 0] \in [Creds -> Nat]
    BY Zenon DEF TypeOK, PoolType
  <2> QED
    BY Zenon, <2>1, RestedType DEF Lift
<1>2. WaitType' /\ HistoryType'
  BY Zenon DEF Lift, wait, history, TypeOK, WaitType, HistoryType
<1>3. PassType' /\ slots' \in [Creds -> Nat]
  BY Zenon DEF Lift, pass, TypeOK, PassType, PoolType
<1> QED
  BY Zenon, <1>1, <1>2, <1>3 DEF TypeOK, PoolType

-----------------------------------------------------------------------------
(* The inductive invariant, and what follows from it. *)

RoundsInv ==
    /\ TypeOK /\ SlotsReturned
    /\ \A r \in Requests : /\ Accounted(r) /\ Fresh(r) /\ TriesCounted(r)
                           /\ Budgeted(r) /\ Rests(r)

\* The inductive invariant holds initially.
LEMMA RoundsInit == Init => RoundsInv
<1> SUFFICES ASSUME Init PROVE RoundsInv
  BY Zenon
<1>1. TypeOK
  BY Zenon DEF Init, TypeOK, PoolType, PassType, WaitType, HistoryType, Labels, Errors
<1>2. SlotsReturned
  <2>1. \A c \in Creds : Executing(c) = {} /\ slots[c] = 0
    BY Zenon DEF Init, Executing
  <2> QED
    BY Zenon, <2>1, FS_EmptySet DEF SlotsReturned
<1>3. ASSUME NEW r \in Requests
      PROVE  Accounted(r) /\ Fresh(r) /\ TriesCounted(r) /\ Budgeted(r) /\ Rests(r)
  <2>1. Accounted(r) /\ Fresh(r)
    BY Zenon, ExclusionsType DEF Init, Accounted, Excluded, Holding, Fresh
  <2>2. TriesCounted(r)
    BY LimitAssumption DEF Init, TriesCounted
  <2>3. Budgeted(r) /\ Rests(r)
    <3>1. pc[r] = "idle" /\ budget[r] = None /\ queued[r] = 0 /\ slept[r] = 0
      BY Zenon DEF Init
    <3>2. Budgeted(r)
      BY Zenon, <3>1 DEF Budgeted
    <3>3. MaxWait \in Nat
      BY Zenon, TimeAssumption
    <3>4. Rests(r)
      BY <3>1, <3>3 DEF Rests
    <3> QED
      BY Zenon, <3>2, <3>4
  <2> QED
    BY Zenon, <2>1, <2>2, <2>3
<1> QED
  BY Zenon, <1>1, <1>2, <1>3 DEF RoundsInv

\* Every step keeps the types.
LEMMA TypesStep == RoundsInv /\ [Next]_vars => TypeOK'
<1> SUFFICES ASSUME RoundsInv, [Next]_vars PROVE TypeOK'
  BY Zenon
<1>0. TypeOK /\ SlotsReturned /\ \A r \in Requests : Accounted(r)
  BY Zenon DEF RoundsInv
<1>1. ASSUME NEW r \in Requests, Step(r) PROVE TypeOK'
  BY Zenon, <1>0, <1>1, StepSlots, StepBlocks, StepPass, StepWaitTypes DEF TypeOK, PoolType
<1>2. CASE UNCHANGED vars
  BY Zenon, <1>0, <1>2 DEF vars, pool, pass, wait, history, TypeOK, PoolType, PassType, WaitType, HistoryType
<1> QED
  BY Zenon, <1>0, <1>1, <1>2, TickTypes, LiftTypes, NextCases

\* Every step keeps the inductive invariant.
LEMMA RoundsStep == RoundsInv /\ [Next]_vars => RoundsInv'
<1> SUFFICES ASSUME RoundsInv, [Next]_vars PROVE RoundsInv'
  BY Zenon
<1>1. TypeOK'
  BY Zenon, TypesStep
<1>2. SlotsReturned'
  BY Zenon, SlotsStep DEF RoundsInv
<1>3. \A r \in Requests : Accounted(r)'
  BY Zenon, AccountedStep DEF RoundsInv
<1>4. \A r \in Requests : Fresh(r)'
  BY Zenon, FreshStep DEF RoundsInv
<1>5. \A r \in Requests : TriesCounted(r)'
  BY Zenon, TriesStep DEF RoundsInv
<1>6. \A r \in Requests : Budgeted(r)' /\ Rests(r)'
  BY Zenon, WaitsStep DEF RoundsInv
<1> QED
  BY Zenon, <1>1, <1>2, <1>3, <1>4, <1>5, <1>6 DEF RoundsInv

\* The inductive invariant is an invariant.
LEMMA RoundsAlways == Spec => []RoundsInv
  BY RoundsInit, RoundsStep, PTL DEF Spec

\* Types are right for every pool and any number of calls: no slot is released twice, no
\* deadline goes negative.
THEOREM TypeCorrect == Spec => []TypeOK
<1>1. RoundsInv => TypeOK
  BY Zenon DEF RoundsInv
<1> QED
  BY <1>1, RoundsAlways, PTL

\* executeMixedOnce and its rounds never attempt a credential more often than its
\* request-retry setting allows, however often the call queues for it.
THEOREM RetriesBounded == Spec => []TriesWithinLimits
<1>1. RoundsInv => TriesWithinLimits
  BY Zenon DEF RoundsInv, TriesCounted, TriesWithinLimits
<1> QED
  BY <1>1, RoundsAlways, PTL

\* A call queues for its one deadline at most, in all rounds together.
THEOREM QueueingBounded == Spec => []QueueBudget
<1>1. RoundsInv => QueueBudget
  <2> SUFFICES ASSUME RoundsInv, NEW r \in Requests PROVE queued[r] <= QueueTimeout
    BY Zenon DEF QueueBudget
  <2>1. Budgeted(r) /\ queued[r] \in Nat /\ budget[r] \in Nat \cup {None}
    BY Zenon DEF RoundsInv, TypeOK, HistoryType, WaitType
  <2> QED
    BY <2>1, TimeAssumption DEF Budgeted
<1> QED
  BY <1>1, RoundsAlways, PTL

\* No sleep between rounds exceeds max-retry-interval, whatever the jitter.
THEOREM SleepsBounded == Spec => []SleepBounded
<1>1. RoundsInv => SleepBounded
  BY Zenon DEF RoundsInv, Rests, SleepBounded
<1> QED
  BY <1>1, RoundsAlways, PTL

\* Every slot counted on a credential is held by exactly one running execution.
THEOREM SlotsAlwaysReturned == Spec => []SlotsReturned
<1>1. RoundsInv => SlotsReturned
  BY Zenon DEF RoundsInv
<1> QED
  BY <1>1, RoundsAlways, PTL

-----------------------------------------------------------------------------
(* Failover. *)

\* A request gives up a round only when the round is over.
LEMMA StepDecides == ASSUME TypeOK, NEW r \in Requests, Step(r), GivesUpRound(r)
                     PROVE  RoundOver(r)
<1>0. pc[r] = "pick" /\ pc'[r] = "decide"
  BY Zenon DEF GivesUpRound
<1>1. ~ Return(r)
  BY Zenon, <1>0, ReturnsDone
<1>2. ASSUME NEW l, Goto(r, l) PROVE l = "decide"
  BY Zenon, <1>0, <1>2 DEF Goto, TypeOK, PassType
<1>3. ~ LookAgain(r)
  BY Zenon, <1>2 DEF LookAgain
<1>4. ~ (Begin(r) \/ (\E c \in Creds : Pick(r, c)) \/ Admit(r) \/ Refuse(r))
  BY Zenon, <1>0, <1>2 DEF Begin, Pick, Admit, Refuse
<1>5. ~ (Queue(r) \/ QueueRefuses(r) \/ Wake(r) \/ Expire(r) \/ Cancel(r))
  BY Zenon, <1>1, <1>2, <1>3 DEF Queue, QueueRefuses, Wake, Expire, Cancel
<1>6. ~ (Decide(r) \/ Sleep(r) \/ GiveUp(r) \/ NextRound(r))
  BY Zenon, <1>0 DEF Decide, Sleep, GiveUp, NextRound
<1>7. ~ Answer(r)
  BY Zenon, <1>0 DEF Answer, Fail, Succeed, Leave
<1> QED
  BY Zenon, <1>4, <1>5, <1>6, <1>7 DEF Step, Proceed

\* The same of every step.
LEMMA RoundEnds == ASSUME RoundsInv, [Next]_vars, NEW r \in Requests, GivesUpRound(r)
                   PROVE  RoundOver(r)
<1>1. ASSUME NEW q \in Requests, Step(q), q # r PROVE FALSE
  BY Zenon, <1>1, OthersKept DEF Kept, GivesUpRound, RoundsInv
<1>2. CASE Tick \/ (\E c \in Creds : Lift(c)) \/ UNCHANGED vars
  BY Zenon, <1>2 DEF Tick, Lift, vars, GivesUpRound
<1> QED
  BY Zenon, <1>1, <1>2, StepDecides, NextCases DEF RoundsInv

\* A round is given up only when nobody is left: no credential that could have served the
\* call is forgotten, whether it was busy before or freed in the meantime.
THEOREM FailoverComplete == Spec => NoneSkipped
<1>1. RoundsInv /\ [Next]_vars =>
        [\A r \in Requests : GivesUpRound(r) =>
            \A c \in Creds \ (attempted[r] \cup Bare) :
                Blocked(c) \/ c \in requestRetryRoundExclusions(round[r])]_vars
  <2> SUFFICES ASSUME RoundsInv, [Next]_vars, NEW r \in Requests, GivesUpRound(r),
                      NEW c \in Creds \ (attempted[r] \cup Bare)
               PROVE  Blocked(c) \/ c \in requestRetryRoundExclusions(round[r])
    BY Zenon
  <2>1. RoundOver(r)
    BY Zenon, RoundEnds
  <2>2. Candidates(r) = {} /\ busy[r] = {} /\ pc[r] = "pick"
    BY Zenon, <2>1 DEF RoundOver, GivesUpRound
  <2>3. c \in tried[r] \/ Blocked(c)
    BY Zenon, <2>2 DEF Candidates
  <2>4. Accounted(r) /\ cur[r] = None /\ c # None
    BY Zenon, <2>2, PoolAssumption DEF RoundsInv, Accounted, Holding
  <2> QED
    BY Zenon, <2>2, <2>3, <2>4 DEF Accounted, Excluded
<1> QED
  BY <1>1, RoundsAlways, PTL DEF Spec, NoneSkipped
=============================================================================
