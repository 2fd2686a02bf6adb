-------------------------- MODULE PromptWindow_proof --------------------------
(***************************************************************************)
(* Theorems about PromptWindow.  A prompt step is a step, so everything    *)
(* that is proved of SlidingWindow holds here too; what is added is about  *)
(* time.                                                                   *)
(***************************************************************************)
EXTENDS PromptWindow, SlidingWindow_proof

USE LimitAssumption, WindowAssumption, SleepAssumption, NoneAssumption

LEMMA PromptIsAStep == [PromptNext]_vars => [Next]_vars
BY DEF PromptNext, Next

\* Running on time is a restriction: the inductive invariant of the window holds.
THEOREM PromptInvariance == PromptSpec => []IInv
BY InitHolds, NextKeepsIInv, PromptIsAStep, PTL DEF PromptSpec

\* What each step does to the time and to the calls that are open.
LEMMA CallsAndTime ==
    ASSUME IInv, [PromptNext]_vars, NEW c \in Caller, Open(c)'
    PROVE  \/ clock' = clock + 1 /\ Settled /\ UNCHANGED <<attempt, pc, wake, pause, grants>>
           \/ clock' = clock /\ Begin(c)
           \/ /\ clock' = clock
              /\ attempt'[c].cost = attempt[c].cost
              /\ attempt'[c].deadline = attempt[c].deadline
<1>1. attempt \in [Caller -> Attempts] /\ pc \in [Caller -> Places] /\ nextTicket \in Nat
  BY DEF IInv, Shape, Typed
<1>2. CASE Settled /\ Tick
  BY <1>2 DEF Tick, history
<1>3. CASE UNCHANGED vars
  BY <1>3 DEF vars
<1>4. ASSUME NEW d \in Caller, Step(d), ~Begin(d)
      PROVE  /\ clock' = clock
             /\ attempt'[c].cost = attempt[c].cost
             /\ attempt'[c].deadline = attempt[c].deadline
  <2>1. CASE Grant(d) \/ Release(d)
    <3>1. clock' = clock /\ attempt' = [attempt EXCEPT ![d] = NoAttempt]
      BY <2>1 DEF Grant, Release
    <3>2. c # d
      BY <1>1, <3>1 DEF NoAttempt, Open
    <3>3. QED BY <1>1, <3>1, <3>2
  <2>2. CASE Refuse(d)
    <3>1. CASE attempt[d].ticket = None
      <4>1. clock' = clock /\ attempt' = [attempt EXCEPT ![d].ticket = nextTicket]
        BY <2>2, <3>1 DEF Refuse
      <4>2. QED BY <1>1, <4>1 DEF Attempts
    <3>2. CASE attempt[d].ticket # None
      BY <2>2, <3>2 DEF Refuse
    <3>3. QED BY <3>1, <3>2
  <2>3. CASE Sleep(d)
    <3>1. clock' = clock /\ attempt' = [attempt EXCEPT ![d].waited = TRUE]
      BY <2>3 DEF Sleep
    <3>2. QED BY <1>1, <3>1 DEF Attempts
  <2>4. CASE ~(Grant(d) \/ Release(d) \/ Refuse(d) \/ Sleep(d))
    BY <1>4, <2>4
    DEF Step, BeginRead, TakeLock, ExpireOldest, ReturnUsed, MeasureNothing, Walk,
        GiveUp, CountTimeout, WakeUp, Interrupt
  <2>5. QED BY <2>1, <2>2, <2>3, <2>4
<1>5. ASSUME NEW d \in Caller, Begin(d), d # c
      PROVE  clock' = clock /\ attempt'[c] = attempt[c]
  BY <1>1, <1>5 DEF Begin
<1>6. ASSUME Begin(c) PROVE clock' = clock
  BY <1>6 DEF Begin
<1>7. QED BY <1>2, <1>3, <1>4, <1>5, <1>6 DEF PromptNext

\* While everybody keeps up, an open call has not passed its deadline, or is asleep
\* and wakes before the shortest sleep after it is over.
LEMMA DeadlineStep == IInv /\ EndsByDeadline /\ [PromptNext]_vars => EndsByDeadline'
<1> SUFFICES ASSUME IInv, EndsByDeadline, [PromptNext]_vars,
                    NEW c \in Caller, Open(c)', attempt'[c].deadline # None
             PROVE  clock' < attempt'[c].deadline + MinSleep
  BY DEF EndsByDeadline, Open
<1>1. /\ clock \in Nat /\ attempt \in [Caller -> Attempts]
      /\ wake \in [Caller -> Nat] /\ attempt' \in [Caller -> Attempts]
  <2>1. [Next]_vars
    BY PromptIsAStep
  <2>2. Shape /\ Shape'
    BY <2>1, ShapeStep DEF IInv
  <2>3. QED BY <2>2 DEF IInv, Shape, Typed, NeverNegative
<1>2. attempt'[c].deadline \in Nat
  BY <1>1 DEF Attempts
<1>3. CASE clock' = clock + 1 /\ Settled /\ UNCHANGED <<attempt, pc, wake, pause, grants>>
  <2>1. Open(c) /\ attempt'[c].deadline = attempt[c].deadline
    BY <1>3 DEF Open
  <2>2. pc[c] # "idle"
    BY <2>1 DEF IInv, Shape, Discipline, NoAttempt, Open
  <2>3. pc[c] = "asleep" /\ clock < wake[c]
    BY <1>3, <2>2 DEF Settled
  <2>4. wake[c] < attempt[c].deadline + MinSleep
    BY <2>1, <2>3 DEF IInv, OversleepIsBounded
  <2>5. wake[c] \in Nat
    BY <1>1
  <2>6. QED BY <1>1, <1>2, <1>3, <2>1, <2>3, <2>4, <2>5
<1>4. CASE clock' = clock /\ Begin(c)
  <2>1. PICK cost \in Costs, timeout \in Timeouts :
           /\ Acceptable(cost, timeout)
           /\ attempt' = [attempt EXCEPT ![c] =
                 [cost |-> cost, started |-> clock,
                  deadline |-> IF timeout = None THEN None ELSE clock + timeout,
                  ticket |-> None, waited |-> FALSE]]
    BY <1>4 DEF Begin
  <2>2. attempt'[c].deadline = clock + timeout /\ timeout # None
    BY <1>1, <2>1
  <2>3. timeout \in Int /\ timeout >= 0
    BY <2>1, <2>2, TimeoutsAssumption DEF Acceptable
  <2>4. QED BY <1>1, <1>4, <2>2, <2>3
<1>5. CASE /\ clock' = clock
           /\ attempt'[c].cost = attempt[c].cost
           /\ attempt'[c].deadline = attempt[c].deadline
  BY <1>5 DEF EndsByDeadline, Open
<1>6. QED BY <1>3, <1>4, <1>5, CallsAndTime

\* A timeout is kept: on a machine that keeps up, the call has returned or raised
\* less than one shortest sleep after its deadline.
THEOREM DeadlinesAreKept == PromptSpec => []EndsByDeadline
<1>1. Init => EndsByDeadline
  BY DEF Init, EndsByDeadline, Open, NoAttempt
<1>2. QED BY <1>1, DeadlineStep, PromptInvariance, PTL DEF PromptSpec

-----------------------------------------------------------------------------
\* The front of the line, when every call costs the same.

\* What is short of room now was short of room before: time only frees quota.
LEMMA RoomComesWithTime ==
    ASSUME IInv, NEW early \in Int, NEW late \in Int, early <= late, NEW cost \in Int,
           Budget!HasRoom(early, cost)
    PROVE  Budget!HasRoom(late, cost)
<1>1. \A i \in 1..Len(grants) : grants[i].at \in Nat
  BY Accounts DEF IInv
<1> SUFFICES ASSUME NEW i \in 1..Len(grants), late - grants[i].at < Window
             PROVE  Budget!Spent[Len(grants)] - Budget!Spent[i - 1] + cost <= Limit
  BY DEF Budget!HasRoom
<1>2. early - grants[i].at < Window
  BY <1>1
<1>3. QED BY <1>2 DEF Budget!HasRoom

\* Where there was no room there is none for more.
LEMMA MoreIsNoLess ==
    ASSUME NEW a \in Nat, NEW b \in Nat, NEW more \in Nat, NEW cost \in Int, NEW limit \in Nat,
           ~(a - b + cost <= limit)
    PROVE  ~((a + more) - b + cost <= limit)
OBVIOUS

\* No step makes room: what it adds to the history only costs.
LEMMA StepsMakeNoRoom ==
    ASSUME IInv, [Next]_vars, NEW t \in Int, NEW cost \in Int,
           ~Budget!HasRoom(t, cost)
    PROVE  ~Budget!HasRoom(t, cost)'
<1> DEFINE n == Len(grants)
<1>1. PICK i \in 1..n : /\ t - grants[i].at < Window
                        /\ ~(Spent[n] - Spent[i - 1] + cost <= Limit)
  BY DEF Budget!HasRoom, Budget!Spent, Spent
<1>2. CASE UNCHANGED grants
  BY <1>2 DEF Budget!HasRoom, Budget!Spent
<1>3. ASSUME NEW c \in Caller, Grant(c) PROVE ~Budget!HasRoom(t, cost)'
  <2>1. /\ n \in Nat /\ Len(grants') = n + 1
        /\ \A k \in 1..n : grants'[k] = grants[k]
        /\ \A k \in 0..n : Spent'[k] = Spent[k]
        /\ Spent'[n + 1] = Spent[n] + attempt[c].cost
        /\ attempt[c].cost \in 1..Limit
        /\ \A k \in 0..n : Spent[k] \in Nat
    BY <1>3, GrantAppends DEF IInv
  <2>2. i \in 1..Len(grants') /\ i - 1 \in 0..n /\ n \in 0..n
    BY <2>1
  <2>3. grants'[i] = grants[i] /\ Spent'[i - 1] = Spent[i - 1]
    BY <2>1, <2>2
  <2>4. Spent[n] \in Nat /\ Spent[i - 1] \in Nat
    BY <2>1, <2>2
  <2>5. ~(Spent'[n + 1] - Spent'[i - 1] + cost <= Limit)
    <3>1. attempt[c].cost \in Nat /\ Spent'[n + 1] = Spent[n] + attempt[c].cost
      BY <2>1
    <3>2. Limit \in Nat
      BY LimitAssumption
    <3>3. ~(Spent[n] - Spent[i - 1] + cost <= Limit)
      BY <1>1
    <3>4. ~((Spent[n] + attempt[c].cost) - Spent[i - 1] + cost <= Limit)
      BY <2>4, <3>1, <3>2, <3>3, MoreIsNoLess, Zenon
    <3>5. QED BY <2>3, <3>1, <3>4
  <2>6. Budget!Spent' = Spent'
    BY DEF Budget!Spent, Spent
  <2>7. QED BY <1>1, <2>1, <2>2, <2>3, <2>5, <2>6 DEF Budget!HasRoom
<1>4. QED
  BY <1>2, <1>3, Effects DEF IInv, InOrder, ExpireOldest, history

\* The clock stands still or ticks.
LEMMA StepsInTime == [Next]_vars => clock' = clock \/ clock' = clock + 1
BY DEF Next, Tick, Step, Begin, BeginRead, TakeLock, ExpireOldest, ReturnUsed, Grant,
       Refuse, MeasureNothing, Walk, Sleep, GiveUp, CountTimeout, WakeUp, Interrupt,
       Release, vars

\* A time at which the front still does not fit one tick earlier, or that is no
\* more than one shortest sleep away.
JustInTime(end, cost) == end <= clock + MinSleep \/ ~Budget!HasRoom(end - 1, cost)

\* When the sleep that a caller is in, or about to begin, is over.
EndsAt(c, end) == \/ pc[c] = "unlocked" /\ end = clock + pause[c]
                  \/ pc[c] = "asleep" /\ end = wake[c]

\* Every call costs u, and then nobody sleeps past the time the front fits.
OnePrice(u) ==
    /\ \A c \in Caller : Open(c) => attempt[c].cost = u
    /\ lock # None => section.now = clock
    /\ \A c \in Caller, end \in Int : EndsAt(c, end) => JustInTime(end, u)

LEMMA JustInTimeKept ==
    ASSUME IInv, [Next]_vars, NEW end \in Int, NEW u \in Int, JustInTime(end, u)
    PROVE  JustInTime(end, u)'
<1>1. clock \in Nat /\ (clock' = clock \/ clock' = clock + 1)
  BY StepsInTime DEF IInv, Shape, Typed
<1>2. CASE end <= clock + MinSleep
  <2>1. end <= clock' + MinSleep
    BY <1>1, <1>2
  <2>2. QED BY <2>1 DEF JustInTime
<1>3. CASE ~Budget!HasRoom(end - 1, u)
  <2>1. ~Budget!HasRoom(end - 1, u)'
    BY <1>3, StepsMakeNoRoom
  <2>2. QED BY <2>1 DEF JustInTime
<1>4. QED BY <1>2, <1>3 DEF JustInTime

\* The price of the call at the front.
LEMMA FrontPrice ==
    ASSUME IInv, NEW u, OnePrice(u), waiting # <<>>
    PROVE  waiting[1].cost = u
<1>1. waiting \in Seq(InLine)
  BY DEF IInv, Shape, TypedSequences
<1>2. 1 \in 1..Len(waiting) /\ waiting[1] \in InLine
  BY <1>1
<1>3. PICK d \in Caller : attempt[d].cost = waiting[1].cost
  BY <1>2 DEF IInv, Line, LineIsLive
<1>4. waiting[1].cost \in 1..Limit
  BY <1>2 DEF InLine
<1>5. Open(d)
  BY <1>3, <1>4 DEF Open
<1>6. QED BY <1>3, <1>5 DEF OnePrice

\* Time stands still in a critical section, which has read the clock.
LEMMA ReadsNow ==
    ASSUME IInv, [PromptNext]_vars, lock # None => section.now = clock
    PROVE  (lock # None => section.now = clock)'
<1>1. /\ pc \in [Caller -> Places] /\ section \in Section
      /\ lock \in Caller \cup {None}
      /\ \A c \in Caller : pc[c] \in Critical <=> lock = c
  BY DEF IInv, Shape, Typed, Discipline
<1>2. CASE Settled /\ Tick
  <2>1. lock = None
    BY <1>1, <1>2 DEF Settled, Critical
  <2>2. QED BY <1>2, <2>1 DEF Tick
<1>3. CASE UNCHANGED vars
  BY <1>3 DEF vars
<1>4. ASSUME NEW c \in Caller, TakeLock(c) PROVE (lock # None => section.now = clock)'
  BY <1>4 DEF TakeLock, NoSection
<1>5. ASSUME NEW c \in Caller, Walk(c) PROVE (lock # None => section.now = clock)'
  <2>1. \/ lock' = None
        \/ /\ lock' = lock /\ lock # None /\ clock' = clock
           /\ section' = [section EXCEPT !.seen = @ + 1,
                          !.released = section.released + log[section.seen + 1].cost]
    BY <1>1, <1>5 DEF Walk, Unlock, Critical
  <2>2. QED BY <1>1, <2>1 DEF Section
<1>6. ASSUME NEW c \in Caller, ExpireOldest(c) \/ Refuse(c)
      PROVE (lock # None => section.now = clock)'
  BY <1>6 DEF ExpireOldest, Refuse
<1>7. ASSUME NEW c \in Caller, ReturnUsed(c) \/ Grant(c) \/ MeasureNothing(c)
      PROVE (lock # None => section.now = clock)'
  BY <1>7 DEF ReturnUsed, Grant, MeasureNothing, Unlock
<1>8. ASSUME NEW c \in Caller, UNCHANGED <<clock, lock, section>>
      PROVE (lock # None => section.now = clock)'
  BY <1>8
<1>9. QED
  BY <1>2, <1>3, <1>4, <1>5, <1>6, <1>7, <1>8
  DEF PromptNext, Step, Begin, BeginRead, Sleep, GiveUp, CountTimeout, WakeUp,
      Interrupt, Release

\* A sleep, or a pause that leads to one, that is cut short is still just in time.
LEMMA Shorter ==
    ASSUME IInv, NEW end \in Int, NEW sooner \in Int, NEW u \in Int,
           JustInTime(end, u), sooner <= end
    PROVE  JustInTime(sooner, u)
<1>1. clock \in Nat
  BY DEF IInv, Shape, Typed
<1>2. CASE end <= clock + MinSleep
  <2>1. sooner <= clock + MinSleep
    BY <1>1, <1>2
  <2>2. QED BY <2>1 DEF JustInTime
<1>3. CASE ~Budget!HasRoom(end - 1, u)
  <2>1. ~Budget!HasRoom(sooner - 1, u)
    <3>1. end - 1 \in Int /\ sooner - 1 \in Int /\ sooner - 1 <= end - 1
      OBVIOUS
    <3>2. QED BY <1>3, <3>1, RoomComesWithTime
  <2>2. QED BY <2>1 DEF JustInTime
<1>4. QED BY <1>2, <1>3 DEF JustInTime

\* Every open call costs u.
LEMMA OnePriceOnly ==
    ASSUME IInv, [PromptNext]_vars, NEW u, Costs \subseteq {u},
           \A c \in Caller : Open(c) => attempt[c].cost = u
    PROVE  (\A c \in Caller : Open(c) => attempt[c].cost = u)'
<1> SUFFICES ASSUME NEW c \in Caller, Open(c)' PROVE attempt'[c].cost = u
  BY DEF Open
<1>1. attempt \in [Caller -> Attempts]
  BY DEF IInv, Shape, Typed
<1>2. CASE Begin(c)
  BY <1>1, <1>2 DEF Begin
<1>3. CASE attempt'[c].cost = attempt[c].cost
  BY <1>3 DEF Open
<1>4. CASE UNCHANGED attempt
  BY <1>4 DEF Open
<1>5. QED BY <1>2, <1>3, <1>4, CallsAndTime

\* A pause that was measured, and the sleep it leads to, ends just in time.
LEMMA SleepsEndInTime ==
    ASSUME IInv, [PromptNext]_vars, NEW u \in Int, OnePrice(u),
           NEW c \in Caller, NEW end \in Int, EndsAt(c, end)'
    PROVE  JustInTime(end, u)'
<1>0. [Next]_vars
  BY PromptIsAStep
<1>1. /\ clock \in Nat /\ pc \in [Caller -> Places] /\ attempt \in [Caller -> Attempts]
      /\ pause \in [Caller -> Nat] /\ wake \in [Caller -> Nat]
  BY DEF IInv, Shape, Typed, NeverNegative
<1>2. ASSUME EndsAt(c, end) PROVE JustInTime(end, u)'
  <2>1. JustInTime(end, u)
    BY <1>2 DEF OnePrice
  <2>2. QED BY <1>0, <2>1, JustInTimeKept
<1>3. CASE Walk(c) /\ pc'[c] = "unlocked"
  <2> DEFINE head == waiting[1].cost
             stop == section.now + pause'[c]
  <2>1. ~Budget!HasRoom(stop - 1, head)
    BY <1>3, WalkStopsAtRoom
  <2>2. lock = c /\ waiting # <<>> /\ clock' = clock /\ grants' = grants
    BY <1>3 DEF Walk, IInv, Shape, Discipline, Critical, FrontHasRoom, history
  <2>3. section.now = clock /\ head = u
    BY <2>2, FrontPrice DEF OnePrice
  <2>4. end = stop
    BY <1>3, <2>2, <2>3 DEF EndsAt
  <2>5. ~Budget!HasRoom(end - 1, u)
    BY <2>1, <2>3, <2>4
  <2>6. ~Budget!HasRoom(end - 1, u)'
    BY <2>2, <2>5 DEF Budget!HasRoom, Budget!Spent
  <2>7. QED BY <2>6 DEF JustInTime
<1>4. CASE MeasureNothing(c)
  <2>1. end = clock' + MinSleep
    BY <1>1, <1>4 DEF MeasureNothing, EndsAt
  <2>2. QED BY <2>1, <1>1 DEF JustInTime
<1>5. CASE Sleep(c)
  <2> DEFINE capped == IF attempt[c].deadline = None THEN pause[c]
                       ELSE AtMost(pause[c], Remaining(c))
  <2>1. /\ pc[c] = "unlocked" /\ clock' = clock /\ grants' = grants
        /\ end = clock + AtLeast(capped, MinSleep)
    BY <1>1, <1>5 DEF Sleep, EndsAt, history
  <2>2. capped \in Int /\ capped <= pause[c]
    BY <1>1 DEF AtMost, Remaining, Attempts
  <2> HIDE DEF capped
  <2>3. CASE capped < MinSleep
    <3>1. end <= clock' + MinSleep
      BY <1>1, <2>1, <2>2, <2>3 DEF AtLeast
    <3>2. QED BY <3>1 DEF JustInTime
  <2>4. CASE ~(capped < MinSleep)
    <3>1. end = clock + capped
      BY <2>1, <2>4 DEF AtLeast
    <3>2. clock + pause[c] \in Int /\ end <= clock + pause[c]
      BY <1>1, <2>2, <3>1
    <3>3. JustInTime(clock + pause[c], u)
      BY <2>1, <3>2 DEF OnePrice, EndsAt
    <3>4. JustInTime(end, u)
      BY <3>2, <3>3, Shorter
    <3>5. QED BY <1>0, <3>4, JustInTimeKept
  <2>5. QED BY <2>3, <2>4
<1>6. CASE Settled /\ Tick
  <2>1. pc[c] = "asleep" /\ end = wake[c]
    BY <1>6 DEF Settled, Tick, EndsAt
  <2>2. QED BY <1>2, <2>1 DEF EndsAt
<1>7. ASSUME clock' = clock,
             pc'[c] = "unlocked" => pc[c] = "unlocked" /\ pause'[c] = pause[c],
             pc'[c] = "asleep" => pc[c] = "asleep" /\ wake'[c] = wake[c]
      PROVE  JustInTime(end, u)'
  <2>1. EndsAt(c, end)
    BY <1>7 DEF EndsAt
  <2>2. QED BY <1>2, <2>1
<1>8. ASSUME NEW d \in Caller, Step(d), d # c PROVE JustInTime(end, u)'
  <2>1. clock' = clock /\ pc'[c] = pc[c] /\ pause'[c] = pause[c] /\ wake'[c] = wake[c]
    BY <1>1, <1>8
    DEF Step, Begin, BeginRead, TakeLock, ExpireOldest, ReturnUsed, Grant, Refuse,
        MeasureNothing, Walk, Sleep, GiveUp, CountTimeout, WakeUp, Interrupt, Release
  <2>2. QED BY <1>7, <2>1
<1>9. CASE Step(c) /\ ~Walk(c) /\ ~MeasureNothing(c) /\ ~Sleep(c)
  <2>1. clock' = clock /\ pc'[c] # "unlocked" /\ pc'[c] # "asleep"
    BY <1>1, <1>9
    DEF Step, Begin, BeginRead, TakeLock, ExpireOldest, ReturnUsed, Grant, Refuse,
        GiveUp, CountTimeout, WakeUp, Interrupt, Release
  <2>2. QED BY <1>7, <2>1
<1>10. CASE Walk(c) /\ pc'[c] # "unlocked"
  <2>1. clock' = clock /\ pc'[c] # "asleep"
    BY <1>1, <1>10 DEF Walk
  <2>2. QED BY <1>7, <1>10, <2>1
<1>11. CASE UNCHANGED vars
  BY <1>7, <1>11 DEF vars
<1>12. QED
  BY <1>3, <1>4, <1>5, <1>6, <1>8, <1>9, <1>10, <1>11 DEF PromptNext

\* If every call costs the same, the call at the front is awake when it fits, give
\* or take one shortest sleep: the queue costs no throughput then.
THEOREM FrontWakesInTime ==
    ASSUME NEW u \in Int, Costs \subseteq {u}
    PROVE  PromptSpec => []FrontIsAwake
<1>1. Init => OnePrice(u)
  BY DEF Init, OnePrice, Open, NoAttempt, EndsAt
<1>2. IInv /\ OnePrice(u) /\ [PromptNext]_vars => OnePrice(u)'
  <2> SUFFICES ASSUME IInv, OnePrice(u), [PromptNext]_vars PROVE OnePrice(u)'
    OBVIOUS
  <2>1. (\A c \in Caller : Open(c) => attempt[c].cost = u)'
    BY OnePriceOnly DEF OnePrice
  <2>2. (lock # None => section.now = clock)'
    BY ReadsNow DEF OnePrice
  <2>3. (\A c \in Caller, end \in Int : EndsAt(c, end) => JustInTime(end, u))'
    BY SleepsEndInTime
  <2>4. QED BY <2>1, <2>2, <2>3 DEF OnePrice
<1>3. IInv /\ OnePrice(u) => FrontIsAwake
  <2> SUFFICES ASSUME IInv, OnePrice(u), NEW c \in Caller, pc[c] = "asleep",
                      Budget!HasRoom(clock, attempt[c].cost), ~(wake[c] <= clock + MinSleep)
               PROVE  FALSE
    BY DEF FrontIsAwake
  <2>1. clock \in Nat /\ wake[c] \in Nat
    BY DEF IInv, Shape, Typed, NeverNegative
  <2>2. attempt[c].cost = u
    BY DEF IInv, Shape, Discipline, OnePrice
  <2>3. JustInTime(wake[c], u)
    BY <2>1 DEF OnePrice, EndsAt
  <2>4. ~Budget!HasRoom(wake[c] - 1, u)
    BY <2>3 DEF JustInTime
  <2>5. clock \in Int /\ wake[c] - 1 \in Int /\ clock <= wake[c] - 1
    BY <2>1
  <2>6. QED BY <2>2, <2>4, <2>5, RoomComesWithTime
<1>4. QED BY <1>1, <1>2, <1>3, PromptInvariance, PTL DEF PromptSpec
=============================================================================
