------------------------- MODULE SlidingWindow_proof -------------------------
(***************************************************************************)
(* Theorems about SlidingWindow.  The invariant is split into the parts    *)
(* that are about one thing each; a part is proved with the parts before   *)
(* it as lemmas.                                                           *)
(***************************************************************************)
EXTENDS SlidingWindow, SequenceTheorems, FiniteSetTheorems, RecursionTheorems

\* The type invariant without the bounds that need an argument.
Counters == [granted : Nat, waits : Nat, waitTime : Int, timeouts : Nat]

Typed ==
    /\ clock \in Nat
    /\ lock \in Caller \cup {None}
    /\ section \in Section
    /\ used \in Int
    /\ nextTicket \in Nat
    /\ stats \in Counters
    /\ pc \in [Caller -> Places]
    /\ attempt \in [Caller -> Attempts]
    /\ pause \in [Caller -> Int]
    /\ wake \in [Caller -> Int]
    /\ calls \in CallCounts

TypedSequences ==
    /\ log \in Seq(Entry)
    /\ waiting \in Seq(InLine)
    /\ grants \in Seq(GrantRecord)

\* The lock is held exactly by the caller inside a critical section, and a call
\* is open with an acceptable cost from _begin to the end of acquire.
Discipline ==
    /\ \A c \in Caller : pc[c] \in Critical <=> lock = c
    /\ \A c \in Caller : attempt[c].cost <= Limit
    /\ \A c \in Caller : pc[c] \in {"idle", "read"} => attempt[c] = NoAttempt
    /\ \A c \in Caller : pc[c] \notin {"idle", "read", "expire"} => Open(c)
    /\ \A c \in Caller : ~Open(c) => attempt[c] = NoAttempt

\* Grants carry the time their caller read under the lock, so they are in order
\* and none is later than the time read by the caller that holds the lock.
InOrder ==
    /\ section.now <= clock
    /\ \A k \in 1..Len(grants) : grants[k].at <= clock
    /\ lock # None => \A k \in 1..Len(grants) : grants[k].at <= section.now
    /\ \A j, k \in 1..Len(grants) : j <= k => grants[j].at <= grants[k].at

\* The running totals are running totals, and no grant was free.
Totals ==
    /\ \A k \in 1..Len(grants) : grants[k].total = Spent[k - 1] + grants[k].cost
    /\ \A j, k \in 0..Len(grants) : j <= k => Spent[j] <= Spent[k]
    /\ \A j, k \in 0..Len(grants) : j <= k => Spent[j] + (k - j) <= Spent[k]

\* What the log has dropped is out of the window, for good.
OnlyOldForgotten ==
    \A k \in 1..Forgotten :
        /\ grants[k].at + Window <= clock
        /\ lock # None => grants[k].at + Window <= section.now

\* Expiry is over when the pause is measured.
ExpiryIsOver == \A c \in Caller : pc[c] = "measure" => ~OldestHasExpired

Ledger == /\ LedgerAgrees
          /\ used \in 0..Limit
          /\ OnlyOldForgotten
          /\ ExpiryIsOver

\* The tickets in line are those of the open attempts, in the order they were
\* handed out.
Line ==
    /\ LineIsLive
    /\ \A c \in Caller : attempt[c].ticket # None => attempt[c].ticket < nextTicket
    /\ \A i \in 1..Len(waiting) : waiting[i].ticket < nextTicket
    /\ \A c, d \in Caller :
          (c # d /\ attempt[c].ticket # None) => attempt[c].ticket # attempt[d].ticket

\* How far the walk over the log has come.
WalkIsAt(c) ==
    /\ pc[c] = "expire" => section.seen = 0 /\ section.released = 0
    /\ pc[c] = "measure" =>
          /\ section.seen <= Len(log)
          /\ section.released = Spent[Forgotten + section.seen] - Spent[Forgotten]
          /\ section.seen > 0 => ~Enough(section.released)

WalkSoFar == \A c \in Caller : WalkIsAt(c)

\* A call that has slept has been open for at least one shortest sleep when it
\* polls again.
SleepsCountFor(c) ==
    Open(c) =>
        /\ attempt[c].started <= clock
        /\ pc[c] \in Critical => attempt[c].started <= section.now
        /\ attempt[c].waited =>
              /\ pc[c] = "poll" => attempt[c].started + MinSleep <= clock
              /\ pc[c] = "asleep" => attempt[c].started + MinSleep <= wake[c]
              /\ pc[c] \in Critical => attempt[c].started + MinSleep <= section.now

SleepsCount == \A c \in Caller : SleepsCountFor(c)

\* A call that has been refused holds a ticket until it is granted or released.
InLineOnceRefused ==
    \A c \in Caller :
        pc[c] \in {"measure", "unlocked", "timeout", "asleep", "release"}
            => attempt[c].ticket # None

Ends == Len(grants) + stats.timeouts + calls.interrupted

Tally == /\ IsFiniteSet(Pending)
         /\ calls.begun = Ends + Cardinality(Pending)
         /\ InLineOnceRefused

-----------------------------------------------------------------------------
USE LimitAssumption, WindowAssumption, SleepAssumption, NoneAssumption

Shape == Typed /\ TypedSequences /\ Discipline

\* The initial state.
LEMMA ShapeInit == Init => Shape
<1> SUFFICES ASSUME Init PROVE Shape
  OBVIOUS
<1>1. NoAttempt \in Attempts /\ NoSection \in Section
  BY DEF NoAttempt, Attempts, Tickets, NoSection, Section
<1>2. Typed
  BY <1>1 DEF Init, Typed, Places, Counters, CallCounts
<1>3. Discipline
  BY DEF Init, Discipline, Critical, NoAttempt, Open
<1>4. TypedSequences
  BY DEF Init, TypedSequences
<1>5. QED BY <1>2, <1>3, <1>4 DEF Shape

\* The sequences: a grant and an expiry keep the log a sequence of entries, a
\* refusal and a release keep the line one of tickets.
LEMMA SequencesStep ==
    ASSUME Typed, TypedSequences, Discipline, [Next]_vars
    PROVE  TypedSequences'
<1>1. ASSUME NEW c \in Caller, ExpireOldest(c) PROVE TypedSequences'
  <2>1. log \in Seq(Entry) /\ log # <<>> /\ log' = Tail(log)
    BY <1>1 DEF ExpireOldest, OldestHasExpired, TypedSequences
  <2>2. log' \in Seq(Entry)
    BY <2>1, HeadTailProperties
  <2>3. QED BY <1>1, <2>2 DEF ExpireOldest, TypedSequences, history
<1>2. ASSUME NEW c \in Caller, Grant(c) PROVE TypedSequences'
  <2>1. [at |-> section.now, cost |-> attempt[c].cost] \in Entry
    BY DEF Typed, Section, Attempts, Entry
  <2>2. log' \in Seq(Entry)
    BY <1>2, <2>1 DEF Grant, TypedSequences
  <2>3. Spent[Len(grants)] \in Nat
    <3>1. grants \in Seq(GrantRecord)
      BY DEF TypedSequences
    <3>2. Len(grants) # 0 => grants[Len(grants)] \in GrantRecord
      BY <3>1
    <3>3. QED BY <3>1, <3>2 DEF GrantRecord, Spent
  <2>4. [at |-> section.now, cost |-> attempt[c].cost,
         total |-> Spent[Len(grants)] + attempt[c].cost] \in GrantRecord
    BY <2>3 DEF Typed, Section, Attempts, GrantRecord
  <2>5. grants' \in Seq(GrantRecord)
    BY <1>2, <2>4 DEF Grant, TypedSequences
  <2>6. waiting' \in Seq(InLine)
    <3>1. CASE attempt[c].ticket = None
      BY <1>2, <3>1 DEF Grant, LeaveTheFront, TypedSequences
    <3>2. CASE attempt[c].ticket # None
      <4>1. waiting \in Seq(InLine)
        BY DEF TypedSequences
      <4>2. CASE waiting = <<>>
        BY <1>2, <3>2, <4>1, <4>2 DEF Grant, LeaveTheFront
      <4>3. CASE waiting # <<>>
        BY <1>2, <3>2, <4>1, <4>3 DEF Grant, LeaveTheFront
      <4>4. QED BY <4>2, <4>3
    <3>3. QED BY <3>1, <3>2
  <2>7. QED BY <2>2, <2>5, <2>6 DEF TypedSequences
<1>3. ASSUME NEW c \in Caller, Refuse(c) PROVE TypedSequences'
  <2>1. [ticket |-> nextTicket, cost |-> attempt[c].cost] \in InLine
    BY <1>3 DEF Refuse, Typed, Attempts, Open, Discipline, InLine
  <2>2. waiting' \in Seq(InLine)
    <3>1. waiting \in Seq(InLine)
      BY DEF TypedSequences
    <3>2. CASE attempt[c].ticket = None
      BY SMTT(30), <1>3, <2>1, <3>1, <3>2 DEF Refuse
    <3>3. CASE attempt[c].ticket # None
      BY <1>3, <3>1, <3>3 DEF Refuse
    <3>4. QED BY <3>2, <3>3
  <2>3. QED BY <1>3, <2>2 DEF Refuse, TypedSequences, history
<1>4. ASSUME NEW c \in Caller, Release(c) PROVE TypedSequences'
  <2>1. waiting \in Seq(InLine)
    BY DEF TypedSequences
  <2>2. waiting' \in Seq(InLine)
    BY <1>4, <2>1, RemoveAtMovesUp DEF Release, DropTicket
  <2>3. QED BY <1>4, <2>2 DEF Release, TypedSequences, history
<1>5. ASSUME UNCHANGED <<log, waiting, grants>> PROVE TypedSequences'
  BY <1>5 DEF TypedSequences
<1>6. QED
  BY <1>1, <1>2, <1>3, <1>4, <1>5
  DEF Next, Step, Tick, Begin, BeginRead, TakeLock, ReturnUsed, MeasureNothing,
      Walk, Sleep, GiveUp, CountTimeout, WakeUp, Interrupt, window, history, vars

\* Types are kept, and so is the discipline of the places: who may hold the lock,
\* which callers have a call open, and which of them hold a ticket.
LEMMA ShapeStep == Shape /\ [Next]_vars => Shape'
<1> SUFFICES ASSUME Typed, TypedSequences, Discipline, [Next]_vars
             PROVE Typed' /\ Discipline'
  BY SequencesStep DEF Shape
<1>0. CASE Tick
  <2>1. Typed'
    BY <1>0 DEF Tick, Typed, window, history
  <2>2. Discipline'
    BY <1>0 DEF Tick, Discipline, Open
  <2>3. QED BY <2>1, <2>2
<1>1. ASSUME NEW c \in Caller, Begin(c) PROVE Typed' /\ Discipline'
  <2>1. attempt' \in [Caller -> Attempts] /\ \A d \in Caller : d # c => attempt'[d] = attempt[d]
    BY <1>1, CostsAssumption, TimeoutsAssumption DEF Typed, Begin, Acceptable, Attempts, Tickets
  <2>2. attempt'[c].cost \in 1..Limit
    BY <1>1, CostsAssumption DEF Typed, Begin, Acceptable
  <2>4. calls' \in CallCounts
    BY <1>1 DEF Typed, Begin, CallCounts
  <2>7. pc' \in [Caller -> Places] /\ \A d \in Caller : pc'[d] = IF d = c THEN "poll" ELSE pc[d]
    BY <1>1 DEF Typed, Begin, Places
  <2>8. Typed'
    BY <1>1, <2>1, <2>4, <2>7 DEF Typed, Begin, window
  <2>9. \A d \in Caller : pc'[d] \in Critical <=> lock' = d
    BY <1>1, <2>7 DEF Discipline, Begin, Critical
  <2>10. Discipline'
    BY <2>1, <2>2, <2>7, <2>9 DEF Discipline, Open
  <2>11. QED BY <2>8, <2>10
<1>2. ASSUME NEW c \in Caller, BeginRead(c) PROVE Typed' /\ Discipline'
  <2>1. Typed'
    BY <1>2 DEF Typed, window, history, Places, BeginRead
  <2>2. Discipline'
    BY <1>2 DEF Typed, Discipline, Critical, Open, NoAttempt, window, history, Places, BeginRead
  <2>3. QED BY <2>1, <2>2
<1>3. ASSUME NEW c \in Caller, TakeLock(c) PROVE Typed' /\ Discipline'
  <2>1. section' \in Section
    BY <1>3 DEF Typed, TakeLock, Section, NoSection
  <2>2. attempt' = attempt /\ pc[c] \in {"poll", "read"}
    BY <1>3 DEF TakeLock
  <2>7. pc' \in [Caller -> Places] /\ \A d \in Caller : pc'[d] = IF d = c THEN "expire" ELSE pc[d]
    BY <1>3 DEF Typed, TakeLock, Places
  <2>8. Typed'
    BY <1>3, <2>1, <2>7 DEF Typed, TakeLock, window, history
  <2>9. \A d \in Caller : pc'[d] \in Critical <=> lock' = d
    BY <1>3, <2>7 DEF Discipline, TakeLock, Critical
  <2>10. Discipline'
    BY <2>2, <2>7, <2>9 DEF Discipline, Open
  <2>11. QED BY <2>8, <2>10
<1>4. ASSUME NEW c \in Caller, ExpireOldest(c) PROVE Typed' /\ Discipline'
  <2>1. Typed'
    BY <1>4 DEF Typed, window, history, Places, ExpireOldest, OldestHasExpired
  <2>2. Discipline'
    BY <1>4 DEF Typed, Discipline, Critical, Open, NoAttempt, window, history, Places, ExpireOldest, OldestHasExpired
  <2>3. QED BY <2>1, <2>2
<1>5. ASSUME NEW c \in Caller, ReturnUsed(c) PROVE Typed' /\ Discipline'
  <2>1. section' \in Section
    BY <1>5 DEF Typed, ReturnUsed, Unlock, Section, NoSection
  <2>2. attempt' = attempt /\ attempt[c] = NoAttempt
    BY <1>5 DEF ReturnUsed, Discipline
  <2>7. pc' \in [Caller -> Places] /\ \A d \in Caller : pc'[d] = IF d = c THEN "idle" ELSE pc[d]
    BY <1>5 DEF Typed, ReturnUsed, Places
  <2>8. Typed'
    BY <1>5, <2>1, <2>7 DEF Typed, ReturnUsed, window, history, Unlock
  <2>9. \A d \in Caller : pc'[d] \in Critical <=> lock' = d
    BY <1>5, <2>7 DEF Discipline, ReturnUsed, Critical, Unlock
  <2>10. Discipline'
    BY <2>2, <2>7, <2>9 DEF Discipline, Open
  <2>11. QED BY <2>8, <2>10
<1>6. ASSUME NEW c \in Caller, Grant(c) PROVE Typed' /\ Discipline'
  <2>1. /\ attempt' \in [Caller -> Attempts]
        /\ \A d \in Caller : attempt'[d] = IF d = c THEN NoAttempt ELSE attempt[d]
    BY <1>6 DEF Typed, Grant, NoAttempt, Attempts, Tickets
  <2>2. NoAttempt.cost = 0
    BY DEF NoAttempt
  <2>4. section' \in Section
    BY <1>6 DEF Grant, Unlock, Section, NoSection
  <2>5. stats' \in Counters
    <3>1. stats \in Counters /\ section.now - attempt[c].started \in Int
      BY DEF Typed, Section, Attempts
    <3>2. CASE attempt[c].waited
      <4>1. stats' = [granted |-> stats.granted + 1, waits |-> stats.waits + 1,
                    waitTime |-> stats.waitTime + (section.now - attempt[c].started),
                    timeouts |-> stats.timeouts]
        BY <1>6, <3>1, <3>2 DEF Grant, CountGrant, Counters
      <4>2. QED BY <3>1, <4>1 DEF Counters
    <3>3. CASE ~attempt[c].waited
      <4>1. stats' = [granted |-> stats.granted + 1, waits |-> stats.waits,
                    waitTime |-> stats.waitTime, timeouts |-> stats.timeouts]
        BY <1>6, <3>1, <3>3 DEF Grant, CountGrant, Counters
      <4>2. QED BY <3>1, <4>1 DEF Counters
    <3>4. QED BY <3>2, <3>3
  <2>6. used' \in Int
    BY <1>6 DEF Typed, Grant, Attempts
  <2>7. pc' \in [Caller -> Places] /\ \A d \in Caller : pc'[d] = IF d = c THEN "idle" ELSE pc[d]
    BY <1>6 DEF Typed, Grant, Places
  <2>8. Typed'
    BY <1>6, <2>1, <2>4, <2>5, <2>6, <2>7 DEF Typed, Grant, Unlock
  <2>9. \A d \in Caller : pc'[d] \in Critical <=> lock' = d
    BY <1>6, <2>7 DEF Discipline, Grant, Critical, Unlock
  <2>10. Discipline'
    BY <2>1, <2>2, <2>7, <2>9 DEF Discipline, Open
  <2>11. QED BY <2>8, <2>10
<1>7. ASSUME NEW c \in Caller, Refuse(c) PROVE Typed' /\ Discipline'
  <2>1. attempt' \in [Caller -> Attempts]
    <3>1. [attempt[c] EXCEPT !.ticket = nextTicket] \in Attempts
      BY DEF Typed, Attempts, Tickets
    <3>2. QED BY <1>7, <3>1 DEF Refuse, Typed
  <2>2. /\ \A d \in Caller : d # c => attempt'[d] = attempt[d]
        /\ attempt'[c].cost = attempt[c].cost
    BY SMTT(30), <1>7 DEF Typed, Refuse, Attempts
  <2>4. nextTicket' \in Nat
    BY <1>7 DEF Typed, Refuse
  <2>5. Open(c)
    BY <1>7 DEF Refuse
  <2>7. pc' \in [Caller -> Places] /\ \A d \in Caller : pc'[d] = IF d = c THEN "measure" ELSE pc[d]
    BY <1>7 DEF Typed, Refuse, Places
  <2>8. Typed'
    BY <1>7, <2>1, <2>4, <2>7 DEF Typed, Refuse, history
  <2>9. \A d \in Caller : pc'[d] \in Critical <=> lock' = d
    BY <1>7, <2>7 DEF Discipline, Refuse, Critical
  <2>10. Discipline'
    BY <2>2, <2>5, <2>7, <2>9 DEF Discipline, Open
  <2>11. QED BY <2>8, <2>10
<1>8. ASSUME NEW c \in Caller, MeasureNothing(c) PROVE Typed' /\ Discipline'
  <2>1. section' \in Section
    BY <1>8 DEF Typed, MeasureNothing, Unlock, Section, NoSection
  <2>2. attempt' = attempt /\ Open(c)
    BY <1>8 DEF MeasureNothing, Discipline
  <2>4. pause' \in [Caller -> Int]
    BY <1>8 DEF Typed, MeasureNothing
  <2>7. pc' \in [Caller -> Places] /\ \A d \in Caller : pc'[d] = IF d = c THEN "unlocked" ELSE pc[d]
    BY <1>8 DEF Typed, MeasureNothing, Places
  <2>8. Typed'
    BY <1>8, <2>1, <2>4, <2>7 DEF Typed, MeasureNothing, window, history, Unlock
  <2>9. \A d \in Caller : pc'[d] \in Critical <=> lock' = d
    BY <1>8, <2>7 DEF Discipline, MeasureNothing, Critical, Unlock
  <2>10. Discipline'
    BY <2>2, <2>7, <2>9 DEF Discipline, Open
  <2>11. QED BY <2>8, <2>10
<1>9. ASSUME NEW c \in Caller, Walk(c) PROVE Typed' /\ Discipline'
  <2> DEFINE entry == log[section.seen + 1]
             released == section.released + entry.cost
  <2>1. entry \in Entry /\ released \in Nat /\ TimeToExpiry(entry, section.now) \in Int
    <3>1. log \in Seq(Entry) /\ section \in Section
      BY DEF Typed, TypedSequences
    <3>2. section.now \in Nat /\ section.seen \in Nat /\ section.released \in Nat
      BY <3>1 DEF Section
    <3>3. entry \in Entry
      BY <1>9, <3>1, <3>2 DEF Walk
    <3>4. QED BY <3>2, <3>3 DEF Entry, TimeToExpiry
  <2>2. attempt' = attempt /\ Open(c)
    BY <1>9 DEF Walk, Discipline
  <2>3. CASE Enough(released)
    <3>1. /\ pause' \in [Caller -> Int]
          /\ lock' = None /\ section' \in Section
          /\ pc' = [pc EXCEPT ![c] = "unlocked"]
      BY SMTT(30), <1>9, <2>1, <2>3 DEF Typed, Walk, Unlock, NoSection, Section
    <3>2. pc' \in [Caller -> Places] /\ \A d \in Caller : pc'[d] = IF d = c THEN "unlocked" ELSE pc[d]
      BY <3>1 DEF Typed, Places
    <3>3. Typed'
      BY <1>9, <3>1, <3>2 DEF Typed, Walk, window, history
    <3>4. \A d \in Caller : pc'[d] \in Critical <=> lock' = d
      BY <1>9, <3>1, <3>2 DEF Discipline, Walk, Critical
    <3>5. Discipline'
      BY <2>2, <3>2, <3>4 DEF Discipline, Open
    <3>6. QED BY <3>3, <3>5
  <2>4. CASE ~Enough(released)
    <3>1. /\ section' \in Section
          /\ pause' = pause /\ lock' = lock /\ pc' = pc
      <4>1. section \in Section
        BY DEF Typed
      <4>2. section' = [now |-> section.now, seen |-> section.seen + 1,
                        released |-> released]
        BY <1>9, <2>4, <4>1 DEF Walk, Section
      <4>3. section' \in Section
        BY <2>1, <4>1, <4>2 DEF Section
      <4>4. QED BY <1>9, <2>4, <4>3 DEF Walk
    <3>2. Typed'
      BY <1>9, <3>1 DEF Typed, Walk, window, history
    <3>3. Discipline'
      BY <2>2, <3>1 DEF Discipline, Open
    <3>4. QED BY <3>2, <3>3
  <2>5. QED BY <2>3, <2>4
<1>10. ASSUME NEW c \in Caller, Sleep(c) PROVE Typed' /\ Discipline'
  <2>1. attempt' \in [Caller -> Attempts]
    <3>1. [attempt[c] EXCEPT !.waited = TRUE] \in Attempts
      <4>1. attempt[c] \in Attempts
        BY DEF Typed
      <4>2. QED BY <4>1 DEF Attempts
    <3>2. QED BY <1>10, <3>1 DEF Sleep, Typed
  <2>2. /\ \A d \in Caller : d # c => attempt'[d] = attempt[d]
        /\ attempt'[c].cost = attempt[c].cost
        /\ Open(c)
    BY <1>10 DEF Typed, Sleep, Attempts, Discipline
  <2>4. wake' \in [Caller -> Int] /\ pause' \in [Caller -> Int]
    <3>1. attempt[c].deadline # None => attempt[c].deadline \in Nat
      BY DEF Typed, Attempts
    <3>2. QED BY <1>10, <3>1 DEF Typed, Sleep, AtLeast, AtMost, Remaining
  <2>7. pc' \in [Caller -> Places] /\ \A d \in Caller : pc'[d] = IF d = c THEN "asleep" ELSE pc[d]
    BY <1>10 DEF Typed, Sleep, Places
  <2>8. Typed'
    BY <1>10, <2>1, <2>4, <2>7 DEF Typed, Sleep, window, history
  <2>9. \A d \in Caller : pc'[d] \in Critical <=> lock' = d
    BY <1>10, <2>7 DEF Discipline, Sleep, Critical
  <2>10. Discipline'
    BY <2>2, <2>7, <2>9 DEF Discipline, Open
  <2>11. QED BY <2>8, <2>10
<1>11. ASSUME NEW c \in Caller, GiveUp(c) PROVE Typed' /\ Discipline'
  <2>1. Typed'
    BY <1>11 DEF Typed, window, history, Places, GiveUp
  <2>2. Discipline'
    BY <1>11 DEF Typed, Discipline, Critical, Open, NoAttempt, window, history, Places, GiveUp
  <2>3. QED BY <2>1, <2>2
<1>12. ASSUME NEW c \in Caller, CountTimeout(c) PROVE Typed' /\ Discipline'
  <2>1. Typed'
    BY <1>12 DEF Typed, window, history, Places, CountTimeout, Counters
  <2>2. Discipline'
    BY <1>12 DEF Typed, Discipline, Critical, Open, NoAttempt, window, history, Places, CountTimeout, Counters
  <2>3. QED BY <2>1, <2>2
<1>13. ASSUME NEW c \in Caller, WakeUp(c) PROVE Typed' /\ Discipline'
  <2>1. Typed'
    BY <1>13 DEF Typed, window, history, Places, WakeUp
  <2>2. Discipline'
    BY <1>13 DEF Typed, Discipline, Critical, Open, NoAttempt, window, history, Places, WakeUp
  <2>3. QED BY <2>1, <2>2
<1>14. ASSUME NEW c \in Caller, Interrupt(c) PROVE Typed' /\ Discipline'
  <2>1. Typed'
    BY <1>14 DEF Typed, window, history, Places, Interrupt, CallCounts
  <2>2. Discipline'
    BY <1>14 DEF Typed, Discipline, Critical, Open, NoAttempt, window, history, Places, Interrupt, CallCounts
  <2>3. QED BY <2>1, <2>2
<1>15. ASSUME NEW c \in Caller, Release(c) PROVE Typed' /\ Discipline'
  <2>1. /\ attempt' \in [Caller -> Attempts]
        /\ \A d \in Caller : attempt'[d] = IF d = c THEN NoAttempt ELSE attempt[d]
    BY <1>15 DEF Typed, Release, NoAttempt, Attempts, Tickets
  <2>2. NoAttempt.cost = 0
    BY DEF NoAttempt
  <2>7. pc' \in [Caller -> Places] /\ \A d \in Caller : pc'[d] = IF d = c THEN "idle" ELSE pc[d]
    BY <1>15 DEF Typed, Release, Places
  <2>8. Typed'
    BY <1>15, <2>1, <2>7 DEF Typed, Release, history
  <2>9. \A d \in Caller : pc'[d] \in Critical <=> lock' = d
    BY <1>15, <2>7 DEF Discipline, Release, Critical
  <2>10. Discipline'
    BY <2>1, <2>2, <2>7, <2>9 DEF Discipline, Open
  <2>11. QED BY <2>8, <2>10
<1>16. CASE UNCHANGED vars
  <2>1. Typed'
    BY <1>16 DEF vars, Typed, window, history
  <2>2. Discipline'
    BY <1>16 DEF vars, Discipline, Open
  <2>3. QED BY <2>1, <2>2
<1>17. QED
  BY <1>0, <1>1, <1>2, <1>3, <1>4, <1>5, <1>6, <1>7, <1>8, <1>9, <1>10, <1>11, <1>12, <1>13, <1>14, <1>15, <1>16 DEF Next, Step

-----------------------------------------------------------------------------
\* What a step does to the accounts.  Every step either leaves them alone, and
\* moves the clock forward or opens, keeps or closes a critical section, or it
\* is a turn of the expiry, or a grant.
TimeMoves == /\ clock' >= clock
             /\ section'.now <= clock'
             /\ \/ lock' = None
                \/ lock' = lock /\ section'.now = section.now
                \/ lock' # None /\ section'.now = clock

\* What any step does to the ledger: a grant, one turn of the expiry loop, or
\* nothing; a critical section reads the clock once, when it starts.
LEMMA Effects ==
    ASSUME Shape, section.now <= clock, [Next]_vars
    PROVE  \/ UNCHANGED <<log, used, grants>> /\ TimeMoves
           \/ \E c \in Caller : ExpireOldest(c)
           \/ \E c \in Caller : Grant(c)
<1> USE DEF TimeMoves
<1>0. clock \in Nat /\ section \in Section /\ section.now \in Nat
  BY DEF Shape, Typed, Section
<1>1. ASSUME UNCHANGED <<log, used, grants, clock, lock, section>>
      PROVE  UNCHANGED <<log, used, grants>> /\ TimeMoves
  BY <1>0, <1>1
<1>2. CASE Tick
  BY <1>0, <1>2 DEF Tick, window, history
<1>3. ASSUME NEW c \in Caller, TakeLock(c)
      PROVE  UNCHANGED <<log, used, grants>> /\ TimeMoves
  BY <1>0, <1>3 DEF TakeLock, NoSection, window, history
<1>4. ASSUME NEW c \in Caller, Unlock, UNCHANGED <<log, used, grants, clock>>
      PROVE  UNCHANGED <<log, used, grants>> /\ TimeMoves
  BY <1>0, <1>4 DEF Unlock, NoSection
<1>5. ASSUME NEW c \in Caller, Walk(c)
      PROVE  UNCHANGED <<log, used, grants>> /\ TimeMoves
  <2> DEFINE released == section.released + log[section.seen + 1].cost
  <2>1. UNCHANGED <<log, used, grants, clock>>
    BY <1>5 DEF Walk, window, history
  <2>2. CASE Enough(released)
    BY <1>4, <1>5, <2>1, <2>2 DEF Walk
  <2>3. CASE ~Enough(released)
    <3>1. lock' = lock /\ section' = [section EXCEPT !.seen = @ + 1, !.released = released]
      BY <1>5, <2>3 DEF Walk
    <3>2. section'.now = section.now
      BY <1>0, <3>1 DEF Section
    <3>3. QED BY <1>0, <2>1, <3>1, <3>2
  <2>4. QED BY <2>2, <2>3
<1>6. QED
  BY <1>1, <1>2, <1>3, <1>4, <1>5
  DEF Next, Step, Begin, BeginRead, ReturnUsed, Refuse, MeasureNothing, Sleep,
      GiveUp, CountTimeout, WakeUp, Interrupt, Release, window, history, vars

\* What a grant appends to the history.
LEMMA GrantAppends ==
    ASSUME Shape, NEW c \in Caller, Grant(c)
    PROVE  LET n == Len(grants)
           IN /\ n \in Nat /\ Len(grants') = n + 1
              /\ \A k \in 1..n : grants'[k] = grants[k]
              /\ grants'[n + 1].at = section.now
              /\ grants'[n + 1].cost = attempt[c].cost
              /\ grants'[n + 1].total = Spent[n] + attempt[c].cost
              /\ \A k \in 0..n : Spent'[k] = Spent[k]
              /\ Spent'[n + 1] = Spent[n] + attempt[c].cost
              /\ \A k \in 0..n : Spent[k] \in Nat
              /\ attempt[c].cost \in 1..Limit
<1> DEFINE n == Len(grants)
           new == [at |-> section.now, cost |-> attempt[c].cost,
                   total |-> Spent[n] + attempt[c].cost]
<1>1. grants \in Seq(GrantRecord) /\ grants' = Append(grants, new)
  BY DEF Shape, TypedSequences, Grant
<1>2. /\ n \in Nat /\ Len(grants') = n + 1
      /\ \A k \in 1..n : grants'[k] = grants[k]
      /\ grants'[n + 1] = new
  BY <1>1
<1>3. \A k \in 0..n : Spent'[k] = Spent[k]
  BY <1>2 DEF Spent
<1>4. Spent'[n + 1] = Spent[n] + attempt[c].cost
  BY <1>2 DEF Spent
<1>5. \A k \in 1..n : grants[k] \in GrantRecord
  BY <1>1
<1>6. \A k \in 0..n : Spent[k] \in Nat
  BY <1>2, <1>5 DEF Spent, GrantRecord
<1>7. attempt[c].cost \in 1..Limit
  <2>1. attempt[c] \in Attempts /\ attempt[c].cost > 0 /\ attempt[c].cost <= Limit
    BY DEF Shape, Typed, Discipline, Grant, Open
  <2>2. QED BY <2>1 DEF Attempts
<1>8. QED BY <1>2, <1>3, <1>4, <1>6, <1>7

\* Times never run backwards: neither the log, nor the history, nor the clock
\* reading of the open critical section.
LEMMA InOrderStep == Shape /\ InOrder /\ [Next]_vars => InOrder'
<1> SUFFICES ASSUME Shape, InOrder, [Next]_vars PROVE InOrder'
  OBVIOUS
<1>1. clock \in Nat /\ section.now \in Nat /\ section.now <= clock
  BY DEF Shape, Typed, Section, InOrder
<1>2. \A k \in 1..Len(grants) : grants[k].at \in Nat
  <2>1. grants \in Seq(GrantRecord)
    BY DEF Shape, TypedSequences
  <2>2. \A k \in 1..Len(grants) : grants[k] \in GrantRecord
    BY <2>1
  <2>3. QED BY <2>2 DEF GrantRecord
<1>3. CASE UNCHANGED <<log, used, grants>> /\ TimeMoves
  <2>1. clock' \in Nat
    BY ShapeStep DEF Shape, Typed
  <2>2. QED BY <1>1, <1>2, <1>3, <2>1 DEF InOrder, TimeMoves
<1>4. ASSUME NEW c \in Caller, ExpireOldest(c) PROVE InOrder'
  BY <1>4 DEF ExpireOldest, InOrder, history
<1>5. ASSUME NEW c \in Caller, Grant(c) PROVE InOrder'
  <2>1. lock = c /\ lock' = None /\ section'.now = 0 /\ clock' = clock
    BY <1>5 DEF Grant, Unlock, NoSection, Shape, Discipline, Critical
  <2>2. \A k \in 1..Len(grants) : grants[k].at <= section.now
    BY <2>1 DEF InOrder
  <2>3. /\ Len(grants) \in Nat /\ Len(grants') = Len(grants) + 1
        /\ \A k \in 1..Len(grants) : grants'[k] = grants[k]
        /\ grants'[Len(grants) + 1].at = section.now
    BY <1>5, GrantAppends
  <2>4. \A k \in 1..Len(grants') : grants'[k].at <= clock
    BY <1>1, <1>2, <2>2, <2>3
  <2>5. \A j, k \in 1..Len(grants') : j <= k => grants'[j].at <= grants'[k].at
    BY <1>1, <1>2, <2>2, <2>3 DEF InOrder
  <2>6. QED BY <1>1, <2>1, <2>4, <2>5 DEF InOrder
<1>6. QED BY <1>1, <1>3, <1>4, <1>5, Effects

\* Every record of the history carries the running total of the ones before it.
LEMMA TotalsStep == Shape /\ InOrder /\ Totals /\ [Next]_vars => Totals'
<1> SUFFICES ASSUME Shape, InOrder, Totals, [Next]_vars PROVE Totals'
  OBVIOUS
<1>1. section.now <= clock
  BY DEF InOrder
<1>2. ASSUME grants' = grants PROVE Totals'
  BY <1>2 DEF Totals, Spent
<1>3. ASSUME NEW c \in Caller, Grant(c) PROVE Totals'
  <2> DEFINE n == Len(grants)
  <2>1. /\ n \in Nat /\ Len(grants') = n + 1
        /\ \A k \in 1..n : grants'[k] = grants[k]
        /\ grants'[n + 1].cost = attempt[c].cost
        /\ grants'[n + 1].total = Spent[n] + attempt[c].cost
        /\ \A k \in 0..n : Spent'[k] = Spent[k]
        /\ Spent'[n + 1] = Spent[n] + attempt[c].cost
        /\ \A k \in 0..n : Spent[k] \in Nat
        /\ attempt[c].cost \in 1..Limit
    BY <1>3, GrantAppends
  <2> HIDE DEF n
  <2>2. \A k \in 1..(n + 1) : grants'[k].total = Spent'[k - 1] + grants'[k].cost
    <3> SUFFICES ASSUME NEW k \in 1..(n + 1)
                 PROVE grants'[k].total = Spent'[k - 1] + grants'[k].cost
      OBVIOUS
    <3>1. CASE k = n + 1
      BY <2>1, <3>1
    <3>2. CASE k \in 1..n
      <4>1. grants[k].total = Spent[k - 1] + grants[k].cost
        BY <3>2 DEF Totals, n
      <4>2. k - 1 \in 0..n /\ grants'[k] = grants[k]
        BY <2>1, <3>2
      <4>3. QED BY <2>1, <4>1, <4>2
    <3>3. QED BY <2>1, <3>1, <3>2
  <2>3. \A j, k \in 0..(n + 1) : j <= k => Spent'[j] <= Spent'[k]
    <3> SUFFICES ASSUME NEW j \in 0..(n + 1), NEW k \in 0..(n + 1), j <= k
                 PROVE Spent'[j] <= Spent'[k]
      OBVIOUS
    <3>1. \A i \in 0..n : Spent[i] <= Spent[n]
      BY <2>1 DEF Totals, n
    <3>2. CASE k = n + 1 /\ j \in 0..n
      BY <2>1, <3>1, <3>2
    <3>3. CASE k \in 0..n /\ j \in 0..n
      BY <2>1, <3>3 DEF Totals, n
    <3>4. CASE k = n + 1 /\ j = n + 1
      BY <2>1, <3>4
    <3>5. QED BY <2>1, <3>2, <3>3, <3>4
  <2>4. \A j, k \in 0..(n + 1) : j <= k => Spent'[j] + (k - j) <= Spent'[k]
    <3> SUFFICES ASSUME NEW j \in 0..(n + 1), NEW k \in 0..(n + 1), j <= k
                 PROVE Spent'[j] + (k - j) <= Spent'[k]
      OBVIOUS
    <3>1. \A i \in 0..n : Spent[i] + (n - i) <= Spent[n]
      BY <2>1 DEF Totals, n
    <3>2. CASE k = n + 1 /\ j \in 0..n
      <4>1. Spent[j] + (n - j) <= Spent[n]
        BY <3>1, <3>2
      <4>2. Spent'[j] = Spent[j] /\ Spent'[k] = Spent[n] + attempt[c].cost
        BY <2>1, <3>2
      <4>3. n \in Nat /\ Spent[j] \in Nat /\ Spent[n] \in Nat /\ attempt[c].cost \in Nat \ {0}
        BY <2>1, <3>2
      <4>4. QED BY <3>2, <4>1, <4>2, <4>3
    <3>3. CASE k \in 0..n /\ j \in 0..n
      BY <2>1, <3>3 DEF Totals, n
    <3>4. CASE k = n + 1 /\ j = n + 1
      <4>1. Spent'[k] = Spent[n] + attempt[c].cost
        BY <2>1, <3>4
      <4>2. n \in Nat /\ Spent[n] \in Nat /\ attempt[c].cost \in Nat
        BY <2>1
      <4>3. QED BY <3>4, <4>1, <4>2
    <3>5. \/ k = n + 1 /\ j \in 0..n
          \/ k \in 0..n /\ j \in 0..n
          \/ k = n + 1 /\ j = n + 1
      <4>1. n \in Nat
        BY <2>1
      <4>2. QED BY <4>1
    <3>6. QED BY <3>2, <3>3, <3>4, <3>5
  <2>5. QED BY <2>1, <2>2, <2>3, <2>4 DEF Totals
<1>4. QED
  BY <1>1, <1>2, <1>3, Effects DEF ExpireOldest, history


-----------------------------------------------------------------------------
\* The ledger.

\* While a caller measures, the oldest entry of the log has not expired.
LEMMA ExpiryIsOverStep == Shape /\ ExpiryIsOver /\ [Next]_vars => ExpiryIsOver'
<1> SUFFICES ASSUME Shape, ExpiryIsOver, [Next]_vars,
                    NEW d \in Caller, pc'[d] = "measure"
             PROVE  ~OldestHasExpired'
  BY DEF ExpiryIsOver
<1>1. \A c \in Caller : pc[c] \in {"expire", "measure"} <=> lock = c
  BY DEF Shape, Discipline, Critical
<1>2. pc \in [Caller -> Places] /\ section \in Section
  BY DEF Shape, Typed
<1>3. ASSUME NEW c \in Caller, Refuse(c) PROVE ~OldestHasExpired'
  BY <1>3 DEF Refuse, OldestHasExpired
<1>4. ASSUME NEW c \in Caller, Walk(c) PROVE ~OldestHasExpired'
  <2> DEFINE released == section.released + log[section.seen + 1].cost
  <2>1. pc[c] = "measure" /\ lock = c /\ log' = log
    BY <1>1, <1>4 DEF Walk, window
  <2>2. CASE Enough(released)
    <3>1. pc' = [pc EXCEPT ![c] = "unlocked"]
      BY <1>4, <2>2 DEF Walk
    <3>2. pc[d] = "measure" /\ d # c
      BY <1>2, <3>1
    <3>3. QED BY <1>1, <2>1, <3>2
  <2>3. CASE ~Enough(released)
    <3>1. section' = [section EXCEPT !.seen = @ + 1, !.released = released]
      BY <1>4, <2>3 DEF Walk
    <3>2. section'.now = section.now
      BY <1>2, <3>1 DEF Section
    <3>3. QED BY <2>1, <3>2 DEF OldestHasExpired, HasExpired, ExpiryIsOver
  <2>4. QED BY <2>2, <2>3
<1>5. ASSUME pc[d] = "measure", UNCHANGED <<log, section>> PROVE ~OldestHasExpired'
  BY <1>5 DEF ExpiryIsOver, OldestHasExpired, HasExpired
<1>6. QED
  BY ZenonT(60), <1>1, <1>2, <1>3, <1>4, <1>5
  DEF Next, Step, Tick, Begin, BeginRead, TakeLock, ExpireOldest, ReturnUsed, Grant,
      MeasureNothing, Sleep, GiveUp, CountTimeout, WakeUp, Interrupt, Release,
      window, history, vars


\* The facts about the accounts that the next lemmas start from.
LEMMA Accounts ==
    ASSUME Shape, InOrder, Totals, Ledger
    PROVE  /\ Len(grants) \in Nat /\ Len(log) \in Nat
           /\ Forgotten \in 0..Len(grants)
           /\ Len(log) = Len(grants) - Forgotten
           /\ clock \in Nat /\ section.now \in Nat /\ section.now <= clock
           /\ \A k \in 1..Len(grants) : /\ grants[k] \in GrantRecord
                                        /\ grants[k].at \in Nat
                                        /\ grants[k].cost \in Nat
           /\ \A k \in 0..Len(grants) : Spent[k] \in Nat
           /\ \A k \in 1..Len(grants) : Spent[k] = Spent[k - 1] + grants[k].cost
           /\ \A i \in 1..Len(log) : log[i] \in Entry
           /\ used = Spent[Len(grants)] - Spent[Forgotten]
<1>1. grants \in Seq(GrantRecord) /\ log \in Seq(Entry)
  BY DEF Shape, TypedSequences
<1>2. Len(grants) \in Nat /\ Len(log) \in Nat /\ Len(log) <= Len(grants)
  BY <1>1 DEF Ledger, LedgerAgrees
<1>3. Forgotten \in 0..Len(grants) /\ Len(log) = Len(grants) - Forgotten
  BY <1>2 DEF Forgotten
<1>4. \A k \in 1..Len(grants) : grants[k] \in GrantRecord
  BY <1>1
<1>5. \A k \in 1..Len(grants) : grants[k].at \in Nat /\ grants[k].cost \in Nat
  BY <1>4 DEF GrantRecord
<1>6. \A k \in 0..Len(grants) : Spent[k] \in Nat
  BY <1>2, <1>4 DEF Spent, GrantRecord
<1>7. \A k \in 1..Len(grants) : Spent[k] = Spent[k - 1] + grants[k].cost
  <2>1. \A k \in 1..Len(grants) : Spent[k] = grants[k].total
    BY <1>2 DEF Spent
  <2>2. QED BY <2>1 DEF Totals
<1>8. \A i \in 1..Len(log) : log[i] \in Entry
  BY <1>1
<1>9. clock \in Nat /\ section.now \in Nat /\ section.now <= clock
  BY DEF Shape, Typed, Section, InOrder
<1>10. QED
  BY <1>2, <1>3, <1>4, <1>5, <1>6, <1>7, <1>8, <1>9 DEF Ledger, LedgerAgrees

\* The log stays the recent end of the history, used its cost, and everything
\* already dropped from the log had expired.
LEMMA LedgerStep == Shape /\ InOrder /\ Totals /\ Ledger /\ [Next]_vars => Ledger'
<1> SUFFICES ASSUME Shape, InOrder, Totals, Ledger, [Next]_vars PROVE Ledger'
  OBVIOUS
<1> DEFINE n == Len(grants)
           h == Forgotten
<1>1. /\ n \in Nat /\ Len(log) \in Nat
      /\ h \in 0..n /\ Len(log) = n - h
      /\ clock \in Nat /\ section.now \in Nat /\ section.now <= clock
  BY Accounts
<1>11. /\ \A k \in 1..n : grants[k].at \in Nat /\ grants[k].cost \in Nat
       /\ \A k \in 0..n : Spent[k] \in Nat
       /\ \A k \in 1..n : Spent[k] = Spent[k - 1] + grants[k].cost
  BY Accounts
<1>12. used = Spent[n] - Spent[h]
  BY Accounts
<1>2. log \in Seq(Entry)
  BY DEF Shape, TypedSequences
<1>3. ExpiryIsOver'
  BY ExpiryIsOverStep DEF Ledger
<1>4. \A c \in Caller : pc[c] \in {"expire", "measure"} <=> lock = c
  BY DEF Shape, Discipline, Critical
<1>5. /\ \A i \in 1..Len(log) : /\ log[i].at = grants[h + i].at
                                /\ log[i].cost = grants[h + i].cost
      /\ \A j, k \in 0..n : j <= k => Spent[j] <= Spent[k]
      /\ used \in 0..Limit
  BY DEF Ledger, LedgerAgrees, Totals
<1>6. \A k \in 1..h : /\ grants[k].at + Window <= clock
                      /\ lock # None => grants[k].at + Window <= section.now
  BY DEF Ledger, OnlyOldForgotten
<1> HIDE DEF n, h
<1>7. CASE UNCHANGED <<log, used, grants>> /\ TimeMoves
  <2>1. LedgerAgrees' /\ used' \in 0..Limit
    BY <1>5, <1>7 DEF Ledger, LedgerAgrees, Forgotten, Spent
  <2>2. Forgotten' = h /\ clock' \in Nat /\ section'.now \in Nat
    BY <1>7, ShapeStep DEF Forgotten, h, Shape, Typed, Section
  <2>3. \A k \in 1..h : /\ grants'[k].at + Window <= clock'
                        /\ lock' # None => grants'[k].at + Window <= section'.now
    <3> SUFFICES ASSUME NEW k \in 1..h
                 PROVE  /\ grants[k].at + Window <= clock'
                        /\ lock' # None => grants[k].at + Window <= section'.now
      BY <1>7
    <3>1. grants[k].at \in Nat /\ grants[k].at + Window <= clock
      <4>1. k \in 1..n
        BY <1>1
      <4>2. QED BY <1>6, <1>11, <4>1
    <3>2. lock # None => grants[k].at + Window <= section.now
      BY <1>6
    <3>3. CASE lock' # None /\ section'.now = clock
      BY <1>1, <1>7, <2>2, <3>1, <3>3 DEF TimeMoves
    <3>4. CASE lock' = None
      BY <1>1, <1>7, <2>2, <3>1, <3>4 DEF TimeMoves
    <3>5. CASE lock' = lock /\ section'.now = section.now
      BY <1>1, <1>7, <2>2, <3>1, <3>2, <3>5 DEF TimeMoves
    <3>6. QED BY <1>7, <3>3, <3>4, <3>5 DEF TimeMoves
  <2>4. QED BY <1>3, <2>1, <2>2, <2>3 DEF Ledger, OnlyOldForgotten
<1>8. ASSUME NEW c \in Caller, ExpireOldest(c) PROVE Ledger'
  <2>1. /\ log # <<>> /\ log' = Tail(log) /\ grants' = grants
        /\ used' = used - log[1].cost
        /\ section.now - log[1].at >= Window
        /\ lock' = lock /\ section' = section /\ clock' = clock
    BY <1>8 DEF ExpireOldest, OldestHasExpired, HasExpired, history
  <2>2. /\ Len(log') = Len(log) - 1 /\ Len(log) > 0
        /\ \A i \in 1..Len(log') : log'[i] = log[i + 1]
    BY <1>2, <2>1, HeadTailProperties
  <2>3. Forgotten' = h + 1 /\ h + 1 \in 1..n
    <3>1. Forgotten' = Len(grants) - Len(log')
      BY <2>1 DEF Forgotten
    <3>2. QED BY <1>1, <2>2, <3>1 DEF n
  <2>4. log[1].at = grants[h + 1].at /\ log[1].cost = grants[h + 1].cost
    BY <1>1, <1>5, <2>2
  <2>5. used' = Spent[n] - Spent[h + 1]
    <3>1. Spent[h + 1] = Spent[h] + grants[h + 1].cost
      <4>1. (h + 1) - 1 = h
        BY <1>1
      <4>2. QED BY <1>11, <2>3, <4>1
    <3>2. Spent[h + 1] \in Nat /\ Spent[h] \in Nat /\ Spent[n] \in Nat
      BY <1>1, <1>11, <2>3
    <3>3. grants[h + 1].cost \in Nat
      BY <1>11, <2>3
    <3>4. QED BY <1>12, <2>1, <2>4, <3>1, <3>2, <3>3
  <2>6. used' \in 0..Limit
    <3>1. Spent[h] <= Spent[h + 1] /\ Spent[h + 1] <= Spent[n]
      BY <1>1, <1>5, <2>3
    <3>2. Spent[h + 1] \in Nat /\ Spent[h] \in Nat /\ Spent[n] \in Nat
      BY <1>1, <1>11, <2>3
    <3>3. used \in 0..Limit
      BY <1>5
    <3>4. QED BY <1>12, <2>5, <3>1, <3>2, <3>3
  <2>7. \A i \in 1..Len(log') : /\ log'[i].at = grants[(h + 1) + i].at
                                /\ log'[i].cost = grants[(h + 1) + i].cost
    <3> SUFFICES ASSUME NEW i \in 1..Len(log')
                 PROVE  /\ log'[i].at = grants[(h + 1) + i].at
                        /\ log'[i].cost = grants[(h + 1) + i].cost
      OBVIOUS
    <3>1. i + 1 \in 1..Len(log) /\ h + (i + 1) = (h + 1) + i
      BY <1>1, <2>2
    <3>2. QED BY <1>5, <2>2, <3>1
  <2>8. LedgerAgrees'
    BY <1>1, <2>1, <2>2, <2>3, <2>5, <2>7 DEF LedgerAgrees, Spent, n
  <2>9. \A k \in 1..(h + 1) : /\ grants[k].at + Window <= clock
                              /\ lock # None => grants[k].at + Window <= section.now
    <3>2. grants[h + 1].at \in Nat
      BY <1>11, <2>3
    <3>1. grants[h + 1].at + Window <= section.now
      <4>1. section.now - grants[h + 1].at >= Window
        BY <2>1, <2>4
      <4>2. QED BY <1>1, <3>2, <4>1
    <3>3. \A k \in 1..(h + 1) : k \in 1..h \/ k = h + 1
      BY <1>1
    <3>4. grants[h + 1].at + Window <= clock
      BY <1>1, <3>1, <3>2
    <3>5. QED BY <1>6, <3>1, <3>3, <3>4
  <2>10. OnlyOldForgotten'
    BY <2>1, <2>3, <2>9 DEF OnlyOldForgotten
  <2>11. QED BY <1>3, <2>6, <2>8, <2>10 DEF Ledger
<1>9. ASSUME NEW c \in Caller, Grant(c) PROVE Ledger'
  <2> DEFINE new == [at |-> section.now, cost |-> attempt[c].cost]
  <2>1. /\ Len(grants') = n + 1
        /\ \A k \in 1..n : grants'[k] = grants[k]
        /\ grants'[n + 1].at = section.now
        /\ grants'[n + 1].cost = attempt[c].cost
        /\ \A k \in 0..n : Spent'[k] = Spent[k]
        /\ Spent'[n + 1] = Spent[n] + attempt[c].cost
        /\ attempt[c].cost \in 1..Limit
    BY <1>9, GrantAppends DEF n
  <2>2. /\ log' = Append(log, new)
        /\ used' = used + attempt[c].cost
        /\ used + attempt[c].cost <= Limit
        /\ lock' = None /\ clock' = clock
    BY <1>9 DEF Grant, Fits, Unlock
  <2>3. new \in Entry
    BY <1>1, <2>1 DEF Entry
  <2>4. /\ Len(log') = Len(log) + 1
        /\ \A i \in 1..Len(log) : log'[i] = log[i]
        /\ log'[Len(log) + 1] = new
    BY <1>2, <2>2, <2>3
  <2>5. Forgotten' = h /\ Len(log') <= Len(grants') /\ h \in 0..n
    BY <1>1, <2>1, <2>4 DEF Forgotten, n
  <2>6. used' = Spent'[n + 1] - Spent'[h] /\ used' \in 0..Limit
    <3>1. Spent'[h] = Spent[h] /\ Spent[h] \in Nat /\ Spent[n] \in Nat
      BY <1>1, <1>11, <2>1
    <3>2. used \in Nat /\ attempt[c].cost \in Nat
      BY <1>5, <2>1
    <3>3. Spent'[n + 1] = Spent[n] + attempt[c].cost
      BY <2>1
    <3>4. QED BY SMTT(30), <1>12, <2>2, <3>1, <3>2, <3>3
  <2>7. \A i \in 1..Len(log') : /\ log'[i].at = grants'[h + i].at
                                /\ log'[i].cost = grants'[h + i].cost
    <3> SUFFICES ASSUME NEW i \in 1..Len(log')
                 PROVE  /\ log'[i].at = grants'[h + i].at
                        /\ log'[i].cost = grants'[h + i].cost
      OBVIOUS
    <3>1. CASE i \in 1..Len(log)
      <4>1. h + i \in 1..n
        BY <1>1, <3>1
      <4>2. QED BY <1>5, <2>1, <2>4, <3>1, <4>1
    <3>2. CASE i = Len(log) + 1
      <4>1. h + i = n + 1
        BY <1>1, <3>2
      <4>2. log'[i] = new
        BY <2>4, <3>2
      <4>3. QED BY <2>1, <4>1, <4>2
    <3>3. QED BY <1>1, <2>4, <3>1, <3>2
  <2>8. LedgerAgrees'
    BY <2>1, <2>5, <2>6, <2>7 DEF LedgerAgrees
  <2>9. OnlyOldForgotten'
    <3>1. \A k \in 1..h : k \in 1..n
      BY <1>1
    <3>2. QED BY <1>6, <2>1, <2>2, <2>5, <3>1 DEF OnlyOldForgotten
  <2>10. QED BY <1>3, <2>6, <2>8, <2>9 DEF Ledger
<1>10. QED BY <1>1, <1>7, <1>8, <1>9, Effects


\* The budget of every window that ends with the new grant.
LEMMA WithinLimitStep ==
    Shape /\ InOrder /\ Totals /\ Ledger /\ WithinLimit /\ [Next]_vars => WithinLimit'
<1> SUFFICES ASSUME Shape, InOrder, Totals, Ledger, WithinLimit, [Next]_vars
             PROVE  WithinLimit'
  OBVIOUS
<1>1. ASSUME grants' = grants PROVE WithinLimit'
  BY <1>1 DEF WithinLimit, Spent
<1>2. ASSUME NEW c \in Caller, Grant(c) PROVE WithinLimit'
  <2> DEFINE n == Len(grants)
             h == Forgotten
  <2>1. /\ n \in Nat /\ Len(grants') = n + 1
        /\ \A k \in 1..n : grants'[k] = grants[k]
        /\ grants'[n + 1].at = section.now
        /\ \A k \in 0..n : Spent'[k] = Spent[k]
        /\ Spent'[n + 1] = Spent[n] + attempt[c].cost
        /\ \A k \in 0..n : Spent[k] \in Nat
        /\ attempt[c].cost \in 1..Limit
    BY <1>2, GrantAppends
  <2>2. /\ h \in 0..n /\ section.now \in Nat
        /\ used = Spent[n] - Spent[h]
        /\ \A k \in 1..n : grants[k].at \in Nat
    BY Accounts
  <2>3. used + attempt[c].cost <= Limit /\ lock # None
    BY <1>2 DEF Grant, Fits, Shape, Discipline, Critical
  <2>4. \A k \in 1..h : grants[k].at + Window <= section.now
    BY <2>3 DEF Ledger, OnlyOldForgotten
  <2>5. \A j, k \in 0..n : j <= k => Spent[j] <= Spent[k]
    BY DEF Totals
  <2>6. \A i, j \in 1..n :
           (i <= j /\ grants[j].at - grants[i].at < Window) => Spent[j] - Spent[i - 1] <= Limit
    BY DEF WithinLimit
  <2> HIDE DEF n, h
  <2> SUFFICES ASSUME NEW i \in 1..(n + 1), NEW j \in 1..(n + 1), i <= j,
                      grants'[j].at - grants'[i].at < Window
               PROVE  Spent'[j] - Spent'[i - 1] <= Limit
    BY <2>1 DEF WithinLimit
  <2>7. CASE j \in 1..n
    <3>1. i \in 1..n /\ i - 1 \in 0..n /\ j \in 0..n
      BY <2>1, <2>7
    <3>2. grants[j].at - grants[i].at < Window
      BY <2>1, <2>7, <3>1
    <3>3. Spent'[j] = Spent[j] /\ Spent'[i - 1] = Spent[i - 1]
      BY <2>1, <3>1
    <3>4. QED BY <2>6, <2>7, <3>1, <3>2, <3>3
  <2>8. CASE j = n + 1 /\ i \in 1..n
    <3>1. section.now - grants[i].at < Window
      BY <2>1, <2>8
    <3>2. grants[i].at \in Nat
      BY <2>2, <2>8
    <3>3. ~(i \in 1..h)
      <4>1. ~(grants[i].at + Window <= section.now)
        BY <2>2, <3>1, <3>2
      <4>2. QED BY <2>4, <4>1
    <3>4. h \in 0..n /\ i - 1 \in 0..n /\ h <= i - 1
      BY <2>1, <2>2, <2>8, <3>3
    <3>5. Spent[h] <= Spent[i - 1] /\ Spent'[i - 1] = Spent[i - 1]
      BY <2>1, <2>5, <3>4
    <3>6. /\ Spent[h] \in Nat /\ Spent[i - 1] \in Nat /\ Spent[n] \in Nat
          /\ attempt[c].cost \in Nat /\ Spent'[j] = Spent[n] + attempt[c].cost
      BY <2>1, <2>8, <3>4
    <3>7. QED BY <2>2, <2>3, <3>5, <3>6
  <2>9. CASE j = n + 1 /\ i = n + 1
    <3>1. Spent'[i - 1] = Spent[n] /\ Spent[n] \in Nat
      BY <2>1, <2>9
    <3>2. Spent'[j] = Spent[n] + attempt[c].cost /\ attempt[c].cost \in 1..Limit
      BY <2>1, <2>9
    <3>3. QED BY <3>1, <3>2
  <2>10. QED BY <2>1, <2>7, <2>8, <2>9
<1>3. section.now <= clock
  BY DEF InOrder
<1>4. QED BY <1>1, <1>2, <1>3, Effects DEF ExpireOldest, history


-----------------------------------------------------------------------------
\* The walk over the log.

\* Outside its own critical section a caller leaves alone what the walk of the
\* caller inside it depends on.
LEMMA OthersLeaveTheWalkAlone ==
    ASSUME Shape, [Next]_vars, lock # None
    PROVE  \/ \E c \in Caller : ExpireOldest(c) \/ Refuse(c) \/ Walk(c)
           \/ lock' = None
           \/ /\ UNCHANGED <<section, log, used, waiting, grants, lock>>
              /\ \A d \in Caller : pc[d] \in Critical => pc'[d] = pc[d]
<1>1. pc \in [Caller -> Places]
  BY DEF Shape, Typed
<1>2. ASSUME NEW c \in Caller, NEW place, pc[c] \notin Critical,
             pc' = [pc EXCEPT ![c] = place]
      PROVE  \A d \in Caller : pc[d] \in Critical => pc'[d] = pc[d]
  BY <1>1, <1>2
<1>3. ASSUME NEW c \in Caller, Begin(c) \/ BeginRead(c) \/ Sleep(c) \/ GiveUp(c)
                                \/ WakeUp(c) \/ Interrupt(c)
      PROVE  \A d \in Caller : pc[d] \in Critical => pc'[d] = pc[d]
  BY <1>2, <1>3 DEF Begin, BeginRead, Sleep, GiveUp, WakeUp, Interrupt, Critical
<1>4. ASSUME NEW c \in Caller, Begin(c) \/ BeginRead(c) \/ Sleep(c) \/ GiveUp(c)
                                \/ WakeUp(c) \/ Interrupt(c)
      PROVE  UNCHANGED <<section, log, used, waiting, grants, lock>>
  BY <1>4 DEF Begin, BeginRead, Sleep, GiveUp, WakeUp, Interrupt, window, history
<1>5. ASSUME NEW c \in Caller, ReturnUsed(c) \/ Grant(c) \/ MeasureNothing(c)
      PROVE  lock' = None
  BY <1>5 DEF ReturnUsed, Grant, MeasureNothing, Unlock
<1>6. ASSUME NEW c \in Caller, TakeLock(c) \/ CountTimeout(c) \/ Release(c)
      PROVE  FALSE
  BY <1>6 DEF TakeLock, CountTimeout, Release
<1>7. CASE Tick \/ UNCHANGED vars
  BY <1>7 DEF Tick, window, history, vars
<1>8. QED
  BY <1>3, <1>4, <1>5, <1>6, <1>7 DEF Next, Step

\* The partial sum of _time_until_room_for is the cost of the entries it has seen.
LEMMA WalkStep ==
    Shape /\ InOrder /\ Totals /\ Ledger /\ WalkSoFar /\ [Next]_vars => WalkSoFar'
<1> SUFFICES ASSUME Shape, InOrder, Totals, Ledger, WalkSoFar, [Next]_vars,
                    NEW d \in Caller
             PROVE  WalkIsAt(d)'
  BY DEF WalkSoFar
<1>1. \A c \in Caller : pc[c] \in {"expire", "measure"} <=> lock = c
  BY DEF Shape, Discipline, Critical
<1>2. pc \in [Caller -> Places] /\ section \in Section
  BY DEF Shape, Typed
<1>3. WalkIsAt(d)
  BY DEF WalkSoFar
<1>4. CASE lock' = None
  <2>1. pc'[d] \notin Critical
    BY <1>4, ShapeStep DEF Shape, Discipline
  <2>2. QED BY <2>1 DEF WalkIsAt, Critical
<1>5. CASE lock = None /\ lock' # None
  <2>1. PICK c \in Caller : TakeLock(c)
    BY <1>1, <1>5
    DEF Next, Step, Tick, Begin, BeginRead, ExpireOldest, ReturnUsed, Grant, Refuse,
        MeasureNothing, Walk, Sleep, GiveUp, CountTimeout, WakeUp, Interrupt, Release, vars
  <2>2. section'.seen = 0 /\ section'.released = 0
    BY <2>1 DEF TakeLock, NoSection
  <2>3. pc'[d] # "measure"
    BY <1>1, <1>2, <1>5, <2>1 DEF TakeLock
  <2>4. QED BY <2>2, <2>3 DEF WalkIsAt
<1>6. CASE /\ UNCHANGED <<section, log, used, waiting, grants, lock>>
           /\ lock # None
           /\ \A e \in Caller : pc[e] \in Critical => pc'[e] = pc[e]
  <2>1. CASE pc[d] \in Critical
    BY <1>3, <1>6, <2>1 DEF WalkIsAt, Forgotten, Spent, Enough, Needed
  <2>2. CASE pc[d] \notin Critical
    <3>1. pc'[d] \notin Critical
      BY <1>6, <2>2, ShapeStep DEF Shape, Discipline
    <3>2. QED BY <3>1 DEF WalkIsAt, Critical
  <2>3. QED BY <2>1, <2>2
<1>7. ASSUME NEW c \in Caller, ExpireOldest(c) PROVE WalkIsAt(d)'
  BY <1>1, <1>3, <1>7 DEF ExpireOldest, WalkIsAt
<1>8. ASSUME NEW c \in Caller, Refuse(c) PROVE WalkIsAt(d)'
  <2>1. section' = section /\ section.seen = 0 /\ section.released = 0 /\ log' = log
        /\ grants' = grants /\ pc'[d] # "expire"
    BY <1>1, <1>2, <1>8 DEF Refuse, WalkSoFar, WalkIsAt, history
  <2>2. Forgotten' = Forgotten /\ Spent' = Spent /\ Len(log) \in Nat
        /\ Forgotten \in 0..Len(grants) /\ Spent[Forgotten] \in Nat
    BY <2>1, Accounts DEF Forgotten, Spent
  <2>3. QED BY <2>1, <2>2 DEF WalkIsAt
<1>9. ASSUME NEW c \in Caller, Walk(c), lock' # None PROVE WalkIsAt(d)'
  <2> DEFINE seen     == section.seen
             entry    == log[seen + 1]
             released == section.released + entry.cost
             h        == Forgotten
  <2>1. /\ ~Enough(released)
        /\ section' = [section EXCEPT !.seen = @ + 1, !.released = released]
        /\ pc' = pc
        /\ seen < Len(log) /\ pc[c] = "measure"
        /\ log' = log /\ used' = used /\ waiting' = waiting /\ grants' = grants
    BY <1>9 DEF Walk, Unlock, window, history
  <2>2. section'.seen = seen + 1 /\ section'.released = released
    BY <1>2, <2>1 DEF Section
  <2>3. section.released = Spent[h + seen] - Spent[h]
    BY <2>1 DEF WalkSoFar, WalkIsAt
  <2>4. seen \in Nat /\ Len(log) \in Nat /\ h \in 0..Len(grants) /\ Len(grants) \in Nat
        /\ Len(log) = Len(grants) - h
    BY <1>2, Accounts DEF Section
  <2>5. h + (seen + 1) \in 1..Len(grants) /\ seen + 1 \in 1..Len(log)
        /\ h + (seen + 1) - 1 = h + seen /\ h + seen \in 0..Len(grants)
    BY SMTT(60), <2>1, <2>4
  <2>6. entry.cost = grants[h + (seen + 1)].cost
    BY <2>5 DEF Ledger, LedgerAgrees
  <2>7. Spent[h + (seen + 1)] = Spent[h + seen] + grants[h + (seen + 1)].cost
    <3>1. \A k \in 1..Len(grants) : Spent[k] = Spent[k - 1] + grants[k].cost
      BY Accounts
    <3> DEFINE k == h + (seen + 1)
    <3> HIDE DEF h, seen
    <3>3. k \in 1..Len(grants) /\ k - 1 = h + seen
      BY <2>4, <2>5
    <3>4. Spent[k] = Spent[k - 1] + grants[k].cost
      BY <3>1, <3>3
    <3>5. QED BY <3>3, <3>4
  <2>8. Spent[h + seen] \in Nat /\ Spent[h] \in Nat /\ grants[h + (seen + 1)].cost \in Nat
    BY <2>4, <2>5, Accounts
  <2> HIDE DEF seen, entry, released, h
  <2>9. released = Spent[h + (seen + 1)] - Spent[h]
    BY <2>3, <2>6, <2>7, <2>8 DEF released
  <2>10. Forgotten' = h /\ Spent' = Spent
    BY <2>1 DEF Forgotten, Spent, h
  <2>11. ~(released >= used + waiting[1].cost - Limit)
    BY <2>1 DEF Enough, Needed
  <2>12. QED
    BY SMTT(30), <1>1, <2>1, <2>2, <2>4, <2>5, <2>9, <2>10 DEF WalkIsAt, Enough, Needed
<1>10. QED
  BY <1>4, <1>5, <1>6, <1>7, <1>8, <1>9, OthersLeaveTheWalkAlone

\* A walk that has reached the end of the log has released all that is used, so
\* the call at the front fits.
LEMMA WalkEnds ==
    ASSUME Shape, InOrder, Totals, Ledger, WalkSoFar PROVE WalkFindsRoom
<1> SUFFICES ASSUME NEW c \in Caller, pc[c] = "measure", ~FrontHasRoom,
                    ~(section.seen < Len(log))
             PROVE  FALSE
  BY DEF WalkFindsRoom
<1>1. /\ section.seen <= Len(log)
      /\ section.released = Spent[Forgotten + section.seen] - Spent[Forgotten]
      /\ section.seen > 0 => ~Enough(section.released)
  BY DEF WalkSoFar, WalkIsAt
<1>2. section.seen \in Nat /\ Len(log) \in Nat /\ Len(grants) \in Nat
      /\ Forgotten \in 0..Len(grants) /\ Len(log) = Len(grants) - Forgotten
  BY Accounts DEF Shape, Typed, Section
<1>3. section.seen = Len(log) /\ Forgotten + section.seen = Len(grants)
  BY <1>1, <1>2
<1>4. used = Spent[Len(grants)] - Spent[Forgotten] /\ section.released = used
  BY <1>1, <1>3, Accounts
<1>5. used \in 0..Limit
  BY DEF Ledger
<1>6. waiting # <<>> /\ waiting[1].cost \in 1..Limit
  <2>1. waiting \in Seq(InLine) /\ waiting # <<>>
    BY DEF Shape, TypedSequences, FrontHasRoom
  <2>2. waiting[1] \in InLine
    BY <2>1
  <2>3. QED BY <2>1, <2>2 DEF InLine
<1>7. Enough(used)
  BY <1>5, <1>6 DEF Enough, Needed
<1>8. section.seen = 0
  BY <1>1, <1>2, <1>4, <1>7
<1>9. used = 0
  <2>1. Spent[Len(grants)] \in Nat /\ Forgotten = Len(grants)
    BY <1>2, <1>3, <1>8, Accounts
  <2>2. QED BY <1>4, <2>1
<1>10. QED
  BY <1>6, <1>9 DEF FrontHasRoom, Fits

-----------------------------------------------------------------------------
\* The line.

\* Steps that touch neither the line nor any ticket.
LEMMA LineUntouched ==
    ASSUME Line, UNCHANGED <<waiting, nextTicket>>,
           \A c \in Caller : /\ attempt'[c].ticket = attempt[c].ticket
                             /\ attempt'[c].cost = attempt[c].cost
    PROVE  Line'
BY DEF Line, LineIsLive

\* Every step keeps the line as it should be: tickets in the order they were
\* taken, each of an open call, and none lost.
LEMMA LineStep == Shape /\ Line /\ [Next]_vars => Line'
<1> SUFFICES ASSUME Shape, Line, [Next]_vars PROVE Line'
  OBVIOUS
<1> USE DEF Line, LineIsLive
<1>1. /\ attempt \in [Caller -> Attempts] /\ nextTicket \in Nat
      /\ waiting \in Seq(InLine) /\ Len(waiting) \in Nat
  BY DEF Shape, Typed, TypedSequences
<1>2. \A i \in 1..Len(waiting) : waiting[i].ticket \in Nat
  <2>1. \A i \in 1..Len(waiting) : waiting[i] \in InLine
    BY <1>1
  <2>2. QED BY <2>1 DEF InLine
<1>3. \A c \in Caller : attempt[c].ticket # None => attempt[c].ticket \in Nat
  BY <1>1 DEF Attempts, Tickets
<1>4. NoAttempt.ticket = None
  BY DEF NoAttempt
<1>5. ASSUME NEW c \in Caller, Begin(c) PROVE Line'
  <2>1. /\ \A d \in Caller : d # c => attempt'[d] = attempt[d]
        /\ attempt'[c].ticket = None
        /\ waiting' = waiting /\ nextTicket' = nextTicket
    BY <1>1, <1>5 DEF Begin, window
  <2>2. attempt[c].ticket = None
    BY <1>4, <1>5 DEF Begin, Shape, Discipline
  <2>3. QED BY <1>2, <2>1, <2>2
<1>6. ASSUME NEW c \in Caller, Grant(c) PROVE Line'
  <2>1. /\ \A d \in Caller : attempt'[d] = IF d = c THEN NoAttempt ELSE attempt[d]
        /\ nextTicket' = nextTicket
    BY <1>1, <1>6 DEF Grant
  <2>2. CASE attempt[c].ticket = None
    <3>1. waiting' = waiting
      BY <1>6, <2>2 DEF Grant, LeaveTheFront
    <3>2. QED BY SMTT(30), <1>2, <1>4, <2>1, <2>2, <3>1
  <2>3. CASE attempt[c].ticket # None
    <3>1. waiting # <<>> /\ waiting[1].ticket = attempt[c].ticket
          /\ waiting' = Tail(waiting)
      BY <1>1, <1>6, <2>3 DEF Grant, LeaveTheFront, AtTheFront
    <3>2. /\ Len(waiting') = Len(waiting) - 1 /\ Len(waiting) > 0
          /\ \A i \in 1..Len(waiting') : waiting'[i] = waiting[i + 1]
      BY <1>1, <3>1, HeadTailProperties
    <3>3. \A i \in 1..Len(waiting') : i + 1 \in 1..Len(waiting)
      BY <1>1, <3>2
    <3>4. \A i, j \in 1..Len(waiting') : i < j => waiting'[i].ticket < waiting'[j].ticket
      BY <3>2, <3>3
    <3>5. \A i \in 1..Len(waiting') : \E d \in Caller :
             attempt'[d].ticket = waiting'[i].ticket /\ attempt'[d].cost = waiting'[i].cost
      <4> SUFFICES ASSUME NEW i \in 1..Len(waiting')
                   PROVE \E d \in Caller :
                           /\ attempt'[d].ticket = waiting'[i].ticket
                           /\ attempt'[d].cost = waiting'[i].cost
        OBVIOUS
      <4>1. i + 1 \in 1..Len(waiting) /\ 1 \in 1..Len(waiting) /\ 1 < i + 1
        BY <1>1, <3>2, <3>3
      <4>2. waiting[1].ticket < waiting[i + 1].ticket
        BY <4>1
      <4>3. PICK d \in Caller : attempt[d].ticket = waiting[i + 1].ticket
                                /\ attempt[d].cost = waiting[i + 1].cost
        BY <4>1
      <4>4. d # c
        BY <1>2, <3>1, <4>1, <4>2, <4>3
      <4>5. waiting'[i] = waiting[i + 1]
        BY <3>2
      <4>6. QED BY <2>1, <4>3, <4>4, <4>5
    <3>6. \A d \in Caller : attempt'[d].ticket # None =>
             \E i \in 1..Len(waiting') : waiting'[i].ticket = attempt'[d].ticket
      <4> SUFFICES ASSUME NEW d \in Caller, attempt'[d].ticket # None
                   PROVE \E i \in 1..Len(waiting') : waiting'[i].ticket = attempt'[d].ticket
        OBVIOUS
      <4>1. d # c /\ attempt'[d] = attempt[d]
        BY <1>4, <2>1
      <4>2. PICK i \in 1..Len(waiting) : waiting[i].ticket = attempt[d].ticket
        BY <4>1
      <4>3. i # 1
        BY <2>3, <3>1, <4>1, <4>2
      <4>4. i - 1 \in 1..Len(waiting') /\ (i - 1) + 1 = i
        BY <1>1, <3>2, <4>3
      <4>5. waiting'[i - 1] = waiting[i]
        BY <3>2, <4>4
      <4>6. QED BY <4>1, <4>2, <4>4, <4>5
    <3>7. \A i \in 1..Len(waiting') : waiting'[i].ticket < nextTicket'
      BY <2>1, <3>2, <3>3
    <3>8. QED BY <1>4, <2>1, <3>4, <3>5, <3>6, <3>7
  <2>4. QED BY <2>2, <2>3
<1>7. ASSUME NEW c \in Caller, Refuse(c) PROVE Line'
  <2>1. CASE attempt[c].ticket # None
    BY <1>7, <2>1, LineUntouched DEF Refuse
  <2>2. CASE attempt[c].ticket = None
    <3> DEFINE new == [ticket |-> nextTicket, cost |-> attempt[c].cost]
    <3>1. /\ \A d \in Caller : d # c => attempt'[d] = attempt[d]
          /\ attempt'[c].ticket = nextTicket /\ attempt'[c].cost = attempt[c].cost
          /\ nextTicket' = nextTicket + 1
          /\ waiting' = Append(waiting, new)
      BY <1>1, <1>7, <2>2 DEF Refuse, Attempts
    <3>2. /\ Len(waiting') = Len(waiting) + 1
          /\ \A i \in 1..Len(waiting) : waiting'[i] = waiting[i]
          /\ waiting'[Len(waiting) + 1].ticket = nextTicket
          /\ waiting'[Len(waiting) + 1].cost = attempt[c].cost
      BY <1>1, <3>1
    <3>3. \A i \in 1..Len(waiting') : i \in 1..Len(waiting) \/ i = Len(waiting) + 1
      BY <1>1, <3>2
    <3>4. \A i, j \in 1..Len(waiting') : i < j => waiting'[i].ticket < waiting'[j].ticket
      BY <1>1, <1>2, <3>2, <3>3
    <3>5. \A i \in 1..Len(waiting') : \E d \in Caller :
             attempt'[d].ticket = waiting'[i].ticket /\ attempt'[d].cost = waiting'[i].cost
      <4> SUFFICES ASSUME NEW i \in 1..Len(waiting')
                   PROVE \E d \in Caller : attempt'[d].ticket = waiting'[i].ticket
                                           /\ attempt'[d].cost = waiting'[i].cost
        OBVIOUS
      <4>1. CASE i = Len(waiting) + 1
        BY <3>1, <3>2, <4>1
      <4>2. CASE i \in 1..Len(waiting)
        <5>1. PICK d \in Caller : attempt[d].ticket = waiting[i].ticket
                                  /\ attempt[d].cost = waiting[i].cost
          BY <4>2
        <5>2. d # c
          BY <1>2, <2>2, <4>2, <5>1
        <5>3. QED BY <3>1, <3>2, <4>2, <5>1, <5>2
      <4>3. QED BY <3>3, <4>1, <4>2
    <3>6. \A d \in Caller : attempt'[d].ticket # None =>
             \E i \in 1..Len(waiting') : waiting'[i].ticket = attempt'[d].ticket
      <4> SUFFICES ASSUME NEW d \in Caller, attempt'[d].ticket # None
                   PROVE \E i \in 1..Len(waiting') : waiting'[i].ticket = attempt'[d].ticket
        OBVIOUS
      <4>1. CASE d = c
        BY <1>1, <3>1, <3>2, <4>1
      <4>2. CASE d # c
        <5>1. PICK i \in 1..Len(waiting) : waiting[i].ticket = attempt[d].ticket
          BY <3>1, <4>2
        <5>2. i \in 1..Len(waiting')
          BY <1>1, <3>2
        <5>3. QED BY <3>1, <3>2, <4>2, <5>1, <5>2
      <4>3. QED BY <4>1, <4>2
    <3>7. \A i \in 1..Len(waiting') : waiting'[i].ticket < nextTicket'
      BY <1>1, <1>2, <3>1, <3>2, <3>3
    <3>8. \A d \in Caller : attempt'[d].ticket # None => attempt'[d].ticket < nextTicket'
      BY <1>1, <1>3, <3>1
    <3>9. \A d, e \in Caller :
             (d # e /\ attempt'[d].ticket # None) => attempt'[d].ticket # attempt'[e].ticket
      BY <1>1, <1>3, <3>1
    <3>10. QED BY <3>4, <3>5, <3>6, <3>7, <3>8, <3>9
  <2>3. QED BY <2>1, <2>2
<1>8. ASSUME NEW c \in Caller, Sleep(c) PROVE Line'
  <2>1. \A d \in Caller : /\ attempt'[d].ticket = attempt[d].ticket
                          /\ attempt'[d].cost = attempt[d].cost
    BY <1>1, <1>8 DEF Sleep, Attempts
  <2>2. QED BY <1>8, <2>1, LineUntouched DEF Sleep, window
<1>9. ASSUME NEW c \in Caller, Release(c) PROVE Line'
  <2>1. /\ \A d \in Caller : attempt'[d] = IF d = c THEN NoAttempt ELSE attempt[d]
        /\ nextTicket' = nextTicket
    BY <1>1, <1>9 DEF Release
  <2>2. CASE waiting' = waiting /\ \A i \in 1..Len(waiting) :
                                      waiting[i].ticket # attempt[c].ticket
    BY SMTT(30), <1>2, <1>4, <2>1, <2>2
  <2>3. CASE \E k \in 1..Len(waiting) :
               /\ waiting[k].ticket = attempt[c].ticket
               /\ waiting' = RemoveAt(waiting, k)
    <3>1. PICK k \in 1..Len(waiting) :
               /\ waiting[k].ticket = attempt[c].ticket
               /\ waiting' = RemoveAt(waiting, k)
      BY <2>3
    <3>2. /\ Len(waiting') = Len(waiting) - 1
          /\ \A i \in 1..Len(waiting') :
                /\ i < k => waiting'[i] = waiting[i]
                /\ i >= k => waiting'[i] = waiting[i + 1]
      <4>1. waiting \in Seq(InLine) /\ k \in 1..Len(waiting)
        BY <1>1
      <4>2. waiting' = RemoveAt(waiting, k)
        BY <3>1
      <4>3. /\ Len(waiting') = Len(waiting) - 1
            /\ \A j \in 1..(Len(waiting) - 1) :
                  waiting'[j] = IF j < k THEN waiting[j] ELSE waiting[j + 1]
        BY <4>1, <4>2, RemoveAtMovesUp
      <4>4. QED BY <1>1, <4>3
    <3> DEFINE from(i) == IF i < k THEN i ELSE i + 1
    <3>3. \A i \in 1..Len(waiting') : /\ from(i) \in 1..Len(waiting)
                                      /\ from(i) # k
                                      /\ waiting'[i] = waiting[from(i)]
      <4> SUFFICES ASSUME NEW i \in 1..Len(waiting')
                   PROVE  /\ from(i) \in 1..Len(waiting)
                          /\ from(i) # k
                          /\ waiting'[i] = waiting[from(i)]
        OBVIOUS
      <4>1. Len(waiting) \in Nat /\ i \in 1..(Len(waiting) - 1)
        BY <1>1, <3>2
      <4>2. CASE i < k
        BY <3>2, <4>1, <4>2
      <4>3. CASE ~(i < k)
        BY <3>2, <4>1, <4>3
      <4>4. QED BY <4>2, <4>3
    <3>4. \A i, j \in 1..Len(waiting') : i < j => waiting'[i].ticket < waiting'[j].ticket
      <4> SUFFICES ASSUME NEW i \in 1..Len(waiting'), NEW j \in 1..Len(waiting'), i < j
                   PROVE waiting'[i].ticket < waiting'[j].ticket
        OBVIOUS
      <4>1. from(i) < from(j)
        BY <1>1, <3>2
      <4> HIDE DEF from
      <4>2. waiting[from(i)].ticket < waiting[from(j)].ticket
        BY <3>3, <4>1
      <4>3. QED BY <3>3, <4>2
    <3>5. \A i \in 1..Len(waiting') : \E d \in Caller :
             attempt'[d].ticket = waiting'[i].ticket /\ attempt'[d].cost = waiting'[i].cost
      <4> SUFFICES ASSUME NEW i \in 1..Len(waiting')
                   PROVE \E d \in Caller : attempt'[d].ticket = waiting'[i].ticket
                                           /\ attempt'[d].cost = waiting'[i].cost
        OBVIOUS
      <4> HIDE DEF from
      <4>1. PICK d \in Caller : attempt[d].ticket = waiting[from(i)].ticket
                                /\ attempt[d].cost = waiting[from(i)].cost
        BY <3>3
      <4>2. waiting[from(i)].ticket # waiting[k].ticket
        <5>1. from(i) \in 1..Len(waiting) /\ from(i) # k
          BY <3>3
        <5>2. from(i) < k \/ k < from(i)
          BY <1>1, <5>1
        <5>3. waiting[from(i)].ticket \in Nat /\ waiting[k].ticket \in Nat
          BY <1>2, <5>1
        <5>4. QED BY <5>1, <5>2, <5>3
      <4>3. d # c
        BY <3>1, <4>1, <4>2
      <4>4. QED BY <2>1, <3>3, <4>1, <4>3
    <3>6. \A d \in Caller : attempt'[d].ticket # None =>
             \E i \in 1..Len(waiting') : waiting'[i].ticket = attempt'[d].ticket
      <4> SUFFICES ASSUME NEW d \in Caller, attempt'[d].ticket # None
                   PROVE \E i \in 1..Len(waiting') : waiting'[i].ticket = attempt'[d].ticket
        OBVIOUS
      <4>1. d # c /\ attempt'[d] = attempt[d]
        BY <1>4, <2>1
      <4>2. PICK i \in 1..Len(waiting) : waiting[i].ticket = attempt[d].ticket
        BY <4>1
      <4>3. i # k
        BY <1>2, <3>1, <4>1, <4>2
      <4> DEFINE to == IF i < k THEN i ELSE i - 1
      <4>4. to \in 1..Len(waiting') /\ waiting'[to] = waiting[i]
        <5>1. CASE i < k
          BY <1>1, <3>2, <5>1
        <5>2. CASE i > k
          <6>1. to = i - 1 /\ i - 1 \in 1..Len(waiting') /\ ~(i - 1 < k) /\ (i - 1) + 1 = i
            BY <1>1, <3>2, <5>2
          <6>2. QED BY <3>2, <6>1
        <5>3. QED BY <1>1, <4>3, <5>1, <5>2
      <4>5. QED BY SMTT(30), <4>1, <4>2, <4>4
    <3>7. \A i \in 1..Len(waiting') : waiting'[i].ticket < nextTicket'
      <4> HIDE DEF from
      <4>1. QED BY <2>1, <3>3
    <3>8. \A d \in Caller : attempt'[d].ticket # None => attempt'[d].ticket < nextTicket'
      BY <1>4, <2>1
    <3>9. \A d, e \in Caller :
             (d # e /\ attempt'[d].ticket # None) => attempt'[d].ticket # attempt'[e].ticket
      BY <1>4, <2>1
    <3> HIDE DEF from
    <3>10. QED BY <3>4, <3>5, <3>6, <3>7, <3>8, <3>9
  <2>4. QED BY <1>9, <2>2, <2>3 DEF Release, DropTicket
<1>10. ASSUME UNCHANGED <<waiting, nextTicket, attempt>> PROVE Line'
  BY <1>10, LineUntouched
<1>11. QED
  BY <1>5, <1>6, <1>7, <1>8, <1>9, <1>10
  DEF Next, Step, Tick, BeginRead, TakeLock, ExpireOldest, ReturnUsed, MeasureNothing,
      Walk, GiveUp, CountTimeout, WakeUp, Interrupt, window, history, vars

-----------------------------------------------------------------------------
\* Sleeping.

\* A call that has waited started at least one shortest sleep before its next
\* poll, which is what makes waitTime grow with waits.
LEMMA SleepsCountStep == Shape /\ InOrder /\ SleepsCount /\ [Next]_vars => SleepsCount'
<1> SUFFICES ASSUME Shape, InOrder, SleepsCount, [Next]_vars,
                    NEW e \in Caller, Open(e)'
             PROVE  SleepsCountFor(e)'
  BY DEF SleepsCount, SleepsCountFor
<1>1. /\ clock \in Nat /\ clock' \in Nat /\ section.now \in Nat
      /\ attempt \in [Caller -> Attempts] /\ pc \in [Caller -> Places]
      /\ wake \in [Caller -> Int]
  BY ShapeStep DEF Shape, Typed, Section
<1>2. /\ attempt[e].started \in Nat /\ attempt[e].waited \in BOOLEAN
      /\ wake[e] \in Int /\ section.now <= clock
  BY <1>1 DEF Attempts, InOrder
<1>3. \A c \in Caller : pc[c] \in Critical <=> lock = c
  BY DEF Shape, Discipline
<1>4. SleepsCountFor(e)
  BY DEF SleepsCount
<1>5. ASSUME attempt'[e] = attempt[e], pc'[e] = pc[e], wake'[e] = wake[e], clock' >= clock,
             pc[e] \in Critical => section'.now = section.now
      PROVE  SleepsCountFor(e)'
  BY <1>1, <1>2, <1>4, <1>5 DEF SleepsCountFor, Open
<1>6. ASSUME attempt'[e] = attempt[e], clock' = clock,
             pc'[e] \notin {"poll", "asleep", "expire", "measure"}
      PROVE  SleepsCountFor(e)'
  BY <1>1, <1>2, <1>4, <1>6 DEF SleepsCountFor, Open, Critical
<1>7. CASE Tick
  BY <1>1, <1>5, <1>7 DEF Tick
<1>8. ASSUME NEW c \in Caller, Begin(c) PROVE SleepsCountFor(e)'
  <2>1. CASE e = c
    <3>1. attempt'[e].started = clock /\ attempt'[e].waited = FALSE /\ pc'[e] = "poll"
          /\ clock' = clock
      BY <1>1, <1>8, <2>1 DEF Begin
    <3>2. QED BY <1>1, <3>1 DEF SleepsCountFor, Critical
  <2>2. CASE e # c
    BY <1>1, <1>5, <1>8, <2>2 DEF Begin
  <2>3. QED BY <2>1, <2>2
<1>9. ASSUME NEW c \in Caller, TakeLock(c) PROVE SleepsCountFor(e)'
  <2>1. attempt' = attempt /\ clock' = clock /\ section'.now = clock /\ wake' = wake
        /\ lock = None /\ pc'[c] = "expire" /\ pc[c] \in {"poll", "read"}
    BY <1>1, <1>9 DEF TakeLock, NoSection
  <2>2. CASE e = c
    <3>1. pc[e] = "poll"
      BY <2>1, <2>2 DEF Shape, Discipline, Open, NoAttempt
    <3>2. QED BY <1>1, <1>2, <1>4, <2>1, <2>2, <3>1 DEF SleepsCountFor, Open, Critical
  <2>3. CASE e # c
    <3>1. pc'[e] = pc[e] /\ pc[e] \notin Critical
      BY <1>1, <1>3, <1>9, <2>1, <2>3 DEF TakeLock
    <3>2. QED BY <1>1, <1>5, <2>1, <3>1
  <2>4. QED BY <2>2, <2>3
<1>10. ASSUME NEW c \in Caller, ExpireOldest(c) PROVE SleepsCountFor(e)'
  BY <1>1, <1>5, <1>10 DEF ExpireOldest
<1>11. ASSUME NEW c \in Caller, Refuse(c) PROVE SleepsCountFor(e)'
  <2>1. clock' = clock /\ section' = section /\ wake' = wake /\ lock = c
    BY <1>3, <1>11 DEF Refuse, Critical
  <2>2. CASE e = c
    <3>1. attempt'[e].started = attempt[e].started /\ attempt'[e].waited = attempt[e].waited
          /\ Open(e) /\ pc[e] = "expire" /\ pc'[e] = "measure"
      BY <1>1, <1>11, <2>2 DEF Refuse, Attempts
    <3>2. QED BY <1>2, <1>4, <2>1, <3>1 DEF SleepsCountFor, Critical
  <2>3. CASE e # c
    BY <1>1, <1>5, <1>11, <2>1, <2>3 DEF Refuse
  <2>4. QED BY <2>2, <2>3
<1>12. ASSUME NEW c \in Caller, lock = c, lock' = None, UNCHANGED <<clock, wake>>,
              \A d \in Caller \ {c} : attempt'[d] = attempt[d] /\ pc'[d] = pc[d],
              attempt'[c] = attempt[c] \/ attempt'[c] = NoAttempt,
              pc'[c] \in {"idle", "unlocked"}
       PROVE  SleepsCountFor(e)'
  <2>1. CASE e = c
    BY <1>6, <1>12, <2>1 DEF Open, NoAttempt
  <2>2. CASE e # c
    <3>1. pc[e] \notin Critical
      BY <1>3, <1>12, <2>2
    <3>2. QED BY <1>1, <1>5, <1>12, <2>2, <3>1
  <2>3. QED BY <2>1, <2>2
<1>13. ASSUME NEW c \in Caller, ReturnUsed(c) \/ MeasureNothing(c) \/ Grant(c)
       PROVE  SleepsCountFor(e)'
  BY <1>1, <1>3, <1>12, <1>13 DEF ReturnUsed, MeasureNothing, Grant, Unlock, Critical
<1>14. ASSUME NEW c \in Caller, Walk(c) PROVE SleepsCountFor(e)'
  <2> DEFINE released == section.released + log[section.seen + 1].cost
  <2>1. UNCHANGED <<clock, wake, attempt>> /\ lock = c
    BY <1>3, <1>14 DEF Walk, Critical
  <2>2. CASE Enough(released)
    <3>1. lock' = None /\ pc' = [pc EXCEPT ![c] = "unlocked"]
      BY <1>14, <2>2 DEF Walk, Unlock
    <3>2. QED BY <1>1, <1>12, <2>1, <3>1
  <2>3. CASE ~Enough(released)
    <3>1. pc' = pc /\ section' = [section EXCEPT !.seen = @ + 1, !.released = released]
      BY <1>14, <2>3 DEF Walk
    <3>2. section'.now = section.now
      BY <3>1 DEF Shape, Typed, Section
    <3>3. QED BY <1>1, <1>5, <2>1, <3>1, <3>2
  <2>4. QED BY <2>2, <2>3
<1>15. ASSUME NEW c \in Caller, Sleep(c) PROVE SleepsCountFor(e)'
  <2>1. clock' = clock /\ section' = section
    BY <1>15 DEF Sleep
  <2>2. CASE e = c
    <3>1. attempt'[e].started = attempt[e].started /\ pc'[e] = "asleep"
          /\ Open(e)
      BY <1>1, <1>15, <2>2 DEF Sleep, Attempts, Shape, Discipline
    <3>2. clock + MinSleep <= wake'[e]
      <4> DEFINE capped == IF attempt[c].deadline = None THEN pause[c]
                           ELSE AtMost(pause[c], Remaining(c))
      <4>1. wake'[e] = clock + AtLeast(capped, MinSleep)
        BY <1>1, <1>15, <2>2 DEF Sleep
      <4>2. capped \in Int
        BY <1>1 DEF Shape, Typed, AtMost, Remaining, Attempts
      <4>3. QED BY <1>1, <4>1, <4>2 DEF AtLeast
    <3>3. attempt[e].started <= clock /\ wake'[e] \in Int
      BY <1>4, <3>1, ShapeStep DEF SleepsCountFor, Shape, Typed
    <3>4. attempt[e].started + MinSleep <= wake'[e]
      BY <1>1, <1>2, <3>2, <3>3
    <3>5. QED BY <2>1, <3>1, <3>3, <3>4 DEF SleepsCountFor, Critical
  <2>3. CASE e # c
    BY <1>1, <1>5, <1>15, <2>1, <2>3 DEF Sleep
  <2>4. QED BY <2>2, <2>3
<1>16. ASSUME NEW c \in Caller, WakeUp(c) PROVE SleepsCountFor(e)'
  <2>1. UNCHANGED <<clock, section, attempt>>
    BY <1>16 DEF WakeUp
  <2>2. CASE e = c
    <3>1. pc[e] = "asleep" /\ clock >= wake[e] /\ pc'[e] = "poll"
      BY <1>1, <1>16, <2>2 DEF WakeUp
    <3>2. QED BY <1>1, <1>2, <1>4, <2>1, <3>1 DEF SleepsCountFor, Open, Critical
  <2>3. CASE e # c
    BY <1>1, <1>5, <1>16, <2>1, <2>3 DEF WakeUp
  <2>4. QED BY <2>2, <2>3
<1>17. ASSUME NEW c \in Caller, \/ BeginRead(c) \/ GiveUp(c) \/ CountTimeout(c)
                                \/ Interrupt(c) \/ Release(c)
       PROVE  SleepsCountFor(e)'
  <2>1. clock' = clock /\ section' = section
    BY <1>17 DEF BeginRead, GiveUp, CountTimeout, Interrupt, Release
  <2>2. CASE e = c
    <3>1. pc'[e] \in {"idle", "read", "timeout", "release"}
      BY <1>1, <1>17, <2>2 DEF BeginRead, GiveUp, CountTimeout, Interrupt, Release
    <3>2. attempt'[e] = attempt[e]
      BY <1>1, <1>17, <2>2
      DEF BeginRead, GiveUp, CountTimeout, Interrupt, Release, Open, NoAttempt
    <3>3. QED BY <1>6, <2>1, <3>1, <3>2
  <2>3. CASE e # c
    <3>1. attempt'[e] = attempt[e] /\ pc'[e] = pc[e] /\ wake'[e] = wake[e]
      BY <1>1, <1>17, <2>3 DEF BeginRead, GiveUp, CountTimeout, Interrupt, Release
    <3>2. QED BY <1>1, <1>5, <2>1, <3>1
  <2>4. QED BY <2>2, <2>3
<1>18. CASE UNCHANGED vars
  BY <1>1, <1>5, <1>18 DEF vars
<1>19. QED
  BY <1>7, <1>8, <1>9, <1>10, <1>11, <1>13, <1>14, <1>15, <1>16, <1>17, <1>18
  DEF Next, Step


\* A sleep asked for while time remains ends less than MinSleep after the
\* deadline: either it was capped at what remains, or it is one shortest sleep.
LEMMA OversleepStep ==
    Shape /\ OversleepIsBounded /\ [Next]_vars => OversleepIsBounded'
<1> SUFFICES ASSUME Shape, OversleepIsBounded, [Next]_vars,
                    NEW e \in Caller, pc'[e] = "asleep", attempt'[e].deadline # None
             PROVE  wake'[e] < attempt'[e].deadline + MinSleep
  BY DEF OversleepIsBounded
<1>1. /\ clock \in Nat
      /\ attempt \in [Caller -> Attempts] /\ pc \in [Caller -> Places]
      /\ wake \in [Caller -> Int] /\ pause \in [Caller -> Int]
  BY DEF Shape, Typed
<1>2. ASSUME NEW c \in Caller, Sleep(c), e = c
      PROVE  wake'[e] < attempt'[e].deadline + MinSleep
  <2> DEFINE capped == AtMost(pause[c], Remaining(c))
  <2>1. attempt'[e].deadline = attempt[e].deadline
    BY <1>1, <1>2 DEF Sleep, Attempts
  <2>2. attempt[e].deadline \in Nat
    BY <1>1, <2>1 DEF Attempts
  <2>3. Remaining(c) > 0 /\ wake'[e] = clock + AtLeast(capped, MinSleep)
    BY <1>1, <1>2, <2>1 DEF Sleep
  <2>4. capped \in Int /\ capped <= Remaining(c) /\ Remaining(c) = attempt[e].deadline - clock
    BY <1>1, <1>2, <2>2 DEF AtMost, Remaining
  <2>5. clock + AtLeast(capped, MinSleep) < attempt[e].deadline + MinSleep
    BY <1>1, <2>2, <2>3, <2>4 DEF AtLeast
  <2>6. QED BY <2>1, <2>3, <2>5
<1>3. ASSUME pc[e] = "asleep", attempt'[e].deadline = attempt[e].deadline, wake'[e] = wake[e]
      PROVE  wake'[e] < attempt'[e].deadline + MinSleep
  BY <1>3 DEF OversleepIsBounded
<1>4. ASSUME NEW c \in Caller, Refuse(c)
      PROVE  wake'[e] < attempt'[e].deadline + MinSleep
  <2>1. c # e
    BY <1>1, <1>4 DEF Refuse
  <2>2. QED BY <1>1, <1>3, <1>4, <2>1 DEF Refuse
<1>5. ASSUME NEW c \in Caller, Sleep(c), e # c
      PROVE  wake'[e] < attempt'[e].deadline + MinSleep
  BY <1>1, <1>3, <1>5 DEF Sleep
<1>6. ASSUME NEW c \in Caller, Grant(c) \/ Begin(c) \/ Release(c)
      PROVE  wake'[e] < attempt'[e].deadline + MinSleep
  BY <1>1, <1>3, <1>6 DEF Grant, Begin, Release
<1>7. ASSUME NEW c \in Caller, WakeUp(c) \/ Interrupt(c)
      PROVE  wake'[e] < attempt'[e].deadline + MinSleep
  BY <1>1, <1>3, <1>7 DEF WakeUp, Interrupt
<1>8. ASSUME NEW c \in Caller, \/ BeginRead(c) \/ TakeLock(c) \/ ReturnUsed(c)
                               \/ MeasureNothing(c) \/ GiveUp(c) \/ CountTimeout(c)
      PROVE  wake'[e] < attempt'[e].deadline + MinSleep
  BY <1>1, <1>3, <1>8
  DEF BeginRead, TakeLock, ReturnUsed, MeasureNothing, GiveUp, CountTimeout
<1>9. ASSUME NEW c \in Caller, Walk(c)
      PROVE  wake'[e] < attempt'[e].deadline + MinSleep
  <2>1. attempt' = attempt /\ wake' = wake
        /\ (pc' = pc \/ pc' = [pc EXCEPT ![c] = "unlocked"])
    BY <1>9 DEF Walk
  <2>2. pc[e] = "asleep"
    BY <1>1, <2>1
  <2>3. QED BY <1>3, <2>1, <2>2
<1>10. ASSUME UNCHANGED <<pc, attempt, wake>>
       PROVE  wake'[e] < attempt'[e].deadline + MinSleep
  BY <1>3, <1>10
<1>11. QED
  BY <1>2, <1>4, <1>5, <1>6, <1>7, <1>8, <1>9, <1>10
  DEF Next, Step, Tick, ExpireOldest, vars

\* No pause and no wake-up time is negative: what the walk stops at has not
\* expired, and no sleep ends in the past.
NeverNegative == pause \in [Caller -> Nat] /\ wake \in [Caller -> Nat]

LEMMA NeverNegativeStep ==
    Shape /\ InOrder /\ Totals /\ Ledger /\ NeverNegative /\ [Next]_vars => NeverNegative'
<1> SUFFICES ASSUME Shape, InOrder, Totals, Ledger, NeverNegative, [Next]_vars
             PROVE  NeverNegative'
  OBVIOUS
<1>1. /\ clock \in Nat /\ section.now \in Nat /\ section.seen \in Nat
      /\ attempt \in [Caller -> Attempts]
      /\ pause \in [Caller -> Nat] /\ wake \in [Caller -> Nat]
  BY DEF Shape, Typed, Section, NeverNegative
<1>2. ASSUME NEW c \in Caller, Walk(c) PROVE NeverNegative'
  <2> DEFINE entry == log[section.seen + 1]
  <2>1. TimeToExpiry(entry, section.now) \in Nat
    <3>1. section.seen + 1 \in 1..Len(log) /\ pc[c] = "measure" /\ Len(log) \in Nat
      BY SMTT(30), <1>1, <1>2, Accounts DEF Walk
    <3>2. log[section.seen + 1] \in Entry /\ log[1] \in Entry
      BY <3>1, Accounts
    <3>3. entry.at \in Nat /\ log[1].at \in Nat
      BY <3>2 DEF Entry
    <3>4. ~OldestHasExpired /\ log # <<>>
      BY <3>1 DEF Ledger, ExpiryIsOver
    <3>5. section.now - log[1].at < Window
      BY <1>1, <3>3, <3>4 DEF OldestHasExpired, HasExpired
    <3>6. log[1].at <= entry.at
      <4>1. log[1].at = grants[Forgotten + 1].at
            /\ entry.at = grants[Forgotten + (section.seen + 1)].at
        BY <3>1 DEF Ledger, LedgerAgrees
      <4>2. /\ Forgotten + 1 \in 1..Len(grants)
            /\ Forgotten + (section.seen + 1) \in 1..Len(grants)
            /\ Forgotten + 1 <= Forgotten + (section.seen + 1)
        <5>1. /\ Forgotten \in Nat /\ Len(grants) \in Nat
              /\ Len(log) = Len(grants) - Forgotten
          BY Accounts
        <5>2. QED BY SMTT(30), <1>1, <3>1, <5>1
      <4>3. QED BY <4>1, <4>2 DEF InOrder
    <3>7. QED BY <1>1, <3>3, <3>5, <3>6 DEF TimeToExpiry
  <2>2. wake' = wake
    BY <1>2 DEF Walk
  <2>3. pause' = pause \/ pause' = [pause EXCEPT ![c] = TimeToExpiry(entry, section.now)]
    BY <1>2 DEF Walk
  <2>4. QED BY <1>1, <2>1, <2>2, <2>3 DEF NeverNegative
<1>3. ASSUME NEW c \in Caller, Sleep(c) PROVE NeverNegative'
  <2> DEFINE capped == IF attempt[c].deadline = None THEN pause[c]
                       ELSE AtMost(pause[c], Remaining(c))
  <2>1. /\ wake' = [wake EXCEPT ![c] = clock + AtLeast(capped, MinSleep)]
        /\ pause' = [pause EXCEPT ![c] = 0]
    BY <1>3 DEF Sleep
  <2>2. capped \in Int
    BY <1>1 DEF AtMost, Remaining, Attempts
  <2>3. clock + AtLeast(capped, MinSleep) \in Nat
    BY <1>1, <2>2 DEF AtLeast
  <2>4. QED BY <1>1, <2>1, <2>3 DEF NeverNegative
<1>4. ASSUME NEW c \in Caller, GiveUp(c) \/ MeasureNothing(c) \/ WakeUp(c) \/ Interrupt(c)
      PROVE  NeverNegative'
  BY <1>1, <1>4 DEF GiveUp, MeasureNothing, WakeUp, Interrupt, NeverNegative
<1>5. ASSUME UNCHANGED <<pause, wake>> PROVE NeverNegative'
  BY <1>5 DEF NeverNegative
<1>6. QED
  BY <1>2, <1>3, <1>4, <1>5
  DEF Next, Step, Tick, Begin, BeginRead, TakeLock, ExpireOldest, ReturnUsed, Grant,
      Refuse, CountTimeout, Release, vars

\* The counters.
LEMMA StatsStep ==
    Shape /\ SleepsCount /\ StatsAgree /\ [Next]_vars => StatsAgree'
<1> SUFFICES ASSUME Shape, SleepsCount, StatsAgree, [Next]_vars PROVE StatsAgree'
  OBVIOUS
<1>1. stats \in Counters /\ section.now \in Nat /\ attempt \in [Caller -> Attempts]
  BY DEF Shape, Typed, Section
<1>2. stats.granted \in Nat /\ stats.waits \in Nat /\ stats.waitTime \in Int
  BY <1>1 DEF Counters
<1>3. ASSUME UNCHANGED <<stats, grants>> PROVE StatsAgree'
  BY <1>3 DEF StatsAgree
<1>4. ASSUME NEW c \in Caller, CountTimeout(c) PROVE StatsAgree'
  <2>1. /\ stats'.granted = stats.granted /\ stats'.waits = stats.waits
        /\ stats'.waitTime = stats.waitTime /\ grants' = grants
    BY <1>1, <1>4 DEF CountTimeout, Counters, history
  <2>2. QED BY <2>1 DEF StatsAgree
<1>5. ASSUME NEW c \in Caller, Grant(c) PROVE StatsAgree'
  <2>1. Len(grants) \in Nat /\ Len(grants') = Len(grants) + 1
    BY <1>5, GrantAppends
  <2>2. CASE ~attempt[c].waited
    <3>1. /\ stats'.granted = stats.granted + 1 /\ stats'.waits = stats.waits
          /\ stats'.waitTime = stats.waitTime
      BY <1>1, <1>5, <2>2 DEF Grant, CountGrant, Counters
    <3>2. QED BY <1>2, <2>1, <3>1 DEF StatsAgree
  <2>3. CASE attempt[c].waited
    <3> DEFINE elapsed == section.now - attempt[c].started
    <3>1. /\ stats'.granted = stats.granted + 1 /\ stats'.waits = stats.waits + 1
          /\ stats'.waitTime = stats.waitTime + elapsed
      BY <1>1, <1>5, <2>3 DEF Grant, CountGrant, Counters
    <3>2. attempt[c].started + MinSleep <= section.now /\ attempt[c].started \in Nat
      BY <1>1, <1>5, <2>3 DEF Grant, SleepsCount, SleepsCountFor, Critical, Attempts
    <3>3. elapsed >= MinSleep /\ elapsed \in Int
      BY <1>1, <3>2
    <3>4. (stats.waits + 1) * MinSleep = stats.waits * MinSleep + MinSleep
          /\ stats.waits * MinSleep \in Int
      BY <1>2
    <3> HIDE DEF elapsed
    <3>5. stats'.waitTime >= stats'.waits * MinSleep
      BY <1>2, <3>1, <3>3, <3>4 DEF StatsAgree
    <3>6. QED BY <1>2, <2>1, <3>1, <3>5 DEF StatsAgree
  <2>4. QED BY <2>2, <2>3
<1>6. QED
  BY <1>3, <1>4, <1>5
  DEF Next, Step, Tick, Begin, BeginRead, TakeLock, ExpireOldest, ReturnUsed, Refuse,
      MeasureNothing, Walk, Sleep, GiveUp, WakeUp, Interrupt, Release, window, history, vars

-----------------------------------------------------------------------------
\* How calls end.

\* The three counters a call can end in, and their types.
LEMMA EndsType ==
    ASSUME Shape
    PROVE  /\ Len(grants) \in Nat /\ stats.timeouts \in Nat
           /\ calls.interrupted \in Nat /\ calls.begun \in Nat
           /\ attempt \in [Caller -> Attempts] /\ pc \in [Caller -> Places]
BY DEF Shape, Typed, TypedSequences, Counters, CallCounts

\* Who is in line: nobody loses a ticket on the way, and a caller gets one before
\* it measures.
LEMMA InLineStep ==
    ASSUME Shape, InLineOnceRefused, [Next]_vars PROVE InLineOnceRefused'
<1> DEFINE refused == {"measure", "unlocked", "timeout", "asleep", "release"}
<1>1. attempt \in [Caller -> Attempts] /\ pc \in [Caller -> Places] /\ nextTicket \in Nat
  BY DEF Shape, Typed
<1>2. ASSUME NEW c \in Caller,
             \A e \in Caller \ {c} : pc'[e] = pc[e] /\ attempt'[e] = attempt[e],
             pc'[c] \in refused => attempt'[c].ticket # None
      PROVE  InLineOnceRefused'
  BY <1>2 DEF InLineOnceRefused
<1>3. CASE UNCHANGED <<pc, attempt>>
  BY <1>3 DEF InLineOnceRefused
<1>4. ASSUME NEW c \in Caller, Refuse(c) PROVE InLineOnceRefused'
  <2>1. \A e \in Caller \ {c} : pc'[e] = pc[e] /\ attempt'[e] = attempt[e]
    BY <1>1, <1>4 DEF Refuse
  <2>2. attempt'[c].ticket # None
    <3>1. CASE attempt[c].ticket = None
      <4>1. attempt' = [attempt EXCEPT ![c].ticket = nextTicket]
        BY <1>4, <3>1 DEF Refuse
      <4>2. attempt'[c].ticket = nextTicket
        BY <1>1, <4>1 DEF Attempts
      <4>3. QED BY <1>1, <4>2
    <3>2. CASE attempt[c].ticket # None
      BY <1>4, <3>2 DEF Refuse
    <3>3. QED BY <3>1, <3>2
  <2>3. QED BY <1>2, <2>1, <2>2
<1>5. ASSUME NEW c \in Caller, Sleep(c) PROVE InLineOnceRefused'
  <2>1. /\ \A e \in Caller \ {c} : pc'[e] = pc[e] /\ attempt'[e] = attempt[e]
        /\ attempt'[c].ticket = attempt[c].ticket
        /\ pc[c] = "unlocked"
    BY <1>1, <1>5 DEF Sleep, Attempts
  <2>2. attempt'[c].ticket # None
    BY <2>1 DEF InLineOnceRefused
  <2>3. QED BY <1>2, <2>1, <2>2
<1>6. ASSUME NEW c \in Caller, Begin(c) \/ Grant(c) \/ Release(c)
      PROVE  InLineOnceRefused'
  <2>1. /\ \A e \in Caller \ {c} : pc'[e] = pc[e] /\ attempt'[e] = attempt[e]
        /\ pc'[c] \in {"poll", "idle"}
    BY <1>1, <1>6 DEF Begin, Grant, Release
  <2>2. QED BY <1>2, <2>1
<1>7. ASSUME NEW c \in Caller, UNCHANGED attempt,
             BeginRead(c) \/ TakeLock(c) \/ ExpireOldest(c) \/ ReturnUsed(c)
               \/ MeasureNothing(c) \/ Walk(c) \/ GiveUp(c) \/ CountTimeout(c)
               \/ WakeUp(c) \/ Interrupt(c)
      PROVE  InLineOnceRefused'
  <2>1. /\ \A e \in Caller \ {c} : pc'[e] = pc[e] /\ attempt'[e] = attempt[e]
        /\ pc'[c] \in refused => pc[c] \in refused
        /\ attempt'[c] = attempt[c]
    BY <1>1, <1>7
    DEF BeginRead, TakeLock, ExpireOldest, ReturnUsed, MeasureNothing, Walk, GiveUp,
        CountTimeout, WakeUp, Interrupt
  <2>2. QED BY <1>2, <2>1 DEF InLineOnceRefused
<1>8. QED
  BY <1>3, <1>4, <1>5, <1>6, <1>7
  DEF Next, Step, Tick, BeginRead, TakeLock, ExpireOldest, ReturnUsed, MeasureNothing,
      Walk, GiveUp, CountTimeout, WakeUp, Interrupt, vars

\* A call begun is a call on its way; each of the three ways out of it is counted.
LEMMA BalanceStep ==
    ASSUME Shape, Tally, [Next]_vars
    PROVE  IsFiniteSet(Pending') /\ calls'.begun = Ends' + Cardinality(Pending')
<1>1. /\ Len(grants) \in Nat /\ stats.timeouts \in Nat
      /\ calls.interrupted \in Nat /\ calls.begun \in Nat
      /\ attempt \in [Caller -> Attempts] /\ pc \in [Caller -> Places]
      /\ stats \in Counters /\ calls \in CallCounts
  BY EndsType DEF Shape, Typed
<1>2. IsFiniteSet(Pending) /\ Cardinality(Pending) \in Nat
      /\ calls.begun = Ends + Cardinality(Pending) /\ Ends \in Nat
  BY <1>1, FS_CardinalityType DEF Tally, Ends
<1>3. NoAttempt.cost = 0
  BY DEF NoAttempt
\* One call fewer on its way, one more at its end.
<1>4. ASSUME NEW c \in Caller, c \in Pending, Pending' = Pending \ {c},
             calls'.begun = calls.begun, Ends' = Ends + 1
      PROVE  IsFiniteSet(Pending') /\ calls'.begun = Ends' + Cardinality(Pending')
  <2>1. IsFiniteSet(Pending') /\ Cardinality(Pending') = Cardinality(Pending) - 1
    BY <1>2, <1>4, FS_RemoveElement
  <2>2. QED BY <1>2, <1>4, <2>1
<1>5. ASSUME Pending' = Pending, UNCHANGED <<grants, calls>>,
             stats'.timeouts = stats.timeouts
      PROVE  IsFiniteSet(Pending') /\ calls'.begun = Ends' + Cardinality(Pending')
  <2>1. Ends' = Ends
    BY <1>5 DEF Ends
  <2>2. QED BY <1>2, <1>5, <2>1
<1>6. ASSUME NEW c \in Caller, Begin(c)
      PROVE  IsFiniteSet(Pending') /\ calls'.begun = Ends' + Cardinality(Pending')
  <2>1. pc[c] = "idle" /\ attempt[c] = NoAttempt
    BY <1>6 DEF Begin, Shape, Discipline
  <2>2. /\ \A e \in Caller \ {c} : pc'[e] = pc[e] /\ attempt'[e] = attempt[e]
        /\ pc'[c] = "poll" /\ attempt'[c].cost > 0
    BY <1>1, <1>6 DEF Begin, Acceptable
  <2>3. c \notin Pending /\ Pending' = Pending \cup {c}
    BY <1>3, <2>1, <2>2 DEF Pending, Open
  <2>4. IsFiniteSet(Pending') /\ Cardinality(Pending') = Cardinality(Pending) + 1
    BY <1>2, <2>3, FS_AddElement
  <2>5. calls'.begun = calls.begun + 1 /\ Ends' = Ends
    BY <1>1, <1>6 DEF Begin, CallCounts, Ends, window
  <2>6. QED BY <1>2, <2>4, <2>5
<1>7. ASSUME NEW c \in Caller, Grant(c)
      PROVE  IsFiniteSet(Pending') /\ calls'.begun = Ends' + Cardinality(Pending')
  <2>1. /\ \A e \in Caller \ {c} : pc'[e] = pc[e] /\ attempt'[e] = attempt[e]
        /\ attempt'[c] = NoAttempt /\ Open(c) /\ pc[c] = "expire" /\ calls' = calls
    BY <1>1, <1>7 DEF Grant
  <2>2. c \in Pending /\ Pending' = Pending \ {c}
    BY <1>3, <2>1 DEF Pending, Open
  <2>3. Len(grants') = Len(grants) + 1
    BY <1>7, GrantAppends
  <2>4. stats'.timeouts = stats.timeouts
    <3>1. CASE attempt[c].waited
      BY <1>1, <1>7, <3>1 DEF Grant, CountGrant, Counters
    <3>2. CASE ~attempt[c].waited
      BY <1>1, <1>7, <3>2 DEF Grant, CountGrant, Counters
    <3>3. QED BY <3>1, <3>2
  <2>5. Ends' = Ends + 1
    <3>1. calls'.interrupted = calls.interrupted
      BY <2>1
    <3>2. Ends' = Len(grants') + stats'.timeouts + calls'.interrupted
      BY DEF Ends
    <3>3. Len(grants) \in Nat /\ stats.timeouts \in Nat /\ calls.interrupted \in Nat
      BY <1>1
    <3>4. QED BY <2>3, <2>4, <3>1, <3>2, <3>3 DEF Ends
  <2>6. QED BY <1>4, <2>1, <2>2, <2>5
<1>8. ASSUME NEW c \in Caller, CountTimeout(c)
      PROVE  IsFiniteSet(Pending') /\ calls'.begun = Ends' + Cardinality(Pending')
  <2>1. /\ \A e \in Caller \ {c} : pc'[e] = pc[e]
        /\ pc'[c] = "release" /\ pc[c] = "timeout" /\ attempt' = attempt
        /\ calls' = calls /\ grants' = grants
        /\ stats'.timeouts = stats.timeouts + 1
    BY <1>1, <1>8 DEF CountTimeout, Counters, history
  <2>2. Open(c)
    BY <2>1 DEF Shape, Discipline
  <2>3. c \in Pending /\ Pending' = Pending \ {c}
    BY <2>1, <2>2 DEF Pending, Open
  <2>4. Ends' = Ends + 1
    BY <1>1, <2>1 DEF Ends
  <2>5. QED BY <1>4, <2>1, <2>3, <2>4
<1>9. ASSUME NEW c \in Caller, Interrupt(c)
      PROVE  IsFiniteSet(Pending') /\ calls'.begun = Ends' + Cardinality(Pending')
  <2>1. /\ \A e \in Caller \ {c} : pc'[e] = pc[e]
        /\ pc'[c] = "release" /\ pc[c] = "asleep" /\ attempt' = attempt
        /\ calls'.begun = calls.begun /\ calls'.interrupted = calls.interrupted + 1
        /\ grants' = grants /\ stats' = stats
    BY <1>1, <1>9 DEF Interrupt, CallCounts, window
  <2>2. Open(c)
    BY <2>1 DEF Shape, Discipline
  <2>3. c \in Pending /\ Pending' = Pending \ {c}
    BY <2>1, <2>2 DEF Pending, Open
  <2>4. Ends' = Ends + 1
    BY <1>1, <2>1 DEF Ends
  <2>5. QED BY <1>4, <2>1, <2>3, <2>4
<1>10. ASSUME NEW c \in Caller,
              TakeLock(c) \/ ExpireOldest(c) \/ Refuse(c) \/ MeasureNothing(c) \/ Walk(c)
                \/ Sleep(c) \/ GiveUp(c) \/ WakeUp(c) \/ BeginRead(c) \/ ReturnUsed(c)
                \/ Release(c)
       PROVE  IsFiniteSet(Pending') /\ calls'.begun = Ends' + Cardinality(Pending')
  <2>1. /\ \A e \in Caller \ {c} : pc'[e] = pc[e] /\ attempt'[e] = attempt[e]
        /\ UNCHANGED <<grants, calls, stats>>
    BY <1>1, <1>10
    DEF TakeLock, ExpireOldest, Refuse, MeasureNothing, Walk, Sleep, GiveUp, WakeUp,
        BeginRead, ReturnUsed, Release, window, history
  <2>2. CASE Release(c)
    <3>1. pc[c] = "release" /\ attempt'[c] = NoAttempt
      BY <1>1, <2>2 DEF Release
    <3>2. Pending' = Pending
      BY <1>3, <2>1, <3>1 DEF Pending, Open
    <3>3. QED BY <1>5, <2>1, <3>2
  <2>3. CASE ~Release(c)
    <3>1. attempt'[c].cost = attempt[c].cost
      BY <1>1, <1>10, <2>3
      DEF TakeLock, ExpireOldest, Refuse, MeasureNothing, Walk, Sleep, GiveUp, WakeUp,
          BeginRead, ReturnUsed, Attempts
    <3>2. pc[c] # "release" /\ pc'[c] # "release"
      BY <1>1, <1>10, <2>3
      DEF TakeLock, ExpireOldest, Refuse, MeasureNothing, Walk, Sleep, GiveUp, WakeUp,
          BeginRead, ReturnUsed
    <3>3. Pending' = Pending
      BY <2>1, <3>1, <3>2 DEF Pending, Open
    <3>4. QED BY <1>5, <2>1, <3>3
  <2>4. QED BY <2>2, <2>3
<1>11. CASE UNCHANGED <<pc, attempt, grants, calls, stats>>
  <2>1. Pending' = Pending
    BY <1>11 DEF Pending, Open
  <2>2. QED BY <1>5, <1>11, <2>1
<1>12. CASE Tick \/ UNCHANGED vars
  <2>1. UNCHANGED <<pc, attempt, grants, calls, stats>>
    BY <1>12 DEF Tick, vars, window, history
  <2>2. QED BY <1>11, <2>1
<1>13. QED
  BY <1>6, <1>7, <1>8, <1>9, <1>10, <1>12 DEF Next, Step

-----------------------------------------------------------------------------
\* The theorems.

IInv == /\ Shape /\ InOrder /\ Totals /\ Ledger /\ WithinLimit
        /\ WalkSoFar /\ Line
        /\ SleepsCount /\ OversleepIsBounded /\ NeverNegative /\ StatsAgree

\* The inductive invariant holds initially ...
LEMMA InitHolds == Init => IInv
<1> SUFFICES ASSUME Init PROVE IInv
  OBVIOUS
<1>1. Len(grants) = 0 /\ Len(log) = 0 /\ Len(waiting) = 0 /\ log = <<>>
  BY DEF Init
<1>2. Spent[0] = 0 /\ Forgotten = 0
  BY <1>1 DEF Spent, Forgotten
<1>3. InOrder /\ Totals /\ WithinLimit
  BY <1>1, <1>2 DEF Init, NoSection, InOrder, Totals, WithinLimit
<1>4. Ledger
  BY <1>1, <1>2 DEF Init, Ledger, LedgerAgrees, OnlyOldForgotten, ExpiryIsOver, OldestHasExpired
<1>5. WalkSoFar
  BY DEF Init, WalkSoFar, WalkIsAt
<1>6. Line
  BY <1>1 DEF Init, Line, LineIsLive, NoAttempt
<1>7. SleepsCount /\ OversleepIsBounded /\ NeverNegative
  BY DEF Init, SleepsCount, SleepsCountFor, OversleepIsBounded, NeverNegative, NoAttempt, Open
<1>8. StatsAgree
  BY <1>1 DEF Init, StatsAgree
<1>9. QED BY <1>3, <1>4, <1>5, <1>6, <1>7, <1>8, ShapeInit DEF IInv

\* ... every step of every caller, and of the clock, keeps it ...
LEMMA NextKeepsIInv == IInv /\ [Next]_vars => IInv'
BY ShapeStep, InOrderStep, TotalsStep, LedgerStep, WithinLimitStep, WalkStep, LineStep,
   SleepsCountStep, OversleepStep, NeverNegativeStep, StatsStep
DEF IInv

\* ... so it holds of every behaviour of the window.
THEOREM Invariance == Spec => []IInv
BY InitHolds, NextKeepsIInv, PTL DEF Spec

\* The window keeps its type; in particular it is never overdrawn (used is at
\* most Limit) and no pause, wake-up time or counter is ever negative.
THEOREM TypeCorrect == Spec => []TypeOK
<1>1. IInv => TypeOK
  <2> SUFFICES ASSUME IInv PROVE TypeOK
    OBVIOUS
  <2>1. Typed /\ TypedSequences /\ NeverNegative /\ used \in 0..Limit
    BY DEF IInv, Shape, Ledger
  <2>2. stats \in WindowStats
    <3>1. stats \in Counters /\ stats.waits \in Nat /\ stats.waitTime \in Int
      BY <2>1 DEF Typed, Counters
    <3>2. stats.waitTime >= stats.waits * MinSleep
      BY DEF IInv, StatsAgree
    <3>3. stats.waits * MinSleep \in Nat
      BY <3>1
    <3>4. stats.waitTime \in Nat
      BY <3>1, <3>2, <3>3
    <3>5. QED BY <3>1, <3>4 DEF Counters, WindowStats
  <2>3. QED BY <2>1, <2>2 DEF TypeOK, Typed, TypedSequences, NeverNegative
<1>2. QED BY <1>1, Invariance, PTL

\* The promise of the class, for every limit, window, number of callers and mix
\* of costs and timeouts: no window is ever overspent.
THEOREM NeverOverspends == Spec => []WithinLimit
<1>1. IInv => WithinLimit
  BY DEF IInv
<1>2. QED BY <1>1, Invariance, PTL

\* The log and used always describe the same recent end of the history.
THEOREM LedgerIsRight == Spec => []LedgerAgrees
<1>1. IInv => LedgerAgrees
  BY DEF IInv, Ledger
<1>2. QED BY <1>1, Invariance, PTL

\* At a decision the expiry is over, so the log starts with a grant of the window,
\* and whatever was dropped is out of it.
LEMMA DecisionHolds == IInv => DecidesOnTheWindow
<1> SUFFICES ASSUME IInv, NEW c \in Caller, NEW k \in 1..Len(grants),
                    pc[c] = "measure" \/ (pc[c] = "expire" /\ ~OldestHasExpired)
             PROVE  (section.now - grants[k].at < Window) <=> (k > Forgotten)
  BY DEF DecidesOnTheWindow
<1>1. Shape /\ InOrder /\ Totals /\ Ledger
  BY DEF IInv
<1>2. /\ Len(grants) \in Nat /\ Len(log) \in Nat /\ Forgotten \in 0..Len(grants)
      /\ Len(log) = Len(grants) - Forgotten /\ section.now \in Nat
      /\ grants[k].at \in Nat
  BY <1>1, Accounts
<1>3. lock # None /\ ~OldestHasExpired
  BY <1>1 DEF Shape, Discipline, Critical, Ledger, ExpiryIsOver
<1>4. CASE k \in 1..Forgotten
  <2>1. grants[k].at + Window <= section.now
    BY <1>1, <1>3, <1>4 DEF Ledger, OnlyOldForgotten
  <2>2. QED BY <1>2, <1>4, <2>1
<1>5. CASE k \in (Forgotten + 1)..Len(grants)
  <2>1. /\ Forgotten + 1 \in 1..Len(grants) /\ Forgotten + 1 <= k
        /\ 1 \in 1..Len(log) /\ log # <<>>
    BY <1>2, <1>5
  <2>2. log[1].at = grants[Forgotten + 1].at /\ grants[Forgotten + 1].at <= grants[k].at
    BY <1>1, <2>1 DEF Ledger, LedgerAgrees, InOrder
  <2>3. section.now - log[1].at < Window
    <3>1. log[1].at \in Nat
      BY <1>1, <2>1, <2>2, Accounts
    <3>2. QED BY <1>2, <1>3, <2>1, <3>1 DEF OldestHasExpired, HasExpired
  <2>4. grants[Forgotten + 1].at \in Nat
    BY <1>1, <2>1, Accounts
  <2>5. QED BY <1>2, <1>5, <2>2, <2>3, <2>4
<1>6. QED BY <1>2, <1>4, <1>5

\* Whenever a decision is taken, used counts exactly the grants of the window
\* that ends at the time the caller read.
THEOREM DecisionIsOnTheWindow == Spec => []DecidesOnTheWindow
BY DecisionHolds, Invariance, PTL

\* The log takes no more room than the limit allows entries of cost one.
THEOREM LogStaysShort == Spec => []LogIsBounded
<1>1. IInv => LogIsBounded
  <2> SUFFICES ASSUME IInv PROVE LogIsBounded
    OBVIOUS
  <2>1. /\ Len(grants) \in Nat /\ Len(log) \in Nat
        /\ Forgotten \in 0..Len(grants) /\ Len(log) = Len(grants) - Forgotten
        /\ \A k \in 0..Len(grants) : Spent[k] \in Nat
        /\ used = Spent[Len(grants)] - Spent[Forgotten]
    BY Accounts DEF IInv
  <2>2. Spent[Forgotten] + (Len(grants) - Forgotten) <= Spent[Len(grants)]
    BY <2>1 DEF IInv, Totals
  <2>3. used <= Limit
    BY DEF IInv, Ledger
  <2>4. Spent[Forgotten] \in Nat /\ Spent[Len(grants)] \in Nat
    BY <2>1
  <2>5. QED BY <2>1, <2>2, <2>3, <2>4 DEF LogIsBounded
<1>2. QED BY <1>1, Invariance, PTL

\* No ticket is lost and none is left behind, however calls end.
THEOREM NoTicketLeftBehind == Spec => []LineIsLive
<1>1. IInv => LineIsLive
  BY DEF IInv, Line
<1>2. QED BY <1>1, Invariance, PTL

\* The AssertionError at the end of _time_until_room_for is never raised.
THEOREM WalkAlwaysFindsRoom == Spec => []WalkFindsRoom
<1>1. IInv => WalkFindsRoom
  BY WalkEnds DEF IInv
<1>2. QED BY <1>1, Invariance, PTL

\* A sleep outlasts its deadline by less than the shortest sleep.
THEOREM OversleepsByLessThanMinSleep == Spec => []OversleepIsBounded
<1>1. IInv => OversleepIsBounded
  BY DEF IInv
<1>2. QED BY <1>1, Invariance, PTL

\* The counters agree with what happened.
THEOREM StatsAreRight == Spec => []StatsAgree
<1>1. IInv => StatsAgree
  BY DEF IInv
<1>2. QED BY <1>1, Invariance, PTL

\* A call ends in exactly one way, and is charged exactly when it is granted.
THEOREM EveryCallIsAccountedFor == Spec => []EveryCallAccountedFor
<1>1. Init => Tally
  <2> SUFFICES ASSUME Init PROVE Tally
    OBVIOUS
  <2>1. Pending = {} /\ InLineOnceRefused
    BY DEF Init, Pending, Open, NoAttempt, InLineOnceRefused
  <2>2. IsFiniteSet(Pending) /\ Cardinality(Pending) = 0
    BY <2>1, FS_EmptySet
  <2>3. calls.begun = 0 /\ Ends = 0
    BY DEF Init, Ends
  <2>4. QED BY <2>1, <2>2, <2>3 DEF Tally
<1>2. IInv /\ Tally /\ [Next]_vars => Tally'
  <2> SUFFICES ASSUME IInv, Tally, [Next]_vars PROVE Tally'
    OBVIOUS
  <2>1. Shape /\ InLineOnceRefused
    BY DEF IInv, Tally
  <2>2. InLineOnceRefused'
    BY <2>1, InLineStep
  <2>3. IsFiniteSet(Pending') /\ calls'.begun = Ends' + Cardinality(Pending')
    BY <2>1, BalanceStep
  <2>4. QED BY <2>2, <2>3 DEF Tally
<1>3. Tally => EveryCallAccountedFor
  BY DEF Tally, Ends, InLineOnceRefused, EveryCallAccountedFor
<1>4. QED BY <1>1, <1>2, <1>3, Invariance, PTL DEF Spec

\* Where the walk stops is where the room is: the quota that expires with the
\* entries walked over is what the front of the line lacks, and what expires
\* before the last of them is not.
LEMMA WalkStopsAtRoom ==
    ASSUME IInv, NEW c \in Caller, Walk(c), pc'[c] = "unlocked"
    PROVE  LET head == waiting[1].cost
               end  == section.now + pause'[c]
           IN /\ pause'[c] \in 1..Window
              /\ Budget!HasRoom(end, head)
              /\ ~Budget!HasRoom(end - 1, head)
<1> DEFINE h    == Forgotten
           s    == section.seen
           n    == Len(grants)
           m    == h + s + 1
           head == waiting[1].cost
           end  == section.now + pause'[c]
<1>0. Shape /\ InOrder /\ Totals /\ Ledger /\ WalkSoFar
  BY DEF IInv
<1>1. /\ n \in Nat /\ h \in Nat /\ h <= n /\ Len(log) \in Nat /\ Len(log) = n - h
      /\ section.now \in Nat /\ s \in Nat
  BY <1>0, Accounts DEF Shape, Typed, Section
<1>2. /\ \A k \in 1..n : grants[k].at \in Nat
      /\ \A k \in 0..n : Spent[k] \in Nat
  BY <1>0, Accounts
<1>3. used = Spent[n] - Spent[h] /\ used \in Int
  BY <1>0, Accounts DEF Shape, Typed
<1>4. pc[c] = "measure" /\ ~FrontHasRoom /\ s < Len(log)
  BY DEF Walk
<1>5. m \in 1..n /\ s + 1 \in 1..Len(log) /\ m - 1 \in 0..n /\ m - 1 = h + s
      /\ h + (s + 1) = m
  BY <1>1, <1>4
<1>6. log[s + 1].at = grants[m].at /\ log[s + 1].cost = grants[m].cost
  <2>1. /\ log[s + 1].at = grants[h + (s + 1)].at
        /\ log[s + 1].cost = grants[h + (s + 1)].cost
    BY <1>0, <1>5 DEF Ledger, LedgerAgrees
  <2>2. QED BY <1>5, <2>1
<1>7. waiting # <<>> /\ head \in 1..Limit
  <2>1. waiting \in Seq(InLine) /\ waiting # <<>>
    BY <1>0, <1>4 DEF Shape, TypedSequences, FrontHasRoom
  <2>2. waiting[1] \in InLine
    BY <2>1
  <2>3. QED BY <2>1, <2>2 DEF InLine
<1>8. section.released = Spent[m - 1] - Spent[h]
      /\ (s > 0 => ~Enough(section.released))
  BY <1>0, <1>4, <1>5 DEF WalkSoFar, WalkIsAt
<1>9. Spent[m] = Spent[m - 1] + grants[m].cost
  BY <1>0, <1>5, Accounts
<1>10. Spent[m] \in Nat /\ Spent[m - 1] \in Nat /\ Spent[n] \in Nat /\ Spent[h] \in Nat
  <2>1. m \in 0..n /\ m - 1 \in 0..n /\ n \in 0..n /\ h \in 0..n
    BY <1>1, <1>5
  <2>2. QED BY Zenon, <1>2, <2>1
<1>11. pc \in [Caller -> Places] /\ pause \in [Caller -> Int]
  BY <1>0 DEF Shape, Typed
<1>12. Enough(section.released + log[s + 1].cost)
      /\ pause' = [pause EXCEPT ![c] = TimeToExpiry(log[s + 1], section.now)]
  BY <1>4, <1>11 DEF Walk
<1>13. Spent[m] - Spent[h] >= used + head - Limit
  <2>1. Spent[m] \in Nat /\ Spent[m - 1] \in Nat /\ Spent[h] \in Nat
    BY <1>10
  <2>2. section.released + log[s + 1].cost = Spent[m] - Spent[h]
    <3>1. grants[m].cost \in Nat
      BY <1>0, <1>5, Accounts
    <3>2. QED BY <1>6, <1>8, <1>9, <2>1, <3>1
  <2>3. QED BY <1>12, <2>2 DEF Enough, Needed
<1> HIDE DEF h, s, m, head
<1>14. Spent[n] - Spent[m] + head <= Limit
  <2>1. Spent[m] - Spent[h] >= (Spent[n] - Spent[h]) + head - Limit
    BY <1>3, <1>13
  <2>2. head \in Int
    BY <1>7
  <2>3. QED BY <1>10, <2>1, <2>2
<1>15. Spent[m - 1] - Spent[h] < used + head - Limit
  <2>1. Spent[m - 1] \in Nat /\ Spent[h] \in Nat /\ used \in Int
    BY <1>10, <1>3
  <2>2. CASE s > 0
    BY <1>7, <1>8, <2>1, <2>2 DEF Enough, Needed, head
  <2>3. CASE s = 0
    <3>1. used + head > Limit
      BY <1>4, <1>7, <2>1 DEF FrontHasRoom, Fits, head
    <3>2. Spent[m - 1] - Spent[h] = 0
      BY <1>1, <1>5, <2>1, <2>3
    <3>3. QED BY <1>7, <2>1, <3>1, <3>2
  <2>4. QED BY <1>1, <2>2, <2>3
<1>16. pause'[c] = Window - (section.now - grants[m].at) /\ grants[m].at \in Nat
  <2>1. pause'[c] = TimeToExpiry(log[s + 1], section.now)
    BY <1>11, <1>12 DEF s
  <2>2. grants[m].at \in Nat
    BY <1>5, <1>2
  <2>3. QED BY <1>6, <2>1, <2>2 DEF TimeToExpiry
<1>17. end = grants[m].at + Window
  BY <1>1, <1>16
<1>18. pause'[c] \in 1..Window
  <2>1. section.now - grants[m].at < Window
    <3>1. m > Forgotten
      BY <1>1, <1>5 DEF h
    <3>2. QED BY <1>4, <1>5, <3>1, DecisionHolds DEF DecidesOnTheWindow
  <2>2. grants[m].at <= section.now
    <3>1. lock # None
      BY <1>0, <1>4 DEF Shape, Discipline, Critical
    <3>2. QED BY <1>0, <1>5, <3>1 DEF InOrder
  <2>3. QED BY <1>1, <1>16, <2>1, <2>2
<1>19. Budget!Spent = Spent
  BY DEF Budget!Spent, Spent
<1> HIDE DEF end
<1>20. Budget!HasRoom(end, head)
  <2> SUFFICES ASSUME NEW i \in 1..n, end - grants[i].at < Window
               PROVE  Spent[n] - Spent[i - 1] + head <= Limit
    BY <1>19 DEF Budget!HasRoom
  <2>0. grants[i].at \in Nat /\ grants[m].at \in Nat
    BY <1>5, <1>2
  <2>1. grants[m].at < grants[i].at
    BY <1>17, <2>0
  <2>2. m <= i - 1 /\ i - 1 \in 0..n
    <3>1. i <= m => grants[i].at <= grants[m].at
      BY <1>0, <1>5 DEF InOrder
    <3>2. ~(i <= m)
      BY <2>0, <2>1, <3>1
    <3>3. QED BY <1>1, <1>5, <3>2
  <2>3. Spent[m] <= Spent[i - 1]
    BY <1>0, <1>1, <1>5, <2>2 DEF Totals
  <2>4. Spent[m] \in Nat /\ Spent[i - 1] \in Nat /\ Spent[n] \in Nat
    BY <1>10, <1>2, <2>2
  <2>5. QED BY <1>7, <1>14, <2>3, <2>4
<1>21. ~Budget!HasRoom(end - 1, head)
  <2>1. end - 1 - grants[m].at < Window
    BY <1>16, <1>17
  <2>2. Spent[n] - Spent[m - 1] + head > Limit
    BY <1>7, <1>15, <1>10, <1>3
  <2>3. Spent[n] - Spent[m - 1] + head \in Int
    BY <1>7, <1>10
  <2>4. QED BY <1>5, <1>19, <2>1, <2>2, <2>3 DEF Budget!HasRoom
<1>22. QED BY <1>18, <1>20, <1>21 DEF head, end

\* A caller that measured waits exactly until the front of the line fits.
THEOREM PausesAreExact == Spec => PauseIsExact
<1> DEFINE Exact == \A c \in Caller :
              (pc[c] = "measure" /\ ~FrontHasRoom /\ pc'[c] = "unlocked") =>
                 LET head == waiting[1].cost
                     end  == section.now + pause'[c]
                 IN /\ pause'[c] \in 1..Window
                    /\ Budget!HasRoom(end, head)
                    /\ ~Budget!HasRoom(end - 1, head)
<1>1. IInv /\ [Next]_vars => [Exact]_vars
  <2> SUFFICES ASSUME IInv, Next, NEW c \in Caller,
                      pc[c] = "measure", ~FrontHasRoom, pc'[c] = "unlocked"
               PROVE  Walk(c)
    BY WalkStopsAtRoom
  <2>1. pc \in [Caller -> Places] /\ pc'[c] # pc[c]
    BY DEF IInv, Shape, Typed
  <2>2. PICK d \in Caller : Step(d)
    BY <2>1 DEF Next, Tick
  <2>3. c = d
    BY <2>1, <2>2
    DEF Step, Begin, BeginRead, TakeLock, ExpireOldest, ReturnUsed, Grant, Refuse,
        MeasureNothing, Walk, Sleep, GiveUp, CountTimeout, WakeUp, Interrupt, Release
  <2>4. QED
    BY <2>2, <2>3
    DEF Step, Begin, BeginRead, TakeLock, ExpireOldest, ReturnUsed, Grant, Refuse,
        MeasureNothing, Walk, Sleep, GiveUp, CountTimeout, WakeUp, Interrupt, Release
<1>2. QED BY <1>1, Invariance, PTL DEF Spec, PauseIsExact

\* Nobody is granted past a caller that queued earlier.
THEOREM FirstComeFirstServed == Spec => ServedInArrivalOrder
<1> DEFINE InTurn == grants' # grants =>
               \A d \in Caller \ {lock} : attempt[d].ticket # None =>
                  /\ attempt[lock].ticket # None
                  /\ attempt[lock].ticket < attempt[d].ticket
<1>1. IInv /\ [Next]_vars => [InTurn]_vars
  <2> SUFFICES ASSUME IInv, [Next]_vars, grants' # grants,
                      NEW d \in Caller \ {lock}, attempt[d].ticket # None
               PROVE  /\ attempt[lock].ticket # None
                      /\ attempt[lock].ticket < attempt[d].ticket
    OBVIOUS
  <2>1. Shape /\ Line /\ section.now <= clock
    BY DEF IInv, InOrder
  <2>2. PICK c \in Caller : Grant(c)
    BY <2>1, Effects DEF ExpireOldest, history
  <2>3. lock = c /\ AtTheFront(c)
    BY <2>1, <2>2 DEF Grant, Shape, Discipline, Critical
  <2>4. PICK i \in 1..Len(waiting) : waiting[i].ticket = attempt[d].ticket
    BY <2>1 DEF Line, LineIsLive
  <2>5. waiting \in Seq(InLine) /\ Len(waiting) \in Nat
    BY <2>1 DEF Shape, TypedSequences
  <2>6. attempt[c].ticket # None /\ waiting[1].ticket = attempt[c].ticket
    BY <2>3, <2>4, <2>5 DEF AtTheFront
  <2>7. attempt[c].ticket # attempt[d].ticket
    BY <2>1, <2>3, <2>6 DEF Line
  <2>8. 1 \in 1..Len(waiting) /\ 1 < i
    BY <2>4, <2>5, <2>6, <2>7
  <2>9. waiting[1].ticket < waiting[i].ticket
    BY <2>1, <2>8 DEF Line, LineIsLive
  <2>10. QED BY <2>3, <2>4, <2>6, <2>9
<1>2. QED BY <1>1, Invariance, PTL DEF Spec, ServedInArrivalOrder

\* A call that does not fit finds no room in the window that ends when it read the
\* clock: used counts that window, and the oldest entry of the log is inside it.
LEMMA NoRoomUnlessFits ==
    ASSUME IInv, NEW c \in Caller, pc[c] = "expire", ~OldestHasExpired, Open(c),
           ~Fits(attempt[c].cost)
    PROVE  ~Budget!HasRoom(section.now, attempt[c].cost)
<1> DEFINE cost == attempt[c].cost
           n == Len(grants)
<1>1. cost \in 1..Limit
  BY DEF IInv, Shape, Typed, Discipline, Open, Attempts
<1>2. /\ n \in Nat /\ Forgotten \in 0..n /\ \A k \in 0..n : Spent[k] \in Nat
      /\ used = Spent[n] - Spent[Forgotten]
  BY Accounts DEF IInv, Ledger, LedgerAgrees
<1>3. ~(used + cost <= Limit)
  BY DEF Fits
<1>4. Spent[n] \in Nat /\ Spent[Forgotten] \in Nat /\ Limit \in Nat
  BY <1>2, LimitAssumption
<1> HIDE DEF cost, n
<1>5. Forgotten # n
  BY <1>1, <1>2, <1>3, <1>4
<1>6. Forgotten + 1 \in 1..n /\ (Forgotten + 1) - 1 = Forgotten /\ Forgotten + 1 > Forgotten
  BY <1>2, <1>5
<1>7. section.now - grants[Forgotten + 1].at < Window
  BY <1>6, DecisionHolds DEF DecidesOnTheWindow, n
<1>8. ~(Spent[n] - Spent[(Forgotten + 1) - 1] + cost <= Limit)
  BY <1>1, <1>2, <1>3, <1>4, <1>6
<1>9. QED BY <1>6, <1>7, <1>8 DEF Budget!HasRoom, Budget!Spent, Spent, n, cost

\* No call waits and no try_acquire is refused without a reason: the budget has no
\* room for it, or somebody is in line before it.
THEOREM NoneIsRefusedWithoutCause == Spec => RefusedForCause
<1> DEFINE Before(c, d) == /\ attempt[d].ticket # None
                           /\ attempt[c].ticket # None => attempt[d].ticket < attempt[c].ticket
           Caused == \A c \in Caller : (pc[c] = "expire" /\ pc'[c] = "measure") =>
                        \/ ~Budget!HasRoom(section.now, attempt[c].cost)
                        \/ \E d \in Caller \ {c} : Before(c, d)
<1>1. IInv /\ [Next]_vars => [Caused]_vars
  <2> SUFFICES ASSUME IInv, [Next]_vars, NEW c \in Caller,
                      pc[c] = "expire", pc'[c] = "measure",
                      Budget!HasRoom(section.now, attempt[c].cost)
               PROVE  \E d \in Caller \ {c} : Before(c, d)
    OBVIOUS
  <2>1. Shape /\ Line /\ pc \in [Caller -> Places] /\ pc'[c] # pc[c]
    BY DEF IInv, Shape, Typed
  <2>2. PICK b \in Caller : Step(b)
    BY <2>1 DEF Next, Tick, vars
  <2>3. Refuse(c)
    BY <2>1, <2>2
    DEF Step, Begin, BeginRead, TakeLock, ExpireOldest, ReturnUsed, Grant, Refuse,
        MeasureNothing, Walk, Sleep, GiveUp, CountTimeout, WakeUp, Interrupt, Release
  <2>4. Open(c) /\ ~OldestHasExpired /\ ~(AtTheFront(c) /\ Fits(attempt[c].cost))
    BY <2>3 DEF Refuse
  <2>5. ~AtTheFront(c)
    BY <2>4, NoRoomUnlessFits
  <2>6. /\ waiting \in Seq(InLine) /\ Len(waiting) \in Nat /\ waiting # <<>>
        /\ attempt[c].ticket # None => waiting[1].ticket # attempt[c].ticket
    BY <2>1, <2>5 DEF AtTheFront, Shape, TypedSequences
  <2>7. 1 \in 1..Len(waiting) /\ waiting[1].ticket \in Nat
    <3>1. 1 \in 1..Len(waiting)
      BY <2>6
    <3>2. waiting[1] \in InLine
      BY <2>6, <3>1
    <3>3. QED BY <3>1, <3>2 DEF InLine
  <2>8. PICK d \in Caller : attempt[d].ticket = waiting[1].ticket
    BY <2>1, <2>7 DEF Line, LineIsLive
  <2>9. attempt[d].ticket # None
    BY <2>7, <2>8, NoneAssumption
  <2>10. d # c
    BY <2>6, <2>8, <2>9
  <2>11. attempt[c].ticket # None => attempt[d].ticket < attempt[c].ticket
    <3> SUFFICES ASSUME attempt[c].ticket # None
                 PROVE  waiting[1].ticket < attempt[c].ticket
      BY <2>8
    <3>1. PICK i \in 1..Len(waiting) : waiting[i].ticket = attempt[c].ticket
      BY <2>1 DEF Line, LineIsLive
    <3>2. 1 < i
      BY <2>6, <3>1
    <3>3. QED BY <2>1, <2>7, <3>1, <3>2 DEF Line, LineIsLive
  <2>12. QED BY <2>9, <2>10, <2>11
<1>2. QED BY <1>1, Invariance, PTL DEF Spec, RefusedForCause

\* Seen through its clock and its grants, the window is a quota budget: its
\* initial states are the budget's, and each of its steps is a tick, a charge the
\* budget allows, or no step of the budget at all.
THEOREM WindowIsABudget == Spec => ImplementsBudget
<1>1. Init => Budget!Init
  BY DEF Init, Budget!Init
<1>2. ASSUME IInv, [Next]_vars
      PROVE  [Budget!Next]_<<clock, grants>>
  <2>1. /\ clock \in Nat /\ section.now \in Nat /\ section.now <= clock
        /\ Len(grants) \in Nat
    BY <1>2 DEF IInv, Shape, Typed, TypedSequences, Section, InOrder
  <2>2. CASE \E c \in Caller : Grant(c)
    <3>1. PICK c \in Caller : Grant(c)
      BY <2>2
    <3> DEFINE cost == attempt[c].cost
    <3>2. cost \in 1..Limit
      BY <1>2, <3>1 DEF IInv, Shape, Typed, Discipline, Grant, Open, Attempts
    <3>3. lock = c /\ pc[c] = "expire" /\ ~OldestHasExpired /\ used + cost <= Limit
      BY <1>2, <3>1 DEF IInv, Shape, Discipline, Critical, Grant, Fits
    <3>4. \A i \in 1..Len(grants) : grants[i].at <= section.now
      BY <1>2, <3>3, NoneAssumption DEF IInv, InOrder
    <3>5. \A i \in 1..Len(grants) : section.now - grants[i].at < Window => i > Forgotten
      BY <1>2, <3>3, DecisionHolds DEF DecidesOnTheWindow
    <3>6. \A i \in 1..Len(grants) :
             section.now - grants[i].at < Window
                => Spent[Len(grants)] - Spent[i - 1] + cost <= Limit
      <4> SUFFICES ASSUME NEW i \in 1..Len(grants), section.now - grants[i].at < Window
                   PROVE  Spent[Len(grants)] - Spent[i - 1] + cost <= Limit
        OBVIOUS
      <4>1. Forgotten \in 0..Len(grants) /\ i - 1 \in 0..Len(grants) /\ Forgotten <= i - 1
        <5>1. Forgotten \in 0..Len(grants)
          BY <1>2, Accounts DEF IInv
        <5>2. i > Forgotten
          BY <3>5
        <5>3. QED BY SMTT(30), <2>1, <5>1, <5>2
      <4>2. Spent[Forgotten] <= Spent[i - 1]
        BY <1>2, <4>1 DEF IInv, Totals
      <4>3. used = Spent[Len(grants)] - Spent[Forgotten]
        BY <1>2 DEF IInv, Ledger, LedgerAgrees
      <4>4. \A k \in 0..Len(grants) : Spent[k] \in Nat
        BY <1>2, Accounts DEF IInv
      <4>5. /\ Spent[Len(grants)] \in Nat
            /\ Spent[Forgotten] \in Nat
            /\ Spent[i - 1] \in Nat
        BY <2>1, <4>1, <4>4
      <4>6. cost \in Nat /\ used + cost <= Limit /\ Limit \in Nat
        BY <3>2, <3>3, LimitAssumption
      <4>7. QED BY SMTT(60), <4>2, <4>3, <4>5, <4>6
    <3>7. /\ grants' = Append(grants, [at |-> section.now, cost |-> cost,
                                      total |-> Spent[Len(grants)] + cost])
          /\ clock' = clock
      BY <3>1 DEF Grant
    <3>8. Budget!Charge(section.now, cost)
      BY <2>1, <3>4, <3>6, <3>7 DEF Budget!Charge, Budget!MayCharge, Budget!WithCharge, Budget!HasRoom, Budget!Spent, Spent
    <3>9. QED
      BY <2>1, <3>2, <3>7, <3>8 DEF Budget!Next
  <2>3. CASE UNCHANGED grants
    <3>1. clock' = clock \/ clock' = clock + 1
      <4>1. CASE Tick
        BY <4>1 DEF Tick
      <4>2. ASSUME NEW c \in Caller, Step(c) PROVE clock' = clock
        BY <4>2 DEF Step, Begin, BeginRead, TakeLock, ExpireOldest, ReturnUsed, Grant,
                    Refuse, MeasureNothing, Walk, Sleep, GiveUp, CountTimeout, WakeUp,
                    Interrupt, Release
      <4>3. CASE UNCHANGED vars
        BY <4>3 DEF vars
      <4>4. QED BY <1>2, <4>1, <4>2, <4>3 DEF Next
    <3>2. QED BY <2>3, <3>1 DEF Budget!Next, Budget!Tick
  <2>4. \/ UNCHANGED grants
        \/ \E c \in Caller : Grant(c)
    BY <1>2, <2>1, Effects DEF IInv, ExpireOldest, history
  <2>5. QED BY <2>2, <2>3, <2>4
<1>3. QED BY <1>1, <1>2, Invariance, PTL DEF Spec, ImplementsBudget, Budget!Spec

-----------------------------------------------------------------------------
\* The window as a waiting line.

Calling == {c \in Caller : Open(c)}

\* The line as WaitingLine sees it: the callers that hold the tickets.
InTheLine == [i \in 1..Len(waiting) |-> Holder(waiting[i].ticket)]

\* Every ticket in line is held by one caller.
HoldersAgree ==
    /\ waiting \in Seq(InLine) /\ Len(waiting) \in Nat
    /\ \A i \in 1..Len(waiting) : waiting[i].ticket # None
    /\ \A i, j \in 1..Len(waiting) : waiting[i].ticket = waiting[j].ticket => i = j
    /\ \A i \in 1..Len(waiting) : /\ InTheLine[i] \in Caller
                                  /\ attempt[InTheLine[i]].ticket = waiting[i].ticket
    /\ \A i \in 1..Len(waiting), c \in Caller :
          waiting[i].ticket = attempt[c].ticket => InTheLine[i] = c
    /\ \A c \in Caller : attempt[c].ticket # None =>
          \E i \in 1..Len(waiting) : waiting[i].ticket = attempt[c].ticket

LEMMA HoldersDo == Shape /\ Line => HoldersAgree
<1> SUFFICES ASSUME Shape, Line PROVE HoldersAgree
  OBVIOUS
<1>1. waiting \in Seq(InLine) /\ Len(waiting) \in Nat
  BY DEF Shape, TypedSequences
<1>2. \A i \in 1..Len(waiting) : waiting[i].ticket \in Nat
  <2>1. \A i \in 1..Len(waiting) : waiting[i] \in InLine
    BY <1>1
  <2>2. QED BY <2>1 DEF InLine
<1>3. \A i \in 1..Len(waiting) : waiting[i].ticket # None
  BY <1>2
<1>4. ASSUME NEW i \in 1..Len(waiting), NEW j \in 1..Len(waiting),
             waiting[i].ticket = waiting[j].ticket
      PROVE  i = j
  <2>1. ~(i < j) /\ ~(j < i)
    BY <1>2, <1>4 DEF Line, LineIsLive
  <2>2. QED BY <1>1, <2>1
<1>5. ASSUME NEW i \in 1..Len(waiting)
      PROVE  InTheLine[i] \in Caller /\ attempt[InTheLine[i]].ticket = waiting[i].ticket
  <2>1. \E c \in Caller : attempt[c].ticket = waiting[i].ticket
    BY DEF Line, LineIsLive
  <2>2. QED BY <2>1 DEF InTheLine, Holder
<1>6. ASSUME NEW i \in 1..Len(waiting), NEW c \in Caller,
             waiting[i].ticket = attempt[c].ticket
      PROVE  InTheLine[i] = c
  <2>1. attempt[c].ticket # None
    BY <1>3, <1>6
  <2>2. \A d \in Caller : attempt[d].ticket = attempt[c].ticket => d = c
    BY <2>1 DEF Line
  <2>3. QED BY <1>5, <1>6, <2>2
<1>7. \A c \in Caller : attempt[c].ticket # None =>
          \E i \in 1..Len(waiting) : waiting[i].ticket = attempt[c].ticket
  BY DEF Line, LineIsLive
<1>8. QED BY <1>1, <1>3, <1>4, <1>5, <1>6, <1>7 DEF HoldersAgree

\* A caller that keeps its ticket is found again, wherever the ticket has moved.
LEMMA FoundAgain ==
    ASSUME HoldersAgree, HoldersAgree', NEW i \in 1..Len(waiting), NEW j \in 1..Len(waiting'),
           waiting'[j].ticket = waiting[i].ticket,
           attempt'[InTheLine[i]].ticket = attempt[InTheLine[i]].ticket
    PROVE  InTheLine'[j] = InTheLine[i]
<1>1. /\ InTheLine[i] \in Caller
      /\ waiting'[j].ticket = attempt'[InTheLine[i]].ticket
  BY DEF HoldersAgree
<1>2. QED BY <1>1 DEF HoldersAgree

LEMMA LineType ==
    ASSUME HoldersAgree
    PROVE  InTheLine \in Seq(Caller) /\ Len(InTheLine) = Len(waiting)
<1>1. InTheLine \in [1..Len(waiting) -> Caller] /\ Len(waiting) \in Nat
  BY DEF HoldersAgree, InTheLine
<1>2. QED BY <1>1

\* While the tickets stay with their callers the line does not change.
LEMMA SameLine ==
    ASSUME HoldersAgree, HoldersAgree', waiting' = waiting,
           \A c \in Caller : attempt[c].ticket # None => attempt'[c].ticket = attempt[c].ticket
    PROVE  InTheLine' = InTheLine
<1>1. \A i \in 1..Len(waiting) : InTheLine'[i] = InTheLine[i]
  <2> SUFFICES ASSUME NEW i \in 1..Len(waiting) PROVE InTheLine'[i] = InTheLine[i]
    OBVIOUS
  <2>1. InTheLine[i] \in Caller /\ attempt[InTheLine[i]].ticket # None
    BY DEF HoldersAgree
  <2>2. QED BY <2>1, FoundAgain
<1>2. InTheLine \in Seq(Caller) /\ Len(InTheLine) = Len(waiting)
  BY LineType
<1>3. InTheLine' \in Seq(Caller) /\ Len(InTheLine') = Len(waiting)
  <2>1. InTheLine' \in [1..Len(waiting) -> Caller] /\ Len(waiting) \in Nat
    BY DEF HoldersAgree, InTheLine
  <2>2. QED BY <2>1
<1>4. QED BY <1>1, <1>2, <1>3, SeqEqual

\* A ticket leaves the line with its caller, and the others move up.
LEMMA OneLeaves ==
    ASSUME HoldersAgree, HoldersAgree', NEW k \in 1..Len(waiting), NEW c \in Caller,
           waiting[k].ticket = attempt[c].ticket,
           Len(waiting') = Len(waiting) - 1,
           \A j \in 1..(Len(waiting) - 1) :
               waiting'[j] = IF j < k THEN waiting[j] ELSE waiting[j + 1],
           \A d \in Caller \ {c} : attempt'[d].ticket = attempt[d].ticket
    PROVE  /\ k \in 1..Len(InTheLine) /\ InTheLine[k] = c
           /\ InTheLine' = RemoveAt(InTheLine, k)
<1> DEFINE n == Len(waiting)
           from(j) == IF j < k THEN j ELSE j + 1
<1>1. n \in Nat /\ InTheLine \in Seq(Caller) /\ Len(InTheLine) = n
  BY LineType DEF HoldersAgree
<1>2. InTheLine[k] = c
  BY DEF HoldersAgree, InTheLine
<1>3. ASSUME NEW j \in 1..(n - 1)
      PROVE  /\ from(j) \in 1..n /\ from(j) # k
             /\ waiting'[j] = waiting[from(j)]
             /\ RemoveAt(InTheLine, k)[j] = InTheLine[from(j)]
  <2>1. RemoveAt(InTheLine, k)[j] = IF j < k THEN InTheLine[j] ELSE InTheLine[j + 1]
    BY <1>1, RemoveAtMovesUp
  <2>2. QED BY <1>1, <2>1
<1> HIDE DEF from, n
<1>4. ASSUME NEW j \in 1..(n - 1)
      PROVE  InTheLine'[j] = RemoveAt(InTheLine, k)[j]
  <2>1. from(j) \in 1..n /\ from(j) # k /\ waiting'[j] = waiting[from(j)]
    BY <1>3
  <2>2. InTheLine[from(j)] \in Caller \ {c}
    <3>1. waiting[from(j)].ticket # waiting[k].ticket
      BY <2>1 DEF HoldersAgree, n
    <3>2. InTheLine[from(j)] \in Caller
          /\ attempt[InTheLine[from(j)]].ticket = waiting[from(j)].ticket
      BY <2>1 DEF HoldersAgree, n
    <3>3. QED BY <3>1, <3>2
  <2>3. attempt'[InTheLine[from(j)]].ticket = attempt[InTheLine[from(j)]].ticket
    BY <2>2
  <2>4. j \in 1..Len(waiting') /\ from(j) \in 1..Len(waiting)
    BY <2>1 DEF n
  <2>5. InTheLine'[j] = InTheLine[from(j)]
    BY <2>1, <2>3, <2>4, FoundAgain
  <2>6. QED BY <1>3, <2>5
<1>5. RemoveAt(InTheLine, k) \in Seq(Caller) /\ Len(RemoveAt(InTheLine, k)) = n - 1
  BY <1>1, RemoveAtMovesUp DEF n
<1>6. InTheLine' \in Seq(Caller) /\ Len(InTheLine') = n - 1
  <2>1. Len(waiting') = n - 1 /\ n - 1 \in Nat
    BY <1>1 DEF n, HoldersAgree
  <2>2. InTheLine' \in [1..(n - 1) -> Caller]
    BY <2>1 DEF HoldersAgree, InTheLine
  <2>3. QED BY <2>1, <2>2
<1>7. InTheLine' = RemoveAt(InTheLine, k)
  BY <1>4, <1>5, <1>6, SeqEqual
<1>8. QED BY <1>1, <1>2, <1>7 DEF n

\* Removing the first of a sequence leaves its tail.
LEMMA WithoutTheFirst ==
    ASSUME NEW S, NEW s \in Seq(S), Len(s) > 0
    PROVE  RemoveAt(s, 1) = Tail(s)
<1>1. 1 \in 1..Len(s) /\ Tail(s) \in Seq(S) /\ Len(Tail(s)) = Len(s) - 1
      /\ \A j \in 1..(Len(s) - 1) : Tail(s)[j] = s[j + 1]
  OBVIOUS
<1>2. /\ RemoveAt(s, 1) \in Seq(S) /\ Len(RemoveAt(s, 1)) = Len(s) - 1
      /\ \A j \in 1..(Len(s) - 1) : RemoveAt(s, 1)[j] = s[j + 1]
  <2>1. /\ RemoveAt(s, 1) \in Seq(S) /\ Len(RemoveAt(s, 1)) = Len(s) - 1
        /\ \A j \in 1..(Len(s) - 1) :
              RemoveAt(s, 1)[j] = IF j < 1 THEN s[j] ELSE s[j + 1]
    BY <1>1, RemoveAtMovesUp
  <2>2. QED BY <2>1
<1>3. QED BY <1>1, <1>2, SeqEqual

\* Callers join at the back when they are refused, are granted from the front, and
\* take only their own ticket with them when they time out or are interrupted.
THEOREM WindowIsALine == Spec => ImplementsLine
<1>1. Init => Queue!Init
  <2> SUFFICES ASSUME Init PROVE Queue!Init
    OBVIOUS
  <2>1. \A c \in Caller : ~Open(c)
    BY DEF Init, Open, NoAttempt
  <2>2. Len(waiting) = 0
    BY DEF Init
  <2>3. QED BY <2>1, <2>2 DEF Queue!Init
<1>2. ASSUME IInv, IInv', EveryCallAccountedFor, [Next]_vars
      PROVE  [Queue!Next]_(Queue!lineVars)
  <2> DEFINE Same == Calling' = Calling /\ InTheLine' = InTheLine
  <2>1. HoldersAgree /\ HoldersAgree'
    <3>1. Shape /\ Line /\ Shape' /\ Line'
      BY <1>2 DEF IInv
    <3>2. QED BY <3>1, HoldersDo, PTL
  <2>2. /\ InTheLine \in Seq(Caller) /\ Len(InTheLine) = Len(waiting)
        /\ Len(waiting) \in Nat
    BY <2>1, LineType DEF HoldersAgree
  <2>3. /\ attempt \in [Caller -> Attempts] /\ nextTicket \in Nat
        /\ \A c \in Caller : ~Open(c) => attempt[c] = NoAttempt
        /\ \A c \in Caller : pc[c] \in {"idle", "read"} => attempt[c] = NoAttempt
        /\ \A c \in Caller : pc[c] \notin {"idle", "read", "expire"} => Open(c)
    BY <1>2 DEF IInv, Shape, Typed, Discipline
  <2>4. NoAttempt.ticket = None /\ NoAttempt.cost = 0
    BY DEF NoAttempt
  <2>5. ASSUME NEW c \in Caller, Begin(c)
        PROVE  c \notin Calling /\ Calling' = Calling \cup {c} /\ InTheLine' = InTheLine
    <3>1. attempt[c] = NoAttempt /\ waiting' = waiting
      BY <2>3, <2>5 DEF Begin, window
    <3>2. PICK cost \in Costs, timeout \in Timeouts :
             /\ Acceptable(cost, timeout)
             /\ attempt' = [attempt EXCEPT ![c] =
                   [cost |-> cost, started |-> clock,
                    deadline |-> IF timeout = None THEN None ELSE clock + timeout,
                    ticket |-> None, waited |-> FALSE]]
      BY <2>5 DEF Begin
    <3>3. /\ \A d \in Caller \ {c} : attempt'[d] = attempt[d]
          /\ attempt'[c].cost = cost /\ cost > 0
      BY <2>3, <3>2 DEF Acceptable
    <3>4. c \notin Calling /\ Calling' = Calling \cup {c}
      BY <2>4, <3>1, <3>3 DEF Calling, Open
    <3>5. InTheLine' = InTheLine
      BY <2>1, <2>4, <3>1, <3>3, SameLine
    <3>6. QED BY <3>4, <3>5
  <2>6. ASSUME NEW c \in Caller, Grant(c)
        PROVE  /\ c \in Calling /\ Calling' = Calling \ {c}
               /\ \/ InTheLine = <<>> /\ InTheLine' = InTheLine
                  \/ InTheLine # <<>> /\ InTheLine[1] = c /\ InTheLine' = Tail(InTheLine)
    <3>1. /\ Open(c) /\ AtTheFront(c) /\ LeaveTheFront(c)
          /\ \A d \in Caller : attempt'[d] = IF d = c THEN NoAttempt ELSE attempt[d]
      BY <2>3, <2>6 DEF Grant
    <3>2. c \in Calling /\ Calling' = Calling \ {c}
      BY <2>4, <3>1 DEF Calling, Open
    <3>3. CASE attempt[c].ticket = None
      <4>1. waiting' = waiting /\ waiting = <<>>
        BY <3>1, <3>3 DEF AtTheFront, LeaveTheFront
      <4>2. \A d \in Caller : attempt[d].ticket # None => attempt'[d].ticket = attempt[d].ticket
        BY <3>1, <3>3
      <4>3. InTheLine' = InTheLine
        BY <2>1, <4>1, <4>2, SameLine
      <4>4. InTheLine = <<>>
        BY <2>2, <4>1
      <4>5. QED BY <3>2, <4>3, <4>4
    <3>4. CASE attempt[c].ticket # None
      <4>1. waiting # <<>>
        BY <2>1, <3>4 DEF HoldersAgree
      <4>2. /\ 1 \in 1..Len(waiting) /\ waiting[1].ticket = attempt[c].ticket
            /\ waiting' = Tail(waiting)
        BY <2>1, <3>1, <3>4, <4>1 DEF AtTheFront, LeaveTheFront, HoldersAgree
      <4>3. waiting \in Seq(InLine)
        BY <2>1 DEF HoldersAgree
      <4>4. /\ Len(waiting') = Len(waiting) - 1
            /\ \A j \in 1..(Len(waiting) - 1) :
                  waiting'[j] = IF j < 1 THEN waiting[j] ELSE waiting[j + 1]
        BY <4>1, <4>2, <4>3
      <4>5. \A d \in Caller \ {c} : attempt'[d].ticket = attempt[d].ticket
        BY <3>1
      <4>6. /\ 1 \in 1..Len(InTheLine) /\ InTheLine[1] = c
            /\ InTheLine' = RemoveAt(InTheLine, 1)
        BY <2>1, <4>2, <4>4, <4>5, OneLeaves
      <4>7. Len(InTheLine) > 0
        BY <2>2, <4>6
      <4>8. InTheLine' = Tail(InTheLine)
        BY <2>2, <4>6, <4>7, WithoutTheFirst
      <4>9. QED BY <3>2, <4>6, <4>7, <4>8
    <3>5. QED BY <3>3, <3>4
  <2>7. ASSUME NEW c \in Caller, Refuse(c)
        PROVE  \/ Same
               \/ /\ c \in Calling /\ \A i \in 1..Len(InTheLine) : InTheLine[i] # c
                  /\ Calling' = Calling /\ InTheLine' = Append(InTheLine, c)
    <3>1. Open(c)
      BY <2>7 DEF Refuse
    <3>2. CASE attempt[c].ticket = None
      <4>1. /\ \A d \in Caller \ {c} : attempt'[d] = attempt[d]
            /\ attempt'[c].ticket = nextTicket /\ attempt'[c].cost = attempt[c].cost
        BY <2>3, <2>7, <3>2 DEF Refuse, Attempts
      <4>2. waiting' = Append(waiting, [ticket |-> nextTicket, cost |-> attempt[c].cost])
        BY <2>7, <3>2 DEF Refuse
      <4>3. Calling' = Calling /\ c \in Calling
        BY <3>1, <4>1 DEF Calling, Open
      <4>4. waiting \in Seq(InLine)
        BY <2>1 DEF HoldersAgree
      <4>5. /\ Len(waiting') = Len(waiting) + 1
            /\ \A i \in 1..Len(waiting) : waiting'[i] = waiting[i]
            /\ waiting'[Len(waiting) + 1].ticket = nextTicket
        BY <4>2, <4>4
      <4>6. \A i \in 1..Len(waiting) : InTheLine[i] \in Caller \ {c}
        BY <2>1, <3>2 DEF HoldersAgree
      <4>7. \A i \in 1..Len(waiting) : InTheLine'[i] = InTheLine[i]
        <5> SUFFICES ASSUME NEW i \in 1..Len(waiting) PROVE InTheLine'[i] = InTheLine[i]
          OBVIOUS
        <5>1. i \in 1..Len(waiting') /\ waiting'[i].ticket = waiting[i].ticket
          BY <2>2, <4>5
        <5>2. attempt'[InTheLine[i]].ticket = attempt[InTheLine[i]].ticket
          BY <4>1, <4>6
        <5>3. QED BY <2>1, <5>1, <5>2, FoundAgain
      <4>8. InTheLine'[Len(waiting) + 1] = c
        <5>1. Len(waiting) + 1 \in 1..Len(waiting')
          BY <2>2, <4>5
        <5>2. QED BY <2>1, <4>1, <4>5, <5>1 DEF HoldersAgree
      <4>9. InTheLine' \in Seq(Caller) /\ Len(InTheLine') = Len(waiting) + 1
        <5>1. InTheLine' \in [1..(Len(waiting) + 1) -> Caller]
          BY <2>1, <4>5 DEF HoldersAgree, InTheLine
        <5>2. QED BY <2>2, <5>1
      <4>10. InTheLine' = Append(InTheLine, c)
        <5>1. /\ Append(InTheLine, c) \in Seq(Caller)
              /\ Len(Append(InTheLine, c)) = Len(waiting) + 1
              /\ \A i \in 1..Len(waiting) : Append(InTheLine, c)[i] = InTheLine[i]
              /\ Append(InTheLine, c)[Len(waiting) + 1] = c
          BY <2>2
        <5>2. \A i \in 1..Len(InTheLine') : InTheLine'[i] = Append(InTheLine, c)[i]
          BY <2>2, <4>7, <4>8, <4>9, <5>1
        <5>3. QED BY <4>9, <5>1, <5>2, SeqEqual
      <4>11. QED BY <2>2, <4>3, <4>6, <4>10
    <3>3. CASE attempt[c].ticket # None
      <4>1. waiting' = waiting /\ attempt' = attempt
        BY <2>7, <3>3 DEF Refuse
      <4>2. Calling' = Calling
        BY <4>1 DEF Calling, Open
      <4>3. QED BY <2>1, <4>1, <4>2, SameLine
    <3>4. QED BY <3>2, <3>3
  <2>8. ASSUME NEW c \in Caller, Release(c)
        PROVE  /\ c \in Calling /\ Calling' = Calling \ {c}
               /\ \E i \in 1..Len(InTheLine) :
                     InTheLine[i] = c /\ InTheLine' = RemoveAt(InTheLine, i)
    <3>1. pc[c] = "release" /\ attempt[c].ticket # None
      BY <1>2, <2>8 DEF Release, EveryCallAccountedFor
    <3>2. /\ Open(c)
          /\ \A d \in Caller : attempt'[d] = IF d = c THEN NoAttempt ELSE attempt[d]
      BY <2>3, <2>8, <3>1 DEF Release
    <3>3. c \in Calling /\ Calling' = Calling \ {c}
      BY <2>4, <3>2 DEF Calling, Open
    <3>4. PICK k \in 1..Len(waiting) :
              waiting[k].ticket = attempt[c].ticket /\ waiting' = RemoveAt(waiting, k)
      <4>1. \E i \in 1..Len(waiting) : waiting[i].ticket = attempt[c].ticket
        BY <2>1, <3>1 DEF HoldersAgree
      <4>2. QED BY <2>8, <4>1 DEF Release, DropTicket
    <3>5. waiting \in Seq(InLine)
      BY <2>1 DEF HoldersAgree
    <3>6. /\ Len(waiting') = Len(waiting) - 1
          /\ \A j \in 1..(Len(waiting) - 1) :
                waiting'[j] = IF j < k THEN waiting[j] ELSE waiting[j + 1]
      BY <3>4, <3>5, RemoveAtMovesUp
    <3>7. \A d \in Caller \ {c} : attempt'[d].ticket = attempt[d].ticket
      BY <3>2
    <3>8. k \in 1..Len(InTheLine) /\ InTheLine[k] = c /\ InTheLine' = RemoveAt(InTheLine, k)
      BY <2>1, <3>4, <3>6, <3>7, OneLeaves
    <3>9. QED BY <3>3, <3>8
  <2>9. ASSUME NEW c \in Caller, Sleep(c) PROVE Same
    <3>1. \A d \in Caller : /\ attempt'[d].ticket = attempt[d].ticket
                            /\ attempt'[d].cost = attempt[d].cost
      BY <2>3, <2>9 DEF Sleep, Attempts
    <3>2. waiting' = waiting
      BY <2>9 DEF Sleep, window
    <3>3. Calling' = Calling
      BY <3>1 DEF Calling, Open
    <3>4. QED BY <2>1, <3>1, <3>2, <3>3, SameLine
  <2>10. ASSUME UNCHANGED <<waiting, attempt>> PROVE Same
    <3>1. Calling' = Calling
      BY <2>10 DEF Calling, Open
    <3>2. QED BY <2>1, <2>10, <3>1, SameLine
  <2> HIDE DEF Same
  <2>11. \/ Same
         \/ \E c \in Caller : Begin(c) \/ Grant(c) \/ Refuse(c) \/ Release(c)
    BY <1>2, <2>9, <2>10
    DEF Next, Step, Tick, BeginRead, TakeLock, ExpireOldest, ReturnUsed, MeasureNothing,
        Walk, GiveUp, CountTimeout, WakeUp, Interrupt, window, history, vars
  <2>12. QED
    BY <2>5, <2>6, <2>7, <2>8, <2>11
    DEF Same, Calling, InTheLine, Queue!Next, Queue!lineVars, Queue!Call, Queue!Join,
        Queue!Serve, Queue!Leave, Queue!Waits, Queue!RemoveAt, RemoveAt
<1>3. QED BY <1>1, <1>2, Invariance, EveryCallIsAccountedFor, PTL DEF Spec, ImplementsLine, Queue!Spec

=============================================================================
