---------------------------- MODULE SlidingWindow ----------------------------
(***************************************************************************)
(* WeightedSlidingWindow of core.py: one quota bucket shared by threads    *)
(* and coroutines.  A caller polls under the lock; if its cost fits and it *)
(* is at the front of the line it is granted, otherwise it takes a ticket, *)
(* sleeps outside the lock and polls again, until it is granted, its       *)
(* deadline passes or its sleep is interrupted.                            *)
(*                                                                         *)
(* acquire, acquire_async and try_acquire differ only in how they sleep    *)
(* and in the timeout they pass, so they share the actions below.  Time is *)
(* counted in ticks; MinSleep is the code's _MIN_SLEEP.                    *)
(***************************************************************************)
EXTENDS Integers, Sequences, FiniteSets, SequencesExt

CONSTANTS Caller,        \* threads and coroutines that use the window
          Limit,         \* cost permitted within one window
          Window,        \* length of the window, in ticks
          MinSleep,      \* the shortest sleep, in ticks
          Costs,         \* the costs callers ask for
          Timeouts,      \* the timeouts callers ask for; None waits forever
          None,          \* Python's None
          Interruptible, \* callers whose sleep may raise (cancelled tasks)
          Readers,       \* callers that also read the used property
          MaxClock,      \* bound on the clock
          MaxCalls       \* bound on the number of calls

ASSUME LimitAssumption  == Limit \in Nat \ {0}
ASSUME WindowAssumption == Window \in Nat \ {0}
ASSUME SleepAssumption  == MinSleep \in Nat \ {0}
ASSUME CostsAssumption  == Costs \subseteq Int
ASSUME TimeoutsAssumption == Timeouts \subseteq Int \cup {None}
ASSUME NoneAssumption   == None \notin Int /\ None \notin Caller
ASSUME CallerAssumption == Interruptible \subseteq Caller /\ Readers \subseteq Caller
ASSUME BoundsAssumption == MaxClock \in Nat /\ MaxCalls \in Nat

VARIABLES clock,      \* time.monotonic
          lock,       \* the caller that holds _lock, or None
          section,    \* locals of the one critical section that is open
          log,        \* _log: granted entries still counted, oldest first
          used,       \* _used
          waiting,    \* _waiting: the tickets in line, oldest first
          nextTicket, \* _next_ticket
          stats,      \* WindowStats
          pc,         \* where each caller is
          attempt,    \* the caller's _Attempt
          pause,      \* the pause the last poll computed
          wake,       \* when a sleeping caller wakes
          calls,      \* history: calls begun, and calls ended by an interrupt
          grants      \* history: every grant ever made, with running totals

window == <<log, used, waiting, nextTicket, stats>>
history == <<calls, grants>>
vars == <<clock, lock, section, window, pc, attempt, pause, wake, history>>

Places == {"idle", "poll", "read", "expire", "measure", "unlocked",
           "timeout", "asleep", "release"}

\* The places inside a critical section that spans several steps.
Critical == {"expire", "measure"}

NoAttempt == [cost |-> 0, started |-> 0, deadline |-> None,
              ticket |-> None, waited |-> FALSE]
NoSection == [now |-> 0, seen |-> 0, released |-> 0]

Entry       == [at : Nat, cost : Nat]
InLine      == [ticket : Nat, cost : 1..Limit]
WindowStats == [granted : Nat, waits : Nat, waitTime : Nat, timeouts : Nat]
Section     == [now : Nat, seen : Nat, released : Nat]
CallCounts  == [begun : Nat, interrupted : Nat]
GrantRecord == [at : Nat, cost : Nat, total : Nat]

Tickets  == Nat \cup {None}
Attempts == [cost : Nat, started : Nat, deadline : Nat \cup {None},
             ticket : Tickets, waited : BOOLEAN]

\* An attempt is open from _begin until the call returns or raises.
Open(c) == attempt[c].cost > 0

Init == /\ clock = 0
        /\ lock = None
        /\ section = NoSection
        /\ log = <<>>
        /\ used = 0
        /\ waiting = <<>>
        /\ nextTicket = 0
        /\ stats = [granted |-> 0, waits |-> 0, waitTime |-> 0, timeouts |-> 0]
        /\ pc = [c \in Caller |-> "idle"]
        /\ attempt = [c \in Caller |-> NoAttempt]
        /\ pause = [c \in Caller |-> 0]
        /\ wake = [c \in Caller |-> 0]
        /\ calls = [begun |-> 0, interrupted |-> 0]
        /\ grants = <<>>

-----------------------------------------------------------------------------
\* The pieces of the decision.  A definition whose comment starts with "Bug:" is
\* not part of the model: it is a plausible mistake in the code it stands next
\* to, and some property below is known to fail when it takes its place.

\* _begin raises ValueError for any other request, before it touches the window.
\* Bug: a cost that can never fit is let in.
AcceptAnyCost(cost, timeout) == cost > 0 /\ (timeout # None => timeout >= 0)

Acceptable(cost, timeout) ==
    /\ cost > 0
    /\ cost <= Limit
    /\ timeout # None => timeout >= 0

\* Bug: off by one, each way.
ExpiresEarly(entry, now) == now - entry.at >= Window - 1
ExpiresLate(entry, now)  == now - entry.at > Window

HasExpired(entry, now) == now - entry.at >= Window

OldestHasExpired == log # <<>> /\ HasExpired(log[1], section.now)

\* Bug: whoever is in line may go.
AnywhereInLine(c) == waiting = <<>> \/ attempt[c].ticket # None

\* Bug: a call that never waited passes the line.
NewcomersPass(c) == waiting # <<>> => attempt[c].ticket \in {None, waiting[1].ticket}

AtTheFront(c) == \/ waiting = <<>>
                 \/ /\ attempt[c].ticket # None
                    /\ waiting[1].ticket = attempt[c].ticket

\* Bug: some quota is left, whatever the call costs.
SomethingIsLeft(cost) == used < Limit

\* Bug: the call itself is not counted, or counted once too often.
NothingIsOver(cost) == used <= Limit
RoomToSpare(cost) == used + cost < Limit

Fits(cost) == used + cost <= Limit

\* The caller at the front could go: nobody has to wait for the window.
FrontHasRoom == waiting = <<>> \/ Fits(waiting[1].cost)

Needed == used + waiting[1].cost - Limit

\* Bug: wait for the oldest entry only.
OldestIsEnough(released) == TRUE

Enough(released) == released >= Needed

\* Bug: wait for a whole window from now.
WholeWindow(entry, now) == Window

TimeToExpiry(entry, now) == Window - (now - entry.at)

AtLeast(ticks, least) == IF ticks < least THEN least ELSE ticks

\* Bug: the pause is not capped at the deadline.
NotCapped(ticks, most) == ticks

AtMost(ticks, most) == IF ticks > most THEN most ELSE ticks

\* The cost of the first k grants.
Spent == [k \in 0..Len(grants) |-> IF k = 0 THEN 0 ELSE grants[k].total]

-----------------------------------------------------------------------------
\* The operations.

\* acquire(cost, timeout), acquire_async, or try_acquire (timeout 0).
Begin(c) ==
    /\ pc[c] = "idle"
    /\ calls.begun < MaxCalls
    /\ \E cost \in Costs, timeout \in Timeouts :
          /\ Acceptable(cost, timeout)
          /\ attempt' = [attempt EXCEPT ![c] =
                 [cost |-> cost, started |-> clock,
                  deadline |-> IF timeout = None THEN None ELSE clock + timeout,
                  ticket |-> None, waited |-> FALSE]]
    /\ pc' = [pc EXCEPT ![c] = "poll"]
    /\ calls' = [calls EXCEPT !.begun = @ + 1]
    /\ UNCHANGED <<clock, lock, section, window, pause, wake, grants>>

\* The used property.
BeginRead(c) ==
    /\ pc[c] = "idle"
    /\ c \in Readers
    /\ pc' = [pc EXCEPT ![c] = "read"]
    /\ UNCHANGED <<clock, lock, section, window, attempt, pause, wake, history>>

\* Enter the critical section of _poll, or of used, and read the clock there.
TakeLock(c) ==
    /\ pc[c] \in {"poll", "read"}
    /\ lock = None
    /\ lock' = c
    /\ section' = [NoSection EXCEPT !.now = clock]
    /\ pc' = [pc EXCEPT ![c] = "expire"]
    /\ UNCHANGED <<clock, window, attempt, pause, wake, history>>

\* Leave the critical section; its locals die.
Unlock == lock' = None /\ section' = NoSection

\* Bug: the entry goes, its cost stays.
ExpireEntryOnly(c) ==
    /\ pc[c] = "expire"
    /\ OldestHasExpired
    /\ log' = Tail(log)
    /\ UNCHANGED <<clock, lock, section, used, waiting, nextTicket, stats, pc,
                   attempt, pause, wake, history>>

\* One turn of the loop of _expire.
ExpireOldest(c) ==
    /\ pc[c] = "expire"
    /\ OldestHasExpired
    /\ log' = Tail(log)
    /\ used' = used - log[1].cost
    /\ UNCHANGED <<clock, lock, section, waiting, nextTicket, stats, pc,
                   attempt, pause, wake, history>>

\* used returns.
ReturnUsed(c) ==
    /\ pc[c] = "expire"
    /\ ~OldestHasExpired
    /\ ~Open(c)
    /\ Unlock
    /\ pc' = [pc EXCEPT ![c] = "idle"]
    /\ UNCHANGED <<clock, window, attempt, pause, wake, history>>

\* Bug: every grant counts as a wait.
CountEveryGrant(c) ==
    LET elapsed == section.now - attempt[c].started
    IN stats' = [stats EXCEPT !.granted = @ + 1, !.waits = @ + 1,
                              !.waitTime = @ + elapsed]

CountGrant(c) ==
    LET elapsed == section.now - attempt[c].started
    IN stats' = IF attempt[c].waited
                THEN [stats EXCEPT !.granted = @ + 1, !.waits = @ + 1,
                                   !.waitTime = @ + elapsed]
                ELSE [stats EXCEPT !.granted = @ + 1]

LeaveTheFront(c) ==
    waiting' = IF attempt[c].ticket # None THEN Tail(waiting) ELSE waiting

\* _poll consumes the quota and acquire returns; _release finds no ticket.
Grant(c) ==
    /\ pc[c] = "expire"
    /\ ~OldestHasExpired
    /\ Open(c)
    /\ AtTheFront(c)
    /\ Fits(attempt[c].cost)
    /\ LeaveTheFront(c)
    /\ log' = Append(log, [at |-> section.now, cost |-> attempt[c].cost])
    /\ used' = used + attempt[c].cost
    /\ CountGrant(c)
    /\ grants' = Append(grants, [at |-> section.now, cost |-> attempt[c].cost,
                                 total |-> Spent[Len(grants)] + attempt[c].cost])
    /\ attempt' = [attempt EXCEPT ![c] = NoAttempt]
    /\ pc' = [pc EXCEPT ![c] = "idle"]
    /\ Unlock
    /\ UNCHANGED <<clock, nextTicket, pause, wake, calls>>

\* _poll cannot grant: the caller joins the line unless it is in it already.
Refuse(c) ==
    /\ pc[c] = "expire"
    /\ ~OldestHasExpired
    /\ Open(c)
    /\ ~(AtTheFront(c) /\ Fits(attempt[c].cost))
    /\ IF attempt[c].ticket = None
       THEN /\ attempt' = [attempt EXCEPT ![c].ticket = nextTicket]
            /\ nextTicket' = nextTicket + 1
            /\ waiting' = Append(waiting, [ticket |-> nextTicket,
                                           cost |-> attempt[c].cost])
       ELSE UNCHANGED <<attempt, nextTicket, waiting>>
    /\ pc' = [pc EXCEPT ![c] = "measure"]
    /\ UNCHANGED <<clock, lock, section, log, used, stats, pause, wake, history>>

\* The front could go already; whoever holds it has only not woken yet.
MeasureNothing(c) ==
    /\ pc[c] = "measure"
    /\ FrontHasRoom
    /\ pause' = [pause EXCEPT ![c] = MinSleep]
    /\ pc' = [pc EXCEPT ![c] = "unlocked"]
    /\ Unlock
    /\ UNCHANGED <<clock, window, attempt, wake, history>>

\* One turn of the loop of _time_until_room_for.
Walk(c) ==
    /\ pc[c] = "measure"
    /\ ~FrontHasRoom
    /\ section.seen < Len(log)
    /\ LET entry    == log[section.seen + 1]
           released == section.released + entry.cost
       IN IF Enough(released)
          THEN /\ pause' = [pause EXCEPT ![c] = TimeToExpiry(entry, section.now)]
               /\ pc' = [pc EXCEPT ![c] = "unlocked"]
               /\ Unlock
          ELSE /\ section' = [section EXCEPT !.seen = @ + 1, !.released = released]
               /\ UNCHANGED <<pause, pc, lock>>
    /\ UNCHANGED <<clock, window, attempt, wake, history>>

Remaining(c) == attempt[c].deadline - clock

\* What is left of _poll outside the lock when it does not raise, and the sleep.
Sleep(c) ==
    /\ pc[c] = "unlocked"
    /\ attempt[c].deadline # None => Remaining(c) > 0
    /\ LET capped == IF attempt[c].deadline = None THEN pause[c]
                     ELSE AtMost(pause[c], Remaining(c))
       IN wake' = [wake EXCEPT ![c] = clock + AtLeast(capped, MinSleep)]
    /\ attempt' = [attempt EXCEPT ![c].waited = TRUE]
    /\ pause' = [pause EXCEPT ![c] = 0]
    /\ pc' = [pc EXCEPT ![c] = "asleep"]
    /\ UNCHANGED <<clock, lock, section, window, history>>

\* The deadline has passed: QuotaTimeoutError will be raised.
GiveUp(c) ==
    /\ pc[c] = "unlocked"
    /\ attempt[c].deadline # None
    /\ Remaining(c) <= 0
    /\ pause' = [pause EXCEPT ![c] = 0]
    /\ pc' = [pc EXCEPT ![c] = "timeout"]
    /\ UNCHANGED <<clock, lock, section, window, attempt, wake, history>>

\* Bug: a timeout that is not counted.
ForgetTimeout(c) ==
    /\ pc[c] = "timeout"
    /\ lock = None
    /\ pc' = [pc EXCEPT ![c] = "release"]
    /\ UNCHANGED <<clock, lock, section, window, attempt, pause, wake, history>>

\* The second critical section of _poll, which only counts the timeout.
CountTimeout(c) ==
    /\ pc[c] = "timeout"
    /\ lock = None
    /\ stats' = [stats EXCEPT !.timeouts = @ + 1]
    /\ pc' = [pc EXCEPT ![c] = "release"]
    /\ UNCHANGED <<clock, lock, section, log, used, waiting, nextTicket,
                   attempt, pause, wake, history>>

WakeUp(c) ==
    /\ pc[c] = "asleep"
    /\ clock >= wake[c]
    /\ wake' = [wake EXCEPT ![c] = 0]
    /\ pc' = [pc EXCEPT ![c] = "poll"]
    /\ UNCHANGED <<clock, lock, section, window, attempt, pause, history>>

\* The sleep raises: CancelledError in a coroutine, KeyboardInterrupt in a thread.
Interrupt(c) ==
    /\ pc[c] = "asleep"
    /\ c \in Interruptible
    /\ wake' = [wake EXCEPT ![c] = 0]
    /\ calls' = [calls EXCEPT !.interrupted = @ + 1]
    /\ pc' = [pc EXCEPT ![c] = "release"]
    /\ UNCHANGED <<clock, lock, section, window, attempt, pause, grants>>

\* Bug: the ticket of a call that failed stays in line.
AbandonTicket(ticket) == UNCHANGED waiting

DropTicket(ticket) ==
    \/ \E i \in 1..Len(waiting) :
          /\ waiting[i].ticket = ticket
          /\ waiting' = RemoveAt(waiting, i)
    \/ /\ \A i \in 1..Len(waiting) : waiting[i].ticket # ticket
       /\ UNCHANGED waiting

\* _release in the finally clause, after a timeout or an interrupt.
Release(c) ==
    /\ pc[c] = "release"
    /\ lock = None
    /\ DropTicket(attempt[c].ticket)
    /\ attempt' = [attempt EXCEPT ![c] = NoAttempt]
    /\ pc' = [pc EXCEPT ![c] = "idle"]
    /\ UNCHANGED <<clock, lock, section, log, used, nextTicket, stats, pause,
                   wake, history>>

Tick == /\ clock < MaxClock
        /\ clock' = clock + 1
        /\ UNCHANGED <<lock, section, window, pc, attempt, pause, wake, history>>

Step(c) == \/ Begin(c)
           \/ BeginRead(c)
           \/ TakeLock(c)
           \/ ExpireOldest(c)
           \/ ReturnUsed(c)
           \/ Grant(c)
           \/ Refuse(c)
           \/ MeasureNothing(c)
           \/ Walk(c)
           \/ Sleep(c)
           \/ GiveUp(c)
           \/ CountTimeout(c)
           \/ WakeUp(c)
           \/ Interrupt(c)
           \/ Release(c)

Next == Tick \/ \E c \in Caller : Step(c)

Spec == Init /\ [][Next]_vars

-----------------------------------------------------------------------------
\* What must hold.

\* The grants, as the abstract budget sees them.
Budget == INSTANCE QuotaBudget WITH
    Limit <- Limit, Window <- Window, clock <- clock, grants <- grants

\* Every variable has its type; the window is never overdrawn and no pause, wait
\* or balance is ever negative.
TypeOK ==
    /\ clock \in Nat
    /\ lock \in Caller \cup {None}
    /\ section \in Section
    /\ log \in Seq(Entry)
    /\ used \in 0..Limit
    /\ waiting \in Seq(InLine)
    /\ nextTicket \in Nat
    /\ stats \in WindowStats
    /\ pc \in [Caller -> Places]
    /\ attempt \in [Caller -> Attempts]
    /\ pause \in [Caller -> Nat]
    /\ wake \in [Caller -> Nat]
    /\ calls \in CallCounts
    /\ grants \in Seq(GrantRecord)

\* The promise of the class: what is granted within any Window ticks costs at
\* most Limit, whichever callers took it and whatever was dropped from the log.
WithinLimit ==
    \A i, j \in 1..Len(grants) :
        (i <= j /\ grants[j].at - grants[i].at < Window)
            => Spent[j] - Spent[i - 1] <= Limit

\* How many grants the log has dropped.
Forgotten == Len(grants) - Len(log)

\* The log is the recent end of the history and used is what its entries cost,
\* also halfway through an expiry and between any two callers.
LedgerAgrees ==
    /\ Len(log) <= Len(grants)
    /\ \A i \in 1..Len(log) : /\ log[i].at = grants[Forgotten + i].at
                              /\ log[i].cost = grants[Forgotten + i].cost
    /\ used = Spent[Len(grants)] - Spent[Forgotten]

\* The log never holds more entries than the limit, however many calls are made:
\* every entry costs something, and what they cost together fits the limit.
LogIsBounded == Len(log) <= Limit

\* When a caller decides, or used returns, used counts exactly the grants less
\* than Window old at the time it read: none too many (a spurious wait), none
\* too few (an overrun).
DecidesOnTheWindow ==
    \A c \in Caller :
        (pc[c] = "measure" \/ (pc[c] = "expire" /\ ~OldestHasExpired))
            => \A k \in 1..Len(grants) :
                  (section.now - grants[k].at < Window) <=> (k > Forgotten)

\* Tickets stand in the order they were taken; each belongs to a call that is
\* still open and asks for the same cost, and no call that holds a ticket has
\* lost its place: nothing is left behind by a timeout or an interrupt.
LineIsLive ==
    /\ \A i, j \in 1..Len(waiting) : i < j => waiting[i].ticket < waiting[j].ticket
    /\ \A i \in 1..Len(waiting) : \E c \in Caller :
          attempt[c].ticket = waiting[i].ticket /\ attempt[c].cost = waiting[i].cost
    /\ \A c \in Caller : attempt[c].ticket # None =>
          \E i \in 1..Len(waiting) : waiting[i].ticket = attempt[c].ticket

\* Nobody is granted past a caller that queued before it, however cheap its call.
ServedInArrivalOrder ==
    [][grants' # grants =>
         \A d \in Caller \ {lock} : attempt[d].ticket # None =>
             /\ attempt[lock].ticket # None
             /\ attempt[lock].ticket < attempt[d].ticket]_vars

\* Nobody waits, and no try_acquire is refused, without a reason: what was granted
\* less than Window before the caller read the clock leaves no room for its call, or
\* another call that is still open has been in line for longer.
RefusedForCause ==
    [][\A c \in Caller : (pc[c] = "expire" /\ pc'[c] = "measure") =>
         \/ ~Budget!HasRoom(section.now, attempt[c].cost)
         \/ \E d \in Caller \ {c} :
               /\ attempt[d].ticket # None
               /\ attempt[c].ticket # None => attempt[d].ticket < attempt[c].ticket]_vars

\* The loop of _time_until_room_for always returns: the AssertionError after it
\* is unreachable.
WalkFindsRoom ==
    \A c \in Caller : (pc[c] = "measure" /\ ~FrontHasRoom) => section.seen < Len(log)

\* A sleep never lasts past the deadline by as much as the shortest sleep.
OversleepIsBounded ==
    \A c \in Caller : (pc[c] = "asleep" /\ attempt[c].deadline # None)
        => wake[c] < attempt[c].deadline + MinSleep

\* A grant is counted once, only grants that slept count as waits, and each of
\* those waited for at least one sleep.
StatsAgree ==
    /\ stats.granted = Len(grants)
    /\ stats.waits <= stats.granted
    /\ stats.waitTime >= stats.waits * MinSleep

\* The calls that are still on their way to a grant, a timeout or an interrupt.
Pending == {c \in Caller : Open(c) /\ pc[c] # "release"}

\* A call ends in one way: it is granted and charged once, or it times out or
\* is interrupted and is not charged at all.
EveryCallAccountedFor ==
    /\ calls.begun = Len(grants) + stats.timeouts + calls.interrupted + Cardinality(Pending)
    /\ \A c \in Caller : pc[c] = "release" => attempt[c].ticket # None

\* Seen through its clock and its grants alone, the window is a quota budget: a
\* call is charged only when the last window has room for it, whatever the lock,
\* the line and the sleeps did to get there.
ImplementsBudget == Budget!Spec

\* The caller that holds a ticket.
Holder(ticket) == CHOOSE c \in Caller : attempt[c].ticket = ticket

Queue == INSTANCE WaitingLine WITH
    calling <- {c \in Caller : Open(c)},
    line <- [i \in 1..Len(waiting) |-> Holder(waiting[i].ticket)]

\* Seen through its calls and its tickets alone, the window is a waiting line: a
\* call that is refused joins at the back, only the front is served past others
\* that wait, and a call that times out or is interrupted takes its own ticket
\* with it, whatever happens between its unlock and its release.
ImplementsLine == Queue!Spec

\* The pause of a caller that measured is exact: the front of the line fits when
\* it is over, and not one tick earlier.
PauseIsExact ==
    [][\A c \in Caller : (pc[c] = "measure" /\ ~FrontHasRoom /\ pc'[c] = "unlocked") =>
         LET head == waiting[1].cost
             end  == section.now + pause'[c]
         IN /\ pause'[c] \in 1..Window
            /\ Budget!HasRoom(end, head)
            /\ ~Budget!HasRoom(end - 1, head)]_vars

=============================================================================
