------------------------------ MODULE FairWindow ------------------------------
(***************************************************************************)
(* WeightedSlidingWindow in relative time: entries have ages, sleeps and   *)
(* deadlines have ticks left.  Nothing grows, so callers can come back for *)
(* ever, and what must eventually happen to each call can be checked.      *)
(*                                                                         *)
(* The critical section of _poll is one step here (SlidingWindow takes it  *)
(* apart), tickets are positions in the line, and an entry leaves the log  *)
(* as it expires: the code drops it before anything looks at the log.      *)
(***************************************************************************)
EXTENDS Integers, Sequences, SequencesExt, RunningSums

CONSTANTS Caller,        \* threads and coroutines
          Limit,         \* cost permitted within one window
          Window,        \* length of the window, in ticks
          MinSleep,      \* the shortest sleep, in ticks
          Asks,          \* the <<cost, timeout>> pairs each caller asks for
          None,          \* Python's None
          Interruptible  \* callers whose sleep may raise

ASSUME WindowsAndCosts == /\ Limit \in Nat \ {0}
                          /\ Window \in Nat \ {0}
                          /\ MinSleep \in Nat \ {0}
                          /\ \A c \in Caller :
                                Asks[c] \subseteq (1..Limit) \X (Nat \cup {None})
                          /\ Interruptible \subseteq Caller

VARIABLES log,  \* granted entries less than Window old, oldest first
          line, \* the callers that hold a ticket, in the order they took it
          pc,   \* where each caller is
          cost, \* what its call asks for
          left, \* ticks to its deadline, or None
          rest  \* ticks left of its sleep, or the pause it is about to sleep

vars == <<log, line, pc, cost, left, rest>>

Places == {"idle", "poll", "unlocked", "asleep", "release"}

Init == /\ log = <<>>
        /\ line = <<>>
        /\ pc = [c \in Caller |-> "idle"]
        /\ cost = [c \in Caller |-> 0]
        /\ left = [c \in Caller |-> None]
        /\ rest = [c \in Caller |-> 0]

\* What the oldest 0, 1, ..., all entries of the log cost together.
Released == Sums([i \in 1..Len(log) |-> log[i].cost], Len(log))

Used == Released[Len(log)]

InLine(c) == \E i \in 1..Len(line) : line[i] = c

\* Bug: whoever is in line may go.
AnywhereInLine(c) == line = <<>> \/ InLine(c)

AtTheFront(c) == line # <<>> => line[1] = c

\* Bug: some quota is left, whatever the call costs.
SomethingIsLeft(asked) == Used < Limit

Fits(asked) == Used + asked <= Limit

Begin(c) ==
    /\ pc[c] = "idle"
    /\ \E ask \in Asks[c] :
          /\ cost' = [cost EXCEPT ![c] = ask[1]]
          /\ left' = [left EXCEPT ![c] = ask[2]]
    /\ pc' = [pc EXCEPT ![c] = "poll"]
    /\ UNCHANGED <<log, line, rest>>

\* At the lock, for the first time or after a sleep.
Polls(c) == pc[c] = "poll" \/ (pc[c] = "asleep" /\ rest[c] = 0)

Grant(c) ==
    /\ Polls(c)
    /\ AtTheFront(c) /\ Fits(cost[c])
    /\ log' = Append(log, [age |-> 0, cost |-> cost[c]])
    /\ line' = IF InLine(c) THEN Tail(line) ELSE line
    /\ pc' = [pc EXCEPT ![c] = "idle"]
    /\ cost' = [cost EXCEPT ![c] = 0]
    /\ left' = [left EXCEPT ![c] = None]
    /\ UNCHANGED rest

\* The time until the oldest entries, together, make room for the call.
TimeUntilRoomFor(asked) ==
    LET needed == Used + asked - Limit
        last == CHOOSE k \in 1..Len(log) : Released[k - 1] < needed /\ needed <= Released[k]
    IN Window - log[last].age

\* The pause of every caller in line: until the one at the front can go.
PauseFor(front) == IF Fits(cost[front]) THEN MinSleep ELSE TimeUntilRoomFor(cost[front])

Refuse(c) ==
    /\ Polls(c)
    /\ ~(AtTheFront(c) /\ Fits(cost[c]))
    /\ line' = IF InLine(c) THEN line ELSE Append(line, c)
    /\ rest' = [rest EXCEPT ![c] = PauseFor(line'[1])]
    /\ pc' = [pc EXCEPT ![c] = "unlocked"]
    /\ UNCHANGED <<log, cost, left>>

AtLeast(ticks, least) == IF ticks < least THEN least ELSE ticks

Sleep(c) ==
    /\ pc[c] = "unlocked"
    /\ left[c] # 0
    /\ rest' = [rest EXCEPT ![c] =
           AtLeast(IF left[c] = None \/ @ <= left[c] THEN @ ELSE left[c], MinSleep)]
    /\ pc' = [pc EXCEPT ![c] = "asleep"]
    /\ UNCHANGED <<log, line, cost, left>>

\* QuotaTimeoutError; nothing but the ticket is left to clean up.
GiveUp(c) ==
    /\ pc[c] = "unlocked"
    /\ left[c] = 0
    /\ pc' = [pc EXCEPT ![c] = "release"]
    /\ rest' = [rest EXCEPT ![c] = 0]
    /\ UNCHANGED <<log, line, cost, left>>

Interrupt(c) ==
    /\ pc[c] = "asleep"
    /\ c \in Interruptible
    /\ pc' = [pc EXCEPT ![c] = "release"]
    /\ rest' = [rest EXCEPT ![c] = 0]
    /\ UNCHANGED <<log, line, cost, left>>

\* Bug: the ticket of a call that failed stays in line.
KeepTicket(c) == UNCHANGED line

DropTicket(c) == \E i \in 1..Len(line) : line[i] = c /\ line' = RemoveAt(line, i)

Release(c) ==
    /\ pc[c] = "release"
    /\ DropTicket(c)
    /\ pc' = [pc EXCEPT ![c] = "idle"]
    /\ cost' = [cost EXCEPT ![c] = 0]
    /\ left' = [left EXCEPT ![c] = None]
    /\ UNCHANGED <<log, rest>>

\* Bug: one tick too long.
OneTooOld(entry) == entry.age <= Window

StaysOnTick(entry) == entry.age + 1 < Window

\* How many entries the loop of _expire pops: it stops at the first that stays.
Expiring == CHOOSE n \in 0..Len(log) :
                /\ \A i \in 1..n : ~StaysOnTick(log[i])
                /\ n < Len(log) => StaysOnTick(log[n + 1])

\* One tick, for every entry, deadline and sleep.
Tick ==
    /\ log' = [i \in 1..(Len(log) - Expiring) |->
                  [log[Expiring + i] EXCEPT !.age = @ + 1]]
    /\ left' = [c \in Caller |->
                  IF left[c] \in {None, 0} THEN left[c] ELSE left[c] - 1]
    /\ rest' = [c \in Caller |->
                  IF pc[c] = "asleep" /\ rest[c] > 0 THEN rest[c] - 1 ELSE rest[c]]
    /\ UNCHANGED <<line, pc, cost>>

\* What a caller does on its own once it has begun.
Proceed(c) == \/ Grant(c)
              \/ Refuse(c)
              \/ Sleep(c)
              \/ GiveUp(c)
              \/ Release(c)

Next == \/ Tick
        \/ \E c \in Caller : Begin(c) \/ Interrupt(c) \/ Proceed(c)

\* Time passes, and a caller that can run is run: the lock is held for a few
\* steps only and every sleep ends.  Nobody has to begin a call or be interrupted.
Fairness == WF_vars(Tick) /\ \A c \in Caller : WF_vars(Proceed(c))

Spec == Init /\ [][Next]_vars /\ Fairness

-----------------------------------------------------------------------------
\* What must hold.

TypeOK ==
    /\ log \in Seq([age : 0..(Window - 1), cost : 1..Limit])
    /\ line \in Seq(Caller)
    /\ pc \in [Caller -> Places]
    /\ cost \in [Caller -> 0..Limit]
    /\ left \in [Caller -> Nat \cup {None}]
    /\ rest \in [Caller -> 0..AtLeast(Window, MinSleep)]

\* Each caller has at most one place in line and only while its call is open, and
\* a call that was refused has one until it ends: nobody waits without a place,
\* and no place is left behind by a call that timed out or was cancelled.
LineIsLive ==
    /\ \A i, j \in 1..Len(line) : line[i] = line[j] => i = j
    /\ \A c \in Caller : InLine(c) => pc[c] # "idle"
    /\ \A c \in Caller : pc[c] \in {"unlocked", "asleep", "release"} => InLine(c)

Line == INSTANCE WaitingLine WITH
    calling <- {c \in Caller : pc[c] # "idle"}

\* Seen through its callers alone the window is a waiting line, the one that
\* SlidingWindow implements as well.
ImplementsLine == Line!Spec

\* Every call ends, however many others keep coming: one that waits forever is
\* granted in the end (it has no other way out), also when it is expensive and
\* the others are cheap, and one with a deadline is granted or gives up.
EveryCallEnds == \A c \in Caller : pc[c] # "idle" ~> pc[c] = "idle"
=============================================================================
