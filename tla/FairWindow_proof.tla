--------------------------- MODULE FairWindow_proof ---------------------------
(***************************************************************************)
(* Theorems about FairWindow, for any callers, costs, window and deadlines *)
(* and without an assumption on the schedule: fairness matters only to     *)
(* EveryCallEnds.                                                          *)
(***************************************************************************)
EXTENDS FairWindow, RecursionTheorems

LEMMA Lengths == Limit \in Nat \ {0} /\ Window \in Nat \ {0} /\ MinSleep \in Nat \ {0}
BY WindowsAndCosts

USE Lengths

Entry == [age : 0..(Window - 1), cost : 1..Limit]

\* Entries are logged as they are granted, so the ones in front expire first.
OldestFirst == \A i, j \in 1..Len(log) : i <= j => log[j].age <= log[i].age

\* An open call asks for something that can fit.
CallsCanFit == \A c \in Caller : pc[c] # "idle" => cost[c] \in 1..Limit

\* What the log holds costs at most Limit.
LogFits == Used <= Limit

IInv == TypeOK /\ OldestFirst /\ CallsCanFit /\ LogFits /\ LineIsLive

-----------------------------------------------------------------------------
\* Entries, one more tick older.
LEMMA EntryFields ==
    ASSUME NEW entries \in Seq(Entry), NEW i \in 1..Len(entries)
    PROVE  entries[i].age \in 0..(Window - 1) /\ entries[i].cost \in 1..Limit
<1>1. entries[i] \in Entry
  OBVIOUS
<1>2. QED BY <1>1 DEF Entry

LEMMA OlderEntry ==
    ASSUME NEW e \in Entry, NEW f, f = [e EXCEPT !.age = @ + 1], e.age + 1 < Window
    PROVE  f \in Entry /\ f.age = e.age + 1 /\ f.cost = e.cost
BY DEF Entry

-----------------------------------------------------------------------------
\* What the entries of a log cost together.

Costs(entries) == [i \in 1..Len(entries) |-> entries[i].cost]

Total(entries) == Sums(Costs(entries), Len(entries))[Len(entries)]

LEMMA TotalIsASum ==
    ASSUME NEW entries \in Seq(Entry)
    PROVE  /\ IsSums(Sums(Costs(entries), Len(entries)), Costs(entries), Len(entries))
           /\ Total(entries) \in Nat
<1>1. Len(entries) \in Nat /\ Costs(entries) \in [1..Len(entries) -> Nat]
  <2>1. \A i \in 1..Len(entries) : entries[i].cost \in Nat
    BY EntryFields
  <2>2. QED BY <2>1 DEF Costs
<1>2. IsSums(Sums(Costs(entries), Len(entries)), Costs(entries), Len(entries))
  BY <1>1, SumsExist
<1>3. QED BY <1>1, <1>2 DEF IsSums, Total

LEMMA UsedIsTheTotal == Used = Total(log) /\ Used' = Total(log')
BY DEF Used, Released, Total, Costs

LEMMA TotalOfNothing == Total(<<>>) = 0
<1>1. <<>> \in Seq(Entry) /\ Len(<<>>) = 0
  OBVIOUS
<1>2. IsSums(Sums(Costs(<<>>), 0), Costs(<<>>), 0)
  BY <1>1, TotalIsASum
<1>3. QED BY <1>1, <1>2 DEF IsSums, Total

\* A grant adds its cost ...
LEMMA TotalAfterAppend ==
    ASSUME NEW entries \in Seq(Entry), NEW e \in Entry
    PROVE  Total(Append(entries, e)) = Total(entries) + e.cost
<1> DEFINE n == Len(entries)
           longer == Append(entries, e)
           R == Sums(Costs(entries), n)
           S == Sums(Costs(longer), n + 1)
<1>1. /\ n \in Nat /\ longer \in Seq(Entry) /\ Len(longer) = n + 1
      /\ \A k \in 1..n : longer[k] = entries[k]
      /\ longer[n + 1] = e
  OBVIOUS
<1> HIDE DEF longer
<1>2. IsSums(R, Costs(entries), n) /\ IsSums(S, Costs(longer), n + 1)
  BY <1>1, TotalIsASum
<1>3. \A k \in 1..n : Costs(entries)[k] = Costs(longer)[k]
  BY <1>1 DEF Costs
<1>4. Costs(longer)[n + 1] = e.cost
  BY <1>1 DEF Costs
<1>5. Total(entries) = R[n] /\ Total(longer) = S[n + 1]
  BY <1>1 DEF Total
<1> HIDE DEF n, R, S
<1>6. n \in Nat /\ n + 1 \in Nat /\ n <= n + 1
  BY <1>1
<1>7. R[n] = S[n]
  <2>1. \A k \in 0..n : R[k] = S[k]
    BY <1>2, <1>3, <1>6, SumsAgree
  <2>2. QED BY <1>6, <2>1
<1>8. S[n + 1] = S[n] + Costs(longer)[n + 1]
  BY <1>2, <1>6 DEF IsSums
<1>9. QED BY <1>4, <1>5, <1>7, <1>8 DEF longer

\* ... and what is left when the oldest have gone costs no more.
LEMMA TotalOfTheRest ==
    ASSUME NEW entries \in Seq(Entry), NEW n \in 0..Len(entries), NEW rst \in Seq(Entry),
           Len(rst) = Len(entries) - n,
           \A k \in 1..Len(rst) : rst[k].cost = entries[n + k].cost
    PROVE  Total(rst) <= Total(entries)
<1> DEFINE l == Len(entries)
           p == Len(rst)
           R == Sums(Costs(entries), l)
           S == Sums(Costs(rst), p)
<1>1. n \in Nat /\ p \in Nat /\ l \in Nat /\ l = n + p
  OBVIOUS
<1>2. IsSums(R, Costs(entries), l) /\ IsSums(S, Costs(rst), p)
  BY TotalIsASum
<1>3. Follow(Costs(rst), Costs(entries), n, p)
  <2>1. \A k \in 1..p : n + k \in 1..l
    BY <1>1
  <2>2. QED BY <2>1 DEF Follow, Costs
<1>4. Total(entries) = R[l] /\ Total(rst) = S[p]
  BY DEF Total
<1> HIDE DEF l, p, R, S
<1>5. R[l] = R[n] + S[p]
  BY <1>1, <1>2, <1>3, SumsAfter
<1>6. R[n] \in Nat /\ S[p] \in Nat
  BY <1>1, <1>2 DEF IsSums
<1>7. QED BY <1>4, <1>5, <1>6

\* When a call does not fit, some entry is the first to make room for it: the
\* loop of _time_until_room_for returns, with a pause of at most one window.
LEMMA SomeEntryMakesRoom ==
    ASSUME log \in Seq(Entry), NEW asked \in 1..Limit, ~Fits(asked)
    PROVE  TimeUntilRoomFor(asked) \in 1..Window
<1> DEFINE needed == Used + asked - Limit
           n == Len(log)
           T == {k \in 0..n : needed <= Released[k]}
           Reaches(k) == Released[k - 1] < needed /\ needed <= Released[k]
<1>1. n \in Nat
  OBVIOUS
<1>2. /\ \A k \in 0..n : Released[k] \in Nat
      /\ Released[0] = 0
      /\ Used = Released[n]
  <2>1. Released = Sums(Costs(log), Len(log))
    BY DEF Released, Costs
  <2>2. IsSums(Released, Costs(log), n)
    BY <2>1, TotalIsASum
  <2>3. QED BY <1>1, <2>2 DEF IsSums, Used
<1>3. needed > 0 /\ needed <= Released[n] /\ needed \in Int
  BY <1>1, <1>2 DEF Fits
<1> HIDE DEF needed
<1>4. n \in T /\ T \subseteq Nat
  BY <1>1, <1>3
<1>5. PICK k \in T : \A m \in T : k <= m
  <2> HIDE DEF T
  <2>1. QED BY <1>4, LeastNatural
<1>6. k \in 1..n /\ k - 1 \in 0..n
  BY <1>1, <1>2, <1>3
<1>7. ~(k - 1 \in T)
  BY <1>5, <1>6
<1>8. Reaches(k)
  BY <1>2, <1>3, <1>6, <1>7
<1>9. PICK last \in 1..n : last = CHOOSE j \in 1..n : Reaches(j)
  BY <1>6, <1>8
<1>10. TimeUntilRoomFor(asked) = Window - log[last].age
  BY <1>9 DEF TimeUntilRoomFor, needed
<1>11. log[last].age \in 0..(Window - 1)
  BY <1>9, EntryFields
<1>12. QED BY <1>10, <1>11

\* The pop loop of _expire stops, and leaves nothing behind that should go.
LEMMA ExpiryStops ==
    ASSUME log \in Seq(Entry), OldestFirst
    PROVE  /\ Expiring \in 0..Len(log)
           /\ \A i \in 1..(Len(log) - Expiring) : log[Expiring + i].age + 1 < Window
<1> DEFINE n == Len(log)
           T == {k \in 0..n : k < n => StaysOnTick(log[k + 1])}
           Stop(k) == /\ \A i \in 1..k : ~StaysOnTick(log[i])
                      /\ k < n => StaysOnTick(log[k + 1])
<1>1. n \in Nat
  OBVIOUS
<1>2. n \in T /\ T \subseteq Nat
  BY <1>1
<1>3. PICK k \in T : \A m \in T : k <= m
  <2> HIDE DEF T
  <2>1. QED BY <1>2, LeastNatural
<1>4. \A i \in 1..k : ~StaysOnTick(log[i])
  <2> SUFFICES ASSUME NEW i \in 1..k, StaysOnTick(log[i]) PROVE FALSE
    OBVIOUS
  <2>1. i - 1 \in 0..n /\ i - 1 < k /\ (i - 1) + 1 = i
    BY <1>1
  <2>2. i - 1 \in T
    BY <2>1
  <2>3. k \in Nat
    BY <1>2
  <2> HIDE DEF T
  <2>4. QED BY <1>3, <2>1, <2>2, <2>3
<1>5. Stop(k) /\ k \in 0..n
  BY <1>4
<1>6. Expiring = CHOOSE j \in 0..n : Stop(j)
  BY DEF Expiring
<1>7. Expiring \in 0..n /\ Stop(Expiring)
  <2> HIDE DEF Stop, n
  <2>1. QED BY <1>5, <1>6
<1>8. ASSUME NEW i \in 1..(n - Expiring)
      PROVE  log[Expiring + i].age + 1 < Window
  <2>1. /\ Expiring + 1 \in 1..n /\ Expiring + i \in 1..n
        /\ Expiring + 1 <= Expiring + i /\ Expiring < n
    BY <1>1, <1>7
  <2>2. log[Expiring + 1].age + 1 < Window
    BY <1>7, <2>1 DEF StaysOnTick
  <2>3. log[Expiring + i].age <= log[Expiring + 1].age
    BY <2>1 DEF OldestFirst
  <2>4. log[Expiring + i].age \in Int /\ log[Expiring + 1].age \in Int
    <3>1. log[Expiring + i].age \in 0..(Window - 1) /\ log[Expiring + 1].age \in 0..(Window - 1)
      BY <2>1, EntryFields
    <3>2. QED BY <3>1
  <2>5. QED BY <2>2, <2>3, <2>4
<1>9. QED BY <1>7, <1>8

-----------------------------------------------------------------------------
\* Types.

LEMMA InitHolds == Init => IInv
<1> SUFFICES ASSUME Init PROVE IInv
  OBVIOUS
<1>1. TypeOK
  BY DEF Init, TypeOK, AtLeast, Places
<1>2. Used = 0
  BY TotalOfNothing, UsedIsTheTotal DEF Init
<1>3. OldestFirst /\ CallsCanFit /\ LineIsLive
  BY DEF Init, OldestFirst, CallsCanFit, LineIsLive, InLine
<1>4. QED BY <1>1, <1>2, <1>3 DEF IInv, LogFits

\* The log a tick leaves behind: the end of the log, one tick older.
LEMMA TickAges ==
    ASSUME log \in Seq(Entry), OldestFirst, Tick
    PROVE  /\ log' \in Seq(Entry) /\ Len(log') = Len(log) - Expiring
           /\ \A i \in 1..Len(log') :
                 /\ Expiring + i \in 1..Len(log)
                 /\ log'[i].age = log[Expiring + i].age + 1
                 /\ log'[i].cost = log[Expiring + i].cost
<1> DEFINE m == Len(log) - Expiring
<1>1. /\ Expiring \in 0..Len(log) /\ Len(log) \in Nat /\ m \in Nat
      /\ \A i \in 1..m : log[Expiring + i].age + 1 < Window
  BY ExpiryStops
<1>2. log' = [i \in 1..m |-> [log[Expiring + i] EXCEPT !.age = @ + 1]]
  BY DEF Tick
<1>3. ASSUME NEW i \in 1..m
      PROVE  /\ Expiring + i \in 1..Len(log)
             /\ log'[i] \in Entry
             /\ log'[i].age = log[Expiring + i].age + 1
             /\ log'[i].cost = log[Expiring + i].cost
  <2>1. Expiring + i \in 1..Len(log) /\ log[Expiring + i].age + 1 < Window
    <3>1. log[Expiring + i].age + 1 < Window
      BY <1>1
    <3>2. i \in Nat /\ 1 <= i /\ i <= Len(log) - Expiring
      BY <1>1
    <3>3. Expiring \in Nat /\ Len(log) \in Nat
      BY <1>1
    <3>4. Expiring + i \in 1..Len(log)
      BY <3>2, <3>3
    <3>5. QED BY <3>1, <3>4
  <2>2. log[Expiring + i] \in Entry
    BY <2>1
  <2>3. log'[i] = [log[Expiring + i] EXCEPT !.age = @ + 1]
    BY <1>2
  <2>4. QED BY <2>1, <2>2, <2>3, OlderEntry
<1> HIDE DEF m
<1>4. log' \in Seq(Entry) /\ Len(log') = m
  <2>1. log' \in [1..m -> Entry]
    BY <1>2, <1>3
  <2>2. QED BY <1>1, <2>1
<1>5. QED BY <1>3, <1>4 DEF m

LEMMA LogStep ==
    ASSUME TypeOK, OldestFirst, CallsCanFit, LogFits, [Next]_vars
    PROVE  log' \in Seq(Entry) /\ OldestFirst' /\ LogFits'
<1>1. log \in Seq(Entry) /\ Len(log) \in Nat
  BY DEF TypeOK, Entry
<1>2. CASE UNCHANGED log
  <2>1. Used' = Used
    BY <1>2, UsedIsTheTotal DEF Total, Costs
  <2>2. QED BY <1>1, <1>2, <2>1 DEF OldestFirst, LogFits
<1>3. ASSUME NEW c \in Caller, Grant(c)
      PROVE  log' \in Seq(Entry) /\ OldestFirst' /\ LogFits'
  <2> DEFINE e == [age |-> 0, cost |-> cost[c]]
  <2>1. pc[c] # "idle" /\ cost[c] \in 1..Limit
    BY <1>3 DEF Grant, Polls, CallsCanFit
  <2>2. e \in Entry /\ log' = Append(log, e) /\ Used + e.cost <= Limit
    BY <1>3, <2>1 DEF Grant, Fits, Entry
  <2>3. e.age = 0
    OBVIOUS
  <2> HIDE DEF e
  <2>4. Used' = Used + e.cost
    BY <1>1, <2>2, TotalAfterAppend, UsedIsTheTotal
  <2>5. /\ log' \in Seq(Entry) /\ Len(log') = Len(log) + 1
        /\ \A i \in 1..Len(log) : log'[i] = log[i]
        /\ log'[Len(log) + 1] = e
    BY <1>1, <2>2
  <2>6. \A i \in 1..Len(log) : log[i].age \in Nat
    BY <1>1, EntryFields
  <2>7. ASSUME NEW i \in 1..Len(log'), NEW j \in 1..Len(log'), i <= j
        PROVE  log'[j].age <= log'[i].age
    <3>1. CASE j \in 1..Len(log)
      BY <1>1, <2>5, <2>7, <3>1 DEF OldestFirst
    <3>2. CASE j = Len(log) + 1 /\ i \in 1..Len(log)
      BY <2>3, <2>5, <2>6, <3>2
    <3>3. CASE j = Len(log) + 1 /\ i = Len(log) + 1
      BY <2>3, <2>5, <3>3
    <3>4. QED BY <1>1, <2>5, <3>1, <3>2, <3>3
  <2>8. QED BY <2>2, <2>4, <2>5, <2>7 DEF OldestFirst, LogFits
<1>4. CASE Tick
  <2>1. /\ log' \in Seq(Entry) /\ Len(log') = Len(log) - Expiring /\ Expiring \in 0..Len(log)
        /\ \A i \in 1..Len(log') : /\ Expiring + i \in 1..Len(log)
                                   /\ log'[i].age = log[Expiring + i].age + 1
                                   /\ log'[i].cost = log[Expiring + i].cost
    BY <1>1, <1>4, TickAges, ExpiryStops
  <2>2. Total(log') <= Total(log)
    BY <1>1, <2>1, TotalOfTheRest
  <2>3. LogFits'
    <3>1. Total(log') \in Nat /\ Total(log) \in Nat
      BY <1>1, <2>1, TotalIsASum
    <3>2. QED BY <2>2, <3>1, UsedIsTheTotal DEF LogFits
  <2>4. \A i \in 1..Len(log) : log[i].age \in Nat
    BY <1>1, EntryFields
  <2>5. ASSUME NEW i \in 1..Len(log'), NEW j \in 1..Len(log'), i <= j
        PROVE  log'[j].age <= log'[i].age
    <3>1. Expiring + i <= Expiring + j /\ Expiring + i \in 1..Len(log) /\ Expiring + j \in 1..Len(log)
      BY <1>1, <2>1, <2>5
    <3>2. log[Expiring + j].age <= log[Expiring + i].age
      BY <3>1 DEF OldestFirst
    <3>3. log'[i].age = log[Expiring + i].age + 1 /\ log'[j].age = log[Expiring + j].age + 1
      BY <2>1
    <3>4. log[Expiring + i].age \in Nat /\ log[Expiring + j].age \in Nat
      BY <2>4, <3>1
    <3>5. QED BY <3>2, <3>3, <3>4
  <2>6. QED BY <2>1, <2>3, <2>5 DEF OldestFirst
<1>5. QED
  BY <1>2, <1>3, <1>4 DEF Next, Proceed, Begin, Interrupt, Refuse, Sleep, GiveUp, Release, vars

LEMMA PauseIsBounded ==
    ASSUME TypeOK, NEW front \in Caller, cost[front] \in 1..Limit
    PROVE  PauseFor(front) \in 1..AtLeast(Window, MinSleep)
<1>1. log \in Seq(Entry)
  BY DEF TypeOK, Entry
<1>2. CASE Fits(cost[front])
  BY <1>2 DEF PauseFor, AtLeast
<1>3. CASE ~Fits(cost[front])
  <2>1. TimeUntilRoomFor(cost[front]) \in 1..Window
    BY <1>1, <1>3, SomeEntryMakesRoom
  <2>2. QED BY <1>3, <2>1 DEF PauseFor, AtLeast
<1>4. QED BY <1>2, <1>3

LEMMA LineOfCallers ==
    ASSUME TypeOK, [Next]_vars
    PROVE  line' \in Seq(Caller)
<1>1. line \in Seq(Caller)
  BY DEF TypeOK
<1>2. ASSUME NEW c \in Caller, Grant(c) PROVE line' \in Seq(Caller)
  BY <1>1, <1>2 DEF Grant, InLine
<1>3. ASSUME NEW c \in Caller, Refuse(c) PROVE line' \in Seq(Caller)
  BY <1>1, <1>3 DEF Refuse
<1>4. ASSUME NEW c \in Caller, Release(c) PROVE line' \in Seq(Caller)
  BY <1>1, <1>4, RemoveAtMovesUp DEF Release, DropTicket
<1>5. CASE UNCHANGED line
  BY <1>1, <1>5
<1>6. QED
  BY <1>2, <1>3, <1>4, <1>5 DEF Next, Proceed, Begin, Interrupt, Sleep, GiveUp, Tick, vars

\* The caller at the front has an open call, so its cost can fit.
LEMMA FrontCanFit ==
    ASSUME TypeOK, CallsCanFit, LineIsLive, NEW c \in Caller, Refuse(c)
    PROVE  line'[1] \in Caller /\ cost[line'[1]] \in 1..Limit
<1>1. line \in Seq(Caller) /\ pc[c] # "idle"
  BY DEF TypeOK, Refuse, Polls
<1>2. line' = IF InLine(c) THEN line ELSE Append(line, c)
  BY DEF Refuse
<1>3. CASE line = <<>>
  <2>1. line'[1] = c
    BY <1>2, <1>3 DEF InLine
  <2>2. QED BY <1>1, <2>1 DEF CallsCanFit
<1>4. CASE line # <<>>
  <2>1. line[1] \in Caller /\ 1 \in 1..Len(line) /\ line'[1] = line[1]
    BY <1>1, <1>2, <1>4
  <2>2. pc[line[1]] # "idle"
    BY <2>1 DEF LineIsLive, InLine
  <2>3. QED BY <2>1, <2>2 DEF CallsCanFit
<1>5. QED BY <1>3, <1>4

Longest == AtLeast(Window, MinSleep)

\* What TypeOK and CallsCanFit say of the callers.
Callers == /\ pc \in [Caller -> Places]
           /\ cost \in [Caller -> 0..Limit]
           /\ left \in [Caller -> Nat \cup {None}]
           /\ rest \in [Caller -> 0..Longest]
           /\ \A c \in Caller : pc[c] # "idle" => cost[c] \in 1..Limit

LEMMA CallersStep ==
    ASSUME IInv, [Next]_vars
    PROVE  TypeOK' /\ CallsCanFit'
<1> USE DEF Callers, Places
<1>1. Longest \in Nat /\ 0 \in 0..Longest /\ MinSleep <= Longest
  BY DEF Longest, AtLeast
<1>2. TypeOK /\ CallsCanFit /\ LineIsLive /\ OldestFirst /\ LogFits
  BY DEF IInv
<1>3. log' \in Seq(Entry) /\ line' \in Seq(Caller)
  BY <1>2, LogStep, LineOfCallers
<1>4. Callers
  BY <1>2 DEF Longest, TypeOK, CallsCanFit
<1>5. ASSUME NEW c \in Caller, Begin(c) PROVE Callers'
  <2>1. PICK ask \in Asks[c] : /\ cost' = [cost EXCEPT ![c] = ask[1]]
                               /\ left' = [left EXCEPT ![c] = ask[2]]
    BY <1>5 DEF Begin
  <2>2. ask[1] \in 1..Limit /\ ask[2] \in Nat \cup {None}
    BY <2>1, WindowsAndCosts
  <2>3. QED BY <1>4, <1>5, <2>1, <2>2 DEF Begin
<1>6. ASSUME NEW c \in Caller, Grant(c) \/ Release(c) PROVE Callers'
  <2>1. /\ pc' = [pc EXCEPT ![c] = "idle"]
        /\ cost' = [cost EXCEPT ![c] = 0]
        /\ left' = [left EXCEPT ![c] = None]
        /\ rest' = rest
    BY <1>6 DEF Grant, Release
  <2>2. QED BY <1>4, <2>1
<1>7. ASSUME NEW c \in Caller, Refuse(c) PROVE Callers'
  <2>1. PauseFor(line'[1]) \in 0..Longest
    BY <1>1, <1>2, <1>7, FrontCanFit, PauseIsBounded DEF Longest
  <2>2. pc[c] # "idle"
    BY <1>7 DEF Refuse, Polls
  <2>3. QED BY <1>4, <1>7, <2>1, <2>2 DEF Refuse
<1>8. ASSUME NEW c \in Caller, Sleep(c) PROVE Callers'
  <2> DEFINE nap == AtLeast(IF left[c] = None \/ rest[c] <= left[c] THEN rest[c] ELSE left[c],
                            MinSleep)
  <2>1. nap \in 0..Longest
    <3>1. rest[c] \in 0..Longest /\ left[c] \in Nat \cup {None}
      BY <1>4
    <3>2. QED BY <1>1, <3>1 DEF AtLeast
  <2>2. rest' = [rest EXCEPT ![c] = nap]
    BY <1>8 DEF Sleep
  <2> HIDE DEF nap
  <2>3. QED BY <1>4, <1>8, <2>1, <2>2 DEF Sleep
<1>9. ASSUME NEW c \in Caller, GiveUp(c) \/ Interrupt(c) PROVE Callers'
  <2>1. /\ pc[c] # "idle"
        /\ pc' = [pc EXCEPT ![c] = "release"]
        /\ rest' = [rest EXCEPT ![c] = 0]
        /\ cost' = cost /\ left' = left
    BY <1>9 DEF GiveUp, Interrupt
  <2>2. QED BY <1>1, <1>4, <2>1
<1>10. ASSUME Tick PROVE Callers'
  <2>1. left' \in [Caller -> Nat \cup {None}]
    <3>1. \A c \in Caller : left[c] \notin {None, 0} => left[c] - 1 \in Nat
      BY <1>4
    <3>2. QED BY <1>4, <1>10, <3>1 DEF Tick
  <2>2. rest' \in [Caller -> 0..Longest]
    <3>1. \A c \in Caller : rest[c] > 0 => rest[c] - 1 \in 0..Longest
      BY <1>1, <1>4
    <3>2. QED BY <1>4, <1>10, <3>1 DEF Tick
  <2>3. QED BY <1>4, <1>10, <2>1, <2>2 DEF Tick
<1>11. ASSUME UNCHANGED vars PROVE Callers'
  BY <1>4, <1>11 DEF vars
<1>12. Callers'
  <2> HIDE DEF Callers
  <2>1. QED BY <1>5, <1>6, <1>7, <1>8, <1>9, <1>10, <1>11 DEF Next, Proceed
<1>13. QED BY <1>3, <1>12 DEF TypeOK, CallsCanFit, Longest, Entry

-----------------------------------------------------------------------------
\* The line.

\* A call that is granted stands at the front, or in no line at all because there
\* is none.
LEMMA GrantedFromTheFront ==
    ASSUME TypeOK, NEW c \in Caller, Grant(c)
    PROVE  \/ line = <<>> /\ line' = line
           \/ line # <<>> /\ line[1] = c /\ line' = Tail(line)
<1>1. line \in Seq(Caller)
  BY DEF TypeOK
<1>2. CASE line = <<>>
  BY <1>2 DEF Grant, InLine
<1>3. CASE line # <<>>
  <2>1. 1 \in 1..Len(line) /\ line[1] = c
    BY <1>1, <1>3 DEF Grant, AtTheFront
  <2>2. InLine(c)
    BY <2>1 DEF InLine
  <2>3. QED BY <1>3, <2>1, <2>2 DEF Grant
<1>4. QED BY <1>2, <1>3

\* The line without its i-th caller, whose call ends.
LEMMA LineWithout ==
    ASSUME TypeOK, LineIsLive, NEW c \in Caller, NEW i \in 1..Len(line), line[i] = c,
           pc' = [pc EXCEPT ![c] = "idle"],
           Len(line') = Len(line) - 1,
           \A j \in 1..(Len(line) - 1) : line'[j] = IF j < i THEN line[j] ELSE line[j + 1]
    PROVE  LineIsLive'
<1> USE DEF LineIsLive, InLine
<1> DEFINE n == Len(line)
           from(j) == IF j < i THEN j ELSE j + 1
<1>1. n \in Nat /\ i \in 1..n /\ Len(line') = n - 1 /\ pc \in [Caller -> Places]
  BY DEF TypeOK
<1>2. ASSUME NEW j \in 1..(n - 1)
      PROVE  from(j) \in 1..n /\ from(j) # i /\ line'[j] = line[from(j)]
  BY <1>1
<1>3. ASSUME NEW j \in 1..(n - 1), NEW k \in 1..(n - 1), line'[j] = line'[k]
      PROVE  j = k
  <2>1. from(j) = from(k)
    <3> HIDE DEF from, n
    <3>1. line[from(j)] = line[from(k)] /\ from(j) \in 1..n /\ from(k) \in 1..n
      BY <1>2, <1>3
    <3>2. QED BY <3>1 DEF n
  <2>2. QED BY <1>1, <2>1
<1>4. ASSUME NEW d \in Caller, NEW j \in 1..(n - 1), line'[j] = d
      PROVE  pc'[d] # "idle"
  <2> HIDE DEF from
  <2>1. line[from(j)] = d /\ from(j) \in 1..n /\ from(j) # i
    BY <1>2, <1>4
  <2>2. d # c /\ pc[d] # "idle"
    BY <1>1, <2>1
  <2>3. QED BY <1>1, <2>2
<1>5. ASSUME NEW d \in Caller, pc'[d] \in {"unlocked", "asleep", "release"}
      PROVE  \E j \in 1..(n - 1) : line'[j] = d
  <2>1. d # c /\ pc[d] \in {"unlocked", "asleep", "release"}
    BY <1>1, <1>5
  <2>2. PICK k \in 1..n : line[k] = d
    BY <2>1
  <2>3. k # i
    BY <2>1, <2>2
  <2>4. CASE k < i
    BY <1>1, <2>2, <2>4
  <2>5. CASE k > i
    <3>1. k - 1 \in 1..(n - 1) /\ ~(k - 1 < i) /\ (k - 1) + 1 = k
      BY <1>1, <2>5
    <3>2. line'[k - 1] = line[(k - 1) + 1]
      BY <3>1
    <3>3. QED BY <2>2, <3>1, <3>2
  <2>6. QED BY <1>1, <2>3, <2>4, <2>5
<1> HIDE DEF from
<1>6. QED BY <1>1, <1>3, <1>4, <1>5

LEMMA LineStep ==
    ASSUME IInv, [Next]_vars
    PROVE  LineIsLive'
<1>1. /\ TypeOK /\ LineIsLive /\ line \in Seq(Caller) /\ Len(line) \in Nat
      /\ pc \in [Caller -> Places]
  BY DEF IInv, TypeOK
<1>2. ASSUME UNCHANGED line,
             \A c \in Caller : pc[c] # "idle" => pc'[c] # "idle",
             \A c \in Caller : pc'[c] \in {"unlocked", "asleep", "release"}
                                => pc[c] \in {"unlocked", "asleep", "release"}
      PROVE  LineIsLive'
  BY <1>1, <1>2 DEF LineIsLive, InLine
<1>3. ASSUME NEW c \in Caller, Begin(c) \/ Sleep(c) \/ GiveUp(c) \/ Interrupt(c)
      PROVE  LineIsLive'
  BY <1>1, <1>2, <1>3 DEF Begin, Sleep, GiveUp, Interrupt
<1>4. ASSUME NEW c \in Caller, Grant(c) PROVE LineIsLive'
  <2>0. pc' = [pc EXCEPT ![c] = "idle"]
    BY <1>4 DEF Grant
  <2>1. CASE line = <<>> /\ line' = line
    <3>1. Len(line) = 0
      BY <2>1
    <3>2. QED BY <1>1, <2>0, <2>1, <3>1 DEF LineIsLive, InLine
  <2>2. CASE line # <<>> /\ line[1] = c /\ line' = Tail(line)
    <3>1. 1 \in 1..Len(line) /\ Len(line') = Len(line) - 1
      BY <1>1, <2>2
    <3>2. \A j \in 1..(Len(line) - 1) : line'[j] = IF j < 1 THEN line[j] ELSE line[j + 1]
      BY <1>1, <2>2
    <3>3. QED BY <1>1, <2>0, <2>2, <3>1, <3>2, LineWithout
  <2>3. QED BY <1>1, <1>4, <2>1, <2>2, GrantedFromTheFront
<1>5. ASSUME NEW c \in Caller, Refuse(c) PROVE LineIsLive'
  <2>1. pc' = [pc EXCEPT ![c] = "unlocked"] /\ pc[c] # "idle"
    BY <1>5 DEF Refuse, Polls
  <2>2. CASE InLine(c)
    <3>1. line' = line
      BY <1>5, <2>2 DEF Refuse
    <3>2. QED BY <1>1, <2>1, <2>2, <3>1 DEF LineIsLive, InLine
  <2>3. CASE ~InLine(c)
    <3>1. line' = Append(line, c)
      BY <1>5, <2>3 DEF Refuse
    <3>2. /\ Len(line') = Len(line) + 1 /\ line'[Len(line) + 1] = c
          /\ \A i \in 1..Len(line) : line'[i] = line[i] /\ line[i] # c
      BY <1>1, <2>3, <3>1 DEF InLine
    <3>3. \A i, j \in 1..Len(line') : line'[i] = line'[j] => i = j
      BY <1>1, <3>2 DEF LineIsLive
    <3>4. \A d \in Caller : InLine(d)' => pc'[d] # "idle"
      BY <1>1, <2>1, <3>2 DEF LineIsLive, InLine
    <3>5. \A d \in Caller : pc'[d] \in {"unlocked", "asleep", "release"} => InLine(d)'
      BY <1>1, <2>1, <3>2 DEF LineIsLive, InLine
    <3>6. QED BY <3>3, <3>4, <3>5 DEF LineIsLive
  <2>4. QED BY <2>2, <2>3
<1>6. ASSUME NEW c \in Caller, Release(c) PROVE LineIsLive'
  <2>1. pc' = [pc EXCEPT ![c] = "idle"]
    BY <1>6 DEF Release
  <2>2. PICK i \in 1..Len(line) : line[i] = c /\ line' = RemoveAt(line, i)
    BY <1>6 DEF Release, DropTicket
  <2>3. /\ Len(line') = Len(line) - 1
        /\ \A j \in 1..(Len(line) - 1) : line'[j] = IF j < i THEN line[j] ELSE line[j + 1]
    BY <1>1, <2>2, RemoveAtMovesUp
  <2>4. QED BY <1>1, <2>1, <2>2, <2>3, LineWithout
<1>7. CASE Tick \/ UNCHANGED vars
  BY <1>2, <1>7 DEF Tick, vars
<1>8. QED
  BY <1>3, <1>4, <1>5, <1>6, <1>7 DEF Next, Proceed

-----------------------------------------------------------------------------
\* The theorems.

LEMMA NextKeepsIInv == IInv /\ [Next]_vars => IInv'
<1> SUFFICES ASSUME IInv, [Next]_vars PROVE IInv'
  OBVIOUS
<1>1. TypeOK' /\ CallsCanFit'
  BY CallersStep
<1>2. OldestFirst' /\ LogFits'
  BY LogStep DEF IInv
<1>3. LineIsLive'
  BY LineStep
<1>4. QED BY <1>1, <1>2, <1>3 DEF IInv

\* Every reachable state satisfies the invariant, whatever the schedule.
THEOREM Invariance == Spec => []IInv
<1>1. QED BY InitHolds, NextKeepsIInv, PTL DEF Spec

\* Every variable has its type; in particular no pause is longer than one window
\* or the shortest sleep: the measurement of _time_until_room_for always finds an
\* entry to wait for, and never a negative pause.
THEOREM TypeCorrect == Spec => []TypeOK
<1>1. IInv => TypeOK
  BY DEF IInv
<1>2. QED BY <1>1, Invariance, PTL

\* A refused call has a place in line until it ends, and only one; a call that
\* ends leaves none behind.
THEOREM NoPlaceLeftBehind == Spec => []LineIsLive
<1>1. IInv => LineIsLive
  BY DEF IInv
<1>2. QED BY <1>1, Invariance, PTL

\* Callers join at the back, are served from the front, and leave only their own
\* place: the window in relative time is a waiting line.
THEOREM WindowIsALine == Spec => ImplementsLine
<1> DEFINE calling == {c \in Caller : pc[c] # "idle"}
<1>1. Init => Line!Init
  BY DEF Init, Line!Init
<1>2. ASSUME IInv, [Next]_vars
      PROVE  [Line!Next]_(Line!lineVars)
  <2> USE DEF Line!lineVars
  <2>1. TypeOK /\ line \in Seq(Caller) /\ pc \in [Caller -> Places]
    BY <1>2 DEF IInv, TypeOK
  <2>2. ASSUME NEW c \in Caller, Begin(c) PROVE Line!Call(c)
    BY <2>1, <2>2 DEF Begin, Line!Call
  <2>3. ASSUME NEW c \in Caller, Grant(c) PROVE Line!Serve(c)
    <3>1. pc[c] # "idle" /\ pc' = [pc EXCEPT ![c] = "idle"]
      BY <2>3 DEF Grant, Polls
    <3>2. calling' = calling \ {c} /\ c \in calling
      BY <2>1, <3>1
    <3>3. QED BY <2>1, <2>3, <3>2, GrantedFromTheFront DEF Line!Serve
  <2>4. ASSUME NEW c \in Caller, Refuse(c) PROVE Line!Join(c) \/ UNCHANGED Line!lineVars
    <3>1. pc[c] # "idle" /\ pc' = [pc EXCEPT ![c] = "unlocked"]
      BY <2>4 DEF Refuse, Polls
    <3>2. calling' = calling /\ c \in calling
      BY <2>1, <3>1
    <3>3. line' = IF InLine(c) THEN line ELSE Append(line, c)
      BY <2>4 DEF Refuse
    <3>4. QED BY <3>2, <3>3 DEF Line!Join, Line!Waits, InLine
  <2>5. ASSUME NEW c \in Caller, Release(c) PROVE Line!Leave(c)
    <3>1. pc[c] # "idle" /\ pc' = [pc EXCEPT ![c] = "idle"]
      BY <2>5 DEF Release
    <3>2. calling' = calling \ {c} /\ c \in calling
      BY <2>1, <3>1
    <3>3. QED BY <2>5, <3>2 DEF Release, DropTicket, Line!Leave, Line!RemoveAt, RemoveAt
  <2>6. ASSUME NEW c \in Caller, Sleep(c) \/ GiveUp(c) \/ Interrupt(c)
        PROVE  UNCHANGED Line!lineVars
    BY <2>1, <2>6 DEF Sleep, GiveUp, Interrupt
  <2>7. CASE Tick \/ UNCHANGED vars
    BY <2>7 DEF Tick, vars
  <2>8. QED
    BY <1>2, <2>2, <2>3, <2>4, <2>5, <2>6, <2>7 DEF Next, Proceed, Line!Next
<1>3. QED BY <1>1, <1>2, Invariance, PTL DEF Spec, ImplementsLine, Line!Spec

=============================================================================
