---------------------------- MODULE DeviceProofs ----------------------------
(***************************************************************************)
(* Theorems about what comes to the tasks from outside, but for signals:   *)
(* the timer's triggers (Timer), the keyboard's ring (Keyboard) and its    *)
(* scan codes (Keycodes).  The three share no state.                       *)
(***************************************************************************)
EXTENDS Timer, Keyboard, Keycodes, FiniteSetTheorems, SequenceTheorems,
        WellFoundedInduction, TLAPS

(* Numbers. *)

\* The order of the naturals.
Less == OpToRel(<, Nat)

\* The order of the naturals is well-founded.
LEMMA LessWellFounded == IsWellFoundedOn(Less, Nat)
BY NatLessThanWellFounded, Zenon DEF Less

\* What that order holds.
LEMMA InLess == \A x, y \in Nat : y < x => <<y, x>> \in Less
BY DEF OpToRel, Less

\* A set of naturals has a least element.
LEMMA LeastNat ==
  ASSUME NEW S \in SUBSET Nat, S # {}
  PROVE  \E n \in S : \A m \in S : n <= m
<1>1. \E x \in S : \A y \in S : ~(<<y, x>> \in Less)
  BY LessWellFounded, WFMin, Zenon
<1>2. PICK x \in S : \A y \in S : ~(<<y, x>> \in Less)
  BY <1>1
<1>3. ASSUME NEW y \in S PROVE x <= y
  <2>1. x \in Nat /\ y \in Nat
    OBVIOUS
  <2>2. y < x => <<y, x>> \in Less
    BY <2>1, InLess, Zenon
  <2>3. ~(<<y, x>> \in Less)
    BY <1>2
  <2>4. ~(y < x)
    BY <2>2, <2>3, Zenon
  <2> QED
    BY <2>1, <2>4
<1> QED
  BY <1>3

\* Remainders of numbers next to the divisor.
LEMMA ModBelow ==
  ASSUME NEW S \in Nat \ {0}, NEW x \in Int, 0 <= x, x < S
  PROVE  x % S = x
OBVIOUS

LEMMA ModAbove ==
  ASSUME NEW S \in Nat \ {0}, NEW x \in Int, S <= x, x < S + S
  PROVE  x % S = x - S
OBVIOUS

LEMMA ModUnder ==
  ASSUME NEW S \in Nat \ {0}, NEW x \in Int, 0 - S <= x, x < 0
  PROVE  x % S = x + S
OBVIOUS

LEMMA ModRange ==
  ASSUME NEW S \in Nat \ {0}, NEW x \in Int
  PROVE  x % S \in 0..(S - 1)
OBVIOUS

-----------------------------------------------------------------------------
(* The timer.                                                               *)

\* A trigger that calls a client's function is the one that the client knows, and
\* counts what clients count.
Served ==
  \A i \in DOMAIN table : table[i].func \in Clients =>
    index[table[i].func] = i /\ table[i].mod = Period

\* A trigger in use is a client's, but the scheduler's; none counts all ticks
\* unless clients may ask for it.
InUse ==
  \A i \in DOMAIN table :
    /\ table[i].active /\ i # schedulerIndex => table[i].func \in Clients
    /\ ~Global => ~table[i].global

\* Walks that have yet to come to a trigger began at different ticks, and those
\* that have passed a client's trigger began at others.
WalksCounted ==
  /\ \A i \in DOMAIN table : Cardinality(Owed(i)) <= ticks
  /\ \A c \in Clients : /\ start[c] <= ticks /\ fired[c] <= ticks
                        /\ index[c] # 0 => fired[c] + Cardinality(Owed(index[c])) <= ticks

\* The walks w that have yet to come to trigger i.
OwedOf(w, i) == {t \in Runnable : w[t] \in 1..i}

TimerInv == TimerTypeOK /\ Served /\ InUse /\ WalksCounted /\ TicksCountedOnce

\* The constants, one by one.
LEMMA TimerConstants ==
  ASSUME TimerOK
  PROVE  /\ Slice \in Nat /\ Period \in Nat /\ Period # 0 /\ MaxTicks \in Nat
         /\ IsFiniteSet(Runnable) /\ IsFiniteSet(Clients)
         /\ Cardinality(Runnable) \in Nat /\ Cardinality(Clients) \in Nat
         /\ Global \in BOOLEAN
         /\ NoClient \notin Clients /\ Scheduler \notin Clients
BY FS_CardinalityType DEF TimerOK

\* The walks owed are tasks, and so finitely many.
LEMMA OwedFinite ==
  ASSUME TimerOK, NEW i
  PROVE  IsFiniteSet(Owed(i)) /\ Cardinality(Owed(i)) \in Nat
         /\ Cardinality(Owed(i)) <= Cardinality(Runnable)
<1>1. Owed(i) \in SUBSET Runnable
  BY DEF Owed, OwedOf
<1> QED
  BY <1>1, FS_Subset, FS_CardinalityType, TimerConstants

\* The same after a step.
LEMMA OwedFinitePrime ==
  ASSUME TimerOK, NEW i
  PROVE  IsFiniteSet(OwedOf(walk', i)) /\ Cardinality(OwedOf(walk', i)) \in Nat
         /\ Cardinality(OwedOf(walk', i)) <= Cardinality(Runnable)
<1>1. OwedOf(walk', i) \in SUBSET Runnable
  BY DEF Owed, OwedOf
<1> QED
  BY <1>1, FS_Subset, FS_CardinalityType, TimerConstants

\* The table and what is in it.
LEMMA TableFacts ==
  ASSUME TimerTypeOK
  PROVE  /\ Len(table) \in Nat /\ Len(table) >= 1 /\ DOMAIN table = 1..Len(table)
         /\ \A i \in 1..Len(table) :
              /\ table[i].mod \in Nat /\ table[i].cur \in Nat
              /\ table[i].func \in Clients \cup {Scheduler, NoClient}
              /\ table[i].active \in BOOLEAN /\ table[i].global \in BOOLEAN
<1>1. table \in Seq(Trigger) /\ Len(table) \in Nat /\ Len(table) >= 1
  <2>1. table \in Seq(Trigger) /\ Len(table) \in 1..(1 + Cardinality(Clients))
    BY DEF TimerTypeOK
  <2>2. Len(table) \in Nat
    BY <2>1, LenProperties
  <2> QED
    BY <2>1, <2>2
<1>2. DOMAIN table = 1..Len(table) /\ \A i \in 1..Len(table) : table[i] \in Trigger
  BY <1>1, LenProperties, ElementOfSeq
<1> QED
  BY <1>1, <1>2 DEF Trigger

\* A trigger replaced leaves a table.
LEMMA Replaced ==
  ASSUME NEW S, NEW s \in Seq(S), NEW i \in DOMAIN s, NEW x \in S, NEW r,
         [s EXCEPT ![i] = x] = r
  PROVE  /\ r \in Seq(S) /\ Len(r) = Len(s) /\ DOMAIN r = DOMAIN s /\ r[i] = x
         /\ \A k \in DOMAIN s : k # i => r[k] = s[k]
<1>1. Len(s) \in Nat /\ DOMAIN s = 1..Len(s) /\ s \in [1..Len(s) -> S]
  BY LenProperties, SeqDef
<1>2. r \in [1..Len(s) -> S] /\ DOMAIN r = 1..Len(s) /\ r[i] = x
      /\ \A k \in DOMAIN s : k # i => r[k] = s[k]
  BY <1>1
<1>3. r \in Seq(S)
  BY <1>1, <1>2, SeqDef
<1> QED
  BY <1>1, <1>2, <1>3, LenProperties

\* What the table is when a trigger has counted: the others are as they were.
Counts(r) ==
  /\ r \in Seq(Trigger) /\ Len(r) = Len(table) /\ DOMAIN r = DOMAIN table
  /\ \A k \in DOMAIN table :
       /\ r[k].mod = table[k].mod /\ r[k].func = table[k].func
       /\ r[k].active = table[k].active /\ r[k].global = table[k].global
       /\ r[k].cur \in Nat
       /\ r[k].cur <= table[k].cur + IF k = Here THEN 1 ELSE 0

\* Counted changes the count of the trigger it is at: by one, or back to 0.
LEMMA CountedCounts ==
  ASSUME TimerOK, TimerTypeOK, Here # 0
  PROVE  /\ Here \in DOMAIN table
         /\ Counts(Counted)
         /\ ~trigger.global /\ trigger.cur + 1 >= trigger.mod => Counted[Here].cur = 0
<1>1. Here \in DOMAIN table /\ table \in Seq(Trigger) /\ trigger \in Trigger
  <2>1. Here \in 0..Len(table)
    BY DEF Here, TimerTypeOK
  <2> QED
    BY <2>1, TableFacts, ElementOfSeq DEF TimerTypeOK, trigger
<1>2. CASE trigger.global
  BY <1>1, <1>2, TableFacts DEF Counted, Counts
<1>3. CASE ~trigger.global
  <2> DEFINE n == IF trigger.cur + 1 >= trigger.mod THEN 0 ELSE trigger.cur + 1
             x == [trigger EXCEPT !.cur = n]
  <2>1. n \in Nat /\ n <= trigger.cur + 1 /\ (trigger.cur + 1 >= trigger.mod => n = 0)
    BY <1>1 DEF Trigger
  <2>2. Counted = [table EXCEPT ![Here] = x]
    BY <1>3, <1>1 DEF Counted, trigger, Trigger
  <2> HIDE DEF n
  <2>3. x \in Trigger /\ x.cur = n /\ x.mod = trigger.mod /\ x.func = trigger.func
        /\ x.active = trigger.active /\ x.global = trigger.global
    BY <1>1, <2>1 DEF Trigger
  <2> HIDE DEF x
  <2>4. /\ Counted \in Seq(Trigger) /\ Len(Counted) = Len(table)
        /\ DOMAIN Counted = DOMAIN table /\ Counted[Here] = x
        /\ \A k \in DOMAIN table : k # Here => Counted[k] = table[k]
    BY <1>1, <2>2, <2>3, Replaced
  <2> QED
    BY <1>1, <2>1, <2>3, <2>4, TableFacts DEF Counts, trigger
<1> QED
  BY <1>2, <1>3

\* The same when the count of the scheduler's trigger is then set to 0.
LEMMA CountsReset ==
  ASSUME TimerOK, TimerTypeOK, NEW r, Counts(r)
  PROVE  Counts([r EXCEPT ![schedulerIndex].cur = 0])
<1> DEFINE x == [r[schedulerIndex] EXCEPT !.cur = 0]
           s == [r EXCEPT ![schedulerIndex].cur = 0]
<1>1. schedulerIndex \in DOMAIN r /\ r \in Seq(Trigger) /\ r[schedulerIndex] \in Trigger
  BY TableFacts, ElementOfSeq DEF Counts, schedulerIndex
<1>2. s = [r EXCEPT ![schedulerIndex] = x]
  BY <1>1
<1>3. x \in Trigger /\ x.cur = 0 /\ x.mod = r[schedulerIndex].mod
      /\ x.func = r[schedulerIndex].func /\ x.active = r[schedulerIndex].active
      /\ x.global = r[schedulerIndex].global
  BY <1>1 DEF Trigger
<1> HIDE DEF x
<1>4. /\ s \in Seq(Trigger) /\ Len(s) = Len(r) /\ DOMAIN s = DOMAIN r /\ s[schedulerIndex] = x
      /\ \A k \in DOMAIN r : k # schedulerIndex => s[k] = r[k]
  BY <1>1, <1>2, <1>3, Replaced
<1> HIDE DEF s
<1>5. ASSUME NEW k \in DOMAIN table
      PROVE /\ s[k].mod = table[k].mod /\ s[k].func = table[k].func
            /\ s[k].active = table[k].active /\ s[k].global = table[k].global
            /\ s[k].cur \in Nat
            /\ s[k].cur <= table[k].cur + IF k = Here THEN 1 ELSE 0
  <2>1. CASE k = schedulerIndex
    BY <2>1, <1>3, <1>4, TableFacts DEF Counts
  <2>2. CASE k # schedulerIndex
    BY <2>2, <1>4 DEF Counts
  <2> QED
    BY <2>1, <2>2
<1> QED
  BY <1>4, <1>5 DEF Counts, s

\* A table that nobody counted.
LEMMA CountsNone ==
  ASSUME TimerOK, TimerTypeOK, Here # 0 PROVE Counts(table)
BY TableFacts DEF Counts, TimerTypeOK

\* What a walk that goes on, or is given up, leaves owed.
LEMMA OwedPast ==
  ASSUME TimerOK, TimerTypeOK, Here # 0,
         walk' = [walk EXCEPT ![runs] = After(Here)] \/ walk' = [walk EXCEPT ![runs] = 0]
  PROVE  /\ walk' \in [Runnable -> 0..Len(table)]
         /\ \A i \in DOMAIN table :
              /\ Cardinality(OwedOf(walk', i)) <= Cardinality(Owed(i))
              /\ i = Here => Cardinality(OwedOf(walk', i)) + 1 <= Cardinality(Owed(i))
<1>1. Here \in DOMAIN table /\ DOMAIN table = 1..Len(table) /\ Len(table) \in Nat
      /\ runs \in Runnable /\ walk \in [Runnable -> 0..Len(table)] /\ Here = walk[runs]
  BY CountedCounts, TableFacts DEF TimerTypeOK, Here
<1>2. PICK w \in 0..Len(table) : walk' = [walk EXCEPT ![runs] = w] /\ (w = 0 \/ w = Here + 1)
  BY <1>1 DEF After
<1>3. walk' \in [Runnable -> 0..Len(table)]
  BY <1>1, <1>2
<1>4. ASSUME NEW i \in DOMAIN table
      PROVE  /\ Cardinality(OwedOf(walk', i)) <= Cardinality(Owed(i))
             /\ i = Here => Cardinality(OwedOf(walk', i)) + 1 <= Cardinality(Owed(i))
  <2>1. i \in 1..Len(table) /\ i \in Nat /\ Here \in Nat
    BY <1>1
  <2>2. CASE i = Here
    <3>1. runs \in Owed(i) /\ OwedOf(walk', i) = Owed(i) \ {runs}
      BY <1>1, <1>2, <2>1, <2>2 DEF Owed, OwedOf
    <3>2. Cardinality(Owed(i) \ {runs}) = Cardinality(Owed(i)) - 1
      BY <3>1, FS_RemoveElement, OwedFinite
    <3> QED
      BY <3>1, <3>2, <2>2, OwedFinite
  <2>3. CASE i # Here
    <3>1. OwedOf(walk', i) \in SUBSET Owed(i)
      BY <1>1, <1>2, <2>1, <2>3 DEF Owed, OwedOf
    <3> QED
      BY <3>1, <2>3, OwedFinite, OwedFinitePrime, FS_Subset
  <2> QED
    BY <2>2, <2>3
<1> QED
  BY <1>3, <1>4

\* The arithmetic of a step: with one walk less to come, a call more.
LEMMA CallsBound ==
  \A f, g, m, n, t \in Nat :
    /\ n <= m /\ f + m <= t
    /\ g = f \/ (g = f + 1 /\ n + 1 <= m)
    => g <= t /\ g + n <= t
OBVIOUS

\* The arithmetic of a step: what a client was told, what its trigger counts and the
\* walks to come do not grow together.
LEMMA SeenBound ==
  \A a, b, u, v, m, n, p \in Nat :
    /\ n <= m
    /\ \/ b = a /\ v <= u
       \/ b = a /\ v <= u + 1 /\ n + 1 <= m
       \/ b = a + p /\ v = 0 /\ u + 1 >= p /\ n + 1 <= m
    => b + v + n <= a + u + m
OBVIOUS

\* A product grows with its factor.
LEMMA Product ==
  ASSUME NEW f \in Nat, NEW p \in Nat
  PROVE  f * p \in Nat /\ (f + 1) * p = f * p + p
OBVIOUS

\* A step of a walk keeps the invariant, whatever becomes of the walk.
LEMMA WalkStep ==
  ASSUME TimerOK, TimerInv, Here # 0, Counts(table'),
         walk' = [walk EXCEPT ![runs] = After(Here)] \/ walk' = [walk EXCEPT ![runs] = 0],
         \/ fired' = fired
         \/ /\ Due /\ trigger.func \in Clients /\ (~trigger.global => table'[Here].cur = 0)
            /\ fired' = [fired EXCEPT ![trigger.func] = @ + 1],
         ticks' = ticks, index' = index, start' = start, stopped' = stopped,
         runs' \in Runnable
  PROVE  TimerInv'
<1> USE DEF TimerInv
<1>1. /\ DOMAIN table = 1..Len(table) /\ Len(table) \in Nat /\ Here \in DOMAIN table
      /\ index \in [Clients -> 0..Len(table)] /\ fired \in [Clients -> 0..MaxTicks]
      /\ start \in [Clients -> 0..MaxTicks] /\ ticks \in 0..MaxTicks
      /\ MaxTicks \in Nat /\ Period \in Nat
  BY CountedCounts, TableFacts, TimerConstants DEF TimerTypeOK
<1>2. /\ table' \in Seq(Trigger) /\ Len(table') = Len(table) /\ DOMAIN table' = DOMAIN table
      /\ \A k \in DOMAIN table :
           /\ table'[k].mod = table[k].mod /\ table'[k].func = table[k].func
           /\ table'[k].active = table[k].active /\ table'[k].global = table[k].global
           /\ table'[k].cur \in Nat
           /\ table'[k].cur <= table[k].cur + IF k = Here THEN 1 ELSE 0
  BY DEF Counts
<1>3. /\ walk' \in [Runnable -> 0..Len(table)]
      /\ \A i \in DOMAIN table :
           /\ Cardinality(OwedOf(walk', i)) \in Nat /\ Cardinality(Owed(i)) \in Nat
           /\ Cardinality(OwedOf(walk', i)) <= Cardinality(Owed(i))
           /\ i = Here => Cardinality(OwedOf(walk', i)) + 1 <= Cardinality(Owed(i))
  BY OwedPast, OwedFinite, OwedFinitePrime
<1>4. ASSUME NEW c \in Clients
      PROVE \/ fired'[c] = fired[c]
            \/ /\ fired'[c] = fired[c] + 1 /\ c = trigger.func /\ index[c] = Here
               /\ Due /\ trigger.mod = Period
               /\ ~trigger.global => table'[Here].cur = 0
  <2>1. CASE fired' = fired
    BY <2>1
  <2>2. CASE /\ Due /\ trigger.func \in Clients /\ (~trigger.global => table'[Here].cur = 0)
             /\ fired' = [fired EXCEPT ![trigger.func] = @ + 1]
    <3>1. index[trigger.func] = Here /\ trigger.mod = Period
      BY <2>2, <1>1 DEF Served, trigger
    <3>2. fired'[c] = IF c = trigger.func THEN fired[c] + 1 ELSE fired[c]
      BY <2>2, <1>1
    <3> QED
      BY <2>2, <3>1, <3>2
  <2> QED
    BY <2>1, <2>2
<1>5. ASSUME NEW c \in Clients
      PROVE /\ fired'[c] \in Nat /\ fired'[c] <= ticks
            /\ index[c] # 0 => fired'[c] + Cardinality(OwedOf(walk', index[c])) <= ticks
  <2>1. /\ fired[c] \in Nat /\ fired[c] <= ticks /\ index[c] \in 0..Len(table)
        /\ index[c] # 0 => fired[c] + Cardinality(Owed(index[c])) <= ticks
    BY <1>1 DEF WalksCounted
  <2>2. CASE index[c] = 0
    BY <1>4, <2>1, <2>2, <1>1
  <2>3. CASE index[c] # 0
    <3> DEFINE i == index[c]
               m == Cardinality(Owed(i))
               n == Cardinality(OwedOf(walk', i))
    <3>1. i \in DOMAIN table
      BY <2>1, <2>3, <1>1
    <3>2. m \in Nat /\ n \in Nat /\ n <= m /\ (i = Here => n + 1 <= m) /\ fired[c] + m <= ticks
      BY <3>1, <1>3, <2>1, <2>3
    <3>3. fired'[c] = fired[c] \/ (fired'[c] = fired[c] + 1 /\ i = Here)
      BY <1>4
    <3>4. fired'[c] \in Nat /\ ticks \in Nat
      BY <3>3, <2>1, <1>1
    <3> QED
      BY <3>2, <3>3, <3>4, <2>1, CallsBound
  <2> QED
    BY <2>2, <2>3
<1>6. TimerTypeOK'
  <2>1. fired' \in [Clients -> 0..MaxTicks]
    <3>1. fired' \in [Clients -> Nat]
      <4>1. DOMAIN fired' = Clients /\ fired' = [c \in Clients |-> fired'[c]]
        BY <1>1
      <4> QED
        BY <4>1, <1>5
    <3> QED
      BY <3>1, <1>5, <1>1
  <2> QED
    BY <2>1, <1>2, <1>3, <1>1 DEF TimerTypeOK
<1>7. Served' /\ InUse'
  BY <1>1, <1>2 DEF Served, InUse
<1>8. WalksCounted'
  <2>1. ASSUME NEW i \in DOMAIN table PROVE Cardinality(OwedOf(walk', i)) <= ticks
    <3>1. Cardinality(Owed(i)) <= ticks
      BY DEF WalksCounted
    <3>2. /\ Cardinality(OwedOf(walk', i)) \in Nat /\ Cardinality(Owed(i)) \in Nat
          /\ Cardinality(OwedOf(walk', i)) <= Cardinality(Owed(i))
      BY <1>3
    <3> QED
      BY <3>1, <3>2, <1>1
  <2>2. \A c \in Clients : /\ start'[c] <= ticks' /\ fired'[c] <= ticks'
                           /\ index'[c] # 0 => fired'[c] + Cardinality(OwedOf(walk', index[c])) <= ticks'
    BY <1>5 DEF WalksCounted
  <2>3. \A i : Owed(i)' = OwedOf(walk', i)
    BY DEF Owed, OwedOf
  <2>4. \A i \in DOMAIN table' : Cardinality(Owed(i))' <= ticks'
    BY <2>1, <2>3, <1>2
  <2>5. \A c \in Clients : Cardinality(Owed(index[c]))' = Cardinality(OwedOf(walk', index[c]))
    BY DEF Owed, OwedOf
  <2> QED
    BY <2>2, <2>4, <2>5 DEF WalksCounted
<1>9. ASSUME NEW c \in Clients, index[c] # 0, ~Global
      PROVE  fired'[c] * Period + table'[index[c]].cur + Cardinality(OwedOf(walk', index[c]))
               <= fired[c] * Period + table[index[c]].cur + Cardinality(Owed(index[c]))
  <2> DEFINE i == index[c]
             m == Cardinality(Owed(i))
             n == Cardinality(OwedOf(walk', i))
  <2>1. i \in DOMAIN table /\ fired[c] \in Nat /\ table[i].cur \in Nat /\ table'[i].cur \in Nat
        /\ m \in Nat /\ n \in Nat /\ n <= m /\ (i = Here => n + 1 <= m)
        /\ table'[i].cur <= table[i].cur + 1 /\ (i # Here => table'[i].cur <= table[i].cur)
    BY <1>1, <1>2, <1>3, <1>9, TableFacts
  <2>2. fired[c] * Period \in Nat /\ (fired[c] + 1) * Period = fired[c] * Period + Period
    BY <2>1, <1>1, Product
  <2>3. CASE fired'[c] = fired[c]
    <3>1. fired'[c] * Period = fired[c] * Period
      BY <2>3
    <3> QED
      BY <3>1, <2>1, <2>2, <1>1, SeenBound
  <2>4. CASE fired'[c] = fired[c] + 1 /\ fired'[c] # fired[c]
    <3>1. /\ i = Here /\ Due /\ trigger.mod = Period
          /\ ~trigger.global => table'[Here].cur = 0
      BY <1>4, <2>4
    <3>2. ~trigger.global
      BY <1>1, <1>9 DEF InUse, trigger
    <3>3. table'[i].cur = 0 /\ table[i].cur + 1 >= Period
      BY <3>1, <3>2 DEF Due, trigger
    <3>4. fired'[c] * Period = fired[c] * Period + Period
      BY <2>2, <2>4
    <3> DEFINE a == fired[c] * Period
               b == fired'[c] * Period
               u == table[i].cur
               v == table'[i].cur
    <3>5. a \in Nat /\ b \in Nat /\ b = a + Period
      BY <3>4, <2>2, <1>1
    <3>6. n + 1 <= m /\ v = 0 /\ u \in Nat /\ m \in Nat /\ n \in Nat /\ u + 1 >= Period
      BY <3>1, <3>3, <2>1
    <3> HIDE DEF a, b, m, n, u, v
    <3>7. b + v + n <= a + u + m
      BY <3>5, <3>6, <1>1
    <3> QED
      BY <3>7 DEF a, b, m, n, u, v, i
  <2> QED
    BY <2>3, <2>4, <1>4, <2>1
<1>10. TicksCountedOnce'
  <2> SUFFICES ASSUME NEW c \in Clients, index'[c] # 0, ~Global
               PROVE  TicksSeen(c)' <= ticks' - start'[c] + Cardinality(Runnable) - 1
    BY DEF TicksCountedOnce
  <2>1. TicksSeen(c) <= ticks - start[c] + Cardinality(Runnable) - 1
    BY DEF TicksCountedOnce
  <2>2. TicksSeen(c)' = fired'[c] * Period + table'[index[c]].cur + Cardinality(OwedOf(walk', index[c]))
    BY DEF TicksSeen, Owed, OwedOf
  <2>3. TicksSeen(c) = fired[c] * Period + table[index[c]].cur + Cardinality(Owed(index[c]))
    BY DEF TicksSeen
  <2>4. TicksSeen(c)' <= TicksSeen(c)
    BY <1>9, <2>2, <2>3
  <2>5. TicksSeen(c)' \in Nat /\ TicksSeen(c) \in Nat
    <3>1. index[c] \in DOMAIN table /\ fired[c] \in Nat /\ fired'[c] \in Nat
      BY <1>1, <1>5
    <3>2. fired[c] * Period \in Nat /\ fired'[c] * Period \in Nat
      BY <3>1, <1>1, Product
    <3>3. /\ table'[index[c]].cur \in Nat /\ table[index[c]].cur \in Nat
          /\ Cardinality(OwedOf(walk', index[c])) \in Nat /\ Cardinality(Owed(index[c])) \in Nat
      BY <3>1, <1>2, <1>3, <1>1, TableFacts
    <3> QED
      BY <3>2, <3>3, <2>2, <2>3
  <2> QED
    BY <2>1, <2>4, <2>5, <1>1, TimerConstants
<1> QED
  BY <1>6, <1>7, <1>8, <1>10

\* Outside the walks a count is only taken back.
LEMMA SeenQuietly ==
  ASSUME TimerOK, TimerInv, walk' = walk, ticks' = ticks,
         NEW c \in Clients, index[c] # 0, ~Global,
         index'[c] = index[c], start'[c] = start[c], fired'[c] = fired[c],
         table'[index[c]].cur \in Nat, table'[index[c]].cur <= table[index[c]].cur
  PROVE  TicksSeen(c)' <= ticks' - start'[c] + Cardinality(Runnable) - 1
<1> DEFINE i == index[c]
           m == Cardinality(Owed(i))
           a == fired[c] * Period
           u == table[i].cur
           v == table'[i].cur
           r == ticks - start[c] + Cardinality(Runnable) - 1
<1>1. /\ i \in DOMAIN table /\ fired[c] \in Nat /\ start[c] \in Nat /\ ticks \in Nat
      /\ Period \in Nat /\ Cardinality(Runnable) \in Nat
  BY TableFacts, TimerConstants DEF TimerInv, TimerTypeOK
<1>2. a \in Nat /\ m \in Nat /\ u \in Nat /\ v \in Nat /\ v <= u /\ r \in Int
  BY <1>1, Product, OwedFinite, TableFacts DEF TimerInv
<1>3. a + u + m <= r
  BY DEF TimerInv, TicksCountedOnce, TicksSeen
<1>4. TicksSeen(c)' = a + v + m
  BY DEF TicksSeen, Owed
<1>5. r = ticks' - start'[c] + Cardinality(Runnable) - 1
  OBVIOUS
<1> HIDE DEF a, u, v, m, r
<1>6. a + v + m <= r
  BY <1>2, <1>3
<1> QED
  BY <1>4, <1>5, <1>6

\* A trigger that is set to be in use, or not.
LEMMA TriggerActive ==
  ASSUME NEW y \in Trigger, NEW b \in BOOLEAN, NEW w, w = [y EXCEPT !.active = b]
  PROVE  /\ w \in Trigger /\ w.mod = y.mod /\ w.func = y.func /\ w.global = y.global
         /\ w.cur = y.cur /\ y.cur \in Nat
<1>1. y = [mod |-> y.mod, cur |-> y.cur, func |-> y.func, active |-> y.active, global |-> y.global]
      /\ y.mod \in Nat /\ y.cur \in Nat /\ y.func \in Clients \cup {Scheduler, NoClient}
      /\ y.global \in BOOLEAN
  BY DEF Trigger
<1>2. w = [mod |-> y.mod, cur |-> y.cur, func |-> y.func, active |-> b, global |-> y.global]
  BY <1>1, Zenon
<1> QED
  BY <1>1, <1>2 DEF Trigger

\* A field of a trigger in the table changes, or two do.
LEMMA FieldChanged ==
  ASSUME NEW s, NEW i, NEW b, NEW c
  PROVE  /\ [s EXCEPT ![i].active = b] = [s EXCEPT ![i] = [s[i] EXCEPT !.active = b]]
         /\ [s EXCEPT ![i].cur = c, ![i].active = b]
              = [[s EXCEPT ![i].cur = c] EXCEPT ![i].active = b]
OBVIOUS

\* What the scheduler does to its trigger, outside the walks.
LEMMA SchedulerStep ==
  ASSUME TimerOK, TimerInv,
         \/ table' = [table EXCEPT ![schedulerIndex].cur = 0]
         \/ table' = [table EXCEPT ![schedulerIndex].active = FALSE]
         \/ table' = [table EXCEPT ![schedulerIndex].cur = 0, ![schedulerIndex].active = TRUE],
         ticks' = ticks, index' = index, walk' = walk, start' = start, fired' = fired,
         stopped' \in BOOLEAN, runs' \in Runnable
  PROVE  TimerInv'
<1> USE DEF TimerInv
<1>1. /\ DOMAIN table = 1..Len(table) /\ Len(table) \in Nat /\ schedulerIndex \in DOMAIN table
      /\ table \in Seq(Trigger) /\ table[schedulerIndex] \in Trigger
  BY TableFacts, ElementOfSeq DEF TimerTypeOK, schedulerIndex
<1>2. PICK x \in Trigger :
        /\ table' = [table EXCEPT ![schedulerIndex] = x]
        /\ x.mod = table[schedulerIndex].mod /\ x.func = table[schedulerIndex].func
        /\ x.global = table[schedulerIndex].global
        /\ x.cur \in Nat /\ x.cur <= table[schedulerIndex].cur
  <2> DEFINE y == table[schedulerIndex]
  <2>1. y.cur \in Nat
    BY <1>1 DEF Trigger
  <2>2. CASE table' = [table EXCEPT ![schedulerIndex].cur = 0]
    <3> DEFINE w == [y EXCEPT !.cur = 0]
    <3>1. /\ w \in Trigger /\ w.mod = y.mod /\ w.func = y.func /\ w.global = y.global
          /\ w.cur \in Nat /\ w.cur <= y.cur
      BY <1>1, <2>1 DEF Trigger
    <3>2. table' = [table EXCEPT ![schedulerIndex] = w]
      BY <2>2, <1>1 DEF Trigger
    <3> HIDE DEF w
    <3> QED
      BY <3>1, <3>2
  <2>3. CASE table' = [table EXCEPT ![schedulerIndex].active = FALSE]
    <3> DEFINE w == [y EXCEPT !.active = FALSE]
    <3>1. table' = [table EXCEPT ![schedulerIndex] = w]
      BY <2>3, FieldChanged, Zenon
    <3> HIDE DEF w
    <3>2. /\ w \in Trigger /\ w.mod = y.mod /\ w.func = y.func /\ w.global = y.global
          /\ w.cur = y.cur
      BY <1>1, TriggerActive DEF w
    <3>3. w.cur \in Nat /\ w.cur <= y.cur
      BY <3>2, <2>1
    <3> QED
      BY <3>1, <3>2, <3>3, Zenon
  <2>4. CASE table' = [table EXCEPT ![schedulerIndex].cur = 0, ![schedulerIndex].active = TRUE]
    <3> DEFINE z == [y EXCEPT !.cur = 0]
               s == [table EXCEPT ![schedulerIndex] = z]
               w == [z EXCEPT !.active = TRUE]
    <3>1. [table EXCEPT ![schedulerIndex].cur = 0] = s
      BY <1>1
    <3>2. /\ z \in Trigger /\ z.mod = y.mod /\ z.func = y.func /\ z.global = y.global
          /\ z.cur = 0
      BY <1>1 DEF Trigger
    <3>3. table' = [s EXCEPT ![schedulerIndex] = [s[schedulerIndex] EXCEPT !.active = TRUE]]
      <4> HIDE DEF s
      <4> QED
        BY <2>4, <3>1, FieldChanged, Zenon
    <3>4. s[schedulerIndex] = z
      BY <1>1
    <3>5. table' = [s EXCEPT ![schedulerIndex] = w]
      BY <3>3, <3>4
    <3> HIDE DEF w, z
    <3>6. table' = [table EXCEPT ![schedulerIndex] = w]
      BY <3>5, <1>1
    <3>7. /\ w \in Trigger /\ w.mod = y.mod /\ w.func = y.func /\ w.global = y.global
          /\ w.cur = 0
      BY <3>2, TriggerActive DEF w
    <3>8. w.cur \in Nat /\ w.cur <= y.cur
      BY <3>7, <2>1
    <3> QED
      BY <3>6, <3>7, <3>8, Zenon
  <2> QED
    BY <2>2, <2>3, <2>4
<1>3. /\ table' \in Seq(Trigger) /\ Len(table') = Len(table) /\ DOMAIN table' = DOMAIN table
      /\ table'[schedulerIndex] = x
      /\ \A k \in DOMAIN table : k # schedulerIndex => table'[k] = table[k]
  BY <1>1, <1>2, Replaced
<1>4. TimerTypeOK'
  BY <1>3 DEF TimerTypeOK
<1>5. Served' /\ InUse'
  BY <1>2, <1>3 DEF Served, InUse
<1>6. WalksCounted'
  BY <1>3 DEF WalksCounted, Owed
<1>7. ASSUME NEW c \in Clients, index'[c] # 0, ~Global
      PROVE  TicksSeen(c)' <= ticks' - start'[c] + Cardinality(Runnable) - 1
  <2>1. index[c] \in DOMAIN table
    BY <1>1, <1>7 DEF TimerTypeOK
  <2>2. table'[index[c]].cur \in Nat /\ table'[index[c]].cur <= table[index[c]].cur
    BY <2>1, <1>2, <1>3, TableFacts
  <2> QED
    BY <2>2, <1>7, SeenQuietly
<1> QED
  BY <1>4, <1>5, <1>6, <1>7 DEF TicksCountedOnce

\* The slot of a new trigger is the first one that is not in use, or behind the table.
LEMMA SlotFacts ==
  ASSUME TimerTypeOK
  PROVE  \/ Slot \in DOMAIN table /\ Slot \in 1..Len(table) /\ ~table[Slot].active
         \/ /\ Slot = Len(table) + 1 /\ Slot \notin DOMAIN table
            /\ \A i \in DOMAIN table : table[i].active
<1>1. DOMAIN table = 1..Len(table) /\ Len(table) \in Nat
  BY TableFacts
<1>2. CASE Vacant = {}
  BY <1>1, <1>2 DEF Slot, Vacant
<1>3. CASE Vacant # {}
  <2>1. Vacant \in SUBSET Nat
    BY <1>1 DEF Vacant
  <2>2. \E i \in Vacant : \A j \in Vacant : i <= j
    BY <2>1, <1>3, LeastNat
  <2>3. Slot \in Vacant
    BY <2>2, <1>3 DEF Slot
  <2> QED
    BY <2>3, <1>1 DEF Vacant
<1> QED
  BY <1>2, <1>3

\* A client without a trigger finds room: there are no more triggers than clients.
LEMMA RoomLeft ==
  ASSUME TimerOK, TimerTypeOK, Served, InUse, \A i \in DOMAIN table : table[i].active,
         NEW c \in Clients, index[c] = 0
  PROVE  Len(table) + 1 <= 1 + Cardinality(Clients)
<1> DEFINE S == 2..Len(table)
           T == Clients \ {c}
           f == [i \in S |-> table[i].func]
<1>1. Len(table) \in Nat /\ Len(table) >= 1 /\ DOMAIN table = 1..Len(table)
  BY TableFacts
<1>2. /\ IsFiniteSet(T) /\ Cardinality(T) = Cardinality(Clients) - 1
      /\ Cardinality(Clients) \in Nat
  BY TimerConstants, FS_RemoveElement
<1>3. IsFiniteSet(S) /\ Cardinality(S) = Len(table) - 1
  <2>1. /\ IsFiniteSet(S)
        /\ Cardinality(S) = IF 2 > Len(table) THEN 0 ELSE Len(table) - 2 + 1
    BY <1>1, FS_Interval
  <2> QED
    BY <2>1, <1>1
<1>4. \A i \in S : table[i].func \in T /\ index[table[i].func] = i
  BY <1>1 DEF Served, InUse, schedulerIndex
<1>5. f \in [S -> T] /\ \A x, y \in S : f[x] = f[y] => x = y
  BY <1>4
<1>6. ~(Cardinality(T) < Cardinality(S))
  <2> HIDE DEF S, T, f
  <2> QED
    BY <1>2, <1>3, <1>5, FS_PigeonHole
<1> HIDE DEF S, T
<1> QED
  BY <1>1, <1>2, <1>3, <1>6

\* A trigger like those that clients install.
LEMMA NewTriggerType ==
  ASSUME TimerOK, NEW m \in Nat, NEW f \in Clients \cup {Scheduler, NoClient}, NEW g \in BOOLEAN
  PROVE  /\ NewTrigger(m, f, g) \in Trigger
         /\ NewTrigger(m, f, g).mod = m /\ NewTrigger(m, f, g).cur = 0
         /\ NewTrigger(m, f, g).func = f /\ NewTrigger(m, f, g).global = g
         /\ NewTrigger(m, f, g).active
BY DEF NewTrigger, Trigger

\* Nobody owes a tick at the start.
LEMMA TimerStart ==
  ASSUME TimerOK, TimerInit PROVE TimerInv
<1> DEFINE first == NewTrigger(Slice, Scheduler, FALSE)
           second == NewTrigger(Period, Registered, Global)
<1>1. /\ first \in Trigger /\ first.func = Scheduler /\ ~first.global /\ first.cur = 0
  <2>1. FALSE \in BOOLEAN /\ Slice \in Nat /\ Scheduler \in Clients \cup {Scheduler, NoClient}
    BY TimerConstants
  <2> QED
    BY <2>1, NewTriggerType
<1>2. Registered # NoClient =>
        /\ Registered \in Clients /\ second \in Trigger /\ second.func = Registered
        /\ second.mod = Period /\ second.cur = 0 /\ second.global = Global
  <2> SUFFICES ASSUME Registered # NoClient
               PROVE  /\ Registered \in Clients /\ second \in Trigger
                      /\ second.func = Registered
                      /\ second.mod = Period /\ second.cur = 0 /\ second.global = Global
    BY Zenon
  <2>1. Registered \in Clients
    BY DEF TimerOK
  <2> QED
    BY <2>1, NewTriggerType, TimerConstants
<1> HIDE DEF first, second
<1>3. /\ table \in Seq(Trigger) /\ Len(table) = IF Registered = NoClient THEN 1 ELSE 2
      /\ DOMAIN table = 1..Len(table) /\ table[1] = first
      /\ Registered # NoClient => table[2] = second
  <2>1. CASE Registered = NoClient
    <3>1. table = <<first>> \o <<>>
      BY <2>1 DEF TimerInit, first
    <3>2. table = <<first>>
      BY <3>1
    <3> QED
      BY <2>1, <3>2, <1>1
  <2>2. CASE Registered # NoClient
    <3>1. table = <<first>> \o <<second>>
      BY <2>2 DEF TimerInit, first, second
    <3> DEFINE p == <<first>>
               q == <<second>>
    <3>2. p \in Seq(Trigger) /\ q \in Seq(Trigger) /\ Len(p) = 1 /\ Len(q) = 1
          /\ p[1] = first /\ q[1] = second
      BY <1>1, <1>2, <2>2
    <3>3. table = p \o q
      BY <3>1
    <3> HIDE DEF p, q
    <3>4. /\ table \in Seq(Trigger) /\ Len(table) = 2
          /\ \A i \in 1..2 : table[i] = IF i <= 1 THEN p[i] ELSE q[i - 1]
      BY <3>2, <3>3, ConcatProperties
    <3>5. 1 \in 1..2 /\ 2 \in 1..2 /\ ~(2 <= 1) /\ 2 - 1 = 1
      OBVIOUS
    <3>6. table[1] = p[1] /\ table[2] = q[1]
      BY <3>4, <3>5
    <3>7. DOMAIN table = 1..2
      BY <3>4, LenProperties
    <3> QED
      BY <2>2, <3>2, <3>4, <3>6, <3>7
  <2> QED
    BY <2>1, <2>2
<1>4. /\ Cardinality(Clients) \in Nat /\ Cardinality(Runnable) \in Nat
      /\ Registered # NoClient => Cardinality(Clients) >= 1
      /\ runs \in Runnable => Cardinality(Runnable) >= 1
  <2>1. \A S, x : IsFiniteSet(S) /\ x \in S => Cardinality(S) \in Nat /\ Cardinality(S) >= 1
    <3> SUFFICES ASSUME NEW S, NEW x, IsFiniteSet(S), x \in S
                 PROVE  Cardinality(S) \in Nat /\ Cardinality(S) >= 1
      OBVIOUS
    <3>1. Cardinality(S) \in Nat /\ Cardinality(S) # 0
      BY FS_CardinalityType, FS_EmptySet
    <3> QED
      BY <3>1
  <2> QED
    BY <2>1, <1>2, TimerConstants
<1>5. /\ index = [c \in Clients |-> IF c = Registered THEN 2 ELSE 0]
      /\ start = [c \in Clients |-> 0] /\ fired = [c \in Clients |-> 0] /\ ticks = 0
      /\ walk = [t \in Runnable |-> 0] /\ runs \in Runnable /\ stopped = FALSE
  BY DEF TimerInit
<1>6. /\ \A c \in Clients : index[c] \in 0..Len(table)
      /\ \A c \in Clients : index[c] # 0 => Registered # NoClient /\ index[c] = 2 /\ c = Registered
  BY <1>3, <1>5, TimerConstants
<1>7. TimerTypeOK
  <2>1. Len(table) \in 1..(1 + Cardinality(Clients))
    BY <1>3, <1>4
  <2>2. index \in [Clients -> 0..Len(table)] /\ walk \in [Runnable -> 0..Len(table)]
    BY <1>3, <1>5, <1>6
  <2>3. ticks \in 0..MaxTicks /\ start \in [Clients -> 0..MaxTicks] /\ fired \in [Clients -> 0..MaxTicks]
    BY <1>5, TimerConstants
  <2> QED
    BY <1>3, <1>5, <2>1, <2>2, <2>3 DEF TimerTypeOK
<1>8. Served
  <2> SUFFICES ASSUME NEW i \in DOMAIN table, table[i].func \in Clients
               PROVE  index[table[i].func] = i /\ table[i].mod = Period
    BY DEF Served
  <2>1. i = 2 /\ Registered # NoClient
    BY <1>3, <1>1, TimerConstants
  <2> QED
    BY <2>1, <1>2, <1>3, <1>5
<1>9. InUse
  BY <1>3, <1>1, <1>2 DEF InUse, schedulerIndex
<1>10. \A i \in DOMAIN table : Cardinality(Owed(i)) = 0
  <2>1. \A i \in DOMAIN table : Owed(i) = {}
    BY <1>3, <1>5 DEF Owed
  <2> QED
    BY <2>1, FS_EmptySet
<1>11. WalksCounted
  BY <1>3, <1>5, <1>6, <1>10 DEF WalksCounted
<1>12. TicksCountedOnce
  <2> SUFFICES ASSUME NEW c \in Clients, index[c] # 0
               PROVE  TicksSeen(c) <= ticks - start[c] + Cardinality(Runnable) - 1
    BY DEF TicksCountedOnce
  <2>1. index[c] \in DOMAIN table /\ table[index[c]].cur = 0
    BY <1>2, <1>3, <1>6
  <2>2. fired[c] * Period = 0
    BY <1>5, TimerConstants
  <2>3. TicksSeen(c) = 0
    BY <2>1, <2>2, <1>10 DEF TicksSeen
  <2> QED
    BY <2>3, <1>4, <1>5
<1> QED
  BY <1>7, <1>8, <1>9, <1>11, <1>12 DEF TimerInv

\* The tick begins a walk of the current task.
LEMMA TickStep ==
  ASSUME TimerOK, TimerInv, OnIrq0 PROVE TimerInv'
<1> USE DEF TimerInv
<1>1. /\ DOMAIN table = 1..Len(table) /\ Len(table) \in Nat /\ Len(table) >= 1
      /\ runs \in Runnable /\ walk \in [Runnable -> 0..Len(table)] /\ walk[runs] = 0
      /\ ticks \in Nat /\ MaxTicks \in Nat /\ ticks < MaxTicks /\ ticks' = ticks + 1
      /\ walk' = [walk EXCEPT ![runs] = 1]
      /\ table' = table /\ index' = index /\ stopped' = stopped /\ runs' = runs
      /\ start' = start /\ fired' = fired
      /\ index \in [Clients -> 0..Len(table)]
  BY TableFacts, TimerConstants DEF TimerTypeOK, OnIrq0, InCode
<1>2. ASSUME NEW i \in DOMAIN table
      PROVE  /\ Cardinality(OwedOf(walk', i)) = Cardinality(Owed(i)) + 1
             /\ Cardinality(Owed(i)) \in Nat
  <2>1. OwedOf(walk', i) = Owed(i) \cup {runs} /\ runs \notin Owed(i)
    BY <1>1 DEF Owed, OwedOf
  <2> QED
    BY <2>1, OwedFinite, FS_AddElement
<1>3. TimerTypeOK'
  BY <1>1 DEF TimerTypeOK
<1>4. Served' /\ InUse'
  BY <1>1 DEF Served, InUse
<1>5. WalksCounted'
  <2>1. ASSUME NEW i \in DOMAIN table PROVE Cardinality(OwedOf(walk', i)) <= ticks + 1
    <3> DEFINE m == Cardinality(Owed(i))
               n == Cardinality(OwedOf(walk', i))
    <3>1. m <= ticks /\ m \in Nat /\ n = m + 1
      BY <1>2 DEF WalksCounted
    <3> HIDE DEF m, n
    <3>2. n <= ticks + 1
      BY <3>1, <1>1
    <3> QED
      BY <3>2 DEF n
  <2>2. ASSUME NEW c \in Clients
        PROVE  /\ start[c] <= ticks + 1 /\ fired[c] <= ticks + 1
               /\ index[c] # 0 => fired[c] + Cardinality(OwedOf(walk', index[c])) <= ticks + 1
    <3>1. start[c] \in Nat /\ fired[c] \in Nat /\ index[c] \in 0..Len(table)
      BY TimerConstants DEF TimerTypeOK
    <3>2. /\ start[c] <= ticks /\ fired[c] <= ticks
          /\ index[c] # 0 => fired[c] + Cardinality(Owed(index[c])) <= ticks
      BY DEF WalksCounted
    <3>3. start[c] <= ticks + 1 /\ fired[c] <= ticks + 1
      BY <3>1, <3>2, <1>1
    <3>4. ASSUME index[c] # 0
          PROVE  fired[c] + Cardinality(OwedOf(walk', index[c])) <= ticks + 1
      <4> DEFINE m == Cardinality(Owed(index[c]))
                 n == Cardinality(OwedOf(walk', index[c]))
      <4>1. index[c] \in DOMAIN table
        BY <3>4, <3>1, <1>1
      <4>2. m \in Nat /\ n = m + 1 /\ fired[c] + m <= ticks
        BY <4>1, <3>4, <3>2, <1>2
      <4> HIDE DEF m, n
      <4>3. fired[c] + n <= ticks + 1
        BY <4>2, <3>1, <1>1
      <4> QED
        BY <4>3 DEF n
    <3> QED
      BY <3>3, <3>4
  <2>3. \A i : Owed(i)' = OwedOf(walk', i)
    BY DEF Owed, OwedOf
  <2>4. \A i \in DOMAIN table' : Cardinality(Owed(i))' <= ticks'
    BY <2>1, <2>3, <1>1
  <2>5. \A c \in Clients : Cardinality(Owed(index[c]))' = Cardinality(OwedOf(walk', index[c]))
    BY <1>1 DEF Owed, OwedOf
  <2> QED
    BY <2>2, <2>4, <2>5, <1>1 DEF WalksCounted
<1>6. ASSUME NEW c \in Clients, index'[c] # 0, ~Global
      PROVE  TicksSeen(c)' <= ticks' - start'[c] + Cardinality(Runnable) - 1
  <2> DEFINE i == index[c]
             m == Cardinality(Owed(i))
             a == fired[c] * Period
             u == table[i].cur
  <2>1. i \in DOMAIN table /\ fired[c] \in Nat /\ start[c] \in Nat /\ Period \in Nat
        /\ Cardinality(Runnable) \in Nat
    BY <1>1, <1>6, TimerConstants DEF TimerTypeOK
  <2>2. a \in Nat /\ m \in Nat /\ u \in Nat
    BY <2>1, Product, OwedFinite, TableFacts
  <2>3. a + u + m <= ticks - start[c] + Cardinality(Runnable) - 1
    BY <1>1, <1>6 DEF TicksCountedOnce, TicksSeen
  <2>4. TicksSeen(c)' = a + u + Cardinality(OwedOf(walk', i))
    BY <1>1 DEF TicksSeen, Owed, OwedOf
  <2>5. Cardinality(OwedOf(walk', i)) = m + 1
    BY <1>2, <2>1
  <2> HIDE DEF a, u, m, i
  <2>6. TicksSeen(c)' <= (ticks + 1) - start[c] + Cardinality(Runnable) - 1
    BY <2>1, <2>2, <2>3, <2>4, <2>5, <1>1
  <2> QED
    BY <2>6, <1>1
<1> QED
  BY <1>3, <1>4, <1>5, <1>6 DEF TicksCountedOnce

\* A client installs a trigger: nobody has seen a tick for it yet but the walks
\* that are suspended, and they are not of the task that installs it.
LEMMA InsertStep ==
  ASSUME TimerOK, TimerInv, NEW c \in Clients, InsertTrigger(c) PROVE TimerInv'
<1> USE DEF TimerInv
<1> DEFINE x == NewTrigger(Period, c, Global)
<1>0. table' = IF Slot \in DOMAIN table THEN [table EXCEPT ![Slot] = x] ELSE Append(table, x)
  BY DEF InsertTrigger
<1>1. /\ walk[runs] = 0 /\ index[c] = 0
      /\ index' = [index EXCEPT ![c] = Slot]
      /\ start' = [start EXCEPT ![c] = ticks] /\ fired' = [fired EXCEPT ![c] = 0]
      /\ ticks' = ticks /\ stopped' = stopped /\ runs' = runs /\ walk' = walk
  BY DEF InsertTrigger, InCode
<1>2. x \in Trigger /\ x.mod = Period /\ x.cur = 0 /\ x.func = c /\ x.global = Global
  BY NewTriggerType, TimerConstants
<1> HIDE DEF x
<1>3. /\ DOMAIN table = 1..Len(table) /\ Len(table) \in Nat /\ Len(table) >= 1
      /\ table \in Seq(Trigger)
      /\ Cardinality(Clients) \in Nat /\ Len(table) <= 1 + Cardinality(Clients)
  BY TableFacts, TimerConstants DEF TimerTypeOK
<1>12. /\ index \in [Clients -> 0..Len(table)] /\ fired \in [Clients -> 0..MaxTicks]
       /\ start \in [Clients -> 0..MaxTicks] /\ ticks \in 0..MaxTicks
       /\ walk \in [Runnable -> 0..Len(table)] /\ runs \in Runnable
       /\ MaxTicks \in Nat /\ Period \in Nat
  BY TableFacts, TimerConstants DEF TimerTypeOK
<1>4. /\ table' \in Seq(Trigger) /\ DOMAIN table' = 1..Len(table') /\ Len(table') \in Nat
      /\ Len(table) <= Len(table') /\ Len(table') <= Len(table) + 1
      /\ Len(table') <= 1 + Cardinality(Clients)
      /\ Slot \in 1..Len(table') /\ table'[Slot] = x
      /\ \A k \in DOMAIN table' : k # Slot => k \in DOMAIN table /\ table'[k] = table[k]
      /\ Len(table') = Len(table) + 1 => Slot = Len(table')
  <2>1. CASE Slot \in DOMAIN table
    <3>1. table' = [table EXCEPT ![Slot] = x]
      BY <2>1, <1>0
    <3>2. /\ table' \in Seq(Trigger) /\ Len(table') = Len(table) /\ DOMAIN table' = DOMAIN table
          /\ table'[Slot] = x
          /\ \A k \in DOMAIN table : k # Slot => table'[k] = table[k]
      BY <2>1, <3>1, <1>2, <1>3, Replaced
    <3>3. Slot \in 1..Len(table') /\ DOMAIN table' = 1..Len(table')
      BY <2>1, <3>2, <1>3
    <3>4. Len(table') \in Nat /\ Len(table) <= Len(table') /\ Len(table') <= Len(table) + 1
          /\ Len(table') <= 1 + Cardinality(Clients) /\ Len(table') # Len(table) + 1
      <4> DEFINE l == Len(table)
                 n == Cardinality(Clients)
      <4>1. Len(table') = l /\ l \in Nat /\ n \in Nat /\ l <= 1 + n
        BY <3>2, <1>3
      <4> HIDE DEF l, n
      <4>2. l <= l + 1 /\ l # l + 1
        BY <4>1
      <4> QED
        BY <4>1, <4>2 DEF l, n
    <3> QED
      BY <3>2, <3>3, <3>4
  <2>2. CASE Slot \notin DOMAIN table
    <3>1. Slot = Len(table) + 1 /\ \A i \in DOMAIN table : table[i].active
      BY <2>2, SlotFacts
    <3>2. Len(table) + 1 <= 1 + Cardinality(Clients)
      BY <3>1, <1>1, RoomLeft
    <3>3. table' = Append(table, x)
      BY <2>2, <1>0
    <3>4. /\ table' \in Seq(Trigger) /\ Len(table') = Len(table) + 1
          /\ \A i \in 1..Len(table) : table'[i] = table[i]
          /\ table'[Len(table) + 1] = x
      BY <3>3, <1>2, <1>3, AppendProperties
    <3>5. DOMAIN table' = 1..Len(table')
      BY <3>4, LenProperties
    <3> QED
      BY <3>1, <3>2, <3>4, <3>5, <1>3
  <2> QED
    BY <2>1, <2>2
<1> DEFINE L == Len(table)
           M == Len(table')
<1>13. /\ L \in Nat /\ M \in Nat /\ 1 <= L /\ L <= M /\ M <= L + 1
       /\ M <= 1 + Cardinality(Clients) /\ Cardinality(Clients) \in Nat
       /\ Slot \in 1..M /\ (M = L + 1 => Slot = M)
       /\ DOMAIN table = 1..L /\ DOMAIN table' = 1..M
  BY <1>3, <1>4
<1>14. /\ index \in [Clients -> 0..L] /\ walk \in [Runnable -> 0..L]
  BY <1>12
<1> HIDE DEF L, M
<1>5. /\ \A d \in Clients : d # c => index'[d] = index[d] /\ start'[d] = start[d] /\ fired'[d] = fired[d]
      /\ index'[c] = Slot /\ start'[c] = ticks /\ fired'[c] = 0
  BY <1>1, <1>12
<1>6. TimerTypeOK'
  <2>1. index' \in [Clients -> 0..M] /\ walk' \in [Runnable -> 0..M]
    <3>1. 0..L \subseteq 0..M /\ Slot \in 0..M
      BY <1>13
    <3> QED
      BY <3>1, <1>1, <1>14
  <2>2. start' \in [Clients -> 0..MaxTicks] /\ fired' \in [Clients -> 0..MaxTicks]
    BY <1>1, <1>12
  <2>3. M \in 1..(1 + Cardinality(Clients))
    BY <1>13
  <2> QED
    BY <2>1, <2>2, <2>3, <1>1, <1>4, <1>12 DEF TimerTypeOK, M
<1>7. Served'
  <2> SUFFICES ASSUME NEW k \in DOMAIN table', table'[k].func \in Clients
               PROVE  index'[table'[k].func] = k /\ table'[k].mod = Period
    BY DEF Served
  <2>1. CASE k = Slot
    BY <2>1, <1>2, <1>4, <1>5
  <2>2. CASE k # Slot
    <3>1. k \in DOMAIN table /\ table'[k] = table[k]
      BY <2>2, <1>4
    <3>2. index[table[k].func] = k /\ table[k].mod = Period /\ k # 0
      BY <3>1, <1>3 DEF Served
    <3>3. table[k].func # c
      BY <3>2, <1>1
    <3> QED
      BY <3>1, <3>2, <3>3, <1>5
  <2> QED
    BY <2>1, <2>2
<1>8. InUse'
  BY <1>2, <1>4, TimerConstants DEF InUse
<1>9. ASSUME NEW i \in DOMAIN table'
      PROVE  /\ Cardinality(Owed(i)) \in Nat /\ Cardinality(Owed(i)) <= ticks
             /\ Cardinality(Owed(i)) <= Cardinality(Runnable) - 1
  <2>1. PICK k \in DOMAIN table : Owed(i) = Owed(k)
    <3>1. CASE i \in DOMAIN table
      BY <3>1
    <3>2. CASE i \notin DOMAIN table
      <4>1. i = L + 1
        BY <3>2, <1>13
      <4>2. L \in DOMAIN table /\ \A n \in 0..L : n \in 1..i <=> n \in 1..L
        BY <4>1, <1>13
      <4>3. Owed(i) = Owed(L)
        BY <4>2, <1>14 DEF Owed
      <4> QED
        BY <4>2, <4>3
    <3> QED
      BY <3>1, <3>2
  <2>2. Cardinality(Owed(k)) <= ticks
    BY DEF WalksCounted
  <2>3. Owed(i) \in SUBSET (Runnable \ {runs})
    BY <1>1, <1>12 DEF Owed
  <2>4. IsFiniteSet(Runnable \ {runs}) /\ Cardinality(Runnable \ {runs}) = Cardinality(Runnable) - 1
    BY <1>12, TimerConstants, FS_RemoveElement
  <2>5. Cardinality(Owed(i)) <= Cardinality(Runnable) - 1
    <3> HIDE DEF Owed
    <3>1. Cardinality(Owed(i)) <= Cardinality(Runnable \ {runs})
      BY <2>3, <2>4, FS_Subset
    <3> QED
      BY <3>1, <2>4
  <2> QED
    BY <2>1, <2>2, <2>5, OwedFinite
<1>10. WalksCounted'
  <2>1. \A i : Owed(i)' = Owed(i)
    BY <1>1 DEF Owed
  <2>2. \A i \in DOMAIN table' : Cardinality(Owed(i))' <= ticks'
    BY <2>1, <1>9, <1>1
  <2>3. ASSUME NEW d \in Clients
        PROVE  /\ start'[d] <= ticks' /\ fired'[d] <= ticks'
               /\ index'[d] # 0 => fired'[d] + Cardinality(Owed(index[d])') <= ticks'
    <3>1. Owed(index[d])' = Owed(index'[d])
      BY <1>1 DEF Owed
    <3>2. CASE d = c
      <4>1. Cardinality(Owed(Slot)) \in Nat /\ Cardinality(Owed(Slot)) <= ticks
        BY <1>4, <1>9
      <4> QED
        BY <3>1, <3>2, <4>1, <1>1, <1>12, <1>5
    <3>3. CASE d # c
      BY <3>1, <3>3, <1>1, <1>5 DEF WalksCounted
    <3> QED
      BY <3>2, <3>3
  <2> QED
    BY <2>2, <2>3 DEF WalksCounted
<1>11. ASSUME NEW d \in Clients, index'[d] # 0, ~Global
       PROVE  TicksSeen(d)' <= ticks' - start'[d] + Cardinality(Runnable) - 1
  <2>1. CASE d = c
    <3>1. /\ Cardinality(Owed(Slot)) \in Nat /\ Cardinality(Owed(Slot)) <= Cardinality(Runnable) - 1
      BY <1>4, <1>9
    <3>2. TicksSeen(d)' = fired'[d] * Period + table'[Slot].cur + Cardinality(Owed(Slot))
      BY <2>1, <1>1, <1>5 DEF TicksSeen, Owed
    <3>3. fired'[d] * Period = 0 /\ table'[Slot].cur = 0
      <4>1. fired'[d] = 0 /\ table'[Slot] = x
        BY <2>1, <1>4, <1>5
      <4> QED
        BY <4>1, <1>2, <1>12
    <3>4. TicksSeen(d)' = Cardinality(Owed(Slot))
      BY <3>1, <3>2, <3>3
    <3> QED
      <4>1. start'[d] = ticks /\ ticks' = ticks /\ ticks \in Nat /\ Cardinality(Runnable) \in Nat
        BY <2>1, <1>1, <1>5, <1>12, TimerConstants
      <4> QED
        BY <3>1, <3>4, <4>1
  <2>2. CASE d # c
    <3>1. index[d] \in DOMAIN table /\ index'[d] = index[d] /\ index[d] \in DOMAIN table'
      <4>1. index'[d] = index[d] /\ index[d] \in 0..L /\ index[d] # 0
        BY <2>2, <1>14, <1>5, <1>11
      <4> QED
        BY <4>1, <1>13
    <3>2. table'[index[d]].cur \in Nat /\ table'[index[d]].cur <= table[index[d]].cur
      <4>1. table[index[d]].cur \in Nat
        BY <3>1, <1>3, TableFacts
      <4>2. table'[index[d]] = table[index[d]] \/ table'[index[d]] = x
        BY <3>1, <1>4
      <4> QED
        BY <4>1, <4>2, <1>2
    <3> QED
      BY <3>1, <3>2, <2>2, <1>1, <1>5, <1>11, SeenQuietly
  <2> QED
    BY <2>1, <2>2
<1> QED
  BY <1>6, <1>7, <1>8, <1>10, <1>11 DEF TicksCountedOnce

\* A client removes its trigger, and whatever else has come into its slot.
LEMMA RemoveStep ==
  ASSUME TimerOK, TimerInv, NEW c \in Clients, RemoveTrigger(c) PROVE TimerInv'
<1> USE DEF TimerInv
<1> DEFINE x == [mod |-> 0, cur |-> 0, func |-> NoClient, active |-> FALSE, global |-> FALSE]
           i == index[c]
<1>1. /\ i # 0 /\ table' = [table EXCEPT ![i] = x] /\ index' = [index EXCEPT ![c] = 0]
      /\ ticks' = ticks /\ stopped' = stopped /\ runs' = runs /\ walk' = walk
      /\ start' = start /\ fired' = fired
  BY DEF RemoveTrigger
<1>2. x \in Trigger /\ x.cur = 0 /\ x.func \notin Clients /\ ~x.active /\ ~x.global
  BY TimerConstants DEF Trigger
<1> HIDE DEF x
<1>3. /\ DOMAIN table = 1..Len(table) /\ Len(table) \in Nat
      /\ table \in Seq(Trigger) /\ index \in [Clients -> 0..Len(table)]
      /\ i \in DOMAIN table
  BY <1>1, TableFacts DEF TimerTypeOK
<1>4. /\ table' \in Seq(Trigger) /\ Len(table') = Len(table) /\ DOMAIN table' = DOMAIN table
      /\ table'[i] = x
      /\ \A k \in DOMAIN table : k # i => table'[k] = table[k]
  BY <1>1, <1>2, <1>3, Replaced
<1>5. index'[c] = 0 /\ \A d \in Clients : d # c => index'[d] = index[d]
  BY <1>1, <1>3
<1>6. TimerTypeOK'
  <2>1. index' \in [Clients -> 0..Len(table')]
    BY <1>1, <1>3, <1>4
  <2> QED
    BY <2>1, <1>1, <1>4 DEF TimerTypeOK
<1>7. Served'
  <2> SUFFICES ASSUME NEW k \in DOMAIN table', table'[k].func \in Clients
               PROVE  index'[table'[k].func] = k /\ table'[k].mod = Period
    BY DEF Served
  <2>1. k # i /\ k \in DOMAIN table /\ table'[k] = table[k]
    BY <1>2, <1>4
  <2>2. index[table[k].func] = k /\ table[k].mod = Period
    BY <2>1 DEF Served
  <2>3. table[k].func # c
    BY <2>1, <2>2
  <2> QED
    BY <2>1, <2>2, <2>3, <1>5
<1>8. InUse'
  BY <1>2, <1>4 DEF InUse
<1>9. WalksCounted'
  <2>1. \A k : Owed(k)' = Owed(k)
    BY <1>1 DEF Owed
  <2>2. \A k \in DOMAIN table' : Cardinality(Owed(k))' <= ticks'
    BY <2>1, <1>1, <1>4 DEF WalksCounted
  <2>3. ASSUME NEW d \in Clients
        PROVE  /\ start'[d] <= ticks' /\ fired'[d] <= ticks'
               /\ index'[d] # 0 => fired'[d] + Cardinality(Owed(index[d])') <= ticks'
    <3>1. Owed(index[d])' = Owed(index'[d])
      BY <1>1 DEF Owed
    <3>2. index'[d] # 0 => d # c
      BY <1>5
    <3> QED
      BY <3>1, <3>2, <1>1, <1>5 DEF WalksCounted
  <2> QED
    BY <2>2, <2>3 DEF WalksCounted
<1>10. ASSUME NEW d \in Clients, index'[d] # 0, ~Global
       PROVE  TicksSeen(d)' <= ticks' - start'[d] + Cardinality(Runnable) - 1
  <2>1. d # c /\ index[d] \in DOMAIN table /\ index'[d] = index[d]
    BY <1>3, <1>5, <1>10
  <2>2. table'[index[d]].cur \in Nat /\ table'[index[d]].cur <= table[index[d]].cur
    BY <2>1, <1>2, <1>4, TableFacts
  <2> QED
    BY <2>1, <2>2, <1>1, <1>10, SeenQuietly
<1> QED
  BY <1>6, <1>7, <1>8, <1>9, <1>10 DEF TicksCountedOnce

\* Every step keeps the invariant.
LEMMA TimerSteps ==
  ASSUME TimerOK, TimerInv, [TimerNext]_timerVars PROVE TimerInv'
<1>1. ASSUME NEW c \in Clients, InsertTrigger(c) PROVE TimerInv'
  BY <1>1, InsertStep
<1>2. ASSUME NEW c \in Clients, RemoveTrigger(c) PROVE TimerInv'
  BY <1>2, RemoveStep
<1>3. CASE StopScheduler
  BY <1>3, SchedulerStep DEF StopScheduler, TimerInv, TimerTypeOK
<1>4. CASE StartScheduler
  BY <1>4, SchedulerStep DEF StartScheduler, TimerInv, TimerTypeOK
<1>5. CASE OnIrq0
  BY <1>5, TickStep
<1>6. CASE WalkOn
  <2>1. Here # 0 /\ TimerTypeOK /\ runs' = runs /\ runs \in Runnable
    BY <1>6 DEF WalkOn, TimerInv, TimerTypeOK
  <2>2. Counts(table')
    <3>1. CASE trigger.active
      BY <3>1, <2>1, <1>6, CountedCounts DEF WalkOn
    <3>2. CASE ~trigger.active
      BY <3>2, <2>1, <1>6, CountsNone DEF WalkOn
    <3> QED
      BY <3>1, <3>2
  <2>3. \/ fired' = fired
        \/ /\ Due /\ trigger.func \in Clients /\ (~trigger.global => table'[Here].cur = 0)
           /\ fired' = [fired EXCEPT ![trigger.func] = @ + 1]
    <3>1. CASE Due /\ trigger.func \in Clients
      <4>1. table' = Counted /\ fired' = [fired EXCEPT ![trigger.func] = @ + 1]
        BY <3>1, <1>6 DEF WalkOn, Due
      <4>2. ~trigger.global => table'[Here].cur = 0
        BY <4>1, <3>1, <2>1, CountedCounts DEF Due
      <4> QED
        BY <3>1, <4>1, <4>2
    <3>2. CASE ~(Due /\ trigger.func \in Clients)
      BY <3>2, <1>6 DEF WalkOn
    <3> QED
      BY <3>1, <3>2
  <2> QED
    BY <2>1, <2>2, <2>3, <1>6, WalkStep DEF WalkOn
<1>7. CASE Preempt
  <2>1. Here # 0 /\ TimerTypeOK /\ runs \in Runnable /\ runs' \in Runnable
    BY <1>7 DEF Preempt, TimerInv, TimerTypeOK
  <2>2. Counts(Counted) /\ Counts([Counted EXCEPT ![schedulerIndex].cur = 0])
    BY <2>1, CountedCounts, CountsReset
  <2> QED
    BY <2>1, <2>2, <1>7, WalkStep DEF Preempt
<1>8. CASE KilledInTick
  <2>1. Here # 0 /\ TimerTypeOK /\ runs' \in Runnable
    BY <1>8 DEF KilledInTick, TimerInv
  <2>2. Counts(Counted)
    BY <2>1, CountedCounts
  <2> QED
    BY <2>1, <2>2, <1>8, WalkStep DEF KilledInTick
<1>9. CASE Yield
  BY <1>9, SchedulerStep DEF Yield, TimerInv, TimerTypeOK
<1>10. CASE UNCHANGED timerVars
  BY <1>10 DEF timerVars, TimerInv, TimerTypeOK, Served, InUse, WalksCounted, TicksCountedOnce,
               TicksSeen, Owed
<1> QED
  BY <1>1, <1>2, <1>3, <1>4, <1>5, <1>6, <1>7, <1>8, <1>9, <1>10 DEF TimerNext

\* The timer's state has its types: never more triggers than clients and the
\* scheduler, no index or walk beyond the table, no client called more often
\* than there were ticks (timer.c).
THEOREM TriggersTyped == ASSUME TimerOK PROVE TimerSpec => []TimerTypeOK
<1>1. TimerInv => TimerTypeOK
  BY DEF TimerInv
<1> QED
  BY <1>1, TimerStart, TimerSteps, PTL DEF TimerSpec

\* However many tasks suspend their walks of the table and whatever clients come
\* and go, no tick is counted twice (timer.c:122-136).
THEOREM TicksAreCountedOnce == ASSUME TimerOK PROVE TimerSpec => []TicksCountedOnce
<1>1. TimerInv => TicksCountedOnce
  BY DEF TimerInv
<1> QED
  BY <1>1, TimerStart, TimerSteps, PTL DEF TimerSpec
-----------------------------------------------------------------------------
(* The ring of the keyboard.                                                *)

\* What KeyboardOK says.
LEMMA KeyboardConstants ==
  ASSUME KeyboardOK
  PROVE  /\ N \in Nat \ {0}
         /\ Readers \subseteq Tasks
         /\ Waiting \subseteq Tasks
         /\ Readers \cap Waiting = {}
         /\ Waiting # Tasks
         /\ NewLine \in Chars
         /\ Size \in Nat \ {0, 1}
BY DEF KeyboardOK, Tasks

\* Only readers are in a system call of the keyboard, only the current task is
\* between two of its steps there, and it has the oldest character while it takes it out.
InCall ==
  \A t \in Tasks : pc[t] \notin {"user", "gone"} =>
    /\ t \in Readers
    /\ pc[t] # "try" => t = current

Taking == pc[current] = "copied" => ~Empty /\ char[current] = ring[kbdTail]

KeyboardInv == KeyboardTypeOK /\ InCall /\ Taking

\* Distances are naturals.
LEMMA DistanceRange ==
  ASSUME KeyboardOK, NEW t \in Tasks, current \in Tasks
  PROVE  Distance(t) \in Nat
<1>1. N \in Nat \ {0}
  BY KeyboardConstants
<1>2. t \in Int /\ current \in Int
  BY <1>1 DEF Tasks
<1>3. t - current - 1 \in Int
  BY <1>2
<1>4. (t - current - 1) % N \in 0..(N - 1)
  BY <1>1, <1>3, ModRange
<1> QED
  BY <1>1, <1>4 DEF Distance

\* The search finds a task.
LEMMA NearestIn ==
  ASSUME KeyboardOK, current \in Tasks, NEW S \in SUBSET Tasks, S # {}
  PROVE  Nearest(S) \in S
<1> DEFINE D == {Distance(t) : t \in S}
<1>1. D \in SUBSET Nat
  BY DistanceRange
<1>2. D # {}
  OBVIOUS
<1> HIDE DEF D
<1>3. \E n \in D : \A m \in D : n <= m
  BY <1>1, <1>2, LeastNat, Zenon
<1>4. \E t \in S : \A u \in S : Distance(t) <= Distance(u)
  BY <1>3 DEF D
<1> QED
  BY <1>4, Zenon DEF Nearest

\* What task->state may be.
States == {"READY", "RUNNING", "BLOCKED", "BLOCKED_WAIT"}

\* Whatever task_yield chooses is a task in one of the states.
LEMMA ReschedType ==
  ASSUME KeyboardOK, current \in Tasks, NEW st \in [Tasks -> States], Resched(st)
  PROVE  current' \in Tasks /\ state' \in [Tasks -> States]
<1> DEFINE ready == {t \in Alive \ {current} : st[t] = "READY"}
<1>1. CASE ready = {}
  <2>1. UNCHANGED current /\ state' = [st EXCEPT ![current] = IF @ = "READY" THEN "RUNNING" ELSE @]
    BY <1>1 DEF Resched
  <2>2. st[current] \in States
    OBVIOUS
  <2> QED
    BY <2>1, <2>2 DEF States
<1>2. CASE ready # {}
  <2>1. ready \in SUBSET Tasks
    BY DEF Alive
  <2> HIDE DEF ready
  <2>2. Nearest(ready) \in Tasks
    BY <1>2, <2>1, NearestIn
  <2>3. /\ current' = Nearest(ready)
        /\ state' = [st EXCEPT ![current] = IF @ = "RUNNING" THEN "READY" ELSE @,
                                ![Nearest(ready)] = "RUNNING"]
    BY <1>2 DEF Resched, ready
  <2>4. st[current] \in States
    OBVIOUS
  <2> QED
    BY <2>2, <2>3, <2>4 DEF States
<1> QED
  BY <1>1, <1>2

\* The invariant holds at first.
LEMMA KeyboardStart ==
  ASSUME KeyboardOK, KeyboardInit
  PROVE  KeyboardInv
<1> USE KeyboardConstants
<1>1. KeyboardTypeOK
  <2>1. {kbdHead, kbdTail} \subseteq 0..(Size - 1)
    BY DEF KeyboardInit
  <2>2. ring \in [0..(Size - 1) -> Chars]
    BY DEF KeyboardInit
  <2>3. waiter \in Tasks \cup {NoTask} /\ current \in Tasks
    BY DEF KeyboardInit
  <2>4. state \in [Tasks -> {"READY", "RUNNING", "BLOCKED", "BLOCKED_WAIT"}]
    BY DEF KeyboardInit
  <2>5. /\ pc \in [Tasks -> Control] /\ char \in [Tasks -> Chars]
        /\ keyed \in [char : Chars, odd : BOOLEAN]
    BY DEF KeyboardInit, Control
  <2> QED
    BY <2>1, <2>2, <2>3, <2>4, <2>5 DEF KeyboardTypeOK
<1>2. \A t \in Tasks : pc[t] = "user"
  BY DEF KeyboardInit
<1>3. current \in Tasks
  BY DEF KeyboardInit
<1> QED
  BY <1>1, <1>2, <1>3 DEF KeyboardInv, InCall, Taking

\* Every step keeps the invariant.
LEMMA KeyboardSteps ==
  ASSUME KeyboardOK, KeyboardInv, [KeyboardNext]_keyboardVars
  PROVE  KeyboardInv'
<1> USE KeyboardConstants
<1>1. {kbdHead, kbdTail} \subseteq 0..(Size - 1) /\ ring \in [0..(Size - 1) -> Chars]
  BY DEF KeyboardInv, KeyboardTypeOK
<1>2. waiter \in Tasks \cup {NoTask} /\ current \in Tasks
  BY DEF KeyboardInv, KeyboardTypeOK
<1>3. state \in [Tasks -> States]
  BY DEF KeyboardInv, KeyboardTypeOK, States
<1>4. pc \in [Tasks -> Control] /\ char \in [Tasks -> Chars] /\ keyed \in [char : Chars, odd : BOOLEAN]
  BY DEF KeyboardInv, KeyboardTypeOK
<1>5. InCall /\ Taking
  BY DEF KeyboardInv
<1> HIDE DEF KeyboardInv
<1> DEFINE Typed == /\ ({kbdHead, kbdTail} \subseteq 0..(Size - 1))'
                    /\ (ring \in [0..(Size - 1) -> Chars])'
                    /\ (waiter \in Tasks \cup {NoTask})'
                    /\ (current \in Tasks)'
                    /\ (state \in [Tasks -> States])'
                    /\ (pc \in [Tasks -> Control])'
                    /\ (char \in [Tasks -> Chars])'
                    /\ (keyed \in [char : Chars, odd : BOOLEAN])'
<1>6. SUFFICES Typed /\ InCall' /\ Taking'
  BY DEF KeyboardInv, KeyboardTypeOK, States
<1>7. CASE Tick
  <2>1. Resched(state) /\ UNCHANGED <<kbdHead, kbdTail, ring, waiter, pc, char, keyed>>
    BY <1>7 DEF Tick
  <2>2. current' \in Tasks /\ state' \in [Tasks -> States]
    BY <1>2, <1>3, <2>1, ReschedType
  <2>3. pc[current] = "user"
    BY <1>7 DEF Tick
  <2>4. \A t \in Tasks : pc[t] \in {"user", "gone", "try"}
    BY <1>5, <2>3 DEF InCall
  <2> QED
    BY <1>1, <1>2, <1>4, <1>5, <2>1, <2>2, <2>4 DEF InCall, Taking
<1>8. CASE Exit
  <2>1. /\ pc[current] = "user"
        /\ current' = Nearest(Alive \ {current})
        /\ state' = [state EXCEPT ![current'] = "RUNNING"]
        /\ pc' = [pc EXCEPT ![current] = "gone"]
        /\ UNCHANGED <<kbdHead, kbdTail, ring, waiter, char, keyed>>
    BY <1>8 DEF Exit
  <2>2. Alive \ {current} \in SUBSET Tasks /\ Alive \ {current} # {}
    BY <1>2, <1>8, <2>1 DEF Exit, Alive
  <2>3. current' \in Tasks
    BY <1>2, <2>1, <2>2, NearestIn
  <2>4. \A t \in Tasks : pc[t] \in {"user", "gone", "try"}
    BY <1>5, <2>1 DEF InCall
  <2>5. pc' \in [Tasks -> Control]
    BY <1>4, <2>1 DEF Control
  <2>6. \A t \in Tasks : pc'[t] \in {"user", "gone", "try"} /\ (pc'[t] = "try" => pc[t] = "try")
    BY <1>4, <2>1, <2>4
  <2>7. state' \in [Tasks -> States]
    BY <1>3, <2>1, <2>3 DEF States
  <2>8. Typed
    BY <1>1, <1>2, <1>4, <2>1, <2>3, <2>5, <2>7
  <2> QED
    BY <1>5, <2>3, <2>6, <2>8 DEF InCall, Taking
<1>9. CASE Fork
  <2>1. PICK child \in Tasks \ Alive :
          /\ pc' = [pc EXCEPT ![child] = "user"]
          /\ state' = [state EXCEPT ![child] = "READY"]
    BY <1>9 DEF Fork
  <2>2. UNCHANGED <<kbdHead, kbdTail, ring, waiter, current, char, keyed>>
    BY <1>9 DEF Fork
  <2>3. pc' \in [Tasks -> Control] /\ state' \in [Tasks -> States]
    BY <1>3, <1>4, <2>1 DEF Control, States
  <2>4. \A t \in Tasks : pc'[t] = "user" \/ pc'[t] = pc[t]
    BY <1>4, <2>1
  <2>5. Typed
    BY <1>1, <1>2, <1>4, <2>2, <2>3
  <2> QED
    BY <1>2, <1>5, <2>2, <2>4, <2>5 DEF InCall, Taking, Empty
<1>10. CASE ReadCall
  <2>1. /\ current \in Readers
        /\ pc[current] = "user"
        /\ pc' = [pc EXCEPT ![current] = "try"]
        /\ UNCHANGED <<kbdHead, kbdTail, ring, waiter, state, current, char, keyed>>
    BY <1>10 DEF ReadCall, At, Goto
  <2>2. pc' \in [Tasks -> Control] /\ pc'[current] = "try"
    BY <1>2, <1>4, <2>1 DEF Control
  <2>3. \A t \in Tasks \ {current} : pc'[t] = pc[t]
    BY <1>4, <2>1
  <2>4. Typed
    BY <1>1, <1>2, <1>3, <1>4, <2>1, <2>2
  <2> QED
    BY <1>2, <1>5, <2>1, <2>2, <2>3, <2>4 DEF InCall, Taking
<1>11. CASE TryPop
  <2>1. /\ current \in Readers
        /\ UNCHANGED <<kbdHead, kbdTail, ring, waiter, state, current, keyed>>
    BY <1>11 DEF TryPop, At
  <2>2. PICK w \in {"arm", "copied"} :
          /\ pc' = [pc EXCEPT ![current] = w]
          /\ w = "copied" => ~Empty /\ char' = [char EXCEPT ![current] = ring[kbdTail]]
    BY <1>11 DEF TryPop, Goto
  <2>3. pc' \in [Tasks -> Control] /\ pc'[current] = w
    BY <1>2, <1>4, <2>2 DEF Control
  <2>4. \A t \in Tasks \ {current} : pc'[t] = pc[t]
    BY <1>4, <2>2
  <2>5. ring[kbdTail] \in Chars
    BY <1>1
  <2>6. char' \in [Tasks -> Chars]
    BY <1>4, <1>11, <2>5 DEF TryPop
  <2>7. Typed
    BY <1>1, <1>2, <1>3, <1>4, <2>1, <2>3, <2>6
  <2>8. Taking'
    BY <1>2, <1>4, <2>1, <2>2, <2>3 DEF Taking, Empty
  <2> QED
    BY <1>2, <1>5, <2>1, <2>2, <2>3, <2>4, <2>7, <2>8 DEF InCall
<1>12. CASE Pop
  <2>1. /\ current \in Readers
        /\ kbdTail' = (kbdTail + 1) % Size
        /\ UNCHANGED <<kbdHead, ring, waiter, state, current, char, keyed>>
    BY <1>12 DEF Pop, At, NextTail
  <2>2. PICK w \in {"user", "try"} : pc' = [pc EXCEPT ![current] = w]
    BY <1>12 DEF Pop, Goto
  <2>3. pc' \in [Tasks -> Control] /\ pc'[current] = w
    BY <1>2, <1>4, <2>2 DEF Control
  <2>4. \A t \in Tasks \ {current} : pc'[t] = pc[t]
    BY <1>4, <2>2
  <2>5. kbdTail + 1 \in Int
    BY <1>1
  <2>6. kbdTail' \in 0..(Size - 1)
    BY <2>1, <2>5, ModRange
  <2>7. Typed
    BY <1>1, <1>2, <1>3, <1>4, <2>1, <2>3, <2>6
  <2> QED
    BY <1>2, <1>5, <2>1, <2>2, <2>3, <2>4, <2>7 DEF InCall, Taking
<1>13. CASE Arm
  <2>1. /\ current \in Readers
        /\ waiter' = current
        /\ pc' = [pc EXCEPT ![current] = "block"]
        /\ UNCHANGED <<kbdHead, kbdTail, ring, state, current, char, keyed>>
    BY <1>13 DEF Arm, At, Goto
  <2>2. pc' \in [Tasks -> Control] /\ pc'[current] = "block"
    BY <1>2, <1>4, <2>1 DEF Control
  <2>3. \A t \in Tasks \ {current} : pc'[t] = pc[t]
    BY <1>4, <2>1
  <2>4. Typed
    BY <1>1, <1>2, <1>3, <1>4, <2>1, <2>2
  <2> QED
    BY <1>2, <1>5, <2>1, <2>2, <2>3, <2>4 DEF InCall, Taking
<1>14. CASE Block
  <2>1. /\ current \in Readers
        /\ state' = [state EXCEPT ![current] = "BLOCKED"]
        /\ pc' = [pc EXCEPT ![current] = "yield"]
        /\ UNCHANGED <<kbdHead, kbdTail, ring, waiter, current, char, keyed>>
    BY <1>14 DEF Block, At, Goto
  <2>2. pc' \in [Tasks -> Control] /\ pc'[current] = "yield"
    BY <1>2, <1>4, <2>1 DEF Control
  <2>3. \A t \in Tasks \ {current} : pc'[t] = pc[t]
    BY <1>4, <2>1
  <2>4. state' \in [Tasks -> States]
    BY <1>3, <2>1 DEF States
  <2>5. Typed
    BY <1>1, <1>2, <1>4, <2>1, <2>2, <2>4
  <2> QED
    BY <1>2, <1>5, <2>1, <2>2, <2>3, <2>5 DEF InCall, Taking
<1>15. CASE YieldRead
  <2>1. /\ current \in Readers
        /\ pc[current] = "yield"
        /\ Resched(state)
        /\ pc' = [pc EXCEPT ![current] = "try"]
        /\ UNCHANGED <<kbdHead, kbdTail, ring, waiter, char, keyed>>
    BY <1>15 DEF YieldRead, At, Goto
  <2>2. current' \in Tasks /\ state' \in [Tasks -> States]
    BY <1>2, <1>3, <2>1, ReschedType
  <2>3. pc' \in [Tasks -> Control] /\ pc'[current] = "try"
    BY <1>2, <1>4, <2>1 DEF Control
  <2>4. \A t \in Tasks \ {current} : pc'[t] = pc[t] /\ pc[t] \in {"user", "gone", "try"}
    BY <1>4, <1>5, <2>1 DEF InCall
  <2>5. Typed
    BY <1>1, <1>2, <1>4, <2>1, <2>2, <2>3
  <2>6. \A t \in Tasks : pc'[t] \in {"user", "gone", "try"} /\ (pc'[t] = "try" => t \in Readers)
    BY <1>5, <2>1, <2>3, <2>4 DEF InCall
  <2> QED
    BY <2>2, <2>5, <2>6 DEF InCall, Taking
<1>16. CASE WaitAgain
  <2> DEFINE st == [state EXCEPT ![current] = "BLOCKED_WAIT"]
  <2>1. current \in Waiting /\ UNCHANGED <<kbdHead, kbdTail, ring, waiter, pc, char, keyed>>
    BY <1>16 DEF WaitAgain
  <2>2. Resched(st)
    BY <1>16 DEF WaitAgain
  <2>3. st \in [Tasks -> States]
    BY <1>3 DEF States
  <2> HIDE DEF st
  <2>4. current' \in Tasks /\ state' \in [Tasks -> States]
    BY <1>2, <2>2, <2>3, ReschedType
  <2>5. pc[current] \in {"user", "gone"}
    BY <1>2, <1>5, <2>1 DEF InCall
  <2>6. \A t \in Tasks : pc[t] \in {"user", "gone", "try"}
    BY <1>5, <2>5 DEF InCall
  <2>7. Typed
    BY <1>1, <1>2, <1>4, <2>1, <2>4
  <2> QED
    BY <1>5, <2>1, <2>4, <2>6, <2>7 DEF InCall, Taking
<1>17. ASSUME NEW c \in Chars, KeyIrq(c) PROVE Typed /\ InCall' /\ Taking'
  <2>1. /\ state' = Woken
        /\ waiter' = NoTask
        /\ keyed' = [char |-> c, odd |-> ~keyed.odd]
        /\ UNCHANGED <<kbdTail, current, pc, char>>
    BY <1>17 DEF KeyIrq
  <2>2. Woken \in [Tasks -> States]
    BY <1>3 DEF Woken, States
  <2>3. kbdHead + 1 \in Int
    BY <1>1
  <2>4. (kbdHead + 1) % Size \in 0..(Size - 1)
    BY <2>3, ModRange
  <2>5. (kbdHead' = kbdHead /\ ring' = ring)
        \/ (/\ (kbdHead + 1) % Size # kbdTail
            /\ kbdHead' = (kbdHead + 1) % Size
            /\ ring' = [ring EXCEPT ![kbdHead] = c])
    BY <1>17 DEF KeyIrq, Full
  <2>6. kbdHead' \in 0..(Size - 1) /\ ring' \in [0..(Size - 1) -> Chars]
    BY <1>1, <2>4, <2>5
  <2>7. Typed
    BY <1>1, <1>2, <1>4, <2>1, <2>2, <2>6
  <2>8. ~Empty => ~Empty' /\ ring'[kbdTail'] = ring[kbdTail]
    BY <1>1, <2>1, <2>5 DEF Empty
  <2> QED
    BY <1>5, <2>1, <2>7, <2>8 DEF InCall, Taking
<1>18. CASE UNCHANGED keyboardVars
  BY <1>1, <1>2, <1>3, <1>4, <1>5, <1>18 DEF keyboardVars, InCall, Taking, Empty
<1> QED
  BY <1>7, <1>8, <1>9, <1>10, <1>11, <1>12, <1>13, <1>14, <1>15, <1>16, <1>17, <1>18
     DEF KeyboardNext, ReadStep

\* The values of the keyboard's variables have their types.
THEOREM KeyboardTyped == ASSUME KeyboardOK PROVE KeyboardSpec => []KeyboardTypeOK
<1>1. KeyboardInit => KeyboardInv
  BY KeyboardStart
<1>2. KeyboardInv /\ [KeyboardNext]_keyboardVars => KeyboardInv'
  BY KeyboardSteps
<1>3. KeyboardInv => KeyboardTypeOK
  BY DEF KeyboardInv
<1> QED
  BY <1>1, <1>2, <1>3, PTL DEF KeyboardSpec

\* The cell of the i-th of the characters that wait behind the tail.
Cell(tail, i) == (tail + i - 1) % Size

\* A function on 1..n is a sequence of that length.
LEMMA IsSequence ==
  ASSUME NEW S, NEW n \in Nat, NEW s \in [1..n -> S]
  PROVE  s \in Seq(S) /\ Len(s) = n
OBVIOUS

\* A sequence is the function of its elements.
LEMMA SequenceIs ==
  \A S : \A s \in Seq(S) : s = [i \in 1..Len(s) |-> s[i]]
OBVIOUS

\* How many characters wait, without the remainder.
LEMMA HeldIs ==
  ASSUME KeyboardOK, {kbdHead, kbdTail} \subseteq 0..(Size - 1)
  PROVE  Held = IF kbdHead >= kbdTail THEN kbdHead - kbdTail ELSE kbdHead - kbdTail + Size
<1>1. Size \in Nat \ {0} /\ kbdHead \in 0..(Size - 1) /\ kbdTail \in 0..(Size - 1)
  BY KeyboardConstants
<1>2. CASE kbdHead >= kbdTail
  BY <1>1, <1>2, ModBelow DEF Held
<1>3. CASE kbdHead < kbdTail
  BY <1>1, <1>3, ModUnder DEF Held
<1> QED
  BY <1>1, <1>2, <1>3

\* Where the i-th of them is, without the remainder.
LEMMA CellIs ==
  ASSUME KeyboardOK, NEW tail \in 0..(Size - 1), NEW i \in 1..Size
  PROVE  /\ Cell(tail, i) = IF tail + i <= Size THEN tail + i - 1 ELSE tail + i - 1 - Size
         /\ Cell(tail, i) \in 0..(Size - 1)
<1>1. Size \in Nat \ {0} /\ tail \in Int /\ i \in Int
  BY KeyboardConstants
<1>2. CASE tail + i <= Size
  BY <1>1, <1>2, ModBelow DEF Cell
<1>3. CASE tail + i > Size
  <2> DEFINE x == tail + i - 1
  <2>1. x \in Int /\ Size <= x /\ x < Size + Size
    BY <1>1, <1>3
  <2>2. Cell(tail, i) = x % Size
    BY DEF Cell
  <2>3. x = tail + i - 1
    OBVIOUS
  <2> HIDE DEF x
  <2>4. x % Size = x - Size
    BY <1>1, <2>1, ModAbove
  <2> QED
    BY <1>1, <1>3, <2>1, <2>2, <2>3, <2>4
<1> QED
  BY <1>1, <1>2, <1>3

\* The index after another.
LEMMA NextIs ==
  ASSUME KeyboardOK, NEW p \in 0..(Size - 1)
  PROVE  (p + 1) % Size = IF p = Size - 1 THEN 0 ELSE p + 1
<1>1. Size \in Nat \ {0} /\ p \in Int
  BY KeyboardConstants
<1>2. CASE p = Size - 1
  BY <1>1, <1>2, ModAbove
<1>3. CASE p < Size - 1
  BY <1>1, <1>3, ModBelow
<1> QED
  BY <1>1, <1>2, <1>3

\* The contents by their cells, before and after a step.
LEMMA ContentsIs ==
  /\ Contents = [i \in 1..Held |-> ring[Cell(kbdTail, i)]]
  /\ Contents' = [i \in 1..Held' |-> ring'[Cell(kbdTail', i)]]
BY DEF Contents, Cell

\* The reader that has copied a character and not moved the tail.
Getting == {t \in Readers : pc[t] = "copied"}

\* What the queue's specification sees.
QueueVars == <<Contents, keyed, char, Getting>>

\* Nothing of it changes unless the indices, the ring, the keys or the readers do.
LEMMA QueueStays ==
  ASSUME UNCHANGED <<kbdHead, kbdTail, ring, keyed, char, Getting>>
  PROVE  UNCHANGED QueueVars
<1>1. Contents' = Contents
  BY DEF Contents, Held
<1> QED
  BY <1>1 DEF QueueVars

\* A key adds a character to the contents, unless the ring holds Size - 1.
LEMMA PressStep ==
  ASSUME KeyboardOK, KeyboardTypeOK, NEW c \in Chars, KeyIrq(c)
  PROVE  Queue!Press(c)
<1> USE KeyboardConstants
<1>1. Size \in Nat \ {0, 1} /\ kbdHead \in 0..(Size - 1) /\ kbdTail \in 0..(Size - 1)
  BY DEF KeyboardTypeOK
<1>2. ring \in [0..(Size - 1) -> Chars] /\ kbdTail' = kbdTail
  BY DEF KeyboardTypeOK, KeyIrq
<1>3. Held = IF kbdHead >= kbdTail THEN kbdHead - kbdTail ELSE kbdHead - kbdTail + Size
  BY HeldIs DEF KeyboardTypeOK
<1>4. Held \in 0..(Size - 1)
  BY <1>1, <1>3
<1>5. Contents \in Seq(Chars) /\ Len(Contents) = Held
  <2>1. \A i \in 1..Held : ring[Cell(kbdTail, i)] \in Chars
    <3>1. \A i \in 1..Held : i \in 1..Size
      BY <1>1, <1>4
    <3> QED
      BY <1>1, <1>2, <3>1, CellIs
  <2>2. Contents = [i \in 1..Held |-> ring[Cell(kbdTail, i)]] /\ Held \in Nat
    BY <1>4, ContentsIs
  <2>3. Contents \in [1..Held -> Chars]
    BY <2>1, <2>2
  <2> QED
    BY <2>2, <2>3, IsSequence
<1>6. /\ keyed' = [char |-> c, odd |-> ~keyed.odd]
      /\ char' = char /\ pc' = pc
  BY DEF KeyIrq
<1>7. SUFFICES Contents' = IF Len(Contents) < Size - 1 THEN Append(Contents, c) ELSE Contents
  BY <1>6 DEF Queue!Press
<1>8. CASE Full
  <2>1. kbdHead' = kbdHead /\ ring' = ring
    BY <1>8 DEF KeyIrq
  <2>2. Held' = Held
    BY <1>2, <2>1 DEF Held
  <2>3. Contents' = Contents
    BY <1>2, <2>1, <2>2, ContentsIs
  <2>4. (kbdHead + 1) % Size = kbdTail
    BY <1>8 DEF Full
  <2>5. kbdTail = IF kbdHead = Size - 1 THEN 0 ELSE kbdHead + 1
    BY <1>1, <2>4, NextIs
  <2>6. Held = Size - 1
    BY <1>1, <1>3, <2>5
  <2>7. ~(Len(Contents) < Size - 1)
    BY <1>1, <1>5, <2>6
  <2> QED
    BY <2>3, <2>7, Zenon
<1>9. CASE ~Full
  <2>1. kbdHead' = (kbdHead + 1) % Size /\ ring' = [ring EXCEPT ![kbdHead] = c]
    BY <1>9 DEF KeyIrq
  <2>2. kbdHead' = IF kbdHead = Size - 1 THEN 0 ELSE kbdHead + 1
    BY <1>1, <2>1, NextIs
  <2>3. kbdHead' # kbdTail
    BY <1>9, <2>1 DEF Full
  <2>4. kbdHead' \in 0..(Size - 1) /\ kbdTail' \in 0..(Size - 1)
    BY <1>1, <1>2, <2>2
  <2>5. Held' = (kbdHead' - kbdTail') % Size
    BY DEF Held
  <2>6. Held' = Held + 1
    <3>1. CASE kbdHead' >= kbdTail
      <4>1. (kbdHead' - kbdTail') % Size = kbdHead' - kbdTail
        BY <1>1, <1>2, <2>4, <3>1, ModBelow
      <4> QED
        BY <1>1, <1>3, <2>2, <2>3, <2>5, <3>1, <4>1
    <3>2. CASE kbdHead' < kbdTail
      <4>1. (kbdHead' - kbdTail') % Size = kbdHead' - kbdTail + Size
        BY <1>1, <1>2, <2>4, <3>2, ModUnder
      <4> QED
        BY <1>1, <1>3, <2>2, <2>3, <2>5, <3>2, <4>1
    <3> QED
      BY <1>1, <2>4, <3>1, <3>2
  <2>7. Held < Size - 1
    BY <1>1, <1>3, <2>2, <2>3
  <2>8. ASSUME NEW i \in 1..Held
        PROVE  /\ Cell(kbdTail, i) \in 0..(Size - 1)
               /\ Cell(kbdTail, i) # kbdHead
    <3>1. i \in 1..Size
      BY <1>1, <1>4
    <3> QED
      BY <1>1, <1>3, <3>1, CellIs
  <2>9. Cell(kbdTail, Held + 1) = kbdHead
    <3>1. Held + 1 \in 1..Size
      BY <1>1, <1>4
    <3>2. Cell(kbdTail, Held + 1) = IF kbdTail + (Held + 1) <= Size THEN kbdTail + (Held + 1) - 1
                                     ELSE kbdTail + (Held + 1) - 1 - Size
      BY <1>1, <3>1, CellIs
    <3> QED
      BY <1>1, <1>3, <3>1, <3>2
  <2>10. Contents' = [i \in 1..(Held + 1) |-> ring'[Cell(kbdTail, i)]]
    BY <1>2, <2>6, ContentsIs
  <2>11. Contents \in Seq(Chars) /\ Len(Contents) = Held
    BY <1>5
  <2>12. Append(Contents, c) = [i \in 1..(Held + 1) |-> IF i <= Held THEN Contents[i] ELSE c]
    <3>1. /\ Append(Contents, c) \in Seq(Chars)
          /\ Len(Append(Contents, c)) = Held + 1
          /\ \A i \in 1..Held : Append(Contents, c)[i] = Contents[i]
          /\ Append(Contents, c)[Held + 1] = c
      BY <2>11, AppendProperties
    <3>2. Append(Contents, c) = [i \in 1..(Held + 1) |-> Append(Contents, c)[i]]
      BY <3>1, SequenceIs, Zenon
    <3>3. \A i \in 1..(Held + 1) : Append(Contents, c)[i] = IF i <= Held THEN Contents[i] ELSE c
      BY <1>4, <3>1
    <3> QED
      BY <3>2, <3>3
  <2>13. \A i \in 1..Held : ring'[Cell(kbdTail, i)] = Contents[i]
    BY <1>2, <2>1, <2>8, ContentsIs
  <2>14. ring'[Cell(kbdTail, Held + 1)] = c
    BY <1>1, <1>2, <2>1, <2>9
  <2>15. ASSUME NEW i \in 1..(Held + 1)
         PROVE  ring'[Cell(kbdTail, i)] = IF i <= Held THEN Contents[i] ELSE c
    <3>1. i \in 1..Held \/ (i = Held + 1 /\ ~(i <= Held))
      BY <1>4
    <3>2. i \in 1..Held => i <= Held
      BY <1>4
    <3> QED
      BY <2>13, <2>14, <3>1, <3>2, Zenon
  <2>16. Contents' = Append(Contents, c)
    BY <2>10, <2>12, <2>15
  <2>17. Len(Contents) < Size - 1
    BY <1>5, <2>7
  <2> QED
    BY <2>16, <2>17, Zenon
<1> QED
  BY <1>8, <1>9

\* Where a character waits, kbd_try_pop copies the oldest.
LEMMA OldestIs ==
  ASSUME KeyboardOK, KeyboardTypeOK, ~Empty
  PROVE  Contents # <<>> /\ Head(Contents) = ring[kbdTail]
<1> USE KeyboardConstants
<1>1. Size \in Nat \ {0, 1} /\ kbdHead \in 0..(Size - 1) /\ kbdTail \in 0..(Size - 1)
  BY DEF KeyboardTypeOK
<1>2. Held = IF kbdHead >= kbdTail THEN kbdHead - kbdTail ELSE kbdHead - kbdTail + Size
  BY HeldIs DEF KeyboardTypeOK
<1>3. Held \in 1..(Size - 1)
  BY <1>1, <1>2 DEF Empty
<1>4. Contents = [i \in 1..Held |-> ring[Cell(kbdTail, i)]]
  BY ContentsIs
<1>5. Cell(kbdTail, 1) = kbdTail
  BY <1>1, CellIs
<1>6. Contents[1] = ring[kbdTail] /\ DOMAIN Contents = 1..Held
  BY <1>3, <1>4, <1>5
<1>7. Contents # <<>>
  BY <1>3, <1>6
<1> QED
  BY <1>6, <1>7

\* A reader gets the oldest character, while nobody takes one.
LEMMA GetStep ==
  ASSUME KeyboardOK, KeyboardTypeOK, InCall, TryPop, NEW r \in Readers, r = current
  PROVE  Queue!Get(r) \/ UNCHANGED QueueVars
<1> USE KeyboardConstants
<1>1. pc \in [Tasks -> Control] /\ current \in Tasks
  BY DEF KeyboardTypeOK
<1>2. /\ current \in Readers /\ pc[current] = "try"
      /\ UNCHANGED <<kbdHead, kbdTail, ring, waiter, state, current, keyed>>
  BY DEF TryPop, At
<1>3. Getting = {}
  BY <1>1, <1>2 DEF Getting, InCall
<1>4. CASE Empty
  <2>1. pc' = [pc EXCEPT ![current] = "arm"] /\ char' = char
    BY <1>4 DEF TryPop, Goto
  <2>2. Getting' = Getting
    BY <1>1, <1>2, <2>1 DEF Getting
  <2> QED
    BY <1>2, <2>1, <2>2, QueueStays
<1>5. CASE ~Empty
  <2>1. pc' = [pc EXCEPT ![current] = "copied"] /\ char' = [char EXCEPT ![current] = ring[kbdTail]]
    BY <1>5 DEF TryPop, Goto
  <2>2. Getting' = {current}
    BY <1>1, <1>2, <1>3, <2>1 DEF Getting
  <2>3. Contents # <<>> /\ Head(Contents) = ring[kbdTail]
    BY <1>5, OldestIs
  <2>4. Contents' = Contents
    BY <1>2 DEF Contents, Held
  <2> QED
    BY <1>2, <1>3, <2>1, <2>2, <2>3, <2>4 DEF Queue!Get, Getting
<1> QED
  BY <1>4, <1>5

\* Moving the tail takes the oldest character.
LEMMA PopStep ==
  ASSUME KeyboardOK, KeyboardTypeOK, InCall, Taking, Pop, NEW r \in Readers, r = current
  PROVE  Queue!Take(r)
<1> USE KeyboardConstants
<1>1. Size \in Nat \ {0, 1} /\ kbdHead \in 0..(Size - 1) /\ kbdTail \in 0..(Size - 1)
  BY DEF KeyboardTypeOK
<1>2. /\ ring \in [0..(Size - 1) -> Chars] /\ ring' = ring /\ kbdHead' = kbdHead
      /\ kbdTail' = (kbdTail + 1) % Size
      /\ kbdHead # kbdTail
  BY DEF KeyboardTypeOK, Pop, NextTail, At, Taking, Empty
<1>3. Held = IF kbdHead >= kbdTail THEN kbdHead - kbdTail ELSE kbdHead - kbdTail + Size
  BY HeldIs DEF KeyboardTypeOK
<1>4. Held \in 1..(Size - 1)
  BY <1>1, <1>2, <1>3
<1>5. kbdTail' = IF kbdTail = Size - 1 THEN 0 ELSE kbdTail + 1
  BY <1>1, <1>2, NextIs
<1>6. kbdTail' \in 0..(Size - 1)
  BY <1>1, <1>5
<1>7. Held' = (kbdHead - kbdTail') % Size
  BY <1>2 DEF Held
<1>8. Held' = Held - 1
  <2>1. CASE kbdHead >= kbdTail'
    <3>1. (kbdHead - kbdTail') % Size = kbdHead - kbdTail'
      BY <1>1, <1>6, <2>1, ModBelow
    <3> QED
      BY <1>1, <1>2, <1>3, <1>5, <1>7, <2>1, <3>1
  <2>2. CASE kbdHead < kbdTail'
    <3>1. (kbdHead - kbdTail') % Size = kbdHead - kbdTail' + Size
      BY <1>1, <1>6, <2>2, ModUnder
    <3> QED
      BY <1>1, <1>2, <1>3, <1>5, <1>7, <2>2, <3>1
  <2> QED
    BY <1>1, <1>6, <2>1, <2>2
<1>9. ASSUME NEW i \in 1..(Held - 1)
      PROVE  Cell(kbdTail', i) = Cell(kbdTail, i + 1)
  <2>1. i \in 1..Size /\ i + 1 \in 1..Size
    BY <1>1, <1>4
  <2>2. Cell(kbdTail', i) = IF kbdTail' + i <= Size THEN kbdTail' + i - 1 ELSE kbdTail' + i - 1 - Size
    BY <1>6, <2>1, CellIs
  <2>3. Cell(kbdTail, i + 1) = IF kbdTail + (i + 1) <= Size THEN kbdTail + (i + 1) - 1
                               ELSE kbdTail + (i + 1) - 1 - Size
    BY <1>1, <2>1, CellIs
  <2> QED
    BY <1>1, <1>5, <2>1, <2>2, <2>3
<1>10. Contents' = [i \in 1..(Held - 1) |-> ring[Cell(kbdTail', i)]]
  BY <1>2, <1>8, ContentsIs
<1>11. \A i \in 1..Held : ring[Cell(kbdTail, i)] \in Chars
  <2>1. \A i \in 1..Held : i \in 1..Size
    BY <1>1, <1>4
  <2> QED
    BY <1>1, <1>2, <2>1, CellIs
<1>12. Contents = [i \in 1..Held |-> ring[Cell(kbdTail, i)]]
  BY ContentsIs
<1>13. Contents \in Seq(Chars) /\ Len(Contents) = Held
  <2>1. Held \in Nat
    BY <1>4
  <2>2. Contents \in [1..Held -> Chars]
    BY <1>11, <1>12
  <2> QED
    BY <2>1, <2>2, IsSequence
<1>14. Contents # <<>>
  BY <1>4, <1>13
<1>15. Tail(Contents) = [i \in 1..(Held - 1) |-> Contents[i + 1]]
  <2>1. /\ Tail(Contents) \in Seq(Chars)
        /\ Len(Tail(Contents)) = Len(Contents) - 1
        /\ \A i \in 1..Len(Tail(Contents)) : Tail(Contents)[i] = Contents[i + 1]
    BY <1>13, <1>14, HeadTailProperties
  <2>2. Tail(Contents) = [i \in 1..Len(Tail(Contents)) |-> Tail(Contents)[i]]
    BY <2>1, SequenceIs, Zenon
  <2> QED
    BY <1>13, <2>1, <2>2
<1>16. \A i \in 1..(Held - 1) : ring[Cell(kbdTail', i)] = Contents[i + 1]
  <2>1. \A i \in 1..(Held - 1) : i + 1 \in 1..Held
    BY <1>4
  <2> QED
    BY <1>9, <1>12, <2>1
<1>17. Contents' = Tail(Contents)
  BY <1>10, <1>15, <1>16
<1>18. /\ current \in Readers /\ pc[current] = "copied" /\ ~Empty
       /\ char[current] = ring[kbdTail]
       /\ UNCHANGED <<char, keyed>>
  BY DEF Pop, At, Taking
<1>19. pc \in [Tasks -> Control] /\ current \in Tasks
  BY DEF KeyboardTypeOK
<1>20. PICK w \in {"user", "try"} : pc' = [pc EXCEPT ![current] = w]
  BY DEF Pop, Goto
<1>21. Getting = {current} /\ Getting' = {}
  <2>1. \A t \in Readers : pc[t] = "copied" => t = current
    BY DEF InCall
  <2> QED
    BY <1>18, <1>19, <1>20, <2>1 DEF Getting
<1>22. char[current] = Head(Contents)
  BY <1>18, OldestIs
<1> QED
  BY <1>14, <1>17, <1>18, <1>21, <1>22 DEF Queue!Take, Getting

\* Every step is one of the queue, or none.
LEMMA QueueSteps ==
  ASSUME KeyboardOK, KeyboardInv, [KeyboardNext]_keyboardVars
  PROVE  Queue!Next \/ UNCHANGED QueueVars
<1> USE KeyboardConstants
<1>1. KeyboardTypeOK /\ InCall /\ Taking
  BY DEF KeyboardInv
<1>2. ASSUME NEW c \in Chars, KeyIrq(c) PROVE Queue!Next
  BY <1>1, <1>2, PressStep DEF Queue!Next
<1>3. CASE Pop
  <2>1. PICK r \in Readers : r = current
    BY <1>3 DEF Pop, At
  <2>2. Queue!Take(r)
    BY <1>1, <1>3, <2>1, PopStep
  <2> QED
    BY <2>2 DEF Queue!Next
<1>4. CASE TryPop
  <2>1. PICK r \in Readers : r = current
    BY <1>4 DEF TryPop, At
  <2>2. Queue!Get(r) \/ UNCHANGED QueueVars
    BY <1>1, <1>4, <2>1, GetStep
  <2> QED
    BY <2>2 DEF Queue!Next
<1>5. pc \in [Tasks -> Control] /\ current \in Tasks
  BY <1>1 DEF KeyboardTypeOK
<1>6. CASE Tick \/ WaitAgain \/ UNCHANGED keyboardVars
  <2>1. UNCHANGED <<kbdHead, kbdTail, ring, pc, char, keyed>>
    BY <1>6 DEF Tick, WaitAgain, keyboardVars
  <2> QED
    BY <2>1, QueueStays DEF Getting
<1>7. CASE Fork
  <2>1. PICK child \in Tasks \ Alive : pc' = [pc EXCEPT ![child] = "user"]
    BY <1>7 DEF Fork
  <2>2. pc[child] = "gone"
    BY <2>1 DEF Alive
  <2>3. Getting' = Getting
    BY <1>5, <2>1, <2>2 DEF Getting
  <2> QED
    BY <1>7, <2>3, QueueStays DEF Fork
<1>8. CASE Exit \/ ReadCall \/ Arm \/ Block \/ YieldRead
  <2>1. PICK w \in {"gone", "try", "block", "yield"} :
          pc' = [pc EXCEPT ![current] = w] /\ pc[current] # "copied"
    BY <1>8 DEF Exit, ReadCall, Arm, Block, YieldRead, At, Goto
  <2>2. UNCHANGED <<kbdHead, kbdTail, ring, keyed, char>>
    BY <1>8 DEF Exit, ReadCall, Arm, Block, YieldRead
  <2>3. Getting' = Getting
    BY <1>5, <2>1 DEF Getting
  <2> QED
    BY <2>2, <2>3, QueueStays
<1> QED
  BY <1>2, <1>3, <1>4, <1>6, <1>7, <1>8 DEF KeyboardNext, ReadStep

\* The ring is empty at first.
LEMMA QueueStart ==
  ASSUME KeyboardOK, KeyboardInit
  PROVE  Queue!Init
<1>1. kbdHead = 0 /\ kbdTail = 0 /\ Size \in Nat \ {0}
  BY KeyboardConstants DEF KeyboardInit
<1>2. Held = 0
  BY <1>1, ModBelow DEF Held
<1>3. Contents = <<>>
  BY <1>2 DEF Contents
<1>4. {t \in Readers : pc[t] = "copied"} = {}
  BY KeyboardConstants DEF KeyboardInit
<1>5. KeyboardTypeOK
  BY KeyboardStart DEF KeyboardInv
<1>6. keyed \in [char : Chars, odd : BOOLEAN] /\ \A r \in Readers : char[r] \in Chars
  BY <1>5, KeyboardConstants DEF KeyboardTypeOK
<1> QED
  BY <1>3, <1>4, <1>6 DEF Queue!Init

\* The keyboard's ring is the promised queue: keys are dropped only when it is
\* full, and readers get the others in their order, each of them once.
THEOREM RingIsQueue == ASSUME KeyboardOK PROVE KeyboardSpec => KeysInOrder
<1>1. KeyboardInit => KeyboardInv /\ Queue!Init
  BY KeyboardStart, QueueStart
<1>2. KeyboardInv /\ [KeyboardNext]_keyboardVars => KeyboardInv' /\ (Queue!Next \/ UNCHANGED QueueVars)
  BY KeyboardSteps, QueueSteps
<1> QED
  BY <1>1, <1>2, PTL DEF KeyboardSpec, KeysInOrder, Queue!Spec, QueueVars, Getting
-----------------------------------------------------------------------------
(* The scan codes.                                                          *)

\* The prefix, and what is left of it without the break bit: no shift key's code.
LEMMA PrefixIs == Prefix = 224 /\ Prefix % 128 = 96
<1>1. Prefix = 224
  BY DEF Prefix
<1> QED
  BY <1>1

\* The codes of the keys.
Codes == {42, 54, 58, 69, 30, 71, 28}
\* The codes, of which three are of one key only.
LEMMA CodeIs ==
  /\ Code["LSHIFT"] = 42 /\ Code["RSHIFT"] = 54
  /\ \A key \in Keys : Code[key] \in Codes
  /\ \A key \in Keys : (Code[key] = 42 <=> key = "LSHIFT") /\ (Code[key] = 54 <=> key = "RSHIFT")
  /\ \A key \in Keys : Code[key] = 30 <=> key = "A"
<1>1. Code["LSHIFT"] = 42 /\ Code["RSHIFT"] = 54 /\ Code["CAPSLOCK"] = 58 /\ Code["NUMLOCK"] = 69
  BY DEF Code, Keys
<1>2. Code["A"] = 30 /\ Code["KP_7"] = 71 /\ Code["HOME"] = 71 /\ Code["KP_ENTER"] = 28
  BY DEF Code, Keys
<1>3. ASSUME NEW key \in Keys
      PROVE  /\ Code[key] \in Codes
             /\ (Code[key] = 42 <=> key = "LSHIFT") /\ (Code[key] = 54 <=> key = "RSHIFT")
             /\ Code[key] = 30 <=> key = "A"
  BY <1>1, <1>2 DEF Keys, Codes
<1> QED
  BY <1>1, <1>3

\* No key sends the prefix as its code.
LEMMA CodeSent ==
  ASSUME NEW key \in Keys, NEW b \in {0, BreakBit}
  PROVE  Code[key] + b \in 0..255 /\ Code[key] + b # Prefix
BY CodeIs, PrefixIs DEF Codes, BreakBit

\* The shift keys, and what the handler knows of each.
Shifts == {"LSHIFT", "RSHIFT"}
ShiftHeld(k) == IF k = "LSHIFT" THEN shiftL ELSE shiftR

\* The byte at i of the wire w, where e says that a prefix came before w, will be
\* taken with its prefix.
Prefixed(w, e, i) == IF i = 1 THEN e ELSE w[i - 1] = Prefix

\* That byte presses or releases the shift key k.
Marks(w, e, i, k) == /\ w[i] # Prefix
                     /\ ~Prefixed(w, e, i)
                     /\ w[i] % BreakBit = Code[k]

LastMark(w, e, i, k) ==
  Marks(w, e, i, k) /\ \A j \in 1..Len(w) : Marks(w, e, j, k) => j <= i

\* The handler, for whom k is held or not, is right about k when it has taken all of w.
Follows(w, e, k, held, pressed) ==
  /\ (\A i \in 1..Len(w) : ~Marks(w, e, i, k)) => (held <=> k \in pressed)
  /\ \A i \in 1..Len(w) : LastMark(w, e, i, k) => (w[i] < BreakBit <=> k \in pressed)

ShiftsFollow == \A k \in Shifts : Follows(wire, extended, k, ShiftHeld(k), down)

\* No prefix is without its code.
NoLonePrefix ==
  /\ wire = <<>> => ~extended
  /\ wire # <<>> => wire[Len(wire)] # Prefix

KeycodesInv == KeycodesTypeOK /\ ShiftsFollow /\ NoLonePrefix

\* Which key a code means.
LEMMA KeycodeIs ==
  ASSUME NEW code \in Nat, NEW ext \in BOOLEAN
  PROVE  /\ \A k \in Shifts : Keycode(code, ext) = k <=> code = Code[k] /\ ~ext
         /\ Keycode(code, ext) = "A" => code = 30 /\ ~ext
<1> DEFINE keys == {key \in Keys : Code[key] = code /\ (key \in Extended <=> ext)}
<1>1. Keycode(code, ext) = IF keys = {} THEN "UNKNOWN" ELSE CHOOSE key \in keys : TRUE
  BY DEF Keycode
<1>2. keys # {} => (CHOOSE key \in keys : TRUE) \in keys
  BY Zenon
<1>3. keys # {} => Keycode(code, ext) \in keys
  BY <1>1, <1>2
<1>4. keys = {} => Keycode(code, ext) = "UNKNOWN"
  BY <1>1
<1>5. ASSUME NEW k \in Shifts \cup {"A"}, Keycode(code, ext) = k
      PROVE  code = Code[k] /\ ~ext
  <2>1. k # "UNKNOWN"
    BY DEF Shifts
  <2>2. k \in keys
    BY <1>3, <1>4, <1>5, <2>1
  <2> QED
    BY <2>2 DEF Extended, Shifts
<1>6. ASSUME NEW k \in Shifts, code = Code[k], ~ext
      PROVE  Keycode(code, ext) = k
  <2>1. k \in keys
    BY <1>6 DEF Shifts, Extended, Keys
  <2>2. \A key \in keys : key = k
    BY <1>6, CodeIs DEF Shifts
  <2> QED
    BY <1>3, <2>1, <2>2
<1>7. Code["A"] = 30
  BY CodeIs DEF Keys
<1> QED
  BY <1>5, <1>6, <1>7

\* The invariant holds at first.
LEMMA KeycodesStart ==
  ASSUME KeycodesOK, KeycodesInit
  PROVE  KeycodesInv
<1>1. KeycodesTypeOK
  <2>1. {extended, shiftL, shiftR, capsLock, numLock, capsOn} \subseteq BOOLEAN
    BY DEF KeycodesInit
  <2>2. typed = None /\ down = {} /\ wire = <<>>
    BY DEF KeycodesInit
  <2>3. repeated = 0 /\ 0 \in 0..Repeats
    BY DEF KeycodesInit, KeycodesOK
  <2> QED
    BY <2>1, <2>2, <2>3 DEF KeycodesTypeOK
<1>2. Len(wire) = 0 /\ ~shiftL /\ ~shiftR /\ down = {}
  BY DEF KeycodesInit
<1> QED
  BY <1>1, <1>2 DEF KeycodesInit, KeycodesInv, ShiftsFollow, Follows, NoLonePrefix, ShiftHeld, Shifts

\* The handler takes the first byte of w.
LEMMA TailFollows ==
  ASSUME NEW k \in Shifts, NEW w, NEW w1, NEW e, NEW e1, NEW held, NEW pressed,
         Len(w) \in Nat \ {0}, Len(w1) = Len(w) - 1,
         \A i \in 1..(Len(w) - 1) : w1[i] = w[i + 1],
         e1 <=> w[1] = Prefix,
         Follows(w, e, k, held, pressed)
  PROVE  Follows(w1, e1, k, IF Marks(w, e, 1, k) THEN w[1] < BreakBit ELSE held, pressed)
<1> DEFINE L == Len(w)
           M(i) == Marks(w, e, i, k)
           M1(i) == Marks(w1, e1, i, k)
           held1 == IF M(1) THEN w[1] < BreakBit ELSE held
<1>1. L \in Nat \ {0} /\ Len(w1) = L - 1
  OBVIOUS
<1>2. /\ (\A i \in 1..L : ~M(i)) => (held <=> k \in pressed)
      /\ \A i \in 1..L : M(i) /\ (\A j \in 1..L : M(j) => j <= i) => (w[i] < BreakBit <=> k \in pressed)
  BY DEF Follows, LastMark
<1>3. \A i \in 1..(L - 1) : w1[i] = w[i + 1]
  OBVIOUS
<1>4. \A i \in 1..(L - 1) : M1(i) <=> M(i + 1)
  <2> HIDE DEF L
  <2>1. \A i \in 1..(L - 1) : i = 1 \/ (i - 1 \in 1..(L - 1) /\ i - 1 + 1 = i)
    BY <1>1
  <2>2. \A i \in 1..(L - 1) : Prefixed(w1, e1, i) <=> Prefixed(w, e, i + 1)
    BY <1>1, <1>3, <2>1 DEF Prefixed
  <2> QED
    BY <1>3, <2>2 DEF Marks
<1>5. held1 <=> IF M(1) THEN w[1] < BreakBit ELSE held
  OBVIOUS
<1>6. Follows(w1, e1, k, held1, pressed) <=>
        /\ (\A i \in 1..(L - 1) : ~M1(i)) => (held1 <=> k \in pressed)
        /\ \A i \in 1..(L - 1) :
             M1(i) /\ (\A j \in 1..(L - 1) : M1(j) => j <= i) => (w1[i] < BreakBit <=> k \in pressed)
  BY DEF Follows, LastMark
<1> SUFFICES Follows(w1, e1, k, held1, pressed)
  OBVIOUS
<1> HIDE DEF M, M1, L, held1
<1>7. \A i \in 1..L : i = 1 \/ (i - 1 \in 1..(L - 1) /\ i - 1 + 1 = i)
  BY <1>1
<1>8. ASSUME \A i \in 1..(L - 1) : ~M1(i)
      PROVE  held1 <=> k \in pressed
  <2>1. \A i \in 1..L : M(i) => i = 1
    BY <1>4, <1>7, <1>8
  <2>2. 1 \in 1..L
    BY <1>1
  <2>3. CASE M(1)
    <3>1. \A j \in 1..L : M(j) => j <= 1
      BY <2>1
    <3> QED
      BY <1>2, <1>5, <2>2, <2>3, <3>1
  <2>4. CASE ~M(1)
    BY <1>2, <1>5, <2>1, <2>4
  <2> QED
    BY <2>3, <2>4
<1>9. ASSUME NEW i \in 1..(L - 1), M1(i), \A j \in 1..(L - 1) : M1(j) => j <= i
      PROVE  w1[i] < BreakBit <=> k \in pressed
  <2>1. i + 1 \in 1..L
    BY <1>1
  <2>2. M(i + 1)
    BY <1>4, <1>9
  <2>3. \A j \in 1..L : M(j) => j <= i + 1
    BY <1>4, <1>7, <1>9
  <2> QED
    BY <1>2, <1>3, <2>1, <2>2, <2>3
<1> QED
  BY <1>6, <1>8, <1>9

\* The handler takes the oldest byte.
LEMMA HandleStep ==
  ASSUME KeycodesOK, KeycodesInv, Handle
  PROVE  KeycodesInv'
<1> DEFINE L == Len(wire)
<1>1. /\ extended \in BOOLEAN /\ shiftL \in BOOLEAN /\ shiftR \in BOOLEAN
      /\ capsLock \in BOOLEAN /\ numLock \in BOOLEAN /\ capsOn \in BOOLEAN
  BY DEF KeycodesInv, KeycodesTypeOK
<1>2. wire \in Seq(0..255) /\ wire # <<>> /\ down \subseteq Keys /\ repeated \in 0..Repeats
  BY DEF KeycodesInv, KeycodesTypeOK, Handle
<1>3. ShiftsFollow /\ NoLonePrefix
  BY DEF KeycodesInv
<1>4. /\ wire' = Tail(wire) /\ Head(wire) = wire[1]
      /\ down' = down /\ repeated' = repeated /\ capsOn' = capsOn
  <2>1. Head(wire) = wire[1]
    BY <1>2
  <2>2. wire' = Tail(wire) /\ UNCHANGED <<down, repeated, capsOn>>
    BY DEF Handle
  <2> QED
    BY <2>1, <2>2
<1>5. L \in Nat /\ L > 0 /\ wire[1] \in 0..255
  <2>1. L \in Nat /\ wire \in [1..L -> 0..255]
    BY <1>2, LenProperties
  <2>2. L \in Nat \ {0}
    BY <1>2, EmptySeq
  <2>3. 1 \in 1..L
    BY <2>2
  <2> HIDE DEF L
  <2> QED
    BY <2>1, <2>2, <2>3
<1>6. /\ wire' \in Seq(0..255) /\ Len(wire') = L - 1
      /\ \A i \in 1..(L - 1) : wire'[i] = wire[i + 1]
  <2>1. /\ Tail(wire) \in Seq(0..255) /\ Len(Tail(wire)) = Len(wire) - 1
        /\ \A i \in 1..Len(Tail(wire)) : Tail(wire)[i] = wire[i + 1]
    BY <1>2, HeadTailProperties
  <2> QED
    BY <1>4, <2>1
<1>7. \A i \in 1..L : wire[i] \in 0..255
  BY <1>2, ElementOfSeq
<1> HIDE DEF L
<1> DEFINE released == wire[1] >= BreakBit
           key == Keycode(wire[1] % BreakBit, extended)
<1>8. /\ Len(wire) \in Nat \ {0} /\ Len(wire') = Len(wire) - 1
       /\ \A i \in 1..(Len(wire) - 1) : wire'[i] = wire[i + 1]
  BY <1>5, <1>6 DEF L
<1>9. CASE wire[1] = Prefix
  <2>1. extended' = TRUE /\ UNCHANGED <<shiftL, shiftR, capsLock, numLock, typed>>
    BY <1>4, <1>9 DEF Handle
  <2>4. KeycodesTypeOK'
    BY <1>1, <1>2, <1>4, <1>6, <2>1 DEF KeycodesInv, KeycodesTypeOK
  <2>5. L > 1
    BY <1>3, <1>5, <1>9, <1>2 DEF NoLonePrefix, L
  <2>6. NoLonePrefix'
    <3>1. L - 1 \in 1..(L - 1) /\ L - 1 + 1 = L
      BY <1>5, <2>5
    <3>2. wire'[Len(wire')] = wire[L]
      BY <1>6, <3>1
    <3>3. wire[L] # Prefix
      BY <1>2, <1>3 DEF NoLonePrefix, L
    <3>4. wire' # <<>>
      <4>1. Len(wire') > 0
        BY <1>5, <1>6, <2>5
      <4> QED
        BY <4>1
    <3> QED
      BY <3>2, <3>3, <3>4 DEF NoLonePrefix
  <2>7. ASSUME NEW k \in Shifts
        PROVE  Follows(wire', extended', k, ShiftHeld(k)', down')
    <3>1. ~Marks(wire, extended, 1, k)
      BY <1>9 DEF Marks
    <3>2. ShiftHeld(k)' <=> ShiftHeld(k)
      BY <2>1 DEF ShiftHeld
    <3>3. Follows(wire, extended, k, ShiftHeld(k), down)
      BY <1>3 DEF ShiftsFollow
    <3>4. extended' <=> wire[1] = Prefix
      BY <1>9, <2>1
    <3>5. Follows(wire', extended', k, IF Marks(wire, extended, 1, k) THEN wire[1] < BreakBit
                                       ELSE ShiftHeld(k), down)
      BY <1>8, <3>3, <3>4, TailFollows
    <3> QED
      BY <1>4, <3>1, <3>2, <3>5 DEF Follows
  <2> QED
    BY <2>4, <2>6, <2>7 DEF KeycodesInv, ShiftsFollow
<1>10. CASE wire[1] # Prefix
  <2>1. /\ shiftL' = HeldDown(shiftL, key, "LSHIFT", released)
        /\ shiftR' = HeldDown(shiftR, key, "RSHIFT", released)
        /\ extended' = FALSE
    BY <1>4, <1>10 DEF Handle
  <2>2. /\ capsLock' = (capsLock # (key = "CAPSLOCK" /\ ~released))
        /\ numLock' = (numLock # (key = "NUMLOCK" /\ ~released))
        /\ typed' = IF released THEN None
                         ELSE Character(key, shiftL' \/ shiftR', capsLock', numLock')
    BY <1>4, <1>10 DEF Handle
  <2>5. KeycodesTypeOK'
    <3>1. shiftL' \in BOOLEAN /\ shiftR' \in BOOLEAN
      BY <1>1, <2>1 DEF HeldDown
    <3>2. capsLock' \in BOOLEAN /\ numLock' \in BOOLEAN
      BY <2>2
    <3>3. typed' \in {"a", "A", "7", "newline", None}
      BY <2>2 DEF Character
    <3> QED
      BY <1>1, <1>2, <1>4, <1>6, <2>1, <3>1, <3>2, <3>3 DEF KeycodesTypeOK
  <2>6. NoLonePrefix'
    <3>1. CASE L = 1
      BY <1>6, <2>1, <3>1 DEF NoLonePrefix
    <3>2. CASE L > 1
      <4>1. L - 1 \in 1..(L - 1) /\ L - 1 + 1 = L
        BY <1>5, <3>2
      <4>2. wire'[Len(wire')] = wire[L]
        BY <1>6, <4>1
      <4>3. wire[L] # Prefix
        BY <1>2, <1>3 DEF NoLonePrefix, L
      <4> QED
        BY <1>6, <3>2, <4>2, <4>3, <2>1 DEF NoLonePrefix
    <3> QED
      BY <1>5, <3>1, <3>2
  <2>7. ASSUME NEW k \in Shifts
        PROVE  Follows(wire', extended', k, ShiftHeld(k)', down')
    <3>1. wire[1] % BreakBit \in Nat
      BY <1>5 DEF BreakBit
    <3>2. key = k <=> wire[1] % BreakBit = Code[k] /\ ~extended
      BY <1>1, <3>1, KeycodeIs
    <3>3. Marks(wire, extended, 1, k) <=> key = k
      BY <1>10, <3>2 DEF Marks, Prefixed
    <3>4. ShiftHeld(k)' <=> IF key = k THEN wire[1] < BreakBit ELSE ShiftHeld(k)
      <4> HIDE DEF key
      <4>1. released <=> ~(wire[1] < BreakBit)
        BY <1>5 DEF BreakBit
      <4> QED
        BY <1>1, <2>1, <4>1 DEF HeldDown, ShiftHeld, Shifts
    <3>5. Follows(wire, extended, k, ShiftHeld(k), down)
      BY <1>3 DEF ShiftsFollow
    <3>6. extended' <=> wire[1] = Prefix
      BY <1>10, <2>1
    <3>7. Follows(wire', extended', k, IF Marks(wire, extended, 1, k) THEN wire[1] < BreakBit
                                       ELSE ShiftHeld(k), down)
      BY <1>8, <3>5, <3>6, TailFollows
    <3> QED
      BY <1>4, <3>3, <3>4, <3>7 DEF Follows
  <2> QED
    BY <2>5, <2>6, <2>7 DEF KeycodesInv, ShiftsFollow
<1> QED
  BY <1>9, <1>10

\* The byte at j of what a key sends marks a shift key.
Fresh(seg, j, k) == /\ seg[j] # Prefix
                    /\ ~(j > 1 /\ seg[j - 1] = Prefix)
                    /\ seg[j] % BreakBit = Code[k]

\* What a key sends leaves no prefix alone.
Whole(seg) == /\ seg \in Seq(0..255)
              /\ seg # <<>>
              /\ seg[Len(seg)] # Prefix

\* The keyboard appends to what the handler has to take.
LEMMA SendFollows ==
  ASSUME NEW k \in Shifts, NEW w \in Seq(0..255), NEW seg, Whole(seg), NEW e \in BOOLEAN,
         Len(w) = 0 => ~e,
         Len(w) # 0 => w[Len(w)] # Prefix,
         NEW held \in BOOLEAN, NEW pressed, NEW pressed1,
         Follows(w, e, k, held, pressed),
         \/ /\ \A j \in 1..Len(seg) : ~Fresh(seg, j, k)
            /\ k \in pressed1 <=> k \in pressed
         \/ /\ Fresh(seg, Len(seg), k)
            /\ seg[Len(seg)] < BreakBit <=> k \in pressed1
  PROVE  Follows(w \o seg, e, k, held, pressed1)
<1> DEFINE L == Len(w)
           S == Len(seg)
           w1 == w \o seg
           M(i) == Marks(w, e, i, k)
           M1(i) == Marks(w1, e, i, k)
<1>1. w \in Seq(0..255) /\ seg \in Seq(0..255) /\ seg # <<>>
  BY DEF Whole
<1>2. L \in Nat /\ S \in Nat \ {0}
  BY <1>1, EmptySeq, LenProperties
<1>3. /\ Len(w1) = L + S
      /\ \A i \in 1..(L + S) : w1[i] = IF i <= L THEN w[i] ELSE seg[i - L]
  BY <1>1, ConcatProperties
<1>4. (L = 0 => ~e) /\ (L # 0 => w[L] # Prefix)
  OBVIOUS
<1>5. \/ /\ \A j \in 1..S : ~Fresh(seg, j, k)
         /\ k \in pressed1 <=> k \in pressed
      \/ /\ Fresh(seg, S, k)
         /\ seg[S] < BreakBit <=> k \in pressed1
  OBVIOUS
<1>6. /\ (\A i \in 1..L : ~M(i)) => (held <=> k \in pressed)
      /\ \A i \in 1..L : M(i) /\ (\A j \in 1..L : M(j) => j <= i) => (w[i] < BreakBit <=> k \in pressed)
  BY DEF Follows, LastMark
<1>7. Follows(w1, e, k, held, pressed1) <=>
        /\ (\A i \in 1..(L + S) : ~M1(i)) => (held <=> k \in pressed1)
        /\ \A i \in 1..(L + S) :
             M1(i) /\ (\A j \in 1..(L + S) : M1(j) => j <= i) => (w1[i] < BreakBit <=> k \in pressed1)
  BY <1>3 DEF Follows, LastMark
<1> SUFFICES Follows(w1, e, k, held, pressed1)
  OBVIOUS
<1>8. /\ \A i : M(i) <=> /\ w[i] # Prefix
                         /\ ~Prefixed(w, e, i)
                         /\ w[i] % BreakBit = Code[k]
      /\ \A i : M1(i) <=> /\ w1[i] # Prefix
                          /\ ~Prefixed(w1, e, i)
                          /\ w1[i] % BreakBit = Code[k]
  BY DEF Marks
<1> HIDE DEF L, S, M, M1, w1
<1>9. \A i \in 1..L : w1[i] = w[i]
  BY <1>2, <1>3
<1>10. \A j \in 1..S : L + j \in 1..(L + S) /\ w1[L + j] = seg[j]
  BY <1>2, <1>3
<1>11. \A i \in 1..(L + S) : i \in 1..L \/ (i - L \in 1..S /\ L + (i - L) = i)
  BY <1>2
<1>12. \A i \in 1..L : Prefixed(w1, e, i) <=> Prefixed(w, e, i)
  <2>1. \A i \in 1..L : i = 1 \/ i - 1 \in 1..L
    BY <1>2
  <2> QED
    BY <1>9, <2>1 DEF Prefixed
<1>13. ASSUME NEW j \in 1..S
       PROVE  Prefixed(w1, e, L + j) <=> (j > 1 /\ seg[j - 1] = Prefix)
  <2>1. CASE j = 1 /\ L = 0
    <3>1. L + j = 1 /\ ~(j > 1)
      BY <2>1
    <3> QED
      BY <1>4, <2>1, <3>1 DEF Prefixed
  <2>2. CASE j = 1 /\ L # 0
    <3>1. L \in 1..L /\ (L + j) - 1 = L /\ L + j # 1 /\ ~(j > 1)
      BY <1>2, <2>2
    <3>2. w1[L] # Prefix
      BY <1>4, <1>9, <2>2, <3>1
    <3> QED
      BY <3>1, <3>2 DEF Prefixed
  <2>3. CASE j > 1
    <3>1. j - 1 \in 1..S /\ L + j # 1 /\ (L + j) - 1 = L + (j - 1)
      BY <1>2, <2>3
    <3>2. w1[L + (j - 1)] = seg[j - 1]
      BY <1>10, <3>1
    <3>3. Prefixed(w1, e, L + j) <=> w1[(L + j) - 1] = Prefix
      BY <3>1, Zenon DEF Prefixed
    <3>4. w1[(L + j) - 1] = seg[j - 1]
      BY <3>1, <3>2, Zenon
    <3> QED
      BY <2>3, <3>3, <3>4, Zenon
  <2> QED
    BY <2>1, <2>2, <2>3
<1>14. \A i \in 1..L : M1(i) <=> M(i)
  BY <1>8, <1>9, <1>12
<1>15. \A j \in 1..S : M1(L + j) <=> Fresh(seg, j, k)
  BY <1>8, <1>10, <1>13 DEF Fresh
<1>16. ASSUME \A i \in 1..(L + S) : ~M1(i)
       PROVE  held <=> k \in pressed1
  <2>1. \A i \in 1..L : i \in 1..(L + S)
    BY <1>2
  <2>2. \A i \in 1..L : ~M(i)
    BY <1>14, <1>16, <2>1
  <2>3. S \in 1..S
    BY <1>2
  <2>4. ~Fresh(seg, S, k)
    BY <1>10, <1>15, <1>16, <2>3
  <2> QED
    BY <1>5, <1>6, <2>2, <2>4
<1>17. ASSUME NEW i \in 1..(L + S), M1(i), \A j \in 1..(L + S) : M1(j) => j <= i
       PROVE  w1[i] < BreakBit <=> k \in pressed1
  <2>1. CASE Fresh(seg, S, k) /\ (seg[S] < BreakBit <=> k \in pressed1)
    <3>1. S \in 1..S /\ L + S \in 1..(L + S)
      BY <1>2
    <3>2. L + S <= i
      BY <1>15, <1>17, <2>1, <3>1
    <3>3. i = L + S
      BY <1>2, <3>2
    <3> QED
      BY <1>10, <2>1, <3>1, <3>3
  <2>2. CASE (\A j \in 1..S : ~Fresh(seg, j, k)) /\ (k \in pressed1 <=> k \in pressed)
    <3>1. i \in 1..L
      BY <1>11, <1>15, <1>17, <2>2
    <3>2. M(i)
      BY <1>14, <1>17, <3>1
    <3>3. \A j \in 1..L : j \in 1..(L + S)
      BY <1>2
    <3>4. \A j \in 1..L : M(j) => j <= i
      BY <1>14, <1>17, <3>3
    <3>5. w[i] < BreakBit <=> k \in pressed
      BY <1>6, <3>1, <3>2, <3>4
    <3> QED
      BY <1>9, <2>2, <3>1, <3>5
  <2> QED
    BY <1>5, <2>1, <2>2
<1> QED
  BY <1>7, <1>16, <1>17

\* Bytes of which every other one is a prefix: keys that are not Shift, to the handler.
Quiet(seg) == /\ Whole(seg)
              /\ \A j \in 1..Len(seg) : seg[j] = Prefix \/ (j > 1 /\ seg[j - 1] = Prefix)

\* A prefix and a code are quiet.
LEMMA QuietPair ==
  ASSUME NEW seg \in Seq(0..255), Len(seg) = 2, seg[1] = Prefix, seg[2] # Prefix
  PROVE  Quiet(seg)
<1>1. Len(seg) # 0 /\ Len(<<>>) = 0
  BY EmptySeq
<1>2. seg # <<>>
  BY <1>1, Zenon
<1>3. \A j \in 1..Len(seg) : j = 1 \/ (j = 2 /\ j > 1 /\ j - 1 = 1)
  OBVIOUS
<1> QED
  BY <1>2, <1>3 DEF Quiet, Whole

\* So are two quiet pieces.
LEMMA QuietConcat ==
  ASSUME NEW s, NEW t, Quiet(s), Quiet(t)
  PROVE  Quiet(s \o t)
<1> DEFINE S == Len(s)
           T == Len(t)
           u == s \o t
<1>1. s \in Seq(0..255) /\ t \in Seq(0..255) /\ s # <<>> /\ t # <<>> /\ t[Len(t)] # Prefix
  BY DEF Quiet, Whole
<1>2. S \in Nat \ {0} /\ T \in Nat \ {0}
  BY <1>1, EmptySeq
<1>3. /\ u \in Seq(0..255) /\ Len(u) = S + T
      /\ \A i \in 1..(S + T) : u[i] = IF i <= S THEN s[i] ELSE t[i - S]
  BY <1>1, ConcatProperties
<1>4. /\ \A j \in 1..S : s[j] = Prefix \/ (j > 1 /\ s[j - 1] = Prefix)
      /\ \A j \in 1..T : t[j] = Prefix \/ (j > 1 /\ t[j - 1] = Prefix)
  BY DEF Quiet
<1>5. t[T] # Prefix
  BY <1>1
<1> SUFFICES Quiet(u)
  OBVIOUS
<1>6. Len(u) # 0 => u # <<>>
  BY EmptySeq
<1> HIDE DEF S, T, u
<1>7. u[S + T] = t[T]
  BY <1>2, <1>3
<1>8. ASSUME NEW j \in 1..(S + T)
      PROVE  u[j] = Prefix \/ (j > 1 /\ u[j - 1] = Prefix)
  <2>1. CASE j <= S
    <3>1. j \in 1..S /\ u[j] = s[j]
      BY <1>2, <1>3, <2>1
    <3>2. j > 1 => u[j - 1] = s[j - 1]
      BY <1>2, <1>3, <2>1
    <3> QED
      BY <1>4, <3>1, <3>2
  <2>2. CASE j > S
    <3>1. j - S \in 1..T /\ u[j] = t[j - S]
      BY <1>2, <1>3, <2>2
    <3>2. j - S > 1 => j > 1 /\ u[j - 1] = t[(j - S) - 1]
      <4>1. j - S > 1 => j - 1 \in 1..(S + T) /\ ~(j - 1 <= S) /\ (j - 1) - S = (j - S) - 1 /\ j > 1
        BY <1>2, <2>2
      <4> QED
        BY <1>3, <4>1
    <3> QED
      BY <1>4, <3>1, <3>2
  <2> QED
    BY <1>2, <2>1, <2>2
<1> QED
  BY <1>2, <1>3, <1>5, <1>6, <1>7, <1>8 DEF Quiet, Whole

\* The codes that pretend a release or a press of Shift.
Fake(b) == IF ShiftsDown = {} THEN <<>> ELSE <<Prefix, (CHOOSE c \in ShiftsDown : TRUE) + b>>

\* What a key sends: its code, which is no prefix and is a shift key's only if the
\* key is; or, if it is extended, only prefixed codes.
LEMMA SendsIs ==
  ASSUME NEW key \in Keys, NEW b \in {0, BreakBit}
  PROVE  IF key \in Extended THEN Quiet(Sends(key, b))
         ELSE Sends(key, b) = <<Code[key] + b>>
<1>1. CASE key \notin Extended
  BY <1>1 DEF Sends
<1>2. CASE key \in Extended
  <2> DEFINE code == <<Code[key] + b>>
  <2>1. Sends(key, b) = IF b = 0 THEN Fake(BreakBit) \o <<Prefix>> \o code
                        ELSE <<Prefix>> \o code \o Fake(0)
    BY <1>2 DEF Sends, Fake
  <2>2. Code[key] + b \in 0..255 /\ Code[key] + b # Prefix
    BY CodeSent
  <2>3. <<Prefix>> \in Seq(0..255) /\ code \in Seq(0..255)
    BY <2>2, PrefixIs
  <2>4. Len(<<Prefix>>) = 1 /\ Len(code) = 1 /\ code[1] # Prefix /\ <<Prefix>>[1] = Prefix
    BY <2>2
  <2> HIDE DEF code
  <2>5. Quiet(<<Prefix>> \o code)
    <3> DEFINE p == <<Prefix>>
    <3>1. p \in Seq(0..255) /\ Len(p) = 1 /\ p[1] = Prefix
      BY <2>3, <2>4
    <3> HIDE DEF p
    <3>2. /\ p \o code \in Seq(0..255) /\ Len(p \o code) = 1 + 1
          /\ \A i \in 1..(1 + 1) : (p \o code)[i] = IF i <= 1 THEN p[i] ELSE code[i - 1]
      <4>1. code \in Seq(0..255) /\ Len(code) = 1
        BY <2>3, <2>4
      <4>2. /\ p \o code \in Seq(0..255) /\ Len(p \o code) = Len(p) + Len(code)
            /\ \A i \in 1..(Len(p) + Len(code)) :
                 (p \o code)[i] = IF i <= Len(p) THEN p[i] ELSE code[i - Len(p)]
        BY ONLY <3>1, <4>1, ConcatProperties
      <4> QED
        BY ONLY <3>1, <4>1, <4>2
    <3>3. Len(p \o code) = 2 /\ (p \o code)[1] = p[1] /\ (p \o code)[2] = code[1]
      BY <3>2
    <3>4. Quiet(p \o code)
      BY <2>4, <3>1, <3>2, <3>3, QuietPair
    <3> QED
      BY <3>4 DEF p
  <2>6. \A d \in {0, BreakBit} : Fake(d) = <<>> \/ Quiet(Fake(d))
    <3> SUFFICES ASSUME NEW d \in {0, BreakBit}, ShiftsDown # {}
                 PROVE  Quiet(Fake(d))
      BY DEF Fake
    <3>1. ShiftsDown \subseteq {42, 54}
      BY CodeIs DEF ShiftsDown
    <3>2. (CHOOSE c \in ShiftsDown : TRUE) \in ShiftsDown
      BY Zenon
    <3> DEFINE x == CHOOSE c \in ShiftsDown : TRUE
    <3>3. x \in {42, 54}
      BY <3>1, <3>2
    <3>4. Fake(d) = <<Prefix, x + d>>
      BY DEF Fake
    <3> HIDE DEF x
    <3>5. x + d \in 0..255 /\ x + d # Prefix
      BY <3>3, PrefixIs DEF BreakBit
    <3>6. /\ <<Prefix, x + d>> \in Seq(0..255) /\ Len(<<Prefix, x + d>>) = 2
          /\ <<Prefix, x + d>>[1] = Prefix /\ <<Prefix, x + d>>[2] # Prefix
      BY <3>5, PrefixIs
    <3> QED
      BY <3>4, <3>6, QuietPair
  <2>7. CASE b = 0
    <3>1. Fake(BreakBit) \in Seq(0..255)
      BY <2>6, EmptySeq DEF Quiet, Whole
    <3>2. Sends(key, b) = Fake(BreakBit) \o (<<Prefix>> \o code)
      BY <2>1, <2>3, <2>7, <3>1, ConcatAssociative
    <3>3. CASE Fake(BreakBit) = <<>>
      <4>1. <<Prefix>> \o code \in Seq(0..255)
        BY <2>5 DEF Quiet, Whole
      <4>2. Sends(key, b) = <<Prefix>> \o code
        BY <3>2, <3>3, <4>1, ConcatEmptySeq
      <4> QED
        BY <1>2, <2>5, <4>2
    <3>4. CASE Quiet(Fake(BreakBit))
      BY <1>2, <2>5, <3>2, <3>4, QuietConcat
    <3> QED
      BY <2>6, <3>3, <3>4
  <2>8. CASE b # 0
    <3>1. Sends(key, b) = (<<Prefix>> \o code) \o Fake(0)
      BY <2>1, <2>8
    <3>2. CASE Fake(0) = <<>>
      <4>1. <<Prefix>> \o code \in Seq(0..255)
        BY <2>5 DEF Quiet, Whole
      <4>2. Sends(key, b) = <<Prefix>> \o code
        BY <3>1, <3>2, <4>1, ConcatEmptySeq
      <4> QED
        BY <1>2, <2>5, <4>2
    <3>3. CASE Quiet(Fake(0))
      BY <1>2, <2>5, <3>1, <3>3, QuietConcat
    <3> QED
      BY <2>6, <3>2, <3>3
  <2> QED
    BY <2>7, <2>8
<1> QED
  BY <1>1, <1>2

\* A key that is pressed, repeats or is released.
LEMMA KeyStep ==
  ASSUME KeycodesOK, KeycodesInv, NEW key \in Keys, NEW b \in {0, BreakBit},
         UNCHANGED <<extended, shiftL, shiftR>>,
         wire' = wire \o Sends(key, b),
         down' \subseteq Keys,
         \A k \in Keys : k \in down' <=> IF k = key THEN b = 0 ELSE k \in down
  PROVE  wire' \in Seq(0..255) /\ ShiftsFollow' /\ NoLonePrefix'
<1> DEFINE seg == Sends(key, b)
<1>1. wire \in Seq(0..255) /\ extended \in BOOLEAN /\ shiftL \in BOOLEAN /\ shiftR \in BOOLEAN
  BY DEF KeycodesInv, KeycodesTypeOK
<1>2. Code[key] + b \in 0..255 /\ Code[key] + b # Prefix
  BY CodeSent
<1>3. Whole(seg)
  <2>1. CASE key \in Extended
    BY <2>1, SendsIs DEF Quiet
  <2>2. CASE key \notin Extended
    <3> DEFINE y == Code[key] + b
    <3>1. seg = <<y>>
      BY <2>2, SendsIs
    <3> HIDE DEF y, seg
    <3>2. y \in 0..255 /\ y # Prefix
      BY <1>2 DEF y
    <3>3. <<y>> \in Seq(0..255) /\ Len(<<y>>) = 1 /\ <<y>>[1] = y /\ <<y>> # <<>>
      BY <3>2
    <3> QED
      BY <3>1, <3>2, <3>3 DEF Whole
  <2> QED
    BY <2>1, <2>2
<1>4. ASSUME NEW k \in Shifts
      PROVE  \/ /\ \A j \in 1..Len(seg) : ~Fresh(seg, j, k)
                /\ k \in down' <=> k \in down
             \/ /\ Fresh(seg, Len(seg), k)
                /\ seg[Len(seg)] < BreakBit <=> k \in down'
  <2>1. k \in Keys /\ k \notin Extended
    BY DEF Shifts, Keys, Extended
  <2>2. CASE key \in Extended
    <3>1. \A j \in 1..Len(seg) : ~Fresh(seg, j, k)
      BY <2>2, SendsIs DEF Quiet, Fresh
    <3> QED
      BY <2>1, <2>2, <3>1
  <2>3. CASE key \notin Extended
    <3> DEFINE y == Code[key] + b
    <3>1. seg = <<y>>
      BY <2>3, SendsIs
    <3>2. Len(seg) = 1 /\ seg[1] = y
      BY <3>1
    <3>3. y # Prefix /\ y % BreakBit = Code[key] /\ (y < BreakBit <=> b = 0)
      BY <1>2, CodeIs DEF Codes, BreakBit
    <3>4. Code[key] = Code[k] <=> key = k
      BY CodeIs DEF Shifts, Keys
    <3> HIDE DEF y, seg
    <3>5. \A j \in 1..Len(seg) : j = 1
      BY <3>2
    <3>6. Fresh(seg, 1, k) <=> key = k
      BY <3>2, <3>3, <3>4 DEF Fresh
    <3>7. CASE key = k
      BY <2>1, <3>2, <3>3, <3>6, <3>7
    <3>8. CASE key # k
      BY <2>1, <3>5, <3>6, <3>8
    <3> QED
      BY <3>7, <3>8
  <2> QED
    BY <2>2, <2>3
<1> HIDE DEF seg
<1>5. wire' = wire \o seg
  BY DEF seg
<1>6. /\ Len(wire) = 0 => ~extended
      /\ Len(wire) # 0 => wire[Len(wire)] # Prefix
  <2>1. wire = <<>> <=> Len(wire) = 0
    BY <1>1, EmptySeq
  <2> QED
    BY <2>1 DEF KeycodesInv, NoLonePrefix
<1>7. ShiftsFollow'
  <2> SUFFICES ASSUME NEW k \in Shifts
               PROVE  Follows(wire', extended', k, ShiftHeld(k)', down')
    BY DEF ShiftsFollow
  <2>1. Follows(wire, extended, k, ShiftHeld(k), down) /\ ShiftHeld(k) \in BOOLEAN
    BY <1>1 DEF KeycodesInv, ShiftsFollow, ShiftHeld
  <2>2. Follows(wire \o seg, extended, k, ShiftHeld(k), down')
    BY <1>1, <1>3, <1>4, <1>6, <2>1, SendFollows
  <2>3. ShiftHeld(k)' = ShiftHeld(k)
    BY DEF ShiftHeld
  <2> QED
    BY <1>5, <2>2, <2>3
<1>8. wire' \in Seq(0..255) /\ NoLonePrefix'
  <2>1. seg \in Seq(0..255) /\ seg # <<>> /\ seg[Len(seg)] # Prefix
    BY <1>3 DEF Whole
  <2>2. Len(wire) \in Nat /\ Len(seg) \in Nat \ {0}
    BY <1>1, <2>1, EmptySeq, LenProperties
  <2>3. /\ wire' \in Seq(0..255) /\ Len(wire') = Len(wire) + Len(seg)
        /\ \A i \in 1..(Len(wire) + Len(seg)) :
             wire'[i] = IF i <= Len(wire) THEN wire[i] ELSE seg[i - Len(wire)]
    BY <1>1, <1>5, <2>1, ConcatProperties
  <2>4. wire'[Len(wire')] = seg[Len(seg)]
    BY <2>2, <2>3
  <2>5. wire' # <<>>
    BY <2>2, <2>3, EmptySeq
  <2> QED
    BY <2>1, <2>3, <2>4, <2>5 DEF NoLonePrefix
<1> QED
  BY <1>7, <1>8

\* Every step keeps the invariant.
LEMMA KeycodesSteps ==
  ASSUME KeycodesOK, KeycodesInv, [KeycodesNext]_keycodeVars
  PROVE  KeycodesInv'
<1>1. CASE Handle
  BY <1>1, HandleStep
<1>2. /\ {extended, shiftL, shiftR, capsLock, numLock, capsOn} \subseteq BOOLEAN
      /\ typed \in {"a", "A", "7", "newline", None}
      /\ down \subseteq Keys /\ repeated \in 0..Repeats /\ Repeats \in Nat
  BY DEF KeycodesInv, KeycodesTypeOK, KeycodesOK
<1>3. ASSUME NEW key \in Keys, Press(key) PROVE KeycodesInv'
  <2>1. /\ UNCHANGED <<extended, shiftL, shiftR, capsLock, numLock, typed>>
        /\ wire' = wire \o Sends(key, 0)
        /\ down' = down \cup {key} /\ repeated' = 0 /\ capsOn' \in BOOLEAN
    BY <1>3 DEF Press, Idle
  <2>2. \A k \in Keys : k \in down' <=> IF k = key THEN 0 = 0 ELSE k \in down
    BY <2>1
  <2>3. wire' \in Seq(0..255) /\ ShiftsFollow' /\ NoLonePrefix'
    BY <1>2, <2>1, <2>2, KeyStep
  <2> QED
    BY <1>2, <2>1, <2>3 DEF KeycodesInv, KeycodesTypeOK
<1>4. ASSUME NEW key \in Keys, Repeat(key) PROVE KeycodesInv'
  <2>1. /\ UNCHANGED <<extended, shiftL, shiftR, capsLock, numLock, typed>>
        /\ wire' = wire \o Sends(key, 0)
        /\ key \in down /\ UNCHANGED <<down, capsOn>>
    BY <1>4 DEF Repeat, Idle
  <2>2. repeated' \in 0..Repeats
    BY <1>2, <1>4 DEF Repeat
  <2>3. \A k \in Keys : k \in down' <=> IF k = key THEN 0 = 0 ELSE k \in down
    BY <2>1
  <2>4. wire' \in Seq(0..255) /\ ShiftsFollow' /\ NoLonePrefix'
    BY <1>2, <2>1, <2>3, KeyStep
  <2> QED
    BY <1>2, <2>1, <2>2, <2>4 DEF KeycodesInv, KeycodesTypeOK
<1>5. ASSUME NEW key \in Keys, Release(key) PROVE KeycodesInv'
  <2>1. /\ UNCHANGED <<extended, shiftL, shiftR, capsLock, numLock, typed>>
        /\ wire' = wire \o Sends(key, BreakBit)
        /\ down' = down \ {key} /\ repeated' = Repeats /\ capsOn' = capsOn
    BY <1>5 DEF Release, Idle
  <2>2. \A k \in Keys : k \in down' <=> IF k = key THEN BreakBit = 0 ELSE k \in down
    BY <2>1 DEF BreakBit
  <2>3. wire' \in Seq(0..255) /\ ShiftsFollow' /\ NoLonePrefix'
    BY <1>2, <2>1, <2>2, KeyStep
  <2> QED
    BY <1>2, <2>1, <2>3 DEF KeycodesInv, KeycodesTypeOK
<1>6. CASE UNCHANGED keycodeVars
  BY <1>6 DEF keycodeVars, KeycodesInv, KeycodesTypeOK, ShiftsFollow, ShiftHeld, NoLonePrefix
<1> QED
  BY <1>1, <1>3, <1>4, <1>5, <1>6 DEF KeycodesNext

\* A letter is a capital exactly when one of Shift and Caps Lock applies.
LEMMA LetterStep ==
  ASSUME KeycodesOK, KeycodesInv, KeycodesNext,
         Settled', typed' \in {"a", "A"}, typed' # typed
  PROVE  (typed' = "A") = ((down \cap {"LSHIFT", "RSHIFT"} # {}) # capsLock)
<1>1. Handle
  BY DEF KeycodesNext, Press, Repeat, Release, Idle
<1>2. wire' = Tail(wire) /\ wire' = <<>> /\ wire # <<>> /\ wire \in Seq(0..255)
  BY <1>1 DEF Handle, Settled, KeycodesInv, KeycodesTypeOK
<1>3. Len(wire) = 1 /\ Head(wire) = wire[1] /\ wire[1] \in 0..255
  <2>1. Len(wire') = 0
    BY <1>2, EmptySeq
  <2>2. Len(wire') = Len(wire) - 1 /\ Len(wire) \in Nat \ {0}
    BY <1>2, HeadTailProperties, EmptySeq
  <2>3. Len(wire) = 1
    BY <2>1, <2>2
  <2>4. wire[1] \in 0..255
    <3>1. 1 \in 1..Len(wire)
      BY <2>3
    <3> QED
      BY <1>2, <3>1, ElementOfSeq
  <2> QED
    BY <1>2, <2>3, <2>4
<1>4. wire[1] # Prefix
  BY <1>2, <1>3 DEF KeycodesInv, NoLonePrefix
<1> DEFINE released == wire[1] >= BreakBit
           key == Keycode(wire[1] % BreakBit, extended)
<1>5. /\ shiftL' = HeldDown(shiftL, key, "LSHIFT", released)
      /\ shiftR' = HeldDown(shiftR, key, "RSHIFT", released)
      /\ capsLock' = (capsLock # (key = "CAPSLOCK" /\ ~released))
      /\ typed' = IF released THEN None
                         ELSE Character(key, shiftL' \/ shiftR', capsLock', numLock')
  BY <1>1, <1>3, <1>4 DEF Handle
<1>6. wire[1] % BreakBit \in Nat /\ extended \in BOOLEAN
  <2>1. wire[1] % BreakBit \in Nat
    BY <1>3 DEF BreakBit
  <2> QED
    BY <2>1 DEF KeycodesInv, KeycodesTypeOK
<1>7. key = "A" => wire[1] % BreakBit = 30 /\ ~extended
  BY <1>6, KeycodeIs
<1> HIDE DEF released, key
<1>8. ~released /\ typed' = Character(key, shiftL' \/ shiftR', capsLock', numLock')
  BY <1>5 DEF None
<1>9. key = "A" /\ typed' = IF (shiftL' \/ shiftR') # capsLock' THEN "A" ELSE "a"
  BY <1>8 DEF Character, None
<1>10. shiftL' = shiftL /\ shiftR' = shiftR
  BY <1>5, <1>9 DEF HeldDown
<1>11. capsLock \in BOOLEAN /\ shiftL \in BOOLEAN /\ shiftR \in BOOLEAN
  BY DEF KeycodesInv, KeycodesTypeOK
<1>12. capsLock' = capsLock
  BY <1>5, <1>9, <1>11
<1>13. \A k \in Shifts : ShiftHeld(k) <=> k \in down
  <2> SUFFICES ASSUME NEW k \in Shifts PROVE ShiftHeld(k) <=> k \in down
    OBVIOUS
  <2>1. Follows(wire, extended, k, ShiftHeld(k), down)
    BY DEF KeycodesInv, ShiftsFollow
  <2>2. Code[k] # 30
    BY CodeIs DEF Shifts
  <2>3. \A i \in 1..Len(wire) : ~Marks(wire, extended, i, k)
    BY <1>3, <1>7, <1>9, <2>2 DEF Marks
  <2> QED
    BY <2>1, <2>3 DEF Follows
<1>14. shiftL \/ shiftR <=> down \cap {"LSHIFT", "RSHIFT"} # {}
  BY <1>13 DEF Shifts, ShiftHeld
<1> QED
  BY <1>9, <1>10, <1>11, <1>12, <1>14

\* The values of the variables of Keycodes have their types.
THEOREM KeycodesTyped == ASSUME KeycodesOK PROVE KeycodesSpec => []KeycodesTypeOK
<1>1. KeycodesInit => KeycodesInv
  BY KeycodesStart
<1>2. KeycodesInv /\ [KeycodesNext]_keycodeVars => KeycodesInv'
  BY KeycodesSteps
<1>3. KeycodesInv => KeycodesTypeOK
  BY DEF KeycodesInv
<1> QED
  BY <1>1, <1>2, <1>3, PTL DEF KeycodesSpec

\* A letter is a capital exactly when one of Shift and Caps Lock applies.
THEOREM LettersFollowShift == ASSUME KeycodesOK PROVE KeycodesSpec => LettersMatchShift
<1>1. KeycodesInit => KeycodesInv
  BY KeycodesStart
<1>2. KeycodesInv /\ [KeycodesNext]_keycodeVars => KeycodesInv'
  BY KeycodesSteps
<1>3. KeycodesInv /\ [KeycodesNext]_keycodeVars
        => [Settled' /\ typed' \in {"a", "A"} /\ typed' # typed
             => (typed' = "A") = ((down \cap {"LSHIFT", "RSHIFT"} # {}) # capsLock)]_keycodeVars
  BY LetterStep
<1> QED
  BY <1>1, <1>2, <1>3, PTL DEF KeycodesSpec, LettersMatchShift
=============================================================================
