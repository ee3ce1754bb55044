------------------------- MODULE EventSchedule_proofs --------------------------
(***************************************************************************)
(* Theorems about the schedule of events.                                  *)
(*                                                                         *)
(* ExecutedOnce needs to know what the timers tell of the time of the      *)
(* script, since GetCurrentOffset takes it from whichever it finds active  *)
(* and an event is put into its list by comparing with that time.  Inv     *)
(* says that no timer tells a time before an event that was passed         *)
(* (Clocks); so an event that comes in is behind what was passed, and in   *)
(* front of the timer only if the timer is moved to it.                    *)
(*                                                                         *)
(* ExecutedOnTime adds that all timers tell the same time as long as an    *)
(* event of the script is to come (Synchronous), and that each timer comes *)
(* to its events when they are expected (Prompt).                          *)
(*                                                                         *)
(* A list is read here as two sets, Done and Due, and the place between    *)
(* them.  Every step is about the events of one owner (OwnStep), or is the *)
(* start (Begins), a line of the script, STOP or the clock.                *)
(***************************************************************************)
EXTENDS EventSchedule, SequenceTheorems, WellFoundedInduction, NaturalsInduction,
        FiniteSetTheorems, TLAPS

\* START NOW comes once, no flow is made by a command where there is an OFFSET, and
\* connections are retried only while nothing else is to come.
Orderly ==
  /\ ~LateNow /\ ~LateFlows /\ ~LateRetries
  /\ Drec \notin Flow
  /\ Times \subseteq Nat /\ Offsets \subseteq Nat /\ RetryDelays \subseteq Nat
  /\ StartDelays \subseteq Nat \ {0}

\* Events are numbered from 1; NoEvent is none of them.
Id == Nat \ {0}

Events == [owner : Owner, scripted : BOOLEAN, time : Nat, expected : Nat \cup {Never},
           count : Nat, at : Nat \cup {Never}]

\* Types, as the provers use them.
Typed ==
  /\ offset \in Nat \cup {NoOffset}
  /\ now \in Nat
  /\ mgenStarted \in BOOLEAN
  /\ startTimer \in Nat \cup {Never}
  /\ event \in Seq(Events)
  /\ flows \in Seq(Flow)
  /\ list \in [Owner -> Seq(Id)]
  /\ next \in [Owner -> Nat]
  /\ timer \in [Owner -> Nat \cup {Never}]
  /\ started \in [Flow -> BOOLEAN]
  /\ stopped \in BOOLEAN

\* The events of l that are before n, and those from n on.
Place(l, n) == IF n = NoEvent THEN Len(l) + 1 ELSE Position(l, n)
Part(l, a, b) == {l[i] : i \in a..b}
Done(l, n) == Part(l, 1, Place(l, n) - 1)
Due(l, n) == Part(l, Place(l, n), Len(l))

\* All events of l.
Elements(l) == Part(l, 1, Len(l))

\* A list of events without repetitions, in order of their times.
Row(l, time) ==
  /\ l \in Seq(Id)
  /\ \A i, j \in 1..Len(l) : l[i] = l[j] => i = j
  /\ \A i \in 1..Len(l) : l[i] \in DOMAIN time
  /\ \A i, j \in 1..Len(l) : i < j => time[l[i]] <= time[l[j]]

\* The times of the events, on which the order of a list depends.
EventTime == [e \in DOMAIN event |-> event[e].time]

\* Each list is a row of its owner's events, and its next event is in it.
Listed ==
  \A o \in Owner :
    /\ Row(list[o], EventTime)
    /\ \A e \in Elements(list[o]) : event[e].owner = o
    /\ next[o] \in Elements(list[o]) \cup {NoEvent}

\* A timer runs exactly while an event is to come, and none is late.
Ticking ==
  /\ startTimer # Never => startTimer >= now /\ mgenStarted
  /\ stopped => ~mgenStarted
  /\ \A o \in Owner :
       /\ timer[o] # Never <=> next[o] # NoEvent
       /\ timer[o] # Never => timer[o] >= now

\* Before the start nothing was executed, and everything waits.
Waiting ==
  ~ReallyStarted =>
    /\ \A o \in Owner : next[o] = NoEvent
    /\ ~stopped =>
         /\ \A e \in DOMAIN event : event[e].count = 0 /\ e \in Elements(list[event[e].owner])
         /\ \A f \in Flow : ~started[f] /\ (f \in ToSet(flows) <=> list[f] # << >>)

\* What is due was not executed, and everything else was once.
Counted ==
  ReallyStarted =>
    \A e \in DOMAIN event :
      event[e].count = IF e \in Due(list[event[e].owner], next[event[e].owner]) THEN 0 ELSE 1

\* What a timer tells of the current time is not before an event that was passed,
\* of the list of the timer or of a flow.
Clocks ==
  ReallyStarted =>
    /\ \A o \in Owner : next[o] # NoEvent =>
         /\ TimerOffset(o) >= 0
         /\ \A p \in Flow \cup {o} : \A e \in Done(list[p], next[p]) :
              event[e].time <= TimerOffset(o)
    /\ \A p \in Flow : Done(list[p], next[p]) # {} => offset # NoOffset /\ p \in ToSet(flows)
    /\ offset # NoOffset => \A f \in ToSet(flows) : started[f]

\* The invariant of ExecutedOnce.
Inv == Typed /\ Listed /\ Ticking /\ Waiting /\ Counted /\ Clocks

\* While an event of the script is to come, all timers of flows of the script and that
\* of Drec tell the same time.
ScriptDue(f) == \E e \in Due(list[f], next[f]) : event[e].scripted

Synchronous ==
  ReallyStarted =>
    /\ \A f \in Flow : started[f] => f \in ToSet(flows)
    /\ \A i, j \in DOMAIN flows : i < j /\ started[flows[j]] => started[flows[i]]
    /\ \A f \in Flow : ScriptDue(f) =>
         /\ started[f]
         /\ \A o \in Owner : next[o] # NoEvent /\ (o = Drec \/ started[o]) =>
              TimerOffset(o) = TimerOffset(f)
         /\ \A e \in Done(list[Drec], next[Drec]) : event[e].time <= TimerOffset(f)

\* The timer will come to an event when it is expected; what is not due was on time.
Timely(e) ==
  LET o == event[e].owner
  IN /\ event[e].expected # Never
     /\ IF e \in Due(list[o], next[o])
        THEN event[e].at = Never /\ event[e].expected = now + (event[e].time - TimerOffset(o))
        ELSE event[e].at = event[e].expected

\* Times are fixed at the start; before, nothing was executed.
Prompt ==
  /\ ReallyStarted =>
       \A e \in DOMAIN event : event[e].owner = Drec \/ event[e].scripted => Timely(e)
  /\ ~ReallyStarted /\ ~stopped =>
       \A e \in DOMAIN event : event[e].expected = Never /\ event[e].at = Never

\* The invariant of ExecutedOnTime.
PromptInv == Inv /\ Synchronous /\ Prompt

-------------------------------------------------------------------------------
\* InsertAt puts e at position p.
LEMMA InsertAtProperties ==
  ASSUME NEW l \in Seq(Id), NEW p \in 1..(Len(l) + 1), NEW e \in Id
  PROVE  /\ InsertAt(l, p, e) \in Seq(Id)
         /\ Len(InsertAt(l, p, e)) = Len(l) + 1
         /\ \A i \in 1..(Len(l) + 1) :
              InsertAt(l, p, e)[i] = IF i < p THEN l[i] ELSE IF i = p THEN e ELSE l[i - 1]
<1> DEFINE a == SubSeq(l, 1, p - 1)
           b == SubSeq(l, p, Len(l))
           n == Len(l)
<1>1. n \in Nat /\ p \in Int /\ p >= 1 /\ p <= n + 1 /\ \A i \in 1..n : l[i] \in Id
  BY LenProperties
<1>2. a \in Seq(Id) /\ Len(a) = p - 1 /\ \A i \in 1..(p - 1) : a[i] = l[i]
  <2>1. \A i \in 1..(p - 1) : l[i] \in Id
    BY <1>1
  <2>2. /\ a \in Seq(Id) /\ Len(a) = (IF 1 <= p - 1 THEN (p - 1) - 1 + 1 ELSE 0)
        /\ \A i \in 1..((p - 1) - 1 + 1) : a[i] = l[1 + i - 1]
    BY <1>1, <2>1, SubSeqProperties
  <2> HIDE DEF a
  <2> QED
    BY <1>1, <2>2
<1>3. /\ b \in Seq(Id) /\ Len(b) = n - p + 1
      /\ \A i \in 1..(n - p + 1) : b[i] = l[p + i - 1]
  <2>1. \A i \in p..n : l[i] \in Id
    BY <1>1
  <2>2. /\ b \in Seq(Id) /\ Len(b) = (IF p <= n THEN n - p + 1 ELSE 0)
        /\ \A i \in 1..(n - p + 1) : b[i] = l[p + i - 1]
    BY <1>1, <2>1, SubSeqProperties
  <2> HIDE DEF b
  <2> QED
    BY <1>1, <2>2
<1> DEFINE s == <<e>>
<1>4. s \in Seq(Id) /\ Len(s) = 1 /\ s[1] = e
  OBVIOUS
<1>5. InsertAt(l, p, e) = a \o s \o b
  BY DEF InsertAt
<1> HIDE DEF a, b, s
<1> DEFINE c == a \o s
<1>6. /\ c \in Seq(Id) /\ Len(c) = (p - 1) + 1
      /\ \A i \in 1..((p - 1) + 1) : c[i] = IF i <= p - 1 THEN a[i] ELSE s[i - (p - 1)]
  <2>1. /\ c \in Seq(Id) /\ Len(c) = Len(a) + Len(s)
        /\ \A i \in 1..(Len(a) + Len(s)) : c[i] = IF i <= Len(a) THEN a[i] ELSE s[i - Len(a)]
    BY <1>2, <1>4, ConcatProperties
  <2>2. Len(a) + Len(s) = (p - 1) + 1
    BY <1>1, <1>2, <1>4
  <2> HIDE DEF c
  <2> QED
    BY <1>2, <2>1, <2>2
<1> HIDE DEF c
<1>7. /\ c \o b \in Seq(Id) /\ Len(c \o b) = Len(c) + Len(b)
      /\ \A i \in 1..(Len(c) + Len(b)) : (c \o b)[i] = IF i <= Len(c) THEN c[i] ELSE b[i - Len(c)]
  BY <1>3, <1>6, ConcatProperties
<1> DEFINE w == c \o b
<1>8. w = InsertAt(l, p, e)
  BY <1>5 DEF c
<1> HIDE DEF w
<1>9. w \in Seq(Id) /\ Len(w) = n + 1
  BY <1>1, <1>3, <1>6, <1>7 DEF w
<1>10. \A i \in 1..(n + 1) : w[i] = IF i <= p THEN c[i] ELSE b[i - p]
  <2>1. Len(c) = p /\ Len(c) + Len(b) = n + 1
    BY <1>1, <1>3, <1>6
  <2> QED
    BY <1>7, <2>1 DEF w
<1>11. ASSUME NEW i \in 1..(n + 1)
       PROVE  w[i] = IF i < p THEN l[i] ELSE IF i = p THEN e ELSE l[i - 1]
  <2>1. CASE i < p
    <3>1. i \in 1..(p - 1) /\ i <= p /\ i \in 1..((p - 1) + 1)
      BY <1>1, <2>1
    <3> QED
      BY <1>2, <1>6, <1>10, <2>1, <3>1
  <2>2. CASE i = p
    <3>1. i <= p /\ i \in 1..((p - 1) + 1) /\ ~(i <= p - 1) /\ i - (p - 1) = 1
      BY <1>1, <2>2
    <3> QED
      BY <1>4, <1>6, <1>10, <2>2, <3>1
  <2>3. CASE i > p
    <3>1. ~(i <= p) /\ i - p \in 1..(n - p + 1) /\ p + (i - p) - 1 = i - 1
      BY <1>1, <2>3
    <3> QED
      BY <1>3, <1>10, <2>3, <3>1
  <2> QED
    BY <1>1, <2>1, <2>2, <2>3
<1> HIDE DEF n
<1> QED
  BY <1>8, <1>9, <1>11 DEF n

\* RemoveAt closes the gap at position p.
LEMMA RemoveAtProperties ==
  ASSUME NEW l \in Seq(Id), NEW p \in 1..Len(l)
  PROVE  /\ RemoveAt(l, p) \in Seq(Id)
         /\ Len(RemoveAt(l, p)) = Len(l) - 1
         /\ \A i \in 1..(Len(l) - 1) :
              RemoveAt(l, p)[i] = IF i < p THEN l[i] ELSE l[i + 1]
<1> DEFINE a == SubSeq(l, 1, p - 1)
           b == SubSeq(l, p + 1, Len(l))
           n == Len(l)
<1>1. n \in Nat /\ p \in Int /\ p >= 1 /\ p <= n /\ \A i \in 1..n : l[i] \in Id
  BY LenProperties
<1>2. a \in Seq(Id) /\ Len(a) = p - 1 /\ \A i \in 1..(p - 1) : a[i] = l[i]
  <2>1. \A i \in 1..(p - 1) : l[i] \in Id
    BY <1>1
  <2>2. /\ a \in Seq(Id) /\ Len(a) = (IF 1 <= p - 1 THEN (p - 1) - 1 + 1 ELSE 0)
        /\ \A i \in 1..((p - 1) - 1 + 1) : a[i] = l[1 + i - 1]
    BY <1>1, <2>1, SubSeqProperties
  <2> HIDE DEF a
  <2> QED
    BY <1>1, <2>2
<1>3. /\ b \in Seq(Id) /\ Len(b) = n - p
      /\ \A i \in 1..(n - p) : b[i] = l[p + i]
  <2>1. \A i \in (p + 1)..n : l[i] \in Id
    BY <1>1
  <2>2. /\ b \in Seq(Id) /\ Len(b) = (IF p + 1 <= n THEN n - (p + 1) + 1 ELSE 0)
        /\ \A i \in 1..(n - (p + 1) + 1) : b[i] = l[(p + 1) + i - 1]
    BY <1>1, <2>1, SubSeqProperties
  <2> HIDE DEF b
  <2> QED
    BY <1>1, <2>2
<1>4. RemoveAt(l, p) = a \o b
  BY DEF RemoveAt
<1> HIDE DEF a, b
<1> DEFINE w == a \o b
<1>5. /\ w \in Seq(Id) /\ Len(w) = Len(a) + Len(b)
      /\ \A i \in 1..(Len(a) + Len(b)) : w[i] = IF i <= Len(a) THEN a[i] ELSE b[i - Len(a)]
  BY <1>2, <1>3, ConcatProperties
<1> HIDE DEF w
<1>6. Len(w) = n - 1 /\ \A i \in 1..(n - 1) : w[i] = IF i <= p - 1 THEN a[i] ELSE b[i - (p - 1)]
  BY <1>1, <1>2, <1>3, <1>5
<1>7. ASSUME NEW i \in 1..(n - 1) PROVE w[i] = IF i < p THEN l[i] ELSE l[i + 1]
  <2>1. CASE i < p
    <3>1. i \in 1..(p - 1) /\ i <= p - 1
      BY <1>1, <2>1
    <3> QED
      BY <1>2, <1>6, <2>1, <3>1
  <2>2. CASE ~(i < p)
    <3>1. ~(i <= p - 1) /\ i - (p - 1) \in 1..(n - p) /\ p + (i - (p - 1)) = i + 1
      BY <1>1, <2>2
    <3> QED
      BY <1>3, <1>6, <2>2, <3>1
  <2> QED
    BY <2>1, <2>2
<1> HIDE DEF n
<1> QED
  BY <1>4, <1>5, <1>6, <1>7 DEF n, w
-------------------------------------------------------------------------------
\* Sets of numbers have a least element, and bounded ones a greatest.
LEMMA LeastOf ==
  ASSUME NEW S, S \subseteq Nat, S # {}
  PROVE  Min(S) \in S /\ \A y \in S : Min(S) <= y
<1> DEFINE Less == OpToRel(<, Nat)
<1>1. IsWellFoundedOn(Less, Nat)
  BY NatLessThanWellFounded
<1>2. \A x, y \in Nat : y < x => <<y, x>> \in Less
  BY DEF OpToRel
<1> HIDE DEF Less
<1>3. PICK x \in S : \A y \in S : ~(<<y, x>> \in Less)
  BY <1>1, WFMin
<1>4. \A y \in S : ~(y < x)
  BY <1>2, <1>3
<1>5. \E z \in S : \A y \in S : z <= y
  <2>1. \A y \in S : x \in Nat /\ y \in Nat /\ ~(y < x)
    BY <1>3, <1>4
  <2>2. \A y \in S : x <= y
    BY <2>1
  <2> QED
    BY <1>3, <2>2
<1> QED
  BY <1>5 DEF Min

\* A bounded set of integers has a greatest element.
LEMMA GreatestOf ==
  ASSUME NEW S, S \subseteq Int, S # {}, NEW b \in Int, \A x \in S : x <= b
  PROVE  Max(S) \in S /\ \A y \in S : Max(S) >= y
<1> DEFINE below == {b - x : x \in S}
<1>1. below \subseteq Nat /\ below # {}
  <2>1. \A x \in S : b - x \in Nat
    OBVIOUS
  <2>2. PICK x \in S : TRUE
    OBVIOUS
  <2> QED
    BY <2>1, <2>2
<1>2. Min(below) \in below /\ \A y \in below : Min(below) <= y
  BY <1>1, LeastOf
<1>3. PICK x \in S : Min(below) = b - x
  BY <1>2
<1>4. \A y \in S : x >= y
  <2>1. SUFFICES ASSUME NEW y \in S PROVE x >= y
    OBVIOUS
  <2>2. b - x <= b - y
    BY <1>2, <1>3
  <2> QED
    BY <2>2
<1> QED
  BY <1>4 DEF Max

\* Of two numbers Max takes the greater.
LEMMA GreaterOf ==
  ASSUME NEW a \in Int, NEW b \in Int
  PROVE  Max({a, b}) = IF a > b THEN a ELSE b
<1>1. CASE a > b
  <2>1. Max({a, b}) \in {a, b} /\ \A y \in {a, b} : Max({a, b}) >= y
    BY <1>1, GreatestOf
  <2> QED
    BY <1>1, <2>1
<1>2. CASE ~(a > b)
  <2>1. Max({a, b}) \in {a, b} /\ \A y \in {a, b} : Max({a, b}) >= y
    BY <1>2, GreatestOf
  <2> QED
    BY <1>2, <2>1
<1> QED
  BY <1>1, <1>2

\* The first n values of a function have an upper bound.
LEMMA Bounded ==
  ASSUME NEW n \in Nat, NEW g, \A i \in 1..n : g[i] \in Int
  PROVE  \E b \in Int : \A i \in 1..n : g[i] <= b
<1> DEFINE free(m) == \A b \in Int : \E i \in 1..m : i <= n /\ g[i] > b
           S == {m \in Nat : free(m)}
<1>1. SUFFICES ASSUME n \in S PROVE FALSE
  <2>1. PICK b \in Int : ~(\E i \in 1..n : i <= n /\ g[i] > b)
    BY <1>1
  <2> QED
    BY <2>1
<1>2. Min(S) \in S /\ \A y \in S : Min(S) <= y
  BY <1>1, LeastOf
<1> DEFINE m == Min(S)
<1>3. m \in Nat /\ free(m)
  BY <1>2
<1>4. m # 0
  BY <1>3
<1>5. m - 1 \in Nat /\ ~free(m - 1)
  <2>1. m - 1 \in Nat /\ ~(m <= m - 1)
    BY <1>3, <1>4
  <2>2. \A y \in S : m <= y
    BY <1>2
  <2> HIDE DEF m
  <2>3. ~(m - 1 \in S)
    BY <2>1, <2>2
  <2> QED
    BY <2>1, <2>3
<1> HIDE DEF m
<1>6. PICK b \in Int : \A i \in 1..(m - 1) : i <= n => g[i] <= b
  BY <1>5
<1>7. CASE m <= n
  <2>1. m \in 1..n /\ g[m] \in Int
    BY <1>3, <1>4, <1>7
  <2>2. PICK c \in Int : c >= b /\ c >= g[m]
    BY <2>1
  <2>3. \A i \in 1..m : i <= n => g[i] <= c
    <3>1. SUFFICES ASSUME NEW i \in 1..m, i <= n PROVE g[i] <= c
      OBVIOUS
    <3>2. CASE i = m
      BY <2>2, <3>2
    <3>3. CASE i # m
      <4>1. i \in 1..(m - 1) /\ i \in 1..n
        BY <1>3, <3>1, <3>3
      <4> QED
        BY <1>6, <2>2, <3>1, <4>1
    <3> QED
      BY <3>2, <3>3
  <2>4. PICK i \in 1..m : i <= n /\ g[i] > c
    BY <1>3
  <2>5. i \in 1..n /\ g[i] \in Int
    BY <1>3, <2>4
  <2> QED
    BY <2>3, <2>4, <2>5, <2>2
<1>8. CASE m > n
  <2>1. PICK i \in 1..m : i <= n /\ g[i] > b
    BY <1>3
  <2>2. i \in 1..(m - 1) /\ i \in 1..n /\ g[i] \in Int
    BY <1>3, <1>8, <2>1
  <2> QED
    BY <1>6, <2>1, <2>2
<1> QED
  BY <1>3, <1>7, <1>8
-------------------------------------------------------------------------------
\* Times of events are numbers.
Timed(time) == DOMAIN time \subseteq Id /\ \A x \in DOMAIN time : time[x] \in Nat

\* Where an element of a row is.
LEMMA PlaceOf ==
  ASSUME NEW l, NEW time, Row(l, time), NEW i \in 1..Len(l)
  PROVE  Position(l, l[i]) = i /\ Place(l, l[i]) = i /\ l[i] # NoEvent
<1>1. DOMAIN l = 1..Len(l) /\ l[i] \in Id
  BY LenProperties DEF Row
<1>2. \A j \in DOMAIN l : l[j] = l[i] => j = i
  BY <1>1 DEF Row
<1>3. Position(l, l[i]) = i
  BY <1>1, <1>2 DEF Position
<1> QED
  BY <1>1, <1>3 DEF Place, Id, NoEvent

\* The place of an event of a list, or behind its end, is the one it is found at.
LEMMA PlaceIn ==
  ASSUME NEW l, NEW time, Row(l, time), NEW n \in Elements(l) \cup {NoEvent}
  PROVE  /\ Place(l, n) \in 1..(Len(l) + 1) /\ Len(l) \in Nat
         /\ n = NoEvent => Place(l, n) = Len(l) + 1
         /\ n # NoEvent => Place(l, n) \in 1..Len(l) /\ l[Place(l, n)] = n
<1>1. Len(l) \in Nat
  BY LenProperties DEF Row
<1>2. CASE n = NoEvent
  BY <1>1, <1>2 DEF Place
<1>3. CASE n # NoEvent
  <2>1. PICK i \in 1..Len(l) : l[i] = n
    BY <1>3 DEF Elements, Part
  <2>2. Place(l, n) = i
    BY <2>1, PlaceOf
  <2> QED
    BY <1>1, <1>3, <2>1, <2>2
<1> QED
  BY <1>2, <1>3

\* NoEvent is no element.
LEMMA NotNull ==
  ASSUME NEW l, NEW time, Row(l, time), NEW e \in Elements(l)
  PROVE  e # NoEvent /\ e \in DOMAIN time
<1>1. PICK i \in 1..Len(l) : l[i] = e
  BY DEF Elements, Part
<1> QED
  BY <1>1, PlaceOf DEF Row

\* The next event divides a row: what is done is before it, what is due is not.
LEMMA Divided ==
  ASSUME NEW l, NEW time, Row(l, time), NEW n \in Elements(l) \cup {NoEvent}
  PROVE  /\ Done(l, n) \cup Due(l, n) = Elements(l)
         /\ Done(l, n) \cap Due(l, n) = {}
         /\ n # NoEvent => /\ n \in Due(l, n)
                           /\ \A e \in Done(l, n) : time[e] <= time[n]
                           /\ \A e \in Due(l, n) : e # n => time[n] <= time[e]
         /\ n = NoEvent => Due(l, n) = {} /\ Done(l, n) = Elements(l)
<1> DEFINE k == Place(l, n)
<1>1. k \in 1..(Len(l) + 1) /\ Len(l) \in Nat
  BY PlaceIn
<1>2. n = NoEvent => k = Len(l) + 1
  BY PlaceIn
<1>3. n # NoEvent => k \in 1..Len(l) /\ l[k] = n
  BY PlaceIn
<1>4. Done(l, n) = Part(l, 1, k - 1) /\ Due(l, n) = Part(l, k, Len(l))
  BY DEF Done, Due
<1> HIDE DEF k
<1>5. Done(l, n) \cup Due(l, n) = Elements(l)
  <2>1. \A i \in 1..(k - 1) : i \in 1..Len(l)
    BY <1>1
  <2>2. \A i \in k..Len(l) : i \in 1..Len(l)
    BY <1>1
  <2>3. \A i \in 1..Len(l) : i \in 1..(k - 1) \/ i \in k..Len(l)
    BY <1>1
  <2> QED
    BY <1>4, <2>1, <2>2, <2>3 DEF Part, Elements
<1>6. Done(l, n) \cap Due(l, n) = {}
  <2>1. SUFFICES ASSUME NEW i \in 1..(k - 1), NEW j \in k..Len(l), l[i] = l[j] PROVE FALSE
    BY <1>4 DEF Part
  <2>2. i \in 1..Len(l) /\ j \in 1..Len(l) /\ i # j
    BY <1>1, <2>1
  <2> QED
    BY <2>1, <2>2 DEF Row
<1>7. ASSUME n # NoEvent
      PROVE  /\ n \in Due(l, n)
             /\ \A e \in Done(l, n) : time[e] <= time[n]
             /\ \A e \in Due(l, n) : e # n => time[n] <= time[e]
  <2>1. k \in k..Len(l)
    BY <1>1, <1>3, <1>7
  <2>2. ASSUME NEW i \in 1..(k - 1) PROVE time[l[i]] <= time[n]
    <3>1. i \in 1..Len(l) /\ i < k
      BY <1>1, <2>2
    <3> QED
      BY <1>3, <1>7, <3>1 DEF Row
  <2>3. ASSUME NEW i \in k..Len(l), l[i] # n PROVE time[n] <= time[l[i]]
    <3>1. i \in 1..Len(l) /\ k < i
      BY <1>1, <1>3, <1>7, <2>3
    <3> QED
      BY <1>3, <1>7, <3>1 DEF Row
  <2> QED
    BY <1>3, <1>4, <1>7, <2>1, <2>2, <2>3 DEF Part
<1>8. ASSUME n = NoEvent PROVE Due(l, n) = {} /\ Done(l, n) = Elements(l)
  <2>1. k..Len(l) = {} /\ k - 1 = Len(l)
    BY <1>1, <1>2, <1>8
  <2> QED
    BY <1>4, <2>1 DEF Part, Elements
<1> QED
  BY <1>5, <1>6, <1>7, <1>8

\* What InsertAt does to a part of a list before, around and behind the position.
LEMMA PartBefore ==
  ASSUME NEW l \in Seq(Id), NEW p \in 1..(Len(l) + 1), NEW e \in Id,
         NEW a \in Int, NEW b \in Int, 1 <= a, b < p
  PROVE  Part(InsertAt(l, p, e), a, b) = Part(l, a, b)
<1> DEFINE w == InsertAt(l, p, e)
           n == Len(l)
<1>1. n \in Nat /\ p \in Int /\ 1 <= p /\ p <= n + 1
  BY LenProperties
<1>2. \A i \in 1..(n + 1) : w[i] = IF i < p THEN l[i] ELSE IF i = p THEN e ELSE l[i - 1]
  BY InsertAtProperties
<1> HIDE DEF w, n
<1>3. \A i \in a..b : i \in 1..(n + 1) /\ i < p
  BY <1>1
<1>4. \A i \in a..b : w[i] = l[i]
  BY <1>2, <1>3
<1> QED
  BY <1>4 DEF Part, w

\* The part of a list an event is inserted into has that event besides.
LEMMA PartAround ==
  ASSUME NEW l \in Seq(Id), NEW p \in 1..(Len(l) + 1), NEW e \in Id,
         NEW a \in Int, NEW b \in Int, NEW c \in Int, b = c + 1,
         1 <= a, a <= p, p <= b, b <= Len(l) + 1
  PROVE  Part(InsertAt(l, p, e), a, b) = Part(l, a, c) \cup {e}
<1> DEFINE w == InsertAt(l, p, e)
           n == Len(l)
<1>1. n \in Nat /\ p \in Int /\ 1 <= p /\ p <= n + 1 /\ b <= n + 1
  BY LenProperties
<1>2. \A i \in 1..(n + 1) : w[i] = IF i < p THEN l[i] ELSE IF i = p THEN e ELSE l[i - 1]
  BY InsertAtProperties
<1> HIDE DEF w, n
<1>3. ASSUME NEW i \in a..b PROVE w[i] \in Part(l, a, c) \cup {e}
  <2>1. i \in 1..(n + 1) /\ i \in Int
    BY <1>1, <1>3
  <2>2. CASE i < p
    <3>1. i \in a..c /\ w[i] = l[i]
      BY <1>1, <1>2, <1>3, <2>1, <2>2
    <3> QED
      BY <3>1 DEF Part
  <2>3. CASE i = p
    <3>1. w[i] = e
      BY <1>1, <1>2, <2>1, <2>3
    <3> QED
      BY <3>1
  <2>4. CASE i > p
    <3>1. i - 1 \in a..c /\ ~(i < p) /\ i # p
      BY <1>1, <1>3, <2>1, <2>4
    <3>2. w[i] = l[i - 1]
      BY <1>2, <2>1, <3>1
    <3> QED
      BY <3>1, <3>2 DEF Part
  <2> QED
    BY <1>1, <2>1, <2>2, <2>3, <2>4
<1>4. e \in Part(w, a, b)
  <2>1. p \in a..b /\ p \in 1..(n + 1) /\ ~(p < p)
    BY <1>1
  <2> QED
    BY <1>2, <2>1 DEF Part
<1>5. ASSUME NEW i \in a..c PROVE l[i] \in Part(w, a, b)
  <2>1. i \in Int
    BY <1>5
  <2>2. CASE i < p
    <3>1. i \in a..b /\ i \in 1..(n + 1)
      BY <1>1, <1>5, <2>1, <2>2
    <3> QED
      BY <1>2, <2>2, <3>1 DEF Part
  <2>3. CASE ~(i < p)
    <3>1. /\ i + 1 \in a..b /\ i + 1 \in 1..(n + 1) /\ ~(i + 1 < p) /\ i + 1 # p
          /\ (i + 1) - 1 = i
      BY <1>1, <1>5, <2>1, <2>3
    <3>2. w[i + 1] = l[i]
      BY <1>2, <3>1
    <3> QED
      BY <3>1, <3>2 DEF Part
  <2> QED
    BY <2>2, <2>3
<1>6. /\ \A x \in Part(w, a, b) : x \in Part(l, a, c) \cup {e}
      /\ \A x \in Part(l, a, c) : x \in Part(w, a, b)
  BY <1>3, <1>5 DEF Part
<1>7. Part(w, a, b) = Part(l, a, c) \cup {e}
  BY <1>4, <1>6
<1> QED
  BY <1>7 DEF w

\* The events behind an inserted one move up by one.
LEMMA PartBehind ==
  ASSUME NEW l \in Seq(Id), NEW p \in 1..(Len(l) + 1), NEW e \in Id,
         NEW a \in Int, NEW b \in Int, NEW c \in Int, NEW d \in Int,
         a = c + 1, b = d + 1, p < a, b <= Len(l) + 1
  PROVE  Part(InsertAt(l, p, e), a, b) = Part(l, c, d)
<1> DEFINE w == InsertAt(l, p, e)
           n == Len(l)
<1>1. n \in Nat /\ p \in Int /\ 1 <= p /\ p <= n + 1 /\ b <= n + 1
  BY LenProperties
<1>2. \A i \in 1..(n + 1) : w[i] = IF i < p THEN l[i] ELSE IF i = p THEN e ELSE l[i - 1]
  BY InsertAtProperties
<1> HIDE DEF w, n
<1>3. ASSUME NEW i \in a..b PROVE w[i] = l[i - 1] /\ i - 1 \in c..d
  <2>1. i \in 1..(n + 1) /\ ~(i < p) /\ i # p /\ i - 1 \in c..d
    BY <1>1, <1>3
  <2> QED
    BY <1>2, <2>1
<1>4. ASSUME NEW i \in c..d PROVE w[i + 1] = l[i] /\ i + 1 \in a..b
  <2>1. i + 1 \in 1..(n + 1) /\ ~(i + 1 < p) /\ i + 1 # p /\ i + 1 \in a..b /\ (i + 1) - 1 = i
    BY <1>1, <1>4
  <2>2. w[i + 1] = l[(i + 1) - 1]
    BY <1>2, <2>1
  <2> QED
    BY <2>1, <2>2
<1>5. /\ \A i \in a..b : w[i] \in Part(l, c, d)
      /\ \A i \in c..d : l[i] \in Part(w, a, b)
  BY <1>3, <1>4 DEF Part
<1>6. Part(w, a, b) = Part(l, c, d)
  BY <1>5 DEF Part
<1> QED
  BY <1>6 DEF w

\* And what RemoveAt does to it.
LEMMA PartRemovedBefore ==
  ASSUME NEW l \in Seq(Id), NEW p \in 1..Len(l),
         NEW a \in Int, NEW b \in Int, 1 <= a, b < p
  PROVE  Part(RemoveAt(l, p), a, b) = Part(l, a, b)
<1> DEFINE w == RemoveAt(l, p)
           n == Len(l)
<1>1. n \in Nat /\ p \in Int /\ 1 <= p /\ p <= n
  BY LenProperties
<1>2. \A i \in 1..(n - 1) : w[i] = IF i < p THEN l[i] ELSE l[i + 1]
  BY RemoveAtProperties
<1> HIDE DEF w, n
<1>3. \A i \in a..b : i \in 1..(n - 1) /\ i < p
  BY <1>1
<1>4. \A i \in a..b : w[i] = l[i]
  BY <1>2, <1>3
<1> QED
  BY <1>4 DEF Part, w

\* The events behind it move down by one.
LEMMA PartRemovedBehind ==
  ASSUME NEW l \in Seq(Id), NEW p \in 1..Len(l),
         NEW a \in Int, NEW b \in Int, NEW c \in Int, NEW d \in Int,
         c = a + 1, d = b + 1, p <= a, d <= Len(l)
  PROVE  Part(RemoveAt(l, p), a, b) = Part(l, c, d)
<1> DEFINE w == RemoveAt(l, p)
           n == Len(l)
<1>1. n \in Nat /\ p \in Int /\ 1 <= p /\ p <= n /\ d <= n
  BY LenProperties
<1>2. \A i \in 1..(n - 1) : w[i] = IF i < p THEN l[i] ELSE l[i + 1]
  BY RemoveAtProperties
<1> HIDE DEF w, n
<1>3. ASSUME NEW i \in a..b PROVE w[i] = l[i + 1] /\ i + 1 \in c..d
  <2>1. i \in 1..(n - 1) /\ ~(i < p) /\ i + 1 \in c..d
    BY <1>1, <1>3
  <2> QED
    BY <1>2, <2>1
<1>4. ASSUME NEW i \in c..d PROVE w[i - 1] = l[i] /\ i - 1 \in a..b
  <2>1. i - 1 \in 1..(n - 1) /\ ~(i - 1 < p) /\ i - 1 \in a..b /\ (i - 1) + 1 = i
    BY <1>1, <1>4
  <2>2. w[i - 1] = l[(i - 1) + 1]
    BY <1>2, <2>1
  <2> QED
    BY <2>1, <2>2
<1>5. /\ \A i \in a..b : w[i] \in Part(l, c, d)
      /\ \A i \in c..d : l[i] \in Part(w, a, b)
  BY <1>3, <1>4 DEF Part
<1>6. Part(w, a, b) = Part(l, c, d)
  BY <1>5 DEF Part
<1> QED
  BY <1>6 DEF w

-------------------------------------------------------------------------------
\* An event e of time t enters a row at a position p where it is in order.
Entering(l, time, e, t, p, time2) ==
  /\ Row(l, time) /\ Timed(time)
  /\ e \in Id /\ e \notin DOMAIN time /\ t \in Nat
  /\ time2 = [x \in DOMAIN time \cup {e} |-> IF x = e THEN t ELSE time[x]]
  /\ p \in 1..(Len(l) + 1)
  /\ \A i \in 1..(p - 1) : time[l[i]] <= t
  /\ \A i \in p..Len(l) : t <= time[l[i]]

\* A list stays a row.
LEMMA EnteredRow ==
  ASSUME NEW l, NEW time, NEW e, NEW t, NEW p, NEW time2,
         Entering(l, time, e, t, p, time2)
  PROVE  Row(InsertAt(l, p, e), time2) /\ Elements(InsertAt(l, p, e)) = Elements(l) \cup {e}
<1> DEFINE w == InsertAt(l, p, e)
           n == Len(l)
<1>1. l \in Seq(Id) /\ n \in Nat /\ p \in Int /\ 1 <= p /\ p <= n + 1 /\ e \in Id
  BY LenProperties DEF Entering, Row
<1>2. /\ w \in Seq(Id)
      /\ Len(w) = n + 1
      /\ \A i \in 1..(n + 1) : w[i] = IF i < p THEN l[i] ELSE IF i = p THEN e ELSE l[i - 1]
  BY <1>1, InsertAtProperties
<1>3. Part(w, 1, n + 1) = Part(l, 1, n) \cup {e}
  <2>1. n + 1 \in Int /\ n + 1 <= Len(l) + 1 /\ 1 <= 1 /\ p \in 1..(Len(l) + 1)
    BY <1>1
  <2> HIDE DEF n
  <2> QED
    BY <1>1, <2>1, PartAround
<1>4. Elements(w) = Elements(l) \cup {e}
  BY <1>1, <1>2, <1>3 DEF Elements
<1> HIDE DEF w
<1> DEFINE old(i) == IF i < p THEN i ELSE i - 1
<1>5. ASSUME NEW i \in 1..(n + 1), i # p
      PROVE  /\ old(i) \in 1..n /\ w[i] = l[old(i)] /\ w[i] \in DOMAIN time /\ w[i] # e
             /\ time2[w[i]] = time[l[old(i)]]
             /\ i < p => time2[w[i]] <= t
             /\ i > p => t <= time2[w[i]]
  <2>1. i \in Int /\ old(i) \in 1..n /\ (i < p => old(i) \in 1..(p - 1)) /\ (i > p => old(i) \in p..n)
    BY <1>1, <1>5
  <2>2. w[i] = l[old(i)]
    BY <1>2, <1>5
  <2> HIDE DEF old
  <2>3. w[i] \in DOMAIN time /\ w[i] # e
    BY <2>1, <2>2 DEF Entering, Row
  <2>4. time2[w[i]] = time[l[old(i)]]
    BY <2>2, <2>3 DEF Entering
  <2>5. i < p => time[l[old(i)]] <= t
    BY <2>1 DEF Entering
  <2>6. i > p => t <= time[l[old(i)]]
    BY <2>1 DEF Entering, n
  <2> QED
    BY <2>1, <2>2, <2>3, <2>4, <2>5, <2>6
<1>6. w[p] = e /\ time2[w[p]] = t /\ p \in 1..(n + 1)
  <2>1. p \in 1..(n + 1) /\ ~(p < p)
    BY <1>1
  <2> QED
    BY <1>2, <2>1 DEF Entering
<1>7. ASSUME NEW i \in 1..(n + 1), NEW j \in 1..(n + 1), w[i] = w[j] PROVE i = j
  <2>1. CASE i = p \/ j = p
    BY <1>5, <1>6, <1>7, <2>1
  <2>2. CASE i # p /\ j # p
    <3>1. old(i) \in 1..n /\ old(j) \in 1..n /\ l[old(i)] = l[old(j)]
      BY <1>5, <1>7, <2>2
    <3>2. old(i) = old(j)
      BY <3>1 DEF Entering, Row, n
    <3> QED
      BY <1>1, <2>2, <3>2
  <2> QED
    BY <2>1, <2>2
<1>8. ASSUME NEW i \in 1..(n + 1), NEW j \in 1..(n + 1), i < j
      PROVE  time2[w[i]] <= time2[w[j]]
  <2>1. i \in Int /\ j \in Int /\ p \in Int
    BY <1>1, <1>8
  <2>2. CASE i = p
    BY <1>5, <1>6, <1>8, <2>1, <2>2
  <2>3. CASE j = p
    BY <1>5, <1>6, <1>8, <2>1, <2>3
  <2>4. CASE i # p /\ j # p
    <3>1. /\ old(i) \in 1..n /\ old(j) \in 1..n
          /\ time2[w[i]] = time[l[old(i)]] /\ time2[w[j]] = time[l[old(j)]]
      BY <1>5, <2>4
    <3>2. old(i) < old(j)
      BY <1>8, <2>1, <2>4
    <3> QED
      BY <3>1, <3>2 DEF Entering, Row, n
  <2> QED
    BY <2>2, <2>3, <2>4
<1>9. ASSUME NEW i \in 1..(n + 1) PROVE w[i] \in DOMAIN time2
  BY <1>5, <1>6 DEF Entering
<1> QED
  BY <1>2, <1>4, <1>7, <1>8, <1>9 DEF Row, w

\* Behind the next event, it is due.
LEMMA EnteredBehind ==
  ASSUME NEW l, NEW time, NEW e, NEW t, NEW p, NEW time2,
         Entering(l, time, e, t, p, time2), NEW n \in Elements(l), Place(l, n) < p
  PROVE  /\ Done(InsertAt(l, p, e), n) = Done(l, n)
         /\ Due(InsertAt(l, p, e), n) = Due(l, n) \cup {e}
<1> DEFINE w == InsertAt(l, p, e)
           m == Len(l)
           k == Place(l, n)
<1>1. Row(l, time) /\ l \in Seq(Id) /\ e \in Id /\ p \in 1..(m + 1)
  BY DEF Entering, Row
<1>2. k \in 1..m /\ l[k] = n /\ m \in Nat
  <2>1. n # NoEvent
    BY <1>1, NotNull
  <2> QED
    BY <1>1, <2>1, PlaceIn
<1>3. k \in Int /\ m \in Nat /\ p \in Int /\ 1 <= k /\ k < p /\ p <= m + 1
  BY <1>1, <1>2
<1>4. Row(w, time2)
  BY EnteredRow
<1>5. Len(w) = m + 1 /\ w[k] = n
  <2>1. k \in 1..(m + 1) /\ k < p
    BY <1>3
  <2> QED
    BY <1>1, <1>2, <2>1, InsertAtProperties
<1> HIDE DEF k
<1>6. Place(w, n) = k
  <2>1. k \in 1..Len(w)
    BY <1>3, <1>5
  <2> HIDE DEF w
  <2> QED
    BY <1>4, <1>5, <2>1, PlaceOf
<1>7. Part(w, 1, k - 1) = Part(l, 1, k - 1)
  <2>1. k - 1 \in Int /\ 1 <= 1 /\ k - 1 < p
    BY <1>3
  <2> QED
    BY <1>1, <2>1, PartBefore
<1>8. Part(w, k, m + 1) = Part(l, k, m) \cup {e}
  <2>1. /\ 1 <= k /\ m + 1 \in Int /\ m + 1 <= Len(l) + 1 /\ k <= p /\ p <= m + 1
        /\ p \in 1..(Len(l) + 1)
    BY <1>3
  <2> HIDE DEF m
  <2> QED
    BY <1>1, <1>3, <2>1, PartAround
<1> HIDE DEF w
<1> QED
  BY <1>5, <1>6, <1>7, <1>8 DEF Done, Due, k, w

\* At the place of the next event, it is the next one, or done.
LEMMA EnteredAt ==
  ASSUME NEW l, NEW time, NEW e, NEW t, NEW p, NEW time2,
         Entering(l, time, e, t, p, time2), NEW n \in Elements(l) \cup {NoEvent},
         p = Place(l, n)
  PROVE  /\ Done(InsertAt(l, p, e), e) = Done(l, n)
         /\ Due(InsertAt(l, p, e), e) = Due(l, n) \cup {e}
         /\ Done(InsertAt(l, p, e), n) = Done(l, n) \cup {e}
         /\ Due(InsertAt(l, p, e), n) = Due(l, n)
<1> DEFINE w == InsertAt(l, p, e)
           m == Len(l)
<1>1. Row(l, time) /\ l \in Seq(Id) /\ e \in Id /\ p \in 1..(m + 1)
  BY DEF Entering, Row
<1>2. m \in Nat /\ p \in Int /\ 1 <= p /\ p <= m + 1
  BY <1>1, PlaceIn
<1>3. Row(w, time2)
  BY EnteredRow
<1>4. /\ Len(w) = m + 1
      /\ \A i \in 1..(m + 1) : w[i] = IF i < p THEN l[i] ELSE IF i = p THEN e ELSE l[i - 1]
  BY <1>1, InsertAtProperties
<1>5. Part(w, 1, p - 1) = Part(l, 1, p - 1)
  <2>1. p - 1 \in Int /\ 1 <= 1 /\ p - 1 < p
    BY <1>2
  <2> QED
    BY <1>1, <2>1, PartBefore
<1>6. Part(w, p, m + 1) = Part(l, p, m) \cup {e}
  <2>1. /\ 1 <= p /\ m + 1 \in Int /\ m + 1 <= Len(l) + 1 /\ p <= m + 1 /\ p <= p
        /\ p \in 1..(Len(l) + 1)
    BY <1>2
  <2> HIDE DEF m
  <2> QED
    BY <1>1, <1>2, <2>1, PartAround
<1>7. Part(w, 1, p) = Part(l, 1, p - 1) \cup {e}
  <2> DEFINE q == p - 1
  <2>1. /\ p <= Len(l) + 1 /\ 1 <= 1 /\ 1 <= p /\ p <= p /\ q \in Int /\ p = q + 1
        /\ p \in 1..(Len(l) + 1)
    BY <1>2
  <2> HIDE DEF m, q
  <2>2. Part(w, 1, p) = Part(l, 1, q) \cup {e}
    BY <1>1, <1>2, <2>1, PartAround
  <2> QED
    BY <2>2 DEF q
<1>8. Part(w, p + 1, m + 1) = Part(l, p, m)
  <2>1. /\ p + 1 \in Int /\ m + 1 \in Int /\ m + 1 <= Len(l) + 1 /\ p < p + 1
        /\ p \in 1..(Len(l) + 1)
    BY <1>2
  <2> HIDE DEF m
  <2> QED
    BY <1>1, <1>2, <2>1, PartBehind
<1> HIDE DEF w
<1>9. Place(w, e) = p
  <2>1. p \in 1..Len(w) /\ p \in 1..(m + 1) /\ w[p] = e
    BY <1>2, <1>4
  <2> HIDE DEF m
  <2> QED
    BY <1>3, <2>1, PlaceOf
<1>10. Place(w, n) = p + 1
  <2>1. CASE n = NoEvent
    BY <1>2, <1>4, <2>1, PlaceIn DEF Place
  <2>2. CASE n # NoEvent
    <3>1. p \in 1..m /\ l[p] = n
      BY <1>1, <2>2, PlaceIn
    <3>2. p + 1 \in 1..Len(w) /\ p + 1 \in 1..(m + 1) /\ (p + 1) - 1 = p /\ w[p + 1] = l[p]
      BY <1>2, <1>4, <3>1
    <3> HIDE DEF m
    <3> QED
      BY <1>3, <3>1, <3>2, PlaceOf
  <2> QED
    BY <2>1, <2>2
<1>11. (p + 1) - 1 = p
  BY <1>2
<1> QED
  BY <1>4, <1>5, <1>6, <1>7, <1>8, <1>9, <1>10, <1>11 DEF Done, Due, w

\* The next event m leaves its row, and the one behind it takes its place; or it stays
\* (Drec), and the one behind it becomes the next.

\* The event n of the list l was executed and removed, which leaves l2, and m is the next.
Left(l, time, n, l2, m) ==
  /\ Row(l2, time)
  /\ Elements(l2) = Elements(l) \ {n}
  /\ m \in Elements(l2) \cup {NoEvent}
  /\ m # NoEvent => time[n] <= time[m]
  /\ Done(l2, m) = Done(l, n)
  /\ Due(l2, m) = Due(l, n) \ {n}

\* The event n of the list l was executed and stays in it, and m is the next one.
Stayed(l, time, n, m) ==
  /\ m \in Elements(l) \cup {NoEvent}
  /\ m # NoEvent => time[n] <= time[m]
  /\ Done(l, m) = Done(l, n) \cup {n}
  /\ Due(l, m) = Due(l, n) \ {n}

\* Reception events stay in their list when they have been executed.
LEMMA FollowingStays ==
  ASSUME NEW l, NEW time, Row(l, time), NEW n \in Elements(l)
  PROVE  Stayed(l, time, n, Following(l, n))
<1> DEFINE k == Place(l, n)
           s == Len(l)
<1>1. k \in 1..s /\ l[k] = n /\ s \in Nat /\ Position(l, n) = k /\ n # NoEvent
  <2>1. n # NoEvent
    BY NotNull
  <2> QED
    BY <2>1, PlaceIn DEF Place
<1> HIDE DEF k, s
<1>2. Part(l, 1, k) = Part(l, 1, k - 1) \cup {n}
  <2>1. \A i \in 1..k : i \in 1..(k - 1) \/ i = k
    BY <1>1
  <2>2. \A i \in 1..(k - 1) : i \in 1..k
    BY <1>1
  <2>3. k \in 1..k
    BY <1>1
  <2> QED
    BY <1>1, <2>1, <2>2, <2>3 DEF Part
<1>3. Part(l, k + 1, s) = Part(l, k, s) \ {n}
  <2>1. \A i \in (k + 1)..s : i \in k..s /\ i \in 1..s /\ i # k
    BY <1>1
  <2>2. \A i \in k..s : i \in (k + 1)..s \/ i = k
    BY <1>1
  <2>3. \A i \in (k + 1)..s : l[i] # n
    BY <1>1, <2>1 DEF Row, s
  <2> QED
    BY <1>1, <2>1, <2>2, <2>3 DEF Part
<1>4. CASE k < s
  <2>1. k + 1 \in 1..s /\ (k + 1) - 1 = k /\ k < k + 1
    BY <1>1, <1>4
  <2> DEFINE m == l[k + 1]
  <2>2. Following(l, n) = m
    BY <1>1, <1>4 DEF Following, s
  <2>3. Place(l, m) = k + 1 /\ m # NoEvent
    BY <2>1, PlaceOf DEF s
  <2>4. m \in Elements(l)
    BY <2>1 DEF Elements, Part, s
  <2>5. time[n] <= time[m]
    BY <1>1, <2>1 DEF Row, s
  <2> QED
    BY <1>2, <1>3, <2>1, <2>2, <2>3, <2>4, <2>5 DEF Stayed, Done, Due, k, s
<1>5. CASE ~(k < s)
  <2>1. Following(l, n) = NoEvent
    BY <1>1, <1>5 DEF Following, s
  <2>2. Place(l, NoEvent) = k + 1 /\ (k + 1) - 1 = k /\ k = s
    BY <1>1, <1>5 DEF Place, s
  <2> QED
    BY <1>2, <1>3, <2>1, <2>2 DEF Stayed, Done, Due, k, s
<1> QED
  BY <1>4, <1>5

\* Events of flows leave it.
LEMMA FollowingLeft ==
  ASSUME NEW l, NEW time, Row(l, time), NEW n \in Elements(l)
  PROVE  Left(l, time, n, RemoveAt(l, Position(l, n)), Following(l, n))
<1> DEFINE k == Place(l, n)
           s == Len(l)
           w == RemoveAt(l, k)
<1>1. /\ k \in 1..s /\ l[k] = n /\ s \in Nat /\ Position(l, n) = k /\ n # NoEvent
      /\ l \in Seq(Id)
  <2>1. n # NoEvent
    BY NotNull
  <2> QED
    BY <2>1, PlaceIn DEF Place, Row
<1>2. /\ w \in Seq(Id)
      /\ Len(w) = s - 1
      /\ \A i \in 1..(s - 1) : w[i] = IF i < k THEN l[i] ELSE l[i + 1]
  BY <1>1, RemoveAtProperties
<1>3. k \in Int /\ s \in Int /\ 1 <= k /\ k <= s
  BY <1>1
<1>4. Part(w, 1, k - 1) = Part(l, 1, k - 1)
  <2>1. k - 1 \in Int /\ 1 <= 1 /\ k - 1 < k
    BY <1>3
  <2> HIDE DEF k
  <2> QED
    BY <1>1, <2>1, PartRemovedBefore
<1>5. Part(w, k, s - 1) = Part(l, k + 1, s)
  <2> DEFINE d == s - 1
             c == k + 1
  <2>1. d \in Int /\ s = d + 1 /\ c \in Int /\ c = k + 1 /\ k <= k /\ s <= Len(l) /\ k \in 1..Len(l)
    BY <1>1, <1>3
  <2> HIDE DEF k, s, d, c
  <2>2. Part(RemoveAt(l, k), k, d) = Part(l, c, s)
    BY <1>1, <1>3, <2>1, PartRemovedBehind
  <2> QED
    BY <2>2 DEF c, d
<1>6. Stayed(l, time, n, Following(l, n))
  BY FollowingStays
<1> DEFINE m == Following(l, n)
<1>7. m = IF k < s THEN l[k + 1] ELSE NoEvent
  BY <1>1 DEF Following
<1> HIDE DEF k, s, w, m
<1> DEFINE old(i) == IF i < k THEN i ELSE i + 1
<1>8. \A i \in 1..(s - 1) : old(i) \in 1..s /\ w[i] = l[old(i)] /\ old(i) # k
  BY <1>2, <1>3
<1>9. \A i, j \in 1..(s - 1) : (i < j <=> old(i) < old(j)) /\ (old(i) = old(j) => i = j)
  BY <1>3
<1> HIDE DEF old
<1>10. Row(w, time)
  <2>1. \A i, j \in 1..(s - 1) : w[i] = w[j] => i = j
    BY <1>8, <1>9 DEF Row, s
  <2>2. \A i \in 1..(s - 1) : w[i] \in DOMAIN time
    BY <1>8 DEF Row, s
  <2>3. \A i, j \in 1..(s - 1) : i < j => time[w[i]] <= time[w[j]]
    BY <1>8, <1>9 DEF Row, s
  <2> QED
    BY <1>2, <2>1, <2>2, <2>3 DEF Row
<1>11. Place(w, m) = k
  <2>1. CASE k < s
    <3>1. k \in 1..(s - 1) /\ ~(k < k)
      BY <1>3, <2>1
    <3>2. w[k] = m /\ k \in 1..Len(w)
      BY <1>2, <1>7, <2>1, <3>1
    <3> QED
      BY <1>10, <3>2, PlaceOf
  <2>2. CASE ~(k < s)
    BY <1>2, <1>3, <1>7, <2>2 DEF Place
  <2> QED
    BY <2>1, <2>2
<1>12. Done(w, m) = Done(l, n)
  BY <1>4, <1>11 DEF Done, k
<1>13. Due(w, m) = Due(l, n) \ {n}
  <2>1. Due(l, m) = Part(l, k + 1, s)
    <3>1. Place(l, m) = k + 1
      <4>1. CASE k < s
        <5>1. k + 1 \in 1..s
          BY <1>3, <4>1
        <5> QED
          BY <1>7, <4>1, <5>1, PlaceOf DEF s
      <4>2. CASE ~(k < s)
        <5>1. k = s
          BY <1>3, <4>2
        <5> QED
          BY <1>7, <4>2, <5>1 DEF Place, s
      <4> QED
        BY <4>1, <4>2
    <3> QED
      BY <3>1 DEF Due, s
  <2>2. Due(w, m) = Part(w, k, s - 1)
    BY <1>2, <1>11 DEF Due
  <2> QED
    BY <1>5, <1>6, <2>1, <2>2 DEF Stayed, m
<1>14. Elements(w) = Elements(l) \ {n}
  <2>1. m \in Elements(w) \cup {NoEvent}
    <3>1. CASE k < s
      <4>1. k \in 1..(s - 1) /\ ~(k < k)
        BY <1>3, <3>1
      <4> QED
        BY <1>2, <1>7, <3>1, <4>1 DEF Elements, Part
    <3>2. CASE ~(k < s)
      BY <1>7, <3>2
    <3> QED
      BY <3>1, <3>2
  <2>2. Elements(w) = Done(l, n) \cup (Due(l, n) \ {n})
    BY <1>10, <1>12, <1>13, <2>1, Divided
  <2>3. /\ Done(l, n) \cup Due(l, n) = Elements(l)
        /\ Done(l, n) \cap Due(l, n) = {}
        /\ n \in Due(l, n)
    BY <1>1, Divided
  <2> QED
    BY <2>2, <2>3
<1>15. m \in Elements(w) \cup {NoEvent}
  <2>1. m \in Elements(l) \cup {NoEvent}
    BY <1>6 DEF Stayed, m
  <2>2. m # n
    <3>1. CASE k < s
      <4>1. k + 1 \in 1..s /\ k + 1 # k /\ k \in 1..s
        BY <1>3, <3>1
      <4> QED
        BY <1>1, <1>7, <3>1, <4>1 DEF Row, s
    <3>2. CASE ~(k < s)
      BY <1>1, <1>7, <3>2
    <3> QED
      BY <3>1, <3>2
  <2> QED
    BY <1>14, <2>1, <2>2
<1> QED
  BY <1>1, <1>6, <1>10, <1>12, <1>13, <1>14, <1>15 DEF Left, Stayed, m, w
-------------------------------------------------------------------------------
\* The times of the events, and what a new event adds.
LEMMA EventTimes ==
  ASSUME Typed
  PROVE  /\ Timed(EventTime)
         /\ DOMAIN EventTime = DOMAIN event
         /\ DOMAIN event = 1..Len(event) /\ Len(event) \in Nat
         /\ \A e \in DOMAIN event : EventTime[e] = event[e].time /\ event[e] \in Events
         /\ NextId \in Id /\ NextId \notin DOMAIN event
<1>1. event \in Seq(Events)
  BY DEF Typed
<1>2. DOMAIN event = 1..Len(event) /\ Len(event) \in Nat /\ \A e \in 1..Len(event) : event[e] \in Events
  BY <1>1, LenProperties
<1>3. \A e \in DOMAIN event : event[e].time \in Nat
  BY <1>2 DEF Events
<1>4. DOMAIN event \subseteq Id
  BY <1>2 DEF Id
<1>5. NextId \in Id /\ NextId \notin DOMAIN event
  BY <1>2 DEF Id, NextId
<1> QED
  BY <1>2, <1>3, <1>4, <1>5 DEF Timed, EventTime

\* A new event gets the next number and changes no other.
LEMMA EventAppended ==
  ASSUME Typed, NEW r \in Events, event' = Append(event, r)
  PROVE  /\ event' \in Seq(Events)
         /\ DOMAIN event' = DOMAIN event \cup {NextId}
         /\ \A e \in DOMAIN event : event'[e] = event[e]
         /\ event'[NextId] = r
         /\ EventTime' = [x \in DOMAIN EventTime \cup {NextId} |->
                           IF x = NextId THEN r.time ELSE EventTime[x]]
<1>1. event \in Seq(Events) /\ Len(event) \in Nat /\ DOMAIN event = 1..Len(event)
  BY EventTimes DEF Typed
<1>2. /\ event' \in Seq(Events) /\ Len(event') = Len(event) + 1
      /\ \A e \in 1..Len(event) : event'[e] = event[e]
      /\ event'[Len(event) + 1] = r
  BY <1>1, AppendProperties
<1>3. DOMAIN event' = 1..(Len(event) + 1)
  BY <1>2, LenProperties
<1>4. DOMAIN event' = DOMAIN event \cup {NextId}
  BY <1>1, <1>3 DEF NextId
<1>5. NextId \notin DOMAIN event /\ DOMAIN EventTime = DOMAIN event
  BY EventTimes
<1>6. EventTime' = [e \in DOMAIN event \cup {NextId} |-> event'[e].time]
  BY <1>4 DEF EventTime
<1>7. \A e \in DOMAIN event : event'[e].time = EventTime[e]
  BY <1>1, <1>2 DEF EventTime
<1>8. event'[NextId] = r
  BY <1>2 DEF NextId
<1> QED
  BY <1>1, <1>2, <1>4, <1>5, <1>6, <1>7, <1>8

\* A row is one for other times, too, that agree on its events.
LEMMA RowKept ==
  ASSUME NEW l, NEW time, NEW time2, Row(l, time),
         \A x \in DOMAIN time : x \in DOMAIN time2 /\ time2[x] = time[x]
  PROVE  Row(l, time2)
BY DEF Row

\* InsertByTime puts the new event where it is in order.
LEMMA InsertsByTime ==
  ASSUME Typed, NEW o \in Owner, Row(list[o], EventTime), NEW r \in Events,
         event' = Append(event, r)
  PROVE  \E p \in 1..(Len(list[o]) + 1) :
           /\ Entering(list[o], EventTime, NextId, r.time, p, EventTime')
           /\ InsertByTime(list[o], NextId, r.time) = InsertAt(list[o], p, NextId)
           /\ \A i \in p..Len(list[o]) : r.time < EventTime[list[o][i]]
<1> DEFINE l == list[o]
           t == r.time
           later == {i \in DOMAIN l : t < event[l[i]].time}
           p == IF later = {} THEN Len(l) + 1 ELSE Min(later)
<1>1. l \in Seq(Id) /\ DOMAIN l = 1..Len(l) /\ Len(l) \in Nat
  BY LenProperties DEF Row
<1>2. \A i \in 1..Len(l) : l[i] \in DOMAIN event /\ EventTime[l[i]] = event[l[i]].time
                           /\ EventTime[l[i]] \in Nat
  BY EventTimes DEF Row, Timed
<1>3. t \in Nat
  BY DEF Events
<1>4. InsertByTime(l, NextId, t) = InsertAt(l, p, NextId)
  BY DEF InsertByTime
<1>5. /\ p \in 1..(Len(l) + 1)
      /\ \A i \in 1..(p - 1) : i \in 1..Len(l) /\ i \notin later
      /\ \A i \in p..Len(l) : i \in 1..Len(l) /\ \E j \in later : j <= i
  <2> HIDE DEF l, t
  <2>1. CASE later = {}
    BY <1>1, <2>1
  <2>2. CASE later # {}
    <3>1. later \subseteq 1..Len(l) /\ later \subseteq Nat
      BY <1>1
    <3>2. Min(later) \in later /\ \A j \in later : Min(later) <= j
      BY <2>2, <3>1, LeastOf
    <3>3. p = Min(later)
      BY <2>2
    <3> HIDE DEF later, p
    <3>4. p \in later /\ p \in 1..Len(l) /\ \A j \in later : p <= j
      BY <3>1, <3>2, <3>3
    <3> HIDE <3>2, <3>3
    <3>5. \A i \in 1..(p - 1) : i \in 1..Len(l) /\ i \notin later
      <4>1. \A i \in 1..(p - 1) : i \in 1..Len(l) /\ ~(p <= i)
        BY <1>1, <3>4
      <4> QED
        BY <3>4, <4>1
    <3>6. \A i \in p..Len(l) : i \in 1..Len(l) /\ p <= i
      BY <1>1, <3>4
    <3> QED
      BY <1>1, <3>4, <3>5, <3>6
  <2> QED
    BY <2>1, <2>2
<1>6. \A i \in 1..(p - 1) : EventTime[l[i]] <= t
  <2> HIDE DEF p
  <2>1. \A i \in 1..(p - 1) : i \in DOMAIN l /\ i \in 1..Len(l) /\ ~(t < event[l[i]].time)
    BY <1>1, <1>5
  <2> HIDE DEF l, t, later
  <2> QED
    BY <1>2, <1>3, <2>1
<1>7. \A i \in p..Len(l) : t < EventTime[l[i]]
  <2> HIDE DEF p
  <2>1. SUFFICES ASSUME NEW i \in p..Len(l) PROVE t < EventTime[l[i]]
    OBVIOUS
  <2>2. PICK j \in later : j <= i
    BY <1>5
  <2>3. j \in 1..Len(l) /\ i \in 1..Len(l) /\ t < EventTime[l[j]] /\ (j = i \/ j < i)
    BY <1>1, <1>2, <1>5, <2>2
  <2>4. EventTime[l[j]] <= EventTime[l[i]]
    BY <1>2, <2>3 DEF Row
  <2> HIDE DEF l, t, later
  <2> QED
    BY <1>2, <1>3, <2>3, <2>4
<1>8. EventTime' = [x \in DOMAIN EventTime \cup {NextId} |->
                     IF x = NextId THEN t ELSE EventTime[x]]
  BY EventAppended
<1> HIDE DEF p
<1>9. Entering(l, EventTime, NextId, t, p, EventTime')
  <2>1. \A i \in p..Len(l) : t <= EventTime[l[i]]
    <3>1. \A i \in p..Len(l) : i \in 1..Len(l) /\ t < EventTime[l[i]]
      BY <1>5, <1>7
    <3> HIDE DEF l, t
    <3> QED
      BY <1>2, <1>3, <3>1
  <2> QED
    BY <1>3, <1>5, <1>6, <1>8, <2>1, EventTimes DEF Entering
<1> QED
  BY <1>4, <1>5, <1>7, <1>9
-------------------------------------------------------------------------------
\* What the list and the timer of o tell is the same for the events before and after a
\* step about another owner.
Behind(o, p) == \A e \in Done(list[p], next[p]) : event[e].time <= TimerOffset(o)

\* A step about the events of one owner, once mgen has started.
OwnStep(o) ==
  /\ ReallyStarted
  /\ UNCHANGED <<timerVars, started, stopped>>
  /\ Typed'
  /\ offset # NoOffset => flows' = flows
  /\ \A q \in Owner \ {o} : list'[q] = list[q] /\ next'[q] = next[q] /\ timer'[q] = timer[q]
  /\ DOMAIN event \subseteq DOMAIN event'
  /\ \A e \in DOMAIN event :
       /\ event'[e].time = event[e].time
       /\ event'[e].owner = event[e].owner
       /\ event[e].owner # o => event'[e].count = event[e].count
  /\ \A e \in DOMAIN event' \ DOMAIN event : event'[e].owner = o
  /\ Row(list'[o], EventTime')
  /\ \A e \in Elements(list'[o]) : event'[e].owner = o
  /\ next'[o] \in Elements(list'[o]) \cup {NoEvent}
  /\ timer'[o] # Never <=> next'[o] # NoEvent
  /\ timer'[o] # Never => timer'[o] >= now
  /\ \A e \in DOMAIN event' : event'[e].owner = o =>
       event'[e].count = IF e \in Due(list'[o], next'[o]) THEN 0 ELSE 1
  /\ o \in Flow => Done(list'[o], next'[o]) = Done(list[o], next[o])
  /\ next'[o] # NoEvent =>
       /\ TimerOffset(o)' >= 0
       /\ \A p \in Flow \cup {o} : Behind(o, p)'

\* Such a step keeps the invariant.
LEMMA OwnStepKeeps ==
  ASSUME Orderly, Inv, NEW o \in Owner, OwnStep(o)
  PROVE  Inv'
<1>1. /\ Typed /\ Typed'
      /\ offset' = offset /\ now' = now /\ mgenStarted' = mgenStarted
      /\ startTimer' = startTimer /\ stopped' = stopped /\ started' = started
      /\ ReallyStarted /\ ReallyStarted'
  BY DEF OwnStep, Inv, timerVars, ReallyStarted
<1>2. \A e \in DOMAIN EventTime : e \in DOMAIN EventTime' /\ EventTime'[e] = EventTime[e]
  BY DEF OwnStep, EventTime
<1>3. ASSUME NEW q \in Owner \ {o}
      PROVE  /\ list'[q] = list[q] /\ next'[q] = next[q] /\ timer'[q] = timer[q]
             /\ Row(list[q], EventTime) /\ Row(list[q], EventTime')
             /\ \A e \in Elements(list[q]) : e \in DOMAIN event /\ event'[e].owner = q
                                             /\ event'[e].time = event[e].time
             /\ next[q] \in Elements(list[q]) \cup {NoEvent}
  <2>1. /\ list'[q] = list[q] /\ next'[q] = next[q] /\ timer'[q] = timer[q]
        /\ Row(list[q], EventTime)
        /\ \A e \in Elements(list[q]) : event[e].owner = q
        /\ next[q] \in Elements(list[q]) \cup {NoEvent}
    BY DEF OwnStep, Inv, Listed
  <2>2. Row(list[q], EventTime')
    BY <1>2, <2>1, RowKept
  <2>3. \A e \in Elements(list[q]) : e \in DOMAIN event
    BY <2>1, NotNull DEF EventTime
  <2> QED
    BY <2>1, <2>2, <2>3 DEF OwnStep
<1>4. Listed'
  <2>1. SUFFICES ASSUME NEW q \in Owner
                 PROVE  /\ Row(list'[q], EventTime')
                        /\ \A e \in Elements(list'[q]) : event'[e].owner = q
                        /\ next'[q] \in Elements(list'[q]) \cup {NoEvent}
    BY DEF Listed, EventTime
  <2>2. CASE q = o
    BY <2>2 DEF OwnStep
  <2>3. CASE q # o
    BY <1>3, <2>3
  <2> QED
    BY <2>2, <2>3
<1>5. Ticking'
  <2>1. ASSUME NEW q \in Owner
        PROVE  /\ timer'[q] # Never <=> next'[q] # NoEvent
               /\ timer'[q] # Never => timer'[q] >= now
    <3>1. CASE q = o
      BY <3>1 DEF OwnStep
    <3>2. CASE q # o
      BY <1>3, <3>2 DEF Inv, Ticking
    <3> QED
      BY <3>1, <3>2
  <2> QED
    BY <1>1, <2>1 DEF Inv, Ticking
<1>6. Waiting'
  BY <1>1 DEF Waiting
<1>7. Counted'
  <2>1. SUFFICES ASSUME NEW e \in DOMAIN event'
                 PROVE  event'[e].count =
                          IF e \in Due(list'[event'[e].owner], next'[event'[e].owner]) THEN 0 ELSE 1
    BY DEF Counted
  <2>2. CASE event'[e].owner = o
    BY <2>1, <2>2 DEF OwnStep
  <2>3. CASE event'[e].owner # o
    <3>1. e \in DOMAIN event
      BY <2>1, <2>3 DEF OwnStep
    <3>2. event'[e].owner = event[e].owner /\ event'[e].count = event[e].count
      BY <2>3, <3>1 DEF OwnStep
    <3>3. event[e].owner \in Owner \ {o}
      BY <1>1, <2>3, <3>1, <3>2, EventTimes DEF Events
    <3>4. event[e].count = IF e \in Due(list[event[e].owner], next[event[e].owner]) THEN 0 ELSE 1
      BY <1>1, <3>1 DEF Inv, Counted
    <3> QED
      BY <1>3, <3>2, <3>3, <3>4
  <2> QED
    BY <2>2, <2>3
<1>8. Clocks'
  <2>1. ASSUME NEW p \in Flow
        PROVE  /\ Done(list'[p], next'[p]) = Done(list[p], next[p])
               /\ \A e \in Done(list[p], next[p]) : e \in DOMAIN event
                                                    /\ event'[e].time = event[e].time
    <3>1. p \in Owner
      BY DEF Owner
    <3>2. Done(list'[p], next'[p]) = Done(list[p], next[p])
      <4>1. CASE p = o
        BY <2>1, <4>1 DEF OwnStep
      <4>2. CASE p # o
        BY <1>3, <3>1, <4>2
      <4> QED
        BY <4>1, <4>2
    <3>3. \A e \in Done(list[p], next[p]) : e \in DOMAIN event
      <4>1. Row(list[p], EventTime) /\ next[p] \in Elements(list[p]) \cup {NoEvent}
        BY <3>1 DEF Inv, Listed
      <4>2. \A e \in Done(list[p], next[p]) : e \in Elements(list[p])
        BY <4>1, Divided
      <4> QED
        BY <4>1, <4>2, NotNull DEF EventTime
    <3> QED
      BY <3>2, <3>3 DEF OwnStep
  <2>2. ASSUME NEW q \in Owner, next'[q] # NoEvent
        PROVE  /\ TimerOffset(q)' >= 0
               /\ \A p \in Flow \cup {q} : \A e \in Done(list'[p], next'[p]) :
                    event'[e].time <= TimerOffset(q)'
    <3>1. CASE q = o
      BY <2>2, <3>1 DEF OwnStep, Behind
    <3>2. CASE q # o
      <4>1. /\ TimerOffset(q) >= 0
            /\ \A p \in Flow \cup {q} : \A e \in Done(list[p], next[p]) :
                 event[e].time <= TimerOffset(q)
        BY <1>1, <1>3, <2>2, <3>2 DEF Inv, Clocks
      <4>2. TimerOffset(q)' = TimerOffset(q)
        BY <1>1, <1>3, <2>2, <3>2 DEF TimerOffset
      <4>3. ASSUME NEW e \in Done(list'[q], next'[q]) PROVE event'[e].time <= TimerOffset(q)'
        <5>1. /\ Row(list[q], EventTime) /\ next[q] \in Elements(list[q]) \cup {NoEvent}
              /\ list'[q] = list[q] /\ next'[q] = next[q]
          BY <1>3, <3>2
        <5>2. e \in Elements(list[q]) /\ e \in Done(list[q], next[q])
          BY <4>3, <5>1, Divided
        <5>3. event'[e].time = event[e].time
          BY <1>3, <3>2, <5>2
        <5> QED
          BY <4>1, <4>2, <5>2, <5>3
      <4>4. ASSUME NEW p \in Flow, NEW e \in Done(list'[p], next'[p])
            PROVE  event'[e].time <= TimerOffset(q)'
        BY <2>1, <4>1, <4>2, <4>4
      <4> QED
        BY <4>1, <4>2, <4>3, <4>4
    <3> QED
      BY <3>1, <3>2
  <2>3. ASSUME NEW p \in Flow, Done(list'[p], next'[p]) # {}
        PROVE  offset # NoOffset /\ p \in ToSet(flows)'
    <3>1. offset # NoOffset /\ p \in ToSet(flows)
      BY <1>1, <2>1, <2>3 DEF Inv, Clocks
    <3> QED
      BY <3>1 DEF OwnStep
  <2>4. offset # NoOffset => \A f \in ToSet(flows)' : started'[f]
    BY <1>1 DEF Inv, Clocks, OwnStep
  <2> QED
    BY <1>1, <2>2, <2>3, <2>4 DEF Clocks
<1> QED
  BY <1>1, <1>4, <1>5, <1>6, <1>7, <1>8 DEF Inv
-------------------------------------------------------------------------------
\* The current time is not before any event that was passed.
LEMMA OffsetsTyped ==
  ASSUME Inv, NEW o \in Owner
  PROVE  /\ TailTime(o) \in Int /\ TailTime(o) >= -1
         /\ next[o] # NoEvent => TimerOffset(o) \in Int
         /\ o \in Flow => FlowOffset(o) \in Int
<1>1. Typed /\ Row(list[o], EventTime) /\ next[o] \in Elements(list[o]) \cup {NoEvent}
  BY DEF Inv, Listed
<1>2. \A e \in Elements(list[o]) : e \in DOMAIN event /\ event[e].time \in Nat
  BY <1>1, NotNull, EventTimes DEF Events
<1>3. TailTime(o) \in Int /\ TailTime(o) >= -1
  <2>1. CASE list[o] = << >>
    BY <2>1 DEF TailTime
  <2>2. CASE list[o] # << >>
    <3>1. list[o] \in Seq(Id) /\ Len(list[o]) \in 1..Len(list[o])
      BY <1>1, <2>2, EmptySeq, LenProperties DEF Row
    <3>2. Last(list[o]) \in Elements(list[o])
      BY <3>1 DEF Last, Elements, Part
    <3> QED
      BY <1>2, <2>2, <3>2 DEF TailTime
  <2> QED
    BY <2>1, <2>2
<1>4. next[o] # NoEvent => TimerOffset(o) \in Int
  <2>1. timer[o] \in Int /\ now \in Int
    BY <1>1 DEF Typed, Never
  <2>2. next[o] # NoEvent => event[next[o]].time \in Nat
    BY <1>1, <1>2
  <2> QED
    BY <2>1, <2>2 DEF TimerOffset
<1>5. o \in Flow => FlowOffset(o) \in Int
  BY <1>3, <1>4 DEF FlowOffset
<1> QED
  BY <1>3, <1>4, <1>5

\* The last event of a list that was passed is the latest.
LEMMA TailLatest ==
  ASSUME Inv, NEW o \in Owner, NEW e \in Elements(list[o])
  PROVE  event[e].time <= TailTime(o)
<1>1. Typed /\ Row(list[o], EventTime)
  BY DEF Inv, Listed
<1>2. Len(list[o]) \in Nat /\ list[o] \in Seq(Id)
  BY <1>1, LenProperties DEF Row
<1>3. PICK i \in 1..Len(list[o]) : list[o][i] = e
  BY DEF Elements, Part
<1>4. Len(list[o]) \in 1..Len(list[o]) /\ list[o] # << >>
  BY <1>2, <1>3, EmptySeq
<1>5. TailTime(o) = EventTime[list[o][Len(list[o])]] /\ EventTime[e] = event[e].time
      /\ EventTime[e] \in Nat
  BY <1>1, <1>3, <1>4, EventTimes DEF TailTime, Last, Row, Timed
<1>6. i < Len(list[o]) => EventTime[e] <= EventTime[list[o][Len(list[o])]]
  BY <1>1, <1>3, <1>4 DEF Row
<1>7. i = Len(list[o]) \/ i < Len(list[o])
  BY <1>2, <1>3
<1> QED
  BY <1>3, <1>5, <1>6, <1>7

\* The time that the flows tell is not before an event that one of them has passed.
LEMMA FlowsClock ==
  ASSUME Orderly, Inv, ReallyStarted
  PROVE  /\ FlowListOffset \in Int
         /\ \A p \in Flow : \A e \in Done(list[p], next[p]) : event[e].time <= FlowListOffset
<1> DEFINE ticking == {i \in DOMAIN flows : timer[flows[i]] # Never}
<1>1. /\ flows \in Seq(Flow) /\ DOMAIN flows = 1..Len(flows) /\ Len(flows) \in Nat
      /\ \A i \in 1..Len(flows) : flows[i] \in Flow /\ flows[i] \in Owner
  BY LenProperties DEF Inv, Typed, Owner
<1>2. \A i \in 1..Len(flows) : FlowOffset(flows[i]) \in Int
  BY <1>1, OffsetsTyped
<1>3. ASSUME NEW p \in Flow, NEW e \in Done(list[p], next[p])
      PROVE  p \in Owner /\ offset # NoOffset /\ p \in ToSet(flows) /\ \A f \in ToSet(flows) : started[f]
  BY <1>3 DEF Inv, Clocks, Owner
<1>4. CASE ticking # {}
  <2> DEFINE g == flows[Min(ticking)]
  <2>1. Min(ticking) \in ticking
    <3>1. ticking \subseteq Nat
      BY <1>1
    <3> HIDE DEF ticking
    <3> QED
      BY <1>4, <3>1, LeastOf
  <2>2. g \in Flow /\ g \in Owner /\ timer[g] # Never /\ g \in ToSet(flows) /\ FlowOffset(g) \in Int
    BY <1>1, <1>2, <2>1 DEF ToSet
  <2>3. FlowListOffset = FlowOffset(g)
    BY <1>4 DEF FlowListOffset
  <2> HIDE DEF g
  <2>4. next[g] # NoEvent
    BY <2>2 DEF Inv, Ticking
  <2>5. ASSUME NEW p \in Flow, NEW e \in Done(list[p], next[p])
        PROVE  event[e].time <= FlowOffset(g)
    <3>1. FlowOffset(g) = TimerOffset(g)
      BY <1>3, <2>2, <2>4, <2>5 DEF FlowOffset
    <3> QED
      BY <2>2, <2>4, <2>5, <3>1 DEF Inv, Clocks
  <2> QED
    BY <2>2, <2>3, <2>5
<1>5. CASE ticking = {}
  <2> DEFINE S == {-1} \cup {FlowOffset(flows[i]) : i \in DOMAIN flows}
             g == [i \in 1..Len(flows) |-> FlowOffset(flows[i])]
  <2>1. FlowListOffset = Max(S)
    BY <1>5 DEF FlowListOffset
  <2>2. PICK b \in Int : \A i \in 1..Len(flows) : g[i] <= b
    <3>1. \A i \in 1..Len(flows) : g[i] \in Int
      BY <1>2
    <3> HIDE DEF g
    <3> QED
      BY <1>1, <3>1, Bounded
  <2>3. S \subseteq Int /\ S # {}
    BY <1>1, <1>2
  <2>4. PICK c \in Int : c >= b /\ c >= -1
    BY <2>2
  <2>5. \A x \in S : x <= c
    <3>1. \A i \in DOMAIN flows : FlowOffset(flows[i]) <= b /\ FlowOffset(flows[i]) \in Int
      BY <1>1, <1>2, <2>2
    <3>2. \A i \in DOMAIN flows : FlowOffset(flows[i]) <= c
      BY <3>1, <2>4, <2>2
    <3> QED
      BY <2>4, <3>2
  <2>6. Max(S) \in S /\ \A x \in S : Max(S) >= x
    <3> HIDE DEF S
    <3> QED
      BY <2>3, <2>4, <2>5, GreatestOf
  <2>7. ASSUME NEW p \in Flow, NEW e \in Done(list[p], next[p])
        PROVE  event[e].time <= Max(S)
    <3>1. PICK i \in DOMAIN flows : flows[i] = p
      BY <1>3, <2>7 DEF ToSet
    <3>2. timer[p] = Never /\ p \in Owner
      BY <1>3, <1>5, <2>7, <3>1
    <3>3. next[p] = NoEvent
      BY <3>2 DEF Inv, Ticking
    <3>4. FlowOffset(p) = TailTime(p)
      BY <1>3, <2>7, <3>3 DEF FlowOffset
    <3>5. Row(list[p], EventTime) /\ next[p] \in Elements(list[p]) \cup {NoEvent}
      BY <3>2 DEF Inv, Listed
    <3>6. e \in Elements(list[p])
      BY <2>7, <3>5, Divided
    <3>7. event[e].time <= TailTime(p) /\ TailTime(p) \in Int
      BY <3>2, <3>6, TailLatest, OffsetsTyped
    <3>8. TailTime(p) \in S
      BY <3>1, <3>4
    <3>9. Max(S) >= TailTime(p) /\ Max(S) \in Int
      BY <2>3, <2>6, <3>8
    <3>10. event[e].time \in Nat
      BY <3>5, <3>6, NotNull, EventTimes DEF Inv, Events
    <3> HIDE DEF S
    <3> QED
      BY <3>7, <3>9, <3>10
  <2> HIDE DEF S
  <2> QED
    BY <2>1, <2>3, <2>6, <2>7
<1> QED
  BY <1>4, <1>5

\* The current time is not before any event that was passed, whichever timer or list end
\* it is read off.
LEMMA Current ==
  ASSUME Orderly, Inv, ReallyStarted
  PROVE  /\ CurrentTime \in Nat
         /\ \A p \in Owner : \A e \in Done(list[p], next[p]) : event[e].time <= CurrentTime
         /\ next[Drec] # NoEvent => CurrentTime = TimerOffset(Drec)
<1>1. Drec \in Owner /\ Flow \subseteq Owner /\ Owner \subseteq Flow \cup {Drec}
  BY DEF Owner
<1>2. CurrentTime = Max({GetCurrentOffset, 0})
  BY DEF CurrentTime
<1>3. CASE next[Drec] # NoEvent
  <2>1. GetCurrentOffset = TimerOffset(Drec) /\ TimerOffset(Drec) \in Int /\ TimerOffset(Drec) >= 0
    BY <1>1, <1>3, OffsetsTyped DEF GetCurrentOffset, Inv, Clocks
  <2>2. CurrentTime = TimerOffset(Drec)
    BY <1>2, <2>1, GreaterOf
  <2>3. \A p \in Owner : \A e \in Done(list[p], next[p]) : event[e].time <= TimerOffset(Drec)
    BY <1>1, <1>3 DEF Inv, Clocks
  <2> QED
    BY <2>1, <2>2, <2>3
<1>4. CASE next[Drec] = NoEvent
  <2> DEFINE a == TailTime(Drec)
             b == FlowListOffset
  <2>1. a \in Int /\ b \in Int
    BY <1>1, OffsetsTyped, FlowsClock
  <2>2. GetCurrentOffset = Max({a, b})
    BY <1>4 DEF GetCurrentOffset
  <2>3. \A e \in Done(list[Drec], next[Drec]) : event[e].time <= a
    <3>1. Row(list[Drec], EventTime) /\ next[Drec] \in Elements(list[Drec]) \cup {NoEvent}
      BY <1>1 DEF Inv, Listed
    <3>2. \A e \in Done(list[Drec], next[Drec]) : e \in Elements(list[Drec])
      BY <3>1, Divided
    <3> QED
      BY <1>1, <3>2, TailLatest
  <2>4. \A p \in Flow : \A e \in Done(list[p], next[p]) : event[e].time <= b
    BY FlowsClock
  <2>5. \A p \in Owner : \A e \in Done(list[p], next[p]) : event[e].time \in Nat
    <3>1. SUFFICES ASSUME NEW p \in Owner, NEW e \in Done(list[p], next[p])
                   PROVE  event[e].time \in Nat
      OBVIOUS
    <3>2. Row(list[p], EventTime) /\ next[p] \in Elements(list[p]) \cup {NoEvent}
      BY DEF Inv, Listed
    <3>3. e \in Elements(list[p])
      BY <3>2, Divided
    <3> QED
      BY <3>2, <3>3, NotNull, EventTimes DEF Inv, Events
  <2> HIDE DEF a, b
  <2>6. GetCurrentOffset = IF a > b THEN a ELSE b
    BY <2>1, <2>2, GreaterOf
  <2>7. GetCurrentOffset \in Int /\ GetCurrentOffset >= a /\ GetCurrentOffset >= b
    BY <2>1, <2>6
  <2>8. CurrentTime = IF GetCurrentOffset > 0 THEN GetCurrentOffset ELSE 0
    BY <1>2, <2>7, GreaterOf
  <2>9. CurrentTime \in Nat /\ CurrentTime >= a /\ CurrentTime >= b
    BY <2>1, <2>7, <2>8
  <2>10. ASSUME NEW p \in Owner, NEW e \in Done(list[p], next[p])
         PROVE  event[e].time <= CurrentTime
    <3>1. event[e].time <= a \/ event[e].time <= b
      BY <1>1, <2>3, <2>4, <2>10
    <3> QED
      BY <2>1, <2>5, <2>9, <2>10, <3>1
  <2> QED
    BY <1>4, <2>9, <2>10
<1> QED
  BY <1>3, <1>4
-------------------------------------------------------------------------------
\* What may be inserted: an event o is to come to, when none of those it passed, nor of
\* those that flows passed, has a time after the current one.
Arming(o, r, current) ==
  /\ Orderly /\ Inv /\ ReallyStarted
  /\ o \in Owner /\ r \in Events /\ r.owner = o /\ r.count = 0
  /\ current \in Nat /\ r.time >= current
  /\ \A p \in Flow \cup {o} : \A e \in Done(list[p], next[p]) : event[e].time <= current
  /\ event' = Append(event, r)
  /\ list' = [list EXCEPT ![o] = InsertByTime(@, NextId, r.time)]
  /\ Arm(o, NextId, r.time, current)
  /\ UNCHANGED <<timerVars, started, stopped>>
  /\ flows' \in Seq(Flow)
  /\ offset # NoOffset => flows' = flows

\* The event is due, and the clock of the timer goes on, or starts at current.
Armed(o, current) ==
  /\ Row(list'[o], EventTime')
  /\ Elements(list'[o]) = Elements(list[o]) \cup {NextId}
  /\ next'[o] \in Elements(list'[o]) /\ next'[o] \in Nat
  /\ Done(list'[o], next'[o]) = Done(list[o], next[o])
  /\ Due(list'[o], next'[o]) = Due(list[o], next[o]) \cup {NextId}
  /\ \A q \in Owner \ {o} : next'[q] = next[q] /\ timer'[q] = timer[q]
  /\ next' \in [Owner -> Nat] /\ timer' \in [Owner -> Nat \cup {Never}]
  /\ timer'[o] \in Nat /\ timer'[o] >= now
  /\ \/ next[o] # NoEvent /\ TimerOffset(o)' = TimerOffset(o)
     \/ TimerOffset(o)' = current

\* Arm does that.
LEMMA ArmingArms ==
  ASSUME NEW o, NEW r, NEW current, Arming(o, r, current)
  PROVE  Armed(o, current)
<1> DEFINE l == list[o]
           n == next[o]
           t == r.time
<1>1. /\ Typed /\ o \in Owner /\ r \in Events /\ t \in Nat /\ current \in Nat /\ t >= current
      /\ Row(l, EventTime) /\ n \in Elements(l) \cup {NoEvent}
      /\ timer[o] # Never <=> n # NoEvent
      /\ timer[o] # Never => timer[o] >= now
      /\ event' = Append(event, r)
  BY DEF Arming, Inv, Listed, Ticking, Events
<1>2. /\ NextId \notin DOMAIN event /\ DOMAIN EventTime = DOMAIN event /\ NextId \in Id
      /\ \A e \in DOMAIN event : event'[e] = event[e] /\ EventTime[e] = event[e].time
      /\ event'[NextId] = r
  BY <1>1, EventTimes, EventAppended
<1>3. PICK p \in 1..(Len(l) + 1) :
        /\ Entering(l, EventTime, NextId, t, p, EventTime')
        /\ InsertByTime(l, NextId, t) = InsertAt(l, p, NextId)
        /\ \A i \in p..Len(l) : t < EventTime[l[i]]
  BY <1>1, InsertsByTime
<1>4. list'[o] = InsertAt(l, p, NextId)
  BY <1>1, <1>3 DEF Arming, Typed
<1>5. Row(list'[o], EventTime') /\ Elements(list'[o]) = Elements(l) \cup {NextId}
  BY <1>3, <1>4, EnteredRow
<1>6. /\ Place(l, n) \in 1..(Len(l) + 1) /\ Len(l) \in Nat
      /\ n = NoEvent => Place(l, n) = Len(l) + 1
      /\ n # NoEvent => Place(l, n) \in 1..Len(l) /\ l[Place(l, n)] = n
  BY <1>1, PlaceIn
<1>7. n # NoEvent => n \in DOMAIN event /\ EventTime[n] = event[n].time /\ EventTime[n] \in Nat
  BY <1>1, <1>2, NotNull, EventTimes DEF Timed
<1>8. /\ next \in [Owner -> Nat] /\ timer \in [Owner -> Nat \cup {Never}] /\ now \in Nat
      /\ now' = now
  BY <1>1 DEF Typed, Arming, timerVars
<1>9. Arm(o, NextId, t, current)
  BY DEF Arming
<1>10. CASE timer[o] # Never /\ t >= event[n].time
  <2>1. n # NoEvent /\ next' = next /\ timer' = timer
    BY <1>1, <1>9, <1>10 DEF Arm
  <2>2. Place(l, n) < p
    <3>1. SUFFICES ASSUME ~(Place(l, n) < p) PROVE FALSE
      OBVIOUS
    <3>2. Place(l, n) \in p..Len(l)
      BY <1>6, <2>1, <3>1
    <3>3. t < EventTime[n]
      BY <1>3, <1>6, <2>1, <3>2
    <3> HIDE DEF t
    <3> QED
      BY <1>1, <1>7, <1>10, <2>1, <3>3
  <2>3. n \in Elements(l)
    BY <1>1, <2>1
  <2>4. /\ Done(list'[o], n) = Done(l, n)
        /\ Due(list'[o], n) = Due(l, n) \cup {NextId}
    BY <1>3, <1>4, <2>2, <2>3, EnteredBehind
  <2>5. TimerOffset(o)' = TimerOffset(o)
    BY <1>2, <1>7, <1>8, <2>1 DEF TimerOffset
  <2>6. timer[o] \in Nat
    BY <1>1, <1>8, <1>10
  <2> QED
    BY <1>1, <1>5, <1>8, <2>1, <2>3, <2>4, <2>5, <2>6 DEF Armed
<1>11. CASE ~(timer[o] # Never /\ t >= event[n].time)
  <2>1. /\ next' = [next EXCEPT ![o] = NextId]
        /\ timer' = [timer EXCEPT ![o] = now + (t - current)]
    BY <1>9, <1>11 DEF Arm
  <2>2. Place(l, n) <= p
    <3>1. SUFFICES ASSUME p < Place(l, n) PROVE FALSE
      BY <1>3, <1>6
    <3>2. p \in 1..(Place(l, n) - 1) /\ p \in p..Len(l)
      BY <1>3, <1>6, <3>1
    <3>3. l[p] \in Done(l, n)
      BY <3>2 DEF Done, Part
    <3>4. event[l[p]].time <= current
      BY <3>3 DEF Arming
    <3>5. l[p] \in Elements(l)
      BY <1>1, <3>3, Divided
    <3>6. event[l[p]].time = EventTime[l[p]] /\ EventTime[l[p]] \in Nat
      BY <1>1, <1>2, <3>5, NotNull, EventTimes DEF Timed
    <3>7. t < EventTime[l[p]]
      BY <1>3, <3>2
    <3> HIDE DEF t
    <3> QED
      BY <1>1, <3>4, <3>6, <3>7
  <2>3. p <= Place(l, n)
    <3>1. SUFFICES ASSUME Place(l, n) < p PROVE FALSE
      BY <1>3, <1>6
    <3>2. n # NoEvent
      BY <1>3, <1>6, <3>1
    <3>3. Place(l, n) \in 1..(p - 1)
      BY <1>3, <1>6, <3>1
    <3>4. EventTime[n] <= t
      BY <1>3, <1>6, <3>2, <3>3 DEF Entering
    <3> HIDE DEF t
    <3> QED
      BY <1>1, <1>7, <1>11, <3>2, <3>4
  <2>4. p = Place(l, n)
    BY <1>3, <1>6, <2>2, <2>3
  <2>5. /\ Done(list'[o], NextId) = Done(l, n)
        /\ Due(list'[o], NextId) = Due(l, n) \cup {NextId}
    BY <1>1, <1>3, <1>4, <2>4, EnteredAt
  <2>6. next'[o] = NextId /\ timer'[o] = now + (t - current)
    BY <1>1, <1>8, <2>1
  <2>7. now + (t - current) \in Nat /\ now + (t - current) >= now
        /\ t - ((now + (t - current)) - now) = current
    <3> HIDE DEF t
    <3> QED
      BY <1>1, <1>8
  <2>8. TimerOffset(o)' = current
    BY <1>2, <1>8, <2>6, <2>7 DEF TimerOffset
  <2>9. NextId \in Nat
    BY <1>2 DEF Id
  <2>10. next' \in [Owner -> Nat] /\ timer' \in [Owner -> Nat \cup {Never}]
    <3> HIDE DEF t
    <3> QED
      BY <1>8, <2>1, <2>7, <2>9
  <2>11. \A q \in Owner \ {o} : next'[q] = next[q] /\ timer'[q] = timer[q]
    BY <1>8, <2>1
  <2> QED
    BY <1>5, <2>5, <2>6, <2>7, <2>8, <2>9, <2>10, <2>11 DEF Armed
<1> QED
  BY <1>10, <1>11

\* What has passed is known, with its time.
LEMMA PassedTimes ==
  ASSUME Inv, NEW o \in Owner
  PROVE  /\ \A e \in Done(list[o], next[o]) : e \in DOMAIN event
         /\ \A e \in Elements(list[o]) : e \in DOMAIN event /\ event[e].time \in Nat
                                         /\ EventTime[e] = event[e].time
<1>1. Row(list[o], EventTime) /\ next[o] \in Elements(list[o]) \cup {NoEvent} /\ Typed
  BY DEF Inv, Listed
<1> QED
  BY <1>1, Divided, NotNull, EventTimes DEF Events

\* To insert an event that is due is a step about its owner.
LEMMA ArmingOwn ==
  ASSUME NEW o, NEW r, NEW current, Arming(o, r, current)
  PROVE  OwnStep(o)
<1>1. /\ Orderly /\ Inv /\ Typed /\ o \in Owner /\ r \in Events /\ r.owner = o /\ r.count = 0
      /\ ReallyStarted /\ event' = Append(event, r)
      /\ UNCHANGED <<timerVars, started, stopped>>
  BY DEF Arming, Inv
<1>2. /\ event' \in Seq(Events)
      /\ DOMAIN event' = DOMAIN event \cup {NextId}
      /\ NextId \notin DOMAIN event
      /\ \A e \in DOMAIN event : event'[e] = event[e]
      /\ event'[NextId] = r
  BY <1>1, EventTimes, EventAppended
<1>3. Armed(o, current)
  BY ArmingArms
<1>4. /\ list' = [list EXCEPT ![o] = InsertByTime(@, NextId, r.time)]
      /\ list \in [Owner -> Seq(Id)]
  BY <1>1 DEF Arming, Typed
<1>5. list' \in [Owner -> Seq(Id)] /\ \A q \in Owner \ {o} : list'[q] = list[q]
  <2>1. list'[o] \in Seq(Id)
    BY <1>3 DEF Armed, Row
  <2> QED
    BY <1>1, <1>4, <2>1
<1>6. Typed'
  <2>1. /\ offset' = offset /\ now' = now /\ mgenStarted' = mgenStarted
        /\ startTimer' = startTimer /\ started' = started /\ stopped' = stopped
    BY <1>1 DEF timerVars
  <2>2. flows' \in Seq(Flow)
    BY DEF Arming
  <2>3. next' \in [Owner -> Nat] /\ timer' \in [Owner -> Nat \cup {Never}]
    BY <1>3 DEF Armed
  <2> QED
    BY <1>1, <1>2, <1>5, <2>1, <2>2, <2>3 DEF Typed
<1>7. \A e \in Elements(list'[o]) : event'[e].owner = o
  <2>1. \A e \in Elements(list[o]) : e \in DOMAIN event /\ event[e].owner = o
    BY <1>1, PassedTimes DEF Inv, Listed
  <2> QED
    BY <1>1, <1>2, <1>3, <2>1 DEF Armed
<1>8. ASSUME NEW e \in DOMAIN event', event'[e].owner = o
      PROVE  event'[e].count = IF e \in Due(list'[o], next'[o]) THEN 0 ELSE 1
  <2>1. Due(list'[o], next'[o]) = Due(list[o], next[o]) \cup {NextId}
    BY <1>3 DEF Armed
  <2>2. CASE e = NextId
    BY <1>1, <1>2, <2>1, <2>2
  <2>3. CASE e # NextId
    <3>1. e \in DOMAIN event /\ event'[e] = event[e]
      BY <1>2, <1>8, <2>3
    <3>2. event[e].count = IF e \in Due(list[o], next[o]) THEN 0 ELSE 1
      BY <1>1, <1>8, <3>1 DEF Inv, Counted
    <3> QED
      BY <2>1, <2>3, <3>1, <3>2
  <2> QED
    BY <2>2, <2>3
<1>9. next'[o] # NoEvent
  <2>1. Row(list'[o], EventTime') /\ next'[o] \in Elements(list'[o])
    BY <1>3 DEF Armed
  <2> QED
    BY <2>1, NotNull
<1>10. TimerOffset(o)' >= 0 /\ \A p \in Flow \cup {o} : Behind(o, p)'
  <2>1. ASSUME NEW p \in Flow \cup {o}
        PROVE  /\ Done(list'[p], next'[p]) = Done(list[p], next[p])
               /\ \A e \in Done(list[p], next[p]) : event'[e].time = event[e].time
    <3>1. p \in Owner
      BY <1>1 DEF Owner
    <3>2. Done(list'[p], next'[p]) = Done(list[p], next[p])
      <4>1. CASE p = o
        BY <1>3, <4>1 DEF Armed
      <4>2. CASE p # o
        BY <1>3, <1>5, <3>1, <4>2 DEF Armed
      <4> QED
        BY <4>1, <4>2
    <3> QED
      BY <1>1, <1>2, <3>1, <3>2, PassedTimes
  <2>2. CASE next[o] # NoEvent /\ TimerOffset(o)' = TimerOffset(o)
    <3>1. /\ TimerOffset(o) >= 0
          /\ \A p \in Flow \cup {o} : \A e \in Done(list[p], next[p]) :
               event[e].time <= TimerOffset(o)
      BY <1>1, <2>2 DEF Inv, Clocks
    <3> QED
      BY <2>1, <2>2, <3>1 DEF Behind
  <2>3. CASE TimerOffset(o)' = current
    <3>1. /\ current >= 0
          /\ \A p \in Flow \cup {o} : \A e \in Done(list[p], next[p]) :
               event[e].time <= current
      BY DEF Arming
    <3> QED
      BY <2>1, <2>3, <3>1 DEF Behind
  <2> QED
    BY <1>3, <2>2, <2>3 DEF Armed
<1>11. timer'[o] # Never /\ timer'[o] >= now
  BY <1>3 DEF Armed, Never
<1>12. /\ Row(list'[o], EventTime') /\ next'[o] \in Elements(list'[o])
       /\ Done(list'[o], next'[o]) = Done(list[o], next[o])
       /\ \A q \in Owner \ {o} : next'[q] = next[q] /\ timer'[q] = timer[q]
  BY <1>3 DEF Armed
<1>13. offset # NoOffset => flows' = flows
  BY DEF Arming
<1> QED
  BY <1>1, <1>2, <1>5, <1>6, <1>7, <1>8, <1>9, <1>10, <1>11, <1>12, <1>13 DEF OwnStep
-------------------------------------------------------------------------------
\* The actions once mgen runs: each is a step of one owner.
LEMMA FlowsWithTyped ==
  ASSUME Typed, NEW o \in Owner
  PROVE  FlowsWith(o) \in Seq(Flow)
<1>1. flows \in Seq(Flow)
  BY DEF Typed
<1>2. o # Drec => o \in Flow
  BY DEF Owner
<1>3. o # Drec => Append(flows, o) \in Seq(Flow)
  BY <1>1, <1>2, AppendProperties
<1> QED
  BY <1>1, <1>3 DEF FlowsWith

\* So is an event of a flow that a command gives,
LEMMA CommandFlowOwn ==
  ASSUME Orderly, Inv, NEW f \in Flow, NEW t \in Times \cup {Immediate}, CommandFlow(f, t)
  PROVE  OwnStep(f)
<1>1. /\ Typed /\ f \in Owner /\ ReallyStarted /\ t \in Int /\ now \in Nat
      /\ flows' = FlowsWith(f)
      /\ UNCHANGED <<timerVars, started, stopped>>
      /\ f # Drec
  BY DEF Inv, Owner, CommandFlow, Orderly, Immediate, Typed
<1>2. flows' \in Seq(Flow)
  BY <1>1, FlowsWithTyped
<1>3. offset # NoOffset => flows' = flows
  BY <1>1 DEF CommandFlow, Orderly, FlowsWith
<1>4. /\ CurrentTime \in Nat
      /\ \A p \in Owner : \A e \in Done(list[p], next[p]) : event[e].time <= CurrentTime
  BY <1>1, Current
<1>5. CASE /\ t < CurrentTime
           /\ event' = Append(event, Record(f, CurrentTime, now, now))
           /\ UNCHANGED <<list, next, timer>>
  <2> DEFINE r == Record(f, CurrentTime, now, now)
  <2>1. r \in Events /\ r.owner = f /\ r.count = 1
    BY <1>1, <1>4 DEF Record, Events, Never
  <2> HIDE DEF r
  <2>2. event' = Append(event, r)
    BY <1>5 DEF r
  <2>3. /\ event' \in Seq(Events)
        /\ DOMAIN event' = DOMAIN event \cup {NextId}
        /\ NextId \notin DOMAIN event
        /\ \A e \in DOMAIN event : event'[e] = event[e]
        /\ event'[NextId] = r
    BY <1>1, <2>1, <2>2, EventTimes, EventAppended
  <2>4. Typed'
    BY <1>1, <1>2, <1>5, <2>3 DEF Typed, timerVars
  <2>5. /\ Row(list[f], EventTime)
        /\ \A e \in Elements(list[f]) : e \in DOMAIN event /\ event[e].owner = f
        /\ next[f] \in Elements(list[f]) \cup {NoEvent}
    BY <1>1, PassedTimes DEF Inv, Listed
  <2>6. Row(list[f], EventTime')
    <3>1. \A e \in DOMAIN EventTime : e \in DOMAIN EventTime' /\ EventTime'[e] = EventTime[e]
      BY <2>3 DEF EventTime
    <3> QED
      BY <2>5, <3>1, RowKept
  <2>7. ASSUME NEW e \in DOMAIN event', event'[e].owner = f
        PROVE  event'[e].count = IF e \in Due(list[f], next[f]) THEN 0 ELSE 1
    <3>1. CASE e = NextId
      <4>1. \A d \in Due(list[f], next[f]) : d \in DOMAIN event
        BY <2>5, Divided
      <4> QED
        BY <2>1, <2>3, <3>1, <4>1
    <3>2. CASE e # NextId
      BY <1>1, <2>3, <2>7, <3>2 DEF Inv, Counted
    <3> QED
      BY <3>1, <3>2
  <2>8. ASSUME next[f] # NoEvent
        PROVE  TimerOffset(f)' >= 0 /\ \A p \in Flow \cup {f} : Behind(f, p)'
    <3>1. /\ TimerOffset(f) >= 0
          /\ \A p \in Flow \cup {f} : \A e \in Done(list[p], next[p]) :
               event[e].time <= TimerOffset(f)
      BY <1>1, <2>8 DEF Inv, Clocks
    <3>2. TimerOffset(f)' = TimerOffset(f)
      BY <1>1, <1>5, <2>3, <2>5, <2>8 DEF TimerOffset, timerVars
    <3>3. ASSUME NEW p \in Flow, NEW e \in Done(list[p], next[p])
          PROVE  event'[e].time <= TimerOffset(f)
      <4>1. p \in Owner
        BY DEF Owner
      <4>2. e \in DOMAIN event
        BY <3>3, <4>1, PassedTimes
      <4> QED
        BY <2>3, <3>1, <3>3, <4>2
    <3> QED
      BY <1>5, <3>1, <3>2, <3>3 DEF Behind
  <2>9. /\ timer[f] # Never <=> next[f] # NoEvent
        /\ timer[f] # Never => timer[f] >= now
    BY <1>1 DEF Inv, Ticking
  <2> QED
    BY <1>1, <1>3, <1>5, <2>1, <2>3, <2>4, <2>5, <2>6, <2>7, <2>8, <2>9 DEF OwnStep
<1>6. CASE /\ t >= CurrentTime
           /\ event' = Append(event, Record(f, t, now + t, Never))
           /\ list' = [list EXCEPT ![f] = InsertByTime(@, NextId, t)]
           /\ Arm(f, NextId, t, CurrentTime)
  <2> DEFINE r == Record(f, t, now + t, Never)
  <2>1. t \in Nat /\ now + t \in Nat
    BY <1>1, <1>4, <1>6
  <2>2. r \in Events /\ r.owner = f /\ r.count = 0 /\ r.time = t
    BY <1>1, <2>1 DEF Record, Events, Never
  <2>3. event' = Append(event, r)
    BY <1>6
  <2> HIDE DEF r
  <2>4. \A p \in Flow \cup {f} : p \in Owner
    BY DEF Owner
  <2>5. Arming(f, r, CurrentTime)
    BY <1>1, <1>2, <1>3, <1>4, <1>6, <2>2, <2>3, <2>4 DEF Arming
  <2> QED
    BY <2>5, ArmingOwn
<1> QED
  BY <1>5, <1>6 DEF CommandFlow

\* a RECONNECT,
LEMMA ScheduleReconnectOwn ==
  ASSUME Orderly, Inv, NEW f \in Flow, NEW delay \in RetryDelays, ScheduleReconnect(f, delay)
  PROVE  OwnStep(f)
<1>1. /\ Typed /\ f \in Owner /\ ReallyStarted /\ delay \in Nat /\ now \in Nat
      /\ UNCHANGED <<timerVars, started, stopped>> /\ flows' = flows /\ flows \in Seq(Flow)
      /\ offset = NoOffset
  BY DEF Inv, Owner, ScheduleReconnect, Orderly, Typed
<1>2. \A p \in Flow \cup {f} : Done(list[p], next[p]) = {}
  BY <1>1 DEF Inv, Clocks
<1> DEFINE r == Record(f, delay, now + delay, Never)
<1>3. r \in Events /\ r.owner = f /\ r.count = 0 /\ r.time = delay
  BY <1>1 DEF Record, Events, Never
<1>4. event' = Append(event, r)
  BY DEF ScheduleReconnect
<1> HIDE DEF r
<1>5. Arming(f, r, 0)
  BY <1>1, <1>2, <1>3, <1>4 DEF Arming, ScheduleReconnect
<1> QED
  BY <1>5, ArmingOwn

\* A reception event whose time has passed goes in front of the next one.
LEMMA PrecedeEnters ==
  ASSUME Orderly, Inv, ReallyStarted, NEW r \in Events, r.time = CurrentTime,
         event' = Append(event, r)
  PROVE  /\ Entering(list[Drec], EventTime, NextId, CurrentTime,
                     Place(list[Drec], next[Drec]), EventTime')
         /\ Precede(list[Drec], next[Drec], NextId) =
              InsertAt(list[Drec], Place(list[Drec], next[Drec]), NextId)
<1> DEFINE l == list[Drec]
           n == next[Drec]
           p == Place(l, n)
<1>1. Typed /\ Row(l, EventTime) /\ n \in Elements(l) \cup {NoEvent} /\ Drec \in Owner
  BY DEF Inv, Listed, Owner
<1>2. CurrentTime \in Nat /\ \A e \in Done(l, n) : event[e].time <= CurrentTime
  BY <1>1, Current
<1>3. p \in 1..(Len(l) + 1)
  BY <1>1, PlaceIn
<1>4. ASSUME NEW i \in 1..(p - 1) PROVE EventTime[l[i]] <= CurrentTime
  <2>1. l[i] \in Done(l, n)
    BY DEF Done, Part
  <2>2. l[i] \in Elements(l)
    BY <1>1, <2>1, Divided
  <2>3. EventTime[l[i]] = event[l[i]].time
    BY <1>1, <2>2, PassedTimes
  <2> QED
    BY <1>2, <2>1, <2>3
<1>5. ASSUME NEW i \in p..Len(l) PROVE CurrentTime <= EventTime[l[i]]
  <2>1. l[i] \in Due(l, n)
    BY DEF Due, Part
  <2>2. n # NoEvent /\ l[i] \in Elements(l)
    BY <1>1, <2>1, Divided
  <2>3. /\ event[n].time \in Nat /\ EventTime[n] = event[n].time
        /\ EventTime[l[i]] \in Nat
    BY <1>1, <2>2, PassedTimes, EventTimes
  <2>4. EventTime[n] <= EventTime[l[i]]
    BY <1>1, <2>1, <2>2, <2>3, Divided
  <2>5. timer[Drec] \in Nat /\ timer[Drec] >= now /\ now \in Nat
    BY <1>1, <2>2 DEF Inv, Ticking, Typed
  <2>6. CurrentTime = event[n].time - (timer[Drec] - now)
    BY <2>2, Current DEF TimerOffset
  <2> HIDE DEF l, n
  <2> QED
    BY <1>2, <2>3, <2>4, <2>5, <2>6
<1>6. EventTime' = [x \in DOMAIN EventTime \cup {NextId} |->
                     IF x = NextId THEN CurrentTime ELSE EventTime[x]]
  BY <1>1, EventAppended
<1>7. Entering(l, EventTime, NextId, CurrentTime, p, EventTime')
  <2> HIDE DEF p
  <2> QED
    BY <1>1, <1>2, <1>3, <1>4, <1>5, <1>6, EventTimes DEF Entering
<1>8. Precede(l, n, NextId) = InsertAt(l, p, NextId)
  BY DEF Precede, Place
<1> QED
  BY <1>7, <1>8

\* a reception event that a command gives,
LEMMA CommandDrecOwn ==
  ASSUME Orderly, Inv, NEW t \in Times \cup {Immediate}, CommandDrec(t)
  PROVE  OwnStep(Drec)
<1> DEFINE time == CurrentTime + t
           l == list[Drec]
           n == next[Drec]
<1>1. /\ Typed /\ Drec \in Owner /\ ReallyStarted /\ t \in Int /\ now \in Nat
      /\ flows' = flows
      /\ UNCHANGED <<timerVars, started, stopped>>
      /\ Drec \notin Flow
  BY DEF Inv, Owner, CommandDrec, Orderly, Immediate, Typed
<1>2. /\ CurrentTime \in Nat
      /\ \A p \in Owner : \A e \in Done(list[p], next[p]) : event[e].time <= CurrentTime
      /\ n # NoEvent => CurrentTime = TimerOffset(Drec)
  BY <1>1, Current
<1>3. flows \in Seq(Flow) /\ list \in [Owner -> Seq(Id)]
  BY <1>1 DEF Typed
<1>4. CASE /\ time < CurrentTime
           /\ event' = Append(event, Record(Drec, CurrentTime, now, now))
           /\ list' = [list EXCEPT ![Drec] = Precede(@, next[Drec], NextId)]
           /\ UNCHANGED <<next, timer>>
  <2> DEFINE r == Record(Drec, CurrentTime, now, now)
             p == Place(l, n)
  <2>1. r \in Events /\ r.owner = Drec /\ r.count = 1 /\ r.time = CurrentTime
    BY <1>1, <1>2 DEF Record, Events, Never
  <2> HIDE DEF r
  <2>2. event' = Append(event, r)
    BY <1>4 DEF r
  <2>3. /\ event' \in Seq(Events)
        /\ DOMAIN event' = DOMAIN event \cup {NextId}
        /\ NextId \notin DOMAIN event
        /\ \A e \in DOMAIN event : event'[e] = event[e]
        /\ event'[NextId] = r
    BY <1>1, <2>1, <2>2, EventTimes, EventAppended
  <2>4. /\ Entering(l, EventTime, NextId, CurrentTime, p, EventTime')
        /\ Precede(l, n, NextId) = InsertAt(l, p, NextId)
    BY <1>1, <2>1, <2>2, PrecedeEnters
  <2>5. /\ Row(l, EventTime)
        /\ \A e \in Elements(l) : e \in DOMAIN event /\ event[e].owner = Drec
        /\ n \in Elements(l) \cup {NoEvent}
    BY <1>1, PassedTimes DEF Inv, Listed
  <2>6. list'[Drec] = InsertAt(l, p, NextId)
    BY <1>1, <1>3, <1>4, <2>4
  <2>7. /\ Row(list'[Drec], EventTime')
        /\ Elements(list'[Drec]) = Elements(l) \cup {NextId}
    BY <2>4, <2>6, EnteredRow
  <2>8. /\ Done(list'[Drec], n) = Done(l, n) \cup {NextId}
        /\ Due(list'[Drec], n) = Due(l, n)
    BY <2>4, <2>5, <2>6, EnteredAt
  <2>9. list' \in [Owner -> Seq(Id)] /\ \A q \in Owner \ {Drec} : list'[q] = list[q]
    <3>1. list'[Drec] \in Seq(Id)
      BY <2>7 DEF Row
    <3> QED
      BY <1>3, <1>4, <3>1
  <2>10. Typed'
    BY <1>1, <1>4, <2>3, <2>9 DEF Typed, timerVars
  <2>11. ASSUME NEW e \in DOMAIN event', event'[e].owner = Drec
         PROVE  event'[e].count = IF e \in Due(list'[Drec], n) THEN 0 ELSE 1
    <3>1. CASE e = NextId
      <4>1. \A d \in Due(l, n) : d \in DOMAIN event
        BY <2>5, Divided
      <4> QED
        BY <2>1, <2>3, <2>8, <3>1, <4>1
    <3>2. CASE e # NextId
      BY <1>1, <2>3, <2>8, <2>11, <3>2 DEF Inv, Counted
    <3> QED
      BY <3>1, <3>2
  <2>12. ASSUME n # NoEvent
         PROVE  TimerOffset(Drec)' >= 0 /\ \A q \in Flow \cup {Drec} : Behind(Drec, q)'
    <3>1. /\ TimerOffset(Drec) >= 0
          /\ \A q \in Flow \cup {Drec} : \A e \in Done(list[q], next[q]) :
               event[e].time <= TimerOffset(Drec)
      BY <1>1, <2>12 DEF Inv, Clocks
    <3>2. TimerOffset(Drec)' = TimerOffset(Drec)
      BY <1>1, <1>4, <2>3, <2>5, <2>12 DEF TimerOffset, timerVars
    <3>3. ASSUME NEW q \in Flow, NEW e \in Done(list'[q], next'[q])
          PROVE  event'[e].time <= TimerOffset(Drec)
      <4>1. q \in Owner /\ q # Drec
        BY <1>1 DEF Owner
      <4>2. e \in Done(list[q], next[q])
        BY <1>4, <2>9, <3>3, <4>1
      <4>3. e \in DOMAIN event
        BY <4>1, <4>2, PassedTimes
      <4> QED
        BY <2>3, <3>1, <4>2, <4>3
    <3>4. ASSUME NEW e \in Done(list'[Drec], next'[Drec])
          PROVE  event'[e].time <= TimerOffset(Drec)
      <4>1. e \in Done(l, n) \/ e = NextId
        BY <1>4, <2>8, <3>4
      <4>2. CASE e \in Done(l, n)
        <5>1. e \in DOMAIN event
          BY <1>1, <4>2, PassedTimes
        <5> QED
          BY <2>3, <3>1, <4>2, <5>1
      <4>3. CASE e = NextId
        BY <1>2, <2>1, <2>3, <2>12, <4>3
      <4> QED
        BY <4>1, <4>2, <4>3
    <3> QED
      BY <3>1, <3>2, <3>3, <3>4 DEF Behind
  <2>13. /\ timer[Drec] # Never <=> next[Drec] # NoEvent
         /\ timer[Drec] # Never => timer[Drec] >= now
    BY <1>1 DEF Inv, Ticking
  <2>14. \A e \in Elements(list'[Drec]) : event'[e].owner = Drec
    BY <2>1, <2>3, <2>5, <2>7
  <2> HIDE DEF p
  <2>15. n \in Elements(list'[Drec]) \cup {NoEvent}
    BY <2>5, <2>7
  <2> QED
    BY <1>1, <1>4, <2>1, <2>3, <2>7, <2>9, <2>10, <2>11, <2>12, <2>13, <2>14, <2>15 DEF OwnStep
<1>5. CASE /\ time >= CurrentTime
           /\ event' = Append(event, Record(Drec, time, now + t, Never))
           /\ list' = [list EXCEPT ![Drec] = InsertByTime(@, NextId, time)]
           /\ Arm(Drec, NextId, time, CurrentTime)
  <2> DEFINE r == Record(Drec, time, now + t, Never)
  <2>1. time \in Nat /\ now + t \in Nat
    BY <1>1, <1>2, <1>5
  <2> HIDE DEF time
  <2>2. r \in Events /\ r.owner = Drec /\ r.count = 0 /\ r.time = time
    BY <1>1, <2>1 DEF Record, Events, Never
  <2>3. event' = Append(event, r)
    BY <1>5
  <2> HIDE DEF r
  <2>4. \A p \in Flow \cup {Drec} : p \in Owner
    BY DEF Owner
  <2>5. Arming(Drec, r, CurrentTime)
    BY <1>1, <1>2, <1>3, <1>5, <2>2, <2>3, <2>4 DEF Arming
  <2> QED
    BY <2>5, ArmingOwn
<1> QED
  BY <1>4, <1>5 DEF CommandDrec

\* To execute an event changes its count, its time and nothing else.
LEMMA ExecuteEvent ==
  ASSUME Typed, NEW e \in DOMAIN event, event' = Execute(event, e)
  PROVE  /\ event' \in Seq(Events)
         /\ DOMAIN event' = DOMAIN event
         /\ \A d \in DOMAIN event : d # e => event'[d] = event[d]
         /\ event'[e].count = event[e].count + 1 /\ event'[e].at = now
         /\ event'[e].time = event[e].time /\ event'[e].owner = event[e].owner
         /\ event'[e].scripted = event[e].scripted /\ event'[e].expected = event[e].expected
         /\ EventTime' = EventTime
<1> DEFINE r == [event[e] EXCEPT !.count = event[e].count + 1, !.at = now]
<1>1. /\ event \in Seq(Events) /\ DOMAIN event = 1..Len(event) /\ Len(event) \in Nat
      /\ event[e] \in Events /\ now \in Nat
  BY EventTimes DEF Typed
<1>2. /\ r \in Events /\ r.count = event[e].count + 1 /\ r.at = now
      /\ r.time = event[e].time /\ r.owner = event[e].owner
      /\ r.scripted = event[e].scripted /\ r.expected = event[e].expected
  <2> DEFINE v == event[e]
  <2>1. v \in Events /\ now \in Nat
    BY <1>1
  <2> HIDE DEF v
  <2>2. v.count \in Nat
    BY <2>1 DEF Events
  <2> DEFINE c == v.count + 1
  <2>3. c \in Nat
    BY <2>2
  <2> HIDE DEF c
  <2>4. /\ [v EXCEPT !.count = c, !.at = now] \in Events
        /\ [v EXCEPT !.count = c, !.at = now].count = c
        /\ [v EXCEPT !.count = c, !.at = now].at = now
        /\ [v EXCEPT !.count = c, !.at = now].time = v.time
        /\ [v EXCEPT !.count = c, !.at = now].owner = v.owner
        /\ [v EXCEPT !.count = c, !.at = now].scripted = v.scripted
        /\ [v EXCEPT !.count = c, !.at = now].expected = v.expected
    BY <2>1, <2>3 DEF Events
  <2> QED
    BY <2>4 DEF c, v
<1>3. event' = [event EXCEPT ![e] = r]
  BY DEF Execute
<1> HIDE DEF r
<1>4. /\ event' \in Seq(Events) /\ Len(event') = Len(event)
      /\ \A j \in 1..Len(event) : event'[j] = IF j = e THEN r ELSE event[j]
  BY <1>1, <1>2, <1>3, ExceptSeq
<1>5. DOMAIN event' = DOMAIN event
  BY <1>1, <1>4, LenProperties
<1>6. EventTime' = EventTime
  <2>1. \A d \in DOMAIN event : event'[d].time = event[d].time
    BY <1>1, <1>2, <1>4
  <2> QED
    BY <1>5, <2>1 DEF EventTime
<1> QED
  BY <1>1, <1>2, <1>4, <1>5, <1>6

\* What becomes of the next event of o, and of the time that its timer tells.
TimedOut(o) ==
  LET e == next[o]
  IN /\ ReallyStarted /\ e # NoEvent
     /\ e \in DOMAIN event /\ e \in Due(list[o], next[o])
     /\ TimerOffset(o) = event[e].time
     /\ DOMAIN event' = DOMAIN event
     /\ \A d \in DOMAIN event : d # e => event'[d] = event[d]
     /\ event'[e].time = event[e].time /\ event'[e].owner = event[e].owner
     /\ event'[e].scripted = event[e].scripted /\ event'[e].expected = event[e].expected
     /\ event[e].owner = o /\ event'[e].at = now
     /\ Due(list'[o], next'[o]) = Due(list[o], e) \ {e}
     /\ o = Drec => Done(list'[o], next'[o]) = Done(list[o], e) \cup {e}
     /\ next'[o] # NoEvent => TimerOffset(o)' = event[e].time

\* A timeout is a step about the owner of the timer, too.
LEMMA OnTimeoutOwn ==
  ASSUME Orderly, Inv, NEW o \in Owner, OnTimeout(o)
  PROVE  OwnStep(o) /\ TimedOut(o)
<1> DEFINE e == next[o]
           l == list[o]
           f == Following(l, e)
           l2 == list'[o]
<1>1. /\ Typed /\ timer[o] = now /\ now \in Nat /\ Drec \notin Flow
      /\ UNCHANGED <<timerVars, started, stopped>> /\ flows' = flows
      /\ event' = Execute(event, e)
      /\ list' = IF o = Drec THEN list ELSE [list EXCEPT ![o] = RemoveAt(@, Position(@, e))]
      /\ next' = [next EXCEPT ![o] = f]
      /\ timer' = [timer EXCEPT ![o] =
          IF f = NoEvent THEN Never ELSE now + Max({0, event[f].time - event[e].time})]
  BY DEF Inv, OnTimeout, Typed, Orderly
<1>2. /\ next \in [Owner -> Nat] /\ timer \in [Owner -> Nat \cup {Never}]
      /\ list \in [Owner -> Seq(Id)] /\ now' = now
  BY <1>1 DEF Typed, timerVars
<1>3. timer[o] # Never /\ e # NoEvent
  BY <1>1 DEF Inv, Ticking, Never
<1>4. ReallyStarted
  BY <1>3 DEF Inv, Waiting
<1>5. /\ Row(l, EventTime) /\ e \in Elements(l)
      /\ \A d \in Elements(l) : event[d].owner = o
      /\ \A d \in Elements(l) : d \in DOMAIN event /\ event[d].time \in Nat
                                /\ EventTime[d] = event[d].time
  BY <1>3, PassedTimes DEF Inv, Listed
<1>6. /\ event' \in Seq(Events)
      /\ DOMAIN event' = DOMAIN event
      /\ \A d \in DOMAIN event : d # e => event'[d] = event[d]
      /\ event'[e].count = event[e].count + 1
      /\ \A d \in DOMAIN event : event'[d].time = event[d].time /\ event'[d].owner = event[d].owner
      /\ event'[e].scripted = event[e].scripted /\ event'[e].expected = event[e].expected
      /\ event'[e].at = now
      /\ EventTime' = EventTime
  <2>1. e \in DOMAIN event
    BY <1>5
  <2> HIDE DEF e
  <2> QED
    BY <1>1, <2>1, ExecuteEvent
<1>7. Stayed(l, EventTime, e, f) /\ Left(l, EventTime, e, RemoveAt(l, Position(l, e)), f)
  BY <1>5, FollowingStays, FollowingLeft
<1>8. l2 = IF o = Drec THEN l ELSE RemoveAt(l, Position(l, e))
  BY <1>1, <1>2
<1>9. /\ Row(l2, EventTime)
      /\ \A d \in Elements(l2) : d \in Elements(l)
      /\ f \in Elements(l2) \cup {NoEvent}
      /\ f # NoEvent => EventTime[e] <= EventTime[f]
      /\ Due(l2, f) = Due(l, e) \ {e}
      /\ IF o = Drec THEN Done(l2, f) = Done(l, e) \cup {e} ELSE Done(l2, f) = Done(l, e)
  <2>1. CASE o = Drec
    BY <1>5, <1>7, <1>8, <2>1 DEF Stayed
  <2>2. CASE o # Drec
    BY <1>7, <1>8, <2>2 DEF Left
  <2> QED
    BY <2>1, <2>2
<1> HIDE DEF f, l2
<1>10. f \in Nat /\ (f # NoEvent => f \in Elements(l) /\ event[f].time >= event[e].time)
  <2>1. f # NoEvent => f \in Elements(l) /\ f \in DOMAIN event
    BY <1>5, <1>9
  <2>2. f \in DOMAIN event => f \in Nat
    BY <1>1, EventTimes
  <2>3. f # NoEvent => EventTime[f] = event[f].time /\ EventTime[e] = event[e].time
                       /\ event[f].time \in Nat /\ event[e].time \in Nat
    BY <1>5, <2>1
  <2> QED
    BY <1>9, <2>1, <2>2, <2>3 DEF NoEvent
<1>11. next'[o] = f /\ (f = NoEvent => timer'[o] = Never)
  BY <1>1, <1>2
<1>12. f # NoEvent => timer'[o] = now + (event[f].time - event[e].time) /\ timer'[o] \in Nat
                      /\ timer'[o] >= now
  <2>1. SUFFICES ASSUME f # NoEvent
                 PROVE timer'[o] = now + (event[f].time - event[e].time) /\ timer'[o] \in Nat
                       /\ timer'[o] >= now
    OBVIOUS
  <2>2. timer'[o] = now + Max({0, event[f].time - event[e].time})
    BY <1>1, <1>2, <2>1
  <2>3. event[f].time \in Nat /\ event[e].time \in Nat /\ event[f].time >= event[e].time
    BY <1>5, <1>10, <2>1
  <2> DEFINE d == event[f].time - event[e].time
  <2>4. d \in Int /\ d >= 0
    BY <2>3
  <2> HIDE DEF d
  <2>5. Max({0, d}) = d
    BY <2>4, GreaterOf
  <2>6. timer'[o] = now + d
    BY <2>2, <2>5 DEF d
  <2>7. now + d \in Nat /\ now + d >= now
    BY <1>1, <2>4
  <2> QED
    BY <2>6, <2>7 DEF d
<1>13. f # NoEvent => TimerOffset(o)' = event[e].time
  <2>1. SUFFICES ASSUME f # NoEvent PROVE TimerOffset(o)' = event[e].time
    OBVIOUS
  <2>2. event[f].time \in Nat /\ event[e].time \in Nat /\ event'[f].time = event[f].time
    BY <1>5, <1>6, <1>10, <2>1
  <2>3. TimerOffset(o)' = event'[f].time - (timer'[o] - now)
    BY <1>2, <1>11 DEF TimerOffset
  <2> QED
    BY <1>1, <1>12, <2>1, <2>2, <2>3
<1>14. TimerOffset(o) = event[e].time
  <2>1. event[e].time \in Nat
    BY <1>5
  <2> QED
    BY <1>1, <2>1 DEF TimerOffset
<1>15. /\ list' \in [Owner -> Seq(Id)] /\ next' \in [Owner -> Nat]
       /\ timer' \in [Owner -> Nat \cup {Never}]
       /\ \A q \in Owner \ {o} : list'[q] = list[q] /\ next'[q] = next[q] /\ timer'[q] = timer[q]
  <2>1. l2 \in Seq(Id)
    BY <1>9 DEF Row
  <2>2. list' \in [Owner -> Seq(Id)]
    BY <1>1, <1>2, <1>8, <2>1 DEF l2
  <2>3. next' \in [Owner -> Nat]
    BY <1>1, <1>2, <1>10
  <2>4. timer' \in [Owner -> Nat \cup {Never}]
    <3>1. timer'[o] \in Nat \cup {Never}
      BY <1>11, <1>12
    <3> QED
      BY <1>1, <1>2, <3>1
  <2>5. \A q \in Owner \ {o} : list'[q] = list[q] /\ next'[q] = next[q] /\ timer'[q] = timer[q]
    BY <1>1, <1>2
  <2> QED
    BY <2>2, <2>3, <2>4, <2>5
<1>16. Typed'
  BY <1>1, <1>6, <1>15 DEF Typed, timerVars
<1>17. ASSUME NEW d \in DOMAIN event', event'[d].owner = o
       PROVE  event'[d].count = IF d \in Due(l2, f) THEN 0 ELSE 1
  <2>1. event[d].count = IF d \in Due(l, e) THEN 0 ELSE 1
    BY <1>4, <1>6, <1>17 DEF Inv, Counted
  <2>2. e \in Due(l, e)
    BY <1>3, <1>5, Divided
  <2>3. CASE d = e
    BY <1>6, <1>9, <2>1, <2>2, <2>3
  <2>4. CASE d # e
    BY <1>6, <1>9, <1>17, <2>1, <2>4
  <2> QED
    BY <2>3, <2>4
<1>18. ASSUME f # NoEvent
       PROVE  TimerOffset(o)' >= 0 /\ \A p \in Flow \cup {o} : Behind(o, p)'
  <2>1. \A p \in Flow \cup {o} : \A d \in Done(list[p], next[p]) : event[d].time <= event[e].time
    BY <1>3, <1>4, <1>14 DEF Inv, Clocks
  <2>2. ASSUME NEW p \in Flow \cup {o}, NEW d \in Done(list'[p], next'[p])
        PROVE  event'[d].time <= event[e].time
    <3>1. p \in Owner
      BY DEF Owner
    <3>2. d \in Done(list[p], next[p]) \/ d = e
      <4>1. CASE p = o
        BY <1>9, <1>11, <2>2, <4>1 DEF l2
      <4>2. CASE p # o
        BY <1>15, <2>2, <3>1, <4>2
      <4> QED
        BY <4>1, <4>2
    <3>3. CASE d \in Done(list[p], next[p])
      BY <1>6, <2>1, <3>1, <3>3, PassedTimes
    <3>4. CASE d = e
      BY <1>5, <1>6, <3>4
    <3> QED
      BY <3>2, <3>3, <3>4
  <2>3. event[e].time >= 0
    BY <1>5
  <2> QED
    BY <1>13, <1>18, <2>2, <2>3 DEF Behind
<1>19. o \in Flow => Done(l2, f) = Done(l, e)
  BY <1>1, <1>9
<1>20. /\ timer'[o] # Never <=> f # NoEvent
       /\ timer'[o] # Never => timer'[o] >= now
  BY <1>11, <1>12 DEF Never
<1>21. \A d \in Elements(l2) : event'[d].owner = o
  BY <1>5, <1>6, <1>9
<1>22. \A d \in DOMAIN event : event[d].owner # o => event'[d].count = event[d].count
  BY <1>5, <1>6
<1>23. OwnStep(o)
  BY <1>1, <1>4, <1>6, <1>9, <1>11, <1>15, <1>16, <1>17, <1>18, <1>19, <1>20, <1>21, <1>22
     DEF OwnStep, l2
<1>24. TimedOut(o)
  <2>1. e \in DOMAIN event /\ e \in Due(l, e) /\ event[e].owner = o
    BY <1>3, <1>5, Divided
  <2>2. Due(list'[o], next'[o]) = Due(l, e) \ {e}
    BY <1>9, <1>11 DEF l2
  <2>3. o = Drec => Done(list'[o], next'[o]) = Done(l, e) \cup {e}
    BY <1>9, <1>11 DEF l2
  <2> QED
    BY <1>3, <1>4, <1>6, <1>11, <1>13, <1>14, <2>1, <2>2, <2>3 DEF TimedOut
<1> QED
  BY <1>23, <1>24
-------------------------------------------------------------------------------
\* The start: the events up to the offset are done, the next one is the first after it.
FromStart == IF offset = NoOffset THEN 0 ELSE offset

\* The events up to the offset are those in front of the first one after it.
LEMMA FirstOf ==
  ASSUME Inv, NEW o \in Owner
  PROVE  /\ FirstAfter(o) \in Elements(list[o]) \cup {NoEvent}
         /\ Done(list[o], FirstAfter(o)) = Passed(o)
         /\ \A e \in Passed(o) : event[e].time <= offset
         /\ FirstAfter(o) # NoEvent => event[FirstAfter(o)].time > offset
<1> DEFINE l == list[o]
           later == Later(o)
           m == FirstAfter(o)
<1>1. /\ Typed /\ Row(l, EventTime) /\ l \in Seq(Id) /\ DOMAIN l = 1..Len(l) /\ Len(l) \in Nat
      /\ offset \in Int
  BY LenProperties DEF Inv, Listed, Row, Typed, NoOffset
<1>2. \A i \in 1..Len(l) : l[i] \in Elements(l) /\ event[l[i]].time \in Nat
  <2>1. \A i \in 1..Len(l) : l[i] \in Elements(l)
    BY DEF Elements, Part
  <2> QED
    BY <2>1, PassedTimes
<1>3. later = {i \in 1..Len(l) : event[l[i]].time > offset}
  BY <1>1 DEF Later
<1>4. Passed(o) = {l[i] : i \in {i \in 1..Len(l) : \A j \in later : i < j}}
  BY <1>1 DEF Passed
<1>5. m = IF later = {} THEN NoEvent ELSE l[Min(later)]
  BY DEF FirstAfter
<1> HIDE DEF later, m
<1>6. \A e \in Passed(o) : event[e].time <= offset
  <2>1. SUFFICES ASSUME NEW i \in 1..Len(l), \A j \in later : i < j
                 PROVE  event[l[i]].time <= offset
    BY <1>4
  <2>2. i \notin later
    BY <2>1
  <2>3. ~(event[l[i]].time > offset)
    BY <1>3, <2>2
  <2>4. event[l[i]].time \in Nat
    BY <1>2
  <2> HIDE DEF l
  <2> QED
    BY <1>1, <2>3, <2>4
<1>7. CASE later = {}
  <2>1. m = NoEvent
    BY <1>5, <1>7
  <2>2. Passed(o) = Elements(l)
    BY <1>4, <1>7 DEF Elements, Part
  <2>3. Done(l, NoEvent) = Elements(l)
    BY <1>1, Divided
  <2> QED
    BY <1>6, <2>1, <2>2, <2>3 DEF m
<1>8. CASE later # {}
  <2> DEFINE k == Min(later)
  <2>1. k \in later /\ \A j \in later : k <= j
    <3>1. later \subseteq Nat
      BY <1>3
    <3> QED
      BY <1>8, <3>1, LeastOf
  <2>2. m = l[k]
    BY <1>5, <1>8
  <2> HIDE DEF k
  <2>3. k \in 1..Len(l) /\ event[l[k]].time > offset
    BY <1>3, <2>1
  <2>4. Place(l, m) = k
    BY <1>1, <2>2, <2>3, PlaceOf
  <2>5. ASSUME NEW i \in 1..Len(l) PROVE (\A j \in later : i < j) <=> i \in 1..(k - 1)
    <3>1. \A j \in later : j \in Int
      BY <1>3
    <3>2. (\A j \in later : i < j) <=> i < k
      BY <1>1, <2>1, <2>3, <2>5, <3>1
    <3> QED
      BY <1>1, <2>3, <2>5, <3>2
  <2>6. \A i \in 1..(k - 1) : i \in 1..Len(l)
    BY <1>1, <2>3
  <2>7. Passed(o) = {l[i] : i \in 1..(k - 1)}
    BY <1>4, <2>5, <2>6
  <2>8. Done(l, m) = Passed(o)
    BY <2>4, <2>7 DEF Done, Part
  <2>9. m \in Elements(l) /\ event[m].time > offset
    BY <1>2, <2>2, <2>3
  <2> QED
    BY <1>6, <2>8, <2>9 DEF m
<1> QED
  BY <1>7, <1>8

\* What START NOW and the start timer have in common.
Begins ==
  /\ ~ReallyStarted /\ ~stopped
  /\ StartLists
  /\ mgenStarted' = TRUE /\ startTimer' = Never
  /\ UNCHANGED <<offset, now, flows, list, stopped>>

\* What becomes of the events.
Begun(e) ==
  /\ event'[e] \in Events
  /\ event'[e].time = event[e].time
  /\ event'[e].owner = event[e].owner
  /\ event'[e].scripted = event[e].scripted
  /\ IF e \in Passed(event[e].owner)
     THEN event'[e].count = event[e].count + 1 /\ event'[e].at = now
     ELSE event'[e].count = event[e].count /\ event'[e].at = event[e].at
  /\ event[e].expected = Never =>
       event'[e].expected = now + Max({0, event[e].time - FromStart})

\* Without OFFSET the script begins at 0.
LEMMA BaseOf ==
  ASSUME Typed
  PROVE  Max({offset, 0}) = FromStart /\ FromStart \in Nat
<1>1. offset \in Nat \cup {-1}
  BY DEF Typed, NoOffset
<1>2. Max({offset, 0}) = IF offset > 0 THEN offset ELSE 0
  BY <1>1, GreaterOf
<1> QED
  BY <1>1, <1>2 DEF FromStart, NoOffset

\* At the start the events that were passed are executed, and times are fixed.
LEMMA BeginsEvents ==
  ASSUME Inv, Begins
  PROVE  /\ event' \in Seq(Events)
         /\ DOMAIN event' = DOMAIN event
         /\ \A e \in DOMAIN event : Begun(e)
         /\ EventTime' = EventTime
<1> DEFINE base   == Max({offset, 0})
           passed == UNION {Passed(o) : o \in Owner}
           due(e) == now + Max({0, event[e].time - base})
           begun  == [e \in DOMAIN event |-> IF event[e].expected # Never THEN event[e]
                                        ELSE [event[e] EXCEPT !.expected = due(e)]]
<1>1. event' = [e \in DOMAIN event |->
          IF e \in passed THEN [begun[e] EXCEPT !.count = @ + 1, !.at = now] ELSE begun[e]]
  BY DEF Begins, StartLists
<1>2. /\ Typed /\ base = FromStart /\ FromStart \in Nat /\ now \in Nat
      /\ DOMAIN event = 1..Len(event) /\ Len(event) \in Nat
      /\ \A e \in DOMAIN event : event[e] \in Events
  BY BaseOf, EventTimes DEF Inv, Typed
<1> HIDE DEF base
<1>3. ASSUME NEW e \in DOMAIN event
      PROVE  e \in passed <=> e \in Passed(event[e].owner)
  <2>1. ASSUME NEW o \in Owner, e \in Passed(o) PROVE o = event[e].owner
    <3>1. Row(list[o], EventTime) /\ \A d \in Elements(list[o]) : event[d].owner = o
      BY DEF Inv, Listed
    <3>2. FirstAfter(o) \in Elements(list[o]) \cup {NoEvent} /\ e \in Done(list[o], FirstAfter(o))
      BY <2>1, FirstOf
    <3>3. e \in Elements(list[o])
      BY <3>1, <3>2, Divided
    <3> QED
      BY <3>1, <3>3
  <2>2. event[e].owner \in Owner
    BY <1>2 DEF Events
  <2> QED
    BY <2>1, <2>2
<1> HIDE DEF passed
<1>4. ASSUME NEW e \in DOMAIN event PROVE Begun(e)
  <2> DEFINE v == event[e]
             x == due(e)
             w == IF v.expected # Never THEN v ELSE [v EXCEPT !.expected = x]
             c == w.count + 1
             u == [w EXCEPT !.count = c, !.at = now]
  <2>1. v \in Events /\ v.time \in Nat /\ v.count \in Nat
    BY <1>2 DEF Events
  <2>2. x = now + Max({0, v.time - FromStart}) /\ x \in Nat
    <3>1. x = now + Max({0, v.time - FromStart})
      BY <1>2
    <3> DEFINE d == v.time - FromStart
    <3>2. d \in Int
      BY <1>2, <2>1
    <3> HIDE DEF d
    <3>3. Max({0, d}) \in Nat
      <4>1. Max({0, d}) = IF 0 > d THEN 0 ELSE d
        BY <3>2, GreaterOf
      <4> QED
        BY <3>2, <4>1
    <3> QED
      BY <1>2, <3>1, <3>3 DEF d
  <2>3. event'[e] = IF e \in passed THEN u ELSE w
    BY <1>1
  <2> HIDE DEF x, v
  <2>4. /\ w \in Events /\ w.time = v.time /\ w.owner = v.owner /\ w.scripted = v.scripted
        /\ w.count = v.count /\ w.at = v.at
        /\ (v.expected = Never => w.expected = x)
    <3>1. CASE v.expected # Never
      BY <2>1, <3>1
    <3>2. CASE v.expected = Never
      <4> DEFINE y == [v EXCEPT !.expected = x]
      <4>1. /\ y \in Events /\ y.time = v.time /\ y.owner = v.owner /\ y.scripted = v.scripted
            /\ y.count = v.count /\ y.at = v.at /\ y.expected = x
        BY <2>1, <2>2 DEF Events
      <4> HIDE DEF y
      <4>2. w = y
        BY <3>2 DEF y
      <4> HIDE DEF w
      <4> QED
        BY <4>1, <4>2
    <3> QED
      BY <3>1, <3>2
  <2> HIDE DEF w
  <2>5. c \in Nat
    BY <2>1, <2>4
  <2> HIDE DEF c
  <2>6. /\ u \in Events /\ u.time = w.time /\ u.owner = w.owner /\ u.scripted = w.scripted
        /\ u.count = c /\ u.at = now /\ u.expected = w.expected
    BY <1>2, <2>4, <2>5 DEF Events
  <2> HIDE DEF u
  <2>7. CASE e \in passed
    <3>1. e \in Passed(v.owner)
      BY <1>3, <2>7 DEF v
    <3>2. event'[e] = u /\ c = v.count + 1
      BY <2>3, <2>4, <2>7 DEF c
    <3> QED
      BY <2>2, <2>4, <2>6, <3>1, <3>2 DEF Begun, v
  <2>8. CASE e \notin passed
    <3>1. e \notin Passed(v.owner)
      BY <1>3, <2>8 DEF v
    <3>2. event'[e] = w
      BY <2>3, <2>8
    <3> QED
      BY <2>2, <2>4, <3>1, <3>2 DEF Begun, v
  <2> QED
    BY <2>7, <2>8
<1>5. DOMAIN event' = DOMAIN event
  BY <1>1
<1>6. event' \in [1..Len(event) -> Events]
  <2>1. \A e \in 1..Len(event) : event'[e] \in Events
    BY <1>2, <1>4 DEF Begun
  <2>2. event' = [e \in 1..Len(event) |-> event'[e]]
    BY <1>1, <1>2
  <2> QED
    BY <2>1, <2>2
<1>7. event' \in Seq(Events)
  BY <1>2, <1>6, SeqDef
<1>8. EventTime' = EventTime
  BY <1>4, <1>5 DEF Begun, EventTime
<1> QED
  BY <1>4, <1>5, <1>7, <1>8

\* After the start all timers tell the offset.
LEMMA BeginsTimers ==
  ASSUME Inv, Begins, NEW o \in Owner
  PROVE  /\ next'[o] = FirstAfter(o)
         /\ next'[o] \in Elements(list[o]) \cup {NoEvent} /\ next'[o] \in Nat
         /\ Done(list[o], next'[o]) = Passed(o)
         /\ timer'[o] # Never <=> next'[o] # NoEvent
         /\ timer'[o] \in Nat \cup {Never}
         /\ timer'[o] # Never => timer'[o] >= now
         /\ next'[o] # NoEvent => TimerOffset(o)' = FromStart /\ event[next'[o]].time > offset
<1> DEFINE first == [q \in Owner |-> FirstAfter(q)]
           base == Max({offset, 0})
           f == FirstAfter(o)
<1>1. /\ next' = first
      /\ timer' = [q \in Owner |-> IF first[q] = NoEvent THEN timer[q]
                                   ELSE now + (event[first[q]].time - base)]
  BY DEF Begins, StartLists
<1>2. /\ Typed /\ base = FromStart /\ FromStart \in Nat /\ now \in Nat /\ now' = now
      /\ FromStart = IF offset = NoOffset THEN 0 ELSE offset
      /\ offset \in Nat \cup {-1}
  BY BaseOf DEF Inv, Typed, NoOffset, Begins, FromStart
<1>3. next[o] = NoEvent /\ timer[o] = Never
  BY DEF Begins, Inv, Waiting, Ticking
<1>4. next'[o] = f
  BY <1>1
<1>5. /\ f \in Elements(list[o]) \cup {NoEvent}
      /\ Done(list[o], f) = Passed(o)
      /\ f # NoEvent => event[f].time > offset
  BY FirstOf
<1>6. f # NoEvent => f \in DOMAIN event /\ event[f].time \in Nat
  BY <1>5, PassedTimes
<1>7. f \in Nat
  BY <1>2, <1>6, EventTimes DEF NoEvent
<1>8. timer'[o] = IF f = NoEvent THEN timer[o] ELSE now + (event[f].time - FromStart)
  BY <1>1, <1>2
<1> HIDE DEF f, base
<1>9. CASE f = NoEvent
  BY <1>3, <1>4, <1>5, <1>7, <1>8, <1>9 DEF f
<1>10. CASE f # NoEvent
  <2> DEFINE t == event[f].time
  <2>1. t \in Nat /\ t >= FromStart
    BY <1>2, <1>5, <1>6, <1>10 DEF NoOffset
  <2>2. timer'[o] = now + (t - FromStart)
    BY <1>8, <1>10
  <2>3. event'[f].time = t
    BY <1>6, <1>10, BeginsEvents DEF Begun
  <2>4. TimerOffset(o)' = t - ((now + (t - FromStart)) - now)
    BY <1>2, <1>4, <2>2, <2>3 DEF TimerOffset
  <2> HIDE DEF t
  <2>5. timer'[o] \in Nat /\ timer'[o] >= now /\ TimerOffset(o)' = FromStart
    BY <1>2, <2>1, <2>2, <2>4
  <2>6. timer'[o] # Never
    BY <2>5 DEF Never
  <2> QED
    BY <1>4, <1>5, <1>7, <1>10, <2>5, <2>6 DEF f
<1> QED
  BY <1>9, <1>10

\* The start keeps the invariant.
LEMMA BeginsKeeps ==
  ASSUME Orderly, Inv, Begins
  PROVE  Inv'
<1>1. /\ Typed /\ offset' = offset /\ now' = now /\ flows' = flows /\ list' = list
      /\ stopped' = stopped /\ mgenStarted' = TRUE /\ startTimer' = Never
      /\ ~stopped /\ ReallyStarted' /\ Drec \notin Flow
  BY DEF Inv, Begins, ReallyStarted, Orderly
<1>2. /\ event' \in Seq(Events) /\ DOMAIN event' = DOMAIN event
      /\ \A e \in DOMAIN event : Begun(e) /\ event[e] \in Events
      /\ EventTime' = EventTime
  BY <1>1, BeginsEvents, EventTimes
<1>3. \A o \in Owner : next'[o] \in Nat /\ timer'[o] \in Nat \cup {Never}
  BY BeginsTimers
<1>4. /\ next' \in [Owner -> Nat] /\ timer' \in [Owner -> Nat \cup {Never}]
      /\ started' = [f \in Flow |-> started[f] \/ list[f] # << >>]
  <2>1. next' = [o \in Owner |-> next'[o]] /\ timer' = [o \in Owner |-> timer'[o]]
    BY DEF Begins, StartLists
  <2>2. started' = [f \in Flow |-> started[f] \/ list[f] # << >>]
    BY DEF Begins, StartLists
  <2> QED
    BY <1>3, <2>1, <2>2
<1>5. Typed'
  <2>1. started' \in [Flow -> BOOLEAN]
    BY <1>4
  <2> QED
    BY <1>1, <1>2, <1>4, <2>1 DEF Typed, Never
<1>6. /\ ~ReallyStarted
      /\ \A e \in DOMAIN event : event[e].count = 0 /\ e \in Elements(list[event[e].owner])
      /\ \A f \in Flow : ~started[f] /\ (f \in ToSet(flows) <=> list[f] # << >>)
  BY <1>1 DEF Inv, Waiting, Begins
<1>7. Listed'
  <2>1. \A o \in Owner : Row(list[o], EventTime) /\ \A e \in Elements(list[o]) :
          e \in DOMAIN event /\ event[e].owner = o
    BY PassedTimes DEF Inv, Listed
  <2>2. \A o \in Owner : \A e \in Elements(list[o]) : event'[e].owner = o
    BY <1>2, <2>1 DEF Begun
  <2>3. \A o \in Owner : next'[o] \in Elements(list[o]) \cup {NoEvent}
    BY BeginsTimers
  <2> QED
    BY <1>1, <1>2, <2>1, <2>2, <2>3 DEF Listed
<1>8. Ticking'
  <2>1. \A o \in Owner : /\ timer'[o] # Never <=> next'[o] # NoEvent
                         /\ timer'[o] # Never => timer'[o] >= now
    BY BeginsTimers
  <2> QED
    BY <1>1, <2>1 DEF Ticking
<1>9. Waiting'
  BY <1>1 DEF Waiting
<1>10. Counted'
  <2>1. SUFFICES ASSUME NEW e \in DOMAIN event
                 PROVE  event'[e].count =
                          IF e \in Due(list[event'[e].owner], next'[event'[e].owner]) THEN 0 ELSE 1
    BY <1>1, <1>2 DEF Counted
  <2> DEFINE o == event[e].owner
  <2>2. event'[e].owner = o /\ o \in Owner /\ event[e].count = 0 /\ e \in Elements(list[o])
    BY <1>2, <1>6 DEF Begun, Events
  <2>3. Row(list[o], EventTime) /\ next'[o] \in Elements(list[o]) \cup {NoEvent}
        /\ Done(list[o], next'[o]) = Passed(o)
    BY <2>2, BeginsTimers DEF Inv, Listed
  <2>4. e \in Passed(o) <=> e \notin Due(list[o], next'[o])
    BY <2>2, <2>3, Divided
  <2>5. event'[e].count = IF e \in Passed(o) THEN event[e].count + 1 ELSE event[e].count
    BY <1>2 DEF Begun
  <2> QED
    BY <2>2, <2>4, <2>5
<1>11. Clocks'
  <2>1. FromStart \in Nat /\ offset \in Nat \cup {-1} /\ (offset # NoOffset => FromStart = offset)
    BY <1>1, BaseOf DEF Typed, FromStart, NoOffset
  <2>2. ASSUME NEW p \in Owner, NEW e \in Done(list[p], next'[p])
        PROVE  /\ event'[e].time <= FromStart /\ offset # NoOffset
               /\ e \in Elements(list[p]) /\ list[p] # << >>
    <3>1. Done(list[p], next'[p]) = Passed(p) /\ next'[p] \in Elements(list[p]) \cup {NoEvent}
      BY BeginsTimers
    <3>2. event[e].time <= offset
      BY <2>2, <3>1, FirstOf
    <3>3. e \in Elements(list[p])
      BY <2>2, <3>1, Divided DEF Inv, Listed
    <3>4. e \in DOMAIN event /\ event[e].time \in Nat
      BY <3>3, PassedTimes
    <3>5. event'[e].time = event[e].time
      BY <1>2, <3>4 DEF Begun
    <3>6. offset # NoOffset
      BY <2>1, <3>2, <3>4 DEF NoOffset
    <3>7. list[p] # << >>
      <4>1. PICK i \in 1..Len(list[p]) : TRUE
        BY <3>3 DEF Elements, Part
      <4> QED
        BY <4>1
    <3> QED
      BY <2>1, <3>2, <3>3, <3>4, <3>5, <3>6, <3>7
  <2>3. ASSUME NEW o \in Owner, next'[o] # NoEvent
        PROVE  /\ TimerOffset(o)' >= 0
               /\ \A p \in Flow \cup {o} : \A e \in Done(list'[p], next'[p]) :
                    event'[e].time <= TimerOffset(o)'
    <3>1. TimerOffset(o)' = FromStart
      BY <2>3, BeginsTimers
    <3>2. \A p \in Flow \cup {o} : p \in Owner
      BY DEF Owner
    <3> QED
      BY <1>1, <2>1, <2>2, <3>1, <3>2
  <2>4. ASSUME NEW p \in Flow, Done(list'[p], next'[p]) # {}
        PROVE  offset # NoOffset /\ p \in ToSet(flows)
    <3>1. p \in Owner
      BY DEF Owner
    <3>2. offset # NoOffset /\ list[p] # << >>
      BY <1>1, <2>2, <2>4, <3>1
    <3> QED
      BY <1>6, <3>2
  <2>5. \A f \in ToSet(flows) : started'[f]
    <3>1. \A f \in ToSet(flows) : f \in Flow
      BY <1>1, LenProperties DEF ToSet, Typed
    <3> QED
      BY <1>4, <1>6, <3>1
  <2> QED
    BY <1>1, <2>3, <2>4, <2>5 DEF Clocks
<1> QED
  BY <1>5, <1>7, <1>8, <1>9, <1>10, <1>11 DEF Inv

\* Before the start, everything that is read waits.
LEMMA ParseKeeps ==
  ASSUME Orderly, Inv, NEW o \in Owner, NEW t \in Times \cup {Immediate}, Parse(o, t)
  PROVE  Inv'
<1> DEFINE time == ParsedTime(t)
           r == Record(o, time, Never, Never)
<1>1. /\ Typed /\ ~stopped /\ ~ReallyStarted /\ Drec \notin Flow
      /\ event' = Append(event, r)
      /\ flows' = FlowsWith(o)
      /\ list' = [list EXCEPT ![o] = InsertByTime(@, NextId, time)]
      /\ UNCHANGED <<timerVars, next, timer, started, stopped>>
      /\ list \in [Owner -> Seq(Id)]
  BY DEF Inv, Parse, Orderly, Typed
<1>2. time \in Nat
  <2>1. t \in Int
    BY DEF Orderly, Immediate
  <2>2. time = IF t > 0 THEN t ELSE 0
    BY <2>1, GreaterOf DEF ParsedTime
  <2> QED
    BY <2>1, <2>2
<1> HIDE DEF time
<1>3. r \in Events /\ r.owner = o /\ r.count = 0 /\ r.time = time
  BY <1>1, <1>2 DEF Record, Events, Never
<1> HIDE DEF r
<1>4. /\ event' \in Seq(Events)
      /\ DOMAIN event' = DOMAIN event \cup {NextId}
      /\ NextId \notin DOMAIN event
      /\ \A e \in DOMAIN event : event'[e] = event[e] /\ event[e] \in Events
      /\ event'[NextId] = r
  BY <1>1, <1>3, EventTimes, EventAppended
<1>5. /\ \A q \in Owner : /\ Row(list[q], EventTime) /\ next[q] = NoEvent
                          /\ \A e \in Elements(list[q]) : e \in DOMAIN event /\ event[e].owner = q
      /\ \A e \in DOMAIN event : event[e].count = 0 /\ e \in Elements(list[event[e].owner])
      /\ \A f \in Flow : ~started[f] /\ (f \in ToSet(flows) <=> list[f] # << >>)
  BY <1>1, PassedTimes DEF Inv, Listed, Waiting
<1>6. PICK p \in 1..(Len(list[o]) + 1) :
        /\ Entering(list[o], EventTime, NextId, time, p, EventTime')
        /\ InsertByTime(list[o], NextId, time) = InsertAt(list[o], p, NextId)
  BY <1>1, <1>3, <1>5, InsertsByTime
<1>7. list'[o] = InsertAt(list[o], p, NextId) /\ \A q \in Owner \ {o} : list'[q] = list[q]
  BY <1>1, <1>6
<1>8. Row(list'[o], EventTime') /\ Elements(list'[o]) = Elements(list[o]) \cup {NextId}
  BY <1>6, <1>7, EnteredRow
<1>9. list' \in [Owner -> Seq(Id)]
  <2>1. list'[o] \in Seq(Id)
    BY <1>8 DEF Row
  <2> QED
    BY <1>1, <2>1
<1>10. /\ offset' = offset /\ now' = now /\ mgenStarted' = mgenStarted /\ startTimer' = startTimer
       /\ next' = next /\ timer' = timer /\ started' = started /\ stopped' = stopped
       /\ ~ReallyStarted'
  BY <1>1 DEF timerVars, ReallyStarted
<1>11. flows' \in Seq(Flow)
  BY <1>1, FlowsWithTyped
<1>12. Typed'
  BY <1>1, <1>4, <1>9, <1>10, <1>11 DEF Typed
<1>13. Listed'
  <2>1. SUFFICES ASSUME NEW q \in Owner
                 PROVE  /\ Row(list'[q], EventTime')
                        /\ \A e \in Elements(list'[q]) : event'[e].owner = q
                        /\ next'[q] \in Elements(list'[q]) \cup {NoEvent}
    BY DEF Listed
  <2>2. CASE q = o
    BY <1>3, <1>4, <1>5, <1>8, <1>10, <2>2
  <2>3. CASE q # o
    <3>1. \A e \in DOMAIN EventTime : e \in DOMAIN EventTime' /\ EventTime'[e] = EventTime[e]
      BY <1>4 DEF EventTime
    <3>2. Row(list[q], EventTime')
      BY <1>5, <3>1, RowKept
    <3> QED
      BY <1>4, <1>5, <1>7, <1>10, <2>3, <3>2
  <2> QED
    BY <2>2, <2>3
<1>14. Ticking'
  BY <1>10 DEF Ticking, Inv
<1>15. Waiting'
  <2>1. ASSUME NEW e \in DOMAIN event'
        PROVE  event'[e].count = 0 /\ e \in Elements(list'[event'[e].owner])
    <3>1. CASE e = NextId
      BY <1>3, <1>4, <1>8, <3>1
    <3>2. CASE e # NextId
      <4>1. e \in DOMAIN event /\ event'[e] = event[e] /\ event[e].owner \in Owner
        BY <1>4, <2>1, <3>2 DEF Events
      <4>2. event[e].count = 0 /\ e \in Elements(list[event[e].owner])
        BY <1>5, <4>1
      <4> QED
        BY <1>7, <1>8, <4>1, <4>2
    <3> QED
      BY <3>1, <3>2
  <2>2. ASSUME NEW f \in Flow
        PROVE  f \in ToSet(flows') <=> list'[f] # << >>
    <3>1. f \in Owner /\ f # Drec
      BY <1>1 DEF Owner
    <3>2. f \in ToSet(flows) <=> list[f] # << >>
      BY <1>5
    <3>3. o # Drec => o \in Flow
      BY DEF Owner
    <3>4. f \in ToSet(flows') <=> f \in ToSet(flows) \/ f = o
      <4>1. CASE o = Drec \/ o \in ToSet(flows)
        BY <1>1, <3>1, <4>1 DEF FlowsWith
      <4>2. CASE ~(o = Drec \/ o \in ToSet(flows))
        <5>1. flows' = Append(flows, o) /\ o \in Flow /\ flows \in Seq(Flow)
          BY <1>1, <3>3, <4>2 DEF FlowsWith, Typed
        <5>2. /\ DOMAIN flows = 1..Len(flows) /\ Len(flows) \in Nat
              /\ DOMAIN flows' = 1..Len(flows') /\ Len(flows') = Len(flows) + 1
              /\ \A i \in 1..Len(flows) : flows'[i] = flows[i]
              /\ flows'[Len(flows) + 1] = o
          BY <1>11, <5>1, AppendProperties, LenProperties
        <5>3. DOMAIN flows' = DOMAIN flows \cup {Len(flows) + 1}
          BY <5>2
        <5> QED
          BY <5>2, <5>3 DEF ToSet
      <4> QED
        BY <4>1, <4>2
    <3>5. f = o => list'[f] # << >>
      <4>1. SUFFICES ASSUME f = o, list'[o] = << >> PROVE FALSE
        OBVIOUS
      <4>2. PICK i \in 1..Len(list'[o]) : TRUE
        BY <1>8 DEF Elements, Part
      <4> QED
        BY <4>1, <4>2
    <3>6. f # o => list'[f] = list[f]
      BY <1>7, <3>1
    <3> QED
      BY <3>2, <3>4, <3>5, <3>6
  <2> QED
    BY <1>5, <1>10, <2>1, <2>2 DEF Waiting
<1>16. Counted' /\ Clocks'
  BY <1>10 DEF Counted, Clocks
<1> QED
  BY <1>12, <1>13, <1>14, <1>15, <1>16 DEF Inv

\* START at a given time only starts a timer.
LEMMA StartAtKeeps ==
  ASSUME Orderly, Inv, NEW delay \in StartDelays, StartAt(delay)
  PROVE  Inv'
<1>1. /\ ~ReallyStarted /\ startTimer' = now + delay /\ mgenStarted' = TRUE /\ ~stopped
      /\ UNCHANGED <<offset, now, listVars, stopped>>
      /\ delay \in Nat /\ now \in Nat
  BY DEF StartAt, Inv, Typed, Orderly
<1>2. startTimer' \in Nat /\ startTimer' >= now /\ startTimer' # Never
  BY <1>1 DEF Never
<1>3. ~ReallyStarted'
  BY <1>1, <1>2 DEF ReallyStarted
<1>4. Typed'
  BY <1>1, <1>2 DEF Inv, Typed, listVars
<1>5. Listed'
  BY <1>1 DEF Inv, Listed, EventTime, listVars
<1>6. Ticking'
  BY <1>1, <1>2 DEF Inv, Ticking, listVars
<1>7. Waiting'
  BY <1>1, <1>3 DEF Inv, Waiting, listVars
<1> QED
  BY <1>3, <1>4, <1>5, <1>6, <1>7 DEF Inv, Counted, Clocks

\* Stop forgets everything there is to say.
LEMMA StopKeeps ==
  ASSUME Orderly, Inv, Stop
  PROVE  Inv'
<1>1. /\ stopped' = TRUE /\ mgenStarted' = FALSE /\ startTimer' = Never
      /\ list' = [o \in Owner |-> << >>] /\ next' = [o \in Owner |-> NoEvent]
      /\ timer' = [o \in Owner |-> Never] /\ flows' = << >>
      /\ UNCHANGED <<offset, now, starts, event, started>>
  BY DEF Stop
<1>2. ~ReallyStarted'
  BY <1>1 DEF ReallyStarted
<1>3. Typed'
  BY <1>1, EmptySeq DEF Inv, Typed, NoEvent
<1>4. Listed'
  <2>1. \A o \in Owner : list'[o] = << >> /\ next'[o] = NoEvent
    BY <1>1
  <2>2. Row(<< >>, EventTime')
    BY EmptySeq DEF Row
  <2>3. Elements(<< >>) = {}
    BY EmptySeq DEF Elements, Part
  <2> QED
    BY <2>1, <2>2, <2>3 DEF Listed
<1>5. Ticking'
  BY <1>1 DEF Ticking
<1>6. Waiting'
  BY <1>1 DEF Waiting
<1> QED
  BY <1>2, <1>3, <1>4, <1>5, <1>6 DEF Inv, Counted, Clocks

\* The clock does not pass a timer.
LEMMA TickKeeps ==
  ASSUME Orderly, Inv, Tick
  PROVE  Inv'
<1>1. /\ Active # {} /\ now < Min(Active)
      /\ now' = now + 1
      /\ UNCHANGED <<offset, mgenStarted, startTimer, starts, listVars, stopped>>
      /\ Typed /\ now \in Nat
  BY DEF Tick, Inv, Typed
<1>2. Active \subseteq Nat
  BY <1>1 DEF Active, Typed
<1>3. Min(Active) \in Active /\ \A t \in Active : Min(Active) <= t
  BY <1>1, <1>2, LeastOf
<1>4. \A t \in Active : t >= now + 1
  <2>1. SUFFICES ASSUME NEW t \in Active PROVE t >= now + 1
    OBVIOUS
  <2>2. Min(Active) \in Nat /\ t \in Nat /\ Min(Active) <= t
    BY <1>2, <1>3
  <2> QED
    BY <1>1, <2>2
<1>5. \A o \in Owner : timer[o] # Never => timer[o] \in Nat /\ timer[o] >= now + 1
  BY <1>1, <1>4 DEF Active, Typed
<1>6. startTimer # Never => startTimer >= now + 1
  BY <1>4 DEF Active
<1>7. Typed'
  BY <1>1 DEF Typed, listVars
<1>8. Listed'
  BY <1>1 DEF Inv, Listed, EventTime, listVars
<1>9. Ticking'
  BY <1>1, <1>5, <1>6 DEF Inv, Ticking, listVars
<1>10. Waiting'
  BY <1>1 DEF Inv, Waiting, listVars, ReallyStarted
<1>11. Counted'
  BY <1>1 DEF Inv, Counted, listVars, ReallyStarted
<1>12. ASSUME ReallyStarted, NEW o \in Owner, next[o] # NoEvent
       PROVE  /\ TimerOffset(o)' = TimerOffset(o) + 1 /\ TimerOffset(o) \in Int
              /\ TimerOffset(o) >= 0
              /\ \A p \in Flow \cup {o} : \A e \in Done(list[p], next[p]) :
                   event[e].time \in Nat /\ event[e].time <= TimerOffset(o)
  <2>1. timer[o] \in Nat /\ TimerOffset(o) \in Int
    BY <1>5, <1>12, OffsetsTyped DEF Inv, Ticking
  <2>2. next[o] \in Elements(list[o])
    BY <1>12 DEF Inv, Listed
  <2>3. event[next[o]].time \in Nat
    BY <2>2, PassedTimes
  <2>4. TimerOffset(o)' = event[next[o]].time - (timer[o] - (now + 1))
    BY <1>1 DEF TimerOffset, listVars
  <2>5. TimerOffset(o)' = TimerOffset(o) + 1
    BY <1>1, <2>1, <2>3, <2>4 DEF TimerOffset
  <2>6. \A p \in Owner : \A e \in Done(list[p], next[p]) : event[e].time \in Nat
    BY <1>1, PassedTimes, EventTimes DEF Events
  <2>7. \A p \in Flow \cup {o} : p \in Owner
    BY DEF Owner
  <2> QED
    BY <1>12, <2>1, <2>5, <2>6, <2>7 DEF Inv, Clocks
<1>13. Clocks'
  <2>1. SUFFICES ASSUME ReallyStarted PROVE Clocks'
    BY <1>1 DEF Clocks, ReallyStarted, listVars
  <2>2. /\ event' = event /\ list' = list /\ next' = next /\ flows' = flows /\ started' = started
        /\ offset' = offset
    BY <1>1 DEF listVars
  <2>3. ASSUME NEW o \in Owner, next[o] # NoEvent
        PROVE  /\ TimerOffset(o)' >= 0
               /\ \A p \in Flow \cup {o} : \A e \in Done(list[p], next[p]) :
                    event[e].time <= TimerOffset(o)'
    <3>1. /\ TimerOffset(o)' = TimerOffset(o) + 1 /\ TimerOffset(o) \in Int
          /\ TimerOffset(o) >= 0
          /\ \A p \in Flow \cup {o} : \A e \in Done(list[p], next[p]) :
               event[e].time \in Nat /\ event[e].time <= TimerOffset(o)
      BY <1>12, <2>1, <2>3
    <3> QED
      BY <3>1
  <2> QED
    BY <2>1, <2>2, <2>3 DEF Clocks, Inv
<1> QED
  BY <1>7, <1>8, <1>9, <1>10, <1>11, <1>13 DEF Inv
-------------------------------------------------------------------------------
\* The invariant of ExecutedOnce holds at first, and every step keeps it.
LEMMA InitInv == ASSUME Orderly, Init PROVE Inv
<1>1. Typed
  <2>1. << >> \in Seq(Events) /\ << >> \in Seq(Flow) /\ << >> \in Seq(Id)
    BY EmptySeq
  <2>2. offset \in Nat \cup {NoOffset}
    BY DEF Init, Orderly
  <2> QED
    BY <2>1, <2>2 DEF Init, Typed, NoEvent
<1>2. ~ReallyStarted /\ event = << >> /\ flows = << >> /\ DOMAIN event = {}
  BY DEF Init, ReallyStarted
<1>3. Listed
  <2>1. Row(<< >>, EventTime)
    BY EmptySeq DEF Row
  <2>2. Elements(<< >>) = {}
    BY EmptySeq DEF Elements, Part
  <2> QED
    BY <2>1, <2>2 DEF Init, Listed
<1>4. Ticking
  BY DEF Init, Ticking
<1>5. Waiting
  <2>1. ToSet(flows) = {}
    BY <1>2 DEF ToSet
  <2>2. \A f \in Flow : list[f] = << >>
    BY DEF Init, Owner
  <2> QED
    BY <1>2, <2>1, <2>2 DEF Init, Waiting
<1> QED
  BY <1>1, <1>2, <1>3, <1>4, <1>5 DEF Inv, Counted, Clocks

\* START NOW and the start timer start mgen once.
LEMMA StartsBegin ==
  ASSUME Orderly, Inv, StartImmediately \/ OnStartTimeout
  PROVE  Begins
<1>1. CASE StartImmediately
  <2>1. ~mgenStarted
    BY <1>1 DEF StartImmediately, Orderly
  <2>2. startTimer = Never
    BY <2>1 DEF Inv, Ticking
  <2> QED
    BY <1>1, <2>1, <2>2 DEF StartImmediately, StartNow, Begins, ReallyStarted
<1>2. CASE OnStartTimeout
  <2>1. startTimer # Never
    BY <1>2 DEF OnStartTimeout, Inv, Typed, Never
  <2>2. ~stopped
    BY <2>1 DEF Inv, Ticking
  <2> QED
    BY <1>2, <2>1, <2>2 DEF OnStartTimeout, StartNow, Begins, ReallyStarted
<1> QED
  BY <1>1, <1>2

\* Every step of the schedule keeps Inv.
LEMMA NextInv == ASSUME Orderly, Inv, [Next]_vars PROVE Inv'
<1>1. ASSUME NEW f \in Flow, NEW t \in Times \cup {Immediate}, Parse(f, t) \/ CommandFlow(f, t)
      PROVE  Inv'
  BY <1>1, ParseKeeps, CommandFlowOwn, OwnStepKeeps DEF Owner
<1>2. ASSUME NEW t \in Times \cup {Immediate}, Parse(Drec, t) \/ CommandDrec(t)
      PROVE  Inv'
  BY <1>2, ParseKeeps, CommandDrecOwn, OwnStepKeeps DEF Owner
<1>3. ASSUME NEW f \in Flow, NEW delay \in RetryDelays, ScheduleReconnect(f, delay)
      PROVE  Inv'
  BY <1>3, ScheduleReconnectOwn, OwnStepKeeps DEF Owner
<1>4. CASE StartImmediately \/ OnStartTimeout
  BY <1>4, StartsBegin, BeginsKeeps
<1>5. ASSUME NEW o \in Owner, OnTimeout(o) PROVE Inv'
  BY <1>5, OnTimeoutOwn, OwnStepKeeps
<1>6. ASSUME NEW delay \in StartDelays, StartAt(delay) PROVE Inv'
  BY <1>6, StartAtKeeps
<1>7. CASE UNCHANGED vars
  BY <1>7 DEF vars, timerVars, listVars, Inv, Typed, Listed, EventTime, Ticking, Waiting,
     Counted, Clocks, ReallyStarted, TimerOffset
<1> QED
  BY <1>1, <1>2, <1>3, <1>4, <1>5, <1>6, <1>7, StopKeeps, TickKeeps DEF Next, Insert, Timeouts

\* Inv is invariant.
LEMMA Invariance == ASSUME Orderly PROVE Spec => []Inv
<1>1. Init => Inv
  BY InitInv
<1>2. Inv /\ [Next]_vars => Inv'
  BY NextInv
<1> QED
  BY <1>1, <1>2, PTL DEF Spec

\* What is still to come is what is due, in its order.
LEMMA ToComeIs ==
  ASSUME Inv, NEW o \in Owner
  PROVE  /\ ToSet(ToCome(o)) = Due(list[o], next[o])
         /\ \A i, j \in DOMAIN ToCome(o) :
              i < j => event[ToCome(o)[i]].time <= event[ToCome(o)[j]].time
<1> DEFINE l == list[o]
           n == next[o]
           k == Place(l, n)
           s == SubSeq(l, k, Len(l))
<1>1. Row(l, EventTime) /\ n \in Elements(l) \cup {NoEvent} /\ l \in Seq(Id)
  BY DEF Inv, Listed, Row
<1>2. CASE n = NoEvent
  <2>1. ToCome(o) = << >> /\ Due(l, n) = {}
    BY <1>1, <1>2, Divided DEF ToCome
  <2>2. DOMAIN << >> = {}
    OBVIOUS
  <2> QED
    BY <2>1, <2>2 DEF ToSet
<1>3. CASE n # NoEvent
  <2>1. /\ k \in 1..Len(l) /\ Len(l) \in Nat /\ Position(l, n) = k
        /\ \A i \in 1..Len(l) : l[i] \in Elements(l) /\ l[i] \in Id
    BY <1>1, <1>3, PlaceIn, LenProperties DEF Place, Elements, Part
  <2>2. ToCome(o) = s
    BY <1>3, <2>1 DEF ToCome
  <2> HIDE DEF k, l, n
  <2>3. /\ s \in Seq(Id) /\ Len(s) = Len(l) - k + 1
        /\ \A i \in 1..(Len(l) - k + 1) : s[i] = l[k + i - 1]
    <3>1. \A i \in k..Len(l) : l[i] \in Id
      BY <2>1
    <3>2. /\ s \in Seq(Id) /\ Len(s) = (IF k <= Len(l) THEN Len(l) - k + 1 ELSE 0)
          /\ \A i \in 1..(Len(l) - k + 1) : s[i] = l[k + i - 1]
      BY <1>1, <2>1, <3>1, SubSeqProperties
    <3> HIDE DEF s
    <3> QED
      BY <2>1, <3>2
  <2> HIDE DEF s
  <2>4. DOMAIN s = 1..(Len(l) - k + 1)
    BY <2>3, LenProperties
  <2>5. ToSet(s) = Due(l, n)
    <3>1. ASSUME NEW i \in 1..(Len(l) - k + 1) PROVE s[i] \in Due(l, n)
      <4>1. k + i - 1 \in k..Len(l) /\ s[i] = l[k + i - 1]
        BY <2>1, <2>3, <3>1
      <4> QED
        BY <4>1 DEF Due, Part, k
    <3>2. ASSUME NEW i \in k..Len(l) PROVE l[i] \in ToSet(s)
      <4>1. (i - k) + 1 \in 1..(Len(l) - k + 1) /\ k + ((i - k) + 1) - 1 = i
        BY <2>1, <3>2
      <4>2. s[(i - k) + 1] = l[k + ((i - k) + 1) - 1]
        BY <2>3, <4>1
      <4> QED
        BY <2>4, <4>1, <4>2 DEF ToSet
    <3>3. \A x \in ToSet(s) : x \in Due(l, n)
      BY <2>4, <3>1 DEF ToSet
    <3>4. \A x \in Due(l, n) : x \in ToSet(s)
      BY <3>2 DEF Due, Part, k
    <3> QED
      BY <3>3, <3>4
  <2>6. ASSUME NEW i \in DOMAIN s, NEW j \in DOMAIN s, i < j
        PROVE  event[s[i]].time <= event[s[j]].time
    <3>1. /\ k + i - 1 \in 1..Len(l) /\ s[i] = l[k + i - 1]
          /\ k + j - 1 \in 1..Len(l) /\ s[j] = l[k + j - 1]
          /\ k + i - 1 < k + j - 1
      BY <2>1, <2>3, <2>4, <2>6
    <3>2. EventTime[s[i]] <= EventTime[s[j]]
      BY <1>1, <3>1 DEF Row
    <3>3. s[i] \in Elements(l) /\ s[j] \in Elements(l)
      BY <2>1, <3>1
    <3>4. EventTime[s[i]] = event[s[i]].time /\ EventTime[s[j]] = event[s[j]].time
      BY <3>3, PassedTimes DEF l
    <3> QED
      BY <3>2, <3>4
  <2> QED
    BY <2>2, <2>5, <2>6 DEF l, n
<1> QED
  BY <1>2, <1>3

\* Whatever scripts and commands insert, before the start or while the lists are walked:
\* an event that the timer of its list is still to come to was never executed, every
\* other one was once, and a timer runs exactly as long as an event is to come (Insert,
\* Precede, InsertEvent, Start, OnEventTimeout, OnDrecEventTimeout).
THEOREM ExecutedOnce == ASSUME Orderly PROVE Spec => []OnceInOrder
<1>1. Inv => OnceInOrder
  <2>1. SUFFICES ASSUME Inv PROVE OnceInOrder
    OBVIOUS
  <2>2. \A e \in DOMAIN event : event[e].owner \in Owner
    BY <2>1, EventTimes DEF Inv, Events
  <2>3. ReallyStarted => \A e \in DOMAIN event :
          event[e].count = IF e \in ToSet(ToCome(event[e].owner)) THEN 0 ELSE 1
    BY <2>1, <2>2, ToComeIs DEF Inv, Counted
  <2>4. \A o \in Owner : timer[o] # Never <=> next[o] # NoEvent
    BY <2>1 DEF Inv, Ticking
  <2> QED
    BY <2>1, <2>3, <2>4, ToComeIs DEF OnceInOrder
<1> QED
  BY <1>1, Invariance, PTL
-------------------------------------------------------------------------------
\* While an event of the script is to come, the current time is the one its timer tells.
LEMMA SynchronousCurrent ==
  ASSUME Orderly, PromptInv, ReallyStarted, NEW f \in Flow, ScriptDue(f)
  PROVE  /\ next[f] # NoEvent /\ started[f] /\ CurrentTime = TimerOffset(f)
         /\ \A o \in Owner : next[o] # NoEvent /\ (o = Drec \/ started[o]) =>
              TimerOffset(o) = TimerOffset(f)
         /\ \A e \in Done(list[Drec], next[Drec]) : event[e].time <= TimerOffset(f)
<1>1. /\ Inv /\ Typed /\ f \in Owner /\ Drec \in Owner /\ started[f] /\ f \in ToSet(flows)
      /\ \A o \in Owner : next[o] # NoEvent /\ (o = Drec \/ started[o]) =>
           TimerOffset(o) = TimerOffset(f)
      /\ \A e \in Done(list[Drec], next[Drec]) : event[e].time <= TimerOffset(f)
      /\ \A i, j \in DOMAIN flows : i < j /\ started[flows[j]] => started[flows[i]]
  BY DEF PromptInv, Synchronous, Owner, Inv
<1>2. next[f] # NoEvent
  <2>1. Row(list[f], EventTime) /\ next[f] \in Elements(list[f]) \cup {NoEvent}
    BY <1>1 DEF Inv, Listed
  <2> QED
    BY <2>1, Divided DEF ScriptDue
<1>3. TimerOffset(f) \in Int /\ TimerOffset(f) >= 0
  BY <1>1, <1>2, OffsetsTyped DEF Inv, Clocks
<1>4. CASE next[Drec] # NoEvent
  BY <1>1, <1>2, <1>4, Current
<1>5. CASE next[Drec] = NoEvent
  <2>1. FlowListOffset = TimerOffset(f)
    <3> DEFINE ticking == {i \in DOMAIN flows : timer[flows[i]] # Never}
               k == Min(ticking)
               g == flows[k]
    <3>1. DOMAIN flows = 1..Len(flows) /\ flows \in Seq(Flow) /\ Len(flows) \in Nat
      BY <1>1, LenProperties DEF Typed
    <3>2. PICK i \in DOMAIN flows : flows[i] = f
      BY <1>1 DEF ToSet
    <3>3. i \in ticking
      BY <1>1, <1>2, <3>2 DEF Inv, Ticking
    <3>4. k \in ticking /\ k <= i
      <4>1. ticking \subseteq Nat
        BY <3>1
      <4> HIDE DEF ticking
      <4> QED
        BY <3>3, <4>1, LeastOf
    <3>5. FlowListOffset = FlowOffset(g)
      BY <3>3 DEF FlowListOffset
    <3> HIDE DEF k
    <3>6. k \in DOMAIN flows /\ timer[g] # Never /\ g \in Flow /\ g \in Owner
      BY <3>1, <3>4 DEF Owner
    <3>7. started[g]
      <4>1. k = i \/ k < i
        BY <3>1, <3>2, <3>4, <3>6
      <4> QED
        BY <1>1, <3>2, <3>6, <4>1
    <3>8. next[g] # NoEvent
      BY <1>1, <3>6 DEF Inv, Ticking
    <3>9. FlowOffset(g) = TimerOffset(g)
      BY <3>7, <3>8 DEF FlowOffset
    <3> HIDE DEF g
    <3> QED
      BY <1>1, <3>5, <3>6, <3>7, <3>8, <3>9
  <2>2. TailTime(Drec) \in Int /\ TailTime(Drec) <= TimerOffset(f)
    <3>1. TailTime(Drec) \in Int /\ TailTime(Drec) >= -1
      BY <1>1, OffsetsTyped
    <3>2. CASE list[Drec] = << >>
      BY <1>3, <3>1, <3>2 DEF TailTime
    <3>3. CASE list[Drec] # << >>
      <4>1. Row(list[Drec], EventTime) /\ list[Drec] \in Seq(Id)
        BY <1>1 DEF Inv, Listed, Row
      <4>2. Len(list[Drec]) \in 1..Len(list[Drec])
        BY <3>3, <4>1, EmptySeq, LenProperties
      <4>3. Last(list[Drec]) \in Elements(list[Drec])
        BY <4>2 DEF Last, Elements, Part
      <4>4. Last(list[Drec]) \in Done(list[Drec], next[Drec])
        BY <1>5, <4>1, <4>3, Divided
      <4> QED
        BY <1>1, <3>1, <3>3, <4>4 DEF TailTime
    <3> QED
      BY <3>2, <3>3
  <2> DEFINE a == TailTime(Drec)
             b == TimerOffset(f)
  <2>3. GetCurrentOffset = Max({a, b})
    BY <1>5, <2>1 DEF GetCurrentOffset
  <2>4. a \in Int /\ b \in Int /\ a <= b /\ b >= 0
    BY <1>3, <2>2
  <2> HIDE DEF a, b
  <2>5. GetCurrentOffset = b
    <3>1. GetCurrentOffset = IF a > b THEN a ELSE b
      BY <2>3, <2>4, GreaterOf
    <3> QED
      BY <2>4, <3>1
  <2>6. CurrentTime = b
    <3>1. Max({GetCurrentOffset, 0}) = IF GetCurrentOffset > 0 THEN GetCurrentOffset ELSE 0
      BY <2>4, <2>5, GreaterOf
    <3> QED
      BY <2>4, <2>5, <3>1 DEF CurrentTime
  <2> QED
    BY <1>1, <1>2, <2>6 DEF b
<1> QED
  BY <1>4, <1>5

\* What a step about the events of o has to keep, besides.
KeepsTime(o) ==
  /\ \A e \in DOMAIN event :
       /\ event'[e].scripted = event[e].scripted
       /\ event'[e].expected = event[e].expected
       /\ event[e].owner # o => event'[e].at = event[e].at
       /\ e \in Due(list'[o], next'[o]) => e \in Due(list[o], next[o])
  /\ \A e \in DOMAIN event' \ DOMAIN event : ~event'[e].scripted
  /\ \A f \in Flow : ScriptDue(f) =>
       /\ next'[o] # NoEvent /\ (o = Drec \/ started[o]) => TimerOffset(o)' = TimerOffset(f)
       /\ o = Drec => \A e \in Done(list'[o], next'[o]) : event'[e].time <= TimerOffset(f)
  /\ \A e \in DOMAIN event' :
       event'[e].owner = o /\ (o = Drec \/ event'[e].scripted) => Timely(e)'
  /\ flows' = flows \/ (o \in Flow /\ o \notin ToSet(flows) /\ flows' = Append(flows, o))

\* Such a step keeps the invariant of ExecutedOnTime.
LEMMA KeepsTimePrompt ==
  ASSUME Orderly, PromptInv, NEW o \in Owner, OwnStep(o), KeepsTime(o)
  PROVE  PromptInv'
<1>1. /\ Inv /\ Inv' /\ Typed /\ Typed' /\ ReallyStarted /\ ReallyStarted'
      /\ now' = now /\ started' = started /\ Drec \in Owner
      /\ DOMAIN event \subseteq DOMAIN event'
      /\ \A q \in Owner \ {o} : list'[q] = list[q] /\ next'[q] = next[q] /\ timer'[q] = timer[q]
  BY OwnStepKeeps DEF PromptInv, OwnStep, timerVars, ReallyStarted, Inv, Owner
<1>2. ASSUME NEW q \in Owner \ {o}
      PROVE  /\ list'[q] = list[q] /\ next'[q] = next[q]
             /\ next[q] # NoEvent => TimerOffset(q)' = TimerOffset(q)
             /\ \A e \in Done(list[q], next[q]) : e \in DOMAIN event
             /\ \A e \in Due(list[q], next[q]) : e \in DOMAIN event
  <2>1. list'[q] = list[q] /\ next'[q] = next[q] /\ timer'[q] = timer[q]
    BY <1>1
  <2>2. Row(list[q], EventTime) /\ next[q] \in Elements(list[q]) \cup {NoEvent}
    BY <1>1 DEF Inv, Listed
  <2>3. \A e \in Elements(list[q]) : e \in DOMAIN event
    BY <1>1, PassedTimes
  <2>4. next[q] # NoEvent => event'[next[q]].time = event[next[q]].time
    BY <2>2, <2>3 DEF OwnStep
  <2> QED
    BY <1>1, <2>1, <2>2, <2>3, <2>4, Divided DEF TimerOffset
<1>3. ASSUME NEW f \in Flow, ScriptDue(f)'
      PROVE  ScriptDue(f) /\ (f = o => next'[o] # NoEvent) /\ f \in Owner
  <2>1. f \in Owner
    BY DEF Owner
  <2>2. PICK e \in Due(list'[f], next'[f]) : event'[e].scripted
    BY <1>3 DEF ScriptDue
  <2>3. CASE f = o
    <3>1. Row(list'[o], EventTime') /\ next'[o] \in Elements(list'[o]) \cup {NoEvent}
      BY DEF OwnStep
    <3>2. e \in Elements(list'[o]) /\ next'[o] # NoEvent
      BY <2>2, <2>3, <3>1, Divided
    <3>3. e \in DOMAIN event'
      BY <3>1, <3>2, NotNull DEF EventTime
    <3>4. e \in DOMAIN event
      BY <2>2, <3>3 DEF KeepsTime
    <3>5. e \in Due(list[o], next[o]) /\ event[e].scripted
      BY <2>2, <2>3, <3>4 DEF KeepsTime
    <3> QED
      BY <2>1, <2>3, <3>2, <3>5 DEF ScriptDue
  <2>4. CASE f # o
    <3>1. e \in Due(list[f], next[f]) /\ e \in DOMAIN event
      BY <1>2, <2>1, <2>2, <2>4
    <3>2. event[e].scripted
      BY <2>2, <3>1 DEF KeepsTime
    <3> QED
      BY <2>1, <2>4, <3>1, <3>2 DEF ScriptDue
  <2> QED
    BY <2>3, <2>4
<1>4. Synchronous'
  <2>1. flows \in Seq(Flow) /\ DOMAIN flows = 1..Len(flows) /\ Len(flows) \in Nat
    BY <1>1, LenProperties DEF Typed
  <2>2. ASSUME NEW f \in Flow, started'[f] PROVE f \in ToSet(flows)'
    <3>1. f \in ToSet(flows)
      BY <1>1, <2>2 DEF PromptInv, Synchronous
    <3>2. CASE flows' = flows
      BY <3>1, <3>2
    <3>3. CASE o \in Flow /\ flows' = Append(flows, o)
      <4>1. \A i \in 1..Len(flows) : i \in DOMAIN flows' /\ flows'[i] = flows[i]
        BY <2>1, <3>3, AppendProperties, LenProperties
      <4> QED
        BY <2>1, <3>1, <4>1 DEF ToSet
    <3> QED
      BY <3>2, <3>3 DEF KeepsTime
  <2>3. ASSUME NEW i \in DOMAIN flows', NEW j \in DOMAIN flows', i < j, started'[flows'[j]]
        PROVE  started'[flows'[i]]
    <3>1. CASE flows' = flows
      BY <1>1, <2>3, <3>1 DEF PromptInv, Synchronous
    <3>2. CASE o \in Flow /\ o \notin ToSet(flows) /\ flows' = Append(flows, o)
      <4>1. /\ DOMAIN flows' = 1..(Len(flows) + 1)
            /\ \A n \in 1..Len(flows) : flows'[n] = flows[n]
            /\ flows'[Len(flows) + 1] = o
        BY <2>1, <3>2, AppendProperties, LenProperties
      <4>2. ~started[o]
        BY <1>1, <3>2 DEF PromptInv, Synchronous
      <4>3. j # Len(flows) + 1
        BY <1>1, <2>3, <4>1, <4>2
      <4>4. i \in 1..Len(flows) /\ j \in 1..Len(flows)
        BY <2>1, <2>3, <4>1, <4>3
      <4>5. started[flows[j]] /\ flows'[i] = flows[i]
        BY <1>1, <2>3, <4>1, <4>4
      <4> QED
        BY <1>1, <2>1, <2>3, <4>4, <4>5 DEF PromptInv, Synchronous
    <3> QED
      BY <3>1, <3>2 DEF KeepsTime
  <2>4. ASSUME NEW f \in Flow, ScriptDue(f)'
        PROVE  /\ started'[f]
               /\ \A q \in Owner : next'[q] # NoEvent /\ (q = Drec \/ started'[q]) =>
                    TimerOffset(q)' = TimerOffset(f)'
               /\ \A e \in Done(list'[Drec], next'[Drec]) : event'[e].time <= TimerOffset(f)'
    <3>1. ScriptDue(f) /\ (f = o => next'[o] # NoEvent) /\ f \in Owner
      BY <1>3, <2>4
    <3>2. /\ next[f] # NoEvent /\ started[f]
          /\ \A q \in Owner : next[q] # NoEvent /\ (q = Drec \/ started[q]) =>
               TimerOffset(q) = TimerOffset(f)
          /\ \A e \in Done(list[Drec], next[Drec]) : event[e].time <= TimerOffset(f)
      BY <1>1, <3>1, SynchronousCurrent
    <3>3. TimerOffset(f)' = TimerOffset(f)
      <4>1. CASE f = o
        BY <3>1, <3>2, <4>1 DEF KeepsTime
      <4>2. CASE f # o
        BY <1>2, <3>1, <3>2, <4>2
      <4> QED
        BY <4>1, <4>2
    <3>4. ASSUME NEW q \in Owner, next'[q] # NoEvent, q = Drec \/ started'[q]
          PROVE  TimerOffset(q)' = TimerOffset(f)
      <4>1. CASE q = o
        BY <1>1, <3>1, <3>4, <4>1 DEF KeepsTime
      <4>2. CASE q # o
        BY <1>1, <1>2, <3>2, <3>4, <4>2
      <4> QED
        BY <4>1, <4>2
    <3>5. ASSUME NEW e \in Done(list'[Drec], next'[Drec])
          PROVE  event'[e].time <= TimerOffset(f)
      <4>1. CASE o = Drec
        BY <3>1, <3>5, <4>1 DEF KeepsTime
      <4>2. CASE o # Drec
        <5>1. e \in Done(list[Drec], next[Drec]) /\ e \in DOMAIN event
          BY <1>1, <1>2, <3>5, <4>2
        <5> QED
          BY <3>2, <5>1 DEF OwnStep
      <4> QED
        BY <4>1, <4>2
    <3> QED
      BY <1>1, <3>2, <3>3, <3>4, <3>5
  <2> QED
    BY <2>2, <2>3, <2>4 DEF Synchronous
<1>5. Prompt'
  <2>1. SUFFICES ASSUME NEW e \in DOMAIN event', event'[e].owner = Drec \/ event'[e].scripted
                 PROVE  Timely(e)'
    BY <1>1 DEF Prompt
  <2>2. CASE event'[e].owner = o
    BY <2>1, <2>2 DEF KeepsTime
  <2>3. CASE event'[e].owner # o
    <3>1. e \in DOMAIN event
      BY <2>1, <2>3 DEF OwnStep
    <3>2. /\ event'[e].owner = event[e].owner /\ event'[e].time = event[e].time
          /\ event'[e].scripted = event[e].scripted /\ event'[e].expected = event[e].expected
      BY <3>1 DEF OwnStep, KeepsTime
    <3>3. event'[e].at = event[e].at
      BY <2>3, <3>1, <3>2 DEF KeepsTime
    <3>4. Timely(e)
      BY <1>1, <2>1, <3>1, <3>2 DEF PromptInv, Prompt
    <3>5. PICK q \in Owner \ {o} : q = event[e].owner
      BY <1>1, <2>3, <3>1, <3>2, EventTimes DEF Events
    <3>6. /\ list'[q] = list[q] /\ next'[q] = next[q]
          /\ next[q] # NoEvent => TimerOffset(q)' = TimerOffset(q)
      BY <1>2
    <3>7. e \in Due(list[q], next[q]) => next[q] # NoEvent
      BY <1>1, Divided DEF Inv, Listed
    <3>8. /\ event[e].expected # Never
          /\ IF e \in Due(list[q], next[q])
             THEN event[e].at = Never /\ event[e].expected = now + (event[e].time - TimerOffset(q))
             ELSE event[e].at = event[e].expected
      BY <3>4, <3>5 DEF Timely
    <3>9. event'[e].owner = q
      BY <3>2, <3>5
    <3>10. /\ event'[e].expected # Never
           /\ IF e \in Due(list'[q], next'[q])
              THEN /\ event'[e].at = Never
                   /\ event'[e].expected = now' + (event'[e].time - TimerOffset(q)')
              ELSE event'[e].at = event'[e].expected
      BY <1>1, <3>2, <3>3, <3>6, <3>7, <3>8
    <3> QED
      BY <3>9, <3>10 DEF Timely, TimerOffset
  <2> QED
    BY <2>2, <2>3
<1> QED
  BY <1>1, <1>4, <1>5 DEF PromptInv

\* What Arming has to come with so that the time is kept.
ArmingPrompt(o, r, current) ==
  /\ PromptInv /\ Arming(o, r, current)
  /\ ~r.scripted /\ r.at = Never
  /\ o = Drec => r.expected # Never /\ r.expected = now + (r.time - current)
  /\ o = Drec /\ next[o] # NoEvent => current = TimerOffset(o)
  /\ \A f \in Flow : ScriptDue(f) /\ (o = Drec \/ started[o]) => current = TimerOffset(f)
  /\ flows' = flows \/ (o \in Flow /\ o \notin ToSet(flows) /\ flows' = Append(flows, o))

\* To insert an event that is due keeps the time: the timer goes on, or is started anew
\* from a current time that is its own.
LEMMA ArmingKeepsTime ==
  ASSUME NEW o, NEW r, NEW current, ArmingPrompt(o, r, current)
  PROVE  KeepsTime(o)
<1>1. /\ Orderly /\ PromptInv /\ Inv /\ Typed /\ ReallyStarted /\ o \in Owner
      /\ r \in Events /\ r.owner = o /\ event' = Append(event, r)
      /\ r.time \in Nat /\ current \in Nat /\ now \in Nat /\ now' = now
      /\ ~r.scripted /\ r.at = Never
      /\ Row(list[o], EventTime) /\ next[o] \in Elements(list[o]) \cup {NoEvent}
  BY DEF ArmingPrompt, Arming, PromptInv, Inv, Listed, Typed, Events, timerVars
<1>2. Armed(o, current)
  BY ArmingArms DEF ArmingPrompt
<1>3. /\ Row(list'[o], EventTime')
      /\ Elements(list'[o]) = Elements(list[o]) \cup {NextId}
      /\ next'[o] \in Elements(list'[o])
      /\ Done(list'[o], next'[o]) = Done(list[o], next[o])
      /\ Due(list'[o], next'[o]) = Due(list[o], next[o]) \cup {NextId}
      /\ \/ next[o] # NoEvent /\ TimerOffset(o)' = TimerOffset(o)
         \/ TimerOffset(o)' = current
  BY <1>2 DEF Armed
<1>4. /\ DOMAIN event' = DOMAIN event \cup {NextId}
      /\ NextId \notin DOMAIN event
      /\ \A e \in DOMAIN event : event'[e] = event[e]
      /\ event'[NextId] = r
  BY <1>1, EventTimes, EventAppended
<1>5. ASSUME NEW f \in Flow, ScriptDue(f)
      PROVE  /\ o = Drec \/ started[o] => TimerOffset(o)' = TimerOffset(f)
             /\ o = Drec => \A e \in Done(list'[o], next'[o]) : event'[e].time <= TimerOffset(f)
  <2>1. /\ next[o] # NoEvent /\ (o = Drec \/ started[o]) => TimerOffset(o) = TimerOffset(f)
        /\ \A e \in Done(list[Drec], next[Drec]) : event[e].time <= TimerOffset(f)
    BY <1>1, <1>5, SynchronousCurrent
  <2>2. o = Drec \/ started[o] => current = TimerOffset(f)
    BY <1>5 DEF ArmingPrompt
  <2>3. \A e \in Done(list[o], next[o]) : e \in DOMAIN event
    BY <1>1, PassedTimes
  <2> QED
    BY <1>3, <1>4, <2>1, <2>2, <2>3
<1>6. ASSUME next[o] # NoEvent, o = Drec \/ (o \in Flow /\ ScriptDue(o))
      PROVE  TimerOffset(o)' = TimerOffset(o)
  <2>1. CASE o = Drec
    <3>1. current = TimerOffset(o)
      BY <1>6, <2>1 DEF ArmingPrompt
    <3> QED
      BY <1>3, <3>1
  <2>2. CASE o \in Flow /\ ScriptDue(o)
    <3>1. started[o]
      BY <1>1, <2>2, SynchronousCurrent
    <3> QED
      BY <1>5, <2>2, <3>1
  <2> QED
    BY <1>6, <2>1, <2>2
<1>7. ASSUME o = Drec PROVE r.expected # Never /\ r.expected = now + (r.time - TimerOffset(o)')
  <2>1. TimerOffset(o)' = current
    <3>1. next[o] # NoEvent => current = TimerOffset(o)
      BY <1>7 DEF ArmingPrompt
    <3> QED
      BY <1>3, <3>1
  <2> QED
    BY <1>7, <2>1 DEF ArmingPrompt
<1>8. ASSUME NEW e \in DOMAIN event', event'[e].owner = o, o = Drec \/ event'[e].scripted
      PROVE  Timely(e)'
  <2>1. CASE e = NextId
    <3>1. /\ o = Drec /\ event'[e] = r /\ e \in Due(list'[o], next'[o])
      BY <1>1, <1>3, <1>4, <1>8, <2>1
    <3>2. /\ event'[e].expected # Never /\ event'[e].at = Never
          /\ event'[e].expected = now' + (event'[e].time - TimerOffset(o)')
      BY <1>1, <1>7, <3>1
    <3> QED
      BY <1>8, <3>1, <3>2 DEF Timely, TimerOffset
  <2>2. CASE e # NextId
    <3>1. e \in DOMAIN event /\ event'[e] = event[e]
      BY <1>4, <1>8, <2>2
    <3>2. Timely(e)
      BY <1>1, <1>8, <3>1 DEF PromptInv, Prompt
    <3>3. e \in Due(list'[o], next'[o]) <=> e \in Due(list[o], next[o])
      BY <1>3, <2>2
    <3>4. ASSUME e \in Due(list[o], next[o])
          PROVE  TimerOffset(o)' = TimerOffset(o)
      <4>1. next[o] # NoEvent
        BY <1>1, <3>4, Divided
      <4>2. o = Drec \/ (o \in Flow /\ ScriptDue(o))
        BY <1>1, <1>8, <3>1, <3>4 DEF ScriptDue, Owner
      <4> QED
        BY <1>6, <4>1, <4>2
    <3>5. /\ event[e].expected # Never
          /\ IF e \in Due(list[o], next[o])
             THEN event[e].at = Never /\ event[e].expected = now + (event[e].time - TimerOffset(o))
             ELSE event[e].at = event[e].expected
      BY <1>8, <3>1, <3>2 DEF Timely
    <3>6. /\ event'[e].expected # Never
          /\ IF e \in Due(list'[o], next'[o])
             THEN /\ event'[e].at = Never
                  /\ event'[e].expected = now' + (event'[e].time - TimerOffset(o)')
             ELSE event'[e].at = event'[e].expected
      BY <1>1, <3>1, <3>3, <3>4, <3>5
    <3> QED
      BY <1>8, <3>6 DEF Timely, TimerOffset
  <2> QED
    BY <2>1, <2>2
<1>9. \A e \in DOMAIN event :
        /\ event'[e].scripted = event[e].scripted
        /\ event'[e].expected = event[e].expected
        /\ event'[e].at = event[e].at
        /\ e \in Due(list'[o], next'[o]) => e \in Due(list[o], next[o])
  BY <1>3, <1>4
<1>10. \A e \in DOMAIN event' \ DOMAIN event : ~event'[e].scripted
  BY <1>1, <1>4
<1>11. flows' = flows \/ (o \in Flow /\ o \notin ToSet(flows) /\ flows' = Append(flows, o))
  BY DEF ArmingPrompt
<1> QED
  BY <1>5, <1>8, <1>9, <1>10, <1>11 DEF KeepsTime

\* What a command that is executed at once does: the timer goes on.
Passing(o, r) ==
  /\ Orderly /\ PromptInv /\ ReallyStarted /\ o \in Owner
  /\ r \in Events /\ r.owner = o /\ ~r.scripted /\ r.expected # Never /\ r.at = r.expected
  /\ event' = Append(event, r)
  /\ next' = next /\ timer' = timer /\ now' = now
  /\ Due(list'[o], next[o]) = Due(list[o], next[o])
  /\ Done(list'[o], next[o]) \subseteq Done(list[o], next[o]) \cup {NextId}
  /\ \A f \in Flow : ScriptDue(f) => r.time <= TimerOffset(f)
  /\ flows' = flows \/ (o \in Flow /\ o \notin ToSet(flows) /\ flows' = Append(flows, o))

\* An event that is executed at once keeps the time, too.
LEMMA PassingKeepsTime ==
  ASSUME NEW o, NEW r, Passing(o, r)
  PROVE  KeepsTime(o)
<1>1. /\ Orderly /\ PromptInv /\ Inv /\ Typed /\ ReallyStarted /\ o \in Owner
      /\ r \in Events /\ r.owner = o /\ event' = Append(event, r)
      /\ next' = next /\ timer' = timer /\ now' = now
      /\ ~r.scripted /\ r.at = r.expected /\ r.expected # Never
      /\ Row(list[o], EventTime) /\ next[o] \in Elements(list[o]) \cup {NoEvent}
  BY DEF Passing, PromptInv, Inv, Listed
<1>2. /\ DOMAIN event' = DOMAIN event \cup {NextId}
      /\ NextId \notin DOMAIN event
      /\ \A e \in DOMAIN event : event'[e] = event[e]
      /\ event'[NextId] = r
  BY <1>1, EventTimes, EventAppended
<1>3. /\ \A e \in Done(list[o], next[o]) : e \in DOMAIN event
      /\ \A e \in Due(list[o], next[o]) : e \in DOMAIN event /\ next[o] # NoEvent
      /\ next[o] # NoEvent => next[o] \in DOMAIN event
  <2>1. \A e \in Elements(list[o]) : e \in DOMAIN event
    BY <1>1, PassedTimes
  <2> QED
    BY <1>1, <2>1, Divided
<1>4. next[o] # NoEvent => TimerOffset(o)' = TimerOffset(o)
  BY <1>1, <1>2, <1>3 DEF TimerOffset
<1>5. ASSUME NEW f \in Flow, ScriptDue(f)
      PROVE  /\ next'[o] # NoEvent /\ (o = Drec \/ started[o]) => TimerOffset(o)' = TimerOffset(f)
             /\ o = Drec => \A e \in Done(list'[o], next'[o]) : event'[e].time <= TimerOffset(f)
  <2>1. /\ next[o] # NoEvent /\ (o = Drec \/ started[o]) => TimerOffset(o) = TimerOffset(f)
        /\ \A e \in Done(list[Drec], next[Drec]) : event[e].time <= TimerOffset(f)
    BY <1>1, <1>5, SynchronousCurrent
  <2>2. r.time <= TimerOffset(f)
    BY <1>5 DEF Passing
  <2>3. \A e \in Done(list'[o], next'[o]) : e \in Done(list[o], next[o]) \/ e = NextId
    BY <1>1 DEF Passing
  <2> QED
    BY <1>1, <1>2, <1>3, <1>4, <2>1, <2>2, <2>3
<1>6. ASSUME NEW e \in DOMAIN event', event'[e].owner = o, o = Drec \/ event'[e].scripted
      PROVE  Timely(e)'
  <2>1. Due(list'[o], next'[o]) = Due(list[o], next[o])
    BY <1>1 DEF Passing
  <2>2. CASE e = NextId
    BY <1>1, <1>2, <1>3, <1>6, <2>1, <2>2 DEF Timely
  <2>3. CASE e # NextId
    <3>1. e \in DOMAIN event /\ event'[e] = event[e]
      BY <1>2, <1>6, <2>3
    <3>2. Timely(e)
      BY <1>1, <1>6, <3>1 DEF PromptInv, Prompt
    <3>3. /\ event[e].expected # Never
          /\ IF e \in Due(list[o], next[o])
             THEN event[e].at = Never /\ event[e].expected = now + (event[e].time - TimerOffset(o))
             ELSE event[e].at = event[e].expected
      BY <1>6, <3>1, <3>2 DEF Timely
    <3>4. /\ event'[e].expected # Never
          /\ IF e \in Due(list'[o], next'[o])
             THEN /\ event'[e].at = Never
                  /\ event'[e].expected = now' + (event'[e].time - TimerOffset(o)')
             ELSE event'[e].at = event'[e].expected
      BY <1>1, <1>3, <1>4, <2>1, <3>1, <3>3
    <3> QED
      BY <1>6, <3>4 DEF Timely, TimerOffset
  <2> QED
    BY <2>2, <2>3
<1>7. \A e \in DOMAIN event :
        /\ event'[e].scripted = event[e].scripted
        /\ event'[e].expected = event[e].expected
        /\ event'[e].at = event[e].at
        /\ e \in Due(list'[o], next'[o]) => e \in Due(list[o], next[o])
  BY <1>1, <1>2 DEF Passing
<1>8. \A e \in DOMAIN event' \ DOMAIN event : ~event'[e].scripted
  BY <1>1, <1>2
<1>9. flows' = flows \/ (o \in Flow /\ o \notin ToSet(flows) /\ flows' = Append(flows, o))
  BY DEF Passing
<1> QED
  BY <1>5, <1>6, <1>7, <1>8, <1>9 DEF KeepsTime

\* What a command inserts is not of the script.
LEMMA RecordIs ==
  ASSUME ReallyStarted, NEW o \in Owner, NEW t \in Nat,
         NEW expected \in Nat \cup {Never}, NEW at \in Nat \cup {Never}
  PROVE  LET r == Record(o, t, expected, at)
         IN /\ r \in Events /\ r.owner = o /\ r.time = t /\ ~r.scripted
            /\ r.expected = expected /\ r.at = at
            /\ r.count = IF at = Never THEN 0 ELSE 1
<1> DEFINE r == Record(o, t, expected, at)
<1>1. /\ r \in Events /\ r.owner = o /\ r.time = t
      /\ r.expected = expected /\ r.at = at
      /\ r.count = IF at = Never THEN 0 ELSE 1
  BY DEF Record, Events
<1>2. r.scripted = ~ReallyStarted
  BY DEF Record
<1>3. ~r.scripted
  BY <1>2
<1> QED
  BY <1>1, <1>3

\* Commands for flows keep the time,
LEMMA CommandFlowTime ==
  ASSUME Orderly, PromptInv, NEW f \in Flow, NEW t \in Times \cup {Immediate}, CommandFlow(f, t)
  PROVE  KeepsTime(f)
<1>1. /\ Inv /\ Typed /\ f \in Owner /\ ReallyStarted /\ t \in Int /\ now \in Nat
      /\ UNCHANGED <<timerVars, started, stopped>>
      /\ f # Drec
  BY DEF PromptInv, Inv, Owner, CommandFlow, Orderly, Immediate, Typed
<1>2. /\ flows' \in Seq(Flow)
      /\ offset # NoOffset => flows' = flows
      /\ flows' = flows \/ (f \notin ToSet(flows) /\ flows' = Append(flows, f))
  BY <1>1, FlowsWithTyped DEF CommandFlow, Orderly, FlowsWith
<1>3. /\ CurrentTime \in Nat
      /\ \A p \in Owner : \A e \in Done(list[p], next[p]) : event[e].time <= CurrentTime
      /\ \A g \in Flow : ScriptDue(g) => CurrentTime = TimerOffset(g)
  BY <1>1, Current, SynchronousCurrent
<1>4. CASE /\ t < CurrentTime
           /\ event' = Append(event, Record(f, CurrentTime, now, now))
           /\ UNCHANGED <<list, next, timer>>
  <2> DEFINE r == Record(f, CurrentTime, now, now)
  <2>1. /\ r \in Events /\ r.owner = f /\ r.time = CurrentTime /\ ~r.scripted
        /\ r.expected = now /\ r.at = now /\ now # Never
    BY <1>1, <1>3, RecordIs DEF Never
  <2> HIDE DEF r
  <2>2. event' = Append(event, r)
    BY <1>4 DEF r
  <2>3. \A g \in Flow : ScriptDue(g) => r.time <= TimerOffset(g)
    BY <1>3, <2>1
  <2> QED
    BY <1>1, <1>2, <1>4, <2>1, <2>2, <2>3, PassingKeepsTime DEF Passing, timerVars
<1>5. CASE /\ t >= CurrentTime
           /\ event' = Append(event, Record(f, t, now + t, Never))
           /\ list' = [list EXCEPT ![f] = InsertByTime(@, NextId, t)]
           /\ Arm(f, NextId, t, CurrentTime)
  <2> DEFINE r == Record(f, t, now + t, Never)
  <2>1. t \in Nat /\ now + t \in Nat
    BY <1>1, <1>3, <1>5
  <2>2. /\ r \in Events /\ r.owner = f /\ r.count = 0 /\ r.time = t
        /\ ~r.scripted /\ r.at = Never
    BY <1>1, <2>1, RecordIs DEF Never
  <2>3. event' = Append(event, r)
    BY <1>5
  <2> HIDE DEF r
  <2>4. \A p \in Flow \cup {f} : p \in Owner
    BY DEF Owner
  <2>5. Arming(f, r, CurrentTime)
    BY <1>1, <1>2, <1>3, <1>5, <2>2, <2>3, <2>4 DEF Arming
  <2>6. ArmingPrompt(f, r, CurrentTime)
    BY <1>1, <1>2, <1>3, <2>2, <2>5 DEF ArmingPrompt
  <2> QED
    BY <2>6, ArmingKeepsTime
<1> QED
  BY <1>4, <1>5 DEF CommandFlow

\* so do retries, which come when no event of the script is due,
LEMMA ScheduleReconnectTime ==
  ASSUME Orderly, PromptInv, NEW f \in Flow, NEW delay \in RetryDelays, ScheduleReconnect(f, delay)
  PROVE  KeepsTime(f)
<1>1. /\ Inv /\ Typed /\ f \in Owner /\ ReallyStarted /\ delay \in Nat /\ now \in Nat
      /\ UNCHANGED <<timerVars, started, stopped>> /\ flows' = flows /\ flows \in Seq(Flow)
      /\ offset = NoOffset /\ f # Drec
      /\ \A o \in Owner : timer[o] = Never
  BY DEF PromptInv, Inv, Owner, ScheduleReconnect, Orderly, Typed
<1>2. \A p \in Flow \cup {f} : Done(list[p], next[p]) = {}
  BY <1>1 DEF Inv, Clocks
<1>3. \A g \in Flow : ~ScriptDue(g)
  <2>1. \A g \in Flow : g \in Owner
    BY DEF Owner
  <2>2. \A g \in Flow : ScriptDue(g) => next[g] # NoEvent
    BY <1>1, SynchronousCurrent
  <2> QED
    BY <1>1, <2>1, <2>2 DEF Inv, Ticking
<1> DEFINE r == Record(f, delay, now + delay, Never)
<1>4. r \in Events /\ r.owner = f /\ r.count = 0 /\ r.time = delay /\ ~r.scripted /\ r.at = Never
  BY <1>1, RecordIs DEF Never
<1>5. event' = Append(event, r)
  BY DEF ScheduleReconnect
<1> HIDE DEF r
<1>6. Arming(f, r, 0)
  BY <1>1, <1>2, <1>4, <1>5 DEF Arming, ScheduleReconnect
<1>7. ArmingPrompt(f, r, 0)
  BY <1>1, <1>3, <1>4, <1>6 DEF ArmingPrompt
<1> QED
  BY <1>7, ArmingKeepsTime

\* commands for reception,
LEMMA CommandDrecTime ==
  ASSUME Orderly, PromptInv, NEW t \in Times \cup {Immediate}, CommandDrec(t)
  PROVE  KeepsTime(Drec)
<1> DEFINE time == CurrentTime + t
           l == list[Drec]
           n == next[Drec]
<1>1. /\ Inv /\ Typed /\ Drec \in Owner /\ ReallyStarted /\ t \in Int /\ now \in Nat
      /\ flows' = flows
      /\ UNCHANGED <<timerVars, started, stopped>>
      /\ Drec \notin Flow
      /\ Row(l, EventTime) /\ n \in Elements(l) \cup {NoEvent}
  BY DEF PromptInv, Inv, Owner, CommandDrec, Orderly, Immediate, Typed, Listed
<1>2. /\ CurrentTime \in Nat
      /\ \A p \in Owner : \A e \in Done(list[p], next[p]) : event[e].time <= CurrentTime
      /\ n # NoEvent => CurrentTime = TimerOffset(Drec)
      /\ \A g \in Flow : ScriptDue(g) => CurrentTime = TimerOffset(g)
  BY <1>1, Current, SynchronousCurrent
<1>3. flows \in Seq(Flow) /\ list \in [Owner -> Seq(Id)]
  BY <1>1 DEF Typed
<1>4. CASE /\ time < CurrentTime
           /\ event' = Append(event, Record(Drec, CurrentTime, now, now))
           /\ list' = [list EXCEPT ![Drec] = Precede(@, next[Drec], NextId)]
           /\ UNCHANGED <<next, timer>>
  <2> DEFINE r == Record(Drec, CurrentTime, now, now)
             p == Place(l, n)
  <2>1. /\ r \in Events /\ r.owner = Drec /\ r.time = CurrentTime /\ ~r.scripted
        /\ r.expected = now /\ r.at = now /\ now # Never
    BY <1>1, <1>2, RecordIs DEF Never
  <2> HIDE DEF r
  <2>2. event' = Append(event, r)
    BY <1>4 DEF r
  <2>3. /\ Entering(l, EventTime, NextId, CurrentTime, p, EventTime')
        /\ Precede(l, n, NextId) = InsertAt(l, p, NextId)
    BY <1>1, <2>1, <2>2, PrecedeEnters
  <2>4. list'[Drec] = InsertAt(l, p, NextId)
    BY <1>1, <1>3, <1>4, <2>3
  <2>5. /\ Done(list'[Drec], n) = Done(l, n) \cup {NextId}
        /\ Due(list'[Drec], n) = Due(l, n)
    BY <1>1, <2>3, <2>4, EnteredAt
  <2>6. \A g \in Flow : ScriptDue(g) => r.time <= TimerOffset(g)
    BY <1>2, <2>1
  <2> HIDE DEF p
  <2> QED
    BY <1>1, <1>4, <2>1, <2>2, <2>5, <2>6, PassingKeepsTime DEF Passing, timerVars
<1>5. CASE /\ time >= CurrentTime
           /\ event' = Append(event, Record(Drec, time, now + t, Never))
           /\ list' = [list EXCEPT ![Drec] = InsertByTime(@, NextId, time)]
           /\ Arm(Drec, NextId, time, CurrentTime)
  <2> DEFINE r == Record(Drec, time, now + t, Never)
  <2>1. time \in Nat /\ now + t \in Nat /\ now + t = now + (time - CurrentTime)
    BY <1>1, <1>2, <1>5
  <2> HIDE DEF time
  <2>2. /\ r \in Events /\ r.owner = Drec /\ r.count = 0 /\ r.time = time
        /\ ~r.scripted /\ r.at = Never
        /\ r.expected # Never /\ r.expected = now + (r.time - CurrentTime)
    BY <1>1, <2>1, RecordIs DEF Never
  <2>3. event' = Append(event, r)
    BY <1>5
  <2> HIDE DEF r
  <2>4. \A p \in Flow \cup {Drec} : p \in Owner
    BY DEF Owner
  <2>5. Arming(Drec, r, CurrentTime)
    BY <1>1, <1>2, <1>3, <1>5, <2>2, <2>3, <2>4 DEF Arming
  <2>6. ArmingPrompt(Drec, r, CurrentTime)
    BY <1>1, <1>2, <2>2, <2>5 DEF ArmingPrompt
  <2> QED
    BY <2>6, ArmingKeepsTime
<1> QED
  BY <1>4, <1>5 DEF CommandDrec

\* and timers: the next event is counted from the time of the one executed.
LEMMA OnTimeoutTime ==
  ASSUME Orderly, PromptInv, NEW o \in Owner, OnTimeout(o)
  PROVE  KeepsTime(o)
<1>1. PICK e : e = next[o]
  OBVIOUS
<1>2. /\ ReallyStarted /\ e # NoEvent
      /\ e \in DOMAIN event /\ e \in Due(list[o], next[o])
      /\ TimerOffset(o) = event[e].time
      /\ DOMAIN event' = DOMAIN event
      /\ \A d \in DOMAIN event : d # e => event'[d] = event[d]
      /\ event'[e].time = event[e].time /\ event'[e].owner = event[e].owner
      /\ event'[e].scripted = event[e].scripted /\ event'[e].expected = event[e].expected
      /\ event[e].owner = o /\ event'[e].at = now
      /\ Due(list'[o], next'[o]) = Due(list[o], next[o]) \ {e}
      /\ o = Drec => Done(list'[o], next'[o]) = Done(list[o], next[o]) \cup {e}
      /\ next'[o] # NoEvent => TimerOffset(o)' = event[e].time
  <2>1. TimedOut(o)
    BY OnTimeoutOwn DEF PromptInv
  <2> QED
    BY <1>1, <2>1 DEF TimedOut
<1>3. /\ Inv /\ Typed /\ now' = now /\ now \in Nat /\ flows' = flows
      /\ event[e].time \in Nat
      /\ Row(list'[o], EventTime') /\ next'[o] \in Elements(list'[o]) \cup {NoEvent}
      /\ Row(list[o], EventTime)
  <2>1. OwnStep(o) /\ Inv /\ Typed
    BY OnTimeoutOwn DEF PromptInv, Inv
  <2>2. event[e].time \in Nat
    BY <1>2, <2>1, EventTimes DEF Events
  <2> QED
    BY <2>1, <2>2 DEF OwnStep, Inv, Listed, Typed, timerVars, OnTimeout
<1>4. ASSUME NEW f \in Flow, ScriptDue(f)
      PROVE  /\ next'[o] # NoEvent /\ (o = Drec \/ started[o]) => TimerOffset(o)' = TimerOffset(f)
             /\ o = Drec => \A d \in Done(list'[o], next'[o]) : event'[d].time <= TimerOffset(f)
  <2>1. /\ o = Drec \/ started[o] => event[e].time = TimerOffset(f)
        /\ \A d \in Done(list[Drec], next[Drec]) : event[d].time <= TimerOffset(f)
    BY <1>1, <1>2, <1>4, SynchronousCurrent
  <2>2. ASSUME o = Drec, NEW d \in Done(list'[o], next'[o])
        PROVE  event'[d].time <= TimerOffset(f)
    <3>1. CASE d = e
      BY <1>2, <1>3, <2>1, <2>2, <3>1
    <3>2. CASE d # e
      <4>1. d \in Done(list[o], next[o])
        BY <1>2, <2>2, <3>2
      <4>2. d \in DOMAIN event
        BY <1>3, <4>1, PassedTimes
      <4> QED
        BY <1>2, <2>1, <2>2, <3>2, <4>1, <4>2
    <3> QED
      BY <3>1, <3>2
  <2> QED
    BY <1>2, <2>1, <2>2
<1>5. ASSUME NEW d \in DOMAIN event', event'[d].owner = o, o = Drec \/ event'[d].scripted
      PROVE  Timely(d)'
  <2>1. /\ d \in DOMAIN event /\ event[d].owner = o
        /\ event'[d].scripted = event[d].scripted /\ event'[d].expected = event[d].expected
        /\ event'[d].time = event[d].time
    BY <1>2, <1>5
  <2>2. Timely(d)
    BY <1>2, <1>5, <2>1 DEF PromptInv, Prompt
  <2>3. /\ event[d].expected # Never
        /\ IF d \in Due(list[o], next[o])
           THEN event[d].at = Never /\ event[d].expected = now + (event[d].time - TimerOffset(o))
           ELSE event[d].at = event[d].expected
    BY <2>1, <2>2 DEF Timely
  <2>4. CASE d = e
    <3>1. d \notin Due(list'[o], next'[o]) /\ event'[d].at = now
      BY <1>2, <2>4
    <3>2. event[d].expected = now
      BY <1>2, <1>3, <2>3, <2>4
    <3> QED
      BY <1>5, <2>1, <2>3, <3>1, <3>2 DEF Timely
  <2>5. CASE d # e
    <3>1. event'[d] = event[d] /\ (d \in Due(list'[o], next'[o]) <=> d \in Due(list[o], next[o]))
      BY <1>2, <2>1, <2>5
    <3>2. d \in Due(list'[o], next'[o]) => TimerOffset(o)' = TimerOffset(o)
      BY <1>2, <1>3, Divided
    <3>3. /\ event'[d].expected # Never
          /\ IF d \in Due(list'[o], next'[o])
             THEN /\ event'[d].at = Never
                  /\ event'[d].expected = now' + (event'[d].time - TimerOffset(o)')
             ELSE event'[d].at = event'[d].expected
      BY <1>3, <2>3, <3>1, <3>2
    <3> QED
      BY <1>5, <3>3 DEF Timely, TimerOffset
  <2> QED
    BY <2>4, <2>5
<1>6. \A d \in DOMAIN event :
        /\ event'[d].scripted = event[d].scripted
        /\ event'[d].expected = event[d].expected
        /\ event[d].owner # o => event'[d].at = event[d].at
        /\ d \in Due(list'[o], next'[o]) => d \in Due(list[o], next[o])
  BY <1>2
<1>7. \A d \in DOMAIN event' \ DOMAIN event : ~event'[d].scripted
  BY <1>2
<1> QED
  BY <1>3, <1>4, <1>5, <1>6, <1>7 DEF KeepsTime

\* At the start all timers tell the time of the offset.
LEMMA BeginsTime ==
  ASSUME Orderly, PromptInv, Begins
  PROVE  Synchronous' /\ Prompt'
<1>1. /\ Inv /\ Typed /\ offset' = offset /\ now' = now /\ flows' = flows /\ list' = list
      /\ ~stopped /\ ~ReallyStarted /\ ReallyStarted'
      /\ now \in Nat /\ offset \in Nat \cup {-1}
  BY DEF PromptInv, Inv, Begins, ReallyStarted, Typed, NoOffset
<1>2. /\ DOMAIN event' = DOMAIN event
      /\ \A e \in DOMAIN event :
           /\ Begun(e) /\ event[e].time \in Nat /\ event[e].owner \in Owner
           /\ event[e].expected = Never /\ event[e].at = Never
           /\ e \in Elements(list[event[e].owner])
  <2>1. \A e \in DOMAIN event : event[e].expected = Never /\ event[e].at = Never
                                /\ e \in Elements(list[event[e].owner])
    BY DEF PromptInv, Prompt, Begins, Inv, Waiting
  <2> QED
    BY <1>1, <2>1, BeginsEvents, EventTimes DEF Events
<1>3. \A f \in Flow : started'[f] <=> f \in ToSet(flows)
  <2>1. \A f \in Flow : ~started[f] /\ (f \in ToSet(flows) <=> list[f] # << >>)
    BY <1>1 DEF Inv, Waiting, Begins
  <2>2. started' = [f \in Flow |-> started[f] \/ list[f] # << >>]
    BY DEF Begins, StartLists
  <2> QED
    BY <2>1, <2>2
<1>4. ASSUME NEW o \in Owner
      PROVE  /\ Row(list[o], EventTime) /\ next'[o] \in Elements(list[o]) \cup {NoEvent}
             /\ Done(list[o], next'[o]) = Passed(o)
             /\ next'[o] # NoEvent => /\ TimerOffset(o)' = FromStart
                                      /\ event[next'[o]].time > offset
             /\ \A e \in Passed(o) : /\ e \in DOMAIN event /\ e \in Elements(list[o])
                                     /\ event[e].time <= FromStart
                                     /\ event[e].time <= offset
  <2>1. /\ Row(list[o], EventTime) /\ next'[o] \in Elements(list[o]) \cup {NoEvent}
        /\ Done(list[o], next'[o]) = Passed(o)
        /\ next'[o] # NoEvent => TimerOffset(o)' = FromStart /\ event[next'[o]].time > offset
        /\ \A e \in Passed(o) : event[e].time <= offset
    BY <1>1, BeginsTimers, FirstOf DEF Inv, Listed
  <2>2. \A e \in Passed(o) : e \in Elements(list[o])
    BY <2>1, Divided
  <2>3. \A e \in Elements(list[o]) : e \in DOMAIN event
    BY <1>1, PassedTimes
  <2>4. offset # NoOffset => FromStart = offset
    BY DEF FromStart
  <2>5. \A e \in Passed(o) : event[e].time \in Nat /\ event[e].time <= offset
    BY <1>2, <2>1, <2>2, <2>3
  <2>6. \A e \in Passed(o) : event[e].time <= FromStart
    BY <1>1, <2>4, <2>5 DEF NoOffset
  <2> QED
    BY <2>1, <2>2, <2>3, <2>6
<1>5. Synchronous'
  <2>1. ASSUME NEW i \in DOMAIN flows, NEW j \in DOMAIN flows PROVE started'[flows[i]]
    <3>1. flows[i] \in ToSet(flows) /\ flows[i] \in Flow
      BY <1>1, LenProperties DEF ToSet, Typed
    <3> QED
      BY <1>3, <3>1
  <2>2. ASSUME NEW f \in Flow, ScriptDue(f)'
        PROVE  /\ started'[f] /\ TimerOffset(f)' = FromStart
    <3>1. f \in Owner
      BY DEF Owner
    <3>2. PICK e \in Due(list[f], next'[f]) : TRUE
      BY <1>1, <2>2 DEF ScriptDue
    <3>3. next'[f] # NoEvent /\ e \in Elements(list[f])
      BY <1>4, <3>1, <3>2, Divided
    <3>4. list[f] # << >>
      <4>1. PICK i \in 1..Len(list[f]) : TRUE
        BY <3>3 DEF Elements, Part
      <4> QED
        BY <4>1
    <3>5. started'[f]
      BY <3>4 DEF Begins, StartLists
    <3> QED
      BY <1>4, <3>1, <3>3, <3>5
  <2>3. \A o \in Owner : next'[o] # NoEvent => TimerOffset(o)' = FromStart
    BY <1>4
  <2>4. \A e \in Done(list'[Drec], next'[Drec]) : event'[e].time <= FromStart
    <3>1. Drec \in Owner
      BY DEF Owner
    <3> QED
      BY <1>1, <1>2, <1>4, <3>1 DEF Begun
  <2> QED
    BY <1>1, <1>3, <2>1, <2>2, <2>3, <2>4 DEF Synchronous
<1>6. ASSUME NEW e \in DOMAIN event PROVE Timely(e)'
  <2>1. PICK o \in Owner : o = event[e].owner
    BY <1>2
  <2>2. FromStart \in Nat
    BY <1>1, BaseOf
  <2>3. PICK t \in Nat : t = event[e].time
    BY <1>2
  <2>4. /\ event'[e].time = t /\ event'[e].owner = o
        /\ IF e \in Passed(o) THEN event'[e].at = now ELSE event'[e].at = Never
        /\ event'[e].expected = now + Max({0, t - FromStart})
    BY <1>2, <2>1, <2>3 DEF Begun
  <2>5. Max({0, t - FromStart}) = IF 0 > t - FromStart THEN 0 ELSE t - FromStart
    BY <2>2, GreaterOf
  <2>6. e \in Passed(o) <=> e \notin Due(list[o], next'[o])
    BY <1>2, <1>4, <2>1, Divided
  <2>7. CASE e \in Passed(o)
    <3>1. t <= FromStart
      BY <1>4, <2>3, <2>7
    <3>2. Max({0, t - FromStart}) = 0
      BY <2>2, <2>5, <3>1
    <3>3. event'[e].expected = now /\ event'[e].at = now /\ now # Never
      BY <1>1, <2>4, <2>7, <3>2 DEF Never
    <3>4. e \notin Due(list'[o], next'[o])
      BY <1>1, <2>6, <2>7
    <3> QED
      BY <2>4, <3>3, <3>4 DEF Timely
  <2>8. CASE e \notin Passed(o)
    <3>1. e \in Due(list[o], next'[o]) /\ next'[o] # NoEvent
      BY <1>4, <2>6, <2>8, Divided
    <3>2. next'[o] \in DOMAIN event /\ event[next'[o]].time > offset
      BY <1>1, <1>4, <3>1, PassedTimes
    <3>3. event[next'[o]].time <= t
      <4>1. /\ EventTime[e] = t /\ EventTime[next'[o]] = event[next'[o]].time
            /\ event[next'[o]].time \in Nat
        BY <1>1, <1>2, <2>3, <3>2, EventTimes
      <4>2. e # next'[o] => EventTime[next'[o]] <= EventTime[e]
        BY <1>4, <3>1, Divided
      <4> QED
        BY <2>3, <4>1, <4>2
    <3>4. t > offset
      <4> DEFINE u == event[next'[o]].time
      <4>1. u \in Nat /\ u > offset /\ u <= t
        BY <1>2, <3>2, <3>3
      <4> HIDE DEF u
      <4> QED
        BY <1>1, <4>1
    <3>5. t >= FromStart
      BY <1>1, <3>4 DEF FromStart, NoOffset
    <3>6. Max({0, t - FromStart}) = t - FromStart
      BY <2>2, <2>5, <3>5
    <3>7. TimerOffset(o)' = FromStart
      BY <1>4, <3>1
    <3>8. now + (t - FromStart) # Never
      BY <1>1, <2>2, <3>5 DEF Never
    <3>9. /\ event'[e].expected # Never /\ event'[e].at = Never
          /\ event'[e].expected = now' + (event'[e].time - TimerOffset(o)')
          /\ e \in Due(list'[o], next'[o])
      BY <1>1, <2>4, <2>8, <3>1, <3>6, <3>7, <3>8
    <3> QED
      BY <2>4, <3>9 DEF Timely, TimerOffset
  <2> QED
    BY <2>7, <2>8
<1>7. Prompt'
  BY <1>1, <1>2, <1>6 DEF Prompt
<1> QED
  BY <1>5, <1>7

\* A script that is read has no times yet.
LEMMA ParseTime ==
  ASSUME Orderly, PromptInv, NEW o \in Owner, NEW t \in Times \cup {Immediate}, Parse(o, t)
  PROVE  Synchronous' /\ Prompt'
<1> DEFINE time == ParsedTime(t)
           r == Record(o, time, Never, Never)
<1>1. /\ Typed /\ ~stopped /\ ~ReallyStarted /\ event' = Append(event, r)
      /\ UNCHANGED <<timerVars, stopped>>
  BY DEF PromptInv, Inv, Parse
<1>2. ~ReallyStarted'
  BY <1>1 DEF timerVars, ReallyStarted
<1>3. time \in Nat
  <2>1. t \in Int
    BY DEF Orderly, Immediate
  <2>2. time = IF t > 0 THEN t ELSE 0
    BY <2>1, GreaterOf DEF ParsedTime
  <2> QED
    BY <2>1, <2>2
<1> HIDE DEF time
<1>4. r \in Events /\ r.expected = Never /\ r.at = Never
  BY <1>1, <1>3 DEF Record, Events, Never
<1> HIDE DEF r
<1>5. /\ DOMAIN event' = DOMAIN event \cup {NextId}
      /\ \A e \in DOMAIN event : event'[e] = event[e]
      /\ event'[NextId] = r
  BY <1>1, <1>4, EventAppended
<1>6. \A e \in DOMAIN event : event[e].expected = Never /\ event[e].at = Never
  BY <1>1 DEF PromptInv, Prompt
<1>7. \A e \in DOMAIN event' : event'[e].expected = Never /\ event'[e].at = Never
  BY <1>4, <1>5, <1>6
<1> QED
  BY <1>2, <1>7 DEF Synchronous, Prompt

\* While nothing happens, all clocks go on alike.
LEMMA TickTime ==
  ASSUME Orderly, PromptInv, Tick
  PROVE  Synchronous' /\ Prompt'
<1>1. /\ Inv /\ Typed /\ now' = now + 1 /\ now \in Nat
      /\ event' = event /\ list' = list /\ next' = next /\ timer' = timer
      /\ flows' = flows /\ started' = started /\ stopped' = stopped
      /\ (ReallyStarted <=> ReallyStarted')
  BY DEF PromptInv, Inv, Typed, Tick, listVars, ReallyStarted
<1>2. ASSUME NEW o \in Owner, next[o] # NoEvent
      PROVE  TimerOffset(o) \in Int /\ TimerOffset(o)' = TimerOffset(o) + 1
  <2>1. TimerOffset(o) \in Int
    BY <1>1, <1>2, OffsetsTyped
  <2>2. timer[o] \in Nat
    BY <1>1, <1>2 DEF Inv, Ticking, Typed
  <2>3. event[next[o]].time \in Nat
    BY <1>1, <1>2, PassedTimes DEF Inv, Listed
  <2>4. TimerOffset(o)' = event[next[o]].time - (timer[o] - (now + 1))
    BY <1>1 DEF TimerOffset
  <2>5. TimerOffset(o) = event[next[o]].time - (timer[o] - now)
    BY DEF TimerOffset
  <2> QED
    BY <1>1, <2>1, <2>2, <2>3, <2>4, <2>5
<1>3. ASSUME NEW o \in Owner, NEW e \in Due(list[o], next[o])
      PROVE  next[o] # NoEvent /\ e \in DOMAIN event /\ event[e].time \in Nat
  <2>1. Row(list[o], EventTime) /\ next[o] \in Elements(list[o]) \cup {NoEvent}
    BY <1>1 DEF Inv, Listed
  <2>2. next[o] # NoEvent /\ e \in Elements(list[o])
    BY <1>3, <2>1, Divided
  <2> QED
    BY <1>1, <2>2, PassedTimes
<1>4. Synchronous'
  <2>1. SUFFICES ASSUME ReallyStarted PROVE Synchronous'
    BY <1>1 DEF Synchronous
  <2>2. ASSUME NEW f \in Flow, ScriptDue(f)'
        PROVE  /\ started[f]
               /\ \A o \in Owner : next[o] # NoEvent /\ (o = Drec \/ started[o]) =>
                    TimerOffset(o)' = TimerOffset(f)'
               /\ \A e \in Done(list[Drec], next[Drec]) : event[e].time <= TimerOffset(f)'
    <3>1. ScriptDue(f) /\ f \in Owner /\ Drec \in Owner
      BY <1>1, <2>2 DEF ScriptDue, Owner
    <3>2. /\ next[f] # NoEvent /\ started[f]
          /\ \A o \in Owner : next[o] # NoEvent /\ (o = Drec \/ started[o]) =>
               TimerOffset(o) = TimerOffset(f)
          /\ \A e \in Done(list[Drec], next[Drec]) : event[e].time <= TimerOffset(f)
      BY <2>1, <3>1, SynchronousCurrent
    <3>3. TimerOffset(f) \in Int /\ TimerOffset(f)' = TimerOffset(f) + 1
      BY <1>2, <3>1, <3>2
    <3>4. \A e \in Done(list[Drec], next[Drec]) : event[e].time \in Nat
      BY <1>1, <3>1, PassedTimes, EventTimes DEF Events
    <3>5. \A e \in Done(list[Drec], next[Drec]) : event[e].time <= TimerOffset(f)'
      BY <3>2, <3>3, <3>4
    <3> QED
      BY <1>2, <3>2, <3>3, <3>5
  <2> QED
    BY <1>1, <2>1, <2>2 DEF PromptInv, Synchronous
<1>5. Prompt'
  <2>1. SUFFICES ASSUME ReallyStarted, NEW e \in DOMAIN event,
                        event[e].owner = Drec \/ event[e].scripted
                 PROVE  Timely(e)'
    BY <1>1 DEF PromptInv, Prompt
  <2>2. PICK o \in Owner : o = event[e].owner
    BY <1>1, <2>1, EventTimes DEF Events
  <2>3. /\ event[e].expected # Never
        /\ IF e \in Due(list[o], next[o])
           THEN event[e].at = Never /\ event[e].expected = now + (event[e].time - TimerOffset(o))
           ELSE event[e].at = event[e].expected
    BY <2>1, <2>2 DEF PromptInv, Prompt, Timely
  <2>4. ASSUME e \in Due(list[o], next[o])
        PROVE  now + (event[e].time - TimerOffset(o)) = now' + (event[e].time - TimerOffset(o)')
    <3>1. /\ TimerOffset(o) \in Int /\ TimerOffset(o)' = TimerOffset(o) + 1
          /\ event[e].time \in Nat
      BY <1>2, <1>3, <2>4
    <3> QED
      BY <1>1, <3>1
  <2>5. /\ event'[e].owner = o /\ event'[e].expected # Never
        /\ IF e \in Due(list'[o], next'[o])
           THEN /\ event'[e].at = Never
                /\ event'[e].expected = now' + (event'[e].time - TimerOffset(o)')
           ELSE event'[e].at = event'[e].expected
    BY <1>1, <2>2, <2>3, <2>4
  <2> QED
    BY <2>5 DEF Timely, TimerOffset
<1> QED
  BY <1>4, <1>5
-------------------------------------------------------------------------------
\* The invariant of ExecutedOnTime holds at first, and every step keeps it.
LEMMA InitPrompt == ASSUME Orderly, Init PROVE PromptInv
<1>1. ~ReallyStarted /\ event = << >> /\ DOMAIN event = {}
  BY DEF Init, ReallyStarted
<1> QED
  BY <1>1, InitInv DEF PromptInv, Synchronous, Prompt

\* Every step of the schedule keeps PromptInv.
LEMMA NextPrompt == ASSUME Orderly, PromptInv, [Next]_vars PROVE PromptInv'
<1>1. Inv /\ Inv'
  BY NextInv DEF PromptInv
<1>2. ASSUME NEW f \in Flow, NEW t \in Times \cup {Immediate}, Parse(f, t) \/ CommandFlow(f, t)
      PROVE  PromptInv'
  BY <1>1, <1>2, ParseTime, CommandFlowOwn, CommandFlowTime, KeepsTimePrompt DEF Owner, PromptInv
<1>3. ASSUME NEW t \in Times \cup {Immediate}, Parse(Drec, t) \/ CommandDrec(t)
      PROVE  PromptInv'
  BY <1>1, <1>3, ParseTime, CommandDrecOwn, CommandDrecTime, KeepsTimePrompt DEF Owner, PromptInv
<1>4. ASSUME NEW f \in Flow, NEW delay \in RetryDelays, ScheduleReconnect(f, delay)
      PROVE  PromptInv'
  BY <1>1, <1>4, ScheduleReconnectOwn, ScheduleReconnectTime, KeepsTimePrompt DEF Owner
<1>5. CASE StartImmediately \/ OnStartTimeout
  BY <1>1, <1>5, StartsBegin, BeginsTime DEF PromptInv
<1>6. ASSUME NEW o \in Owner, OnTimeout(o) PROVE PromptInv'
  BY <1>1, <1>6, OnTimeoutOwn, OnTimeoutTime, KeepsTimePrompt
<1>7. ASSUME NEW delay \in StartDelays, StartAt(delay) PROVE PromptInv'
  <2>1. /\ ~ReallyStarted /\ startTimer' = now + delay
        /\ event' = event /\ stopped' = stopped
        /\ delay \in Nat /\ now \in Nat
    BY <1>1, <1>7 DEF StartAt, Inv, Typed, Orderly, listVars
  <2>2. startTimer' # Never
    BY <2>1 DEF Never
  <2> QED
    BY <1>1, <2>1, <2>2 DEF PromptInv, Synchronous, Prompt, ReallyStarted
<1>8. CASE Stop
  BY <1>1, <1>8 DEF Stop, PromptInv, Synchronous, Prompt, ReallyStarted
<1>9. CASE Tick
  BY <1>1, <1>9, TickTime DEF PromptInv
<1>10. CASE UNCHANGED vars
  BY <1>1, <1>10 DEF vars, timerVars, listVars, PromptInv, Synchronous, Prompt, Timely, ScriptDue,
     ReallyStarted, TimerOffset
<1> QED
  BY <1>2, <1>3, <1>4, <1>5, <1>6, <1>7, <1>8, <1>9, <1>10 DEF Next, Insert, Timeouts

\* An event of the script is executed at its time from the start, a reception event of a
\* command after the delay it asks for, although the time is read off whatever timer runs
\* (ParseEvent, GetCurrentOffset, InsertEvent, Start, OnEventTimeout).
THEOREM ExecutedOnTime == ASSUME Orderly PROVE Spec => []OnTime
<1>1. PromptInv => OnTime
  <2>1. SUFFICES ASSUME PromptInv, NEW e \in DOMAIN event,
                        event[e].owner = Drec \/ event[e].scripted,
                        event[e].expected # Never, ~stopped
                 PROVE  IF event[e].at = Never THEN now <= event[e].expected
                        ELSE event[e].at = event[e].expected
    BY DEF OnTime, Punctual
  <2>2. ReallyStarted
    BY <2>1 DEF PromptInv, Prompt
  <2>3. Timely(e)
    BY <2>1, <2>2 DEF PromptInv, Prompt
  <2>4. Inv /\ Typed /\ now \in Nat
    BY <2>1 DEF PromptInv, Inv, Typed
  <2>5. PICK o \in Owner : o = event[e].owner
    BY <2>1, <2>4, EventTimes DEF Events
  <2>6. CASE e \in Due(list[o], next[o])
    <3>1. /\ Row(list[o], EventTime) /\ next[o] \in Elements(list[o]) \cup {NoEvent}
      BY <2>4 DEF Inv, Listed
    <3>2. next[o] # NoEvent
      BY <2>6, <3>1, Divided
    <3>3. /\ event[next[o]].time \in Nat /\ EventTime[next[o]] = event[next[o]].time
          /\ event[e].time \in Nat /\ EventTime[e] = event[e].time
      BY <2>1, <2>4, <3>1, <3>2, PassedTimes, EventTimes DEF Events
    <3>4. event[next[o]].time <= event[e].time
      <4>1. e # next[o] => EventTime[next[o]] <= EventTime[e]
        BY <2>6, <3>1, <3>2, Divided
      <4> QED
        BY <3>3, <4>1
    <3>5. timer[o] \in Nat /\ timer[o] >= now
      BY <2>4, <3>2 DEF Inv, Ticking, Typed
    <3>6. /\ event[e].at = Never
          /\ event[e].expected = now + (event[e].time - (event[next[o]].time - (timer[o] - now)))
      BY <2>3, <2>5, <2>6 DEF Timely, TimerOffset
    <3> QED
      BY <2>4, <3>3, <3>4, <3>5, <3>6
  <2>7. CASE e \notin Due(list[o], next[o])
    BY <2>1, <2>3, <2>5, <2>7 DEF Timely
  <2> QED
    BY <2>6, <2>7
<1>2. Init => PromptInv
  BY InitPrompt
<1>3. PromptInv /\ [Next]_vars => PromptInv'
  BY NextPrompt
<1> QED
  BY <1>1, <1>2, <1>3, PTL DEF Spec
================================================================================
