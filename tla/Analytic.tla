------------------------------- MODULE Analytic -------------------------------
(***************************************************************************)
(* MgenAnalytic: what a receiver measures of one flow.  Mgen hands it each *)
(* message that arrives (UpdateRecvAnalytics); the first one opens a       *)
(* window, and one that comes at its end or later closes it, makes a report*)
(* and opens the next.  Time is in ticks, message n is sent at tick n, and *)
(* every message has one byte.  The network may lose, delay, reorder and   *)
(* duplicate messages.                                                     *)
(*                                                                         *)
(* Sequence numbers wrap at Modulus.  The sliding mask of numbers seen is  *)
(* external (ProtoSlidingMask): the set of the bits in it, which span less *)
(* than History.  log and bounds are history variables: what has arrived,  *)
(* and which arrivals opened windows.  Update without a message (a timeout)*)
(* is never called and is left out.                                        *)
(***************************************************************************)
EXTENDS Integers, Sequences, FiniteSetsExt

CONSTANTS Modulus,        \* of sequence numbers, 2^32 in the code
          FirstNumber,    \* the sequence number of the first message
          Messages,       \* how many messages are sent
          History,        \* history_depth
          Window,         \* window_size
          Waits,          \* ticks between two arrivals
          Skew,           \* what the clock of the receiver is behind
          MaxLag,         \* most numbers that a message is behind the newest
          MaxArrivals     \* bound of an instance

ASSUME AnalyticAssumption ==
  /\ Modulus \in Nat \ {0} /\ FirstNumber \in 0..(Modulus - 1)
  /\ Messages \in 1..(Modulus \div 2)
  /\ History \in 1..(Modulus \div 2)
  /\ Window \in Nat \ {0}
  /\ Waits \subseteq Nat
  /\ Skew \in Nat
  /\ MaxLag \in Nat
  /\ MaxArrivals \in Nat

VARIABLES analytic, report, now, log, bounds

vars == <<analytic, report, now, log, bounds>>

Unopened == [count |-> 0]
NoReport == [count |-> 0]

Init ==
  /\ analytic = Unopened
  /\ report = NoReport
  /\ now = 0
  /\ log = << >>
  /\ bounds = << >>

-------------------------------------------------------------------------------
(***************************************************************************)
(* The sliding mask.                                                       *)
(***************************************************************************)
SeqNum(n) == (FirstNumber + n) % Modulus

Difference(x, y) ==
  LET d == (x - y) % Modulus IN IF d < Modulus \div 2 THEN d ELSE d - Modulus

FirstSet(mask) == CHOOSE x \in mask : \A y \in mask : Difference(y, x) >= 0
LastSet(mask) == CHOOSE x \in mask : \A y \in mask : Difference(x, y) >= 0
CanSet(mask, seq) == \A x \in mask : Difference(seq, x) < History /\ Difference(x, seq) < History
UnsetBits(mask, first, numBits) == {x \in mask : (x - first) % Modulus >= numBits % Modulus}

\* Update makes room by moving the mask up to the new number, and so clears it.
Marked(mask, seq) ==
  IF CanSet(mask, seq) THEN mask \cup {seq}
  ELSE UnsetBits(mask, FirstSet(mask), Difference(seq, FirstSet(mask))) \cup {seq}

-------------------------------------------------------------------------------
(***************************************************************************)
(* A message of the window.  forgotten and recounted are history: numbers  *)
(* that were cleared, and whether one of them was taken for new again.     *)
(***************************************************************************)
Opened(seq, rxTime, latency) ==
  [start |-> rxTime, end |-> rxTime + Window, count |-> 1, bytes |-> 1, dups |-> 0,
   seqStart |-> seq, mask |-> {seq}, sum |-> latency, min |-> latency, max |-> latency,
   forgotten |-> {}, recounted |-> FALSE]

Duplicate(a, seq) == seq \in a.mask

\* Mutant: the number that opened the window counts as before it.
PrecedesLate(a, seq) == Difference(seq, a.seqStart) < -1

Precedes(a, seq) == Difference(seq, a.seqStart) < 0

Mark(a, seq) ==
  [a EXCEPT !.mask = Marked(@, seq),
            !.forgotten = @ \cup (a.mask \ Marked(a.mask, seq)),
            !.recounted = @ \/ seq \in a.forgotten]

Counted(a, latency) ==
  [a EXCEPT !.count = @ + 1,
            !.bytes = IF a.count = 1 THEN 1 ELSE @ + 1,
            !.sum = @ + latency,
            !.min = Min({@, latency}),
            !.max = Max({@, latency})]

New(a, seq) == ~Duplicate(a, seq) /\ ~Precedes(a, seq)

Arrival(a, seq, latency) ==
  IF Duplicate(a, seq) THEN [a EXCEPT !.dups = @ + 1]
  ELSE IF Precedes(a, seq) THEN [a EXCEPT !.mask = IF CanSet(@, seq) THEN @ \cup {seq} ELSE @]
  ELSE Counted(Mark(a, seq), latency)

(***************************************************************************)
(* The end of a window: the report, the fields of its message, and the next*)
(* window.  The message that closes it opens the next one, with latency 0  *)
(* if it was not new.                                                      *)
(***************************************************************************)
SeqDelta(a) == (LastSet(a.mask) - a.seqStart) % Modulus

Report(a, rxTime) ==
  [count |-> IF a.count = 1 THEN 1 ELSE a.count - 1,
   bytes |-> a.bytes,
   lost |-> IF a.count = 1 \/ SeqDelta(a) <= 1 THEN 0 ELSE SeqDelta(a) + 1 - a.count,
   expected |-> SeqDelta(a) + 1,
   duration |-> rxTime - a.start,
   sum |-> a.sum, samples |-> a.count, min |-> a.min, max |-> a.max]

NextWindow(a, rxTime, latency) ==
  [a EXCEPT !.start = rxTime, !.end = rxTime + Window,
            !.seqStart = LastSet(a.mask),
            !.bytes = 0, !.count = 1,
            !.sum = latency, !.min = latency, !.max = latency]

\* Message n arrives at rxTime.
Update(n, rxTime) ==
  LET latency == rxTime - Skew - n
      a == Arrival(analytic, SeqNum(n), latency)
  IN IF analytic = Unopened
     THEN /\ analytic' = Opened(SeqNum(n), rxTime, latency)
          /\ bounds' = <<1>>
          /\ UNCHANGED report
     ELSE IF rxTime < analytic.end
     THEN /\ analytic' = a
          /\ UNCHANGED <<report, bounds>>
     ELSE /\ report' = Report(a, rxTime)
          /\ analytic' = NextWindow(a, rxTime, IF New(analytic, SeqNum(n)) THEN latency ELSE 0)
          /\ bounds' = Append(bounds, Len(log) + 1)

\* The newest message of the first i arrivals.
Newest(i) == Max({log[j].number : j \in 1..i})

Receive ==
  \E wait \in Waits, n \in 0..(Messages - 1) :
    /\ Len(log) < MaxArrivals
    /\ n <= now + wait
    /\ log # << >> => n >= Newest(Len(log)) - MaxLag
    /\ now' = now + wait
    /\ log' = Append(log, [number |-> n, latency |-> now + wait - Skew - n])
    /\ Update(n, now + wait)

Next == Receive

Spec == Init /\ [][Next]_vars

-------------------------------------------------------------------------------
(***************************************************************************)
(* What the last report is about, from the history alone: the window that  *)
(* arrival From opened and arrival To closed.                              *)
(***************************************************************************)
From == bounds[Len(bounds) - 1]
To == bounds[Len(bounds)]

FirstCopy(i) == \A j \in 1..(i - 1) : log[j].number # log[i].number

\* The arrivals after from, up to to, that are new.
NewArrivals(from, to) == {i \in (from + 1)..to : FirstCopy(i) /\ log[i].number > Newest(from)}

\* Numbers that count for the window, or would have if they had arrived.
Missing ==
  {n \in Newest(From)..Newest(To) : \A i \in 1..To : log[i].number # n}

Reliable == report # NoReport /\ ~analytic.recounted

\* A report counts the messages, and the bytes, that were new in its window,
\* whatever duplicates and late messages came between; a window without any is
\* reported as one message.
CountsExact ==
  Reliable =>
    LET new == Cardinality(NewArrivals(From, To))
    IN /\ report.count = Max({1, new})
       /\ report.bytes = IF From = 1 THEN Max({1, new}) ELSE new

\* A report finds lost exactly the numbers that have not arrived, from the
\* newest of the windows before to the newest of its own.
LossExact ==
  Reliable =>
    /\ report.lost = Cardinality(Missing)
    /\ report.expected = Newest(To) - Newest(From) + 1

\* The latencies reported are those of the new messages and of the one that
\* opened the window, if that was new itself.
OpenedNew == From = 1 \/ From \in NewArrivals(bounds[Len(bounds) - 2], From)

LatenciesExact ==
  Reliable /\ OpenedNew =>
    LET latencies == {log[i].latency : i \in NewArrivals(From, To) \cup {From}}
    IN report.min = Min(latencies) /\ report.max = Max(latencies)

\* What a window reports is what arrived while it was open.
ReportsExact == CountsExact /\ LossExact /\ LatenciesExact
================================================================================
